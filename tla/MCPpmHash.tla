------------------------------ MODULE MCPpmHash ------------------------------
(***************************************************************************)
(* PpmHash for TLC, with the lengths and widths of the code.               *)
(***************************************************************************)
EXTENDS PpmHash

\* Bits 3 and 13 cancel in an index; no index or tag looks at bit 40.
MCAddresses == {{3, 13, 40}}
=============================================================================
