-------------------------------- MODULE MCPpm --------------------------------
(***************************************************************************)
(* Ppm for TLC: three tagged tables of one entry, counters of one bit, a   *)
(* history of two directions.  Two branches share every entry; the first   *)
(* table's tags depend on the last direction, the third's on the one       *)
(* before, the second's on both and on no address.                         *)
(***************************************************************************)
EXTENDS Ppm

MCBaseIndex(address) == 0
MCIndex(t, address, hist) == 0
MCTag(t, address, hist) ==
    CASE t = 1 -> (address + hist) % 2
      [] t = 2 -> (hist + (hist \div 2)) % 2
      [] t = 3 -> (address + (hist \div 2)) % 2
MCSalt(address, hist) == address + hist
=============================================================================
