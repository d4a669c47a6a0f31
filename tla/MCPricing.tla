------------------------------ MODULE MCPricing ------------------------------
(***************************************************************************)
(* LscBtbRas and Pricing for TLC: six instructions of an address space of  *)
(* 24 bytes.  A branch and a return share a buffer entry, as do two calls; *)
(* each counter is shared by three; calls nest one deeper than the stack   *)
(* of two frames.  The cost table is the built-in one, with one price for  *)
(* all that it prices.                                                     *)
(***************************************************************************)
EXTENDS Pricing

CONSTANT unset

Branch(address, kind, taken, next) ==
    [address |-> address, kind |-> kind, taken |-> taken, next |-> next]

MCRecords ==
    {Branch(0, ConditionalDirect, TRUE, 8), Branch(0, ConditionalDirect, FALSE, 4),
     Branch(8, ConditionalDirect, FALSE, 12),
     Branch(4, CallDirect, TRUE, 16), Branch(20, CallIndirect, TRUE, 0),
     Branch(12, Return, TRUE, 8), Branch(16, Return, TRUE, 0)}

MCCostTable ==
    [op \in OperationNames |->
       [part \in {"switching_energy", "leakage_energy", "area_space", "latency_ticks"} |->
          IF op \in BuiltIn THEN 1 ELSE unset]]
=============================================================================
