------------------------------ MODULE MCMeter -------------------------------
(***************************************************************************)
(* Meter for TLC: two cost tables, hardware at several sizes, two delays.  *)
(***************************************************************************)
EXTENDS Meter

CONSTANTS add, select, unset

MCOperations == {add, select}

Priced(energy, leakage, space, time) ==
    [switching_energy |-> energy, leakage_energy |-> leakage,
     area_space |-> space, latency_ticks |-> time]

\* One table prices everything, the other leaves the adder's leakage out.
MCCostTables ==
    {[op \in MCOperations |->
        IF op = add THEN Priced(1, 1, 3, 2) ELSE Priced(1, 1, 1, 1)],
     [op \in MCOperations |->
        IF op = add THEN Priced(1, unset, 3, 2) ELSE Priced(1, 1, 2, 1)]}

\* Two widths of one operation; a free, a two-way and a four-way multiplexer.
MCHardware == {<<add, 8>>, <<add, 64>>, <<select, 0>>, <<select, 2>>, <<select, 4>>}
=============================================================================
