----------------------------- MODULE MCSimulator -----------------------------
(***************************************************************************)
(* Simulator for TLC: the constants of its runs, and a statement of the      *)
(* documentation that the code departs from.                               *)
(***************************************************************************)
EXTENDS Simulator, SequencesExt

CONSTANTS add, select, unset, none, here, there

MCOperations == {add, select}

Priced(energy, leakage, space, time) ==
    [switching_energy |-> energy, leakage_energy |-> leakage,
     area_space |-> space, latency_ticks |-> time]

PricedCosts ==
    [op \in MCOperations |-> IF op = add THEN Priced(2, 1, 3, 2) ELSE Priced(1, 1, 1, 1)]

\* Nobody expected the predictor to add.
UnpricedCosts == [PricedCosts EXCEPT ![add] = Priced(2, unset, 3, 2)]

Single(delay, taken, target) == <<[delay |-> delay, taken |-> taken, target |-> target]>>

Always == [taken |-> TRUE, next |-> here]

Traces_upto(n, records) == UNION {[1..m -> records] : m \in 0..n}

Configs_upto(w, s) == [warmup : 0..w, speculations : 0..s]

(***************************************************************************)
(* Timing: every trace length, warmup and depth up to a little more than   *)
(* the longest trace.  The predictor always says the same and does nothing *)
(* but open a group or panic, at any point of the run.                     *)
(***************************************************************************)
TimingTraces == Traces_upto(4, {Always})
TimingConfigs == Configs_upto(5, 5)
TimingOutcomes == {Single(0, TRUE, here)}
TimingTables == {UnpricedCosts}
TimingHardware == {<<add, 8>>}

(***************************************************************************)
(* Leakage: callbacks that work, with a price for all they do.             *)
(***************************************************************************)
LeakageTraces == Traces_upto(2, {Always})
LeakageConfigs == Configs_upto(1, 1)
LeakageTables == {PricedCosts}
LeakageHardware == {<<add, 8>>, <<select, 2>>}
LeakageOutcomes == {Single(0, TRUE, there), <<>>}

-----------------------------------------------------------------------------
(***************************************************************************)
(* What the documentation says and the code does not do.                   *)
(***************************************************************************)

=============================================================================
