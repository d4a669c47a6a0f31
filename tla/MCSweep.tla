------------------------------- MODULE MCSweep -------------------------------
(***************************************************************************)
(* Sweep for TLC: grids of different shapes, with predictors that compute  *)
(* in their constructor, or fail, in warmup or after it.                   *)
(***************************************************************************)
EXTENDS Sweep

CONSTANTS a, b, none

Source(name, length) == [trace |-> name, length |-> length]
Warmup(n) == [warmup |-> n, speculations |-> 0]
Plain == [name |-> "plain", computes |-> FALSE, fails |-> FALSE]
Failing == [name |-> "failing", computes |-> FALSE, fails |-> TRUE]
Computing == [name |-> "computing", computes |-> TRUE, fails |-> FALSE]

MCSources == {Source("short", 1), Source("long", 2), Source("empty", 0)}
MCConfigs == {Warmup(0), Warmup(1)}
MCPredictors == {Plain, Failing, Computing}

FailingGrid ==
    [sources |-> <<Source("long", 2)>>, configs |-> <<Warmup(1)>>,
     predictors |-> <<Failing, Plain>>]

ComputingGrid ==
    [sources |-> <<Source("short", 1)>>, configs |-> <<Warmup(0), Warmup(1)>>,
     predictors |-> <<Plain, Computing>>]

EmptyGrid == [ComputingGrid EXCEPT !.sources = <<>>]

SmallGrids == {FailingGrid, ComputingGrid, EmptyGrid}

=============================================================================
