------------------------------ MODULE RunMany -------------------------------
(***************************************************************************)
(* What Simulator::run_many promises its caller: one metric per run of     *)
(* every source, configuration and predictor, ordered by source, then      *)
(* configuration, then predictor, whatever ran where and when.  A call     *)
(* answers with all of them at once, or panics.  There are no jobs, no     *)
(* threads and no ledgers here.                                            *)
(***************************************************************************)
EXTENDS Integers, Sequences

CONSTANTS
    Grids,          \* what run_many is called with
    None            \* no answer

VARIABLES
    grid,           \* the arguments of the last call
    calls,          \* calls so far
    answer,         \* what the last call returned, None while it has not
    spoilt          \* the calls that panicked

vars == <<grid, calls, answer, spoilt>>

Init ==
    /\ grid = [sources |-> <<>>, configs |-> <<>>, predictors |-> <<>>]
    /\ calls = 0
    /\ answer = <<>>
    /\ spoilt = {}

Waiting == answer = None /\ calls \notin spoilt

\* The caller may call again after a panic it has caught.
Call(g) ==
    /\ ~Waiting
    /\ grid' = g
    /\ calls' = calls + 1
    /\ answer' = None
    /\ UNCHANGED spoilt

Runs == Len(grid.sources) * (Len(grid.configs) * Len(grid.predictors))

\* Where the metric of a combination stands in the answer.
Place(s, c, p) ==
    ((s - 1) * (Len(grid.configs) * Len(grid.predictors)))
      + (((c - 1) * Len(grid.predictors)) + p)

\* The records scored in a run.
Due(s, c) ==
    IF grid.sources[s].length > grid.configs[c].warmup
      THEN grid.sources[s].length - grid.configs[c].warmup ELSE 0

\* The work that the metric at a place may count: always that of its run, priced
\* by the table of this call; that of building its predictor, if it computes, by
\* the table that the thread had.  A call that panicked may have left a thread's
\* metering off: the next predictor built there goes uncounted.
Work(place, part, table) == [sweep |-> calls, job |-> place, part |-> part, table |-> table]

Building(p, place, left) ==
    IF grid.predictors[p].computes
      THEN {{Work(place, "build", table)} : table \in 1..calls}
             \cup (IF left = {} THEN {} ELSE {{}})
      ELSE {{}}

\* The metric of a combination counts this work and what calls that panicked
\* left on its thread; if that is nothing, it has the predictions of its run.
IsMetric(metric, s, c, p) ==
    LET place == Place(s, c, p)
        left == {work \in metric.counted : work.sweep \in spoilt}
    IN  /\ \E building \in Building(p, place, left) :
             metric.counted \ left = building \cup {Work(place, "run", calls)}
        /\ metric.predictions >= Due(s, c)
        /\ left = {} => metric.predictions = Due(s, c)

Answer ==
    /\ Waiting /\ answer' # None
    /\ DOMAIN answer' = 1..Runs
    /\ \A s \in DOMAIN grid.sources, c \in DOMAIN grid.configs, p \in DOMAIN grid.predictors :
         IsMetric(answer'[Place(s, c, p)], s, c, p)
    /\ UNCHANGED <<grid, calls, spoilt>>

\* A run panics only over a predictor that executes an operation without a price,
\* in its constructor or for some record.
CanPanic(s, p) ==
    \/ grid.predictors[p].computes
    \/ grid.predictors[p].fails /\ grid.sources[s].length > 0

Panic ==
    /\ Waiting
    /\ \E s \in DOMAIN grid.sources, c \in DOMAIN grid.configs, p \in DOMAIN grid.predictors :
         CanPanic(s, p)
    /\ spoilt' = spoilt \cup {calls}
    /\ UNCHANGED <<grid, calls, answer>>

Next == Answer \/ Panic \/ \E g \in Grids : Call(g)

\* Every call comes to its end.
Spec == Init /\ [][Next]_vars /\ (Waiting ~> ~Waiting)
=============================================================================
