------------------------------ MODULE Pipeline ------------------------------
(***************************************************************************)
(* What the documentation of Config and Simulator promises a predictor     *)
(* about a run, as three counters: how far prediction, training and        *)
(* scoring have come.  There is no queue, no drain and no phase here.      *)
(***************************************************************************)
EXTENDS Integers

CONSTANTS
    Jobs,           \* [length, warmup, speculations] of the runs
    NoJob

VARIABLES
    job,            \* the run in progress, or NoJob
    predicted,      \* records predicted
    trained,        \* records trained on, always the oldest ones
    scored          \* predictions scored

vars == <<job, predicted, trained, scored>>

Init == job = NoJob /\ predicted = 0 /\ trained = 0 /\ scored = 0

Begin(next) ==
    /\ job = NoJob
    /\ job' = next
    /\ predicted' = 0 /\ trained' = 0 /\ scored' = 0

\* A record is predicted while no more than the allowed number of earlier ones
\* are unresolved, and the first record after warmup only when none is.  A
\* prediction is scored when it is made, unless it belongs to warmup.
Predict ==
    /\ job # NoJob
    /\ predicted < job.length
    /\ predicted - trained <= job.speculations
    /\ predicted = job.warmup => trained = predicted
    /\ predicted' = predicted + 1
    /\ scored' = IF predicted < job.warmup THEN scored ELSE scored + 1
    /\ UNCHANGED <<job, trained>>

\* Training lags: a record is resolved only when one too many are unresolved,
\* when warmup is over, or when the trace is.
Train ==
    /\ job # NoJob
    /\ trained < predicted
    /\ \/ predicted - trained > job.speculations
       \/ predicted = job.warmup
       \/ predicted = job.length
    /\ trained' = trained + 1
    /\ UNCHANGED <<job, predicted, scored>>

End ==
    /\ job # NoJob
    /\ predicted = job.length /\ trained = job.length
    /\ job' = NoJob
    /\ UNCHANGED <<predicted, trained, scored>>

\* The predictor panicked.
Abort ==
    /\ job # NoJob
    /\ job' = NoJob
    /\ UNCHANGED <<predicted, trained, scored>>

Advance == Predict \/ Train \/ End \/ Abort

Next == Advance \/ \E next \in Jobs : Begin(next)

Spec == Init /\ [][Next]_vars /\ WF_vars(Advance)
=============================================================================
