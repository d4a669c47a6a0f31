----------------------------- MODULE PpmLearning -----------------------------
(***************************************************************************)
(* Ppm with a history variable: how often the branch updated last has gone *)
(* the same way in a row.  Used for what the tables learn.                 *)
(***************************************************************************)
EXTENDS Ppm, Powers

CONSTANTS
    HistoryBits,    \* 80
    MaxSteady       \* bound: repetitions that are counted

ASSUME HistoryAssumption ==
    HistoryBits \in Nat \ {0} /\ HistoryRange = TwoTo[HistoryBits]

VARIABLE steady

LearningVars == <<vars, steady>>

LearningInit ==
    /\ Init
    /\ \E record \in Record : steady = [record |-> record, length |-> 0]

Steadier(record) ==
    IF record = steady.record /\ steady.length > 0
      THEN [steady EXCEPT !.length = IF @ < MaxSteady THEN @ + 1 ELSE @]
      ELSE [record |-> record, length |-> 1]

LearningNext ==
    /\ Next
    /\ steady' = IF Updating THEN Steadier(Head(unresolved)) ELSE steady

LearningSpec == LearningInit /\ [][LearningNext]_LearningVars

\* Once the history shows nothing but a branch that keeps its direction, each
\* misprediction moves it to a longer table, or, in the longest, its counter by
\* one.
LearningTime == HistoryBits + (IF Half > Tables THEN Half ELSE Tables + 1)

\* A branch that keeps its direction is predicted after that time, whatever
\* entries, tags and useful bits earlier branches left behind.
SteadyBranchIsLearnt ==
    steady.length >= LearningTime =>
      PredictionOf(steady.record.address, history) = steady.record.taken
=============================================================================
