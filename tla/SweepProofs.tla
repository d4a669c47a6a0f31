----------------------------- MODULE SweepProofs -----------------------------
(***************************************************************************)
(* What a sweep returns, for every pool, every grid and every order in     *)
(* which the threads take the jobs, and what main makes of it.             *)
(***************************************************************************)
EXTENDS Arbiter, Lemmas, TLAPS

Busy(w) == pc[w] # "free"
Running(w) == pc[w] \in {"warmup", "run"}

(***************************************************************************)
(* The inductive invariant.                                                *)
(***************************************************************************)
\* The domains of the functions, and the parts of a ledger.
Shape ==
    /\ DOMAIN pc = Workers /\ DOMAIN doing = Workers /\ DOMAIN ledgers = Workers
    /\ \A w \in Workers : DOMAIN ledgers[w] = {"counted", "predictions", "charging"}
    /\ DOMAIN slots = DOMAIN jobs
    /\ todo \subseteq DOMAIN jobs
    /\ calls \in Nat
    /\ spoilt \subseteq 0..calls
    /\ panicking \in BOOLEAN

\* Between sweeps no thread works; a sweep that returned did not panic.
Quiet ==
    /\ ~Working => AllFree /\ todo = {}
    /\ answer # None => ~panicking

\* A ledger holds work of this sweep and of spoilt ones only.
OnlyRecentWork(w) == \A work \in ledgers[w].counted : work.sweep \in spoilt \cup {calls}

\* While nothing panicked, a busy thread has counted for its own job only, and
\* that it has begun the run.
OwnWork(w) ==
    Busy(w) =>
      /\ doing[w] \in DOMAIN jobs
      /\ ~panicking =>
           /\ \A work \in Own(ledgers[w]) : work.job = doing[w]
           /\ Running(w) =>
                [sweep |-> calls, job |-> doing[w], part |-> "run", table |-> calls]
                  \in ledgers[w].counted

Clean(w) ==
    pc[w] = "free" =>
      \A work \in ledgers[w].counted :
        work.sweep \in spoilt \/ (work.sweep = calls /\ panicking)

Thread(w) == OnlyRecentWork(w) /\ OwnWork(w) /\ Clean(w)

\* While nothing panicked, each job waits, is being run, or is in its place.
NoJobIsLost ==
    Working /\ ~panicking => \A i \in DOMAIN jobs :
      \/ i \in todo
      \/ \E w \in Workers : Busy(w) /\ doing[w] = i
      \/ Owned(slots[i], i)

SweepInv ==
    /\ Shape /\ Quiet /\ NoJobIsLost
    /\ \A w \in Workers : Thread(w)
    /\ ResultsAreTheirJobs

(***************************************************************************)
(* Proof of the invariant.                                                 *)
(***************************************************************************)
LEMMA InitHolds == Init => SweepInv
<1> SUFFICES ASSUME Init PROVE SweepInv
    OBVIOUS
<1>1. Shape
    <2>1. DOMAIN pc = Workers /\ DOMAIN doing = Workers /\ DOMAIN ledgers = Workers
        BY DEF Init
    <2>2. \A w \in Workers : DOMAIN ledgers[w] = {"counted", "predictions", "charging"}
        BY DEF Init, FreshLedger
    <2>3. DOMAIN slots = DOMAIN jobs /\ todo \subseteq DOMAIN jobs
        BY DEF Init
    <2>4. calls \in Nat /\ spoilt \subseteq 0..calls /\ panicking \in BOOLEAN
        BY DEF Init
    <2> QED
        BY <2>1, <2>2, <2>3, <2>4 DEF Shape
<1>2. Quiet
    BY DEF Quiet, Init, AllFree
<1>3. \A w \in Workers : Thread(w)
    BY DEF Thread, OnlyRecentWork, OwnWork, Clean, Busy, Running, Init, FreshLedger
<1>4. NoJobIsLost
    BY DEF NoJobIsLost, Init
<1>5. ResultsAreTheirJobs
    BY DEF ResultsAreTheirJobs, Init
<1> QED
    BY <1>1, <1>2, <1>3, <1>4, <1>5 DEF SweepInv

\* A new sweep finds work of spoilt sweeps only on its threads.
LEMMA LaunchHolds ==
    ASSUME SweepInv, NEW g, Launch(g)
    PROVE  SweepInv'
<1> USE DEF SweepInv
<1>1. calls' = calls + 1 /\ calls \in Nat /\ calls' \notin spoilt /\ answer' = None
      /\ AllFree /\ UNCHANGED <<pc, doing, ledgers, spoilt>>
    BY DEF Launch, Quiet, Shape
<1>2. ASSUME NEW w \in Workers, NEW work \in ledgers[w].counted
      PROVE  work.sweep \in spoilt
    <2>1. pc[w] = "free" /\ Clean(w)
        BY <1>1 DEF AllFree, Thread
    <2>2. work.sweep \in spoilt \/ (work.sweep = calls /\ panicking)
        BY <2>1 DEF Clean
    <2>3. panicking => calls \in spoilt
        BY DEF Launch, Working, Quiet
    <2> QED
        BY <2>2, <2>3
<1>3. Shape'
    <2>1. spoilt' \subseteq 0..calls'
        BY <1>1 DEF Shape
    <2>2. DOMAIN slots' = DOMAIN jobs' /\ todo' = DOMAIN jobs' /\ panicking' \in BOOLEAN
        BY DEF Launch
    <2> QED
        BY <1>1, <2>1, <2>2 DEF Shape
<1>4. Quiet'
    BY <1>1 DEF Quiet, Working
<1>5. ASSUME NEW w \in Workers PROVE Thread(w)'
    BY <1>1, <1>2 DEF Thread, OnlyRecentWork, OwnWork, Clean, Busy, Running, AllFree
<1>6. NoJobIsLost'
    BY DEF NoJobIsLost, Launch
<1>7. ResultsAreTheirJobs'
    BY <1>1 DEF ResultsAreTheirJobs
<1> QED
    BY <1>3, <1>4, <1>5, <1>6, <1>7

\* What is left to show of a step of one thread.
LEMMA ThreadStep ==
    ASSUME SweepInv, NEW w \in Workers, Busy(w) \/ todo # {},
           UNCHANGED <<jobs, calls, answer, spoilt>>,
           panicking' = panicking \/ panicking' = TRUE,
           Shape', Thread(w)', NoJobIsLost',
           \A v \in Workers \ {w} :
             pc'[v] = pc[v] /\ doing'[v] = doing[v] /\ ledgers'[v] = ledgers[v]
    PROVE  SweepInv'
<1>1. Working
    BY DEF SweepInv, Quiet, AllFree, Busy
<1>2. Quiet' /\ ResultsAreTheirJobs'
    BY <1>1 DEF Quiet, ResultsAreTheirJobs, Working
<1>3. ASSUME NEW v \in Workers \ {w} PROVE Thread(v)'
    <2>1. Thread(v) /\ pc'[v] = pc[v] /\ doing'[v] = doing[v] /\ ledgers'[v] = ledgers[v]
        BY DEF SweepInv
    <2>2. panicking \/ ~panicking'  => panicking' = panicking
        BY DEF SweepInv, Shape
    <2>3. OnlyRecentWork(v)'
        BY <2>1 DEF Thread, OnlyRecentWork
    <2>4. OwnWork(v)'
        BY <2>1, <2>2 DEF Thread, OwnWork, Own, Busy, Running
    <2>5. Clean(v)'
        BY <2>1, <2>2 DEF Thread, Clean
    <2> QED
        BY <2>3, <2>4, <2>5 DEF Thread
<1> QED
    BY <1>2, <1>3 DEF SweepInv

\* The steps of a thread, the launch and the end of a sweep keep the invariant.
LEMMA TakeHolds ==
    ASSUME SweepInv, NEW w \in Workers, Take(w)
    PROVE  SweepInv'
<1>1. PICK i \in todo : todo' = todo \ {i} /\ doing' = [doing EXCEPT ![w] = i]
    BY DEF Take
<1>2. /\ pc[w] = "free" /\ pc' = [pc EXCEPT ![w] = "build"]
      /\ UNCHANGED <<jobs, ledgers, slots, panicking, calls, answer, spoilt>>
    BY DEF Take
<1>3. Working /\ calls \notin spoilt
    BY DEF SweepInv, Quiet, Working
<1>4. Shape /\ Thread(w) /\ NoJobIsLost
    BY DEF SweepInv
<1>5. pc'[w] = "build" /\ doing'[w] = i /\ ledgers'[w] = ledgers[w] /\ i \in DOMAIN jobs
    BY <1>1, <1>2, <1>4 DEF Shape
<1>6. Shape'
    BY <1>1, <1>2, <1>4 DEF Shape
<1>7. ASSUME ~panicking, NEW work \in ledgers[w].counted PROVE work.sweep # calls
    BY <1>2, <1>3, <1>4, <1>7 DEF Thread, Clean
<1>8. Thread(w)'
    BY <1>2, <1>4, <1>5, <1>7 DEF Thread, OnlyRecentWork, OwnWork, Clean, Own, Busy, Running
<1>9. NoJobIsLost'
    <2> SUFFICES ASSUME ~panicking, NEW j \in DOMAIN jobs
                 PROVE  \/ j \in todo' \/ \E v \in Workers : Busy(v)' /\ doing'[v] = j
                        \/ Owned(slots[j], j)
        BY <1>2, <1>3 DEF NoJobIsLost, Owned, Own
    <2>1. CASE j \in todo
        BY <2>1, <1>1, <1>5 DEF Busy
    <2>2. CASE Owned(slots[j], j)
        BY <2>2
    <2>3. ASSUME NEW v \in Workers, Busy(v), doing[v] = j
          PROVE  Busy(v)' /\ doing'[v] = j
        BY <2>3, <1>1, <1>2, <1>4 DEF Busy, Shape
    <2> QED
        BY <2>1, <2>2, <2>3, <1>3, <1>4 DEF NoJobIsLost
<1>10. \A v \in Workers \ {w} :
         pc'[v] = pc[v] /\ doing'[v] = doing[v] /\ ledgers'[v] = ledgers[v]
    BY <1>1, <1>2, <1>4 DEF Shape
<1> QED
    BY <1>1, <1>2, <1>6, <1>8, <1>9, <1>10, ThreadStep

\* A step of a thread that keeps its job.
LEMMA BusyStep ==
    ASSUME SweepInv, NEW w \in Workers, Busy(w), RunUnchanged,
           DOMAIN pc' = Workers, pc'[w] # "free",
           DOMAIN ledgers' = Workers,
           DOMAIN ledgers'[w] = {"counted", "predictions", "charging"},
           \A v \in Workers \ {w} : pc'[v] = pc[v] /\ ledgers'[v] = ledgers[v],
           \A work \in ledgers'[w].counted :
             work \in ledgers[w].counted \/ (work.sweep = calls /\ work.job = doing[w]),
           ledgers[w].counted \subseteq ledgers'[w].counted,
           Running(w)' =>
             \/ Running(w)
             \/ [sweep |-> calls, job |-> doing[w], part |-> "run", table |-> calls]
                  \in ledgers'[w].counted
    PROVE  SweepInv'
<1>1. Shape /\ Thread(w) /\ NoJobIsLost
    BY DEF SweepInv
<1>2. UNCHANGED <<jobs, todo, doing, slots, panicking, calls, answer, spoilt>>
    BY DEF RunUnchanged
<1>4. Shape'
    BY <1>1, <1>2 DEF Shape
<1>5. OnlyRecentWork(w)'
    BY <1>1, <1>2 DEF Thread, OnlyRecentWork
<1>6. OwnWork(w)' /\ Clean(w)'
    <2>1. doing[w] \in DOMAIN jobs
        BY <1>1 DEF Thread, OwnWork
    <2>2. ASSUME ~panicking, NEW work \in ledgers'[w].counted, work.sweep = calls
          PROVE  work.job = doing[w]
        BY <2>2, <1>1 DEF Thread, OwnWork, Own
    <2>3. ASSUME ~panicking, Running(w)'
          PROVE  [sweep |-> calls, job |-> doing[w], part |-> "run", table |-> calls]
                   \in ledgers'[w].counted
        BY <2>3, <1>1 DEF Thread, OwnWork
    <2> QED
        BY <2>1, <2>2, <2>3, <1>2 DEF OwnWork, Own, Clean, Busy
<1>7. NoJobIsLost'
    <2>1. \A v \in Workers : Busy(v) => Busy(v)' /\ doing'[v] = doing[v]
        BY <1>2 DEF Busy
    <2>2. \A j \in DOMAIN jobs : Owned(slots[j], j) => Owned(slots[j], j)'
        BY <1>2 DEF Owned, Own
    <2> QED
        BY <2>1, <2>2, <1>1, <1>2 DEF NoJobIsLost, Working
<1> QED
    BY <1>2, <1>4, <1>5, <1>6, <1>7, ThreadStep DEF Thread

LEMMA RunHolds ==
    ASSUME SweepInv, NEW w \in Workers, Build(w) \/ StartRun(w) \/ Feed(w) \/ TurnOn(w) \/ Fail(w)
    PROVE  SweepInv'
<1>1. Busy(w) /\ RunUnchanged /\ DOMAIN pc = Workers /\ DOMAIN ledgers = Workers
      /\ DOMAIN ledgers[w] = {"counted", "predictions", "charging"}
    BY DEF Build, StartRun, Feed, TurnOn, Fail, SeesRecords, Busy, SweepInv, Shape
<1>2. CASE Build(w)
    <2> DEFINE place == IF PredictorOf(doing[w]).computes /\ tables[CellOf(w)] = NoTable
                          THEN "unwind" ELSE "start"
               work == Work(doing[w], "build", tables[CellOf(w)])
    <2>1. pc' = [pc EXCEPT ![w] = place] /\ place \in {"unwind", "start"}
        BY <1>2 DEF Build
    <2>2. ledgers' = [ledgers EXCEPT ![w].counted = @ \cup {work}] \/ ledgers' = ledgers
        BY <1>2 DEF Build, CellOf
    <2>3. work.sweep = calls /\ work.job = doing[w]
        BY DEF Work
    <2> HIDE DEF place, work
    <2>4. /\ DOMAIN ledgers' = Workers /\ DOMAIN ledgers'[w] = {"counted", "predictions", "charging"}
          /\ \A v \in Workers \ {w} : ledgers'[v] = ledgers[v]
        BY <1>1, <2>2
    <2>6. /\ DOMAIN pc' = Workers /\ pc'[w] = place
          /\ \A v \in Workers \ {w} : pc'[v] = pc[v]
        BY <1>1, <2>1
    <2>5. ledgers'[w].counted = ledgers[w].counted \cup {work}
          \/ ledgers'[w].counted = ledgers[w].counted
        BY <1>1, <2>2
    <2> QED
        BY <1>1, <2>1, <2>3, <2>4, <2>5, <2>6, BusyStep DEF Running
<1>3. CASE StartRun(w)
    <2> DEFINE work == Work(doing[w], "run", calls)
    <2>1. pc' = [pc EXCEPT ![w] = "warmup"]
          /\ ledgers' = [ledgers EXCEPT ![w].counted = @ \cup {work}, ![w].charging = FALSE]
        BY <1>3 DEF StartRun, CellOf
    <2>2. /\ work.sweep = calls /\ work.job = doing[w]
          /\ work = [sweep |-> calls, job |-> doing[w], part |-> "run", table |-> calls]
        BY DEF Work
    <2> HIDE DEF work
    <2>3. /\ DOMAIN ledgers' = Workers
          /\ DOMAIN ledgers'[w] = {"counted", "predictions", "charging"}
          /\ \A v \in Workers \ {w} : ledgers'[v] = ledgers[v]
          /\ ledgers'[w].counted = ledgers[w].counted \cup {work}
        BY <1>1, <2>1
    <2>4. DOMAIN pc' = Workers /\ pc'[w] = "warmup" /\ \A v \in Workers \ {w} : pc'[v] = pc[v]
        BY <1>1, <2>1
    <2> QED
        BY <1>1, <2>2, <2>3, <2>4, BusyStep
<1>4. CASE Feed(w) \/ TurnOn(w)
    <2>1. Running(w) /\ DOMAIN pc' = Workers /\ pc'[w] # "free"
          /\ \A v \in Workers \ {w} : pc'[v] = pc[v]
        BY <1>1, <1>4 DEF Feed, TurnOn, Running
    <2>2. \/ ledgers' = ledgers
          \/ \E n : ledgers' = [ledgers EXCEPT ![w].predictions = n]
          \/ ledgers' = [ledgers EXCEPT ![w].charging = TRUE]
        BY <1>4 DEF Feed, TurnOn, CellOf
    <2>3. /\ DOMAIN ledgers' = Workers
          /\ DOMAIN ledgers'[w] = {"counted", "predictions", "charging"}
          /\ \A v \in Workers \ {w} : ledgers'[v] = ledgers[v]
          /\ ledgers'[w].counted = ledgers[w].counted
        BY <1>1, <2>2
    <2> QED
        BY <1>1, <2>1, <2>3, BusyStep
<1>5. CASE Fail(w)
    <2>1. pc' = [pc EXCEPT ![w] = "unwind"] /\ ledgers' = ledgers
        BY <1>5 DEF Fail
    <2>2. /\ DOMAIN pc' = Workers /\ pc'[w] = "unwind"
          /\ \A v \in Workers \ {w} : pc'[v] = pc[v]
        BY <1>1, <2>1
    <2> QED
        BY <1>1, <2>1, <2>2, BusyStep DEF Running
<1> QED
    BY <1>2, <1>3, <1>4, <1>5

\* The job is done: what its thread counted goes to the job's place.
LEMMA ReturnHolds ==
    ASSUME SweepInv, NEW w \in Workers, Return(w)
    PROVE  SweepInv'
<1>1. /\ Shape /\ Thread(w) /\ NoJobIsLost /\ Busy(w)
      /\ UNCHANGED <<jobs, todo, panicking, calls, answer, spoilt>>
    BY DEF SweepInv, Return, Busy
<1>2. Working /\ doing[w] \in DOMAIN jobs
    BY <1>1 DEF SweepInv, Quiet, AllFree, Busy, Thread, OwnWork
<1>3. /\ DOMAIN pc' = Workers /\ DOMAIN doing' = Workers /\ DOMAIN ledgers' = Workers
      /\ pc'[w] = "free" /\ ledgers'[w] = FreshLedger
      /\ \A v \in Workers \ {w} :
           pc'[v] = pc[v] /\ doing'[v] = doing[v] /\ ledgers'[v] = ledgers[v]
    BY <1>1 DEF Return, CellOf, Shape
<1>4. /\ DOMAIN slots' = DOMAIN jobs
      /\ slots'[doing[w]] = ledgers[w]
      /\ \A i \in DOMAIN jobs \ {doing[w]} : slots'[i] = slots[i]
    BY <1>1, <1>2 DEF Return, CellOf, Place, Shape
<1>5. DOMAIN ledgers'[w] = {"counted", "predictions", "charging"} /\ ledgers'[w].counted = {}
    BY <1>3 DEF FreshLedger
<1>6. Shape'
    BY <1>1, <1>3, <1>4, <1>5 DEF Shape
<1>7. Thread(w)'
    BY <1>3, <1>5 DEF Thread, OnlyRecentWork, OwnWork, Clean, Busy
<1>8. NoJobIsLost'
    <2> SUFFICES ASSUME ~panicking, NEW j \in DOMAIN jobs
                 PROVE  \/ j \in todo \/ \E v \in Workers : Busy(v)' /\ doing'[v] = j
                        \/ Owned(slots[j], j)'
        BY <1>1 DEF NoJobIsLost
    <2>1. CASE j = doing[w]
        <3>1. pc[w] = "run"
            BY DEF Return
        <3>2. Owned(ledgers[w], doing[w])
            BY <1>1, <3>1 DEF Owned, Own, Thread, OnlyRecentWork, OwnWork, Running
        <3> QED
            BY <2>1, <3>2, <1>1, <1>4 DEF Owned, Own
    <2>2. CASE j # doing[w]
        <3>1. Owned(slots[j], j) => Owned(slots[j], j)'
            BY <2>2, <1>1, <1>4 DEF Owned, Own
        <3>2. ASSUME NEW v \in Workers, Busy(v), doing[v] = j
              PROVE  Busy(v)' /\ doing'[v] = j
            BY <2>2, <3>2, <1>3 DEF Busy
        <3> QED
            BY <3>1, <3>2, <1>1, <1>2 DEF NoJobIsLost
    <2> QED
        BY <2>1, <2>2
<1> QED
    BY <1>1, <1>3, <1>6, <1>7, <1>8, ThreadStep

\* The job is abandoned: from here on the sweep is known to panic.
LEMMA UnwindHolds ==
    ASSUME SweepInv, NEW w \in Workers, Unwind(w)
    PROVE  SweepInv'
<1>1. /\ Shape /\ Thread(w) /\ Busy(w) /\ panicking' = TRUE
      /\ UNCHANGED <<jobs, todo, ledgers, slots, calls, answer, spoilt>>
    BY DEF SweepInv, Unwind, Busy
<1>2. /\ DOMAIN pc' = Workers /\ DOMAIN doing' = Workers
      /\ pc'[w] = "free"
      /\ \A v \in Workers \ {w} : pc'[v] = pc[v] /\ doing'[v] = doing[v]
    BY <1>1 DEF Unwind, Shape
<1>3. Shape'
    BY <1>1, <1>2 DEF Shape
<1>4. Thread(w)'
    BY <1>1, <1>2 DEF Thread, OnlyRecentWork, OwnWork, Clean, Busy
<1>5. NoJobIsLost'
    BY <1>1 DEF NoJobIsLost
<1> QED
    BY <1>1, <1>2, <1>3, <1>4, <1>5, ThreadStep

\* The sweep returns.  Without a panic every job is in its place by then.
LEMMA CollectHolds ==
    ASSUME SweepInv, Collect
    PROVE  SweepInv'
<1>1. /\ Working /\ ~panicking /\ AllFree /\ todo = {} /\ answer' = slots
      /\ UNCHANGED <<jobs, todo, pc, doing, ledgers, slots, panicking, calls, spoilt>>
    BY DEF Collect
<1>2. Shape /\ NoJobIsLost /\ \A w \in Workers : Thread(w)
    BY DEF SweepInv
<1>3. Shape' /\ Quiet'
    BY <1>1, <1>2 DEF Shape, Quiet, AllFree
<1>4. \A i \in DOMAIN slots : Owned(slots[i], i)
    BY <1>1, <1>2 DEF NoJobIsLost, AllFree, Busy, Shape
<1>5. ResultsAreTheirJobs'
    BY <1>1, <1>4 DEF ResultsAreTheirJobs, Owned, Own
<1>6. NoJobIsLost'
    BY <1>1, <1>4, <1>2 DEF NoJobIsLost, Owned, Own, Shape
<1>7. ASSUME NEW w \in Workers PROVE Thread(w)'
    BY <1>1, <1>2 DEF Thread, OnlyRecentWork, OwnWork, Clean, Busy, Running, AllFree
<1> QED
    BY <1>3, <1>5, <1>6, <1>7 DEF SweepInv

\* The sweep panics, and its number is spoilt.
LEMMA RethrowHolds ==
    ASSUME SweepInv, Rethrow
    PROVE  SweepInv'
<1>1. /\ Working /\ panicking /\ AllFree /\ todo' = {} /\ spoilt' = spoilt \cup {calls}
      /\ UNCHANGED <<jobs, pc, doing, ledgers, slots, panicking, calls, answer>>
    BY DEF Rethrow
<1>2. Shape /\ \A w \in Workers : Thread(w)
    BY DEF SweepInv
<1>3. Quiet' /\ ResultsAreTheirJobs'
    BY <1>1 DEF Quiet, ResultsAreTheirJobs, AllFree, Working
<1>4. calls \in 0..calls
    BY <1>2 DEF Shape
<1>5. Shape'
    BY <1>1, <1>2, <1>4 DEF Shape
<1>6. NoJobIsLost'
    BY <1>1 DEF NoJobIsLost
<1>7. ASSUME NEW w \in Workers PROVE Thread(w)'
    BY <1>1, <1>2 DEF Thread, OnlyRecentWork, OwnWork, Clean, Busy, Running, AllFree
<1> QED
    BY <1>3, <1>5, <1>6, <1>7 DEF SweepInv

LEMMA StutterHolds ==
    ASSUME SweepInv, UNCHANGED sweepVars
    PROVE  SweepInv'
BY DEF sweepVars, SweepInv, Shape, Quiet, Working, AllFree, Thread, OnlyRecentWork, OwnWork,
       Clean, Busy, Running, Own, NoJobIsLost, Owned, ResultsAreTheirJobs

LEMMA NextHolds == SweepInv /\ [Next]_sweepVars => SweepInv'
<1> SUFFICES ASSUME SweepInv, [Next]_sweepVars PROVE SweepInv'
    OBVIOUS
<1>1. CASE Collect \/ Rethrow
    BY <1>1, CollectHolds, RethrowHolds
<1>2. ASSUME NEW w \in Workers, Take(w) \/ Step(w) PROVE SweepInv'
    BY <1>2, TakeHolds, RunHolds, ReturnHolds, UnwindHolds DEF Step
<1>3. ASSUME NEW g \in Grids, Launch(g) PROVE SweepInv'
    BY <1>3, LaunchHolds
<1>4. CASE UNCHANGED sweepVars
    BY <1>4, StutterHolds
<1> QED
    BY <1>1, <1>2, <1>3, <1>4 DEF Next, PoolStep, End

\* The invariant holds in every state of every sweep.
THEOREM Invariance == Spec => []SweepInv
BY InitHolds, NextHolds, PTL DEF Spec

-----------------------------------------------------------------------------
(***************************************************************************)
(* What follows from it.                                                   *)
(***************************************************************************)
\* Every result of a sweep is what its own job counted, priced by the table of
\* the sweep, up to what jobs of spoilt sweeps left: Simulator::run_many.
THEOREM ResultsBelong == Spec => []ResultsAreTheirJobs
<1>1. SweepInv => ResultsAreTheirJobs
    BY DEF SweepInv
<1> QED
    BY <1>1, Invariance, PTL

\* The ledger of an idle thread holds abandoned work or none.
THEOREM IdleIsClean == Spec => []IdleLedgersAreClean
<1>1. SweepInv => IdleLedgersAreClean
    BY DEF SweepInv, Thread, Clean, IdleLedgersAreClean
<1> QED
    BY <1>1, Invariance, PTL

-----------------------------------------------------------------------------
(***************************************************************************)
(* The jobs of a sweep.                                                    *)
(***************************************************************************)
\* What run_many is called with: three sequences, with numbers where Sources and
\* Configs have them.
IsSequence(seq) == Len(seq) \in Nat /\ DOMAIN seq = 1..Len(seq)

SoundGrid(g) ==
    /\ IsSequence(g.sources) /\ IsSequence(g.configs) /\ IsSequence(g.predictors)
    /\ \A s \in DOMAIN g.sources : g.sources[s].length \in Nat
    /\ \A c \in DOMAIN g.configs : g.configs[c].warmup \in Nat

Job(g) ==
    [source : DOMAIN g.sources, config : DOMAIN g.configs, predictor : DOMAIN g.predictors]

\* The place of a job among the jobs, and of its result among the results.
PlaceOf(g, s, c, p) ==
    Cell(Len(g.configs) * Len(g.predictors), s, Cell(Len(g.predictors), c, p))

\* Sources are outermost and predictors innermost.
LEMMA JobsAreInOrder ==
    ASSUME NEW g, SoundGrid(g)
    PROVE  /\ Jobs(g) \in Seq(Job(g))
           /\ Len(Jobs(g)) = Len(g.sources) * (Len(g.configs) * Len(g.predictors))
           /\ \A s \in DOMAIN g.sources, c \in DOMAIN g.configs, p \in DOMAIN g.predictors :
                Jobs(g)[PlaceOf(g, s, c, p)] = [source |-> s, config |-> c, predictor |-> p]
<1> DEFINE P == Len(g.predictors)
           C == Len(g.configs)
           Runs(s, c) == [p \in DOMAIN g.predictors |->
                            [source |-> s, config |-> c, predictor |-> p]]
           Rows(s) == [c \in DOMAIN g.configs |-> Runs(s, c)]
           Tables == [s \in DOMAIN g.sources |-> FlattenSeq(Rows(s))]
<1>1. P \in Nat /\ C \in Nat /\ Len(g.sources) \in Nat
      /\ DOMAIN g.predictors = 1..P /\ DOMAIN g.configs = 1..C
      /\ DOMAIN g.sources = 1..Len(g.sources)
    BY DEF SoundGrid, IsSequence
<1> HIDE DEF P, C
<1>2. ASSUME NEW s \in DOMAIN g.sources
      PROVE  /\ FlattenSeq(Rows(s)) \in Seq(Job(g))
             /\ Len(FlattenSeq(Rows(s))) = C * P
             /\ \A c \in 1..C, p \in 1..P :
                  FlattenSeq(Rows(s))[Cell(P, c, p)]
                    = [source |-> s, config |-> c, predictor |-> p]
    <2>1. ASSUME NEW c \in DOMAIN g.configs
          PROVE  Runs(s, c) \in Seq(Job(g)) /\ Len(Runs(s, c)) = P
        <3>1. \A p \in DOMAIN g.predictors : [source |-> s, config |-> c, predictor |-> p] \in Job(g)
            BY DEF Job
        <3>2. Runs(s, c) \in [1..P -> Job(g)]
            BY <1>1, <3>1
        <3> HIDE DEF Runs
        <3> QED
            BY <1>1, <3>2
    <2>2. \A c \in 1..C, p \in 1..P :
            Rows(s)[c][p] = [source |-> s, config |-> c, predictor |-> p]
        BY <1>1
    <2> HIDE DEF Runs
    <2>3. Rows(s) \in Seq(Seq(Job(g))) /\ Len(Rows(s)) = C
          /\ \A c \in 1..C : Len(Rows(s)[c]) = P
        BY <1>1, <2>1
    <2> HIDE DEF Rows
    <2>4. /\ FlattenSeq(Rows(s)) \in Seq(Job(g))
          /\ Len(FlattenSeq(Rows(s))) = Len(Rows(s)) * P
          /\ \A c \in 1..Len(Rows(s)), p \in 1..P :
               FlattenSeq(Rows(s))[Cell(P, c, p)] = Rows(s)[c][p]
        <3>1. P \in Nat /\ IsTable(Job(g), P, Rows(s))
            BY <1>1, <2>3 DEF IsTable
        <3>2. LaidOut(Job(g), P, Rows(s))
            BY <3>1, FlattenRows
        <3> QED
            BY <3>2 DEF LaidOut
    <2> QED
        BY <2>2, <2>3, <2>4
<1> HIDE DEF Rows
<1>3. C * P \in Nat
    <2>1. C <= C
        BY <1>1
    <2> QED
        BY <1>1, <2>1, TimesMonotone
<1>4. Tables \in Seq(Seq(Job(g))) /\ Len(Tables) = Len(g.sources)
      /\ \A s \in 1..Len(g.sources) : Len(Tables[s]) = C * P
    <2>1. \A s \in 1..Len(g.sources) :
            Tables[s] \in Seq(Job(g)) /\ Len(Tables[s]) = C * P
        BY <1>1, <1>2
    <2>2. Tables \in [1..Len(g.sources) -> Seq(Job(g))]
        BY <1>1, <1>2
    <2> HIDE DEF Tables
    <2>3. Tables \in Seq(Seq(Job(g))) /\ Len(Tables) = Len(g.sources)
        BY <1>1, <2>2
    <2> QED
        BY <2>1, <2>3
<1>5. \A s \in 1..Len(g.sources) : Tables[s] = FlattenSeq(Rows(s))
    BY <1>1
<1>6. Jobs(g) = FlattenSeq(Tables)
    BY DEF Jobs, Rows
<1> HIDE DEF Tables
<1>7. /\ Jobs(g) \in Seq(Job(g))
      /\ Len(Jobs(g)) = Len(g.sources) * (C * P)
      /\ \A s \in 1..Len(g.sources), j \in 1..C * P :
           Jobs(g)[Cell(C * P, s, j)] = Tables[s][j]
    <2>1. PICK K \in Nat : K = C * P
        BY <1>3
    <2>2. IsTable(Job(g), K, Tables)
        BY <1>4, <2>1 DEF IsTable
    <2>3. LaidOut(Job(g), K, Tables)
        BY <2>2, FlattenRows
    <2> QED
        BY <1>4, <1>6, <2>1, <2>3 DEF LaidOut
<1>8. ASSUME NEW s \in DOMAIN g.sources, NEW c \in DOMAIN g.configs, NEW p \in DOMAIN g.predictors
      PROVE  Jobs(g)[PlaceOf(g, s, c, p)] = [source |-> s, config |-> c, predictor |-> p]
    <2>1. Cell(P, c, p) \in 1..C * P
        BY <1>1, CellPlaces
    <2>2. Jobs(g)[Cell(C * P, s, Cell(P, c, p))] = Tables[s][Cell(P, c, p)]
        BY <1>1, <1>7, <2>1
    <2>3. Tables[s][Cell(P, c, p)] = [source |-> s, config |-> c, predictor |-> p]
        BY <1>1, <1>2, <1>5
    <2> QED
        BY <2>2, <2>3 DEF PlaceOf, C, P
<1> QED
    BY <1>7, <1>8 DEF C, P

-----------------------------------------------------------------------------
(***************************************************************************)
(* How many predictions a result has.                                      *)
(***************************************************************************)
\* The predictions of the records before the cursor.
Scored(i, position) ==
    IF position > ConfigOf(i).warmup THEN position - ConfigOf(i).warmup ELSE 0

JobsAreSound ==
    \A i \in DOMAIN jobs : SourceOf(i).length \in Nat /\ ConfigOf(i).warmup \in Nat

AllOwn(result) == result.counted = Own(result)

Whole(result, i) ==
    /\ result.predictions >= Due(i)
    /\ AllOwn(result) => result.predictions = Due(i)

\* A ledger with predictions, or with metering switched off, counts the work of
\* some run.
Counts(w) ==
    /\ ledgers[w].predictions \in Nat
    /\ ledgers[w].counted = {} => ledgers[w].predictions = 0
    /\ ~ledgers[w].charging => ledgers[w].counted # {}
    /\ Running(w) => ledgers[w].counted # {}

\* While nothing panicked, a busy thread counted the predictions of its clone of
\* the source so far, and others only if a job of an earlier sweep left them.
Progress(w) ==
    /\ cursor[w] \in Nat
    /\ ~panicking /\ pc[w] \in {"build", "start"} =>
         cursor[w] = 0 /\ (AllOwn(ledgers[w]) => ledgers[w].predictions = 0)
    /\ ~panicking /\ Running(w) =>
         /\ cursor[w] <= SourceOf(doing[w]).length
         /\ pc[w] = "warmup" => cursor[w] <= ConfigOf(doing[w]).warmup
         /\ pc[w] = "run" =>
              \/ cursor[w] = SourceOf(doing[w]).length
              \/ cursor[w] >= ConfigOf(doing[w]).warmup
         /\ ledgers[w].predictions >= Scored(doing[w], cursor[w])
         /\ AllOwn(ledgers[w]) => ledgers[w].predictions = Scored(doing[w], cursor[w])

NoResultIsLost ==
    Working /\ ~panicking => \A i \in DOMAIN jobs :
      \/ i \in todo
      \/ \E w \in Workers : Busy(w) /\ doing[w] = i
      \/ Whole(slots[i], i)

WholeInv ==
    /\ JobsAreSound
    /\ DOMAIN cursor = Workers
    /\ \A w \in Workers : Counts(w) /\ Progress(w)
    /\ NoResultIsLost
    /\ ResultsAreWhole

(***************************************************************************)
(* Proof of the invariant.                                                 *)
(***************************************************************************)
LEMMA InitWhole == Init => WholeInv
<1> SUFFICES ASSUME Init PROVE WholeInv
    OBVIOUS
<1>1. JobsAreSound /\ NoResultIsLost /\ ResultsAreWhole /\ DOMAIN cursor = Workers
    BY DEF Init, JobsAreSound, NoResultIsLost, ResultsAreWhole
<1>2. ASSUME NEW w \in Workers PROVE Counts(w) /\ Progress(w)
    BY DEF Init, Counts, Progress, Running, FreshLedger
<1> QED
    BY <1>1, <1>2 DEF WholeInv

\* A job's source has a length and its configuration a warmup.
LEMMA SoundJobs ==
    ASSUME NEW g, SoundGrid(g)
    PROVE  /\ DOMAIN Jobs(g) = 1..Len(Jobs(g)) /\ Len(Jobs(g)) \in Nat
           /\ \A i \in DOMAIN Jobs(g) :
                /\ g.sources[Jobs(g)[i].source].length \in Nat
                /\ g.configs[Jobs(g)[i].config].warmup \in Nat
<1>1. Jobs(g) \in Seq(Job(g))
    BY JobsAreInOrder
<1>2. ASSUME NEW i \in DOMAIN Jobs(g)
      PROVE  Jobs(g)[i].source \in DOMAIN g.sources /\ Jobs(g)[i].config \in DOMAIN g.configs
    <2>1. Jobs(g)[i] \in Job(g)
        BY <1>1
    <2> QED
        BY <2>1 DEF Job
<1> QED
    BY <1>1, <1>2 DEF SoundGrid

\* A launch keeps results whole.
LEMMA LaunchWhole ==
    ASSUME SweepInv, WholeInv, NEW g, SoundGrid(g), Launch(g)
    PROVE  WholeInv'
<1>1. /\ answer' = None /\ grid' = g /\ jobs' = Jobs(g) /\ todo' = DOMAIN jobs' /\ AllFree
      /\ UNCHANGED <<pc, cursor, ledgers>>
    BY DEF SweepInv, Launch, Quiet
<1>2. JobsAreSound'
    BY <1>1, SoundJobs DEF JobsAreSound, SourceOf, ConfigOf
<1>3. NoResultIsLost' /\ ResultsAreWhole'
    BY <1>1 DEF NoResultIsLost, ResultsAreWhole
<1>4. ASSUME NEW w \in Workers PROVE (Counts(w) /\ Progress(w))'
    <2>1. pc[w] = "free"
        BY <1>1 DEF AllFree
    <2> QED
        BY <1>1, <2>1 DEF WholeInv, Counts, Progress, Running
<1>5. DOMAIN cursor' = Workers
    BY <1>1 DEF WholeInv
<1> QED
    BY <1>2, <1>3, <1>4, <1>5 DEF WholeInv

\* What is left to show of a step of one thread.
LEMMA WholeStep ==
    ASSUME SweepInv, WholeInv, NEW w \in Workers, Busy(w) \/ todo # {},
           UNCHANGED <<grid, jobs, calls, answer, spoilt>>,
           panicking' = panicking \/ panicking' = TRUE,
           DOMAIN cursor' = Workers, Counts(w)', Progress(w)', NoResultIsLost',
           \A v \in Workers \ {w} :
             /\ pc'[v] = pc[v] /\ doing'[v] = doing[v]
             /\ ledgers'[v] = ledgers[v] /\ cursor'[v] = cursor[v]
    PROVE  WholeInv'
<1>1. answer' = None
    BY DEF SweepInv, Quiet, AllFree, Busy, Working
<1>2. JobsAreSound' /\ ResultsAreWhole'
    BY <1>1 DEF WholeInv, JobsAreSound, ResultsAreWhole, SourceOf, ConfigOf
<1>3. ASSUME NEW v \in Workers \ {w} PROVE (Counts(v) /\ Progress(v))'
    <2>1. /\ Counts(v) /\ Progress(v) /\ pc'[v] = pc[v] /\ doing'[v] = doing[v]
          /\ ledgers'[v] = ledgers[v] /\ cursor'[v] = cursor[v]
        BY DEF WholeInv
    <2>2. ~panicking' => ~panicking
        BY DEF SweepInv, Shape
    <2>3. AllOwn(ledgers[v])' <=> AllOwn(ledgers[v])
        BY <2>1 DEF AllOwn, Own
    <2>4. SourceOf(doing[v])' = SourceOf(doing[v]) /\ ConfigOf(doing[v])' = ConfigOf(doing[v])
          /\ Scored(doing[v], cursor[v])' = Scored(doing[v], cursor[v])
        BY <2>1 DEF SourceOf, ConfigOf, Scored
    <2>5. Counts(v)'
        BY <2>1 DEF Counts, Running
    <2>6. Progress(v)'
        BY <2>1, <2>2, <2>3, <2>4 DEF Progress, Running
    <2> QED
        BY <2>5, <2>6
<1> QED
    BY <1>2, <1>3 DEF WholeInv

\* Without a panic, a thread that takes a job has no predictions of this sweep.
LEMMA TakeWhole ==
    ASSUME SweepInv, WholeInv, NEW w \in Workers, Take(w)
    PROVE  WholeInv'
<1>1. PICK i \in todo : todo' = todo \ {i} /\ doing' = [doing EXCEPT ![w] = i]
    BY DEF Take
<1>2. /\ pc[w] = "free" /\ pc' = [pc EXCEPT ![w] = "build"] /\ cursor' = [cursor EXCEPT ![w] = 0]
      /\ UNCHANGED <<grid, jobs, ledgers, slots, panicking, calls, answer, spoilt>>
    BY DEF Take
<1>3. /\ DOMAIN pc = Workers /\ DOMAIN doing = Workers /\ DOMAIN cursor = Workers
      /\ Working /\ calls \notin spoilt /\ Thread(w) /\ Counts(w) /\ NoResultIsLost
    BY DEF SweepInv, Shape, WholeInv, Quiet, Working
<1>4. /\ DOMAIN cursor' = Workers
      /\ \A v \in Workers \ {w} :
           /\ pc'[v] = pc[v] /\ doing'[v] = doing[v]
           /\ ledgers'[v] = ledgers[v] /\ cursor'[v] = cursor[v]
    BY <1>1, <1>2, <1>3
<1>5. pc'[w] = "build" /\ doing'[w] = i /\ cursor'[w] = 0
    BY <1>1, <1>2, <1>3
<1>6. Counts(w)'
    BY <1>2, <1>3, <1>5 DEF Counts, Running
<1>7. ASSUME ~panicking, AllOwn(ledgers[w]) PROVE ledgers[w].predictions = 0
    <2>1. \A work \in ledgers[w].counted : work.sweep \in spoilt
        BY <1>2, <1>3, <1>7 DEF Thread, Clean
    <2>2. ledgers[w].counted = {}
        BY <1>3, <1>7, <2>1 DEF AllOwn, Own
    <2> QED
        BY <1>3, <2>2 DEF Counts
<1>8. Progress(w)'
    BY <1>2, <1>5, <1>7 DEF Progress, Running, AllOwn, Own
<1>9. NoResultIsLost'
    <2> SUFFICES ASSUME ~panicking, NEW j \in DOMAIN jobs
                 PROVE  \/ j \in todo' \/ \E v \in Workers : Busy(v)' /\ doing'[v] = j
                        \/ Whole(slots[j], j)'
        BY <1>2 DEF NoResultIsLost
    <2>1. CASE j \in todo
        BY <2>1, <1>1, <1>5 DEF Busy
    <2>2. CASE Whole(slots[j], j)
        BY <2>2, <1>2 DEF Whole, AllOwn, Own, Due, SourceOf, ConfigOf
    <2>3. ASSUME NEW v \in Workers, Busy(v), doing[v] = j
          PROVE  Busy(v)' /\ doing'[v] = j
        BY <2>3, <1>2, <1>4 DEF Busy
    <2> QED
        BY <2>1, <2>2, <2>3, <1>3 DEF NoResultIsLost
<1> QED
    BY <1>1, <1>2, <1>4, <1>6, <1>8, <1>9, WholeStep

\* A step of a thread that keeps its job loses no result.
LEMMA ResultsStay ==
    ASSUME NoResultIsLost, RunUnchanged, NEW w \in Workers, pc'[w] # "free",
           \A v \in Workers \ {w} : pc'[v] = pc[v]
    PROVE  NoResultIsLost'
<1>1. UNCHANGED <<grid, jobs, todo, doing, slots, panicking, calls, answer, spoilt>>
    BY DEF RunUnchanged
<1>2. \A v \in Workers : Busy(v) => Busy(v)' /\ doing'[v] = doing[v]
    BY <1>1 DEF Busy
<1>3. \A j \in DOMAIN jobs : Whole(slots[j], j) => Whole(slots[j], j)'
    BY <1>1 DEF Whole, AllOwn, Own, Due, SourceOf, ConfigOf
<1> QED
    BY <1>1, <1>2, <1>3 DEF NoResultIsLost, Working

\* The steps of a thread and the end of a sweep keep results whole.
LEMMA BuildWhole ==
    ASSUME SweepInv, WholeInv, NEW w \in Workers, Build(w)
    PROVE  WholeInv'
<1> DEFINE place == IF PredictorOf(doing[w]).computes /\ tables[CellOf(w)] = NoTable
                      THEN "unwind" ELSE "start"
           work == Work(doing[w], "build", tables[CellOf(w)])
<1>1. /\ pc[w] = "build" /\ pc' = [pc EXCEPT ![w] = place]
      /\ place \in {"unwind", "start"} /\ cursor' = cursor /\ RunUnchanged
    BY DEF Build
<1>2. ledgers' = [ledgers EXCEPT ![w].counted = @ \cup {work}] \/ ledgers' = ledgers
    BY DEF Build, CellOf
<1>3. work.sweep = calls
    BY DEF Work
<1> HIDE DEF place, work
<1>4. /\ DOMAIN pc = Workers /\ DOMAIN ledgers = Workers /\ DOMAIN cursor = Workers
      /\ DOMAIN ledgers[w] = {"counted", "predictions", "charging"}
      /\ Counts(w) /\ Progress(w) /\ NoResultIsLost /\ Busy(w)
    BY <1>1 DEF SweepInv, Shape, WholeInv, Busy
<1>5. /\ pc'[w] = place /\ \A v \in Workers \ {w} : pc'[v] = pc[v] /\ ledgers'[v] = ledgers[v]
    BY <1>1, <1>2, <1>4
<1>6. /\ ledgers'[w].predictions = ledgers[w].predictions
      /\ ledgers'[w].charging = ledgers[w].charging
      /\ \/ ledgers'[w].counted = ledgers[w].counted \cup {work}
         \/ ledgers'[w].counted = ledgers[w].counted
    BY <1>2, <1>4
<1>7. UNCHANGED <<grid, jobs, doing, panicking, calls, answer, spoilt>>
    BY <1>1 DEF RunUnchanged
<1>8. AllOwn(ledgers[w])' => AllOwn(ledgers[w])
    BY <1>6, <1>7 DEF AllOwn, Own
<1>9. Counts(w)'
    BY <1>1, <1>4, <1>5, <1>6 DEF Counts, Running
<1>10. Progress(w)'
    BY <1>1, <1>4, <1>5, <1>6, <1>7, <1>8 DEF Progress, Running
<1>11. NoResultIsLost'
    BY <1>1, <1>4, <1>5, ResultsStay
<1> QED
    BY <1>1, <1>4, <1>5, <1>7, <1>9, <1>10, <1>11, WholeStep

LEMMA StartWhole ==
    ASSUME SweepInv, WholeInv, NEW w \in Workers, StartRun(w)
    PROVE  WholeInv'
<1> DEFINE work == Work(doing[w], "run", calls)
<1>1. /\ pc[w] = "start" /\ pc' = [pc EXCEPT ![w] = "warmup"] /\ cursor' = cursor
      /\ RunUnchanged
      /\ ledgers' = [ledgers EXCEPT ![w].counted = @ \cup {work}, ![w].charging = FALSE]
    BY DEF StartRun, CellOf
<1>3. work.sweep = calls
    BY DEF Work
<1> HIDE DEF work
<1>4. /\ DOMAIN pc = Workers /\ DOMAIN ledgers = Workers /\ DOMAIN cursor = Workers
      /\ DOMAIN ledgers[w] = {"counted", "predictions", "charging"}
      /\ Counts(w) /\ Progress(w) /\ NoResultIsLost /\ Busy(w)
    BY <1>1 DEF SweepInv, Shape, WholeInv, Busy
<1>5. /\ pc'[w] = "warmup" /\ \A v \in Workers \ {w} : pc'[v] = pc[v] /\ ledgers'[v] = ledgers[v]
    BY <1>1, <1>4
<1>6. /\ ledgers'[w].predictions = ledgers[w].predictions
      /\ ledgers'[w].counted = ledgers[w].counted \cup {work}
    BY <1>1, <1>4
<1>7. UNCHANGED <<grid, jobs, doing, panicking, calls, answer, spoilt>>
    BY <1>1 DEF RunUnchanged
<1>8. AllOwn(ledgers[w])' => AllOwn(ledgers[w])
    BY <1>6, <1>7 DEF AllOwn, Own
<1>9. Counts(w)'
    BY <1>1, <1>4, <1>5, <1>6 DEF Counts
<1>10. Progress(w)'
    <2>1. cursor'[w] \in Nat
        BY <1>1, <1>4 DEF Progress
    <2> SUFFICES ASSUME ~panicking
                 PROVE  /\ cursor[w] <= SourceOf(doing[w])'.length
                        /\ cursor[w] <= ConfigOf(doing[w])'.warmup
                        /\ ledgers'[w].predictions >= Scored(doing[w], cursor[w])'
                        /\ AllOwn(ledgers[w])' => ledgers'[w].predictions = Scored(doing[w], cursor[w])'
        BY <1>1, <1>5, <1>7, <2>1 DEF Progress
    <2>2. doing[w] \in DOMAIN jobs
        BY <1>4 DEF SweepInv, Thread, OwnWork
    <2>3. SourceOf(doing[w]).length \in Nat /\ ConfigOf(doing[w]).warmup \in Nat
        BY <2>2 DEF WholeInv, JobsAreSound
    <2>4. cursor[w] = 0 /\ (AllOwn(ledgers[w]) => ledgers[w].predictions = 0)
        BY <1>1, <1>4 DEF Progress
    <2>5. SourceOf(doing[w])' = SourceOf(doing[w]) /\ ConfigOf(doing[w])' = ConfigOf(doing[w])
        BY <1>7 DEF SourceOf, ConfigOf
    <2>6. Scored(doing[w], cursor[w])' = 0
        BY <1>1, <2>3, <2>4, <2>5 DEF Scored
    <2> QED
        BY <1>4, <1>6, <1>8, <2>3, <2>4, <2>5, <2>6 DEF Counts
<1>11. NoResultIsLost'
    BY <1>1, <1>4, <1>5, ResultsStay
<1> QED
    BY <1>1, <1>4, <1>5, <1>7, <1>9, <1>10, <1>11, WholeStep

LEMMA FeedWhole ==
    ASSUME SweepInv, WholeInv, NEW w \in Workers, Feed(w)
    PROVE  WholeInv'
<1> DEFINE i == doing[w]
           added == IF pc[w] = "run" THEN ledgers[w].predictions + 1 ELSE ledgers[w].predictions
<1>1. /\ Running(w) /\ pc' = pc /\ cursor' = [cursor EXCEPT ![w] = @ + 1]
      /\ pc[w] = "run" \/ cursor[w] < ConfigOf(i).warmup
      /\ cursor[w] < SourceOf(i).length /\ RunUnchanged
    BY DEF Feed, Running
<1>2. /\ DOMAIN pc = Workers /\ DOMAIN ledgers = Workers /\ DOMAIN cursor = Workers
      /\ DOMAIN ledgers[w] = {"counted", "predictions", "charging"}
      /\ Counts(w) /\ Progress(w) /\ NoResultIsLost /\ Busy(w)
    BY <1>1 DEF SweepInv, Shape, WholeInv, Busy, Running
<1>3. /\ ledgers'[w].predictions = added
      /\ ledgers'[w].counted = ledgers[w].counted
      /\ ledgers'[w].charging = ledgers[w].charging
      /\ \A v \in Workers \ {w} : ledgers'[v] = ledgers[v]
    BY <1>2 DEF Feed, CellOf
<1>4. /\ cursor'[w] = cursor[w] + 1 /\ \A v \in Workers \ {w} : cursor'[v] = cursor[v]
      /\ DOMAIN cursor' = Workers
    BY <1>1, <1>2
<1>5. UNCHANGED <<grid, jobs, doing, panicking, calls, answer, spoilt>>
    BY <1>1 DEF RunUnchanged
<1>6. i \in DOMAIN jobs
    BY <1>2 DEF SweepInv, Thread, OwnWork
<1>7. SourceOf(i).length \in Nat /\ ConfigOf(i).warmup \in Nat
    BY <1>6 DEF WholeInv, JobsAreSound
<1>8. cursor[w] \in Nat /\ ledgers[w].predictions \in Nat /\ added \in Nat
    <2>1. cursor[w] \in Nat /\ ledgers[w].predictions \in Nat
        BY <1>2 DEF Progress, Counts
    <2> QED
        BY <2>1
<1>9. Counts(w)'
    <2>1. ledgers[w].counted # {}
        BY <1>1, <1>2 DEF Counts
    <2> HIDE DEF added
    <2> QED
        BY <1>1, <1>3, <1>8, <2>1 DEF Counts
<1>10. Progress(w)'
    <2>1. SourceOf(i)' = SourceOf(i) /\ ConfigOf(i)' = ConfigOf(i)
        BY <1>5 DEF SourceOf, ConfigOf
    <2>2. AllOwn(ledgers[w])' <=> AllOwn(ledgers[w])
        BY <1>3, <1>5 DEF AllOwn, Own
    <2>3. Scored(i, cursor[w])' = Scored(i, cursor[w] + 1)
        BY <1>4, <2>1 DEF Scored
    <2>4. ASSUME ~panicking
          PROVE  \/ added = ledgers[w].predictions
                    /\ Scored(i, cursor[w]) = 0 /\ Scored(i, cursor[w] + 1) = 0
                 \/ added = ledgers[w].predictions + 1
                    /\ Scored(i, cursor[w]) \in Nat
                    /\ Scored(i, cursor[w] + 1) = Scored(i, cursor[w]) + 1
        <3>1. CASE pc[w] = "run"
            <4>1. cursor[w] >= ConfigOf(i).warmup
                BY <1>1, <1>2, <1>7, <1>8, <2>4, <3>1 DEF Progress
            <4> QED
                BY <1>7, <1>8, <3>1, <4>1 DEF Scored
        <3>2. CASE pc[w] # "run"
            BY <1>1, <1>7, <1>8, <3>2 DEF Scored
        <3> QED
            BY <3>1, <3>2
    <2>5. cursor'[w] \in Nat /\ cursor'[w] <= SourceOf(i)'.length
        BY <1>1, <1>4, <1>7, <1>8, <2>1
    <2>6. ASSUME ~panicking
          PROVE  /\ added >= Scored(i, cursor[w] + 1)
                 /\ AllOwn(ledgers[w]) => added = Scored(i, cursor[w] + 1)
        <3>1. /\ ledgers[w].predictions >= Scored(i, cursor[w])
              /\ AllOwn(ledgers[w]) => ledgers[w].predictions = Scored(i, cursor[w])
            BY <1>1, <1>2, <2>6 DEF Progress
        <3> HIDE DEF added, i
        <3> QED
            BY <1>8, <2>4, <2>6, <3>1
    <2>7. ASSUME ~panicking
          PROVE  /\ pc[w] = "warmup" => cursor'[w] <= ConfigOf(i).warmup
                 /\ pc[w] = "run" => \/ cursor'[w] = SourceOf(i).length
                                    \/ cursor'[w] >= ConfigOf(i).warmup
        <3>1. pc[w] = "run" => \/ cursor[w] = SourceOf(i).length
                               \/ cursor[w] >= ConfigOf(i).warmup
            BY <1>1, <1>2, <2>7 DEF Progress
        <3> QED
            BY <1>1, <1>4, <1>7, <1>8, <3>1
    <2> HIDE DEF added
    <2> QED
        BY <1>1, <1>3, <1>5, <2>1, <2>2, <2>3, <2>5, <2>6, <2>7 DEF Progress, Running
<1>11. NoResultIsLost'
    BY <1>1, <1>2, ResultsStay DEF Busy
<1> QED
    BY <1>1, <1>2, <1>3, <1>4, <1>5, <1>9, <1>10, <1>11, WholeStep

LEMMA TurnOnWhole ==
    ASSUME SweepInv, WholeInv, NEW w \in Workers, TurnOn(w)
    PROVE  WholeInv'
<1> DEFINE i == doing[w]
<1>1. /\ pc[w] = "warmup" /\ pc' = [pc EXCEPT ![w] = "run"]
      /\ cursor[w] = ConfigOf(i).warmup \/ cursor[w] = SourceOf(i).length
      /\ ledgers' = [ledgers EXCEPT ![w].charging = TRUE]
      /\ cursor' = cursor /\ RunUnchanged
    BY DEF TurnOn, CellOf
<1>2. /\ DOMAIN pc = Workers /\ DOMAIN ledgers = Workers /\ DOMAIN cursor = Workers
      /\ DOMAIN ledgers[w] = {"counted", "predictions", "charging"}
      /\ Counts(w) /\ Progress(w) /\ NoResultIsLost /\ Busy(w) /\ Running(w)
    BY <1>1 DEF SweepInv, Shape, WholeInv, Busy, Running
<1>3. /\ pc'[w] = "run" /\ \A v \in Workers \ {w} : pc'[v] = pc[v] /\ ledgers'[v] = ledgers[v]
      /\ ledgers'[w].predictions = ledgers[w].predictions
      /\ ledgers'[w].counted = ledgers[w].counted
      /\ ledgers'[w].charging = TRUE
    BY <1>1, <1>2
<1>4. UNCHANGED <<grid, jobs, doing, panicking, calls, answer, spoilt>>
    BY <1>1 DEF RunUnchanged
<1>5. i \in DOMAIN jobs
    BY <1>2 DEF SweepInv, Thread, OwnWork
<1>6. SourceOf(i).length \in Nat /\ ConfigOf(i).warmup \in Nat /\ cursor[w] \in Nat
    BY <1>2, <1>5 DEF WholeInv, JobsAreSound, Progress
<1>7. Counts(w)'
    BY <1>2, <1>3 DEF Counts
<1>8. Progress(w)'
    <2>1. SourceOf(i)' = SourceOf(i) /\ ConfigOf(i)' = ConfigOf(i)
        BY <1>4 DEF SourceOf, ConfigOf
    <2>2. AllOwn(ledgers[w])' <=> AllOwn(ledgers[w])
        BY <1>3, <1>4 DEF AllOwn, Own
    <2>3. Scored(i, cursor[w])' = Scored(i, cursor[w])
        BY <1>1, <2>1 DEF Scored
    <2>4. \/ cursor[w] = SourceOf(i).length
          \/ cursor[w] >= ConfigOf(i).warmup
        BY <1>1, <1>6
    <2> QED
        BY <1>1, <1>2, <1>3, <1>4, <1>6, <2>1, <2>2, <2>3, <2>4 DEF Progress, Running
<1>9. NoResultIsLost'
    BY <1>1, <1>2, <1>3, ResultsStay
<1> QED
    BY <1>1, <1>2, <1>3, <1>4, <1>7, <1>8, <1>9, WholeStep

LEMMA FailWhole ==
    ASSUME SweepInv, WholeInv, NEW w \in Workers, Fail(w)
    PROVE  WholeInv'
<1>1. /\ Running(w) /\ pc' = [pc EXCEPT ![w] = "unwind"]
      /\ UNCHANGED <<cursor, ledgers>> /\ RunUnchanged
    BY DEF Fail, SeesRecords, Running
<1>2. /\ DOMAIN pc = Workers /\ DOMAIN cursor = Workers
      /\ Counts(w) /\ Progress(w) /\ NoResultIsLost /\ Busy(w)
    BY <1>1 DEF SweepInv, Shape, WholeInv, Busy, Running
<1>3. pc'[w] = "unwind" /\ \A v \in Workers \ {w} : pc'[v] = pc[v]
    BY <1>1, <1>2
<1>4. UNCHANGED <<grid, jobs, doing, panicking, calls, answer, spoilt>>
    BY <1>1 DEF RunUnchanged
<1>5. Counts(w)' /\ Progress(w)'
    BY <1>1, <1>2, <1>3 DEF Counts, Progress, Running
<1>6. NoResultIsLost'
    BY <1>1, <1>2, <1>3, ResultsStay
<1> QED
    BY <1>1, <1>2, <1>3, <1>4, <1>5, <1>6, WholeStep

LEMMA ReturnWhole ==
    ASSUME SweepInv, WholeInv, NEW w \in Workers, Return(w)
    PROVE  WholeInv'
<1> DEFINE i == doing[w]
<1>1. /\ pc[w] = "run" /\ cursor[w] = SourceOf(i).length
      /\ UNCHANGED <<grid, jobs, todo, cursor, panicking, calls, answer, spoilt>>
    BY DEF Return
<1>2. /\ Shape /\ DOMAIN cursor = Workers
      /\ Counts(w) /\ Progress(w) /\ NoResultIsLost /\ Busy(w)
    BY <1>1 DEF SweepInv, WholeInv, Busy
<1>3. Working /\ i \in DOMAIN jobs
    BY <1>2 DEF SweepInv, Quiet, AllFree, Busy, Thread, OwnWork
<1>4. /\ pc'[w] = "free" /\ ledgers'[w] = FreshLedger
      /\ \A v \in Workers \ {w} :
           pc'[v] = pc[v] /\ doing'[v] = doing[v] /\ ledgers'[v] = ledgers[v]
    BY <1>2 DEF Return, CellOf, Shape
<1>5. /\ slots'[i] = ledgers[w]
      /\ \A j \in DOMAIN jobs \ {i} : slots'[j] = slots[j]
    BY <1>2, <1>3 DEF Return, CellOf, Place, Shape
<1>6. Counts(w)' /\ Progress(w)'
    BY <1>1, <1>2, <1>4 DEF Counts, Progress, Running, FreshLedger
<1>7. NoResultIsLost'
    <2> SUFFICES ASSUME ~panicking, NEW j \in DOMAIN jobs
                 PROVE  \/ j \in todo \/ \E v \in Workers : Busy(v)' /\ doing'[v] = j
                        \/ Whole(slots[j], j)'
        BY <1>1 DEF NoResultIsLost
    <2>1. CASE j = i
        <3>1. Due(i) = Scored(i, cursor[w])
            BY <1>1 DEF Due, Scored
        <3>2. Whole(ledgers[w], i)
            BY <1>1, <1>2, <3>1 DEF Whole, Progress, Running
        <3> QED
            BY <2>1, <3>2, <1>1, <1>5 DEF Whole, AllOwn, Own, Due, SourceOf, ConfigOf
    <2>2. CASE j # i
        <3>1. Whole(slots[j], j) => Whole(slots[j], j)'
            BY <2>2, <1>1, <1>5 DEF Whole, AllOwn, Own, Due, SourceOf, ConfigOf
        <3>2. ASSUME NEW v \in Workers, Busy(v), doing[v] = j
              PROVE  Busy(v)' /\ doing'[v] = j
            BY <2>2, <3>2, <1>4 DEF Busy
        <3> QED
            BY <3>1, <3>2, <1>2, <1>3 DEF NoResultIsLost
    <2> QED
        BY <2>1, <2>2
<1> QED
    BY <1>1, <1>2, <1>4, <1>6, <1>7, WholeStep

LEMMA UnwindWhole ==
    ASSUME SweepInv, WholeInv, NEW w \in Workers, Unwind(w)
    PROVE  WholeInv'
<1>1. /\ pc[w] = "unwind" /\ panicking' = TRUE
      /\ UNCHANGED <<grid, jobs, cursor, ledgers, calls, answer, spoilt>>
    BY DEF Unwind
<1>2. /\ DOMAIN pc = Workers /\ DOMAIN doing = Workers /\ DOMAIN cursor = Workers
      /\ Counts(w) /\ Progress(w) /\ Busy(w)
    BY <1>1 DEF SweepInv, Shape, WholeInv, Busy
<1>3. /\ pc'[w] = "free"
      /\ \A v \in Workers \ {w} : pc'[v] = pc[v] /\ doing'[v] = doing[v]
    BY <1>2 DEF Unwind
<1>4. Counts(w)' /\ Progress(w)' /\ NoResultIsLost'
    BY <1>1, <1>2, <1>3 DEF Counts, Progress, Running, NoResultIsLost
<1> QED
    BY <1>1, <1>2, <1>3, <1>4, WholeStep

LEMMA EndWhole ==
    ASSUME SweepInv, WholeInv, Collect \/ Rethrow
    PROVE  WholeInv'
<1>1. /\ AllFree /\ UNCHANGED <<grid, jobs, pc, cursor, ledgers, slots, panicking, calls>>
    BY DEF Collect, Rethrow
<1>2. /\ JobsAreSound /\ DOMAIN cursor = Workers /\ NoResultIsLost
      /\ \A w \in Workers : Counts(w) /\ Progress(w)
    BY DEF WholeInv
<1>3. JobsAreSound' /\ DOMAIN cursor' = Workers
    BY <1>1, <1>2 DEF JobsAreSound, SourceOf, ConfigOf
<1>4. \A w \in Workers : (Counts(w) /\ Progress(w))'
    BY <1>1, <1>2 DEF Counts, Progress, Running, AllFree
<1>5. CASE Collect
    <2>1. Working /\ ~panicking /\ todo = {} /\ answer' = slots /\ todo' = {} /\ spoilt' = spoilt
        BY <1>5 DEF Collect
    <2>2. DOMAIN slots = DOMAIN jobs /\ \A i \in DOMAIN slots : Whole(slots[i], i)
        BY <1>1, <1>2, <2>1 DEF SweepInv, Shape, NoResultIsLost, AllFree, Busy
    <2>3. \A i \in DOMAIN slots : Whole(slots[i], i)'
        BY <1>1, <2>2 DEF Whole, AllOwn, Own, Due, SourceOf, ConfigOf
    <2>4. NoResultIsLost'
        BY <1>1, <2>2, <2>3 DEF NoResultIsLost
    <2>5. ResultsAreWhole'
        BY <1>1, <2>1, <2>3 DEF ResultsAreWhole, Whole, AllOwn
    <2> QED
        BY <1>3, <1>4, <2>4, <2>5 DEF WholeInv
<1>6. CASE Rethrow
    <2>1. panicking' /\ answer' = None
        BY <1>6 DEF Rethrow, Working
    <2> QED
        BY <1>3, <1>4, <2>1 DEF WholeInv, NoResultIsLost, ResultsAreWhole
<1> QED
    BY <1>5, <1>6

LEMMA StutterWhole ==
    ASSUME WholeInv, UNCHANGED sweepVars
    PROVE  WholeInv'
<1>1. UNCHANGED <<grid, jobs, todo, pc, doing, cursor, ledgers, slots, panicking, calls,
                  answer, spoilt>>
    BY DEF sweepVars
<1>2. JobsAreSound' /\ DOMAIN cursor' = Workers
    BY <1>1 DEF WholeInv, JobsAreSound, Working, SourceOf, ConfigOf
<1>3. ASSUME NEW w \in Workers PROVE (Counts(w) /\ Progress(w))'
    <2>1. Counts(w) /\ Progress(w)
        BY DEF WholeInv
    <2>2. Counts(w)'
        BY <1>1, <2>1 DEF Counts, Busy, Running, Own, AllOwn
    <2>3. Progress(w)'
        BY <1>1, <2>1 DEF Progress, Scored, Busy, Running, Own, AllOwn, SourceOf, ConfigOf
    <2> QED
        BY <2>2, <2>3
<1>4. NoResultIsLost'
    BY <1>1 DEF WholeInv, NoResultIsLost, Working, Busy, Whole, AllOwn, Own, Due, SourceOf, ConfigOf
<1>5. ResultsAreWhole'
    BY <1>1 DEF WholeInv, ResultsAreWhole, Own, Due, SourceOf, ConfigOf
<1> QED
    BY <1>2, <1>3, <1>4, <1>5 DEF WholeInv

LEMMA PoolWhole ==
    ASSUME SweepInv, WholeInv, PoolStep
    PROVE  WholeInv'
<1>1. CASE End
    BY <1>1, EndWhole DEF End
<1>2. ASSUME NEW w \in Workers, Take(w) \/ Step(w) PROVE WholeInv'
    BY <1>2, TakeWhole, BuildWhole, StartWhole, FeedWhole, TurnOnWhole, FailWhole, ReturnWhole, UnwindWhole
       DEF Step
<1> QED
    BY <1>1, <1>2 DEF PoolStep

LEMMA GridsAreSound ==
    ASSUME NEW g \in Grids
    PROVE  SoundGrid(g)
<1>1. g \in Grid
    BY GridsAssumption
<1>2. /\ g.sources \in Seq(Sources) /\ g.configs \in Seq(Configs)
      /\ g.predictors \in Seq(Predictors)
    BY <1>1 DEF Grid
<1>3. IsSequence(g.sources) /\ IsSequence(g.configs) /\ IsSequence(g.predictors)
    BY <1>2 DEF IsSequence
<1>4. \A s \in DOMAIN g.sources : g.sources[s].length \in Nat
    BY <1>2, SourcesAssumption
<1>5. \A c \in DOMAIN g.configs : g.configs[c].warmup \in Nat
    BY <1>2, ConfigsAssumption
<1> QED
    BY <1>3, <1>4, <1>5 DEF SoundGrid

\* Every result of a sweep has the predictions of its whole trace after warmup:
\* Simulator::run_many clones the sources, and a run goes to the end of its own.
THEOREM ResultsHaveAllPredictions == Spec => []ResultsAreWhole
<1>1. Init => SweepInv /\ WholeInv
    BY InitHolds, InitWhole
<1>2. SweepInv /\ WholeInv /\ [Next]_sweepVars => (SweepInv /\ WholeInv)'
    BY NextHolds, PoolWhole, LaunchWhole, GridsAreSound, StutterWhole DEF Next
<1>3. WholeInv => ResultsAreWhole
    BY DEF WholeInv
<1> QED
    BY <1>1, <1>2, <1>3, PTL DEF Spec

-----------------------------------------------------------------------------
(***************************************************************************)
(* What run_many promises is what a sweep does.                            *)
(***************************************************************************)
\* What a metric of this call counts of its own work, what else is in it, and
\* which jobs can panic.
Left(result) == result.counted \ Own(result)

Counted(result, i) ==
    \E building \in Promise!Building(jobs[i].predictor, i, Left(result)) :
      Own(result) = building \cup {Promise!Work(i, "run", calls)}

CanPanic(i) == Promise!CanPanic(jobs[i].source, jobs[i].predictor)

\* The jobs are those of the arguments, in order; a thread has the table of a
\* sweep, or none.
Priced ==
    /\ SoundGrid(grid) /\ jobs = Jobs(grid)
    /\ DOMAIN tables = Workers /\ \A w \in Workers : tables[w] \in 0..calls

\* While nothing panicked, a thread has counted what its job has done so far.
Counting(w) ==
    ~panicking =>
      /\ pc[w] = "build" => Own(ledgers[w]) = {}
      /\ pc[w] = "start" =>
           Own(ledgers[w])
             \in Promise!Building(jobs[doing[w]].predictor, doing[w], Left(ledgers[w]))
      /\ Running(w) => Counted(ledgers[w], doing[w])

NoMetricIsLost ==
    Working /\ ~panicking => \A i \in DOMAIN jobs :
      \/ i \in todo
      \/ \E w \in Workers : Busy(w) /\ doing[w] = i
      \/ Counted(slots[i], i)

\* Who panics can.
Causes ==
    /\ \A w \in Workers : pc[w] = "unwind" => CanPanic(doing[w])
    /\ panicking => \E i \in DOMAIN jobs : CanPanic(i)

PromiseInv == Priced /\ (\A w \in Workers : Counting(w)) /\ NoMetricIsLost /\ Causes

LEMMA InitPromise == Init => PromiseInv
<1> SUFFICES ASSUME Init PROVE PromiseInv
    OBVIOUS
<1>1. /\ grid.sources = <<>> /\ grid.configs = <<>> /\ grid.predictors = <<>>
      /\ jobs = <<>> /\ calls = 0 /\ ~panicking
      /\ tables = [w \in Workers |-> NoTable]
      /\ \A w \in Workers : pc[w] = "free"
    BY DEF Init
<1>2. SoundGrid(grid)
    <2>1. IsSequence(grid.sources) /\ IsSequence(grid.configs) /\ IsSequence(grid.predictors)
        BY <1>1 DEF IsSequence
    <2>2. DOMAIN grid.sources = {} /\ DOMAIN grid.configs = {}
        BY <1>1
    <2> QED
        BY <2>1, <2>2 DEF SoundGrid
<1>3. jobs = Jobs(grid)
    <2>1. Jobs(grid) \in Seq(Job(grid))
          /\ Len(Jobs(grid)) = Len(grid.sources) * (Len(grid.configs) * Len(grid.predictors))
        BY <1>2, JobsAreInOrder
    <2>2. Len(Jobs(grid)) = 0
        BY <1>1, <2>1
    <2>3. Jobs(grid) = <<>>
        BY <2>1, <2>2
    <2> QED
        BY <1>1, <2>3
<1>4. Priced
    BY <1>1, <1>2, <1>3 DEF Priced, NoTable
<1>5. \A w \in Workers : Counting(w)
    BY <1>1 DEF Counting, Running
<1>6. NoMetricIsLost
    BY <1>1 DEF NoMetricIsLost
<1>7. Causes
    BY <1>1 DEF Causes
<1> QED
    BY <1>4, <1>5, <1>6, <1>7 DEF PromiseInv

LEMMA LaunchPromise ==
    ASSUME SweepInv, PromiseInv, NEW g, SoundGrid(g), Launch(g)
    PROVE  PromiseInv'
<1>1. /\ answer' = None /\ grid' = g /\ jobs' = Jobs(g) /\ todo' = DOMAIN jobs' /\ AllFree
      /\ calls' = calls + 1 /\ panicking' = FALSE
      /\ UNCHANGED <<pc, tables>>
    BY DEF SweepInv, Launch, Quiet
<1>2. Priced'
    <2>1. calls \in Nat
        BY DEF SweepInv, Shape
    <2>2. \A n \in 0..calls : n \in 0..calls + 1
        BY <2>1
    <2>3. SoundGrid(grid)' /\ (jobs = Jobs(grid))'
        BY <1>1
    <2>4. DOMAIN tables' = Workers /\ \A w \in Workers : tables'[w] \in 0..calls'
        BY <1>1, <2>2 DEF PromiseInv, Priced
    <2> QED
        BY <2>3, <2>4 DEF Priced
<1>3. ASSUME NEW w \in Workers PROVE Counting(w)'
    BY <1>1 DEF AllFree, Counting, Running
<1>4. NoMetricIsLost'
    BY <1>1 DEF NoMetricIsLost
<1>5. Causes'
    BY <1>1 DEF Causes, AllFree
<1> QED
    BY <1>2, <1>3, <1>4, <1>5 DEF PromiseInv

\* Nothing that a metric is held against changes during a sweep.
LEMMA SameSweep ==
    ASSUME UNCHANGED <<grid, jobs, calls>>
    PROVE  \A i : /\ \A left : Promise!Building(jobs[i].predictor, i, left)'
                                 = Promise!Building(jobs[i].predictor, i, left)
                  /\ Promise!Work(i, "run", calls)' = Promise!Work(i, "run", calls)
BY DEF Promise!Building, Promise!Work

\* A metric in its place stays one.
LEMMA MetricStays ==
    ASSUME UNCHANGED <<grid, jobs, calls>>, NEW i, slots'[i] = slots[i], Counted(slots[i], i)
    PROVE  Counted(slots[i], i)'
<1>1. Own(slots[i])' = Own(slots[i]) /\ Left(slots[i])' = Left(slots[i])
    BY DEF Own, Left
<1>2. Promise!Building(jobs[i].predictor, i, Left(slots[i]))'
        = Promise!Building(jobs[i].predictor, i, Left(slots[i]))
    BY <1>1 DEF Promise!Building, Promise!Work
<1> QED
    BY <1>1, <1>2, SameSweep DEF Counted

\* So does what a thread has counted that does not step.
LEMMA CountingStays ==
    ASSUME UNCHANGED <<grid, jobs, calls>>, ~panicking' => ~panicking, NEW v, Counting(v),
           pc'[v] = pc[v], doing'[v] = doing[v], ledgers'[v] = ledgers[v]
    PROVE  Counting(v)'
<1>1. Own(ledgers[v])' = Own(ledgers[v]) /\ Left(ledgers[v])' = Left(ledgers[v])
    BY DEF Own, Left
<1>2. Promise!Building(jobs[doing[v]].predictor, doing[v], Left(ledgers[v]))'
        = Promise!Building(jobs[doing[v]].predictor, doing[v], Left(ledgers[v]))
    BY <1>1 DEF Promise!Building, Promise!Work
<1>3. Promise!Work(doing[v], "run", calls)' = Promise!Work(doing[v], "run", calls)
    BY DEF Promise!Work
<1>4. Counted(ledgers[v], doing[v]) => Counted(ledgers[v], doing[v])'
    BY <1>1, <1>2, <1>3 DEF Counted
<1> QED
    BY <1>1, <1>2, <1>4 DEF Counting, Running

LEMMA ShapeOfSweep ==
    ASSUME SweepInv
    PROVE  /\ DOMAIN pc = Workers /\ DOMAIN doing = Workers /\ DOMAIN ledgers = Workers
           /\ DOMAIN slots = DOMAIN jobs /\ calls \in Nat /\ panicking \in BOOLEAN
           /\ \A w \in Workers : DOMAIN ledgers[w] = {"counted", "predictions", "charging"}
           /\ \A w \in Workers : Busy(w) => Working /\ doing[w] \in DOMAIN jobs
           /\ todo # {} => Working
BY DEF SweepInv, Shape, Thread, OwnWork, Quiet, AllFree, Busy

\* What is left to show of a step of one thread.
LEMMA PromiseStep ==
    ASSUME PromiseInv, NEW w \in Workers,
           UNCHANGED <<grid, jobs, calls>>,
           panicking \in BOOLEAN, panicking' = panicking \/ panicking' = TRUE,
           DOMAIN tables' = Workers, tables'[w] \in 0..calls, Counting(w)', NoMetricIsLost',
           pc'[w] = "unwind" => CanPanic(doing'[w]),
           panicking' => panicking \/ \E i \in DOMAIN jobs : CanPanic(i),
           \A v \in Workers \ {w} :
             /\ pc'[v] = pc[v] /\ doing'[v] = doing[v]
             /\ ledgers'[v] = ledgers[v] /\ tables'[v] = tables[v]
    PROVE  PromiseInv'
<1>1. Priced'
    <2>1. \A v \in Workers : tables'[v] \in 0..calls
        BY DEF PromiseInv, Priced
    <2>2. SoundGrid(grid)' /\ (jobs = Jobs(grid))'
        BY DEF PromiseInv, Priced, SoundGrid, IsSequence, Jobs
    <2> QED
        BY <2>1, <2>2 DEF Priced
<1>2. ASSUME NEW v \in Workers \ {w} PROVE Counting(v)'
    <2>1. Counting(v) /\ (~panicking' => ~panicking)
        BY DEF PromiseInv
    <2>2. pc'[v] = pc[v] /\ doing'[v] = doing[v] /\ ledgers'[v] = ledgers[v]
        OBVIOUS
    <2> QED
        BY <2>1, <2>2, CountingStays
<1>3. Causes'
    <2>1. \A i : CanPanic(i)' <=> CanPanic(i)
        BY DEF CanPanic, Promise!CanPanic
    <2>2. \A v \in Workers : pc'[v] = "unwind" => CanPanic(doing'[v])
        BY DEF PromiseInv, Causes
    <2>3. panicking' => \E i \in DOMAIN jobs : CanPanic(i)
        BY DEF PromiseInv, Causes
    <2> QED
        BY <2>1, <2>2, <2>3 DEF Causes
<1> QED
    BY <1>1, <1>2, <1>3 DEF PromiseInv

\* A step of a thread that keeps its job loses no metric.
LEMMA MetricsStay ==
    ASSUME NoMetricIsLost, RunUnchanged, NEW w \in Workers, pc'[w] # "free",
           \A v \in Workers \ {w} : pc'[v] = pc[v]
    PROVE  NoMetricIsLost'
<1>1. UNCHANGED <<grid, jobs, todo, doing, slots, panicking, calls, answer, spoilt>>
    BY DEF RunUnchanged
<1>2. \A v \in Workers : Busy(v) => Busy(v)' /\ doing'[v] = doing[v]
    BY <1>1 DEF Busy
<1>3. \A j : Counted(slots[j], j) => Counted(slots[j], j)'
    BY <1>1, MetricStays
<1> QED
    BY <1>1, <1>2, <1>3 DEF NoMetricIsLost, Working

LEMMA TakePromise ==
    ASSUME SweepInv, PromiseInv, NEW w \in Workers, Take(w)
    PROVE  PromiseInv'
<1>1. PICK i \in todo : todo' = todo \ {i} /\ doing' = [doing EXCEPT ![w] = i]
    BY DEF Take
<1>2. /\ pc[w] = "free" /\ pc' = [pc EXCEPT ![w] = "build"]
      /\ UNCHANGED <<grid, jobs, ledgers, tables, slots, panicking, calls, answer, spoilt>>
    BY DEF Take
<1>3. /\ DOMAIN pc = Workers /\ DOMAIN doing = Workers /\ Working /\ panicking \in BOOLEAN
      /\ Thread(w) /\ NoMetricIsLost /\ Priced
    BY ShapeOfSweep DEF SweepInv, PromiseInv
<1>4. \A v \in Workers \ {w} : pc'[v] = pc[v] /\ doing'[v] = doing[v]
    BY <1>1, <1>2, <1>3
<1>5. pc'[w] = "build" /\ doing'[w] = i
    BY <1>1, <1>2, <1>3
<1>6. Counting(w)'
    <2>1. ~panicking => \A work \in ledgers[w].counted : work.sweep \in spoilt
        BY <1>2, <1>3 DEF Thread, Clean
    <2>2. ~panicking => Own(ledgers[w]) = {}
        BY <1>3, <2>1 DEF Own, Working
    <2> QED
        BY <1>2, <1>5, <2>2 DEF Counting, Running, Own
<1>7. NoMetricIsLost'
    <2> SUFFICES ASSUME ~panicking, NEW j \in DOMAIN jobs
                 PROVE  \/ j \in todo' \/ \E v \in Workers : Busy(v)' /\ doing'[v] = j
                        \/ Counted(slots[j], j)'
        BY <1>2 DEF NoMetricIsLost
    <2>1. CASE j \in todo
        BY <2>1, <1>1, <1>5 DEF Busy
    <2>2. CASE Counted(slots[j], j)
        BY <2>2, <1>2, MetricStays
    <2>3. ASSUME NEW v \in Workers, Busy(v), doing[v] = j
          PROVE  Busy(v)' /\ doing'[v] = j
        BY <2>3, <1>2, <1>4 DEF Busy
    <2> QED
        BY <2>1, <2>2, <2>3, <1>3 DEF NoMetricIsLost
<1>8. DOMAIN tables' = Workers /\ tables'[w] \in 0..calls
    BY <1>2, <1>3 DEF Priced
<1> QED
    BY <1>2, <1>3, <1>4, <1>5, <1>6, <1>7, <1>8, PromiseStep

LEMMA BuildPromise ==
    ASSUME SweepInv, WholeInv, PromiseInv, NEW w \in Workers, Build(w)
    PROVE  PromiseInv'
<1> DEFINE i == doing[w]
           computes == PredictorOf(i).computes
           table == tables[w]
           charging == ledgers[w].charging
           work == Work(i, "build", table)
<1>1. /\ pc[w] = "build" /\ UNCHANGED <<cursor, tables>> /\ RunUnchanged
      /\ pc' = [pc EXCEPT ![w] = IF computes /\ table = NoTable THEN "unwind" ELSE "start"]
      /\ ledgers' = IF computes /\ table # NoTable /\ charging
                      THEN [ledgers EXCEPT ![w].counted = @ \cup {work}] ELSE ledgers
    BY DEF Build, CellOf
<1>2. UNCHANGED <<grid, jobs, doing, panicking, calls, answer, spoilt>>
    BY <1>1 DEF RunUnchanged
<1>3. /\ DOMAIN pc = Workers /\ DOMAIN ledgers = Workers /\ calls \in Nat
      /\ panicking \in BOOLEAN /\ i \in DOMAIN jobs
      /\ DOMAIN ledgers[w] = {"counted", "predictions", "charging"}
      /\ Counting(w) /\ NoMetricIsLost /\ Priced
      /\ ~charging => ledgers[w].counted # {}
    BY <1>1, ShapeOfSweep DEF PromiseInv, Busy, WholeInv, Counts
<1>4. table \in 0..calls
    BY <1>3 DEF Priced
<1>5. work = Promise!Work(i, "build", table) /\ work.sweep = calls
    BY DEF Work, Promise!Work
<1> HIDE DEF computes, table, charging, work
<1>6. \A v \in Workers \ {w} : pc'[v] = pc[v] /\ ledgers'[v] = ledgers[v]
    BY <1>1, <1>3
<1>7. ~panicking => Own(ledgers[w]) = {}
    BY <1>1, <1>3 DEF Counting
<1>8. CASE computes /\ table = NoTable
    <2>1. pc'[w] = "unwind"
        BY <1>1, <1>3, <1>8
    <2>2. CanPanic(i)
        BY <1>8 DEF CanPanic, Promise!CanPanic, computes, PredictorOf
    <2>3. Counting(w)'
        BY <2>1 DEF Counting, Running
    <2>4. NoMetricIsLost'
        BY <1>1, <1>3, <1>6, <2>1, MetricsStay
    <2>5. DOMAIN tables' = Workers /\ tables'[w] \in 0..calls /\ \A v \in Workers : tables'[v] = tables[v]
        BY <1>1, <1>3 DEF Priced
    <2> QED
        BY <1>2, <1>3, <1>6, <2>1, <2>2, <2>3, <2>4, <2>5, PromiseStep
<1>9. CASE ~(computes /\ table = NoTable)
    <2>1. pc'[w] = "start"
        BY <1>1, <1>3, <1>9
    <2>2. PICK built : built = IF computes /\ charging THEN {work} ELSE {}
        OBVIOUS
    <2>3. ledgers'[w].counted = ledgers[w].counted \cup built
        BY <1>1, <1>3, <1>9, <2>2
    <2>4. Counting(w)'
        <3> SUFFICES ASSUME ~panicking
                     PROVE  Own(ledgers[w])'
                              \in Promise!Building(jobs[i].predictor, i, Left(ledgers[w]))'
            BY <1>2, <2>1 DEF Counting, Running
        <3>1. PICK left : left = Left(ledgers[w])
            OBVIOUS
        <3>2. left = ledgers[w].counted /\ (~charging => left # {})
            BY <1>3, <1>7, <3>1 DEF Left
        <3>3. Own(ledgers[w])' = built
            BY <1>2, <1>5, <1>7, <2>2, <2>3 DEF Own
        <3>4. Left(ledgers[w])' = left
            <4>1. \A old \in left : old \notin built
                BY <1>5, <1>7, <2>2, <3>2 DEF Own
            <4> QED
                BY <2>3, <3>2, <3>3, <4>1 DEF Left
        <3>5. built \in Promise!Building(jobs[i].predictor, i, left)
            <4>1. CASE computes
                <5>1. table \in 1..calls
                    BY <1>3, <1>4, <1>9, <4>1 DEF NoTable
                <5> QED
                    BY <1>5, <2>2, <3>2, <4>1, <5>1 DEF Promise!Building, computes, PredictorOf
            <4>2. CASE ~computes
                BY <2>2, <4>2 DEF Promise!Building, computes, PredictorOf
            <4> QED
                BY <4>1, <4>2
        <3>6. Promise!Building(jobs[i].predictor, i, Left(ledgers[w]))'
                = Promise!Building(jobs[i].predictor, i, left)
            BY <1>2, <3>4 DEF Promise!Building, Promise!Work
        <3> QED
            BY <3>3, <3>5, <3>6
    <2>5. NoMetricIsLost'
        BY <1>1, <1>3, <1>6, <2>1, MetricsStay
    <2>6. DOMAIN tables' = Workers /\ tables'[w] \in 0..calls /\ \A v \in Workers : tables'[v] = tables[v]
        BY <1>1, <1>3 DEF Priced
    <2> QED
        BY <1>2, <1>3, <1>6, <2>1, <2>4, <2>5, <2>6, PromiseStep
<1> QED
    BY <1>8, <1>9

LEMMA StartPromise ==
    ASSUME SweepInv, PromiseInv, NEW w \in Workers, StartRun(w)
    PROVE  PromiseInv'
<1> DEFINE i == doing[w]
           work == Work(i, "run", calls)
<1>1. /\ pc[w] = "start" /\ pc' = [pc EXCEPT ![w] = "warmup"] /\ RunUnchanged
      /\ tables' = [tables EXCEPT ![w] = calls]
      /\ ledgers' = [ledgers EXCEPT ![w].counted = @ \cup {work}, ![w].charging = FALSE]
    BY DEF StartRun, CellOf
<1>2. UNCHANGED <<grid, jobs, doing, panicking, calls, answer, spoilt>>
    BY <1>1 DEF RunUnchanged
<1>3. /\ DOMAIN pc = Workers /\ DOMAIN ledgers = Workers /\ calls \in Nat
      /\ panicking \in BOOLEAN
      /\ DOMAIN ledgers[w] = {"counted", "predictions", "charging"}
      /\ Counting(w) /\ NoMetricIsLost /\ DOMAIN tables = Workers
    BY ShapeOfSweep DEF PromiseInv, Priced
<1>4. work = Promise!Work(i, "run", calls) /\ work.sweep = calls
    BY DEF Work, Promise!Work
<1> HIDE DEF work
<1>5. /\ pc'[w] = "warmup" /\ tables'[w] = calls /\ DOMAIN tables' = Workers
      /\ \A v \in Workers \ {w} :
           pc'[v] = pc[v] /\ ledgers'[v] = ledgers[v] /\ tables'[v] = tables[v]
    BY <1>1, <1>3
<1>6. ledgers'[w].counted = ledgers[w].counted \cup {work}
    BY <1>1, <1>3
<1>7. Counting(w)'
    <2>1. Own(ledgers[w])' = Own(ledgers[w]) \cup {work} /\ Left(ledgers[w])' = Left(ledgers[w])
        BY <1>2, <1>4, <1>6 DEF Own, Left
    <2>2. ~panicking => Own(ledgers[w]) \in Promise!Building(jobs[i].predictor, i, Left(ledgers[w]))
        BY <1>1, <1>3 DEF Counting
    <2>3. Promise!Building(jobs[i].predictor, i, Left(ledgers[w]))'
            = Promise!Building(jobs[i].predictor, i, Left(ledgers[w]))
        BY <1>2, <2>1 DEF Promise!Building, Promise!Work
    <2>4. Promise!Work(i, "run", calls)' = Promise!Work(i, "run", calls)
        BY <1>2, SameSweep
    <2>5. ~panicking => Counted(ledgers[w], i)'
        BY <1>4, <2>1, <2>2, <2>3, <2>4 DEF Counted
    <2> QED
        BY <1>2, <1>5, <2>5 DEF Counting
<1>8. NoMetricIsLost'
    BY <1>1, <1>3, <1>5, MetricsStay
<1>9. calls \in 0..calls
    BY <1>3
<1> QED
    BY <1>2, <1>3, <1>5, <1>7, <1>8, <1>9, PromiseStep

\* A record, the switch and a panic leave what is counted alone.
LEMMA FeedPromise ==
    ASSUME SweepInv, WholeInv, PromiseInv, NEW w \in Workers, Feed(w) \/ TurnOn(w) \/ Fail(w)
    PROVE  PromiseInv'
<1>1. /\ Running(w) /\ tables' = tables /\ RunUnchanged
      /\ pc' = pc \/ pc' = [pc EXCEPT ![w] = "run"] \/ pc' = [pc EXCEPT ![w] = "unwind"]
    BY DEF Feed, TurnOn, Fail, SeesRecords, Running
<1>2. UNCHANGED <<grid, jobs, doing, panicking, calls, answer, spoilt>>
    BY <1>1 DEF RunUnchanged
<1>3. /\ DOMAIN pc = Workers /\ DOMAIN ledgers = Workers
      /\ panicking \in BOOLEAN
      /\ DOMAIN ledgers[w] = {"counted", "predictions", "charging"}
      /\ Counting(w) /\ NoMetricIsLost
      /\ DOMAIN tables = Workers /\ tables[w] \in 0..calls
      /\ doing[w] \in DOMAIN jobs
    BY <1>1, ShapeOfSweep DEF PromiseInv, Priced, Busy, Running
<1>4. /\ ledgers'[w].counted = ledgers[w].counted
      /\ \A v \in Workers \ {w} : ledgers'[v] = ledgers[v]
    <2>1. CASE Fail(w)
        BY <2>1 DEF Fail
    <2>2. CASE Feed(w)
        <3>1. \/ ledgers' = ledgers
              \/ \E n : ledgers' = [ledgers EXCEPT ![w].predictions = n]
            BY <2>2 DEF Feed, CellOf
        <3> QED
            BY <1>3, <3>1
    <2>3. CASE TurnOn(w)
        BY <1>3, <2>3 DEF TurnOn, CellOf
    <2> QED
        BY <2>1, <2>2, <2>3
<1>5. pc'[w] \in {"warmup", "run", "unwind"} /\ \A v \in Workers \ {w} : pc'[v] = pc[v]
    BY <1>1, <1>3 DEF Running
<1>6. pc'[w] = "unwind" => CanPanic(doing[w])
    <2>1. pc'[w] = "unwind" => Fail(w)
        BY <1>1, <1>3 DEF Feed, TurnOn, Running
    <2>2. PICK n \in Nat, k \in Nat :
            n = SourceOf(doing[w]).length /\ k = ConfigOf(doing[w]).warmup
        BY <1>3 DEF WholeInv, JobsAreSound
    <2>3. Fail(w) => n > 0 /\ PredictorOf(doing[w]).fails
        BY <2>2 DEF Fail, SeesRecords
    <2> QED
        BY <2>1, <2>2, <2>3 DEF CanPanic, Promise!CanPanic, SourceOf, PredictorOf
<1>7. Counting(w)'
    <2>1. ~panicking => Counted(ledgers[w], doing[w])
        BY <1>1, <1>3 DEF Counting
    <2>2. PICK i : i = doing[w] /\ i = doing'[w]
        BY <1>2
    <2>3. Own(ledgers[w])' = Own(ledgers[w]) /\ Left(ledgers[w])' = Left(ledgers[w])
        BY <1>2, <1>4 DEF Own, Left
    <2>4. Promise!Building(jobs[i].predictor, i, Left(ledgers[w]))'
            = Promise!Building(jobs[i].predictor, i, Left(ledgers[w]))
        BY <1>2, <2>3 DEF Promise!Building, Promise!Work
    <2>5. ~panicking => Counted(ledgers[w], doing[w])'
        BY <1>2, <2>1, <2>2, <2>3, <2>4, SameSweep DEF Counted
    <2> QED
        BY <1>2, <1>5, <2>5 DEF Counting
<1>8. NoMetricIsLost'
    BY <1>1, <1>3, <1>5, MetricsStay
<1> QED
    BY <1>1, <1>2, <1>3, <1>4, <1>5, <1>6, <1>7, <1>8, PromiseStep

\* A metric goes to the place of its job.
LEMMA ReturnPromise ==
    ASSUME SweepInv, PromiseInv, NEW w \in Workers, Return(w)
    PROVE  PromiseInv'
<1>0. PICK i : i = doing[w]
    OBVIOUS
<1>1. /\ pc[w] = "run"
      /\ UNCHANGED <<grid, jobs, todo, tables, panicking, calls, answer, spoilt>>
    BY DEF Return
<1>2. /\ DOMAIN pc = Workers /\ DOMAIN doing = Workers /\ DOMAIN ledgers = Workers
      /\ DOMAIN slots = DOMAIN jobs /\ panicking \in BOOLEAN /\ Working /\ i \in DOMAIN jobs
      /\ Counting(w) /\ NoMetricIsLost
      /\ DOMAIN tables = Workers /\ tables[w] \in 0..calls
    BY <1>0, <1>1, ShapeOfSweep DEF PromiseInv, Priced, Busy
<1>3. /\ pc'[w] = "free"
      /\ \A v \in Workers \ {w} :
           pc'[v] = pc[v] /\ doing'[v] = doing[v] /\ ledgers'[v] = ledgers[v]
    BY <1>2 DEF Return, CellOf
<1>4. /\ slots'[i] = ledgers[w]
      /\ \A j \in DOMAIN jobs \ {i} : slots'[j] = slots[j]
    BY <1>0, <1>2 DEF Return, CellOf, Place
<1>5. Counting(w)'
    BY <1>3 DEF Counting, Running
<1>6. NoMetricIsLost'
    <2> SUFFICES ASSUME ~panicking, NEW j \in DOMAIN jobs
                 PROVE  \/ j \in todo \/ \E v \in Workers : Busy(v)' /\ doing'[v] = j
                        \/ Counted(slots[j], j)'
        BY <1>1 DEF NoMetricIsLost
    <2>1. CASE j = i
        <3>1. Counted(ledgers[w], i)
            BY <1>0, <1>1, <1>2 DEF Counting, Running
        <3>2. Own(slots[i])' = Own(ledgers[w]) /\ Left(slots[i])' = Left(ledgers[w])
            BY <1>1, <1>4 DEF Own, Left
        <3>3. Promise!Building(jobs[i].predictor, i, Left(slots[i]))'
                = Promise!Building(jobs[i].predictor, i, Left(ledgers[w]))
            BY <1>1, <3>2 DEF Promise!Building, Promise!Work
        <3>4. Counted(slots[i], i)'
            BY <1>1, <3>1, <3>2, <3>3, SameSweep DEF Counted
        <3> QED
            BY <2>1, <3>4
    <2>2. CASE j # i
        <3>1. Counted(slots[j], j) => Counted(slots[j], j)'
            BY <2>2, <1>1, <1>4, MetricStays
        <3>2. ASSUME NEW v \in Workers, Busy(v), doing[v] = j
              PROVE  Busy(v)' /\ doing'[v] = j
            BY <1>0, <2>2, <3>2, <1>3 DEF Busy
        <3> QED
            BY <3>1, <3>2, <1>2 DEF NoMetricIsLost
    <2> QED
        BY <2>1, <2>2
<1> QED
    BY <1>1, <1>2, <1>3, <1>5, <1>6, PromiseStep

LEMMA UnwindPromise ==
    ASSUME SweepInv, PromiseInv, NEW w \in Workers, Unwind(w)
    PROVE  PromiseInv'
<1>1. /\ pc[w] = "unwind" /\ panicking' = TRUE
      /\ UNCHANGED <<grid, jobs, ledgers, tables, calls>>
    BY DEF Unwind
<1>2. /\ DOMAIN pc = Workers /\ DOMAIN doing = Workers /\ panicking \in BOOLEAN
      /\ DOMAIN tables = Workers /\ tables[w] \in 0..calls
      /\ doing[w] \in DOMAIN jobs /\ CanPanic(doing[w])
    BY <1>1, ShapeOfSweep DEF PromiseInv, Priced, Causes, Busy
<1>3. /\ pc'[w] = "free"
      /\ \A v \in Workers \ {w} : pc'[v] = pc[v] /\ doing'[v] = doing[v]
    BY <1>2 DEF Unwind
<1>4. Counting(w)'
    BY <1>1 DEF Counting
<1>5. NoMetricIsLost'
    BY <1>1 DEF NoMetricIsLost
<1> QED
    BY <1>1, <1>2, <1>3, <1>4, <1>5, PromiseStep

LEMMA EndPromise ==
    ASSUME SweepInv, PromiseInv, Collect \/ Rethrow
    PROVE  PromiseInv'
<1>1. /\ AllFree
      /\ UNCHANGED <<grid, jobs, pc, doing, ledgers, tables, slots, panicking, calls>>
    BY DEF Collect, Rethrow
<1>2. Priced'
    BY <1>1 DEF PromiseInv, Priced, SoundGrid, IsSequence, Jobs
<1>3. ASSUME NEW w \in Workers PROVE Counting(w)'
    BY <1>1 DEF Counting, Running, AllFree
<1>4. Causes'
    BY <1>1 DEF PromiseInv, Causes, CanPanic, Promise!CanPanic
<1>5. NoMetricIsLost'
    <2>1. CASE Rethrow
        <3>1. panicking'
            BY <2>1 DEF Rethrow
        <3> QED
            BY <3>1 DEF NoMetricIsLost
    <2>2. CASE Collect
        <3>1. Working /\ ~panicking /\ todo = {} /\ spoilt' = spoilt
            BY <2>2 DEF Collect
        <3>2. \A j \in DOMAIN jobs : Counted(slots[j], j)
            BY <1>1, <3>1 DEF PromiseInv, NoMetricIsLost, AllFree, Busy
        <3>3. \A j \in DOMAIN jobs : Counted(slots[j], j)'
            BY <1>1, <3>2, MetricStays
        <3> QED
            BY <1>1, <3>3 DEF NoMetricIsLost
    <2> QED
        BY <2>1, <2>2
<1> QED
    BY <1>2, <1>3, <1>4, <1>5 DEF PromiseInv

LEMMA StutterPromise ==
    ASSUME PromiseInv, UNCHANGED sweepVars
    PROVE  PromiseInv'
<1>1. UNCHANGED <<grid, jobs, todo, pc, doing, ledgers, tables, slots, panicking, calls,
                  answer, spoilt>>
    BY DEF sweepVars
<1>2. Priced'
    BY <1>1 DEF PromiseInv, Priced, SoundGrid, IsSequence, Jobs
<1>3. ASSUME NEW w \in Workers PROVE Counting(w)'
    BY <1>1, CountingStays DEF PromiseInv
<1>4. Causes'
    BY <1>1 DEF PromiseInv, Causes, CanPanic, Promise!CanPanic
<1>5. NoMetricIsLost'
    <2>1. \A v \in Workers : Busy(v)' = Busy(v) /\ doing'[v] = doing[v]
        BY <1>1 DEF Busy
    <2>2. \A j : Counted(slots[j], j) => Counted(slots[j], j)'
        BY <1>1, MetricStays
    <2> QED
        BY <1>1, <2>1, <2>2 DEF PromiseInv, NoMetricIsLost, Working
<1> QED
    BY <1>2, <1>3, <1>4, <1>5 DEF PromiseInv

LEMMA NextPromise == SweepInv /\ WholeInv /\ PromiseInv /\ [Next]_sweepVars => PromiseInv'
<1> SUFFICES ASSUME SweepInv, WholeInv, PromiseInv, [Next]_sweepVars PROVE PromiseInv'
    OBVIOUS
<1>1. CASE End
    BY <1>1, EndPromise DEF End
<1>2. ASSUME NEW w \in Workers, Take(w) \/ Step(w) PROVE PromiseInv'
    BY <1>2, TakePromise, BuildPromise, StartPromise, FeedPromise, ReturnPromise, UnwindPromise
       DEF Step
<1>3. ASSUME NEW g \in Grids, Launch(g) PROVE PromiseInv'
    BY <1>3, LaunchPromise, GridsAreSound
<1>4. CASE UNCHANGED sweepVars
    BY <1>4, StutterPromise
<1> QED
    BY <1>1, <1>2, <1>3, <1>4 DEF Next, PoolStep

\* The place of a combination is that of its job.
LEMMA PlaceOfJob ==
    ASSUME SoundGrid(grid), jobs = Jobs(grid), NEW s \in DOMAIN grid.sources,
           NEW c \in DOMAIN grid.configs, NEW p \in DOMAIN grid.predictors
    PROVE  /\ Promise!Place(s, c, p) \in DOMAIN jobs
           /\ jobs[Promise!Place(s, c, p)] = [source |-> s, config |-> c, predictor |-> p]
<1>1. PICK S \in Nat, C \in Nat, P \in Nat :
        S = Len(grid.sources) /\ C = Len(grid.configs) /\ P = Len(grid.predictors)
    BY DEF SoundGrid, IsSequence
<1>2. s \in 1..S /\ c \in 1..C /\ p \in 1..P
    BY <1>1 DEF SoundGrid, IsSequence
<1>3. Cell(P, c, p) \in 1..C * P
    BY <1>2, CellPlaces
<1>4. PICK n \in Nat : n = C * P
    BY ProductIsNat
<1>5. Cell(n, s, Cell(P, c, p)) \in 1..S * n
    BY <1>2, <1>3, <1>4, CellPlaces
<1>6. Promise!Place(s, c, p) = Cell(n, s, Cell(P, c, p))
    BY <1>1, <1>4 DEF Promise!Place, Cell
<1>7. Promise!Place(s, c, p) = PlaceOf(grid, s, c, p)
    BY <1>1, <1>4, <1>6 DEF PlaceOf
<1>8. DOMAIN jobs = 1..S * n
    <2>1. DOMAIN jobs = 1..Len(jobs)
        BY SoundJobs
    <2>2. Len(jobs) = S * n
        BY <1>1, <1>4, JobsAreInOrder
    <2> QED
        BY <2>1, <2>2
<1>9. jobs[PlaceOf(grid, s, c, p)] = [source |-> s, config |-> c, predictor |-> p]
    BY JobsAreInOrder
<1> QED
    BY <1>5, <1>6, <1>7, <1>8, <1>9

\* When all jobs are done, each place has the metric of its combination.
LEMMA MetricInPlace ==
    ASSUME SweepInv, WholeInv, PromiseInv, Collect, NEW s \in DOMAIN grid.sources,
           NEW c \in DOMAIN grid.configs, NEW p \in DOMAIN grid.predictors
    PROVE  Promise!IsMetric(slots[Promise!Place(s, c, p)], s, c, p)
<1>1. PICK i : i = Promise!Place(s, c, p)
    OBVIOUS
<1>2. i \in DOMAIN jobs /\ jobs[i] = [source |-> s, config |-> c, predictor |-> p]
    BY <1>1, PlaceOfJob DEF PromiseInv, Priced
<1>3. /\ Working /\ ~panicking /\ todo = {} /\ calls \notin spoilt
      /\ \A w \in Workers : ~Busy(w)
    BY DEF Collect, AllFree, Busy, Working
<1>4. PICK metric : metric = slots[i]
    OBVIOUS
<1>5. Owned(metric, i) /\ Whole(metric, i) /\ Counted(metric, i)
    BY <1>2, <1>3, <1>4 DEF SweepInv, NoJobIsLost, WholeInv, NoResultIsLost, PromiseInv,
                             NoMetricIsLost
<1> DEFINE left == {work \in metric.counted : work.sweep \in spoilt}
<1>6. metric.counted \ left = Own(metric)
    BY <1>3, <1>5 DEF Owned, Own
<1>7. (left = {} <=> AllOwn(metric)) /\ left = Left(metric)
    BY <1>6 DEF AllOwn, Own, Left
<1> HIDE DEF left
<1>8. Promise!Due(s, c) = Due(i)
    BY <1>2 DEF Promise!Due, Due, SourceOf, ConfigOf
<1>9. \E building \in Promise!Building(p, i, left) :
        metric.counted \ left = building \cup {Promise!Work(i, "run", calls)}
    BY <1>2, <1>5, <1>6, <1>7 DEF Counted
<1>10. metric.predictions >= Promise!Due(s, c)
       /\ (left = {} => metric.predictions = Promise!Due(s, c))
    BY <1>5, <1>7, <1>8 DEF Whole
<1> QED
    BY <1>1, <1>4, <1>9, <1>10 DEF Promise!IsMetric, left

\* A step of a sweep is one of the promise, or the caller does not notice it.
LEMMA StepIsPromised ==
    ASSUME SweepInv, WholeInv, PromiseInv, [Next]_sweepVars
    PROVE  [Promise!Next]_(Promise!vars)
<1>1. ASSUME NEW g \in Grids, Launch(g) PROVE Promise!Next
    <2>1. Promise!Call(g)
        BY <1>1 DEF Launch, Working, Promise!Call, Promise!Waiting
    <2> QED
        BY <2>1 DEF Promise!Next
<1>2. CASE Rethrow
    <2>1. Promise!Waiting /\ panicking /\ spoilt' = spoilt \cup {calls}
          /\ UNCHANGED <<grid, calls, answer>>
        BY <1>2 DEF Rethrow, Working, Promise!Waiting
    <2>2. PICK i \in DOMAIN jobs : CanPanic(i)
        BY <2>1 DEF PromiseInv, Causes
    <2>3. jobs[i] \in Job(grid)
        <3>1. jobs \in Seq(Job(grid))
            BY JobsAreInOrder DEF PromiseInv, Priced
        <3> QED
            BY <3>1
    <2>4. PICK s \in DOMAIN grid.sources, c \in DOMAIN grid.configs, p \in DOMAIN grid.predictors :
            s = jobs[i].source /\ p = jobs[i].predictor
        BY <2>3 DEF Job
    <2>5. Promise!CanPanic(s, p)
        BY <2>2, <2>4 DEF CanPanic
    <2>6. Promise!Panic
        BY <2>1, <2>4, <2>5 DEF Promise!Panic
    <2> QED
        BY <2>6 DEF Promise!Next
<1>3. CASE Collect /\ answer' # None
    <2>1. Promise!Waiting /\ answer' = slots /\ UNCHANGED <<grid, calls, spoilt>>
        BY <1>3 DEF Collect, Working, Promise!Waiting
    <2>2. DOMAIN slots = 1..Promise!Runs
        <3>1. SoundGrid(grid) /\ jobs = Jobs(grid) /\ DOMAIN slots = DOMAIN jobs
            BY ShapeOfSweep DEF PromiseInv, Priced
        <3>2. DOMAIN jobs = 1..Len(jobs)
            BY <3>1, SoundJobs
        <3>3. Len(jobs) = Len(grid.sources) * (Len(grid.configs) * Len(grid.predictors))
            BY <3>1, JobsAreInOrder
        <3> QED
            BY <3>1, <3>2, <3>3 DEF Promise!Runs
    <2>3. \A s \in DOMAIN grid.sources, c \in DOMAIN grid.configs, p \in DOMAIN grid.predictors :
            Promise!IsMetric(answer'[Promise!Place(s, c, p)], s, c, p)
        BY <1>3, <2>1, MetricInPlace
    <2>4. Promise!Answer
        BY <1>3, <2>1, <2>2, <2>3 DEF Promise!Answer
    <2> QED
        BY <2>4 DEF Promise!Next
<1>4. CASE Collect /\ answer' = None
    BY <1>4 DEF Collect, Working, Promise!vars
<1>5. ASSUME NEW w \in Workers, Take(w) \/ Step(w) PROVE UNCHANGED Promise!vars
    BY <1>5 DEF Take, Step, Build, StartRun, Feed, TurnOn, Fail, Return, Unwind, RunUnchanged,
                Promise!vars
<1>6. CASE UNCHANGED sweepVars
    BY <1>6 DEF sweepVars, Promise!vars
<1> QED
    BY <1>1, <1>2, <1>3, <1>4, <1>5, <1>6 DEF Next, PoolStep, End

LEMMA SweepInvariants == Spec => [](SweepInv /\ WholeInv /\ PromiseInv)
<1>1. Init => SweepInv /\ WholeInv /\ PromiseInv
    BY InitHolds, InitWhole, InitPromise
<1>2. SweepInv /\ WholeInv /\ PromiseInv /\ [Next]_sweepVars
        => (SweepInv /\ WholeInv /\ PromiseInv)'
    BY NextHolds, NextPromise, PoolWhole, LaunchWhole, GridsAreSound, StutterWhole DEF Next
<1> QED
    BY <1>1, <1>2, PTL DEF Spec

\* Whatever the pool, the caller of run_many sees what is promised: metrics of
\* all combinations in their order, or a panic with a cause.  This is the safety
\* part of PromisedSweeps.
THEOREM SweepsArePromised == Spec => Promise!Init /\ [][Promise!Next]_(Promise!vars)
<1>1. Init => Promise!Init
    BY DEF Init, Promise!Init
<1>2. SweepInv /\ WholeInv /\ PromiseInv /\ [Next]_sweepVars => [Promise!Next]_(Promise!vars)
    BY StepIsPromised
<1> QED
    BY <1>1, <1>2, SweepInvariants, PTL DEF Spec

-----------------------------------------------------------------------------
(***************************************************************************)
(* What a sweep returns does not depend on the threads.                    *)
(***************************************************************************)
\* What a sweep returned counts what its jobs did.
AnswersCount ==
    answer # None =>
      DOMAIN answer = DOMAIN jobs /\ \A i \in DOMAIN jobs : Counted(answer[i], i)

\* As long as no sweep panicked and no constructor computes, the answer is that
\* of one thread that runs job after job: which threads there are, and which of
\* them took which job, cannot be seen in it.
AnswerOfOneThread ==
    answer # None /\ spoilt = {} /\ (\A i \in DOMAIN jobs : ~PredictorOf(i).computes) =>
      /\ DOMAIN answer = DOMAIN jobs
      /\ \A i \in DOMAIN jobs :
           /\ answer[i].counted = {Work(i, "run", calls)}
           /\ answer[i].predictions = Due(i)

LEMMA AnswersHold ==
    ASSUME SweepInv, PromiseInv, AnswersCount, [Next]_sweepVars
    PROVE  AnswersCount'
<1>1. ASSUME NEW g \in Grids, Launch(g) PROVE AnswersCount'
    BY <1>1 DEF Launch, AnswersCount
<1>2. CASE Collect
    <2>1. /\ Working /\ ~panicking /\ todo = {} /\ answer' = slots
          /\ UNCHANGED <<grid, jobs, calls, slots>> /\ \A w \in Workers : ~Busy(w)
        BY <1>2 DEF Collect, AllFree, Busy
    <2>2. DOMAIN slots = DOMAIN jobs /\ \A i \in DOMAIN jobs : Counted(slots[i], i)
        BY <2>1, ShapeOfSweep DEF PromiseInv, NoMetricIsLost
    <2>3. ASSUME NEW i \in DOMAIN jobs PROVE Counted(answer[i], i)'
        <3>1. Own(answer[i])' = Own(slots[i]) /\ Left(answer[i])' = Left(slots[i])
            BY <2>1 DEF Own, Left
        <3>2. Promise!Building(jobs[i].predictor, i, Left(answer[i]))'
                = Promise!Building(jobs[i].predictor, i, Left(slots[i]))
            BY <2>1, <3>1 DEF Promise!Building, Promise!Work
        <3> QED
            BY <2>1, <2>2, <3>1, <3>2, SameSweep DEF Counted
    <2> QED
        BY <2>1, <2>2, <2>3 DEF AnswersCount
<1>3. ASSUME answer' = None PROVE AnswersCount'
    BY <1>3 DEF AnswersCount
<1>4. CASE Rethrow
    BY <1>3, <1>4 DEF Rethrow, Working
<1>5. ASSUME NEW w \in Workers, Take(w) \/ Step(w) PROVE answer' = None
    <2>1. answer' = answer
        BY <1>5 DEF Take, Step, Build, StartRun, Feed, TurnOn, Fail, Return, Unwind, RunUnchanged
    <2>2. Working
        BY <1>5, ShapeOfSweep
       DEF Take, Step, Build, StartRun, Feed, TurnOn, Fail, SeesRecords, Return, Unwind, Busy
    <2> QED
        BY <2>1, <2>2 DEF Working
<1>6. CASE UNCHANGED sweepVars
    <2>1. UNCHANGED <<grid, jobs, calls, answer>>
        BY <1>6 DEF sweepVars
    <2>2. ASSUME NEW i, Counted(answer[i], i) PROVE Counted(answer[i], i)'
        <3>1. Own(answer[i])' = Own(answer[i]) /\ Left(answer[i])' = Left(answer[i])
            BY <2>1 DEF Own, Left
        <3>2. Promise!Building(jobs[i].predictor, i, Left(answer[i]))'
                = Promise!Building(jobs[i].predictor, i, Left(answer[i]))
            BY <2>1, <3>1 DEF Promise!Building, Promise!Work
        <3> QED
            BY <2>1, <2>2, <3>1, <3>2, SameSweep DEF Counted
    <2> QED
        BY <2>1, <2>2 DEF AnswersCount
<1> QED
    BY <1>1, <1>2, <1>3, <1>4, <1>5, <1>6 DEF Next, PoolStep, End

LEMMA AnswersFollow ==
    ASSUME SweepInv, ResultsAreWhole, AnswersCount
    PROVE  AnswerOfOneThread
<1> SUFFICES ASSUME answer # None, spoilt = {},
                    \A i \in DOMAIN jobs : ~PredictorOf(i).computes,
                    NEW i \in DOMAIN jobs
             PROVE  /\ answer[i].counted = {Work(i, "run", calls)}
                    /\ answer[i].predictions = Due(i)
    BY DEF AnswerOfOneThread, AnswersCount
<1>1. PICK metric : metric = answer[i] /\ i \in DOMAIN answer
    BY DEF AnswersCount
<1>2. Owned(metric, i) /\ Counted(metric, i)
    BY <1>1 DEF SweepInv, ResultsAreTheirJobs, AnswersCount
<1>3. metric.counted = Own(metric)
    BY <1>2 DEF Owned, Own
<1>4. Own(metric) = {Promise!Work(i, "run", calls)}
    <2>1. Promise!Building(jobs[i].predictor, i, Left(metric)) = {{}}
        BY DEF Promise!Building, PredictorOf
    <2>2. Own(metric) = {} \cup {Promise!Work(i, "run", calls)}
        BY <1>2, <2>1 DEF Counted
    <2> QED
        BY <2>2
<1>5. Promise!Work(i, "run", calls) = Work(i, "run", calls)
    BY DEF Work, Promise!Work
<1>6. metric.predictions = Due(i)
    BY <1>1, <1>3 DEF ResultsAreWhole
<1> QED
    BY <1>1, <1>3, <1>4, <1>5, <1>6

\* Runs on different threads are isolated: simulator.rs:232.
THEOREM ThreadsAreNotSeen == Spec => []AnswerOfOneThread
<1>1. Init => AnswersCount
    BY DEF Init, AnswersCount
<1>2. SweepInv /\ WholeInv /\ PromiseInv /\ AnswersCount /\ [Next]_sweepVars => AnswersCount'
    BY AnswersHold
<1>3. SweepInv /\ WholeInv /\ PromiseInv /\ AnswersCount => AnswerOfOneThread
    BY AnswersFollow DEF WholeInv
<1> QED
    BY <1>1, <1>2, <1>3, SweepInvariants, PTL DEF Spec

-----------------------------------------------------------------------------
(***************************************************************************)
(* Each step of a sweep uses up some of what it has to do.                 *)
(***************************************************************************)
\* A job waits, or is on one thread only.
OneThreadEach ==
    \A w \in Workers : Busy(w) =>
      /\ doing[w] \notin todo
      /\ \A v \in Workers : Busy(v) /\ doing[v] = doing[w] => v = w

\* The cursor of a job's source is at its start, then within it.
Inside(w) ==
    /\ pc[w] \in {"free", "build", "start", "warmup", "run", "unwind"}
    /\ pc[w] \in {"build", "start"} => cursor[w] = 0
    /\ Running(w) => cursor[w] <= SourceOf(doing[w]).length

OnceInv == OneThreadEach /\ \A w \in Workers : Inside(w)

\* What a sweep still has to do, as a set: for each job that waits, to be taken,
\* built, started, fed each record, metered and ended; for each thread's job, those of
\* them that are left; and to return.
OfJob(i) == SourceOf(i).length + 6

OfThread(w) ==
    CASE pc[w] = "build" -> SourceOf(doing[w]).length + 5
      [] pc[w] = "start" -> SourceOf(doing[w]).length + 4
      [] pc[w] = "warmup" -> SourceOf(doing[w]).length - cursor[w] + 3
      [] pc[w] = "run" -> SourceOf(doing[w]).length - cursor[w] + 2
      [] pc[w] = "unwind" -> 1

BusyWorkers == {w \in Workers : Busy(w)}

Outstanding ==
    (UNION {{i} \X (1..OfJob(i)) : i \in todo})
      \cup (UNION {{doing[w]} \X (1..OfThread(w)) : w \in BusyWorkers})
      \cup (IF Working THEN {<<0, 0>>} ELSE {})

\* No job is done twice and none goes back: each step of the pool, whichever
\* thread takes it, leaves less to do, a finite amount from the launch on.
SweepsRunOut ==
    [][Working => Cardinality(Outstanding') \in 0..Cardinality(Outstanding) - 1]_sweepVars

LEMMA InitOnce == Init => OnceInv
BY DEF Init, OnceInv, OneThreadEach, Inside, Running, Busy

LEMMA LaunchOnce ==
    ASSUME SweepInv, NEW g, Launch(g)
    PROVE  OnceInv'
<1>1. \A w \in Workers : pc'[w] = "free"
    BY DEF SweepInv, Quiet, AllFree, Launch
<1> QED
    BY <1>1 DEF OnceInv, OneThreadEach, Inside, Running, Busy

LEMMA TakeOnce ==
    ASSUME SweepInv, WholeInv, OnceInv, NEW w \in Workers, Take(w)
    PROVE  OnceInv'
<1>1. PICK i \in todo : todo' = todo \ {i} /\ doing' = [doing EXCEPT ![w] = i]
    BY DEF Take
<1>2. /\ pc[w] = "free" /\ pc' = [pc EXCEPT ![w] = "build"]
      /\ cursor' = [cursor EXCEPT ![w] = 0] /\ UNCHANGED <<grid, jobs>>
    BY DEF Take
<1>3. DOMAIN pc = Workers /\ DOMAIN doing = Workers /\ DOMAIN cursor = Workers
    BY ShapeOfSweep DEF WholeInv
<1>4. /\ pc'[w] = "build" /\ doing'[w] = i /\ cursor'[w] = 0
      /\ \A v \in Workers \ {w} :
           pc'[v] = pc[v] /\ doing'[v] = doing[v] /\ cursor'[v] = cursor[v]
    BY <1>1, <1>2, <1>3
<1>5. \A v \in Workers \ {w} : Busy(v) => doing[v] \notin todo
    BY DEF OnceInv, OneThreadEach
<1>6. OneThreadEach'
    BY <1>1, <1>4, <1>5 DEF OnceInv, OneThreadEach, Busy
<1>7. \A v \in Workers : Inside(v)'
    BY <1>2, <1>4 DEF OnceInv, Inside, Running, SourceOf
<1> QED
    BY <1>6, <1>7 DEF OnceInv

\* A step of a thread on its job.
LEMMA StepOnce ==
    ASSUME SweepInv, WholeInv, OnceInv, NEW w \in Workers, Step(w)
    PROVE  OnceInv'
<1>1. /\ DOMAIN pc = Workers /\ DOMAIN doing = Workers /\ DOMAIN cursor = Workers
      /\ Busy(w) /\ doing[w] \in DOMAIN jobs
    BY ShapeOfSweep
       DEF WholeInv, Step, Build, StartRun, Feed, TurnOn, Fail, SeesRecords, Return, Unwind, Busy
<1>2. UNCHANGED <<grid, jobs, todo>>
    BY DEF Step, Build, StartRun, Feed, TurnOn, Fail, Return, Unwind, RunUnchanged
<1>3. \A v \in Workers \ {w} :
        pc'[v] = pc[v] /\ doing'[v] = doing[v] /\ cursor'[v] = cursor[v]
    BY <1>1 DEF Step, Build, StartRun, Feed, TurnOn, Fail, Return, Unwind, RunUnchanged
<1>4. pc'[w] = "free" \/ doing'[w] = doing[w]
    BY <1>1 DEF Step, Build, StartRun, Feed, TurnOn, Fail, Return, Unwind, RunUnchanged
<1>5. OneThreadEach'
    BY <1>1, <1>2, <1>3, <1>4 DEF OnceInv, OneThreadEach, Busy
<1>6. Inside(w)'
    <2>1. PICK n \in Nat, k \in Nat : n = SourceOf(doing[w]).length /\ k = cursor[w]
        BY <1>1 DEF WholeInv, JobsAreSound, Progress
    <2>2. SourceOf(doing[w])' = SourceOf(doing[w]) \/ pc'[w] = "free"
        BY <1>2, <1>4 DEF SourceOf
    <2>3. /\ pc[w] \in {"build", "start"} => k = 0
          /\ Running(w) => k <= n
        BY <2>1 DEF OnceInv, Inside
    <2>4. \/ pc[w] = "build" /\ pc'[w] \in {"start", "unwind"} /\ cursor'[w] = k
          \/ pc[w] = "start" /\ pc'[w] = "warmup" /\ cursor'[w] = k
          \/ pc[w] = "warmup" /\ pc'[w] = "run" /\ cursor'[w] = k
          \/ Running(w) /\ pc'[w] = pc[w] /\ k < n /\ cursor'[w] = k + 1
          \/ pc'[w] \in {"free", "unwind"}
        BY <1>1, <2>1 DEF Step, Build, StartRun, Feed, TurnOn, Fail, Return, Unwind, Running
    <2> QED
        BY <2>1, <2>2, <2>3, <2>4 DEF Inside, Running
<1>7. \A v \in Workers \ {w} : Inside(v)'
    BY <1>2, <1>3 DEF OnceInv, Inside, Running, SourceOf
<1> QED
    BY <1>5, <1>6, <1>7 DEF OnceInv

LEMMA NextOnce == SweepInv /\ WholeInv /\ OnceInv /\ [Next]_sweepVars => OnceInv'
<1> SUFFICES ASSUME SweepInv, WholeInv, OnceInv, [Next]_sweepVars PROVE OnceInv'
    OBVIOUS
<1>1. CASE End
    <2>1. UNCHANGED <<grid, jobs, pc, doing, cursor>> /\ todo' = {}
        BY <1>1 DEF End, Collect, Rethrow
    <2> QED
        BY <2>1 DEF OnceInv, OneThreadEach, Inside, Running, Busy, SourceOf
<1>2. ASSUME NEW w \in Workers, Take(w) \/ Step(w) PROVE OnceInv'
    BY <1>2, TakeOnce, StepOnce
<1>3. ASSUME NEW g \in Grids, Launch(g) PROVE OnceInv'
    BY <1>3, LaunchOnce
<1>4. CASE UNCHANGED sweepVars
    BY <1>4 DEF sweepVars, OnceInv, OneThreadEach, Inside, Running, Busy, SourceOf
<1> QED
    BY <1>1, <1>2, <1>3, <1>4 DEF Next, PoolStep

\* What a job and a thread have left to do is a positive number.
LEMMA ThreadAllowance ==
    ASSUME SweepInv, WholeInv, OnceInv, NEW w \in Workers, Busy(w)
    PROVE  OfThread(w) \in Nat \ {0}
<1>1. PICK n \in Nat, k \in Nat : n = SourceOf(doing[w]).length /\ k = cursor[w]
    BY ShapeOfSweep DEF WholeInv, JobsAreSound, Progress
<1>2. pc[w] \in {"build", "start", "warmup", "run", "unwind"} /\ (Running(w) => k <= n)
    BY <1>1 DEF OnceInv, Inside, Busy
<1> QED
    BY <1>1, <1>2 DEF OfThread, Running

LEMMA JobAllowance ==
    ASSUME SweepInv, WholeInv, NEW i \in todo
    PROVE  OfJob(i) \in Nat \ {0}
<1>1. i \in DOMAIN jobs
    BY DEF SweepInv, Shape
<1> QED
    BY <1>1 DEF WholeInv, JobsAreSound, OfJob

\* The members of the set, one kind after the other.
LEMMA Members ==
    ASSUME NEW x
    PROVE  x \in Outstanding <=>
             \/ \E i \in todo : \E n \in 1..OfJob(i) : x = <<i, n>>
             \/ \E w \in Workers : Busy(w) /\ \E n \in 1..OfThread(w) : x = <<doing[w], n>>
             \/ Working /\ x = <<0, 0>>
<1>1. x \in UNION {{i} \X (1..OfJob(i)) : i \in todo}
        <=> \E i \in todo : \E n \in 1..OfJob(i) : x = <<i, n>>
    OBVIOUS
<1>2. x \in UNION {{doing[w]} \X (1..OfThread(w)) : w \in BusyWorkers}
        <=> \E w \in Workers : Busy(w) /\ \E n \in 1..OfThread(w) : x = <<doing[w], n>>
    BY DEF BusyWorkers
<1>3. x \in (IF Working THEN {<<0, 0>>} ELSE {}) <=> Working /\ x = <<0, 0>>
    OBVIOUS
<1> QED
    BY <1>1, <1>2, <1>3 DEF Outstanding

LEMMA MembersNext ==
    ASSUME NEW x
    PROVE  x \in Outstanding' <=>
             \/ \E i \in todo' : \E n \in 1..OfJob(i)' : x = <<i, n>>
             \/ \E w \in Workers : Busy(w)' /\ \E n \in 1..OfThread(w)' : x = <<doing'[w], n>>
             \/ Working' /\ x = <<0, 0>>
<1>1. x \in (UNION {{i} \X (1..OfJob(i)) : i \in todo})'
        <=> \E i \in todo' : \E n \in 1..OfJob(i)' : x = <<i, n>>
    OBVIOUS
<1>2. x \in (UNION {{doing[w]} \X (1..OfThread(w)) : w \in BusyWorkers})'
        <=> \E w \in Workers : Busy(w)' /\ \E n \in 1..OfThread(w)' : x = <<doing'[w], n>>
    BY DEF BusyWorkers
<1>3. x \in (IF Working THEN {<<0, 0>>} ELSE {})' <=> Working' /\ x = <<0, 0>>
    OBVIOUS
<1> QED
    BY <1>1, <1>2, <1>3 DEF Outstanding

\* It is finite.
LEMMA OutstandingIsFinite ==
    ASSUME SweepInv, WholeInv, PromiseInv, OnceInv
    PROVE  IsFiniteSet(Outstanding)
<1> DEFINE OfJobs == [i \in todo |-> {i} \X (1..OfJob(i))]
           OfThreads == [w \in BusyWorkers |-> {doing[w]} \X (1..OfThread(w))]
<1>1. IsFiniteSet(todo)
    <2>1. DOMAIN jobs = 1..Len(jobs) /\ Len(jobs) \in Nat
        BY SoundJobs DEF PromiseInv, Priced
    <2>2. IsFiniteSet(DOMAIN jobs)
        BY <2>1, FS_Interval
    <2> QED
        BY <2>2, FS_Subset DEF SweepInv, Shape
<1>2. IsFiniteSet(BusyWorkers)
    BY WorkersAssumption, FS_Subset DEF BusyWorkers
<1>3. DOMAIN OfJobs = todo /\ \A i \in todo : IsFiniteSet(OfJobs[i])
    BY FiniteColumn, JobAllowance
<1>4. DOMAIN OfThreads = BusyWorkers /\ \A w \in BusyWorkers : IsFiniteSet(OfThreads[w])
    BY FiniteColumn, ThreadAllowance DEF BusyWorkers
<1>5. {{i} \X (1..OfJob(i)) : i \in todo} = {OfJobs[i] : i \in todo}
    OBVIOUS
<1>6. {{doing[w]} \X (1..OfThread(w)) : w \in BusyWorkers} = {OfThreads[w] : w \in BusyWorkers}
    OBVIOUS
<1> HIDE DEF OfJobs, OfThreads
<1>7. IsFiniteSet(UNION {OfJobs[i] : i \in todo})
    BY <1>1, <1>3, FiniteFamily
<1>8. IsFiniteSet(UNION {OfThreads[w] : w \in BusyWorkers})
    BY <1>2, <1>4, FiniteFamily
<1>9. IsFiniteSet(IF Working THEN {<<0, 0>>} ELSE {})
    BY FS_Singleton, FS_EmptySet
<1> QED
    BY <1>5, <1>6, <1>7, <1>8, <1>9, FS_Union DEF Outstanding

\* Taking a job uses up one of its chores.
LEMMA TakeShrinks ==
    ASSUME SweepInv, WholeInv, OnceInv, NEW w \in Workers, Take(w)
    PROVE  /\ Outstanding' \subseteq Outstanding
           /\ \E x \in Outstanding : x \notin Outstanding'
<1>1. PICK i \in todo : todo' = todo \ {i} /\ doing' = [doing EXCEPT ![w] = i]
    BY DEF Take
<1>2. /\ pc[w] = "free" /\ pc' = [pc EXCEPT ![w] = "build"]
      /\ cursor' = [cursor EXCEPT ![w] = 0] /\ UNCHANGED <<grid, jobs, calls, answer, spoilt>>
    BY DEF Take
<1>3. DOMAIN pc = Workers /\ DOMAIN doing = Workers /\ DOMAIN cursor = Workers
    BY ShapeOfSweep DEF WholeInv
<1>4. /\ pc'[w] = "build" /\ doing'[w] = i
      /\ \A v \in Workers \ {w} :
           pc'[v] = pc[v] /\ doing'[v] = doing[v] /\ cursor'[v] = cursor[v]
    BY <1>1, <1>2, <1>3
<1>5. PICK k \in Nat \ {0} : k = OfJob(i)
    BY JobAllowance
<1>6. /\ OfThread(w)' = k - 1
      /\ \A j \in todo : OfJob(j)' = OfJob(j)
      /\ \A v \in Workers \ {w} : OfThread(v)' = OfThread(v) /\ (Busy(v)' <=> Busy(v))
    <2>1. \A j : OfJob(j)' = OfJob(j)
        BY <1>2 DEF OfJob, SourceOf
    <2>2. PICK n \in Nat : n = SourceOf(i).length
        BY DEF SweepInv, Shape, WholeInv, JobsAreSound
    <2>3. OfThread(w)' = n + 5
        BY <1>2, <1>4, <2>2 DEF OfThread, SourceOf
    <2>4. OfThread(w)' = k - 1
        BY <1>5, <2>2, <2>3 DEF OfJob
    <2>5. \A v \in Workers \ {w} : OfThread(v)' = OfThread(v) /\ (Busy(v)' <=> Busy(v))
        BY <1>2, <1>4 DEF OfThread, SourceOf, Busy
    <2> QED
        BY <2>1, <2>4, <2>5
<1>7. Working' <=> Working
    BY <1>2 DEF Working
<1>8. ASSUME NEW x \in Outstanding' PROVE x \in Outstanding
    <2>1. ASSUME NEW j \in todo', NEW n \in 1..OfJob(j)', x = <<j, n>> PROVE x \in Outstanding
        <3>1. j \in todo /\ n \in 1..OfJob(j)
            BY <1>1, <1>6, <2>1
        <3> QED
            BY <2>1, <3>1, Members
    <2>2. ASSUME NEW v \in Workers, Busy(v)', NEW n \in 1..OfThread(v)', x = <<doing'[v], n>>
          PROVE  x \in Outstanding
        <3>1. CASE v = w
            <4>1. n \in 1..OfJob(i) /\ x = <<i, n>>
                BY <1>4, <1>5, <1>6, <2>2, <3>1
            <4> QED
                BY <4>1, Members
        <3>2. CASE v # w
            <4>1. Busy(v) /\ n \in 1..OfThread(v) /\ x = <<doing[v], n>>
                BY <1>4, <1>6, <2>2, <3>2
            <4> QED
                BY <4>1, Members
        <3> QED
            BY <3>1, <3>2
    <2>3. Working' /\ x = <<0, 0>> => x \in Outstanding
        BY <1>7, Members
    <2> QED
        BY <2>1, <2>2, <2>3, MembersNext
<1>9. <<i, k>> \in Outstanding
    <2>1. k \in 1..OfJob(i)
        BY <1>5
    <2> QED
        BY <2>1, Members
<1>10. <<i, k>> \notin Outstanding'
    <2>1. ASSUME NEW j \in todo', NEW n \in 1..OfJob(j)', <<i, k>> = <<j, n>> PROVE FALSE
        BY <1>1, <2>1
    <2>2. ASSUME NEW v \in Workers, Busy(v)', NEW n \in 1..OfThread(v)',
                 <<i, k>> = <<doing'[v], n>>
          PROVE  FALSE
        <3>1. CASE v = w
            BY <1>5, <1>6, <2>2, <3>1
        <3>2. CASE v # w
            <4>1. Busy(v) /\ doing[v] = i
                BY <1>4, <1>6, <2>2, <3>2
            <4> QED
                BY <4>1 DEF OnceInv, OneThreadEach
        <3> QED
            BY <3>1, <3>2
    <2>3. <<i, k>> # <<0, 0>>
        BY <1>5
    <2> QED
        BY <2>1, <2>2, <2>3, MembersNext
<1> QED
    BY <1>8, <1>9, <1>10

\* A step on a job uses up one of those that are left of it.
LEMMA ThreadShrinks ==
    ASSUME SweepInv, WholeInv, OnceInv, NEW w \in Workers, Step(w)
    PROVE  /\ Busy(w)
           /\ pc'[w] = "free" \/ (doing'[w] = doing[w] /\ OfThread(w)' \in 0..OfThread(w) - 1)
<1>1. /\ DOMAIN pc = Workers /\ DOMAIN doing = Workers /\ DOMAIN cursor = Workers
      /\ Busy(w) /\ doing[w] \in DOMAIN jobs
    BY ShapeOfSweep
       DEF WholeInv, Step, Build, StartRun, Feed, TurnOn, Fail, SeesRecords, Return, Unwind, Busy
<1>2. UNCHANGED <<grid, jobs>>
    BY DEF Step, Build, StartRun, Feed, TurnOn, Fail, Return, Unwind, RunUnchanged
<1>3. pc'[w] = "free" \/ doing'[w] = doing[w]
    BY <1>1 DEF Step, Build, StartRun, Feed, TurnOn, Fail, Return, Unwind, RunUnchanged
<1>4. PICK n \in Nat, k \in Nat : n = SourceOf(doing[w]).length /\ k = cursor[w]
    BY <1>1 DEF WholeInv, JobsAreSound, Progress
<1>5. SourceOf(doing[w])' = SourceOf(doing[w]) \/ pc'[w] = "free"
    BY <1>2, <1>3 DEF SourceOf
<1>6. /\ pc[w] = "start" => k = 0
      /\ Running(w) => k <= n
    BY <1>4 DEF OnceInv, Inside
<1>7. \/ pc[w] = "build" /\ pc'[w] \in {"start", "unwind"}
      \/ pc[w] = "start" /\ pc'[w] = "warmup" /\ cursor'[w] = k
      \/ pc[w] = "warmup" /\ pc'[w] = "run" /\ cursor'[w] = k
      \/ Running(w) /\ pc'[w] = pc[w] /\ k < n /\ cursor'[w] = k + 1
      \/ Running(w) /\ pc'[w] = "unwind"
      \/ pc'[w] = "free"
    BY <1>1, <1>4 DEF Step, Build, StartRun, Feed, TurnOn, Fail, SeesRecords, Return, Unwind, Running
<1> QED
    BY <1>1, <1>3, <1>4, <1>5, <1>6, <1>7 DEF OfThread, Running

LEMMA StepShrinks ==
    ASSUME SweepInv, WholeInv, OnceInv, NEW w \in Workers, Step(w)
    PROVE  /\ Outstanding' \subseteq Outstanding
           /\ \E x \in Outstanding : x \notin Outstanding'
<1>1. Busy(w) /\ (pc'[w] = "free" \/ (doing'[w] = doing[w] /\ OfThread(w)' \in 0..OfThread(w) - 1))
    BY ThreadShrinks
<1>2. /\ DOMAIN pc = Workers /\ DOMAIN doing = Workers /\ DOMAIN cursor = Workers
      /\ UNCHANGED <<grid, jobs, todo, calls, answer, spoilt>>
    BY ShapeOfSweep
       DEF WholeInv, Step, Build, StartRun, Feed, TurnOn, Fail, Return, Unwind, RunUnchanged
<1>3. \A v \in Workers \ {w} :
        pc'[v] = pc[v] /\ doing'[v] = doing[v] /\ cursor'[v] = cursor[v]
    BY <1>2 DEF Step, Build, StartRun, Feed, TurnOn, Fail, Return, Unwind, RunUnchanged
<1>4. PICK m \in Nat \ {0} : m = OfThread(w)
    BY <1>1, ThreadAllowance
<1>0. PICK i : i = doing[w]
    OBVIOUS
<1>5. /\ \A j : OfJob(j)' = OfJob(j)
      /\ \A v \in Workers \ {w} : OfThread(v)' = OfThread(v) /\ (Busy(v)' <=> Busy(v))
    BY <1>2, <1>3 DEF OfJob, OfThread, SourceOf, Busy
<1>6. Working' <=> Working
    BY <1>2 DEF Working
<1>7. Busy(w)' => doing'[w] = i /\ OfThread(w)' \in 0..m - 1
    BY <1>0, <1>1, <1>4 DEF Busy
<1>8. ASSUME NEW x \in Outstanding' PROVE x \in Outstanding
    <2>1. ASSUME NEW j \in todo', NEW n \in 1..OfJob(j)', x = <<j, n>> PROVE x \in Outstanding
        <3>1. j \in todo /\ n \in 1..OfJob(j)
            BY <1>2, <1>5, <2>1
        <3> QED
            BY <2>1, <3>1, Members
    <2>2. ASSUME NEW v \in Workers, Busy(v)', NEW n \in 1..OfThread(v)', x = <<doing'[v], n>>
          PROVE  x \in Outstanding
        <3>1. CASE v = w
            <4>1. n \in 1..OfThread(w) /\ x = <<doing[w], n>>
                BY <1>0, <1>4, <1>7, <2>2, <3>1
            <4> QED
                BY <1>1, <4>1, Members
        <3>2. CASE v # w
            <4>1. Busy(v) /\ n \in 1..OfThread(v) /\ x = <<doing[v], n>>
                BY <1>3, <1>5, <2>2, <3>2
            <4> QED
                BY <4>1, Members
        <3> QED
            BY <3>1, <3>2
    <2>3. Working' /\ x = <<0, 0>> => x \in Outstanding
        BY <1>6, Members
    <2> QED
        BY <2>1, <2>2, <2>3, MembersNext
<1>9. <<i, m>> \in Outstanding
    <2>1. m \in 1..OfThread(w) /\ <<i, m>> = <<doing[w], m>>
        BY <1>0, <1>4
    <2> QED
        BY <1>1, <2>1, Members
<1>10. <<i, m>> \notin Outstanding'
    <2>1. ASSUME NEW j \in todo', NEW n \in 1..OfJob(j)', <<i, m>> = <<j, n>> PROVE FALSE
        <3>1. doing[w] \in todo
            BY <1>0, <1>2, <2>1
        <3> QED
            BY <1>1, <3>1 DEF OnceInv, OneThreadEach
    <2>2. ASSUME NEW v \in Workers, Busy(v)', NEW n \in 1..OfThread(v)',
                 <<i, m>> = <<doing'[v], n>>
          PROVE  FALSE
        <3>1. CASE v = w
            <4>1. m \in 1..OfThread(w)'
                BY <2>2, <3>1
            <4> QED
                BY <1>7, <2>2, <3>1, <4>1
        <3>2. CASE v # w
            <4>1. Busy(v) /\ doing[v] = doing[w]
                BY <1>0, <1>3, <1>5, <2>2, <3>2
            <4> QED
                BY <1>1, <3>2, <4>1 DEF OnceInv, OneThreadEach
        <3> QED
            BY <3>1, <3>2
    <2>3. <<i, m>> # <<0, 0>>
        BY <1>4
    <2> QED
        BY <2>1, <2>2, <2>3, MembersNext
<1> QED
    BY <1>8, <1>9, <1>10

\* The end leaves nothing to do.
LEMMA EndShrinks ==
    ASSUME SweepInv, End, ~UNCHANGED sweepVars
    PROVE  /\ Outstanding' \subseteq Outstanding
           /\ \E x \in Outstanding : x \notin Outstanding'
<1>1. Working /\ ~Working' /\ todo' = {} /\ \A w \in Workers : ~Busy(w)'
    <2>1. CASE Collect
        <3>1. answer' # None
            BY <2>1 DEF Collect, Working, sweepVars
        <3> QED
            BY <2>1, <3>1 DEF Collect, Working, AllFree, Busy
    <2>2. CASE Rethrow
        BY <2>2 DEF Rethrow, Working, AllFree, Busy
    <2> QED
        BY <2>1, <2>2 DEF End
<1>2. \A x : x \notin Outstanding'
    BY <1>1, MembersNext
<1>3. <<0, 0>> \in Outstanding
    BY <1>1, Members
<1> QED
    BY <1>2, <1>3

\* Every step of a sweep in progress uses up some of what it has to do, whatever
\* the pool and the grid: what the last part of PromisedSweeps comes to without
\* fairness.
THEOREM EverySweepRunsOut == Spec => SweepsRunOut
<1> DEFINE Inv == SweepInv /\ WholeInv /\ PromiseInv /\ OnceInv
<1>1. Init => Inv
    BY InitHolds, InitWhole, InitPromise, InitOnce
<1>2. Inv /\ [Next]_sweepVars => Inv'
    BY NextHolds, NextPromise, NextOnce, PoolWhole, LaunchWhole, GridsAreSound, StutterWhole
       DEF Next
<1>3. Inv /\ [Next]_sweepVars
        => [Working => Cardinality(Outstanding') \in 0..Cardinality(Outstanding) - 1]_sweepVars
    <2> SUFFICES ASSUME Inv, Next, ~UNCHANGED sweepVars, Working
                 PROVE  Cardinality(Outstanding') \in 0..Cardinality(Outstanding) - 1
        OBVIOUS
    <2>1. Outstanding' \subseteq Outstanding /\ \E x \in Outstanding : x \notin Outstanding'
        <3>1. PoolStep
            BY DEF Next, Launch
        <3> QED
            BY <3>1, TakeShrinks, StepShrinks, EndShrinks DEF PoolStep
    <2>2. IsFiniteSet(Outstanding)
        BY OutstandingIsFinite
    <2> QED
        BY <2>1, <2>2, Fewer
<1> HIDE DEF Inv
<1> QED
    BY <1>1, <1>2, <1>3, PTL DEF Spec, SweepsRunOut

-----------------------------------------------------------------------------
(***************************************************************************)
(* The program.                                                            *)
(***************************************************************************)
\* The stages in which main goes on, from each of them on.
FromReport == {"report", "print"}
FromSweep == {"sweep"} \cup FromReport
FromLaunch == {"launch"} \cup FromSweep
FromOpen == {"open"} \cup FromLaunch
FromExpand == {"expand"} \cup FromOpen
FromLoad == {"load"} \cup FromExpand

\* main has got through the stages before these.
Past(stages) == stage \in stages \/ status \in {"ok", "unprinted"}

StatusMatchesStage ==
    /\ status = "running" => stage \in {"select"} \cup FromLoad
    /\ status # "running" => stage = "exit" /\ status \in {"ok", "unprinted", "error", "panic"}

\* Before the launch no thread has anything to do; an error comes before it.
NothingRuns == calls = 0 /\ spoilt = {} /\ ~panicking /\ todo = {} /\ AllFree

LaunchedOnce ==
    /\ ~Past(FromSweep) /\ status # "panic" => NothingRuns
    /\ Past(FromSweep) => calls = 1
    /\ answer # None => spoilt = {}
    /\ spoilt \subseteq {calls}

\* Every trace asked for has a place of its own among the paths, and each place is
\* that of one.
Expanded ==
    /\ paths \in Seq(STRING)
    /\ \E place \in [Asked -> DOMAIN paths] :
         /\ \A asked, other \in Asked : place[asked] = place[other] => asked = other
         /\ \A n \in DOMAIN paths : \E asked \in Asked : place[asked] = n
         /\ \A asked \in Asked : paths[place[asked]] = Text[asked[2]]

Prepared ==
    /\ arguments \in CommandLine
    /\ Past(FromLoad) =>
         /\ IsSequence(selected) /\ Len(selected) = Len(arguments.predictors)
         /\ \A n \in DOMAIN selected : selected[n].name = arguments.predictors[n]
    /\ Past(FromOpen) => Expanded
    /\ Past(FromLaunch) =>
         /\ IsSequence(sources) /\ Len(sources) = Len(paths)
         /\ \A n \in DOMAIN paths :
              Opens(paths[n]) /\ sources[n] = SourceAt(paths[n])
    /\ Past(FromSweep) =>
         /\ grid = [sources |-> sources, configs |-> ConfigsOf(arguments),
                    predictors |-> selected]
         /\ jobs = Jobs(grid)

Answered ==
    /\ answer # None => answer = slots
    /\ Past(FromReport) => answer # None
    /\ slots \in [DOMAIN jobs -> {slots[i] : i \in DOMAIN jobs}]

\* What a report says if it is the one of that combination.
ReportOf(s, c, p) ==
    [path |-> paths[s], name |-> selected[p].name, config |-> ConfigsOf(arguments)[c],
     metrics |-> answer[PlaceOf(grid, s, c, p)]]

Start == [path |-> 1, config |-> 1, predictor |-> 1]

\* The loops are at the combination whose result comes next.
LoopsInStep ==
    /\ IsSequence(reports)
    /\ at \in [path : 1..Len(paths) + 1, config : 1..Len(grid.configs),
               predictor : 1..Len(selected)]
    /\ ~Looping => at = [Start EXCEPT !.path = Len(paths) + 1]
    /\ Len(reports) + 1 = PlaceOf(grid, at.path, at.config, at.predictor)
    /\ \A n \in DOMAIN reports :
         \E s \in DOMAIN paths, c \in DOMAIN grid.configs, p \in DOMAIN selected :
           n = PlaceOf(grid, s, c, p) /\ reports[n] = ReportOf(s, c, p)

Reporting ==
    /\ ~Past(FromReport) => reports = <<>>
    /\ ~Past(FromReport) /\ status = "running" => at = Start
    /\ Past(FromReport) => LoopsInStep
    /\ Past({"print"}) => ~Looping

ArbiterInv ==
    SweepInv /\ StatusMatchesStage /\ LaunchedOnce /\ Prepared /\ Answered /\ Reporting

(***************************************************************************)
(* Proof of the invariant.                                                 *)
(***************************************************************************)
\* Every warmup comes with every depth.
LEMMA ConfigsAreInOrder ==
    ASSUME NEW line \in CommandLine
    PROVE  /\ Len(line.warmups) \in Nat \ {0} /\ Len(line.speculations) \in Nat \ {0}
           /\ DOMAIN line.warmups = 1..Len(line.warmups)
           /\ DOMAIN line.speculations = 1..Len(line.speculations)
           /\ ConfigsOf(line) \in Seq([warmup : Nat, speculations : Nat])
           /\ Len(ConfigsOf(line)) = Len(line.warmups) * Len(line.speculations)
           /\ \A w \in 1..Len(line.warmups), s \in 1..Len(line.speculations) :
                ConfigsOf(line)[Cell(Len(line.speculations), w, s)]
                  = [warmup |-> line.warmups[w], speculations |-> line.speculations[s]]
<1> DEFINE W == Len(line.warmups)
           D == Len(line.speculations)
           Row(w) == [s \in DOMAIN line.speculations |->
                        [warmup |-> line.warmups[w], speculations |-> line.speculations[s]]]
           Table == [w \in DOMAIN line.warmups |-> Row(w)]
           Configuration == [warmup : Nat, speculations : Nat]
<1>1. /\ line.warmups \in Seq(Nat) \ {<<>>} /\ line.speculations \in Seq(Nat) \ {<<>>}
    BY DEF CommandLine
<1>2. /\ W \in Nat \ {0} /\ D \in Nat \ {0}
      /\ DOMAIN line.warmups = 1..W /\ DOMAIN line.speculations = 1..D
    BY <1>1
<1>3. \A w \in 1..W : line.warmups[w] \in Nat
    BY <1>1
<1>4. \A s \in 1..D : line.speculations[s] \in Nat
    BY <1>1
<1> HIDE DEF W, D
<1>5. \A w \in 1..W : Row(w) \in [1..D -> Configuration]
    BY <1>2, <1>3, <1>4
<1>6. \A w \in 1..W, s \in 1..D :
        Table[w][s] = [warmup |-> line.warmups[w], speculations |-> line.speculations[s]]
    BY <1>2
<1>7. ConfigsOf(line) = FlattenSeq(Table)
    BY DEF ConfigsOf
<1> HIDE DEF Row, Configuration
<1>8. \A w \in 1..W : Row(w) \in Seq(Configuration) /\ Len(Row(w)) = D
    BY <1>2, <1>5
<1>9. Table \in [1..W -> Seq(Configuration)] /\ \A w \in 1..W : Len(Table[w]) = D
    BY <1>2, <1>8
<1> HIDE DEF Table
<1>10. Table \in Seq(Seq(Configuration)) /\ Len(Table) = W
    BY <1>2, <1>9
<1>11. \A w \in 1..Len(Table) : Len(Table[w]) = D
    BY <1>9, <1>10
<1>12. D \in Nat
    BY <1>2
<1>13. IsTable(Configuration, D, Table)
    BY <1>10, <1>11 DEF IsTable
<1>14. LaidOut(Configuration, D, Table)
    BY <1>12, <1>13, FlattenRows
<1>15. /\ FlattenSeq(Table) \in Seq(Configuration)
       /\ Len(FlattenSeq(Table)) = Len(Table) * D
       /\ \A w \in 1..Len(Table), s \in 1..D :
            FlattenSeq(Table)[Cell(D, w, s)] = Table[w][s]
    BY <1>14 DEF LaidOut
<1>16. \A w \in 1..W, s \in 1..D :
         ConfigsOf(line)[Cell(D, w, s)]
           = [warmup |-> line.warmups[w], speculations |-> line.speculations[s]]
    BY <1>6, <1>7, <1>10, <1>15
<1> QED
    BY <1>2, <1>7, <1>10, <1>15, <1>16 DEF W, D, Configuration

\* The sweep's threads work only while it works, and leave its arguments alone.
LEMMA PoolOnlyWorks ==
    ASSUME SweepInv, PoolStep
    PROVE  /\ Working
           /\ UNCHANGED <<grid, jobs, calls>>
           /\ \/ UNCHANGED <<answer, spoilt>>
              \/ answer' = slots /\ UNCHANGED <<todo, pc, slots, panicking, spoilt>>
              \/ panicking /\ answer' = answer /\ spoilt' = spoilt \cup {calls}
           /\ todo = {} /\ AllFree /\ ~panicking =>
                UNCHANGED <<todo, pc, panicking, spoilt>>
<1>1. CASE End
    BY <1>1 DEF End, Collect, Rethrow
<1>2. ASSUME NEW w \in Workers, Take(w)
      PROVE  todo # {} /\ UNCHANGED <<grid, jobs, calls, answer, spoilt>>
    BY <1>2 DEF Take
<1>3. ASSUME NEW w \in Workers, Step(w)
      PROVE  pc[w] # "free" /\ UNCHANGED <<grid, jobs, calls, answer, spoilt>>
    BY <1>3 DEF Step, Build, StartRun, Feed, TurnOn, Fail, SeesRecords, Return, Unwind, RunUnchanged
<1>4. todo # {} \/ ~AllFree => Working
    BY DEF SweepInv, Quiet
<1> QED
    BY <1>1, <1>2, <1>3, <1>4 DEF PoolStep, AllFree

\* The invariant holds when the program begins.
LEMMA ArbiterInitHolds == ArbiterInit => ArbiterInv
<1> SUFFICES ASSUME ArbiterInit PROVE ArbiterInv
    OBVIOUS
<1>1. SweepInv /\ StatusMatchesStage /\ ~Past(FromLoad)
    BY InitHolds DEF ArbiterInit, StatusMatchesStage, Past, FromLoad, FromExpand, FromOpen,
       FromLaunch, FromSweep, FromReport
<1>2. LaunchedOnce
    BY DEF ArbiterInit, Init, LaunchedOnce, Past, FromSweep, FromReport, NothingRuns, AllFree
<1>3. Prepared
    BY <1>1, CommandLinesAssumption DEF ArbiterInit, Prepared, Past, FromLoad, FromExpand, FromOpen,
       FromLaunch, FromSweep, FromReport
<1>4. Answered
    BY DEF ArbiterInit, Init, Answered, Past, FromReport
<1>5. Reporting
    BY DEF ArbiterInit, Reporting, Past, FromReport, Start
<1> QED
    BY <1>1, <1>2, <1>3, <1>4, <1>5 DEF ArbiterInv

\* What the arguments ask for does not change.
LEMMA ExpandedStays ==
    ASSUME UNCHANGED <<arguments, paths>>
    PROVE  Expanded' <=> Expanded
<1>1. arguments' = arguments /\ paths' = paths
    OBVIOUS
<1>2. Asked' = Asked
    BY <1>1 DEF Asked
<1> QED
    BY <1>1, <1>2 DEF Expanded

\* main goes on to another stage before the launch.
LEMMA GotoHolds ==
    ASSUME ArbiterInv, NEW next, Goto(next), status = "running", ~Past(FromSweep),
           next \in FromLoad \ FromSweep, Prepared'
    PROVE  ArbiterInv'
<1>1. stage' = next /\ UNCHANGED <<arguments, reports, at, status>> /\ UNCHANGED sweepVars
    BY DEF Goto
<1>2. SweepInv'
    BY <1>1, StutterHolds DEF ArbiterInv
<1>3. StatusMatchesStage' /\ ~Past(FromSweep)' /\ ~Past(FromReport)' /\ ~Past(FromReport)
      /\ ~Past({"print"})'
    BY <1>1 DEF StatusMatchesStage, Past, FromSweep, FromReport
<1>4. LaunchedOnce' /\ Answered'
    BY <1>1, <1>3 DEF ArbiterInv, LaunchedOnce, Answered, NothingRuns, AllFree, sweepVars
<1>5. Reporting'
    BY <1>1, <1>3 DEF ArbiterInv, Reporting
<1> QED
    BY <1>2, <1>3, <1>4, <1>5 DEF ArbiterInv

\* main ends in another way than after the last report.
LEMMA ExitHolds ==
    ASSUME ArbiterInv, NEW how \in {"error", "panic"}, Exit(how), status = "running",
           ~Past(FromReport), how = "error" => ~Past(FromSweep)
    PROVE  ArbiterInv'
<1>1. stage' = "exit" /\ status' = how
      /\ UNCHANGED <<arguments, selected, paths, sources, reports, at>> /\ UNCHANGED sweepVars
    BY DEF Exit
<1>2. SweepInv' /\ StatusMatchesStage'
    BY <1>1, StutterHolds DEF ArbiterInv, StatusMatchesStage
<1>3. /\ ~Past(FromLoad)' /\ ~Past(FromOpen)' /\ ~Past(FromLaunch)' /\ ~Past(FromSweep)'
      /\ ~Past(FromReport)' /\ ~Past({"print"})'
    BY <1>1 DEF Past, FromLoad, FromExpand, FromOpen, FromLaunch, FromSweep, FromReport
<1>4. LaunchedOnce'
    BY <1>1, <1>3 DEF ArbiterInv, LaunchedOnce, NothingRuns, AllFree, sweepVars
<1>5. Answered' /\ Prepared' /\ Reporting'
    BY <1>1, <1>3 DEF ArbiterInv, Answered, Prepared, Reporting, sweepVars
<1> QED
    BY <1>2, <1>4, <1>5 DEF ArbiterInv

\* A stage before the end is that of a running program.
LEMMA RunningStages ==
    ASSUME StatusMatchesStage, stage # "exit"
    PROVE  status = "running"
BY DEF StatusMatchesStage

\* The predictor selected by a name has it.
LEMMA EntryHasItsName ==
    ASSUME NEW name \in Names
    PROVE  Entry(name).name = name
<1> DEFINE Named == {n \in DOMAIN Registry : Registry[n].name = name}
<1>1. DOMAIN Registry \subseteq Nat /\ \A n \in DOMAIN Registry : 1..n - 1 \subseteq DOMAIN Registry
    BY RegistryAssumption
<1>2. Named # {}
    BY DEF Names
<1>3. PICK n \in Named : \A m \in Named : n <= m
    BY <1>1, <1>2, LeastNumber
<1>4. \A m \in 1..n - 1 : Registry[m].name # name
    BY <1>1, <1>3
<1> QED
    BY <1>3, <1>4 DEF Entry

\* Each step of main keeps the invariant.
LEMMA SelectHolds ==
    ASSUME ArbiterInv, SelectPredictors
    PROVE  ArbiterInv'
<1>1. status = "running"
    BY RunningStages DEF ArbiterInv, SelectPredictors
<1>2. ~Past(FromSweep) /\ ~Past(FromReport)
    BY <1>1 DEF SelectPredictors, Past, FromSweep, FromReport
<1>3. CASE \A n \in DOMAIN arguments.predictors : arguments.predictors[n] \in Names
    <2>1. /\ selected' = [n \in DOMAIN arguments.predictors |-> Entry(arguments.predictors[n])]
          /\ Goto("load")
        BY <1>3 DEF SelectPredictors
    <2>2. arguments' = arguments /\ stage' = "load" /\ status' = "running"
        BY <1>1, <2>1 DEF Goto
    <2>3. arguments.predictors \in Seq(STRING)
        BY DEF ArbiterInv, Prepared, CommandLine
    <2>4. IsSequence(selected') /\ Len(selected') = Len(arguments.predictors)
        BY <2>1, <2>3 DEF IsSequence
    <2>5. \A n \in DOMAIN selected' : selected'[n].name = arguments.predictors[n]
        BY <1>3, <2>1, EntryHasItsName
    <2>6. /\ ~Past(FromOpen)' /\ ~Past(FromLaunch)' /\ ~Past(FromSweep)'
        BY <2>2 DEF Past, FromOpen, FromLaunch, FromSweep, FromReport
    <2>7. Prepared'
        BY <2>2, <2>4, <2>5, <2>6 DEF ArbiterInv, Prepared
    <2>8. "load" \in FromLoad \ FromSweep
        BY DEF FromLoad, FromSweep, FromReport
    <2> QED
        BY <1>1, <1>2, <2>1, <2>7, <2>8, GotoHolds
<1>4. CASE Exit("error")
    BY <1>1, <1>2, <1>4, ExitHolds
<1> QED
    BY <1>3, <1>4 DEF SelectPredictors

LEMMA LoadCostsHolds ==
    ASSUME ArbiterInv, LoadCosts
    PROVE  ArbiterInv'
<1>1. status = "running"
    BY RunningStages DEF ArbiterInv, LoadCosts
<1>2. ~Past(FromSweep) /\ ~Past(FromReport) /\ Past(FromLoad)
    BY <1>1 DEF LoadCosts, Past, FromSweep, FromReport, FromLoad
<1>3. CASE Goto("expand") /\ UNCHANGED <<selected, paths, sources>>
    <2>1. UNCHANGED <<arguments, selected>> /\ stage' = "expand" /\ status' = "running"
        BY <1>1, <1>3 DEF Goto
    <2>2. /\ ~Past(FromOpen)' /\ ~Past(FromLaunch)' /\ ~Past(FromSweep)'
        BY <2>1 DEF Past, FromOpen, FromLaunch, FromSweep, FromReport
    <2>3. Prepared'
        BY <1>2, <2>1, <2>2 DEF ArbiterInv, Prepared
    <2>4. "expand" \in FromLoad \ FromSweep
        BY DEF FromLoad, FromExpand, FromSweep, FromReport
    <2> QED
        BY <1>1, <1>2, <1>3, <2>3, <2>4, GotoHolds
<1>4. CASE Exit("error")
    BY <1>1, <1>2, <1>4, ExitHolds
<1> QED
    BY <1>3, <1>4 DEF LoadCosts

\* What an argument stands for, each once: finitely many paths that are there.
LEMMA ListingsAreFaithful ==
    ASSUME NEW given, Found(given), NEW listing \in Listings(given)
    PROVE  /\ Len(listing) \in Nat /\ DOMAIN listing = 1..Len(listing)
           /\ \A k \in DOMAIN listing : listing[k] \in StandsFor(given)
           /\ \A k, m \in DOMAIN listing : listing[k] = listing[m] => k = m
           /\ \A path \in StandsFor(given) : \E k \in DOMAIN listing : listing[k] = path
           /\ Texts(listing) \in Seq(STRING) /\ Len(Texts(listing)) = Len(listing)
<1> DEFINE E == StandsFor(given)
           K == Cardinality(E)
<1>1. IsFiniteSet(E) /\ E \subseteq DOMAIN FileSystem
    <2>1. CASE given \in Directories
        <3>1. E = Contained(given) /\ IsFiniteSet(FileSystem[given].entries)
            BY <2>1, FileSystemAssumption DEF StandsFor, Directories
        <3>2. Contained(given) \subseteq FileSystem[given].entries
              /\ Contained(given) \subseteq DOMAIN FileSystem
            BY DEF Contained, IsFile
        <3> QED
            BY <3>1, <3>2, FS_Subset
    <2>2. CASE given \notin Directories
        <3>1. E = {given}
            BY <2>2 DEF StandsFor
        <3> QED
            BY <3>1, FS_Singleton DEF Found
    <2> QED
        BY <2>1, <2>2
<1>2. K \in Nat
    BY <1>1, FS_CardinalityType
<1>3. /\ listing \in [1..K -> E]
      /\ \A k, m \in 1..K : listing[k] = listing[m] => k = m
    BY DEF Listings, SetToSeqs, IsInjective
<1> HIDE DEF E, K
<1>4. DOMAIN listing = 1..K /\ Len(listing) = K
    BY <1>2, <1>3
<1>5. \A path \in E : \E k \in 1..K : listing[k] = path
    <2>1. IsFiniteSet(1..K) /\ Cardinality(1..K) = K
        BY <1>2, FS_Interval
    <2>2. listing \in Injection(1..K, E)
        BY <1>3 DEF Injection, IsInjective
    <2>3. listing \in Surjection(1..K, E)
        BY <1>1, <2>1, <2>2, FS_Injection DEF K
    <2> QED
        BY <2>3 DEF Surjection
<1>6. Texts(listing) \in [1..K -> STRING]
    <2>1. \A k \in 1..K : Text[listing[k]] \in STRING
        BY <1>1, <1>3, FileSystemAssumption
    <2> QED
        BY <1>4, <2>1 DEF Texts
<1>7. Texts(listing) \in Seq(STRING) /\ Len(Texts(listing)) = K
    BY <1>2, <1>6
<1> QED
    BY <1>2, <1>3, <1>4, <1>5, <1>7 DEF E

\* That is what is asked for with it.
LEMMA StandsForAsked ==
    ASSUME NEW given, Found(given), NEW path
    PROVE  path \in StandsFor(given) <=> path \in DOMAIN FileSystem /\ AskedFor(given, path)
BY DEF StandsFor, Directories, Contained, IsFile, AskedFor, Found

LEMMA ExpandHolds ==
    ASSUME ArbiterInv, Expand
    PROVE  ArbiterInv'
<1>1. status = "running"
    BY RunningStages DEF ArbiterInv, Expand
<1>2. ~Past(FromSweep) /\ ~Past(FromReport) /\ Past(FromLoad)
    BY <1>1 DEF Expand, Past, FromSweep, FromReport, FromLoad, FromExpand
<1> DEFINE given == arguments.traces
<1>3. ASSUME NEW listed, \A n \in DOMAIN given : listed[n] \in Listings(given[n]),
             paths' = FlattenSeq([n \in DOMAIN given |-> Texts(listed[n])]),
             Goto("open"), UNCHANGED <<selected, sources>>,
             \A n \in DOMAIN given : Found(given[n])
      PROVE  ArbiterInv'
    <2> DEFINE part == [n \in DOMAIN given |-> Texts(listed[n])]
    <2>1. given \in Seq(STRING)
        BY DEF ArbiterInv, Prepared, CommandLine
    <2>2. Len(given) \in Nat /\ DOMAIN given = 1..Len(given)
        BY <2>1
    <2>3. UNCHANGED <<arguments, selected>> /\ stage' = "open" /\ status' = "running"
        BY <1>1, <1>3 DEF Goto
    <2>4. Asked' = Asked
        BY <2>3 DEF Asked
    <2>5. ASSUME NEW n \in DOMAIN given
          PROVE  /\ Len(listed[n]) \in Nat /\ DOMAIN listed[n] = 1..Len(listed[n])
                 /\ \A k, m \in DOMAIN listed[n] : listed[n][k] = listed[n][m] => k = m
                 /\ \A k \in DOMAIN listed[n] : <<n, listed[n][k]>> \in Asked
                 /\ part[n] \in Seq(STRING) /\ Len(part[n]) = Len(listed[n])
                 /\ \A k \in DOMAIN listed[n] : part[n][k] = Text[listed[n][k]]
        <3>1. listed[n] \in Listings(given[n]) /\ Found(given[n])
            BY <1>3
        <3>2. \A k \in DOMAIN listed[n] : listed[n][k] \in StandsFor(given[n])
            BY <3>1, ListingsAreFaithful
        <3>3. \A k \in DOMAIN listed[n] : <<n, listed[n][k]>> \in Asked
            BY <3>1, <3>2, StandsForAsked DEF Asked
        <3>4. part[n] = Texts(listed[n])
            OBVIOUS
        <3>5. \A k \in DOMAIN listed[n] : part[n][k] = Text[listed[n][k]]
            BY <3>4 DEF Texts
        <3> HIDE DEF part
        <3> QED
            BY <3>1, <3>3, <3>4, <3>5, ListingsAreFaithful
    <2>6. ASSUME NEW asked \in Asked
          PROVE  /\ asked[1] \in DOMAIN given /\ asked = <<asked[1], asked[2]>>
                 /\ \E k \in DOMAIN listed[asked[1]] : listed[asked[1]][k] = asked[2]
        <3>1. /\ asked[1] \in DOMAIN given /\ asked = <<asked[1], asked[2]>>
              /\ asked[2] \in DOMAIN FileSystem /\ AskedFor(given[asked[1]], asked[2])
            BY DEF Asked
        <3>2. listed[asked[1]] \in Listings(given[asked[1]]) /\ Found(given[asked[1]])
            BY <1>3, <3>1
        <3>3. asked[2] \in StandsFor(given[asked[1]])
            BY <3>1, <3>2, StandsForAsked
        <3> QED
            BY <3>1, <3>2, <3>3, ListingsAreFaithful
    <2>7. part \in Seq(Seq(STRING)) /\ Len(part) = Len(given)
        <3>1. part \in [1..Len(given) -> Seq(STRING)]
            BY <2>2, <2>5
        <3> HIDE DEF part
        <3> QED
            BY <2>2, <3>1
    <2>8. paths' = FlattenSeq(part)
        BY <1>3
    <2> HIDE DEF part, given
    <2>9. paths' \in Seq(STRING)
        <3>1. PICK flat \in [0..Len(part) -> Seq(STRING)] : flat[Len(part)] = FlattenSeq(part)
            BY <2>7, FlattenPrefixes
        <3>2. Len(part) \in 0..Len(part)
            BY <2>7
        <3> QED
            BY <2>8, <3>1, <3>2
    <2>10. DOMAIN paths' = 1..Len(paths')
        BY <2>9
    <2>11. PICK origin : FlatOf(paths', part, origin)
        <3>1. \E origin : FlatOf(FlattenSeq(part), part, origin)
            BY <2>7, FlattenIndices
        <3> QED
            BY <2>8, <3>1
    <2>12. /\ origin \in [1..Len(paths') -> (1..Len(part)) \X (Nat \ {0})]
           /\ \A i \in 1..Len(paths') : /\ origin[i][2] \in 1..Len(part[origin[i][1]])
                                        /\ paths'[i] = part[origin[i][1]][origin[i][2]]
           /\ \A i, j \in 1..Len(paths') : origin[i] = origin[j] => i = j
           /\ \A n \in 1..Len(part) : \A k \in 1..Len(part[n]) :
                \E i \in 1..Len(paths') : origin[i] = <<n, k>>
        BY <2>11 DEF FlatOf
    <2>13. ASSUME NEW i \in 1..Len(paths')
           PROVE  /\ origin[i][1] \in DOMAIN given
                  /\ origin[i] = <<origin[i][1], origin[i][2]>>
                  /\ origin[i][2] \in DOMAIN listed[origin[i][1]]
        <3>1. origin[i] \in (1..Len(part)) \X (Nat \ {0})
            BY <2>12
        <3>2. origin[i][1] \in DOMAIN given /\ origin[i] = <<origin[i][1], origin[i][2]>>
            BY <2>2, <2>7, <3>1
        <3> QED
            BY <2>5, <2>12, <3>2
    <2> DEFINE of(i) == <<origin[i][1], listed[origin[i][1]][origin[i][2]]>>
               place == [asked \in Asked |-> CHOOSE i \in DOMAIN paths' : of(i) = asked]
    <2>14. ASSUME NEW i \in DOMAIN paths'
           PROVE  of(i) \in Asked /\ paths'[i] = Text[of(i)[2]]
        <3>1. PICK n \in DOMAIN given : n = origin[i][1]
            BY <2>10, <2>13
        <3>2. PICK k \in DOMAIN listed[n] : k = origin[i][2]
            BY <2>10, <2>13, <3>1
        <3>3. of(i) = <<n, listed[n][k]>>
            BY <3>1, <3>2
        <3>4. paths'[i] = part[n][k]
            BY <2>10, <2>12, <3>1, <3>2
        <3>5. <<n, listed[n][k]>> \in Asked /\ part[n][k] = Text[listed[n][k]]
            BY <2>5
        <3> HIDE DEF of
        <3> QED
            BY <3>3, <3>4, <3>5
    <2>15. ASSUME NEW i \in DOMAIN paths', NEW j \in DOMAIN paths', of(i) = of(j)
           PROVE  i = j
        <3>1. origin[i][1] = origin[j][1]
              /\ listed[origin[i][1]][origin[i][2]] = listed[origin[i][1]][origin[j][2]]
            BY <2>15
        <3>2. origin[i][2] = origin[j][2]
            <4>1. PICK n \in DOMAIN given : n = origin[i][1] /\ n = origin[j][1]
                BY <2>10, <2>13, <3>1
            <4>2. PICK k \in DOMAIN listed[n], m \in DOMAIN listed[n] :
                    k = origin[i][2] /\ m = origin[j][2]
                BY <2>10, <2>13, <4>1
            <4>3. listed[n][k] = listed[n][m]
                BY <3>1, <4>1, <4>2
            <4> QED
                BY <2>5, <4>2, <4>3
        <3>3. origin[i] = origin[j]
            BY <2>10, <2>13, <3>1, <3>2, Zenon
        <3> QED
            BY <2>10, <2>12, <3>3, Zenon
    <2>16. ASSUME NEW asked \in Asked PROVE \E i \in DOMAIN paths' : of(i) = asked
        <3>1. PICK k \in DOMAIN listed[asked[1]] : listed[asked[1]][k] = asked[2]
            BY <2>6
        <3>2. asked[1] \in DOMAIN given /\ asked = <<asked[1], asked[2]>>
            BY <2>6
        <3>3. asked[1] \in 1..Len(part) /\ k \in 1..Len(part[asked[1]])
            BY <2>2, <2>5, <2>7, <3>1, <3>2
        <3>4. PICK i \in 1..Len(paths') : origin[i] = <<asked[1], k>>
            BY <2>12, <3>3
        <3>5. of(i) = <<asked[1], asked[2]>>
            BY <3>1, <3>4
        <3> QED
            BY <2>10, <3>2, <3>4, <3>5
    <2> HIDE DEF of
    <2>17. \A asked \in Asked : place[asked] \in DOMAIN paths' /\ of(place[asked]) = asked
        BY <2>16
    <2>18. place \in [Asked -> DOMAIN paths']
        BY <2>17
    <2> HIDE DEF place
    <2>19. /\ \A asked, other \in Asked : place[asked] = place[other] => asked = other
           /\ \A n \in DOMAIN paths' : \E asked \in Asked : place[asked] = n
           /\ \A asked \in Asked : paths'[place[asked]] = Text[asked[2]]
        BY <2>14, <2>15, <2>17
    <2>20. Expanded'
        BY <2>4, <2>9, <2>18, <2>19 DEF Expanded
    <2>21. /\ ~Past(FromLaunch)' /\ ~Past(FromSweep)'
        BY <2>3 DEF Past, FromLaunch, FromSweep, FromReport
    <2>22. Prepared'
        BY <1>2, <2>3, <2>20, <2>21 DEF ArbiterInv, Prepared
    <2>23. "open" \in FromLoad \ FromSweep
        BY DEF FromLoad, FromExpand, FromOpen, FromSweep, FromReport
    <2> QED
        BY <1>1, <1>2, <1>3, <2>22, <2>23, GotoHolds
<1>4. CASE Exit("error")
    BY <1>1, <1>2, <1>4, ExitHolds
<1> QED
    BY <1>3, <1>4 DEF Expand

LEMMA OpenHolds ==
    ASSUME ArbiterInv, Open
    PROVE  ArbiterInv'
<1>1. status = "running"
    BY RunningStages DEF ArbiterInv, Open
<1>2. ~Past(FromSweep) /\ ~Past(FromReport) /\ Past(FromLoad) /\ Past(FromOpen)
    BY <1>1 DEF Open, Past, FromSweep, FromReport, FromLoad, FromExpand, FromOpen
<1>3. CASE /\ \A n \in DOMAIN paths : Opens(paths[n])
           /\ sources' = [n \in DOMAIN paths |-> SourceAt(paths[n])]
           /\ Goto("launch") /\ UNCHANGED <<selected, paths>>
    <2>1. UNCHANGED <<arguments, selected, paths>> /\ stage' = "launch" /\ status' = "running"
        BY <1>1, <1>3 DEF Goto
    <2>2. ~Past(FromSweep)'
        BY <2>1 DEF Past, FromSweep, FromReport
    <2>3. IsSequence(paths)
        BY <1>2 DEF ArbiterInv, Prepared, Expanded, IsSequence
    <2>4. IsSequence(sources') /\ Len(sources') = Len(paths)
        BY <1>3, <2>3 DEF IsSequence
    <2>5. \A n \in DOMAIN paths : Opens(paths[n]) /\ sources'[n] = SourceAt(paths[n])
        BY <1>3
    <2>6. Prepared'
        BY <1>2, <2>1, <2>2, <2>4, <2>5, ExpandedStays DEF ArbiterInv, Prepared
    <2>7. "launch" \in FromLoad \ FromSweep
        BY DEF FromLoad, FromExpand, FromOpen, FromLaunch, FromSweep, FromReport
    <2> QED
        BY <1>1, <1>2, <1>3, <2>6, <2>7, GotoHolds
<1>4. CASE Exit("error")
    BY <1>1, <1>2, <1>4, ExitHolds
<1> QED
    BY <1>3, <1>4 DEF Open

\* What main calls run_many with is a grid.
LEMMA SweepIsSound ==
    ASSUME Prepared, Past(FromLoad), Past(FromOpen), Past(FromLaunch)
    PROVE  SoundGrid([sources |-> sources, configs |-> ConfigsOf(arguments),
                      predictors |-> selected])
<1> DEFINE g == [sources |-> sources, configs |-> ConfigsOf(arguments), predictors |-> selected]
           configs == ConfigsOf(arguments)
<1>1. /\ IsSequence(selected) /\ IsSequence(sources) /\ Len(sources) = Len(paths)
      /\ arguments \in CommandLine
      /\ \A n \in DOMAIN paths : Opens(paths[n]) /\ sources[n] = SourceAt(paths[n])
    BY DEF Prepared
<1>6. paths \in Seq(STRING)
    BY DEF Prepared, Expanded
<1>2. configs \in Seq([warmup : Nat, speculations : Nat])
    <2>1. arguments \in CommandLine
        BY <1>1
    <2> QED
        BY <2>1, ConfigsAreInOrder, Zenon
<1> HIDE DEF configs
<1>3. IsSequence(configs)
    BY <1>2 DEF IsSequence
<1>5. ASSUME NEW c \in DOMAIN configs PROVE configs[c].warmup \in Nat
    <2> DEFINE Configuration == [warmup : Nat, speculations : Nat]
    <2>1. configs[c] \in Configuration
        <3> HIDE DEF Configuration
        <3>1. configs \in Seq(Configuration)
            BY <1>2 DEF Configuration
        <3> QED
            BY <3>1
    <2> QED
        BY <2>1
<1>4. ASSUME NEW s \in DOMAIN sources PROVE sources[s].length \in Nat
    <2>1. s \in DOMAIN paths
        BY <1>1, <1>6 DEF IsSequence
    <2>2. paths[s] \in DOMAIN FileSystem /\ FileSystem[paths[s]].kind = "file"
        BY <1>1, <2>1 DEF Opens
    <2>3. FileSystem[paths[s]].length \in Nat
        BY <2>2, FileSystemAssumption
    <2>5. sources[s] = [trace |-> paths[s], length |-> FileSystem[paths[s]].length]
        BY <1>1, <2>1 DEF SourceAt
    <2> QED
        BY <2>3, <2>5
<1> QED
    BY <1>1, <1>3, <1>4, <1>5 DEF SoundGrid, configs

LEMMA RunSweepHolds ==
    ASSUME ArbiterInv, RunSweep
    PROVE  ArbiterInv'
<1> DEFINE g == [sources |-> sources, configs |-> ConfigsOf(arguments), predictors |-> selected]
<1>1. /\ stage = "launch" /\ status = "running" /\ stage' = "sweep" /\ Launch(g)
      /\ UNCHANGED <<arguments, selected, paths, sources, reports, at, status>>
    BY RunningStages DEF ArbiterInv, RunSweep
<1>2. /\ Past(FromLoad) /\ Past(FromOpen) /\ Past(FromLaunch)
      /\ ~Past(FromSweep) /\ ~Past(FromReport)
    BY <1>1 DEF Past, FromSweep, FromReport, FromLoad, FromExpand, FromOpen, FromLaunch
<1>3. /\ Past(FromLoad)' /\ Past(FromOpen)' /\ Past(FromLaunch)' /\ Past(FromSweep)'
      /\ ~Past(FromReport)' /\ ~Past({"print"})'
    BY <1>1 DEF Past, FromSweep, FromReport, FromLoad, FromExpand, FromOpen, FromLaunch
<1>4. /\ grid' = g /\ jobs' = Jobs(g) /\ calls' = calls + 1 /\ answer' = None
      /\ slots' = [i \in DOMAIN jobs' |-> None] /\ spoilt' = spoilt
    BY <1>1 DEF Launch
<1>5. SweepInv' /\ StatusMatchesStage'
    BY <1>1, LaunchHolds DEF ArbiterInv, StatusMatchesStage, FromSweep, FromReport, FromLoad,
       FromExpand, FromOpen, FromLaunch
<1>6. LaunchedOnce'
    BY <1>1, <1>2, <1>3, <1>4 DEF ArbiterInv, LaunchedOnce, NothingRuns
<1>7. Prepared'
    BY <1>1, <1>2, <1>3, <1>4, ExpandedStays DEF ArbiterInv, Prepared
<1>8. Answered'
    BY <1>3, <1>4 DEF Answered
<1>9. Reporting'
    BY <1>1, <1>2, <1>3 DEF ArbiterInv, Reporting
<1> QED
    BY <1>5, <1>6, <1>7, <1>8, <1>9 DEF ArbiterInv

\* Once the sweep has been launched: the grid's and its results' sizes.
LEMMA SweepShape ==
    ASSUME ArbiterInv, Past(FromSweep), Past(FromLoad), Past(FromOpen), Past(FromLaunch)
    PROVE  /\ SoundGrid(grid)
           /\ grid.sources = sources /\ grid.configs = ConfigsOf(arguments)
           /\ grid.predictors = selected
           /\ jobs = Jobs(grid)
           /\ Len(paths) \in Nat /\ DOMAIN paths = 1..Len(paths) /\ Len(grid.sources) = Len(paths)
           /\ Len(grid.configs) \in Nat \ {0} /\ DOMAIN grid.configs = 1..Len(grid.configs)
           /\ Len(selected) \in Nat \ {0} /\ DOMAIN selected = 1..Len(selected)
           /\ DOMAIN grid.sources = DOMAIN paths
           /\ DOMAIN slots = DOMAIN jobs /\ Len(slots) = Len(jobs)
           /\ Len(jobs) = Len(paths) * (Len(grid.configs) * Len(selected))
           /\ Len(jobs) \in Nat /\ DOMAIN jobs = 1..Len(jobs)
<1>1. /\ grid = [sources |-> sources, configs |-> ConfigsOf(arguments), predictors |-> selected]
      /\ jobs = Jobs(grid)
    BY DEF ArbiterInv, Prepared
<1>2. SoundGrid(grid)
    BY <1>1, SweepIsSound DEF ArbiterInv
<1>3. grid.sources = sources /\ grid.configs = ConfigsOf(arguments) /\ grid.predictors = selected
    BY <1>1
<1>4. /\ paths \in Seq(STRING) /\ IsSequence(sources) /\ Len(sources) = Len(paths)
      /\ arguments \in CommandLine /\ Len(selected) = Len(arguments.predictors)
    BY DEF ArbiterInv, Prepared, Expanded
<1>5. Len(selected) \in Nat \ {0}
    <2>1. arguments.predictors \in Seq(STRING) \ {<<>>}
        BY <1>4 DEF CommandLine
    <2> QED
        BY <1>4, <2>1
<1>6. Len(grid.configs) \in Nat \ {0}
    <2> DEFINE W == Len(arguments.warmups)
               D == Len(arguments.speculations)
    <2>1. W \in Nat \ {0} /\ D \in Nat \ {0} /\ Len(ConfigsOf(arguments)) = W * D
        BY <1>4, ConfigsAreInOrder
    <2> HIDE DEF W, D
    <2>2. 1 <= W /\ 1 * D <= W * D /\ W * D \in Nat
        <3>1. 1 <= W
            BY <2>1
        <3> QED
            BY <2>1, <3>1, TimesMonotone
    <2>3. 1 * D = D /\ D # 0
        BY <2>1
    <2> QED
        BY <1>3, <2>1, <2>2, <2>3
<1>7. Jobs(grid) \in Seq(Job(grid))
      /\ Len(Jobs(grid)) = Len(grid.sources) * (Len(grid.configs) * Len(grid.predictors))
    BY <1>2, JobsAreInOrder
<1>8. Len(jobs) \in Nat /\ DOMAIN jobs = 1..Len(jobs)
    BY <1>1, <1>7
<1>9. DOMAIN slots = DOMAIN jobs /\ Len(slots) = Len(jobs)
    <2> DEFINE T == {slots[i] : i \in DOMAIN jobs}
    <2>1. slots \in [1..Len(jobs) -> T]
        BY <1>8 DEF ArbiterInv, Answered
    <2> HIDE DEF T
    <2> QED
        BY <1>8, <2>1
<1>10. /\ DOMAIN grid.sources = 1..Len(grid.sources)
       /\ DOMAIN grid.configs = 1..Len(grid.configs)
       /\ DOMAIN grid.predictors = 1..Len(grid.predictors)
    BY <1>2 DEF SoundGrid, IsSequence
<1>11. Len(paths) \in Nat /\ DOMAIN paths = 1..Len(paths)
    BY <1>4
<1>12. Len(jobs) = Len(paths) * (Len(grid.configs) * Len(selected))
    BY <1>1, <1>3, <1>4, <1>7
<1>13. Len(grid.sources) = Len(paths) /\ DOMAIN grid.sources = DOMAIN paths
       /\ DOMAIN selected = 1..Len(selected)
    BY <1>3, <1>4, <1>10, <1>11
<1> QED
    BY <1>1, <1>2, <1>3, <1>5, <1>6, <1>8, <1>9, <1>10, <1>11, <1>12, <1>13

\* Where the loops begin, how they go on, and where they end.
LEMMA LoopPlaces ==
    ASSUME NEW g, Len(g.configs) \in Nat, Len(g.predictors) \in Nat,
           NEW s \in Nat, NEW c \in Nat, NEW p \in Nat
    PROVE  /\ PlaceOf(g, 1, 1, 1) = 1
           /\ PlaceOf(g, s, c, p + 1) = PlaceOf(g, s, c, p) + 1
           /\ PlaceOf(g, s, c + 1, 1) = PlaceOf(g, s, c, Len(g.predictors)) + 1
           /\ PlaceOf(g, s + 1, 1, 1) = PlaceOf(g, s, Len(g.configs), Len(g.predictors)) + 1
           /\ PlaceOf(g, s, c, p) \in Int
<1> DEFINE P == Len(g.predictors)
           C == Len(g.configs)
           K == C * P
<1>1. P \in Nat /\ C \in Nat /\ K \in Nat
    BY ProductIsNat
<1>2. \A a, b, d : PlaceOf(g, a, b, d) = Cell(K, a, Cell(P, b, d))
    BY DEF PlaceOf
<1>3. Cell(P, C, P) = K
    BY <1>1, LastCell
<1>4. PlaceOf(g, s, c + 1, 1) = Cell(K, s, Cell(P, c + 1, 1))
      /\ PlaceOf(g, s, c, Len(g.predictors)) = Cell(K, s, Cell(P, c, P))
      /\ PlaceOf(g, s, Len(g.configs), Len(g.predictors)) = Cell(K, s, Cell(P, C, P))
    <2>1. PlaceOf(g, s, c + 1, 1) = Cell(K, s, Cell(P, c + 1, 1))
        BY <1>2
    <2>2. PlaceOf(g, s, c, P) = Cell(K, s, Cell(P, c, P))
        BY <1>2
    <2>3. PlaceOf(g, s, C, P) = Cell(K, s, Cell(P, C, P))
        BY <1>2
    <2> QED
        BY <2>1, <2>2, <2>3
<1> HIDE DEF P, C, K
<1>5. PlaceOf(g, 1, 1, 1) = 1
    <2>1. Cell(P, 1, 1) = 1 /\ Cell(K, 1, 1) = 1
        BY <1>1, FirstRow
    <2> QED
        BY <1>2, <2>1
<1>6. PlaceOf(g, s, c, p + 1) = PlaceOf(g, s, c, p) + 1 /\ PlaceOf(g, s, c, p) \in Int
    <2>1. Cell(P, c, p + 1) = Cell(P, c, p) + 1
        BY <1>1, CellSteps
    <2>5. Cell(P, c, p) \in Int
        BY <1>1, CellIsInt
    <2>2. Cell(K, s, Cell(P, c, p) + 1) = Cell(K, s, Cell(P, c, p)) + 1
        BY <1>1, <2>5, CellSteps
    <2>4. Cell(K, s, Cell(P, c, p)) \in Int
        BY <1>1, <2>5, CellIsInt
    <2>3. PlaceOf(g, s, c, p + 1) = Cell(K, s, Cell(P, c, p + 1))
          /\ PlaceOf(g, s, c, p) = Cell(K, s, Cell(P, c, p))
        BY <1>2
    <2> QED
        BY <2>1, <2>2, <2>3, <2>4
<1>7. Cell(K, s, Cell(P, c + 1, 1)) = Cell(K, s, Cell(P, c, P)) + 1
    <2>1. Cell(P, c + 1, 1) = Cell(P, c, P) + 1
        BY <1>1, NextRow
    <2>2. Cell(P, c, P) \in Int
        <3>1. P \in Int
            BY <1>1
        <3> QED
            BY <1>1, <3>1, CellIsInt
    <2>3. Cell(K, s, Cell(P, c, P) + 1) = Cell(K, s, Cell(P, c, P)) + 1
        BY <1>1, <2>2, CellSteps
    <2> QED
        BY <2>1, <2>3
<1>8. PlaceOf(g, s + 1, 1, 1) = Cell(K, s, K) + 1
    <2>1. Cell(P, 1, 1) = 1
        BY <1>1, FirstRow
    <2>2. Cell(K, s + 1, 1) = Cell(K, s, K) + 1
        BY <1>1, NextRow
    <2> QED
        BY <1>2, <2>1, <2>2
<1> QED
    BY <1>3, <1>4, <1>5, <1>6, <1>7, <1>8

LEMMA SweepReturnsHolds ==
    ASSUME ArbiterInv, SweepReturns
    PROVE  ArbiterInv'
<1>1. stage = "sweep" /\ status = "running" /\ ~Working
    BY RunningStages DEF ArbiterInv, SweepReturns
<1>2. /\ Past(FromLoad) /\ Past(FromOpen) /\ Past(FromLaunch) /\ Past(FromSweep)
      /\ ~Past(FromReport)
    BY <1>1 DEF Past, FromSweep, FromReport, FromLoad, FromExpand, FromOpen, FromLaunch
<1>3. CASE answer # None /\ Goto("report") /\ UNCHANGED <<selected, paths, sources>>
    <2>1. /\ stage' = "report" /\ status' = "running" /\ UNCHANGED sweepVars
          /\ UNCHANGED <<arguments, selected, paths, sources, reports, at>>
        BY <1>1, <1>3 DEF Goto
    <2>2. /\ Past(FromLoad)' /\ Past(FromOpen)' /\ Past(FromLaunch)' /\ Past(FromSweep)'
          /\ Past(FromReport)' /\ ~Past({"print"})'
        BY <2>1 DEF Past, FromSweep, FromReport, FromLoad, FromExpand, FromOpen, FromLaunch
    <2>3. SweepInv' /\ StatusMatchesStage'
        BY <2>1, StutterHolds DEF ArbiterInv, StatusMatchesStage, FromSweep, FromReport, FromLoad,
           FromExpand, FromOpen, FromLaunch
    <2>4. LaunchedOnce'
        BY <1>2, <2>1, <2>2 DEF ArbiterInv, LaunchedOnce, sweepVars
    <2>5. Prepared'
        BY <1>2, <2>1, <2>2, ExpandedStays DEF ArbiterInv, Prepared, sweepVars
    <2>6. Answered'
        BY <1>3, <2>1 DEF ArbiterInv, Answered, sweepVars
    <2>7. LoopsInStep
        <3>1. at = Start /\ reports = <<>>
            BY <1>1, <1>2 DEF ArbiterInv, Reporting
        <3>2. /\ Len(paths) \in Nat /\ Len(grid.configs) \in Nat \ {0} /\ Len(selected) \in Nat \ {0}
              /\ grid.predictors = selected
            BY <1>2, SweepShape
        <3>3. PlaceOf(grid, 1, 1, 1) = 1
            BY <3>2, LoopPlaces
        <3>4. IsSequence(reports) /\ Len(reports) = 0 /\ DOMAIN reports = {}
            BY <3>1 DEF IsSequence
        <3>5. /\ at \in [path : 1..Len(paths) + 1, config : 1..Len(grid.configs),
                         predictor : 1..Len(selected)]
              /\ at.path = 1 /\ at.config = 1 /\ at.predictor = 1
            BY <3>1, <3>2 DEF Start
        <3>6. ~Looping => at = [Start EXCEPT !.path = Len(paths) + 1]
            BY <3>1, <3>2 DEF Start, Looping
        <3> QED
            BY <3>3, <3>4, <3>5, <3>6 DEF LoopsInStep
    <2>8. Reporting'
        BY <2>1, <2>2, <2>7 DEF Reporting, LoopsInStep, Looping, ReportOf, sweepVars
    <2> QED
        BY <2>3, <2>4, <2>5, <2>6, <2>8 DEF ArbiterInv
<1>4. CASE Exit("panic")
    BY <1>1, <1>2, <1>4, ExitHolds
<1> QED
    BY <1>3, <1>4 DEF SweepReturns

\* What main says while it reports does not disturb the rest.
LEMMA ReportingStep ==
    ASSUME ArbiterInv, stage \in FromReport, UNCHANGED sweepVars,
           UNCHANGED <<arguments, selected, paths, sources>>,
           \/ stage' \in FromReport /\ status' = "running"
           \/ stage' = "exit" /\ status' \in {"ok", "unprinted"},
           Reporting'
    PROVE  ArbiterInv'
<1>1. /\ Past(FromLoad) /\ Past(FromOpen) /\ Past(FromLaunch) /\ Past(FromSweep)
      /\ Past(FromReport)
    BY DEF Past, FromSweep, FromReport, FromLoad, FromExpand, FromOpen, FromLaunch
<1>2. /\ Past(FromLoad)' /\ Past(FromOpen)' /\ Past(FromLaunch)' /\ Past(FromSweep)'
      /\ Past(FromReport)'
    BY DEF Past, FromSweep, FromReport, FromLoad, FromExpand, FromOpen, FromLaunch
<1>3. SweepInv' /\ StatusMatchesStage'
    BY StutterHolds DEF ArbiterInv, StatusMatchesStage, FromSweep, FromReport, FromLoad,
       FromExpand, FromOpen, FromLaunch
<1>4. LaunchedOnce'
    BY <1>1, <1>2 DEF ArbiterInv, LaunchedOnce, sweepVars
<1>5. Prepared'
    BY <1>1, <1>2, ExpandedStays DEF ArbiterInv, Prepared, sweepVars
<1>6. Answered'
    BY <1>1 DEF ArbiterInv, Answered, sweepVars
<1> QED
    BY <1>3, <1>4, <1>5, <1>6 DEF ArbiterInv

\* The place of a combination is that of a job.
LEMMA PlacesAreJobs ==
    ASSUME ArbiterInv, Past(FromSweep), Past(FromLoad), Past(FromOpen), Past(FromLaunch),
           NEW s \in DOMAIN paths, NEW c \in DOMAIN grid.configs, NEW p \in DOMAIN selected
    PROVE  /\ PlaceOf(grid, s, c, p) \in DOMAIN jobs
           /\ jobs[PlaceOf(grid, s, c, p)] = [source |-> s, config |-> c, predictor |-> p]
<1> DEFINE P == Len(selected)
           C == Len(grid.configs)
<1>1. /\ SoundGrid(grid) /\ jobs = Jobs(grid) /\ grid.predictors = selected
      /\ DOMAIN grid.sources = DOMAIN paths /\ DOMAIN paths = 1..Len(paths) /\ Len(paths) \in Nat
      /\ C \in Nat /\ DOMAIN grid.configs = 1..C /\ P \in Nat /\ DOMAIN selected = 1..P
      /\ Len(jobs) = Len(paths) * (C * P) /\ DOMAIN jobs = 1..Len(jobs)
    BY SweepShape
<1>2. jobs[PlaceOf(grid, s, c, p)] = [source |-> s, config |-> c, predictor |-> p]
    <2>1. SoundGrid(grid) /\ s \in DOMAIN grid.sources /\ p \in DOMAIN grid.predictors
        BY <1>1
    <2>2. Jobs(grid)[PlaceOf(grid, s, c, p)] = [source |-> s, config |-> c, predictor |-> p]
        BY <2>1, JobsAreInOrder
    <2> QED
        BY <1>1, <2>2
<1> HIDE DEF P, C
<1>3. Cell(P, c, p) \in 1..C * P
    BY <1>1, CellPlaces
<1>4. C * P \in Nat
    BY <1>1, ProductIsNat
<1>5. Cell(C * P, s, Cell(P, c, p)) \in 1..Len(paths) * (C * P)
    BY <1>1, <1>3, <1>4, CellPlaces
<1>6. PlaceOf(grid, s, c, p) = Cell(C * P, s, Cell(P, c, p))
    BY <1>1 DEF PlaceOf, C, P
<1> QED
    BY <1>1, <1>2, <1>5, <1>6

LEMMA ReportHolds ==
    ASSUME ArbiterInv, Report
    PROVE  ArbiterInv'
<1>1. stage = "report" /\ status = "running" /\ Looping
    BY RunningStages DEF ArbiterInv, Report
<1>2. /\ Past(FromLoad) /\ Past(FromOpen) /\ Past(FromLaunch) /\ Past(FromSweep)
      /\ Past(FromReport)
    BY <1>1 DEF Past, FromSweep, FromReport, FromLoad, FromExpand, FromOpen, FromLaunch
<1> DEFINE P == Len(selected)
           C == Len(grid.configs)
           S == Len(paths)
           n == Len(reports) + 1
<1>3. /\ IsSequence(reports)
      /\ at \in [path : 1..S + 1, config : 1..C, predictor : 1..P]
      /\ n = PlaceOf(grid, at.path, at.config, at.predictor)
      /\ \A m \in DOMAIN reports :
           \E s \in DOMAIN paths, c \in DOMAIN grid.configs, p \in DOMAIN selected :
             m = PlaceOf(grid, s, c, p) /\ reports[m] = ReportOf(s, c, p)
    BY <1>2 DEF ArbiterInv, Reporting, LoopsInStep
<1>4. /\ S \in Nat /\ DOMAIN paths = 1..S
      /\ C \in Nat \ {0} /\ DOMAIN grid.configs = 1..C
      /\ P \in Nat \ {0} /\ DOMAIN selected = 1..P
      /\ Len(slots) = Len(jobs) /\ DOMAIN jobs = 1..Len(jobs) /\ Len(jobs) \in Nat
      /\ grid.predictors = selected /\ grid.configs = ConfigsOf(arguments)
    BY <1>2, SweepShape
<1>5. at.path \in 1..S /\ at.config \in 1..C /\ at.predictor \in 1..P
    BY <1>1, <1>3, <1>4 DEF Looping
<1>6. n \in DOMAIN jobs /\ Len(reports) \in Nat /\ DOMAIN reports = 1..Len(reports)
    BY <1>2, <1>3, <1>4, <1>5, PlacesAreJobs DEF IsSequence
<1>7. answer = slots
    BY <1>2 DEF ArbiterInv, Answered
<1>8. Len(reports) < Len(answer)
    BY <1>4, <1>6, <1>7
<1>9. /\ reports' = Append(reports,
                     [path |-> paths[at.path], name |-> selected[at.predictor].name,
                      config |-> ConfigsOf(arguments)[at.config], metrics |-> answer[n]])
      /\ at' = Advanced(at.path, at.config, at.predictor)
      /\ UNCHANGED <<stage, arguments, selected, paths, sources, status>> /\ UNCHANGED sweepVars
    BY <1>8 DEF Report
<1> DEFINE report == ReportOf(at.path, at.config, at.predictor)
<1>10. reports' = Append(reports, report)
    BY <1>3, <1>9 DEF ReportOf
<1>11. LoopsInStep'
    <2> HIDE DEF report
    <2>1. IsSequence(reports)' /\ Len(reports') = n /\ DOMAIN reports' = 1..n
          /\ reports'[n] = report /\ \A m \in DOMAIN reports : reports'[m] = reports[m]
        BY <1>6, <1>10, AppendedSequence DEF IsSequence
    <2>2. \A s, c, p : ReportOf(s, c, p)' = ReportOf(s, c, p)
                    /\ PlaceOf(grid, s, c, p)' = PlaceOf(grid, s, c, p)
        BY <1>9 DEF ReportOf, sweepVars, PlaceOf
    <2>3. UNCHANGED <<grid, paths, selected>>
        BY <1>9 DEF sweepVars
    <2>4. \A m \in DOMAIN reports' :
            \E s \in DOMAIN paths, c \in DOMAIN grid.configs, p \in DOMAIN selected :
              m = PlaceOf(grid, s, c, p) /\ reports'[m] = ReportOf(s, c, p)
        <3> SUFFICES ASSUME NEW m \in DOMAIN reports'
                     PROVE  \E s \in DOMAIN paths, c \in DOMAIN grid.configs, p \in DOMAIN selected :
                              m = PlaceOf(grid, s, c, p) /\ reports'[m] = ReportOf(s, c, p)
            OBVIOUS
        <3>1. CASE m = n
            BY <1>3, <1>4, <1>5, <2>1, <3>1 DEF report
        <3>2. CASE m # n
            <4>1. m \in DOMAIN reports
                BY <1>6, <2>1, <3>2
            <4> QED
                BY <1>3, <2>1, <4>1
        <3> QED
            BY <3>1, <3>2
    <2>5. /\ at' \in [path : 1..S + 1, config : 1..C, predictor : 1..P]
          /\ ~Looping' => at' = [Start EXCEPT !.path = S + 1]
          /\ n + 1 = PlaceOf(grid, at'.path, at'.config, at'.predictor)
        <3>1. CASE at.predictor < P
            <4>1. at' = [at EXCEPT !.predictor = at.predictor + 1]
                BY <1>9, <3>1 DEF Advanced
            <4>2. at'.path = at.path /\ at'.config = at.config /\ at'.predictor = at.predictor + 1
                BY <1>3, <4>1
            <4>3. PlaceOf(grid, at.path, at.config, at.predictor + 1) = n + 1
                BY <1>3, <1>4, <1>5, LoopPlaces
            <4>4. Looping'
                BY <1>1, <2>3, <4>2 DEF Looping
            <4>5. at' \in [path : 1..S + 1, config : 1..C, predictor : 1..P]
                BY <1>3, <1>4, <1>5, <3>1, <4>1
            <4> QED
                BY <4>2, <4>3, <4>4, <4>5
        <3>2. CASE at.predictor = P /\ at.config < C
            <4>1. at' = [at EXCEPT !.config = at.config + 1, !.predictor = 1]
                BY <1>4, <1>9, <3>2 DEF Advanced
            <4>2. at'.path = at.path /\ at'.config = at.config + 1 /\ at'.predictor = 1
                BY <1>3, <4>1
            <4>3. PlaceOf(grid, at.path, at.config + 1, 1) = n + 1
                BY <1>3, <1>4, <1>5, <3>2, LoopPlaces
            <4>4. Looping'
                BY <1>1, <2>3, <4>2 DEF Looping
            <4>5. at' \in [path : 1..S + 1, config : 1..C, predictor : 1..P]
                <5>1. at' = [path |-> at.path, config |-> at.config + 1, predictor |-> 1]
                    BY <1>3, <4>1
                <5>2. at.path \in 1..S + 1 /\ at.config + 1 \in 1..C /\ 1 \in 1..P
                    BY <1>4, <1>5, <3>2
                <5> QED
                    BY <5>1, <5>2
            <4> QED
                BY <4>2, <4>3, <4>4, <4>5
        <3>3. CASE at.predictor = P /\ at.config = C
            <4>1. at' = [path |-> at.path + 1, config |-> 1, predictor |-> 1]
                BY <1>4, <1>9, <3>3 DEF Advanced
            <4>2. at'.path = at.path + 1 /\ at'.config = 1 /\ at'.predictor = 1
                BY <4>1
            <4>3. PlaceOf(grid, at.path + 1, 1, 1) = n + 1
                BY <1>3, <1>4, <1>5, <3>3, LoopPlaces
            <4>4. ~Looping' => at' = [Start EXCEPT !.path = S + 1]
                BY <1>4, <1>5, <2>3, <4>1, <4>2 DEF Looping, Start
            <4>5. at' \in [path : 1..S + 1, config : 1..C, predictor : 1..P]
                BY <1>4, <1>5, <4>1
            <4> QED
                BY <4>2, <4>3, <4>4, <4>5
        <3> QED
            BY <1>4, <1>5, <3>1, <3>2, <3>3
    <2> QED
        BY <2>1, <2>2, <2>3, <2>4, <2>5 DEF LoopsInStep
<1>12. Past(FromReport)' /\ ~Past({"print"})'
    BY <1>1, <1>9 DEF Past, FromReport
<1>13. Reporting'
    BY <1>11, <1>12 DEF Reporting
<1>14. stage \in FromReport /\ stage' \in FromReport /\ status' = "running"
    BY <1>1, <1>9 DEF FromReport
<1> QED
    BY <1>9, <1>13, <1>14, ReportingStep

LEMMA ReportedHolds ==
    ASSUME ArbiterInv, Reported
    PROVE  ArbiterInv'
<1>1. /\ stage = "report" /\ status = "running" /\ ~Looping
      /\ stage' = "print" /\ status' = "running"
      /\ UNCHANGED <<arguments, selected, paths, sources, reports, at>> /\ UNCHANGED sweepVars
    BY RunningStages DEF ArbiterInv, Reported, Goto
<1>2. stage \in FromReport /\ stage' \in FromReport /\ Past(FromReport) /\ Past(FromReport)'
    BY <1>1 DEF FromReport, Past
<1>3. LoopsInStep' /\ ~Looping'
    BY <1>1, <1>2 DEF ArbiterInv, Reporting, LoopsInStep, Looping, ReportOf, sweepVars
<1>4. Reporting'
    BY <1>2, <1>3 DEF Reporting
<1> QED
    BY <1>1, <1>2, <1>4, ReportingStep

LEMMA PrintHolds ==
    ASSUME ArbiterInv, PrintReports
    PROVE  ArbiterInv'
<1>1. /\ stage = "print" /\ stage' = "exit" /\ status' \in {"ok", "unprinted"}
      /\ UNCHANGED <<arguments, selected, paths, sources, reports, at>> /\ UNCHANGED sweepVars
    BY DEF PrintReports, Exit
<1>2. /\ stage \in FromReport /\ Past(FromReport) /\ Past({"print"}) /\ Past(FromReport)'
    BY <1>1 DEF FromReport, Past
<1>3. LoopsInStep' /\ ~Looping'
    BY <1>1, <1>2 DEF ArbiterInv, Reporting, LoopsInStep, Looping, ReportOf, sweepVars
<1>4. Reporting'
    BY <1>2, <1>3 DEF Reporting
<1> QED
    BY <1>1, <1>2, <1>4, ReportingStep

\* The steps of the pool, which leave main alone.
LEMMA PoolHolds ==
    ASSUME ArbiterInv, PoolStep, UNCHANGED mainVars
    PROVE  ArbiterInv'
<1>1. /\ SweepInv /\ StatusMatchesStage /\ LaunchedOnce /\ Prepared /\ Answered /\ Reporting
    BY DEF ArbiterInv
<1>2. UNCHANGED <<stage, arguments, selected, paths, sources, reports, at, status>>
    BY DEF mainVars
<1>3. SweepInv' /\ StatusMatchesStage'
    BY <1>1, <1>2, NextHolds DEF Next, StatusMatchesStage
<1>4. /\ Working /\ UNCHANGED <<grid, jobs, calls>>
      /\ \/ UNCHANGED <<answer, spoilt>>
         \/ answer' = slots /\ UNCHANGED <<todo, pc, slots, panicking, spoilt>>
         \/ panicking /\ answer' = answer /\ spoilt' = spoilt \cup {calls}
      /\ todo = {} /\ AllFree /\ ~panicking =>
           UNCHANGED <<todo, pc, panicking, spoilt>>
    BY <1>1, PoolOnlyWorks
<1>5. /\ Past(FromLoad)' <=> Past(FromLoad)
      /\ Past(FromOpen)' <=> Past(FromOpen)
      /\ Past(FromLaunch)' <=> Past(FromLaunch)
      /\ Past(FromSweep)' <=> Past(FromSweep)
      /\ Past(FromReport)' <=> Past(FromReport)
      /\ Past({"print"})' <=> Past({"print"})
    BY <1>2 DEF Past
<1>6. ~Past(FromReport)
    BY <1>1, <1>4 DEF Answered, Working
<1>7. Prepared'
    BY <1>1, <1>2, <1>4, <1>5, ExpandedStays DEF Prepared
<1>8. Reporting'
    <2>1. ~Past({"print"})
        BY <1>6 DEF Past, FromReport
    <2> QED
        BY <1>1, <1>2, <1>5, <1>6, <2>1 DEF Reporting
<1>9. LaunchedOnce'
    <2>1. ~Past(FromSweep) /\ status # "panic" => NothingRuns'
        BY <1>1, <1>4 DEF LaunchedOnce, NothingRuns, AllFree
    <2>2. answer' # None => spoilt' = {}
        BY <1>1, <1>4 DEF LaunchedOnce, Working
    <2>3. spoilt' \subseteq {calls}
        BY <1>1, <1>4 DEF LaunchedOnce
    <2> QED
        BY <1>1, <1>2, <1>4, <1>5, <2>1, <2>2, <2>3 DEF LaunchedOnce
<1>10. Answered'
    <2>1. slots' \in [DOMAIN jobs -> {slots'[i] : i \in DOMAIN jobs}]
        <3>1. slots' = slots \/ \E w \in Workers : Return(w)
            BY DEF PoolStep, End, Collect, Rethrow, Take, Step, Build, StartRun, Feed, TurnOn, Fail,
                   Unwind, RunUnchanged
        <3>2. ASSUME NEW w \in Workers, Return(w)
              PROVE  slots' \in [DOMAIN jobs -> {slots'[i] : i \in DOMAIN jobs}]
            <4>1. slots' = [slots EXCEPT ![Place(doing[w])] = ledgers[CellOf(w)]]
                BY <3>2 DEF Return
            <4>2. DOMAIN slots = DOMAIN jobs
                BY <1>1 DEF SweepInv, Shape
            <4> QED
                BY <4>1, <4>2
        <3> QED
            BY <1>1, <3>1, <3>2 DEF Answered
    <2>2. answer' # None => answer' = slots'
        BY <1>4 DEF Working
    <2> QED
        BY <1>4, <1>5, <1>6, <2>1, <2>2 DEF Answered
<1> QED
    BY <1>3, <1>7, <1>8, <1>9, <1>10 DEF ArbiterInv

LEMMA ArbiterStutterHolds ==
    ASSUME ArbiterInv, UNCHANGED arbiterVars
    PROVE  ArbiterInv'
<1>1. UNCHANGED sweepVars /\ UNCHANGED <<stage, arguments, selected, paths, sources, reports, at, status>>
    BY DEF arbiterVars, mainVars
<1>2. SweepInv'
    BY <1>1, StutterHolds DEF ArbiterInv
<1>3. StatusMatchesStage' /\ LaunchedOnce'
    BY <1>1 DEF ArbiterInv, StatusMatchesStage, LaunchedOnce, NothingRuns, AllFree, Past, sweepVars
<1>4. Prepared' /\ Answered'
    BY <1>1, ExpandedStays DEF ArbiterInv, Prepared, Answered, Past, sweepVars
<1>5. Reporting'
    BY <1>1 DEF ArbiterInv, Reporting, LoopsInStep, Looping, ReportOf, Past, sweepVars
<1> QED
    BY <1>2, <1>3, <1>4, <1>5 DEF ArbiterInv

\* The invariant of the program holds in every state it reaches.
THEOREM ArbiterInvariance == ArbiterSpec => []ArbiterInv
<1>1. ArbiterInv /\ [ArbiterNext]_arbiterVars => ArbiterInv'
    <2> SUFFICES ASSUME ArbiterInv, [ArbiterNext]_arbiterVars PROVE ArbiterInv'
        OBVIOUS
    <2>1. CASE MainStep
        BY <2>1, SelectHolds, LoadCostsHolds, ExpandHolds, OpenHolds, RunSweepHolds,
           SweepReturnsHolds, ReportHolds, ReportedHolds, PrintHolds DEF MainStep
    <2> QED
        BY <2>1, PoolHolds, ArbiterStutterHolds DEF ArbiterNext
<1> QED
    BY <1>1, ArbiterInitHolds, PTL DEF ArbiterSpec

\* Every report carries the metrics of the run it names: main's loops go over the
\* results in the order in which run_many made its jobs.
THEOREM ReportsAreOfTheirRuns == ArbiterSpec => []ReportsNameTheirRuns
<1>1. ASSUME ArbiterInv PROVE ReportsNameTheirRuns
    <2>1. CASE ~Past(FromReport)
        <3>1. reports = <<>>
            BY <1>1, <2>1 DEF ArbiterInv, Reporting
        <3> QED
            BY <3>1 DEF ReportsNameTheirRuns
    <2>2. CASE Past(FromReport)
        <3> SUFFICES ASSUME NEW n \in DOMAIN reports
                     PROVE  /\ reports[n].path = grid.sources[RunOf(reports[n].metrics).source].trace
                            /\ reports[n].config = grid.configs[RunOf(reports[n].metrics).config]
                            /\ reports[n].name
                                 = grid.predictors[RunOf(reports[n].metrics).predictor].name
            BY DEF ReportsNameTheirRuns
        <3>1. /\ Past(FromLoad) /\ Past(FromOpen) /\ Past(FromLaunch) /\ Past(FromSweep)
            BY <2>2 DEF Past, FromSweep, FromReport, FromLoad, FromExpand, FromOpen, FromLaunch
        <3>2. PICK s \in DOMAIN paths, c \in DOMAIN grid.configs, p \in DOMAIN selected :
                n = PlaceOf(grid, s, c, p) /\ reports[n] = ReportOf(s, c, p)
            BY <1>1, <2>2 DEF ArbiterInv, Reporting, LoopsInStep
        <3>3. n \in DOMAIN jobs /\ jobs[n] = [source |-> s, config |-> c, predictor |-> p]
            BY <1>1, <3>1, <3>2, PlacesAreJobs
        <3>4. answer # None /\ answer = slots /\ spoilt = {}
            BY <1>1, <2>2 DEF ArbiterInv, Answered, LaunchedOnce
        <3>5. Owned(answer[n], n)
            BY <1>1, <3>3, <3>4 DEF ArbiterInv, SweepInv, Shape, ResultsAreTheirJobs
        <3> DEFINE work == CHOOSE work \in answer[n].counted : work.part = "run"
        <3>6. work \in answer[n].counted
            BY <3>5 DEF Owned
        <3>7. work.job = n
            BY <3>4, <3>5, <3>6 DEF Owned
        <3>8. RunOf(answer[n]) = jobs[n]
            BY <3>7 DEF RunOf
        <3>9. /\ reports[n].path = paths[s] /\ reports[n].name = selected[p].name
              /\ reports[n].config = ConfigsOf(arguments)[c] /\ reports[n].metrics = answer[n]
            BY <3>2 DEF ReportOf
        <3>10. /\ grid.sources = sources /\ grid.configs = ConfigsOf(arguments)
               /\ grid.predictors = selected
            BY <1>1, <3>1, SweepShape
        <3>11. sources[s] = SourceAt(paths[s])
            BY <1>1, <3>1 DEF ArbiterInv, Prepared
        <3> QED
            BY <3>3, <3>8, <3>9, <3>10, <3>11 DEF SourceAt
    <2> QED
        BY <2>1, <2>2
<1> QED
    BY <1>1, ArbiterInvariance, PTL

\* Different combinations have different places.
LEMMA PlacesDiffer ==
    ASSUME NEW g, Len(g.configs) \in Nat, Len(g.predictors) \in Nat,
           NEW s \in Nat \ {0}, NEW c \in 1..Len(g.configs), NEW p \in 1..Len(g.predictors),
           NEW s2 \in Nat \ {0}, NEW c2 \in 1..Len(g.configs), NEW p2 \in 1..Len(g.predictors),
           PlaceOf(g, s, c, p) = PlaceOf(g, s2, c2, p2)
    PROVE  s = s2 /\ c = c2 /\ p = p2
<1> DEFINE P == Len(g.predictors)
           C == Len(g.configs)
           K == C * P
<1>1. P \in Nat /\ C \in Nat /\ K \in Nat
    BY ProductIsNat
<1>2. Cell(K, s, Cell(P, c, p)) = Cell(K, s2, Cell(P, c2, p2))
    BY DEF PlaceOf
<1>3. Cell(P, c, p) \in 1..C * P /\ Cell(P, c2, p2) \in 1..C * P
    BY CellPlaces
<1>4. c \in 1..C /\ c2 \in 1..C /\ p \in 1..P /\ p2 \in 1..P /\ K = C * P
    OBVIOUS
<1> HIDE DEF P, C, K
<1>5. s = s2 /\ Cell(P, c, p) = Cell(P, c2, p2)
    BY <1>1, <1>2, <1>3, <1>4, CellsDiffer
<1>6. c \in Nat \ {0} /\ c2 \in Nat \ {0}
    BY <1>1, <1>4
<1> QED
    BY <1>1, <1>4, <1>5, <1>6, CellsDiffer

\* When the loops are through, there is a report in every place.
LEMMA EveryPlaceIsReported ==
    ASSUME ArbiterInv, status = "ok",
           NEW s \in DOMAIN paths, NEW c \in DOMAIN grid.configs, NEW p \in DOMAIN selected
    PROVE  /\ PlaceOf(grid, s, c, p) \in DOMAIN reports
           /\ reports[PlaceOf(grid, s, c, p)] = ReportOf(s, c, p)
<1>1. /\ Past(FromLoad) /\ Past(FromOpen) /\ Past(FromLaunch) /\ Past(FromSweep)
      /\ Past(FromReport) /\ Past({"print"})
    BY DEF Past
<1>2. LoopsInStep /\ ~Looping
    BY <1>1 DEF ArbiterInv, Reporting
<1> DEFINE P == Len(selected)
           C == Len(grid.configs)
           S == Len(paths)
<1>3. /\ S \in Nat /\ DOMAIN paths = 1..S /\ C \in Nat /\ DOMAIN grid.configs = 1..C
      /\ P \in Nat /\ DOMAIN selected = 1..P /\ grid.predictors = selected
      /\ Len(jobs) = S * (C * P) /\ DOMAIN jobs = 1..Len(jobs)
    BY <1>1, SweepShape
<1>4. at = [path |-> S + 1, config |-> 1, predictor |-> 1]
    BY <1>2 DEF LoopsInStep, Start
<1>5. Len(reports) + 1 = PlaceOf(grid, S + 1, 1, 1) /\ IsSequence(reports)
    BY <1>2, <1>4 DEF LoopsInStep
<1>6. PlaceOf(grid, S + 1, 1, 1) = S * (C * P) + 1
    <2>1. PlaceOf(grid, S + 1, 1, 1) = Cell(C * P, S + 1, Cell(P, 1, 1))
        BY <1>3 DEF PlaceOf
    <2> HIDE DEF P, C, S
    <2>2. Cell(P, 1, 1) = 1
        BY <1>3, FirstRow
    <2>3. C * P \in Nat /\ S * (C * P) \in Nat
        <3>1. C * P \in Nat
            BY <1>3, ProductIsNat
        <3> QED
            BY <1>3, <3>1, ProductIsNat
    <2>4. Cell(C * P, S + 1, 1) = Cell(C * P, S, C * P) + 1
        BY <1>3, <2>3, NextRow
    <2>5. Cell(C * P, S, C * P) = S * (C * P)
        BY <1>3, <2>3, LastCell
    <2> QED
        BY <2>1, <2>2, <2>4, <2>5
<1>7. Len(reports) = Len(jobs) /\ DOMAIN reports = DOMAIN jobs
    <2>1. Len(jobs) \in Nat
        BY <1>1, SweepShape
    <2>2. Len(jobs) = S * (C * P)
        BY <1>3
    <2> HIDE DEF P, C, S
    <2>3. Len(reports) + 1 = Len(jobs) + 1
        BY <1>5, <1>6, <2>2
    <2>4. Len(reports) \in Nat /\ DOMAIN reports = 1..Len(reports)
        BY <1>5 DEF IsSequence
    <2>5. Len(reports) = Len(jobs)
        BY <2>1, <2>3, <2>4
    <2>6. DOMAIN jobs = 1..Len(jobs)
        BY <1>3
    <2> QED
        BY <2>4, <2>5, <2>6
<1>8. PlaceOf(grid, s, c, p) \in DOMAIN reports
    BY <1>1, <1>7, PlacesAreJobs
<1>9. PICK s2 \in DOMAIN paths, c2 \in DOMAIN grid.configs, p2 \in DOMAIN selected :
        /\ PlaceOf(grid, s, c, p) = PlaceOf(grid, s2, c2, p2)
        /\ reports[PlaceOf(grid, s, c, p)] = ReportOf(s2, c2, p2)
    BY <1>2, <1>8 DEF LoopsInStep
<1>10. s \in Nat \ {0} /\ s2 \in Nat \ {0}
    BY <1>3
<1>11. s = s2 /\ c = c2 /\ p = p2
    BY <1>3, <1>9, <1>10, PlacesDiffer
<1> QED
    BY <1>8, <1>9, <1>11

\* A combination of a warmup and a depth has a configuration of its own, and with
\* a path and a predictor a report of its own.
LEMMA CombinationHasConfig ==
    ASSUME ArbiterInv, Past(FromLoad), Past(FromOpen), Past(FromLaunch), Past(FromSweep),
           NEW x \in DOMAIN arguments.warmups, NEW y \in DOMAIN arguments.speculations
    PROVE  /\ Cell(Len(arguments.speculations), x, y) \in DOMAIN grid.configs
           /\ grid.configs[Cell(Len(arguments.speculations), x, y)]
                = [warmup |-> arguments.warmups[x], speculations |-> arguments.speculations[y]]
<1> DEFINE D == Len(arguments.speculations)
           W == Len(arguments.warmups)
<1>1. arguments \in CommandLine
    BY DEF ArbiterInv, Prepared
<1>2. /\ W \in Nat \ {0} /\ D \in Nat \ {0}
      /\ DOMAIN arguments.warmups = 1..W /\ DOMAIN arguments.speculations = 1..D
      /\ Len(ConfigsOf(arguments)) = W * D
    BY <1>1, ConfigsAreInOrder
<1>3. /\ grid.configs = ConfigsOf(arguments) /\ DOMAIN grid.configs = 1..Len(grid.configs)
    BY SweepShape
<1>4. x \in 1..W /\ y \in 1..D
    BY <1>2
<1>5. ConfigsOf(arguments)[Cell(D, x, y)]
        = [warmup |-> arguments.warmups[x], speculations |-> arguments.speculations[y]]
    BY <1>1, <1>4, ConfigsAreInOrder, Zenon
<1> HIDE DEF W, D
<1>6. Cell(D, x, y) \in 1..W * D
    BY <1>2, <1>4, CellPlaces
<1>7. Cell(D, x, y) \in DOMAIN grid.configs
    BY <1>2, <1>3, <1>6
<1> QED
    BY <1>3, <1>5, <1>7 DEF D

\* Report n is that of path a, predictor b, warmup x and depth y.
ReportIsOf(n, a, b, x, y) ==
    /\ n \in DOMAIN reports
    /\ reports[n].path = paths[a]
    /\ reports[n].name = arguments.predictors[b]
    /\ reports[n].config = [warmup |-> arguments.warmups[x],
                            speculations |-> arguments.speculations[y]]

LEMMA CombinationIsReported ==
    ASSUME ArbiterInv, status = "ok",
           NEW a \in DOMAIN paths, NEW b \in DOMAIN selected,
           NEW x \in DOMAIN arguments.warmups, NEW y \in DOMAIN arguments.speculations,
           NEW n, n = PlaceOf(grid, a, Cell(Len(arguments.speculations), x, y), b)
    PROVE  ReportIsOf(n, a, b, x, y)
<1> DEFINE c == Cell(Len(arguments.speculations), x, y)
<1>1. /\ Past(FromLoad) /\ Past(FromOpen) /\ Past(FromLaunch) /\ Past(FromSweep)
    BY DEF Past
<1>2. selected[b].name = arguments.predictors[b]
    BY <1>1 DEF ArbiterInv, Prepared
<1>3. /\ c \in DOMAIN grid.configs
      /\ grid.configs[c] = [warmup |-> arguments.warmups[x],
                            speculations |-> arguments.speculations[y]]
    BY <1>1, CombinationHasConfig
<1>4. grid.configs = ConfigsOf(arguments)
    BY <1>1, SweepShape
<1> HIDE DEF c
<1>5. n = PlaceOf(grid, a, c, b)
    BY DEF c
<1>6. n \in DOMAIN reports /\ reports[n] = ReportOf(a, c, b)
    BY <1>3, <1>5, EveryPlaceIsReported
<1> QED
    BY <1>2, <1>3, <1>4, <1>6 DEF ReportOf, ReportIsOf

\* The places that have the same as place i, and the reports of a combination.
Alike(seq, i) == {j \in DOMAIN seq : seq[j] = seq[i]}
ReportsLike(text, w, s, name) ==
    {n \in DOMAIN reports :
       /\ reports[n].path = text
       /\ reports[n].name = arguments.predictors[name]
       /\ reports[n].config = [warmup |-> arguments.warmups[w],
                               speculations |-> arguments.speculations[s]]}

\* The reports that say the same are as many as what asks for them.
LEMMA ReportsMatchCombinations ==
    ASSUME ArbiterInv, status = "ok",
           NEW asked \in Asked, NEW w \in DOMAIN arguments.warmups,
           NEW s \in DOMAIN arguments.speculations, NEW name \in DOMAIN arguments.predictors
    PROVE  /\ Opens(Text[asked[2]])
           /\ Cardinality(ReportsLike(Text[asked[2]], w, s, name))
                = Cardinality(AskedAs(Text[asked[2]]) \X Alike(arguments.predictors, name)
                              \X Alike(arguments.warmups, w) \X Alike(arguments.speculations, s))
<1> DEFINE text == Text[asked[2]]
           A == AskedAs(text)
           B == Alike(arguments.predictors, name)
           X == Alike(arguments.warmups, w)
           Y == Alike(arguments.speculations, s)
           R == ReportsLike(text, w, s, name)
<1> USE DEF Alike, ReportsLike
<1>0. PICK place \in [Asked -> DOMAIN paths] :
        /\ \A one, other \in Asked : place[one] = place[other] => one = other
        /\ \A n \in DOMAIN paths : \E one \in Asked : place[one] = n
        /\ \A one \in Asked : paths[place[one]] = Text[one[2]]
    BY DEF ArbiterInv, Prepared, Expanded, Past
<1> DEFINE D == Len(arguments.speculations)
           W == Len(arguments.warmups)
           Spot(q) == PlaceOf(grid, place[q[1]], Cell(D, q[3], q[4]), q[2])
           Q == A \X B \X X \X Y
<1>1. /\ Past(FromLoad) /\ Past(FromOpen) /\ Past(FromLaunch) /\ Past(FromSweep)
      /\ Past(FromReport) /\ LoopsInStep
    BY DEF Past, ArbiterInv, Reporting
<1>2. /\ arguments \in CommandLine /\ \A n \in DOMAIN paths : Opens(paths[n])
      /\ \A i \in DOMAIN selected : selected[i].name = arguments.predictors[i]
      /\ IsSequence(selected) /\ Len(selected) = Len(arguments.predictors)
    BY <1>1 DEF ArbiterInv, Prepared
<1>3. DOMAIN selected = DOMAIN arguments.predictors
    <2>1. arguments.predictors \in Seq(STRING)
        BY <1>2 DEF CommandLine
    <2> QED
        BY <1>2, <2>1 DEF IsSequence
<1>4. /\ W \in Nat \ {0} /\ D \in Nat \ {0}
      /\ DOMAIN arguments.warmups = 1..W /\ DOMAIN arguments.speculations = 1..D
      /\ Len(ConfigsOf(arguments)) = W * D
    BY <1>2, ConfigsAreInOrder
<1>5. /\ DOMAIN paths = 1..Len(paths) /\ Len(paths) \in Nat
      /\ DOMAIN grid.configs = 1..Len(grid.configs) /\ Len(grid.configs) \in Nat
      /\ DOMAIN selected = 1..Len(selected) /\ Len(selected) \in Nat
      /\ grid.predictors = selected /\ grid.configs = ConfigsOf(arguments)
    BY <1>1, SweepShape
<1>6. Opens(text)
    BY <1>0, <1>2
<1>7. \A one \in A : one \in Asked /\ place[one] \in DOMAIN paths /\ paths[place[one]] = text
    BY <1>0 DEF AskedAs
<1> HIDE DEF text, A
<1>8. \A q \in Q : /\ q[1] \in A /\ q[2] \in B /\ q[3] \in X /\ q[4] \in Y
                   /\ q = <<q[1], q[2], q[3], q[4]>>
    OBVIOUS
<1>9. ASSUME NEW q \in Q PROVE Spot(q) \in R
    <2>1. /\ place[q[1]] \in DOMAIN paths /\ q[2] \in DOMAIN selected
          /\ q[3] \in DOMAIN arguments.warmups /\ q[4] \in DOMAIN arguments.speculations
          /\ paths[place[q[1]]] = text
          /\ arguments.predictors[q[2]] = arguments.predictors[name]
          /\ arguments.warmups[q[3]] = arguments.warmups[w]
          /\ arguments.speculations[q[4]] = arguments.speculations[s]
        BY <1>3, <1>8, <1>7
    <2> DEFINE n == Spot(q)
    <2>3. n = PlaceOf(grid, place[q[1]], Cell(Len(arguments.speculations), q[3], q[4]), q[2])
        OBVIOUS
    <2> HIDE DEF Spot, n
    <2>2. ReportIsOf(n, place[q[1]], q[2], q[3], q[4])
        BY <2>1, <2>3, CombinationIsReported
    <2>4. n \in R
        BY <2>1, <2>2 DEF ReportIsOf
    <2> QED
        BY <2>4 DEF n
<1>10. ASSUME NEW q \in Q, NEW r \in Q, Spot(q) = Spot(r) PROVE q = r
    <2>1. /\ place[q[1]] \in DOMAIN paths /\ q[2] \in DOMAIN selected
          /\ q[3] \in DOMAIN arguments.warmups /\ q[4] \in DOMAIN arguments.speculations
          /\ place[r[1]] \in DOMAIN paths /\ r[2] \in DOMAIN selected
          /\ r[3] \in DOMAIN arguments.warmups /\ r[4] \in DOMAIN arguments.speculations
        BY <1>3, <1>8, <1>7
    <2> DEFINE c == Cell(D, q[3], q[4])
               d == Cell(D, r[3], r[4])
    <2>2. c \in DOMAIN grid.configs
        BY <1>1, <2>1, CombinationHasConfig
    <2>3. d \in DOMAIN grid.configs
        BY <1>1, <2>1, CombinationHasConfig
    <2>4. PlaceOf(grid, place[q[1]], c, q[2]) = PlaceOf(grid, place[r[1]], d, r[2])
        BY <1>10
    <2>5. place[q[1]] = place[r[1]] /\ c = d /\ q[2] = r[2]
        <3> HIDE DEF c, d
        <3>1. PICK a1 \in Nat, a2 \in Nat : /\ a1 = place[q[1]] /\ a2 = place[r[1]]
                                            /\ 1 <= a1 /\ 1 <= a2
            <4>1. place[q[1]] \in 1..Len(paths) /\ place[r[1]] \in 1..Len(paths) /\ Len(paths) \in Nat
                BY <1>5, <2>1
            <4> QED
                BY <4>1
        <3>2. PICK b1, b2 : b1 = q[2] /\ b2 = r[2]
            OBVIOUS
        <3>3. PICK C \in Nat, S \in Nat : C = Len(grid.configs) /\ S = Len(grid.predictors)
            BY <1>5
        <3>4. c \in 1..C /\ d \in 1..C /\ b1 \in 1..S /\ b2 \in 1..S
            BY <1>5, <2>1, <2>2, <2>3, <3>2, <3>3
        <3>5. PlaceOf(grid, a1, c, b1) = PlaceOf(grid, a2, d, b2)
            BY <2>4, <3>1, <3>2
        <3>6. a1 = a2 /\ c = d /\ b1 = b2
            BY <1>5, <3>1, <3>3, <3>4, <3>5, PlacesDiffer
        <3> QED
            BY <3>1, <3>2, <3>6
    <2>6. q[3] = r[3] /\ q[4] = r[4]
        <3>1. q[3] \in 1..W /\ r[3] \in 1..W /\ W \in Nat
            BY <1>4, <2>1
        <3>2. q[4] \in 1..D /\ r[4] \in 1..D
            BY <1>4, <2>1
        <3> HIDE DEF D, W
        <3>3. q[3] \in Nat \ {0} /\ r[3] \in Nat \ {0}
            BY <3>1
        <3> QED
            BY <1>4, <2>5, <3>2, <3>3, CellsDiffer
    <2>7. q[1] = r[1]
        BY <1>0, <1>8, <1>7, <2>5
    <2> QED
        BY <1>8, <2>5, <2>6, <2>7
<1>11. ASSUME NEW n \in R PROVE \E q \in Q : Spot(q) = n
    <2>1. PICK s2 \in DOMAIN paths, c2 \in DOMAIN grid.configs, p2 \in DOMAIN selected :
            n = PlaceOf(grid, s2, c2, p2)
        BY <1>1, <1>11 DEF LoopsInStep
    <2>2. PICK x \in 1..W, y \in 1..D : c2 = Cell(D, x, y)
        <3>1. c2 \in 1..W * D
            BY <1>4, <1>5
        <3> HIDE DEF W, D
        <3> QED
            BY <1>4, <3>1, CellsCover
    <2>3. ReportIsOf(n, s2, p2, x, y)
        <3>1. x \in DOMAIN arguments.warmups /\ y \in DOMAIN arguments.speculations
            BY <1>4
        <3>2. n = PlaceOf(grid, s2, Cell(Len(arguments.speculations), x, y), p2)
            BY <2>1, <2>2
        <3> QED
            BY <3>1, <3>2, CombinationIsReported
    <2>4. /\ reports[n].path = text
          /\ reports[n].name = arguments.predictors[name]
          /\ reports[n].config = [warmup |-> arguments.warmups[w],
                                  speculations |-> arguments.speculations[s]]
        BY <1>11
    <2>5. p2 \in B
        BY <1>3, <2>3, <2>4 DEF ReportIsOf
    <2>6. PICK one \in Asked : place[one] = s2
        BY <1>0
    <2>7. one \in A
        <3>1. Text[one[2]] = text
            BY <1>0, <2>3, <2>4, <2>6 DEF ReportIsOf
        <3> QED
            BY <3>1 DEF A, AskedAs
    <2>8. x \in X /\ y \in Y
        BY <1>4, <2>3, <2>4 DEF ReportIsOf
    <2>9. <<one, p2, x, y>> \in Q
        BY <2>5, <2>8, <2>7
    <2>10. Spot(<<one, p2, x, y>>) = n
        BY <2>1, <2>2, <2>6
    <2> QED
        BY <2>9, <2>10
<1>12. IsFiniteSet(R)
    <2>1. Len(reports) \in Nat /\ DOMAIN reports = 1..Len(reports)
        BY <1>1 DEF LoopsInStep, IsSequence
    <2>2. IsFiniteSet(1..Len(reports))
        BY <2>1, FS_Interval
    <2>3. R \subseteq 1..Len(reports)
        BY <2>1
    <2> QED
        BY <2>2, <2>3, FS_Subset
<1> DEFINE f == [q \in Q |-> Spot(q)]
<1>13. f \in [Q -> R]
    BY <1>9
<1>14. \A q, r \in Q : f[q] = f[r] => q = r
    BY <1>10
<1>15. \A n \in R : \E q \in Q : f[q] = n
    BY <1>11
<1> HIDE DEF f, Q
<1>16. Cardinality(Q) = Cardinality(R)
    BY <1>12, <1>13, <1>14, <1>15, OneToOneCounts
<1> QED
    BY <1>16, <1>6 DEF Q, A, text

\* An error has run nothing, and a success has opened and reported every trace that
\* the arguments stand for, under every combination, however often paths, warmups,
\* depths or names are repeated: one report for each time.
THEOREM AllCombinationsOrNone == ArbiterSpec => []AllOrNothing
<1>1. ASSUME ArbiterInv PROVE AllOrNothing
    <2>1. status = "error" => calls = 0
        BY <1>1 DEF ArbiterInv, StatusMatchesStage, LaunchedOnce, NothingRuns, Past, FromSweep,
           FromReport
    <2>2. ASSUME status = "ok", NEW n \in DOMAIN reports
          PROVE  AskedAs(reports[n].path) # {}
        <3>1. Past(FromReport) /\ Past(FromOpen)
            BY <2>2 DEF Past
        <3>2. PICK s \in DOMAIN paths, c \in DOMAIN grid.configs, p \in DOMAIN selected :
                reports[n] = ReportOf(s, c, p)
            BY <1>1, <2>2, <3>1 DEF ArbiterInv, Reporting, LoopsInStep
        <3>3. reports[n].path = paths[s]
            BY <3>2 DEF ReportOf
        <3>4. \E asked \in Asked : Text[asked[2]] = paths[s]
            BY <1>1, <3>1 DEF ArbiterInv, Prepared, Expanded
        <3> QED
            BY <3>3, <3>4 DEF AskedAs
    <2>3. ASSUME status = "ok",
                 NEW asked \in Asked, NEW w \in DOMAIN arguments.warmups,
                 NEW s \in DOMAIN arguments.speculations,
                 NEW name \in DOMAIN arguments.predictors
          PROVE  LET text == Text[asked[2]]
                     Same(seq, i) == {j \in DOMAIN seq : seq[j] = seq[i]}
                 IN  /\ Opens(text)
                     /\ Cardinality({n \in DOMAIN reports :
                           /\ reports[n].path = text
                           /\ reports[n].name = arguments.predictors[name]
                           /\ reports[n].config =
                                [warmup |-> arguments.warmups[w],
                                 speculations |-> arguments.speculations[s]]})
                          = Cardinality(AskedAs(text) \X Same(arguments.predictors, name)
                                        \X Same(arguments.warmups, w)
                                        \X Same(arguments.speculations, s))
        <3>1. /\ Opens(Text[asked[2]])
              /\ Cardinality(ReportsLike(Text[asked[2]], w, s, name))
                   = Cardinality(AskedAs(Text[asked[2]]) \X Alike(arguments.predictors, name)
                                 \X Alike(arguments.warmups, w)
                                 \X Alike(arguments.speculations, s))
            BY <1>1, <2>3, ReportsMatchCombinations
        <3> QED
            BY <3>1, Zenon DEF ReportsLike, Alike
    <2> QED
        BY <2>1, <2>2, <2>3, Zenon DEF AllOrNothing
<1> QED
    BY <1>1, ArbiterInvariance, PTL

=============================================================================
