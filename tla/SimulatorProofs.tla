--------------------------- MODULE SimulatorProofs ---------------------------
(***************************************************************************)
(* A run trains exactly once and in order, with the promised lag, meters   *)
(* exactly the scored records and reports coherent counts, for every       *)
(* trace, warmup, depth, cost table and predictor.                         *)
(*                                                                         *)
(* None of this is inductive by itself.  The order of training follows     *)
(* from where every fetched record stands (Positions); that the update in  *)
(* progress in the metered loop is of a metered record, from the drain     *)
(* that emptied the queue at the boundary (PhaseKnows); and the counts of  *)
(* a finished run from what was scored in each phase (Counting).           *)
(***************************************************************************)
EXTENDS Reports, Lemmas, FiniteSetTheorems

\* Every fetched record is trained on, in update, queued or in predict, each of
\* them at the place its position gives it.
Positions ==
    phase # "idle" =>
      LET updating == One(call.fn = "update")
      IN  /\ Len(made) = Len(trained) + updating + Len(queue)
          /\ fetched = Len(made) + One(call.fn = "predict")
          /\ call.fn = "predict" => call.at = fetched
          /\ call.fn = "update" => call.at = Len(trained) + 1
          /\ \A i \in 1..Len(trained) : trained[i] = i
          /\ \A i \in 1..Len(queue) : queue[i] = Len(trained) + updating + i

\* The queue is bounded, and full while the feed makes room in it.
QueueBounded ==
    phase # "idle" =>
      /\ Len(queue) <= config.speculations
      /\ call.fn = "update" /\ phase \in {"warmup", "metered"} =>
           Len(queue) = config.speculations

CallsMatchPhase ==
    /\ call.fn = "none" => call = NoCall
    /\ phase = "idle" => call.fn = "none" /\ queue = <<>>
    /\ phase = "unwinding" => call.fn # "none"
    /\ phase \in {"boundary", "final"} => call.fn # "predict"
    /\ phase # "idle" => result = None

\* What each phase of run_one may rely on.
PhaseKnows ==
    /\ phase \in {"warmup", "boundary"} =>
         fetched <= config.warmup /\ ~ledger.charging
    /\ phase = "boundary" => fetched = config.warmup \/ fetched = Len(trace)
    /\ phase \in {"metered", "final"} =>
         /\ ledger.charging
         /\ Len(trained) >= config.warmup \/ Len(trained) = Len(trace)
    /\ phase = "final" => fetched = Len(trace)

Scored(predictions) ==
    ledger.metrics.total_predictions = carried.metrics.total_predictions + predictions

Counting ==
    /\ phase \in {"warmup", "boundary"} => Scored(0)
    /\ phase \in {"metered", "final"} => Scored(Greater(Len(made) - config.warmup, 0))

IInv ==
    /\ TypeOK
    /\ Positions
    /\ QueueBounded
    /\ CallsMatchPhase
    /\ PhaseKnows
    /\ Counting
    /\ GroupsBelongToCallback
    /\ ReportsAreCoherent
    /\ WarmupLeavesNoTrace
    /\ FinishedRunIsComplete
    /\ ScoresMatchOutcomes

(***************************************************************************)
(* Facts the steps share.                                                  *)
(***************************************************************************)
LEMMA Shape ==
    ASSUME TypeOK
    PROVE  /\ Len(trace) \in Nat /\ Len(queue) \in Nat
           /\ Len(trained) \in Nat /\ Len(made) \in Nat
           /\ fetched \in Nat /\ fetched <= Len(trace)
           /\ config.warmup \in Nat /\ config.speculations \in Nat
           /\ call.at \in Nat /\ call.work \in Nat /\ call.groups \in Nat
BY DEF TypeOK, Config, Calls

LEMMA TallyDecides ==
    ASSUME NEW m, NEW k, Tally(m) = Tally(k)
    PROVE  /\ m.total_predictions = k.total_predictions
           /\ m.direction_hits = k.direction_hits
           /\ m.target_hits = k.target_hits
           /\ m.total_hits = k.total_hits
           /\ Coherent(m) => Coherent(k)
BY DEF Tally, Coherent

\* A step that moves none of the run's three counters is no step of Pipeline.
LEMMA Stutter ==
    ASSUME phase = "idle" <=> phase' = "idle",
           UNCHANGED <<config, trace, made, trained, result, carried>>,
           ledger'.metrics.total_predictions = ledger.metrics.total_predictions
    PROVE  [Promise!Next]_(Promise!vars)
BY DEF Promise!vars, JobOf

\* A step that adds no outcome and moves no count leaves the hits as they are.
LEMMA ScoresKept ==
    ASSUME ScoresMatchOutcomes,
           made' = made, config' = config, trace' = trace, carried' = carried,
           \/ phase' = "idle"
           \/ phase # "idle" /\ Tally(ledger'.metrics) = Tally(ledger.metrics),
           \/ result' = None
           \/ result' = result
           \/ phase # "idle" /\ result' = ledger.metrics
    PROVE  ScoresMatchOutcomes'
<1>1. DirectionHits' = DirectionHits /\ TargetHits' = TargetHits /\ ExactHits' = ExactHits
  BY DEF DirectionHits, TargetHits, ExactHits, AfterWarmup
<1>2. carried' = carried
  OBVIOUS
<1>3. phase' # "idle" => HitsMatch(ledger.metrics)'
  <2> SUFFICES ASSUME phase' # "idle" PROVE HitsMatch(ledger.metrics)'
    OBVIOUS
  <2>1. HitsMatch(ledger.metrics)
    BY DEF ScoresMatchOutcomes
  <2>2. /\ ledger.metrics.direction_hits = ledger'.metrics.direction_hits
        /\ ledger.metrics.target_hits = ledger'.metrics.target_hits
        /\ ledger.metrics.total_hits = ledger'.metrics.total_hits
    BY DEF Tally
  <2> QED
    BY <1>1, <1>2, <2>1, <2>2 DEF HitsMatch
<1>4. result' # None => HitsMatch(result)'
  <2> SUFFICES ASSUME result' # None PROVE HitsMatch(result)'
    OBVIOUS
  <2>1. CASE result' = result
    BY <1>1, <1>2, <2>1 DEF ScoresMatchOutcomes, HitsMatch
  <2>2. CASE phase # "idle" /\ result' = ledger.metrics
    BY <1>1, <1>2, <2>2 DEF ScoresMatchOutcomes, HitsMatch
  <2> QED
    BY <2>1, <2>2
<1> QED
  BY <1>3, <1>4 DEF ScoresMatchOutcomes

(***************************************************************************)
(* The steps of run_one.                                                   *)
(***************************************************************************)
LEMMA InvInit == Init => IInv /\ Promise!Init
<1> SUFFICES ASSUME Init PROVE IInv /\ Promise!Init
  OBVIOUS
<1>1. TypeOK
  BY NewLedgerType
  DEF Init, TypeOK, Phases, Config, Calls, NoCall, Costs, NoCosts, Cost
<1>2. Positions /\ QueueBounded /\ CallsMatchPhase /\ PhaseKnows /\ Counting
  BY DEF Init, Positions, QueueBounded, CallsMatchPhase, PhaseKnows, Counting, NoCall
<1>3. GroupsBelongToCallback
  BY NewLedgerType DEF Init, GroupsBelongToCallback, NoCall
<1>4. ReportsAreCoherent /\ WarmupLeavesNoTrace /\ FinishedRunIsComplete
  BY DEF Init, ReportsAreCoherent, Coherent, NewLedger, NoMetrics,
         WarmupLeavesNoTrace, FinishedRunIsComplete
<1>5. Promise!Init
  BY DEF Init, Promise!Init, NewLedger, NoMetrics
<1>6. ScoresMatchOutcomes
  BY DEF Init, ScoresMatchOutcomes
<1> QED
  BY <1>1, <1>2, <1>3, <1>4, <1>5, <1>6 DEF IInv

LEMMA StartStep ==
    ASSUME IInv, NEW source \in Traces, NEW chosen \in Configs,
           NEW table \in CostTables, NEW area \in Areas,
           Start(source, chosen, table, area)
    PROVE  IInv' /\ [Promise!Next]_(Promise!vars)
<1> DEFINE stocked == Storage(ledger, area)
<1>1. /\ phase = "idle"
      /\ costs' = table
      /\ carried' = ledger
      /\ ledger' = Turn(stocked, FALSE)
      /\ phase' = "warmup"
      /\ trace' = source
      /\ config' = chosen
      /\ fetched' = 0
      /\ queue' = <<>>
      /\ runs' = runs + 1
      /\ result' = None
      /\ made' = <<>>
      /\ trained' = <<>>
      /\ call' = call
  BY DEF Start
<1>2. ledger \in LedgerType /\ area \in Nat /\ call = NoCall
  BY <1>1, DelaysAssumption DEF IInv, TypeOK, CallsMatchPhase
<1>3. /\ stocked \in LedgerType
      /\ stocked.overlaps = ledger.overlaps
      /\ stocked.charged = ledger.charged
      /\ stocked.leakage = ledger.leakage
      /\ Tally(stocked.metrics) = Tally(ledger.metrics)
  BY <1>2, StorageEffect
<1> HIDE DEF stocked
<1>4. /\ ledger' \in LedgerType
      /\ ledger'.overlaps = ledger.overlaps
      /\ ledger'.metrics = stocked.metrics
      /\ ledger'.charged = ledger.charged
      /\ ledger'.leakage = ledger.leakage
      /\ ledger'.charging = FALSE
  BY <1>1, <1>3, TurnEffect
<1>5. /\ Coherent(ledger'.metrics)
      /\ ledger'.metrics.total_predictions = ledger.metrics.total_predictions
  BY <1>3, <1>4, TallyDecides DEF IInv, ReportsAreCoherent
<1>6. ledger.metrics.total_predictions \in Nat
  BY <1>2 DEF LedgerType, Metrics
<1>7. /\ trace' \in Seq(Record) /\ Len(trace') \in Nat
      /\ config' \in Config /\ config'.warmup \in Nat /\ config'.speculations \in Nat
      /\ costs' \in Costs
  BY <1>1, CostTablesAssumption, TracesAssumption, ConfigsAssumption DEF Config
<1>8. /\ queue' \in Seq(1..Len(trace')) /\ Len(queue') = 0
      /\ trained' \in Seq(1..Len(trace')) /\ Len(trained') = 0
      /\ made' \in Seq(Seq(Stage)) /\ Len(made') = 0
  BY <1>1, EmptySeq
<1>9. TypeOK'
  <2>1. /\ call' \in Calls /\ call'.fn = "none"
        /\ carried' \in LedgerType /\ runs' \in Nat
        /\ result' \in Metrics \cup {None}
        /\ phase' \in Phases
        /\ fetched' \in 0..Len(trace')
    BY <1>1, <1>2, <1>7 DEF IInv, TypeOK, NoCall, Phases
  <2> QED
    BY <1>4, <1>7, <1>8, <2>1 DEF TypeOK
<1>10. call' = NoCall /\ call'.fn = "none" /\ call'.groups = 0
  BY <1>1, <1>2 DEF NoCall
<1>11. phase' = "warmup" /\ fetched' = 0 /\ carried' = ledger /\ result' = None
  BY <1>1
<1>12. Positions' /\ QueueBounded' /\ CallsMatchPhase' /\ PhaseKnows'
  BY <1>4, <1>7, <1>8, <1>10, <1>11
  DEF Positions, QueueBounded, CallsMatchPhase, PhaseKnows, One
<1>13. Counting'
  <2>1. Scored(0)'
    BY <1>5, <1>6, <1>11 DEF Scored
  <2> QED
    BY <1>11, <2>1 DEF Counting
<1>14. GroupsBelongToCallback' /\ ReportsAreCoherent' /\ FinishedRunIsComplete'
  BY <1>1, <1>4, <1>5
  DEF IInv, GroupsBelongToCallback, ReportsAreCoherent, FinishedRunIsComplete
<1>15. WarmupLeavesNoTrace'
  BY <1>1, <1>4 DEF WarmupLeavesNoTrace, stocked
<1>16. Promise!Begin(JobOf(source, chosen))
  <2>1. phase = "idle" /\ trace' = source /\ config' = chosen
    BY <1>1
  <2> QED
    BY <1>5, <1>6, <1>8, <1>11, <2>1 DEF Promise!Begin, JobOf
<1>17. Promise!Next
  BY <1>16 DEF Promise!Next
<1>18. ScoresMatchOutcomes'
  <2>1. DirectionHits' = {} /\ TargetHits' = {} /\ ExactHits' = {}
    <3>1. DOMAIN made' = {}
      BY <1>1
    <3> QED
      BY <3>1 DEF DirectionHits, TargetHits, ExactHits, AfterWarmup
  <2>2. Cardinality({}) = 0
    BY FS_EmptySet
  <2>3. Tally(ledger'.metrics) = Tally(ledger.metrics) /\ carried' = ledger /\ result' = None
    BY <1>1, <1>3, <1>4
  <2>4. /\ ledger.metrics.direction_hits \in Nat
        /\ ledger.metrics.target_hits \in Nat
        /\ ledger.metrics.total_hits \in Nat
    BY <1>2 DEF LedgerType, Metrics
  <2>5. /\ ledger'.metrics.direction_hits = carried'.metrics.direction_hits + 0
        /\ ledger'.metrics.target_hits = carried'.metrics.target_hits + 0
        /\ ledger'.metrics.total_hits = carried'.metrics.total_hits + 0
    BY <2>3, <2>4 DEF Tally
  <2> QED
    BY <2>1, <2>2, <2>3, <2>5 DEF ScoresMatchOutcomes, HitsMatch
<1> QED
  BY <1>9, <1>12, <1>13, <1>14, <1>15, <1>17, <1>18 DEF IInv

LEMMA FetchStep ==
    ASSUME IInv, FetchWarmup \/ FetchMetered
    PROVE  IInv' /\ [Promise!Next]_(Promise!vars)
<1>1. /\ phase \in {"warmup", "metered"}
      /\ call.fn = "none"
      /\ phase = "warmup" => fetched < config.warmup
      /\ fetched < Len(trace)
      /\ fetched' = fetched + 1
      /\ call' = Callback("predict", fetched + 1)
      /\ UNCHANGED <<ledger, costs, phase, config, trace, queue, result, runs,
                     carried, made, trained>>
  BY DEF FetchWarmup, FetchMetered, Fetch, Idle
<1>2. /\ call'.fn = "predict" /\ call'.at = fetched + 1 /\ call'.groups = 0
      /\ call' \in Calls
  BY <1>1, Shape, BoundsAssumption DEF Callback, Calls, IInv
<1>3. TypeOK'
  BY <1>1, <1>2, Shape DEF IInv, TypeOK
<1>4. Positions' /\ QueueBounded' /\ CallsMatchPhase'
  BY <1>1, <1>2, Shape
  DEF IInv, Positions, QueueBounded, CallsMatchPhase, One
<1>5. PhaseKnows' /\ Counting'
  BY <1>1, <1>2, Shape DEF IInv, PhaseKnows, Counting, Scored
<1>6. /\ GroupsBelongToCallback' /\ ReportsAreCoherent'
      /\ WarmupLeavesNoTrace' /\ FinishedRunIsComplete'
  BY <1>1, <1>2
  DEF IInv, CallsMatchPhase, GroupsBelongToCallback, ReportsAreCoherent,
      WarmupLeavesNoTrace, FinishedRunIsComplete, NoCall
<1>7. [Promise!Next]_(Promise!vars)
  BY <1>1, Stutter
<1>8. ScoresMatchOutcomes'
  <2>1. ScoresMatchOutcomes
    BY DEF IInv
  <2>2. UNCHANGED <<made, config, trace, carried>>
    BY <1>1
  <2>3. phase # "idle" /\ Tally(ledger'.metrics) = Tally(ledger.metrics) /\ result' = result
    BY <1>1
  <2> QED
    BY <2>1, <2>2, <2>3, ScoresKept
<1> QED
  BY <1>3, <1>4, <1>5, <1>6, <1>7, <1>8 DEF IInv

\* The warmup loop and the metered loop end, and metering begins, without a
\* change of position.
LEMMA GotoStep ==
    ASSUME IInv, LeaveWarmup \/ BeginMetered \/ LeaveMetered
    PROVE  IInv' /\ [Promise!Next]_(Promise!vars)
<1>1. /\ call.fn = "none"
      /\ \/ /\ phase = "warmup" /\ phase' = "boundary" /\ ledger' = ledger
            /\ fetched = config.warmup \/ fetched = Len(trace)
         \/ /\ phase = "boundary" /\ phase' = "metered" /\ queue = <<>>
            /\ ledger' = Turn(ledger, TRUE)
         \/ /\ phase = "metered" /\ phase' = "final" /\ ledger' = ledger
            /\ fetched = Len(trace)
      /\ UNCHANGED <<costs, config, trace, fetched, queue, call, result, runs,
                     carried, made, trained>>
  BY DEF LeaveWarmup, BeginMetered, LeaveMetered, Goto, Idle
<1>2. ledger \in LedgerType
  BY DEF IInv, TypeOK
<1>3. /\ ledger' \in LedgerType
      /\ ledger'.overlaps = ledger.overlaps
      /\ ledger'.metrics = ledger.metrics
      /\ ledger'.charged = ledger.charged
      /\ ledger'.leakage = ledger.leakage
      /\ phase' = "metered" => ledger'.charging
      /\ phase' # "metered" => ledger'.charging = ledger.charging
  BY <1>1, <1>2, TurnEffect
<1>4. TypeOK'
  BY <1>1, <1>3 DEF IInv, TypeOK, Phases
<1>5. Positions' /\ QueueBounded' /\ CallsMatchPhase'
  BY <1>1, Shape DEF IInv, Positions, QueueBounded, CallsMatchPhase
<1>6. PhaseKnows'
  <2>1. phase' = "metered" => Len(trained) = fetched
    <3>1. phase' = "metered" => queue = <<>> /\ Len(queue) = 0 /\ phase # "idle"
      BY <1>1, EmptySeq
    <3> QED
      BY <1>1, <3>1, Shape DEF IInv, Positions, One
  <2> QED
    BY <1>1, <1>3, <2>1, Shape DEF IInv, PhaseKnows
<1>7. Counting'
  <2>1. CASE phase' = "metered"
    <3>1. Len(made) <= config.warmup /\ Scored(0)
      BY <1>1, <2>1, Shape DEF IInv, Positions, PhaseKnows, Counting, One
    <3>2. Greater(Len(made) - config.warmup, 0) = 0
      BY <3>1, Shape DEF IInv, Greater
    <3> QED
      BY <1>1, <1>3, <2>1, <3>1, <3>2 DEF Counting, Scored
  <2>2. CASE phase' # "metered"
    BY <1>1, <1>3, <2>2 DEF IInv, Counting, Scored
  <2> QED
    BY <2>1, <2>2
<1>8. /\ GroupsBelongToCallback' /\ ReportsAreCoherent'
      /\ WarmupLeavesNoTrace' /\ FinishedRunIsComplete'
  BY <1>1, <1>3
  DEF IInv, GroupsBelongToCallback, ReportsAreCoherent, CallsMatchPhase,
      WarmupLeavesNoTrace, FinishedRunIsComplete
<1>9. [Promise!Next]_(Promise!vars)
  BY <1>1, <1>3, Stutter
<1>10. ScoresMatchOutcomes'
  BY <1>1, <1>3, ScoresKept DEF IInv
<1> QED
  BY <1>4, <1>5, <1>6, <1>7, <1>8, <1>9, <1>10 DEF IInv

\* What leaves a queue at its head leaves the rest one position further on.
LEMMA HeadLeaves ==
    ASSUME NEW n \in Nat, NEW q \in Seq(1..n), q # <<>>, NEW t \in Nat,
           \A i \in 1..Len(q) : q[i] = t + i
    PROVE  /\ Len(q) > 0
           /\ Head(q) = t + 1
           /\ Head(q) \in 1..n
           /\ Tail(q) \in Seq(1..n)
           /\ Len(Tail(q)) = Len(q) - 1
           /\ \A i \in 1..Len(Tail(q)) : Tail(q)[i] = t + 1 + i
<1>1. Len(q) \in Nat /\ Len(q) > 0
  BY EmptySeq
<1>2. Head(q) = q[1]
  OBVIOUS
<1>3. /\ Tail(q) \in Seq(1..n)
      /\ Len(Tail(q)) = Len(q) - 1
      /\ \A i \in 1..Len(Tail(q)) : Tail(q)[i] = q[i + 1]
  BY HeadTailProperties
<1>4. \A i \in 1..(Len(q) - 1) : i + 1 \in 1..Len(q)
  BY <1>1
<1> QED
  BY <1>1, <1>2, <1>3, <1>4

LEMMA DrainStep ==
    ASSUME IInv, Drain
    PROVE  IInv' /\ [Promise!Next]_(Promise!vars)
<1>1. /\ phase \in {"boundary", "final"} /\ call.fn = "none" /\ queue # <<>>
      /\ call' = Callback("update", Head(queue))
      /\ queue' = Tail(queue)
      /\ UNCHANGED <<ledger, costs, phase, config, trace, fetched, result, runs,
                     carried, made, trained>>
  BY DEF Drain, Idle
<1>2. queue \in Seq(1..Len(trace))
  BY DEF IInv, TypeOK
<1>3. /\ Len(made) = Len(trained) + Len(queue)
      /\ fetched = Len(made)
      /\ \A i \in 1..Len(trained) : trained[i] = i
      /\ \A i \in 1..Len(queue) : queue[i] = Len(trained) + i
      /\ Len(queue) <= config.speculations
  BY <1>1, Shape DEF IInv, Positions, QueueBounded, One
<1>4. /\ Head(queue) = Len(trained) + 1 /\ Head(queue) \in 1..Len(trace)
      /\ queue' \in Seq(1..Len(trace))
      /\ Len(queue') = Len(queue) - 1
      /\ \A i \in 1..Len(queue') : queue'[i] = Len(trained) + 1 + i
  <2>1. /\ Len(trace) \in Nat /\ Len(trained) \in Nat
        /\ queue # <<>>
        /\ \A i \in 1..Len(queue) : queue[i] = Len(trained) + i
    BY <1>1, <1>3, Shape DEF IInv
  <2>2. /\ Head(queue) = Len(trained) + 1
        /\ Head(queue) \in 1..Len(trace)
        /\ Tail(queue) \in Seq(1..Len(trace))
        /\ Len(Tail(queue)) = Len(queue) - 1
        /\ \A i \in 1..Len(Tail(queue)) : Tail(queue)[i] = Len(trained) + 1 + i
    BY <1>2, <2>1, HeadLeaves
  <2> QED
    BY <1>1, <2>2
<1>5. /\ call' \in Calls /\ call'.fn = "update" /\ call'.groups = 0
      /\ call'.at = Len(trained) + 1 /\ call'.at \in 1..Len(trace)
  BY <1>1, <1>4, Shape, BoundsAssumption DEF Callback, Calls, IInv
<1>6. TypeOK'
  BY <1>1, <1>4, <1>5 DEF IInv, TypeOK
<1>7. Positions' /\ QueueBounded' /\ CallsMatchPhase'
  <2>1. UNCHANGED <<phase, config, fetched, result, made, trained>>
    BY <1>1
  <2>2. Positions'
    <3>1. One(call'.fn = "update") = 1 /\ One(call'.fn = "predict") = 0
      BY <1>5 DEF One
    <3>2. /\ Len(made') = Len(trained') + 1 + Len(queue')
          /\ fetched' = Len(made') + 0
      <4>1. /\ Len(queue') = Len(queue) - 1 /\ Len(made') = Len(made)
            /\ Len(trained') = Len(trained) /\ fetched' = fetched
        BY <1>4, <2>1
      <4>2. /\ Len(made) \in Nat /\ Len(trained) \in Nat /\ Len(queue) \in Nat
            /\ fetched \in Nat
        BY Shape DEF IInv
      <4>3. Len(made) = Len(trained) + Len(queue) /\ fetched = Len(made)
        BY <1>3
      <4> QED
        BY <4>1, <4>2, <4>3
    <3>3. \A i \in 1..Len(trained') : trained'[i] = i
      BY <1>3, <2>1
    <3>4. /\ \A i \in 1..Len(queue') : queue'[i] = Len(trained') + 1 + i
          /\ call'.at = Len(trained') + 1
      BY <1>4, <1>5, <2>1
    <3> QED
      BY <1>5, <3>1, <3>2, <3>3, <3>4 DEF Positions
  <2>3. QueueBounded' /\ CallsMatchPhase'
    <3>1. Len(queue') = Len(queue) - 1 /\ Len(queue) \in Nat /\ config.speculations \in Nat
      BY <1>4, Shape DEF IInv
    <3>2. QueueBounded'
      BY <1>1, <1>3, <2>1, <3>1 DEF QueueBounded
    <3>3. CallsMatchPhase'
      BY <1>1, <1>5, <2>1 DEF IInv, CallsMatchPhase
    <3> QED
      BY <3>2, <3>3
  <2> QED
    BY <2>2, <2>3
<1>8. PhaseKnows' /\ Counting'
  BY <1>1 DEF IInv, PhaseKnows, Counting, Scored
<1>9. /\ GroupsBelongToCallback' /\ ReportsAreCoherent'
      /\ WarmupLeavesNoTrace' /\ FinishedRunIsComplete'
  BY <1>1, <1>5
  DEF IInv, CallsMatchPhase, GroupsBelongToCallback, ReportsAreCoherent,
      WarmupLeavesNoTrace, FinishedRunIsComplete, NoCall
<1>10. [Promise!Next]_(Promise!vars)
  BY <1>1, Stutter
<1>11. ScoresMatchOutcomes'
  BY <1>1, ScoresKept DEF IInv
<1> QED
  BY <1>6, <1>7, <1>8, <1>9, <1>10, <1>11 DEF IInv

LEMMA FinishStep ==
    ASSUME IInv, Finish
    PROVE  IInv' /\ [Promise!Next]_(Promise!vars)
<1>1. /\ phase = "final" /\ call.fn = "none" /\ queue = <<>>
      /\ result' = ledger.metrics
      /\ ledger' = NewLedger
      /\ phase' = "idle"
      /\ UNCHANGED <<costs, config, trace, fetched, queue, call, runs, carried,
                     made, trained>>
  BY DEF Finish, Idle
<1>2. ledger \in LedgerType /\ ledger.metrics \in Metrics
  BY DEF IInv, TypeOK, LedgerType
<1>3. /\ Len(trained) = Len(trace) /\ Len(made) = Len(trace) /\ fetched = Len(trace)
      /\ \A i \in 1..Len(trained) : trained[i] = i
  <2>1. Len(queue) = 0
    BY <1>1, EmptySeq
  <2> QED
    BY <1>1, <2>1, Shape DEF IInv, Positions, PhaseKnows, One
<1>4. trained = [i \in 1..Len(trace) |-> i]
  BY <1>3 DEF IInv, TypeOK
<1>5. call' = NoCall
  BY <1>1 DEF IInv, CallsMatchPhase
<1>6. TypeOK'
  BY <1>1, <1>2, NewLedgerType DEF IInv, TypeOK, Phases
<1>7. Positions' /\ QueueBounded' /\ CallsMatchPhase' /\ PhaseKnows' /\ Counting'
  BY <1>1, <1>5
  DEF Positions, QueueBounded, CallsMatchPhase, PhaseKnows, Counting, NoCall
<1>8. /\ GroupsBelongToCallback' /\ ReportsAreCoherent' /\ WarmupLeavesNoTrace'
  <2>1. Len(ledger'.overlaps) = 0 /\ call'.groups = 0
    BY <1>1, <1>5, NewLedgerType, EmptySeq DEF NoCall
  <2>2. Coherent(ledger'.metrics) /\ Coherent(result')
    BY <1>1 DEF IInv, ReportsAreCoherent, Coherent, NewLedger, NoMetrics
  <2> QED
    BY <1>1, <2>1, <2>2
    DEF GroupsBelongToCallback, ReportsAreCoherent, WarmupLeavesNoTrace
<1>9. result'.total_predictions
        = carried.metrics.total_predictions + Greater(Len(trace) - config.warmup, 0)
  BY <1>1, <1>3 DEF IInv, Counting, Scored
<1>10. FinishedRunIsComplete'
  BY <1>1, <1>4, <1>9 DEF FinishedRunIsComplete
<1>11. Promise!End
  <2>1. JobOf(trace, config) # None
    BY NoneIsNothing, Shape DEF IInv, JobOf
  <2>2. /\ (IF result' = None THEN ledger'.metrics ELSE result').total_predictions
             = ledger.metrics.total_predictions
        /\ result = None
    BY <1>1, <1>2, NoneIsNothing DEF IInv, CallsMatchPhase
  <2> QED
    BY <1>1, <1>3, <2>1, <2>2 DEF Promise!End, JobOf
<1>12. ScoresMatchOutcomes'
  <2>1. HitsMatch(ledger.metrics)
    BY <1>1 DEF IInv, ScoresMatchOutcomes
  <2>2. DirectionHits' = DirectionHits /\ TargetHits' = TargetHits /\ ExactHits' = ExactHits
    BY <1>1 DEF DirectionHits, TargetHits, ExactHits, AfterWarmup
  <2>3. carried' = carried /\ result' = ledger.metrics /\ phase' = "idle"
    BY <1>1
  <2>4. HitsMatch(result)'
    BY <2>1, <2>2, <2>3 DEF HitsMatch
  <2> QED
    BY <2>3, <2>4 DEF ScoresMatchOutcomes
<1> QED
  BY <1>6, <1>7, <1>8, <1>10, <1>11, <1>12 DEF IInv, Promise!Next, Promise!Advance

(***************************************************************************)
(* Scoring.                                                                *)
(***************************************************************************)

\* Stage j of an outcome counts rather than stage i.
Beats(outcome, j, i) ==
    \/ outcome[j].delay > outcome[i].delay
    \/ outcome[j].delay = outcome[i].delay /\ j > i

\* Every outcome with a stage has one that counts.  Among the finite sets of
\* stages that beat a given one some set is minimal, and it is empty: a member
\* would have fewer above it.
LEMMA FinalStage ==
    ASSUME NEW outcome \in Seq(Stage), outcome # <<>>
    PROVE  /\ Final(outcome) \in Stage
           /\ \E i \in 1..Len(outcome) :
                /\ Final(outcome) = outcome[i]
                /\ \A j \in 1..Len(outcome) : ~Beats(outcome, j, i)
<1> DEFINE D == 1..Len(outcome)
           Above(i) == {j \in D : Beats(outcome, j, i)}
           Aboves == {Above(i) : i \in D}
<1>1. /\ D = DOMAIN outcome
      /\ 1 \in D
      /\ \A i \in D : outcome[i] \in Stage /\ outcome[i].delay \in Nat /\ i \in Nat
  <2>1. Len(outcome) \in Nat \ {0}
    BY EmptySeq
  <2>2. \A i \in D : outcome[i] \in Stage /\ i \in Nat
    BY <2>1
  <2>3. \A stage \in Stage : stage.delay \in Nat
    BY DelaysAssumption DEF Stage
  <2> QED
    BY <2>1, <2>2, <2>3
<1> HIDE DEF D
<1>2. IsFiniteSet(D)
  BY FS_Interval DEF D
<1>3. IsWellFoundedOn(StrictSubsetOrdering(D), SUBSET D)
  BY <1>2, FS_StrictSubsetOrderingWellFounded, FS_FiniteSubsetsOfFinite
<1>4. Aboves \subseteq SUBSET D /\ Aboves # {}
  <2>1. \A i \in D : Above(i) \in SUBSET D
    OBVIOUS
  <2> HIDE DEF Above
  <2>2. Above(1) \in Aboves
    BY <1>1
  <2> QED
    BY <2>1, <2>2
<1>5. \E x \in Aboves : \A y \in Aboves : <<y, x>> \notin StrictSubsetOrdering(D)
  <2> HIDE DEF Aboves
  <2> QED
    BY <1>3, <1>4, WFMin
<1>6. PICK i \in D : \A k \in D : <<Above(k), Above(i)>> \notin StrictSubsetOrdering(D)
  BY <1>5
<1>7. \A j \in D : ~Beats(outcome, j, i)
  <2> SUFFICES ASSUME NEW j \in D, Beats(outcome, j, i)
               PROVE  FALSE
    OBVIOUS
  <2>1. Above(j) \subseteq Above(i)
    BY <1>1 DEF Beats
  <2>2. j \in Above(i) /\ j \notin Above(j)
    BY <1>1 DEF Beats
  <2>3. <<Above(j), Above(i)>> \in StrictSubsetOrdering(D)
    <3>1. Above(j) \in SUBSET D /\ Above(i) \in SUBSET D /\ Above(j) # Above(i)
      BY <2>2
    <3> HIDE DEF Above
    <3> QED
      BY <2>1, <3>1 DEF StrictSubsetOrdering
  <2> QED
    BY <1>6, <2>3
<1>8. D = DOMAIN outcome
  BY DEF D
<1> DEFINE Wins(n) == \A j \in DOMAIN outcome :
                        \/ outcome[j].delay < outcome[n].delay
                        \/ outcome[j].delay = outcome[n].delay /\ j <= n
           last == CHOOSE n \in DOMAIN outcome : Wins(n)
<1>9. ASSUME NEW n \in D
      PROVE  Wins(n) <=> \A j \in D : ~Beats(outcome, j, n)
  <2>1. ASSUME NEW j \in D
        PROVE  (\/ outcome[j].delay < outcome[n].delay
                \/ outcome[j].delay = outcome[n].delay /\ j <= n)
                 <=> ~Beats(outcome, j, n)
    <3>1. /\ outcome[j].delay \in Nat /\ outcome[n].delay \in Nat
          /\ j \in Nat /\ n \in Nat
      BY <1>1
    <3> QED
      BY <3>1 DEF Beats
  <2>2. Wins(n) <=> \A j \in D : \/ outcome[j].delay < outcome[n].delay
                                 \/ outcome[j].delay = outcome[n].delay /\ j <= n
    BY <1>8
  <2> QED
    BY <2>1, <2>2
<1>10. Final(outcome) = outcome[last]
  BY DEF Final
<1> HIDE DEF Wins
<1>11. \E n \in DOMAIN outcome : Wins(n)
  BY <1>7, <1>8, <1>9
<1>12. last \in DOMAIN outcome /\ Wins(last)
  BY <1>11
<1> HIDE DEF last
<1>13. last \in D /\ \A j \in D : ~Beats(outcome, j, last)
  BY <1>8, <1>9, <1>12
<1>14. Final(outcome) \in Stage
  BY <1>1, <1>10, <1>13
<1> QED
  BY <1>10, <1>13, <1>14 DEF D

LEMMA ScoreEffect ==
    ASSUME NEW scored \in LedgerType, NEW outcome \in Seq(Stage), outcome # <<>>,
           NEW record, Coherent(scored.metrics)
    PROVE  /\ Score(scored, outcome, record) \in LedgerType
           /\ Len(Score(scored, outcome, record).overlaps) = Len(scored.overlaps)
           /\ Score(scored, outcome, record).charging = scored.charging
           /\ Score(scored, outcome, record).metrics.total_predictions
                = scored.metrics.total_predictions + 1
           /\ Coherent(Score(scored, outcome, record).metrics)
<1> DEFINE final == Final(outcome)
           direction == final.taken = record.taken
           target == final.target = record.next
           timed == Push(scored, final.delay)
           after == Score(scored, outcome, record)
<1>1. final.delay \in Nat
  BY FinalStage, DelaysAssumption DEF Stage
<1>2. after = Prediction(timed, direction /\ target, direction, target)
  BY DEF Score
<1> HIDE DEF final
<1>3. /\ timed \in LedgerType
      /\ Len(timed.overlaps) = Len(scored.overlaps)
      /\ timed.charging = scored.charging
      /\ Tally(timed.metrics) = Tally(scored.metrics)
  BY <1>1, PushType, PushTally
<1> HIDE DEF timed
<1>4. direction \in BOOLEAN /\ target \in BOOLEAN
  OBVIOUS
<1> HIDE DEF direction, target, after
<1>5. /\ after \in LedgerType
      /\ after.overlaps = timed.overlaps
      /\ after.charging = timed.charging
      /\ Tally(after.metrics) =
           <<timed.metrics.total_predictions + 1,
             timed.metrics.direction_predictions + 1,
             timed.metrics.target_predictions + 1,
             timed.metrics.total_hits + One(direction /\ target),
             timed.metrics.direction_hits + One(direction),
             timed.metrics.target_hits + One(target)>>
  <2>1. PICK exact \in BOOLEAN : exact = (direction /\ target)
    BY <1>4
  <2>2. PICK d \in BOOLEAN, t \in BOOLEAN : d = direction /\ t = target
    BY <1>4
  <2>3. PICK l \in LedgerType : l = timed
    BY <1>3
  <2>4. after = Prediction(l, exact, d, t)
    BY <1>2, <2>1, <2>2, <2>3
  <2>5. /\ Prediction(l, exact, d, t) \in LedgerType
        /\ Prediction(l, exact, d, t).overlaps = l.overlaps
        /\ Prediction(l, exact, d, t).charging = l.charging
        /\ Tally(Prediction(l, exact, d, t).metrics) =
             <<l.metrics.total_predictions + 1, l.metrics.direction_predictions + 1,
               l.metrics.target_predictions + 1, l.metrics.total_hits + One(exact),
               l.metrics.direction_hits + One(d), l.metrics.target_hits + One(t)>>
    BY PredictionEffect
  <2> QED
    BY <2>1, <2>2, <2>3, <2>4, <2>5
<1>6. Coherent(timed.metrics) /\ timed.metrics \in Metrics
  BY <1>3, TallyDecides DEF LedgerType
<1>7. Coherent(after.metrics)
  <2>1. PICK d \in {0, 1}, t \in {0, 1}, both \in {0, 1} :
          /\ d = One(direction) /\ t = One(target) /\ both = One(direction /\ target)
          /\ both <= d /\ both <= t /\ d + t <= 1 + both
    <3>1. CASE direction /\ target
      BY <3>1 DEF One
    <3>2. CASE ~(direction /\ target)
      BY <1>4, <3>2 DEF One
    <3> QED
      BY <3>1, <3>2
  <2>2. /\ after.metrics.total_predictions = timed.metrics.total_predictions + 1
        /\ after.metrics.direction_predictions = timed.metrics.direction_predictions + 1
        /\ after.metrics.target_predictions = timed.metrics.target_predictions + 1
        /\ after.metrics.total_hits = timed.metrics.total_hits + both
        /\ after.metrics.direction_hits = timed.metrics.direction_hits + d
        /\ after.metrics.target_hits = timed.metrics.target_hits + t
    BY <1>5, <2>1 DEF Tally
  <2>3. /\ timed.metrics.total_predictions \in Nat
        /\ timed.metrics.direction_predictions \in Nat
        /\ timed.metrics.target_predictions \in Nat
        /\ timed.metrics.total_hits \in Nat
        /\ timed.metrics.direction_hits \in Nat
        /\ timed.metrics.target_hits \in Nat
    BY <1>6 DEF Metrics
  <2>4. Coherent(timed.metrics)
    BY <1>6
  <2>5. /\ d \in Nat /\ t \in Nat /\ both \in Nat /\ d <= 1 /\ t <= 1
        /\ both <= d /\ both <= t /\ d + t <= 1 + both
    BY <2>1
  <2> DEFINE predictions == timed.metrics.total_predictions
             exact == timed.metrics.total_hits
             directions == timed.metrics.direction_hits
             targets == timed.metrics.target_hits
  <2>6. /\ directions <= predictions /\ targets <= predictions
        /\ exact <= directions /\ exact <= targets
        /\ directions + targets <= predictions + exact
    BY <2>4 DEF Coherent
  <2>7. /\ after.metrics.direction_predictions = after.metrics.total_predictions
        /\ after.metrics.target_predictions = after.metrics.total_predictions
    BY <2>2, <2>4 DEF Coherent
  <2>8. /\ predictions \in Nat /\ exact \in Nat /\ directions \in Nat /\ targets \in Nat
    BY <2>3
  <2>9. /\ after.metrics.total_predictions = predictions + 1
        /\ after.metrics.total_hits = exact + both
        /\ after.metrics.direction_hits = directions + d
        /\ after.metrics.target_hits = targets + t
    BY <2>2
  <2> HIDE DEF predictions, exact, directions, targets
  <2>10. /\ directions + d <= predictions + 1 /\ targets + t <= predictions + 1
         /\ exact + both <= directions + d /\ exact + both <= targets + t
         /\ (directions + d) + (targets + t) <= (predictions + 1) + (exact + both)
    BY <2>5, <2>6, <2>8
  <2> QED
    BY <2>7, <2>9, <2>10 DEF Coherent
<1>8. after.metrics.total_predictions = scored.metrics.total_predictions + 1
  BY <1>3, <1>5 DEF Tally
<1> QED
  BY <1>3, <1>5, <1>7, <1>8 DEF after

\* A score counts what its final stage and the record agree on.
LEMMA ScoreHits ==
    ASSUME NEW scored \in LedgerType, NEW outcome \in Seq(Stage), outcome # <<>>,
           NEW record, NEW direction \in BOOLEAN, NEW target \in BOOLEAN,
           direction <=> Final(outcome).taken = record.taken,
           target <=> Final(outcome).target = record.next
    PROVE  Tally(Score(scored, outcome, record).metrics) =
             <<scored.metrics.total_predictions + 1,
               scored.metrics.direction_predictions + 1,
               scored.metrics.target_predictions + 1,
               scored.metrics.total_hits + One(direction /\ target),
               scored.metrics.direction_hits + One(direction),
               scored.metrics.target_hits + One(target)>>
<1> DEFINE final == Final(outcome)
           timed == Push(scored, final.delay)
<1>1. final.delay \in Nat
  BY FinalStage, DelaysAssumption DEF Stage
<1>2. Score(scored, outcome, record)
        = Prediction(timed, direction /\ target, direction, target)
  <2>1. (final.taken = record.taken) = direction /\ (final.target = record.next) = target
    OBVIOUS
  <2> QED
    BY <2>1 DEF Score
<1> HIDE DEF final
<1>3. timed \in LedgerType /\ Tally(timed.metrics) = Tally(scored.metrics)
  BY <1>1, PushType, PushTally
<1> HIDE DEF timed
<1>4. Tally(Prediction(timed, direction /\ target, direction, target).metrics) =
        <<timed.metrics.total_predictions + 1, timed.metrics.direction_predictions + 1,
          timed.metrics.target_predictions + 1,
          timed.metrics.total_hits + One(direction /\ target),
          timed.metrics.direction_hits + One(direction),
          timed.metrics.target_hits + One(target)>>
  BY <1>3, PredictionEffect
<1>5. /\ timed.metrics.total_predictions = scored.metrics.total_predictions
      /\ timed.metrics.direction_predictions = scored.metrics.direction_predictions
      /\ timed.metrics.target_predictions = scored.metrics.target_predictions
      /\ timed.metrics.total_hits = scored.metrics.total_hits
      /\ timed.metrics.direction_hits = scored.metrics.direction_hits
      /\ timed.metrics.target_hits = scored.metrics.target_hits
  BY <1>3 DEF Tally
<1> QED
  BY <1>2, <1>4, <1>5

\* The stage that counts is the only latest one.
LEMMA LatestIsFinal ==
    ASSUME NEW outcome \in Seq(Stage), outcome # <<>>
    PROVE  Latest(outcome) = {Final(outcome)}
<1> DEFINE D == DOMAIN outcome
           InTime(j, n) == outcome[j].delay < outcome[n].delay + One(j < n)
           Lasts == {n \in D : \A j \in D \ {n} : InTime(j, n)}
<1>1. PICK i \in D : /\ Final(outcome) = outcome[i]
                     /\ \A j \in D : ~Beats(outcome, j, i)
  <2>1. D = 1..Len(outcome)
    OBVIOUS
  <2> QED
    BY <2>1, FinalStage
<1>2. \A n \in D : outcome[n].delay \in Nat /\ n \in Nat
  <2>1. \A n \in D : outcome[n] \in Stage /\ n \in Nat
    OBVIOUS
  <2>2. \A stage \in Stage : stage.delay \in Nat
    BY DelaysAssumption DEF Stage
  <2> QED
    BY <2>1, <2>2
<1> HIDE DEF D
<1>3. ASSUME NEW j \in D, NEW n \in D, j # n
      PROVE  InTime(j, n) <=> ~Beats(outcome, j, n)
  <2>1. /\ outcome[j].delay \in Nat /\ outcome[n].delay \in Nat
        /\ j \in Nat /\ n \in Nat
    BY <1>2
  <2>2. CASE j < n
    BY <2>1, <2>2 DEF One, Beats
  <2>3. CASE n < j
    BY <2>1, <2>3 DEF One, Beats
  <2> QED
    BY <1>3, <2>1, <2>2, <2>3
<1> HIDE DEF InTime
<1>4. i \in Lasts
  BY <1>1, <1>3
<1>5. ASSUME NEW n \in Lasts PROVE n = i
  <2>1. n # i => ~Beats(outcome, i, n) /\ ~Beats(outcome, n, i)
    BY <1>1, <1>3
  <2>2. /\ outcome[i].delay \in Nat /\ outcome[n].delay \in Nat
        /\ i \in Nat /\ n \in Nat
    BY <1>1, <1>2
  <2> QED
    BY <2>1, <2>2 DEF Beats
<1>6. Lasts = {i}
  BY <1>4, <1>5
<1>7. Latest(outcome) = {outcome[n] : n \in Lasts}
  BY DEF Latest, InTime, D
<1> HIDE DEF Lasts
<1> QED
  BY <1>1, <1>6, <1>7

\* One more prediction adds one hit or none.
LEMMA OneMoreHit ==
    ASSUME NEW hits, IsFiniteSet(hits), NEW place, place \notin hits, NEW hit \in BOOLEAN,
           NEW grown, grown = IF hit THEN hits \cup {place} ELSE hits
    PROVE  Cardinality(grown) = Cardinality(hits) + One(hit)
<1>1. Cardinality(hits) \in Nat
  BY FS_CardinalityType
<1>2. CASE hit
  BY <1>1, <1>2, FS_AddElement DEF One
<1>3. CASE ~hit
  BY <1>1, <1>3 DEF One
<1> QED
  BY <1>2, <1>3

(***************************************************************************)
(* The returns of the predictor.                                           *)
(***************************************************************************)

\* A tick changes nothing the invariant looks at but the leakage.
LEMMA TickIsQuiet ==
    ASSUME IInv
    PROVE  /\ Tick(ledger) \in LedgerType
           /\ Tick(ledger).overlaps = ledger.overlaps
           /\ Tick(ledger).charging = ledger.charging
           /\ Tick(ledger).metrics.total_predictions = ledger.metrics.total_predictions
           /\ Coherent(Tick(ledger).metrics)
           /\ ~ledger.charging => Tick(ledger) = ledger
<1>1. ledger \in LedgerType /\ Coherent(ledger.metrics)
  BY DEF IInv, TypeOK, ReportsAreCoherent
<1>2. Tally(Tick(ledger).metrics) = Tally(ledger.metrics)
  BY <1>1, TickEffect
<1> QED
  BY <1>1, <1>2, TickEffect, TallyDecides

LEMMA UpdateReturnsStep ==
    ASSUME IInv, UpdateReturns
    PROVE  IInv' /\ [Promise!Next]_(Promise!vars)
<1>1. /\ call.fn = "update" /\ phase # "unwinding" /\ call.groups = 0
      /\ ledger' = Tick(ledger)
      /\ trained' = Append(trained, call.at)
      /\ call' = NoCall
      /\ UNCHANGED <<costs, phase, config, trace, fetched, queue, result, runs,
                     carried, made>>
  BY DEF UpdateReturns, InCallback
<1>2. phase # "idle"
  BY <1>1 DEF IInv, CallsMatchPhase
<1>3. /\ Len(made) = Len(trained) + 1 + Len(queue)
      /\ fetched = Len(made)
      /\ call.at = Len(trained) + 1
      /\ \A i \in 1..Len(trained) : trained[i] = i
      /\ \A i \in 1..Len(queue) : queue[i] = Len(trained) + 1 + i
  <2>1. One(call.fn = "update") = 1 /\ One(call.fn = "predict") = 0
    BY <1>1 DEF One
  <2>2. /\ Len(made) = Len(trained) + 1 + Len(queue)
        /\ fetched = Len(made) + 0
        /\ call.at = Len(trained) + 1
        /\ \A i \in 1..Len(trained) : trained[i] = i
        /\ \A i \in 1..Len(queue) : queue[i] = Len(trained) + 1 + i
    BY <1>1, <1>2, <2>1 DEF IInv, Positions
  <2>3. Len(made) \in Nat
    BY Shape DEF IInv
  <2> QED
    BY <2>2, <2>3
<1>4. /\ trained \in Seq(1..Len(trace)) /\ call.at \in 1..Len(trace)
      /\ Len(trained) \in Nat
  BY <1>1, Shape DEF IInv, TypeOK
<1>5. /\ trained' \in Seq(1..Len(trace))
      /\ Len(trained') = Len(trained) + 1
      /\ \A i \in 1..Len(trained) : trained'[i] = trained[i]
      /\ trained'[Len(trained) + 1] = call.at
  BY <1>1, <1>4, AppendProperties
<1>6. /\ call' \in Calls /\ call'.fn = "none" /\ call'.groups = 0 /\ call' = NoCall
  BY <1>1 DEF NoCall, Calls
<1>7. TypeOK'
  BY <1>1, <1>5, <1>6, TickIsQuiet DEF IInv, TypeOK
<1>8. Positions'
  <2>1. One(call'.fn = "update") = 0 /\ One(call'.fn = "predict") = 0
    BY <1>6 DEF One
  <2>2. /\ Len(made') = Len(trained') + 0 + Len(queue')
        /\ fetched' = Len(made') + 0
    <3>1. Len(queue) \in Nat /\ queue' = queue /\ made' = made /\ fetched' = fetched
      BY <1>1, Shape DEF IInv
    <3> QED
      BY <1>3, <1>4, <1>5, <3>1
  <2>3. \A i \in 1..Len(trained') : trained'[i] = i
    <3> SUFFICES ASSUME NEW i \in 1..(Len(trained) + 1) PROVE trained'[i] = i
      BY <1>5
    <3>1. i \in 1..Len(trained) \/ i = Len(trained) + 1
      BY <1>4
    <3> QED
      BY <1>3, <1>5, <3>1
  <2>4. \A i \in 1..Len(queue') : queue'[i] = Len(trained') + 0 + i
    BY <1>1, <1>3, <1>4, <1>5, Shape DEF IInv
  <2> QED
    BY <1>6, <2>1, <2>2, <2>3, <2>4 DEF Positions
<1>9. QueueBounded' /\ CallsMatchPhase'
  BY <1>1, <1>2, <1>6 DEF IInv, QueueBounded, CallsMatchPhase
<1>10. PhaseKnows'
  <2>1. ledger'.charging = ledger.charging
    BY <1>1, TickIsQuiet
  <2>2. Len(trained') >= config.warmup \/ Len(trained) < config.warmup
    BY <1>4, <1>5, Shape DEF IInv
  <2>3. /\ Len(trained) # Len(trace)
        /\ UNCHANGED <<config, trace, phase, fetched>>
    BY <1>1, <1>3, <1>4, Shape DEF IInv
  <2> QED
    BY <2>1, <2>2, <2>3, <1>4, Shape DEF IInv, PhaseKnows
<1>11. Counting'
  BY <1>1, TickIsQuiet DEF IInv, Counting, Scored
<1>12. GroupsBelongToCallback' /\ ReportsAreCoherent' /\ FinishedRunIsComplete'
  BY <1>1, <1>2, <1>6, TickIsQuiet
  DEF IInv, CallsMatchPhase, GroupsBelongToCallback, ReportsAreCoherent,
      FinishedRunIsComplete
<1>13. WarmupLeavesNoTrace'
  BY <1>1, TickIsQuiet DEF IInv, PhaseKnows, WarmupLeavesNoTrace
<1>14. [Promise!Next]_(Promise!vars)
  <2>1. JobOf(trace, config) # None /\ result = None
    BY <1>2, NoneIsNothing, Shape DEF IInv, JobOf, CallsMatchPhase
  <2>2. /\ phase' = phase /\ result' = result /\ carried' = carried
        /\ ledger'.metrics.total_predictions = ledger.metrics.total_predictions
        /\ Len(made') = Len(made) /\ JobOf(trace, config)' = JobOf(trace, config)
    BY <1>1, TickIsQuiet DEF JobOf
  <2>3. /\ Len(trained) < Len(made)
        /\ \/ Len(made) - Len(trained) > config.speculations
           \/ Len(made) = config.warmup
           \/ Len(made) = Len(trace)
    <3>1. CASE phase \in {"warmup", "metered"}
      BY <1>1, <1>2, <1>3, <3>1, Shape DEF IInv, QueueBounded
    <3>2. CASE phase \in {"boundary", "final"}
      BY <1>3, <3>2, Shape DEF IInv, PhaseKnows
    <3>3. phase \in {"warmup", "metered", "boundary", "final"}
      BY <1>1, <1>2 DEF IInv, TypeOK, Phases
    <3> QED
      BY <3>1, <3>2, <3>3
  <2>4. Promise!Train
    BY <1>2, <1>5, <2>1, <2>2, <2>3 DEF Promise!Train, JobOf
  <2> QED
    BY <2>4 DEF Promise!Next, Promise!Advance
<1>15. ScoresMatchOutcomes'
  <2>1. Tally(ledger'.metrics) = Tally(ledger.metrics)
    BY <1>1, TickEffect DEF IInv, TypeOK
  <2> QED
    BY <1>1, <1>2, <2>1, ScoresKept DEF IInv
<1> QED
  BY <1>7, <1>8, <1>9, <1>10, <1>11, <1>12, <1>13, <1>14, <1>15 DEF IInv

\* The predicted record joins the queue, and over capacity the oldest leaves it
\* at once for its update.
LEMMA EnqueueEffect ==
    ASSUME NEW n \in Nat, NEW t \in Nat, NEW q \in Seq(1..n), NEW record \in 1..n,
           record = t + Len(q) + 1,
           \A i \in 1..Len(q) : q[i] = t + i
    PROVE  LET longer == Append(q, record)
           IN  /\ longer \in Seq(1..n) /\ longer # <<>>
               /\ Len(longer) = Len(q) + 1
               /\ \A i \in 1..Len(longer) : longer[i] = t + i
<1> DEFINE longer == Append(q, record)
<1>1. /\ longer \in Seq(1..n) /\ longer # <<>>
      /\ Len(longer) = Len(q) + 1
      /\ \A i \in 1..Len(q) : longer[i] = q[i]
      /\ longer[Len(q) + 1] = record
  <2> DEFINE positions == 1..n
  <2>1. q \in Seq(positions) /\ record \in positions
    OBVIOUS
  <2> HIDE DEF positions
  <2>2. /\ longer \in Seq(positions) /\ longer # <<>>
        /\ Len(longer) = Len(q) + 1
        /\ \A i \in 1..Len(q) : longer[i] = q[i]
        /\ longer[Len(q) + 1] = record
    BY <2>1, AppendProperties
  <2> QED
    BY <2>2 DEF positions
<1>2. Len(q) \in Nat
  OBVIOUS
<1> HIDE DEF longer
<1>3. \A i \in 1..Len(longer) : longer[i] = t + i
  <2> SUFFICES ASSUME NEW i \in 1..(Len(q) + 1) PROVE longer[i] = t + i
    BY <1>1
  <2>1. CASE i = Len(q) + 1
    BY <1>1, <2>1
  <2>2. CASE i # Len(q) + 1
    <3>1. i \in 1..Len(q)
      BY <1>2, <2>2
    <3>2. longer[i] = q[i]
      BY <1>1, <3>1
    <3> QED
      BY <3>1, <3>2
  <2> QED
    BY <2>1, <2>2
<1> QED
  BY <1>1, <1>3 DEF longer

LEMMA PredictReturnsStep ==
    ASSUME IInv, NEW outcome \in Outcomes, PredictReturns(outcome)
    PROVE  IInv' /\ [Promise!Next]_(Promise!vars)
<1> DEFINE longer == Append(queue, call.at)
           ticked == Tick(ledger)
<1>1. /\ call.fn = "predict" /\ phase # "unwinding" /\ call.groups = 0
      /\ Scoring => outcome # <<>>
      /\ ledger' = IF Scoring THEN Score(ticked, outcome, trace[call.at]) ELSE ticked
      /\ made' = Append(made, outcome)
      /\ Enqueue(call.at)
      /\ UNCHANGED <<costs, phase, config, trace, fetched, result, runs, carried,
                     trained>>
  BY DEF PredictReturns, InCallback
<1>2. phase \in {"warmup", "metered"}
  BY <1>1 DEF IInv, CallsMatchPhase, TypeOK, Phases
<1>3. /\ Len(made) = Len(trained) + Len(queue)
      /\ fetched = Len(made) + 1
      /\ call.at = Len(made) + 1
      /\ \A i \in 1..Len(trained) : trained[i] = i
      /\ \A i \in 1..Len(queue) : queue[i] = Len(trained) + i
      /\ Len(queue) <= config.speculations
  <2>1. One(call.fn = "update") = 0 /\ One(call.fn = "predict") = 1
    BY <1>1 DEF One
  <2>2. /\ Len(made) = Len(trained) + 0 + Len(queue)
        /\ fetched = Len(made) + 1
        /\ call.at = fetched
        /\ \A i \in 1..Len(trained) : trained[i] = i
        /\ \A i \in 1..Len(queue) : queue[i] = Len(trained) + 0 + i
        /\ Len(queue) <= config.speculations
    BY <1>1, <1>2, <2>1 DEF IInv, Positions, QueueBounded
  <2> QED
    BY <2>2, Shape DEF IInv
<1>4. /\ queue \in Seq(1..Len(trace)) /\ call.at \in 1..Len(trace)
      /\ outcome \in Seq(Stage) /\ made \in Seq(Seq(Stage))
      /\ trained \in Seq(1..Len(trace))
  BY <1>1, OutcomesAssumption DEF IInv, TypeOK
<1>5. /\ longer \in Seq(1..Len(trace)) /\ longer # <<>>
      /\ Len(longer) = Len(queue) + 1
      /\ \A i \in 1..Len(longer) : longer[i] = Len(trained) + i
  <2>1. Len(trace) \in Nat /\ Len(trained) \in Nat /\ call.at = Len(trained) + Len(queue) + 1
    BY <1>3, Shape DEF IInv
  <2>2. PICK n \in Nat, t \in Nat : n = Len(trace) /\ t = Len(trained)
    BY <2>1
  <2>3. PICK q \in Seq(1..n), record \in 1..n : q = queue /\ record = call.at
    BY <1>4, <2>2
  <2>4. record = t + Len(q) + 1 /\ \A i \in 1..Len(q) : q[i] = t + i
    BY <1>3, <2>1, <2>2, <2>3
  <2>5. /\ Append(q, record) \in Seq(1..n) /\ Append(q, record) # <<>>
        /\ Len(Append(q, record)) = Len(q) + 1
        /\ \A i \in 1..Len(Append(q, record)) : Append(q, record)[i] = t + i
    BY <2>4, EnqueueEffect
  <2> QED
    BY <2>2, <2>3, <2>5
<1>6. /\ made' \in Seq(Seq(Stage)) /\ Len(made') = Len(made) + 1
  BY <1>1, <1>4, AppendProperties
<1>7. IF Len(longer) > config.speculations
        THEN /\ queue' = Tail(longer)
             /\ call' = Callback("update", Head(longer))
        ELSE /\ queue' = longer
             /\ call' = NoCall
  BY <1>1 DEF Enqueue
<1> HIDE DEF longer
<1>8. /\ queue' \in Seq(1..Len(trace))
      /\ call' \in Calls /\ call'.groups = 0
      /\ Len(queue') <= config.speculations
      /\ \/ /\ call' = NoCall
            /\ call'.fn = "none"
            /\ Len(queue') = Len(queue) + 1
            /\ \A i \in 1..Len(queue') : queue'[i] = Len(trained) + i
         \/ /\ call'.fn = "update"
            /\ call'.at = Len(trained) + 1 /\ call'.at \in 1..Len(trace)
            /\ Len(queue') = Len(queue) /\ Len(queue') = config.speculations
            /\ \A i \in 1..Len(queue') : queue'[i] = Len(trained) + 1 + i
  <2>1. CASE Len(longer) > config.speculations
    <3>1. /\ Head(longer) = Len(trained) + 1 /\ Head(longer) \in 1..Len(trace)
          /\ Tail(longer) \in Seq(1..Len(trace))
          /\ Len(Tail(longer)) = Len(longer) - 1
          /\ \A i \in 1..Len(Tail(longer)) : Tail(longer)[i] = Len(trained) + 1 + i
      <4>1. Len(trace) \in Nat /\ Len(trained) \in Nat
        BY Shape DEF IInv
      <4> QED
        BY <1>5, <4>1, HeadLeaves
    <3>2. queue' = Tail(longer) /\ call' = Callback("update", Head(longer))
      BY <1>7, <2>1
    <3>3. /\ call' \in Calls /\ call'.fn = "update" /\ call'.groups = 0
          /\ call'.at = Head(longer)
      BY <3>1, <3>2, Shape, BoundsAssumption DEF Callback, Calls, IInv
    <3>4. Len(longer) - 1 = Len(queue) /\ Len(queue) = config.speculations
      BY <1>3, <1>5, <2>1, Shape DEF IInv
    <3> QED
      BY <1>3, <3>1, <3>2, <3>3, <3>4
  <2>2. CASE ~(Len(longer) > config.speculations)
    <3>1. queue' = longer /\ call' = NoCall
      BY <1>7, <2>2
    <3>2. Len(longer) <= config.speculations
      BY <1>5, <2>2, Shape DEF IInv
    <3> QED
      BY <1>5, <3>1, <3>2 DEF NoCall, Calls
  <2> QED
    BY <2>1, <2>2
<1>9. /\ ledger' \in LedgerType
      /\ Len(ledger'.overlaps) = Len(ledger.overlaps)
      /\ ledger'.charging = ledger.charging
      /\ Coherent(ledger'.metrics)
      /\ ledger'.metrics.total_predictions
           = ledger.metrics.total_predictions + One(Scoring)
      /\ ~Scoring /\ ~ledger.charging => ledger' = ledger
  <2>1. /\ ticked \in LedgerType
        /\ ticked.overlaps = ledger.overlaps
        /\ ticked.charging = ledger.charging
        /\ ticked.metrics.total_predictions = ledger.metrics.total_predictions
        /\ Coherent(ticked.metrics)
        /\ ~ledger.charging => ticked = ledger
    BY TickIsQuiet
  <2>2. ledger.metrics.total_predictions \in Nat
    BY DEF IInv, TypeOK, LedgerType, Metrics
  <2> HIDE DEF ticked
  <2>3. CASE Scoring
    BY <1>1, <1>4, <2>1, <2>3, ScoreEffect DEF One
  <2>4. CASE ~Scoring
    BY <1>1, <2>1, <2>2, <2>4 DEF One
  <2> QED
    BY <2>3, <2>4
<1> HIDE DEF ticked
<1>10. UNCHANGED <<costs, phase, config, trace, fetched, result, runs, carried, trained>>
  BY <1>1
<1>11. TypeOK'
  BY <1>4, <1>6, <1>8, <1>9, <1>10 DEF IInv, TypeOK, NoCall
<1>12. Positions'
  <2>1. /\ Len(made') = Len(made) + 1 /\ Len(made) \in Nat
        /\ Len(trained') = Len(trained) /\ Len(trained) \in Nat
        /\ Len(queue) \in Nat /\ fetched' = fetched
    BY <1>6, <1>10, Shape DEF IInv
  <2>2. \A i \in 1..Len(trained') : trained'[i] = i
    BY <1>3, <1>10
  <2>3. CASE call'.fn = "none"
    <3>1. One(call'.fn = "update") = 0 /\ One(call'.fn = "predict") = 0
      BY <2>3 DEF One
    <3>2. /\ Len(made') = Len(trained') + 0 + Len(queue')
          /\ fetched' = Len(made') + 0
      BY <1>3, <1>8, <2>1, <2>3
    <3>3. \A i \in 1..Len(queue') : queue'[i] = Len(trained') + 0 + i
      BY <1>8, <2>1, <2>3
    <3> QED
      BY <2>2, <2>3, <3>1, <3>2, <3>3 DEF Positions
  <2>4. CASE call'.fn = "update"
    <3>1. One(call'.fn = "update") = 1 /\ One(call'.fn = "predict") = 0
      BY <2>4 DEF One
    <3>2. /\ Len(queue') = Len(queue) /\ call'.at = Len(trained) + 1
          /\ \A i \in 1..Len(queue') : queue'[i] = Len(trained) + 1 + i
      BY <1>8, <2>4
    <3>3. /\ Len(made') = Len(trained') + 1 + Len(queue')
          /\ fetched' = Len(made') + 0
          /\ call'.at = Len(trained') + 1
      BY <1>3, <2>1, <3>2
    <3>4. \A i \in 1..Len(queue') : queue'[i] = Len(trained') + 1 + i
      BY <2>1, <3>2
    <3> QED
      BY <2>2, <2>4, <3>1, <3>3, <3>4 DEF Positions
  <2> QED
    BY <1>8, <2>3, <2>4
<1>13. QueueBounded' /\ CallsMatchPhase'
  BY <1>2, <1>8, <1>10 DEF IInv, QueueBounded, CallsMatchPhase
<1>14. PhaseKnows'
  BY <1>2, <1>9, <1>10 DEF IInv, PhaseKnows
<1>15. Len(made) \in Nat /\ config.warmup \in Nat
  BY Shape DEF IInv
<1>16. /\ phase = "warmup" => Len(made) < config.warmup
       /\ phase = "metered" => config.warmup <= Len(made)
  <2>1. CASE phase = "warmup"
    BY <1>3, <1>15, <2>1 DEF IInv, PhaseKnows
  <2>2. CASE phase = "metered"
    <3>1. Len(trained) <= Len(made) /\ Len(trained) < Len(trace)
      BY <1>3, <1>4, Shape DEF IInv
    <3> QED
      BY <1>15, <2>2, <3>1, Shape DEF IInv, PhaseKnows
  <2> QED
    BY <1>2, <2>1, <2>2
<1>17. Counting'
  <2>1. CASE phase = "warmup"
    <3>1. One(Scoring) = 0
      BY <2>1 DEF One, Scoring
    <3>2. ledger.metrics.total_predictions \in Nat /\ Scored(0)
      BY <2>1 DEF IInv, Counting, TypeOK, LedgerType, Metrics
    <3>3. Scored(0)'
      BY <1>9, <1>10, <3>1, <3>2 DEF Scored
    <3> QED
      BY <1>10, <2>1, <3>3 DEF Counting
  <2>2. CASE phase = "metered"
    <3>1. Scored(Greater(Len(made) - config.warmup, 0))
      BY <2>2 DEF IInv, Counting
    <3>2. /\ Greater(Len(made) - config.warmup, 0) = Len(made) - config.warmup
          /\ Greater(Len(made') - config.warmup, 0) = Len(made) - config.warmup + 1
      <4>1. Len(made') = Len(made) + 1 /\ config.warmup <= Len(made)
        BY <1>6, <1>16, <2>2
      <4> QED
        BY <1>15, <4>1 DEF Greater
    <3>3. One(Scoring) = 1
      BY <2>2 DEF One, Scoring
    <3>4. carried.metrics.total_predictions \in Nat
      BY DEF IInv, TypeOK, LedgerType, Metrics
    <3>5. Scored(Greater(Len(made) - config.warmup, 0))'
      BY <1>9, <1>10, <1>15, <3>1, <3>2, <3>3, <3>4 DEF Scored
    <3> QED
      BY <1>10, <2>2, <3>5 DEF Counting
  <2> QED
    BY <1>2, <2>1, <2>2
<1>18. GroupsBelongToCallback' /\ ReportsAreCoherent' /\ FinishedRunIsComplete'
  BY <1>1, <1>2, <1>8, <1>9, <1>10
  DEF IInv, CallsMatchPhase, GroupsBelongToCallback, ReportsAreCoherent,
      FinishedRunIsComplete
<1>19. WarmupLeavesNoTrace'
  BY <1>2, <1>9, <1>10 DEF IInv, PhaseKnows, WarmupLeavesNoTrace, Scoring
<1>20. Promise!Predict
  <2>1. JobOf(trace, config) # None /\ result = None
    BY <1>2, NoneIsNothing, Shape DEF IInv, JobOf, CallsMatchPhase
  <2>2. /\ phase' = phase /\ result' = result /\ carried' = carried
        /\ JobOf(trace, config)' = JobOf(trace, config)
        /\ Len(trained') = Len(trained)
    BY <1>10 DEF JobOf
  <2>3. /\ Len(made) < Len(trace)
        /\ Len(made) - Len(trained) <= config.speculations
        /\ Len(made) = config.warmup => Len(trained) = Len(made)
    <3>1. Len(made) < Len(trace) /\ Len(made) - Len(trained) <= config.speculations
      BY <1>3, Shape DEF IInv
    <3>2. CASE phase = "warmup"
      BY <1>15, <1>16, <3>1, <3>2
    <3>3. CASE phase = "metered"
      BY <1>3, <1>15, <3>1, <3>3, Shape DEF IInv, PhaseKnows
    <3> QED
      BY <1>2, <3>1, <3>2, <3>3
  <2>4. ledger'.metrics.total_predictions - carried.metrics.total_predictions
          = IF Len(made) < config.warmup
              THEN ledger.metrics.total_predictions - carried.metrics.total_predictions
              ELSE ledger.metrics.total_predictions - carried.metrics.total_predictions + 1
    <3>1. /\ ledger.metrics.total_predictions \in Nat
          /\ carried.metrics.total_predictions \in Nat
      BY DEF IInv, TypeOK, LedgerType, Metrics
    <3>2. CASE phase = "warmup"
      BY <1>9, <1>15, <1>16, <3>1, <3>2 DEF One, Scoring
    <3>3. CASE phase = "metered"
      <4>1. Scoring /\ ~(Len(made) < config.warmup)
        BY <1>15, <1>16, <3>3 DEF Scoring
      <4>2. One(Scoring) = 1
        BY <4>1 DEF One
      <4>3. ledger'.metrics.total_predictions = ledger.metrics.total_predictions + 1
        BY <1>9, <4>2
      <4> QED
        BY <3>1, <4>1, <4>3
    <3> QED
      BY <1>2, <3>2, <3>3
  <2> QED
    BY <1>2, <1>6, <2>1, <2>2, <2>3, <2>4 DEF Promise!Predict, JobOf
<1>21. ScoresMatchOutcomes'
  <2> DEFINE place == Len(made) + 1
             record == trace[place]
  <2>1. /\ Len(made) \in Nat /\ DOMAIN made = 1..Len(made)
        /\ DOMAIN made' = 1..place /\ made'[place] = outcome
        /\ \A p \in 1..Len(made) : made'[p] = made[p]
    BY <1>1, <1>4, <1>15, AppendProperties
  <2>2. phase # "idle" /\ phase' = phase /\ result' = None
    BY <1>2, <1>10 DEF IInv, CallsMatchPhase
  <2>3. HitsMatch(ledger.metrics)
    BY <2>2 DEF IInv, ScoresMatchOutcomes
  <2>4. config' = config /\ trace' = trace /\ carried' = carried
    BY <1>10
  <2>5. /\ ledger.metrics.direction_hits \in Nat
        /\ ledger.metrics.target_hits \in Nat
        /\ ledger.metrics.total_hits \in Nat
        /\ carried.metrics.direction_hits \in Nat
        /\ carried.metrics.target_hits \in Nat
        /\ carried.metrics.total_hits \in Nat
    BY DEF IInv, TypeOK, LedgerType, Metrics
  <2>6. /\ ticked \in LedgerType /\ Coherent(ticked.metrics)
        /\ ticked.metrics.direction_hits = ledger.metrics.direction_hits
        /\ ticked.metrics.target_hits = ledger.metrics.target_hits
        /\ ticked.metrics.total_hits = ledger.metrics.total_hits
    <3>1. ledger \in LedgerType
      BY DEF IInv, TypeOK
    <3>2. Tally(ticked.metrics) = Tally(ledger.metrics)
      BY <3>1, TickEffect DEF ticked
    <3> QED
      BY <3>2, TickIsQuiet, TallyDecides DEF ticked
  <2> HIDE DEF place
  <2>7. place \in Nat /\ place \notin 1..Len(made) /\ 1..place = 1..Len(made) \cup {place}
    BY <2>1 DEF place
  <2>8. CASE phase = "warmup"
    <3>1. AfterWarmup = {} /\ AfterWarmup' = {}
      <4>1. \A p \in 1..place : p <= config.warmup
        BY <1>15, <1>16, <2>8 DEF place
      <4> QED
        BY <1>15, <2>1, <2>4, <2>7, <4>1 DEF AfterWarmup
    <3>2. DirectionHits' = DirectionHits /\ TargetHits' = TargetHits /\ ExactHits' = ExactHits
      BY <3>1 DEF DirectionHits, TargetHits, ExactHits
    <3>3. ledger' = ticked
      BY <1>1, <2>8 DEF Scoring
    <3>4. HitsMatch(ledger.metrics)'
      BY <2>3, <2>4, <2>6, <3>2, <3>3 DEF HitsMatch
    <3> QED
      BY <2>2, <3>4 DEF ScoresMatchOutcomes
  <2>9. CASE phase = "metered"
    <3>1. Scoring /\ outcome # <<>> /\ ledger' = Score(ticked, outcome, record)
      BY <1>1, <1>3, <2>9 DEF Scoring, place
    <3>2. Latest(outcome) = {Final(outcome)}
      BY <1>4, <3>1, LatestIsFinal
    <3>3. AfterWarmup' = AfterWarmup \cup {place}
      BY <1>15, <1>16, <2>1, <2>4, <2>7, <2>9 DEF AfterWarmup, place
    <3>4. AfterWarmup \subseteq 1..Len(made)
      BY <2>1 DEF AfterWarmup
    <3> DEFINE direction == Final(outcome).taken = record.taken
               target == Final(outcome).target = record.next
    <3>5. /\ ledger'.metrics.direction_hits = ticked.metrics.direction_hits + One(direction)
          /\ ledger'.metrics.target_hits = ticked.metrics.target_hits + One(target)
          /\ ledger'.metrics.total_hits = ticked.metrics.total_hits + One(direction /\ target)
      <4>1. /\ direction \in BOOLEAN /\ target \in BOOLEAN
            /\ direction <=> Final(outcome).taken = record.taken
            /\ target <=> Final(outcome).target = record.next
        OBVIOUS
      <4> HIDE DEF direction, target, record
      <4>2. Tally(ledger'.metrics) =
              <<ticked.metrics.total_predictions + 1,
                ticked.metrics.direction_predictions + 1,
                ticked.metrics.target_predictions + 1,
                ticked.metrics.total_hits + One(direction /\ target),
                ticked.metrics.direction_hits + One(direction),
                ticked.metrics.target_hits + One(target)>>
        BY <1>4, <2>6, <3>1, <4>1, ScoreHits
      <4> QED
        BY <4>2 DEF Tally
    <3>6. /\ DirectionHits' = IF direction THEN DirectionHits \cup {place} ELSE DirectionHits
          /\ TargetHits' = IF target THEN TargetHits \cup {place} ELSE TargetHits
          /\ ExactHits' = IF direction /\ target THEN ExactHits \cup {place} ELSE ExactHits
      <4>1. \A p \in AfterWarmup : made'[p] = made[p]
        BY <2>1, <3>4
      <4>2. Latest(made'[place]) = {Final(outcome)}
        BY <2>1, <3>2
      <4>3. DirectionHits' = {p \in AfterWarmup \cup {place} :
                               \E stage \in Latest(made'[p]) : stage.taken = trace[p].taken}
        BY <2>4, <3>3 DEF DirectionHits
      <4>4. TargetHits' = {p \in AfterWarmup \cup {place} :
                               \E stage \in Latest(made'[p]) : stage.target = trace[p].next}
        BY <2>4, <3>3 DEF TargetHits
      <4>5. ExactHits' = {p \in AfterWarmup \cup {place} :
                            \E stage \in Latest(made'[p]) :
                              stage.taken = trace[p].taken /\ stage.target = trace[p].next}
        BY <2>4, <3>3 DEF ExactHits
      <4>6. DirectionHits' = IF direction THEN DirectionHits \cup {place} ELSE DirectionHits
        BY <4>1, <4>2, <4>3 DEF DirectionHits
      <4>7. TargetHits' = IF target THEN TargetHits \cup {place} ELSE TargetHits
        BY <4>1, <4>2, <4>4 DEF TargetHits
      <4>8. ExactHits' = IF direction /\ target THEN ExactHits \cup {place} ELSE ExactHits
        BY <4>1, <4>2, <4>5 DEF ExactHits
      <4> QED
        BY <4>6, <4>7, <4>8
    <3>7. /\ direction \in BOOLEAN /\ target \in BOOLEAN /\ (direction /\ target) \in BOOLEAN
      OBVIOUS
    <3>8. /\ IsFiniteSet(DirectionHits) /\ place \notin DirectionHits
          /\ IsFiniteSet(TargetHits) /\ place \notin TargetHits
          /\ IsFiniteSet(ExactHits) /\ place \notin ExactHits
      <4>1. /\ DirectionHits \subseteq 1..Len(made)
            /\ TargetHits \subseteq 1..Len(made)
            /\ ExactHits \subseteq 1..Len(made)
        BY <3>4 DEF DirectionHits, TargetHits, ExactHits
      <4>2. IsFiniteSet(1..Len(made))
        BY <2>1, FS_Interval
      <4> QED
        BY <2>7, <4>1, <4>2, FS_Subset
    <3> HIDE DEF direction, target
    <3>9. Cardinality(DirectionHits') = Cardinality(DirectionHits) + One(direction)
      BY <3>6, <3>7, <3>8, OneMoreHit
    <3>10. Cardinality(TargetHits') = Cardinality(TargetHits) + One(target)
      BY <3>6, <3>7, <3>8, OneMoreHit
    <3>11. Cardinality(ExactHits') = Cardinality(ExactHits) + One(direction /\ target)
      BY <3>6, <3>7, <3>8, OneMoreHit
    <3>12. /\ Cardinality(DirectionHits) \in Nat /\ Cardinality(TargetHits) \in Nat
           /\ Cardinality(ExactHits) \in Nat
           /\ One(direction) \in Nat /\ One(target) \in Nat /\ One(direction /\ target) \in Nat
      BY <3>8, FS_CardinalityType DEF One
    <3>13. /\ ledger.metrics.direction_hits
                 = carried.metrics.direction_hits + Cardinality(DirectionHits)
           /\ ledger.metrics.target_hits
                 = carried.metrics.target_hits + Cardinality(TargetHits)
           /\ ledger.metrics.total_hits
                 = carried.metrics.total_hits + Cardinality(ExactHits)
      BY <2>3 DEF HitsMatch
    <3>14. /\ ledger'.metrics.direction_hits
                 = carried.metrics.direction_hits + Cardinality(DirectionHits')
           /\ ledger'.metrics.target_hits
                 = carried.metrics.target_hits + Cardinality(TargetHits')
           /\ ledger'.metrics.total_hits
                 = carried.metrics.total_hits + Cardinality(ExactHits')
      BY <2>5, <2>6, <3>5, <3>9, <3>10, <3>11, <3>12, <3>13
    <3>15. HitsMatch(ledger.metrics)'
      BY <2>4, <3>14 DEF HitsMatch
    <3> QED
      BY <2>2, <3>15 DEF ScoresMatchOutcomes
  <2> QED
    BY <1>2, <2>8, <2>9
<1> QED
  BY <1>11, <1>12, <1>13, <1>14, <1>17, <1>18, <1>19, <1>20, <1>21
  DEF IInv, Promise!Next, Promise!Advance

(***************************************************************************)
(* The predictor's own steps, panics, and work between the runs.           *)
(***************************************************************************)

\* Work moves no record and no count, whether a callback does it or the thread
\* between two runs; unmetered work leaves the ledger's accounts alone.
LEMMA WorkStep ==
    ASSUME IInv,
           ledger' \in LedgerType,
           ledger'.charging = ledger.charging,
           Tally(ledger'.metrics) = Tally(ledger.metrics),
           ~ledger.charging =>
             /\ ledger'.metrics = ledger.metrics
             /\ ledger'.charged = ledger.charged
             /\ ledger'.leakage = ledger.leakage,
           Len(ledger'.overlaps) = call'.groups,
           call' \in Calls, call'.fn = call.fn, call'.at = call.at,
           call.fn = "none" => call' = call,
           UNCHANGED phase, RunUnchanged
    PROVE  IInv' /\ [Promise!Next]_(Promise!vars)
<1>1. UNCHANGED <<phase, costs, config, trace, fetched, queue, result, runs,
                  carried, made, trained>>
  BY DEF RunUnchanged
<1>2. /\ ledger'.metrics.total_predictions = ledger.metrics.total_predictions
      /\ Coherent(ledger'.metrics)
  BY TallyDecides DEF IInv, ReportsAreCoherent
<1>3. TypeOK'
  BY <1>1 DEF IInv, TypeOK
<1>4. Positions' /\ QueueBounded' /\ CallsMatchPhase' /\ PhaseKnows'
  BY <1>1 DEF IInv, Positions, QueueBounded, CallsMatchPhase, PhaseKnows
<1>5. Counting' /\ GroupsBelongToCallback' /\ ReportsAreCoherent' /\ FinishedRunIsComplete'
  BY <1>1, <1>2
  DEF IInv, Counting, Scored, GroupsBelongToCallback, ReportsAreCoherent,
      FinishedRunIsComplete
<1>6. WarmupLeavesNoTrace'
  BY <1>1 DEF IInv, PhaseKnows, WarmupLeavesNoTrace
<1>7. [Promise!Next]_(Promise!vars)
  BY <1>1, <1>2, Stutter
<1>8. ScoresMatchOutcomes'
  BY <1>1, ScoresKept DEF IInv
<1> QED
  BY <1>3, <1>4, <1>5, <1>6, <1>7, <1>8 DEF IInv

\* A fully priced operation, metered or not.
LEMMA ChargeIsWork ==
    ASSUME IInv, NEW hw \in Hardware, FullyPriced(PriceOf(costs, hw[1], hw[2])),
           ledger' = Charge(ledger, hw[1], hw[2], PriceOf(costs, hw[1], hw[2]))
    PROVE  /\ ledger' \in LedgerType
           /\ ledger'.charging = ledger.charging
           /\ Tally(ledger'.metrics) = Tally(ledger.metrics)
           /\ ~ledger.charging => ledger' = ledger
           /\ Len(ledger'.overlaps) = Len(ledger.overlaps)
<1> DEFINE price == PriceOf(costs, hw[1], hw[2])
<1>1. ledger \in LedgerType /\ costs \in Costs
  BY DEF IInv, TypeOK
<1>2. hw[1] \in Operations /\ hw[2] \in Nat
  BY HardwareAssumption
<1>3. price \in Prices /\ price.latency_ticks \in Nat
  BY <1>1, <1>2, PriceType DEF Prices
<1> HIDE DEF price
<1>4. ledger' = Charge(ledger, hw[1], hw[2], price)
  BY DEF price
<1>5. /\ ledger' \in LedgerType
      /\ ledger'.charging = ledger.charging
      /\ ledger'.overlaps = Push(ledger, price.latency_ticks).overlaps
      /\ Tally(ledger'.metrics) = Tally(ledger.metrics)
      /\ ~ledger.charging => ledger' = ledger
  BY <1>1, <1>2, <1>3, <1>4, ChargeEffect
<1> QED
  BY <1>1, <1>3, <1>5, PushType

LEMMA CallbackWorkStep ==
    ASSUME IInv,
           \/ \E hw \in Hardware : Operate(hw[1], hw[2])
           \/ OpenGroup
           \/ CloseGroup
    PROVE  IInv' /\ [Promise!Next]_(Promise!vars)
<1>1. ledger \in LedgerType /\ call \in Calls /\ Len(ledger.overlaps) = call.groups
  BY DEF IInv, TypeOK, GroupsBelongToCallback
<1>2. ASSUME NEW hw \in Hardware, Operate(hw[1], hw[2])
      PROVE  IInv' /\ [Promise!Next]_(Promise!vars)
  <2>1. /\ FullyPriced(PriceOf(costs, hw[1], hw[2]))
        /\ ledger' = Charge(ledger, hw[1], hw[2], PriceOf(costs, hw[1], hw[2]))
        /\ call.fn # "none" /\ call.work > 0
        /\ call' = [call EXCEPT !.work = @ - 1]
        /\ UNCHANGED phase /\ RunUnchanged
    BY <1>2 DEF Operate, InCallback
  <2>2. /\ call' \in Calls /\ call'.fn = call.fn /\ call'.at = call.at
        /\ call'.groups = call.groups
    BY <1>1, <2>1 DEF Calls
  <2>3. /\ ledger' \in LedgerType
        /\ ledger'.charging = ledger.charging
        /\ Tally(ledger'.metrics) = Tally(ledger.metrics)
        /\ ~ledger.charging => ledger' = ledger
        /\ Len(ledger'.overlaps) = Len(ledger.overlaps)
    BY <2>1, ChargeIsWork
  <2> QED
    BY <1>1, <2>1, <2>2, <2>3, WorkStep
<1>3. ASSUME OpenGroup
      PROVE  IInv' /\ [Promise!Next]_(Promise!vars)
  <2>1. /\ ledger' = OpenOverlap(ledger)
        /\ call.fn # "none" /\ call.work > 0
        /\ call' = [call EXCEPT !.work = @ - 1, !.groups = @ + 1]
        /\ UNCHANGED phase /\ RunUnchanged
    BY <1>3 DEF OpenGroup, InCallback
  <2>2. /\ call' \in Calls /\ call'.fn = call.fn /\ call'.at = call.at
        /\ call'.groups = call.groups + 1
    <3>1. call.work - 1 \in Nat /\ call.groups + 1 \in Nat
      BY <1>1, <2>1 DEF Calls
    <3> QED
      BY <1>1, <2>1, <3>1 DEF Calls
  <2>3. /\ ledger' \in LedgerType
        /\ ledger'.charging = ledger.charging
        /\ ledger'.metrics = ledger.metrics
        /\ ledger'.charged = ledger.charged
        /\ ledger'.leakage = ledger.leakage
        /\ Len(ledger'.overlaps) = Len(ledger.overlaps) + 1
    BY <1>1, <2>1, OpenOverlapEffect
  <2> QED
    BY <1>1, <2>1, <2>2, <2>3, WorkStep
<1>4. ASSUME CloseGroup
      PROVE  IInv' /\ [Promise!Next]_(Promise!vars)
  <2>1. /\ call.groups > 0
        /\ ledger' = CloseOverlap(ledger)
        /\ call' = [call EXCEPT !.groups = @ - 1]
        /\ UNCHANGED phase /\ RunUnchanged
    BY <1>4 DEF CloseGroup
  <2>2. call.fn # "none"
    BY <2>1 DEF IInv, CallsMatchPhase, NoCall
  <2>3. /\ call' \in Calls /\ call'.fn = call.fn /\ call'.at = call.at
        /\ call'.groups = call.groups - 1
    BY <1>1, <2>1 DEF Calls
  <2>4. ledger.overlaps # <<>>
    BY <1>1, <2>1, EmptySeq
  <2>5. /\ Popped(ledger) \in LedgerType
        /\ ledger.overlaps[Len(ledger.overlaps)] \in Nat
        /\ Popped(ledger).metrics = ledger.metrics
        /\ Popped(ledger).charging = ledger.charging
        /\ ledger' = Push(Popped(ledger), ledger.overlaps[Len(ledger.overlaps)])
        /\ ledger' \in LedgerType
        /\ Len(ledger'.overlaps) = Len(ledger.overlaps) - 1
        /\ ledger'.charged = ledger.charged
        /\ ledger'.leakage = ledger.leakage
        /\ ledger'.charging = ledger.charging
    BY <1>1, <2>1, <2>4, CloseOverlapEffect
  <2>6. Tally(ledger'.metrics) = Tally(ledger.metrics)
    BY <2>5, PushTally
  <2>7. ~ledger.charging => ledger'.metrics = ledger.metrics
    BY <2>5 DEF Push
  <2> QED
    BY <1>1, <2>1, <2>2, <2>3, <2>5, <2>6, <2>7, WorkStep
<1> QED
  BY <1>2, <1>3, <1>4

LEMMA OutsideStep ==
    ASSUME IInv, NEW hw \in Hardware, OperateOutside(hw[1], hw[2])
    PROVE  IInv' /\ [Promise!Next]_(Promise!vars)
<1>1. /\ FullyPriced(PriceOf(costs, hw[1], hw[2]))
      /\ ledger' = Charge(ledger, hw[1], hw[2], PriceOf(costs, hw[1], hw[2]))
      /\ UNCHANGED <<phase, call>> /\ RunUnchanged
  BY DEF OperateOutside
<1>2. call \in Calls /\ Len(ledger.overlaps) = call.groups
  BY DEF IInv, TypeOK, GroupsBelongToCallback
<1>3. /\ ledger' \in LedgerType
      /\ ledger'.charging = ledger.charging
      /\ Tally(ledger'.metrics) = Tally(ledger.metrics)
      /\ ~ledger.charging => ledger' = ledger
      /\ Len(ledger'.overlaps) = Len(ledger.overlaps)
  BY <1>1, ChargeIsWork
<1> QED
  BY <1>1, <1>2, <1>3, WorkStep

LEMMA PanicStep ==
    ASSUME IInv,
           PredictUnscorable \/ \E hw \in Hardware : Panic(hw[1], hw[2])
    PROVE  IInv' /\ [Promise!Next]_(Promise!vars)
<1>1. /\ call.fn # "none" /\ phase # "unwinding"
      /\ ledger' \in {ledger, Tick(ledger)}
      /\ phase' = "unwinding"
      /\ UNCHANGED <<costs, config, trace, fetched, queue, call, result, runs,
                     carried, made, trained>>
  BY DEF PredictUnscorable, Panic, InCallback, RunUnchanged
<1>2. phase # "idle"
  BY <1>1 DEF IInv, CallsMatchPhase
<1>3. /\ ledger' \in LedgerType
      /\ ledger'.overlaps = ledger.overlaps
      /\ ledger'.metrics.total_predictions = ledger.metrics.total_predictions
      /\ Coherent(ledger'.metrics)
  BY <1>1, TickIsQuiet DEF IInv, TypeOK, ReportsAreCoherent
<1>4. TypeOK'
  BY <1>1, <1>3 DEF IInv, TypeOK, Phases
<1>5. /\ Positions' /\ QueueBounded' /\ CallsMatchPhase' /\ PhaseKnows' /\ Counting'
      /\ WarmupLeavesNoTrace'
  BY <1>1, <1>2
  DEF IInv, Positions, QueueBounded, CallsMatchPhase, PhaseKnows, Counting,
      WarmupLeavesNoTrace
<1>6. GroupsBelongToCallback' /\ ReportsAreCoherent' /\ FinishedRunIsComplete'
  BY <1>1, <1>3
  DEF IInv, GroupsBelongToCallback, ReportsAreCoherent, FinishedRunIsComplete
<1>7. [Promise!Next]_(Promise!vars)
  BY <1>1, <1>2, <1>3, Stutter
<1>8. ScoresMatchOutcomes'
  <2>1. Tally(ledger'.metrics) = Tally(ledger.metrics)
    BY <1>1, TickEffect DEF IInv, TypeOK
  <2> QED
    BY <1>1, <1>2, <2>1, ScoresKept DEF IInv
<1> QED
  BY <1>4, <1>5, <1>6, <1>7, <1>8 DEF IInv

LEMMA AbandonStep ==
    ASSUME IInv, Abandon
    PROVE  IInv' /\ [Promise!Next]_(Promise!vars)
<1>1. /\ phase = "unwinding" /\ call.groups = 0
      /\ phase' = "idle"
      /\ queue' = <<>>
      /\ call' = NoCall
      /\ UNCHANGED <<ledger, costs, config, trace, fetched, result, runs, carried,
                     made, trained>>
  BY DEF Abandon
<1>2. /\ call' \in Calls /\ call'.fn = "none" /\ call'.groups = 0
      /\ result = None
  BY <1>1 DEF IInv, CallsMatchPhase, NoCall, Calls
<1>3. TypeOK'
  BY <1>1, <1>2, EmptySeq DEF IInv, TypeOK, Phases
<1>4. /\ Positions' /\ QueueBounded' /\ CallsMatchPhase' /\ PhaseKnows' /\ Counting'
      /\ WarmupLeavesNoTrace'
  BY <1>1, <1>2
  DEF Positions, QueueBounded, CallsMatchPhase, PhaseKnows, Counting,
      WarmupLeavesNoTrace
<1>5. GroupsBelongToCallback' /\ ReportsAreCoherent' /\ FinishedRunIsComplete'
  BY <1>1, <1>2
  DEF IInv, GroupsBelongToCallback, ReportsAreCoherent, FinishedRunIsComplete
<1>6. JobOf(trace, config) # None
  BY NoneIsNothing, Shape DEF IInv, JobOf
<1>7. Promise!Abort
  BY <1>1, <1>6 DEF Promise!Abort
<1>8. ScoresMatchOutcomes'
  BY <1>1, ScoresKept DEF IInv
<1> QED
  BY <1>3, <1>4, <1>5, <1>7, <1>8 DEF IInv, Promise!Next, Promise!Advance

LEMMA InvNext == IInv /\ [Next]_vars => IInv' /\ [Promise!Next]_(Promise!vars)
<1> SUFFICES ASSUME IInv, [Next]_vars PROVE IInv' /\ [Promise!Next]_(Promise!vars)
  OBVIOUS
<1>1. CASE \E source \in Traces, chosen \in Configs, table \in CostTables, area \in Areas :
             Start(source, chosen, table, area)
  BY <1>1, StartStep
<1>2. CASE \E hw \in Hardware : OperateOutside(hw[1], hw[2])
  BY <1>2, OutsideStep
<1>3. CASE FetchWarmup \/ FetchMetered
  BY <1>3, FetchStep
<1>4. CASE LeaveWarmup \/ BeginMetered \/ LeaveMetered
  BY <1>4, GotoStep
<1>5. CASE Drain
  BY <1>5, DrainStep
<1>6. CASE Finish
  BY <1>6, FinishStep
<1>7. CASE \E outcome \in Outcomes : PredictReturns(outcome)
  BY <1>7, PredictReturnsStep
<1>8. CASE UpdateReturns
  BY <1>8, UpdateReturnsStep
<1>9. CASE PredictUnscorable \/ \E hw \in Hardware : Panic(hw[1], hw[2])
  BY <1>9, PanicStep
<1>10. CASE (\E hw \in Hardware : Operate(hw[1], hw[2])) \/ OpenGroup \/ CloseGroup
  BY <1>10, CallbackWorkStep
<1>11. CASE Abandon
  BY <1>11, AbandonStep
<1>12. CASE UNCHANGED vars
  <2>1. UNCHANGED <<ledger, costs, phase, config, trace, fetched, queue, call, result,
                    runs, carried, made, trained>>
    BY <1>12 DEF vars
  <2>2. TypeOK' /\ Positions' /\ QueueBounded' /\ CallsMatchPhase' /\ PhaseKnows'
    BY <2>1 DEF IInv, TypeOK, Positions, QueueBounded, CallsMatchPhase, PhaseKnows
  <2>3. /\ Counting' /\ GroupsBelongToCallback' /\ ReportsAreCoherent'
        /\ WarmupLeavesNoTrace' /\ FinishedRunIsComplete'
    BY <2>1 DEF IInv, Counting, Scored, GroupsBelongToCallback, ReportsAreCoherent,
                WarmupLeavesNoTrace, FinishedRunIsComplete
  <2>4. ScoresMatchOutcomes'
    BY <2>1, ScoresKept DEF IInv
  <2> QED
    BY <2>1, <2>2, <2>3, <2>4, Stutter DEF IInv
<1> QED
  BY <1>1, <1>2, <1>3, <1>4, <1>5, <1>6, <1>7, <1>8, <1>9, <1>10, <1>11, <1>12
  DEF Next, RunStep

-----------------------------------------------------------------------------
\* The invariant holds in every reachable state.
THEOREM Invariance == Spec => []IInv
BY InvInit, InvNext, PTL DEF Spec

\* Every variable of the run and of the thread keeps its type.
THEOREM TypeCorrect == Spec => []TypeOK
<1>1. IInv => TypeOK
  BY DEF IInv
<1> QED
  BY <1>1, Invariance, PTL

\* A stretch of a sequence that counts on from a prefix extends it.
LEMMA CountsOn ==
    ASSUME NEW a \in Nat, NEW s \in Seq(Nat), \A i \in 1..Len(s) : s[i] = a + i
    PROVE  [i \in 1..a |-> i] \o s = [i \in 1..(a + Len(s)) |-> i]
<1> DEFINE prefix == [i \in 1..a |-> i]
           all == [i \in 1..(a + Len(s)) |-> i]
<1>1. Len(s) \in Nat
  OBVIOUS
<1>2. /\ prefix \in Seq(Nat) /\ Len(prefix) = a
      /\ \A i \in 1..a : prefix[i] = i
  OBVIOUS
<1>3. /\ all \in Seq(Nat) /\ Len(all) = a + Len(s)
      /\ \A i \in 1..(a + Len(s)) : all[i] = i
  BY <1>1
<1> HIDE DEF prefix, all
<1>4. /\ prefix \o s \in Seq(Nat) /\ Len(prefix \o s) = a + Len(s)
      /\ \A i \in 1..(a + Len(s)) :
           (prefix \o s)[i] = IF i <= a THEN prefix[i] ELSE s[i - a]
  BY <1>2, ConcatProperties
<1>5. \A i \in 1..(a + Len(s)) : (prefix \o s)[i] = i
  <2> SUFFICES ASSUME NEW i \in 1..(a + Len(s)) PROVE (prefix \o s)[i] = i
    OBVIOUS
  <2>1. CASE i <= a
    <3>1. i \in 1..a
      BY <1>1, <2>1
    <3> QED
      BY <1>1, <1>2, <1>4, <2>1, <3>1
  <2>2. CASE i > a
    <3>1. i - a \in 1..Len(s)
      BY <1>1, <2>2
    <3> QED
      BY <1>1, <1>4, <2>2, <3>1
  <2>3. i <= a \/ i > a
    BY <1>1
  <2> QED
    BY <2>1, <2>2, <2>3
<1>6. prefix \o s = all
  BY <1>1, <1>3, <1>4, <1>5, SeqEqual
<1> QED
  BY <1>6 DEF prefix, all

\* The part of the pipeline a callback holds is one record or none.
LEMMA OngoingIsOne ==
    ASSUME NEW fn, call.fn = fn => call.at \in Nat
    PROVE  /\ Ongoing(fn) \in Seq(Nat)
           /\ Len(Ongoing(fn)) = One(call.fn = fn)
           /\ \A i \in 1..Len(Ongoing(fn)) : call.fn = fn /\ i = 1 /\ Ongoing(fn)[i] = call.at
<1>1. CASE call.fn = fn
  BY <1>1 DEF Ongoing, One
<1>2. CASE call.fn # fn
  <2>1. Ongoing(fn) = <<>> /\ One(call.fn = fn) = 0
    BY <1>2 DEF Ongoing, One
  <2> QED
    BY <2>1, EmptySeq
<1> QED
  BY <1>1, <1>2

\* Every fetched record is trained on, in update, queued or in predict, once
\* and in trace order.
THEOREM TrainedInOrder == Spec => []ExactlyOnceInOrder
<1>1. IInv => ExactlyOnceInOrder
  <2> SUFFICES ASSUME IInv, phase # "idle"
               PROVE  trained \o Ongoing("update") \o queue \o Ongoing("predict")
                        = [i \in 1..fetched |-> i]
    BY DEF ExactlyOnceInOrder
  <2> DEFINE t == Len(trained)
             u == One(call.fn = "update")
             q == Len(queue)
             p == One(call.fn = "predict")
             updating == Ongoing("update")
             predicting == Ongoing("predict")
  <2>1. /\ t \in Nat /\ q \in Nat /\ u \in Nat /\ p \in Nat /\ call.at \in Nat
        /\ trained \in Seq(Nat) /\ queue \in Seq(Nat)
    <3>1. t \in Nat /\ q \in Nat /\ u \in Nat /\ p \in Nat /\ call.at \in Nat
      BY Shape DEF IInv, One
    <3>2. 1..Len(trace) \subseteq Nat
      BY Shape DEF IInv
    <3> QED
      BY <3>1, <3>2, SeqMonotonic DEF IInv, TypeOK
  <2>2. /\ updating \in Seq(Nat) /\ Len(updating) = u
        /\ \A i \in 1..Len(updating) : call.fn = "update" /\ i = 1 /\ updating[i] = call.at
        /\ predicting \in Seq(Nat) /\ Len(predicting) = p
        /\ \A i \in 1..Len(predicting) : call.fn = "predict" /\ i = 1 /\ predicting[i] = call.at
    BY <2>1, OngoingIsOne
  <2>3. /\ Len(made) = t + u + q
        /\ fetched = Len(made) + p
        /\ call.fn = "predict" => call.at = fetched
        /\ call.fn = "update" => call.at = t + 1
        /\ \A i \in 1..t : trained[i] = i
        /\ \A i \in 1..q : queue[i] = t + u + i
    BY DEF IInv, Positions
  <2>4. call.fn = "predict" => p = 1 /\ u = 0
    BY DEF One
  <2> HIDE DEF t, u, q, p, updating, predicting
  <2>5. trained = [i \in 1..t |-> i]
    BY <2>1, <2>3 DEF t
  <2>6. trained \o updating = [i \in 1..(t + u) |-> i]
    <3>1. \A i \in 1..Len(updating) : updating[i] = t + i
      BY <2>2, <2>3
    <3> QED
      BY <2>1, <2>2, <2>5, <3>1, CountsOn
  <2>7. trained \o updating \o queue = [i \in 1..(t + u + q) |-> i]
    <3>1. \A i \in 1..Len(queue) : queue[i] = (t + u) + i
      BY <2>3 DEF q
    <3>2. [i \in 1..(t + u) |-> i] \o queue = [i \in 1..((t + u) + Len(queue)) |-> i]
      <4> DEFINE before == t + u
      <4>1. before \in Nat
        BY <2>1
      <4>2. \A i \in 1..Len(queue) : queue[i] = before + i
        BY <3>1
      <4> HIDE DEF before
      <4>3. [i \in 1..before |-> i] \o queue = [i \in 1..(before + Len(queue)) |-> i]
        BY <2>1, <4>1, <4>2, CountsOn
      <4> QED
        BY <4>3 DEF before
    <3> QED
      BY <2>6, <3>2 DEF q
  <2>8. trained \o updating \o queue \o predicting = [i \in 1..fetched |-> i]
    <3>1. \A i \in 1..Len(predicting) : predicting[i] = (t + u + q) + i
      BY <2>1, <2>2, <2>3, <2>4
    <3>2. t + u + q \in Nat /\ fetched = (t + u + q) + Len(predicting)
      BY <2>1, <2>2, <2>3
    <3>3. [i \in 1..(t + u + q) |-> i] \o predicting
            = [i \in 1..((t + u + q) + Len(predicting)) |-> i]
      BY <2>2, <3>1, <3>2, CountsOn
    <3> QED
      BY <2>7, <3>2, <3>3
  <2> QED
    BY <2>8 DEF updating, predicting
<1> QED
  BY <1>1, Invariance, PTL

\* The lag of training stays within Config::speculations.
THEOREM LagIsBounded == Spec => []LagBound
<1>1. IInv => LagBound
  <2> SUFFICES ASSUME IInv PROVE LagBound
    OBVIOUS
  <2>1. phase = "idle" => call.fn = "none"
    BY DEF IInv, CallsMatchPhase
  <2>2. call.fn = "predict" => One(call.fn = "update") = 0
    BY DEF One
  <2>3. call.fn = "update" => One(call.fn = "update") = 1
    BY DEF One
  <2>4. phase # "idle" =>
          /\ Len(made) = Len(trained) + One(call.fn = "update") + Len(queue)
          /\ Len(queue) <= config.speculations
    BY DEF IInv, Positions, QueueBounded
  <2> QED
    BY <2>1, <2>2, <2>3, <2>4, Shape DEF IInv, LagBound
<1> QED
  BY <1>1, Invariance, PTL

\* Exactly the callbacks on records after warmup are metered.
THEOREM MeteredExactly == Spec => []MeteredIffScored
<1>1. IInv => MeteredIffScored
  <2> SUFFICES ASSUME IInv, InCallback
               PROVE  ledger.charging <=> call.at > config.warmup
    BY DEF MeteredIffScored
  <2>1. phase \in {"warmup", "boundary", "metered", "final"} /\ call.fn \in {"predict", "update"}
    BY DEF IInv, InCallback, CallsMatchPhase, TypeOK, Phases, Calls
  <2>2. /\ call.at <= fetched
        /\ Len(trained) < call.at
        /\ fetched <= Len(trace)
    <3>1. CASE call.fn = "predict"
      <4>1. One(call.fn = "update") = 0 /\ One(call.fn = "predict") = 1
        BY <3>1 DEF One
      <4>2. /\ Len(made) = Len(trained) + 0 + Len(queue)
            /\ fetched = Len(made) + 1
            /\ call.at = fetched
        BY <2>1, <3>1, <4>1 DEF IInv, Positions
      <4> QED
        BY <4>2, Shape DEF IInv
    <3>2. CASE call.fn = "update"
      <4>1. One(call.fn = "update") = 1 /\ One(call.fn = "predict") = 0
        BY <3>2 DEF One
      <4>2. /\ Len(made) = Len(trained) + 1 + Len(queue)
            /\ fetched = Len(made) + 0
            /\ call.at = Len(trained) + 1
        BY <2>1, <3>2, <4>1 DEF IInv, Positions
      <4> QED
        BY <4>2, Shape DEF IInv
    <3> QED
      BY <2>1, <3>1, <3>2
  <2>3. CASE phase \in {"warmup", "boundary"}
    BY <2>2, <2>3, Shape DEF IInv, PhaseKnows
  <2>4. CASE phase \in {"metered", "final"}
    BY <2>2, <2>4, Shape DEF IInv, PhaseKnows
  <2> QED
    BY <2>1, <2>3, <2>4
<1> QED
  BY <1>1, Invariance, PTL

\* Warmup leaves nothing in the ledger but the run's storage.
THEOREM WarmupIsFree == Spec => []WarmupLeavesNoTrace
<1>1. IInv => WarmupLeavesNoTrace
  BY DEF IInv
<1> QED
  BY <1>1, Invariance, PTL

\* No group outlives its callback, panics included.
THEOREM GroupsEndWithCallbacks == Spec => []GroupsBelongToCallback
<1>1. IInv => GroupsBelongToCallback
  BY DEF IInv
<1> QED
  BY <1>1, Invariance, PTL

\* The counts of every run, and of the ledger at any time, are coherent.
THEOREM CountsAreCoherent == Spec => []ReportsAreCoherent
<1>1. IInv => ReportsAreCoherent
  BY DEF IInv
<1> QED
  BY <1>1, Invariance, PTL

\* A run that returns has trained on its whole trace and scored all of it that
\* lies after warmup.
THEOREM FinishedIsComplete == Spec => []FinishedRunIsComplete
<1>1. IInv => FinishedRunIsComplete
  BY DEF IInv
<1> QED
  BY <1>1, Invariance, PTL

\* The hits of every run are those of its outcomes' final stages.
THEOREM ScoresAreOfOutcomes == Spec => []ScoresMatchOutcomes
<1>1. IInv => ScoresMatchOutcomes
  BY DEF IInv
<1> QED
  BY <1>1, Invariance, PTL

\* What Report::new makes of coherent counts.
LEMMA CoherentReports ==
    ASSUME NEW m \in Metrics, Coherent(m), m.total_predictions < CountRange
    PROVE  Finite(ReportOf(m)) /\ Proportions(ReportOf(m)) /\ EnergyShares(ReportOf(m))
<1> DEFINE p == m.total_predictions
           h == m.total_hits
           d == m.direction_hits
           t == m.target_hits
           e == m.total_energy
           o == m.total_operations
           s == m.total_space
           r == ReportOf(m)
<1>1. /\ p \in Nat /\ h \in Nat /\ d \in Nat /\ t \in Nat
      /\ e \in Nat /\ o \in Nat /\ s \in Nat
  BY DEF Metrics
<1>2. /\ m.direction_predictions = p /\ m.target_predictions = p
      /\ d <= p /\ t <= p /\ h <= d /\ h <= t /\ d + t <= p + h
  BY DEF Coherent
<1>3. p < CountRange /\ CountRange \in Nat
  BY CountRangeAssumption
<1> HIDE DEF p, h, d, t, e, o, s
<1>4. ASSUME NEW a \in Nat, a <= p PROVE Minus(p, a) = p - a
  <2>1. p - a \in 0..(CountRange - 1)
    BY <1>1, <1>3, <1>4
  <2>2. ASSUME NEW n \in 0..(CountRange - 1) PROVE n % CountRange = n
    BY <1>3
  <2> QED
    BY <2>1, <2>2 DEF Minus
<1>5. /\ r.total_predictions = p /\ r.total_hits = h
      /\ r.total_misses = p - h
      /\ r.total_direction_misses = p - d
      /\ r.total_target_misses = p - t
      /\ r.hit_rate = Ratio(h, p) /\ r.miss_rate = Ratio(p - h, p)
      /\ r.direction_accuracy = Ratio(d, p) /\ r.target_accuracy = Ratio(t, p)
      /\ r.energy_per_prediction = Ratio(e, p)
      /\ r.energy_per_operation = Ratio(e, o)
      /\ r.energy_per_hit = Ratio(e, h)
      /\ r.energy_per_miss = Ratio(e, p - h)
      /\ r.energy_per_area = Ratio(e, s)
  <2>1. Minus(p, h) = p - h /\ Minus(p, d) = p - d /\ Minus(p, t) = p - t
    BY <1>1, <1>2, <1>4
  <2> QED
    BY <1>2, <2>1 DEF ReportOf, Misses, p, h, d, t, e, o, s
<1> HIDE DEF r
<1>6. ASSUME NEW a \in Nat, NEW b \in Nat PROVE Ratio(a, b).under > 0
  BY DEF Ratio, Fraction
<1>7. p - h \in Nat
  BY <1>1, <1>2
<1>8. Finite(r)
  BY <1>1, <1>5, <1>6, <1>7 DEF Finite, Ratios
\* Of two ratios over the same count the one of the greater numerator is the
\* greater, and over the smaller count if the numerator is the same.
<1>9. ASSUME NEW a \in Nat, NEW b \in Nat, a <= b PROVE AtMost(Ratio(a, p), Ratio(b, p))
  <2>1. CASE p = 0
    BY <2>1 DEF AtMost, Ratio, Fraction
  <2>2. CASE p # 0
    BY <1>1, <1>9, <2>2, TimesMonotone DEF AtMost, Ratio, Fraction
  <2> QED
    BY <2>1, <2>2
<1>10. ASSUME NEW a \in Nat, a > 0, a <= p PROVE AtMost(Ratio(e, p), Ratio(e, a))
  <2>1. a * e <= p * e
    BY <1>1, <1>10, TimesMonotone
  <2>2. e * a = a * e /\ e * p = p * e
    BY <1>1
  <2>3. Ratio(e, p) = Fraction(e, p) /\ Ratio(e, a) = Fraction(e, a)
    BY <1>1, <1>10 DEF Ratio
  <2> QED
    BY <2>1, <2>2, <2>3 DEF AtMost, Fraction
<1>11. p > 0 => r.hit_rate.over * r.miss_rate.under + r.miss_rate.over * r.hit_rate.under
                  = r.hit_rate.under * r.miss_rate.under
  <2> SUFFICES ASSUME p > 0 PROVE h * p + (p - h) * p = p * p
    BY <1>1, <1>5 DEF Ratio, Fraction
  <2> QED
    BY <1>1
<1>12. Proportions(r)
  <2>1. h + (p - h) = p /\ p - h <= (p - d) + (p - t)
    BY <1>1, <1>2
  <2> QED
    BY <1>1, <1>2, <1>5, <1>9, <1>11, <2>1 DEF Proportions
<1>13. EnergyShares(r)
  <2>1. h > 0 => AtMost(Ratio(e, p), Ratio(e, h))
    BY <1>1, <1>2, <1>10
  <2>2. p - h > 0 => AtMost(Ratio(e, p), Ratio(e, p - h))
    <3>1. p - h <= p
      BY <1>1
    <3> QED
      BY <1>7, <1>10, <3>1
  <2> QED
    BY <1>5, <2>1, <2>2 DEF EnergyShares
<1> QED
  BY <1>8, <1>12, <1>13 DEF r

\* Every report adds up, whatever happened on its thread before.
THEOREM EveryReportAddsUp == Spec => []ReportsAddUp
<1>1. IInv => ReportsAddUp
  <2> SUFFICES ASSUME IInv, result # None, result.total_predictions < CountRange
               PROVE  LET report == ReportOf(result)
                      IN  Finite(report) /\ Proportions(report) /\ EnergyShares(report)
    BY DEF ReportsAddUp
  <2>1. result \in Metrics /\ Coherent(result)
    BY DEF IInv, TypeOK, ReportsAreCoherent
  <2> QED
    BY <2>1, CoherentReports
<1> QED
  BY <1>1, Invariance, PTL

\* Every step of a run is a step of Pipeline or leaves its counters alone.
THEOREM StepsArePromised == Spec => Promise!Init /\ [][Promise!Next]_(Promise!vars)
BY InvInit, InvNext, Invariance, PTL DEF Spec

-----------------------------------------------------------------------------
(***************************************************************************)
(* Each step of a run uses up some of what it can still do.                *)
(***************************************************************************)
\* What a run can still do: in a callback of its own (an operation takes a step,
\* a group two), for each entry queued, for each record of the trace that is not
\* fetched, and from phase to phase.
OfUpdate(work, groups) == 2 * work + groups + 1
OfEntry == OfUpdate(MaxWork, 0) + 1
OfPredict(work, groups) == OfUpdate(work, groups) + OfEntry
OfRecord == OfPredict(MaxWork, 0) + 1

OfCall(callback) ==
    CASE callback.fn = "none" -> 0
      [] callback.fn = "update" -> OfUpdate(callback.work, callback.groups)
      [] callback.fn = "predict" -> OfPredict(callback.work, callback.groups)

OfPhase(place) ==
    CASE place = "warmup" -> 5
      [] place = "boundary" -> 4
      [] place = "metered" -> 3
      [] place = "final" -> 2
      [] place = "unwinding" -> 1

Remaining(place, callback, queued, unfetched) ==
    IF place = "idle" THEN 0
      ELSE OfPhase(place) + OfCall(callback) + OfEntry * queued + OfRecord * unfetched

StepsLeft == Remaining(phase, call, Len(queue), Len(trace) - fetched)

\* A run does nothing twice and goes back nowhere: each of its steps, in its loops,
\* in the callbacks, in the drains and in unwinding, uses up some of what the
\* length of the trace and the work of the callbacks allow it.
StepsRunOut == [][phase # "idle" => StepsLeft' \in 0..StepsLeft - 1]_vars

LEMMA Allowances ==
    /\ OfEntry \in Nat /\ OfRecord \in Nat
    /\ \A work, groups \in Nat :
         OfUpdate(work, groups) \in Nat /\ OfPredict(work, groups) \in Nat
    /\ OfUpdate(MaxWork, 0) + 1 = OfEntry
    /\ OfPredict(MaxWork, 0) + 1 = OfRecord
BY BoundsAssumption DEF OfEntry, OfRecord, OfUpdate, OfPredict

LEMMA CallAllowance ==
    ASSUME NEW callback \in Calls
    PROVE  OfCall(callback) \in Nat
BY Allowances DEF OfCall, Calls

\* What is left is counted in parts.
LEMMA RemainingParts ==
    ASSUME NEW place \in Phases \ {"idle"}, NEW c \in Nat, NEW queued \in Nat,
           NEW unfetched \in Nat, NEW callback, OfCall(callback) = c
    PROVE  /\ OfEntry * queued \in Nat /\ OfRecord * unfetched \in Nat
           /\ OfPhase(place) \in Nat \ {0}
           /\ Remaining(place, callback, queued, unfetched)
                = OfPhase(place) + c + OfEntry * queued + OfRecord * unfetched
<1>1. OfEntry * queued \in Nat /\ OfRecord * unfetched \in Nat
  BY Allowances, ProductIsNat
<1>2. OfPhase(place) \in Nat \ {0}
  BY DEF OfPhase, Phases
<1> QED
  BY <1>1, <1>2 DEF Remaining

LEMMA OneMore ==
    ASSUME NEW k \in Nat, NEW n \in Nat
    PROVE  k * (n + 1) = k * n + k /\ k * n \in Nat
BY ProductIsNat

\* The step of a run that shrinks Remaining, from the parts before and after.
LEMMA Shrinks ==
    ASSUME NEW place \in Phases \ {"idle"}, NEW place2 \in Phases \ {"idle"},
           NEW callback, NEW callback2,
           NEW c \in Nat, NEW c2 \in Nat, OfCall(callback) = c, OfCall(callback2) = c2,
           NEW q \in Nat, NEW q2 \in Nat, NEW u \in Nat, NEW u2 \in Nat,
           OfPhase(place2) + c2 + OfEntry * q2 + OfRecord * u2
             < OfPhase(place) + c + OfEntry * q + OfRecord * u
    PROVE  Remaining(place2, callback2, q2, u2) \in 0..Remaining(place, callback, q, u) - 1
<1>1. /\ OfEntry * q \in Nat /\ OfRecord * u \in Nat /\ OfPhase(place) \in Nat
      /\ Remaining(place, callback, q, u)
           = OfPhase(place) + c + OfEntry * q + OfRecord * u
  BY RemainingParts
<1>2. /\ OfEntry * q2 \in Nat /\ OfRecord * u2 \in Nat /\ OfPhase(place2) \in Nat
      /\ Remaining(place2, callback2, q2, u2)
           = OfPhase(place2) + c2 + OfEntry * q2 + OfRecord * u2
  BY RemainingParts
<1> QED
  BY <1>1, <1>2

\* The queue and the trace keep their length, or the run is over.
LEMMA CallbackShrinks ==
    ASSUME IInv, phase \in Phases \ {"idle"}, phase' \in Phases \ {"idle"},
           UNCHANGED <<trace, fetched, queue>>, call' \in Calls,
           OfPhase(phase') + OfCall(call') < OfPhase(phase) + OfCall(call)
    PROVE  StepsLeft' \in 0..StepsLeft - 1
<1>1. PICK q \in Nat, u \in Nat : q = Len(queue) /\ u = Len(trace) - fetched
  BY Shape DEF IInv
<1>2. Len(queue') = q /\ Len(trace') - fetched' = u
  BY <1>1
<1>3. PICK p, p2, c, c2, k, k2 : /\ p = phase /\ p2 = phase' /\ k = call /\ k2 = call'
                                 /\ c = OfCall(k) /\ c2 = OfCall(k2)
  OBVIOUS
<1>4. k \in Calls /\ k2 \in Calls /\ c \in Nat /\ c2 \in Nat
  BY <1>3, CallAllowance DEF IInv, TypeOK
<1>5. p \in Phases \ {"idle"} /\ p2 \in Phases \ {"idle"}
  BY <1>3
<1>6. PICK e \in Nat, r \in Nat : e = OfEntry * q /\ r = OfRecord * u
  BY Allowances, ProductIsNat
<1>7. OfPhase(p) \in Nat /\ OfPhase(p2) \in Nat
  BY <1>5 DEF OfPhase, Phases
<1>8. OfPhase(p2) + c2 + e + r < OfPhase(p) + c + e + r
  BY <1>3, <1>4, <1>7
<1>9. Remaining(p2, k2, q, u) \in 0..Remaining(p, k, q, u) - 1
  BY <1>3, <1>4, <1>5, <1>6, <1>8, Shrinks
<1> QED
  BY <1>1, <1>2, <1>3, <1>9 DEF StepsLeft

LEMMA InPhase ==
    ASSUME IInv, phase # "idle"
    PROVE  phase \in Phases \ {"idle"} /\ OfPhase(phase) \in Nat \ {0}
BY DEF IInv, TypeOK, Phases, OfPhase

\* From phase to phase.
LEMMA GotoShrinks ==
    ASSUME IInv, IInv', LeaveWarmup \/ BeginMetered \/ LeaveMetered
    PROVE  StepsLeft' \in 0..StepsLeft - 1
<1>1. /\ UNCHANGED <<trace, fetched, queue, call>>
      /\ \/ phase = "warmup" /\ phase' = "boundary"
         \/ phase = "boundary" /\ phase' = "metered"
         \/ phase = "metered" /\ phase' = "final"
  BY DEF LeaveWarmup, BeginMetered, LeaveMetered, Goto
<1>2. phase \in Phases \ {"idle"} /\ phase' \in Phases \ {"idle"} /\ OfPhase(phase') < OfPhase(phase)
  BY <1>1 DEF Phases, OfPhase
<1>3. OfCall(call) \in Nat /\ call' \in Calls /\ OfCall(call') = OfCall(call)
  BY <1>1, CallAllowance DEF IInv, TypeOK
<1>4. OfPhase(phase) \in Nat /\ OfPhase(phase') \in Nat
  BY <1>2 DEF Phases, OfPhase
<1>5. OfPhase(phase') + OfCall(call') < OfPhase(phase) + OfCall(call)
  BY <1>2, <1>3, <1>4
<1> QED
  BY <1>1, <1>2, <1>3, <1>5, CallbackShrinks

\* In a callback.
LEMMA WorkShrinks ==
    ASSUME IInv, IInv',
           \/ \E hw \in Hardware : Operate(hw[1], hw[2])
           \/ OpenGroup \/ CloseGroup \/ UpdateReturns
    PROVE  phase # "idle" => StepsLeft' \in 0..StepsLeft - 1
<1> SUFFICES ASSUME phase # "idle" PROVE StepsLeft' \in 0..StepsLeft - 1
  OBVIOUS
<1>1. call \in Calls /\ call' \in Calls /\ (call.fn = "none" => call.groups = 0)
  BY DEF IInv, TypeOK, CallsMatchPhase, NoCall
<1>2. phase' = phase /\ UNCHANGED <<trace, fetched, queue>>
  BY DEF Operate, OpenGroup, CloseGroup, UpdateReturns, RunUnchanged
<1>3. PICK fn : fn = call.fn
  OBVIOUS
<1>4. call.work \in Nat /\ call.groups \in Nat
  BY <1>1 DEF Calls
<1>5. PICK w \in Nat, g \in Nat : w = call.work /\ g = call.groups
  BY <1>4
<1>6. fn \in {"predict", "update"}
  BY <1>1, <1>3, <1>5 DEF Operate, OpenGroup, CloseGroup, UpdateReturns, InCallback, Calls
<1>7. \/ call'.fn = fn /\ w > 0 /\ call'.work = w - 1 /\ call'.groups = g
      \/ call'.fn = fn /\ w > 0 /\ call'.work = w - 1 /\ call'.groups = g + 1
      \/ call'.fn = fn /\ g > 0 /\ call'.work = w /\ call'.groups = g - 1
      \/ fn = "update" /\ call'.fn = "none"
  <2>1. CASE \E hw \in Hardware : Operate(hw[1], hw[2])
    BY <1>1, <1>3, <1>5, <2>1 DEF Operate, Calls
  <2>2. CASE OpenGroup
    BY <1>1, <1>3, <1>5, <2>2 DEF OpenGroup, Calls
  <2>3. CASE CloseGroup
    BY <1>1, <1>3, <1>5, <2>3 DEF CloseGroup, Calls
  <2>4. CASE UpdateReturns
    BY <1>3, <1>5, <2>4 DEF UpdateReturns, NoCall
  <2> QED
    BY <2>1, <2>2, <2>3, <2>4
<1>8. PICK e \in Nat : e = OfEntry
  BY Allowances
<1>9. OfCall(call) = 2 * w + g + 1 + (IF fn = "predict" THEN e ELSE 0)
  BY <1>3, <1>5, <1>6, <1>8 DEF OfCall, OfPredict, OfUpdate
<1>10. OfCall(call') < OfCall(call) /\ OfCall(call') \in Nat /\ OfCall(call) \in Nat
  <2>1. CASE call'.fn = "none"
    <3>1. OfCall(call') = 0
      BY <2>1 DEF OfCall
    <3> QED
      BY <1>9, <3>1
  <2>2. CASE call'.fn # "none"
    <3>1. PICK w2 \in Nat, g2 \in Nat : w2 = call'.work /\ g2 = call'.groups
      BY <1>1 DEF Calls
    <3>2. call'.fn = fn /\ 2 * w2 + g2 < 2 * w + g
      BY <1>7, <2>2, <3>1
    <3>3. OfCall(call') = 2 * w2 + g2 + 1 + (IF fn = "predict" THEN e ELSE 0)
      BY <1>6, <1>8, <3>1, <3>2 DEF OfCall, OfPredict, OfUpdate
    <3> QED
      BY <1>9, <3>2, <3>3
  <2> QED
    BY <2>1, <2>2
<1>11. phase \in Phases \ {"idle"} /\ OfPhase(phase) \in Nat
  BY InPhase
<1>12. OfPhase(phase') + OfCall(call') < OfPhase(phase) + OfCall(call)
  BY <1>2, <1>10, <1>11
<1> QED
  BY <1>1, <1>2, <1>11, <1>12, CallbackShrinks

\* A panic ends the run but for its unwinding.
LEMMA PanicShrinks ==
    ASSUME IInv, IInv', PredictUnscorable \/ \E hw \in Hardware : Panic(hw[1], hw[2])
    PROVE  phase # "idle" => StepsLeft' \in 0..StepsLeft - 1
<1> SUFFICES ASSUME phase # "idle" PROVE StepsLeft' \in 0..StepsLeft - 1
  OBVIOUS
<1>1. /\ UNCHANGED <<trace, fetched, queue, call>> /\ phase' = "unwinding"
      /\ phase # "unwinding"
  BY DEF PredictUnscorable, Panic, InCallback, RunUnchanged
<1>2. phase \in Phases \ {"idle"} /\ phase' \in Phases \ {"idle"} /\ OfPhase(phase') < OfPhase(phase)
  BY <1>1, InPhase DEF Phases, OfPhase
<1>3. OfCall(call) \in Nat /\ call' \in Calls /\ OfCall(call') = OfCall(call)
  BY <1>1, CallAllowance DEF IInv, TypeOK
<1>4. OfPhase(phase) \in Nat /\ OfPhase(phase') \in Nat
  BY <1>2 DEF Phases, OfPhase
<1>5. OfPhase(phase') + OfCall(call') < OfPhase(phase) + OfCall(call)
  BY <1>2, <1>3, <1>4
<1> QED
  BY <1>1, <1>2, <1>3, <1>5, CallbackShrinks

\* The end, by Finish or after unwinding.
LEMMA EndShrinks ==
    ASSUME IInv, phase # "idle", phase' = "idle"
    PROVE  StepsLeft' \in 0..StepsLeft - 1
<1>1. PICK q \in Nat, u \in Nat, c \in Nat :
        q = Len(queue) /\ u = Len(trace) - fetched /\ c = OfCall(call)
  <2>1. Len(queue) \in Nat /\ Len(trace) - fetched \in Nat
    BY Shape DEF IInv
  <2>2. OfCall(call) \in Nat
    BY CallAllowance DEF IInv, TypeOK
  <2> QED
    BY <2>1, <2>2
<1>2. /\ OfEntry * q \in Nat /\ OfRecord * u \in Nat /\ OfPhase(phase) \in Nat \ {0}
      /\ StepsLeft = OfPhase(phase) + c + OfEntry * q + OfRecord * u
  BY <1>1, InPhase, RemainingParts DEF StepsLeft
<1>3. StepsLeft' = 0
  BY DEF StepsLeft, Remaining
<1>4. PICK p \in Nat \ {0}, e \in Nat, r \in Nat :
        p = OfPhase(phase) /\ e = OfEntry * q /\ r = OfRecord * u
  BY <1>2
<1>5. StepsLeft = p + c + e + r
  BY <1>2, <1>4
<1> QED
  BY <1>3, <1>5

\* A record is fetched, predicted, queued and trained once.
LEMMA FetchShrinks ==
    ASSUME IInv, IInv', FetchWarmup \/ FetchMetered
    PROVE  StepsLeft' \in 0..StepsLeft - 1
<1>1. /\ phase \in Phases \ {"idle"} /\ phase' = phase
      /\ call.fn = "none" /\ call' = Callback("predict", fetched + 1)
      /\ fetched' = fetched + 1 /\ fetched < Len(trace) /\ UNCHANGED <<trace, queue>>
  BY DEF FetchWarmup, FetchMetered, Fetch, Idle, Phases
<1>2. PICK q \in Nat, u \in Nat : q = Len(queue) /\ u = Len(trace) - fetched - 1
  BY <1>1, Shape DEF IInv
<1>3. Len(trace) - fetched = u + 1 /\ Len(trace') - fetched' = u
  BY <1>1, <1>2, Shape DEF IInv
<1>4. PICK c2 \in Nat : c2 = OfPredict(MaxWork, 0)
  BY Allowances, BoundsAssumption
<1>5. OfCall(call) = 0 /\ OfCall(call') = c2
  BY <1>1, <1>4 DEF OfCall, Callback
<1>6. PICK e \in Nat, r \in Nat, s \in Nat, p \in Nat :
        e = OfEntry * q /\ r = OfRecord * u /\ s = OfRecord /\ p = OfPhase(phase)
  BY <1>1, Allowances, ProductIsNat DEF OfPhase, Phases
<1>7. OfRecord * (u + 1) = r + s /\ c2 + 1 = s
  BY <1>4, <1>6, Allowances, OneMore
<1>8. OfPhase(phase) + c2 + OfEntry * q + OfRecord * u
        < OfPhase(phase) + 0 + OfEntry * q + OfRecord * (u + 1)
  BY <1>6, <1>7
<1>9. Remaining(phase, call', q, u) \in 0..Remaining(phase, call, q, u + 1) - 1
  BY <1>1, <1>5, <1>8, Shrinks
<1> QED
  BY <1>1, <1>2, <1>3, <1>9 DEF StepsLeft

LEMMA DrainShrinks ==
    ASSUME IInv, IInv', Drain
    PROVE  StepsLeft' \in 0..StepsLeft - 1
<1>1. /\ phase \in Phases \ {"idle"} /\ phase' = phase
      /\ call.fn = "none" /\ call' = Callback("update", Head(queue))
      /\ queue # <<>> /\ queue' = Tail(queue) /\ UNCHANGED <<trace, fetched>>
  BY DEF Drain, Idle, Phases
<1>2. PICK q \in Nat, u \in Nat : q + 1 = Len(queue) /\ u = Len(trace) - fetched
  <2>1. Len(queue) \in Nat \ {0}
    BY <1>1, EmptySeq DEF IInv, TypeOK
  <2>2. Len(queue) - 1 \in Nat /\ (Len(queue) - 1) + 1 = Len(queue)
    BY <2>1
  <2>3. Len(trace) - fetched \in Nat
    BY Shape DEF IInv
  <2> QED
    BY <2>2, <2>3
<1>3. Len(queue') = q /\ Len(trace') - fetched' = u
  BY <1>1, <1>2, HeadTailProperties DEF IInv, TypeOK
<1>4. PICK c2 \in Nat : c2 = OfUpdate(MaxWork, 0)
  BY Allowances, BoundsAssumption
<1>5. OfCall(call) = 0 /\ OfCall(call') = c2
  BY <1>1, <1>4 DEF OfCall, Callback
<1>6. PICK e \in Nat, r \in Nat, s \in Nat, p \in Nat :
        e = OfEntry * q /\ r = OfRecord * u /\ s = OfEntry /\ p = OfPhase(phase)
  BY <1>1, Allowances, ProductIsNat DEF OfPhase, Phases
<1>7. OfEntry * (q + 1) = e + s /\ c2 + 1 = s
  BY <1>4, <1>6, Allowances, OneMore
<1>8. OfPhase(phase) + c2 + OfEntry * q + OfRecord * u
        < OfPhase(phase) + 0 + OfEntry * (q + 1) + OfRecord * u
  BY <1>6, <1>7
<1>9. Remaining(phase, call', q, u) \in 0..Remaining(phase, call, q + 1, u) - 1
  BY <1>1, <1>5, <1>8, Shrinks
<1> QED
  BY <1>1, <1>2, <1>3, <1>9 DEF StepsLeft

LEMMA PredictShrinks ==
    ASSUME IInv, IInv', NEW outcome \in Outcomes, PredictReturns(outcome)
    PROVE  phase # "idle" => StepsLeft' \in 0..StepsLeft - 1
<1> SUFFICES ASSUME phase # "idle" PROVE StepsLeft' \in 0..StepsLeft - 1
  OBVIOUS
<1>1. /\ phase \in Phases \ {"idle"} /\ phase' = phase /\ UNCHANGED <<trace, fetched>>
      /\ call.fn = "predict" /\ call.groups = 0 /\ call.work \in Nat
      /\ call.at \in 1..Len(trace)
  BY InPhase DEF PredictReturns, Enqueue, IInv, TypeOK, Calls
<1>2. PICK q \in Nat, u \in Nat : q = Len(queue) /\ u = Len(trace) - fetched
  BY Shape DEF IInv
<1>3. Len(trace') - fetched' = u
  BY <1>1, <1>2
<1>4. PICK s \in Nat, c \in Nat, w \in Nat, full \in Nat :
        /\ s = OfEntry /\ w = call.work /\ c = OfPredict(w, 0) /\ full = OfUpdate(MaxWork, 0)
        /\ c = 2 * w + 1 + s /\ full + 1 = s
  <2>1. PICK w \in Nat : w = call.work
    BY <1>1
  <2>2. OfPredict(w, 0) = 2 * w + 1 + OfEntry
    <3>1. OfUpdate(w, 0) = 2 * w + 1
      BY DEF OfUpdate
    <3> QED
      BY <3>1 DEF OfPredict
  <2>3. OfEntry \in Nat /\ OfPredict(w, 0) \in Nat /\ OfUpdate(MaxWork, 0) \in Nat
    BY Allowances, BoundsAssumption
  <2> QED
    BY <2>1, <2>2, <2>3, Allowances
<1>5. OfCall(call) = c
  BY <1>1, <1>4 DEF OfCall
<1>6. PICK e \in Nat, r \in Nat, p \in Nat :
        e = OfEntry * q /\ r = OfRecord * u /\ p = OfPhase(phase)
  BY <1>1, Allowances, ProductIsNat DEF OfPhase, Phases
<1>7. PICK longer : longer = Append(queue, call.at)
  OBVIOUS
<1>8. longer # <<>> /\ longer \in Seq(1..Len(trace)) /\ Len(longer) = q + 1
  <2>1. PICK S : S = 1..Len(trace)
    OBVIOUS
  <2>2. queue \in Seq(S) /\ call.at \in S
    BY <1>1, <2>1 DEF IInv, TypeOK
  <2>3. longer \in Seq(S) /\ longer # <<>> /\ Len(longer) = Len(queue) + 1
    BY <1>7, <2>2, AppendProperties
  <2> QED
    BY <1>1, <1>2, <2>1, <2>3
<1>9. CASE queue' = longer /\ call' = NoCall
  <2>1. OfCall(call') = 0
    BY <1>9 DEF OfCall, NoCall
  <2>2. OfEntry * (q + 1) = e + s
    BY <1>4, <1>6, OneMore
  <2>3. OfPhase(phase) + 0 + OfEntry * (q + 1) + OfRecord * u
          < OfPhase(phase) + c + OfEntry * q + OfRecord * u
    BY <1>4, <1>6, <2>2
  <2>4. Remaining(phase, call', q + 1, u) \in 0..Remaining(phase, call, q, u) - 1
    BY <1>1, <1>5, <2>1, <2>3, Shrinks
  <2> QED
    BY <1>1, <1>2, <1>3, <1>8, <1>9, <2>4 DEF StepsLeft
<1>10. CASE queue' = Tail(longer) /\ call' = Callback("update", Head(longer))
  <2>1. OfCall(call') = full
    BY <1>4, <1>10 DEF OfCall, Callback
  <2>2. Len(queue') = q
    BY <1>8, <1>10, HeadTailProperties
  <2>3. OfPhase(phase) + full + OfEntry * q + OfRecord * u
          < OfPhase(phase) + c + OfEntry * q + OfRecord * u
    BY <1>4, <1>6
  <2>4. Remaining(phase, call', q, u) \in 0..Remaining(phase, call, q, u) - 1
    BY <1>1, <1>4, <1>5, <2>1, <2>3, Shrinks
  <2> QED
    BY <1>1, <1>2, <1>3, <2>2, <2>4 DEF StepsLeft
<1> QED
  BY <1>7, <1>9, <1>10 DEF PredictReturns, Enqueue

\* A run does nothing twice: each of its steps uses up some of what the length of
\* its trace and the work of its callbacks allow it, so run_one's loops and drains
\* cannot go on for ever.
THEOREM EveryRunRunsOut == Spec => StepsRunOut
<1>1. ASSUME IInv, IInv', [Next]_vars, ~UNCHANGED vars, phase # "idle"
      PROVE  StepsLeft' \in 0..StepsLeft - 1
  <2>1. RunStep
    BY <1>1 DEF Next, Start, OperateOutside
  <2>2. CASE FetchWarmup \/ FetchMetered
    BY <1>1, <2>2, FetchShrinks
  <2>3. CASE LeaveWarmup \/ BeginMetered \/ LeaveMetered
    BY <1>1, <2>3, GotoShrinks
  <2>4. CASE Drain
    BY <1>1, <2>4, DrainShrinks
  <2>5. CASE Finish \/ Abandon
    <3>1. phase' = "idle"
      BY <2>5 DEF Finish, Abandon
    <3> QED
      BY <1>1, <3>1, EndShrinks
  <2>6. CASE \E outcome \in Outcomes : PredictReturns(outcome)
    BY <1>1, <2>6, PredictShrinks
  <2>7. CASE PredictUnscorable \/ \E hw \in Hardware : Panic(hw[1], hw[2])
    BY <1>1, <2>7, PanicShrinks
  <2>8. CASE (\E hw \in Hardware : Operate(hw[1], hw[2])) \/ OpenGroup \/ CloseGroup \/ UpdateReturns
    BY <1>1, <2>8, WorkShrinks
  <2> QED
    BY <2>1, <2>2, <2>3, <2>4, <2>5, <2>6, <2>7, <2>8 DEF RunStep
<1>2. IInv /\ IInv' /\ [Next]_vars => [phase # "idle" => StepsLeft' \in 0..StepsLeft - 1]_vars
  BY <1>1
<1> QED
  BY <1>2, Invariance, PTL DEF Spec, StepsRunOut
=============================================================================
