------------------------------ MODULE Simulator ------------------------------
(***************************************************************************)
(* Simulator::run_one and its Queue (src/ramus/src/simulator.rs): one      *)
(* thread that performs runs one after the other.  A run fetches the       *)
(* records of a trace in order, has each predicted at once, scores the     *)
(* prediction after warmup, and trains the predictor on the record once it *)
(* leaves a queue of bounded length.                                       *)
(*                                                                         *)
(* The predictor is the user's code.  Between two of its returns it may    *)
(* execute metered operations and open and close overlap groups; an        *)
(* operation without a price panics, which drops the open groups and       *)
(* abandons the run.  The thread survives the panic when a caller catches  *)
(* it, and its ledger stays as it is.                                      *)
(*                                                                         *)
(* A record is its position in the trace.                                  *)
(***************************************************************************)
EXTENDS Ledger, FiniteSets

CONSTANTS
    Targets,        \* next addresses, actual or predicted
    Delays,         \* delays of a predictor's stages
    Traces,         \* the traces a run can be given
    Configs,        \* the run configurations
    CostTables,     \* the cost tables
    Outcomes,       \* what Predictor::predict may return
    Areas,          \* what Predictor::size may return
    Hardware,       \* the <<operation, size>> pairs callbacks may execute
    None,           \* no result yet
    MaxRuns,        \* bound: runs of the thread
    MaxWork,        \* bound: operations and groups of one callback
    MaxOutside      \* bound: operations on the ledger before a run starts

Stage == [delay : Delays, taken : BOOLEAN, target : Targets]
Record == [taken : BOOLEAN, next : Targets]
Config == [warmup : Nat, speculations : Nat]

ASSUME DelaysAssumption == Delays \subseteq Nat /\ Areas \subseteq Nat
ASSUME TracesAssumption == Traces \subseteq Seq(Record)
ASSUME ConfigsAssumption == Configs \subseteq Config
ASSUME CostTablesAssumption == CostTables \subseteq Costs
ASSUME OutcomesAssumption == Outcomes \subseteq Seq(Stage)
ASSUME HardwareAssumption == Hardware \subseteq Operations \X Nat
ASSUME NoneIsNothing ==
    None \notin Metrics \cup [length : Nat, warmup : Nat, speculations : Nat]
ASSUME BoundsAssumption == {MaxRuns, MaxWork, MaxOutside} \subseteq Nat

VARIABLES
    ledger,         \* LEDGER
    costs,          \* COSTS
    phase,          \* where run_one stands
    config,         \* the run's Config
    trace,          \* the run's Source
    fetched,        \* records fetched so far
    queue,          \* Queue::items, oldest first
    call,           \* the predictor's callback in progress
    result,         \* what the last run returned
    runs,           \* runs started
    carried,        \* history: the ledger as the run found it
    made,           \* history: the run's outcomes, in the order of prediction
    trained         \* history: the records trained on, in order

vars == <<ledger, costs, phase, config, trace, fetched, queue, call, result,
          runs, carried, made, trained>>

Phases == {"idle", "warmup", "boundary", "metered", "final", "unwinding"}

\* A callback: which one, on which record, its remaining work and open groups.
Calls == [fn : {"none", "predict", "update"}, at : Nat, work : Nat, groups : Nat]

NoCall == [fn |-> "none", at |-> 0, work |-> 0, groups |-> 0]

Callback(fn, record) == [fn |-> fn, at |-> record, work |-> MaxWork, groups |-> 0]

TypeOK ==
    /\ ledger \in LedgerType
    /\ costs \in Costs
    /\ phase \in Phases
    /\ config \in Config
    /\ trace \in Seq(Record)
    /\ fetched \in 0..Len(trace)
    /\ queue \in Seq(1..Len(trace))
    /\ call \in Calls
    /\ call.fn # "none" => call.at \in 1..Len(trace)
    /\ result \in Metrics \cup {None}
    /\ runs \in Nat
    /\ carried \in LedgerType
    /\ made \in Seq(Seq(Stage))
    /\ trained \in Seq(1..Len(trace))

Init ==
    /\ ledger = NewLedger
    /\ costs = NoCosts
    /\ phase = "idle"
    /\ config = [warmup |-> 0, speculations |-> 0]
    /\ trace = <<>>
    /\ fetched = 0
    /\ queue = <<>>
    /\ call = NoCall
    /\ result = None
    /\ runs = 0
    /\ carried = NewLedger
    /\ made = <<>>
    /\ trained = <<>>

Idle == call.fn = "none"
InCallback == call.fn # "none" /\ phase # "unwinding"

-----------------------------------------------------------------------------
(***************************************************************************)
(* run_one.                                                                *)
(***************************************************************************)

\* Steps 1 to 3: the ledger is not reset, only charged for storage and
\* switched off.
Start(source, chosen, table, area) ==
    /\ phase = "idle" /\ runs < MaxRuns
    /\ costs' = table
    /\ carried' = ledger
    /\ ledger' = Turn(Storage(ledger, area), FALSE)
    /\ phase' = "warmup"
    /\ trace' = source
    /\ config' = chosen
    /\ fetched' = 0
    /\ queue' = <<>>
    /\ runs' = runs + 1
    /\ result' = None
    /\ made' = <<>>
    /\ trained' = <<>>
    /\ UNCHANGED call

\* Mutant: the end of the trace is not noticed.
Fetch_NoEnd ==
    /\ fetched' = fetched + 1
    /\ call' = Callback("predict", fetched + 1)
    /\ UNCHANGED <<ledger, costs, phase, config, trace, queue, result, runs,
                   carried, made, trained>>

\* source.fetch yields a record and Queue::feed hands it to predict.
Fetch ==
    /\ fetched < Len(trace)
    /\ fetched' = fetched + 1
    /\ call' = Callback("predict", fetched + 1)
    /\ UNCHANGED <<ledger, costs, phase, config, trace, queue, result, runs,
                   carried, made, trained>>

FetchWarmup == phase = "warmup" /\ Idle /\ fetched < config.warmup /\ Fetch

FetchMetered == phase = "metered" /\ Idle /\ Fetch

Goto(place) ==
    /\ phase' = place
    /\ UNCHANGED <<costs, config, trace, fetched, queue, call, result, runs,
                   carried, made, trained>>

\* Mutant: the warmup loop ends by its count only.
LeaveWarmup_NoBreak ==
    /\ phase = "warmup" /\ Idle
    /\ fetched = config.warmup
    /\ Goto("boundary")
    /\ UNCHANGED ledger

\* The warmup loop ends by its count or by the end of the trace.
LeaveWarmup ==
    /\ phase = "warmup" /\ Idle
    /\ fetched = config.warmup \/ fetched = Len(trace)
    /\ Goto("boundary")
    /\ UNCHANGED ledger

\* Mutant: the newest entry is resolved first.
Drain_Newest ==
    /\ phase \in {"boundary", "final"} /\ Idle
    /\ queue # <<>>
    /\ call' = Callback("update", queue[Len(queue)])
    /\ queue' = SubSeq(queue, 1, Len(queue) - 1)
    /\ UNCHANGED <<ledger, costs, phase, config, trace, fetched, result, runs,
                   carried, made, trained>>

\* Queue::drain, before the switch of metering and at the end of the trace.
Drain ==
    /\ phase \in {"boundary", "final"} /\ Idle
    /\ queue # <<>>
    /\ call' = Callback("update", Head(queue))
    /\ queue' = Tail(queue)
    /\ UNCHANGED <<ledger, costs, phase, config, trace, fetched, result, runs,
                   carried, made, trained>>

\* Mutant: metering is switched on before the warmup records are resolved.
BeginMetered_Undrained ==
    /\ phase = "boundary" /\ Idle
    /\ ledger' = Turn(ledger, TRUE)
    /\ Goto("metered")

BeginMetered ==
    /\ phase = "boundary" /\ Idle
    /\ queue = <<>>
    /\ ledger' = Turn(ledger, TRUE)
    /\ Goto("metered")

LeaveMetered ==
    /\ phase = "metered" /\ Idle
    /\ fetched = Len(trace)
    /\ Goto("final")
    /\ UNCHANGED ledger

\* Mutant: the run returns with predictions still queued.
Finish_Undrained ==
    /\ phase = "final" /\ Idle
    /\ result' = ledger.metrics
    /\ ledger' = NewLedger
    /\ phase' = "idle"
    /\ UNCHANGED <<costs, config, trace, fetched, queue, call, runs, carried,
                   made, trained>>

\* Metrics::reset.
Finish ==
    /\ phase = "final" /\ Idle
    /\ queue = <<>>
    /\ result' = ledger.metrics
    /\ ledger' = NewLedger
    /\ phase' = "idle"
    /\ UNCHANGED <<costs, config, trace, fetched, queue, call, runs, carried,
                   made, trained>>

-----------------------------------------------------------------------------
(***************************************************************************)
(* Queue::feed and Queue::drain, when the predictor returns.               *)
(***************************************************************************)
Scoring == phase = "metered"

\* Mutant: the last stage made counts, whatever its delay.
Final_LastMade(outcome) == outcome[Len(outcome)]

\* The prediction that counts: of the greatest delay, the last one made.
Final(outcome) ==
    outcome[CHOOSE i \in DOMAIN outcome :
              \A j \in DOMAIN outcome :
                \/ outcome[j].delay < outcome[i].delay
                \/ outcome[j].delay = outcome[i].delay /\ j <= i]

\* Mutant: one matching field is taken for an exact hit.
Score_Either(scored, outcome, record) ==
    LET final == Final(outcome)
        direction == final.taken = record.taken
        target == final.target = record.next
    IN  Prediction(Push(scored, final.delay),
                   direction \/ target, direction, target)

\* Outcome::collate and Metrics::prediction.
Score(scored, outcome, record) ==
    LET final == Final(outcome)
        direction == final.taken = record.taken
        target == final.target = record.next
    IN  Prediction(Push(scored, final.delay),
                   direction /\ target, direction, target)

\* Mutant: the queue holds one entry more than its capacity.
Enqueue_OneMore(record) ==
    LET longer == Append(queue, record)
    IN  IF Len(longer) > config.speculations + 1
          THEN /\ queue' = Tail(longer)
               /\ call' = Callback("update", Head(longer))
          ELSE /\ queue' = longer
               /\ call' = NoCall

\* The record just predicted joins the queue; over capacity, the oldest leaves
\* it for update before anything else is fetched.
Enqueue(record) ==
    LET longer == Append(queue, record)
    IN  IF Len(longer) > config.speculations
          THEN /\ queue' = Tail(longer)
               /\ call' = Callback("update", Head(longer))
          ELSE /\ queue' = longer
               /\ call' = NoCall

PredictReturns(outcome) ==
    /\ InCallback /\ call.fn = "predict" /\ call.groups = 0
    /\ Scoring => outcome # <<>>
    /\ ledger' = IF Scoring THEN Score(Tick(ledger), outcome, trace[call.at])
                            ELSE Tick(ledger)
    /\ made' = Append(made, outcome)
    /\ Enqueue(call.at)
    /\ UNCHANGED <<costs, phase, config, trace, fetched, result, runs, carried,
                   trained>>

\* Outcome::default has no stage to score: collate panics, but only once
\* warmup is over.
PredictUnscorable ==
    /\ InCallback /\ call.fn = "predict" /\ call.groups = 0
    /\ Scoring /\ <<>> \in Outcomes
    /\ ledger' = Tick(ledger)
    /\ phase' = "unwinding"
    /\ UNCHANGED <<costs, config, trace, fetched, queue, call, result, runs,
                   carried, made, trained>>

UpdateReturns ==
    /\ InCallback /\ call.fn = "update" /\ call.groups = 0
    /\ ledger' = Tick(ledger)
    /\ trained' = Append(trained, call.at)
    /\ call' = NoCall
    /\ UNCHANGED <<costs, phase, config, trace, fetched, queue, result, runs,
                   carried, made>>

-----------------------------------------------------------------------------
(***************************************************************************)
(* The predictor's own steps, and those of the thread between two runs.    *)
(***************************************************************************)
RunUnchanged == UNCHANGED <<costs, config, trace, fetched, queue, result, runs,
                             carried, made, trained>>

Operate(op, size) ==
    LET price == PriceOf(costs, op, size)
    IN  /\ InCallback /\ call.work > 0
        /\ FullyPriced(price)
        /\ ledger' = Charge(ledger, op, size, price)
        /\ call' = [call EXCEPT !.work = @ - 1]
        /\ UNCHANGED phase /\ RunUnchanged

OpenGroup ==
    /\ InCallback /\ call.work > 0
    /\ ledger' = OpenOverlap(ledger)
    /\ call' = [call EXCEPT !.work = @ - 1, !.groups = @ + 1]
    /\ UNCHANGED phase /\ RunUnchanged

\* The guard of a group is dropped, by the end of its block or by unwinding.
CloseGroup ==
    /\ call.groups > 0
    /\ ledger' = CloseOverlap(ledger)
    /\ call' = [call EXCEPT !.groups = @ - 1]
    /\ UNCHANGED phase /\ RunUnchanged

\* An unset price panics whether or not metering is on.
Panic(op, size) ==
    /\ InCallback /\ call.work > 0
    /\ ~FullyPriced(PriceOf(costs, op, size))
    /\ phase' = "unwinding"
    /\ UNCHANGED <<ledger, call>> /\ RunUnchanged

\* Mutant: unwinding drops no guard.
Abandon_KeepsGroups ==
    /\ phase = "unwinding"
    /\ phase' = "idle"
    /\ queue' = <<>>
    /\ call' = NoCall
    /\ UNCHANGED <<ledger, costs, config, trace, fetched, result, runs, carried,
                   made, trained>>

\* The panic leaves run_one: source, predictor and queue are dropped, the
\* thread's ledger and cost table are not.
Abandon ==
    /\ phase = "unwinding" /\ call.groups = 0
    /\ phase' = "idle"
    /\ queue' = <<>>
    /\ call' = NoCall
    /\ UNCHANGED <<ledger, costs, config, trace, fetched, result, runs, carried,
                   made, trained>>

\* Value arithmetic on the thread while no run is in progress: in a predictor
\* builder that run_many calls just before run_one, or in the caller's code.
OperateOutside(op, size) ==
    LET price == PriceOf(costs, op, size)
    IN  /\ phase = "idle"
        /\ ledger.metrics.total_operations < MaxOutside
        /\ FullyPriced(price)
        /\ ledger' = Charge(ledger, op, size, price)
        /\ UNCHANGED <<phase, call>> /\ RunUnchanged

RunStep ==
    \/ FetchWarmup \/ LeaveWarmup \/ Drain \/ BeginMetered
    \/ FetchMetered \/ LeaveMetered \/ Finish
    \/ \E outcome \in Outcomes : PredictReturns(outcome)
    \/ PredictUnscorable
    \/ UpdateReturns
    \/ \E hw \in Hardware : Operate(hw[1], hw[2]) \/ Panic(hw[1], hw[2])
    \/ OpenGroup \/ CloseGroup \/ Abandon

Next ==
    \/ \E source \in Traces, chosen \in Configs, table \in CostTables, area \in Areas :
         Start(source, chosen, table, area)
    \/ \E hw \in Hardware : OperateOutside(hw[1], hw[2])
    \/ RunStep

\* Once started, a run is executed by its thread alone and callbacks return.
Fairness == WF_vars(RunStep)

Spec == Init /\ [][Next]_vars /\ Fairness

-----------------------------------------------------------------------------
(***************************************************************************)
(* Properties.                                                             *)
(***************************************************************************)
Ongoing(fn) == IF call.fn = fn THEN <<call.at>> ELSE <<>>

\* Every fetched record is predicted and then trained on, once and in trace
\* order, and none is lost or overtaken on its way through the queue, in both
\* drains and in the overflow of Queue::push.
ExactlyOnceInOrder ==
    phase # "idle" =>
      trained \o Ongoing("update") \o queue \o Ongoing("predict")
        = [i \in 1..fetched |-> i]

\* The lag Config::speculations allows, as the predictor sees it: at a predict
\* at most that many earlier predictions await their update, and an update
\* never finds more than one over.
LagBound ==
    LET unresolved == Len(made) - Len(trained)
    IN  /\ call.fn = "predict" => unresolved <= config.speculations
        /\ call.fn = "update" => unresolved <= config.speculations + 1

\* A callback is metered exactly if its record is not one of the warmup
\* records, whichever loop or drain made it: the update of a warmup record is
\* never charged as metered work, nor is a metered update let off.
MeteredIffScored ==
    InCallback => (ledger.charging <=> call.at > config.warmup)

\* Until metering is switched on the run has added nothing to the ledger but
\* its storage: no operation, time, leakage or instantiated hardware.
WarmupLeavesNoTrace ==
    phase \in {"warmup", "boundary"} =>
      \E area \in Areas :
        /\ ledger.metrics = Storage(carried, area).metrics
        /\ ledger.charged = carried.charged
        /\ ledger.leakage = carried.leakage

\* The ledger's groups are those of the callback in progress, so each return,
\* and each run after a panic, charges its time outside every group.
GroupsBelongToCallback == Len(ledger.overlaps) = call.groups

\* The stage of an outcome that should count: none is later, and of those as
\* late it was made last.
Latest(outcome) ==
    {outcome[i] : i \in {i \in DOMAIN outcome :
       \A j \in DOMAIN outcome \ {i} :
         outcome[j].delay < outcome[i].delay + One(j < i)}}

\* The predictions after warmup whose latest stage matches the record at the same
\* position of the trace: in direction, in next address, in both.
AfterWarmup == {p \in DOMAIN made : p > config.warmup}

DirectionHits ==
    {p \in AfterWarmup : \E stage \in Latest(made[p]) : stage.taken = trace[p].taken}

TargetHits ==
    {p \in AfterWarmup : \E stage \in Latest(made[p]) : stage.target = trace[p].next}

ExactHits ==
    {p \in AfterWarmup : \E stage \in Latest(made[p]) :
       stage.taken = trace[p].taken /\ stage.target = trace[p].next}

HitsMatch(now) ==
    LET before == carried.metrics
    IN  /\ now.direction_hits = before.direction_hits + Cardinality(DirectionHits)
        /\ now.target_hits = before.target_hits + Cardinality(TargetHits)
        /\ now.total_hits = before.total_hits + Cardinality(ExactHits)

\* The hits of a run are those of the outcomes' final stages against the trace
\* records at the same positions, for every prediction after warmup and no
\* other; direction and next address must match in one and the same stage to
\* make an exact hit.
ScoresMatchOutcomes ==
    /\ phase # "idle" => HitsMatch(ledger.metrics)
    /\ result # None => HitsMatch(result)

\* The counts of a report never contradict each other, whatever happened on
\* the thread before: the report's misses (predictions minus hits) never
\* underflow, and exact hits are within what both partial counts allow.
Coherent(m) ==
    /\ m.direction_predictions = m.total_predictions
    /\ m.target_predictions = m.total_predictions
    /\ m.direction_hits <= m.total_predictions
    /\ m.target_hits <= m.total_predictions
    /\ m.total_hits <= m.direction_hits
    /\ m.total_hits <= m.target_hits
    /\ m.direction_hits + m.target_hits <= m.total_predictions + m.total_hits

ReportsAreCoherent == Coherent(ledger.metrics) /\ (result # None => Coherent(result))

\* A run that returns has trained on its whole trace, has left nothing in the
\* queue, and has scored every record after warmup, none if warmup was longer.
FinishedRunIsComplete ==
    result # None =>
      /\ trained = [i \in 1..Len(trace) |-> i]
      /\ queue = <<>>
      /\ result.total_predictions =
           carried.metrics.total_predictions + Greater(Len(trace) - config.warmup, 0)

\* A started run ends, whatever its trace, warmup and depth.
RunEnds == phase # "idle" ~> phase = "idle"

\* A run keeps the promises of the documentation: see Pipeline.
JobOf(source, chosen) ==
    [length |-> Len(source), warmup |-> chosen.warmup,
     speculations |-> chosen.speculations]

Promise == INSTANCE Pipeline WITH
    Jobs <- {JobOf(source, chosen) : source \in Traces, chosen \in Configs},
    NoJob <- None,
    job <- IF phase = "idle" THEN None ELSE JobOf(trace, config),
    predicted <- Len(made),
    trained <- Len(trained),
    scored <- (IF result = None THEN ledger.metrics ELSE result).total_predictions
                - carried.metrics.total_predictions

\* The queue, the drains and the phases implement that promise, and the run
\* keeps advancing through it.
PromisedPipeline == Promise!Spec
=============================================================================
