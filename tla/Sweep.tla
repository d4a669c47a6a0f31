-------------------------------- MODULE Sweep --------------------------------
(***************************************************************************)
(* Simulator::run_many (src/ramus/src/simulator.rs): every combination of  *)
(* source, configuration and predictor is a job, and the threads of a pool *)
(* take the jobs in any order.  A thread keeps its ledger and cost table   *)
(* from one job to the next and from one sweep to the next, since both are *)
(* thread-local.                                                           *)
(*                                                                         *)
(* A run is what Pipeline says of it: the records are fed one by one and   *)
(* those after warmup are scored.  A ledger is kept as whose work it       *)
(* counts, priced by the table of which sweep, how many predictions, and   *)
(* whether metering is switched on.                                        *)
(* rayon is external: it gives every job to some thread, keeps the results *)
(* in the order of the jobs, and passes a job's panic on to the caller     *)
(* once no thread works any more; the jobs not begun by then may be left.  *)
(***************************************************************************)
EXTENDS Integers, FiniteSets, SequencesExt

CONSTANTS
    Workers,        \* the threads of the pool
    Sources,        \* [trace, length]: a name and its number of records
    Configs,        \* [warmup, speculations]
    Predictors,     \* [name, computes, fails]: whether the constructor executes
                    \*   a metered operation, and whether a callback executes
                    \*   one that no table prices
    Grids,          \* what run_many is called with
    None,           \* no result, no job
    MaxSweeps       \* bound: calls of run_many

Grid == [sources : Seq(Sources), configs : Seq(Configs), predictors : Seq(Predictors)]

ASSUME WorkersAssumption == Workers # {} /\ IsFiniteSet(Workers)
ASSUME SourcesAssumption ==
    \A source \in Sources : source.length \in Nat
ASSUME ConfigsAssumption == Configs \subseteq [warmup : Nat, speculations : Nat]
ASSUME PredictorsAssumption ==
    \A p \in Predictors : p.computes \in BOOLEAN /\ p.fails \in BOOLEAN
ASSUME GridsAssumption == Grids \subseteq Grid
ASSUME SweepsAssumption == MaxSweeps \in Nat /\ None \notin Nat

VARIABLES
    grid, jobs,     \* the arguments of the sweep in progress, and its jobs
    todo,           \* jobs no thread has taken
    pc, doing,      \* of each thread: where it is, and its job
    cursor,         \* of each thread: the cursor of its clone of the source
    ledgers, tables,\* LEDGER and COSTS of each thread
    slots,          \* the results so far, at the places of their jobs
    panicking,      \* a job of the sweep panicked
    calls,          \* sweeps begun; the table of a sweep is named by its number
    answer,         \* what the last sweep returned, None while it works
    spoilt          \* history: the sweeps that panicked

sweepVars == <<grid, jobs, todo, pc, doing, cursor, ledgers, tables, slots, panicking,
               calls, answer, spoilt>>

\* The jobs of a sweep, in the order of its results.
Jobs(g) ==
    FlattenSeq([s \in DOMAIN g.sources |->
      FlattenSeq([c \in DOMAIN g.configs |->
        [p \in DOMAIN g.predictors |-> [source |-> s, config |-> c, predictor |-> p]]])])

SourceOf(i) == grid.sources[jobs[i].source]
ConfigOf(i) == grid.configs[jobs[i].config]
PredictorOf(i) == grid.predictors[jobs[i].predictor]

\* Mutant: statics without thread_local.
CellOf_Static(w) == CHOOSE v \in Workers : TRUE

\* thread_local!: the cell a thread finds under LEDGER and COSTS.
CellOf(w) == w

\* Work counted in a ledger: of which job of which sweep, in the constructor of
\* the predictor or in the run, priced by the table of which sweep.
Work(i, part, table) == [sweep |-> calls, job |-> i, part |-> part, table |-> table]
FreshLedger == [counted |-> {}, predictions |-> 0, charging |-> TRUE]

\* Costs::default, which prices nothing.
NoTable == 0

Init ==
    /\ grid = [sources |-> <<>>, configs |-> <<>>, predictors |-> <<>>]
    /\ jobs = <<>>
    /\ todo = {}
    /\ pc = [w \in Workers |-> "free"]
    /\ doing = [w \in Workers |-> None]
    /\ cursor = [w \in Workers |-> 0]
    /\ ledgers = [w \in Workers |-> FreshLedger]
    /\ tables = [w \in Workers |-> NoTable]
    /\ slots = <<>>
    /\ panicking = FALSE
    /\ calls = 0
    /\ answer = <<>>
    /\ spoilt = {}

Working == answer = None /\ calls \notin spoilt

-----------------------------------------------------------------------------
\* The caller calls run_many.
Launch(g) ==
    /\ ~Working /\ calls < MaxSweeps
    /\ calls' = calls + 1
    /\ grid' = g
    /\ jobs' = Jobs(g)
    /\ todo' = DOMAIN jobs'
    /\ slots' = [i \in DOMAIN jobs' |-> None]
    /\ panicking' = FALSE
    /\ answer' = None
    /\ UNCHANGED <<pc, doing, cursor, ledgers, tables, spoilt>>

\* Mutant: the jobs of a thread go on with one cursor.
Take_NoClone(w) ==
    /\ pc[w] = "free"
    /\ \E i \in todo :
         /\ todo' = todo \ {i}
         /\ doing' = [doing EXCEPT ![w] = i]
    /\ pc' = [pc EXCEPT ![w] = "build"]
    /\ UNCHANGED <<grid, jobs, cursor, ledgers, tables, slots, panicking, calls, answer, spoilt>>

\* A thread takes a job and clones its source, whose cursor is at the start.
Take(w) ==
    /\ pc[w] = "free"
    /\ \E i \in todo :
         /\ todo' = todo \ {i}
         /\ doing' = [doing EXCEPT ![w] = i]
    /\ cursor' = [cursor EXCEPT ![w] = 0]
    /\ pc' = [pc EXCEPT ![w] = "build"]
    /\ UNCHANGED <<grid, jobs, ledgers, tables, slots, panicking, calls, answer, spoilt>>

RunUnchanged == UNCHANGED <<grid, jobs, todo, doing, slots, panicking, calls, answer, spoilt>>

\* The predictor is built on the thread, before run_one installs the table: an
\* operation in its constructor is priced by the table of the thread's last run.
\* It panics without a price, and is counted only while metering is on, which a
\* job abandoned in its warmup has left off.
Build(w) ==
    LET computes == PredictorOf(doing[w]).computes
        table == tables[CellOf(w)]
    IN  /\ pc[w] = "build"
        /\ pc' = [pc EXCEPT ![w] = IF computes /\ table = NoTable THEN "unwind" ELSE "start"]
        /\ ledgers' = IF computes /\ table # NoTable /\ ledgers[CellOf(w)].charging
                        THEN [ledgers EXCEPT ![CellOf(w)].counted =
                                @ \cup {Work(doing[w], "build", table)}]
                        ELSE ledgers
        /\ UNCHANGED <<cursor, tables>> /\ RunUnchanged

\* run_one installs the table, charges the storage and switches metering off.
StartRun(w) ==
    /\ pc[w] = "start"
    /\ pc' = [pc EXCEPT ![w] = "warmup"]
    /\ tables' = [tables EXCEPT ![CellOf(w)] = calls]
    /\ ledgers' = [ledgers EXCEPT ![CellOf(w)].counted = @ \cup {Work(doing[w], "run", calls)},
                                  ![CellOf(w)].charging = FALSE]
    /\ UNCHANGED cursor /\ RunUnchanged

\* One record, fetched and predicted; not scored in warmup.
Feed(w) ==
    LET i == doing[w]
        scored == pc[w] = "run"
    IN  /\ pc[w] \in {"warmup", "run"}
        /\ cursor[w] < SourceOf(i).length
        /\ scored \/ cursor[w] < ConfigOf(i).warmup
        /\ cursor' = [cursor EXCEPT ![w] = @ + 1]
        /\ ledgers' = IF scored THEN [ledgers EXCEPT ![CellOf(w)].predictions = @ + 1] ELSE ledgers
        /\ UNCHANGED <<pc, tables>> /\ RunUnchanged

\* Warmup is over, or the trace in it; metering is switched on.
TurnOn(w) ==
    LET i == doing[w]
    IN  /\ pc[w] = "warmup"
        /\ cursor[w] \in {ConfigOf(i).warmup, SourceOf(i).length}
        /\ pc' = [pc EXCEPT ![w] = "run"]
        /\ ledgers' = [ledgers EXCEPT ![CellOf(w)].charging = TRUE]
        /\ UNCHANGED <<cursor, tables>> /\ RunUnchanged

\* Records are fetched in this part of the run.
SeesRecords(w) ==
    LET length == SourceOf(doing[w]).length
        warmup == ConfigOf(doing[w]).warmup
    IN  \/ pc[w] = "warmup" /\ length > 0 /\ warmup > 0
        \/ pc[w] = "run" /\ length > warmup

\* A callback of the predictor executes an operation without a price.
Fail(w) ==
    /\ SeesRecords(w)
    /\ PredictorOf(doing[w]).fails
    /\ pc' = [pc EXCEPT ![w] = "unwind"]
    /\ UNCHANGED <<cursor, ledgers, tables>> /\ RunUnchanged

\* Mutant: results are collected in the order in which the runs end.
Place_AsTheyEnd(i) ==
    CHOOSE n \in DOMAIN slots : slots[n] = None /\ \A m \in 1..n - 1 : slots[m] # None

\* collect of an indexed parallel iterator: a result goes where its job stands.
Place(i) == i

\* The run is over: Metrics::reset yields its metrics and a new ledger.
Return(w) ==
    /\ pc[w] = "run"
    /\ cursor[w] = SourceOf(doing[w]).length
    /\ slots' = [slots EXCEPT ![Place(doing[w])] = ledgers[CellOf(w)]]
    /\ ledgers' = [ledgers EXCEPT ![CellOf(w)] = FreshLedger]
    /\ pc' = [pc EXCEPT ![w] = "free"]
    /\ doing' = [doing EXCEPT ![w] = None]
    /\ UNCHANGED <<grid, jobs, todo, cursor, tables, panicking, calls, answer, spoilt>>

\* The panic leaves the job; the thread's ledger and table stay as they are.
Unwind(w) ==
    /\ pc[w] = "unwind"
    /\ panicking' = TRUE
    /\ pc' = [pc EXCEPT ![w] = "free"]
    /\ doing' = [doing EXCEPT ![w] = None]
    /\ UNCHANGED <<grid, jobs, todo, cursor, ledgers, tables, slots, calls, answer, spoilt>>

AllFree == \A w \in Workers : pc[w] = "free"

\* run_many returns one metric per job.
Collect ==
    /\ Working /\ ~panicking
    /\ AllFree /\ todo = {}
    /\ answer' = slots
    /\ UNCHANGED <<grid, jobs, todo, pc, doing, cursor, ledgers, tables, slots, panicking,
                   calls, spoilt>>

\* Mutant: the panic is noticed when all results are there.
Rethrow_WithAllResults ==
    /\ Working /\ panicking
    /\ AllFree /\ \A i \in DOMAIN jobs : slots[i] # None
    /\ todo' = {}
    /\ spoilt' = spoilt \cup {calls}
    /\ UNCHANGED <<grid, jobs, pc, doing, cursor, ledgers, tables, slots, panicking, calls, answer>>

\* run_many panics: whatever was not begun stays undone.
Rethrow ==
    /\ Working /\ panicking
    /\ AllFree
    /\ todo' = {}
    /\ spoilt' = spoilt \cup {calls}
    /\ UNCHANGED <<grid, jobs, pc, doing, cursor, ledgers, tables, slots, panicking, calls, answer>>

Step(w) ==
    Build(w) \/ StartRun(w) \/ Feed(w) \/ TurnOn(w) \/ Fail(w) \/ Return(w) \/ Unwind(w)
End == Collect \/ Rethrow

PoolStep == End \/ \E w \in Workers : Take(w) \/ Step(w)

Next == PoolStep \/ \E g \in Grids : Launch(g)

\* The operating system runs every thread, and an idle thread looks for work as
\* long as there is some.
PoolFairness ==
    /\ \A w \in Workers : WF_sweepVars(Step(w))
    /\ WF_sweepVars(\E w \in Workers : Take(w))
    /\ WF_sweepVars(End)

Spec == Init /\ [][Next]_sweepVars /\ PoolFairness

-----------------------------------------------------------------------------
(***************************************************************************)
(* Properties.                                                             *)
(***************************************************************************)

\* What a sweep returns at the place of a job is that job's and no other's,
\* priced by the sweep's table, whichever threads ran the jobs and in whichever
\* order.  Only jobs abandoned in an earlier sweep, whose panic the caller
\* caught, can leave something in it.
Own(result) == {work \in result.counted : work.sweep = calls}

Owned(result, i) ==
    /\ [sweep |-> calls, job |-> i, part |-> "run", table |-> calls] \in result.counted
    /\ \A work \in Own(result) : work.job = i
    /\ \A work \in result.counted \ Own(result) : work.sweep \in spoilt

ResultsAreTheirJobs == answer # None => \A i \in DOMAIN answer : Owned(answer[i], i)

\* A result has the predictions of the whole trace after warmup, although other
\* jobs read the same source, and no others unless an abandoned job left some.
Due(i) ==
    IF SourceOf(i).length > ConfigOf(i).warmup
      THEN SourceOf(i).length - ConfigOf(i).warmup ELSE 0

ResultsAreWhole ==
    answer # None => \A i \in DOMAIN answer :
      /\ answer[i].predictions >= Due(i)
      /\ answer[i].counted = Own(answer[i]) => answer[i].predictions = Due(i)

\* A thread without a job has a clean ledger, unless the last job it ran was
\* abandoned.
IdleLedgersAreClean ==
    \A w \in Workers : pc[w] = "free" /\ ledgers[w] # FreshLedger =>
      \A work \in ledgers[w].counted :
        work.sweep \in spoilt \/ (work.sweep = calls /\ panicking)

\* Threads, jobs and ledgers implement what run_many promises: every call answers
\* with all its metrics in order or passes on a panic it had cause for, and it
\* does one or the other: see RunMany.
Promise == INSTANCE RunMany

PromisedSweeps == Promise!Spec
=============================================================================
