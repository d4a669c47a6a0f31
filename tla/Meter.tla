-------------------------------- MODULE Meter --------------------------------
(***************************************************************************)
(* One thread's ledger under any code the thread may run between the       *)
(* simulator's own calls: metered operations, select!, Metrics::push,      *)
(* overlap! groups that nest, operations that panic because their price is *)
(* unset, and handlers that catch such a panic after some of the guards    *)
(* were dropped.  Runs follow each other on the thread.  A run starts on   *)
(* whatever ledger it finds; only one that gets to its end leaves a new    *)
(* one.  A panic may leave a run, and the thread may work between runs,    *)
(* as run_many does when it builds a predictor.                            *)
(*                                                                         *)
(* The simulator calls Turn, Tick, Storage and Reset between two           *)
(* callbacks, where no guard is alive (live = 0).                          *)
(***************************************************************************)
EXTENDS Ledger, FiniteSetsExt

CONSTANTS
    CostTables,     \* the cost tables a run can be given
    Hardware,       \* the <<operation, size>> pairs the thread's code uses
    PushDelays,     \* the delays given to Metrics::push
    Areas,          \* what Predictor::size can return
    MaxDepth,       \* bound: nesting of overlap groups
    MaxOperations,  \* bound: charged operations until a reset
    MaxTime,        \* bound: work time after which no delay is charged
    MaxLeakage,     \* bound: leakage after which no tick happens
    MaxStored       \* bound: area of storage after which no run starts

ASSUME CostTablesAssumption == CostTables \subseteq Costs
ASSUME HardwareAssumption == Hardware \subseteq Operations \X Nat
ASSUME DelaysAssumption == PushDelays \subseteq Nat /\ Areas \subseteq Nat
ASSUME BoundsAssumption == {MaxDepth, MaxOperations, MaxTime, MaxLeakage, MaxStored} \subseteq Nat

VARIABLES
    ledger,         \* LEDGER
    costs,          \* COSTS
    live,           \* overlap guards alive on the thread's stack
    mode,           \* "running", or "unwinding" after a panic
    simulating,     \* the thread is in run_one
    size,           \* Predictor::size of the run's predictor
    bought,         \* history: the hardware metered since the last reset, each
                    \*   with the table of its first use
    stored,         \* history: area charged for storage since the last reset
    leftover,       \* history: since the last reset a run was abandoned, or an
                    \*   operation executed between runs
    widest          \* history: greatest delay since the outermost group opened

vars == <<ledger, costs, live, mode, simulating, size, bought, stored, leftover, widest>>

\* Every delay that can reach the ledger.
Delays ==
    PushDelays \cup
    ({PriceOf(table, hw[1], hw[2]).latency_ticks :
        table \in CostTables, hw \in Hardware} \ {Unset})

Tables == CostTables \cup {NoCosts}

TypeOK ==
    /\ ledger \in LedgerType
    /\ costs \in Tables
    /\ live \in Nat
    /\ mode \in {"running", "unwinding"}
    /\ simulating \in BOOLEAN
    /\ size \in Nat
    /\ bought \subseteq [hardware : Operations \X Nat, costs : Tables]
    /\ stored \in Nat
    /\ leftover \in BOOLEAN
    /\ widest \in Nat

\* A fresh thread: nothing has a price before its first run.
Init ==
    /\ ledger = NewLedger
    /\ costs = NoCosts
    /\ live = 0
    /\ mode = "running"
    /\ simulating = FALSE
    /\ size = 0
    /\ bought = {}
    /\ stored = 0
    /\ leftover = FALSE
    /\ widest = 0

\* What the outermost group remembers of one delay.
Widen(delay) ==
    widest' = IF live > 0 /\ ledger.charging THEN Greater(widest, delay) ELSE widest

\* The metered use of a piece of hardware.
Use(hardware) ==
    bought' = IF ledger.charging /\ \A item \in bought : item.hardware # hardware
                THEN bought \cup {[hardware |-> hardware, costs |-> costs]}
                ELSE bought

Operate(op, ways) ==
    LET price == PriceOf(costs, op, ways)
    IN  /\ mode = "running"
        /\ FullyPriced(price)
        /\ ledger.metrics.total_operations < MaxOperations
        /\ ledger' = Charge(ledger, op, ways, price)
        /\ Use(<<op, ways>>)
        /\ Widen(price.latency_ticks)
        /\ leftover' = (leftover \/ ~simulating)
        /\ UNCHANGED <<costs, live, mode, simulating, size, stored>>

SameRun == UNCHANGED <<costs, simulating, size, bought, stored, leftover>>

\* The price is looked at before the charging flag: an unset part panics
\* even while nothing is metered.
OperateUnpriced(op, ways) ==
    /\ mode = "running"
    /\ ~FullyPriced(PriceOf(costs, op, ways))
    /\ mode' = "unwinding"
    /\ UNCHANGED <<ledger, live, widest>> /\ SameRun

PushDelay(delay) ==
    /\ mode = "running"
    /\ ledger.metrics.total_time < MaxTime
    /\ ledger' = Push(ledger, delay)
    /\ Widen(delay)
    /\ UNCHANGED <<live, mode>> /\ SameRun

EnterGroup ==
    /\ mode = "running"
    /\ live < MaxDepth
    /\ ledger.metrics.total_time < MaxTime
    /\ ledger' = OpenOverlap(ledger)
    /\ live' = live + 1
    /\ UNCHANGED <<mode, widest>> /\ SameRun

\* A guard is dropped at the end of its block or by unwinding.
DropGuard ==
    /\ live > 0
    /\ ledger' = CloseOverlap(ledger)
    /\ live' = live - 1
    /\ widest' = IF live = 1 THEN 0 ELSE widest
    /\ UNCHANGED mode /\ SameRun

\* Any frame may stop the unwinding, with the guards outside it still alive.
Catch ==
    /\ mode = "unwinding"
    /\ mode' = "running"
    /\ UNCHANGED <<ledger, live, widest>> /\ SameRun

SimulatorTick ==
    /\ simulating /\ mode = "running" /\ live = 0
    /\ ledger.metrics.total_leakage < MaxLeakage
    /\ ledger' = Tick(ledger)
    /\ UNCHANGED <<live, mode, widest>> /\ SameRun

\* run_one begins on the ledger it finds: Costs::set, Metrics::storage, and
\* Metrics::turn for the warmup.
StartRun(table, area) ==
    /\ ~simulating /\ mode = "running" /\ live = 0
    /\ stored < MaxStored
    /\ simulating' = TRUE
    /\ costs' = table
    /\ size' = area
    /\ ledger' = Turn(Storage(ledger, area), FALSE)
    /\ stored' = stored + area
    /\ UNCHANGED <<live, mode, bought, leftover, widest>>

\* Warmup is over.
TurnOn ==
    /\ simulating /\ mode = "running" /\ live = 0
    /\ ledger' = Turn(ledger, TRUE)
    /\ UNCHANGED <<live, mode, widest>> /\ SameRun

\* Metrics::reset, the end of run_one.
EndRun ==
    /\ simulating /\ mode = "running" /\ live = 0
    /\ ledger.charging
    /\ simulating' = FALSE
    /\ ledger' = NewLedger
    /\ size' = 0 /\ bought' = {} /\ stored' = 0 /\ leftover' = FALSE
    /\ UNCHANGED <<costs, live, mode, widest>>

\* A panic that no callback caught leaves run_one, past its reset.
AbandonRun ==
    /\ simulating /\ mode = "unwinding" /\ live = 0
    /\ simulating' = FALSE
    /\ size' = 0 /\ leftover' = TRUE
    /\ UNCHANGED <<ledger, costs, live, mode, bought, stored, widest>>

Next ==
    \/ \E hw \in Hardware : Operate(hw[1], hw[2]) \/ OperateUnpriced(hw[1], hw[2])
    \/ \E delay \in PushDelays : PushDelay(delay)
    \/ EnterGroup
    \/ DropGuard
    \/ Catch
    \/ SimulatorTick
    \/ \E table \in CostTables, area \in Areas : StartRun(table, area)
    \/ TurnOn
    \/ EndRun
    \/ AbandonRun

Spec == Init /\ [][Next]_vars

-----------------------------------------------------------------------------
(***************************************************************************)
(* Properties.                                                             *)
(***************************************************************************)

\* The stack of groups in the ledger is the stack of guards on the thread,
\* whatever was metered when a group opened or closed and however a block was
\* left: the expect in Guard::drop ("overlap guard without active overlap
\* group") never fails, and no group of a panicked block survives to swallow
\* the time of later operations.
GuardsMatchGroups == Len(ledger.overlaps) = live

Total(prices, items) == MapThenSumSet(LAMBDA item : prices[item], items)

\* What one part of the price of an item is, by the table of its first use.
PricesOf(part) ==
    [item \in [hardware : Operations \X Nat, costs : Tables] |->
       PriceOf(item.costs, item.hardware[1], item.hardware[2])[part]]

\* Area and leakage are static: however often operations execute, in or out of
\* a group, across warmup, caught panics, abandoned runs and work between runs,
\* each distinct (operation, size) metered since the last reset was paid once,
\* and each run's storage.  So a run that nothing was left over for has paid
\* for its own storage and hardware only, by its own table; any other also for
\* what it found, as it was priced then.
HardwarePaidOnce ==
    /\ ledger.charged = {item.hardware : item \in bought}
    /\ ledger.metrics.total_space = stored + Total(PricesOf("area_space"), bought)
    /\ ledger.leakage = Total(PricesOf("leakage_energy"), bought)
    /\ simulating /\ ~leftover =>
         stored = size /\ \A item \in bought : item.costs = costs

\* The work time of a run is what overlap! promises: see WorkTime.
Promise == INSTANCE WorkTime WITH
    time <- ledger.metrics.total_time, depth <- live, widest <- widest

\* Metrics::charge, push and Guard::drop together implement that promise.
PromisedTime == Promise!Spec
=============================================================================
