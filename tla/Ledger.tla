------------------------------- MODULE Ledger -------------------------------
(***************************************************************************)
(* The thread-local ledger of src/ramus/src/observability.rs as a record   *)
(* and one operator per function that writes it.  The module has no        *)
(* variables: Meter and Simulator keep a ledger in a variable of theirs    *)
(* and apply these operators to it.                                        *)
(*                                                                         *)
(* Prices are f64 or u64 in the code.  They are natural numbers here: the  *)
(* ledger only adds them, multiplies them by an integer and takes their    *)
(* maximum.                                                                *)
(***************************************************************************)
EXTENDS Integers, Sequences

CONSTANTS
    Operations,     \* the metered operations the costs! table names
    Select,         \* the multiplexer, the one operation priced by its size
    Unset           \* the price of an operation that must not run (None)

ASSUME SelectIsOperation == Select \in Operations
ASSUME UnsetIsNoPrice == Unset \notin Nat

(***************************************************************************)
(* Cost tables.                                                            *)
(***************************************************************************)
Cost == [switching_energy : Nat \cup {Unset}, leakage_energy : Nat \cup {Unset},
         area_space : Nat \cup {Unset}, latency_ticks : Nat \cup {Unset}]

Costs == [Operations -> Cost]

\* Costs::default: no operation is priced.
NoCosts == [op \in Operations |->
              [switching_energy |-> Unset, leakage_energy |-> Unset,
               area_space |-> Unset, latency_ticks |-> Unset]]

FullyPriced(cost) == \A part \in DOMAIN cost : cost[part] # Unset

Greater(a, b) == IF a >= b THEN a ELSE b

Scaled(cost, scale) ==
    [part \in DOMAIN cost |->
       IF cost[part] = Unset THEN Unset ELSE cost[part] * scale]

\* Mutant: a plain subtraction where the code saturates at zero.
PriceOf_Unsaturated(costs, op, size) ==
    IF op = Select THEN Scaled(costs[op], size - 1) ELSE costs[op]

\* A piece of hardware is an operation at a size.  An n-way multiplexer is
\* priced as n - 1 selects, any other operation as the table says.
PriceOf(costs, op, size) ==
    IF op = Select THEN Scaled(costs[op], Greater(size - 1, 0)) ELSE costs[op]

(***************************************************************************)
(* The ledger.                                                             *)
(***************************************************************************)
Metrics ==
    [total_predictions : Nat, total_operations : Nat, total_hits : Nat,
     direction_predictions : Nat, direction_hits : Nat,
     target_predictions : Nat, target_hits : Nat,
     total_energy : Nat, total_space : Nat, total_leakage : Nat,
     total_time : Nat]

NoMetrics ==
    [total_predictions |-> 0, total_operations |-> 0, total_hits |-> 0,
     direction_predictions |-> 0, direction_hits |-> 0,
     target_predictions |-> 0, target_hits |-> 0,
     total_energy |-> 0, total_space |-> 0, total_leakage |-> 0,
     total_time |-> 0]

LedgerType ==
    [metrics : Metrics, charged : SUBSET (Operations \X Nat), leakage : Nat,
     overlaps : Seq(Nat), charging : BOOLEAN]

NewLedger ==
    [metrics |-> NoMetrics, charged |-> {}, leakage |-> 0,
     overlaps |-> <<>>, charging |-> TRUE]

(***************************************************************************)
(* Work time.  A serial delay is added to the total; a delay inside an     *)
(* overlap group only raises the greatest delay of the innermost group.    *)
(***************************************************************************)
\* Mutant: the operations of a group are summed.
AddTime_Summed(ledger, delay) ==
    IF ledger.overlaps = <<>>
      THEN [ledger EXCEPT !.metrics.total_time = @ + delay]
      ELSE [ledger EXCEPT !.overlaps[Len(ledger.overlaps)] = @ + delay]

AddTime(ledger, delay) ==
    IF ledger.overlaps = <<>>
      THEN [ledger EXCEPT !.metrics.total_time = @ + delay]
      ELSE [ledger EXCEPT !.overlaps[Len(ledger.overlaps)] = Greater(@, delay)]

Push(ledger, delay) == IF ledger.charging THEN AddTime(ledger, delay) ELSE ledger

OpenOverlap(ledger) == [ledger EXCEPT !.overlaps = Append(@, 0)]

\* Mutant: the early return of an unmetered guard comes before the pop.
CloseOverlap_ReturnsEarly(ledger) ==
    LET depth == Len(ledger.overlaps)
    IN  IF ledger.charging
          THEN AddTime([ledger EXCEPT !.overlaps = SubSeq(@, 1, depth - 1)],
                       ledger.overlaps[depth])
          ELSE ledger

\* The drop of a group's guard: the group is popped whether or not metering
\* is on, and only then does its greatest delay count one level up.
CloseOverlap(ledger) ==
    LET depth == Len(ledger.overlaps)
    IN  Push([ledger EXCEPT !.overlaps = SubSeq(@, 1, depth - 1)],
             ledger.overlaps[depth])

(***************************************************************************)
(* Charging.  An operation whose price has an unset part panics before it  *)
(* touches the ledger, so Charge is applied to fully priced costs only.    *)
(***************************************************************************)
\* Mutant: area and leakage are charged at every execution.
Instantiate_EveryTime(ledger, hardware, cost) ==
    [ledger EXCEPT !.charged = @ \cup {hardware},
                   !.leakage = @ + cost.leakage_energy,
                   !.metrics.total_space = @ + cost.area_space]

Instantiate(ledger, hardware, cost) ==
    IF hardware \in ledger.charged
      THEN ledger
      ELSE [ledger EXCEPT !.charged = @ \cup {hardware},
                          !.leakage = @ + cost.leakage_energy,
                          !.metrics.total_space = @ + cost.area_space]

\* Mutant: hardware used only in warmup is instantiated all the same.
Charge_InstantiatesUnmetered(ledger, op, size, cost) ==
    IF ~ledger.charging
      THEN Instantiate(ledger, <<op, size>>, cost)
      ELSE Instantiate(
             [AddTime(ledger, cost.latency_ticks) EXCEPT
                !.metrics.total_energy = @ + cost.switching_energy,
                !.metrics.total_operations = @ + 1],
             <<op, size>>, cost)

Charge(ledger, op, size, cost) ==
    IF ~ledger.charging
      THEN ledger
      ELSE Instantiate(
             [AddTime(ledger, cost.latency_ticks) EXCEPT
                !.metrics.total_energy = @ + cost.switching_energy,
                !.metrics.total_operations = @ + 1],
             <<op, size>>, cost)

(***************************************************************************)
(* What only the simulator calls.                                          *)
(***************************************************************************)
Turn(ledger, on) == [ledger EXCEPT !.charging = on]

Tick(ledger) ==
    IF ledger.charging
      THEN [ledger EXCEPT !.metrics.total_leakage = @ + ledger.leakage]
      ELSE ledger

Storage(ledger, area) == [ledger EXCEPT !.metrics.total_space = @ + area]

One(hit) == IF hit THEN 1 ELSE 0

\* One scored branch: counted whether or not metering is on.
Prediction(ledger, exact, direction, target) ==
    [ledger EXCEPT !.metrics.total_predictions = @ + 1,
                   !.metrics.direction_predictions = @ + 1,
                   !.metrics.target_predictions = @ + 1,
                   !.metrics.direction_hits = @ + One(direction),
                   !.metrics.target_hits = @ + One(target),
                   !.metrics.total_hits = @ + One(exact)]
=============================================================================
