--------------------------------- MODULE Ppm ---------------------------------
(***************************************************************************)
(* PPM (predictors/common/ppm.rs): a table of counters and, above it,      *)
(* tagged tables that see ever longer histories.  The longest table whose  *)
(* tag matches provides the prediction.  predict keeps what it looked up   *)
(* until update is called for the same branch, which can be after later    *)
(* predictions and updates.                                                *)
(*                                                                         *)
(* A lookup's indices, tags and salt depend on the address and the history *)
(* alone: those functions are parameters, and a lookup is kept as address, *)
(* history and outcome.  The calls come as from Queue of the simulator.    *)
(***************************************************************************)
EXTENDS Integers, Sequences, FiniteSets

CONSTANTS
    Tables,             \* the tagged tables are 1..Tables (4)
    Half,               \* half the range of a counter (4)
    HistoryRange,       \* 2^80
    Addresses, BaseEntries, Entries, Tags,
    BaseIndex(_),       \* of an address
    Index(_, _, _),     \* of table, address and history
    Tag(_, _, _),
    Salt(_, _),         \* of address and history
    MaxLag              \* Config::speculations

TableIds == 1..Tables
Histories == 0..HistoryRange - 1

ASSUME SizesAssumption ==
    /\ Tables \in Nat \ {0}
    /\ Half \in Nat \ {0}
    /\ HistoryRange \in Nat \ {0}
    /\ MaxLag \in Nat
    /\ 0 \in Tags
ASSUME HashAssumption ==
    /\ \A a \in Addresses : BaseIndex(a) \in BaseEntries
    /\ \A a \in Addresses, h \in Histories :
         /\ Salt(a, h) \in Nat
         /\ \A t \in TableIds : Index(t, a, h) \in Entries /\ Tag(t, a, h) \in Tags

Record == [address : Addresses, taken : BOOLEAN]
Counter == 0..2 * Half - 1
Entry == [counter : Counter, tag : Tags, useful : BOOLEAN]
Lookup == [address : Addresses, history : Histories, provider : 0..Tables,
           prediction : BOOLEAN, basePrediction : BOOLEAN]

VARIABLES
    base,       \* [counter, meta]: t0_counter, t0_meta
    tables,     \* t1_.. to t4_..
    history,    \* global_history
    pending,    \* the lookups of the predictions not updated yet
    unresolved, \* the simulator's queue
    draining    \* Queue::drain is going on

vars == <<base, tables, history, pending, unresolved, draining>>

TypeOK ==
    /\ base \in [BaseEntries -> [counter : Counter, meta : BOOLEAN]]
    /\ tables \in [TableIds -> [Entries -> Entry]]
    /\ history \in Histories
    /\ pending \in Seq(Lookup)
    /\ unresolved \in Seq(Record)
    /\ draining \in BOOLEAN

Init ==
    /\ base = [i \in BaseEntries |-> [counter |-> 0, meta |-> FALSE]]
    /\ tables = [t \in TableIds |->
                   [i \in Entries |-> [counter |-> 0, tag |-> 0, useful |-> FALSE]]]
    /\ history = 0
    /\ pending = <<>>
    /\ unresolved = <<>>
    /\ draining = FALSE

-----------------------------------------------------------------------------
(***************************************************************************)
(* predict.                                                                *)
(***************************************************************************)

\* The entry of table t for the address with the history.
At(t, address, hist) == tables[t][Index(t, address, hist)]

Matches(address, hist) == {t \in TableIds : At(t, address, hist).tag = Tag(t, address, hist)}

\* The longest match, or zero.  No entry is invalid: one never allocated
\* matches tag zero.
Provider(address, hist) ==
    CHOOSE t \in Matches(address, hist) \cup {0} : \A u \in Matches(address, hist) : u <= t

BasePrediction(address) == base[BaseIndex(address)].counter >= Half

PredictionOf(address, hist) ==
    LET t == Provider(address, hist)
    IN  IF t = 0 THEN BasePrediction(address) ELSE At(t, address, hist).counter >= Half

LookupOf(address) ==
    [address |-> address, history |-> history,
     provider |-> Provider(address, history),
     prediction |-> PredictionOf(address, history),
     basePrediction |-> BasePrediction(address)]

\* Queue::feed: the next record is predicted unless the queue must shrink first.
Predict(record) ==
    /\ ~draining /\ Len(unresolved) <= MaxLag
    /\ pending' = Append(pending, LookupOf(record.address))
    /\ unresolved' = Append(unresolved, record)
    /\ UNCHANGED <<base, tables, history, draining>>

-----------------------------------------------------------------------------
(***************************************************************************)
(* update, of the oldest lookup.                                           *)
(***************************************************************************)
Correct(look, taken) == look.prediction = taken

\* The provider is judged when it says other than the base.
Judged(look) == look.provider > 0 /\ look.prediction # look.basePrediction

\* Mutant: shorter tables are candidates too.
Candidates_AllOthers(look) == TableIds \ {look.provider}

Candidates(look) == {t \in TableIds : t > look.provider}

IsUseful(t, look) == At(t, look.address, look.history).useful

AllUseful(look) == \A t \in Candidates(look) : IsUseful(t, look)

Victim(look) ==
    look.provider + 1 + (Salt(look.address, look.history) % (Tables - look.provider))

\* Mutant: when all are useful, all are given up.
Chosen_All(look) ==
    {t \in Candidates(look) : AllUseful(look) \/ ~IsUseful(t, look)}

\* Every candidate that is not useful is taken; one that is, only if all are.
Chosen(look) ==
    {t \in Candidates(look) :
       IF AllUseful(look) THEN t = Victim(look) ELSE ~IsUseful(t, look)}

\* Mutant: a misprediction allocates nothing when every candidate is useful.
Allocated_NotIfAllUseful(look, taken) ==
    IF Correct(look, taken) \/ AllUseful(look) THEN {} ELSE Chosen(look)

Allocated(look, taken) ==
    IF Correct(look, taken) \/ look.provider = Tables THEN {} ELSE Chosen(look)

\* meta says whether providers are to be trusted over the base; it is read
\* before this update writes it.
Initial(look, taken) ==
    LET meta == base[BaseIndex(look.address)].meta
    IN  IF (IF meta THEN taken ELSE look.basePrediction) THEN Half ELSE Half - 1

\* Mutant: the counter of the provider is never lowered.
Trained_OnlyUp(counter, taken) ==
    IF taken /\ counter < 2 * Half - 1 THEN counter + 1 ELSE counter

\* Value::saturating_add and saturating_sub of one.
Trained(counter, taken) ==
    IF taken
      THEN IF counter < 2 * Half - 1 THEN counter + 1 ELSE counter
      ELSE IF counter > 0 THEN counter - 1 ELSE counter

TrainBase(look, taken) ==
    base' = [base EXCEPT ![BaseIndex(look.address)] =
               [counter |-> IF look.provider = 0 THEN Trained(@.counter, taken)
                                                 ELSE @.counter,
                meta |-> IF Judged(look) THEN Correct(look, taken) ELSE @.meta]]

\* An allocated entry starts over; the provider's learns.
Updated(entry, t, look, taken) ==
    CASE t \in Allocated(look, taken) ->
           [counter |-> Initial(look, taken),
            tag |-> Tag(t, look.address, look.history),
            useful |-> FALSE]
      [] t = look.provider ->
           [entry EXCEPT !.counter = Trained(@, taken),
                         !.useful = IF Judged(look) THEN Correct(look, taken) ELSE @]
      [] OTHER -> entry

TrainTables(look, taken) ==
    tables' = [t \in TableIds |->
      [tables[t] EXCEPT ![Index(t, look.address, look.history)] =
         Updated(@, t, look, taken)]]

\* Mutant: the lookup of the latest prediction is taken.
Resolved_Latest == pending[Len(pending)]

Resolved == Head(pending)

Update ==
    /\ unresolved # <<>> /\ (draining \/ Len(unresolved) > MaxLag)
    /\ LET taken == Head(unresolved).taken
       IN  /\ TrainBase(Resolved, taken)
           /\ TrainTables(Resolved, taken)
           /\ history' = (2 * history + (IF taken THEN 1 ELSE 0)) % HistoryRange
    /\ pending' = Tail(pending)
    /\ unresolved' = Tail(unresolved)
    /\ draining' = (draining /\ Len(unresolved) > 1)

\* Queue::drain, at the end of warmup and of the trace.
Drain ==
    /\ ~draining /\ unresolved # <<>> /\ Len(unresolved) <= MaxLag
    /\ draining' = TRUE
    /\ UNCHANGED <<base, tables, history, pending, unresolved>>

Next == (\E record \in Record : Predict(record)) \/ Update \/ Drain

Spec == Init /\ [][Next]_vars

-----------------------------------------------------------------------------
(***************************************************************************)
(* Properties.                                                             *)
(***************************************************************************)

\* update finds the lookup of the branch it is given (the expect and the
\* debug_assert_eq of update), however predictions, overflows and drains mix.
LookupsMatchQueue ==
    /\ Len(pending) = Len(unresolved)
    /\ \A k \in 1..Len(pending) : pending[k].address = unresolved[k].address
    /\ unresolved # <<>> => Resolved.address = Head(unresolved).address

Updating == Len(unresolved') < Len(unresolved)
Wrong == ~Correct(Resolved, Head(unresolved).taken)

\* A useful entry is given up for one of two reasons: it provided, and was wrong
\* where the base was right; or a misprediction found every longer table useful,
\* and then it is the only one of them.  All of them are judged by a lookup that
\* may be older than the entries it meets.
UsefulIsKept ==
    [][\A t \in TableIds, i \in Entries :
         tables[t][i].useful /\ ~tables'[t][i].useful =>
           /\ Updating /\ Wrong
           /\ i = Index(t, Resolved.address, Resolved.history)
           /\ \/ t = Resolved.provider /\ Head(unresolved).taken = Resolved.basePrediction
              \/ /\ t > Resolved.provider
                 /\ \A u \in TableIds \ {t} :
                      u > Resolved.provider =>
                        /\ IsUseful(u, Resolved)
                        /\ tables'[u] = tables[u]]_vars

\* A misprediction is answered by a longer table: the same branch under the same
\* history is then provided by a longer one than the one that failed, even if
\* the lookup was stale and all the longer entries were useful.
MispredictionMovesUp ==
    [][\A a \in Addresses, h \in Histories :
         /\ Updating /\ Wrong /\ Resolved.provider < Tables
         /\ Resolved.address = a /\ Resolved.history = h
         => Provider(a, h)' > Resolved.provider]_vars

\* What an update leaves alone: the entries the lookup did not index, and the
\* tables shorter than its provider; an entry's tag changes only above it.
ShorterTablesStay ==
    [][\A t \in TableIds, i \in Entries :
         tables'[t][i] # tables[t][i] =>
           /\ Updating /\ t >= Resolved.provider
           /\ i = Index(t, Resolved.address, Resolved.history)
           /\ tables'[t][i].tag # tables[t][i].tag => Wrong /\ t > Resolved.provider]_vars
=============================================================================
