------------------------------ MODULE LscBtbRas ------------------------------
(***************************************************************************)
(* The predictor "lsc_btb_ras" (predictors/lsc_btb_ras.rs): counters for   *)
(* directions, a buffer of targets, a stack of calls, and a table of the   *)
(* kinds of branches seen, which decides between buffer and stack.         *)
(*                                                                         *)
(* predict writes nothing, so it is an operator of the state and its place *)
(* between updates needs no step; update is the step, given records in     *)
(* trace order (Simulator).  The cost of both is Meter's subject.          *)
(***************************************************************************)
EXTENDS Lsc, Btb, Ras, Sequences

CONSTANTS
    Records,        \* the branches of the traces
    NoRecord,
    MaxCalls        \* bound: calls the traced program has open

Kinds == 1..6
ConditionalDirect == 1
CallDirect == 4
CallIndirect == 5
Return == 6

Record == [address : Address, kind : Kinds, taken : BOOLEAN, next : Address]

ASSUME RecordsAssumption == Records \subseteq Record
ASSUME NoRecordAssumption == NoRecord \notin Records
ASSUME TargetsAssumption == RasTargets = Address
ASSUME MaxCallsAssumption == MaxCalls \in Nat

VARIABLES
    lsc, btb, ras,  \* the components
    meta,           \* [table, valid]: kinds, indexed like the buffer
    last,           \* history: the branch trained last
    open,           \* history: what each open call of the program called
    overflowed,     \* history: a call was open beyond the stack since none was
    streak          \* history: for each counter, its run of equal directions

vars == <<lsc, btb, ras, meta, last, open, overflowed, streak>>

Meta == [table : [BtbIndices -> Kinds \cup {0}], valid : [BtbIndices -> BOOLEAN]]

MaxStreak == 2 * LscHalf

TypeOK ==
    /\ lsc \in Counters
    /\ btb \in Btb
    /\ ras \in Ras
    /\ meta \in Meta
    /\ last \in Records \cup {NoRecord}
    /\ open \in Seq(Address)
    /\ overflowed \in BOOLEAN
    /\ streak \in [LscIndices -> [taken : BOOLEAN, length : 0..MaxStreak]]

Init ==
    /\ lsc = NewCounters
    /\ btb = NewBtb
    /\ ras = NewRas
    /\ meta = [table |-> [i \in BtbIndices |-> 0], valid |-> [i \in BtbIndices |-> FALSE]]
    /\ last = NoRecord
    /\ open = <<>>
    /\ overflowed = FALSE
    /\ streak = [i \in LscIndices |-> [taken |-> FALSE, length |-> 0]]

-----------------------------------------------------------------------------
(***************************************************************************)
(* predict.                                                                *)
(***************************************************************************)
KnownReturn(address) ==
    meta.valid[BtbIndex(address)] /\ meta.table[BtbIndex(address)] = Return

\* Mutant: the kind is believed whether or not it was ever stored.
Target_AnyKind(address) ==
    IF ras.count > 0 THEN RasTop(ras) ELSE BtbPredict(btb, address)

\* Only a branch known as a return asks the stack, and an empty stack leaves
\* it to the buffer.
Target(address) ==
    IF KnownReturn(address) /\ ras.count > 0 THEN RasTop(ras)
                                             ELSE BtbPredict(btb, address)

Direction(address) == LscPredict(lsc, address)

-----------------------------------------------------------------------------
(***************************************************************************)
(* update.                                                                 *)
(***************************************************************************)
IsCall(kind) == kind \in {CallDirect, CallIndirect}

TrainTarget(record) ==
    btb' = IF record.taken THEN BtbUpdate(btb, record.address, record.next) ELSE btb

\* A call pushes the address it went to, record.next; a return pops.
TrainStack(record) ==
    ras' = CASE IsCall(record.kind) -> RasPush(ras, record.next)
             [] record.kind = Return -> RasPop(ras)
             [] OTHER -> ras

\* Mutant: the kind is marked valid for calls and returns only.
TrainKind_CallsOnly(record) ==
    LET index == BtbIndex(record.address)
    IN  meta' = [meta EXCEPT !.table[index] = record.kind,
                             !.valid[index] = @ \/ record.kind >= CallDirect]

TrainKind(record) ==
    LET index == BtbIndex(record.address)
    IN  meta' = [meta EXCEPT !.table[index] = record.kind, !.valid[index] = TRUE]

Lengthened(run, taken) ==
    IF run.taken = taken
      THEN [run EXCEPT !.length = IF @ < MaxStreak THEN @ + 1 ELSE @]
      ELSE [taken |-> taken, length |-> 1]

Remember(record) ==
    /\ last' = record
    /\ streak' = [streak EXCEPT ![LscIndex(record.address)] = Lengthened(@, record.taken)]
    /\ open' = CASE IsCall(record.kind) -> Append(open, record.next)
                 [] record.kind = Return /\ open # <<>> -> SubSeq(open, 1, Len(open) - 1)
                 [] OTHER -> open
    /\ overflowed' = (open' # <<>> /\ (overflowed \/ Len(open') > RasCapacity))

Update(record) ==
    /\ IsCall(record.kind) => Len(open) < MaxCalls
    /\ TrainTarget(record)
    /\ lsc' = LscUpdate(lsc, record.address, record.taken)
    /\ TrainStack(record)
    /\ TrainKind(record)
    /\ Remember(record)

Next == \E record \in Records : Update(record)

Spec == Init /\ [][Next]_vars

-----------------------------------------------------------------------------
(***************************************************************************)
(* Properties.                                                             *)
(***************************************************************************)
Frames == [i \in 1..ras.count |-> ras.stack[i - 1]]

\* However deep the calls went and however often the full stack ignored one,
\* its frames are those of calls still open, in the order of the calls; so no
\* ignored call misaligns the stack for longer than the program takes to
\* return to its outermost level, where the stack is empty.
FramesAreOpenCalls ==
    \E place \in [1..ras.count -> 1..Len(open)] :
      /\ \A i, j \in 1..ras.count : i < j => place[i] < place[j]
      /\ \A i \in 1..ras.count : ras.stack[i - 1] = open[place[i]]

\* Unless a call was ignored since the program was last at its outermost level,
\* a branch known as a return goes where the innermost open call went.
ReturnsFollowCalls ==
    ~overflowed /\ open # <<>> =>
      \A address \in Address :
        KnownReturn(address) => Target(address) = open[Len(open)]

\* Half the counter's range of equal directions, whatever came before and
\* whichever branches share the counter, decides the prediction.
StreaksDecide ==
    \A address \in Address :
      LET run == streak[LscIndex(address)]
      IN  run.length >= LscHalf => Direction(address) = run.taken

\* A stored target always comes with the kind of some branch: Kind::from never
\* meets the discriminant zero of an unused cell, and no target can be used for
\* a branch that may be a return without it being known.
TargetsHaveKinds ==
    \A i \in BtbIndices :
      /\ btb.valid[i] => meta.valid[i]
      /\ meta.valid[i] => meta.table[i] \in Kinds

\* Tables without tags: training a branch changes the prediction for another
\* only if they share the counter (direction) or the buffer entry (target), or
\* if the other is known as a return and the trained one is a call or a return.
OnlyRelated ==
    \A address \in Address :
      /\ Direction(address)' # Direction(address) =>
           LscIndex(last'.address) = LscIndex(address)
      /\ Target(address)' # Target(address) =>
           \/ BtbIndex(last'.address) = BtbIndex(address)
           \/ KnownReturn(address) /\ (IsCall(last'.kind) \/ last'.kind = Return)

Isolation == [][OnlyRelated]_vars
=============================================================================
