--------------------------- MODULE LscBtbRasProofs ---------------------------
(***************************************************************************)
(* Proofs about LscBtbRas, for every set of branches, every capacity and   *)
(* every width of the counters, and about Pricing, for every cost table    *)
(* that prices the operations of the built-in one.                         *)
(***************************************************************************)
EXTENDS Pricing, SequenceTheorems, TLAPS

-----------------------------------------------------------------------------
(***************************************************************************)
(* The inductive invariant.                                                *)
(***************************************************************************)

\* A run of equal directions has moved its counter as far, or to the end.
CountersFollowStreaks ==
    \A i \in LscIndices :
      LET run == streak[i]
      IN  /\ run.taken => lsc[i] >= run.length \/ lsc[i] = 2 * LscHalf - 1
          /\ ~run.taken => lsc[i] + run.length <= 2 * LscHalf - 1 \/ lsc[i] = 0

\* Before anything is lost, the stack is the list of open calls.
ExactBeforeOverflow ==
    ~overflowed =>
      /\ ras.count = Len(open)
      /\ \A i \in 1..ras.count : ras.stack[i - 1] = open[i]

IInv ==
    /\ TypeOK
    /\ FramesAreOpenCalls
    /\ CountersFollowStreaks
    /\ ExactBeforeOverflow
    /\ TargetsHaveKinds

-----------------------------------------------------------------------------
LEMMA LscIndexType == \A a \in Address : LscIndex(a) \in LscIndices
<1> SUFFICES ASSUME NEW a \in Address PROVE LscIndex(a) \in LscIndices
    OBVIOUS
<1>1. a \in Nat /\ LscCapacity \in Nat \ {0}
    BY LscAssumption, BtbAssumption DEF Address
<1>2. a \div 4 \in Nat
    BY <1>1
<1>3. QED
    BY <1>1, <1>2 DEF LscIndex, LscIndices

LEMMA BtbIndexType == \A a \in Address : BtbIndex(a) \in BtbIndices
<1> SUFFICES ASSUME NEW a \in Address PROVE BtbIndex(a) \in BtbIndices
    OBVIOUS
<1>1. a \in Nat /\ BtbCapacity \in Nat \ {0}
    BY BtbAssumption DEF Address
<1>2. a \div 4 \in Nat
    BY <1>1
<1>3. QED
    BY <1>1, <1>2 DEF BtbIndex, BtbIndices

LEMMA RecordType ==
    ASSUME NEW record \in Records
    PROVE  /\ record.address \in Address /\ record.next \in Address
           /\ record.kind \in Kinds /\ record.taken \in BOOLEAN
           /\ LscIndex(record.address) \in LscIndices
           /\ BtbIndex(record.address) \in BtbIndices
<1>1. record \in Record
    BY RecordsAssumption
<1>2. record.address \in Address /\ record.next \in Address
      /\ record.kind \in Kinds /\ record.taken \in BOOLEAN
    BY <1>1 DEF Record
<1>3. QED
    BY <1>2, LscIndexType, BtbIndexType

LEMMA SteppedType ==
    ASSUME NEW counter \in 0..2 * LscHalf - 1, NEW taken \in BOOLEAN
    PROVE  Stepped(counter, taken) \in 0..2 * LscHalf - 1
BY LscAssumption DEF Stepped

\* One more outcome moves counter and run together.
LEMMA SteppedFollows ==
    ASSUME NEW counter \in 0..2 * LscHalf - 1, NEW taken \in BOOLEAN,
           NEW run \in [taken : BOOLEAN, length : 0..MaxStreak],
           run.taken => counter >= run.length \/ counter = 2 * LscHalf - 1,
           ~run.taken => counter + run.length <= 2 * LscHalf - 1 \/ counter = 0,
           NEW after, after = Lengthened(run, taken)
    PROVE  /\ after \in [taken : BOOLEAN, length : 0..MaxStreak]
           /\ after.taken => \/ Stepped(counter, taken) >= after.length
                             \/ Stepped(counter, taken) = 2 * LscHalf - 1
           /\ ~after.taken => \/ Stepped(counter, taken) + after.length <= 2 * LscHalf - 1
                              \/ Stepped(counter, taken) = 0
<1> USE LscAssumption DEF MaxStreak
<1>0. run.taken \in BOOLEAN /\ run.length \in 0..2 * LscHalf
    OBVIOUS
<1>1. CASE run.taken = taken
    <2>1. after = [run EXCEPT !.length = IF @ < MaxStreak THEN @ + 1 ELSE @]
        BY <1>1 DEF Lengthened
    <2>2. after.taken = taken /\ after.length = IF run.length < 2 * LscHalf THEN run.length + 1 ELSE run.length
        BY <2>1, <1>1
    <2>3. after \in [taken : BOOLEAN, length : 0..MaxStreak]
        BY <2>1, <2>2, <1>0
    <2>4. CASE taken
        <3>1. run.taken /\ after.taken
            BY <1>1, <2>2, <2>4
        <3>2. counter >= run.length \/ counter = 2 * LscHalf - 1
            BY <3>1
        <3>3. \/ Stepped(counter, taken) >= after.length
              \/ Stepped(counter, taken) = 2 * LscHalf - 1
            BY <2>2, <2>4, <3>2, <1>0 DEF Stepped
        <3>4. QED
            BY <2>3, <3>1, <3>3
    <2>5. CASE ~taken
        <3>1. ~run.taken /\ ~after.taken
            BY <1>1, <2>2, <2>5
        <3>2. counter + run.length <= 2 * LscHalf - 1 \/ counter = 0
            BY <3>1
        <3>3. \/ Stepped(counter, taken) + after.length <= 2 * LscHalf - 1
              \/ Stepped(counter, taken) = 0
            BY <2>2, <2>5, <3>2, <1>0 DEF Stepped
        <3>4. QED
            BY <2>3, <3>1, <3>3
    <2>6. QED
        BY <2>4, <2>5
<1>2. CASE run.taken # taken
    <2>1. after = [taken |-> taken, length |-> 1]
        BY <1>2 DEF Lengthened
    <2>2. CASE taken
        BY <2>1, <2>2 DEF Stepped
    <2>3. CASE ~taken
        BY <2>1, <2>3 DEF Stepped
    <2>4. QED
        BY <2>2, <2>3
<1>3. QED
    BY <1>1, <1>2

-----------------------------------------------------------------------------
(***************************************************************************)
(* The stack of calls.                                                     *)
(***************************************************************************)

\* What is left of a sequence of calls without the last one.
LEMMA DropLast ==
    ASSUME NEW calls \in Seq(Address), calls # <<>>
    PROVE  /\ Len(calls) \in Nat \ {0}
           /\ SubSeq(calls, 1, Len(calls) - 1) \in Seq(Address)
           /\ Len(SubSeq(calls, 1, Len(calls) - 1)) = Len(calls) - 1
           /\ \A i \in 1..Len(calls) - 1 : SubSeq(calls, 1, Len(calls) - 1)[i] = calls[i]
<1> DEFINE n == Len(calls)
           s == SubSeq(calls, 1, n - 1)
<1>1. calls \in Seq(Address)
    OBVIOUS
<1>2. n \in Nat \ {0}
    BY <1>1, EmptySeq
<1>3. \A i \in 1..n - 1 : calls[i] \in Address
    BY <1>1, <1>2
<1>4. /\ s \in Seq(Address)
      /\ Len(s) = IF 1 <= n - 1 THEN (n - 1) - 1 + 1 ELSE 0
      /\ \A i \in 1..(n - 1) - 1 + 1 : s[i] = calls[1 + i - 1]
    <2> HIDE DEF n
    <2>1. QED
        BY <1>2, <1>3, SubSeqProperties DEF s
<1> HIDE DEF n, s
<1>5. Len(s) = n - 1 /\ \A i \in 1..n - 1 : s[i] = calls[i]
    BY <1>2, <1>4
<1>6. QED
    BY <1>2, <1>4, <1>5 DEF n, s

\* An embedding of the frames in the open calls that keeps their order.
Embeds(place, stack, count, calls) ==
    /\ place \in [1..count -> 1..Len(calls)]
    /\ \A i, j \in 1..count : i < j => place[i] < place[j]
    /\ \A i \in 1..count : stack[i - 1] = calls[place[i]]

LEMMA PushEffect ==
    ASSUME NEW r \in Ras, NEW target \in Address
    PROVE  /\ RasPush(r, target) \in Ras
           /\ r.count < RasCapacity =>
                /\ RasPush(r, target).count = r.count + 1
                /\ RasPush(r, target).stack = [r.stack EXCEPT ![r.count] = target]
           /\ ~(r.count < RasCapacity) => RasPush(r, target) = r
<1>1. RasCapacity \in Nat \ {0} /\ RasMaxCount \in Nat /\ RasCapacity <= RasMaxCount
    BY RasAssumption
<1>2. r.count \in 0..RasCapacity /\ r.stack \in [Cells -> Address]
    BY TargetsAssumption DEF Ras
<1>3. CASE r.count < RasCapacity
    <2>1. r.count \in Cells /\ r.count < RasMaxCount
        BY <1>1, <1>2, <1>3 DEF Cells
    <2>2. [r.stack EXCEPT ![r.count] = target] \in [Cells -> Address]
        BY <1>2, <2>1
    <2>3. RasPush(r, target) = [r EXCEPT !.stack = [r.stack EXCEPT ![r.count] = target],
                                         !.count = r.count + 1]
        BY <1>3, <2>1 DEF RasPush, Ras
    <2>4. r.count + 1 \in 0..RasCapacity
        BY <1>1, <1>2, <1>3
    <2>5. QED
        BY <1>3, <2>2, <2>3, <2>4, TargetsAssumption DEF Ras
<1>4. CASE ~(r.count < RasCapacity)
    BY <1>4 DEF RasPush
<1>5. QED
    BY <1>3, <1>4

LEMMA PopEffect ==
    ASSUME NEW r \in Ras
    PROVE  /\ RasPop(r) \in Ras
           /\ r.count > 0 =>
                /\ RasPop(r).count = r.count - 1
                /\ RasPop(r).stack = [r.stack EXCEPT ![r.count - 1] = 0]
           /\ r.count = 0 => RasPop(r) = r
<1>1. RasCapacity \in Nat \ {0} /\ 0 \in Address
    BY RasAssumption, TargetsAssumption
<1>2. r.count \in 0..RasCapacity /\ r.stack \in [Cells -> Address]
    BY TargetsAssumption DEF Ras
<1>3. CASE r.count > 0
    <2>1. r.count - 1 \in Cells /\ r.count - 1 \in 0..RasCapacity
        BY <1>1, <1>2, <1>3 DEF Cells
    <2>2. [r.stack EXCEPT ![r.count - 1] = 0] \in [Cells -> Address]
        BY <1>1, <1>2, <2>1
    <2>3. RasPop(r) = [r EXCEPT !.stack = [r.stack EXCEPT ![r.count - 1] = 0],
                                !.count = r.count - 1]
        BY <1>3 DEF RasPop, Ras
    <2>4. /\ RasPop(r).count = r.count - 1
          /\ RasPop(r).stack = [r.stack EXCEPT ![r.count - 1] = 0]
        BY <2>3 DEF Ras
    <2>5. RasPop(r) \in Ras
        BY <2>1, <2>2, <2>3, TargetsAssumption DEF Ras
    <2>6. QED
        BY <1>2, <1>3, <2>4, <2>5
<1>4. CASE r.count = 0
    BY <1>4 DEF RasPop
<1>5. QED
    BY <1>2, <1>3, <1>4

LEMMA EmbedPush ==
    ASSUME NEW count \in Nat, NEW calls \in Seq(Address), NEW target \in Address,
           NEW stack \in [Cells -> Address], NEW place, count \in Cells,
           Embeds(place, stack, count, calls)
    PROVE  \E more : Embeds(more, [stack EXCEPT ![count] = target], count + 1,
                            Append(calls, target))
<1> DEFINE n == Len(calls)
           longer == Append(calls, target)
           more == [i \in 1..count + 1 |-> IF i = count + 1 THEN n + 1 ELSE place[i]]
           after == [stack EXCEPT ![count] = target]
<1>1. n \in Nat /\ Len(longer) = n + 1 /\ longer[n + 1] = target
      /\ \A i \in 1..n : longer[i] = calls[i]
    OBVIOUS
<1>2. \A i \in 1..count : place[i] \in 1..n
    BY DEF Embeds
<1>3. more \in [1..count + 1 -> 1..n + 1]
    BY <1>1, <1>2
<1>4. \A i, j \in 1..count + 1 : i < j => more[i] < more[j]
    BY <1>1, <1>2 DEF Embeds
<1>5. ASSUME NEW i \in 1..count + 1 PROVE after[i - 1] = longer[more[i]]
    <2>1. CASE i = count + 1
        BY <1>1, <2>1
    <2>2. CASE i # count + 1
        <3>1. i \in 1..count /\ i - 1 # count /\ i - 1 \in Cells
            BY <2>2, RasAssumption DEF Cells
        <3>2. after[i - 1] = stack[i - 1] /\ stack[i - 1] = calls[place[i]]
            BY <3>1 DEF Embeds
        <3>3. more[i] = place[i] /\ place[i] \in 1..n
            BY <1>2, <3>1, <2>2
        <3>4. QED
            BY <1>1, <3>2, <3>3
    <2>3. QED
        BY <2>1, <2>2
<1>6. Embeds(more, after, count + 1, longer)
    BY <1>1, <1>3, <1>4, <1>5 DEF Embeds
<1>7. QED
    BY <1>6

LEMMA EmbedLonger ==
    ASSUME NEW count \in Nat, NEW calls \in Seq(Address), NEW target \in Address,
           NEW stack, NEW place, Embeds(place, stack, count, calls)
    PROVE  Embeds(place, stack, count, Append(calls, target))
<1>1. Len(calls) \in Nat /\ Len(Append(calls, target)) = Len(calls) + 1
      /\ \A i \in 1..Len(calls) : Append(calls, target)[i] = calls[i]
    OBVIOUS
<1>2. \A i \in 1..count : place[i] \in 1..Len(calls)
    BY DEF Embeds
<1>3. place \in [1..count -> 1..Len(Append(calls, target))]
    BY <1>1, <1>2 DEF Embeds
<1>4. \A i \in 1..count : stack[i - 1] = Append(calls, target)[place[i]]
    BY <1>1, <1>2 DEF Embeds
<1>5. QED
    BY <1>3, <1>4 DEF Embeds

LEMMA EmbedPop ==
    ASSUME NEW count \in Nat, NEW calls \in Seq(Address), calls # <<>>,
           NEW stack \in [Cells -> Address], NEW place, count > 0,
           count <= RasCapacity,
           Embeds(place, stack, count, calls)
    PROVE  \E less : Embeds(less, [stack EXCEPT ![count - 1] = 0], count - 1,
                            SubSeq(calls, 1, Len(calls) - 1))
<1> DEFINE n == Len(calls)
           shorter == SubSeq(calls, 1, n - 1)
           less == [i \in 1..count - 1 |-> place[i]]
           after == [stack EXCEPT ![count - 1] = 0]
<1>1. n \in Nat \ {0} /\ Len(shorter) = n - 1 /\ \A i \in 1..n - 1 : shorter[i] = calls[i]
    BY DropLast
<1>2. \A i \in 1..count : place[i] \in 1..n
    BY DEF Embeds
<1>3. ASSUME NEW i \in 1..count - 1
      PROVE  i \in 1..count /\ place[i] \in 1..n - 1 /\ less[i] = place[i]
    <2>1. place[i] < place[count]
        BY DEF Embeds
    <2>2. QED
        BY <1>1, <1>2, <2>1
<1>4. less \in [1..count - 1 -> 1..Len(shorter)]
    BY <1>1, <1>3
<1>5. \A i, j \in 1..count - 1 : i < j => less[i] < less[j]
    BY <1>3 DEF Embeds
<1>6. ASSUME NEW i \in 1..count - 1 PROVE after[i - 1] = shorter[less[i]]
    <2>1. i - 1 \in Cells /\ i - 1 # count - 1
        BY RasAssumption DEF Cells
    <2>2. after[i - 1] = calls[place[i]]
        BY <1>3, <2>1 DEF Embeds
    <2>3. QED
        BY <1>1, <1>3, <2>2
<1>7. Embeds(less, after, count - 1, shorter)
    BY <1>4, <1>5, <1>6 DEF Embeds
<1>8. QED
    BY <1>7

-----------------------------------------------------------------------------
LEMMA InvInit == Init => IInv
<1> SUFFICES ASSUME Init PROVE IInv
    OBVIOUS
<1> USE DEF Init, NewCounters, NewBtb, NewRas
<1>1. 0 \in Address /\ LscHalf \in Nat \ {0} /\ RasCapacity \in Nat \ {0}
    BY RasAssumption, TargetsAssumption, LscAssumption
<1>2. ras.count = 0 /\ open = <<>> /\ Len(open) = 0
    OBVIOUS
<1>3. TypeOK
    <2>1. lsc \in Counters /\ btb \in Btb /\ ras \in Ras /\ meta \in Meta
        BY <1>1, TargetsAssumption DEF Counters, Btb, Ras, Meta
    <2>2. /\ last \in Records \cup {NoRecord} /\ open \in Seq(Address)
          /\ overflowed \in BOOLEAN
        <3>1. open \in Seq(Address)
            OBVIOUS
        <3>2. last \in Records \cup {NoRecord}
            OBVIOUS
        <3>3. overflowed \in BOOLEAN
            BY Zenon
        <3>4. QED
            BY <3>1, <3>2, <3>3
    <2>3. [taken |-> FALSE, length |-> 0] \in [taken : BOOLEAN, length : 0..MaxStreak]
        BY <1>1 DEF MaxStreak
    <2>4. streak \in [LscIndices -> [taken : BOOLEAN, length : 0..MaxStreak]]
        BY <2>3
    <2>5. QED
        BY <2>1, <2>2, <2>4 DEF TypeOK
<1>4. FramesAreOpenCalls
    <2>1. 1..ras.count = {}
        BY <1>2
    <2>2. [i \in 1..ras.count |-> i] \in [1..ras.count -> 1..Len(open)]
        BY <2>1
    <2>3. QED
        BY <2>1, <2>2 DEF FramesAreOpenCalls
<1>5. CountersFollowStreaks
    BY <1>1 DEF CountersFollowStreaks
<1>6. ExactBeforeOverflow
    BY <1>2 DEF ExactBeforeOverflow
<1>7. TargetsHaveKinds
    BY DEF TargetsHaveKinds
<1>8. QED
    BY <1>3, <1>4, <1>5, <1>6, <1>7 DEF IInv

\* The parts of the invariant about counters.
LEMMA CounterStep ==
    ASSUME TypeOK, CountersFollowStreaks, NEW record \in Records, Update(record)
    PROVE  /\ lsc' \in Counters
           /\ streak' \in [LscIndices -> [taken : BOOLEAN, length : 0..MaxStreak]]
           /\ CountersFollowStreaks'
<1> DEFINE here == LscIndex(record.address)
<1>1. here \in LscIndices /\ record.taken \in BOOLEAN
    BY RecordType
<1>2. /\ lsc \in [LscIndices -> 0..2 * LscHalf - 1]
      /\ streak \in [LscIndices -> [taken : BOOLEAN, length : 0..MaxStreak]]
    BY DEF TypeOK, Counters
<1>3. /\ lsc' = [lsc EXCEPT ![here] = Stepped(lsc[here], record.taken)]
      /\ streak' = [streak EXCEPT ![here] = Lengthened(streak[here], record.taken)]
    BY DEF Update, Remember, LscUpdate
<1> HIDE DEF here
<1>4. /\ lsc[here] \in 0..2 * LscHalf - 1
      /\ streak[here] \in [taken : BOOLEAN, length : 0..MaxStreak]
    BY <1>1, <1>2
<1>5. /\ streak[here].taken => lsc[here] >= streak[here].length \/ lsc[here] = 2 * LscHalf - 1
      /\ ~streak[here].taken =>
           lsc[here] + streak[here].length <= 2 * LscHalf - 1 \/ lsc[here] = 0
    BY <1>1 DEF CountersFollowStreaks
<1>6. Stepped(lsc[here], record.taken) \in 0..2 * LscHalf - 1
    BY <1>1, <1>4, SteppedType
<1> DEFINE after == Lengthened(streak[here], record.taken)
           step == Stepped(lsc[here], record.taken)
<1>7. /\ after \in [taken : BOOLEAN, length : 0..MaxStreak]
      /\ after.taken => step >= after.length \/ step = 2 * LscHalf - 1
      /\ ~after.taken => step + after.length <= 2 * LscHalf - 1 \/ step = 0
    BY <1>1, <1>4, <1>5, SteppedFollows
<1> HIDE DEF after, step
<1>8. lsc' = [lsc EXCEPT ![here] = step] /\ streak' = [streak EXCEPT ![here] = after]
      /\ step \in 0..2 * LscHalf - 1
    BY <1>3, <1>6 DEF after, step
<1>9. lsc' \in Counters
    BY <1>2, <1>8 DEF Counters
<1>10. streak' \in [LscIndices -> [taken : BOOLEAN, length : 0..MaxStreak]]
    BY <1>2, <1>7, <1>8
<1>11. ASSUME NEW i \in LscIndices
       PROVE  /\ streak'[i].taken => lsc'[i] >= streak'[i].length \/ lsc'[i] = 2 * LscHalf - 1
              /\ ~streak'[i].taken =>
                   lsc'[i] + streak'[i].length <= 2 * LscHalf - 1 \/ lsc'[i] = 0
    <2>1. CASE i = here
        <3>1. streak'[i] = after /\ lsc'[i] = step
            BY <1>2, <1>8, <2>1
        <3>2. QED
            BY <1>7, <3>1
    <2>2. CASE i # here
        <3>1. streak'[i] = streak[i] /\ lsc'[i] = lsc[i]
            BY <1>2, <1>8, <2>2
        <3>2. QED
            BY <3>1 DEF CountersFollowStreaks
    <2>3. QED
        BY <2>1, <2>2
<1>12. QED
    BY <1>9, <1>10, <1>11 DEF CountersFollowStreaks

\* The parts about targets and kinds.
LEMMA TableStep ==
    ASSUME TypeOK, TargetsHaveKinds, NEW record \in Records, Update(record)
    PROVE  btb' \in Btb /\ meta' \in Meta /\ TargetsHaveKinds'
<1> DEFINE here == BtbIndex(record.address)
<1>1. /\ here \in BtbIndices /\ record.next \in Address
      /\ record.kind \in Kinds
    BY RecordType
<1>2. /\ btb.buffer \in [BtbIndices -> Address] /\ btb.valid \in [BtbIndices -> BOOLEAN]
      /\ meta.table \in [BtbIndices -> Kinds \cup {0}] /\ meta.valid \in [BtbIndices -> BOOLEAN]
    BY DEF TypeOK, Btb, Meta
<1>3. /\ btb' = btb \/ btb' = [btb EXCEPT !.buffer = [btb.buffer EXCEPT ![here] = record.next],
                                         !.valid = [btb.valid EXCEPT ![here] = TRUE]]
      /\ meta' = [meta EXCEPT !.table = [meta.table EXCEPT ![here] = record.kind],
                              !.valid = [meta.valid EXCEPT ![here] = TRUE]]
    BY DEF Update, TrainTarget, TrainKind, BtbUpdate
<1> HIDE DEF here
<1>4. /\ [btb.buffer EXCEPT ![here] = record.next] \in [BtbIndices -> Address]
      /\ [btb.valid EXCEPT ![here] = TRUE] \in [BtbIndices -> BOOLEAN]
      /\ [meta.table EXCEPT ![here] = record.kind] \in [BtbIndices -> Kinds \cup {0}]
      /\ [meta.valid EXCEPT ![here] = TRUE] \in [BtbIndices -> BOOLEAN]
    BY <1>1, <1>2
<1>5. btb' \in Btb /\ meta' \in Meta
    BY <1>3, <1>4 DEF TypeOK, Btb, Meta
<1>6. /\ btb'.valid = btb.valid \/ btb'.valid = [btb.valid EXCEPT ![here] = TRUE]
      /\ meta'.table = [meta.table EXCEPT ![here] = record.kind]
      /\ meta'.valid = [meta.valid EXCEPT ![here] = TRUE]
    BY <1>3, <1>4 DEF TypeOK, Btb, Meta
<1>7. TargetsHaveKinds'
    BY <1>1, <1>2, <1>6 DEF TargetsHaveKinds
<1>8. QED
    BY <1>5, <1>7

\* The parts about the stack.
LEMMA StackStep ==
    ASSUME TypeOK, FramesAreOpenCalls, ExactBeforeOverflow,
           NEW record \in Records, Update(record)
    PROVE  /\ ras' \in Ras /\ open' \in Seq(Address) /\ overflowed' \in BOOLEAN
           /\ FramesAreOpenCalls' /\ ExactBeforeOverflow'
<1>1. /\ ras \in Ras /\ open \in Seq(Address) /\ overflowed \in BOOLEAN
      /\ record.next \in Address
    BY RecordType DEF TypeOK
<1>2. /\ ras.stack \in [Cells -> Address] /\ ras.count \in 0..RasCapacity
      /\ RasCapacity \in Nat \ {0} /\ 0 \in Address
    BY <1>1, RasAssumption, TargetsAssumption DEF Ras
<1>3. PICK place : Embeds(place, ras.stack, ras.count, open)
    BY DEF FramesAreOpenCalls, Embeds
<1>4. overflowed' = (open' # <<>> /\ (overflowed \/ Len(open') > RasCapacity))
    BY DEF Update, Remember
<1>5. ASSUME NEW embedding, Embeds(embedding, ras'.stack, ras'.count, open')
      PROVE  FramesAreOpenCalls'
    BY <1>5 DEF FramesAreOpenCalls, Embeds
<1>6. overflowed' \in BOOLEAN
    BY <1>4
<1>7. CASE IsCall(record.kind)
    <2>1. ras' = RasPush(ras, record.next) /\ open' = Append(open, record.next)
        <3>1. record.kind # Return
            BY <1>7 DEF IsCall, Return, CallDirect, CallIndirect
        <3>2. ras' = RasPush(ras, record.next)
            BY <1>7, <3>1 DEF Update, TrainStack
        <3>3. open' = Append(open, record.next)
            BY <1>7, <3>1 DEF Update, Remember
        <3>4. QED
            BY <3>2, <3>3
    <2>2. /\ open' \in Seq(Address) /\ open' # <<>> /\ Len(open') = Len(open) + 1
          /\ Len(open) \in Nat /\ open'[Len(open) + 1] = record.next
          /\ \A i \in 1..Len(open) : open'[i] = open[i]
        BY <1>1, <2>1
    <2>3. CASE ras.count < RasCapacity
        <3>1. /\ ras' \in Ras /\ ras'.count = ras.count + 1
              /\ ras'.stack = [ras.stack EXCEPT ![ras.count] = record.next]
            BY <1>1, <2>1, <2>3, PushEffect
        <3>2. ras.count \in Cells
            BY <1>2, <2>3 DEF Cells
        <3>3. \E more : Embeds(more, [ras.stack EXCEPT ![ras.count] = record.next],
                               ras.count + 1, Append(open, record.next))
            BY <1>1, <1>2, <1>3, <3>2, EmbedPush
        <3>4. FramesAreOpenCalls'
            BY <1>5, <2>1, <3>1, <3>3
        <3>5. ASSUME ~overflowed' PROVE ras'.count = Len(open')
            BY <1>4, <2>2, <3>1, <3>5 DEF ExactBeforeOverflow
        <3>6. ASSUME ~overflowed', NEW i \in 1..ras'.count
              PROVE  ras'.stack[i - 1] = open'[i]
            <4>1. ras.count = Len(open) /\ \A j \in 1..ras.count : ras.stack[j - 1] = open[j]
                BY <1>4, <2>2, <3>6 DEF ExactBeforeOverflow
            <4>2. CASE i = ras.count + 1
                BY <1>2, <2>2, <3>1, <3>2, <4>1, <4>2
            <4>3. CASE i # ras.count + 1
                <5>1. i \in 1..ras.count /\ i - 1 \in Cells /\ i - 1 # ras.count
                    BY <1>2, <3>1, <3>6, <4>3 DEF Cells
                <5>2. ras'.stack[i - 1] = ras.stack[i - 1]
                    BY <1>2, <3>1, <5>1
                <5>3. QED
                    BY <2>2, <4>1, <5>1, <5>2
            <4>4. QED
                BY <4>2, <4>3
        <3>7. QED
            BY <1>6, <2>2, <3>1, <3>4, <3>5, <3>6 DEF ExactBeforeOverflow
    <2>4. CASE ~(ras.count < RasCapacity)
        <3>1. ras' = ras
            BY <1>1, <2>1, <2>4, PushEffect
        <3>2. Embeds(place, ras.stack, ras.count, Append(open, record.next))
            BY <1>1, <1>2, <1>3, EmbedLonger
        <3>3. FramesAreOpenCalls'
            BY <1>5, <2>1, <3>1, <3>2
        <3>4. overflowed'
            <4>1. ~overflowed => ras.count = Len(open)
                BY DEF ExactBeforeOverflow
            <4>2. ras.count = Len(open) => Len(open') > RasCapacity
                BY <1>2, <2>2, <2>4
            <4>3. open' # <<>>
                BY <2>2
            <4>4. QED
                BY <1>4, <4>1, <4>2, <4>3, Zenon
        <3>5. QED
            BY <1>1, <1>6, <2>2, <3>1, <3>3, <3>4 DEF ExactBeforeOverflow
    <2>5. QED
        BY <2>3, <2>4
<1>8. CASE record.kind = Return
    <2>1. /\ ras' = RasPop(ras)
          /\ open' = IF open # <<>> THEN SubSeq(open, 1, Len(open) - 1) ELSE open
        BY <1>8 DEF Update, TrainStack, Remember, IsCall, Return, CallDirect, CallIndirect
    <2>2. CASE open = <<>>
        <3>1. Len(open) = 0
            BY <2>2
        <3>2. ras.count = 0
            BY <1>2, <1>3, <3>1 DEF Embeds
        <3>3. ras' = ras /\ open' = open
            BY <1>1, <2>1, <2>2, <3>2, PopEffect
        <3>4. QED
            BY <1>1, <1>3, <1>5, <1>6, <2>2, <3>1, <3>2, <3>3 DEF ExactBeforeOverflow
    <2>3. CASE open # <<>>
        <3>1. open' = SubSeq(open, 1, Len(open) - 1) /\ Len(open) \in Nat \ {0}
            BY <1>1, <2>1, <2>3, DropLast
        <3>2. /\ open' \in Seq(Address) /\ Len(open') = Len(open) - 1
              /\ \A i \in 1..Len(open) - 1 : open'[i] = open[i]
            BY <1>1, <2>3, <3>1, DropLast
        <3>3. CASE ras.count = 0
            <4>1. ras' = ras
                BY <1>1, <2>1, <3>3, PopEffect
            <4>2. Embeds(place, ras'.stack, ras'.count, open')
                BY <1>3, <3>3, <4>1 DEF Embeds
            <4>3. overflowed
                BY <3>1, <3>3 DEF ExactBeforeOverflow
            <4>4. overflowed' \/ Len(open') = 0
                <5>1. overflowed' \/ open' = <<>>
                    BY <1>4, <4>3, Zenon
                <5>2. open' = <<>> => Len(open') = 0
                    OBVIOUS
                <5>3. QED
                    BY <5>1, <5>2
            <4>5. QED
                BY <1>1, <1>5, <1>6, <3>2, <3>3, <4>1, <4>2, <4>4 DEF ExactBeforeOverflow
        <3>4. CASE ras.count > 0
            <4>1. /\ ras' \in Ras /\ ras'.count = ras.count - 1
                  /\ ras'.stack = [ras.stack EXCEPT ![ras.count - 1] = 0]
                BY <1>1, <2>1, <3>4, PopEffect
            <4>2. \E less : Embeds(less, [ras.stack EXCEPT ![ras.count - 1] = 0],
                                   ras.count - 1, SubSeq(open, 1, Len(open) - 1))
                BY <1>1, <1>2, <1>3, <2>3, <3>4, EmbedPop
            <4>3. PICK less : Embeds(less, ras'.stack, ras'.count, open')
                BY <3>1, <4>1, <4>2
            <4>4. FramesAreOpenCalls'
                BY <1>5, <4>3
            <4>5. CASE overflowed
                <5>1. overflowed' \/ open' = <<>>
                    BY <1>4, <4>5
                <5>2. open' = <<>> => Len(open') = 0
                    OBVIOUS
                <5>3. Len(open') = 0 => ras'.count = 0
                    BY <1>2, <3>4, <4>1, <4>3 DEF Embeds
                <5>4. QED
                    BY <1>6, <3>2, <4>1, <4>4, <5>1, <5>2, <5>3 DEF ExactBeforeOverflow
            <4>6. CASE ~overflowed
                <5>1. ras.count = Len(open) /\ \A j \in 1..ras.count : ras.stack[j - 1] = open[j]
                    BY <4>6 DEF ExactBeforeOverflow
                <5>2. ASSUME NEW i \in 1..ras'.count PROVE ras'.stack[i - 1] = open'[i]
                    <6>1. i \in 1..ras.count /\ i - 1 \in Cells /\ i - 1 # ras.count - 1
                        BY <1>2, <4>1, <5>2 DEF Cells
                    <6>2. ras'.stack[i - 1] = ras.stack[i - 1]
                        BY <1>2, <4>1, <6>1
                    <6>3. open'[i] = open[i]
                        BY <3>2, <4>1, <5>1
                    <6>4. QED
                        BY <5>1, <6>1, <6>2, <6>3
                <5>3. QED
                    BY <1>6, <3>2, <4>1, <4>4, <5>1, <5>2 DEF ExactBeforeOverflow
            <4>7. QED
                BY <4>5, <4>6, <1>1
        <3>5. QED
            BY <1>2, <3>3, <3>4
    <2>4. QED
        BY <2>2, <2>3
<1>9. CASE ~IsCall(record.kind) /\ record.kind # Return
    <2>1. ras' = ras /\ open' = open
        BY <1>9 DEF Update, TrainStack, Remember
    <2>2. ~overflowed' => open' = <<>> \/ ~overflowed
        BY <1>4
    <2>3. open' = <<>> => Len(open) = 0 /\ ras.count = 0
        BY <1>2, <1>3, <2>1 DEF Embeds
    <2>4. QED
        BY <1>1, <1>3, <1>5, <1>6, <2>1, <2>2, <2>3 DEF ExactBeforeOverflow
<1>10. QED
    BY <1>7, <1>8, <1>9

LEMMA InvNext == IInv /\ [Next]_vars => IInv'
<1> SUFFICES ASSUME IInv, [Next]_vars PROVE IInv'
    OBVIOUS
<1>1. CASE UNCHANGED vars
    BY <1>1 DEF vars, IInv, TypeOK, FramesAreOpenCalls, CountersFollowStreaks,
       ExactBeforeOverflow, TargetsHaveKinds
<1>2. CASE Next
    <2>1. PICK record \in Records : Update(record)
        BY <1>2 DEF Next
    <2>2. last' \in Records \cup {NoRecord}
        BY <2>1 DEF Update, Remember
    <2>3. QED
        BY <2>1, <2>2, CounterStep, TableStep, StackStep DEF IInv, TypeOK
<1>3. QED
    BY <1>1, <1>2

-----------------------------------------------------------------------------
(***************************************************************************)
(* The theorems.                                                           *)
(***************************************************************************)

\* The invariant holds in every reachable state.
THEOREM Invariance == Spec => []IInv
BY InvInit, InvNext, PTL DEF Spec

\* Counters, tables and stack stay within their widths.
THEOREM TypeCorrect == Spec => []TypeOK
<1>1. IInv => TypeOK
    BY DEF IInv
<1>2. QED
    BY <1>1, Invariance, PTL

\* The stack holds calls that are still open, in order, after any overflow.
THEOREM StackKeepsOpenCalls == Spec => []FramesAreOpenCalls
<1>1. IInv => FramesAreOpenCalls
    BY DEF IInv
<1>2. QED
    BY <1>1, Invariance, PTL

\* A stored target comes with a kind that can be decoded.
THEOREM KindsAreKnown == Spec => []TargetsHaveKinds
<1>1. IInv => TargetsHaveKinds
    BY DEF IInv
<1>2. QED
    BY <1>1, Invariance, PTL

\* Half the range of equal directions decides the prediction.
THEOREM CountersLearn == Spec => []StreaksDecide
<1>1. IInv => StreaksDecide
    <2> SUFFICES ASSUME IInv, NEW address \in Address,
                        streak[LscIndex(address)].length >= LscHalf
                 PROVE  Direction(address) = streak[LscIndex(address)].taken
        BY DEF StreaksDecide
    <2> DEFINE here == LscIndex(address)
               run == streak[here]
    <2>1. here \in LscIndices
        BY LscIndexType
    <2>2. /\ lsc[here] \in 0..2 * LscHalf - 1
          /\ run.taken \in BOOLEAN /\ run.length \in 0..2 * LscHalf
        BY <2>1 DEF IInv, TypeOK, Counters, MaxStreak
    <2>3. /\ run.taken => lsc[here] >= run.length \/ lsc[here] = 2 * LscHalf - 1
          /\ ~run.taken => lsc[here] + run.length <= 2 * LscHalf - 1 \/ lsc[here] = 0
        BY <2>1 DEF IInv, CountersFollowStreaks
    <2>4. Direction(address) = (lsc[here] >= LscHalf)
        BY DEF Direction, LscPredict
    <2> HIDE DEF here, run
    <2>5. CASE run.taken
        <3>1. lsc[here] >= LscHalf
            BY <2>2, <2>3, <2>5, LscAssumption DEF run, here
        <3>2. QED
            BY <2>2, <2>4, <2>5, <3>1 DEF run, here
    <2>6. CASE ~run.taken
        <3>1. ~(lsc[here] >= LscHalf)
            BY <2>2, <2>3, <2>6, LscAssumption DEF run, here
        <3>2. QED
            BY <2>2, <2>4, <2>6, <3>1 DEF run, here
    <2>7. QED
        BY <2>5, <2>6
<1>2. QED
    BY <1>1, Invariance, PTL

\* While nothing was lost, a known return goes where the last call went.
THEOREM ReturnsAreFollowed == Spec => []ReturnsFollowCalls
<1>1. IInv => ReturnsFollowCalls
    <2> SUFFICES ASSUME IInv, ~overflowed, open # <<>>, NEW address \in Address,
                        KnownReturn(address)
                 PROVE  Target(address) = open[Len(open)]
        BY DEF ReturnsFollowCalls
    <2>1. ras.count = Len(open) /\ \A i \in 1..ras.count : ras.stack[i - 1] = open[i]
        BY DEF IInv, ExactBeforeOverflow
    <2>2. Len(open) \in Nat \ {0}
        BY DEF IInv, TypeOK
    <2>3. ras.stack[ras.count - 1] = open[Len(open)]
        BY <2>1, <2>2
    <2>4. QED
        BY <2>1, <2>2, <2>3 DEF Target, RasTop
<1>2. QED
    BY <1>1, Invariance, PTL

\* Training one branch leaves the predictions of unrelated branches alone.
THEOREM BranchesAreIsolated == Spec => Isolation
<1>1. IInv /\ [Next]_vars => [OnlyRelated]_vars
    <2> SUFFICES ASSUME IInv, Next, NEW address \in Address
                 PROVE  /\ Direction(address)' # Direction(address) =>
                             LscIndex(last'.address) = LscIndex(address)
                        /\ Target(address)' # Target(address) =>
                             \/ BtbIndex(last'.address) = BtbIndex(address)
                             \/ /\ KnownReturn(address)
                                /\ IsCall(last'.kind) \/ last'.kind = Return
        BY DEF OnlyRelated, vars
    <2>1. PICK record \in Records : Update(record)
        BY DEF Next
    <2>2. last' = record
        BY <2>1 DEF Update, Remember
    <2>3. /\ LscIndex(address) \in LscIndices /\ BtbIndex(address) \in BtbIndices
          /\ LscIndex(record.address) \in LscIndices /\ BtbIndex(record.address) \in BtbIndices
        BY LscIndexType, BtbIndexType, RecordType
    <2>4. ASSUME LscIndex(record.address) # LscIndex(address)
          PROVE  Direction(address)' = Direction(address)
        <3>1. lsc' = [lsc EXCEPT ![LscIndex(record.address)]
                                   = Stepped(lsc[LscIndex(record.address)], record.taken)]
            BY <2>1 DEF Update, LscUpdate
        <3>2. lsc'[LscIndex(address)] = lsc[LscIndex(address)]
            BY <2>3, <2>4, <3>1 DEF IInv, TypeOK, Counters
        <3>3. QED
            BY <3>2 DEF Direction, LscPredict
    <2>5. ASSUME BtbIndex(record.address) # BtbIndex(address)
          PROVE  /\ BtbPredict(btb, address)' = BtbPredict(btb, address)
                 /\ KnownReturn(address)' = KnownReturn(address)
        <3>1. /\ btb' = btb \/ btb' = [btb EXCEPT
                   !.buffer = [btb.buffer EXCEPT ![BtbIndex(record.address)] = record.next],
                   !.valid = [btb.valid EXCEPT ![BtbIndex(record.address)] = TRUE]]
              /\ meta' = [meta EXCEPT
                   !.table = [meta.table EXCEPT ![BtbIndex(record.address)] = record.kind],
                   !.valid = [meta.valid EXCEPT ![BtbIndex(record.address)] = TRUE]]
            BY <2>1 DEF Update, TrainTarget, TrainKind, BtbUpdate
        <3>2. /\ btb'.buffer[BtbIndex(address)] = btb.buffer[BtbIndex(address)]
              /\ btb'.valid[BtbIndex(address)] = btb.valid[BtbIndex(address)]
              /\ meta'.table[BtbIndex(address)] = meta.table[BtbIndex(address)]
              /\ meta'.valid[BtbIndex(address)] = meta.valid[BtbIndex(address)]
            <4>1. btb \in Btb /\ meta \in Meta
                BY DEF IInv, TypeOK
            <4>2. PICK k \in BtbIndices, other \in BtbIndices :
                    k = BtbIndex(record.address) /\ other = BtbIndex(address) /\ other # k
                BY <2>3, <2>5
            <4>3. btb'.buffer[other] = btb.buffer[other] /\ btb'.valid[other] = btb.valid[other]
                <5>1. CASE btb' = btb
                    BY <5>1
                <5>2. CASE btb' # btb
                    <6>1. btb' = [btb EXCEPT !.buffer = [btb.buffer EXCEPT ![k] = record.next],
                                             !.valid = [btb.valid EXCEPT ![k] = TRUE]]
                        BY <3>1, <4>2, <5>2
                    <6> QED
                        BY <4>1, <4>2, <6>1 DEF Btb
                <5> QED
                    BY <5>1, <5>2
            <4>4. meta'.table[other] = meta.table[other] /\ meta'.valid[other] = meta.valid[other]
                <5>1. meta' = [meta EXCEPT !.table = [meta.table EXCEPT ![k] = record.kind],
                                           !.valid = [meta.valid EXCEPT ![k] = TRUE]]
                    BY <3>1, <4>2
                <5> QED
                    BY <4>1, <4>2, <5>1 DEF Meta
            <4> QED
                BY <4>2, <4>3, <4>4
        <3>3. QED
            BY <3>2 DEF BtbPredict, KnownReturn
    <2>6. ASSUME ~IsCall(record.kind), record.kind # Return PROVE ras' = ras
        BY <2>1, <2>6 DEF Update, TrainStack
    <2>7. ASSUME Target(address)' # Target(address),
                 BtbIndex(record.address) # BtbIndex(address)
          PROVE  KnownReturn(address) /\ (IsCall(record.kind) \/ record.kind = Return)
        BY <2>5, <2>6, <2>7 DEF Target, RasTop
    <2>8. QED
        BY <2>2, <2>4, <2>7
<1>2. QED
    BY <1>1, Invariance, PTL DEF Isolation, Spec

-----------------------------------------------------------------------------
(***************************************************************************)
(* Pricing: the steps of a callback are among few operations, and a table  *)
(* that prices the built-in ones prices each of them at its size.          *)
(***************************************************************************)
Executable ==
    ((BuiltIn \ {Select}) \X {1, 3, 64, LscBits, RasBits}) \cup ({Select} \X {2, 3})

\* A step among them does not panic.  A select is priced as one fewer selects
\* than it has arms, a number again; the price of another step is the table's.
LEMMA ExecutableIsPriced == \A step \in Executable : Priced(step)
<1> SUFFICES ASSUME NEW step \in Executable PROVE Priced(step)
    OBVIOUS
<1>1. step[1] \in BuiltIn /\ (step[1] = Select => step[2] \in {2, 3})
    BY OperationsAssumption DEF Executable, BuiltIn
<1>2. step[1] \in Operations
    BY <1>1, OperationsAssumption DEF BuiltIn, OperationNames
<1> DEFINE cost == CostTable[step[1]]
<1>3. cost \in Cost /\ FullyPriced(cost)
    BY <1>1, <1>2, CostTableAssumption DEF Costs
<1>4. CASE step[1] # Select
    BY <1>3, <1>4 DEF Priced, PriceOf
<1>5. CASE step[1] = Select
  <2> DEFINE scale == Greater(step[2] - 1, 0)
  <2>1. scale \in Nat
      BY <1>1, <1>5 DEF Greater
  <2>2. \A part \in DOMAIN cost : cost[part] \in Nat
      BY <1>3 DEF Cost, FullyPriced
  <2>3. \A part \in DOMAIN cost : cost[part] # Unset /\ cost[part] * scale \in Nat
      <3> HIDE DEF cost, scale
      <3> QED BY <2>1, <2>2, UnsetIsNoPrice
  <2>4. PriceOf(CostTable, step[1], step[2]) = Scaled(cost, scale)
      BY <1>5 DEF PriceOf
  <2>5. FullyPriced(Scaled(cost, scale))
      <3> HIDE DEF cost, scale
      <3> QED BY <2>3, UnsetIsNoPrice DEF FullyPriced, Scaled
  <2> QED
      BY <2>4, <2>5 DEF Priced
<1> QED
    BY <1>4, <1>5

\* Work made of such steps.
LEMMA ExecutableWork ==
    ASSUME NEW work \in Seq(Executable)
    PROVE  \A step \in Steps(work) : Priced(step)
BY ExecutableIsPriced DEF Steps

LEMMA SmallWork ==
    /\ <<>> \in Seq(Executable)
    /\ IndexWork \in Seq(Executable)
    /\ \A arms \in {2, 3} : <<Multiplexer(arms)>> \in Seq(Executable)
    /\ \A width \in {1, 3, 64, LscBits, RasBits} :
         /\ <<Read(width)>> \in Seq(Executable)
         /\ <<Write(width)>> \in Seq(Executable)
<1> USE OperationsAssumption DEF Executable, BuiltIn
<1>1. IndexWork \in Seq(Executable)
  <2>1. ShiftRight(64) \in Executable /\ And(64) \in Executable
      BY DEF ShiftRight, And
  <2> QED BY <2>1 DEF IndexWork
<1>2. \A arms \in {2, 3} : Multiplexer(arms) \in Executable
    BY DEF Multiplexer
<1>3. \A width \in {1, 3, 64, LscBits, RasBits} :
        Read(width) \in Executable /\ Write(width) \in Executable
    BY DEF Read, Write
<1> QED
  <2> HIDE DEF Executable
  <2> QED BY <1>1, <1>2, <1>3

LEMMA MoreWork ==
    ASSUME NEW first \in Seq(Executable), NEW second \in Seq(Executable)
    PROVE  first \o second \in Seq(Executable)
BY ConcatProperties

\* predict, in whatever state and for whatever address.
LEMMA PredictIsExecutable ==
    ASSUME NEW address PROVE PredictWork(address) \in Seq(Executable)
<1> USE OperationsAssumption
<1>1. <<Read(1), Comparison>> \in Seq(Executable)
    BY DEF Executable, BuiltIn, Read, Comparison, Multiplexer
<1>2. KindWork(address) \in Seq(Executable)
  <2>1. IndexWork \o <<Read(1), Comparison>> \in Seq(Executable)
      BY <1>1, SmallWork, MoreWork
  <2>2. (IF meta.valid[BtbIndex(address)] THEN <<Read(3)>> ELSE <<>>) \in Seq(Executable)
      BY SmallWork
  <2> QED BY <2>1, <2>2, MoreWork DEF KindWork
<1>3. CounterWork \in Seq(Executable)
  <2>1. <<Read(LscBits), ShiftRight(LscBits), And(LscBits), Comparison>> \in Seq(Executable)
      BY DEF Executable, BuiltIn, Read, ShiftRight, And, Comparison, Multiplexer
  <2> QED BY <2>1, SmallWork, MoreWork DEF CounterWork
<1>4. TargetWork(address) \in Seq(Executable)
  <2>1. IndexWork \o <<Read(1), Comparison>> \in Seq(Executable)
      BY <1>1, SmallWork, MoreWork
  <2>2. << <<"wrapping_add", 64>> >> \in Seq(Executable)
      BY DEF Executable, BuiltIn
  <2>3. (IF btb.valid[BtbIndex(address)] THEN <<Read(64)>> ELSE << <<"wrapping_add", 64>> >>)
          \in Seq(Executable)
      BY <2>2, SmallWork
  <2> QED BY <2>1, <2>3, MoreWork DEF TargetWork
<1>5. TopWork \in Seq(Executable)
  <2>1. <<Multiplexer(2), Comparison>> \in Seq(Executable)
      BY DEF Executable, Comparison, Multiplexer
  <2>2. << <<"saturating_sub", RasBits>>, Read(64) >> \in Seq(Executable)
      BY DEF Executable, BuiltIn, Read
  <2>3. (IF ras.count > 0 THEN << <<"saturating_sub", RasBits>>, Read(64) >> ELSE <<>>)
          \in Seq(Executable)
      BY <2>2, SmallWork
  <2> QED BY <2>1, <2>3, MoreWork DEF TopWork
<1> DEFINE choice(known) == IF known THEN <<Multiplexer(2)>> ELSE <<>>
<1>6. \A known : choice(known) \in Seq(Executable)
    BY SmallWork
<1>7. KindWork(address) \o CounterWork \in Seq(Executable)
    BY <1>2, <1>3, MoreWork
<1>8. KindWork(address) \o CounterWork \o TargetWork(address) \in Seq(Executable)
    BY <1>7, <1>4, MoreWork
<1>9. KindWork(address) \o CounterWork \o TargetWork(address) \o TopWork \in Seq(Executable)
    BY <1>8, <1>5, MoreWork
<1>10. KindWork(address) \o CounterWork \o TargetWork(address) \o TopWork
         \o <<Multiplexer(2)>> \in Seq(Executable)
    BY <1>9, SmallWork, MoreWork
<1>11. KindWork(address) \o CounterWork \o TargetWork(address) \o TopWork
         \o <<Multiplexer(2)>> \o choice(meta.valid[BtbIndex(address)]) \in Seq(Executable)
  <2> HIDE DEF choice
  <2> QED BY <1>10, <1>6, MoreWork
<1>12. KindWork(address) \o CounterWork \o TargetWork(address) \o TopWork
         \o <<Multiplexer(2)>> \o choice(meta.valid[BtbIndex(address)])
         \o choice(KnownReturn(address)) \in Seq(Executable)
  <2> HIDE DEF choice
  <2> QED BY <1>11, <1>6, MoreWork
<1> QED
    BY <1>12 DEF PredictWork

\* update, in whatever state and for whatever record.
LEMMA UpdateIsExecutable ==
    ASSUME NEW record PROVE UpdateWork(record) \in Seq(Executable)
<1> USE OperationsAssumption
<1>1. TrainTargetWork(record) \in Seq(Executable)
  <2>1. <<Write(64), Write(1)>> \in Seq(Executable)
      BY DEF Executable, BuiltIn, Write
  <2>2. IndexWork \o <<Write(64), Write(1)>> \in Seq(Executable)
      BY <2>1, SmallWork, MoreWork
  <2>3. (IF record.taken THEN IndexWork \o <<Write(64), Write(1)>> ELSE <<>>)
          \in Seq(Executable)
      BY <2>2, SmallWork
  <2> QED BY <2>3, SmallWork, MoreWork DEF TrainTargetWork
<1>2. TrainCounterWork(record) \in Seq(Executable)
  <2> DEFINE moved == IF record.taken THEN "saturating_add" ELSE "saturating_sub"
  <2>1. <<Read(LscBits), Multiplexer(2), <<moved, LscBits>>, Write(LscBits)>>
          \in Seq(Executable)
      BY DEF Executable, BuiltIn, Read, Write, Multiplexer
  <2> QED BY <2>1, SmallWork, MoreWork DEF TrainCounterWork
<1>3. <<Multiplexer(2), Comparison>> \in Seq(Executable)
    BY DEF Executable, Comparison, Multiplexer
<1>4. PushWork \in Seq(Executable)
  <2>1. <<Write(64), <<"saturating_add", RasBits>> >> \in Seq(Executable)
      BY DEF Executable, BuiltIn, Write
  <2>2. (IF ras.count < RasCapacity THEN <<Write(64), <<"saturating_add", RasBits>> >>
                                    ELSE <<>>) \in Seq(Executable)
      BY <2>1, SmallWork
  <2> QED BY <1>3, <2>2, MoreWork DEF PushWork
<1>5. PopWork \in Seq(Executable)
  <2>1. << <<"saturating_sub", RasBits>>, Write(64) >> \in Seq(Executable)
      BY DEF Executable, BuiltIn, Write
  <2>2. (IF ras.count > 0 THEN << <<"saturating_sub", RasBits>>, Write(64) >> ELSE <<>>)
          \in Seq(Executable)
      BY <2>1, SmallWork
  <2> QED BY <1>3, <2>2, MoreWork DEF PopWork
<1>6. TrainStackWork(record) \in Seq(Executable)
  <2>1. /\ <<Multiplexer(3)>> \o PushWork \in Seq(Executable)
        /\ <<Multiplexer(3)>> \o PopWork \in Seq(Executable)
      BY <1>4, <1>5, SmallWork, MoreWork
  <2>2. (CASE IsCall(record.kind) -> <<Multiplexer(3)>> \o PushWork
           [] record.kind = Return -> <<Multiplexer(3)>> \o PopWork
           [] OTHER -> <<>>) \in Seq(Executable)
      BY <2>1, SmallWork DEF IsCall, CallDirect, CallIndirect, Return
  <2> QED BY <2>2, SmallWork, MoreWork DEF TrainStackWork
<1>7. TrainKindWork \in Seq(Executable)
  <2>1. <<Write(3), Write(1)>> \in Seq(Executable)
      BY DEF Executable, BuiltIn, Write
  <2> QED BY <2>1, SmallWork, MoreWork DEF TrainKindWork
<1>8. TrainTargetWork(record) \o TrainCounterWork(record) \in Seq(Executable)
    BY <1>1, <1>2, MoreWork
<1>9. TrainTargetWork(record) \o TrainCounterWork(record) \o TrainStackWork(record)
        \in Seq(Executable)
    BY <1>8, <1>6, MoreWork
<1> QED
    BY <1>7, <1>9, MoreWork DEF UpdateWork

\* Whatever the traces, the capacities and the widths, no trained state makes a
\* callback execute an operation that a table like the built-in one leaves
\* unset: a run cannot panic for want of a price.
THEOREM EveryPathIsPriced == Spec => []NoPathIsUnset
<1>1. NoPathIsUnset
    BY PredictIsExecutable, UpdateIsExecutable, ExecutableWork DEF NoPathIsUnset
<1> QED
    BY <1>1, PTL
=============================================================================
