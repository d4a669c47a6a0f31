----------------------------- MODULE MeterProofs -----------------------------
(***************************************************************************)
(* The ledger is consistent and its work time is what overlap! promises,   *)
(* for every set of cost tables, hardware, delays and bounds.              *)
(*                                                                         *)
(* The inductive invariant adds to the type and to the match of guards and *)
(* groups what the stack of groups retains (WidestIsRetained): without it  *)
(* nothing relates the entry that is folded when the last guard is dropped *)
(* to the delays charged deeper inside.                                    *)
(***************************************************************************)
EXTENDS Meter, Lemmas

\* What the stack of groups retains of the history variable: the greatest delay
\* of the outermost group is in one of its entries and none exceeds it.  While
\* nothing is metered there is nothing to retain.
Retained(account, greatest) ==
    LET groups == account.overlaps
    IN  /\ groups = <<>> => greatest = 0
        /\ \A i \in 1..Len(groups) : groups[i] <= greatest
        /\ groups # <<>> => \E i \in 1..Len(groups) : groups[i] = greatest
        /\ ~account.charging => greatest = 0

WidestIsRetained == Retained(ledger, widest)

IInv == TypeOK /\ GuardsMatchGroups /\ WidestIsRetained

LEMMA TableType == Tables \subseteq Costs
BY CostTablesAssumption DEF Tables, NoCosts, Costs, Cost

\* Before its first run a thread can execute no operation.
LEMMA NothingIsPriced ==
    ASSUME NEW op \in Operations, NEW ways \in Nat
    PROVE  ~FullyPriced(PriceOf(NoCosts, op, ways))
<1>1. NoCosts[op] = [switching_energy |-> Unset, leakage_energy |-> Unset,
                     area_space |-> Unset, latency_ticks |-> Unset]
  BY DEF NoCosts
<1>2. "area_space" \in DOMAIN NoCosts[op] /\ NoCosts[op]["area_space"] = Unset
  BY <1>1
<1>3. /\ "area_space" \in DOMAIN PriceOf(NoCosts, op, ways)
      /\ PriceOf(NoCosts, op, ways)["area_space"] = Unset
  BY <1>2 DEF PriceOf, Scaled
<1> QED
  BY <1>3 DEF FullyPriced

\* What an executable operation costs, and that its delay is one of Delays.
LEMMA OperationPrice ==
    ASSUME costs \in Tables, NEW hw \in Hardware,
           FullyPriced(PriceOf(costs, hw[1], hw[2]))
    PROVE  /\ PriceOf(costs, hw[1], hw[2]) \in Prices
           /\ PriceOf(costs, hw[1], hw[2]).latency_ticks \in Delays
           /\ hw[1] \in Operations /\ hw[2] \in Nat
<1>1. hw[1] \in Operations /\ hw[2] \in Nat
  BY HardwareAssumption
<1>2. PriceOf(costs, hw[1], hw[2]) \in Prices
  BY <1>1, TableType, PriceType DEF Prices
<1>3. PriceOf(costs, hw[1], hw[2]).latency_ticks # Unset
  BY <1>2, UnsetIsNoPrice DEF Prices
<1>4. costs \in CostTables
  BY <1>1, NothingIsPriced DEF Tables
<1> QED
  BY <1>1, <1>2, <1>3, <1>4 DEF Delays

(***************************************************************************)
(* What a delay does to the groups, inside and outside of them.            *)
(***************************************************************************)
LEMMA DelayRetained ==
    ASSUME NEW l \in LedgerType, NEW w \in Nat, Retained(l, w), NEW delay \in Nat,
           NEW v, v = IF l.overlaps # <<>> /\ l.charging THEN Greater(w, delay) ELSE w
    PROVE  /\ v \in Nat
           /\ Retained(Push(l, delay), v)
<1>1. CASE ~l.charging
  BY <1>1 DEF Push
<1>2. CASE l.charging /\ l.overlaps = <<>>
  BY <1>2, AddTimeEffect DEF Push, Retained
<1>3. CASE l.charging /\ l.overlaps # <<>>
  <2> DEFINE s == l.overlaps
             n == Len(s)
             t == AddTime(l, delay).overlaps
  <2>1. s \in Seq(Nat) /\ n \in Nat \ {0}
    BY <1>3, EmptySeq DEF LedgerType
  <2>2. /\ t = [s EXCEPT ![n] = Greater(@, delay)]
        /\ AddTime(l, delay).charging
        /\ Len(t) = n
    BY <1>3, AddTimeEffect
  <2>3. v = Greater(w, delay)
    BY <1>3
  <2>4. t # <<>>
    BY <2>1, <2>2
  <2>5. \A i \in 1..n : s[i] \in Nat /\ s[i] <= w
    BY <2>1 DEF Retained
  <2>6. PICK k \in 1..n : s[k] = w
    BY <1>3 DEF Retained
  <2>7. \A i \in 1..n : t[i] = IF i = n THEN Greater(s[n], delay) ELSE s[i]
    BY <2>1, <2>2
  <2> HIDE DEF s, t, n
  <2>8. \A i \in 1..n : t[i] <= v
    BY <2>1, <2>3, <2>5, <2>7 DEF Greater
  <2>9. \E i \in 1..n : t[i] = v
    BY <2>1, <2>3, <2>5, <2>6, <2>7 DEF Greater
  <2> USE DEF s, t, n
  <2>10. Push(l, delay) = AddTime(l, delay)
    BY <1>3 DEF Push
  <2>11. v \in Nat
    BY <2>3 DEF Greater
  <2> QED
    BY <2>2, <2>4, <2>8, <2>9, <2>10, <2>11 DEF Retained
<1> QED
  BY <1>1, <1>2, <1>3

\* Dropping an inner guard loses nothing: what it held is folded one level up.
LEMMA InnerDropRetained ==
    ASSUME NEW l \in LedgerType, NEW w \in Nat, Retained(l, w), Len(l.overlaps) > 1
    PROVE  /\ Retained(CloseOverlap(l), w)
           /\ CloseOverlap(l).metrics = l.metrics
<1> DEFINE s == l.overlaps
           n == Len(s)
           p == Popped(l)
           c == CloseOverlap(l)
<1>1. s \in Seq(Nat) /\ n \in Nat /\ n > 1 /\ s # <<>>
  BY EmptySeq DEF LedgerType
<1>2. /\ p \in LedgerType
      /\ Len(p.overlaps) = n - 1
      /\ \A i \in 1..(n-1) : p.overlaps[i] = s[i]
      /\ p.metrics = l.metrics
      /\ p.charging = l.charging
      /\ c = Push(p, s[n])
      /\ s[n] \in Nat
      /\ c.charging = l.charging
      /\ Len(c.overlaps) = n - 1
  BY <1>1, CloseOverlapEffect
<1>3. p.overlaps \in Seq(Nat)
  BY <1>2 DEF LedgerType
<1>4. \A i \in 1..n : s[i] \in Nat /\ s[i] <= w
  <2>1. \A i \in 1..n : s[i] <= w
    BY DEF Retained
  <2>2. \A i \in 1..n : s[i] \in Nat
    BY <1>1
  <2> QED
    BY <2>1, <2>2
<1>5. PICK k \in 1..n : s[k] = w
  BY <1>1 DEF Retained
<1>6. ~l.charging => w = 0
  BY DEF Retained
<1> HIDE DEF s, n, p, c
<1>7. p.overlaps # <<>> /\ c.overlaps # <<>>
  BY <1>1, <1>2, EmptySeq
<1>8. CASE ~l.charging
  <2>1. c = p
    BY <1>2, <1>8 DEF Push
  <2>2. \A i \in 1..(n-1) : c.overlaps[i] = s[i] /\ i \in 1..n
    BY <1>1, <1>2, <2>1
  <2>3. \A i \in 1..(n-1) : c.overlaps[i] = w
    BY <1>4, <1>6, <1>8, <2>2
  <2>4. 1 \in 1..(n-1)
    BY <1>1
  <2>5. Retained(c, w)
    BY <1>2, <1>6, <1>7, <2>3, <2>4 DEF Retained
  <2> QED
    BY <1>2, <2>1, <2>5 DEF c
<1>9. CASE l.charging
  <2>1. c = AddTime(p, s[n])
    BY <1>2, <1>9 DEF Push
  <2>2. /\ c.metrics = p.metrics
        /\ c.overlaps = [p.overlaps EXCEPT ![n-1] = Greater(@, s[n])]
    <3>1. p \in LedgerType /\ s[n] \in Nat /\ p.overlaps # <<>>
      BY <1>2, <1>7
    <3>2. /\ AddTime(p, s[n]).metrics = p.metrics
          /\ AddTime(p, s[n]).overlaps
               = [p.overlaps EXCEPT ![Len(p.overlaps)] = Greater(@, s[n])]
      BY <3>1, AddTimeEffect
    <3> QED
      BY <1>2, <2>1, <3>2
  <2>3. \A i \in 1..(n-1) :
          c.overlaps[i] = IF i = n-1 THEN Greater(s[n-1], s[n]) ELSE s[i]
    <3>1. DOMAIN p.overlaps = 1..(n-1)
      BY <1>2, <1>3
    <3>2. n-1 \in 1..(n-1) /\ p.overlaps[n-1] = s[n-1]
      BY <1>1, <1>2
    <3>3. \A i \in 1..(n-1) :
            c.overlaps[i] = IF i = n-1 THEN Greater(p.overlaps[n-1], s[n]) ELSE p.overlaps[i]
      BY <2>2, <3>1
    <3> QED
      BY <1>2, <3>2, <3>3
  <2>4. /\ \A i \in 1..(n-1) : c.overlaps[i] <= w
        /\ \E i \in 1..(n-1) : c.overlaps[i] = w
    <3>1. n-1 \in 1..(n-1) /\ n-1 \in 1..n /\ n \in 1..n
      BY <1>1
    <3>2. c.overlaps[n-1] = Greater(s[n-1], s[n])
      BY <2>3, <3>1
    <3>3. \A i \in 1..(n-1) : i # n-1 => c.overlaps[i] = s[i] /\ i \in 1..n
      BY <1>1, <2>3
    <3>4. /\ c.overlaps[n-1] <= w
          /\ s[n] = w \/ s[n-1] = w => c.overlaps[n-1] = w
      BY <1>4, <3>1, <3>2 DEF Greater
    <3>5. \A i \in 1..(n-1) : c.overlaps[i] <= w
      BY <1>4, <3>3, <3>4
    <3>6. CASE k \in {n-1, n}
      BY <1>5, <3>1, <3>4, <3>5, <3>6
    <3>7. CASE k \notin {n-1, n}
      <4>1. k \in 1..(n-1) /\ k # n-1
        BY <1>1, <3>7
      <4> QED
        BY <1>5, <3>3, <3>5, <4>1
    <3> QED
      BY <3>6, <3>7
  <2>5. Retained(c, w)
    BY <1>2, <1>7, <1>9, <2>4 DEF Retained
  <2> QED
    BY <1>2, <2>2, <2>5 DEF c
<1> QED
  BY <1>8, <1>9

\* Dropping the outermost guard charges the greatest delay of the whole group.
LEMMA OuterDropPays ==
    ASSUME NEW l \in LedgerType, NEW w \in Nat, Retained(l, w), Len(l.overlaps) = 1
    PROVE  /\ CloseOverlap(l).overlaps = <<>>
           /\ CloseOverlap(l).metrics.total_time = l.metrics.total_time + w
           /\ Retained(CloseOverlap(l), 0)
<1> DEFINE p == Popped(l)
<1>1. l.overlaps \in Seq(Nat)
  BY DEF LedgerType
<1>2. l.overlaps # <<>>
  BY <1>1, EmptySeq
<1>3. /\ p \in LedgerType
      /\ Len(p.overlaps) = 0
      /\ p.metrics = l.metrics
      /\ p.charging = l.charging
      /\ CloseOverlap(l) = Push(p, l.overlaps[1])
      /\ l.overlaps[1] \in Nat
  BY <1>2, CloseOverlapEffect
<1>4. p.overlaps = <<>>
  BY <1>3, EmptySeq DEF LedgerType
<1>5. l.overlaps[1] = w
  BY <1>2 DEF Retained
<1>6. ~l.charging => w = 0
  BY DEF Retained
<1>7. l.metrics \in Metrics
  BY DEF LedgerType
<1> HIDE DEF p
<1>8. /\ Push(p, w).overlaps = <<>>
      /\ Push(p, w).metrics.total_time = l.metrics.total_time + w
  <2>1. CASE l.charging
    <3>1. Push(p, w) = AddTime(p, w)
      BY <1>3, <2>1 DEF Push
    <3>2. AddTime(p, w).overlaps = <<>>
      BY <1>3, <1>4, AddTimeEffect
    <3>3. AddTime(p, w).metrics = [p.metrics EXCEPT !.total_time = @ + w]
      BY <1>3, <1>4, AddTimeEffect
    <3> QED
      BY <1>3, <1>7, <3>1, <3>2, <3>3 DEF Metrics
  <2>2. CASE ~l.charging
    <3>1. Push(p, w) = p
      BY <1>3, <2>2 DEF Push
    <3> QED
      BY <1>3, <1>4, <1>6, <1>7, <2>2, <3>1 DEF Metrics
  <2> QED
    BY <2>1, <2>2
<1> QED
  BY <1>3, <1>5, <1>8 DEF Retained

(***************************************************************************)
(* The invariant, and each step as a step of WorkTime.                     *)
(***************************************************************************)
LEMMA InvInit == Init => IInv /\ Promise!Init
<1> SUFFICES ASSUME Init PROVE IInv /\ Promise!Init
  OBVIOUS
<1>1. /\ ledger \in LedgerType
      /\ ledger.overlaps = <<>>
      /\ ledger.charging
      /\ ledger.metrics.total_time = 0
  BY NewLedgerType DEF Init, NewLedger, NoMetrics
<1>2. live = 0 /\ widest = 0
  BY DEF Init
<1>3. TypeOK
  BY <1>1 DEF Init, TypeOK, Tables
<1> QED
  BY <1>1, <1>2, <1>3
  DEF IInv, GuardsMatchGroups, WidestIsRetained, Retained, Promise!Init

\* A delay that reaches the ledger is one delay of WorkTime, or none if
\* nothing is metered.
LEMMA DelayStep ==
    ASSUME IInv, NEW delay \in Delays, delay \in Nat,
           ledger'.overlaps = Push(ledger, delay).overlaps,
           ledger'.metrics.total_time = Push(ledger, delay).metrics.total_time,
           ledger'.charging = ledger.charging,
           Widen(delay), UNCHANGED live
    PROVE  /\ widest' \in Nat
           /\ GuardsMatchGroups'
           /\ WidestIsRetained'
           /\ [Promise!Next]_(Promise!vars)
<1> DEFINE pushed == Push(ledger, delay)
<1>1. /\ ledger \in LedgerType /\ widest \in Nat /\ live \in Nat
      /\ Len(ledger.overlaps) = live
      /\ Retained(ledger, widest)
  BY DEF IInv, TypeOK, GuardsMatchGroups, WidestIsRetained, Retained
<1>2. ledger.overlaps # <<>> <=> live > 0
  BY <1>1, EmptySeq DEF LedgerType
<1>3. widest' = IF ledger.overlaps # <<>> /\ ledger.charging
                  THEN Greater(widest, delay) ELSE widest
  BY <1>2 DEF Widen
<1>4. widest' \in Nat /\ Retained(pushed, widest')
  BY <1>1, <1>3, DelayRetained
<1>5. Len(pushed.overlaps) = Len(ledger.overlaps) /\ pushed.charging = ledger.charging
  BY <1>1, PushType
<1>6. GuardsMatchGroups' /\ WidestIsRetained'
  BY <1>1, <1>4, <1>5 DEF GuardsMatchGroups, WidestIsRetained, Retained
<1>7. [Promise!Next]_(Promise!vars)
  <2>1. CASE ~ledger.charging
    BY <1>3, <2>1 DEF Push, Promise!vars
  <2>2. CASE ledger.charging /\ live = 0
    <3>1. pushed.metrics = [ledger.metrics EXCEPT !.total_time = @ + delay]
      <4>1. pushed = AddTime(ledger, delay)
        BY <2>2 DEF Push
      <4>2. ledger.overlaps = <<>>
        BY <1>2, <2>2
      <4>3. AddTime(ledger, delay).metrics = [ledger.metrics EXCEPT !.total_time = @ + delay]
        BY <1>1, <4>2, AddTimeEffect
      <4> QED
        BY <4>1, <4>3
    <3>2. ledger'.metrics.total_time = ledger.metrics.total_time + delay
      BY <1>1, <3>1 DEF LedgerType, Metrics
    <3>3. Promise!Serial(delay)
      BY <1>2, <1>3, <2>2, <3>2 DEF Promise!Serial
    <3> QED
      BY <3>3 DEF Promise!Next
  <2>3. CASE ledger.charging /\ live > 0
    <3>1. pushed.metrics = ledger.metrics
      BY <1>1, <1>2, <2>3, AddTimeEffect DEF Push
    <3>2. Promise!Overlapped(delay)
      BY <1>1, <1>2, <1>3, <2>3, <3>1 DEF Promise!Overlapped, Greater
    <3> QED
      BY <3>2 DEF Promise!Next
  <2> QED
    BY <1>1, <2>1, <2>2, <2>3
<1> QED
  BY <1>4, <1>6, <1>7

LEMMA InvNext == IInv /\ [Next]_vars => IInv' /\ [Promise!Next]_(Promise!vars)
<1> SUFFICES ASSUME IInv, [Next]_vars PROVE IInv' /\ [Promise!Next]_(Promise!vars)
  OBVIOUS
<1> USE DEF TypeOK
<1>0. /\ ledger \in LedgerType /\ widest \in Nat /\ live \in Nat
      /\ Len(ledger.overlaps) = live
      /\ Retained(ledger, widest)
  BY DEF IInv, GuardsMatchGroups, WidestIsRetained, Retained
<1>1. ASSUME NEW hw \in Hardware, Operate(hw[1], hw[2])
      PROVE  IInv' /\ [Promise!Next]_(Promise!vars)
  <2> DEFINE price == PriceOf(costs, hw[1], hw[2])
  <2>1. /\ price \in Prices /\ price.latency_ticks \in Delays
        /\ hw[1] \in Operations /\ hw[2] \in Nat
    BY <1>1, OperationPrice DEF IInv, Operate
  <2>2. price.latency_ticks \in Nat
    BY <2>1 DEF Prices
  <2>3. /\ ledger' = Charge(ledger, hw[1], hw[2], price)
        /\ Widen(price.latency_ticks)
        /\ UNCHANGED <<costs, live, mode, simulating, size, stored>>
    BY <1>1 DEF Operate
  <2>6. /\ bought' \subseteq [hardware : Operations \X Nat, costs : Tables]
        /\ leftover' \in BOOLEAN
    BY <1>1, <2>1 DEF Operate, Use, IInv
  <2> HIDE DEF price
  <2>4. /\ ledger' \in LedgerType
        /\ ledger'.charging = ledger.charging
        /\ ledger'.overlaps = Push(ledger, price.latency_ticks).overlaps
        /\ ledger'.metrics.total_time = Push(ledger, price.latency_ticks).metrics.total_time
    BY <1>0, <2>1, <2>3, ChargeEffect
  <2>5. /\ widest' \in Nat /\ GuardsMatchGroups' /\ WidestIsRetained'
        /\ [Promise!Next]_(Promise!vars)
    BY <2>1, <2>2, <2>3, <2>4, DelayStep
  <2> QED
    BY <2>3, <2>4, <2>5, <2>6 DEF IInv
<1>2. ASSUME NEW hw \in Hardware, OperateUnpriced(hw[1], hw[2])
      PROVE  IInv' /\ [Promise!Next]_(Promise!vars)
  BY <1>2 DEF IInv, OperateUnpriced, SameRun, GuardsMatchGroups, WidestIsRetained, Retained, Promise!vars
<1>3. ASSUME NEW delay \in PushDelays, PushDelay(delay)
      PROVE  IInv' /\ [Promise!Next]_(Promise!vars)
  <2>1. delay \in Delays /\ delay \in Nat
    BY DelaysAssumption DEF Delays
  <2>2. /\ ledger' = Push(ledger, delay)
        /\ Widen(delay)
        /\ UNCHANGED <<live, mode>> /\ SameRun
    BY <1>3 DEF PushDelay
  <2>3. ledger' \in LedgerType /\ ledger'.charging = ledger.charging
    BY <1>0, <2>1, <2>2, PushType
  <2>4. /\ widest' \in Nat /\ GuardsMatchGroups' /\ WidestIsRetained'
        /\ [Promise!Next]_(Promise!vars)
    BY <2>1, <2>2, <2>3, DelayStep
  <2> QED
    BY <2>2, <2>3, <2>4 DEF IInv, SameRun
<1>4. CASE EnterGroup
  <2> DEFINE s == ledger.overlaps
  <2>1. /\ ledger' = OpenOverlap(ledger)
        /\ live' = live + 1
        /\ UNCHANGED <<mode, widest>> /\ SameRun
    BY <1>4 DEF EnterGroup
  <2>2. /\ ledger' \in LedgerType
        /\ ledger'.overlaps = Append(s, 0)
        /\ Len(ledger'.overlaps) = live + 1
        /\ ledger'.metrics = ledger.metrics
        /\ ledger'.charging = ledger.charging
    BY <1>0, <2>1, OpenOverlapEffect
  <2>3. /\ s \in Seq(Nat) /\ Len(s) = live
        /\ s = <<>> => live = 0
        /\ live = 0 => s = <<>>
    BY <1>0, EmptySeq DEF LedgerType
  <2>4. /\ \A i \in 1..live : Append(s, 0)[i] = s[i]
        /\ Append(s, 0)[live + 1] = 0
    BY <2>3
  <2>5. /\ s = <<>> => widest = 0
        /\ \A i \in 1..live : s[i] <= widest
        /\ s # <<>> => \E i \in 1..live : s[i] = widest
        /\ ~ledger.charging => widest = 0
    BY <1>0, <2>3 DEF Retained
  <2> DEFINE t == ledger'.overlaps
  <2>6. t # <<>> /\ Len(t) = live + 1
    <3>1. t \in Seq(Nat) /\ Len(t) = live + 1
      BY <2>2 DEF LedgerType
    <3> QED
      BY <1>0, <3>1, EmptySeq
  <2>7. \A i \in 1..(live + 1) : t[i] = IF i = live + 1 THEN 0 ELSE s[i]
    BY <1>0, <2>2, <2>4
  <2> HIDE DEF s, t
  <2>8. \A i \in 1..(live + 1) : t[i] <= widest
    BY <1>0, <2>5, <2>7
  <2>9. \E i \in 1..(live + 1) : t[i] = widest
    <3>1. CASE live = 0
      BY <2>3, <2>5, <2>7, <3>1
    <3>2. CASE live # 0
      <4>1. PICK i \in 1..live : s[i] = widest
        BY <2>3, <2>5, <3>2
      <4>2. i \in 1..(live + 1) /\ i # live + 1
        BY <1>0
      <4> QED
        BY <2>7, <4>1, <4>2
    <3> QED
      BY <3>1, <3>2
  <2>10. WidestIsRetained'
    BY <2>1, <2>2, <2>5, <2>6, <2>8, <2>9 DEF WidestIsRetained, Retained, t
  <2>11. Promise!Open
    BY <2>1, <2>2 DEF Promise!Open
  <2> QED
    BY <1>0, <2>1, <2>2, <2>10, <2>11 DEF IInv, SameRun, GuardsMatchGroups, Promise!Next
<1>5. CASE DropGuard
  <2>1. /\ live > 0
        /\ ledger' = CloseOverlap(ledger)
        /\ live' = live - 1
        /\ widest' = IF live = 1 THEN 0 ELSE widest
        /\ UNCHANGED mode /\ SameRun
    BY <1>5 DEF DropGuard
  <2>2. ledger.overlaps # <<>>
    BY <1>0, <2>1, EmptySeq
  <2>3. ledger' \in LedgerType /\ Len(ledger'.overlaps) = live'
    BY <1>0, <2>1, <2>2, CloseOverlapEffect
  <2>4. CASE live = 1
    <3>1. /\ ledger'.metrics.total_time = ledger.metrics.total_time + widest
          /\ Retained(ledger', 0)
      BY <1>0, <2>1, <2>4, OuterDropPays
    <3>2. Promise!CloseOutermost
      BY <2>1, <2>4, <3>1 DEF Promise!CloseOutermost
    <3>3. WidestIsRetained'
      BY <2>1, <2>4, <3>1 DEF WidestIsRetained, Retained
    <3> QED
      BY <1>0, <2>1, <2>3, <2>4, <3>2, <3>3 DEF IInv, SameRun, GuardsMatchGroups, Promise!Next
  <2>5. CASE live > 1
    <3>1. Retained(ledger', widest) /\ ledger'.metrics = ledger.metrics
      BY <1>0, <2>1, <2>5, InnerDropRetained
    <3>2. Promise!CloseInner
      BY <1>0, <2>1, <2>5, <3>1 DEF Promise!CloseInner
    <3>3. WidestIsRetained'
      BY <1>0, <2>1, <2>5, <3>1 DEF WidestIsRetained, Retained
    <3> QED
      BY <1>0, <2>1, <2>3, <2>5, <3>2, <3>3 DEF IInv, SameRun, GuardsMatchGroups, Promise!Next
  <2> QED
    BY <1>0, <2>1, <2>4, <2>5
<1>6. CASE Catch
  BY <1>6 DEF IInv, Catch, SameRun, GuardsMatchGroups, WidestIsRetained, Retained, Promise!vars
<1>7. CASE SimulatorTick
  <2>1. ledger' = Tick(ledger) /\ UNCHANGED <<live, mode, widest>> /\ SameRun
    BY <1>7 DEF SimulatorTick
  <2>2. /\ ledger' \in LedgerType
        /\ ledger'.overlaps = ledger.overlaps
        /\ ledger'.charging = ledger.charging
        /\ ledger'.metrics.total_time = ledger.metrics.total_time
    BY <1>0, <2>1, TickEffect
  <2> QED
    BY <2>1, <2>2 DEF IInv, SameRun, GuardsMatchGroups, WidestIsRetained, Retained, Promise!vars
<1>8. ASSUME NEW table \in CostTables, NEW area \in Areas, StartRun(table, area)
      PROVE  IInv' /\ [Promise!Next]_(Promise!vars)
  <2>1. /\ live = 0
        /\ ledger' = Turn(Storage(ledger, area), FALSE)
        /\ costs' = table /\ size' = area /\ stored' = stored + area /\ simulating' = TRUE
        /\ UNCHANGED <<live, mode, bought, leftover, widest>>
    BY <1>8 DEF StartRun
  <2>2. area \in Nat /\ costs' \in Tables
    BY <2>1, DelaysAssumption DEF Tables
  <2>3. /\ ledger' \in LedgerType
        /\ ledger'.overlaps = ledger.overlaps
        /\ ledger'.metrics.total_time = ledger.metrics.total_time
    <3>1. /\ Storage(ledger, area) \in LedgerType
          /\ Storage(ledger, area).overlaps = ledger.overlaps
          /\ Storage(ledger, area).metrics.total_time = ledger.metrics.total_time
      BY <1>0, <2>2, StorageEffect
    <3> QED
      BY <2>1, <3>1, TurnEffect
  <2>4. widest = 0
    BY <1>0, <2>1, EmptySeq DEF Retained, LedgerType
  <2>5. TypeOK'
    <3>1. stored \in Nat /\ stored' \in Nat
      BY <2>1, <2>2 DEF IInv
    <3> QED
      BY <2>1, <2>2, <2>3, <3>1 DEF IInv
  <2> QED
    BY <2>1, <2>3, <2>4, <2>5
    DEF IInv, GuardsMatchGroups, WidestIsRetained, Retained, Promise!vars
<1>9. CASE TurnOn
  <2>1. /\ live = 0
        /\ ledger' = Turn(ledger, TRUE)
        /\ UNCHANGED <<live, mode, widest>> /\ SameRun
    BY <1>9 DEF TurnOn
  <2>2. /\ ledger' \in LedgerType
        /\ ledger'.overlaps = ledger.overlaps
        /\ ledger'.metrics = ledger.metrics
    BY <1>0, <2>1, TurnEffect
  <2>3. widest = 0
    BY <1>0, <2>1, EmptySeq DEF Retained, LedgerType
  <2> QED
    BY <2>1, <2>2, <2>3
    DEF IInv, SameRun, GuardsMatchGroups, WidestIsRetained, Retained, Promise!vars
<1>10. CASE EndRun
  <2>1. /\ live = 0
        /\ ledger' = NewLedger
        /\ simulating' = FALSE
        /\ size' = 0 /\ bought' = {} /\ stored' = 0 /\ leftover' = FALSE
        /\ UNCHANGED <<costs, live, mode, widest>>
    BY <1>10 DEF EndRun
  <2>2. /\ ledger' \in LedgerType
        /\ ledger'.overlaps = <<>>
        /\ ledger'.metrics.total_time = 0
    BY <2>1, NewLedgerType DEF NewLedger, NoMetrics
  <2>3. widest = 0
    BY <1>0, <2>1, EmptySeq DEF Retained, LedgerType
  <2>4. Promise!Restart
    BY <2>1, <2>2 DEF Promise!Restart
  <2>5. TypeOK'
    BY <2>1, <2>2 DEF IInv
  <2>6. GuardsMatchGroups' /\ WidestIsRetained'
    BY <2>1, <2>2, <2>3 DEF GuardsMatchGroups, WidestIsRetained, Retained
  <2> QED
    BY <2>4, <2>5, <2>6 DEF IInv, Promise!Next
<1>11. CASE AbandonRun
  BY <1>11
  DEF IInv, AbandonRun, GuardsMatchGroups, WidestIsRetained, Retained, Promise!vars
<1>12. CASE UNCHANGED vars
  BY <1>12 DEF IInv, vars, GuardsMatchGroups, WidestIsRetained, Retained, Promise!vars
<1> QED
  BY <1>1, <1>2, <1>3, <1>4, <1>5, <1>6, <1>7, <1>8, <1>9, <1>10, <1>11, <1>12 DEF Next

(***************************************************************************)
(* What the run has paid for its hardware.                                 *)
(***************************************************************************)

\* Total adds up the prices of a set: it does not depend on their order.
AddsUp(price, S) ==
    \E sum \in [SUBSET S -> Nat] :
      /\ sum[{}] = 0
      /\ \A T \in SUBSET S : \A x \in T : sum[T] = price[x] + sum[T \ {x}]
      /\ \A T \in SUBSET S : sum[T] = Total(price, T)

LEMMA TotalAddsUp ==
    ASSUME NEW S, IsFiniteSet(S), NEW price, \A x \in S : price[x] \in Nat
    PROVE  AddsUp(price, S)
<1> DEFINE Pick(s) == CHOOSE x \in s : TRUE
           Step(h, s) == IF s = {} THEN 0 ELSE price[Pick(s)] + h[s \ {Pick(s)}]
           Below(n) == {s \in SUBSET S : Cardinality(s) <= n}
           Reached == {n \in Nat : \E g \in [SUBSET S -> Nat] : \A s \in Below(n) : g[s] = Step(g, s)}
<1>1. \A s \in SUBSET S : IsFiniteSet(s) /\ Cardinality(s) \in Nat /\ Cardinality(s) <= Cardinality(S)
    BY FS_Subset, FS_CardinalityType
<1>2. \A s \in SUBSET S : s # {} => Pick(s) \in s
    OBVIOUS
<1> HIDE DEF Pick
<1>3. \A s \in SUBSET S : \A x \in s :
        /\ s \ {x} \in SUBSET S
        /\ Cardinality(s \ {x}) = Cardinality(s) - 1
        /\ Cardinality(s) > 0
    <2> SUFFICES ASSUME NEW s \in SUBSET S, NEW x \in s
                 PROVE  /\ Cardinality(s \ {x}) = Cardinality(s) - 1
                        /\ Cardinality(s) > 0
        OBVIOUS
    <2>1. Cardinality(s \ {x}) = Cardinality(s) - 1
        BY <1>1, FS_RemoveElement
    <2>2. Cardinality(s \ {x}) \in Nat
        BY <1>1
    <2> QED
        BY <1>1, <2>1, <2>2
<1>4. 0 \in Reached
    <2> DEFINE g == [s \in SUBSET S |-> 0]
    <2>1. ASSUME NEW s \in Below(0) PROVE s = {}
        BY <1>1, <2>1, FS_EmptySet
    <2>2. \A s \in Below(0) : g[s] = Step(g, s)
        BY <2>1
    <2>3. g \in [SUBSET S -> Nat]
        OBVIOUS
    <2> QED
        BY <2>2, <2>3
<1>5. ASSUME NEW n \in Nat, n \in Reached PROVE n + 1 \in Reached
    <2>1. PICK g \in [SUBSET S -> Nat] : \A s \in Below(n) : g[s] = Step(g, s)
        BY <1>5
    <2> DEFINE h == [s \in SUBSET S |-> IF Cardinality(s) <= n THEN g[s] ELSE Step(g, s)]
    <2>2. ASSUME NEW s \in SUBSET S PROVE Step(g, s) \in Nat
        BY <1>2, <1>3, <2>1
    <2>3. h \in [SUBSET S -> Nat]
        BY <2>1, <2>2
    <2>4. ASSUME NEW s \in Below(n + 1) PROVE h[s] = Step(h, s)
        <3>1. CASE s = {}
            <4>1. Cardinality(s) = 0 /\ s \in Below(n)
                BY <3>1, FS_EmptySet
            <4> QED
                BY <2>1, <3>1, <4>1
        <3>2. CASE s # {}
            <4> DEFINE rest == s \ {Pick(s)}
            <4>1. rest \in SUBSET S /\ Cardinality(rest) <= n
                BY <1>1, <1>2, <1>3, <2>4, <3>2
            <4> HIDE DEF rest
            <4>2. h[rest] = g[rest]
                BY <4>1
            <4>3. h[s] = Step(g, s)
                BY <2>1, <2>4
            <4>4. Step(h, s) = Step(g, s)
                BY <3>2, <4>2 DEF rest
            <4> QED
                BY <4>3, <4>4
        <3> QED
            BY <3>1, <3>2
    <2> HIDE DEF h, Step
    <2>5. \E k \in [SUBSET S -> Nat] : \A s \in Below(n + 1) : k[s] = Step(k, s)
        BY <2>3, <2>4
    <2> QED
        BY <2>5
<1>6. \A n \in Nat : n \in Reached
    <2> HIDE DEF Reached
    <2> QED
        BY <1>4, <1>5, NatSetInduction
<1>7. PICK sum \in [SUBSET S -> Nat] : \A s \in SUBSET S : sum[s] = Step(sum, s)
    <2> DEFINE n == Cardinality(S)
    <2>1. n \in Nat
        BY <1>1
    <2>2. Below(n) = SUBSET S
        BY <1>1
    <2> HIDE DEF n, Step, Below
    <2>3. n \in Reached
        BY <1>6, <2>1
    <2> QED
        BY <2>2, <2>3
<1>8. sum[{}] = 0
    BY <1>7
\* The order in which the elements are taken does not matter.
<1> DEFINE Free == {n \in Nat : \A T \in SUBSET S : \A x \in T :
                      Cardinality(T) = n => sum[T] = price[x] + sum[T \ {x}]}
<1>9. 0 \in Free
    <2>1. ASSUME NEW T \in SUBSET S, NEW x \in T PROVE Cardinality(T) # 0
        <3>1. Cardinality(T) > 0
            BY <1>3
        <3> QED
            BY <1>1, <3>1
    <2> QED
        BY <2>1
<1>10. ASSUME NEW n \in Nat, n \in Free PROVE n + 1 \in Free
    <2> SUFFICES ASSUME NEW T \in SUBSET S, NEW x \in T, Cardinality(T) = n + 1
                 PROVE  sum[T] = price[x] + sum[T \ {x}]
        OBVIOUS
    <2> DEFINE c == Pick(T)
    <2>1. c \in T /\ sum[T] = price[c] + sum[T \ {c}]
        BY <1>2, <1>7
    <2> HIDE DEF c
    <2>2. CASE c = x
        BY <2>1, <2>2
    <2>3. CASE c # x
        <3>1. /\ T \ {c} \in SUBSET S /\ x \in T \ {c} /\ Cardinality(T \ {c}) = n
              /\ T \ {x} \in SUBSET S /\ c \in T \ {x} /\ Cardinality(T \ {x}) = n
            BY <1>3, <2>1, <2>3
        <3>2. sum[T \ {c}] = price[x] + sum[(T \ {c}) \ {x}]
            BY <1>10, <3>1
        <3>3. sum[T \ {x}] = price[c] + sum[(T \ {x}) \ {c}]
            BY <1>10, <3>1
        <3>4. (T \ {c}) \ {x} = (T \ {x}) \ {c}
            OBVIOUS
        <3>5. sum[(T \ {x}) \ {c}] \in Nat /\ price[x] \in Nat /\ price[c] \in Nat
            BY <2>1
        <3> DEFINE rest == sum[(T \ {x}) \ {c}]
                   px == price[x]
                   pc == price[c]
        <3>6. /\ sum[T] = pc + sum[T \ {c}] /\ sum[T \ {c}] = px + rest
              /\ sum[T \ {x}] = pc + rest
            BY <2>1, <3>2, <3>3, <3>4
        <3>7. rest \in Nat /\ px \in Nat /\ pc \in Nat
            BY <3>5
        <3> HIDE DEF rest, px, pc
        <3>8. sum[T] = px + sum[T \ {x}]
            BY <3>6, <3>7
        <3> QED
            BY <3>8 DEF px
    <2> QED
        BY <2>2, <2>3
<1>11. \A n \in Nat : n \in Free
    <2> HIDE DEF Free
    <2> QED
        BY <1>9, <1>10, NatSetInduction
<1>12. \A T \in SUBSET S : \A x \in T : sum[T] = price[x] + sum[T \ {x}]
    <2> SUFFICES ASSUME NEW T \in SUBSET S, NEW x \in T
                 PROVE  sum[T] = price[x] + sum[T \ {x}]
        OBVIOUS
    <2>1. Cardinality(T) \in Free
        BY <1>1, <1>11
    <2> QED
        BY <2>1
<1>13. ASSUME NEW T \in SUBSET S PROVE sum[T] = Total(price, T)
    <2> DEFINE Iter(h) == h = [s \in SUBSET T |-> IF s = {} THEN 0 ELSE price[Pick(s)] + h[s \ {Pick(s)}]]
               chosen == CHOOSE h : Iter(h)
               g == [s \in SUBSET T |-> sum[s]]
               Same == {n \in Nat : \A s \in SUBSET T : Cardinality(s) <= n => chosen[s] = g[s]}
    <2>1. Iter(g)
        <3>1. ASSUME NEW s \in SUBSET T
              PROVE  sum[s] = IF s = {} THEN 0 ELSE price[Pick(s)] + g[s \ {Pick(s)}]
            <4>1. s \in SUBSET S /\ s \ {Pick(s)} \in SUBSET T
                OBVIOUS
            <4> QED
                BY <1>7, <4>1
        <3> QED
            BY <3>1
    <2> HIDE DEF g
    <2>2. Iter(chosen)
        BY <2>1
    <2>3. Total(price, T) = chosen[T]
        BY DEF Total, MapThenSumSet, MapThenFoldSet, Pick
    <2> HIDE DEF chosen
    <2>4. 0 \in Same
        <3> SUFFICES ASSUME NEW s \in SUBSET T, Cardinality(s) <= 0 PROVE chosen[s] = g[s]
            OBVIOUS
        <3>1. s = {}
            BY <1>1, FS_EmptySet
        <3> QED
            BY <2>1, <2>2, <3>1
    <2>5. ASSUME NEW n \in Nat, n \in Same PROVE n + 1 \in Same
        <3> SUFFICES ASSUME NEW s \in SUBSET T, Cardinality(s) <= n + 1 PROVE chosen[s] = g[s]
            OBVIOUS
        <3>1. CASE s = {}
            BY <2>1, <2>2, <3>1
        <3>2. CASE s # {}
            <4> DEFINE rest == s \ {Pick(s)}
            <4>1. /\ chosen[s] = price[Pick(s)] + chosen[rest]
                  /\ g[s] = price[Pick(s)] + g[rest]
                BY <2>1, <2>2, <3>2
            <4>2. rest \in SUBSET T /\ Cardinality(rest) <= n
                BY <1>1, <1>2, <1>3, <3>2
            <4> HIDE DEF rest
            <4>3. chosen[rest] = g[rest]
                BY <2>5, <4>2
            <4> QED
                BY <4>1, <4>3
        <3> QED
            BY <3>1, <3>2
    <2>6. \A n \in Nat : n \in Same
        <3> HIDE DEF Same
        <3> QED
            BY <2>4, <2>5, NatSetInduction
    <2>7. chosen[T] = g[T]
        <3>1. Cardinality(T) \in Nat /\ Cardinality(T) \in Same
            BY <1>1, <2>6
        <3> QED
            BY <3>1
    <2> QED
        BY <2>3, <2>7 DEF g
<1> QED
    BY <1>8, <1>12, <1>13 DEF AddsUp

LEMMA TotalOneMore ==
    ASSUME NEW S, IsFiniteSet(S), NEW y, y \notin S,
           NEW price, \A x \in S \cup {y} : price[x] \in Nat
    PROVE  /\ Total(price, S) \in Nat
           /\ Total(price, S \cup {y}) = Total(price, S) + price[y]
<1> DEFINE grown == S \cup {y}
<1>1. IsFiniteSet(grown)
  BY FS_AddElement
<1>2. S \in SUBSET grown /\ grown \in SUBSET grown /\ y \in grown /\ grown \ {y} = S
  OBVIOUS
<1> HIDE DEF grown
<1>3. PICK sum \in [SUBSET grown -> Nat] :
        /\ sum[{}] = 0
        /\ \A T \in SUBSET grown : \A x \in T : sum[T] = price[x] + sum[T \ {x}]
        /\ \A T \in SUBSET grown : sum[T] = Total(price, T)
  <2>1. \A x \in grown : price[x] \in Nat
    BY DEF grown
  <2> QED
    BY <1>1, <2>1, TotalAddsUp DEF AddsUp
<1>4. sum[grown] = price[y] + sum[S]
  BY <1>2, <1>3
<1>5. sum[grown] = Total(price, grown) /\ sum[S] = Total(price, S)
  BY <1>2, <1>3
<1>6. sum[S] \in Nat /\ price[y] \in Nat
  BY <1>2, <1>3
<1> QED
  BY <1>4, <1>5, <1>6 DEF grown

LEMMA TotalOfNone ==
    ASSUME NEW S, S = {}, NEW price
    PROVE  Total(price, S) = 0
<1>1. IsFiniteSet(S) /\ \A x \in S : price[x] \in Nat
  BY FS_EmptySet
<1>2. AddsUp(price, S)
  BY <1>1, TotalAddsUp
<1> QED
  BY <1>2 DEF AddsUp

\* What of a ledger the hardware shows in.
Estate(l) == <<l.charged, l.leakage, l.metrics.total_space>>

LEMMA AddTimeEstate ==
    ASSUME NEW l \in LedgerType, NEW delay \in Nat
    PROVE  Estate(AddTime(l, delay)) = Estate(l) /\ Estate(Push(l, delay)) = Estate(l)
<1>1. l.metrics \in Metrics
  BY DEF LedgerType
<1>2. AddTime(l, delay).metrics.total_space = l.metrics.total_space
  <2>1. CASE l.overlaps = <<>>
    <3>1. AddTime(l, delay).metrics = [l.metrics EXCEPT !.total_time = @ + delay]
      BY <2>1, AddTimeEffect
    <3> QED
      BY <1>1, <3>1 DEF Metrics
  <2>2. CASE l.overlaps # <<>>
    BY <2>2, AddTimeEffect
  <2> QED
    BY <2>1, <2>2
<1>3. Estate(AddTime(l, delay)) = Estate(l)
  BY <1>2, AddTimeEffect DEF Estate
<1> QED
  BY <1>3 DEF Push

LEMMA CloseOverlapEstate ==
    ASSUME NEW l \in LedgerType, l.overlaps # <<>>
    PROVE  Estate(CloseOverlap(l)) = Estate(l)
<1>1. /\ Popped(l) \in LedgerType /\ l.overlaps[Len(l.overlaps)] \in Nat
      /\ Popped(l).metrics = l.metrics
      /\ CloseOverlap(l) = Push(Popped(l), l.overlaps[Len(l.overlaps)])
      /\ CloseOverlap(l).charged = l.charged
      /\ CloseOverlap(l).leakage = l.leakage
  BY CloseOverlapEffect
<1>2. Estate(CloseOverlap(l)) = Estate(Popped(l))
  BY <1>1, AddTimeEstate
<1> QED
  BY <1>1, <1>2 DEF Estate

LEMMA TickEstate ==
    ASSUME NEW l \in LedgerType
    PROVE  Estate(Tick(l)) = Estate(l)
BY DEF Tick, Estate, LedgerType, Metrics

\* The first charge of a piece of hardware in a run adds its area and leakage,
\* and no later one does.
LEMMA ChargeEstate ==
    ASSUME NEW l \in LedgerType, NEW hw \in Operations \X Nat, NEW cost \in Prices
    PROVE  Estate(Charge(l, hw[1], hw[2], cost)) =
             IF l.charging /\ hw \notin l.charged
               THEN <<l.charged \cup {hw}, l.leakage + cost.leakage_energy,
                      l.metrics.total_space + cost.area_space>>
               ELSE Estate(l)
<1>1. CASE ~l.charging
  BY <1>1 DEF Charge
<1>2. CASE l.charging
  <2> DEFINE timed == AddTime(l, cost.latency_ticks)
             spent == [timed EXCEPT !.metrics.total_energy = @ + cost.switching_energy,
                                    !.metrics.total_operations = @ + 1]
  <2>1. cost.latency_ticks \in Nat
    BY DEF Prices
  <2>2. timed \in LedgerType /\ Estate(timed) = Estate(l)
    BY <2>1, AddTimeEffect, AddTimeEstate
  <2>3. hw = <<hw[1], hw[2]>>
    OBVIOUS
  <2>4. Charge(l, hw[1], hw[2], cost) = Instantiate(spent, hw, cost)
    BY <1>2, <2>3 DEF Charge
  <2> HIDE DEF timed
  <2>5. /\ Estate(spent) = Estate(timed)
        /\ spent.charged = timed.charged /\ spent.leakage = timed.leakage
        /\ spent.metrics.total_space = timed.metrics.total_space
        /\ DOMAIN spent = DOMAIN timed /\ DOMAIN spent.metrics = DOMAIN timed.metrics
    BY <2>2 DEF Estate, LedgerType, Metrics
  <2>6. DOMAIN timed = DOMAIN l /\ DOMAIN timed.metrics = DOMAIN l.metrics
    BY <2>2 DEF LedgerType, Metrics
  <2> HIDE DEF spent
  <2>7. /\ spent.charged = l.charged /\ spent.leakage = l.leakage
        /\ spent.metrics.total_space = l.metrics.total_space
    BY <2>2, <2>5 DEF Estate
  <2>8. CASE hw \in l.charged
    BY <1>2, <2>4, <2>7, <2>8 DEF Instantiate, Estate
  <2>9. CASE hw \notin l.charged
    <3> DEFINE after == Instantiate(spent, hw, cost)
    <3>1. after = [spent EXCEPT !.charged = @ \cup {hw},
                                !.leakage = @ + cost.leakage_energy,
                                !.metrics.total_space = @ + cost.area_space]
      BY <2>7, <2>9 DEF Instantiate
    <3>2. /\ {"charged", "leakage", "metrics"} \subseteq DOMAIN spent
          /\ "total_space" \in DOMAIN spent.metrics
      BY <2>2, <2>5 DEF LedgerType, Metrics
    <3> HIDE DEF after
    <3>3. /\ after.charged = spent.charged \cup {hw}
          /\ after.leakage = spent.leakage + cost.leakage_energy
          /\ after.metrics.total_space = spent.metrics.total_space + cost.area_space
      BY <3>1, <3>2
    <3> QED
      BY <1>2, <2>4, <2>7, <2>9, <3>3 DEF Estate, after
  <2> QED
    BY <2>8, <2>9
<1> QED
  BY <1>1, <1>2

\* The hardware metered since the last reset is finite, and its price is known.
BoughtIsPriced ==
    /\ IsFiniteSet(bought)
    /\ \A item \in bought : FullyPriced(PriceOf(item.costs, item.hardware[1], item.hardware[2]))

\* What a run finds if nothing was left over: nothing.
CleanBetweenRuns == ~simulating /\ ~leftover => bought = {} /\ stored = 0

Paid == BoughtIsPriced /\ CleanBetweenRuns /\ HardwarePaidOnce

\* A step of the run that charges no new hardware.
LEMMA PaidStutter ==
    ASSUME Paid, Estate(ledger') = Estate(ledger), SameRun
    PROVE  Paid'
<1>1. /\ ledger'.charged = ledger.charged /\ ledger'.leakage = ledger.leakage
      /\ ledger'.metrics.total_space = ledger.metrics.total_space
  BY DEF Estate
<1> QED
  BY <1>1 DEF Paid, BoughtIsPriced, CleanBetweenRuns, HardwarePaidOnce, SameRun

LEMMA PaidInit == Init => Paid
<1> SUFFICES ASSUME Init PROVE Paid
  OBVIOUS
<1>1. ledger.charged = {} /\ ledger.leakage = 0 /\ ledger.metrics.total_space = 0
  BY DEF Init, NewLedger, NoMetrics
<1>2. bought = {} /\ stored = 0 /\ ~simulating
  BY DEF Init
<1>3. Total(PricesOf("area_space"), bought) = 0 /\ Total(PricesOf("leakage_energy"), bought) = 0
  BY <1>2, TotalOfNone
<1> QED
  BY <1>1, <1>2, <1>3, FS_EmptySet DEF Paid, BoughtIsPriced, CleanBetweenRuns, HardwarePaidOnce

\* The first metered use of a piece of hardware pays for it.
LEMMA PaidOperate ==
    ASSUME IInv, Paid, NEW hw \in Hardware, Operate(hw[1], hw[2])
    PROVE  Paid'
<1> DEFINE price == PriceOf(costs, hw[1], hw[2])
           item == [hardware |-> hw, costs |-> costs]
           Item == [hardware : Operations \X Nat, costs : Tables]
<1>0. /\ ledger \in LedgerType /\ costs \in Tables /\ bought \subseteq Item /\ stored \in Nat
  BY DEF IInv, TypeOK
<1>1. hw \in Operations \X Nat /\ price \in Prices /\ FullyPriced(price)
  BY <1>0, HardwareAssumption, OperationPrice DEF Operate
<1>2. /\ ledger' = Charge(ledger, hw[1], hw[2], price)
      /\ UNCHANGED <<costs, simulating, size, stored>>
      /\ leftover' = (leftover \/ ~simulating)
  BY DEF Operate
<1>3. hw = <<hw[1], hw[2]>> /\ item \in Item
  BY <1>0, <1>1
<1>4. bought' = IF ledger.charging /\ \A bit \in bought : bit.hardware # hw
                  THEN bought \cup {item} ELSE bought
  BY <1>3 DEF Operate, Use
<1>5. ledger.charged = {bit.hardware : bit \in bought}
  BY DEF Paid, HardwarePaidOnce
<1>6. hw \in ledger.charged <=> \E bit \in bought : bit.hardware = hw
  BY <1>5
<1>7. CleanBetweenRuns'
  BY <1>2 DEF CleanBetweenRuns
<1>8. simulating' /\ ~leftover' =>
        stored' = size' /\ \A bit \in bought' : bit.costs = costs'
  <2>1. simulating /\ ~leftover => stored = size /\ \A bit \in bought : bit.costs = costs
    BY DEF Paid, HardwarePaidOnce
  <2>2. item.costs = costs
    OBVIOUS
  <2> HIDE DEF item
  <2> QED
    BY <1>2, <1>4, <2>1, <2>2
<1>9. Estate(Charge(ledger, hw[1], hw[2], price)) =
        IF ledger.charging /\ hw \notin ledger.charged
          THEN <<ledger.charged \cup {hw}, ledger.leakage + price.leakage_energy,
                 ledger.metrics.total_space + price.area_space>>
          ELSE Estate(ledger)
  BY <1>0, <1>1, ChargeEstate
<1>10. CASE ledger.charging /\ hw \notin ledger.charged
  <2>1. /\ ledger'.charged = ledger.charged \cup {hw}
        /\ ledger'.leakage = ledger.leakage + price.leakage_energy
        /\ ledger'.metrics.total_space = ledger.metrics.total_space + price.area_space
    BY <1>2, <1>9, <1>10 DEF Estate
  <2>2. bought' = bought \cup {item} /\ item \notin bought
    BY <1>4, <1>6, <1>10
  <2>3. BoughtIsPriced'
    BY <1>1, <2>2, FS_AddElement DEF Paid, BoughtIsPriced, price
  <2>4. ASSUME NEW bit \in bought \cup {item}
        PROVE  /\ PricesOf("area_space")[bit] \in Nat
               /\ PricesOf("leakage_energy")[bit] \in Nat
    <3>1. bit \in Item /\ FullyPriced(PriceOf(bit.costs, bit.hardware[1], bit.hardware[2]))
      BY <1>0, <1>1, <1>3 DEF Paid, BoughtIsPriced, price
    <3>2. PriceOf(bit.costs, bit.hardware[1], bit.hardware[2]) \in Prices
      BY <3>1, TableType, PriceType DEF Prices
    <3> QED
      BY <3>1, <3>2 DEF PricesOf, Prices
  <2>5. /\ PricesOf("area_space")[item] = price.area_space
        /\ PricesOf("leakage_energy")[item] = price.leakage_energy
    BY <1>3 DEF PricesOf, price
  <2> DEFINE area == PricesOf("area_space")
             leakage == PricesOf("leakage_energy")
  <2>6. /\ ledger.metrics.total_space = stored + Total(area, bought)
        /\ ledger.leakage = Total(leakage, bought)
        /\ IsFiniteSet(bought)
    BY DEF Paid, BoughtIsPriced, HardwarePaidOnce
  <2>7. area[item] = price.area_space /\ leakage[item] = price.leakage_energy
    BY <2>5
  <2>8. price.area_space \in Nat
    BY <1>1 DEF Prices
  <2> HIDE DEF area, leakage, item, price
  <2>9. /\ Total(area, bought) \in Nat
        /\ Total(area, bought \cup {item}) = Total(area, bought) + area[item]
    BY <2>2, <2>4, <2>6, TotalOneMore DEF area
  <2>10. /\ Total(leakage, bought) \in Nat
         /\ Total(leakage, bought \cup {item}) = Total(leakage, bought) + leakage[item]
    BY <2>2, <2>4, <2>6, TotalOneMore DEF leakage
  <2>11. ledger'.metrics.total_space = stored + Total(area, bought')
    BY <1>0, <2>1, <2>2, <2>6, <2>7, <2>8, <2>9
  <2>12. ledger'.leakage = Total(leakage, bought')
    BY <2>1, <2>2, <2>6, <2>7, <2>10
  <2>13. ledger'.charged = {bit.hardware : bit \in bought'}
    BY <1>5, <2>1, <2>2 DEF item
  <2>14. HardwarePaidOnce'
    BY <1>2, <1>8, <2>11, <2>12, <2>13 DEF HardwarePaidOnce, area, leakage
  <2> QED
    BY <1>7, <2>3, <2>14 DEF Paid
<1>11. CASE ~(ledger.charging /\ hw \notin ledger.charged)
  <2>1. bought' = bought
    BY <1>4, <1>6, <1>11
  <2>2. Estate(ledger') = Estate(ledger)
    BY <1>2, <1>9, <1>11
  <2>3. /\ ledger'.charged = ledger.charged /\ ledger'.leakage = ledger.leakage
        /\ ledger'.metrics.total_space = ledger.metrics.total_space
    BY <2>2 DEF Estate
  <2> QED
    BY <1>2, <1>7, <1>8, <2>1, <2>3 DEF Paid, BoughtIsPriced, HardwarePaidOnce
<1> QED
  BY <1>10, <1>11

LEMMA PaidNext == IInv /\ Paid /\ [Next]_vars => Paid'
<1> SUFFICES ASSUME IInv, Paid, [Next]_vars PROVE Paid'
  OBVIOUS
<1>0. /\ ledger \in LedgerType
      /\ Len(ledger.overlaps) = live
      /\ stored \in Nat
  BY DEF IInv, TypeOK, GuardsMatchGroups
<1>1. ASSUME NEW hw \in Hardware, Operate(hw[1], hw[2]) PROVE Paid'
  BY <1>1, PaidOperate
<1>2. ASSUME NEW hw \in Hardware, OperateUnpriced(hw[1], hw[2]) PROVE Paid'
  BY <1>2, PaidStutter DEF OperateUnpriced, Estate
<1>3. ASSUME NEW delay \in PushDelays, PushDelay(delay) PROVE Paid'
  <2>1. ledger' = Push(ledger, delay) /\ delay \in Nat /\ SameRun
    BY <1>3, DelaysAssumption DEF PushDelay
  <2> QED
    BY <1>0, <2>1, AddTimeEstate, PaidStutter
<1>4. CASE EnterGroup
  <2>1. ledger' = OpenOverlap(ledger) /\ SameRun
    BY <1>4 DEF EnterGroup
  <2>2. Estate(ledger') = Estate(ledger)
    BY <1>0, <2>1, OpenOverlapEffect DEF Estate
  <2> QED
    BY <2>1, <2>2, PaidStutter
<1>5. CASE DropGuard
  <2>1. live > 0 /\ ledger' = CloseOverlap(ledger) /\ SameRun
    BY <1>5 DEF DropGuard
  <2>2. ledger.overlaps # <<>>
    BY <1>0, <2>1, EmptySeq
  <2> QED
    BY <1>0, <2>1, <2>2, CloseOverlapEstate, PaidStutter
<1>6. CASE Catch
  BY <1>6, PaidStutter DEF Catch, Estate
<1>7. CASE SimulatorTick
  <2>1. ledger' = Tick(ledger) /\ SameRun
    BY <1>7 DEF SimulatorTick
  <2> QED
    BY <1>0, <2>1, TickEstate, PaidStutter
<1>8. ASSUME NEW table \in CostTables, NEW area \in Areas, StartRun(table, area) PROVE Paid'
  <2>1. /\ ~simulating /\ simulating'
        /\ ledger' = Turn(Storage(ledger, area), FALSE)
        /\ size' = area /\ stored' = stored + area
        /\ UNCHANGED <<bought, leftover>>
    BY <1>8 DEF StartRun
  <2>2. area \in Nat /\ ledger.metrics \in Metrics
    BY <1>0, DelaysAssumption DEF LedgerType
  <2> DEFINE account == Storage(ledger, area)
  <2>3. /\ account \in LedgerType
        /\ account.charged = ledger.charged /\ account.leakage = ledger.leakage
    BY <1>0, <2>2, StorageEffect
  <2>4. account.metrics.total_space = ledger.metrics.total_space + area
    BY <1>0, <2>2 DEF Storage, LedgerType, Metrics
  <2> HIDE DEF account
  <2>5. /\ ledger'.charged = ledger.charged /\ ledger'.leakage = ledger.leakage
        /\ ledger'.metrics.total_space = ledger.metrics.total_space + area
    BY <2>1, <2>3, <2>4, TurnEffect DEF account
  <2>6. /\ ledger.charged = {bit.hardware : bit \in bought}
        /\ ledger.metrics.total_space = stored + Total(PricesOf("area_space"), bought)
        /\ ledger.leakage = Total(PricesOf("leakage_energy"), bought)
    BY DEF Paid, HardwarePaidOnce
  <2>7. Total(PricesOf("area_space"), bought) \in Nat
    <3>1. \A bit \in bought : PricesOf("area_space")[bit] \in Nat
      <4> SUFFICES ASSUME NEW bit \in bought PROVE PricesOf("area_space")[bit] \in Nat
        OBVIOUS
      <4>1. /\ bit \in [hardware : Operations \X Nat, costs : Tables]
            /\ FullyPriced(PriceOf(bit.costs, bit.hardware[1], bit.hardware[2]))
        BY DEF Paid, BoughtIsPriced, IInv, TypeOK
      <4>2. PriceOf(bit.costs, bit.hardware[1], bit.hardware[2]) \in Prices
        BY <4>1, TableType, PriceType DEF Prices
      <4> QED
        BY <4>1, <4>2 DEF PricesOf, Prices
    <3>2. AddsUp(PricesOf("area_space"), bought)
      BY <3>1, TotalAddsUp DEF Paid, BoughtIsPriced
    <3> QED
      BY <3>2 DEF AddsUp
  <2>8. ledger'.metrics.total_space = stored' + Total(PricesOf("area_space"), bought)
    <3>1. PICK total \in Nat : total = Total(PricesOf("area_space"), bought)
      BY <2>7
    <3>2. ledger.metrics.total_space = stored + total
      BY <2>6, <3>1
    <3>3. ledger'.metrics.total_space = (stored + total) + area /\ stored' = stored + area
      BY <2>1, <2>5, <3>2
    <3>4. ledger'.metrics.total_space = stored' + total
      BY <1>0, <2>2, <3>3
    <3> QED
      BY <3>1, <3>4
  <2>9. ~leftover' => stored' = size' /\ bought' = {}
    BY <1>0, <2>1, <2>2 DEF Paid, CleanBetweenRuns
  <2>10. HardwarePaidOnce'
    BY <2>1, <2>5, <2>6, <2>8, <2>9 DEF HardwarePaidOnce
  <2> QED
    BY <2>1, <2>10 DEF Paid, BoughtIsPriced, CleanBetweenRuns
<1>9. CASE TurnOn
  <2>1. ledger' = Turn(ledger, TRUE) /\ SameRun
    BY <1>9 DEF TurnOn
  <2>2. Estate(ledger') = Estate(ledger)
    BY <1>0, <2>1, TurnEffect DEF Estate
  <2> QED
    BY <2>1, <2>2, PaidStutter
<1>10. CASE EndRun
  <2>1. /\ ledger' = NewLedger /\ ~simulating' /\ bought' = {} /\ stored' = 0
    BY <1>10 DEF EndRun
  <2>2. ledger'.charged = {} /\ ledger'.leakage = 0 /\ ledger'.metrics.total_space = 0
    BY <2>1 DEF NewLedger, NoMetrics
  <2>3. /\ Total(PricesOf("area_space"), bought') = 0
        /\ Total(PricesOf("leakage_energy"), bought') = 0
    BY <2>1, TotalOfNone
  <2> QED
    BY <2>1, <2>2, <2>3, FS_EmptySet DEF Paid, BoughtIsPriced, CleanBetweenRuns, HardwarePaidOnce
<1>11. CASE AbandonRun
  BY <1>11 DEF AbandonRun, Paid, BoughtIsPriced, CleanBetweenRuns, HardwarePaidOnce
<1>12. CASE UNCHANGED vars
  BY <1>12, PaidStutter DEF vars, SameRun, Estate
<1> QED
  BY <1>1, <1>2, <1>3, <1>4, <1>5, <1>6, <1>7, <1>8, <1>9, <1>10, <1>11, <1>12 DEF Next

-----------------------------------------------------------------------------
\* The invariant holds in every reachable state.
THEOREM Invariance == Spec => []IInv
BY InvInit, InvNext, PTL DEF Spec

\* The thread's ledger has the type the code gives it, whatever the thread runs.
THEOREM TypeCorrect == Spec => []TypeOK
<1>1. IInv => TypeOK
  BY DEF IInv
<1> QED
  BY <1>1, Invariance, PTL

\* Guard::drop always finds the group it opened, also while unwinding.
THEOREM GuardsAlwaysMatch == Spec => []GuardsMatchGroups
<1>1. IInv => GuardsMatchGroups
  BY DEF IInv
<1> QED
  BY <1>1, Invariance, PTL

\* charge, push and Guard::drop implement the work time overlap! promises, for
\* any nesting, any delays and any panics.
THEOREM TimeIsPromised == Spec => PromisedTime
BY InvInit, InvNext, Invariance, PTL DEF Spec, PromisedTime, Promise!Spec

\* Each distinct piece of hardware metered since the last reset was paid once,
\* by the table of its first use, and each run's storage; a run that found a
\* clean ledger has paid for its own alone.
THEOREM PaidOnce == Spec => []HardwarePaidOnce
<1>1. Paid => HardwarePaidOnce
  BY DEF Paid
<1> QED
  BY <1>1, PaidInit, PaidNext, Invariance, PTL DEF Spec
=============================================================================
