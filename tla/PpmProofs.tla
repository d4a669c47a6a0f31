------------------------------ MODULE PpmProofs ------------------------------
(***************************************************************************)
(* What PPM's lookups and updates do to its tables, for every number and   *)
(* size of tables, every width and every hash function: Ppm is about which *)
(* entries are shared, and no property here depends on that.  The last     *)
(* part is about PpmLearning: what a branch that keeps its direction comes *)
(* to.                                                                     *)
(***************************************************************************)
EXTENDS PpmLearning, Lemmas, TLAPS

(***************************************************************************)
(* The provider.                                                           *)
(***************************************************************************)
\* A set of tables has a longest one.
LEMMA LongestExists ==
    ASSUME NEW S \in SUBSET TableIds
    PROVE  \E t \in S \cup {0} : \A u \in S : u <= t
<1> DEFINE Gaps == {g \in Nat : \E t \in S \cup {0} : g = Tables - t}
           Less == OpToRel(<, Nat)
<1>1. Tables \in Nat /\ S \subseteq 1..Tables
    BY SizesAssumption DEF TableIds
<1>2. Tables \in Gaps
    BY <1>1
<1>3. IsWellFoundedOn(Less, Nat)
    BY NatLessThanWellFounded
<1> HIDE DEF Less
<1>4. Gaps # {} /\ Gaps \subseteq Nat
    BY <1>2
<1> HIDE DEF Gaps
<1>5. PICK g \in Gaps : \A h \in Gaps : <<h, g>> \notin Less
    BY <1>3, <1>4, WFMin
<1>6. \A h \in Gaps : ~(h < g)
    BY <1>4, <1>5 DEF Less, OpToRel
<1>7. PICK t \in S \cup {0} : g = Tables - t
    BY <1>5 DEF Gaps
<1>8. ASSUME NEW u \in S PROVE u <= t
    <2>1. Tables - u \in Gaps
        BY <1>1 DEF Gaps
    <2>2. ~(Tables - u < g)
        BY <2>1, <1>6
    <2>3. u \in Int /\ t \in Int
        BY <1>1, <1>7
    <2> QED
        BY <2>2, <2>3, <1>1, <1>7
<1> QED
    BY <1>7, <1>8

\* So what predict takes for a provider is one.
LEMMA ProviderIsLongest ==
    ASSUME NEW S \in SUBSET TableIds,
           NEW p, p = CHOOSE t \in S \cup {0} : \A u \in S : u <= t
    PROVE  p \in S \cup {0} /\ p \in 0..Tables /\ \A u \in S : u <= p
<1>1. \E t \in S \cup {0} : \A u \in S : u <= t
    BY LongestExists
<1>2. p \in S \cup {0} /\ \A u \in S : u <= p
    BY <1>1
<1>3. S \cup {0} \subseteq 0..Tables
    BY SizesAssumption DEF TableIds
<1> QED
    BY <1>2, <1>3

(***************************************************************************)
(* The inductive invariant: lookups wait in the order of their records.    *)
(***************************************************************************)
IInv == TypeOK /\ LookupsMatchQueue

LEMMA InvInit == Init => IInv
<1> SUFFICES ASSUME Init PROVE IInv
    OBVIOUS
<1>1. 0 \in Counter /\ 0 \in Histories /\ 0 \in Tags
    BY SizesAssumption DEF Counter, Histories
<1>2. base \in [BaseEntries -> [counter : Counter, meta : BOOLEAN]]
    BY <1>1 DEF Init
<1>3. tables \in [TableIds -> [Entries -> Entry]]
    BY <1>1 DEF Init, Entry
<1>4. pending = <<>> /\ unresolved = <<>> /\ draining = FALSE /\ history = 0
    BY DEF Init
<1>5. pending \in Seq(Lookup) /\ unresolved \in Seq(Record) /\ Len(pending) = 0
    BY <1>4
<1>6. LookupsMatchQueue
    BY <1>4, <1>5 DEF LookupsMatchQueue
<1>7. TypeOK
    BY <1>1, <1>2, <1>3, <1>4, <1>5 DEF TypeOK
<1> QED
    BY <1>6, <1>7 DEF IInv

\* predict makes a well-formed lookup.
LEMMA LookupType ==
    ASSUME TypeOK, NEW a \in Addresses
    PROVE  LookupOf(a) \in Lookup /\ LookupOf(a).address = a
<1>1. Matches(a, history) \in SUBSET TableIds
    BY DEF Matches
<1>2. Provider(a, history) \in 0..Tables
    BY <1>1, ProviderIsLongest DEF Provider
<1>3. BasePrediction(a) \in BOOLEAN
    BY DEF BasePrediction
<1>4. PredictionOf(a, history) \in BOOLEAN
    <2>1. CASE Provider(a, history) = 0
        BY <1>3, <2>1 DEF PredictionOf
    <2>2. CASE Provider(a, history) # 0
        <3>1. PredictionOf(a, history) = (At(Provider(a, history), a, history).counter >= Half)
            BY <2>2 DEF PredictionOf
        <3> QED
            BY <3>1
    <2> QED
        BY <2>1, <2>2
<1> QED
    BY <1>2, <1>3, <1>4 DEF LookupOf, Lookup, TypeOK

LEMMA PredictHolds ==
    ASSUME IInv, NEW record \in Record, Predict(record)
    PROVE  IInv'
<1> DEFINE look == LookupOf(record.address)
<1>1. look \in Lookup /\ look.address = record.address
    BY LookupType DEF IInv, Record
<1> HIDE DEF look
<1>2. pending \in Seq(Lookup) /\ unresolved \in Seq(Record)
    BY DEF IInv, TypeOK
<1>3. pending' = Append(pending, look) /\ unresolved' = Append(unresolved, record)
    BY DEF Predict, look
<1>4. TypeOK'
    BY <1>1, <1>2, <1>3 DEF IInv, TypeOK, Predict
<1>5. Len(pending') = Len(unresolved') /\ Len(unresolved') = Len(unresolved) + 1
    BY <1>1, <1>2, <1>3 DEF IInv, LookupsMatchQueue
<1>6. \A k \in 1..Len(pending') : pending'[k].address = unresolved'[k].address
    BY <1>1, <1>2, <1>3 DEF IInv, LookupsMatchQueue
<1>7. Resolved'.address = Head(unresolved').address
    BY <1>4, <1>5, <1>6, <1>2 DEF TypeOK, Resolved
<1> QED
    BY <1>4, <1>5, <1>6, <1>7 DEF IInv, LookupsMatchQueue

\* What an update works with.
LEMMA ResolvedType ==
    ASSUME IInv, Update
    PROVE  /\ Resolved \in Lookup
           /\ Head(unresolved).taken \in BOOLEAN
           /\ Len(unresolved') < Len(unresolved)
<1>1. pending \in Seq(Lookup) /\ unresolved \in Seq(Record)
      /\ unresolved # <<>> /\ pending # <<>>
    BY DEF IInv, TypeOK, LookupsMatchQueue, Update
<1>2. Head(unresolved) \in Record /\ Head(pending) \in Lookup
    BY <1>1
<1>3. unresolved' = Tail(unresolved)
    BY DEF Update
<1> QED
    BY <1>1, <1>2, <1>3 DEF Record, Resolved

\* A counter keeps its width.
LEMMA TrainedType ==
    ASSUME NEW c \in Counter, NEW taken \in BOOLEAN
    PROVE  Trained(c, taken) \in Counter
BY SizesAssumption DEF Counter, Trained

\* What an update makes of each table.
LEMMA TableEffect ==
    ASSUME IInv, Update, NEW t \in TableIds,
           NEW look, look = Resolved,
           NEW taken, taken = Head(unresolved).taken,
           NEW i, i = Index(t, look.address, look.history)
    PROVE  /\ i \in Entries
           /\ tables'[t] \in [Entries -> Entry]
           /\ \A j \in Entries : j # i => tables'[t][j] = tables[t][j]
           /\ t \in Allocated(look, taken) =>
                /\ tables'[t][i].tag = Tag(t, look.address, look.history)
                /\ ~tables'[t][i].useful
                /\ tables'[t][i].counter = Initial(look, taken)
           /\ t \notin Allocated(look, taken) /\ t = look.provider =>
                /\ tables'[t][i].tag = tables[t][i].tag
                /\ tables'[t][i].useful =
                     IF Judged(look) THEN Correct(look, taken) ELSE tables[t][i].useful
                /\ tables'[t][i].counter = Trained(tables[t][i].counter, taken)
           /\ t \notin Allocated(look, taken) /\ t # look.provider =>
                tables'[t] = tables[t]
<1> DEFINE old == tables[t][i]
           new == Updated(old, t, look, taken)
<1>1. look \in Lookup /\ taken \in BOOLEAN
    BY ResolvedType
<1>2. look.address \in Addresses /\ look.history \in Histories
      /\ look.prediction \in BOOLEAN /\ look.basePrediction \in BOOLEAN
    BY <1>1 DEF Lookup
<1>3. i \in Entries /\ Tag(t, look.address, look.history) \in Tags
    BY <1>2, HashAssumption
<1>4. tables[t] \in [Entries -> Entry]
    BY DEF IInv, TypeOK
<1>5. old \in Entry /\ old.counter \in Counter /\ old.useful \in BOOLEAN
      /\ old.tag \in Tags
    BY <1>3, <1>4 DEF Entry
<1>6. tables'[t] = [tables[t] EXCEPT ![i] = new]
    BY DEF Update, TrainTables
<1>7. /\ t \in Allocated(look, taken) => t # look.provider
      /\ Correct(look, taken) \in BOOLEAN
    BY <1>1 DEF Allocated, Chosen, Candidates, TableIds, Lookup, Correct
<1>8. ASSUME t \in Allocated(look, taken)
      PROVE  /\ new \in Entry /\ new.tag = Tag(t, look.address, look.history)
             /\ ~new.useful /\ new.counter = Initial(look, taken)
    <2>1. Initial(look, taken) \in Counter
        BY SizesAssumption DEF Initial, Counter
    <2>2. new = [counter |-> Initial(look, taken),
                 tag |-> Tag(t, look.address, look.history), useful |-> FALSE]
        BY <1>7, <1>8 DEF Updated
    <2> HIDE DEF new
    <2> QED
        BY <2>1, <2>2, <1>3 DEF Entry
<1>9. ASSUME t \notin Allocated(look, taken), t = look.provider
      PROVE  /\ new \in Entry /\ new.tag = old.tag
             /\ new.useful = IF Judged(look) THEN Correct(look, taken) ELSE old.useful
             /\ new.counter = Trained(old.counter, taken)
    <2> DEFINE useful == IF Judged(look) THEN Correct(look, taken) ELSE old.useful
    <2>1. Trained(old.counter, taken) \in Counter
        BY <1>1, <1>5, TrainedType
    <2>2. useful \in BOOLEAN
        BY <1>5, <1>7
    <2>3. new = [old EXCEPT !.counter = Trained(old.counter, taken), !.useful = useful]
        BY <1>9 DEF Updated
    <2> HIDE DEF new, old, useful
    <2>4. /\ new \in Entry /\ new.tag = old.tag /\ new.useful = useful
          /\ new.counter = Trained(old.counter, taken)
        BY <2>1, <2>2, <2>3, <1>5 DEF Entry
    <2> QED
        BY <2>4 DEF useful
<1>10. ASSUME t \notin Allocated(look, taken), t # look.provider PROVE new = old
    BY <1>10 DEF Updated
<1> HIDE DEF new
<1>11. new \in Entry
    BY <1>5, <1>8, <1>9, <1>10
<1>12. tables'[t] \in [Entries -> Entry] /\ tables'[t][i] = new
      /\ \A j \in Entries : j # i => tables'[t][j] = tables[t][j]
    BY <1>3, <1>4, <1>6, <1>11
<1>13. new = old => tables'[t] = tables[t]
    BY <1>3, <1>4, <1>6
<1> QED
    BY <1>3, <1>8, <1>9, <1>10, <1>12, <1>13

LEMMA UpdateHolds == IInv /\ Update => IInv'
<1> SUFFICES ASSUME IInv, Update PROVE IInv'
    OBVIOUS
<1> DEFINE look == Resolved
           taken == Head(unresolved).taken
<1>1. look \in Lookup /\ taken \in BOOLEAN
    BY ResolvedType
<1>2. pending \in Seq(Lookup) /\ unresolved \in Seq(Record)
      /\ unresolved # <<>> /\ pending # <<>>
    BY DEF IInv, TypeOK, LookupsMatchQueue, Update
<1>3. pending' = Tail(pending) /\ unresolved' = Tail(unresolved)
    BY DEF Update
<1>4. tables' \in [TableIds -> [Entries -> Entry]]
    <2>1. \A t \in TableIds : tables'[t] \in [Entries -> Entry]
        BY TableEffect
    <2> DEFINE table(t) == [tables[t] EXCEPT ![Index(t, look.address, look.history)] =
                              Updated(tables[t][Index(t, look.address, look.history)],
                                      t, look, taken)]
    <2>2. tables' = [t \in TableIds |-> table(t)]
        BY DEF Update, TrainTables
    <2> HIDE DEF table
    <2> QED
        BY <2>1, <2>2
<1>5. base' \in [BaseEntries -> [counter : Counter, meta : BOOLEAN]]
    <2> DEFINE i == BaseIndex(look.address)
               entry == [counter |-> IF look.provider = 0 THEN Trained(base[i].counter, taken)
                                                          ELSE base[i].counter,
                         meta |-> IF Judged(look) THEN Correct(look, taken) ELSE base[i].meta]
    <2>1. base' = [base EXCEPT ![i] = entry]
        BY DEF Update, TrainBase
    <2>2. i \in BaseEntries
        BY <1>1, HashAssumption DEF Lookup
    <2>3. base \in [BaseEntries -> [counter : Counter, meta : BOOLEAN]]
        BY DEF IInv, TypeOK
    <2>4. base[i].counter \in Counter /\ base[i].meta \in BOOLEAN
        BY <2>2, <2>3
    <2>5. Trained(base[i].counter, taken) \in Counter
        BY <1>1, <2>4, TrainedType
    <2>6. Correct(look, taken) \in BOOLEAN
        BY DEF Correct
    <2>7. entry \in [counter : Counter, meta : BOOLEAN]
        BY <2>4, <2>5, <2>6
    <2> HIDE DEF entry
    <2> QED
        BY <2>1, <2>2, <2>3, <2>7
<1>6. history' \in Histories
    BY SizesAssumption DEF Update, Histories, IInv, TypeOK
<1>7. draining' \in BOOLEAN
    BY DEF Update, IInv, TypeOK
<1>8. pending' \in Seq(Lookup) /\ unresolved' \in Seq(Record)
    BY <1>2, <1>3
<1>9. Len(pending') = Len(unresolved')
    BY <1>2, <1>3 DEF IInv, LookupsMatchQueue
<1>10. \A k \in 1..Len(pending') : pending'[k].address = unresolved'[k].address
    <2> SUFFICES ASSUME NEW k \in 1..Len(pending')
                 PROVE  pending'[k].address = unresolved'[k].address
        OBVIOUS
    <2>1. k + 1 \in 1..Len(pending) /\ pending'[k] = pending[k + 1]
        BY <1>2, <1>3
    <2>2. unresolved'[k] = unresolved[k + 1]
        BY <1>2, <1>3, <1>9
    <2> QED
        BY <2>1, <2>2 DEF IInv, LookupsMatchQueue
<1>11. unresolved' # <<>> => Resolved'.address = Head(unresolved').address
    BY <1>8, <1>9, <1>10 DEF Resolved
<1> QED
    BY <1>4, <1>5, <1>6, <1>7, <1>8, <1>9, <1>10, <1>11 DEF IInv, TypeOK, LookupsMatchQueue

LEMMA InvNext == IInv /\ [Next]_vars => IInv'
<1> SUFFICES ASSUME IInv, [Next]_vars PROVE IInv'
    OBVIOUS
<1>1. ASSUME NEW record \in Record, Predict(record) PROVE IInv'
    BY <1>1, PredictHolds
<1>2. CASE Update
    BY <1>2, UpdateHolds
<1>3. CASE Drain
    BY <1>3 DEF Drain, IInv, TypeOK, LookupsMatchQueue, Resolved
<1>4. CASE UNCHANGED vars
    BY <1>4 DEF vars, IInv, TypeOK, LookupsMatchQueue, Resolved
<1> QED
    BY <1>1, <1>2, <1>3, <1>4 DEF Next

THEOREM Invariance == Spec => []IInv
BY InvInit, InvNext, PTL DEF Spec

-----------------------------------------------------------------------------
(***************************************************************************)
(* What follows from it.                                                   *)
(***************************************************************************)
\* PPM's state keeps its types: counters their widths, tags their ranges.
THEOREM TypeCorrect == Spec => []TypeOK
<1>1. IInv => TypeOK
    BY DEF IInv
<1> QED
    BY <1>1, Invariance, PTL

\* PPM::update always finds the lookup of the branch it is given.
THEOREM UpdatesFindTheirLookups == Spec => []LookupsMatchQueue
<1>1. IInv => LookupsMatchQueue
    BY DEF IInv
<1> QED
    BY <1>1, Invariance, PTL

\* Only updates write the tables.
LEMMA OthersWriteNothing ==
    ASSUME IInv, [Next]_vars, ~Update
    PROVE  tables' = tables /\ ~Updating
<1>1. unresolved \in Seq(Record) /\ Len(unresolved) \in Nat
    BY DEF IInv, TypeOK
<1>2. ASSUME NEW record \in Record, Predict(record)
      PROVE  tables' = tables /\ ~Updating
    BY <1>1, <1>2 DEF Predict, Updating
<1>3. ASSUME UNCHANGED <<tables, unresolved>> PROVE tables' = tables /\ ~Updating
    BY <1>1, <1>3 DEF Updating
<1> QED
    BY <1>2, <1>3 DEF Next, Drain, vars

\* A useful entry is given up only by a misprediction, and only as its provider
\* or as the one victim among useful entries.
THEOREM UsefulEntriesAreKept == Spec => UsefulIsKept
<1> DEFINE look == Resolved
           taken == Head(unresolved).taken
           Lost(t, i) == tables[t][i].useful /\ ~tables'[t][i].useful
           Reason(t, i) ==
             /\ Updating /\ Wrong
             /\ i = Index(t, look.address, look.history)
             /\ \/ t = look.provider /\ taken = look.basePrediction
                \/ /\ t > look.provider
                   /\ \A u \in TableIds \ {t} :
                        u > look.provider => IsUseful(u, look) /\ tables'[u] = tables[u]
<1>1. ASSUME IInv, Update, NEW t \in TableIds, NEW i \in Entries, Lost(t, i)
      PROVE  Reason(t, i)
    <2>1. look \in Lookup /\ taken \in BOOLEAN /\ Updating
        BY <1>1, ResolvedType DEF Updating
    <2>2. i = Index(t, look.address, look.history)
        BY <1>1, TableEffect
    <2>3. CASE t \in Allocated(look, taken)
        <3>1. Wrong /\ look.provider # Tables /\ t \in Chosen(look)
            BY <2>3 DEF Allocated, Wrong
        <3>2. t > look.provider /\ AllUseful(look) /\ t = Victim(look)
            BY <1>1, <2>2, <3>1 DEF Chosen, Candidates, IsUseful, At
        <3>3. ASSUME NEW u \in TableIds \ {t}, u > look.provider
              PROVE  IsUseful(u, look) /\ tables'[u] = tables[u]
            <4>1. IsUseful(u, look)
                BY <3>2, <3>3 DEF AllUseful, Candidates
            <4>2. u \notin Allocated(look, taken)
                BY <3>2, <3>3 DEF Allocated, Chosen
            <4>3. u # look.provider
                BY <2>1, <3>3 DEF TableIds, Lookup
            <4> QED
                BY <1>1, <4>1, <4>2, <4>3, TableEffect
        <3> QED
            BY <2>1, <2>2, <3>1, <3>2, <3>3
    <2>4. CASE t \notin Allocated(look, taken) /\ t = look.provider
        <3>1. Judged(look) /\ ~Correct(look, taken)
            BY <1>1, <2>2, <2>4, TableEffect
        <3>2. look.prediction # look.basePrediction /\ look.prediction # taken
            BY <3>1 DEF Judged, Correct
        <3>3. taken = look.basePrediction
            BY <2>1, <3>2 DEF Lookup
        <3> QED
            BY <2>1, <2>2, <2>4, <3>1, <3>3 DEF Wrong
    <2>5. CASE t \notin Allocated(look, taken) /\ t # look.provider
        BY <1>1, <2>5, TableEffect
    <2> QED
        BY <2>3, <2>4, <2>5
<1>2. IInv /\ [Next]_vars =>
        \A t \in TableIds, i \in Entries : Lost(t, i) => Reason(t, i)
    BY <1>1, OthersWriteNothing
<1>3. IInv /\ [Next]_vars =>
        [\A t \in TableIds, i \in Entries :
           tables[t][i].useful /\ ~tables'[t][i].useful =>
             /\ Updating /\ Wrong
             /\ i = Index(t, Resolved.address, Resolved.history)
             /\ \/ t = Resolved.provider /\ Head(unresolved).taken = Resolved.basePrediction
                \/ /\ t > Resolved.provider
                   /\ \A u \in TableIds \ {t} :
                        u > Resolved.provider =>
                          /\ IsUseful(u, Resolved)
                          /\ tables'[u] = tables[u]]_vars
    BY <1>2
<1> QED
    BY <1>3, Invariance, PTL DEF Spec, UsefulIsKept

\* The victim among useful candidates is one of them.
LEMMA VictimIsCandidate ==
    ASSUME NEW look \in Lookup, look.provider # Tables
    PROVE  Victim(look) \in Candidates(look)
<1>1. look.provider \in 0..Tables /\ Salt(look.address, look.history) \in Nat
    BY HashAssumption DEF Lookup
<1>2. Tables \in Nat /\ Tables - look.provider \in Nat \ {0}
    BY <1>1, SizesAssumption
<1>3. Salt(look.address, look.history) % (Tables - look.provider)
        \in 0..(Tables - look.provider) - 1
    BY <1>1, <1>2
<1> QED
    BY <1>1, <1>2, <1>3 DEF Victim, Candidates, TableIds

\* It allocates, above the provider that failed.
LEMMA MovesUp ==
    ASSUME IInv, Update, Wrong, Resolved.provider < Tables,
           NEW a \in Addresses, NEW h \in Histories,
           Resolved.address = a, Resolved.history = h
    PROVE  Provider(a, h)' > Resolved.provider
<1> DEFINE look == Resolved
           taken == Head(unresolved).taken
<1>1. look \in Lookup /\ taken \in BOOLEAN /\ look.provider \in 0..Tables
    BY ResolvedType DEF Lookup
<1>2. PICK t \in Chosen(look) : TRUE
    <2>1. CASE AllUseful(look)
        BY <1>1, <2>1, VictimIsCandidate, SizesAssumption DEF Chosen
    <2>2. CASE ~AllUseful(look)
        BY <2>2 DEF AllUseful, Chosen
    <2> QED
        BY <2>1, <2>2
<1>3. t \in TableIds /\ t > look.provider
    BY <1>2 DEF Chosen, Candidates
<1>4. t \in Allocated(look, taken)
    BY <1>1, <1>2, SizesAssumption DEF Allocated, Wrong
<1>5. tables'[t][Index(t, a, h)].tag = Tag(t, a, h)
    BY <1>3, <1>4, TableEffect
<1>6. t \in Matches(a, h)' /\ Matches(a, h)' \in SUBSET TableIds
    BY <1>3, <1>5 DEF Matches, At
<1>7. Provider(a, h)' \in 0..Tables /\ t <= Provider(a, h)'
    BY <1>6, ProviderIsLongest DEF Provider
<1> QED
    BY <1>1, <1>3, <1>7, SizesAssumption DEF TableIds

\* After a misprediction a longer table than the one that failed provides for
\* the same branch under the same history.
THEOREM MispredictionsMoveUp == Spec => MispredictionMovesUp
<1>1. ASSUME IInv, Update, Wrong, Resolved.provider < Tables,
             NEW a \in Addresses, NEW h \in Histories,
             Resolved.address = a, Resolved.history = h
      PROVE  Provider(a, h)' > Resolved.provider
    BY <1>1, MovesUp
<1>2. IInv /\ [Next]_vars =>
        \A a \in Addresses, h \in Histories :
          /\ Updating /\ Wrong /\ Resolved.provider < Tables
          /\ Resolved.address = a /\ Resolved.history = h
          => Provider(a, h)' > Resolved.provider
    BY <1>1, OthersWriteNothing
<1>3. IInv /\ [Next]_vars =>
        [\A a \in Addresses, h \in Histories :
          /\ Updating /\ Wrong /\ Resolved.provider < Tables
          /\ Resolved.address = a /\ Resolved.history = h
          => Provider(a, h)' > Resolved.provider]_vars
    BY <1>2
<1> QED
    BY <1>3, Invariance, PTL DEF Spec, MispredictionMovesUp

\* An update leaves alone what its lookup did not index and every table below
\* its provider, and changes tags only above.
THEOREM ShorterTablesAreLeft == Spec => ShorterTablesStay
<1> DEFINE Allowed(t, i) ==
             /\ Updating /\ t >= Resolved.provider
             /\ i = Index(t, Resolved.address, Resolved.history)
             /\ tables'[t][i].tag # tables[t][i].tag => Wrong /\ t > Resolved.provider
<1>1. ASSUME IInv, Update, NEW t \in TableIds, NEW i \in Entries,
             tables'[t][i] # tables[t][i]
      PROVE  Allowed(t, i)
    <2> DEFINE look == Resolved
               taken == Head(unresolved).taken
    <2>1. look \in Lookup /\ taken \in BOOLEAN /\ Updating
        BY <1>1, ResolvedType DEF Updating
    <2>2. i = Index(t, look.address, look.history)
        BY <1>1, TableEffect
    <2>3. t \in Int /\ look.provider \in Int
        BY <2>1, SizesAssumption DEF TableIds, Lookup
    <2>4. CASE t \in Allocated(look, taken)
        <3>1. Wrong /\ t > look.provider
            BY <2>4 DEF Allocated, Wrong, Chosen, Candidates
        <3> QED
            BY <2>1, <2>2, <2>3, <3>1
    <2>5. CASE t \notin Allocated(look, taken)
        <3>1. t = look.provider /\ tables'[t][i].tag = tables[t][i].tag
            BY <1>1, <2>2, <2>5, TableEffect
        <3> QED
            BY <2>1, <2>2, <2>3, <3>1
    <2> QED
        BY <2>4, <2>5
<1>2. IInv /\ [Next]_vars =>
        \A t \in TableIds, i \in Entries :
          tables'[t][i] # tables[t][i] => Allowed(t, i)
    BY <1>1, OthersWriteNothing
<1>3. IInv /\ [Next]_vars =>
        [\A t \in TableIds, i \in Entries :
           tables'[t][i] # tables[t][i] =>
             /\ Updating /\ t >= Resolved.provider
             /\ i = Index(t, Resolved.address, Resolved.history)
             /\ tables'[t][i].tag # tables[t][i].tag => Wrong /\ t > Resolved.provider]_vars
    BY <1>2
<1> QED
    BY <1>3, Invariance, PTL DEF Spec, ShorterTablesStay

-----------------------------------------------------------------------------
(***************************************************************************)
(* PpmLearning, without lag: what is needed of it beside Ppm's invariant.  *)
(* Each lookup is made in the state it is updated in; the newest           *)
(* directions of the history are those of the steady branch; and once they *)
(* fill it, its lookup goes through stages.                                *)
(***************************************************************************)
LookupsAreFresh ==
    /\ Len(pending) <= 1
    /\ pending # <<>> => Head(pending) = LookupOf(Head(unresolved).address)

\* The newest k directions are all the same.
Follows(hist, taken, k) == hist % TwoTo[k] = IF taken THEN TwoTo[k] - 1 ELSE 0

Smaller(m, n) == IF m < n THEN m ELSE n

HistoryIsSteady ==
    Follows(history, steady.record.taken, Smaller(steady.length, HistoryBits))

\* How often a counter must move to predict the direction.
Distance(counter, taken) == IF taken THEN Half - counter ELSE counter - Half + 1

\* Where the lookup stands after so many updates under its steady history: it
\* is right; or each of them moved it to a longer table; or each of them
\* trained the longest; or they ended in a new entry of the longest.
Stage(address, hist, taken, n) ==
    LET provider == Provider(address, hist)
        counter == At(Tables, address, hist).counter
    IN  \/ PredictionOf(address, hist) = taken
        \/ provider < Tables /\ n <= provider
        \/ provider = Tables /\ Distance(counter, taken) <= Half - n
        \/ provider = Tables /\ n <= Tables /\ Distance(counter, taken) <= 1

SteadyIsStaged ==
    steady.length >= HistoryBits =>
      Stage(steady.record.address, history, steady.record.taken,
            steady.length - HistoryBits)

LearningInv ==
    /\ IInv
    /\ steady \in [record : Record, length : Nat]
    /\ LookupsAreFresh
    /\ HistoryIsSteady
    /\ SteadyIsStaged

(***************************************************************************)
(* The history.                                                            *)
(***************************************************************************)
Shifted(hist, taken) == (2 * hist + (IF taken THEN 1 ELSE 0)) % HistoryRange

LEMMA FollowsMore ==
    ASSUME NEW hist \in Histories, NEW taken \in BOOLEAN, NEW k \in Nat,
           k < HistoryBits, Follows(hist, taken, k)
    PROVE  Follows(Shifted(hist, taken), taken, k + 1)
<1> DEFINE P == TwoTo[k]
           N == TwoTo[k + 1]
           q == hist \div P
           bit == IF taken THEN 1 ELSE 0
           z == (2 * hist + bit) \div HistoryRange
           left == IF taken THEN N - 1 ELSE 0
           new == Shifted(hist, taken)
<1>1. P \in Nat \ {0} /\ N \in Nat \ {0} /\ N = 2 * P
    BY TwoToValues
<1>2. PICK m \in Nat : HistoryRange = m * N
    <2>1. HistoryBits \in Nat /\ k + 1 \in 0..HistoryBits
        BY HistoryAssumption
    <2> QED
        BY <2>1, HistoryAssumption, TwoToDivides
<1>3. hist \in Nat /\ HistoryRange \in Nat \ {0}
    BY SizesAssumption DEF Histories
<1> HIDE DEF P, N
<1>4. q \in Int /\ hist = P * q + (IF taken THEN P - 1 ELSE 0)
    BY <1>1, <1>3 DEF Follows, P
<1>5. 2 * hist + bit \in Nat
    BY <1>3
<1>6. /\ z \in Int /\ new \in Int
      /\ 2 * hist + bit = HistoryRange * z + new
    <2> HIDE DEF bit
    <2>1. new = (2 * hist + bit) % HistoryRange
        BY DEF Shifted, bit
    <2> DEFINE sum == 2 * hist + bit
    <2>2. sum \in Int /\ new = sum % HistoryRange /\ z = sum \div HistoryRange
        BY <1>5, <2>1
    <2> HIDE DEF sum, new, z
    <2>3. z \in Int /\ new \in 0..HistoryRange - 1 /\ sum = HistoryRange * z + new
        BY <1>3, <2>2, QuotientAndRemainder
    <2>4. new \in Int
        BY <1>3, <2>3
    <2> QED
        BY <2>3, <2>4 DEF sum
<1> HIDE DEF q, z, new
<1>7. new = (q - m * z) * N + left
    <2> DEFINE sum == 2 * hist + bit
               above == q * N
               wrapped == (m * z) * N
    <2>1. sum = above + left
        BY <1>1, <1>3, <1>4
    <2>2. HistoryRange * z = wrapped
        BY <1>1, <1>2, <1>6
    <2>3. (q - m * z) * N = above - wrapped
        BY <1>1, <1>4, <1>6
    <2>4. above \in Int /\ wrapped \in Int /\ left \in Int
        BY <1>1, <1>4, <1>6
    <2>5. sum = HistoryRange * z + new
        BY <1>6
    <2> HIDE DEF left, bit, sum, above, wrapped
    <2>6. new = above - wrapped + left
        BY <1>6, <2>1, <2>2, <2>4, <2>5
    <2>7. (q - m * z) * N + left = above - wrapped + left
        BY <2>3
    <2> QED
        BY <2>6, <2>7
<1>8. q - m * z \in Int /\ left \in 0..N - 1
    BY <1>1, <1>4, <1>6
<1>9. new % N = left
    <2> DEFINE quotient == q - m * z
    <2>1. quotient \in Int /\ new = quotient * N + left
        BY <1>7, <1>8
    <2> HIDE DEF quotient, left
    <2> QED
        BY <1>1, <1>6, <1>8, <2>1, RemainderUnique
<1> QED
    BY <1>9 DEF Follows, new, N

LEMMA FollowsFewer ==
    ASSUME NEW hist \in Nat, NEW taken \in BOOLEAN, NEW k \in Nat,
           Follows(hist, taken, k + 1)
    PROVE  Follows(hist, taken, k)
<1> DEFINE P == TwoTo[k]
           N == TwoTo[k + 1]
           q == hist \div N
           p == IF taken THEN 2 * q + 1 ELSE 2 * q
           left == IF taken THEN P - 1 ELSE 0
<1>1. P \in Nat \ {0} /\ N \in Nat \ {0} /\ N = 2 * P
    BY TwoToValues
<1> HIDE DEF P, N
<1>2. q \in Int /\ hist = N * q + (IF taken THEN N - 1 ELSE 0)
    BY <1>1 DEF Follows, N
<1> HIDE DEF q
<1>3. hist = p * P + left /\ p \in Int /\ left \in 0..P - 1
    BY <1>1, <1>2
<1>4. hist % P = left
    <2> HIDE DEF p, left
    <2> QED
        BY <1>1, <1>3, RemainderUnique
<1> QED
    BY <1>4 DEF Follows, P

\* A history of one direction stays so.
LEMMA SettledStays ==
    ASSUME NEW hist \in Histories, NEW taken \in BOOLEAN,
           Follows(hist, taken, HistoryBits)
    PROVE  Shifted(hist, taken) = hist
<1> DEFINE bit == IF taken THEN 1 ELSE 0
<1>1. HistoryRange \in Nat \ {0} /\ hist \in 0..HistoryRange - 1
    BY SizesAssumption DEF Histories
<1>2. hist % HistoryRange = hist
    <2>1. hist = 0 * HistoryRange + hist /\ 0 \in Int /\ hist \in Int
        BY <1>1
    <2> QED
        BY <1>1, <2>1, RemainderUnique
<1>3. hist = IF taken THEN HistoryRange - 1 ELSE 0
    BY <1>2, HistoryAssumption DEF Follows
<1>4. bit \in Int /\ 2 * hist + bit = bit * HistoryRange + hist /\ 2 * hist + bit \in Int
    BY <1>1, <1>3
<1>5. (2 * hist + bit) % HistoryRange = hist
    <2> DEFINE sum == 2 * hist + bit
    <2>1. sum \in Int /\ sum = bit * HistoryRange + hist
        BY <1>4
    <2> HIDE DEF sum, bit
    <2>2. sum % HistoryRange = hist
        BY <1>1, <1>4, <2>1, RemainderUnique
    <2> QED
        BY <2>2 DEF sum
<1> QED
    BY <1>5 DEF Shifted

\* What one more of the same direction makes of the history.
LEMMA HistoryStep ==
    ASSUME NEW hist \in Histories, NEW taken \in BOOLEAN, NEW n \in Nat,
           Follows(hist, taken, Smaller(n, HistoryBits))
    PROVE  /\ Follows(Shifted(hist, taken), taken, Smaller(n + 1, HistoryBits))
           /\ Follows(Shifted(hist, taken), taken, Smaller(n, HistoryBits))
           /\ n >= HistoryBits => Shifted(hist, taken) = hist
<1> DEFINE new == Shifted(hist, taken)
<1>1. HistoryBits \in Nat /\ HistoryRange \in Nat \ {0} /\ hist \in Nat
    BY HistoryAssumption, SizesAssumption DEF Histories
<1>2. CASE n < HistoryBits
    <2>1. Smaller(n, HistoryBits) = n /\ Smaller(n + 1, HistoryBits) = n + 1
        BY <1>1, <1>2 DEF Smaller
    <2>2. Follows(new, taken, n + 1)
        BY <1>2, <2>1, FollowsMore
    <2>3. new \in Nat
        BY <1>1 DEF Shifted
    <2> HIDE DEF new
    <2>4. Follows(new, taken, n)
        BY <2>2, <2>3, FollowsFewer
    <2> QED
        BY <1>1, <1>2, <2>1, <2>2, <2>4 DEF new
<1>3. CASE n >= HistoryBits
    <2>1. Smaller(n, HistoryBits) = HistoryBits /\ Smaller(n + 1, HistoryBits) = HistoryBits
        BY <1>1, <1>3 DEF Smaller
    <2>2. new = hist
        BY <2>1, SettledStays
    <2> QED
        BY <2>1, <2>2
<1> QED
    BY <1>1, <1>2, <1>3

\* Of no directions nothing is said.
LEMMA FollowsNone ==
    ASSUME NEW hist \in Nat, NEW taken \in BOOLEAN
    PROVE  Follows(hist, taken, 0)
<1>1. TwoTo[0] = 1
    BY TwoToValues
<1>2. hist % 1 = 0
    OBVIOUS
<1> QED
    BY <1>1, <1>2 DEF Follows

(***************************************************************************)
(* The stages.                                                             *)
(***************************************************************************)
LEMMA ProviderType ==
    ASSUME NEW a, NEW h, NEW p, p = Provider(a, h)
    PROVE  p \in Matches(a, h) \cup {0} /\ p \in 0..Tables /\ \A u \in Matches(a, h) : u <= p
<1>1. Matches(a, h) \in SUBSET TableIds
    BY DEF Matches
<1> QED
    BY <1>1, ProviderIsLongest DEF Provider

LEMMA CounterType ==
    ASSUME TypeOK, NEW a \in Addresses, NEW h \in Histories, NEW t \in TableIds
    PROVE  At(t, a, h).counter \in Counter
<1>1. tables[t] \in [Entries -> Entry] /\ Index(t, a, h) \in Entries
    BY HashAssumption DEF TypeOK
<1> QED
    BY <1>1 DEF At, Entry

\* Any lookup is in the first stage.
LEMMA StageFirst ==
    ASSUME TypeOK, NEW a \in Addresses, NEW h \in Histories, NEW d \in BOOLEAN
    PROVE  Stage(a, h, d, 0)
<1> DEFINE p == Provider(a, h)
           c == At(Tables, a, h).counter
<1>1. p \in 0..Tables
    BY ProviderType
<1>2. Tables \in TableIds
    BY SizesAssumption DEF TableIds
<1>3. c \in 0..2 * Half - 1
    BY <1>2, CounterType DEF Counter
<1>4. Half \in Nat /\ Tables \in Nat
    BY SizesAssumption
<1> HIDE DEF p, c
<1>5. Distance(c, d) <= Half - 0
    BY <1>3, <1>4 DEF Distance
<1>6. (p < Tables /\ 0 <= p) \/ p = Tables
    BY <1>1, <1>4
<1> QED
    BY <1>5, <1>6 DEF Stage, p, c

\* A later stage is also an earlier one.
LEMMA StageEarlier ==
    ASSUME NEW a, NEW h, NEW d, NEW n \in Nat, Stage(a, h, d, n + 1),
           TypeOK, a \in Addresses, h \in Histories, d \in BOOLEAN
    PROVE  Stage(a, h, d, n)
<1> DEFINE p == Provider(a, h)
           c == At(Tables, a, h).counter
           x == Distance(c, d)
<1>1. p \in 0..Tables
    BY ProviderType
<1>2. Tables \in TableIds
    BY SizesAssumption DEF TableIds
<1>3. c \in 0..2 * Half - 1
    BY <1>2, CounterType DEF Counter
<1>4. Half \in Nat /\ Tables \in Nat
    BY SizesAssumption
<1>5. x \in Int
    BY <1>3, <1>4 DEF Distance
<1>6. \/ PredictionOf(a, h) = d
      \/ p < Tables /\ n + 1 <= p
      \/ p = Tables /\ x <= Half - (n + 1)
      \/ p = Tables /\ n + 1 <= Tables /\ x <= 1
    BY DEF Stage
<1> HIDE DEF p, c, x
<1>7. \/ PredictionOf(a, h) = d
      \/ p < Tables /\ n <= p
      \/ p = Tables /\ x <= Half - n
      \/ p = Tables /\ n <= Tables /\ x <= 1
    BY <1>1, <1>4, <1>5, <1>6
<1> QED
    BY <1>7 DEF Stage, p, c, x

\* A counter predicts the direction it has no distance from.
LEMMA RightCounter ==
    ASSUME NEW c \in Counter, NEW d \in BOOLEAN
    PROVE  ((c >= Half) = d) <=> (Distance(c, d) <= 0)
<1>1. Half \in Nat /\ c \in 0..2 * Half - 1
    BY SizesAssumption DEF Counter
<1>2. ASSUME d PROVE ((c >= Half) = d) <=> (Distance(c, d) <= 0)
    <2>1. (c >= Half) <=> (Distance(c, d) <= 0)
        BY <1>1, <1>2 DEF Distance
    <2>2. ((c >= Half) = d) <=> (c >= Half)
        BY <1>2
    <2> QED
        BY <2>1, <2>2
<1>3. ASSUME ~d PROVE ((c >= Half) = d) <=> (Distance(c, d) <= 0)
    <2>1. ~(c >= Half) <=> (Distance(c, d) <= 0)
        BY <1>1, <1>3 DEF Distance
    <2>2. ((c >= Half) = d) <=> ~(c >= Half)
        BY <1>3
    <2> QED
        BY <2>1, <2>2
<1> QED
    BY <1>2, <1>3

\* The longest table predicts what its counter says.
LEMMA TopPredicts ==
    ASSUME TypeOK, NEW a \in Addresses, NEW h \in Histories, NEW d \in BOOLEAN,
           Provider(a, h) = Tables
    PROVE  (PredictionOf(a, h) = d) <=> (Distance(At(Tables, a, h).counter, d) <= 0)
<1> DEFINE c == At(Tables, a, h).counter
<1>1. Tables \in TableIds /\ Tables # 0
    BY SizesAssumption DEF TableIds
<1>2. c \in Counter
    BY <1>1, CounterType
<1>3. PredictionOf(a, h) = (c >= Half)
    BY <1>1 DEF PredictionOf
<1> HIDE DEF c
<1>4. ((c >= Half) = d) <=> (Distance(c, d) <= 0)
    BY <1>2, RightCounter
<1> QED
    BY <1>3, <1>4 DEF c

\* In the last stage the lookup is right.
LEMMA StageLast ==
    ASSUME TypeOK, NEW a \in Addresses, NEW h \in Histories, NEW d \in BOOLEAN,
           NEW n \in Nat, n >= Half, n >= Tables + 1, Stage(a, h, d, n)
    PROVE  PredictionOf(a, h) = d
<1> DEFINE p == Provider(a, h)
           x == Distance(At(Tables, a, h).counter, d)
<1>1. p \in 0..Tables /\ Half \in Nat /\ Tables \in Nat
    BY ProviderType, SizesAssumption
<1>2. \/ PredictionOf(a, h) = d
      \/ p < Tables /\ n <= p
      \/ p = Tables /\ x <= Half - n
      \/ p = Tables /\ n <= Tables /\ x <= 1
    BY DEF Stage
<1>3. x \in Int
    <2>1. Tables \in TableIds
        BY SizesAssumption DEF TableIds
    <2>2. At(Tables, a, h).counter \in 0..2 * Half - 1
        BY <2>1, CounterType DEF Counter
    <2> QED
        BY <1>1, <2>2 DEF Distance
<1>4. p = Tables => (PredictionOf(a, h) = d <=> x <= 0)
    BY TopPredicts
<1> HIDE DEF p, x
<1>5. PredictionOf(a, h) = d \/ (p = Tables /\ x <= 0)
    BY <1>1, <1>2, <1>3
<1> QED
    BY <1>4, <1>5

\* Training moves a wrong counter one nearer, and leaves a right one right.
LEMMA TrainedDistance ==
    ASSUME NEW c \in Counter, NEW d \in BOOLEAN
    PROVE  /\ Distance(c, d) > 0 => Distance(Trained(c, d), d) = Distance(c, d) - 1
           /\ Distance(c, d) <= 0 => Distance(Trained(c, d), d) <= 0
           /\ Distance(c, d) \in Int
<1>1. Half \in Nat \ {0} /\ c \in 0..2 * Half - 1
    BY SizesAssumption DEF Counter
<1>2. CASE d = TRUE
    BY <1>1, <1>2 DEF Trained, Distance
<1>3. CASE d = FALSE
    BY <1>1, <1>3 DEF Trained, Distance
<1>4. d = TRUE \/ d = FALSE
    OBVIOUS
<1> QED
    BY <1>2, <1>3, <1>4

\* A new entry's counter is at most one away.
LEMMA InitialDistance ==
    ASSUME NEW look, NEW taken, NEW d \in BOOLEAN
    PROVE  Distance(Initial(look, taken), d) <= 1
<1>1. Initial(look, taken) = Half \/ Initial(look, taken) = Half - 1
    BY DEF Initial
<1> QED
    BY <1>1, SizesAssumption DEF Distance

\* An update that allocates nothing keeps the provider, and trains it.
LEMMA ProviderKept ==
    ASSUME IInv, Update, NEW a \in Addresses, NEW h \in Histories, h = history,
           Resolved = LookupOf(a), NEW d, d = Head(unresolved).taken,
           Allocated(Resolved, d) = {}, NEW p, p = Provider(a, h)
    PROVE  /\ Provider(a, h)' = p
           /\ p # 0 => At(p, a, h)'.counter = Trained(At(p, a, h).counter, d)
           /\ p = 0 => base'[BaseIndex(a)].counter = Trained(base[BaseIndex(a)].counter, d)
<1>1. /\ Resolved.address = a /\ Resolved.history = h /\ Resolved.provider = p
    BY DEF LookupOf
<1>2. \A t \in TableIds : tables'[t][Index(t, a, h)].tag = tables[t][Index(t, a, h)].tag
    BY <1>1, TableEffect
<1>3. Matches(a, h)' = Matches(a, h)
    BY <1>2 DEF Matches, At
<1>4. Provider(a, h)' = p
    BY <1>3 DEF Provider
<1>5. ASSUME p # 0 PROVE At(p, a, h)'.counter = Trained(At(p, a, h).counter, d)
    <2>1. p \in TableIds
        BY <1>5, ProviderType, SizesAssumption DEF TableIds
    <2> QED
        BY <1>1, <2>1, TableEffect DEF At
<1>6. ASSUME p = 0
      PROVE  base'[BaseIndex(a)].counter = Trained(base[BaseIndex(a)].counter, d)
    <2>1. BaseIndex(a) \in BaseEntries
        BY HashAssumption
    <2>2. base \in [BaseEntries -> [counter : Counter, meta : BOOLEAN]]
        BY DEF IInv, TypeOK
    <2> QED
        BY <1>1, <1>6, <2>1, <2>2 DEF Update, TrainBase
<1> QED
    BY <1>4, <1>5, <1>6

\* A right lookup stays right.
LEMMA RightStays ==
    ASSUME IInv, Update, NEW a \in Addresses, NEW h \in Histories, h = history,
           Resolved = LookupOf(a), NEW d \in BOOLEAN, d = Head(unresolved).taken,
           PredictionOf(a, h) = d
    PROVE  PredictionOf(a, h)' = d
<1>1. Allocated(Resolved, d) = {}
    BY DEF Allocated, Correct, LookupOf
<1>2. Provider(a, h) \in 0..Tables
    BY ProviderType
<1>3. CASE Provider(a, h) = 0
    <2> DEFINE c == base[BaseIndex(a)].counter
    <2>1. c \in Counter
        <3>1. BaseIndex(a) \in BaseEntries
            BY HashAssumption
        <3> QED
            BY <3>1 DEF IInv, TypeOK
    <2>2. (c >= Half) = d
        BY <1>3 DEF PredictionOf, BasePrediction
    <2>3. Provider(a, h)' = 0 /\ base'[BaseIndex(a)].counter = Trained(c, d)
        BY <1>1, <1>3, ProviderKept
    <2>4. Trained(c, d) \in Counter
        BY <2>1, TrainedType
    <2> HIDE DEF c
    <2>5. Distance(Trained(c, d), d) <= 0
        BY <2>1, <2>2, RightCounter, TrainedDistance
    <2>6. (Trained(c, d) >= Half) = d
        BY <2>4, <2>5, RightCounter
    <2>7. PredictionOf(a, h)' = (base'[BaseIndex(a)].counter >= Half)
        BY <2>3 DEF PredictionOf, BasePrediction
    <2> QED
        BY <2>3, <2>6, <2>7
<1>4. CASE Provider(a, h) # 0
    <2>1. PICK t \in TableIds : t = Provider(a, h)
        BY <1>2, <1>4, SizesAssumption DEF TableIds
    <2> DEFINE c == At(t, a, h).counter
    <2>2. c \in Counter
        BY <2>1, CounterType DEF IInv
    <2>3. (c >= Half) = d
        BY <1>4, <2>1 DEF PredictionOf
    <2>4. Provider(a, h)' = t /\ At(t, a, h)'.counter = Trained(c, d)
        BY <1>1, <1>4, <2>1, ProviderKept
    <2>5. Trained(c, d) \in Counter
        BY <2>2, TrainedType
    <2>6. PredictionOf(a, h)' = (At(t, a, h)'.counter >= Half)
        BY <1>4, <2>1, <2>4 DEF PredictionOf
    <2> HIDE DEF c
    <2>7. Distance(Trained(c, d), d) <= 0
        BY <2>2, <2>3, RightCounter, TrainedDistance
    <2>8. (Trained(c, d) >= Half) = d
        BY <2>5, <2>7, RightCounter
    <2> QED
        BY <2>4, <2>6, <2>8
<1> QED
    BY <1>3, <1>4

\* A wrong lookup below the longest table moves up; if it moves to the longest,
\* the entry is new.
LEMMA WrongMovesUp ==
    ASSUME IInv, Update, NEW a \in Addresses, NEW h \in Histories, h = history,
           Resolved = LookupOf(a), NEW d \in BOOLEAN, d = Head(unresolved).taken,
           PredictionOf(a, h) # d, NEW p, p = Provider(a, h), p < Tables
    PROVE  /\ Provider(a, h)' \in 0..Tables /\ Provider(a, h)' > p
           /\ Provider(a, h)' = Tables => Distance(At(Tables, a, h)'.counter, d) <= 1
<1>1. /\ Resolved.address = a /\ Resolved.history = h /\ Resolved.provider = p
      /\ Resolved.prediction = PredictionOf(a, h)
    BY DEF LookupOf
<1>2. Provider(a, h)' > p
    BY <1>1, MovesUp DEF Wrong, Correct
<1>3. Matches(a, h)' \in SUBSET TableIds
    BY DEF Matches
<1>4. Provider(a, h)' \in Matches(a, h)' \cup {0} /\ Provider(a, h)' \in 0..Tables
    BY <1>3, ProviderIsLongest DEF Provider
<1>5. ASSUME Provider(a, h)' = Tables
      PROVE  Distance(At(Tables, a, h)'.counter, d) <= 1
    <2>1. Tables \in TableIds /\ Tables # 0 /\ Tables \in Nat
        BY SizesAssumption DEF TableIds
    <2>2. At(Tables, a, h)'.tag = Tag(Tables, a, h)
        BY <1>4, <1>5, <2>1 DEF Matches
    <2>3. p \in 0..Tables /\ ~(Tables <= p)
        BY <2>1, ProviderType
    <2>4. At(Tables, a, h).tag # Tag(Tables, a, h)
        BY <2>1, <2>3, ProviderType DEF Matches
    <2>5. Tables \in Allocated(Resolved, d)
        BY <1>1, <2>1, <2>2, <2>4, TableEffect DEF At
    <2>6. At(Tables, a, h)'.counter = Initial(Resolved, d)
        BY <1>1, <2>1, <2>5, TableEffect DEF At
    <2> QED
        BY <2>6, InitialDistance
<1> QED
    BY <1>2, <1>4, <1>5

\* Each update of a steady lookup brings the next stage.
LEMMA StageStep ==
    ASSUME IInv, Update, NEW a \in Addresses, NEW h \in Histories, h = history,
           Resolved = LookupOf(a), NEW d \in BOOLEAN, d = Head(unresolved).taken,
           NEW n \in Nat, Stage(a, h, d, n)
    PROVE  Stage(a, h, d, n + 1)'
<1>1. Tables \in TableIds /\ Tables \in Nat \ {0} /\ Half \in Nat
    BY SizesAssumption DEF TableIds
<1>2. PICK p : p = Provider(a, h)
    OBVIOUS
<1>3. p \in 0..Tables
    BY <1>2, ProviderType
<1>4. CASE PredictionOf(a, h) = d
    <2>1. PredictionOf(a, h)' = d
        BY <1>4, RightStays
    <2> QED
        BY <2>1 DEF Stage
<1>5. CASE PredictionOf(a, h) # d /\ p < Tables
    <2>1. n <= p
        BY <1>1, <1>2, <1>5 DEF Stage
    <2>2. PICK q : q = Provider(a, h)'
        OBVIOUS
    <2>3. /\ q \in 0..Tables /\ q > p
          /\ q = Tables => Distance(At(Tables, a, h)'.counter, d) <= 1
        BY <1>2, <1>5, <2>2, WrongMovesUp
    <2>4. \/ q < Tables /\ n + 1 <= q
          \/ q = Tables /\ n + 1 <= Tables
        BY <1>1, <1>3, <2>1, <2>3
    <2> QED
        BY <2>2, <2>3, <2>4 DEF Stage
<1>6. CASE PredictionOf(a, h) # d /\ p = Tables
    <2> DEFINE c == At(Tables, a, h).counter
               new == Trained(c, d)
    <2>1. Allocated(Resolved, d) = {}
        BY <1>2, <1>6 DEF Allocated, LookupOf
    <2>2. Provider(a, h)' = Tables /\ At(Tables, a, h)'.counter = new
        <3>1. p # 0
            BY <1>1, <1>6
        <3>2. Provider(a, h)' = p /\ At(p, a, h)'.counter = Trained(At(p, a, h).counter, d)
            BY <1>2, <2>1, <3>1, ProviderKept
        <3> QED
            BY <1>6, <3>2 DEF At
    <2>3. c \in Counter /\ new \in Counter
        BY <1>1, CounterType, TrainedType DEF IInv
    <2>4. Distance(c, d) \in Int /\ ~(Distance(c, d) <= 0)
        <3>1. PredictionOf(a, h) = (c >= Half)
            BY <1>1, <1>2, <1>6 DEF PredictionOf
        <3> HIDE DEF c
        <3> QED
            BY <1>6, <2>3, <3>1, RightCounter, TrainedDistance
    <2>5. Distance(new, d) = Distance(c, d) - 1
        <3> HIDE DEF c
        <3> QED
            BY <2>3, <2>4, TrainedDistance
    <2>6. Distance(c, d) <= Half - n \/ Distance(c, d) <= 1
        BY <1>1, <1>2, <1>6 DEF Stage
    <2>7. Distance(new, d) <= Half - (n + 1) \/ Distance(new, d) <= 0
        <3> DEFINE x == Distance(c, d)
                   y == Distance(new, d)
        <3>1. x \in Int /\ y = x - 1 /\ (x <= Half - n \/ x <= 1)
            BY <2>4, <2>5, <2>6
        <3> HIDE DEF x, y
        <3>2. y <= Half - (n + 1) \/ y <= 0
            BY <1>1, <3>1
        <3> QED
            BY <3>2 DEF x, y
    <2>8. CASE Distance(new, d) <= Half - (n + 1)
        BY <2>2, <2>8 DEF Stage
    <2>9. CASE Distance(new, d) <= 0
        <3>1. PredictionOf(a, h)' = (At(Tables, a, h)'.counter >= Half)
            BY <1>1, <2>2 DEF PredictionOf
        <3>2. (new >= Half) = d
            <4> HIDE DEF new
            <4> QED
                BY <2>3, <2>9, RightCounter
        <3>3. PredictionOf(a, h)' = d
            BY <2>2, <3>1, <3>2
        <3> QED
            BY <3>3 DEF Stage
    <2> QED
        BY <2>7, <2>8, <2>9
<1> QED
    BY <1>1, <1>3, <1>4, <1>5, <1>6

(***************************************************************************)
(* Without lag, all of this holds in every state.                          *)
(***************************************************************************)
LEMMA LearningInitHolds == LearningInit => LearningInv
<1> SUFFICES ASSUME LearningInit PROVE LearningInv
    OBVIOUS
<1>1. IInv
    BY InvInit DEF LearningInit
<1>2. PICK record \in Record : steady = [record |-> record, length |-> 0]
    BY DEF LearningInit
<1>3. steady.length = 0 /\ steady.record.taken \in BOOLEAN
    BY <1>2 DEF Record
<1>4. LookupsAreFresh
    BY DEF LearningInit, Init, LookupsAreFresh
<1>5. HistoryIsSteady
    <2>1. history \in Nat
        BY DEF LearningInit, Init
    <2>2. Smaller(0, HistoryBits) = 0
        BY HistoryAssumption DEF Smaller
    <2> QED
        BY <1>3, <2>1, <2>2, FollowsNone DEF HistoryIsSteady
<1>6. SteadyIsStaged
    BY <1>3, HistoryAssumption DEF SteadyIsStaged
<1> QED
    BY <1>1, <1>2, <1>4, <1>5, <1>6 DEF LearningInv

\* A lookup depends on the tables and the history alone.
LEMMA LookupReads ==
    ASSUME base' = base, tables' = tables, history' = history, NEW a
    PROVE  LookupOf(a)' = LookupOf(a)
<1>1. \A h : Matches(a, h)' = Matches(a, h)
    BY DEF Matches, At
<1>2. \A h : Provider(a, h)' = Provider(a, h)
    BY <1>1 DEF Provider
<1>3. BasePrediction(a)' = BasePrediction(a)
    BY DEF BasePrediction
<1>4. \A h : PredictionOf(a, h)' = PredictionOf(a, h)
    BY <1>2, <1>3 DEF PredictionOf, At
<1> QED
    BY <1>2, <1>3, <1>4 DEF LookupOf

LEMMA StageReads ==
    ASSUME base' = base, tables' = tables, NEW a, NEW h, NEW d, NEW n
    PROVE  Stage(a, h, d, n)' <=> Stage(a, h, d, n)
<1>1. Matches(a, h)' = Matches(a, h)
    BY DEF Matches, At
<1>2. Provider(a, h)' = Provider(a, h)
    BY <1>1 DEF Provider
<1>3. BasePrediction(a)' = BasePrediction(a)
    BY DEF BasePrediction
<1>4. PredictionOf(a, h)' = PredictionOf(a, h)
    BY <1>2, <1>3 DEF PredictionOf, At
<1>5. At(Tables, a, h)' = At(Tables, a, h)
    BY DEF At
<1> QED
    BY <1>2, <1>4, <1>5 DEF Stage

\* The steps that are not updates.
LEMMA LearningOthers ==
    ASSUME LearningInv, IInv', base' = base, tables' = tables, history' = history,
           steady' = steady, LookupsAreFresh'
    PROVE  LearningInv'
<1>1. HistoryIsSteady'
    BY DEF LearningInv, HistoryIsSteady
<1>2. SteadyIsStaged'
    <2> DEFINE a == steady.record.address
               d == steady.record.taken
               n == steady.length - HistoryBits
    <2>1. PICK k, b, h, e : k = n /\ b = a /\ h = history /\ e = d
        OBVIOUS
    <2>2. Stage(b, h, e, k)' <=> Stage(b, h, e, k)
        BY StageReads
    <2>3. SteadyIsStaged <=> (steady.length >= HistoryBits => Stage(b, h, e, k))
        BY <2>1 DEF SteadyIsStaged
    <2>4. SteadyIsStaged' <=> (steady.length >= HistoryBits => Stage(b, h, e, k)')
        BY <2>1 DEF SteadyIsStaged
    <2> QED
        BY <2>2, <2>3, <2>4 DEF LearningInv
<1> QED
    BY <1>1, <1>2 DEF LearningInv

LEMMA LearningPredict ==
    ASSUME MaxLag = 0, LearningInv, NEW record \in Record, Predict(record), steady' = steady
    PROVE  LearningInv'
<1>1. IInv'
    BY PredictHolds DEF LearningInv
<1>2. base' = base /\ tables' = tables /\ history' = history
    BY DEF Predict
<1>3. pending = <<>> /\ unresolved = <<>>
    <2>1. Len(unresolved) <= 0 /\ unresolved \in Seq(Record) /\ pending \in Seq(Lookup)
          /\ Len(pending) = Len(unresolved)
        BY DEF Predict, LearningInv, IInv, TypeOK, LookupsMatchQueue
    <2> QED
        BY <2>1
<1>4. pending' = <<LookupOf(record.address)>> /\ unresolved' = <<record>>
    BY <1>3 DEF Predict
<1>5. LookupOf(record.address)' = LookupOf(record.address)
    BY <1>2, LookupReads
<1>6. LookupsAreFresh'
    <2>1. Len(pending') = 1 /\ Head(pending') = LookupOf(record.address)
          /\ Head(unresolved') = record
        BY <1>4
    <2> QED
        BY <1>5, <2>1 DEF LookupsAreFresh
<1> QED
    BY <1>1, <1>2, <1>6, LearningOthers

\* What holds of the stages in any state also holds in the next.
StagesOrdered ==
    TypeOK =>
      \A a \in Addresses, h \in Histories, d \in BOOLEAN :
        /\ Stage(a, h, d, 0)
        /\ \A n \in Nat : Stage(a, h, d, n + 1) => Stage(a, h, d, n)

LEMMA StagesAreOrdered == StagesOrdered /\ StagesOrdered'
<1>1. StagesOrdered
    BY StageFirst, StageEarlier DEF StagesOrdered
<1> QED
    BY <1>1, PTL

\* An update with a direction that the history has followed so long.
LEMMA LearningUpdate ==
    ASSUME LearningInv, Update, steady' = Steadier(Head(unresolved))
    PROVE  LearningInv'
<1>1. PICK rec : rec = Head(unresolved)
    OBVIOUS
<1>2. PICK a, d, h : a = rec.address /\ d = rec.taken /\ h = history
    OBVIOUS
<1>3. IInv /\ TypeOK /\ IInv' /\ TypeOK'
    BY UpdateHolds DEF LearningInv, IInv
<1>4. /\ pending \in Seq(Lookup) /\ unresolved \in Seq(Record)
      /\ unresolved # <<>> /\ pending # <<>> /\ pending' = Tail(pending)
    BY DEF LearningInv, IInv, TypeOK, LookupsMatchQueue, Update
<1>5. rec \in Record /\ a \in Addresses /\ d \in BOOLEAN /\ h \in Histories
    <2>1. rec \in Record
        BY <1>1, <1>4
    <2> QED
        BY <1>2, <1>3, <2>1 DEF Record, TypeOK
<1>6. Resolved = LookupOf(a) /\ d = Head(unresolved).taken
    BY <1>1, <1>2, <1>4 DEF LearningInv, LookupsAreFresh, Resolved
<1>7. LookupsAreFresh'
    <2>1. Len(pending) = 1
        <3>1. PICK n \in Nat : n = Len(pending)
            BY <1>4
        <3>2. n # 0
            BY <1>4, <3>1
        <3>3. n <= 1
            BY <3>1 DEF LearningInv, LookupsAreFresh
        <3>4. n = 1
            BY <3>2, <3>3
        <3> QED
            BY <3>1, <3>4
    <2>2. pending' = <<>>
        BY <1>4, <2>1
    <2> QED
        BY <2>2 DEF LookupsAreFresh
<1>8. PICK g : g = history'
    OBVIOUS
<1>9. g = Shifted(h, d) /\ g \in Histories
    BY <1>2, <1>3, <1>6, <1>8 DEF Update, Shifted, TypeOK
<1>10. /\ Stage(a, g, d, 0)'
       /\ \A n \in Nat : Stage(a, g, d, n + 1)' => Stage(a, g, d, n)'
    BY <1>3, <1>5, <1>9, StagesAreOrdered DEF StagesOrdered
<1>11. HistoryBits \in Nat \ {0}
    BY HistoryAssumption
<1>12. CASE rec = steady.record /\ steady.length > 0
    <2>1. PICK n \in Nat : n = steady.length
        BY DEF LearningInv
    <2>2. PICK m \in {n, n + 1} : steady' = [record |-> rec, length |-> m]
        BY <1>1, <1>12, <2>1 DEF LearningInv, Steadier
    <2>3. steady' \in [record : Record, length : Nat]
        BY <1>5, <2>1, <2>2
    <2>4. Follows(h, d, Smaller(n, HistoryBits))
        BY <1>2, <1>12, <2>1 DEF LearningInv, HistoryIsSteady
    <2>5. /\ Follows(g, d, Smaller(m, HistoryBits))
          /\ n >= HistoryBits => g = h
        BY <1>5, <1>9, <2>1, <2>2, <2>4, HistoryStep
    <2>6. HistoryIsSteady'
        BY <1>2, <1>8, <2>2, <2>5 DEF HistoryIsSteady
    <2>7. ASSUME m >= HistoryBits PROVE Stage(a, g, d, m - HistoryBits)'
        <3>1. CASE n >= HistoryBits
            <4>1. PICK k \in Nat : k = n - HistoryBits
                BY <1>11, <2>1, <3>1
            <4>2. Stage(a, h, d, k)
                BY <1>2, <1>12, <2>1, <3>1, <4>1 DEF LearningInv, SteadyIsStaged
            <4>3. Stage(a, h, d, k + 1)'
                BY <1>2, <1>3, <1>5, <1>6, <4>2, StageStep
            <4>4. Stage(a, g, d, k + 1)' /\ Stage(a, g, d, k)'
                BY <1>10, <2>5, <3>1, <4>3
            <4>5. m - HistoryBits = k \/ m - HistoryBits = k + 1
                BY <1>11, <2>1, <2>2, <4>1
            <4> QED
                BY <4>4, <4>5
        <3>2. CASE ~(n >= HistoryBits)
            <4>1. m - HistoryBits = 0
                BY <1>11, <2>1, <2>2, <2>7, <3>2
            <4> QED
                BY <1>10, <4>1
        <3> QED
            BY <3>1, <3>2
    <2>8. SteadyIsStaged'
        BY <1>2, <1>8, <2>2, <2>7 DEF SteadyIsStaged
    <2> QED
        BY <1>3, <1>7, <2>3, <2>6, <2>8 DEF LearningInv
<1>13. CASE ~(rec = steady.record /\ steady.length > 0)
    <2>1. steady' = [record |-> rec, length |-> 1]
        BY <1>1, <1>13 DEF Steadier
    <2>2. steady' \in [record : Record, length : Nat]
        BY <1>5, <2>1
    <2>3. HistoryIsSteady'
        <3>1. Follows(h, d, 0) /\ Smaller(0, HistoryBits) = 0
            BY <1>5, <1>11, SizesAssumption, FollowsNone DEF Histories, Smaller
        <3>2. Follows(Shifted(h, d), d, Smaller(0 + 1, HistoryBits))
            BY <1>5, <3>1, HistoryStep
        <3>3. steady'.length = 1 /\ steady'.record.taken = d /\ 0 + 1 = 1
            BY <1>2, <2>1
        <3> QED
            BY <1>8, <1>9, <3>2, <3>3 DEF HistoryIsSteady
    <2>4. ASSUME 1 >= HistoryBits PROVE Stage(a, g, d, 1 - HistoryBits)'
        <3>1. 1 - HistoryBits = 0
            BY <1>11, <2>4
        <3> QED
            BY <1>10, <3>1
    <2>5. SteadyIsStaged'
        BY <1>2, <1>8, <2>1, <2>4 DEF SteadyIsStaged
    <2> QED
        BY <1>3, <1>7, <2>2, <2>3, <2>5 DEF LearningInv
<1> QED
    BY <1>12, <1>13

LEMMA LearningNextHolds ==
    ASSUME MaxLag = 0, LearningInv, [LearningNext]_LearningVars
    PROVE  LearningInv'
<1>1. IInv /\ unresolved \in Seq(Record)
    BY DEF LearningInv, IInv, TypeOK
<1>2. CASE Update /\ LearningNext
    <2>1. Updating
        BY <1>1, <1>2, ResolvedType DEF Updating
    <2> QED
        BY <1>2, <2>1, LearningUpdate DEF LearningNext
<1>3. ASSUME NEW record \in Record, Predict(record), LearningNext PROVE LearningInv'
    <2>1. ~Updating
        BY <1>1, <1>3 DEF Predict, Updating
    <2> QED
        BY <1>3, <2>1, LearningPredict DEF LearningNext
<1>4. ASSUME UNCHANGED <<base, tables, history, pending, unresolved, steady>>, [Next]_vars
      PROVE  LearningInv'
    <2>1. IInv'
        BY <1>1, <1>4, InvNext
    <2>2. LookupsAreFresh'
        <3>1. LookupOf(Head(unresolved).address)' = LookupOf(Head(unresolved).address)
            <4>1. PICK a : a = Head(unresolved).address
                OBVIOUS
            <4>2. LookupOf(a)' = LookupOf(a)
                BY <1>4, LookupReads
            <4>3. a = Head(unresolved').address
                BY <1>4, <4>1
            <4> QED
                BY <4>1, <4>2, <4>3
        <3> QED
            BY <1>4, <3>1 DEF LearningInv, LookupsAreFresh
    <2> QED
        BY <1>4, <2>1, <2>2, LearningOthers
<1>5. CASE Drain /\ LearningNext
    <2>1. ~Updating
        BY <1>1, <1>5 DEF Drain, Updating
    <2> QED
        BY <1>4, <1>5, <2>1 DEF Drain, LearningNext
<1>6. CASE UNCHANGED LearningVars
    BY <1>4, <1>6 DEF LearningVars, vars
<1> QED
    BY <1>2, <1>3, <1>5, <1>6 DEF LearningNext, Next

\* A branch that keeps its direction long enough to fill the history and to
\* climb the tables, or to move a counter of the longest, is predicted right,
\* whatever the tables hold, however its entries are shared and hashed, as long
\* as each update precedes the next prediction.
THEOREM SteadyBranchesAreLearnt ==
    ASSUME MaxLag = 0
    PROVE  LearningSpec => []SteadyBranchIsLearnt
<1>1. LearningInv => SteadyBranchIsLearnt
    <2> SUFFICES ASSUME LearningInv, steady.length >= LearningTime
                 PROVE  PredictionOf(steady.record.address, history) = steady.record.taken
        BY DEF SteadyBranchIsLearnt
    <2>1. HistoryBits \in Nat /\ Half \in Nat /\ Tables \in Nat
        BY HistoryAssumption, SizesAssumption
    <2>2. steady.record \in Record /\ steady.length \in Nat
        BY DEF LearningInv
    <2>3. PICK n \in Nat : /\ n = steady.length - HistoryBits
                           /\ n >= Half /\ n >= Tables + 1
        BY <2>1, <2>2 DEF LearningTime
    <2>4. steady.length >= HistoryBits
        BY <2>1, <2>2, <2>3
    <2>5. Stage(steady.record.address, history, steady.record.taken, n)
        BY <2>3, <2>4 DEF LearningInv, SteadyIsStaged
    <2>6. /\ steady.record.address \in Addresses /\ steady.record.taken \in BOOLEAN
          /\ history \in Histories /\ TypeOK
        BY <2>2 DEF LearningInv, IInv, TypeOK, Record
    <2> QED
        BY <2>3, <2>5, <2>6, StageLast
<1> QED
    BY <1>1, LearningInitHolds, LearningNextHolds, PTL DEF LearningSpec
=============================================================================
