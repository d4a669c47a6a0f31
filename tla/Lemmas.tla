------------------------------- MODULE Lemmas -------------------------------
(***************************************************************************)
(* What the proofs of several components need: facts about numbers,        *)
(* sequences and sets that rest on induction, and, at the end, what the    *)
(* ledger's operators preserve.                                            *)
(*                                                                         *)
(* The library's induction theorems have an operator as parameter, which   *)
(* the provers cannot instantiate; here the numbers for which something    *)
(* holds are a set.                                                        *)
(***************************************************************************)
EXTENDS Ledger, Powers, SequencesExt, SequenceTheorems, FunctionTheorems,
        FiniteSetTheorems, WellFoundedInduction, TLAPS

\* A set of numbers has a least one.
LEMMA LeastNumber ==
    ASSUME NEW S, S \subseteq Nat, S # {}
    PROVE  \E n \in S : \A m \in S : n <= m
<1> DEFINE Less == OpToRel(<, Nat)
<1>1. IsWellFoundedOn(Less, Nat)
    BY NatLessThanWellFounded
<1> HIDE DEF Less
<1>2. PICK n \in S : \A m \in S : <<m, n>> \notin Less
    BY <1>1, WFMin
<1>3. \A m \in S : ~(m < n)
    BY <1>2 DEF Less, OpToRel
<1> QED
    BY <1>2, <1>3

\* Induction: a set that has 0, and n + 1 with each n, has all of Nat.
LEMMA NatSetInduction ==
    ASSUME NEW S, 0 \in S, \A n \in Nat : n \in S => n + 1 \in S
    PROVE  \A n \in Nat : n \in S
<1> DEFINE Missing == {n \in Nat : n \notin S}
<1> SUFFICES ASSUME Missing # {} PROVE FALSE
    OBVIOUS
<1>1. PICK n \in Missing : \A m \in Missing : n <= m
    BY LeastNumber
<1>2. n # 0 /\ n - 1 \in Nat /\ ~(n <= n - 1)
    BY <1>1
<1>3. n - 1 \in S
    BY <1>1, <1>2
<1> QED
    BY <1>1, <1>2, <1>3

-----------------------------------------------------------------------------
\* What Append adds to a sequence of whatever elements.
LEMMA AppendedSequence ==
    ASSUME NEW seq, NEW x, Len(seq) \in Nat, DOMAIN seq = 1..Len(seq)
    PROVE  /\ Len(Append(seq, x)) = Len(seq) + 1
           /\ DOMAIN Append(seq, x) = 1..Len(seq) + 1
           /\ Append(seq, x)[Len(seq) + 1] = x
           /\ \A i \in 1..Len(seq) : Append(seq, x)[i] = seq[i]
OBVIOUS

-----------------------------------------------------------------------------
(***************************************************************************)
(* FlattenSeq.                                                             *)
(***************************************************************************)
\* It concatenates one sequence after the other.
LEMMA FlattenPrefixes ==
    ASSUME NEW S, NEW seqs \in Seq(Seq(S))
    PROVE  \E flat \in [0..Len(seqs) -> Seq(S)] :
             /\ flat[0] = <<>>
             /\ \A i \in 1..Len(seqs) : flat[i] = flat[i - 1] \o seqs[i]
             /\ flat[Len(seqs)] = FlattenSeq(seqs)
<1> DEFINE L == Len(seqs)
           Flat(f, n) == /\ f \in [0..n -> Seq(S)] /\ f[0] = <<>>
                         /\ \A i \in 1..n : f[i] = f[i - 1] \o seqs[i]
           Reached == {n \in Nat : n <= L => \E f : Flat(f, n)}
<1>1. L \in Nat /\ \A i \in 1..L : seqs[i] \in Seq(S)
    OBVIOUS
<1> HIDE DEF L
<1>2. 0 \in Reached
    <2>1. Flat([i \in 0..0 |-> <<>>], 0)
        OBVIOUS
    <2> QED
        BY <2>1
<1>3. ASSUME NEW n \in Nat, n \in Reached PROVE n + 1 \in Reached
    <2>1. ASSUME n + 1 <= L PROVE \E f : Flat(f, n + 1)
        <3>1. n <= L
            BY <1>1, <2>1
        <3>2. PICK f : Flat(f, n)
            BY <1>3, <3>1
        <3> DEFINE g == [i \in 0..n + 1 |-> IF i = n + 1 THEN f[n] \o seqs[n + 1] ELSE f[i]]
        <3>3. f[n] \in Seq(S) /\ seqs[n + 1] \in Seq(S)
            BY <1>1, <2>1, <3>2
        <3>4. f[n] \o seqs[n + 1] \in Seq(S)
            BY <3>3
        <3>5. g \in [0..n + 1 -> Seq(S)]
            BY <3>2, <3>4
        <3>6. g[0] = <<>>
            BY <3>2
        <3>7. ASSUME NEW i \in 1..n + 1 PROVE g[i] = g[i - 1] \o seqs[i]
            <4>1. CASE i = n + 1
                <5>1. i - 1 = n /\ i \in 0..n + 1 /\ n \in 0..n + 1 /\ n # n + 1
                    BY <4>1
                <5>2. g[i] = f[n] \o seqs[n + 1] /\ g[n] = f[n]
                    BY <4>1, <5>1
                <5> QED
                    BY <4>1, <5>1, <5>2
            <4>2. CASE i # n + 1
                <5>1. i \in 1..n /\ g[i] = f[i] /\ g[i - 1] = f[i - 1]
                    BY <4>2
                <5> QED
                    BY <3>2, <5>1
            <4> QED
                BY <4>1, <4>2
        <3> HIDE DEF g
        <3>8. Flat(g, n + 1)
            BY <3>5, <3>6, <3>7
        <3> QED
            BY <3>8
    <2> HIDE DEF Flat
    <2> QED
        BY <2>1
<1>4. \A n \in Nat : n \in Reached
    <2> HIDE DEF Reached
    <2> QED
        BY <1>2, <1>3, NatSetInduction
<1>5. PICK f : Flat(f, L)
    <2> HIDE DEF Flat
    <2>1. L \in Reached /\ L <= L
        <3> HIDE DEF Reached
        <3> QED
            BY <1>1, <1>4
    <2> QED
        BY <2>1
<1> USE DEF L
<1>6. CASE L = 0
    <2>1. FlattenSeq(seqs) = seqs /\ seqs = <<>>
        BY <1>6 DEF FlattenSeq
    <2> QED
        BY <1>5, <1>6, <2>1
<1>7. CASE L # 0
    <2> DEFINE Rec(h) == h = [i \in 1..L |-> IF i = 1 THEN seqs[i] ELSE h[i - 1] \o seqs[i]]
               g == [i \in 1..L |-> f[i]]
               chosen == CHOOSE h : Rec(h)
               Agreed == {n \in Nat : n \in 1..L => chosen[n] = g[n]}
    <2>1. Rec(g)
        <3>1. \A i \in 1..L : g[i] = IF i = 1 THEN seqs[i] ELSE g[i - 1] \o seqs[i]
            <4> SUFFICES ASSUME NEW i \in 1..L
                         PROVE  f[i] = IF i = 1 THEN seqs[i] ELSE g[i - 1] \o seqs[i]
                OBVIOUS
            <4>1. f[i] = f[i - 1] \o seqs[i] /\ seqs[i] \in Seq(S)
                BY <1>1, <1>5
            <4>2. CASE i = 1
                <5>1. f[i - 1] = <<>>
                    BY <1>5, <4>2
                <5> QED
                    BY <4>1, <4>2, <5>1
            <4>3. CASE i # 1
                <5>1. i - 1 \in 1..L
                    BY <1>1, <4>3
                <5> QED
                    BY <4>1, <4>3, <5>1
            <4> QED
                BY <4>2, <4>3
        <3> QED
            BY <3>1
    <2> HIDE DEF g
    <2>2. Rec(chosen)
        BY <2>1
    <2>3. FlattenSeq(seqs) = chosen[L]
        BY <1>7 DEF FlattenSeq
    <2> HIDE DEF chosen
    <2>4. 0 \in Agreed
        OBVIOUS
    <2>5. ASSUME NEW n \in Nat, n \in Agreed PROVE n + 1 \in Agreed
        <3> SUFFICES ASSUME n + 1 \in 1..L PROVE chosen[n + 1] = g[n + 1]
            OBVIOUS
        <3>1. chosen[n + 1] = IF n + 1 = 1 THEN seqs[n + 1] ELSE chosen[(n + 1) - 1] \o seqs[n + 1]
            BY <2>2
        <3>2. g[n + 1] = IF n + 1 = 1 THEN seqs[n + 1] ELSE g[(n + 1) - 1] \o seqs[n + 1]
            BY <2>1
        <3>3. CASE n = 0
            BY <3>1, <3>2, <3>3
        <3>4. CASE n # 0
            <4>1. chosen[n] = g[n]
                BY <1>1, <2>5, <3>4
            <4> QED
                BY <3>1, <3>2, <3>4, <4>1
        <3> QED
            BY <3>3, <3>4
    <2>6. \A n \in Nat : n \in Agreed
        <3> HIDE DEF Agreed
        <3> QED
            BY <2>4, <2>5, NatSetInduction
    <2>7. chosen[L] = g[L]
        BY <1>1, <1>7, <2>6
    <2>8. g[L] = f[L]
        BY <1>1, <1>7 DEF g
    <2> QED
        BY <1>5, <2>3, <2>7, <2>8
<1> QED
    BY <1>6, <1>7

\* FlattenSeq one sequence at a time.
LEMMA FlattenOneMore ==
    ASSUME NEW S, NEW seqs \in Seq(Seq(S)), NEW n \in 1..Len(seqs)
    PROVE  /\ FlattenSeq(SubSeq(seqs, 1, n)) = FlattenSeq(SubSeq(seqs, 1, n - 1)) \o seqs[n]
           /\ FlattenSeq(SubSeq(seqs, 1, n)) \in Seq(S)
           /\ FlattenSeq(SubSeq(seqs, 1, n - 1)) \in Seq(S)
<1> DEFINE first == SubSeq(seqs, 1, n)
           before == SubSeq(seqs, 1, n - 1)
<1>1. /\ first \in Seq(Seq(S)) /\ Len(first) = n /\ before \in Seq(Seq(S)) /\ Len(before) = n - 1
      /\ \A i \in 1..n : first[i] = seqs[i]
      /\ \A i \in 1..n - 1 : before[i] = seqs[i]
    OBVIOUS
<1> HIDE DEF first, before
<1>2. PICK f \in [0..n -> Seq(S)] :
        /\ f[0] = <<>>
        /\ \A i \in 1..n : f[i] = f[i - 1] \o first[i]
        /\ f[n] = FlattenSeq(first)
    BY <1>1, FlattenPrefixes
<1>3. PICK g \in [0..n - 1 -> Seq(S)] :
        /\ g[0] = <<>>
        /\ \A i \in 1..n - 1 : g[i] = g[i - 1] \o before[i]
        /\ g[n - 1] = FlattenSeq(before)
    <2> DEFINE k == n - 1
    <2>1. before \in Seq(Seq(S)) /\ Len(before) = k
        BY <1>1
    <2> HIDE DEF k
    <2>2. \E g \in [0..k -> Seq(S)] :
            /\ g[0] = <<>>
            /\ \A i \in 1..k : g[i] = g[i - 1] \o before[i]
            /\ g[k] = FlattenSeq(before)
        BY <2>1, FlattenPrefixes
    <2> QED
        BY <2>2 DEF k
<1> DEFINE Agree == {i \in Nat : i <= n - 1 => f[i] = g[i]}
<1>4. 0 \in Agree
    <2>1. f[0] = <<>>
        BY <1>2
    <2>2. g[0] = <<>>
        BY <1>3
    <2>3. f[0] = g[0]
        BY <2>1, <2>2
    <2> QED
        BY <2>3
<1>5. ASSUME NEW i \in Nat, i \in Agree PROVE i + 1 \in Agree
    <2>1. ASSUME i + 1 <= n - 1 PROVE f[i + 1] = g[i + 1]
        <3>1. f[i] = g[i] /\ i + 1 \in 1..n - 1 /\ i + 1 \in 1..n /\ (i + 1) - 1 = i
            BY <1>5, <2>1
        <3>2. f[i + 1] = f[i] \o first[i + 1]
            BY <1>2, <3>1
        <3>3. g[i + 1] = g[i] \o before[i + 1]
            BY <1>3, <3>1
        <3>4. first[i + 1] = before[i + 1]
            BY <1>1, <3>1
        <3> QED
            BY <3>1, <3>2, <3>3, <3>4
    <2> QED
        BY <2>1
<1>6. \A i \in Nat : i \in Agree
    <2> HIDE DEF Agree
    <2> QED
        BY <1>4, <1>5, NatSetInduction
<1>7. n - 1 \in Nat /\ n \in 1..n /\ n \in 0..n /\ n - 1 \in 0..n - 1
    OBVIOUS
<1>8. f[n - 1] = g[n - 1]
    BY <1>6, <1>7
<1>9. f[n] = f[n - 1] \o first[n] /\ first[n] = seqs[n]
    BY <1>1, <1>2, <1>7
<1>10. f[n] \in Seq(S) /\ g[n - 1] \in Seq(S)
    BY <1>2, <1>3, <1>7
<1> QED
    BY <1>2, <1>3, <1>8, <1>9, <1>10 DEF first, before

\* It has each sequence where those before it end.
LEMMA FlattenPlaces ==
    ASSUME NEW S, NEW seqs \in Seq(Seq(S)), NEW n \in 1..Len(seqs), NEW j \in 1..Len(seqs[n])
    PROVE  /\ Len(FlattenSeq(SubSeq(seqs, 1, n - 1))) + j \in 1..Len(FlattenSeq(seqs))
           /\ FlattenSeq(seqs)[Len(FlattenSeq(SubSeq(seqs, 1, n - 1))) + j] = seqs[n][j]
<1> DEFINE L == Len(seqs)
           Flat(m) == FlattenSeq(SubSeq(seqs, 1, m))
           k == Len(Flat(n - 1)) + j
           Has(m) == k \in 1..Len(Flat(m)) /\ Flat(m)[k] = seqs[n][j]
           Good == {m \in Nat : n <= m /\ m <= L => Has(m)}
<1>1. /\ L \in Nat /\ n \in 1..L /\ seqs[n] \in Seq(S)
      /\ \A m \in 1..L : seqs[m] \in Seq(S)
    OBVIOUS
<1>2. ASSUME NEW m \in 1..L
      PROVE  /\ Flat(m) = Flat(m - 1) \o seqs[m] /\ Flat(m) \in Seq(S) /\ Flat(m - 1) \in Seq(S)
    BY FlattenOneMore
<1> HIDE DEF L, Flat
<1>3. Has(n)
    <2>1. Flat(n) = Flat(n - 1) \o seqs[n] /\ Flat(n - 1) \in Seq(S)
        BY <1>1, <1>2
    <2>2. k \in 1..Len(Flat(n - 1)) + Len(seqs[n]) /\ ~(k <= Len(Flat(n - 1)))
          /\ k - Len(Flat(n - 1)) = j
        BY <1>1, <2>1
    <2> HIDE DEF k
    <2>3. Len(Flat(n)) = Len(Flat(n - 1)) + Len(seqs[n])
        BY <1>1, <2>1
    <2>4. Flat(n)[k] = seqs[n][j]
        BY <1>1, <2>1, <2>2, ConcatProperties
    <2> QED
        BY <2>2, <2>3, <2>4
<1>4. k \in Nat
    <2>1. Flat(n - 1) \in Seq(S)
        BY <1>1, <1>2
    <2> QED
        BY <2>1
<1>5. 0 \in Good
    BY <1>1
<1>6. ASSUME NEW m \in Nat, m \in Good PROVE m + 1 \in Good
    <2>1. ASSUME n <= m + 1, m + 1 <= L PROVE Has(m + 1)
        <3>1. CASE m + 1 = n
            BY <1>3, <3>1
        <3>2. CASE m + 1 # n
            <4>1. Has(m) /\ m + 1 \in 1..L /\ (m + 1) - 1 = m
                BY <1>1, <1>6, <2>1, <3>2
            <4>2. /\ Flat(m + 1) = Flat(m) \o seqs[m + 1] /\ Flat(m) \in Seq(S)
                  /\ seqs[m + 1] \in Seq(S)
                BY <1>1, <1>2, <4>1
            <4> HIDE DEF k
            <4>3. k \in 1..Len(Flat(m)) + Len(seqs[m + 1]) /\ k <= Len(Flat(m))
                BY <1>4, <4>1, <4>2
            <4>4. Flat(m + 1)[k] = Flat(m)[k]
                BY <4>2, <4>3, ConcatProperties
            <4>5. Len(Flat(m + 1)) = Len(Flat(m)) + Len(seqs[m + 1])
                BY <4>2
            <4> QED
                BY <4>1, <4>3, <4>4, <4>5
        <3> QED
            BY <3>1, <3>2
    <2> HIDE DEF Has
    <2> QED
        BY <2>1
<1>7. Has(L)
    <2>1. \A m \in Nat : m \in Good
        <3> HIDE DEF Good
        <3> QED
            BY <1>5, <1>6, NatSetInduction
    <2> HIDE DEF Has
    <2> QED
        BY <1>1, <2>1
<1>8. Flat(L) = FlattenSeq(seqs)
    BY SubSeqFull DEF Flat, L
<1> QED
    BY <1>7, <1>8 DEF Flat

\* Its places are those in the sequences, each of them once: place i is where
\* place origin[i][2] of sequence origin[i][1] has come to.
FlatOf(flat, seqs, origin) ==
    /\ origin \in [1..Len(flat) -> (1..Len(seqs)) \X (Nat \ {0})]
    /\ \A i \in 1..Len(flat) : /\ origin[i][2] \in 1..Len(seqs[origin[i][1]])
                               /\ flat[i] = seqs[origin[i][1]][origin[i][2]]
    /\ \A i, j \in 1..Len(flat) : origin[i] = origin[j] => i = j
    /\ \A n \in 1..Len(seqs) : \A k \in 1..Len(seqs[n]) :
         \E i \in 1..Len(flat) : origin[i] = <<n, k>>

LEMMA FlattenIndices ==
    ASSUME NEW S, NEW seqs \in Seq(Seq(S))
    PROVE  \E origin : FlatOf(FlattenSeq(seqs), seqs, origin)
<1> DEFINE L == Len(seqs)
           Flat(m) == FlattenSeq(SubSeq(seqs, 1, m))
           Origins(f, m) ==
             /\ f \in [1..Len(Flat(m)) -> (1..m) \X (Nat \ {0})]
             /\ \A i \in 1..Len(Flat(m)) :
                  f[i][2] \in 1..Len(seqs[f[i][1]]) /\ Flat(m)[i] = seqs[f[i][1]][f[i][2]]
             /\ \A i, j \in 1..Len(Flat(m)) : f[i] = f[j] => i = j
             /\ \A n \in 1..m : \A k \in 1..Len(seqs[n]) :
                  \E i \in 1..Len(Flat(m)) : f[i] = <<n, k>>
           Good == {m \in Nat : m <= L => \E f : Origins(f, m)}
<1>1. L \in Nat /\ \A m \in 1..L : seqs[m] \in Seq(S)
    OBVIOUS
<1>2. ASSUME NEW m \in 1..L
      PROVE  /\ Flat(m) = Flat(m - 1) \o seqs[m] /\ Flat(m) \in Seq(S) /\ Flat(m - 1) \in Seq(S)
    BY FlattenOneMore
<1>3. Flat(0) = <<>>
    <2>1. SubSeq(seqs, 1, 0) = <<>>
        BY SubSeqEmpty
    <2> QED
        BY <2>1 DEF FlattenSeq
<1>4. Flat(L) = FlattenSeq(seqs)
    BY SubSeqFull
<1> HIDE DEF L, Flat
<1>5. 0 \in Good
    <2>1. Len(Flat(0)) = 0
        BY <1>3
    <2>2. Origins([i \in 1..Len(Flat(0)) |-> <<1, 1>>], 0)
        BY <2>1
    <2> QED
        BY <2>2
<1>6. ASSUME NEW m \in Nat, m \in Good, m + 1 <= L PROVE \E f : Origins(f, m + 1)
    <2>1. PICK n : n = m + 1
        OBVIOUS
    <2>2. n \in 1..L /\ n \in Nat /\ n - 1 = m /\ m <= L
        BY <1>1, <1>6, <2>1
    <2>3. PICK f : Origins(f, m)
        BY <1>6, <2>2
    <2>4. /\ Flat(n) = Flat(m) \o seqs[n] /\ Flat(m) \in Seq(S) /\ seqs[n] \in Seq(S)
        BY <1>1, <1>2, <2>2
    <2>5. PICK e \in Nat, t \in Nat : e = Len(Flat(m)) /\ t = Len(seqs[n])
        BY <2>4
    <2>6. /\ Len(Flat(n)) = e + t
          /\ \A i \in 1..e : Flat(n)[i] = Flat(m)[i]
          /\ \A k \in 1..t : Flat(n)[e + k] = seqs[n][k]
        <3>1. /\ Len(Flat(n)) = e + t
              /\ \A i \in 1..e + t : Flat(n)[i] = IF i <= e THEN Flat(m)[i] ELSE seqs[n][i - e]
            BY <2>4, <2>5, ConcatProperties
        <3>2. \A k \in 1..t : e + k \in 1..e + t /\ ~(e + k <= e) /\ (e + k) - e = k
            BY <2>5
        <3>3. \A i \in 1..e : i \in 1..e + t /\ i <= e
            BY <2>5
        <3> QED
            BY <3>1, <3>2, <3>3
    <2>7. /\ f \in [1..e -> (1..m) \X (Nat \ {0})]
          /\ \A i \in 1..e : f[i][2] \in 1..Len(seqs[f[i][1]]) /\ Flat(m)[i] = seqs[f[i][1]][f[i][2]]
          /\ \A i, j \in 1..e : f[i] = f[j] => i = j
          /\ \A q \in 1..m : \A k \in 1..Len(seqs[q]) : \E i \in 1..e : f[i] = <<q, k>>
        BY <2>3, <2>5
    <2>8. PICK g : /\ g = [i \in 1..e + t |-> g[i]]
                   /\ \A i \in 1..e : g[i] = f[i]
                   /\ \A k \in 1..t : g[e + k] = <<n, k>>
        <3> DEFINE h == [i \in 1..e + t |-> IF i <= e THEN f[i] ELSE <<n, i - e>>]
        <3>1. h = [i \in 1..e + t |-> h[i]]
            OBVIOUS
        <3>3. ASSUME NEW i \in 1..e PROVE h[i] = f[i]
            <4>1. i \in 1..e + t /\ i <= e
                BY <2>5
            <4> QED
                BY <4>1
        <3>2. ASSUME NEW k \in 1..t PROVE h[e + k] = <<n, k>>
            <4>1. e + k \in 1..e + t /\ ~(e + k <= e) /\ (e + k) - e = k
                BY <2>5
            <4> QED
                BY <4>1
        <3> HIDE DEF h
        <3> QED
            BY <3>1, <3>2, <3>3
    <2> HIDE DEF Origins
    <2>9. \A i \in 1..e + t : i \in 1..e \/ \E k \in 1..t : i = e + k
        <3>1. ASSUME NEW i \in 1..e + t, i \notin 1..e PROVE i - e \in 1..t /\ i = e + (i - e)
            BY <2>5, <3>1
        <3> QED
            BY <3>1
    <2>10. ASSUME NEW i \in 1..e + t
           PROVE  /\ g[i] \in (1..n) \X (Nat \ {0})
                  /\ g[i][2] \in 1..Len(seqs[g[i][1]]) /\ Flat(n)[i] = seqs[g[i][1]][g[i][2]]
        <3>1. CASE i \in 1..e
            <4>1. g[i] = f[i] /\ f[i] \in (1..m) \X (Nat \ {0}) /\ Flat(n)[i] = Flat(m)[i]
                BY <2>6, <2>7, <2>8, <3>1
            <4>2. f[i] \in (1..n) \X (Nat \ {0})
                BY <2>1, <4>1
            <4> QED
                BY <2>7, <3>1, <4>1, <4>2
        <3>2. ASSUME NEW k \in 1..t, i = e + k
              PROVE  /\ g[i] \in (1..n) \X (Nat \ {0})
                     /\ g[i][2] \in 1..Len(seqs[g[i][1]]) /\ Flat(n)[i] = seqs[g[i][1]][g[i][2]]
            <4>1. g[i] = <<n, k>> /\ Flat(n)[i] = seqs[n][k]
                BY <2>6, <2>8, <3>2
            <4>2. n \in 1..n /\ k \in Nat \ {0} /\ k \in 1..Len(seqs[n])
                BY <2>2, <2>5
            <4> QED
                BY <4>1, <4>2
        <3> QED
            BY <2>9, <3>1, <3>2
    <2>11. ASSUME NEW i \in 1..e + t, NEW j \in 1..e + t, g[i] = g[j] PROVE i = j
        <3>1. ASSUME NEW x \in 1..e, NEW k \in 1..t PROVE g[x] # g[e + k]
            <4>1. g[x][1] \in 1..m /\ g[e + k] = <<n, k>>
                BY <2>7, <2>8
            <4> QED
                BY <2>1, <4>1
        <3>2. i \in 1..e /\ j \in 1..e => i = j
            BY <2>7, <2>8, <2>11
        <3>3. ASSUME NEW k \in 1..t, NEW l \in 1..t, i = e + k, j = e + l PROVE i = j
            <4>1. <<n, k>> = <<n, l>>
                BY <2>8, <2>11, <3>3
            <4> QED
                BY <3>3, <4>1
        <3> QED
            BY <2>9, <2>11, <3>1, <3>2, <3>3
    <2>12. ASSUME NEW q \in 1..n, NEW k \in 1..Len(seqs[q])
           PROVE  \E i \in 1..e + t : g[i] = <<q, k>>
        <3>1. CASE q = n
            <4>1. k \in 1..t /\ e + k \in 1..e + t
                BY <2>5, <3>1
            <4> QED
                BY <2>8, <3>1, <4>1
        <3>2. CASE q # n
            <4>1. q \in 1..m
                BY <2>1, <3>2
            <4>2. PICK i \in 1..e : f[i] = <<q, k>>
                BY <2>7, <4>1
            <4>3. i \in 1..e + t
                BY <2>5
            <4>4. g[i] = <<q, k>>
                BY <2>8, <4>2
            <4> QED
                BY <4>3, <4>4
        <3> QED
            BY <3>1, <3>2
    <2>13. g \in [1..e + t -> (1..n) \X (Nat \ {0})]
        <3>1. [i \in 1..e + t |-> g[i]] \in [1..e + t -> (1..n) \X (Nat \ {0})]
            BY <2>10
        <3> QED
            BY <2>8, <3>1
    <2>14. Origins(g, n)
        <3>1. PICK d : d = e + t /\ d = Len(Flat(n))
            BY <2>6
        <3>2. /\ g \in [1..d -> (1..n) \X (Nat \ {0})]
              /\ \A i \in 1..d :
                   g[i][2] \in 1..Len(seqs[g[i][1]]) /\ Flat(n)[i] = seqs[g[i][1]][g[i][2]]
            BY <2>10, <2>13, <3>1
        <3>3. /\ \A i, j \in 1..d : g[i] = g[j] => i = j
              /\ \A q \in 1..n : \A k \in 1..Len(seqs[q]) : \E i \in 1..d : g[i] = <<q, k>>
            BY <2>11, <2>12, <3>1
        <3> QED
            BY <3>1, <3>2, <3>3 DEF Origins
    <2> QED
        BY <2>1, <2>14
<1>7. \A m \in Nat : m \in Good
    <2> HIDE DEF Origins
    <2>1. \A m \in Nat : m \in Good => m + 1 \in Good
        BY <1>6
    <2> HIDE DEF Good
    <2> QED
        BY <1>5, <2>1, NatSetInduction
<1>8. PICK f : Origins(f, L)
    <2> HIDE DEF Origins
    <2> QED
        BY <1>1, <1>7
<1>9. PICK len : len = Len(Flat(L)) /\ len = Len(FlattenSeq(seqs))
    BY <1>4
<1>10. /\ f \in [1..len -> (1..L) \X (Nat \ {0})]
       /\ \A i \in 1..len :
            f[i][2] \in 1..Len(seqs[f[i][1]]) /\ FlattenSeq(seqs)[i] = seqs[f[i][1]][f[i][2]]
       /\ \A i, j \in 1..len : f[i] = f[j] => i = j
       /\ \A n \in 1..L : \A k \in 1..Len(seqs[n]) : \E i \in 1..len : f[i] = <<n, k>>
    BY <1>4, <1>8, <1>9
<1> HIDE DEF Origins
<1>11. FlatOf(FlattenSeq(seqs), seqs, f)
    BY <1>9, <1>10, Zenon DEF L, FlatOf
<1> QED
    BY <1>11

\* Multiplication by a number keeps the order.
LEMMA TimesMonotone ==
    ASSUME NEW a \in Nat, NEW b \in Nat, NEW k \in Nat, a <= b
    PROVE  a * k \in Nat /\ b * k \in Nat /\ a * k <= b * k
<1> DEFINE S == {n \in Nat : a * n \in Nat /\ b * n \in Nat /\ a * n <= b * n}
<1>1. 0 \in S
    OBVIOUS
<1>2. ASSUME NEW n \in Nat, n \in S PROVE n + 1 \in S
    <2>1. a * (n + 1) = a * n + a /\ b * (n + 1) = b * n + b
        OBVIOUS
    <2> QED
        BY <1>2, <2>1
<1> HIDE DEF S
<1>3. k \in S
    BY <1>1, <1>2, NatSetInduction
<1> QED
    BY <1>3 DEF S

LEMMA ProductIsNat ==
    ASSUME NEW a \in Nat, NEW b \in Nat
    PROVE  a * b \in Nat
<1>1. a <= a
    OBVIOUS
<1> QED
    BY <1>1, TimesMonotone

\* Quotient and remainder.
LEMMA QuotientAndRemainder ==
    ASSUME NEW range \in Nat \ {0}, NEW x \in Int,
           NEW q, q = x \div range, NEW r, r = x % range
    PROVE  q \in Int /\ r \in 0..range - 1 /\ x = range * q + r
<1>1. q \in Int /\ r \in 0..range - 1
    OBVIOUS
<1>2. x = range * q + r
    OBVIOUS
<1> QED
    BY <1>1, <1>2

\* There is only one quotient with a remainder that fits.
LEMMA DivisionUnique ==
    ASSUME NEW range \in Nat \ {0}, NEW q \in Int, NEW r \in 0..range - 1,
           NEW x \in Int, x = q * range + r
    PROVE  x \div range = q /\ x % range = r
<1> DEFINE p == x \div range
           s == x % range
<1>1. p \in Int /\ s \in 0..range - 1 /\ x = range * p + s
    OBVIOUS
<1>2. range * p = p * range /\ p * range \in Int /\ q * range \in Int
    BY <1>1
<1> HIDE DEF p, s
<1>3. ASSUME p < q PROVE FALSE
    <2>1. (q - p) * range = q * range - p * range /\ q - p \in Nat /\ 1 <= q - p
        BY <1>1, <1>3
    <2>2. 1 * range <= (q - p) * range
        BY <2>1, TimesMonotone
    <2> QED
        BY <1>1, <1>2, <2>1, <2>2
<1>4. ASSUME q < p PROVE FALSE
    <2>1. (p - q) * range = p * range - q * range /\ p - q \in Nat /\ 1 <= p - q
        BY <1>1, <1>4
    <2>2. 1 * range <= (p - q) * range
        BY <2>1, TimesMonotone
    <2> QED
        BY <1>1, <1>2, <2>1, <2>2
<1>5. p = q
    BY <1>1, <1>3, <1>4
<1> QED
    BY <1>1, <1>2, <1>5 DEF p, s

LEMMA RemainderUnique ==
    ASSUME NEW range \in Nat \ {0}, NEW q \in Int, NEW r \in 0..range - 1,
           NEW x \in Int, x = q * range + r
    PROVE  x % range = r
BY DivisionUnique

LEMMA SmallRemainder ==
    ASSUME NEW range \in Nat \ {0}, NEW x \in 0..range - 1
    PROVE  x % range = x /\ x \div range = 0
<1>1. x = 0 * range + x /\ 0 \in Int /\ x \in Int
    OBVIOUS
<1> QED
    BY <1>1, DivisionUnique

LEMMA RemainderIsSmall ==
    ASSUME NEW range \in Nat \ {0}, NEW x \in Int
    PROVE  x % range \in 0..range - 1
BY QuotientAndRemainder

\* Multiples do not count.
LEMMA RemainderOfSum ==
    ASSUME NEW small \in Nat \ {0}, NEW m \in Int, NEW y \in Int
    PROVE  (m * small + y) % small = y % small
<1>1. PICK p, s : p = y \div small /\ s = y % small
    OBVIOUS
<1>2. p \in Int /\ s \in 0..small - 1 /\ y = small * p + s
    BY <1>1, QuotientAndRemainder
<1>3. PICK n \in Int : n = m + p
    BY <1>2
<1>4. PICK x \in Int : x = m * small + y
    OBVIOUS
<1>5. x = n * small + s
    BY <1>2, <1>3, <1>4
<1>6. x % small = s
    BY <1>2, <1>5, RemainderUnique
<1> QED
    BY <1>1, <1>4, <1>6

\* What is lost beyond a multiple does not count.
LEMMA RemainderOfRemainder ==
    ASSUME NEW small \in Nat \ {0}, NEW k \in Nat, NEW large \in Nat \ {0},
           large = k * small, NEW x \in Int
    PROVE  (x % large) % small = x % small
<1>1. PICK q, r : q = x \div large /\ r = x % large
    OBVIOUS
<1>2. q \in Int /\ r \in 0..large - 1 /\ x = large * q + r
    BY <1>1, QuotientAndRemainder
<1>3. r \in Int
    BY <1>2
<1>4. PICK m \in Int : m = k * q
    BY <1>2
<1>5. large * q = m * small
    BY <1>2, <1>4
<1>6. x = m * small + r
    BY <1>2, <1>5
<1>7. (m * small + r) % small = r % small
    BY <1>3, RemainderOfSum
<1> QED
    BY <1>1, <1>6, <1>7

\* A quotient of naturals is a natural no larger than what is divided.
LEMMA QuotientIsSmaller ==
    ASSUME NEW x \in Nat, NEW y \in Nat \ {0}
    PROVE  x \div y \in 0..x
<1>1. PICK q, r : q = x \div y /\ r = x % y
    OBVIOUS
<1>2. q \in Int /\ r \in 0..y - 1 /\ x = y * q + r /\ y * q = q * y /\ q * y \in Int
    <2>1. x \in Int
        OBVIOUS
    <2>2. q \in Int /\ r \in 0..y - 1 /\ x = y * q + r
        BY <1>1, <2>1, QuotientAndRemainder
    <2> QED
        BY <2>2
<1>3. q >= 0
    <2> SUFFICES ASSUME q <= -1 PROVE FALSE
        BY <1>2
    <2>1. 1 \in Nat /\ -q \in Nat /\ 1 <= -q
        BY <1>2
    <2>2. 1 * y <= (-q) * y
        BY <2>1, TimesMonotone
    <2>3. (-q) * y = -(q * y) /\ 1 * y = y
        BY <1>2
    <2> QED
        BY <1>2, <2>2, <2>3
<1>4. q <= x
    <2>1. q \in Nat /\ 1 \in Nat /\ y \in Nat /\ 1 <= y
        BY <1>2, <1>3
    <2>2. 1 * q <= y * q
        BY <2>1, TimesMonotone
    <2> QED
        BY <1>2, <2>1, <2>2
<1> QED
    BY <1>1, <1>2, <1>3, <1>4

\* The place of row i, column j in a table of k columns, row after row.
Cell(k, i, j) == (i - 1) * k + j

LEMMA CellPlaces ==
    ASSUME NEW k \in Nat, NEW n \in Nat, NEW i \in 1..n, NEW j \in 1..k
    PROVE  Cell(k, i, j) \in 1..n * k
<1>1. i * k <= n * k /\ 0 <= (i - 1) * k
    BY TimesMonotone
<1>2. (i - 1) * k = i * k - k
    OBVIOUS
<1> QED
    BY <1>1, <1>2 DEF Cell

\* Different rows or columns have different places.
LEMMA CellsDiffer ==
    ASSUME NEW k \in Nat, NEW i \in Nat \ {0}, NEW j \in 1..k,
           NEW i2 \in Nat \ {0}, NEW j2 \in 1..k, Cell(k, i, j) = Cell(k, i2, j2)
    PROVE  i = i2 /\ j = j2
<1>1. ASSUME NEW m \in Nat \ {0}, NEW n \in Nat \ {0}, NEW p \in 1..k, NEW q \in 1..k, m < n
      PROVE  Cell(k, m, p) < Cell(k, n, q)
    <2>1. m * k <= (n - 1) * k /\ (n - 1) * k \in Nat /\ m * k \in Nat
        BY <1>1, TimesMonotone
    <2>2. (m - 1) * k = m * k - k
        OBVIOUS
    <2> QED
        BY <2>1, <2>2 DEF Cell
<1>2. i = i2
    <2>1. Cell(k, i, j) \in Int /\ Cell(k, i2, j2) \in Int
        BY DEF Cell
    <2>2. ~(i < i2) /\ ~(i2 < i)
        BY <1>1, <2>1
    <2> QED
        BY <2>2
<1>3. (i - 1) * k \in Nat
    <2>1. 0 <= i - 1 /\ i - 1 \in Nat
        OBVIOUS
    <2> QED
        BY <2>1, TimesMonotone
<1>4. Cell(k, i, j) = (i - 1) * k + j /\ Cell(k, i2, j2) = (i - 1) * k + j2
    BY <1>2 DEF Cell
<1> QED
    BY <1>2, <1>3, <1>4

\* Every place up to the end of the table is in some row and column.
LEMMA CellsCover ==
    ASSUME NEW k \in Nat, NEW n \in Nat, NEW m \in 1..n * k
    PROVE  \E i \in 1..n, j \in 1..k : m = Cell(k, i, j)
<1> DEFINE Covered == {l \in Nat : \A x \in 1..l * k : \E i \in 1..l, j \in 1..k : x = Cell(k, i, j)}
<1>1. 0 \in Covered
    BY TimesMonotone
<1>2. ASSUME NEW l \in Nat, l \in Covered PROVE l + 1 \in Covered
    <2> SUFFICES ASSUME NEW x \in 1..(l + 1) * k
                 PROVE  \E i \in 1..l + 1, j \in 1..k : x = Cell(k, i, j)
        OBVIOUS
    <2>1. l * k \in Nat /\ (l + 1) * k = l * k + k
        <3>1. l * k \in Nat
            BY ProductIsNat
        <3> QED
            BY <3>1
    <2>2. CASE x <= l * k
        <3>1. PICK i \in 1..l, j \in 1..k : x = Cell(k, i, j)
            BY <1>2, <2>1, <2>2
        <3> QED
            BY <3>1
    <2>3. CASE x > l * k
        <3>1. x - l * k \in 1..k
            BY <2>1, <2>3
        <3>2. x = Cell(k, l + 1, x - l * k)
            <4>1. (l + 1) - 1 = l
                OBVIOUS
            <4> QED
                BY <2>1, <4>1 DEF Cell
        <3>3. l + 1 \in 1..l + 1
            OBVIOUS
        <3> QED
            BY <3>1, <3>2, <3>3
    <2> QED
        BY <2>1, <2>2, <2>3
<1>3. n \in Covered
    <2> HIDE DEF Covered
    <2> QED
        BY <1>1, <1>2, NatSetInduction
<1> QED
    BY <1>3

\* Along a row, and from the end of a row to the next.
LEMMA CellSteps ==
    ASSUME NEW k \in Nat, NEW i \in Nat, NEW j \in Int
    PROVE  Cell(k, i, j + 1) = Cell(k, i, j) + 1
BY DEF Cell

LEMMA CellIsInt ==
    ASSUME NEW k \in Nat, NEW i \in Nat, NEW j \in Int
    PROVE  Cell(k, i, j) \in Int
BY DEF Cell

LEMMA FirstRow ==
    ASSUME NEW k \in Nat, NEW j \in Int
    PROVE  Cell(k, 1, j) = j
BY DEF Cell

LEMMA NextRow ==
    ASSUME NEW k \in Nat, NEW i \in Nat
    PROVE  Cell(k, i + 1, 1) = Cell(k, i, k) + 1
<1>1. (i + 1) - 1 = (i - 1) + 1 /\ ((i - 1) + 1) * k = (i - 1) * k + k /\ (i - 1) * k \in Int
    OBVIOUS
<1> QED
    BY <1>1 DEF Cell

\* The last of n rows ends the table.
LEMMA LastCell ==
    ASSUME NEW k \in Nat, NEW n \in Nat
    PROVE  Cell(k, n, k) = n * k
<1>1. (n - 1) * k = n * k - k /\ n * k \in Int
    OBVIOUS
<1> QED
    BY <1>1 DEF Cell

\* When the sequences have the same length, it lays them out as the rows of a
\* table.
IsTable(S, k, seqs) ==
    seqs \in Seq(Seq(S)) /\ \A i \in 1..Len(seqs) : Len(seqs[i]) = k

LaidOut(S, k, seqs) ==
    /\ FlattenSeq(seqs) \in Seq(S)
    /\ Len(FlattenSeq(seqs)) = Len(seqs) * k
    /\ \A i \in 1..Len(seqs), j \in 1..k :
         FlattenSeq(seqs)[Cell(k, i, j)] = seqs[i][j]

LEMMA FlattenRows ==
    ASSUME NEW S, NEW k \in Nat, NEW seqs, IsTable(S, k, seqs)
    PROVE  LaidOut(S, k, seqs)
<1> DEFINE L == Len(seqs)
<1>1. seqs \in Seq(Seq(S)) /\ \A i \in 1..Len(seqs) : Len(seqs[i]) = k
    BY DEF IsTable
<1>2. L \in Nat /\ \A i \in 1..L : seqs[i] \in Seq(S)
    BY <1>1
<1>3. PICK flat \in [0..L -> Seq(S)] :
        /\ flat[0] = <<>>
        /\ \A i \in 1..L : flat[i] = flat[i - 1] \o seqs[i]
        /\ flat[L] = FlattenSeq(seqs)
    BY <1>1, FlattenPrefixes
<1> HIDE DEF L
<1> DEFINE Rows(n) == /\ Len(flat[n]) = n * k
                      /\ \A i \in 1..n, j \in 1..k : flat[n][Cell(k, i, j)] = seqs[i][j]
           Good == {n \in Nat : n <= L => Rows(n)}
<1>4. 0 \in Good
    BY <1>3
<1>5. ASSUME NEW n \in Nat, n \in Good PROVE n + 1 \in Good
    <2>1. ASSUME n + 1 <= L PROVE Rows(n + 1)
        <3>1. Rows(n) /\ n \in 0..L /\ n + 1 \in 1..L
            BY <1>2, <1>5, <2>1
        <3>2. flat[n + 1] = flat[n] \o seqs[n + 1] /\ flat[n] \in Seq(S) /\ seqs[n + 1] \in Seq(S)
            <4>1. n + 1 \in 1..L
                BY <3>1
            <4>2. flat[n + 1] = flat[(n + 1) - 1] \o seqs[n + 1]
                BY <1>3, <4>1
            <4>3. flat[n] \in Seq(S)
                BY <1>3, <3>1
            <4>4. seqs[n + 1] \in Seq(S)
                BY <1>2, <3>1
            <4>5. (n + 1) - 1 = n
                OBVIOUS
            <4> QED
                BY <4>2, <4>3, <4>4, <4>5
        <3>3. n * k \in Nat /\ (n + 1) * k = n * k + k
            <4>1. n * k \in Nat
                BY TimesMonotone
            <4> QED
                BY <4>1
        <3>4. Len(flat[n]) = n * k /\ Len(seqs[n + 1]) = k
            BY <1>1, <3>1 DEF L
        <3>5. Len(flat[n + 1]) = (n + 1) * k
            <4>1. Len(flat[n] \o seqs[n + 1]) = Len(flat[n]) + Len(seqs[n + 1])
                BY <3>2
            <4> QED
                BY <3>2, <3>3, <3>4, <4>1
        <3>6. ASSUME NEW i \in 1..n + 1, NEW j \in 1..k
              PROVE  flat[n + 1][Cell(k, i, j)] = seqs[i][j]
            <4>1. CASE i = n + 1
                <5>1. Cell(k, i, j) = Len(flat[n]) + j
                    <6>1. i - 1 = n
                        BY <4>1
                    <6> QED
                        BY <3>4, <6>1 DEF Cell
                <5>2. (flat[n] \o seqs[n + 1])[Len(flat[n]) + j] = seqs[n + 1][j]
                    <6>1. Len(flat[n]) + j \in 1..Len(flat[n]) + Len(seqs[n + 1])
                          /\ ~(Len(flat[n]) + j <= Len(flat[n]))
                          /\ (Len(flat[n]) + j) - Len(flat[n]) = j
                        BY <3>3, <3>4
                    <6> QED
                        BY <3>2, <6>1, ConcatProperties
                <5> QED
                    BY <3>2, <4>1, <5>1, <5>2
            <4>2. CASE i # n + 1
                <5>1. i \in 1..n
                    BY <4>2
                <5>2. Cell(k, i, j) \in 1..Len(flat[n])
                    BY <5>1, <3>4, CellPlaces
                <5>3. (flat[n] \o seqs[n + 1])[Cell(k, i, j)] = flat[n][Cell(k, i, j)]
                    <6>1. Cell(k, i, j) \in 1..Len(flat[n]) + Len(seqs[n + 1])
                          /\ Cell(k, i, j) <= Len(flat[n])
                        BY <3>3, <3>4, <5>2
                    <6> QED
                        BY <3>2, <6>1, ConcatProperties
                <5> QED
                    BY <3>1, <3>2, <5>1, <5>3
            <4> QED
                BY <4>1, <4>2
        <3> QED
            BY <3>5, <3>6
    <2> HIDE DEF Rows
    <2> QED
        BY <2>1
<1>6. Rows(L)
    <2>1. \A n \in Nat : n \in Good
        <3> HIDE DEF Good
        <3> QED
            BY <1>4, <1>5, NatSetInduction
    <2> HIDE DEF Rows
    <2> QED
        BY <1>2, <2>1
<1> QED
    BY <1>2, <1>3, <1>6 DEF L, LaidOut

-----------------------------------------------------------------------------
\* Sets have the same number of elements when those of one are in one-to-one
\* correspondence with those of the other.
LEMMA OneToOneCounts ==
    ASSUME NEW A, NEW B, IsFiniteSet(B), NEW f \in [A -> B],
           \A x, y \in A : f[x] = f[y] => x = y,
           \A z \in B : \E x \in A : f[x] = z
    PROVE  IsFiniteSet(A) /\ Cardinality(A) = Cardinality(B)
<1>1. f \in Bijection(A, B)
    BY DEF Bijection, Injection, IsInjective, Surjection
<1>2. ExistsBijection(A, B)
    BY <1>1 DEF ExistsBijection
<1>3. ExistsBijection(B, A)
    BY <1>2, Fun_ExistsBijSymmetric
<1> QED
    BY <1>3, FS_Bijection

-----------------------------------------------------------------------------
(***************************************************************************)
(* Finite sets.                                                            *)
(***************************************************************************)
\* The union of a finite family of finite sets is finite.
LEMMA FiniteFamily ==
    ASSUME NEW S, IsFiniteSet(S), NEW f, DOMAIN f = S, \A x \in S : IsFiniteSet(f[x])
    PROVE  IsFiniteSet(UNION {f[x] : x \in S})
<1> DEFINE g == [x \in S |-> f[x]]
           T == {f[x] : x \in S}
<1>1. g \in Surjection(S, T)
    BY DEF Surjection
<1>2. \A t \in T : IsFiniteSet(t)
    OBVIOUS
<1> HIDE DEF g, T
<1>3. IsFiniteSet(T)
    BY <1>1, FS_Surjection
<1>4. IsFiniteSet(UNION T)
    BY <1>2, <1>3, FS_UNION
<1> QED
    BY <1>4 DEF T

\* A column of a table is finite.
LEMMA FiniteColumn ==
    ASSUME NEW i, NEW n \in Nat
    PROVE  IsFiniteSet({i} \X (1..n))
<1>1. IsFiniteSet({i})
    BY FS_Singleton
<1>2. IsFiniteSet(1..n)
    BY FS_Interval
<1> QED
    BY <1>1, <1>2, FS_Product

\* A finite set that loses a member and gains none has fewer.
LEMMA Fewer ==
    ASSUME NEW S, IsFiniteSet(S), NEW T, T \subseteq S, NEW x \in S, x \notin T
    PROVE  Cardinality(T) \in 0..Cardinality(S) - 1
<1>1. IsFiniteSet(T) /\ Cardinality(T) <= Cardinality(S) /\ Cardinality(T) # Cardinality(S)
    BY FS_Subset
<1>2. Cardinality(T) \in Nat /\ Cardinality(S) \in Nat
    BY <1>1, FS_CardinalityType
<1> QED
    BY <1>1, <1>2

-----------------------------------------------------------------------------
(***************************************************************************)
(* Powers.                                                                 *)
(***************************************************************************)
\* The recursive function that Power's definition asks for exists.
LEMMA PowerExists ==
    ASSUME NEW base \in Nat
    PROVE  \E f : f = [n \in Nat |-> IF n = 0 THEN 1 ELSE base * f[n - 1]]
<1> DEFINE Table(f, n) == /\ f \in [0..n -> Nat] /\ f[0] = 1
                          /\ \A i \in 1..n : f[i] = base * f[i - 1]
           Reached == {n \in Nat : \E f : Table(f, n)}
<1>1. 0 \in Reached
    <2>1. Table([i \in 0..0 |-> 1], 0)
        OBVIOUS
    <2> QED
        BY <2>1
<1>2. ASSUME NEW n \in Nat, n \in Reached PROVE n + 1 \in Reached
    <2>1. PICK f : Table(f, n)
        BY <1>2
    <2> DEFINE g == [i \in 0..n + 1 |-> IF i = n + 1 THEN base * f[n] ELSE f[i]]
    <2>2. g \in [0..n + 1 -> Nat] /\ g[0] = 1
        <3>1. base * f[n] \in Nat
            BY <2>1, ProductIsNat
        <3> QED
            BY <2>1, <3>1
    <2>3. ASSUME NEW i \in 1..n + 1 PROVE g[i] = base * g[i - 1]
        <3>1. CASE i = n + 1
            <4>1. i - 1 = n /\ i \in 0..n + 1 /\ n \in 0..n + 1 /\ n # n + 1
                BY <3>1
            <4> QED
                BY <3>1, <4>1
        <3>2. CASE i # n + 1
            <4>1. i \in 1..n /\ g[i] = f[i] /\ g[i - 1] = f[i - 1]
                BY <3>2
            <4> QED
                BY <2>1, <4>1
        <3> QED
            BY <3>1, <3>2
    <2> HIDE DEF g
    <2>4. Table(g, n + 1)
        BY <2>2, <2>3
    <2> HIDE DEF Table
    <2> QED
        BY <2>4
<1>3. ASSUME NEW n \in Nat PROVE \E f : Table(f, n)
    <2>1. n \in Reached
        <3> HIDE DEF Reached
        <3> QED
            BY <1>1, <1>2, NatSetInduction
    <2> QED
        BY <2>1
<1>4. ASSUME NEW n \in Nat, NEW f, NEW g, Table(f, n), Table(g, n + 1)
      PROVE  f[n] = g[n]
    <2> DEFINE Agree == {i \in Nat : i <= n => f[i] = g[i]}
    <2>1. 0 \in Agree
        BY <1>4
    <2>2. ASSUME NEW i \in Nat, i \in Agree PROVE i + 1 \in Agree
        <3> SUFFICES ASSUME i + 1 <= n PROVE f[i + 1] = g[i + 1]
            OBVIOUS
        <3>1. i + 1 \in 1..n /\ i + 1 \in 1..n + 1 /\ (i + 1) - 1 = i /\ i <= n
            OBVIOUS
        <3>2. f[i + 1] = base * f[i]
            BY <1>4, <3>1
        <3>3. g[i + 1] = base * g[i]
            BY <1>4, <3>1
        <3> QED
            BY <2>2, <3>1, <3>2, <3>3
    <2>3. n \in Agree
        <3> HIDE DEF Agree
        <3> QED
            BY <2>1, <2>2, NatSetInduction
    <2> QED
        BY <2>3
<1> DEFINE table(n) == CHOOSE f : Table(f, n)
           power == [n \in Nat |-> table(n)[n]]
<1>5. ASSUME NEW n \in Nat PROVE Table(table(n), n)
    <2> HIDE DEF Table
    <2> QED
        BY <1>3
<1> HIDE DEF table
<1>6. ASSUME NEW n \in Nat PROVE power[n] = IF n = 0 THEN 1 ELSE base * power[n - 1]
    <2>1. CASE n = 0
        BY <1>5, <2>1
    <2>2. CASE n # 0
        <3> DEFINE m == n - 1
        <3>1. m \in Nat /\ n = m + 1 /\ n \in 1..n
            BY <2>2
        <3>2. table(n)[n] = base * table(n)[m]
            BY <1>5, <3>1
        <3>3. table(m)[m] = table(n)[m]
            <4> HIDE DEF m, Table
            <4> QED
                BY <1>4, <1>5, <3>1
        <3>4. power[n] = table(n)[n] /\ power[m] = table(m)[m]
            BY <3>1
        <3> QED
            BY <2>2, <3>2, <3>3, <3>4
    <2> QED
        BY <2>1, <2>2
<1>7. power = [n \in Nat |-> IF n = 0 THEN 1 ELSE base * power[n - 1]]
    <2> HIDE DEF power
    <2>1. DOMAIN power = Nat /\ power = [n \in Nat |-> power[n]]
        BY DEF power
    <2> QED
        BY <1>6, <2>1
<1> HIDE DEF power
<1> QED
    BY <1>7

LEMMA PowerValues ==
    ASSUME NEW base \in Nat
    PROVE  /\ Power(base)[0] = 1
           /\ \A n \in Nat : Power(base)[n + 1] = base * Power(base)[n]
           /\ \A n \in Nat : Power(base)[n] \in Nat
<1> DEFINE Is(f) == f = [n \in Nat |-> IF n = 0 THEN 1 ELSE base * f[n - 1]]
           power == CHOOSE f : Is(f)
<1>1. Is(power)
    <2>1. \E f : Is(f)
        BY PowerExists
    <2> HIDE DEF Is
    <2> QED
        BY <2>1
<1>2. Power(base) = power
    BY DEF Power
<1> HIDE DEF power
<1>3. ASSUME NEW n \in Nat PROVE power[n] = IF n = 0 THEN 1 ELSE base * power[n - 1]
    BY <1>1
<1>4. power[0] = 1
    BY <1>3
<1>5. ASSUME NEW n \in Nat PROVE power[n + 1] = base * power[n]
    <2>1. n + 1 \in Nat /\ n + 1 # 0 /\ (n + 1) - 1 = n
        OBVIOUS
    <2> QED
        BY <1>3, <2>1
<1> DEFINE Good == {n \in Nat : power[n] \in Nat}
<1>6. 0 \in Good
    BY <1>4
<1>7. ASSUME NEW n \in Nat, n \in Good PROVE n + 1 \in Good
    BY <1>5, <1>7, ProductIsNat
<1>8. \A n \in Nat : n \in Good
    <2> HIDE DEF Good
    <2> QED
        BY <1>6, <1>7, NatSetInduction
<1> QED
    BY <1>2, <1>4, <1>5, <1>8

LEMMA TwoToValues ==
    /\ TwoTo[0] = 1
    /\ \A n \in Nat : TwoTo[n + 1] = 2 * TwoTo[n]
    /\ \A n \in Nat : TwoTo[n] \in Nat \ {0}
<1>1. /\ TwoTo[0] = 1
      /\ \A n \in Nat : TwoTo[n + 1] = 2 * TwoTo[n]
    BY PowerValues DEF TwoTo
<1> DEFINE Good == {n \in Nat : TwoTo[n] \in Nat \ {0}}
<1>2. 0 \in Good
    BY <1>1
<1>3. ASSUME NEW n \in Nat, n \in Good PROVE n + 1 \in Good
    BY <1>1, <1>3
<1>4. \A n \in Nat : n \in Good
    <2> HIDE DEF Good
    <2> QED
        BY <1>2, <1>3, NatSetInduction
<1> QED
    BY <1>1, <1>4

\* A smaller power divides a larger one.
LEMMA TwoToDivides ==
    ASSUME NEW n \in Nat, NEW k \in 0..n
    PROVE  \E m \in Nat : TwoTo[n] = m * TwoTo[k]
<1> DEFINE Good == {i \in Nat : \A j \in 0..i : \E m \in Nat : TwoTo[i] = m * TwoTo[j]}
<1>1. 0 \in Good
    <2>1. TwoTo[0] = 1 * TwoTo[0]
        BY TwoToValues
    <2>2. 1 \in Nat
        OBVIOUS
    <2>3. \A j \in 0..0 : TwoTo[0] = 1 * TwoTo[j]
        BY <2>1
    <2> QED
        BY <2>2, <2>3
<1>2. ASSUME NEW i \in Nat, i \in Good PROVE i + 1 \in Good
    <2> SUFFICES ASSUME NEW j \in 0..i + 1
                 PROVE  \E m \in Nat : TwoTo[i + 1] = m * TwoTo[j]
        OBVIOUS
    <2>1. CASE j = i + 1
        <3>1. TwoTo[j] \in Nat /\ 1 * TwoTo[j] = TwoTo[j]
            BY TwoToValues
        <3> QED
            BY <2>1, <3>1
    <2>2. CASE j # i + 1
        <3>1. j \in 0..i
            BY <2>2
        <3>2. PICK m \in Nat : TwoTo[i] = m * TwoTo[j]
            BY <1>2, <3>1
        <3>3. TwoTo[i + 1] = 2 * TwoTo[i] /\ TwoTo[j] \in Nat
            BY TwoToValues
        <3>4. TwoTo[i + 1] = (2 * m) * TwoTo[j]
            BY <3>2, <3>3
        <3>5. 2 * m \in Nat
            OBVIOUS
        <3> QED
            BY <3>4, <3>5
    <2> QED
        BY <2>1, <2>2
<1>3. n \in Good
    <2> HIDE DEF Good
    <2> QED
        BY <1>1, <1>2, NatSetInduction
<1> QED
    BY <1>3

-----------------------------------------------------------------------------
(***************************************************************************)
(* The ledger: for every ledger, price and size.                           *)
(***************************************************************************)
\* A price without an unset part is made of numbers, also after select! has
\* scaled it by its ways.
LEMMA PriceType ==
    ASSUME NEW costs \in Costs, NEW op \in Operations, NEW size \in Nat
    PROVE  /\ PriceOf(costs, op, size) \in Cost
           /\ FullyPriced(PriceOf(costs, op, size)) =>
                PriceOf(costs, op, size) \in
                  [switching_energy : Nat, leakage_energy : Nat,
                   area_space : Nat, latency_ticks : Nat]
<1> DEFINE scale == Greater(size - 1, 0)
<1>1. scale \in Nat
  BY DEF Greater
<1>2. costs[op] \in Cost
  BY DEF Costs
<1>3. Scaled(costs[op], scale) \in Cost
  <2> DEFINE c == costs[op]
  <2>1. DOMAIN c = {"switching_energy", "leakage_energy", "area_space", "latency_ticks"}
    BY <1>2 DEF Cost
  <2>2. \A part \in DOMAIN c : c[part] \in Nat \cup {Unset}
    BY <1>2, <2>1 DEF Cost
  <2>3. \A part \in DOMAIN c :
          (IF c[part] = Unset THEN Unset ELSE c[part] * scale) \in Nat \cup {Unset}
    BY <1>1, <2>2
  <2> QED
    BY <2>1, <2>3 DEF Scaled, Cost
<1>4. PriceOf(costs, op, size) \in Cost
  BY <1>2, <1>3 DEF PriceOf
<1>5. ASSUME NEW cost \in Cost, FullyPriced(cost)
      PROVE  cost \in [switching_energy : Nat, leakage_energy : Nat,
                       area_space : Nat, latency_ticks : Nat]
  BY <1>5 DEF FullyPriced, Cost
<1> QED
  BY <1>4, <1>5

LEMMA NewLedgerType == NewLedger \in LedgerType /\ NewLedger.overlaps = <<>>
BY DEF NewLedger, LedgerType, NoMetrics, Metrics

LEMMA MetricsStep ==
    ASSUME NEW m \in Metrics, NEW n \in Nat
    PROVE  /\ [m EXCEPT !.total_time = @ + n] \in Metrics
           /\ [m EXCEPT !.total_space = @ + n] \in Metrics
           /\ [m EXCEPT !.total_leakage = @ + n] \in Metrics
           /\ [m EXCEPT !.total_energy = @ + n, !.total_operations = @ + 1] \in Metrics
<1>1. /\ m.total_time + n \in Nat
      /\ m.total_space + n \in Nat
      /\ m.total_leakage + n \in Nat
      /\ m.total_energy + n \in Nat
      /\ m.total_operations + 1 \in Nat
  BY DEF Metrics
<1>2. [m EXCEPT !.total_energy = @ + n, !.total_operations = @ + 1] \in Metrics
  BY <1>1 DEF Metrics
<1> QED
  BY <1>1, <1>2 DEF Metrics

(***************************************************************************)
(* Delays: outside a group the total grows, inside one only the innermost  *)
(* group's entry does, and nothing else changes.                           *)
(***************************************************************************)
LEMMA AddTimeEffect ==
    ASSUME NEW ledger \in LedgerType, NEW delay \in Nat
    PROVE  /\ AddTime(ledger, delay) \in LedgerType
           /\ Len(AddTime(ledger, delay).overlaps) = Len(ledger.overlaps)
           /\ AddTime(ledger, delay).charging = ledger.charging
           /\ AddTime(ledger, delay).charged = ledger.charged
           /\ AddTime(ledger, delay).leakage = ledger.leakage
           /\ ledger.overlaps = <<>> =>
                /\ AddTime(ledger, delay).overlaps = <<>>
                /\ AddTime(ledger, delay).metrics
                     = [ledger.metrics EXCEPT !.total_time = @ + delay]
           /\ ledger.overlaps # <<>> =>
                /\ AddTime(ledger, delay).metrics = ledger.metrics
                /\ AddTime(ledger, delay).overlaps
                     = [ledger.overlaps EXCEPT ![Len(ledger.overlaps)] = Greater(@, delay)]
<1>1. CASE ledger.overlaps = <<>>
  <2> DEFINE m == [ledger.metrics EXCEPT !.total_time = @ + delay]
  <2>1. m \in Metrics
    BY MetricsStep DEF LedgerType
  <2>2. AddTime(ledger, delay) = [ledger EXCEPT !.metrics = m]
    BY <1>1 DEF AddTime
  <2>3. [ledger.metrics EXCEPT !.total_time = @ + delay] = m
    OBVIOUS
  <2> HIDE DEF m
  <2> QED
    BY <1>1, <2>1, <2>2, <2>3 DEF LedgerType
<1>2. CASE ledger.overlaps # <<>>
  <2> DEFINE s == [ledger.overlaps EXCEPT ![Len(ledger.overlaps)] = Greater(@, delay)]
  <2>1. s \in Seq(Nat) /\ Len(s) = Len(ledger.overlaps)
    BY <1>2 DEF LedgerType, Greater
  <2>2. AddTime(ledger, delay) = [ledger EXCEPT !.overlaps = s]
    BY <1>2 DEF AddTime
  <2>3. [ledger.overlaps EXCEPT ![Len(ledger.overlaps)] = Greater(@, delay)] = s
    OBVIOUS
  <2> HIDE DEF s
  <2> QED
    BY <1>2, <2>1, <2>2, <2>3 DEF LedgerType
<1> QED
  BY <1>1, <1>2

LEMMA PushType ==
    ASSUME NEW ledger \in LedgerType, NEW delay \in Nat
    PROVE  /\ Push(ledger, delay) \in LedgerType
           /\ Len(Push(ledger, delay).overlaps) = Len(ledger.overlaps)
           /\ Push(ledger, delay).charging = ledger.charging
           /\ Push(ledger, delay).charged = ledger.charged
           /\ Push(ledger, delay).leakage = ledger.leakage
BY AddTimeEffect DEF Push

(***************************************************************************)
(* Groups.                                                                 *)
(***************************************************************************)
LEMMA OpenOverlapEffect ==
    ASSUME NEW ledger \in LedgerType
    PROVE  /\ OpenOverlap(ledger) \in LedgerType
           /\ OpenOverlap(ledger).overlaps = Append(ledger.overlaps, 0)
           /\ Len(OpenOverlap(ledger).overlaps) = Len(ledger.overlaps) + 1
           /\ OpenOverlap(ledger).metrics = ledger.metrics
           /\ OpenOverlap(ledger).charged = ledger.charged
           /\ OpenOverlap(ledger).leakage = ledger.leakage
           /\ OpenOverlap(ledger).charging = ledger.charging
<1>1. Append(ledger.overlaps, 0) \in Seq(Nat)
  BY DEF LedgerType
<1>2. OpenOverlap(ledger) = [ledger EXCEPT !.overlaps = Append(ledger.overlaps, 0)]
  BY DEF OpenOverlap
<1>3. Len(Append(ledger.overlaps, 0)) = Len(ledger.overlaps) + 1
  BY DEF LedgerType
<1> QED
  BY <1>1, <1>2, <1>3 DEF LedgerType

\* The ledger between the pop of a guard and the fold into what is around it.
Popped(ledger) ==
    [ledger EXCEPT !.overlaps = SubSeq(@, 1, Len(ledger.overlaps) - 1)]

LEMMA CloseOverlapEffect ==
    ASSUME NEW ledger \in LedgerType, ledger.overlaps # <<>>
    PROVE  /\ Popped(ledger) \in LedgerType
           /\ ledger.overlaps[Len(ledger.overlaps)] \in Nat
           /\ Len(Popped(ledger).overlaps) = Len(ledger.overlaps) - 1
           /\ \A i \in 1..Len(Popped(ledger).overlaps) :
                Popped(ledger).overlaps[i] = ledger.overlaps[i]
           /\ Popped(ledger).metrics = ledger.metrics
           /\ Popped(ledger).charging = ledger.charging
           /\ CloseOverlap(ledger)
                = Push(Popped(ledger), ledger.overlaps[Len(ledger.overlaps)])
           /\ CloseOverlap(ledger) \in LedgerType
           /\ Len(CloseOverlap(ledger).overlaps) = Len(ledger.overlaps) - 1
           /\ CloseOverlap(ledger).charged = ledger.charged
           /\ CloseOverlap(ledger).leakage = ledger.leakage
           /\ CloseOverlap(ledger).charging = ledger.charging
<1> DEFINE s == SubSeq(ledger.overlaps, 1, Len(ledger.overlaps) - 1)
           last == ledger.overlaps[Len(ledger.overlaps)]
<1>1. /\ s \in Seq(Nat)
      /\ Len(s) = Len(ledger.overlaps) - 1
      /\ \A i \in 1..Len(s) : s[i] = ledger.overlaps[i]
      /\ last \in Nat
  <2>1. ledger.overlaps \in Seq(Nat)
    BY DEF LedgerType
  <2>2. PICK o \in Seq(Nat) : o = ledger.overlaps
    BY <2>1
  <2>3. PICK n \in Nat : n = Len(o) - 1 /\ Len(o) = n + 1
    <3>1. Len(o) \in Nat \ {0}
      BY <2>2, EmptySeq
    <3>2. Len(o) - 1 \in Nat
      BY <3>1
    <3> QED
      BY <3>1, <3>2
  <2>4. /\ SubSeq(o, 1, n) \in Seq(Nat) /\ Len(SubSeq(o, 1, n)) = n
        /\ \A i \in 1..n : SubSeq(o, 1, n)[i] = o[i]
    <3>1. \A i \in 1..n : o[i] \in Nat
      BY <2>3
    <3>2. PICK front : front = SubSeq(o, 1, n)
      OBVIOUS
    <3>3. /\ front \in Seq(Nat)
          /\ Len(front) = IF 1 <= n THEN n - 1 + 1 ELSE 0
          /\ \A i \in 1..n - 1 + 1 : front[i] = o[1 + i - 1]
      BY <3>1, <3>2, SubSeqProperties
    <3>4. Len(front) = n
      BY <3>3
    <3>5. ASSUME NEW i \in 1..n PROVE front[i] = o[i]
      <4>1. i \in 1..n - 1 + 1 /\ 1 + i - 1 = i
        OBVIOUS
      <4> QED
        BY <3>3, <4>1
    <3> QED
      BY <3>2, <3>3, <3>4, <3>5
  <2>5. o[Len(o)] \in Nat
    BY <2>3
  <2> QED
    BY <2>2, <2>3, <2>4, <2>5
<1>2. Popped(ledger) = [ledger EXCEPT !.overlaps = s]
  BY DEF Popped
<1>3. CloseOverlap(ledger) = Push(Popped(ledger), last)
  BY DEF CloseOverlap, Popped
<1> HIDE DEF s
<1>4. /\ Popped(ledger) \in LedgerType
      /\ Popped(ledger).overlaps = s
      /\ Popped(ledger).metrics = ledger.metrics
      /\ Popped(ledger).charging = ledger.charging
      /\ Popped(ledger).charged = ledger.charged
      /\ Popped(ledger).leakage = ledger.leakage
  BY <1>1, <1>2 DEF LedgerType
<1>5. /\ Push(Popped(ledger), last) \in LedgerType
      /\ Len(Push(Popped(ledger), last).overlaps) = Len(s)
      /\ Push(Popped(ledger), last).charging = ledger.charging
      /\ Push(Popped(ledger), last).charged = ledger.charged
      /\ Push(Popped(ledger), last).leakage = ledger.leakage
  BY <1>1, <1>4, PushType
<1> QED
  BY <1>1, <1>3, <1>4, <1>5

(***************************************************************************)
(* Charges.                                                                *)
(***************************************************************************)
Prices == [switching_energy : Nat, leakage_energy : Nat, area_space : Nat,
           latency_ticks : Nat]

\* The counts only a scored prediction moves.
Tally(m) ==
    <<m.total_predictions, m.direction_predictions, m.target_predictions,
      m.total_hits, m.direction_hits, m.target_hits>>

LEMMA TimeTally ==
    ASSUME NEW m \in Metrics, NEW delay \in Nat
    PROVE  Tally([m EXCEPT !.total_time = @ + delay]) = Tally(m)
<1>1. PICK n : n = [m EXCEPT !.total_time = @ + delay]
  OBVIOUS
<1>2. /\ n.total_predictions = m.total_predictions
      /\ n.direction_predictions = m.direction_predictions
      /\ n.target_predictions = m.target_predictions
      /\ n.total_hits = m.total_hits
      /\ n.direction_hits = m.direction_hits
      /\ n.target_hits = m.target_hits
  BY <1>1 DEF Metrics
<1> QED
  BY <1>1, <1>2 DEF Tally

LEMMA PushTally ==
    ASSUME NEW ledger \in LedgerType, NEW delay \in Nat
    PROVE  Tally(Push(ledger, delay).metrics) = Tally(ledger.metrics)
<1>1. CASE ~ledger.charging
  BY <1>1 DEF Push
<1>2. CASE ledger.charging
  <2>1. Push(ledger, delay) = AddTime(ledger, delay)
    BY <1>2 DEF Push
  <2>2. CASE ledger.overlaps # <<>>
    <3>1. AddTime(ledger, delay).metrics = ledger.metrics
      BY <2>2, AddTimeEffect
    <3> QED
      BY <2>1, <3>1
  <2>3. CASE ledger.overlaps = <<>>
    <3>1. AddTime(ledger, delay).metrics = [ledger.metrics EXCEPT !.total_time = @ + delay]
      BY <2>3, AddTimeEffect
    <3>2. ledger.metrics \in Metrics
      BY DEF LedgerType
    <3>3. Tally([ledger.metrics EXCEPT !.total_time = @ + delay]) = Tally(ledger.metrics)
      BY <3>2, TimeTally
    <3> QED
      BY <2>1, <3>1, <3>3
  <2> QED
    BY <2>2, <2>3
<1> QED
  BY <1>1, <1>2

LEMMA InstantiateType ==
    ASSUME NEW ledger \in LedgerType, NEW hardware \in Operations \X Nat, NEW cost \in Prices
    PROVE  /\ Instantiate(ledger, hardware, cost) \in LedgerType
           /\ Instantiate(ledger, hardware, cost).overlaps = ledger.overlaps
           /\ Instantiate(ledger, hardware, cost).charging = ledger.charging
           /\ Instantiate(ledger, hardware, cost).metrics.total_time
                = ledger.metrics.total_time
           /\ Tally(Instantiate(ledger, hardware, cost).metrics) = Tally(ledger.metrics)
<1>1. CASE hardware \in ledger.charged
  BY <1>1 DEF Instantiate
<1>2. CASE hardware \notin ledger.charged
  <2> DEFINE m == [ledger.metrics EXCEPT !.total_space = @ + cost.area_space]
             c == ledger.charged \cup {hardware}
             n == ledger.leakage + cost.leakage_energy
  <2>1. cost.area_space \in Nat /\ ledger.metrics \in Metrics
    BY DEF LedgerType, Prices
  <2>2. m \in Metrics
    BY <2>1, MetricsStep
  <2>3. m.total_time = ledger.metrics.total_time /\ Tally(m) = Tally(ledger.metrics)
    BY <2>1 DEF Metrics, Tally
  <2>4. c \in SUBSET (Operations \X Nat) /\ n \in Nat
    BY DEF LedgerType, Prices
  <2>5. Instantiate(ledger, hardware, cost)
          = [ledger EXCEPT !.charged = c, !.leakage = n, !.metrics = m]
    BY <1>2 DEF Instantiate
  <2> HIDE DEF m, c, n
  <2> QED
    BY <2>2, <2>3, <2>4, <2>5 DEF LedgerType
<1> QED
  BY <1>1, <1>2

\* A charge is a delay plus counters that time does not depend on.
LEMMA ChargeEffect ==
    ASSUME NEW ledger \in LedgerType, NEW op \in Operations, NEW size \in Nat,
           NEW cost \in Prices
    PROVE  /\ Charge(ledger, op, size, cost) \in LedgerType
           /\ Charge(ledger, op, size, cost).charging = ledger.charging
           /\ Charge(ledger, op, size, cost).overlaps
                = Push(ledger, cost.latency_ticks).overlaps
           /\ Charge(ledger, op, size, cost).metrics.total_time
                = Push(ledger, cost.latency_ticks).metrics.total_time
           /\ Tally(Charge(ledger, op, size, cost).metrics) = Tally(ledger.metrics)
           /\ ~ledger.charging => Charge(ledger, op, size, cost) = ledger
<1>1. CASE ~ledger.charging
  BY <1>1 DEF Charge, Push
<1>2. CASE ledger.charging
  <2> DEFINE timed == AddTime(ledger, cost.latency_ticks)
             m == [timed.metrics EXCEPT !.total_energy = @ + cost.switching_energy,
                                        !.total_operations = @ + 1]
             spent == [timed EXCEPT !.metrics.total_energy = @ + cost.switching_energy,
                                    !.metrics.total_operations = @ + 1]
  <2>1. cost.latency_ticks \in Nat /\ cost.switching_energy \in Nat
    BY DEF Prices
  <2>2. /\ timed \in LedgerType
        /\ timed.charging = ledger.charging
        /\ Tally(timed.metrics) = Tally(ledger.metrics)
    <3>1. timed \in LedgerType /\ timed.charging = ledger.charging
      BY <2>1, AddTimeEffect
    <3>2. ledger.metrics \in Metrics
      BY DEF LedgerType
    <3>3. Tally([ledger.metrics EXCEPT !.total_time = @ + cost.latency_ticks])
            = Tally(ledger.metrics)
      BY <3>2 DEF Metrics, Tally
    <3> QED
      BY <2>1, <3>1, <3>3, AddTimeEffect
  <2>3. m \in Metrics /\ m.total_time = timed.metrics.total_time /\ Tally(m) = Tally(timed.metrics)
    <3>1. timed.metrics \in Metrics
      BY <2>2 DEF LedgerType
    <3> HIDE DEF timed
    <3>2. m \in Metrics
      BY <2>1, <3>1, MetricsStep
    <3>3. m.total_time = timed.metrics.total_time
      BY <3>1 DEF Metrics
    <3>4. Tally(m) = Tally(timed.metrics)
      BY <3>1 DEF Metrics, Tally
    <3> QED
      BY <3>2, <3>3, <3>4
  <2>4. spent = [timed EXCEPT !.metrics = m]
    <3>1. timed \in LedgerType /\ timed.metrics \in Metrics
      BY <2>2 DEF LedgerType
    <3> HIDE DEF timed
    <3> QED
      BY <3>1 DEF LedgerType, Metrics
  <2>5. /\ spent \in LedgerType
        /\ spent.overlaps = timed.overlaps
        /\ spent.metrics = m
        /\ spent.charging = timed.charging
    <3> HIDE DEF timed, m, spent
    <3> QED
      BY <2>2, <2>3, <2>4 DEF LedgerType
  <2>6. <<op, size>> \in Operations \X Nat
    OBVIOUS
  <2>7. Charge(ledger, op, size, cost) = Instantiate(spent, <<op, size>>, cost)
    BY <1>2 DEF Charge
  <2>8. Push(ledger, cost.latency_ticks) = timed
    BY <1>2 DEF Push
  <2> HIDE DEF timed, m, spent
  <2>9. /\ Charge(ledger, op, size, cost) \in LedgerType
        /\ Charge(ledger, op, size, cost).overlaps = spent.overlaps
        /\ Charge(ledger, op, size, cost).charging = spent.charging
        /\ Charge(ledger, op, size, cost).metrics.total_time = spent.metrics.total_time
        /\ Tally(Charge(ledger, op, size, cost).metrics) = Tally(spent.metrics)
    BY <2>5, <2>6, <2>7, InstantiateType
  <2> QED
    BY <1>2, <2>2, <2>3, <2>5, <2>8, <2>9
<1> QED
  BY <1>1, <1>2

(***************************************************************************)
(* The simulator's calls.                                                  *)
(***************************************************************************)
LEMMA TurnEffect ==
    ASSUME NEW ledger \in LedgerType, NEW on \in BOOLEAN
    PROVE  /\ Turn(ledger, on) \in LedgerType
           /\ Turn(ledger, on).overlaps = ledger.overlaps
           /\ Turn(ledger, on).metrics = ledger.metrics
           /\ Turn(ledger, on).charged = ledger.charged
           /\ Turn(ledger, on).leakage = ledger.leakage
           /\ Turn(ledger, on).charging = on
BY DEF Turn, LedgerType

LEMMA TickEffect ==
    ASSUME NEW ledger \in LedgerType
    PROVE  /\ Tick(ledger) \in LedgerType
           /\ Tick(ledger).overlaps = ledger.overlaps
           /\ Tick(ledger).charging = ledger.charging
           /\ Tick(ledger).metrics.total_time = ledger.metrics.total_time
           /\ Tally(Tick(ledger).metrics) = Tally(ledger.metrics)
           /\ ~ledger.charging => Tick(ledger) = ledger
<1> DEFINE m == [ledger.metrics EXCEPT !.total_leakage = @ + ledger.leakage]
<1>1. ledger.metrics \in Metrics /\ ledger.leakage \in Nat
  BY DEF LedgerType
<1>2. m \in Metrics
  BY <1>1, MetricsStep
<1>3. m.total_time = ledger.metrics.total_time /\ Tally(m) = Tally(ledger.metrics)
  BY <1>1 DEF Metrics, Tally
<1>4. Tick(ledger) = IF ledger.charging THEN [ledger EXCEPT !.metrics = m] ELSE ledger
  BY DEF Tick
<1> HIDE DEF m
<1> QED
  BY <1>2, <1>3, <1>4 DEF LedgerType

LEMMA StorageEffect ==
    ASSUME NEW ledger \in LedgerType, NEW area \in Nat
    PROVE  /\ Storage(ledger, area) \in LedgerType
           /\ Storage(ledger, area).overlaps = ledger.overlaps
           /\ Storage(ledger, area).charging = ledger.charging
           /\ Storage(ledger, area).charged = ledger.charged
           /\ Storage(ledger, area).leakage = ledger.leakage
           /\ Storage(ledger, area).metrics.total_time = ledger.metrics.total_time
           /\ Tally(Storage(ledger, area).metrics) = Tally(ledger.metrics)
<1> DEFINE m == [ledger.metrics EXCEPT !.total_space = @ + area]
<1>1. ledger.metrics \in Metrics
  BY DEF LedgerType
<1>2. m \in Metrics
  BY <1>1, MetricsStep
<1>3. m.total_time = ledger.metrics.total_time /\ Tally(m) = Tally(ledger.metrics)
  BY <1>1 DEF Metrics, Tally
<1>4. Storage(ledger, area) = [ledger EXCEPT !.metrics = m]
  BY DEF Storage
<1> HIDE DEF m
<1> QED
  BY <1>2, <1>3, <1>4 DEF LedgerType

LEMMA PredictionEffect ==
    ASSUME NEW ledger \in LedgerType, NEW exact \in BOOLEAN,
           NEW direction \in BOOLEAN, NEW target \in BOOLEAN
    PROVE  /\ Prediction(ledger, exact, direction, target) \in LedgerType
           /\ Prediction(ledger, exact, direction, target).overlaps = ledger.overlaps
           /\ Prediction(ledger, exact, direction, target).charging = ledger.charging
           /\ Tally(Prediction(ledger, exact, direction, target).metrics) =
                <<ledger.metrics.total_predictions + 1,
                  ledger.metrics.direction_predictions + 1,
                  ledger.metrics.target_predictions + 1,
                  ledger.metrics.total_hits + One(exact),
                  ledger.metrics.direction_hits + One(direction),
                  ledger.metrics.target_hits + One(target)>>
<1> DEFINE old == ledger.metrics
           m == [old EXCEPT !.total_predictions = @ + 1,
                            !.direction_predictions = @ + 1,
                            !.target_predictions = @ + 1,
                            !.direction_hits = @ + One(direction),
                            !.target_hits = @ + One(target),
                            !.total_hits = @ + One(exact)]
<1>1. old \in Metrics
  BY DEF LedgerType
<1>2. One(exact) \in Nat /\ One(direction) \in Nat /\ One(target) \in Nat
  BY DEF One
<1>3. Prediction(ledger, exact, direction, target) = [ledger EXCEPT !.metrics = m]
  BY <1>1 DEF Prediction, LedgerType, Metrics
<1> HIDE DEF old
<1>4. /\ old.total_predictions + 1 \in Nat
      /\ old.direction_predictions + 1 \in Nat
      /\ old.target_predictions + 1 \in Nat
      /\ old.direction_hits + One(direction) \in Nat
      /\ old.target_hits + One(target) \in Nat
      /\ old.total_hits + One(exact) \in Nat
  BY <1>1, <1>2 DEF Metrics
<1>5. m \in Metrics
  BY <1>1, <1>4 DEF Metrics
<1>6. Tally(m) = <<old.total_predictions + 1, old.direction_predictions + 1,
                   old.target_predictions + 1, old.total_hits + One(exact),
                   old.direction_hits + One(direction), old.target_hits + One(target)>>
  BY <1>1 DEF Metrics, Tally
<1> HIDE DEF m
<1> USE DEF old
<1> QED
  BY <1>3, <1>5, <1>6 DEF LedgerType
=============================================================================
