---------------------------- MODULE WidthProofs ----------------------------
(***************************************************************************)
(* Proofs about what depends on the width of a number: the operations of   *)
(* Value, and the hash functions of PpmHash, which are made of them.       *)
(***************************************************************************)
EXTENDS PpmHash, Value, Lemmas

(***************************************************************************)
(* The hash functions.                                                     *)
(***************************************************************************)

\* Exclusive or, position by position.
LEMMA HashDiff == \A A, B, x : x \in SymDiff(A, B) <=> ~(x \in A <=> x \in B)
BY DEF SymDiff

\* The numbers differ in one place.
Differ(new, old, place) == \A k : k \in new <=> ~(k \in old <=> k = place)

\* The lengths and widths for which the code's byte-wide shift counts reach
\* every group, and the groups every direction.
Foldable(length, width) ==
    LET groups == Groups(length, width)
    IN  /\ length \in Nat \ {0} /\ width \in 1..length /\ groups \in Nat \ {0}
        /\ length <= groups * width /\ (groups - 1) * width < length
        /\ \A group \in 0..groups - 1 :
             /\ Shift(group, width) % length = group * width
             /\ group * width \in Nat /\ group * width < length

LEMMA FoldableRegister ==
    ASSUME NEW length \in Nat, NEW width \in Nat, 1 <= width, width <= length, length <= 256
    PROVE  Foldable(length, width)
<1>1. PICK G, r : /\ G = (length + width - 1) \div width
                  /\ r = (length + width - 1) % width
    OBVIOUS
<1>2. G \in Int /\ r \in 0..width - 1 /\ length + width - 1 = width * G + r
    <2>1. PICK n \in Int : n = length + width - 1
        OBVIOUS
    <2>2. PICK divisor \in Nat \ {0} : divisor = width
        OBVIOUS
    <2>3. G = n \div divisor /\ r = n % divisor
        BY <1>1, <2>1, <2>2
    <2>4. G \in Int /\ r \in 0..divisor - 1 /\ n = divisor * G + r
        BY <2>3, QuotientAndRemainder
    <2> QED
        BY <2>1, <2>2, <2>4
<1>3. Groups(length, width) = G
    BY <1>1 DEF Groups
<1>4. G * width = width * G /\ (G - 1) * width = width * G - width /\ G * width \in Int
    BY <1>2
<1>5. length <= G * width /\ (G - 1) * width < length
    <2> DEFINE product == G * width
    <2>1. length + width - 1 = product + r /\ (G - 1) * width = product - width /\ product \in Int
        BY <1>2, <1>4
    <2> HIDE DEF product
    <2>2. length <= product /\ product - width < length
        BY <1>2, <2>1
    <2> QED
        BY <2>1, <2>2 DEF product
<1>6. G \in Nat \ {0}
    <2> SUFFICES ASSUME G <= 0 PROVE FALSE
        BY <1>2
    <2>1. 0 - G \in Nat /\ 0 \in Nat /\ 0 <= 0 - G
        BY <1>2
    <2>2. 0 * width <= (0 - G) * width
        BY <2>1, TimesMonotone
    <2>3. (0 - G) * width = 0 - G * width /\ 0 * width = 0
        BY <1>2
    <2> QED
        BY <1>4, <1>5, <2>2, <2>3
<1>7. ASSUME NEW group \in 0..G - 1
      PROVE  /\ Shift(group, width) % length = group * width
             /\ group * width \in Nat /\ group * width < length
    <2>1. group \in Nat /\ G - 1 \in Nat /\ group <= G - 1
        BY <1>6, <1>7
    <2>2. group * width \in Nat /\ group * width <= (G - 1) * width
        BY <2>1, TimesMonotone
    <2>3. PICK x \in Nat : x = group * width
        BY <2>2
    <2>4. x < length
        BY <1>4, <1>5, <2>2, <2>3
    <2>5. x % 256 = x
        <3>1. x = 0 * 256 + x /\ x \in 0..256 - 1
            BY <2>4
        <3> QED
            BY <3>1, RemainderUnique
    <2>6. x % length = x
        <3>1. x = 0 * length + x /\ x \in 0..length - 1
            BY <2>4
        <3> QED
            BY <3>1, RemainderUnique
    <2> QED
        BY <2>3, <2>4, <2>5, <2>6 DEF Shift
<1> QED
    BY <1>3, <1>5, <1>6, <1>7 DEF Foldable

\* What a group of directions contributes.
LEMMA ChunkElements ==
    ASSUME NEW ones \in SUBSET Int, NEW length, NEW width, Foldable(length, width),
           NEW group \in 0..Groups(length, width) - 1, NEW j
    PROVE  j \in Chunk(ones, length, group, width)
             <=> j \in 0..width - 1 /\ j + group * width \in ones
<1>1. PICK x \in Nat : x = group * width
    BY DEF Foldable
<1>2. Chunk(ones, length, group, width) = {i - x : i \in ones} \cap (0..width - 1)
    BY <1>1 DEF Foldable, Chunk, Resized, Bits
<1>3. width \in Nat
    BY DEF Foldable
<1>4. ASSUME j \in 0..width - 1 PROVE j \in {i - x : i \in ones} <=> j + x \in ones
    <2>1. j \in Int /\ (j + x) - x = j
        BY <1>4
    <2>2. ASSUME NEW i \in ones, j = i - x PROVE j + x \in ones
        <3>1. j + x = i
            BY <2>2
        <3> QED
            BY <3>1
    <2> QED
        BY <2>1, <2>2
<1> QED
    BY <1>1, <1>2, <1>4

\* Fold's prefixes, group after group.
FoldsBy(f, ones, length, width) ==
    LET groups == Groups(length, width)
    IN  /\ f[0] = {}
        /\ \A n \in 0..groups - 1 :
             f[n + 1] = SymDiff(f[n], Chunk(ones, length, n, width))
        /\ f[groups] = Fold(ones, length, width)

LEMMA FoldPrefixes ==
    ASSUME NEW ones, NEW length, NEW width, Foldable(length, width)
    PROVE  \E f : FoldsBy(f, ones, length, width)
<1>1. PICK G \in Nat \ {0} : G = Groups(length, width)
    BY DEF Foldable
<1> DEFINE chunk(n) == Chunk(ones, length, n, width)
           Table(f, n) == /\ f[0] = {}
                          /\ \A m \in 0..n - 1 : f[m + 1] = SymDiff(f[m], chunk(m))
           Is(f) == f = [n \in 0..G |-> IF n = 0 THEN {} ELSE SymDiff(f[n - 1], chunk(n - 1))]
           Reached == {n \in Nat : \E f : Table(f, n)}
<1> HIDE DEF chunk
<1>2. 0 \in Reached
    <2>1. Table([m \in {0} |-> {}], 0)
        OBVIOUS
    <2> QED
        BY <2>1
<1>3. ASSUME NEW n \in Nat, n \in Reached PROVE n + 1 \in Reached
    <2>1. PICK f : Table(f, n)
        BY <1>3
    <2> DEFINE g == [m \in 0..n + 1 |-> IF m = n + 1 THEN SymDiff(f[n], chunk(n)) ELSE f[m]]
    <2>2. g[0] = {}
        BY <2>1
    <2>3. ASSUME NEW m \in 0..(n + 1) - 1 PROVE g[m + 1] = SymDiff(g[m], chunk(m))
        <3>1. m \in 0..n /\ g[m] = f[m]
            BY <2>3
        <3>2. CASE m = n
            BY <3>1, <3>2
        <3>3. CASE m # n
            <4>1. m \in 0..n - 1 /\ g[m + 1] = f[m + 1]
                BY <3>1, <3>3
            <4> QED
                BY <2>1, <3>1, <4>1
        <3> QED
            BY <3>2, <3>3
    <2> HIDE DEF g
    <2>4. Table(g, n + 1)
        BY <2>2, <2>3
    <2> HIDE DEF Table
    <2> QED
        BY <2>4
<1>4. PICK f : Table(f, G)
    <2>1. G \in Reached
        <3> HIDE DEF Reached
        <3> QED
            BY <1>2, <1>3, NatSetInduction
    <2> HIDE DEF Table
    <2> QED
        BY <2>1
<1> DEFINE h == [n \in 0..G |-> f[n]]
           folded == CHOOSE k : Is(k)
<1>5. Is(h)
    <2>1. ASSUME NEW n \in 0..G
          PROVE  f[n] = IF n = 0 THEN {} ELSE SymDiff(h[n - 1], chunk(n - 1))
        <3>1. CASE n = 0
            BY <1>4, <3>1
        <3>2. CASE n # 0
            <4>1. n - 1 \in 0..G - 1 /\ n - 1 \in 0..G /\ (n - 1) + 1 = n
                BY <3>2
            <4>2. f[(n - 1) + 1] = SymDiff(f[n - 1], chunk(n - 1))
                BY <1>4, <4>1
            <4> QED
                BY <3>2, <4>1, <4>2
        <3> QED
            BY <3>1, <3>2
    <2> QED
        BY <2>1
<1>6. Is(folded)
    <2> HIDE DEF Is
    <2> QED
        BY <1>5
<1>7. Fold(ones, length, width) = folded[G]
    BY <1>1 DEF Fold, chunk
<1> HIDE DEF folded
<1>8. folded[0] = {}
    BY <1>6
<1>9. ASSUME NEW n \in 0..G - 1 PROVE folded[n + 1] = SymDiff(folded[n], chunk(n))
    <2>1. n + 1 \in 0..G /\ n + 1 # 0 /\ (n + 1) - 1 = n
        OBVIOUS
    <2> QED
        BY <1>6, <2>1
<1> QED
    BY <1>1, <1>7, <1>8, <1>9 DEF FoldsBy, chunk

LEMMA FoldSteps ==
    ASSUME NEW ones \in SUBSET Int, NEW length, NEW width, Foldable(length, width),
           NEW f, FoldsBy(f, ones, length, width),
           NEW n \in 0..Groups(length, width) - 1, NEW j
    PROVE  j \in f[n + 1]
             <=> ~(j \in f[n] <=> j \in 0..width - 1 /\ j + n * width \in ones)
<1>1. f[n + 1] = SymDiff(f[n], Chunk(ones, length, n, width))
    BY DEF FoldsBy
<1>2. j \in Chunk(ones, length, n, width)
        <=> j \in 0..width - 1 /\ j + n * width \in ones
    BY ChunkElements
<1> QED
    BY <1>1, <1>2, HashDiff

\* A fold has no bits beyond its width.
LEMMA FoldWithin ==
    ASSUME NEW ones \in SUBSET Int, NEW length, NEW width, Foldable(length, width)
    PROVE  Fold(ones, length, width) \subseteq 0..width - 1
<1>1. PICK G \in Nat \ {0} : G = Groups(length, width)
    BY DEF Foldable
<1>2. PICK f : FoldsBy(f, ones, length, width)
    BY FoldPrefixes
<1> DEFINE Good == {n \in Nat : n <= G => f[n] \subseteq 0..width - 1}
<1>3. 0 \in Good
    BY <1>2 DEF FoldsBy
<1>4. ASSUME NEW n \in Nat, n \in Good PROVE n + 1 \in Good
    <2> SUFFICES ASSUME n + 1 <= G, NEW j \in f[n + 1] PROVE j \in 0..width - 1
        OBVIOUS
    <2>1. n \in 0..G - 1 /\ f[n] \subseteq 0..width - 1
        BY <1>4
    <2>2. j \in f[n + 1] <=> ~(j \in f[n] <=> j \in 0..width - 1 /\ j + n * width \in ones)
        BY <1>1, <1>2, <2>1, FoldSteps
    <2> QED
        BY <2>1, <2>2
<1>5. G \in Good
    <2> HIDE DEF Good
    <2> QED
        BY <1>3, <1>4, NatSetInduction
<1> QED
    BY <1>1, <1>2, <1>5 DEF FoldsBy

\* Another direction changes one bit of the fold.
LEMMA FoldToggle ==
    ASSUME NEW ones \in SUBSET Int, NEW other \in SUBSET Int,
           NEW length, NEW width, Foldable(length, width), NEW i \in 0..length - 1,
           Differ(other, ones, i)
    PROVE  Differ(Fold(other, length, width), Fold(ones, length, width), i % width)
<1>1. PICK G \in Nat \ {0} : G = Groups(length, width)
    BY DEF Foldable
<1>2. length \in Nat \ {0} /\ width \in Nat \ {0} /\ length <= G * width /\ G * width \in Int
    BY <1>1 DEF Foldable
<1>3. PICK f : FoldsBy(f, ones, length, width)
    BY FoldPrefixes
<1>4. PICK g : FoldsBy(g, other, length, width)
    BY FoldPrefixes
<1> DEFINE Toggled(n, j) ==
             j \in g[n] <=> ~(j \in f[n] <=> i < n * width /\ j = i % width)
           Good == {n \in Nat : n <= G => \A j : Toggled(n, j)}
<1>5. 0 \in Good
    <2>1. 0 * width = 0 /\ f[0] = {} /\ g[0] = {}
        BY <1>2, <1>3, <1>4 DEF FoldsBy
    <2> QED
        BY <2>1
<1>6. ASSUME NEW n \in Nat, n \in Good PROVE n + 1 \in Good
    <2> SUFFICES ASSUME n + 1 <= G, NEW j PROVE Toggled(n + 1, j)
        OBVIOUS
    <2>1. n \in 0..G - 1 /\ Toggled(n, j)
        BY <1>6
    <2>2. PICK P \in Nat : P = n * width
        BY <1>2, ProductIsNat
    <2>3. (n + 1) * width = P + width
        BY <1>2, <2>2
    <2>4. j \in f[n + 1] <=> ~(j \in f[n] <=> j \in 0..width - 1 /\ j + P \in ones)
        BY <1>1, <1>3, <2>1, <2>2, FoldSteps
    <2>5. j \in g[n + 1] <=> ~(j \in g[n] <=> j \in 0..width - 1 /\ j + P \in other)
        BY <1>1, <1>4, <2>1, <2>2, FoldSteps
    <2>6. j \in g[n] <=> ~(j \in f[n] <=> i < P /\ j = i % width)
        BY <2>1, <2>2
    <2>7. j + P \in other <=> ~(j + P \in ones <=> j + P = i)
        BY DEF Differ
    <2>8. j \in 0..width - 1 /\ j + P = i <=> P <= i /\ i < P + width /\ j = i % width
        <3>1. ASSUME j \in 0..width - 1, j + P = i
              PROVE  P <= i /\ i < P + width /\ j = i % width
            <4>1. i \in Int /\ i = n * width + j
                BY <2>2, <3>1
            <4>2. j = i % width
                BY <1>2, <3>1, <4>1, RemainderUnique
            <4>3. P <= i /\ i < P + width
                BY <1>2, <3>1
            <4> QED
                BY <4>2, <4>3
        <3>2. ASSUME P <= i, i < P + width, j = i % width
              PROVE  j \in 0..width - 1 /\ j + P = i
            <4>1. PICK k \in 0..width - 1 : i = k + P
                BY <1>2, <3>2
            <4>2. i \in Int /\ n \in Int /\ i = n * width + k
                BY <2>2, <4>1
            <4>3. i % width = k
                <5>1. width \in Nat \ {0} /\ k \in 0..width - 1
                    BY <1>2, <4>1
                <5> QED
                    BY <4>2, <5>1, RemainderUnique
            <4> QED
                BY <3>2, <4>1, <4>3
        <3> QED
            BY <3>1, <3>2
    <2>9. i < P + width <=> i < P \/ (P <= i /\ i < P + width)
        BY <1>2
    <2>10. ~(i < P /\ P <= i)
        BY <1>2
    <2>11. j \in g[n + 1] <=> ~(j \in f[n + 1] <=> i < P + width /\ j = i % width)
        BY <2>4, <2>5, <2>6, <2>7, <2>8, <2>9, <2>10, Zenon
    <2> QED
        BY <2>3, <2>11
<1>7. \A j : Toggled(G, j)
    <2>1. G \in Good
        <3> HIDE DEF Good
        <3> QED
            BY <1>5, <1>6, NatSetInduction
    <2> QED
        BY <2>1
<1>8. i < G * width
    BY <1>2
<1> QED
    BY <1>1, <1>3, <1>4, <1>7, <1>8 DEF FoldsBy, Differ

\* The place a turn brings to place j of a register.
Before(j, width) == IF j = 0 THEN width - 1 ELSE j - 1

\* A turned register.
LEMMA TurnedPlaces ==
    ASSUME NEW width \in Nat \ {0}, NEW ones \in SUBSET (0..width - 1), NEW j \in 0..width - 1
    PROVE  j \in Hardware!Turned(ones, width) <=> Before(j, width) \in ones
<1>1. ASSUME NEW i \in 0..width - 1 PROVE (i + 1) % width = j <=> i = Before(j, width)
    <2>1. CASE i = width - 1
        <3>1. i + 1 = 1 * width + 0 /\ 0 \in 0..width - 1 /\ i + 1 \in Int
            BY <2>1
        <3>2. (i + 1) % width = 0
            BY <3>1, RemainderUnique
        <3> QED
            BY <2>1, <3>2 DEF Before
    <2>2. CASE i # width - 1
        <3>1. i + 1 = 0 * width + (i + 1) /\ i + 1 \in 0..width - 1 /\ i + 1 \in Int
            BY <2>2
        <3>2. (i + 1) % width = i + 1
            BY <3>1, RemainderUnique
        <3> QED
            BY <2>2, <3>2 DEF Before
    <2> QED
        BY <2>1, <2>2
<1>2. Before(j, width) \in 0..width - 1
    BY DEF Before
<1>3. j \in Hardware!Turned(ones, width) <=> \E i \in ones : (i + 1) % width = j
    BY DEF Hardware!Turned
<1> HIDE DEF Before
<1> QED
    BY <1>1, <1>2, <1>3

\* Older by one, the directions are folded into the turned register, as long as
\* none of them leaves.
LEMMA FoldAges ==
    ASSUME NEW length, NEW width, Foldable(length, width),
           NEW ones \in SUBSET (0..length - 2), NEW next \in SUBSET Int,
           \A k \in Int : k \in next <=> k - 1 \in ones,
           NEW j \in 0..width - 1
    PROVE  j \in Fold(next, length, width)
             <=> Before(j, width) \in Fold(ones, length, width)
<1>1. PICK G \in Nat \ {0} : G = Groups(length, width)
    BY DEF Foldable
<1>2. /\ length \in Nat \ {0} /\ width \in Nat \ {0} /\ length <= G * width /\ G * width \in Int
      /\ ones \in SUBSET Int
    BY <1>1 DEF Foldable
<1>3. PICK f : FoldsBy(f, ones, length, width)
    BY <1>2, FoldPrefixes
<1>4. PICK g : FoldsBy(g, next, length, width)
    BY FoldPrefixes
<1>5. PICK b \in 0..width - 1 : b = Before(j, width)
    BY <1>2 DEF Before
<1> DEFINE Aged(n) == j \in g[n] <=> ~(b \in f[n] <=> j = 0 /\ n * width - 1 \in ones)
           Good == {n \in Nat : n <= G => Aged(n)}
<1>6. 0 \in Good
    <2>1. 0 * width - 1 \notin ones /\ f[0] = {} /\ g[0] = {}
        BY <1>2, <1>3, <1>4 DEF FoldsBy
    <2> QED
        BY <2>1
<1>7. ASSUME NEW n \in Nat, n \in Good PROVE n + 1 \in Good
    <2> SUFFICES ASSUME n + 1 <= G PROVE Aged(n + 1)
        OBVIOUS
    <2>1. n \in 0..G - 1 /\ Aged(n)
        BY <1>7
    <2>2. PICK P \in Nat : P = n * width
        BY <1>2, ProductIsNat
    <2>3. (n + 1) * width - 1 = P + width - 1
        BY <1>2, <2>2
    <2>4. b \in f[n + 1] <=> ~(b \in f[n] <=> b + P \in ones)
        BY <1>1, <1>2, <1>3, <1>5, <2>1, <2>2, FoldSteps
    <2>5. j \in g[n + 1] <=> ~(j \in g[n] <=> j + P \in next)
        BY <1>1, <1>4, <2>1, <2>2, FoldSteps
    <2>6. j \in g[n] <=> ~(b \in f[n] <=> j = 0 /\ P - 1 \in ones)
        BY <2>1, <2>2
    <2>7. j + P \in next <=> (j + P) - 1 \in ones
        BY <1>2, <2>2
    <2>8. CASE j = 0
        <3>1. b + P = P + width - 1 /\ (j + P) - 1 = P - 1
            BY <1>2, <1>5, <2>2, <2>8 DEF Before
        <3>2. j \in g[n + 1] <=> ~(b \in f[n + 1] <=> j = 0 /\ P + width - 1 \in ones)
            BY <2>4, <2>5, <2>6, <2>7, <2>8, <3>1
        <3> QED
            BY <2>3, <3>2
    <2>9. CASE j # 0
        <3>1. b + P = (j + P) - 1
            BY <1>2, <1>5, <2>2, <2>9 DEF Before
        <3>2. j \in g[n + 1] <=> ~(b \in f[n + 1] <=> j = 0 /\ P + width - 1 \in ones)
            BY <2>4, <2>5, <2>6, <2>7, <2>9, <3>1
        <3> QED
            BY <2>3, <3>2
    <2> QED
        BY <2>8, <2>9
<1>8. Aged(G)
    <2>1. G \in Good
        <3> HIDE DEF Good
        <3> QED
            BY <1>6, <1>7, NatSetInduction
    <2> QED
        BY <2>1
<1>9. G * width - 1 \notin ones
    BY <1>2
<1> QED
    BY <1>1, <1>3, <1>4, <1>5, <1>8, <1>9 DEF FoldsBy

\* The place of the direction that leaves, before the turn.
LEMMA LeavingPlace ==
    ASSUME NEW width \in Nat \ {0}, NEW length \in Nat \ {0}, NEW j \in 0..width - 1
    PROVE  Before(j, width) = (length - 1) % width <=> j = length % width
<1>1. PICK q, r : q = length \div width /\ r = length % width
    OBVIOUS
<1>2. q \in Int /\ r \in 0..width - 1 /\ length = width * q + r
    BY <1>1, QuotientAndRemainder
<1>3. PICK P \in Int : P = q * width /\ width * q = P /\ (q - 1) * width = P - width
    BY <1>2
<1>4. (length - 1) % width = Before(r, width)
    <2>1. CASE r = 0
        <3>1. PICK p \in Int, s \in 0..width - 1, x \in Int :
                p = q - 1 /\ s = width - 1 /\ x = length - 1
            BY <1>2
        <3>2. x = p * width + s
            BY <1>2, <1>3, <2>1, <3>1
        <3>3. x % width = s
            BY <3>2, RemainderUnique
        <3> QED
            BY <2>1, <3>1, <3>3 DEF Before
    <2>2. CASE r # 0
        <3>1. length - 1 = q * width + (r - 1) /\ length - 1 \in Int /\ r - 1 \in 0..width - 1
            BY <1>2, <1>3, <2>2
        <3>2. (length - 1) % width = r - 1
            BY <1>2, <3>1, RemainderUnique
        <3> QED
            BY <2>2, <3>2 DEF Before
    <2> QED
        BY <2>1, <2>2
<1>5. Before(j, width) = Before(r, width) <=> j = r
    BY <1>2 DEF Before
<1> QED
    BY <1>1, <1>4, <1>5

\* One direction enters, the oldest leaves.
LEMMA FoldPush ==
    ASSUME NEW length, NEW width, Foldable(length, width),
           NEW ones \in SUBSET (0..length - 1), NEW taken \in BOOLEAN,
           NEW pushed \in SUBSET (0..length - 1),
           \A k \in 0..length - 1 : k \in pushed <=> k - 1 \in ones \/ (k = 0 /\ taken),
           NEW j \in 0..width - 1
    PROVE  j \in Fold(pushed, length, width)
             <=> ~(~(Before(j, width) \in Fold(ones, length, width) <=> j = 0 /\ taken)
                     <=> j = length % width /\ length - 1 \in ones)
<1>1. length \in Nat \ {0} /\ width \in Nat \ {0}
    BY DEF Foldable
<1>2. PICK staying \in SUBSET (0..length - 2) : staying = ones \ {length - 1}
    <2>1. ASSUME NEW k \in ones \ {length - 1} PROVE k \in 0..length - 2
        BY <1>1
    <2> QED
        BY <2>1
<1>3. PICK next \in SUBSET (0..length - 1) : \A k \in Int : k \in next <=> k - 1 \in staying
    <2> DEFINE later == {k \in 0..length - 1 : k - 1 \in staying}
    <2>1. \A k \in Int : k \in later <=> k - 1 \in staying
        BY <1>1
    <2> QED
        BY <2>1
<1>4. ones \in SUBSET Int /\ staying \in SUBSET Int /\ next \in SUBSET Int /\ pushed \in SUBSET Int
    BY <1>1
<1>5. PICK b : b = Before(j, width)
    OBVIOUS
<1>6. j \in Fold(next, length, width) <=> b \in Fold(staying, length, width)
    BY <1>3, <1>4, <1>5, FoldAges
<1>7. b \in Fold(ones, length, width)
        <=> ~(b \in Fold(staying, length, width)
                <=> j = length % width /\ length - 1 \in ones)
    <2>1. CASE length - 1 \in ones
        <3>1. Differ(ones, staying, length - 1)
            BY <1>2, <2>1 DEF Differ
        <3>2. length - 1 \in 0..length - 1
            BY <1>1
        <3>3. b \in Fold(ones, length, width)
                <=> ~(b \in Fold(staying, length, width) <=> b = (length - 1) % width)
            BY <1>4, <3>1, <3>2, FoldToggle DEF Differ
        <3> QED
            BY <1>1, <1>5, <2>1, <3>3, LeavingPlace
    <2>2. CASE length - 1 \notin ones
        <3>1. staying = ones
            BY <1>2, <2>2
        <3> QED
            BY <2>2, <3>1
    <2> QED
        BY <2>1, <2>2
<1>8. \A k \in 0..length - 1 : k \in pushed <=> k \in next \/ (k = 0 /\ taken)
    <2> SUFFICES ASSUME NEW k \in 0..length - 1
                 PROVE  k - 1 \in ones <=> k - 1 \in staying
        BY <1>1, <1>3
    <2> QED
        BY <1>1, <1>2
<1>9. 0 \notin next
    BY <1>1, <1>3
<1>10. j \in Fold(pushed, length, width)
         <=> ~(j \in Fold(next, length, width) <=> j = 0 /\ taken)
    <2>1. CASE taken
        <3>1. 0 \in 0..length - 1 /\ 0 % width = 0
            <4>1. 0 = 0 * width + 0 /\ 0 \in 0..width - 1
                BY <1>1
            <4> QED
                BY <1>1, <4>1, RemainderUnique
        <3>2. Differ(pushed, next, 0)
            BY <1>8, <1>9, <2>1, <3>1 DEF Differ
        <3>3. j \in Fold(pushed, length, width)
                <=> ~(j \in Fold(next, length, width) <=> j = 0 % width)
            BY <1>4, <3>1, <3>2, FoldToggle DEF Differ
        <3> QED
            BY <2>1, <3>1, <3>3
    <2>2. CASE ~taken
        <3>1. pushed = next
            BY <1>8, <2>2
        <3> QED
            BY <2>2, <3>1
    <2> QED
        BY <2>1, <2>2
<1> QED
    BY <1>5, <1>6, <1>7, <1>10, Zenon

-----------------------------------------------------------------------------
\* The folds of the history are the registers that hardware would keep.
HistoryFits == history \subseteq Bits(HistoryBits)

LEMMA RegistersFold ==
    ASSUME NEW r \in Registers
    PROVE  /\ r.length \in {10, 20, 40, 80} /\ r.width \in {7, 8, 10}
           /\ Foldable(r.length, r.width)
<1>1. /\ r.length \in {10, 20, 40, 80} /\ r.width \in {7, 8, 10}
      /\ r.length \in 1..256 /\ r.width \in 1..r.length
    BY DEF Registers
<1> QED
    BY <1>1, FoldableRegister

LEMMA PushedDirections ==
    ASSUME NEW h \in SUBSET (0..79), NEW taken \in BOOLEAN, NEW next, next = Pushed(h, taken)
    PROVE  /\ next \in SUBSET (0..79)
           /\ \A k \in 0..79 : k \in next <=> k - 1 \in h \/ (k = 0 /\ taken)
<1>1. ASSUME NEW k PROVE k \in next
                           <=> (k \in 0..79 /\ \E i \in h : k = i + 1) \/ (k = 0 /\ taken)
    BY DEF Pushed, Resized, Bits, HistoryBits
<1>2. ASSUME NEW k \in 0..79 PROVE (\E i \in h : k = i + 1) <=> k - 1 \in h
    <2>1. (k - 1) + 1 = k
        OBVIOUS
    <2>2. ASSUME NEW i \in h, k = i + 1 PROVE k - 1 = i
        BY <2>2
    <2> QED
        BY <2>1, <2>2
<1> QED
    BY <1>1, <1>2

LEMMA HistoryInvariance == HashSpec => []HistoryFits
<1>1. HashInit => HistoryFits
    BY DEF HashInit, HistoryFits
<1>2. HistoryFits /\ [HashNext]_hashVars => HistoryFits'
    <2>1. ASSUME HistoryFits, NEW taken \in BOOLEAN, Update(taken) PROVE HistoryFits'
        <3>1. PICK h, next : h = history /\ next = history'
            OBVIOUS
        <3>2. h \in SUBSET (0..79) /\ next = Pushed(h, taken)
            BY <2>1, <3>1 DEF HistoryFits, Update, Bits, HistoryBits
        <3>3. next \in SUBSET (0..79)
            BY <3>2, PushedDirections
        <3> QED
            BY <3>1, <3>3 DEF HistoryFits, Bits, HistoryBits
    <2>2. ASSUME HistoryFits, UNCHANGED hashVars PROVE HistoryFits'
        BY <2>2 DEF HistoryFits, hashVars
    <2> QED
        BY <2>1, <2>2 DEF HashNext
<1> QED
    BY <1>1, <1>2, PTL DEF HashSpec

\* The registers as the code folds them out of a history.
FoldsOf(h) ==
    [r \in Registers |-> Fold(Resized(h, r.length), r.length, r.width)]

LEMMA FoldOfNothing ==
    ASSUME NEW length, NEW width, Foldable(length, width)
    PROVE  Fold({}, length, width) = {}
<1>1. PICK G \in Nat \ {0} : G = Groups(length, width)
    BY DEF Foldable
<1>2. PICK f : FoldsBy(f, {}, length, width)
    BY FoldPrefixes
<1> DEFINE Good == {n \in Nat : n <= G => f[n] = {}}
<1>3. 0 \in Good
    BY <1>2 DEF FoldsBy
<1>4. ASSUME NEW n \in Nat, n \in Good PROVE n + 1 \in Good
    <2> SUFFICES ASSUME n + 1 <= G PROVE f[n + 1] = {}
        OBVIOUS
    <2>1. n \in 0..G - 1 /\ f[n] = {}
        BY <1>4
    <2>2. ASSUME NEW j PROVE j \notin f[n + 1]
        BY <1>1, <1>2, <2>1, FoldSteps
    <2> QED
        BY <2>2
<1>5. G \in Good
    <2> HIDE DEF Good
    <2> QED
        BY <1>3, <1>4, NatSetInduction
<1> QED
    BY <1>1, <1>2, <1>5 DEF FoldsBy

\* Register r has turned by one bit, a direction has entered it, and the oldest
\* has left.
TurnedBy(taken, h, next, r) ==
    FoldsOf(next)[r]
      = SymDiff(SymDiff(Hardware!Turned(FoldsOf(h)[r], r.width),
                                  IF taken THEN {0} ELSE {}),
                     IF r.length - 1 \in h THEN {r.length % r.width} ELSE {})

LEMMA FoldsTurn ==
    ASSUME NEW h \in SUBSET (0..79), NEW taken \in BOOLEAN, NEW next, next = Pushed(h, taken),
           NEW r \in Registers
    PROVE  TurnedBy(taken, h, next, r)
<1>1. PICK length, width : length = r.length /\ width = r.width
    OBVIOUS
<1>2. length \in {10, 20, 40, 80} /\ width \in {7, 8, 10} /\ Foldable(length, width)
    BY <1>1, RegistersFold
<1>3. width \in Nat \ {0} /\ length \in Nat \ {0} /\ length % width \in 0..width - 1
    BY <1>2
<1> DEFINE old == Resized(h, length)
           new == Resized(next, length)
<1>4. old \in SUBSET (0..length - 1) /\ new \in SUBSET (0..length - 1)
    BY DEF Resized, Bits
<1>5. \A k \in 0..length - 1 : k \in new <=> k - 1 \in old \/ (k = 0 /\ taken)
    <2> SUFFICES ASSUME NEW k \in 0..length - 1
                 PROVE  k \in new <=> k - 1 \in old \/ (k = 0 /\ taken)
        OBVIOUS
    <2>1. k \in 0..79
        BY <1>2
    <2>2. k \in new <=> k \in next
        BY DEF Resized, Bits
    <2>3. k - 1 \in old <=> k - 1 \in h
        BY <1>2 DEF Resized, Bits
    <2> QED
        BY <2>1, <2>2, <2>3, PushedDirections
<1>6. length - 1 \in old <=> length - 1 \in h
    BY <1>3 DEF Resized, Bits
<1> HIDE DEF old, new
<1>7. PICK before, after : /\ before = Fold(old, length, width)
                           /\ after = Fold(new, length, width)
    OBVIOUS
<1>8. before \subseteq 0..width - 1 /\ after \subseteq 0..width - 1
    <2>1. old \in SUBSET Int /\ new \in SUBSET Int
        BY <1>4, <1>3
    <2> QED
        BY <1>2, <1>7, <2>1, FoldWithin
<1>9. PICK turned : turned = Hardware!Turned(before, width)
    OBVIOUS
<1>10. turned \subseteq 0..width - 1
    <2>1. ASSUME NEW i \in before PROVE (i + 1) % width \in 0..width - 1
        <3>1. i + 1 \in Int
            BY <1>8
        <3>2. PICK x \in Int : x = i + 1
            BY <3>1
        <3>3. x % width \in 0..width - 1
            BY <1>3
        <3> QED
            BY <3>2, <3>3
    <2> QED
        BY <1>9, <2>1 DEF Hardware!Turned
<1> DEFINE entering == IF taken THEN {0} ELSE {}
           leaving == IF length - 1 \in h THEN {length % width} ELSE {}
<1>11. ASSUME NEW j
       PROVE  j \in after <=> j \in SymDiff(SymDiff(turned, entering), leaving)
    <2>1. j \in SymDiff(SymDiff(turned, entering), leaving)
            <=> ~(~(j \in turned <=> j \in entering) <=> j \in leaving)
        BY HashDiff
    <2>2. j \in entering <=> j = 0 /\ taken
        OBVIOUS
    <2>3. j \in leaving <=> j = length % width /\ length - 1 \in h
        OBVIOUS
    <2>4. CASE j \in 0..width - 1
        <3>1. j \in after <=> ~(~(Before(j, width) \in before <=> j = 0 /\ taken)
                                  <=> j = length % width /\ length - 1 \in h)
            BY <1>2, <1>4, <1>5, <1>6, <1>7, <2>4, FoldPush
        <3>2. j \in turned <=> Before(j, width) \in before
            BY <1>3, <1>8, <1>9, <2>4, TurnedPlaces
        <3> QED
            BY <2>1, <2>2, <2>3, <3>1, <3>2, Zenon
    <2>5. CASE j \notin 0..width - 1
        <3>1. j \notin after /\ j \notin turned
            BY <1>8, <1>10, <2>5
        <3>2. j # 0 /\ j # length % width
            BY <1>3, <2>5
        <3> QED
            BY <2>1, <2>2, <2>3, <3>1, <3>2, Zenon
    <2> QED
        BY <2>4, <2>5
<1>12. after = SymDiff(SymDiff(turned, entering), leaving)
    <2>1. \A j : j \in after <=> j \in SymDiff(SymDiff(turned, entering), leaving)
        BY <1>11
    <2> QED
        BY <2>1 DEF SymDiff
<1>13. FoldsOf(h)[r] = before /\ FoldsOf(next)[r] = after
    BY <1>1, <1>7 DEF FoldsOf, old, new
<1> QED
    BY <1>1, <1>9, <1>12, <1>13 DEF TurnedBy

\* Every length and width the code folds, computed group by group out of the
\* history, is what a circular shift register of that width holds that never
\* sees the history: PPM::update and fold implement FoldedHistory.
THEOREM FoldsImplementRegisters == HashSpec => FoldsAreRegisters
<1>1. HashInit => Hardware!Init
    <2>1. ASSUME history = {}, NEW r \in Registers
          PROVE  Fold(Resized(history, r.length), r.length, r.width) = {}
        <3>1. Resized(history, r.length) = {}
            BY <2>1 DEF Resized
        <3> QED
            BY <3>1, RegistersFold, FoldOfNothing
    <2> QED
        BY <2>1 DEF HashInit, Hardware!Init
<1>2. HistoryFits /\ [HashNext]_hashVars => [Hardware!Next]_Hardware!vars
    <2>1. ASSUME HistoryFits, NEW taken \in BOOLEAN, Update(taken)
          PROVE  Hardware!Push(taken)
        <3>1. history \subseteq 0..79 /\ history' = Pushed(history, taken)
            BY <2>1 DEF HistoryFits, Update, Bits, HistoryBits
        <3>2. history' = ({i + 1 : i \in history} \cap 0..HistoryBits - 1)
                              \cup (IF taken THEN {0} ELSE {})
            BY <3>1 DEF Pushed, Resized, Bits
        <3>3. FoldsOf(history') = [r \in Registers |->
                 SymDiff(SymDiff(Hardware!Turned(FoldsOf(history)[r], r.width),
                                         IF taken THEN {0} ELSE {}),
                            IF r.length - 1 \in history THEN {r.length % r.width} ELSE {})]
            <4>1. \A r \in Registers : TurnedBy(taken, history, history', r)
                <5>1. PICK h, next : h = history /\ next = history'
                    OBVIOUS
                <5>2. h \in SUBSET (0..79) /\ next = Pushed(h, taken)
                    BY <3>1, <5>1
                <5> QED
                    BY <5>1, <5>2, FoldsTurn
            <4> QED
                BY <4>1 DEF FoldsOf, TurnedBy
        <3> QED
            BY <3>2, <3>3 DEF FoldsOf, Hardware!Push, SymDiff, Hardware!SymDiff
    <2>2. ASSUME UNCHANGED hashVars PROVE UNCHANGED Hardware!vars
        BY <2>2 DEF hashVars, Hardware!vars
    <2> QED
        BY <2>1, <2>2 DEF HashNext, Hardware!Next
<1> QED
    BY <1>1, <1>2, HistoryInvariance, PTL
       DEF HashSpec, FoldsAreRegisters, Hardware!Spec

\* What is computed from one more direction, and seen, of the newest directions.
Sees(seen, i, new, old, place) == IF i < seen THEN Differ(new, old, place) ELSE new = old

LEMMA OtherDirection ==
    ASSUME NEW h, NEW i \in Int, NEW g, Differ(g, h, i), NEW length \in Nat, 0 <= i
    PROVE  Sees(length, i, Resized(g, length), Resized(h, length), i)
<1> DEFINE old == Resized(h, length)
           new == Resized(g, length)
<1>1. ASSUME NEW k PROVE /\ k \in old <=> k \in h /\ k \in 0..length - 1
                         /\ k \in new <=> ~(k \in h <=> k = i) /\ k \in 0..length - 1
    BY DEF Differ, Resized, Bits
<1>2. i < length <=> i \in 0..length - 1
    OBVIOUS
<1>3. CASE i < length
    <2>1. Differ(new, old, i)
        <3> HIDE DEF old, new
        <3> QED
            BY <1>1, <1>2, <1>3 DEF Differ
    <2> QED
        BY <1>3, <2>1 DEF Sees
<1>4. CASE ~(i < length)
    <2>1. ASSUME NEW k PROVE k \in new <=> k \in old
        <3> HIDE DEF old, new
        <3> QED
            BY <1>1, <1>2, <1>4
    <2>2. new = old
        <3>1. \A k : k \in new <=> k \in old
            BY <2>1
        <3> QED
            BY <3>1 DEF Resized
    <2> QED
        BY <1>4, <2>2 DEF Sees
<1> QED
    BY <1>3, <1>4

LEMMA FoldOfOther ==
    ASSUME NEW h, NEW i \in Int, NEW g, Differ(g, h, i), 0 <= i,
           NEW length, NEW width, Foldable(length, width)
    PROVE  Sees(length, i, Fold(Resized(g, length), length, width),
                Fold(Resized(h, length), length, width), i % width)
<1>1. PICK old, new : old = Resized(h, length) /\ new = Resized(g, length)
    OBVIOUS
<1>2. length \in Nat
    BY DEF Foldable
<1>3. Sees(length, i, new, old, i)
    BY <1>1, <1>2, OtherDirection
<1>4. CASE i < length
    <2>1. Differ(new, old, i)
        BY <1>3, <1>4 DEF Sees
    <2>2. old \in SUBSET Int /\ new \in SUBSET Int
        BY <1>1, <1>2 DEF Resized, Bits
    <2>3. i \in 0..length - 1
        BY <1>2, <1>4
    <2>4. Differ(Fold(new, length, width), Fold(old, length, width), i % width)
        BY <2>1, <2>2, <2>3, FoldToggle
    <2> QED
        BY <1>1, <1>4, <2>4 DEF Sees
<1>5. CASE ~(i < length)
    <2>1. new = old
        BY <1>3, <1>5 DEF Sees
    <2> QED
        BY <1>1, <1>5, <2>1 DEF Sees
<1> QED
    BY <1>4, <1>5

LEMMA SeenIsFoldable ==
    ASSUME NEW t \in TableIds
    PROVE  /\ Seen(t) \in Nat /\ Seen(t) \in 10..80 /\ (t < 4 => Seen(t) <= 40)
           /\ Foldable(Seen(t), 10) /\ Foldable(Seen(t), 8) /\ Foldable(Seen(t), 7)
<1>1. PICK seen : seen = Seen(t)
    OBVIOUS
<1>2. seen \in Nat /\ seen \in 10..80 /\ (t < 4 => seen <= 40)
    BY <1>1 DEF Seen, TableIds
<1>3. ASSUME NEW width \in {7, 8, 10} PROVE Foldable(seen, width)
    <2>1. seen \in Nat /\ width \in Nat /\ 1 <= width /\ width <= seen /\ seen <= 256
        BY <1>2
    <2> QED
        BY <2>1, FoldableRegister
<1>4. Foldable(seen, 10) /\ Foldable(seen, 8) /\ Foldable(seen, 7)
    BY <1>3
<1> QED
    BY <1>1, <1>2, <1>4

LEMMA FoldedOfOther ==
    ASSUME NEW t \in TableIds, NEW h, NEW i \in Int, NEW g, Differ(g, h, i), 0 <= i
    PROVE  Sees(Seen(t), i, Folded(g, t), Folded(h, t), i % 10)
<1>1. PICK seen : seen = Seen(t)
    OBVIOUS
<1>2. CASE seen = 10
    <2>1. i < 10 => i % 10 = i
        OBVIOUS
    <2>2. Sees(10, i, Resized(g, 10), Resized(h, 10), i)
        BY OtherDirection
    <2>3. Sees(10, i, Resized(g, 10), Resized(h, 10), i % 10)
        BY <2>1, <2>2 DEF Sees
    <2> QED
        BY <1>1, <1>2, <2>3 DEF Folded
<1>3. CASE seen # 10
    <2>1. Foldable(seen, 10)
        BY <1>1, SeenIsFoldable
    <2>2. Sees(seen, i, Fold(Resized(g, seen), seen, 10),
               Fold(Resized(h, seen), seen, 10), i % 10)
        BY <2>1, FoldOfOther
    <2> QED
        BY <1>1, <1>3, <2>2 DEF Folded
<1> QED
    BY <1>2, <1>3

LEMMA IndexOfOther ==
    ASSUME NEW t \in TableIds, NEW a,
           NEW h, NEW i \in Int, NEW g, Differ(g, h, i), 0 <= i
    PROVE  i < Seen(t) <=> Index(t, a, g) # Index(t, a, h)
<1>1. PICK old, new : old = Folded(h, t) /\ new = Folded(g, t)
    OBVIOUS
<1>2. Sees(Seen(t), i, new, old, i % 10)
    BY <1>1, FoldedOfOther
<1>3. /\ Index(t, a, h) = SymDiff(AddressIndex(a), old)
      /\ Index(t, a, g) = SymDiff(AddressIndex(a), new)
    BY <1>1 DEF Index
<1>4. CASE i < Seen(t)
    <2>1. PICK k : k = i % 10
        OBVIOUS
    <2>2. ~(k \in new <=> k \in old)
        BY <1>2, <1>4, <2>1 DEF Sees, Differ
    <2>3. ~(k \in SymDiff(AddressIndex(a), new)
              <=> k \in SymDiff(AddressIndex(a), old))
        BY <2>2, HashDiff
    <2> QED
        BY <1>3, <1>4, <2>3
<1>5. CASE ~(i < Seen(t))
    BY <1>2, <1>3, <1>5 DEF Sees
<1> QED
    BY <1>4, <1>5

LEMMA TagOfOther ==
    ASSUME NEW t \in TableIds, NEW a,
           NEW h, NEW i \in Int, NEW g, Differ(g, h, i), 0 <= i
    PROVE  IF i < Seen(t) THEN t < 4 => Tag(t, a, g) # Tag(t, a, h)
                               ELSE Tag(t, a, g) = Tag(t, a, h)
<1>1. PICK seen : seen = Seen(t)
    OBVIOUS
<1>2. PICK old, new : old = Resized(h, seen) /\ new = Resized(g, seen)
    OBVIOUS
<1>3. PICK old1, new1, old2, new2 :
        /\ old1 = Fold(old, seen, 8) /\ new1 = Fold(new, seen, 8)
        /\ old2 = Fold(old, seen, 7) /\ new2 = Fold(new, seen, 7)
    OBVIOUS
<1>4. Sees(seen, i, new1, old1, i % 8)
    <2>1. Foldable(seen, 8)
        BY <1>1, SeenIsFoldable
    <2>2. Sees(seen, i, Fold(Resized(g, seen), seen, 8),
               Fold(Resized(h, seen), seen, 8), i % 8)
        BY <2>1, FoldOfOther
    <2> QED
        BY <1>2, <1>3, <2>2
<1>5. Sees(seen, i, new2, old2, i % 7)
    <2>1. Foldable(seen, 7)
        BY <1>1, SeenIsFoldable
    <2>2. Sees(seen, i, Fold(Resized(g, seen), seen, 7),
               Fold(Resized(h, seen), seen, 7), i % 7)
        BY <2>1, FoldOfOther
    <2> QED
        BY <1>2, <1>3, <2>2
<1> DEFINE Tagged(first, second) ==
             SymDiff(SymDiff(Resized(a, 8), first),
                          Resized({j + 1 : j \in second}, 8))
<1>6. Tag(t, a, h) = Tagged(old1, old2) /\ Tag(t, a, g) = Tagged(new1, new2)
    BY <1>1, <1>2, <1>3 DEF Tag
<1>7. ASSUME NEW first, NEW second, NEW k
      PROVE  k \in Tagged(first, second)
               <=> ~(~(k \in Resized(a, 8) <=> k \in first)
                       <=> k \in 0..7 /\ \E j \in second : k = j + 1)
    <2>1. k \in Resized({j + 1 : j \in second}, 8)
            <=> k \in 0..7 /\ \E j \in second : k = j + 1
        BY DEF Resized, Bits
    <2> QED
        BY <2>1, HashDiff
<1>8. ASSUME i < seen, t < 4 PROVE Tagged(new1, new2) # Tagged(old1, old2)
    <2>1. i \in 0..39
        BY <1>1, <1>8, SeenIsFoldable
    <2>2. PICK k \in 0..7, l \in 0..6 : k = i % 8 /\ l = i % 7
        BY <2>1
    <2>3. k # l + 1
        BY <2>1, <2>2
    <2>4. ~(k \in new1 <=> k \in old1)
        BY <1>4, <1>8, <2>2 DEF Sees, Differ
    <2>5. \A j : j # l => (j \in new2 <=> j \in old2)
        BY <1>5, <1>8, <2>2 DEF Sees, Differ
    <2>6. (\E j \in new2 : k = j + 1) <=> (\E j \in old2 : k = j + 1)
        BY <2>3, <2>5
    <2>7. ~(k \in Tagged(new1, new2) <=> k \in Tagged(old1, old2))
        <3> HIDE DEF Tagged
        <3> QED
            BY <1>7, <2>4, <2>6
    <2> HIDE DEF Tagged
    <2> QED
        BY <2>7
<1>9. ASSUME ~(i < seen) PROVE Tagged(new1, new2) = Tagged(old1, old2)
    <2>1. new1 = old1 /\ new2 = old2
        BY <1>4, <1>5, <1>9 DEF Sees
    <2> HIDE DEF Tagged
    <2> QED
        BY <2>1
<1> HIDE DEF Tagged
<1> QED
    BY <1>1, <1>6, <1>8, <1>9

\* Every direction of its length of history decides about a table's entry, and in
\* the first three tables about its tag; no older direction decides about either,
\* whatever the branch and however long it has run.
THEOREM DirectionsCount == HashSpec => []EachDirectionCounts
<1>1. ASSUME NEW t \in TableIds, NEW i \in Bits(HistoryBits)
      PROVE  LET other == SymDiff(history, {i})
             IN  /\ i < Seen(t)
                      <=> Index(t, address, other) # Index(t, address, history)
                 /\ i < Seen(t) /\ t < 4
                      => Tag(t, address, other) # Tag(t, address, history)
                 /\ i >= Seen(t)
                      => Tag(t, address, other) = Tag(t, address, history)
    <2>1. PICK h, a, seen, g : /\ h = history /\ a = address /\ seen = Seen(t)
                               /\ g = SymDiff(history, {i})
        OBVIOUS
    <2>2. i \in Int /\ 0 <= i
        BY DEF Bits, HistoryBits
    <2>3. Differ(g, h, i)
        BY <2>1, HashDiff DEF Differ
    <2>4. IF i < seen THEN t < 4 => Tag(t, a, g) # Tag(t, a, h)
                      ELSE Tag(t, a, g) = Tag(t, a, h)
        BY <2>1, <2>2, <2>3, TagOfOther
    <2>5. i < seen <=> Index(t, a, g) # Index(t, a, h)
        BY <2>1, <2>2, <2>3, IndexOfOther
    <2>6. i >= seen <=> ~(i < seen)
        BY <2>1, <2>2 DEF Seen, TableIds
    <2> QED
        BY <2>1, <2>4, <2>5, <2>6
<1>2. EachDirectionCounts
    BY <1>1 DEF EachDirectionCounts
<1> QED
    BY <1>2, PTL

-----------------------------------------------------------------------------
(***************************************************************************)
(* The operations of Value.                                                *)
(***************************************************************************)

\* The width divides the word.
LEMMA WidthInWord ==
    ASSUME bits \in 0..Word
    PROVE  /\ TwoTo[bits] \in Nat \ {0} /\ TwoTo[Word] \in Nat \ {0}
           /\ \E k \in Nat \ {0} : TwoTo[Word] = k * TwoTo[bits]
           /\ TwoTo[bits] <= TwoTo[Word]
           /\ 0..Mask \subseteq Words /\ 0 \in 0..Mask
<1>1. bits \in Nat /\ Word \in Nat
    BY WordAssumption
<1>2. PICK M, W : M = TwoTo[bits] /\ W = TwoTo[Word]
    OBVIOUS
<1>3. M \in Nat \ {0} /\ W \in Nat \ {0}
    BY <1>1, <1>2, TwoToValues
<1>4. PICK k \in Nat : W = k * M
    BY <1>1, <1>2, TwoToDivides
<1>5. k # 0
    BY <1>3, <1>4
<1>6. M <= W
    <2>1. 1 \in Nat /\ 1 <= k
        BY <1>4, <1>5
    <2>2. 1 * M <= k * M
        BY <1>3, <2>1, TimesMonotone
    <2> QED
        BY <1>3, <1>4, <2>2
<1>7. 0..M - 1 \subseteq 0..W - 1 /\ 0 \in 0..M - 1
    BY <1>3, <1>6
<1> QED
    BY <1>2, <1>3, <1>4, <1>5, <1>6, <1>7 DEF Mask, Words

\* What is cut to the word first is still right modulo the width.
LEMMA MaskedWord ==
    ASSUME bits \in 0..Word, NEW x \in Int
    PROVE  /\ Masked(x % TwoTo[Word]) = x % TwoTo[bits]
           /\ Masked(x) \in 0..Mask
<1>1. PICK k \in Nat \ {0} : TwoTo[Word] = k * TwoTo[bits]
    BY WidthInWord
<1>2. (x % TwoTo[Word]) % TwoTo[bits] = x % TwoTo[bits]
    BY <1>1, WidthInWord, RemainderOfRemainder
<1>3. x % TwoTo[bits] \in 0..TwoTo[bits] - 1
    BY WidthInWord, RemainderIsSmall
<1> QED
    BY <1>2, <1>3 DEF Masked, Mask

LEMMA MaskedSmall ==
    ASSUME bits \in 0..Word, NEW x \in 0..Mask
    PROVE  Masked(x) = x
BY WidthInWord, SmallRemainder DEF Masked, Mask

LEMMA UnboundedIsInt ==
    ASSUME NEW op \in Numeric, NEW x \in Nat, NEW y \in Nat
    PROVE  /\ Unbounded(op, x, y) \in Int
           /\ op \in {"add", "mul", "pow"} => Unbounded(op, x, y) \in Nat
           /\ op \in {"sub", "neg"} => Unbounded(op, x, y) <= x
<1>1. Power(x)[y] \in Nat
    BY PowerValues
<1>2. x * y \in Nat
    BY ProductIsNat
<1>3. op \in {"add", "sub", "mul", "pow", "neg"}
    BY DEF Numeric
<1>4. CASE op = "add"
    BY <1>4 DEF Unbounded
<1>5. CASE op = "sub"
    BY <1>5 DEF Unbounded
<1>6. CASE op = "mul"
    BY <1>2, <1>6 DEF Unbounded
<1>7. CASE op = "pow"
    BY <1>1, <1>7 DEF Unbounded
<1>8. CASE op = "neg"
    BY <1>8 DEF Unbounded
<1> QED
    BY <1>3, <1>4, <1>5, <1>6, <1>7, <1>8

\* Neither an overflow of the word nor one of the width alone goes unnoticed.
LEMMA FitsIsDefined ==
    ASSUME bits \in 0..Word, NEW op, NEW x, NEW y, Unbounded(op, x, y) \in Int
    PROVE  Fits(op, x, y) <=> Unbounded(op, x, y) \in 0..Mask
<1>1. PICK e \in Int : e = Unbounded(op, x, y)
    OBVIOUS
<1>2. Fits(op, x, y) <=> e \in Words /\ Masked(e % TwoTo[Word]) = e % TwoTo[Word]
    BY <1>1 DEF Fits, Carry, Raw
<1>3. ASSUME e \in 0..Mask PROVE e \in Words /\ Masked(e % TwoTo[Word]) = e % TwoTo[Word]
    <2>1. e \in Words
        BY <1>3, WidthInWord
    <2>2. e % TwoTo[Word] = e
        BY <2>1, WidthInWord, SmallRemainder DEF Words
    <2> QED
        BY <1>3, <2>1, <2>2, MaskedSmall
<1>4. ASSUME e \in Words, Masked(e % TwoTo[Word]) = e % TwoTo[Word] PROVE e \in 0..Mask
    <2>1. e % TwoTo[Word] = e
        BY <1>4, WidthInWord, SmallRemainder DEF Words
    <2> QED
        BY <1>4, <2>1, MaskedWord
<1> QED
    BY <1>1, <1>2, <1>3, <1>4

LEMMA NumericIsExact ==
    ASSUME bits \in 0..Word, NEW op \in Numeric, NEW variant, NEW x \in 0..Mask, NEW y \in Nat
    PROVE  /\ IsExact(op, variant, x, y, NumericOutcome(op, variant, x, y))
           /\ variant \in Variants(op) => NumericOutcome(op, variant, x, y).value \in 0..Mask
<1>1. PICK M \in Nat \ {0} : M = TwoTo[bits]
    BY WidthInWord
<1>2. PICK e \in Int : e = Unbounded(op, x, y)
    BY UnboundedIsInt, <1>1 DEF Mask
<1>3. PICK wrapped : wrapped = Masked(Raw(op, x, y))
    OBVIOUS
<1>4. wrapped = e % M /\ wrapped \in 0..M - 1
    <2>1. wrapped = e % M
        BY <1>1, <1>2, <1>3, MaskedWord DEF Raw
    <2> QED
        BY <1>1, <2>1, RemainderIsSmall
<1>5. Fits(op, x, y) <=> e \in 0..M - 1
    BY <1>1, <1>2, FitsIsDefined DEF Mask
<1>6. Exact(op, x, y) = e /\ (Defined(op, x, y) <=> e \in 0..M - 1)
    BY <1>1, <1>2 DEF Exact, Defined, Mask, Numeric, Division, Shifts
<1>7. op \notin Division /\ variant \in Variants(op) =>
        variant \in {"wrapping", "checked", "overflowing", "strict", "saturating"}
    BY DEF Numeric, Division, Variants, Shifts, Logic
<1>8. CASE variant = "wrapping"
    <2>1. NumericOutcome(op, variant, x, y) = Some(wrapped)
        BY <1>3, <1>8 DEF NumericOutcome
    <2> QED
        BY <1>1, <1>4, <1>6, <1>8, <2>1 DEF IsExact, Some, Mask, Numeric, Division
<1>9. CASE variant = "checked"
    <2>1. NumericOutcome(op, variant, x, y) = IF Fits(op, x, y) THEN Some(wrapped) ELSE None
        BY <1>3, <1>9 DEF NumericOutcome
    <2> QED
        BY <1>1, <1>4, <1>5, <1>6, <1>9, <2>1 DEF IsExact, Some, None, Mask, Numeric, Division
<1>10. CASE variant = "overflowing"
    <2>1. NumericOutcome(op, variant, x, y) = Flagged(wrapped, ~Fits(op, x, y))
        BY <1>3, <1>10 DEF NumericOutcome
    <2> QED
        BY <1>1, <1>4, <1>5, <1>6, <1>10, <2>1 DEF IsExact, Some, Flagged, Mask, Numeric, Division
<1>11. CASE variant = "strict"
    <2>1. NumericOutcome(op, variant, x, y) = IF Fits(op, x, y) THEN Some(wrapped) ELSE Panic
        BY <1>3, <1>11 DEF NumericOutcome
    <2> QED
        BY <1>1, <1>4, <1>5, <1>6, <1>11, <2>1 DEF IsExact, Some, Panic, Mask, Numeric, Division
<1>12. CASE variant = "saturating"
    <2>1. NumericOutcome(op, variant, x, y) = Some(IF Fits(op, x, y) THEN wrapped ELSE Bound(op))
        BY <1>3, <1>12 DEF NumericOutcome
    <2>2. Clamped(e) = IF e \in 0..M - 1 THEN wrapped ELSE Bound(op)
        <3>1. CASE e \in 0..M - 1
            <4>1. wrapped = e
                BY <1>4, <3>1, SmallRemainder
            <4> QED
                BY <1>1, <3>1, <4>1 DEF Clamped, Mask
        <3>2. CASE e \notin 0..M - 1 /\ op \in {"add", "mul", "pow"}
            <4>1. e >= M /\ Bound(op) = M - 1
                <5>1. e \in Nat
                    BY <1>1, <1>2, <3>2, UnboundedIsInt DEF Mask
                <5> QED
                    BY <1>1, <3>2, <5>1 DEF Bound, Mask
            <4> QED
                BY <1>1, <3>2, <4>1 DEF Clamped, Mask
        <3>3. CASE e \notin 0..M - 1 /\ op \in {"sub", "neg"}
            <4>1. e < 0 /\ Bound(op) = 0
                <5>1. e <= x /\ x \in 0..M - 1
                    BY <1>1, <1>2, <3>3, UnboundedIsInt DEF Mask
                <5> QED
                    BY <1>1, <3>3, <5>1 DEF Bound
            <4> QED
                BY <1>1, <3>3, <4>1 DEF Clamped
        <3> QED
            BY <3>1, <3>2, <3>3 DEF Numeric
    <2>3. Bound(op) \in 0..M - 1
        BY <1>1 DEF Bound, Mask
    <2>4. NumericOutcome(op, variant, x, y) = Some(Clamped(e))
        BY <1>5, <2>1, <2>2
    <2>5. Clamped(e) \in 0..M - 1
        BY <1>4, <2>2, <2>3
    <2> QED
        BY <1>1, <1>6, <1>12, <2>4, <2>5 DEF IsExact, Some, Mask, Numeric, Division
<1>13. CASE variant \notin {"wrapping", "checked", "overflowing", "strict", "saturating"}
    BY <1>7, <1>13 DEF IsExact, Numeric, Division
<1> QED
    BY <1>8, <1>9, <1>10, <1>11, <1>12, <1>13

LEMMA DivisionIsExact ==
    ASSUME bits \in 0..Word, NEW op \in Division, NEW variant \in Variants(op),
           NEW x \in 0..Mask, NEW y \in Nat
    PROVE  /\ IsExact(op, variant, x, y, DivisionOutcome(op, variant, x, y))
           /\ DivisionOutcome(op, variant, x, y).value \in 0..Mask
<1>1. PICK M \in Nat \ {0} : M = TwoTo[bits]
    BY WidthInWord
<1>2. x \in Nat /\ x \in 0..M - 1 /\ 0 \in 0..Mask
    BY <1>1 DEF Mask
<1>3. CASE y = 0
    <2>1. DivisionOutcome(op, variant, x, y) = IF variant = "checked" THEN None ELSE Panic
        BY <1>3 DEF DivisionOutcome
    <2> QED
        BY <1>2, <1>3, <2>1 DEF IsExact, None, Panic
<1>4. CASE y # 0
    <2>1. PICK e : e = IF op = "div" THEN x \div y ELSE x % y
        OBVIOUS
    <2>2. e \in Int /\ (op = "div" => e \in 0..M - 1)
        <3>1. y \in Nat \ {0} /\ x \in Int
            BY <1>2, <1>4
        <3>2. x \div y \in 0..x
            BY <1>2, <3>1, QuotientIsSmaller
        <3>3. x % y \in 0..y - 1
            BY <3>1, RemainderIsSmall
        <3> QED
            BY <1>2, <2>1, <3>2, <3>3
    <2>3. PICK wrapped : wrapped = Masked(e)
        OBVIOUS
    <2>4. wrapped = e % M /\ wrapped \in 0..M - 1
        <3>1. wrapped = e % M
            BY <1>1, <2>3 DEF Masked
        <3> QED
            BY <2>2, <3>1, RemainderIsSmall
    <2>5. DivisionOutcome(op, variant, x, y) = Some(wrapped)
        BY <1>4, <2>1, <2>3 DEF DivisionOutcome
    <2>6. Exact(op, x, y) = e /\ (Defined(op, x, y) <=> TRUE)
        <3>1. CASE op = "div"
            BY <1>4, <2>1, <3>1 DEF Exact, Defined, Numeric, Division, Shifts
        <3>2. CASE op = "rem"
            BY <1>4, <2>1, <3>2 DEF Exact, Defined, Numeric, Division, Shifts
        <3> QED
            BY <3>1, <3>2 DEF Division
    <2>7. op = "div" => Clamped(e) = wrapped
        <3> SUFFICES ASSUME op = "div" PROVE Clamped(e) = wrapped
            OBVIOUS
        <3>1. wrapped = e
            BY <2>2, <2>4, SmallRemainder
        <3> QED
            BY <1>1, <2>2, <3>1 DEF Clamped, Mask
    <2>8. variant = "saturating" => op = "div"
        BY DEF Variants, Division, Numeric, Shifts, Logic
    <2>9. Some(wrapped).value = wrapped /\ Flagged(wrapped, FALSE) = Some(wrapped)
        BY DEF Some, Flagged
    <2> QED
        BY <1>1, <1>4, <2>4, <2>5, <2>6, <2>7, <2>8, <2>9 DEF IsExact, Mask
<1> QED
    BY <1>3, <1>4

LEMMA ReducedIsRemainder ==
    ASSUME bits \in 0..Word, NEW y \in Nat
    PROVE  /\ Reduced(y) = IF bits = 0 THEN 0 ELSE y % bits
           /\ Reduced(y) \in Nat
           /\ y < bits => Reduced(y) = y
<1>1. bits \in Nat
    BY WordAssumption
<1>2. PICK n \in Nat : n = bits
    BY <1>1
<1>3. CASE n > 1
    <2>1. y % n \in 0..n - 1
        BY <1>3, RemainderIsSmall
    <2>2. y < n => y % n = y
        BY <1>3, SmallRemainder
    <2> QED
        BY <1>2, <1>3, <2>1, <2>2 DEF Reduced
<1>4. CASE n <= 1
    <2>1. y % 1 = 0
        <3>1. y = y * 1 + 0 /\ y \in Int /\ 0 \in 0..1 - 1 /\ 1 \in Nat \ {0}
            OBVIOUS
        <3> QED
            BY <3>1, RemainderUnique
    <2> QED
        BY <1>2, <1>4, <2>1 DEF Reduced
<1> QED
    BY <1>3, <1>4

LEMMA ShiftedIsExact ==
    ASSUME bits \in 0..Word, NEW op \in Shifts, NEW x \in 0..Mask, NEW y \in Nat
    PROVE  /\ Shifted(op, x, Reduced(y)) = Exact(op, x, y) % TwoTo[bits]
           /\ Shifted(op, x, Reduced(y)) \in 0..Mask
<1>1. PICK count \in Nat : count = Reduced(y)
    BY ReducedIsRemainder
<1>2. PICK p \in Nat \ {0} : p = TwoTo[count]
    BY TwoToValues
<1>3. PICK e : e = IF op = "shl" THEN x * p ELSE x \div p
    OBVIOUS
<1>4. x \in Nat
    BY WidthInWord DEF Mask
<1>5. e \in Int
    BY <1>2, <1>3, <1>4, ProductIsNat, QuotientIsSmaller
<1>6. Exact(op, x, y) = e
    <2>1. count = IF bits = 0 THEN 0 ELSE y % bits
        BY <1>1, ReducedIsRemainder
    <2> QED
        BY <1>2, <1>3, <2>1 DEF Exact, Shifts, Numeric
<1>7. Shifted(op, x, count) = IF op = "shl" THEN Masked(e % TwoTo[Word]) ELSE Masked(e)
    BY <1>2, <1>3 DEF Shifted
<1>8. Masked(e % TwoTo[Word]) = e % TwoTo[bits] /\ Masked(e) = e % TwoTo[bits] /\ Masked(e) \in 0..Mask
    BY <1>5, MaskedWord DEF Masked
<1> QED
    BY <1>1, <1>6, <1>7, <1>8

LEMMA ShiftIsExact ==
    ASSUME bits \in 0..Word, NEW op \in Shifts,
           NEW variant \in {"wrapping", "checked", "overflowing", "strict"},
           NEW x \in 0..Mask, NEW y \in Nat
    PROVE  /\ IsExact(op, variant, x, y, ShiftOutcome(op, variant, x, y))
           /\ ShiftOutcome(op, variant, x, y).value \in 0..Mask
<1>1. PICK result : result = Shifted(op, x, Reduced(y))
    OBVIOUS
<1>2. result = Exact(op, x, y) % TwoTo[bits] /\ result \in 0..Mask /\ 0 \in 0..Mask
    BY <1>1, ShiftedIsExact, WidthInWord
<1>3. y < bits => Shifted(op, x, y) = result
    BY <1>1, ReducedIsRemainder
<1>4. Defined(op, x, y) <=> y < bits
    BY DEF Defined, Numeric, Division, Shifts
<1>5. y >= bits <=> ~(y < bits)
    BY WordAssumption
<1>6. op \notin Division
    BY DEF Shifts, Division
<1>7. Some(result).value = result /\ None.value = 0 /\ Panic.value = 0
      /\ \A flag : Flagged(result, flag).value = result
    BY DEF Some, None, Panic, Flagged
<1>8. CASE variant = "wrapping"
    <2>1. ShiftOutcome(op, variant, x, y) = Some(result)
        BY <1>1, <1>8 DEF ShiftOutcome
    <2> QED
        BY <1>2, <1>6, <1>7, <1>8, <2>1 DEF IsExact
<1>9. CASE variant = "checked"
    <2>1. ShiftOutcome(op, variant, x, y) = IF y < bits THEN Some(result) ELSE None
        BY <1>3, <1>9 DEF ShiftOutcome
    <2> QED
        BY <1>2, <1>4, <1>6, <1>7, <1>9, <2>1 DEF IsExact
<1>10. CASE variant = "overflowing"
    <2>1. ShiftOutcome(op, variant, x, y) = Flagged(result, ~(y < bits))
        BY <1>1, <1>5, <1>10 DEF ShiftOutcome
    <2> QED
        BY <1>2, <1>4, <1>6, <1>7, <1>10, <2>1 DEF IsExact
<1>11. CASE variant = "strict"
    <2>1. ShiftOutcome(op, variant, x, y) = IF y < bits THEN Some(result) ELSE Panic
        BY <1>3, <1>11 DEF ShiftOutcome
    <2> QED
        BY <1>2, <1>4, <1>6, <1>7, <1>11, <2>1 DEF IsExact
<1> QED
    BY <1>8, <1>9, <1>10, <1>11

\* What an operator cuts from a shift count does not count if the width is a
\* power of two.
LEMMA CountedIsEnough ==
    ASSUME bits \in 0..Word, NEW y \in Nat, NEW n \in 0..CountWord, bits = TwoTo[n]
    PROVE  Reduced(Counted(y)) = Reduced(y)
<1>1. CountWord \in Nat /\ n \in Nat /\ bits \in Nat
    BY WordAssumption
<1>2. PICK k \in Nat : TwoTo[CountWord] = k * TwoTo[n]
    BY <1>1, TwoToDivides
<1>3. TwoTo[n] \in Nat \ {0} /\ TwoTo[CountWord] \in Nat \ {0}
    BY <1>1, TwoToValues
<1>4. (y % TwoTo[CountWord]) % TwoTo[n] = y % TwoTo[n]
    BY <1>2, <1>3, RemainderOfRemainder
<1>5. Counted(y) = y % TwoTo[CountWord] /\ Counted(y) \in Nat
    <2>1. y \in Int
        OBVIOUS
    <2>2. y % TwoTo[CountWord] \in 0..TwoTo[CountWord] - 1
        BY <1>3, <2>1, RemainderIsSmall
    <2> QED
        BY <1>3, <2>2 DEF Counted
<1> QED
    BY <1>1, <1>3, <1>4, <1>5, ReducedIsRemainder

\* Masking keeps the bits of the width and clears the others.
LEMMA MaskedBits ==
    ASSUME bits \in 0..Word, NEW z \in Nat, NEW n \in Nat
    PROVE  Bit(Masked(z), n) = IF n < bits THEN Bit(z, n) ELSE 0
<1>1. PICK M \in Nat \ {0}, P \in Nat \ {0} : M = TwoTo[bits] /\ P = TwoTo[n]
    BY WidthInWord, TwoToValues
<1>2. PICK q, r : q = z \div M /\ r = z % M
    OBVIOUS
<1>3. q \in Int /\ r \in 0..M - 1 /\ z = M * q + r
    <2>1. z \in Int
        OBVIOUS
    <2> QED
        BY <1>2, <2>1, QuotientAndRemainder
<1>4. Bit(Masked(z), n) = (r \div P) % 2 /\ Bit(z, n) = (z \div P) % 2
    BY <1>1, <1>2 DEF Bit, Masked
<1>5. bits \in Nat
    BY WordAssumption
<1>6. CASE n < bits
    <2>1. PICK k \in Nat : M = k * TwoTo[n + 1]
        <3>1. n + 1 \in 0..bits
            BY <1>5, <1>6
        <3> QED
            BY <1>1, <1>5, <3>1, TwoToDivides
    <2>2. TwoTo[n + 1] = 2 * P
        BY <1>1, TwoToValues
    <2>3. PICK d, s : d = r \div P /\ s = r % P
        OBVIOUS
    <2>4. d \in Int /\ s \in 0..P - 1 /\ r = P * d + s
        <3>1. r \in Int
            BY <1>3
        <3> QED
            BY <2>3, <3>1, QuotientAndRemainder
    <2>5. PICK h \in Int : h = k * q
        BY <1>3
    <2>6. z = (2 * h + d) * P + s
        <3>1. M * q = (2 * h) * P
            BY <1>3, <2>1, <2>2, <2>5
        <3>2. (2 * h + d) * P = (2 * h) * P + P * d
            BY <2>4
        <3>3. (2 * h) * P \in Int /\ P * d \in Int
            BY <2>4
        <3> QED
            BY <1>3, <2>4, <3>1, <3>2, <3>3
    <2>7. z \div P = 2 * h + d
        <3>1. 2 * h + d \in Int /\ z \in Int
            BY <2>4
        <3> QED
            BY <2>4, <2>6, <3>1, DivisionUnique
    <2>8. (2 * h + d) % 2 = d % 2
        BY <2>4
    <2> QED
        BY <1>4, <1>6, <2>3, <2>7, <2>8
<1>7. CASE ~(n < bits)
    <2>1. bits \in 0..n
        BY <1>5, <1>7
    <2>2. PICK k \in Nat : P = k * M
        BY <1>1, <2>1, TwoToDivides
    <2>3. M <= P
        <3>1. k # 0
            BY <1>1, <2>2
        <3>2. 1 \in Nat /\ 1 <= k
            BY <3>1
        <3>3. 1 * M <= k * M
            BY <3>2, TimesMonotone
        <3> QED
            BY <2>2, <3>3
    <2>4. r \in 0..P - 1
        BY <1>3, <2>3
    <2>5. r \div P = 0
        BY <2>4, SmallRemainder
    <2> QED
        BY <1>4, <1>7, <2>5
<1> QED
    BY <1>6, <1>7

\* Every call, on what the program can hand it.
LEMMA OperandIsNat ==
    ASSUME NEW op \in Methods, NEW variant \in Variants(op), NEW y \in Operands(op, variant)
    PROVE  y \in Nat /\ (op \in Logic => y \in Words)
<1>1. Words \subseteq Nat /\ 0..TwoTo[CountWord] - 1 \subseteq Nat /\ {0} \subseteq Nat
    BY DEF Words
<1>2. op \in Logic => op \notin Shifts /\ op # "pow" /\ op # "neg"
    BY DEF Logic, Shifts
<1>3. CASE op = "pow"
    BY <1>2, <1>3, WordAssumption DEF Operands, Shifts
<1>4. CASE op = "neg"
    BY <1>1, <1>2, <1>4 DEF Operands, Shifts
<1>5. CASE op \in Shifts /\ variant # "operator"
    BY <1>1, <1>2, <1>5 DEF Operands, Shifts
<1>6. CASE op # "pow" /\ op # "neg" /\ ~(op \in Shifts /\ variant # "operator")
    <2>1. y \in Words
        BY <1>6 DEF Operands
    <2> QED
        BY <1>1, <2>1
<1> QED
    BY <1>3, <1>4, <1>5, <1>6

\* What the invariant keeps of a call: it was exact, and what it gave fits.
Answered(op, variant, x, y, outcome) ==
    /\ outcome.value \in 0..Mask
    /\ variant # "operator" => IsExact(op, variant, x, y, outcome)
    /\ variant = "operator" => OperatorIsExact(op, x, y, outcome.value)

LEMMA EveryCallIsExact ==
    ASSUME bits \in 0..Word, NEW op \in Methods, NEW variant \in Variants(op),
           NEW x \in 0..Mask, NEW y \in Operands(op, variant)
    PROVE  Answered(op, variant, x, y, Outcome(op, variant, x, y))
<1>1. y \in Nat /\ (op \in Logic => y \in Words)
    BY OperandIsNat
<1>2. CASE op \in Numeric
    <2>1. Outcome(op, variant, x, y) = NumericOutcome(op, variant, x, y)
        BY <1>2 DEF Outcome, Numeric, Division, Shifts, Logic
    <2>2. variant # "operator"
        BY <1>2 DEF Variants, Numeric, Shifts, Logic
    <2> QED
        BY <1>1, <1>2, <2>1, <2>2, NumericIsExact DEF Answered
<1>3. CASE op \in Division
    <2>1. Outcome(op, variant, x, y) = DivisionOutcome(op, variant, x, y)
        BY <1>3 DEF Outcome, Numeric, Division, Shifts, Logic
    <2>2. variant # "operator"
        BY <1>3 DEF Variants, Division, Numeric, Shifts, Logic
    <2> QED
        BY <1>1, <1>3, <2>1, <2>2, DivisionIsExact DEF Answered
<1>4. CASE op \in Shifts /\ variant # "operator"
    <2>1. Outcome(op, variant, x, y) = ShiftOutcome(op, variant, x, y)
        BY <1>4 DEF Outcome, Numeric, Division, Shifts, Logic
    <2>2. variant \in {"wrapping", "checked", "overflowing", "strict"}
        BY <1>4 DEF Variants, Division, Numeric, Shifts, Logic
    <2> QED
        BY <1>1, <1>4, <2>1, <2>2, ShiftIsExact DEF Answered
<1>5. CASE op \in Shifts /\ variant = "operator"
    <2>1. Outcome(op, variant, x, y) = ShiftOutcome(op, "wrapping", x, Counted(y))
        BY <1>5 DEF Outcome, Numeric, Division, Shifts, Logic
    <2>2. ShiftOutcome(op, "wrapping", x, Counted(y)).value = Shifted(op, x, Reduced(Counted(y)))
        BY DEF ShiftOutcome, Some
    <2>3. Counted(y) \in Nat
        <3>1. TwoTo[CountWord] \in Nat \ {0} /\ y \in Int
            BY <1>1, WordAssumption, TwoToValues
        <3> QED
            BY <3>1, RemainderIsSmall DEF Counted
    <2>4. Shifted(op, x, Reduced(Counted(y))) \in 0..Mask
        BY <1>5, <2>3, ShiftedIsExact
    <2>5. ASSUME NEW n \in 0..CountWord, bits = TwoTo[n]
          PROVE  Shifted(op, x, Reduced(Counted(y))) = Exact(op, x, y) % TwoTo[bits]
        BY <1>1, <1>5, <2>5, CountedIsEnough, ShiftedIsExact
    <2>6. op \notin Logic
        BY <1>5 DEF Shifts, Logic
    <2> QED
        BY <1>5, <2>1, <2>2, <2>4, <2>5, <2>6 DEF Answered, OperatorIsExact
<1>6. CASE op \in Logic
    <2>1. PICK z : z = WordLogic(op, x, y)
        OBVIOUS
    <2>2. Outcome(op, variant, x, y).value = Masked(z) /\ variant = "operator" /\ op \notin Shifts
        BY <1>6, <2>1
           DEF Outcome, LogicOutcome, Some, Variants, Numeric, Division, Shifts, Logic
    <2>3. x \in Words /\ y \in Words
        BY <1>1, <1>6, WidthInWord
    <2>4. z \in Words /\ \A n \in 0..Word - 1 : Bit(z, n) = Combined(op, Bit(x, n), Bit(y, n))
        BY <1>6, <2>1, <2>3, WordLogicAssumption
    <2>5. z \in Nat
        BY <2>4 DEF Words
    <2>6. Masked(z) \in 0..Mask
        BY <2>5, MaskedWord
    <2>7. ASSUME NEW n \in 0..Word - 1
          PROVE  Bit(Masked(z), n) =
                   IF n < bits THEN Combined(op, Bit(x, n), Bit(y, n)) ELSE 0
        <3>1. n \in Nat
            BY WordAssumption
        <3> QED
            BY <2>4, <2>5, <3>1, MaskedBits
    <2> QED
        BY <2>2, <2>6, <2>7 DEF Answered, OperatorIsExact
<1> QED
    BY <1>2, <1>3, <1>4, <1>5, <1>6 DEF Methods

-----------------------------------------------------------------------------
\* The value is one of its width, and the last call was what the operations
\* say, of operands the program can hand them.
LastCall ==
    /\ last.op \in Methods /\ last.variant \in Variants(last.op)
    /\ last.lhs \in 0..Mask /\ last.rhs \in Operands(last.op, last.variant)
    /\ last.outcome = Outcome(last.op, last.variant, last.lhs, last.rhs)

Answers == bits \in 0..Word /\ value \in 0..Mask /\ LastCall

\* Before any call, and after an assignment of another kind.
LEMMA NoCallIsExact ==
    ASSUME bits \in 0..Word, last = NoCall
    PROVE  LastCall
<1>1. 0 \in 0..Mask /\ 0 \in Words /\ TwoTo[Word] \in Nat \ {0} /\ TwoTo[bits] \in Nat \ {0}
    BY WidthInWord
<1>2. Masked(Raw("add", 0, 0)) = 0
    <2>1. Unbounded("add", 0, 0) = 0
        BY DEF Unbounded
    <2>2. 0 % TwoTo[Word] = 0 /\ 0 % TwoTo[bits] = 0
        BY <1>1, SmallRemainder
    <2> QED
        BY <2>1, <2>2 DEF Raw, Masked
<1>3. NumericOutcome("add", "wrapping", 0, 0) = Some(0)
    BY <1>2 DEF NumericOutcome
<1>4. Outcome("add", "wrapping", 0, 0) = Some(0)
    BY <1>3 DEF Outcome, Numeric, Division, Shifts, Logic
<1>5. "wrapping" \in Variants("add") /\ "add" \in Methods
    BY DEF Variants, Methods, Numeric, Division, Shifts, Logic
<1>6. Operands("add", "wrapping") = Words
    BY DEF Operands, Shifts
<1> QED
    BY <1>1, <1>4, <1>5, <1>6 DEF LastCall, NoCall

LEMMA AnswersAreExact == Answers => VariantsAreExact /\ OperatorsAreExact
<1> SUFFICES ASSUME Answers PROVE VariantsAreExact /\ OperatorsAreExact
    OBVIOUS
<1>1. PICK op, variant, x, y :
        op = last.op /\ variant = last.variant /\ x = last.lhs /\ y = last.rhs
    OBVIOUS
<1>2. last.outcome = Outcome(op, variant, x, y) /\ Answered(op, variant, x, y, last.outcome)
    BY <1>1, EveryCallIsExact DEF Answers, LastCall
<1> QED
    BY <1>1, <1>2 DEF Answered, VariantsAreExact, OperatorsAreExact

(***************************************************************************)
(* Each step.                                                              *)
(***************************************************************************)
LEMMA CallKeepsAnswers ==
    ASSUME Answers, NEW op \in Methods, NEW variant \in Variants(op),
           NEW y \in Operands(op, variant), Call(op, variant, y)
    PROVE  Answers'
<1>1. PICK x \in 0..Mask : x = value
    BY DEF Answers
<1>2. PICK outcome : outcome = Outcome(op, variant, x, y)
    OBVIOUS
<1>3. outcome.value \in 0..Mask
    BY <1>2, EveryCallIsExact DEF Answers, Answered
<1>4. PICK w \in 0..Word : w = bits /\ bits' = w
    BY DEF Answers, Call
<1>5. /\ last' = [op |-> op, variant |-> variant, lhs |-> x, rhs |-> y, outcome |-> outcome]
      /\ value' \in 0..Mask
    BY <1>1, <1>2, <1>3 DEF Call
<1>6. Mask' = Mask
    BY <1>4 DEF Mask
<1>7. Outcome(op, variant, x, y)' = Outcome(op, variant, x, y)
    BY <1>4
       DEF Outcome, NumericOutcome, DivisionOutcome, ShiftOutcome, LogicOutcome,
           Fits, Bound, Shifted, Reduced, Masked, Mask
<1>8. /\ last'.op = op /\ last'.variant = variant /\ last'.lhs = x /\ last'.rhs = y
      /\ last'.outcome = outcome
    BY <1>5
<1>9. LastCall'
    BY <1>2, <1>6, <1>7, <1>8 DEF LastCall
<1> QED
    BY <1>4, <1>5, <1>6, <1>9 DEF Answers

LEMMA NoCallNext == (bits \in 0..Word /\ last = NoCall => LastCall)'
<1>1. bits \in 0..Word /\ last = NoCall => LastCall
    BY NoCallIsExact
<1> QED
    BY <1>1, PTL

\* An assignment of another kind: a value of the width, new or not, and no call.
LEMMA AssignmentKeepsAnswers ==
    ASSUME bits' \in 0..Word, value' \in 0..Mask', last' = NoCall
    PROVE  Answers'
BY NoCallNext DEF Answers

\* Whatever is called and assigned, at whatever widths, the value stays one of
\* its width, and the last call answered what its operation says.
THEOREM AnswersHold == Spec => []Answers
<1>1. Init => Answers
    <2> SUFFICES ASSUME Init PROVE Answers
        OBVIOUS
    <2>1. bits \in 0..Word
        BY WordAssumption DEF Init
    <2>2. 0 \in 0..Mask /\ LastCall
        BY <2>1, WidthInWord, NoCallIsExact DEF Init
    <2> QED
        BY <2>1, <2>2 DEF Init, Answers
<1>2. Answers /\ [Next]_vars => Answers'
    <2> SUFFICES ASSUME Answers, [Next]_vars PROVE Answers'
        OBVIOUS
    <2>1. ASSUME NEW op \in Methods, NEW variant \in Variants(op),
                 NEW y \in Operands(op, variant), Call(op, variant, y)
          PROVE  Answers'
        BY <2>1, CallKeepsAnswers
    <2>2. ASSUME NEW x \in Nat, Cut(x) PROVE Answers'
        <3>1. Masked(x) \in 0..Mask
            BY MaskedWord DEF Answers
        <3>2. bits' = bits /\ Mask' = Mask
            BY <2>2 DEF Cut, Mask
        <3> QED
            BY <2>2, <3>1, <3>2, AssignmentKeepsAnswers DEF Answers, Cut
    <2>3. ASSUME NEW x \in Nat, Fail(x) PROVE Answers'
        <3>1. Masked(x) \in 0..Mask
            BY MaskedWord DEF Answers
        <3>2. bits' = bits /\ Mask' = Mask
            BY <2>3 DEF Fail, Mask
        <3>3. value' \in 0..Mask
            BY <2>3, <3>1 DEF Fail, Answers
        <3> QED
            BY <2>3, <3>2, <3>3, AssignmentKeepsAnswers DEF Answers, Fail
    <2>4. CASE BitNot
        <3>1. TwoTo[Word] - 1 - value \in Nat
            <4>1. value \in Words /\ TwoTo[Word] \in Nat
                BY WidthInWord DEF Answers
            <4> QED
                BY <4>1 DEF Words
        <3> QED
            BY <2>2, <2>4, <3>1 DEF BitNot
    <2>5. ASSUME NEW new \in 0..Word, Resize(new) PROVE Answers'
        <3>1. new \in Nat /\ value \in Nat
            BY WordAssumption, WidthInWord DEF Answers, Mask
        <3>2. value % TwoTo[new] \in 0..TwoTo[new] - 1
            <4>1. PICK M \in Nat \ {0}, x \in Int : M = TwoTo[new] /\ x = value
                BY <3>1, TwoToValues
            <4> QED
                BY <4>1, RemainderIsSmall
        <3>3. Mask' = TwoTo[new] - 1
            BY <2>5 DEF Resize, Mask
        <3> QED
            BY <2>5, <3>2, <3>3, AssignmentKeepsAnswers DEF Resize
    <2>6. CASE UNCHANGED vars
        <3>1. PICK w : w = bits /\ bits' = w
            BY <2>6 DEF vars
        <3>2. PICK l : l = last /\ last' = l
            BY <2>6 DEF vars
        <3>3. Outcome(l.op, l.variant, l.lhs, l.rhs)' = Outcome(l.op, l.variant, l.lhs, l.rhs)
            BY <3>1
               DEF Outcome, NumericOutcome, DivisionOutcome, ShiftOutcome, LogicOutcome,
                   Fits, Bound, Shifted, Reduced, Masked, Mask
        <3>4. Mask' = Mask
            BY <3>1 DEF Mask
        <3>5. LastCall' <=> LastCall
            BY <3>2, <3>3, <3>4 DEF LastCall
        <3> QED
            BY <2>6, <3>4, <3>5 DEF vars, Answers
    <2>7. Words \subseteq Nat
        BY DEF Words
    <2> QED
        BY <2>1, <2>2, <2>3, <2>4, <2>5, <2>6, <2>7 DEF Next
<1> QED
    BY <1>1, <1>2, PTL DEF Spec

\* The variants of an operation agree with the integers and with each other, for
\* every width up to the word, every value of the width, and every word, count
\* or exponent on the right-hand side.
THEOREM VariantsHold == Spec => []VariantsAreExact
BY AnswersHold, AnswersAreExact, PTL

\* The operators shift by any count modulo a width that is a power of two, and
\* combine the bits of the width alone.
THEOREM OperatorsHold == Spec => []OperatorsAreExact
BY AnswersHold, AnswersAreExact, PTL
=============================================================================
