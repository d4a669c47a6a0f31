---------------------------- MODULE ReaderProofs ----------------------------
(***************************************************************************)
(* The reader keeps its place in every file, cut anywhere, and yields the  *)
(* branches of the complete instructions.                                  *)
(***************************************************************************)
EXTENDS Reader, Lemmas, TLAPS

(***************************************************************************)
(* The layout of an instruction, field by field.                           *)
(***************************************************************************)
\* The fields between the class and the inputs, and those of the inputs
\* themselves.
Middle(i) ==
    IF i.class \in {Load, Store} THEN 1
    ELSE IF ~IsBranch(i.class) THEN 0
    ELSE IF i.taken THEN 2 ELSE 1
Skipped(i) == IF i.inputs = 0 THEN 0 ELSE 1

\* How many fields of instruction i are behind the reader.
Offset(i) ==
    CASE stage = "address" -> 0
      [] stage = "class" -> 1
      [] stage \in {"memory", "taken"} -> 2
      [] stage = "target" -> 3
      [] stage = "inputs" -> 2 + Middle(i)
      [] stage = "skip inputs" -> 3 + Middle(i)
      [] stage = "outputs" -> 3 + Middle(i) + Skipped(i)
      [] stage = "names" -> 4 + Middle(i) + Skipped(i)
      [] stage = "value" ->
           5 + Middle(i) + Skipped(i) + Len(i.outputs) - Len(current.names)
      [] OTHER -> Len(Layout(i))

(***************************************************************************)
(* The inductive invariant.                                                *)
(***************************************************************************)
Whole == LayoutOf(file)

\* Where the first n instructions end, and how many fields have been read.
EndOf(n) == Len(LayoutOf(SubSeq(file, 1, n)))
Position == size - Len(stream)

Current == [address : Words, class : Bytes, taken : BOOLEAN, next : Words,
            inputs : Bytes, names : Seq(Bytes), count : Nat]

State ==
    /\ file \in Seq(Instruction) /\ size \in 0..Len(Whole) /\ checks \in BOOLEAN
    /\ stage \in Reads \cup {"done", "ended", "panicked"}
    /\ current \in Current
    /\ Len(stream) \in 0..size
    /\ stream = SubSeq(Whole, Position + 1, size)

\* What has been read of instruction i.
Seen(i) ==
    /\ stage # "address" => current.address = i.address
    /\ stage \notin {"address", "class"} => current.class = i.class
    /\ stage \in {"class", "memory", "taken"} => ~current.taken
    /\ stage = "memory" => i.class \in {Load, Store}
    /\ stage = "taken" => IsBranch(i.class)
    /\ stage = "target" => IsBranch(i.class) /\ i.taken /\ current.taken
    /\ stage \in {"inputs", "skip inputs", "outputs", "names", "value", "done"}
         /\ IsBranch(i.class) => Record(current) = RecordOf(i)
    /\ stage = "skip inputs" => i.inputs # 0 /\ current.inputs = i.inputs
    /\ stage = "names" => i.outputs # <<>> /\ current.count = Len(i.outputs)
    /\ stage = "value" =>
         /\ Len(current.names) \in 1..Len(i.outputs)
         /\ \A k \in 1..Len(current.names) :
              current.names[k] = i.outputs[Len(i.outputs) - Len(current.names) + k]

\* The reader is in instruction n, or at the end of the whole file.
At(n) ==
    /\ records = RecordsOf(n - 1)
    /\ \/ n \in DOMAIN file /\ Seen(file[n]) /\ Position = EndOf(n - 1) + Offset(file[n])
       \/ n = Len(file) + 1 /\ stage = "address" /\ Position = EndOf(n - 1)

ReaderInv ==
    /\ State
    /\ stage \in Reads \cup {"done"} => \E n \in 1..Len(file) + 1 : At(n)
    /\ WholeRecordsOnly

-----------------------------------------------------------------------------
(***************************************************************************)
(* Layouts.                                                                *)
(***************************************************************************)
FieldType == [size : Nat, value : Nat \cup Seq(Bytes)]

LEMMA OneField ==
    ASSUME NEW n \in Nat, NEW v \in Nat \cup Seq(Bytes)
    PROVE  /\ Field(n, v) \in Seq(FieldType)
           /\ n = 0 => Len(Field(n, v)) = 0
           /\ n # 0 => Len(Field(n, v)) = 1 /\ Field(n, v)[1] = [size |-> n, value |-> v]
<1>1. [size |-> n, value |-> v] \in FieldType
    BY DEF FieldType
<1> HIDE DEF FieldType
<1>2. CASE n = 0
    BY <1>2 DEF Field
<1>3. CASE n # 0
    <2> DEFINE f == [size |-> n, value |-> v]
    <2>1. Field(n, v) = <<f>> /\ f \in FieldType
        BY <1>1, <1>3 DEF Field
    <2> HIDE DEF f
    <2>2. <<f>> \in Seq(FieldType) /\ Len(<<f>>) = 1 /\ <<f>>[1] = f
        BY <2>1
    <2> QED
        BY <1>3, <2>1, <2>2 DEF f
<1> QED
    BY <1>2, <1>3

\* p is what a and b are together, and their lengths are m and n.
Joined(p, a, b, m, n) ==
    /\ p \in Seq(FieldType)
    /\ Len(p) = m + n
    /\ \A k \in 1..m : p[k] = a[k]
    /\ \A k \in 1..n : p[m + k] = b[k]

LEMMA MoreFields ==
    ASSUME NEW a \in Seq(FieldType), NEW b \in Seq(FieldType), NEW m \in Nat, NEW n \in Nat,
           Len(a) = m, Len(b) = n
    PROVE  Joined(a \o b, a, b, m, n)
<1> HIDE DEF FieldType
<1>1. a \o b \in Seq(FieldType) /\ Len(a \o b) = m + n
    BY ConcatProperties
<1>2. ASSUME NEW k \in 1..m PROVE (a \o b)[k] = a[k]
    BY <1>2, ConcatProperties
<1>3. ASSUME NEW k \in 1..n PROVE (a \o b)[m + k] = b[k]
    <2>1. m + k \in 1..m + n /\ ~(m + k <= m) /\ (m + k) - m = k
        OBVIOUS
    <2> QED
        BY <2>1, ConcatProperties
<1> QED
    BY <1>1, <1>2, <1>3 DEF Joined

\* The classes that have fields of their own differ.
LEMMA ClassesDiffer == ~IsBranch(Load) /\ ~IsBranch(Store) /\ Load # Store
BY DEF IsBranch, KindOf, Load, Store

\* What lies between the class and the inputs.
MiddleOf(i) ==
    CASE i.class = Load -> Field(10, 0)
      [] i.class = Store -> Field(11, 0)
      [] IsBranch(i.class) /\ i.taken -> Field(1, 1) \o Field(8, i.next)
      [] IsBranch(i.class) /\ ~i.taken -> Field(1, 0)
      [] OTHER -> <<>>

LEMMA MiddleFields ==
    ASSUME NEW i \in Instruction
    PROVE  /\ MiddleOf(i) \in Seq(FieldType)
           /\ Len(MiddleOf(i)) = Middle(i) /\ Middle(i) \in 0..2
           /\ i.class = Load => MiddleOf(i)[1] = [size |-> 10, value |-> 0]
           /\ i.class = Store => MiddleOf(i)[1] = [size |-> 11, value |-> 0]
           /\ IsBranch(i.class) =>
                MiddleOf(i)[1] = [size |-> 1, value |-> IF i.taken THEN 1 ELSE 0]
           /\ IsBranch(i.class) /\ i.taken =>
                MiddleOf(i)[2] = [size |-> 8, value |-> i.next]
<1>1. i.next \in Nat /\ i.taken \in BOOLEAN
    BY WordAssumption DEF Instruction, Words
<1>2. CASE i.class = Load
    <2>1. MiddleOf(i) = Field(10, 0) /\ Middle(i) = 1 /\ ~IsBranch(i.class) /\ i.class # Store
        BY <1>2, ClassesDiffer DEF MiddleOf, Middle
    <2> QED
        BY <1>2, <2>1, OneField
<1>3. CASE i.class = Store
    <2>1. MiddleOf(i) = Field(11, 0) /\ Middle(i) = 1 /\ ~IsBranch(i.class) /\ i.class # Load
        BY <1>3, ClassesDiffer DEF MiddleOf, Middle
    <2> QED
        BY <1>3, <2>1, OneField
<1>4. CASE IsBranch(i.class) /\ i.taken
    <2>1. i.class # Load /\ i.class # Store
        BY <1>4, ClassesDiffer
    <2>2. MiddleOf(i) = Field(1, 1) \o Field(8, i.next) /\ Middle(i) = 2
        BY <1>4, <2>1 DEF MiddleOf, Middle
    <2>3. /\ Field(1, 1) \in Seq(FieldType) /\ Len(Field(1, 1)) = 1
          /\ Field(1, 1)[1] = [size |-> 1, value |-> 1]
        BY OneField
    <2>4. /\ Field(8, i.next) \in Seq(FieldType) /\ Len(Field(8, i.next)) = 1
          /\ Field(8, i.next)[1] = [size |-> 8, value |-> i.next]
        BY <1>1, OneField
    <2> DEFINE a == Field(1, 1)
               b == Field(8, i.next)
    <2> HIDE DEF a, b
    <2>5. a \o b \in Seq(FieldType) /\ Len(a \o b) = 2 /\ (a \o b)[1] = a[1]
          /\ (a \o b)[2] = b[1]
        <3>1. a \in Seq(FieldType) /\ b \in Seq(FieldType) /\ Len(a) = 1 /\ Len(b) = 1
            BY <2>3, <2>4 DEF a, b
        <3> DEFINE m == 1
        <3>2. a \in Seq(FieldType) /\ b \in Seq(FieldType) /\ m \in Nat /\ Len(a) = m /\ Len(b) = m
            BY <3>1
        <3> HIDE DEF m
        <3>3. Joined(a \o b, a, b, m, m)
            BY <3>2, MoreFields
        <3> QED
            BY <3>3 DEF Joined, m
    <2> QED
        BY <1>4, <2>1, <2>2, <2>3, <2>4, <2>5 DEF a, b
<1>5. CASE IsBranch(i.class) /\ ~i.taken
    <2>1. i.class # Load /\ i.class # Store
        BY <1>5, ClassesDiffer
    <2>2. MiddleOf(i) = Field(1, 0) /\ Middle(i) = 1
        BY <1>5, <2>1 DEF MiddleOf, Middle
    <2> QED
        BY <1>5, <2>1, <2>2, OneField
<1>6. CASE i.class \notin {Load, Store} /\ ~IsBranch(i.class)
    <2>1. MiddleOf(i) = <<>> /\ Middle(i) = 0
        BY <1>6 DEF MiddleOf, Middle
    <2> QED
        BY <1>6, <2>1
<1> QED
    BY <1>1, <1>2, <1>3, <1>4, <1>5, <1>6

\* The fields of the registers, one for each.
ValuesOf(i) ==
    FlattenSeq([n \in 1..Len(i.outputs) |->
                  Field(IF IsSimd(i.outputs[n]) THEN 16 ELSE 8, 0)])

LEMMA ValueFields ==
    ASSUME NEW i \in Instruction
    PROVE  /\ ValuesOf(i) \in Seq(FieldType) /\ Len(ValuesOf(i)) = Len(i.outputs)
           /\ \A n \in 1..Len(i.outputs) :
                ValuesOf(i)[n] = [size |-> ValueSize(i.outputs[n]), value |-> 0]
<1> DEFINE c == Len(i.outputs)
           Row(n) == Field(IF IsSimd(i.outputs[n]) THEN 16 ELSE 8, 0)
           rows == [n \in 1..c |-> Row(n)]
<1>1. c \in Nat
    BY DEF Instruction
<1>2. ASSUME NEW n \in 1..c
      PROVE  /\ Row(n) \in Seq(FieldType) /\ Len(Row(n)) = 1
             /\ Row(n)[1] = [size |-> ValueSize(i.outputs[n]), value |-> 0]
    <2>1. CASE IsSimd(i.outputs[n])
        BY <2>1, OneField DEF IsSimd, ValueSize
    <2>2. CASE ~IsSimd(i.outputs[n])
        BY <2>2, OneField DEF IsSimd, ValueSize
    <2> QED
        BY <2>1, <2>2
<1>3. ValuesOf(i) = FlattenSeq(rows)
    BY DEF ValuesOf
<1> HIDE DEF c, Row, FieldType
<1>4. rows \in [1..c -> Seq(FieldType)] /\ \A n \in 1..c : rows[n] = Row(n)
    BY <1>2
<1> HIDE DEF rows
<1>5. rows \in Seq(Seq(FieldType)) /\ Len(rows) = c
    BY <1>1, <1>4
<1> DEFINE one == 1
<1>6. \A n \in 1..Len(rows) : Len(rows[n]) = one
    <2>1. \A n \in 1..Len(rows) : Len(rows[n]) = 1
        BY <1>2, <1>4, <1>5
    <2> QED
        BY <2>1
<1>11. one \in Nat
    OBVIOUS
<1> HIDE DEF one
<1>12. IsTable(FieldType, one, rows)
    BY <1>5, <1>6 DEF IsTable
<1>13. LaidOut(FieldType, one, rows)
    BY <1>11, <1>12, FlattenRows
<1>7. FlattenSeq(rows) \in Seq(FieldType)
    BY <1>13 DEF LaidOut
<1>8. Len(FlattenSeq(rows)) = Len(rows) * one
    BY <1>13 DEF LaidOut
<1>10. ASSUME NEW n \in 1..Len(rows), NEW j \in 1..one
       PROVE  FlattenSeq(rows)[Cell(one, n, j)] = rows[n][j]
    BY <1>13 DEF LaidOut
<1>9. ASSUME NEW n \in 1..c
      PROVE  FlattenSeq(rows)[n] = [size |-> ValueSize(i.outputs[n]), value |-> 0]
    <2>1. FlattenSeq(rows)[Cell(1, n, 1)] = rows[n][1]
        BY <1>5, <1>10 DEF one
    <2>2. Cell(1, n, 1) = n
        BY <1>1 DEF Cell
    <2> QED
        BY <1>2, <1>4, <2>1, <2>2
<1> QED
    BY <1>1, <1>3, <1>5, <1>7, <1>8, <1>9 DEF c, one

\* A layout, field by field.
LayoutShape(i, m, s, c) ==
    /\ Layout(i) \in Seq(FieldType)
    /\ Len(Layout(i)) = IF c = 0 THEN 4 + m + s ELSE 5 + m + s + c
    /\ Layout(i)[1] = [size |-> 8, value |-> i.address]
    /\ Layout(i)[2] = [size |-> 1, value |-> i.class]
    /\ \A k \in 1..m : Layout(i)[2 + k] = MiddleOf(i)[k]
    /\ Layout(i)[3 + m] = [size |-> 1, value |-> i.inputs]
    /\ s # 0 => Layout(i)[4 + m] = [size |-> i.inputs, value |-> 0]
    /\ Layout(i)[4 + m + s] = [size |-> 1, value |-> c]
    /\ c # 0 => Layout(i)[5 + m + s] = [size |-> c, value |-> i.outputs]
    /\ \A k \in 1..c :
         Layout(i)[5 + m + s + k] = [size |-> ValueSize(i.outputs[k]), value |-> 0]

LEMMA LayoutFields ==
    ASSUME NEW i \in Instruction
    PROVE  LayoutShape(i, Middle(i), Skipped(i), Len(i.outputs))
<1> DEFINE m == Middle(i)
           s == Skipped(i)
           c == Len(i.outputs)
           t == IF c = 0 THEN 0 ELSE 1
           a1 == Field(8, i.address)
           a2 == Field(1, i.class)
           a3 == MiddleOf(i)
           a4 == Field(1, i.inputs)
           a5 == Field(i.inputs, 0)
           a6 == Field(1, c)
           a7 == Field(c, i.outputs)
           a8 == ValuesOf(i)
           p2 == a1 \o a2
           p3 == p2 \o a3
           p4 == p3 \o a4
           p5 == p4 \o a5
           p6 == p5 \o a6
           p7 == p6 \o a7
           p8 == p7 \o a8
<1>1. /\ i.address \in Nat /\ i.class \in Nat /\ i.inputs \in Nat
      /\ i.outputs \in Seq(Bytes) /\ c \in Nat
    <2>1. /\ i.address \in Words /\ i.class \in Bytes /\ i.inputs \in Bytes
          /\ i.outputs \in Seq(Bytes)
        BY DEF Instruction
    <2>2. Words \subseteq Nat /\ Bytes \subseteq Nat
        BY WordAssumption DEF Words, Bytes
    <2>3. c \in Nat
        BY <2>1
    <2> HIDE DEF c
    <2> QED
        BY <2>1, <2>2, <2>3
<1>2. m \in Nat /\ s \in 0..1 /\ t \in 0..1
    <2>1. m \in Nat
        BY DEF Middle
    <2>2. s \in 0..1
        BY DEF Skipped
    <2>3. t \in 0..1
        OBVIOUS
    <2> QED
        BY <2>1, <2>2, <2>3
<1>3. Layout(i) = p8
    BY Zenon DEF Layout, MiddleOf, ValuesOf
<1>4. a1 \in Seq(FieldType) /\ Len(a1) = 1 /\ a1[1] = [size |-> 8, value |-> i.address]
    BY <1>1, OneField
<1>5. a2 \in Seq(FieldType) /\ Len(a2) = 1 /\ a2[1] = [size |-> 1, value |-> i.class]
    BY <1>1, OneField
<1>6. a3 \in Seq(FieldType) /\ Len(a3) = m
    BY MiddleFields
<1>7. a4 \in Seq(FieldType) /\ Len(a4) = 1 /\ a4[1] = [size |-> 1, value |-> i.inputs]
    BY <1>1, OneField
<1>8. a5 \in Seq(FieldType) /\ Len(a5) = s
      /\ (s # 0 => a5[1] = [size |-> i.inputs, value |-> 0])
    <2>1. CASE i.inputs = 0
        <3>1. a5 = Field(0, 0) /\ s = 0
            BY <2>1 DEF Skipped
        <3>2. Field(0, 0) \in Seq(FieldType) /\ Len(Field(0, 0)) = 0
            BY OneField
        <3> QED
            BY <3>1, <3>2
    <2>2. CASE i.inputs # 0
        BY <1>1, <2>2, OneField DEF Skipped
    <2> QED
        BY <2>1, <2>2
<1>9. a6 \in Seq(FieldType) /\ Len(a6) = 1 /\ a6[1] = [size |-> 1, value |-> c]
    BY <1>1, OneField
<1>10. a7 \in Seq(FieldType) /\ Len(a7) = t
       /\ (c # 0 => a7[1] = [size |-> c, value |-> i.outputs])
    <2>1. CASE c = 0
        <3>1. a7 = Field(0, i.outputs) /\ t = 0
            BY <2>1
        <3>2. Field(0, i.outputs) \in Seq(FieldType) /\ Len(Field(0, i.outputs)) = 0
            BY <1>1, OneField
        <3> QED
            BY <2>1, <3>1, <3>2
    <2>2. CASE c # 0
        <3>1. a7 = Field(c, i.outputs) /\ t = 1
            BY <2>2
        <3>2. /\ Field(c, i.outputs) \in Seq(FieldType) /\ Len(Field(c, i.outputs)) = 1
              /\ Field(c, i.outputs)[1] = [size |-> c, value |-> i.outputs]
            <4> HIDE DEF c, FieldType
            <4> QED
                BY <1>1, <1>2, <2>2, OneField
        <3> QED
            BY <3>1, <3>2
    <2> QED
        BY <2>1, <2>2
<1>11. a8 \in Seq(FieldType) /\ Len(a8) = c
       /\ \A k \in 1..c : a8[k] = [size |-> ValueSize(i.outputs[k]), value |-> 0]
    BY ValueFields
<1> DEFINE one == 1
<1>12. one \in Nat /\ Len(a1) = one /\ Len(a2) = one /\ Len(a4) = one /\ Len(a6) = one
    BY <1>4, <1>5, <1>7, <1>9
<1>13. t \in Nat /\ s \in Nat /\ one + one = 2 /\ 2 + m \in Nat
       /\ (2 + m) + one = 3 + m /\ 3 + m \in Nat /\ (3 + m) + s = 3 + m + s
       /\ 3 + m + s \in Nat /\ (3 + m + s) + one = 4 + m + s /\ 4 + m + s \in Nat
       /\ (4 + m + s) + t = 4 + m + s + t /\ 4 + m + s + t \in Nat
    <2> HIDE DEF m, s, t, c
    <2> QED
        BY <1>2
<1> HIDE DEF one, m, s, c, t, a1, a2, a3, a4, a5, a6, a7, a8, p2, p3, p4, p5, p6, p7, p8, FieldType
<1> DEFINE n2 == 2
           n3 == 2 + m
           n4 == 3 + m
           n5 == 3 + m + s
           n6 == 4 + m + s
           n7 == 4 + m + s + t
<1>14. /\ n2 \in Nat /\ n3 \in Nat /\ n4 \in Nat /\ n5 \in Nat /\ n6 \in Nat /\ n7 \in Nat
       /\ one + one = n2 /\ n2 + m = n3 /\ n3 + one = n4 /\ n4 + s = n5 /\ n5 + one = n6
       /\ n6 + t = n7
    BY <1>2, <1>13
<1> HIDE DEF n2, n3, n4, n5, n6, n7
<1>15. p2 \in Seq(FieldType) /\ Len(p2) = n2 /\ (\A k \in 1..one : p2[k] = a1[k])
       /\ (\A k \in 1..one : p2[one + k] = a2[k])
    <2>1. Joined(p2, a1, a2, one, one)
        BY <1>4, <1>5, <1>12, <1>14, MoreFields DEF p2
    <2> QED
        BY <1>14, <2>1 DEF Joined
<1>16. p3 \in Seq(FieldType) /\ Len(p3) = n3 /\ (\A k \in 1..n2 : p3[k] = p2[k])
       /\ (\A k \in 1..m : p3[n2 + k] = a3[k])
    <2>1. Joined(p3, p2, a3, n2, m)
        BY <1>2, <1>6, <1>14, <1>15, MoreFields DEF p3
    <2> QED
        BY <1>14, <2>1 DEF Joined
<1>17. p4 \in Seq(FieldType) /\ Len(p4) = n4 /\ (\A k \in 1..n3 : p4[k] = p3[k])
       /\ (\A k \in 1..one : p4[n3 + k] = a4[k])
    <2>1. Joined(p4, p3, a4, n3, one)
        BY <1>7, <1>12, <1>14, <1>16, MoreFields DEF p4
    <2> QED
        BY <1>14, <2>1 DEF Joined
<1>18. p5 \in Seq(FieldType) /\ Len(p5) = n5 /\ (\A k \in 1..n4 : p5[k] = p4[k])
       /\ (\A k \in 1..s : p5[n4 + k] = a5[k])
    <2>1. Joined(p5, p4, a5, n4, s)
        BY <1>8, <1>13, <1>14, <1>17, MoreFields DEF p5
    <2> QED
        BY <1>14, <2>1 DEF Joined
<1>19. p6 \in Seq(FieldType) /\ Len(p6) = n6 /\ (\A k \in 1..n5 : p6[k] = p5[k])
       /\ (\A k \in 1..one : p6[n5 + k] = a6[k])
    <2>1. Joined(p6, p5, a6, n5, one)
        BY <1>9, <1>12, <1>14, <1>18, MoreFields DEF p6
    <2> QED
        BY <1>14, <2>1 DEF Joined
<1>20. p7 \in Seq(FieldType) /\ Len(p7) = n7 /\ (\A k \in 1..n6 : p7[k] = p6[k])
       /\ (\A k \in 1..t : p7[n6 + k] = a7[k])
    <2>1. Joined(p7, p6, a7, n6, t)
        BY <1>10, <1>13, <1>14, <1>19, MoreFields DEF p7
    <2> QED
        BY <1>14, <2>1 DEF Joined
<1>21. c \in Nat
    BY <1>1
<1>22. p8 \in Seq(FieldType) /\ Len(p8) = n7 + c /\ (\A k \in 1..n7 : p8[k] = p7[k])
       /\ (\A k \in 1..c : p8[n7 + k] = a8[k])
    <2>1. Joined(p8, p7, a8, n7, c)
        BY <1>11, <1>14, <1>20, <1>21, MoreFields DEF p8
    <2> QED
        BY <1>14, <2>1 DEF Joined
<1> USE DEF n2, n3, n4, n5, n6, n7, one
<1>23. \A k \in 1..4 + m + s : p8[k] = p6[k]
    BY <1>2, <1>20, <1>22
<1>24. \A k \in 1..3 + m + s : p8[k] = p5[k]
    BY <1>2, <1>19, <1>23
<1>25. \A k \in 1..3 + m : p8[k] = p4[k]
    BY <1>2, <1>18, <1>24
<1>26. \A k \in 1..2 + m : p8[k] = p3[k]
    BY <1>2, <1>17, <1>25
<1>27. p8[1] = p2[1] /\ p8[2] = p2[2]
    BY <1>2, <1>16, <1>26
<1>28. p8[1] = [size |-> 8, value |-> i.address]
    BY <1>4, <1>15, <1>27
<1>29. p8[2] = [size |-> 1, value |-> i.class]
    BY <1>5, <1>15, <1>27
<1>30. \A k \in 1..m : p8[2 + k] = a3[k]
    BY <1>2, <1>16, <1>26
<1>31. p8[3 + m] = [size |-> 1, value |-> i.inputs]
    <2>1. p4[(2 + m) + 1] = a4[1] /\ (2 + m) + 1 = 3 + m
        BY <1>2, <1>17
    <2>2. p8[3 + m] = p4[3 + m]
        BY <1>2, <1>25
    <2> QED
        BY <1>7, <2>1, <2>2
<1>32. s # 0 => p8[4 + m] = [size |-> i.inputs, value |-> 0]
    <2> SUFFICES ASSUME s # 0 PROVE p8[4 + m] = [size |-> i.inputs, value |-> 0]
        OBVIOUS
    <2>1. p5[(3 + m) + 1] = a5[1] /\ (3 + m) + 1 = 4 + m
        BY <1>2, <1>18
    <2>2. p8[4 + m] = p5[4 + m]
        BY <1>2, <1>24
    <2> QED
        BY <1>8, <2>1, <2>2
<1>33. p8[4 + m + s] = [size |-> 1, value |-> c]
    <2>1. p6[(3 + m + s) + 1] = a6[1] /\ (3 + m + s) + 1 = 4 + m + s
        BY <1>2, <1>19
    <2>2. p8[4 + m + s] = p6[4 + m + s]
        BY <1>2, <1>23
    <2> QED
        BY <1>9, <2>1, <2>2
<1>34. c # 0 => p8[5 + m + s] = [size |-> c, value |-> i.outputs]
    <2> SUFFICES ASSUME c # 0 PROVE p8[5 + m + s] = [size |-> c, value |-> i.outputs]
        OBVIOUS
    <2>0. t = 1
        BY DEF t
    <2>1. p7[(4 + m + s) + 1] = a7[1] /\ (4 + m + s) + 1 = 5 + m + s
        BY <1>2, <1>20, <2>0
    <2>2. p8[5 + m + s] = p7[5 + m + s]
        BY <1>2, <1>22, <2>0
    <2> QED
        BY <1>10, <2>1, <2>2
<1>35. \A k \in 1..c : p8[5 + m + s + k] = [size |-> ValueSize(i.outputs[k]), value |-> 0]
    <2> SUFFICES ASSUME NEW k \in 1..c
                 PROVE  p8[5 + m + s + k] = [size |-> ValueSize(i.outputs[k]), value |-> 0]
        OBVIOUS
    <2>1. t = 1
        BY <1>21 DEF t
    <2>2. (4 + m + s + t) + k = 5 + m + s + k
        BY <1>2, <1>21, <2>1
    <2>3. p8[(4 + m + s + t) + k] = a8[k]
        BY <1>22
    <2> QED
        BY <1>11, <2>2, <2>3
<1>36. Len(p8) = IF c = 0 THEN 4 + m + s ELSE 5 + m + s + c
    BY <1>2, <1>21, <1>22 DEF t
<1>37. LayoutShape(i, m, s, c)
    BY <1>3, <1>22, <1>28, <1>29, <1>30, <1>31, <1>32, <1>33, <1>34, <1>35, <1>36
       DEF LayoutShape, a3
<1> QED
    BY <1>37 DEF m, s, c

-----------------------------------------------------------------------------
(***************************************************************************)
(* The file.                                                               *)
(***************************************************************************)
Layouts == [m \in DOMAIN file |-> Layout(file[m])]

LEMMA FileIsLayouts ==
    ASSUME file \in Seq(Instruction)
    PROVE  /\ Layouts \in Seq(Seq(FieldType)) /\ Len(Layouts) = Len(file)
           /\ Len(file) \in Nat /\ DOMAIN file = 1..Len(file)
           /\ \A m \in DOMAIN file : file[m] \in Instruction /\ Layouts[m] = Layout(file[m])
           /\ \A n \in 0..Len(file) : LayoutOf(SubSeq(file, 1, n)) = FlattenSeq(SubSeq(Layouts, 1, n))
           /\ Whole = FlattenSeq(Layouts)
<1> DEFINE L == Len(file)
<1>1. L \in Nat /\ DOMAIN file = 1..L /\ \A m \in 1..L : file[m] \in Instruction
    <2> HIDE DEF Instruction
    <2> QED
        OBVIOUS
<1>2. \A m \in 1..L : Layout(file[m]) \in Seq(FieldType)
    BY <1>1, LayoutFields DEF LayoutShape
<1>3. Layouts \in [1..L -> Seq(FieldType)] /\ \A m \in 1..L : Layouts[m] = Layout(file[m])
    BY <1>1, <1>2 DEF Layouts
<1> HIDE DEF L
<1>4. Layouts \in Seq(Seq(FieldType)) /\ Len(Layouts) = L
    <2> HIDE DEF FieldType
    <2> QED
        BY <1>1, <1>3
<1>5. ASSUME NEW n \in 0..L
      PROVE  LayoutOf(SubSeq(file, 1, n)) = FlattenSeq(SubSeq(Layouts, 1, n))
    <2> DEFINE s == SubSeq(file, 1, n)
               t == SubSeq(Layouts, 1, n)
               u == [m \in DOMAIN s |-> Layout(s[m])]
    <2> HIDE DEF Instruction, FieldType
    <2>1. DOMAIN s = 1..n /\ \A m \in 1..n : s[m] = file[m]
        BY <1>1 DEF L
    <2>2. t \in Seq(Seq(FieldType)) /\ Len(t) = n /\ \A m \in 1..n : t[m] = Layouts[m]
        BY <1>1, <1>4
    <2>3. \A m \in 1..n : u[m] = t[m]
        <3> SUFFICES ASSUME NEW m \in 1..n PROVE u[m] = t[m]
            OBVIOUS
        <3>1. m \in 1..L
            BY <1>1
        <3> HIDE DEF s, t
        <3> QED
            BY <1>3, <2>1, <2>2, <3>1
    <2>4. u \in [1..n -> Seq(FieldType)]
        <3> SUFFICES ASSUME NEW m \in 1..n PROVE Layout(s[m]) \in Seq(FieldType)
            BY <2>1
        <3>1. m \in 1..L
            BY <1>1
        <3> HIDE DEF s
        <3> QED
            BY <1>2, <2>1, <3>1
    <2>5. LayoutOf(s) = FlattenSeq(u)
        BY DEF LayoutOf
    <2> HIDE DEF s, t, u
    <2>6. n \in Nat
        BY <1>1
    <2>7. u \in Seq(Seq(FieldType)) /\ Len(u) = n
        BY <2>4, <2>6
    <2>8. u = t
        BY <2>2, <2>3, <2>7, SeqEqual
    <2> QED
        BY <2>5, <2>8 DEF s, t
<1>6. Whole = FlattenSeq(Layouts)
    BY DEF Whole, LayoutOf, Layouts
<1> QED
    BY <1>1, <1>3, <1>4, <1>5, <1>6 DEF L

\* Where an instruction is in the file.
LEMMA FilePlaces ==
    ASSUME file \in Seq(Instruction), NEW n \in DOMAIN file
    PROVE  /\ EndOf(n - 1) \in Nat /\ EndOf(n) = EndOf(n - 1) + Len(Layout(file[n]))
           /\ Len(Layout(file[n])) \in Nat \ {0} /\ EndOf(n) \in Nat
           /\ \A j \in 1..Len(Layout(file[n])) :
                /\ EndOf(n - 1) + j \in 1..Len(Whole)
                /\ Whole[EndOf(n - 1) + j] = Layout(file[n])[j]
<1> DEFINE a == FlattenSeq(SubSeq(Layouts, 1, n - 1))
           b == FlattenSeq(SubSeq(Layouts, 1, n))
           i == Layouts[n]
<1>1. /\ Layouts \in Seq(Seq(FieldType)) /\ n \in 1..Len(Layouts) /\ file[n] \in Instruction
      /\ Layouts[n] = Layout(file[n]) /\ Whole = FlattenSeq(Layouts) /\ Len(Layouts) = Len(file)
      /\ Len(file) \in Nat
    BY FileIsLayouts
<1>2. EndOf(n) = Len(b)
    <2>1. n \in 0..Len(file)
        BY <1>1
    <2> QED
        BY <2>1, FileIsLayouts DEF EndOf
<1>3. EndOf(n - 1) = Len(a)
    <2>1. n - 1 \in 0..Len(file)
        BY <1>1
    <2> QED
        BY <2>1, FileIsLayouts DEF EndOf
<1>4. b = a \o i /\ b \in Seq(FieldType) /\ a \in Seq(FieldType)
    BY <1>1, FlattenOneMore
<1>5. i \in Seq(FieldType) /\ Len(i) \in Nat \ {0}
    <2>1. i \in Seq(FieldType)
        BY <1>1
    <2>2. Middle(file[n]) \in Nat /\ Skipped(file[n]) \in Nat /\ Len(file[n].outputs) \in Nat
        BY <1>1 DEF Middle, Skipped, Instruction
    <2>3. Len(i) = IF Len(file[n].outputs) = 0 THEN 4 + Middle(file[n]) + Skipped(file[n])
                   ELSE 5 + Middle(file[n]) + Skipped(file[n]) + Len(file[n].outputs)
        BY <1>1, LayoutFields DEF LayoutShape
    <2>4. PICK m \in Nat, s \in Nat, c \in Nat :
            m = Middle(file[n]) /\ s = Skipped(file[n]) /\ c = Len(file[n].outputs)
        BY <2>2
    <2>5. Len(i) = IF c = 0 THEN 4 + m + s ELSE 5 + m + s + c
        BY <2>3, <2>4
    <2>6. Len(i) \in Nat \ {0}
        BY <2>5
    <2> QED
        BY <2>1, <2>6
<1>6. ASSUME NEW j \in 1..Len(Layouts[n])
      PROVE  /\ Len(FlattenSeq(SubSeq(Layouts, 1, n - 1))) + j \in 1..Len(FlattenSeq(Layouts))
             /\ FlattenSeq(Layouts)[Len(FlattenSeq(SubSeq(Layouts, 1, n - 1))) + j] = Layouts[n][j]
    <2> HIDE DEF FieldType
    <2> QED
        BY <1>1, FlattenPlaces
<1> HIDE DEF FieldType, a, b, i
<1>7. Len(a) \in Nat /\ Len(b) = Len(a) + Len(i)
    BY <1>4, <1>5
<1>8. ASSUME NEW j \in 1..Len(Layout(file[n]))
      PROVE  /\ EndOf(n - 1) + j \in 1..Len(Whole)
             /\ Whole[EndOf(n - 1) + j] = Layout(file[n])[j]
    BY <1>1, <1>3, <1>6 DEF a
<1>9. EndOf(n) = EndOf(n - 1) + Len(Layout(file[n]))
    BY <1>1, <1>2, <1>3, <1>7 DEF i
<1> QED
    BY <1>1, <1>3, <1>5, <1>7, <1>8, <1>9 DEF i

LEMMA WholeIsFields ==
    ASSUME file \in Seq(Instruction)
    PROVE  Whole \in Seq(FieldType)
<1>1. Layouts \in Seq(Seq(FieldType)) /\ Whole = FlattenSeq(Layouts)
    BY FileIsLayouts
<1> HIDE DEF FieldType
<1>2. \E flat \in [0..Len(Layouts) -> Seq(FieldType)] : flat[Len(Layouts)] = FlattenSeq(Layouts)
    BY <1>1, FlattenPrefixes
<1>3. Len(Layouts) \in 0..Len(Layouts)
    BY <1>1
<1> QED
    BY <1>1, <1>2, <1>3

LEMMA FileEnds ==
    ASSUME file \in Seq(Instruction)
    PROVE  EndOf(0) = 0 /\ EndOf(Len(file)) = Len(Whole) /\ Len(Whole) \in Nat
<1>1. EndOf(Len(file)) = Len(Whole)
    <2> HIDE DEF Instruction
    <2> QED
        BY SubSeqFull DEF EndOf, Whole
<1>2. EndOf(0) = 0
    <2>1. SubSeq(Layouts, 1, 0) = <<>>
        BY SubSeqEmpty
    <2>2. ASSUME NEW seqs, seqs = <<>> PROVE FlattenSeq(seqs) = seqs
        <3>1. Len(seqs) = 0
            BY <2>2
        <3> QED
            BY <3>1 DEF FlattenSeq
    <2>3. LayoutOf(SubSeq(file, 1, 0)) = FlattenSeq(SubSeq(Layouts, 1, 0))
        BY FileIsLayouts
    <2>4. FlattenSeq(SubSeq(Layouts, 1, 0)) = SubSeq(Layouts, 1, 0)
        BY <2>1, <2>2
    <2>5. LayoutOf(SubSeq(file, 1, 0)) = <<>>
        BY <2>1, <2>3, <2>4
    <2> QED
        BY <2>5 DEF EndOf
<1>3. Len(Whole) \in Nat
    <2>1. CASE Len(file) = 0
        BY <1>1, <1>2, <2>1
    <2>2. CASE Len(file) # 0
        <3>1. Len(file) \in DOMAIN file
            BY <2>2, FileIsLayouts
        <3> QED
            BY <1>1, <3>1, FilePlaces
    <2> QED
        BY <2>1, <2>2
<1> QED
    BY <1>1, <1>2, <1>3

-----------------------------------------------------------------------------
(***************************************************************************)
(* Steps of the reader.                                                    *)
(***************************************************************************)
\* Offset, stage by stage.
LEMMA Offsets ==
    ASSUME NEW i
    PROVE  /\ stage = "address" => Offset(i) = 0
           /\ stage = "class" => Offset(i) = 1
           /\ stage \in {"memory", "taken"} => Offset(i) = 2
           /\ stage = "target" => Offset(i) = 3
           /\ stage = "inputs" => Offset(i) = 2 + Middle(i)
           /\ stage = "skip inputs" => Offset(i) = 3 + Middle(i)
           /\ stage = "outputs" => Offset(i) = 3 + Middle(i) + Skipped(i)
           /\ stage = "names" => Offset(i) = 4 + Middle(i) + Skipped(i)
           /\ stage = "value" => Offset(i) = 5 + Middle(i) + Skipped(i) + Len(i.outputs)
                                               - Len(current.names)
           /\ stage = "done" => Offset(i) = Len(Layout(i))
<1>1. stage = "address" => Offset(i) = 0
    BY DEF Offset
<1>2. stage = "class" => Offset(i) = 1
    BY DEF Offset
<1>3. stage \in {"memory", "taken"} => Offset(i) = 2
    BY DEF Offset
<1>4. stage = "target" => Offset(i) = 3
    BY DEF Offset
<1>5. stage = "inputs" => Offset(i) = 2 + Middle(i)
    BY DEF Offset
<1>6. stage = "skip inputs" => Offset(i) = 3 + Middle(i)
    BY DEF Offset
<1>7. stage = "outputs" => Offset(i) = 3 + Middle(i) + Skipped(i)
    BY DEF Offset
<1>8. stage = "names" => Offset(i) = 4 + Middle(i) + Skipped(i)
    BY DEF Offset
<1>9. stage = "value" => Offset(i) = 5 + Middle(i) + Skipped(i) + Len(i.outputs)
                                       - Len(current.names)
    BY DEF Offset
<1>10. stage = "done" => Offset(i) = Len(Layout(i))
    BY DEF Offset
<1> QED
    BY <1>1, <1>2, <1>3, <1>4, <1>5, <1>6, <1>7, <1>8, <1>9, <1>10

\* A stage in which something is read is within the instruction.
LEMMA OffsetInside ==
    ASSUME stage \in Reads, NEW i \in Instruction, Seen(i)
    PROVE  Offset(i) \in Nat /\ Offset(i) + 1 \in 1..Len(Layout(i))
<1> DEFINE m == Middle(i)
           s == Skipped(i)
           c == Len(i.outputs)
<1>1. Len(Layout(i)) = IF c = 0 THEN 4 + m + s ELSE 5 + m + s + c
    BY LayoutFields DEF LayoutShape
<1>2. m \in Nat /\ s \in Nat /\ c \in Nat
    <2>1. m \in Nat /\ s \in Nat
        BY DEF Middle, Skipped
    <2>2. c \in Nat
        BY DEF Instruction
    <2> HIDE DEF m, s, c
    <2> QED
        BY <2>1, <2>2
<1>3. stage \in {"memory", "taken"} => m # 0
    <2>1. stage = "memory" => m = 1
        BY DEF Seen, Middle
    <2>2. stage = "taken" => m # 0
        <3> SUFFICES ASSUME stage = "taken" PROVE m # 0
            OBVIOUS
        <3>1. IsBranch(i.class)
            BY DEF Seen
        <3>2. i.class # Load /\ i.class # Store
            BY <3>1, ClassesDiffer
        <3> QED
            BY <3>1, <3>2 DEF Middle
    <2> QED
        BY <2>1, <2>2
<1>4. stage = "target" => m = 2
    BY ClassesDiffer DEF Seen, Middle
<1>5. stage = "skip inputs" => s = 1
    BY DEF Seen, Skipped
<1>6. stage = "names" => c # 0
    BY DEF Seen, Instruction
<1>7. stage = "value" => Len(current.names) \in 1..c
    BY DEF Seen
<1> DEFINE o == Offset(i)
           l == Len(Layout(i))
           r == Len(current.names)
<1>8. /\ stage = "address" => o = 0
      /\ stage = "class" => o = 1
      /\ stage = "memory" => o = 2
      /\ stage = "taken" => o = 2
      /\ stage = "target" => o = 3
      /\ stage = "inputs" => o = 2 + m
      /\ stage = "skip inputs" => o = 3 + m
      /\ stage = "outputs" => o = 3 + m + s
      /\ stage = "names" => o = 4 + m + s
      /\ stage = "value" => o = 5 + m + s + c - r
    BY Offsets
<1> HIDE DEF m, s, c, o, l, r
<1>9. o \in Nat /\ o + 1 \in 1..l
    <2>1. l = IF c = 0 THEN 4 + m + s ELSE 5 + m + s + c
        BY <1>1 DEF l
    <2>2. stage = "value" => r \in 1..c
        BY <1>7 DEF r
    <2>3. stage = "value" => o \in Nat /\ o + 1 \in 1..l
        BY <2>1, <2>2, <1>2, <1>8
    <2>4. stage = "names" => o \in Nat /\ o + 1 \in 1..l
        BY <2>1, <1>2, <1>6, <1>8
    <2>5. ASSUME stage \in {"address", "class", "memory", "taken"}
          PROVE  o \in Nat /\ o + 1 \in 1..l
        <3>1. l \in Nat /\ l >= 4
            BY <2>1, <1>2
        <3>2. o = 0 \/ o = 1 \/ o = 2
            BY <2>5, <1>8
        <3> QED
            BY <3>1, <3>2
    <2>7. stage = "target" => o \in Nat /\ o + 1 \in 1..l
        BY <2>1, <1>2, <1>4, <1>8
    <2>8. stage = "inputs" => o \in Nat /\ o + 1 \in 1..l
        BY <2>1, <1>2, <1>8
    <2>9. ASSUME stage = "skip inputs" PROVE o \in Nat /\ o + 1 \in 1..l
        <3>1. o = 3 + m /\ s = 1
            BY <2>9, <1>5, <1>8
        <3> QED
            BY <2>1, <3>1, <1>2
    <2>10. stage = "outputs" => o \in Nat /\ o + 1 \in 1..l
        BY <2>1, <1>2, <1>8
    <2> QED
        BY <2>3, <2>4, <2>5, <2>7, <2>8, <2>9, <2>10 DEF Reads
<1> QED
    BY <1>9 DEF o, l

\* What the reader gets is the next field of the instruction.
LEMMA NextField ==
    ASSUME State, stage \in Reads, stream # <<>>, NEW n \in 1..Len(file) + 1, At(n)
    PROVE  /\ n \in DOMAIN file /\ file[n] \in Instruction /\ Seen(file[n])
           /\ Position = EndOf(n - 1) + Offset(file[n])
           /\ Head(stream) = Layout(file[n])[Offset(file[n]) + 1]
           /\ Len(stream) \in 1..size /\ Len(Tail(stream)) = Len(stream) - 1
           /\ Tail(stream) = SubSeq(Whole, Position + 2, size)
<1>1. /\ file \in Seq(Instruction) /\ size \in 0..Len(Whole) /\ Len(stream) \in 0..size
      /\ stream = SubSeq(Whole, Position + 1, size)
    BY DEF State
<1>2. Len(Whole) \in Nat /\ EndOf(Len(file)) = Len(Whole) /\ Len(file) \in Nat
      /\ DOMAIN file = 1..Len(file) /\ \A m \in DOMAIN file : file[m] \in Instruction
    BY <1>1, FileEnds, FileIsLayouts
<1>3. Len(stream) # 0
    <2>1. stream \in Seq(FieldType)
        <3>1. Whole \in Seq(FieldType)
            BY <1>1, WholeIsFields
        <3>2. Position \in Int /\ size \in Int /\ Position + 1 \in Int
              /\ \A k \in Position + 1..size : k \in 1..Len(Whole)
            BY <1>1, <1>2 DEF Position
        <3> HIDE DEF FieldType
        <3>3. \A k \in Position + 1..size : Whole[k] \in FieldType
            BY <3>1, <3>2
        <3> HIDE DEF Position
        <3> QED
            BY <1>1, <3>2, <3>3, SubSeqProperties
    <2> HIDE DEF FieldType
    <2> QED
        BY <2>1
<1>4. Position \in Nat /\ Position < size /\ Position + 1 \in 1..Len(Whole)
      /\ size \in Position + 1..Len(Whole)
    BY <1>1, <1>2, <1>3 DEF Position
<1>5. n \in DOMAIN file /\ Seen(file[n]) /\ Position = EndOf(n - 1) + Offset(file[n])
    <2>1. CASE n = Len(file) + 1
        <3>1. Position = EndOf(n - 1) /\ n - 1 = Len(file)
            BY <1>2, <2>1 DEF At
        <3> QED
            BY <1>1, <1>2, <1>4, <3>1
    <2>2. CASE n # Len(file) + 1
        BY <2>2 DEF At
    <2> QED
        BY <2>1, <2>2
<1>6. Offset(file[n]) \in Nat /\ Offset(file[n]) + 1 \in 1..Len(Layout(file[n]))
    BY <1>2, <1>5, OffsetInside
<1>7. Whole[Position + 1] = Layout(file[n])[Offset(file[n]) + 1]
    <2>1. EndOf(n - 1) \in Nat
          /\ Whole[EndOf(n - 1) + (Offset(file[n]) + 1)] = Layout(file[n])[Offset(file[n]) + 1]
        BY <1>1, <1>5, <1>6, FilePlaces
    <2>2. EndOf(n - 1) + (Offset(file[n]) + 1) = Position + 1
        BY <1>5, <1>6, <2>1
    <2> QED
        BY <2>1, <2>2
<1>8. Head(stream) = Whole[Position + 1] /\ Tail(stream) = SubSeq(Whole, Position + 2, size)
    <2> DEFINE k == Position + 1
    <2>1. k \in 1..Len(Whole) /\ size \in k..Len(Whole) /\ stream = SubSeq(Whole, k, size)
          /\ k + 1 = Position + 2
        BY <1>1, <1>4
    <2>2. Whole \in Seq(FieldType)
        BY <1>1, WholeIsFields
    <2> HIDE DEF k, FieldType, Whole, Position
    <2>3. Head(stream) = Whole[k] /\ Tail(stream) = SubSeq(Whole, k + 1, size)
        BY <2>1, <2>2, HeadTailOfSubSeq
    <2> QED
        BY <2>1, <2>3 DEF k
<1>9. Len(Tail(stream)) = Len(stream) - 1
    <2>1. Tail(stream) = SubSeq(Whole, Position + 2, size) /\ Position + 2 \in Int /\ size \in Int
          /\ size - (Position + 2) + 1 = Len(stream) - 1
        BY <1>1, <1>3, <1>4, <1>8 DEF Position
    <2>2. \A k \in Position + 2..size : Whole[k] \in FieldType
        <3>1. Whole \in Seq(FieldType) /\ \A k \in Position + 2..size : k \in 1..Len(Whole)
            BY <1>1, <1>2, <1>4, WholeIsFields
        <3> HIDE DEF FieldType
        <3> QED
            BY <3>1
    <2> HIDE DEF FieldType, Position
    <2>3. Len(SubSeq(Whole, Position + 2, size))
            = IF Position + 2 <= size THEN size - (Position + 2) + 1 ELSE 0
        BY <2>1, <2>2, SubSeqProperties
    <2> QED
        BY <1>4, <2>1, <2>3
<1>10. Len(stream) \in 1..size
    <2> DEFINE k == Len(stream)
               w == Len(Whole)
    <2>1. k \in 0..size /\ k # 0 /\ size \in 0..w /\ w \in Nat
        BY <1>1, <1>2, <1>3
    <2> HIDE DEF k, w
    <2>2. k \in 1..size
        BY <2>1
    <2> QED
        BY <2>2 DEF k
<1>11. Head(stream) = Layout(file[n])[Offset(file[n]) + 1]
    BY <1>7, <1>8
<1>12. n \in DOMAIN file /\ file[n] \in Instruction
    BY <1>2, <1>5
<1> QED
    BY <1>5, <1>8, <1>9, <1>10, <1>11, <1>12

\* The next field, stage by stage: its size is the one asked for, and this is
\* what it says of the instruction.
GoodField(f, i) ==
    /\ f.size = Wanted
    /\ stage = "address" => f.value = i.address
    /\ stage = "class" => f.value = i.class
    /\ stage = "taken" => f.value = IF i.taken THEN 1 ELSE 0
    /\ stage = "target" => f.value = i.next
    /\ stage = "inputs" => f.value = i.inputs
    /\ stage = "outputs" => f.value = Len(i.outputs)
    /\ stage = "names" => f.value = i.outputs

LEMMA FieldAtPlace ==
    ASSUME stage \in Reads, NEW i \in Instruction, Seen(i), current \in Current
    PROVE  GoodField(Layout(i)[Offset(i) + 1], i)
<1> DEFINE m == Middle(i)
           s == Skipped(i)
           c == Len(i.outputs)
           r == Len(current.names)
           f == Layout(i)[Offset(i) + 1]
<1>1. m \in Nat /\ s \in 0..1 /\ c \in Nat /\ r \in Nat
    <2>1. m \in Nat
        BY DEF Middle
    <2>2. s \in 0..1
        BY DEF Skipped
    <2>3. c \in Nat
        BY DEF Instruction
    <2>4. r \in Nat
        BY DEF Current
    <2> HIDE DEF m, s, c, r
    <2> QED
        BY <2>1, <2>2, <2>3, <2>4
<1>2. LayoutShape(i, m, s, c)
    BY LayoutFields
<1>3. CASE stage = "address"
    <2>1. Offset(i) + 1 = 1
        BY <1>3, Offsets
    <2>2. f = [size |-> 8, value |-> i.address]
        BY <1>2, <2>1 DEF LayoutShape
    <2>3. Wanted = 8
        BY <1>3 DEF Wanted
    <2> QED
        BY <1>3, <2>2, <2>3 DEF GoodField
<1>4. CASE stage = "class"
    <2>1. Offset(i) + 1 = 2
        BY <1>4, Offsets
    <2>2. f = [size |-> 1, value |-> i.class]
        BY <1>2, <2>1 DEF LayoutShape
    <2>3. Wanted = 1
        BY <1>4 DEF Wanted
    <2> QED
        BY <1>4, <2>2, <2>3 DEF GoodField
<1>5. CASE stage = "memory"
    <2>1. Offset(i) + 1 = 2 + 1
        BY <1>5, Offsets
    <2>2. i.class \in {Load, Store} /\ current.class = i.class /\ m = 1
        BY <1>5 DEF Seen, Middle
    <2>3. f = MiddleOf(i)[1]
        BY <1>2, <2>1, <2>2 DEF LayoutShape
    <2>4. CASE i.class = Load
        <3>1. f = [size |-> 10, value |-> 0]
            BY <2>3, <2>4, MiddleFields
        <3>2. Wanted = 10
            BY <1>5, <2>2, <2>4 DEF Wanted
        <3> QED
            BY <1>5, <3>1, <3>2 DEF GoodField
    <2>5. CASE i.class = Store
        <3>1. f = [size |-> 11, value |-> 0]
            BY <2>3, <2>5, MiddleFields
        <3>2. Wanted = 11
            BY <1>5, <2>2, <2>5, ClassesDiffer DEF Wanted
        <3> QED
            BY <1>5, <3>1, <3>2 DEF GoodField
    <2> QED
        BY <2>2, <2>4, <2>5
<1>6. CASE stage = "taken"
    <2>1. Offset(i) + 1 = 2 + 1
        BY <1>6, Offsets
    <2>2. IsBranch(i.class)
        BY <1>6 DEF Seen
    <2>3. m >= 1
        BY <2>2, ClassesDiffer DEF Middle
    <2>4. f = MiddleOf(i)[1]
        BY <1>1, <1>2, <2>1, <2>3 DEF LayoutShape
    <2>5. f = [size |-> 1, value |-> IF i.taken THEN 1 ELSE 0]
        BY <2>2, <2>4, MiddleFields
    <2>6. Wanted = 1
        BY <1>6 DEF Wanted
    <2> QED
        BY <1>6, <2>5, <2>6 DEF GoodField
<1>7. CASE stage = "target"
    <2>1. Offset(i) + 1 = 2 + 2
        BY <1>7, Offsets
    <2>2. IsBranch(i.class) /\ i.taken
        BY <1>7 DEF Seen
    <2>3. m = 2
        BY <2>2, ClassesDiffer DEF Middle
    <2>4. f = MiddleOf(i)[2]
        BY <1>2, <2>1, <2>3 DEF LayoutShape
    <2>5. f = [size |-> 8, value |-> i.next]
        BY <2>2, <2>4, MiddleFields
    <2>6. Wanted = 8
        BY <1>7 DEF Wanted
    <2> QED
        BY <1>7, <2>5, <2>6 DEF GoodField
<1>8. CASE stage = "inputs"
    <2>1. Offset(i) + 1 = 3 + m
        <3>1. Offset(i) = 2 + m
            BY <1>8, Offsets
        <3> HIDE DEF m
        <3> QED
            BY <1>1, <3>1
    <2>2. f = [size |-> 1, value |-> i.inputs]
        BY <1>2, <2>1 DEF LayoutShape
    <2>3. Wanted = 1
        BY <1>8 DEF Wanted
    <2> QED
        BY <1>8, <2>2, <2>3 DEF GoodField
<1>9. CASE stage = "skip inputs"
    <2>1. Offset(i) + 1 = 4 + m
        <3>1. Offset(i) = 3 + m
            BY <1>9, Offsets
        <3> HIDE DEF m
        <3> QED
            BY <1>1, <3>1
    <2>2. current.inputs = i.inputs /\ s = 1
        <3>1. i.inputs # 0 /\ current.inputs = i.inputs
            BY <1>9 DEF Seen
        <3>2. s = 1
            BY <3>1 DEF Skipped
        <3> QED
            BY <3>1, <3>2
    <2>3. f = [size |-> i.inputs, value |-> 0]
        <3> HIDE DEF m, s, c, f
        <3>1. s # 0
            BY <2>2
        <3> QED
            BY <1>2, <2>1, <3>1 DEF LayoutShape, f
    <2>4. Wanted = i.inputs
        <3>1. Wanted = current.inputs
            BY <1>9 DEF Wanted
        <3> QED
            BY <2>2, <3>1
    <2> HIDE DEF m, s, c, r, f
    <2>5. f.size = Wanted
        BY <2>3, <2>4
    <2> QED
        BY <1>9, <2>5 DEF GoodField, f
<1>10. CASE stage = "outputs"
    <2>1. Offset(i) + 1 = 4 + m + s
        <3>1. Offset(i) = 3 + m + s
            BY <1>10, Offsets
        <3> HIDE DEF m, s
        <3> QED
            BY <1>1, <3>1
    <2>2. f = [size |-> 1, value |-> c]
        BY <1>2, <2>1 DEF LayoutShape
    <2>3. Wanted = 1
        BY <1>10 DEF Wanted
    <2> QED
        BY <1>10, <2>2, <2>3 DEF GoodField
<1>11. CASE stage = "names"
    <2>1. Offset(i) + 1 = 5 + m + s
        <3>1. Offset(i) = 4 + m + s
            BY <1>11, Offsets
        <3> HIDE DEF m, s
        <3> QED
            BY <1>1, <3>1
    <2>2. i.outputs # <<>> /\ current.count = c
        BY <1>11 DEF Seen
    <2>3. c # 0
        BY <2>2 DEF Instruction
    <2>4. f = [size |-> c, value |-> i.outputs]
        BY <1>2, <2>1, <2>3 DEF LayoutShape
    <2>5. Wanted = c
        BY <1>11, <2>2 DEF Wanted
    <2> QED
        BY <1>11, <2>4, <2>5 DEF GoodField
<1>12. CASE stage = "value"
    <2> DEFINE k == c - r + 1
    <2>1. r \in 1..c /\ \A j \in 1..r : current.names[j] = i.outputs[c - r + j]
        BY <1>12 DEF Seen
    <2>2. Offset(i) + 1 = 5 + m + s + k /\ k \in 1..c
        <3>1. Offset(i) = 5 + m + s + c - r
            BY <1>12, Offsets
        <3>2. r \in 1..c
            BY <2>1
        <3> HIDE DEF m, s, c, r
        <3> QED
            BY <1>1, <3>1, <3>2
    <2>3. f = [size |-> ValueSize(i.outputs[k]), value |-> 0]
        BY <1>2, <2>2 DEF LayoutShape
    <2>4. Head(current.names) = i.outputs[k]
        <3>1. Head(current.names) = current.names[1]
            OBVIOUS
        <3>2. 1 \in 1..r
            BY <2>1
        <3> HIDE DEF c, r
        <3> QED
            BY <2>1, <3>1, <3>2
    <2>5. Wanted = ValueSize(Head(current.names))
        BY <1>12 DEF Wanted
    <2> HIDE DEF f, k
    <2>6. f.size = Wanted
        BY <2>3, <2>4, <2>5
    <2> QED
        BY <1>12, <2>6 DEF GoodField, f
<1> QED
    BY <1>3, <1>4, <1>5, <1>6, <1>7, <1>8, <1>9, <1>10, <1>11, <1>12 DEF Reads

\* A reader that has fields left is within an instruction, and gets its next field.
LEMMA Reading ==
    ASSUME ReaderInv, stage \in Reads, stream # <<>>
    PROVE  \E n \in DOMAIN file, i \in Instruction :
             /\ i = file[n] /\ At(n) /\ n \in 1..Len(file) + 1
             /\ Seen(i) /\ GoodField(Head(stream), i) /\ current \in Current
<1>1. State /\ current \in Current /\ \E n \in 1..Len(file) + 1 : At(n)
    BY DEF ReaderInv, State
<1>2. PICK n \in 1..Len(file) + 1 : At(n)
    BY <1>1
<1>3. /\ n \in DOMAIN file /\ file[n] \in Instruction /\ Seen(file[n])
      /\ Head(stream) = Layout(file[n])[Offset(file[n]) + 1]
    BY <1>1, <1>2, NextField
<1>4. GoodField(Layout(file[n])[Offset(file[n]) + 1], file[n])
    BY <1>1, <1>3, FieldAtPlace
<1>5. GoodField(Head(stream), file[n])
    BY <1>3, <1>4
<1> QED
    BY <1>1, <1>2, <1>3, <1>5

\* A read takes the reader one field further within its instruction.
LEMMA OneFurther ==
    ASSUME ReaderInv, stage \in Reads, stream # <<>>, stream' = Tail(stream),
           UNCHANGED <<file, size, checks, records>>,
           stage' \in Reads \cup {"done", "panicked"}, current' \in Current,
           NEW n \in DOMAIN file, n \in 1..Len(file) + 1, At(n), NEW i, i = file[n],
           stage' # "panicked" => Seen(i)' /\ Offset(i)' = Offset(i) + 1
    PROVE  ReaderInv'
<1>1. State
    BY DEF ReaderInv
<1>2. /\ Position = EndOf(n - 1) + Offset(i)
      /\ Len(stream) \in 1..size /\ Len(Tail(stream)) = Len(stream) - 1
      /\ Tail(stream) = SubSeq(Whole, Position + 2, size)
    BY <1>1, NextField
<1>3. i \in Instruction /\ Len(Whole) \in Nat /\ EndOf(n - 1) \in Nat
    BY <1>1, FileIsLayouts, FileEnds, FilePlaces DEF State
<1>4. Offset(i) \in Nat
    BY <1>1, <1>3, NextField, OffsetInside
<1>5. Whole' = Whole /\ EndOf(n - 1)' = EndOf(n - 1) /\ RecordsOf(n - 1)' = RecordsOf(n - 1)
    BY DEF Whole, EndOf, RecordsOf
<1>6. size \in 0..Len(Whole) /\ file \in Seq(Instruction)
    BY <1>1 DEF State
<1>7. Position' = Position + 1
    BY <1>2, <1>3, <1>6 DEF Position
<1>8. State'
    <2>1. Len(stream') \in 0..size
        BY <1>2, <1>3, <1>6
    <2>2. Position + 1 + 1 = Position + 2
        BY <1>2, <1>3, <1>4
    <2>3. stream' = SubSeq(Whole', Position' + 1, size')
        BY <1>2, <1>5, <1>7, <2>2
    <2>4. checks' \in BOOLEAN
        BY <1>1 DEF State
    <2> QED
        BY <1>5, <1>6, <2>1, <2>3, <2>4 DEF State
<1>9. stage' # "panicked" => At(n)'
    <2> SUFFICES ASSUME stage' # "panicked" PROVE At(n)'
        OBVIOUS
    <2>1. records' = RecordsOf(n - 1)'
        BY <1>5 DEF At
    <2>2. Position' = EndOf(n - 1)' + Offset(i)'
        BY <1>2, <1>3, <1>4, <1>5, <1>7
    <2> QED
        BY <2>1, <2>2 DEF At
<1>10. WholeRecordsOnly'
    BY DEF WholeRecordsOnly, Reads
<1>11. ASSUME stage' \in Reads \cup {"done"}
       PROVE  \E k \in 1..Len(file') + 1 : At(k)'
    <2>1. At(n)'
        BY <1>9, <1>11 DEF Reads
    <2> QED
        BY <2>1
<1> QED
    BY <1>8, <1>10, <1>11 DEF ReaderInv

LEMMA ReadAddressKeeps ==
    ASSUME ReaderInv, ReadAddress
    PROVE  ReaderInv'
<1>1. stage = "address" /\ stage \in Reads /\ stream # <<>> /\ stream' = Tail(stream)
      /\ UNCHANGED <<file, size, checks, records>>
    BY DEF ReadAddress, Read, Reads
<1>2. PICK n \in DOMAIN file, i \in Instruction :
        /\ i = file[n] /\ At(n) /\ n \in 1..Len(file) + 1
        /\ Seen(i) /\ GoodField(Head(stream), i) /\ current \in Current
    BY <1>1, Reading
<1>3. stage' = "class" /\ current' = [Nothing EXCEPT !.address = i.address]
    BY <1>1, <1>2 DEF ReadAddress, Read, value, GoodField
<1>4. current' \in Current /\ current'.address = i.address /\ ~current'.taken
    <2>1. Nothing \in Current
        BY WordAssumption DEF Nothing, Current, Words, Bytes
    <2>2. i.address \in Words /\ ~Nothing.taken
        BY DEF Instruction, Nothing
    <2> QED
        BY <1>3, <2>1, <2>2 DEF Current
<1>5. Seen(i)'
    BY <1>3, <1>4 DEF Seen
<1>6. Offset(i)' = Offset(i) + 1
    <2>1. Offset(i) = 0
        BY <1>1, Offsets
    <2>2. Offset(i)' = 1
        BY <1>3 DEF Offset
    <2> QED
        BY <2>1, <2>2
<1>7. stage' \in Reads
    BY <1>3 DEF Reads
<1> QED
    BY <1>1, <1>2, <1>4, <1>5, <1>6, <1>7, OneFurther

LEMMA ReadClassKeeps ==
    ASSUME ReaderInv, ReadClass
    PROVE  ReaderInv'
<1>1. stage = "class" /\ stage \in Reads /\ stream # <<>> /\ stream' = Tail(stream)
      /\ UNCHANGED <<file, size, checks, records>>
    BY DEF ReadClass, Read, Reads
<1>2. PICK n \in DOMAIN file, i \in Instruction :
        /\ i = file[n] /\ At(n) /\ n \in 1..Len(file) + 1
        /\ Seen(i) /\ GoodField(Head(stream), i) /\ current \in Current
    BY <1>1, Reading
<1>3. stage' = AfterClass(i.class) /\ current' = [current EXCEPT !.class = i.class]
    BY <1>1, <1>2 DEF ReadClass, Read, value, GoodField
<1>4. /\ current' \in Current /\ current'.class = i.class
      /\ current'.address = i.address /\ ~current'.taken
    <2>1. i.class \in Bytes
        BY DEF Instruction
    <2>2. current.address = i.address /\ ~current.taken
        BY <1>1, <1>2 DEF Seen
    <2> QED
        BY <1>2, <1>3, <2>1, <2>2 DEF Current
<1>5. \/ i.class \in {Load, Store} /\ stage' = "memory" /\ ~IsBranch(i.class)
      \/ i.class \notin {Load, Store} /\ stage' = "taken" /\ IsBranch(i.class)
      \/ i.class \notin {Load, Store} /\ stage' = "inputs" /\ ~IsBranch(i.class)
    <2>1. CASE i.class \in {Load, Store}
        BY <1>3, <2>1, ClassesDiffer DEF AfterClass
    <2>2. CASE i.class \notin {Load, Store} /\ IsBranch(i.class)
        BY <1>3, <2>2 DEF AfterClass
    <2>3. CASE i.class \notin {Load, Store} /\ ~IsBranch(i.class)
        BY <1>3, <2>3 DEF AfterClass
    <2> QED
        BY <2>1, <2>2, <2>3
<1>6. Seen(i)'
    BY <1>4, <1>5 DEF Seen
<1>7. Offset(i)' = Offset(i) + 1
    <2>1. Offset(i) = 1
        BY <1>1, Offsets
    <2>2. stage' \in {"memory", "taken"} => Offset(i)' = 2
        BY DEF Offset
    <2>3. stage' = "inputs" => Offset(i)' = 2 + Middle(i)
        BY DEF Offset
    <2>4. stage' = "inputs" => Middle(i) = 0
        BY <1>5 DEF Middle
    <2> QED
        BY <1>5, <2>1, <2>2, <2>3, <2>4
<1>8. stage' \in Reads
    BY <1>5 DEF Reads
<1> QED
    BY <1>1, <1>2, <1>4, <1>6, <1>7, <1>8, OneFurther

LEMMA SkipMemoryKeeps ==
    ASSUME ReaderInv, SkipMemory
    PROVE  ReaderInv'
<1>1. stage = "memory" /\ stage \in Reads /\ stream # <<>> /\ stream' = Tail(stream)
      /\ UNCHANGED <<file, size, checks, records>>
    BY DEF SkipMemory, Read, Reads
<1>2. PICK n \in DOMAIN file, i \in Instruction :
        /\ i = file[n] /\ At(n) /\ n \in 1..Len(file) + 1
        /\ Seen(i) /\ GoodField(Head(stream), i) /\ current \in Current
    BY <1>1, Reading
<1>3. stage' = "inputs" /\ current' = current
    BY DEF SkipMemory, Read
<1>4. i.class \in {Load, Store} /\ ~IsBranch(i.class) /\ Middle(i) = 1
    <2>1. i.class \in {Load, Store}
        BY <1>1, <1>2 DEF Seen
    <2> QED
        BY <2>1, ClassesDiffer DEF Middle
<1>5. current'.class = i.class /\ current'.address = i.address
    BY <1>1, <1>2, <1>3 DEF Seen
<1>6. Seen(i)'
    BY <1>3, <1>4, <1>5 DEF Seen
<1>7. Offset(i)' = Offset(i) + 1
    <2>1. Offset(i) = 2
        BY <1>1, Offsets
    <2>2. Offset(i)' = 2 + Middle(i)
        BY <1>3 DEF Offset
    <2> QED
        BY <1>4, <2>1, <2>2
<1>8. stage' \in Reads /\ current' \in Current
    BY <1>2, <1>3 DEF Reads
<1> QED
    BY <1>1, <1>2, <1>6, <1>7, <1>8, OneFurther

LEMMA ReadTakenKeeps ==
    ASSUME ReaderInv, ReadTaken
    PROVE  ReaderInv'
<1>1. stage = "taken" /\ stage \in Reads /\ stream # <<>> /\ stream' = Tail(stream)
      /\ UNCHANGED <<file, size, checks, records>>
    BY DEF ReadTaken, Read, Reads
<1>2. PICK n \in DOMAIN file, i \in Instruction :
        /\ i = file[n] /\ At(n) /\ n \in 1..Len(file) + 1
        /\ Seen(i) /\ GoodField(Head(stream), i) /\ current \in Current
    BY <1>1, Reading
<1>3. /\ IsBranch(i.class) /\ current.class = i.class /\ current.address = i.address
      /\ ~current.taken /\ value = IF i.taken THEN 1 ELSE 0
    BY <1>1, <1>2 DEF Seen, GoodField, value
<1>4. Offset(i) = 2 /\ i.class \notin {Load, Store} /\ i.taken \in BOOLEAN
      /\ i.address \in Words
    BY <1>1, <1>3, Offsets, ClassesDiffer DEF Instruction
<1>5. \/ i.taken /\ stage' = "target" /\ current' = [current EXCEPT !.taken = TRUE]
      \/ stage' = "panicked" /\ current' = current
      \/ /\ ~i.taken /\ stage' = "inputs"
         /\ current' = [current EXCEPT !.next = FallThrough(i.address)]
    <2>1. CASE i.taken
        BY <1>3, <2>1 DEF ReadTaken, Read
    <2>2. CASE ~i.taken /\ checks /\ current.address + 4 >= WordRange
        BY <1>3, <2>2 DEF ReadTaken, Read
    <2>3. CASE ~i.taken /\ ~(checks /\ current.address + 4 >= WordRange)
        BY <1>3, <2>3 DEF ReadTaken, Read
    <2> QED
        BY <1>4, <2>1, <2>2, <2>3
<1>6. CASE i.taken /\ stage' = "target" /\ current' = [current EXCEPT !.taken = TRUE]
    <2>1. /\ current' \in Current /\ current'.class = i.class
          /\ current'.address = i.address /\ current'.taken
        BY <1>2, <1>3, <1>6 DEF Current
    <2>2. Seen(i)'
        BY <1>3, <1>6, <2>1 DEF Seen
    <2>3. Offset(i)' = 3
        BY <1>6 DEF Offset
    <2>4. Offset(i)' = Offset(i) + 1 /\ stage' \in Reads
        BY <1>4, <1>6, <2>3 DEF Reads
    <2> QED
        BY <1>1, <1>2, <2>1, <2>2, <2>4, OneFurther
<1>7. CASE stage' = "panicked" /\ current' = current
    BY <1>1, <1>2, <1>7, OneFurther
<1>8. CASE /\ ~i.taken /\ stage' = "inputs"
           /\ current' = [current EXCEPT !.next = FallThrough(i.address)]
    <2>1. FallThrough(i.address) \in Words
        BY <1>4, WordAssumption DEF FallThrough, Words
    <2>2. /\ current' \in Current /\ current'.class = i.class /\ current'.address = i.address
          /\ ~current'.taken /\ current'.next = FallThrough(i.address)
        BY <1>2, <1>3, <1>8, <2>1 DEF Current
    <2>3. current'.taken = i.taken
        BY <1>4, <1>8, <2>2 DEF Current
    <2>4. Record(current)' = RecordOf(i)
        BY <1>8, <2>2, <2>3 DEF Record, RecordOf, FallThrough
    <2>5. Seen(i)'
        BY <1>8, <2>2, <2>4 DEF Seen
    <2>6. Offset(i)' = 2 + Middle(i) /\ Middle(i) = 1
        BY <1>3, <1>4, <1>8 DEF Offset, Middle
    <2>7. Offset(i)' = Offset(i) + 1 /\ stage' \in Reads
        BY <1>4, <1>8, <2>6 DEF Reads
    <2> QED
        BY <1>1, <1>2, <2>2, <2>5, <2>7, OneFurther
<1> QED
    BY <1>5, <1>6, <1>7, <1>8

LEMMA ReadTargetKeeps ==
    ASSUME ReaderInv, ReadTarget
    PROVE  ReaderInv'
<1>1. stage = "target" /\ stage \in Reads /\ stream # <<>> /\ stream' = Tail(stream)
      /\ UNCHANGED <<file, size, checks, records>>
    BY DEF ReadTarget, Read, Reads
<1>2. PICK n \in DOMAIN file, i \in Instruction :
        /\ i = file[n] /\ At(n) /\ n \in 1..Len(file) + 1
        /\ Seen(i) /\ GoodField(Head(stream), i) /\ current \in Current
    BY <1>1, Reading
<1>3. stage' = "inputs" /\ current' = [current EXCEPT !.next = i.next]
    BY <1>1, <1>2 DEF ReadTarget, Read, value, GoodField
<1>4. /\ IsBranch(i.class) /\ i.taken /\ current.taken
      /\ current.class = i.class /\ current.address = i.address
    BY <1>1, <1>2 DEF Seen
<1>5. i.next \in Words /\ i.taken = TRUE /\ current.taken = TRUE /\ Middle(i) = 2
    <2>1. i.next \in Words /\ i.taken = TRUE
        BY <1>4 DEF Instruction
    <2>2. current.taken = TRUE
        BY <1>2, <1>4 DEF Current
    <2>3. Middle(i) = 2
        BY <1>4, ClassesDiffer DEF Middle
    <2> QED
        BY <2>1, <2>2, <2>3
<1>6. /\ current' \in Current /\ current'.class = i.class /\ current'.address = i.address
      /\ current'.taken = TRUE /\ current'.next = i.next
    BY <1>2, <1>3, <1>4, <1>5 DEF Current
<1>7. Record(current)' = RecordOf(i)
    BY <1>5, <1>6 DEF Record, RecordOf
<1>8. Seen(i)'
    BY <1>3, <1>6, <1>7 DEF Seen
<1>9. Offset(i)' = Offset(i) + 1
    <2>1. Offset(i) = 3
        BY <1>1, Offsets
    <2>2. Offset(i)' = 2 + Middle(i)
        BY <1>3 DEF Offset
    <2> QED
        BY <1>5, <2>1, <2>2
<1>10. stage' \in Reads
    BY <1>3 DEF Reads
<1> QED
    BY <1>1, <1>2, <1>6, <1>8, <1>9, <1>10, OneFurther

LEMMA ReadInputsKeeps ==
    ASSUME ReaderInv, ReadInputs
    PROVE  ReaderInv'
<1>1. stage = "inputs" /\ stage \in Reads /\ stream # <<>> /\ stream' = Tail(stream)
      /\ UNCHANGED <<file, size, checks, records>>
    BY DEF ReadInputs, Read, Reads
<1>2. PICK n \in DOMAIN file, i \in Instruction :
        /\ i = file[n] /\ At(n) /\ n \in 1..Len(file) + 1
        /\ Seen(i) /\ GoodField(Head(stream), i) /\ current \in Current
    BY <1>1, Reading
<1>3. stage' = (IF i.inputs = 0 THEN "outputs" ELSE "skip inputs")
      /\ current' = [current EXCEPT !.inputs = i.inputs]
    BY <1>1, <1>2 DEF ReadInputs, Read, value, GoodField
<1>4. /\ current.class = i.class /\ current.address = i.address
      /\ IsBranch(i.class) => Record(current) = RecordOf(i)
    BY <1>1, <1>2 DEF Seen
<1>5. i.inputs \in Bytes
    BY DEF Instruction
<1>6. /\ current' \in Current /\ current'.class = current.class
      /\ current'.address = current.address /\ current'.inputs = i.inputs
      /\ current'.taken = current.taken /\ current'.next = current.next
    BY <1>2, <1>3, <1>5 DEF Current
<1>7. Record(current)' = Record(current)
    BY <1>6 DEF Record
<1>8. Seen(i)'
    BY <1>3, <1>4, <1>6, <1>7 DEF Seen
<1>9. Offset(i)' = Offset(i) + 1
    <2>1. Offset(i) = 2 + Middle(i) /\ Middle(i) \in Nat
        BY <1>1, Offsets DEF Middle
    <2>2. CASE i.inputs = 0
        <3>1. Offset(i)' = 3 + Middle(i) + Skipped(i) /\ Skipped(i) = 0
            BY <1>3, <2>2 DEF Offset, Skipped
        <3> QED
            BY <2>1, <3>1
    <2>3. CASE i.inputs # 0
        <3>1. Offset(i)' = 3 + Middle(i)
            BY <1>3, <2>3 DEF Offset
        <3> QED
            BY <2>1, <3>1
    <2> QED
        BY <2>2, <2>3
<1>10. stage' \in Reads
    BY <1>3 DEF Reads
<1> QED
    BY <1>1, <1>2, <1>6, <1>8, <1>9, <1>10, OneFurther

LEMMA SkipInputsKeeps ==
    ASSUME ReaderInv, SkipInputs
    PROVE  ReaderInv'
<1>1. stage = "skip inputs" /\ stage \in Reads /\ stream # <<>> /\ stream' = Tail(stream)
      /\ UNCHANGED <<file, size, checks, records>>
    BY DEF SkipInputs, Read, Reads
<1>2. PICK n \in DOMAIN file, i \in Instruction :
        /\ i = file[n] /\ At(n) /\ n \in 1..Len(file) + 1
        /\ Seen(i) /\ GoodField(Head(stream), i) /\ current \in Current
    BY <1>1, Reading
<1>3. stage' = "outputs" /\ current' = current
    BY DEF SkipInputs, Read
<1>4. /\ current.class = i.class /\ current.address = i.address /\ i.inputs # 0
      /\ IsBranch(i.class) => Record(current) = RecordOf(i)
    BY <1>1, <1>2 DEF Seen
<1>5. Record(current)' = Record(current)
    BY <1>3 DEF Record
<1>6. Seen(i)'
    BY <1>3, <1>4, <1>5 DEF Seen
<1>7. Offset(i)' = Offset(i) + 1
    <2>1. Offset(i) = 3 + Middle(i) /\ Middle(i) \in Nat
        BY <1>1, Offsets DEF Middle
    <2>2. Offset(i)' = 3 + Middle(i) + Skipped(i)
        BY <1>3 DEF Offset
    <2>3. Skipped(i) = 1
        BY <1>4 DEF Skipped
    <2> QED
        BY <2>1, <2>2, <2>3
<1>8. stage' \in Reads /\ current' \in Current
    BY <1>2, <1>3 DEF Reads
<1> QED
    BY <1>1, <1>2, <1>6, <1>7, <1>8, OneFurther

LEMMA ReadOutputsKeeps ==
    ASSUME ReaderInv, ReadOutputs
    PROVE  ReaderInv'
<1>1. stage = "outputs" /\ stage \in Reads /\ stream # <<>> /\ stream' = Tail(stream)
      /\ UNCHANGED <<file, size, checks, records>>
    BY DEF ReadOutputs, Read, Reads
<1>2. PICK n \in DOMAIN file, i \in Instruction :
        /\ i = file[n] /\ At(n) /\ n \in 1..Len(file) + 1
        /\ Seen(i) /\ GoodField(Head(stream), i) /\ current \in Current
    BY <1>1, Reading
<1> DEFINE c == Len(i.outputs)
<1>3. stage' = (IF c = 0 THEN "done" ELSE "names")
      /\ current' = [current EXCEPT !.count = c]
    BY <1>1, <1>2 DEF ReadOutputs, Read, value, GoodField
<1>4. /\ current.class = i.class /\ current.address = i.address
      /\ IsBranch(i.class) => Record(current) = RecordOf(i)
    BY <1>1, <1>2 DEF Seen
<1>5. i.outputs \in Seq(Bytes) /\ c \in Nat
    BY DEF Instruction
<1>6. /\ current' \in Current /\ current'.class = current.class
      /\ current'.address = current.address /\ current'.count = c
      /\ current'.taken = current.taken /\ current'.next = current.next
    <2> HIDE DEF c
    <2> QED
        BY <1>2, <1>3, <1>5 DEF Current
<1>7. Record(current)' = Record(current)
    BY <1>6 DEF Record
<1>8. Seen(i)'
    <2>1. c # 0 => i.outputs # <<>>
        BY <1>5
    <2> QED
        BY <1>3, <1>4, <1>6, <1>7, <2>1 DEF Seen
<1>9. Offset(i)' = Offset(i) + 1
    <2> DEFINE m == Middle(i)
               s == Skipped(i)
    <2>1. Offset(i) = 3 + m + s /\ m \in Nat /\ s \in Nat
        <3>1. Offset(i) = 3 + m + s
            BY <1>1, Offsets
        <3>2. m \in Nat /\ s \in Nat
            BY DEF Middle, Skipped
        <3> QED
            BY <3>1, <3>2
    <2>2. CASE c = 0
        <3>1. Offset(i)' = Len(Layout(i))
            BY <1>3, <2>2 DEF Offset
        <3>2. Len(Layout(i)) = 4 + m + s
            BY <2>2, LayoutFields DEF LayoutShape
        <3> HIDE DEF m, s
        <3> QED
            BY <2>1, <3>1, <3>2
    <2>3. CASE c # 0
        <3>1. Offset(i)' = 4 + m + s
            BY <1>3, <2>3 DEF Offset
        <3> HIDE DEF m, s
        <3> QED
            BY <2>1, <3>1
    <2> QED
        BY <2>2, <2>3
<1>10. stage' \in Reads \cup {"done"}
    BY <1>3 DEF Reads
<1> QED
    BY <1>1, <1>2, <1>6, <1>8, <1>9, <1>10, OneFurther

LEMMA ReadNamesKeeps ==
    ASSUME ReaderInv, ReadNames
    PROVE  ReaderInv'
<1>1. stage = "names" /\ stage \in Reads /\ stream # <<>> /\ stream' = Tail(stream)
      /\ UNCHANGED <<file, size, checks, records>>
    BY DEF ReadNames, Read, Reads
<1>2. PICK n \in DOMAIN file, i \in Instruction :
        /\ i = file[n] /\ At(n) /\ n \in 1..Len(file) + 1
        /\ Seen(i) /\ GoodField(Head(stream), i) /\ current \in Current
    BY <1>1, Reading
<1> DEFINE c == Len(i.outputs)
<1>3. stage' = "value" /\ current' = [current EXCEPT !.names = i.outputs]
    BY <1>1, <1>2 DEF ReadNames, Read, value, GoodField
<1>4. /\ current.class = i.class /\ current.address = i.address
      /\ i.outputs # <<>>
      /\ IsBranch(i.class) => Record(current) = RecordOf(i)
    BY <1>1, <1>2 DEF Seen
<1>5. i.outputs \in Seq(Bytes) /\ c \in Nat /\ c \in 1..c
    <2>1. i.outputs \in Seq(Bytes) /\ c \in Nat
        BY DEF Instruction
    <2>2. c # 0
        BY <1>4, <2>1
    <2> HIDE DEF c
    <2> QED
        BY <2>1, <2>2
<1>6. /\ current' \in Current /\ current'.class = current.class
      /\ current'.address = current.address /\ current'.names = i.outputs
      /\ current'.taken = current.taken /\ current'.next = current.next
    BY <1>2, <1>3, <1>5 DEF Current
<1>7. Record(current)' = Record(current)
    BY <1>6 DEF Record
<1>8. Seen(i)'
    <2>1. \A k \in 1..c : i.outputs[k] = i.outputs[c - c + k]
        <3> SUFFICES ASSUME NEW k \in 1..c PROVE i.outputs[k] = i.outputs[c - c + k]
            OBVIOUS
        <3>1. c - c + k = k
            BY <1>5
        <3> QED
            BY <3>1
    <2> QED
        BY <1>3, <1>4, <1>5, <1>6, <1>7, <2>1 DEF Seen
<1>9. Offset(i)' = Offset(i) + 1
    <2> DEFINE m == Middle(i)
               s == Skipped(i)
    <2>1. Offset(i) = 4 + m + s
        BY <1>1, Offsets
    <2>2. m \in Nat /\ s \in Nat
        BY DEF Middle, Skipped
    <2>3. Offset(i)' = 5 + m + s + c - Len(current'.names)
        BY <1>3 DEF Offset
    <2>4. Len(current'.names) = c
        BY <1>6
    <2> HIDE DEF m, s, c
    <2> QED
        BY <1>5, <2>1, <2>2, <2>3, <2>4
<1>10. stage' \in Reads
    BY <1>3 DEF Reads
<1> QED
    BY <1>1, <1>2, <1>6, <1>8, <1>9, <1>10, OneFurther

LEMMA SkipValueKeeps ==
    ASSUME ReaderInv, SkipValue
    PROVE  ReaderInv'
<1>1. stage = "value" /\ stage \in Reads /\ stream # <<>> /\ stream' = Tail(stream)
      /\ UNCHANGED <<file, size, checks, records>>
    BY DEF SkipValue, Read, Reads
<1>2. PICK n \in DOMAIN file, i \in Instruction :
        /\ i = file[n] /\ At(n) /\ n \in 1..Len(file) + 1
        /\ Seen(i) /\ GoodField(Head(stream), i) /\ current \in Current
    BY <1>1, Reading
<1> DEFINE c == Len(i.outputs)
           r == Len(current.names)
           rest == Tail(current.names)
<1>3. stage' = (IF r = 1 THEN "done" ELSE "value")
      /\ current' = [current EXCEPT !.names = rest]
    BY <1>1, <1>2 DEF SkipValue, Read
<1>4. /\ current.class = i.class /\ current.address = i.address
      /\ r \in 1..c
      /\ \A k \in 1..r : current.names[k] = i.outputs[c - r + k]
      /\ IsBranch(i.class) => Record(current) = RecordOf(i)
    BY <1>1, <1>2 DEF Seen
<1>5. c \in Nat /\ current.names \in Seq(Bytes) /\ r \in Nat /\ r # 0
    <2>1. c \in Nat
        BY DEF Instruction
    <2>2. current.names \in Seq(Bytes) /\ r \in Nat
        BY <1>2 DEF Current
    <2> HIDE DEF c, r
    <2> QED
        BY <1>4, <2>1, <2>2
<1>6. rest \in Seq(Bytes) /\ Len(rest) = r - 1
      /\ \A k \in 1..r - 1 : rest[k] = current.names[k + 1]
    <2> DEFINE q == current.names
    <2>1. q \in Seq(Bytes) /\ q # <<>>
        BY <1>5
    <2> HIDE DEF q
    <2>2. Tail(q) \in Seq(Bytes) /\ Len(Tail(q)) = Len(q) - 1
          /\ \A k \in 1..Len(q) - 1 : Tail(q)[k] = q[k + 1]
        BY <2>1
    <2> QED
        BY <2>2 DEF q
<1> HIDE DEF rest
<1>7. /\ current' \in Current /\ current'.class = current.class
      /\ current'.address = current.address /\ current'.names = rest
      /\ current'.taken = current.taken /\ current'.next = current.next
    BY <1>2, <1>3, <1>6 DEF Current
<1>8. Record(current)' = Record(current)
    BY <1>7 DEF Record
<1>9. r # 1 => /\ r - 1 \in 1..c
               /\ \A k \in 1..r - 1 : rest[k] = i.outputs[c - (r - 1) + k]
    <2> SUFFICES ASSUME r # 1
                 PROVE  /\ r - 1 \in 1..c
                        /\ \A k \in 1..r - 1 : rest[k] = i.outputs[c - (r - 1) + k]
        OBVIOUS
    <2> HIDE DEF c, r
    <2>1. r - 1 \in 1..c
        BY <1>4, <1>5
    <2>2. ASSUME NEW k \in 1..r - 1
          PROVE  rest[k] = i.outputs[c - (r - 1) + k]
        <3>1. k + 1 \in 1..r /\ c - r + (k + 1) = c - (r - 1) + k
            BY <1>4, <1>5
        <3> QED
            BY <1>4, <1>6, <3>1
    <2> QED
        BY <2>1, <2>2
<1>10. Seen(i)'
    <2>1. CASE r = 1
        BY <1>3, <1>4, <1>7, <1>8, <2>1 DEF Seen
    <2>2. CASE r # 1
        <3>1. Len(current'.names) \in 1..c
              /\ \A k \in 1..Len(current'.names) :
                   current'.names[k] = i.outputs[c - Len(current'.names) + k]
            BY <1>6, <1>7, <1>9, <2>2
        <3> QED
            BY <1>3, <1>4, <1>7, <1>8, <2>2, <3>1 DEF Seen
    <2> QED
        BY <2>1, <2>2
<1>11. Offset(i)' = Offset(i) + 1
    <2> DEFINE m == Middle(i)
               s == Skipped(i)
    <2>1. Offset(i) = 5 + m + s + c - r
        BY <1>1, Offsets
    <2>2. m \in Nat /\ s \in Nat
        BY DEF Middle, Skipped
    <2>3. CASE r = 1
        <3>1. Offset(i)' = Len(Layout(i))
            BY <1>3, <2>3 DEF Offset
        <3>2. Len(Layout(i)) = 5 + m + s + c
            <4>1. c # 0
                <5> HIDE DEF c, r
                <5> QED
                    BY <1>4, <1>5
            <4> QED
                BY <4>1, LayoutFields DEF LayoutShape
        <3> HIDE DEF m, s, c, r
        <3> QED
            BY <1>5, <2>1, <2>2, <2>3, <3>1, <3>2
    <2>4. CASE r # 1
        <3>1. Offset(i)' = 5 + m + s + c - Len(current'.names)
            BY <1>3, <2>4 DEF Offset
        <3>2. Len(current'.names) = r - 1
            BY <1>6, <1>7
        <3> HIDE DEF m, s, c, r
        <3> QED
            BY <1>5, <2>1, <2>2, <3>1, <3>2
    <2> QED
        BY <2>3, <2>4
<1>12. stage' \in Reads \cup {"done"}
    BY <1>3 DEF Reads
<1> QED
    BY <1>1, <1>2, <1>7, <1>10, <1>11, <1>12, OneFurther

-----------------------------------------------------------------------------
(***************************************************************************)
(* What a file yields, and where it ends.                                  *)
(***************************************************************************)
\* One instruction more yields its record, if it is a branch.
LEMMA OneMoreRecord ==
    ASSUME file \in Seq(Instruction), NEW n \in DOMAIN file
    PROVE  RecordsOf(n) = IF IsBranch(file[n].class)
                            THEN Append(RecordsOf(n - 1), RecordOf(file[n]))
                            ELSE RecordsOf(n - 1)
<1> DEFINE L == Len(file)
           S == {RecordOf(file[m]) : m \in 1..L}
           Part(m) == IF IsBranch(file[m].class) THEN <<RecordOf(file[m])>> ELSE <<>>
           seqs == [m \in 1..L |-> Part(m)]
           Upto(k) == [m \in 1..k |-> Part(m)]
<1>1. L \in Nat /\ n \in 1..L
    BY FileIsLayouts
<1>2. \A m \in 1..L : RecordOf(file[m]) \in S
    OBVIOUS
<1>3. \A k : RecordsOf(k) = FlattenSeq(Upto(k))
    BY DEF RecordsOf
<1> HIDE DEF L, S
<1>4. \A m \in 1..L : Part(m) \in Seq(S)
    <2> SUFFICES ASSUME NEW m \in 1..L PROVE Part(m) \in Seq(S)
        OBVIOUS
    <2> DEFINE e == RecordOf(file[m])
    <2>1. e \in S
        BY <1>2
    <2> HIDE DEF e
    <2>2. <<e>> \in Seq(S) /\ <<>> \in Seq(S)
        BY <2>1
    <2> QED
        BY <2>2 DEF e
<1>5. Part(n) = IF IsBranch(file[n].class) THEN <<RecordOf(file[n])>> ELSE <<>>
    OBVIOUS
<1> HIDE DEF Part
<1>6. seqs \in [1..L -> Seq(S)] /\ \A m \in 1..L : seqs[m] = Part(m)
    BY <1>4
<1> HIDE DEF seqs
<1>7. seqs \in Seq(Seq(S)) /\ Len(seqs) = L
    BY <1>1, <1>6
<1>8. ASSUME NEW k \in 0..L
      PROVE  Upto(k) = SubSeq(seqs, 1, k)
    <2> DEFINE u == Upto(k)
               t == SubSeq(seqs, 1, k)
    <2>1. t \in Seq(Seq(S)) /\ Len(t) = k /\ \A m \in 1..k : t[m] = seqs[m]
        BY <1>1, <1>7
    <2>2. \A m \in 1..k : m \in 1..L
        BY <1>1
    <2>3. u \in [1..k -> Seq(S)] /\ \A m \in 1..k : u[m] = Part(m)
        BY <1>4, <2>2
    <2> HIDE DEF u, t
    <2>4. k \in Nat
        BY <1>1
    <2>5. u \in Seq(Seq(S)) /\ Len(u) = k
        BY <2>3, <2>4
    <2>6. \A m \in 1..k : u[m] = t[m]
        BY <1>6, <2>1, <2>2, <2>3
    <2>7. u = t
        BY <2>1, <2>5, <2>6, SeqEqual
    <2> QED
        BY <2>7 DEF u, t
<1>9. n \in 0..L /\ n - 1 \in 0..L
    BY <1>1
<1>10. /\ FlattenSeq(SubSeq(seqs, 1, n)) = FlattenSeq(SubSeq(seqs, 1, n - 1)) \o seqs[n]
       /\ FlattenSeq(SubSeq(seqs, 1, n - 1)) \in Seq(S)
    BY <1>1, <1>7, FlattenOneMore
<1>11. RecordsOf(n) = RecordsOf(n - 1) \o Part(n) /\ RecordsOf(n - 1) \in Seq(S)
    BY <1>1, <1>3, <1>6, <1>8, <1>9, <1>10
<1>12. CASE IsBranch(file[n].class)
    <2> DEFINE r == RecordsOf(n - 1)
               e == RecordOf(file[n])
    <2>1. r \in Seq(S) /\ e \in S
        BY <1>1, <1>2, <1>11
    <2> HIDE DEF r, e
    <2>2. Append(r, e) = r \o <<e>>
        BY <2>1, AppendIsConcat
    <2> QED
        BY <1>5, <1>11, <1>12, <2>2 DEF r, e
<1>13. CASE ~IsBranch(file[n].class)
    <2> DEFINE r == RecordsOf(n - 1)
    <2> HIDE DEF r
    <2>1. r \in Seq(S)
        BY <1>11 DEF r
    <2>2. r \o <<>> = r
        BY <2>1
    <2> QED
        BY <1>5, <1>11, <1>13, <2>2 DEF r
<1> QED
    BY <1>12, <1>13

LEMMA NoRecords == RecordsOf(0) = <<>>
<1> DEFINE seqs == [m \in 1..0 |->
                      IF IsBranch(file[m].class) THEN <<RecordOf(file[m])>> ELSE <<>>]
<1>1. seqs = <<>>
    OBVIOUS
<1>2. RecordsOf(0) = FlattenSeq(seqs)
    BY DEF RecordsOf
<1> HIDE DEF seqs
<1>3. Len(seqs) = 0
    BY <1>1
<1>4. FlattenSeq(seqs) = seqs
    BY <1>3 DEF FlattenSeq
<1> QED
    BY <1>1, <1>2, <1>4

\* Instructions end in their order.
LEMMA EndsGrow ==
    ASSUME file \in Seq(Instruction), NEW a \in 0..Len(file), NEW b \in 0..Len(file), a <= b
    PROVE  EndOf(a) \in Nat /\ EndOf(b) \in Nat /\ EndOf(a) <= EndOf(b)
<1> DEFINE L == Len(file)
           Grown == {n \in Nat : a <= n /\ n <= L => EndOf(n) \in Nat /\ EndOf(a) <= EndOf(n)}
<1>1. L \in Nat /\ DOMAIN file = 1..L
    BY FileIsLayouts
<1>2. EndOf(0) = 0
    BY FileEnds
<1>3. EndOf(a) \in Nat
    <2>1. CASE a = 0
        BY <1>2, <2>1
    <2>2. CASE a # 0
        <3>1. a \in DOMAIN file
            BY <1>1, <2>2
        <3> QED
            BY <3>1, FilePlaces
    <2> QED
        BY <2>1, <2>2
<1> HIDE DEF L
<1>4. a \in 0..L /\ b \in 0..L
    BY DEF L
<1>5. 0 \in Grown
    <2>1. a <= 0 => a = 0
        BY <1>1, <1>4
    <2> QED
        BY <1>2, <2>1
<1>6. ASSUME NEW n \in Nat, n \in Grown
      PROVE  n + 1 \in Grown
    <2> SUFFICES ASSUME a <= n + 1, n + 1 <= L
                 PROVE  EndOf(n + 1) \in Nat /\ EndOf(a) <= EndOf(n + 1)
        OBVIOUS
    <2>1. CASE a = n + 1
        BY <1>3, <2>1
    <2>2. CASE a # n + 1
        <3>1. a <= n /\ n <= L /\ n + 1 \in DOMAIN file /\ (n + 1) - 1 = n
            BY <1>1, <1>4, <2>2
        <3>2. EndOf(n) \in Nat /\ EndOf(a) <= EndOf(n)
            BY <1>6, <3>1
        <3>3. EndOf(n + 1) = EndOf(n) + Len(Layout(file[n + 1]))
              /\ Len(Layout(file[n + 1])) \in Nat
            BY <3>1, FilePlaces
        <3> QED
            BY <1>3, <3>2, <3>3
    <2> QED
        BY <2>1, <2>2
<1>7. b \in Grown
    <2>1. b \in Nat
        BY <1>1, <1>4
    <2> HIDE DEF Grown
    <2> QED
        BY <1>5, <1>6, <2>1, NatSetInduction
<1> QED
    BY <1>1, <1>3, <1>4, <1>7

-----------------------------------------------------------------------------
(***************************************************************************)
(* The steps that read nothing.                                            *)
(***************************************************************************)
LEMMA YieldKeeps ==
    ASSUME ReaderInv, Yield
    PROVE  ReaderInv'
<1>1. /\ stage = "done" /\ stage' = "address"
      /\ UNCHANGED <<file, size, checks, stream, current>>
      /\ records' = IF IsBranch(current.class)
                      THEN Append(records, Record(current)) ELSE records
    BY DEF Yield
<1>2. State /\ \E n \in 1..Len(file) + 1 : At(n)
    BY <1>1 DEF ReaderInv
<1>3. PICK n \in 1..Len(file) + 1 : At(n)
    BY <1>2
<1>4. n \in DOMAIN file /\ Seen(file[n]) /\ Position = EndOf(n - 1) + Offset(file[n])
      /\ records = RecordsOf(n - 1)
    BY <1>1, <1>3 DEF At
<1>5. file \in Seq(Instruction) /\ Len(file) \in Nat /\ DOMAIN file = 1..Len(file)
      /\ file[n] \in Instruction
    BY <1>2, <1>4, FileIsLayouts DEF State
<1>6. Position = EndOf(n)
    <2>1. Offset(file[n]) = Len(Layout(file[n]))
        BY <1>1, Offsets
    <2>2. EndOf(n) = EndOf(n - 1) + Len(Layout(file[n]))
        BY <1>4, <1>5, FilePlaces
    <2> QED
        BY <1>4, <2>1, <2>2
<1>7. records' = RecordsOf(n)
    <2>1. current.class = file[n].class
          /\ (IsBranch(file[n].class) => Record(current) = RecordOf(file[n]))
        BY <1>1, <1>4 DEF Seen
    <2> QED
        BY <1>1, <1>4, <1>5, <2>1, OneMoreRecord
<1>8. State'
    <2>1. Whole' = Whole /\ Position' = Position
        BY <1>1 DEF Whole, Position
    <2> QED
        BY <1>1, <1>2, <2>1 DEF State, Reads
<1>9. At(n + 1)'
    <2>1. (n + 1) - 1 = n /\ n + 1 \in 1..Len(file) + 1
        BY <1>4, <1>5
    <2>2. RecordsOf(n)' = RecordsOf(n) /\ EndOf(n)' = EndOf(n) /\ Position' = Position
        BY <1>1 DEF RecordsOf, EndOf, Position
    <2>3. records' = RecordsOf((n + 1) - 1)'
        BY <1>7, <2>1, <2>2
    <2>4. Position' = EndOf((n + 1) - 1)'
        BY <1>6, <2>1, <2>2
    <2>5. CASE n = Len(file)
        BY <1>1, <2>3, <2>4, <2>5 DEF At
    <2>6. CASE n # Len(file)
        <3>1. n + 1 \in DOMAIN file
            BY <1>4, <1>5, <2>6
        <3>2. Seen(file[n + 1])'
            BY <1>1 DEF Seen
        <3>3. Offset(file[n + 1])' = 0
            BY <1>1 DEF Offset
        <3>4. EndOf((n + 1) - 1)' \in Nat
            BY <1>4, <1>5, <2>1, <2>2, FilePlaces
        <3>5. Position' = EndOf((n + 1) - 1)' + Offset(file[n + 1])'
            BY <2>4, <3>3, <3>4
        <3> QED
            BY <1>1, <2>3, <3>1, <3>2, <3>5 DEF At
    <2> QED
        BY <2>5, <2>6
<1>10. WholeRecordsOnly'
    BY <1>1 DEF WholeRecordsOnly
<1>11. n + 1 \in 1..Len(file') + 1
    BY <1>1, <1>4, <1>5
<1> QED
    BY <1>8, <1>9, <1>10, <1>11 DEF ReaderInv

LEMMA EndKeeps ==
    ASSUME ReaderInv, End
    PROVE  ReaderInv'
<1>1. /\ stage \in Reads /\ stream = <<>> /\ stage' = "ended"
      /\ UNCHANGED <<file, size, checks, stream, current, records>>
    BY DEF End
<1>2. State /\ \E n \in 1..Len(file) + 1 : At(n)
    BY <1>1 DEF ReaderInv
<1>3. PICK n \in 1..Len(file) + 1 : At(n)
    BY <1>2
<1>4. file \in Seq(Instruction) /\ Len(file) \in Nat /\ DOMAIN file = 1..Len(file)
      /\ size \in Nat
    BY <1>2, FileIsLayouts, FileEnds DEF State
<1>5. Position = size
    <2>1. Len(stream) = 0
        BY <1>1
    <2> QED
        BY <1>4, <2>1 DEF Position
<1>6. /\ n - 1 \in 0..Len(file) /\ EndOf(n - 1) \in Nat
      /\ EndOf(n - 1) <= size /\ (n \in DOMAIN file => size < EndOf(n))
    <2>1. n - 1 \in 0..Len(file) /\ n - 1 <= n - 1
        BY <1>4
    <2>2. EndOf(n - 1) \in Nat
        BY <1>4, <2>1, EndsGrow
    <2>3. CASE n = Len(file) + 1
        <3>1. Position = EndOf(n - 1) /\ n \notin DOMAIN file
            BY <1>3, <1>4, <2>3 DEF At
        <3> QED
            BY <1>4, <1>5, <2>1, <2>2, <3>1
    <2>4. CASE n # Len(file) + 1
        <3>1. n \in DOMAIN file /\ Seen(file[n]) /\ Position = EndOf(n - 1) + Offset(file[n])
            BY <1>3, <2>4 DEF At
        <3>2. Offset(file[n]) \in Nat /\ Offset(file[n]) + 1 \in 1..Len(Layout(file[n]))
            BY <1>1, <1>4, <3>1, FileIsLayouts, OffsetInside
        <3>3. EndOf(n) = EndOf(n - 1) + Len(Layout(file[n])) /\ Len(Layout(file[n])) \in Nat
            BY <1>4, <3>1, FilePlaces
        <3> QED
            BY <1>4, <1>5, <2>1, <2>2, <3>1, <3>2, <3>3
    <2> QED
        BY <2>3, <2>4
<1>7. Complete = 1..n - 1
    <2>1. Complete = {k \in DOMAIN file : EndOf(k) <= size}
        BY DEF Complete, EndOf
    <2>2. ASSUME NEW k \in DOMAIN file
          PROVE  EndOf(k) <= size <=> k <= n - 1
        <3>1. CASE k <= n - 1
            <4>1. EndOf(k) \in Nat /\ EndOf(k) <= EndOf(n - 1)
                BY <1>4, <1>6, <3>1, EndsGrow
            <4> QED
                BY <1>4, <1>6, <3>1, <4>1
        <3>2. CASE ~(k <= n - 1)
            <4>1. n \in DOMAIN file /\ n <= k /\ n \in 0..Len(file) /\ k \in 0..Len(file)
                BY <1>4, <3>2
            <4>2. EndOf(n) \in Nat /\ EndOf(k) \in Nat /\ EndOf(n) <= EndOf(k)
                BY <1>4, <4>1, EndsGrow
            <4> QED
                BY <1>4, <1>6, <3>2, <4>1, <4>2
        <3> QED
            BY <3>1, <3>2
    <2> HIDE DEF Complete
    <2>3. Complete = {k \in DOMAIN file : k <= n - 1}
        BY <2>1, <2>2
    <2> QED
        BY <1>4, <1>6, <2>3
<1>8. Cardinality(Complete) = n - 1
    <2> DEFINE one == 1
    <2>1. one \in Int /\ n - 1 \in Int
        BY <1>4
    <2> HIDE DEF one
    <2>2. Cardinality(one..n - 1) = IF one > n - 1 THEN 0 ELSE n - 1 - one + 1
        BY <2>1, FS_Interval
    <2> QED
        BY <1>4, <1>7, <2>2 DEF one
<1>9. WholeRecordsOnly'
    <2>1. records = RecordsOf(n - 1)
        BY <1>3 DEF At
    <2>2. records = RecordsOf(Cardinality(Complete))
        BY <1>8, <2>1
    <2>3. Complete' = Complete
        BY <1>1 DEF Complete
    <2>4. RecordsOf(Cardinality(Complete))' = RecordsOf(Cardinality(Complete))
        BY <1>1, <2>3 DEF RecordsOf
    <2> QED
        BY <1>1, <2>2, <2>4 DEF WholeRecordsOnly
<1>10. State'
    <2>1. Whole' = Whole /\ Position' = Position
        BY <1>1 DEF Whole, Position
    <2> QED
        BY <1>1, <1>2, <2>1 DEF State, Reads
<1> QED
    BY <1>1, <1>9, <1>10 DEF ReaderInv, Reads

LEMMA ReaderStutters ==
    ASSUME ReaderInv, UNCHANGED vars
    PROVE  ReaderInv'
<1>1. UNCHANGED <<file, size, checks, stream, stage, current, records>>
    BY DEF vars
<1>2. Whole' = Whole /\ Position' = Position
    BY <1>1 DEF Whole, Position
<1>3. State'
    BY <1>1, <1>2 DEF ReaderInv, State
<1>4. WholeRecordsOnly'
    <2>1. Complete' = Complete /\ RecordsOf(Cardinality(Complete))' = RecordsOf(Cardinality(Complete))
        BY <1>1 DEF Complete, RecordsOf
    <2> QED
        BY <1>1, <2>1 DEF ReaderInv, WholeRecordsOnly
<1>5. ASSUME NEW n, At(n)
      PROVE  At(n)'
    <2>1. EndOf(n - 1)' = EndOf(n - 1) /\ RecordsOf(n - 1)' = RecordsOf(n - 1)
        BY <1>1 DEF EndOf, RecordsOf
    <2>2. Offset(file[n])' = Offset(file[n])
        BY <1>1 DEF Offset
    <2>3. Seen(file[n]) => Seen(file[n])'
        <3>1. Record(current)' = Record(current)
            BY <1>1 DEF Record
        <3> QED
            BY <1>1, <3>1 DEF Seen
    <2> QED
        BY <1>1, <1>2, <1>5, <2>1, <2>2, <2>3 DEF At
<1> QED
    BY <1>1, <1>3, <1>4, <1>5 DEF ReaderInv

LEMMA ReaderStarts == Init => ReaderInv
<1> SUFFICES ASSUME Init PROVE ReaderInv
    OBVIOUS
<1>1. /\ size \in 0..Len(Whole) /\ stream = SubSeq(Whole, 1, size) /\ checks \in BOOLEAN
      /\ stage = "address" /\ current = Nothing /\ records = <<>>
    BY DEF Init, Whole
<1>2. file \in Seq(Instruction)
    <2>1. PICK n \in 0..MaxLength : file \in [1..n -> Instructions]
        BY DEF Init
    <2>2. n \in Nat /\ Instructions \subseteq Instruction
        BY InstructionsAssumption
    <2> HIDE DEF Instruction
    <2> QED
        BY <2>1, <2>2
<1>3. Len(Whole) \in Nat /\ EndOf(0) = 0 /\ Whole \in Seq(FieldType) /\ Len(file) \in Nat
      /\ DOMAIN file = 1..Len(file)
    BY <1>2, FileEnds, WholeIsFields, FileIsLayouts
<1>4. Len(stream) = size
    <2> HIDE DEF FieldType
    <2> QED
        BY <1>1, <1>3
<1>5. Position = 0 /\ 0 + 1 = 1 /\ size \in Nat
    BY <1>1, <1>3, <1>4 DEF Position
<1>6. current \in Current
    BY <1>1, WordAssumption DEF Nothing, Current, Words, Bytes
<1>7. State
    <2>1. Len(stream) \in 0..size
        BY <1>4, <1>5
    <2>2. stream = SubSeq(Whole, Position + 1, size)
        BY <1>1, <1>5
    <2>3. stage \in Reads
        BY <1>1 DEF Reads
    <2> QED
        BY <1>1, <1>2, <1>6, <2>1, <2>2, <2>3 DEF State
<1>8. At(1)
    <2>1. 1 - 1 = 0
        OBVIOUS
    <2>2. records = RecordsOf(1 - 1)
        BY <1>1, <2>1, NoRecords
    <2>3. CASE Len(file) = 0
        BY <1>1, <1>3, <1>5, <2>1, <2>2, <2>3 DEF At
    <2>4. CASE Len(file) # 0
        <3>1. 1 \in DOMAIN file
            BY <1>3, <2>4
        <3>2. Seen(file[1])
            BY <1>1 DEF Seen
        <3>3. Offset(file[1]) = 0
            BY <1>1, Offsets
        <3> QED
            BY <1>1, <1>3, <1>5, <2>1, <2>2, <3>1, <3>2, <3>3 DEF At
    <2> QED
        BY <2>3, <2>4
<1>9. 1 \in 1..Len(file) + 1
    BY <1>3
<1>10. WholeRecordsOnly
    BY <1>1 DEF WholeRecordsOnly
<1> QED
    BY <1>7, <1>8, <1>9, <1>10 DEF ReaderInv

-----------------------------------------------------------------------------
(***************************************************************************)
(* The theorems.                                                           *)
(***************************************************************************)
\* In every file, cut anywhere, a reader that has not ended stands within one
\* instruction, has read what it keeps from that instruction's fields, and has
\* yielded the branches before it (Reader::next, trace.rs).
THEOREM ReaderInvariance == Spec => []ReaderInv
<1>1. Init => ReaderInv
    BY ReaderStarts
<1>2. ReaderInv /\ [Next]_vars => ReaderInv'
    <2> SUFFICES ASSUME ReaderInv, [Next]_vars PROVE ReaderInv'
        OBVIOUS
    <2>1. CASE ReadAddress
        BY <2>1, ReadAddressKeeps
    <2>2. CASE ReadClass
        BY <2>2, ReadClassKeeps
    <2>3. CASE SkipMemory
        BY <2>3, SkipMemoryKeeps
    <2>4. CASE ReadTaken
        BY <2>4, ReadTakenKeeps
    <2>5. CASE ReadTarget
        BY <2>5, ReadTargetKeeps
    <2>6. CASE ReadInputs
        BY <2>6, ReadInputsKeeps
    <2>7. CASE SkipInputs
        BY <2>7, SkipInputsKeeps
    <2>8. CASE ReadOutputs
        BY <2>8, ReadOutputsKeeps
    <2>9. CASE ReadNames
        BY <2>9, ReadNamesKeeps
    <2>10. CASE SkipValue
        BY <2>10, SkipValueKeeps
    <2>11. CASE End
        BY <2>11, EndKeeps
    <2>12. CASE Yield
        BY <2>12, YieldKeeps
    <2>13. CASE UNCHANGED vars
        BY <2>13, ReaderStutters
    <2> QED
        BY <2>1, <2>2, <2>3, <2>4, <2>5, <2>6, <2>7, <2>8, <2>9, <2>10, <2>11, <2>12, <2>13
           DEF Next
<1> QED
    BY <1>1, <1>2, PTL DEF Spec

\* The reader never loses its place: every read_exact and skip_amount asks for
\* exactly the next field, whatever the instructions of the file are.
THEOREM ReaderKeepsItsPlace == Spec => []InStep
<1>1. ReaderInv => InStep
    <2> SUFFICES ASSUME ReaderInv, stage \in Reads, stream # <<>>
                 PROVE  Head(stream).size = Wanted
        BY DEF InStep
    <2> QED
        BY Reading DEF GoodField
<1> QED
    BY <1>1, ReaderInvariance, PTL

\* A file cut anywhere yields the branches of its complete instructions, in
\* order, and nothing else (Trace::open takes any read error for the end).
THEOREM RecordsAreOfWholeInstructions == Spec => []WholeRecordsOnly
<1>1. ReaderInv => WholeRecordsOnly
    BY DEF ReaderInv
<1> QED
    BY <1>1, ReaderInvariance, PTL

=============================================================================
