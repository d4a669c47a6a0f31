------------------------------- MODULE Reader -------------------------------
(***************************************************************************)
(* Trace::open and its Reader (src/arbiter/src/trace.rs).  A file is a     *)
(* sequence of instructions, of which the branches become records.  The    *)
(* reader finds its way by what it reads: an instruction's class, flag and *)
(* counts say how many bytes to read next.  The bytes can end anywhere,    *)
(* where the file was cut or where the decompressor gives up, and that is  *)
(* taken for the end of the trace.                                         *)
(*                                                                         *)
(* A file is kept by fields, [size, value], since a read that is short of  *)
(* a byte yields nothing: cut within a field is cut before it.  The format *)
(* is external: CBP-NG 2026 traces.                                        *)
(***************************************************************************)
EXTENDS Integers, FiniteSets, SequencesExt

CONSTANTS
    WordRange,      \* 2^64
    Instructions,   \* the instructions files are made of
    MaxLength       \* bound: instructions of a file

Words == 0..WordRange - 1
Bytes == 0..255

\* The kinds Reader::next knows by their class.
KindOf ==
    [class \in {3, 4, 5, 9, 10, 11} |->
       CASE class = 3 -> "ConditionalDirect"
         [] class = 4 -> "UnconditionalDirect"
         [] class = 5 -> "UnconditionalIndirect"
         [] class = 9 -> "CallDirect"
         [] class = 10 -> "CallIndirect"
         [] class = 11 -> "Return"]

IsBranch(class) == class \in DOMAIN KindOf

Load == 1
Store == 2

Instruction == [address : Words, class : Bytes, taken : BOOLEAN, next : Words,
                inputs : Bytes, outputs : Seq(Bytes)]

ASSUME WordAssumption == WordRange \in Nat /\ WordRange > 4
ASSUME InstructionsAssumption == Instructions \subseteq Instruction /\ MaxLength \in Nat

(***************************************************************************)
(* The file.                                                               *)
(***************************************************************************)
Field(size, value) == IF size = 0 THEN <<>> ELSE <<[size |-> size, value |-> value]>>

IsSimd(name) == name \in 32..63

Layout(i) ==
    LET count == Len(i.outputs)
    IN  Field(8, i.address) \o Field(1, i.class)
          \o (CASE i.class = Load -> Field(10, 0)
                [] i.class = Store -> Field(11, 0)
                [] IsBranch(i.class) /\ i.taken -> Field(1, 1) \o Field(8, i.next)
                [] IsBranch(i.class) /\ ~i.taken -> Field(1, 0)
                [] OTHER -> <<>>)
          \o Field(1, i.inputs) \o Field(i.inputs, 0)
          \o Field(1, count) \o Field(count, i.outputs)
          \o FlattenSeq([n \in 1..count |-> Field(IF IsSimd(i.outputs[n]) THEN 16 ELSE 8, 0)])

LayoutOf(instructions) ==
    FlattenSeq([n \in DOMAIN instructions |-> Layout(instructions[n])])

(***************************************************************************)
(* The reader.                                                             *)
(***************************************************************************)
VARIABLES
    file,           \* the instructions the file was made of
    size,           \* how many of its fields can be read
    checks,         \* overflow checks: on in debug builds, off in release
    stream,         \* the fields not read yet
    stage,          \* what is read next
    current,        \* what next has read of the instruction
    records

vars == <<file, size, checks, stream, stage, current, records>>

Reads == {"address", "class", "memory", "taken", "target", "inputs", "skip inputs",
          "outputs", "names", "value"}
Nothing == [address |-> 0, class |-> 0, taken |-> FALSE, next |-> 0,
            inputs |-> 0, names |-> <<>>, count |-> 0]

Init ==
    /\ file \in UNION {[1..n -> Instructions] : n \in 0..MaxLength}
    /\ size \in 0..Len(LayoutOf(file))
    /\ stream = SubSeq(LayoutOf(file), 1, size)
    /\ checks \in BOOLEAN
    /\ stage = "address"
    /\ current = Nothing
    /\ records = <<>>

\* Mutant: vector registers are skipped like the others.
ValueSize_Plain(name) == 8

ValueSize(name) == IF name \in 32..63 THEN 16 ELSE 8

\* The bytes asked for.
Wanted ==
    CASE stage \in {"address", "target"} -> 8
      [] stage = "memory" -> IF current.class = Load THEN 10 ELSE 11
      [] stage = "skip inputs" -> current.inputs
      [] stage = "names" -> current.count
      [] stage = "value" -> ValueSize(Head(current.names))
      [] OTHER -> 1

\* One read_exact or skip_amount that succeeds.
Read(at, next, seen) ==
    /\ stage = at /\ stream # <<>>
    /\ stream' = Tail(stream)
    /\ stage' = next
    /\ current' = seen
    /\ UNCHANGED <<file, size, checks, records>>

value == Head(stream).value

ReadAddress == Read("address", "class", [Nothing EXCEPT !.address = value])

AfterClass(class) ==
    CASE class \in {Load, Store} -> "memory"
      [] IsBranch(class) -> "taken"
      [] OTHER -> "inputs"

ReadClass == Read("class", AfterClass(value), [current EXCEPT !.class = value])

SkipMemory == Read("memory", "inputs", current)

\* address + 4 in a release build.
FallThrough(address) == (address + 4) % WordRange

\* read_branch: a target is there for a taken branch only.  The fall-through
\* address of the others leaves the word at the top of the address space.
ReadTaken ==
    /\ stage = "taken" /\ stream # <<>>
    /\ CASE value # 0 ->
              Read("taken", "target", [current EXCEPT !.taken = TRUE])
         [] value = 0 /\ checks /\ current.address + 4 >= WordRange ->
              Read("taken", "panicked", current)
         [] OTHER ->
              Read("taken", "inputs", [current EXCEPT !.next = FallThrough(current.address)])

ReadTarget == Read("target", "inputs", [current EXCEPT !.next = value])

ReadInputs ==
    Read("inputs", IF value = 0 THEN "outputs" ELSE "skip inputs",
         [current EXCEPT !.inputs = value])

SkipInputs == Read("skip inputs", "outputs", current)

ReadOutputs ==
    Read("outputs", IF value = 0 THEN "done" ELSE "names", [current EXCEPT !.count = value])

ReadNames == Read("names", "value", [current EXCEPT !.names = value])

SkipValue ==
    Read("value", IF Len(current.names) = 1 THEN "done" ELSE "value",
         [current EXCEPT !.names = Tail(@)])

Record(c) == [address |-> c.address, kind |-> KindOf[c.class], taken |-> c.taken,
              next |-> c.next]

\* Mutant: a branch is yielded although its registers are cut off.
End_KeepsBranch ==
    /\ stage \in Reads /\ stream = <<>>
    /\ stage' = "ended"
    /\ records' = IF stage = "value" /\ IsBranch(current.class)
                    THEN Append(records, Record(current)) ELSE records
    /\ UNCHANGED <<file, size, checks, stream, current>>

\* A read comes up short: next returns None, and open stops at the first None.
End ==
    /\ stage \in Reads /\ stream = <<>>
    /\ stage' = "ended"
    /\ UNCHANGED <<file, size, checks, stream, current, records>>

\* The instruction is complete: a branch is yielded, any other is passed over.
Yield ==
    /\ stage = "done"
    /\ records' = IF IsBranch(current.class)
                    THEN Append(records, Record(current)) ELSE records
    /\ stage' = "address"
    /\ UNCHANGED <<file, size, checks, stream, current>>

Next ==
    \/ ReadAddress \/ ReadClass \/ SkipMemory \/ ReadTaken \/ ReadTarget
    \/ ReadInputs \/ SkipInputs \/ ReadOutputs \/ ReadNames \/ SkipValue
    \/ End \/ Yield

Spec == Init /\ [][Next]_vars

-----------------------------------------------------------------------------
(***************************************************************************)
(* Properties.                                                             *)
(***************************************************************************)

\* The reader never loses its place: whatever it asks for is exactly the next
\* field.  One count or size read wrongly and every later record is made of
\* other fields' bytes.
InStep == stage \in Reads /\ stream # <<>> => Head(stream).size = Wanted

\* The records of a file cut anywhere are those of the instructions that are
\* complete, in order: no branch whose registers are missing, none passed over,
\* and none made of a part.
Complete == {n \in DOMAIN file : Len(LayoutOf(SubSeq(file, 1, n))) <= size}

RecordOf(i) ==
    [address |-> i.address, kind |-> KindOf[i.class], taken |-> i.taken,
     next |-> IF i.taken THEN i.next ELSE (i.address + 4) % WordRange]

\* What the first n instructions yield.
RecordsOf(n) ==
    FlattenSeq([m \in 1..n |->
      IF IsBranch(file[m].class) THEN <<RecordOf(file[m])>> ELSE <<>>])

WholeRecordsOnly == stage = "ended" => records = RecordsOf(Cardinality(Complete))

=============================================================================
