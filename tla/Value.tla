-------------------------------- MODULE Value --------------------------------
(***************************************************************************)
(* Value<BITS> (primitives/value.rs): unsigned integers of BITS bits kept  *)
(* in a machine word (u128), so that a result can overflow its width, the  *)
(* word, or both.  Three macros generate the variants of each operation    *)
(* from what the word computes; the operators of the language stand for    *)
(* the wrapping variants, and those that shift first cut their count.      *)
(* What an operation costs is Ledger's subject; comparisons are those of   *)
(* the word and are left out.                                              *)
(*                                                                         *)
(* The state is one variable of a traced computation and the last          *)
(* operation on it.                                                        *)
(***************************************************************************)
EXTENDS Powers

CONSTANTS
    Word,       \* 128
    CountWord,  \* 32: the width of a shift count
    Exponents,  \* bound: exponents of pow
    WordLogic(_, _, _)  \* &, | and ^ of the machine word

ASSUME WordAssumption ==
    /\ Word \in Nat \ {0} /\ CountWord \in Nat /\ Exponents \subseteq Nat
    /\ \A n \in 0..Word : TwoTo[n] <= Word => n <= CountWord

VARIABLES
    bits,       \* BITS
    value,
    last        \* the operation before: [op, variant, lhs, rhs, outcome]

vars == <<bits, value, last>>

Words == 0..TwoTo[Word] - 1

Numeric == {"add", "sub", "mul", "pow", "neg"}
Division == {"div", "rem"}
Shifts == {"shl", "shr"}
Logic == {"and", "or", "xor"}
Methods == Numeric \cup Division \cup Shifts \cup Logic

Bit(x, n) == (x \div TwoTo[n]) % 2

Combined(op, a, b) ==
    CASE op = "and" -> a * b
      [] op = "or" -> IF a + b > 0 THEN 1 ELSE 0
      [] op = "xor" -> (a + b) % 2

\* The machine combines the words bit by bit.
ASSUME WordLogicAssumption ==
    \A op \in Logic : \A x, y \in Words :
      /\ WordLogic(op, x, y) \in Words
      /\ \A n \in 0..Word - 1 :
           Bit(WordLogic(op, x, y), n) = Combined(op, Bit(x, n), Bit(y, n))

Variants(op) ==
    IF op \in Logic THEN {"operator"}
      ELSE {"wrapping", "checked", "overflowing", "strict"}
             \cup (IF op \in Numeric \cup {"div"} THEN {"saturating"} ELSE {})
             \cup (IF op \in Shifts THEN {"operator"} ELSE {})

\* What a call gives: a value, with the flag of the overflowing variants, None,
\* or a panic.
Some(v) == [status |-> "some", value |-> v, flag |-> FALSE]
Flagged(v, flag) == [status |-> "some", value |-> v, flag |-> flag]
None == [status |-> "none", value |-> 0, flag |-> FALSE]
Panic == [status |-> "panic", value |-> 0, flag |-> FALSE]

-----------------------------------------------------------------------------
Mask == TwoTo[bits] - 1

Masked(x) == x % TwoTo[bits]

\* The result of u128::overflowing_*, computed on the word.
Unbounded(op, x, y) ==
    CASE op = "add" -> x + y
      [] op = "sub" -> x - y
      [] op = "mul" -> x * y
      [] op = "pow" -> Power(x)[y]
      [] op = "neg" -> -x
Raw(op, x, y) == Unbounded(op, x, y) % TwoTo[Word]
Carry(op, x, y) == Unbounded(op, x, y) \notin Words

\* Mutant: an overflow of the word itself goes unnoticed.
Fits_WidthOnly(op, x, y) == Masked(Raw(op, x, y)) = Raw(op, x, y)

Fits(op, x, y) ==
    ~Carry(op, x, y) /\ Masked(Raw(op, x, y)) = Raw(op, x, y)

\* Where a saturating operation stops.
Bound(op) == IF op \in {"sub", "neg"} THEN 0 ELSE Mask

\* overflowing_family!
NumericOutcome(op, variant, x, y) ==
    LET wrapped == Masked(Raw(op, x, y))
        fits == Fits(op, x, y)
    IN  CASE variant = "wrapping" -> Some(wrapped)
          [] variant = "checked" -> IF fits THEN Some(wrapped) ELSE None
          [] variant = "overflowing" -> Flagged(wrapped, ~fits)
          [] variant = "strict" -> IF fits THEN Some(wrapped) ELSE Panic
          [] variant = "saturating" -> Some(IF fits THEN wrapped ELSE Bound(op))

\* division_family!
DivisionOutcome(op, variant, x, y) ==
    IF y = 0
      THEN IF variant = "checked" THEN None ELSE Panic
      ELSE Some(Masked(IF op = "div" THEN x \div y ELSE x % y))

\* shift_family!
Shifted(op, x, count) ==
    IF op = "shl" THEN Masked((x * TwoTo[count]) % TwoTo[Word]) ELSE Masked(x \div TwoTo[count])

Reduced(count) == count % (IF bits > 1 THEN bits ELSE 1)

ShiftOutcome(op, variant, x, count) ==
    CASE variant = "wrapping" -> Some(Shifted(op, x, Reduced(count)))
      [] variant = "checked" -> IF count < bits THEN Some(Shifted(op, x, count)) ELSE None
      [] variant = "overflowing" -> Flagged(Shifted(op, x, Reduced(count)), count >= bits)
      [] variant = "strict" -> IF count < bits THEN Some(Shifted(op, x, count)) ELSE Panic

\* Mutant: a count that is too wide shifts by the widest count instead.
Counted_Saturated(count) ==
    IF count < TwoTo[CountWord] THEN count ELSE TwoTo[CountWord] - 1

\* The operators << and >> and their assignments: the count as u32.
Counted(count) == count % TwoTo[CountWord]

LogicOutcome(op, x, y) == Some(Masked(WordLogic(op, x, y)))

Outcome(op, variant, x, y) ==
    CASE op \in Numeric -> NumericOutcome(op, variant, x, y)
      [] op \in Division -> DivisionOutcome(op, variant, x, y)
      [] op \in Shifts /\ variant = "operator" ->
           ShiftOutcome(op, "wrapping", x, Counted(y))
      [] op \in Shifts /\ variant # "operator" -> ShiftOutcome(op, variant, x, y)
      [] op \in Logic -> LogicOutcome(op, x, y)

\* The right-hand side is any word, not only one of the width; negation has none.
Operands(op, variant) ==
    CASE op = "pow" -> Exponents
      [] op = "neg" -> {0}
      [] op \in Shifts /\ variant # "operator" -> 0..TwoTo[CountWord] - 1
      [] OTHER -> Words

-----------------------------------------------------------------------------
NoCall == [op |-> "add", variant |-> "wrapping", lhs |-> 0, rhs |-> 0, outcome |-> Some(0)]

\* Default, which rejects a width of zero; resize does not.
Init ==
    /\ bits \in 1..Word
    /\ value = 0
    /\ last = NoCall

\* A call, whose value, if it has one, is assigned.
Call(op, variant, y) ==
    LET outcome == Outcome(op, variant, value, y)
    IN  /\ last' = [op |-> op, variant |-> variant, lhs |-> value, rhs |-> y,
                    outcome |-> outcome]
        /\ value' = IF outcome.status = "some" THEN outcome.value ELSE value
        /\ UNCHANGED bits

\* Value::failing gives a value only to what fits.
Fail(x) ==
    /\ value' = IF Masked(x) = x THEN x ELSE value
    /\ last' = NoCall
    /\ UNCHANGED bits

\* Value::wrapping and resize, which cut to the width; bitnot.
Cut(x) ==
    /\ value' = Masked(x)
    /\ last' = NoCall
    /\ UNCHANGED bits

BitNot == Cut(TwoTo[Word] - 1 - value)

\* resize: the computation goes on with another width.
Resize(new) ==
    /\ bits' = new
    /\ value' = value % TwoTo[new]
    /\ last' = NoCall

Next ==
    \/ \E op \in Methods :
         \E variant \in Variants(op) :
           \E y \in Operands(op, variant) : Call(op, variant, y)
    \/ \E x \in Words : Cut(x) \/ Fail(x)
    \/ BitNot
    \/ \E new \in 0..Word : Resize(new)

Spec == Init /\ [][Next]_vars

-----------------------------------------------------------------------------
(***************************************************************************)
(* Properties.                                                             *)
(***************************************************************************)

\* What the operation would be on integers, without any width.
Exact(op, x, y) ==
    CASE op \in Numeric -> Unbounded(op, x, y)
      [] op = "div" -> x \div y
      [] op = "rem" -> x % y
      [] op = "shl" -> x * TwoTo[IF bits = 0 THEN 0 ELSE y % bits]
      [] op = "shr" -> x \div TwoTo[IF bits = 0 THEN 0 ELSE y % bits]

Defined(op, x, y) ==
    CASE op \in Numeric -> Exact(op, x, y) \in 0..Mask
      [] op \in Division -> y # 0
      [] op \in Shifts -> y < bits

Clamped(x) == IF x < 0 THEN 0 ELSE IF x > Mask THEN Mask ELSE x

\* The variants agree with the integers and so with each other: wrapping is the
\* exact result modulo TwoTo[BITS], checked and strict give it or nothing, the flag of
\* overflowing says which, and saturating is the nearest value of the width,
\* whether the width or the word overflowed.
IsExact(op, variant, x, y, outcome) ==
    LET exact == Some(Exact(op, x, y) % TwoTo[bits])
        defined == Defined(op, x, y)
    IN  IF op \in Division /\ y = 0
          THEN outcome = IF variant = "checked" THEN None ELSE Panic
          ELSE /\ variant = "wrapping" => outcome = exact
               /\ variant = "checked" => outcome = IF defined THEN exact ELSE None
               /\ variant = "overflowing" => outcome = Flagged(exact.value, ~defined)
               /\ variant = "strict" => outcome = IF defined THEN exact ELSE Panic
               /\ variant = "saturating" => outcome = Some(Clamped(Exact(op, x, y)))

VariantsAreExact ==
    last.variant # "operator" =>
      IsExact(last.op, last.variant, last.lhs, last.rhs, last.outcome)

\* The operators agree with the same integers: a shift by any count shifts by its
\* remainder modulo the width, although the count is cut first, if the width is
\* a power of two (the others lose what is cut); and &, | and ^ act on each bit
\* of the width alone and drop the bits of the right-hand side beyond it.
OperatorIsExact(op, x, y, result) ==
    /\ op \in Shifts /\ (\E n \in 0..CountWord : bits = TwoTo[n]) =>
         result = Exact(op, x, y) % TwoTo[bits]
    /\ op \in Logic => \A n \in 0..Word - 1 :
         Bit(result, n) = IF n < bits THEN Combined(op, Bit(x, n), Bit(y, n)) ELSE 0

OperatorsAreExact ==
    last.variant = "operator" =>
      OperatorIsExact(last.op, last.lhs, last.rhs, last.outcome.value)
=============================================================================
