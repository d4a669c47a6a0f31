--------------------------------- MODULE Lsc ---------------------------------
(***************************************************************************)
(* LSC<SIZE, CAPACITY> (predictors/common/lsc.rs): a table of saturating   *)
(* counters of SIZE bits, indexed by the branch address without tags.  The *)
(* table is a function; predict reads it and update gives the next one.    *)
(***************************************************************************)
EXTENDS Integers

CONSTANTS
    LscCapacity,    \* CAPACITY
    LscHalf         \* 2^(SIZE-1), the least value whose top bit is set

ASSUME LscAssumption == LscCapacity \in Nat \ {0} /\ LscHalf \in Nat \ {0}

LscIndices == 0..LscCapacity - 1

Counters == [LscIndices -> 0..2 * LscHalf - 1]

NewCounters == [i \in LscIndices |-> 0]

\* The capacity is a power of two: masking is the remainder.
LscIndex(address) == (address \div 4) % LscCapacity

\* The top bit of the counter.
LscPredict(counters, address) == counters[LscIndex(address)] >= LscHalf

\* Mutant: a counter steps beyond its width.
Stepped_Unsaturated(counter, taken) ==
    IF taken THEN counter + 1 ELSE IF counter > 0 THEN counter - 1 ELSE counter

\* Mutant: a counter stops at one less than half its range.
Stepped_StopsShort(counter, taken) ==
    IF taken
      THEN IF counter < LscHalf - 1 THEN counter + 1 ELSE counter
      ELSE IF counter > 0 THEN counter - 1 ELSE counter

\* Value::saturating_add and saturating_sub of one.
Stepped(counter, taken) ==
    IF taken
      THEN IF counter < 2 * LscHalf - 1 THEN counter + 1 ELSE counter
      ELSE IF counter > 0 THEN counter - 1 ELSE counter

LscUpdate(counters, address, taken) ==
    [counters EXCEPT ![LscIndex(address)] = Stepped(@, taken)]
=============================================================================
