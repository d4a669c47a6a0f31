--------------------------------- MODULE Ras ---------------------------------
(***************************************************************************)
(* RAS<CAPACITY, COUNT> (predictors/common/ras.rs): a stack of targets in  *)
(* an array, filled from cell zero.  A full stack ignores a push, an empty *)
(* one a pop.                                                              *)
(***************************************************************************)
EXTENDS Integers

CONSTANTS
    RasCapacity,    \* CAPACITY
    RasMaxCount,    \* 2^COUNT - 1, where COUNT is floor(log2(CAPACITY)) + 1
    RasTargets      \* what a cell can hold: the addresses, zero among them

ASSUME RasAssumption ==
    /\ RasCapacity \in Nat \ {0}
    /\ RasMaxCount \in RasCapacity..2 * RasCapacity - 1
    /\ 0 \in RasTargets

Cells == 0..RasCapacity - 1

Ras == [stack : [Cells -> RasTargets], count : 0..RasCapacity]

NewRas == [stack |-> [c \in Cells |-> 0], count |-> 0]

\* Mutant: a full stack starts again at its first cell.
RasPush_Overwrites(ras, target) ==
    IF ras.count < RasCapacity
      THEN [ras EXCEPT !.stack[ras.count] = target, !.count = @ + 1]
      ELSE [ras EXCEPT !.stack[0] = target]

\* The count is a Value of COUNT bits and saturates, but only beyond CAPACITY.
RasPush(ras, target) ==
    IF ras.count < RasCapacity
      THEN [ras EXCEPT !.stack[ras.count] = target,
                       !.count = IF @ < RasMaxCount THEN @ + 1 ELSE @]
      ELSE ras

\* Mutant: the cell is cleared, the count is not lowered.
RasPop_ClearsOnly(ras) ==
    IF ras.count > 0
      THEN [ras EXCEPT !.stack[ras.count - 1] = 0]
      ELSE ras

RasPop(ras) ==
    IF ras.count > 0
      THEN [ras EXCEPT !.stack[ras.count - 1] = 0, !.count = @ - 1]
      ELSE ras

RasTop(ras) == ras.stack[ras.count - 1]
=============================================================================
