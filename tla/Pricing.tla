------------------------------- MODULE Pricing -------------------------------
(***************************************************************************)
(* What the predictor of LscBtbRas executes, and what the ledger is        *)
(* charged for it: each access to an Array, each operator on a Value, each *)
(* comparison and each select! is an operation with the width or the       *)
(* number of arms it works on.  Which of them a callback executes depends  *)
(* on what its tables and its stack hold, so an operation that the cost    *)
(* table leaves unset panics only on the path that needs it.               *)
(*                                                                         *)
(* The predictor's steps are those of LscBtbRas; the work of a callback is *)
(* an operator of the state it is called in.  Its groups decide its time   *)
(* only, which is Meter's subject, and are left out here.                  *)
(***************************************************************************)
EXTENDS LscBtbRas, Ledger

CONSTANTS
    CostTable,      \* the table of the run
    LscBits,        \* SIZE of the counters
    RasBits         \* COUNT of the stack

\* The operations costs! names.
OperationNames ==
    {"checked_add", "checked_div", "checked_mul", "checked_neg", "checked_pow",
     "checked_rem", "checked_shl", "checked_shr", "checked_sub",
     "overflowing_add", "overflowing_div", "overflowing_mul", "overflowing_neg",
     "overflowing_pow", "overflowing_rem", "overflowing_shl", "overflowing_shr",
     "overflowing_sub", "saturating_add", "saturating_div", "saturating_mul",
     "saturating_neg", "saturating_pow", "saturating_sub", "strict_add", "strict_div",
     "strict_mul", "strict_neg", "strict_pow", "strict_rem", "strict_shl", "strict_shr",
     "strict_sub", "wrapping_add", "wrapping_div", "wrapping_mul", "wrapping_neg",
     "wrapping_pow", "wrapping_rem", "wrapping_shl", "wrapping_shr", "wrapping_sub",
     "bitand", "bitor", "bitxor", "bitnot", "memory_read", "memory_write",
     "register_read", "register_write", "select", "assign", "resize"}

\* Those the built-in table prices; the others it leaves unset.
BuiltIn ==
    {"saturating_add", "saturating_sub", "wrapping_add", "wrapping_shl", "wrapping_shr",
     "bitand", "bitor", "bitxor", "memory_read", "memory_write", "register_read",
     "register_write", "select", "resize"}

ASSUME OperationsAssumption == Operations = OperationNames /\ Select = "select"

\* A table that prices at least what the built-in one does.
ASSUME CostTableAssumption ==
    CostTable \in Costs /\ \A op \in BuiltIn : FullyPriced(CostTable[op])

-----------------------------------------------------------------------------
(***************************************************************************)
(* Operations, with their size.                                            *)
(***************************************************************************)
\* Index and IndexMut of Array.  The index is not part of the price.
Read(width) == <<"memory_read", width>>
Write(width) == <<"memory_write", width>>

\* The operators >> and & stand for wrapping_shr and bitand.
ShiftRight(width) == <<"wrapping_shr", width>>
And(width) == <<"bitand", width>>

\* select! with so many arms.
Multiplexer(arms) == <<Select, arms>>

\* A comparison of a Value costs as much as a select of two, whatever its width.
Comparison == Multiplexer(2)

-----------------------------------------------------------------------------
(***************************************************************************)
(* predict.                                                                *)
(***************************************************************************)
IndexWork == <<ShiftRight(64), And(64)>>

KindWork(address) ==
    IndexWork \o <<Read(1), Comparison>>
      \o (IF meta.valid[BtbIndex(address)] THEN <<Read(3)>> ELSE <<>>)

CounterWork ==
    IndexWork \o <<Read(LscBits), ShiftRight(LscBits), And(LscBits), Comparison>>

TargetWork(address) ==
    IndexWork \o <<Read(1), Comparison>>
      \o (IF btb.valid[BtbIndex(address)] THEN <<Read(64)>> ELSE << <<"wrapping_add", 64>> >>)

TopWork ==
    <<Multiplexer(2), Comparison>>
      \o (IF ras.count > 0 THEN << <<"saturating_sub", RasBits>>, Read(64) >> ELSE <<>>)

\* The four lookups, and the choice between their targets.
PredictWork(address) ==
    KindWork(address) \o CounterWork \o TargetWork(address) \o TopWork
      \o <<Multiplexer(2)>>
      \o (IF meta.valid[BtbIndex(address)] THEN <<Multiplexer(2)>> ELSE <<>>)
      \o (IF KnownReturn(address) THEN <<Multiplexer(2)>> ELSE <<>>)

-----------------------------------------------------------------------------
(***************************************************************************)
(* update.                                                                 *)
(***************************************************************************)
TrainTargetWork(record) ==
    <<Multiplexer(2)>>
      \o (IF record.taken THEN IndexWork \o <<Write(64), Write(1)>> ELSE <<>>)

TrainCounterWork(record) ==
    IndexWork
      \o <<Read(LscBits), Multiplexer(2),
           <<IF record.taken THEN "saturating_add" ELSE "saturating_sub", LscBits>>,
           Write(LscBits)>>

PushWork ==
    <<Multiplexer(2), Comparison>>
      \o (IF ras.count < RasCapacity
            THEN <<Write(64), <<"saturating_add", RasBits>> >> ELSE <<>>)

\* Mutant: the count is lowered by wrapping_sub.
PopWork_Wrapping ==
    <<Multiplexer(2), Comparison>>
      \o (IF ras.count > 0 THEN << <<"wrapping_sub", RasBits>>, Write(64) >> ELSE <<>>)

PopWork ==
    <<Multiplexer(2), Comparison>>
      \o (IF ras.count > 0 THEN << <<"saturating_sub", RasBits>>, Write(64) >> ELSE <<>>)

TrainStackWork(record) ==
    <<Multiplexer(3)>>
      \o (CASE IsCall(record.kind) -> <<Multiplexer(3)>> \o PushWork
            [] record.kind = Return -> <<Multiplexer(3)>> \o PopWork
            [] OTHER -> <<>>)

TrainKindWork == IndexWork \o <<Write(3), Write(1)>>

UpdateWork(record) ==
    TrainTargetWork(record) \o TrainCounterWork(record)
      \o TrainStackWork(record) \o TrainKindWork

-----------------------------------------------------------------------------
(***************************************************************************)
(* Properties.                                                             *)
(***************************************************************************)
\* A charge of it does not panic.
Priced(step) == FullyPriced(PriceOf(CostTable, step[1], step[2]))

Steps(work) == {work[n] : n \in DOMAIN work}

\* Whatever the predictor was trained on, no path of its callbacks executes an
\* operation that the table leaves unset: a sweep cannot panic on a state that
\* takes a long trace to reach.
NoPathIsUnset ==
    /\ \A address \in Address : \A step \in Steps(PredictWork(address)) : Priced(step)
    /\ \A record \in Records : \A step \in Steps(UpdateWork(record)) : Priced(step)
=============================================================================
