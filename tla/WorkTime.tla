------------------------------ MODULE WorkTime ------------------------------
(***************************************************************************)
(* What the overlap! macro promises about Metrics::total_time, without the *)
(* stack that implements it: delays outside every group add up, and an     *)
(* outermost group, however deeply it nests, adds the greatest delay       *)
(* charged anywhere inside it, once, when it ends.                         *)
(***************************************************************************)
EXTENDS Integers

CONSTANT Delays     \* the delays one operation or outcome can charge

VARIABLES
    time,           \* total work time so far
    depth,          \* open groups
    widest          \* greatest delay since the outermost group opened

vars == <<time, depth, widest>>

Init == time = 0 /\ depth = 0 /\ widest = 0

Serial(delay) ==
    /\ depth = 0
    /\ time' = time + delay
    /\ UNCHANGED <<depth, widest>>

Overlapped(delay) ==
    /\ depth > 0
    /\ widest' = IF delay > widest THEN delay ELSE widest
    /\ UNCHANGED <<time, depth>>

Open ==
    /\ depth' = depth + 1
    /\ UNCHANGED <<time, widest>>

CloseInner ==
    /\ depth > 1
    /\ depth' = depth - 1
    /\ UNCHANGED <<time, widest>>

CloseOutermost ==
    /\ depth = 1
    /\ depth' = 0
    /\ time' = time + widest
    /\ widest' = 0

\* The totals of a run are taken and the next run starts from nothing.
Restart ==
    /\ depth = 0
    /\ time' = 0
    /\ UNCHANGED <<depth, widest>>

Next ==
    \/ \E delay \in Delays : Serial(delay) \/ Overlapped(delay)
    \/ Open
    \/ CloseInner
    \/ CloseOutermost
    \/ Restart

Spec == Init /\ [][Next]_vars
=============================================================================
