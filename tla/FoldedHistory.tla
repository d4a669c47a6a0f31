---------------------------- MODULE FoldedHistory ----------------------------
(***************************************************************************)
(* What hardware keeps in place of a folded history: circular shift        *)
(* registers, one for each length of history and width of result.  A new   *)
(* direction turns a register by one bit and enters it at the bottom; the  *)
(* direction that leaves the history leaves the register at the place it   *)
(* has been turned to.  Nothing is ever folded.                            *)
(***************************************************************************)
EXTENDS Integers, FiniteSetsExt

CONSTANTS
    Length,         \* of the longest history
    Registers       \* [length, width] of each register

VARIABLES
    history,        \* the positions of the taken directions, the newest at 0
    csr             \* of each register, the positions of its ones

vars == <<history, csr>>

Init == history = {} /\ csr = [r \in Registers |-> {}]

Turned(ones, width) == {(i + 1) % width : i \in ones}

Push(taken) ==
    /\ history' = ({i + 1 : i \in history} \cap 0..Length - 1)
                  \cup (IF taken THEN {0} ELSE {})
    /\ csr' = [r \in Registers |->
                 LET entering == IF taken THEN {0} ELSE {}
                     leaving == IF r.length - 1 \in history THEN {r.length % r.width} ELSE {}
                 IN  SymDiff(SymDiff(Turned(csr[r], r.width), entering), leaving)]

Next == \E taken \in BOOLEAN : Push(taken)

Spec == Init /\ [][Next]_vars
=============================================================================
