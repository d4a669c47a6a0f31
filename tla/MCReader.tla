------------------------------ MODULE MCReader ------------------------------
(***************************************************************************)
(* Reader for TLC: files of up to two instructions of every class, cut     *)
(* anywhere.                                                               *)
(***************************************************************************)
EXTENDS Reader

Make(address, class, taken, inputs, outputs) ==
    [address |-> address, class |-> class, taken |-> taken, next |-> 3,
     inputs |-> inputs, outputs |-> outputs]

\* Names 31 and 64 are the first that are not vector registers.
MCInstructions ==
    {Make(4, 0, FALSE, 2, <<31, 64>>), Make(4, Load, FALSE, 1, <<32>>),
     Make(4, Store, FALSE, 2, <<>>), Make(5, 3, TRUE, 0, <<>>),
     Make(5, 3, FALSE, 1, <<63, 8>>), Make(13, 3, FALSE, 0, <<5>>),
     Make(6, 10, TRUE, 1, <<30, 40>>), Make(7, 11, TRUE, 1, <<>>),
     Make(7, 12, FALSE, 0, <<>>)}
=============================================================================
