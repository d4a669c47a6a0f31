------------------------------- MODULE Powers -------------------------------
(***************************************************************************)
(* Powers as recursive functions, which the proofs can reason about.       *)
(***************************************************************************)
EXTENDS Integers

Power(base) ==
    LET power[n \in Nat] == IF n = 0 THEN 1 ELSE base * power[n - 1]
    IN  power

TwoTo == Power(2)
=============================================================================
