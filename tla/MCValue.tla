------------------------------- MODULE MCValue -------------------------------
(***************************************************************************)
(* Value for TLC: a word of four bits and every width up to it.            *)
(***************************************************************************)
EXTENDS Value, Bitwise

MCExponents == 0..5

MCWordLogic(op, x, y) ==
    CASE op = "and" -> x & y
      [] op = "or" -> x | y
      [] op = "xor" -> x ^^ y
=============================================================================
