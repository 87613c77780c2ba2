------------------------------ MODULE MCCalcc ------------------------------
(* An instance of Calcc for TLC. *)
EXTENDS Calcc

\* Values are expressions over the literals, so that two computations have the
\* same value only if they are the same; every value but zero is true, 0/0 too.
Nought == <<"0">>
ZeroOne == {Nought, <<"1">>}
JustZero == {Nought}
Symbolic(op, l, r) == <<op, l, r>>

\* 0/0, and everything computed from it.
RECURSIVE NotANumber(_)
NotANumber(v) ==
  /\ Len(v) = 3
  /\ v = <<"div", Nought, Nought>> \/ NotANumber(v[2]) \/ NotANumber(v[3])
=============================================================================
