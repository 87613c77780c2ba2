----------------------------- MODULE MCLinkStep -----------------------------
(* Instances of LinkStep for TLC. *)
EXTENDS LinkStep

CONSTANTS x, y, z

\* The outputs are `a`, `a.o`, which is also where the object file of `a` goes,
\* and `b.exe`.
Stems == [b \in Build |-> IF b = z THEN "b" ELSE "a"]
Extensions == [b \in Build |-> IF b = x THEN "" ELSE IF b = y THEN "o" ELSE "exe"]
=============================================================================
