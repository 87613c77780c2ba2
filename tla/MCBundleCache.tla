---------------------------- MODULE MCBundleCache ----------------------------
(* An instance of BundleCache for TLC. *)
EXTENDS BundleCache

CONSTANTS p1, p2, p3, h1, n1, n2, b1, d1

OneHost == [p \in Proc |-> h1]
SameBundle == [p \in Proc |-> b1]
OneDir == [b \in Bundle |-> d1]
TwoFiles == [b \in Bundle |-> 2]
=============================================================================
