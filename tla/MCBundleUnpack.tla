--------------------------- MODULE MCBundleUnpack ---------------------------
(* Instances of BundleUnpack for TLC. *)
EXTENDS BundleUnpack, TLC

CONSTANTS p1, p2, p3, p4, h1, h2, n1, n2, b1, b2, d1, d2

\* Every process on one host, or p2 on a host of its own (a container, or a
\* machine that mounts the same home directory).
OneHost == [p \in Proc |-> h1]
TwoHosts == [p \in Proc |-> IF p = p2 THEN h2 ELSE h1]

\* p4 runs a program with another bundle than the rest.
TwoBundles == [p \in Proc |-> IF p = p4 THEN b2 ELSE b1]
SameBundle == [p \in Proc |-> b1]

OwnDir == [b \in Bundle |-> IF b = b1 THEN d1 ELSE d2]

\* b1 has two files, b2 one.
TwoAndOne == [b \in Bundle |-> IF b = b1 THEN 2 ELSE 1]

Symmetric == Permutations(Pid) \cup Permutations(Proc \ {p4})
=============================================================================
