---------------------------- MODULE DataInduction ----------------------------
(***************************************************************************)
(* Induction over the natural numbers in a form the provers can use: with  *)
(* the set of the numbers that have a property in place of the property.   *)
(* It is what the other proof modules reason about recursive functions     *)
(* and folds with.                                                         *)
(***************************************************************************)
EXTENDS SequencesExt, SequenceTheorems, WellFoundedInduction, TLAPS

\* A set of natural numbers that is not empty has a least one.
LEMMA LeastNumber ==
  ASSUME NEW T, T \subseteq Nat, T # {}
  PROVE  \E n \in T : \A m \in T : n <= m
<1>1. PICK n \in T : \A m \in T : ~(<<m, n>> \in OpToRel(<, Nat))
  BY NatLessThanWellFounded, WFMin
<1>2. ASSUME NEW m \in Nat, NEW k \in Nat, m < k
      PROVE  <<m, k>> \in OpToRel(<, Nat)
  BY <1>2 DEF OpToRel
<1>3. \A m \in T : ~(m < n)
  BY <1>1, <1>2, Zenon
<1> QED
  BY <1>3

\* Some of the numbers up to n have a greatest one.
LEMMA GreatestNumber ==
  ASSUME NEW n \in Nat, NEW S, S \subseteq 1..n, S # {}
  PROVE  \E x \in S : \A y \in S : y <= x
<1> DEFINE T == {k \in Nat : n - k \in S}
<1>1. PICK x \in S : TRUE
  OBVIOUS
<1>2. x \in 1..n /\ n - x \in Nat /\ n - (n - x) = x
  BY <1>1
<1>3. n - x \in T
  BY <1>2
<1>4. PICK m \in T : \A k \in T : m <= k
  BY <1>3, LeastNumber
<1>5. ASSUME NEW y \in S PROVE y <= n - m
  <2>1. y \in 1..n /\ n - y \in Nat /\ n - (n - y) = y
    BY <1>5
  <2>2. n - y \in T
    BY <2>1
  <2>3. m <= n - y /\ m \in Nat
    BY <1>4, <2>2
  <2> QED
    BY <2>1, <2>3
<1>6. n - m \in S /\ \A y \in S : y <= n - m
  BY <1>4, <1>5
<1> DEFINE z == n - m
<1>7. z \in S /\ \A y \in S : y <= z
  BY <1>6
<1> HIDE DEF z
<1> QED
  BY <1>7

\* A set that has 0, and with each natural number the next one, has them all.
LEMMA AllNumbers ==
  ASSUME NEW T, 0 \in T, \A n \in Nat : n \in T => n + 1 \in T
  PROVE  Nat \subseteq T
<1> SUFFICES ASSUME Nat \ T # {} PROVE FALSE
  OBVIOUS
<1>1. PICK n \in Nat \ T : \A m \in Nat \ T : n <= m
  BY LeastNumber
<1>2. n # 0
  OBVIOUS
<1>3. n - 1 \in Nat /\ n - 1 \in T
  BY <1>1, <1>2
<1> QED
  BY <1>1, <1>3

\* What begins in A, and stays there at each step, is there at each place.
LEMMA StaysIn ==
  ASSUME NEW A, NEW n \in Nat, NEW h, h[0] \in A,
         \A i \in 1..n : h[i - 1] \in A => h[i] \in A
  PROVE  \A i \in 0..n : h[i] \in A
<1> DEFINE T == {k \in Nat : k <= n => h[k] \in A}
<1>1. 0 \in T
  OBVIOUS
<1>2. ASSUME NEW k \in Nat, k \in T PROVE k + 1 \in T
  <2> SUFFICES ASSUME k + 1 <= n PROVE h[k + 1] \in A
    OBVIOUS
  <2>1. h[k] \in A
    BY <1>2
  <2>2. k + 1 \in 1..n /\ (k + 1) - 1 = k
    OBVIOUS
  <2> DEFINE m == k + 1
  <2>3. m \in 1..n /\ h[m - 1] \in A
    BY <2>1, <2>2
  <2> HIDE DEF m
  <2>4. h[m] \in A
    BY <2>3
  <2> QED
    BY <2>4 DEF m
<1> HIDE DEF T
<1>3. Nat \subseteq T
  BY <1>1, <1>2, AllNumbers
<1>4. ASSUME NEW i \in 0..n PROVE h[i] \in A
  BY <1>3 DEF T
<1> QED
  BY <1>4

\* What a list begins with, grown by one.
LEMMA BeginningGrows ==
  ASSUME NEW S, NEW s \in Seq(S), NEW k \in Nat, k + 1 <= Len(s)
  PROVE  SubSeq(s, 1, k + 1) = Append(SubSeq(s, 1, k), s[k + 1])
<1>1. Len(s) \in Nat /\ s \in [1..Len(s) -> S]
  OBVIOUS
<1>2. /\ SubSeq(s, 1, k) \in Seq(S) /\ Len(SubSeq(s, 1, k)) = k
      /\ \A i \in 1..k : SubSeq(s, 1, k)[i] = s[i]
  BY <1>1
<1>3. /\ SubSeq(s, 1, k + 1) \in Seq(S) /\ Len(SubSeq(s, 1, k + 1)) = k + 1
      /\ \A i \in 1..(k + 1) : SubSeq(s, 1, k + 1)[i] = s[i]
  BY <1>1
<1> DEFINE m == k + 1
           b == SubSeq(s, 1, k)
           t == SubSeq(s, 1, m)
           e == s[m]
<1>4. m \in 1..Len(s) /\ e \in S /\ m = k + 1
  BY <1>1
<1> HIDE DEF b, t, e, m
<1>5. b \in Seq(S) /\ Len(b) = k /\ \A i \in 1..k : b[i] = s[i]
  BY <1>2 DEF b
<1>6. t \in Seq(S) /\ Len(t) = m /\ \A i \in 1..m : t[i] = s[i]
  BY <1>3 DEF t, m
<1>7. /\ Append(b, e) \in Seq(S) /\ Len(Append(b, e)) = m
      /\ \A i \in 1..k : Append(b, e)[i] = b[i]
      /\ Append(b, e)[m] = e
  BY <1>4, <1>5, AppendProperties
<1>8. \A i \in 1..m : t[i] = Append(b, e)[i]
  <2> SUFFICES ASSUME NEW i \in 1..m PROVE t[i] = Append(b, e)[i]
    OBVIOUS
  <2>1. i = m \/ i \in 1..k
    BY <1>4
  <2>2. t[i] = s[i]
    BY <1>6
  <2> QED
    BY <1>5, <1>7, <2>1, <2>2 DEF e
<1>9. t = Append(b, e)
  BY ONLY <1>6, <1>7, <1>8, SeqEqual
<1> QED
  BY <1>9 DEF t, b, e, m

-----------------------------------------------------------------------------
(* FlattenSeq of the community modules.                                    *)

\* f is the function that FlattenSeq computes up to n.
Flattens(f, seqs, n) ==
  f = [i \in 1..n |-> IF i = 1 THEN seqs[i] ELSE f[i - 1] \o seqs[i]]

\* What such a function is at each place.
LEMMA FlattensAt ==
  ASSUME NEW f, NEW seqs, NEW n \in Nat, Flattens(f, seqs, n)
  PROVE  \A i \in 1..n : f[i] = IF i = 1 THEN seqs[i] ELSE f[i - 1] \o seqs[i]
BY DEF Flattens

\* There is one, for each n.
LEMMA FlattensExists ==
  ASSUME NEW seqs, NEW n \in Nat
  PROVE  \E f : Flattens(f, seqs, n)
<1> DEFINE T == {k \in Nat : \E f : Flattens(f, seqs, k)}
<1>1. 0 \in T
  <2>1. Flattens([i \in 1..0 |-> i], seqs, 0)
    BY DEF Flattens
  <2> QED
    BY <2>1
<1>2. ASSUME NEW k \in Nat, k \in T PROVE k + 1 \in T
  <2>1. PICK f : Flattens(f, seqs, k)
    BY <1>2
  <2> DEFINE g == [i \in 1..(k + 1) |-> IF i = 1 THEN seqs[1] ELSE f[i - 1] \o seqs[i]]
  <2>2. /\ DOMAIN g = 1..(k + 1)
        /\ \A i \in 1..(k + 1) : g[i] = IF i = 1 THEN seqs[1] ELSE f[i - 1] \o seqs[i]
    OBVIOUS
  <2>3. g = [i \in DOMAIN g |-> g[i]]
    OBVIOUS
  <2> HIDE DEF g
  <2>4. ASSUME NEW i \in 1..k PROVE g[i] = f[i]
    <3>1. i \in 1..(k + 1)
      OBVIOUS
    <3>2. f[i] = IF i = 1 THEN seqs[i] ELSE f[i - 1] \o seqs[i]
      BY <2>1, FlattensAt
    <3> QED
      BY <2>2, <3>1, <3>2
  <2>5. ASSUME NEW i \in 1..(k + 1)
        PROVE  g[i] = IF i = 1 THEN seqs[i] ELSE g[i - 1] \o seqs[i]
    <3>1. CASE i = 1
      BY <2>2, <3>1
    <3>2. CASE i # 1
      <4>1. i - 1 \in 1..k
        BY <3>2
      <4> QED
        BY <2>2, <2>4, <3>2, <4>1
    <3> QED
      BY <3>1, <3>2
  <2>6. g = [i \in 1..(k + 1) |-> IF i = 1 THEN seqs[i] ELSE g[i - 1] \o seqs[i]]
    BY <2>2, <2>3, <2>5
  <2>7. Flattens(g, seqs, k + 1)
    BY <2>6, Zenon DEF Flattens
  <2> QED
    BY <2>7
<1> HIDE DEF T
<1>3. Nat \subseteq T
  BY <1>1, <1>2, AllNumbers
<1> QED
  BY <1>3 DEF T

\* FlattenSeq is the last value of that function.
LEMMA FlattenSeqIs ==
  ASSUME NEW seqs, Len(seqs) \in Nat \ {0}
  PROVE  \E f : Flattens(f, seqs, Len(seqs)) /\ FlattenSeq(seqs) = f[Len(seqs)]
<1> DEFINE f == CHOOSE g : g = [i \in 1..Len(seqs) |->
                                  IF i = 1 THEN seqs[i] ELSE g[i - 1] \o seqs[i]]
<1>1. FlattenSeq(seqs) = f[Len(seqs)]
  BY Zenon DEF FlattenSeq
<1>2. \E g : g = [i \in 1..Len(seqs) |-> IF i = 1 THEN seqs[i] ELSE g[i - 1] \o seqs[i]]
  BY FlattensExists DEF Flattens
<1>3. f = [i \in 1..Len(seqs) |-> IF i = 1 THEN seqs[i] ELSE f[i - 1] \o seqs[i]]
  BY <1>2, Zenon
<1> QED
  BY <1>1, <1>3 DEF Flattens

\* Where two lists agree, so do their functions.
LEMMA FlattensAgree ==
  ASSUME NEW f, NEW s, NEW n \in Nat, Flattens(f, s, n),
         NEW g, NEW t, NEW m \in Nat, Flattens(g, t, m),
         n <= m, \A i \in 1..n : s[i] = t[i]
  PROVE  \A i \in 1..n : f[i] = g[i]
<1> DEFINE T == {k \in Nat : k + 1 \in 1..n => f[k + 1] = g[k + 1]}
<1>1. \A i \in 1..n : f[i] = IF i = 1 THEN s[i] ELSE f[i - 1] \o s[i]
  BY FlattensAt
<1>2. \A i \in 1..m : g[i] = IF i = 1 THEN t[i] ELSE g[i - 1] \o t[i]
  BY FlattensAt
<1>3. 0 \in T
  BY <1>1, <1>2
<1>4. ASSUME NEW k \in Nat, k \in T PROVE k + 1 \in T
  <2> SUFFICES ASSUME k + 2 \in 1..n PROVE f[k + 2] = g[k + 2]
    OBVIOUS
  <2>1. k + 1 \in 1..n /\ k + 2 \in 1..m /\ k + 2 # 1 /\ (k + 2) - 1 = k + 1
    OBVIOUS
  <2>2. f[k + 1] = g[k + 1]
    BY <1>4, <2>1
  <2> QED
    BY <1>1, <1>2, <2>1, <2>2
<1> HIDE DEF T
<1>5. Nat \subseteq T
  BY <1>3, <1>4, AllNumbers
<1>6. ASSUME NEW i \in 1..n PROVE f[i] = g[i]
  <2>1. i - 1 \in Nat /\ (i - 1) + 1 = i
    OBVIOUS
  <2> QED
    BY <1>5, <2>1 DEF T
<1> QED
  BY <1>6

\* What is flattened is a sequence of the elements of the lists.
LEMMA FlattenSeqType ==
  ASSUME NEW S, NEW seqs \in Seq(Seq(S))
  PROVE  FlattenSeq(seqs) \in Seq(S)
<1>1. CASE Len(seqs) = 0
  <2>1. FlattenSeq(seqs) = seqs
    BY <1>1, Zenon DEF FlattenSeq
  <2>2. seqs = <<>>
    BY <1>1, EmptySeq
  <2>3. <<>> \in Seq(S)
    OBVIOUS
  <2> QED
    BY <2>1, <2>2, <2>3
<1>2. CASE Len(seqs) # 0
  <2> DEFINE n == Len(seqs)
  <2>1. n \in Nat \ {0}
    BY <1>2
  <2>2. PICK f : Flattens(f, seqs, n) /\ FlattenSeq(seqs) = f[n]
    BY <2>1, FlattenSeqIs
  <2>3. \A i \in 1..n : f[i] = IF i = 1 THEN seqs[i] ELSE f[i - 1] \o seqs[i]
    BY <2>2, FlattensAt
  <2>4. \A i \in 1..n : seqs[i] \in Seq(S)
    OBVIOUS
  <2> HIDE DEF n
  <2> DEFINE T == {k \in Nat : k + 1 \in 1..n => f[k + 1] \in Seq(S)}
  <2>5. 0 \in T
    BY <2>3, <2>4
  <2>6. ASSUME NEW k \in Nat, k \in T PROVE k + 1 \in T
    <3> SUFFICES ASSUME k + 2 \in 1..n PROVE f[k + 2] \in Seq(S)
      OBVIOUS
    <3>1. k + 1 \in 1..n /\ k + 2 # 1 /\ (k + 2) - 1 = k + 1
      BY <2>1
    <3>2. f[k + 2] = f[k + 1] \o seqs[k + 2]
      BY <2>3, <3>1
    <3>3. f[k + 1] \in Seq(S) /\ seqs[k + 2] \in Seq(S)
      BY <2>4, <2>6, <3>1
    <3> QED
      BY <3>2, <3>3
  <2> HIDE DEF T
  <2>7. Nat \subseteq T
    BY <2>5, <2>6, AllNumbers
  <2>8. n - 1 \in Nat /\ (n - 1) + 1 = n /\ n \in 1..n
    BY <2>1
  <2> QED
    BY <2>2, <2>7, <2>8 DEF T
<1> QED
  BY <1>1, <1>2

\* A list that is appended comes after the others.
LEMMA FlattenSeqAppend ==
  ASSUME NEW S, NEW seqs \in Seq(Seq(S)), NEW e \in Seq(S)
  PROVE  FlattenSeq(Append(seqs, e)) = FlattenSeq(seqs) \o e
<1> DEFINE n == Len(seqs)
           more == Append(seqs, e)
<1>1. /\ n \in Nat /\ Len(more) = n + 1 /\ more[n + 1] = e
      /\ \A i \in 1..n : more[i] = seqs[i]
  OBVIOUS
<1>2. n = 0 => seqs = <<>> /\ FlattenSeq(seqs) = <<>>
  <2> SUFFICES ASSUME n = 0 PROVE seqs = <<>> /\ FlattenSeq(seqs) = <<>>
    OBVIOUS
  <2>1. seqs = <<>>
    BY EmptySeq
  <2>2. FlattenSeq(seqs) = seqs
    BY Zenon DEF FlattenSeq
  <2> QED
    BY <2>1, <2>2
<1>3. n \in Nat
  OBVIOUS
<1> HIDE DEF n, more
<1>4. PICK g : Flattens(g, more, n + 1) /\ FlattenSeq(more) = g[n + 1]
  BY <1>1, FlattenSeqIs
<1>5. g[n + 1] = IF n + 1 = 1 THEN e ELSE g[n] \o e
  <2>1. \A i \in 1..(n + 1) : g[i] = IF i = 1 THEN more[i] ELSE g[i - 1] \o more[i]
    BY <1>1, <1>4, FlattensAt
  <2>2. n + 1 \in 1..(n + 1) /\ (n + 1) - 1 = n
    BY <1>3
  <2> QED
    BY <1>1, <2>1, <2>2
<1>6. CASE n = 0
  <2>1. e = <<>> \o e
    OBVIOUS
  <2> QED
    BY <1>2, <1>4, <1>5, <1>6, <2>1 DEF more
<1>7. CASE n # 0
  <2>1. PICK f : Flattens(f, seqs, n) /\ FlattenSeq(seqs) = f[n]
    BY <1>1, <1>7, FlattenSeqIs DEF n
  <2>2. n \in 1..n /\ n <= n + 1 /\ n + 1 # 1 /\ n + 1 \in Nat
    BY <1>3, <1>7
  <2>3. \A i \in 1..n : seqs[i] = more[i]
    BY <1>1
  <2>4. \A i \in 1..n : f[i] = g[i]
    <3>1. Flattens(f, seqs, n) /\ Flattens(g, more, n + 1)
      BY <1>4, <2>1
    <3>2. n \in Nat /\ n + 1 \in Nat /\ n <= n + 1
      BY <1>3
    <3> QED
      BY SMTT(30), <2>3, <3>1, <3>2, FlattensAgree
  <2> QED
    BY <1>4, <1>5, <2>1, <2>2, <2>4 DEF more
<1> QED
  BY <1>1, <1>6, <1>7

\* What is flattened has the elements of all the lists.
LEMMA FlattenSeqRange ==
  ASSUME NEW S, NEW seqs \in Seq(Seq(S))
  PROVE  Range(FlattenSeq(seqs)) = UNION {Range(seqs[i]) : i \in 1..Len(seqs)}
<1> DEFINE All(s, m) == UNION {Range(s[i]) : i \in 1..m}
           T == {m \in Nat : \A s \in Seq(Seq(S)) :
                               Len(s) = m => Range(FlattenSeq(s)) = All(s, m)}
<1>1. 0 \in T
  <2> SUFFICES ASSUME NEW s \in Seq(Seq(S)), Len(s) = 0 PROVE Range(FlattenSeq(s)) = All(s, 0)
    OBVIOUS
  <2>1. FlattenSeq(s) = s
    BY Zenon DEF FlattenSeq
  <2>2. Range(s) = {}
    BY DEF Range
  <2>3. All(s, 0) = {}
    OBVIOUS
  <2> QED
    BY <2>1, <2>2, <2>3
<1>2. ASSUME NEW m \in Nat, m \in T PROVE m + 1 \in T
  <2> SUFFICES ASSUME NEW s \in Seq(Seq(S)), Len(s) = m + 1
               PROVE  Range(FlattenSeq(s)) = All(s, m + 1)
    <3>1. m + 1 \in Nat
      OBVIOUS
    <3> QED
      BY <3>1
  <2> DEFINE front == SubSeq(s, 1, m)
             last == s[m + 1]
  <2>1. /\ front \in Seq(Seq(S)) /\ Len(front) = m /\ last \in Seq(S)
        /\ \A i \in 1..m : front[i] = s[i]
    BY SubSeqProperties
  <2>2. s = Append(front, last)
    BY <2>1
  <2>3. All(s, m + 1) = All(front, m) \cup Range(last)
    <3>1. 1..(m + 1) = (1..m) \cup {m + 1}
      OBVIOUS
    <3>2. \A i \in 1..m : Range(s[i]) = Range(front[i])
      BY <2>1
    <3> HIDE DEF front
    <3> QED
      BY <3>1, <3>2
  <2> HIDE DEF front, last
  <2>4. FlattenSeq(s) = FlattenSeq(front) \o last
    BY <2>1, <2>2, FlattenSeqAppend
  <2>5. FlattenSeq(front) \in Seq(S)
    BY <2>1, FlattenSeqType
  <2>6. Range(FlattenSeq(s)) = Range(FlattenSeq(front)) \cup Range(last)
    BY <2>1, <2>4, <2>5, RangeConcatenation
  <2>7. Range(FlattenSeq(front)) = All(front, m)
    BY <1>2, <2>1
  <2> HIDE DEF All
  <2> QED
    BY <2>3, <2>6, <2>7
<1>3. Len(seqs) \in Nat
  OBVIOUS
<1> HIDE DEF T, All
<1>4. Len(seqs) \in T
  BY <1>1, <1>2, <1>3, AllNumbers
<1>5. Range(FlattenSeq(seqs)) = All(seqs, Len(seqs))
  BY <1>4 DEF T
<1> QED
  BY <1>5 DEF All

\* f keeps of the numbers up to n those in K, each as the element of S that V says.
Keeps(f, n, K, V, S) ==
  /\ n \in Nat /\ K \in SUBSET (1..n) /\ \A i \in K : V[i] \in S
  /\ f = [i \in 1..n |-> IF i \in K THEN <<V[i]>> ELSE <<>>]
Kept(list, K, V, S) == list \in Seq(S) /\ Range(list) = {V[i] : i \in K}

\* Flattening lists of one or no element keeps just those elements.
LEMMA FlattenSeqKept ==
  ASSUME NEW S, NEW n, NEW K, NEW V, NEW f, Keeps(f, n, K, V, S)
  PROVE  Kept(FlattenSeq(f), K, V, S)
<1> n \in Nat /\ K \in SUBSET (1..n) /\ \A i \in K : V[i] \in S
  BY DEF Keeps
<1>1. ASSUME NEW i \in 1..n
      PROVE  f[i] \in Seq(S) /\ Range(f[i]) = IF i \in K THEN {V[i]} ELSE {}
  <2>1. CASE i \in K
    <3> DEFINE v == V[i]
    <3>1. f[i] = <<v>> /\ v \in S
      BY <2>1 DEF Keeps
    <3> HIDE DEF v
    <3>2. <<v>> \in Seq(S) /\ Range(<<v>>) = {v}
      BY <3>1 DEF Range
    <3> QED
      BY <2>1, <3>1, <3>2 DEF v
  <2>2. CASE i \notin K
    <3>1. f[i] = <<>>
      BY <2>2 DEF Keeps
    <3>2. <<>> \in Seq(S) /\ Range(<<>>) = {}
      BY DEF Range
    <3> QED
      BY <2>2, <3>1, <3>2
  <2> QED
    BY <2>1, <2>2
<1>2. f \in Seq(Seq(S)) /\ Len(f) = n
  <2>1. f \in [1..n -> Seq(S)]
    BY <1>1 DEF Keeps
  <2> QED
    BY <2>1
<1>3. FlattenSeq(f) \in Seq(S)
  BY <1>2, FlattenSeqType
<1>4. Range(FlattenSeq(f)) = UNION {Range(f[i]) : i \in 1..n}
  BY <1>2, FlattenSeqRange
<1>5. UNION {Range(f[i]) : i \in 1..n} = {V[i] : i \in K}
  <2>1. ASSUME NEW x, NEW i \in 1..n, x \in Range(f[i]) PROVE x \in {V[k] : k \in K}
    BY <1>1, <2>1
  <2>2. ASSUME NEW i \in K PROVE V[i] \in UNION {Range(f[k]) : k \in 1..n}
    BY <1>1
  <2> QED
    BY <2>1, <2>2
<1> QED
  BY <1>3, <1>4, <1>5 DEF Kept

\* Lists of one or no element are flattened to one that is no longer than they are many.
LEMMA FlattenSeqShort ==
  ASSUME NEW S, NEW seqs \in Seq(Seq(S)), \A i \in 1..Len(seqs) : Len(seqs[i]) <= 1
  PROVE  Len(FlattenSeq(seqs)) <= Len(seqs)
<1> DEFINE Short(s) == \A i \in 1..Len(s) : Len(s[i]) <= 1
           T == {m \in Nat : \A s \in Seq(Seq(S)) :
                               Len(s) = m /\ Short(s) => Len(FlattenSeq(s)) <= m}
<1>1. 0 \in T
  <2> SUFFICES ASSUME NEW s \in Seq(Seq(S)), Len(s) = 0 PROVE Len(FlattenSeq(s)) <= 0
    OBVIOUS
  <2>1. FlattenSeq(s) = s
    BY Zenon DEF FlattenSeq
  <2> QED
    BY <2>1
<1>2. ASSUME NEW m \in Nat, m \in T PROVE m + 1 \in T
  <2> SUFFICES ASSUME NEW s \in Seq(Seq(S)), Len(s) = m + 1, Short(s)
               PROVE  Len(FlattenSeq(s)) <= m + 1
    <3>1. m + 1 \in Nat
      OBVIOUS
    <3> QED
      BY <3>1
  <2> DEFINE front == SubSeq(s, 1, m)
             last == s[m + 1]
  <2>1. /\ front \in Seq(Seq(S)) /\ Len(front) = m /\ last \in Seq(S)
        /\ \A i \in 1..m : front[i] = s[i]
    BY SubSeqProperties
  <2>2. s = Append(front, last)
    BY <2>1
  <2>3. Short(front) /\ Len(last) <= 1
    BY <2>1
  <2> HIDE DEF front, last, Short
  <2>4. FlattenSeq(s) = FlattenSeq(front) \o last
    BY <2>1, <2>2, FlattenSeqAppend
  <2>5. FlattenSeq(front) \in Seq(S) /\ Len(FlattenSeq(front)) <= m
    BY <1>2, <2>1, <2>3, FlattenSeqType
  <2> DEFINE a == FlattenSeq(front)
  <2>6. a \in Seq(S) /\ Len(a) <= m /\ FlattenSeq(s) = a \o last
    BY <2>4, <2>5
  <2> HIDE DEF a
  <2>7. Len(a \o last) = Len(a) + Len(last) /\ Len(a) \in Nat /\ Len(last) \in Nat
    BY <2>1, <2>6
  <2> QED
    BY <2>3, <2>6, <2>7
<1>3. Len(seqs) \in Nat /\ Short(seqs)
  OBVIOUS
<1> HIDE DEF T, Short
<1>4. Len(seqs) \in T
  BY <1>1, <1>2, <1>3, AllNumbers
<1> QED
  BY <1>3, <1>4 DEF T

-----------------------------------------------------------------------------
(* Division.                                                              *)

\* What is left of a number and how often the divisor goes into it are no others.
LEMMA DivisionUnique ==
  ASSUME NEW b \in Nat \ {0}, NEW q \in Nat, NEW r \in 0..(b - 1)
  PROVE  (r + b * q) % b = r /\ (r + b * q) \div b = q
OBVIOUS

\* Every number can be divided.
LEMMA DivisionExists ==
  ASSUME NEW b \in Nat \ {0}, NEW n \in Nat
  PROVE  \E q \in Nat : \E r \in 0..(b - 1) : n = r + b * q
<1> DEFINE T == {k \in Nat : \E q \in Nat : \E r \in 0..(b - 1) : k = r + b * q}
<1>1. 0 \in T
  <2>1. 0 \in 0..(b - 1) /\ 0 = 0 + b * 0
    OBVIOUS
  <2> QED
    BY <2>1
<1>2. ASSUME NEW k \in Nat, k \in T PROVE k + 1 \in T
  <2>1. PICK q \in Nat, r \in 0..(b - 1) : k = r + b * q
    BY <1>2
  <2>2. CASE r # b - 1
    <3>1. r + 1 \in 0..(b - 1)
      BY <2>2
    <3>2. k + 1 = (r + 1) + b * q
      BY <2>1
    <3> QED
      BY <3>1, <3>2
  <2>3. CASE r = b - 1
    <3> DEFINE p == q + 1
    <3>1. p \in Nat /\ b * p = b * q + b
      OBVIOUS
    <3> HIDE DEF p
    <3>2. k + 1 = 0 + b * p
      BY <2>1, <2>3, <3>1
    <3>3. 0 \in 0..(b - 1)
      OBVIOUS
    <3>4. \E x \in Nat : \E y \in 0..(b - 1) : k + 1 = y + b * x
      BY <3>1, <3>2, <3>3, Zenon
    <3> QED
      BY <3>4
  <2> QED
    BY <2>2, <2>3
<1> HIDE DEF T
<1>3. n \in T
  BY <1>1, <1>2, AllNumbers
<1> QED
  BY <1>3 DEF T

\* A number is made of the two.
LEMMA DivisionIs ==
  ASSUME NEW b \in Nat \ {0}, NEW n \in Nat
  PROVE  n = (n % b) + b * (n \div b)
<1>1. PICK q \in Nat, r \in 0..(b - 1) : n = r + b * q
  BY DivisionExists
<1>2. n % b = r /\ n \div b = q
  BY <1>1, DivisionUnique
<1> QED
  BY <1>1, <1>2

-----------------------------------------------------------------------------
(* FlattenSeq from its end.                                                *)

\* r is what is left at each place of the first n of seqs, with rest after them.
Rests(r, seqs, rest, n) ==
  /\ r[0] = FlattenSeq(seqs) \o rest
  /\ r[n] = rest
  /\ \A i \in 1..n : r[i - 1] = seqs[i] \o r[i]

\* Reading a flattened list from its start, with something after it, leaves at each
\* place what the next element and the rest make.
LEMMA FlattenSeqRests ==
  ASSUME NEW S, NEW n \in Nat, NEW seqs \in Seq(Seq(S)), Len(seqs) = n, NEW rest \in Seq(S)
  PROVE  \E r \in [0..n -> Seq(S)] : Rests(r, seqs, rest, n)
<1> DEFINE T == {m \in Nat : \A s \in Seq(Seq(S)) : \A e \in Seq(S) :
                               Len(s) = m => \E r \in [0..m -> Seq(S)] : Rests(r, s, e, m)}
<1>1. 0 \in T
  <2> SUFFICES ASSUME NEW s \in Seq(Seq(S)), NEW e \in Seq(S), Len(s) = 0
               PROVE  \E r \in [0..0 -> Seq(S)] : Rests(r, s, e, 0)
    OBVIOUS
  <2>1. FlattenSeq(s) = s /\ s = <<>>
    <3>1. FlattenSeq(s) = s
      BY Zenon DEF FlattenSeq
    <3>2. s = <<>>
      BY EmptySeq
    <3> QED
      BY <3>1, <3>2
  <2>2. FlattenSeq(s) \o e = e
    BY <2>1
  <2> DEFINE r == [i \in 0..0 |-> e]
  <2>3. r \in [0..0 -> Seq(S)] /\ r[0] = e
    OBVIOUS
  <2>4. Rests(r, s, e, 0)
    BY <2>2, <2>3 DEF Rests
  <2> QED
    BY <2>3, <2>4
<1>2. ASSUME NEW m \in Nat, m \in T PROVE m + 1 \in T
  <2> SUFFICES ASSUME NEW s \in Seq(Seq(S)), NEW e \in Seq(S), Len(s) = m + 1
               PROVE  \E r \in [0..(m + 1) -> Seq(S)] : Rests(r, s, e, m + 1)
    <3>1. m + 1 \in Nat
      OBVIOUS
    <3> QED
      BY <3>1
  <2> DEFINE front == SubSeq(s, 1, m)
             last == s[m + 1]
             more == last \o e
  <2>1. /\ front \in Seq(Seq(S)) /\ Len(front) = m /\ last \in Seq(S)
        /\ \A i \in 1..m : front[i] = s[i]
    BY SubSeqProperties
  <2>2. s = Append(front, last)
    BY <2>1
  <2>3. more \in Seq(S)
    BY <2>1
  <2>4. FlattenSeq(s) \o e = FlattenSeq(front) \o more
    <3>1. FlattenSeq(s) = FlattenSeq(front) \o last
      BY <2>1, <2>2, FlattenSeqAppend
    <3>2. FlattenSeq(front) \in Seq(S) /\ last \in Seq(S) /\ e \in Seq(S)
      BY <2>1, FlattenSeqType
    <3> DEFINE a == FlattenSeq(front)
    <3> HIDE DEF last
    <3>3. a \in Seq(S) /\ last \in Seq(S) /\ e \in Seq(S)
      BY <3>2
    <3>4. FlattenSeq(s) = a \o last
      BY <3>1
    <3> HIDE DEF a
    <3>5. (a \o last) \o e = a \o (last \o e)
      BY ONLY <3>3, SMTT(30)
    <3> QED
      BY <3>4, <3>5 DEF a
  <2> HIDE DEF front, last, more
  <2>5. PICK r \in [0..m -> Seq(S)] : Rests(r, front, more, m)
    BY <1>2, <2>1, <2>3
  <2> DEFINE t == [i \in 0..(m + 1) |-> IF i = m + 1 THEN e ELSE r[i]]
  <2>6. t \in [0..(m + 1) -> Seq(S)]
    OBVIOUS
  <2>7. t[m + 1] = e /\ \A i \in 0..m : t[i] = r[i]
    OBVIOUS
  <2> HIDE DEF t
  <2>8. t[0] = FlattenSeq(s) \o e
    <3>1. t[0] = r[0]
      BY <2>7
    <3> QED
      BY <2>4, <2>5, <3>1 DEF Rests
  <2>9. ASSUME NEW i \in 1..(m + 1) PROVE t[i - 1] = s[i] \o t[i]
    <3>1. CASE i = m + 1
      <4>1. t[i - 1] = r[m] /\ r[m] = more
        BY <2>5, <2>7, <3>1 DEF Rests
      <4> QED
        BY <2>7, <3>1, <4>1 DEF more, last
    <3>2. CASE i # m + 1
      <4>1. i \in 1..m /\ i - 1 \in 0..m /\ i \in 0..m
        BY <3>2
      <4>2. t[i - 1] = r[i - 1] /\ t[i] = r[i] /\ r[i - 1] = front[i] \o r[i]
        BY <2>5, <2>7, <4>1 DEF Rests
      <4> QED
        BY <2>1, <4>1, <4>2
    <3> QED
      BY <3>1, <3>2
  <2>10. Rests(t, s, e, m + 1)
    BY <2>7, <2>8, <2>9 DEF Rests
  <2> QED
    BY <2>6, <2>10
<1> HIDE DEF T
<1>3. n \in T
  BY <1>1, <1>2, AllNumbers
<1> QED
  BY <1>3 DEF T

-----------------------------------------------------------------------------
(* FoldLeft of the community modules over the numbers up to n.             *)

\* Max of some of the numbers up to n.
LEMMA MaxIs ==
  ASSUME NEW n \in Nat, NEW s, s \subseteq 1..n, s # {}
  PROVE  Max(s) \in s /\ \A y \in s : y <= Max(s)
<1>1. PICK x \in s : \A y \in s : y <= x
  BY GreatestNumber
<1>2. \A y \in s : x >= y
  BY <1>1
<1>3. Max(s) \in s /\ \A y \in s : Max(s) >= y
  BY <1>2, Zenon DEF Max
<1> QED
  BY <1>3

LEMMA MaxOfFirst ==
  ASSUME NEW n \in Nat \ {0}
  PROVE  1..n # {} /\ Max(1..n) = n /\ (1..n) \ {n} = 1..(n - 1)
<1>1. n \in 1..n /\ 1..n # {}
  OBVIOUS
<1> DEFINE x == Max(1..n)
<1>2. x \in 1..n /\ \A y \in 1..n : y <= x
  <2> DEFINE all == 1..n
  <2>1. n \in Nat /\ all \subseteq 1..n /\ all # {}
    BY <1>1
  <2> HIDE DEF all
  <2>2. Max(all) \in all /\ \A y \in all : y <= Max(all)
    BY <2>1, MaxIs
  <2> QED
    BY <2>2 DEF all
<1> HIDE DEF x
<1>3. x = n
  BY <1>1, <1>2
<1>4. (1..n) \ {n} = 1..(n - 1)
  OBVIOUS
<1> QED
  BY <1>1, <1>3, <1>4 DEF x

\* f is the function that a fold from base computes, for each set of numbers up to
\* n, where G is the operator as a function.
Accumulates(f, G, base, n) ==
  \A s \in SUBSET (1..n) :
    f[s] = IF s = {} THEN base ELSE G[<<f[s \ {Max(s)}], Max(s)>>]

\* There is one with its values in A.
CanAccumulate(A, G, base, n) ==
  \E f \in [SUBSET (1..n) -> A] : Accumulates(f, G, base, n)

\* There is, where G stays in A.
LEMMA AccumulatesExists ==
  ASSUME NEW A, NEW base \in A, NEW n \in Nat, NEW G \in [A \X (1..n) -> A]
  PROVE  CanAccumulate(A, G, base, n)
<1> DEFINE T == {k \in Nat : k <= n => CanAccumulate(A, G, base, k)}
<1>1. 0 \in T
  <2> DEFINE f == [s \in SUBSET (1..0) |-> base]
  <2>1. f \in [SUBSET (1..0) -> A] /\ Accumulates(f, G, base, 0)
    BY DEF Accumulates
  <2> QED
    BY <2>1 DEF CanAccumulate
<1>2. ASSUME NEW k \in Nat, k \in T PROVE k + 1 \in T
  <2> SUFFICES ASSUME k + 1 <= n
               PROVE  CanAccumulate(A, G, base, k + 1)
    <3>1. k + 1 \in Nat
      OBVIOUS
    <3> QED
      BY <3>1
  <2>1. PICK f \in [SUBSET (1..k) -> A] : Accumulates(f, G, base, k)
    <3>1. k <= n
      OBVIOUS
    <3> QED
      BY <1>2, <3>1 DEF CanAccumulate
  <2> DEFINE m == k + 1
             g == [s \in SUBSET (1..m) |->
                     IF s = {} THEN base ELSE G[<<f[s \ {Max(s)}], Max(s)>>]]
  <2>2. m \in Nat /\ 1..k \subseteq 1..m /\ 1..m \subseteq 1..n
    OBVIOUS
  <2>3. ASSUME NEW s \in SUBSET (1..m), s # {}
        PROVE  Max(s) \in 1..n /\ s \ {Max(s)} \in SUBSET (1..k)
    <3>1. Max(s) \in s /\ \A y \in s : y <= Max(s)
      BY <2>2, <2>3, MaxIs
    <3>2. ASSUME NEW y \in s, y # Max(s) PROVE y \in 1..k
      <4> DEFINE x == Max(s)
      <4>1. x \in 1..m /\ y \in 1..m /\ y <= x /\ y # x
        BY <3>1, <3>2
      <4> HIDE DEF x
      <4> QED
        BY <4>1
    <3> QED
      BY <2>2, <3>1, <3>2
  <2>4. g \in [SUBSET (1..m) -> A]
    <3> SUFFICES ASSUME NEW s \in SUBSET (1..m), s # {}
                 PROVE  G[<<f[s \ {Max(s)}], Max(s)>>] \in A
      OBVIOUS
    <3>1. f[s \ {Max(s)}] \in A /\ Max(s) \in 1..n
      BY <2>3
    <3> QED
      BY <3>1
  <2>5. \A s \in SUBSET (1..m) :
          g[s] = IF s = {} THEN base ELSE G[<<f[s \ {Max(s)}], Max(s)>>]
    OBVIOUS
  <2> HIDE DEF m, g
  <2>6. ASSUME NEW s \in SUBSET (1..k) PROVE g[s] = f[s]
    <3>1. s \in SUBSET (1..m)
      BY <2>2
    <3> QED
      BY <2>1, <2>5, <3>1 DEF Accumulates
  <2>7. Accumulates(g, G, base, m)
    <3> SUFFICES ASSUME NEW s \in SUBSET (1..m), s # {}
                 PROVE  g[s] = G[<<g[s \ {Max(s)}], Max(s)>>]
      BY <2>5 DEF Accumulates
    <3>1. g[s \ {Max(s)}] = f[s \ {Max(s)}]
      BY <2>3, <2>6
    <3> QED
      BY <2>5, <3>1
  <2> QED
    BY <2>4, <2>7 DEF m, CanAccumulate
<1> HIDE DEF T
<1>3. n \in T
  BY <1>1, <1>2, AllNumbers
<1> QED
  BY <1>3 DEF T

-----------------------------------------------------------------------------
(* Sorting                                                                 *)

\* p arranges the numbers up to n so that none is after one that R puts after it.
Arranges(p, R, n) ==
  /\ p \in Bijection(1..n, 1..n)
  /\ \A i, j \in 1..n : i < j => <<p[j], p[i]>> \notin R

LEMMA BijectionIs ==
  ASSUME NEW p, NEW n
  PROVE  p \in Bijection(1..n, 1..n) <=>
           /\ p \in [1..n -> 1..n]
           /\ \A i, j \in 1..n : p[i] = p[j] => i = j
           /\ \A x \in 1..n : \E i \in 1..n : p[i] = x
BY DEF Bijection, Injection, Surjection, IsInjective

LEMMA CanArrange ==
  ASSUME NEW n \in Nat, NEW R,
         \A x, y \in 1..n : <<x, y>> \in R => <<y, x>> \notin R,
         \A x, y, z \in 1..n : <<x, y>> \in R /\ <<y, z>> \in R => <<x, z>> \in R
  PROVE  \E p : Arranges(p, R, n)
<1> DEFINE T == {k \in Nat : k <= n => \E p : Arranges(p, R, k)}
<1>1. 0 \in T
  <2> DEFINE p == [i \in 1..0 |-> i]
  <2>1. p \in Bijection(1..0, 1..0)
    <3>1. 1..0 = {}
      OBVIOUS
    <3>2. p \in [{} -> {}]
      BY <3>1
    <3> HIDE DEF p
    <3> QED
      BY <3>1, <3>2, BijectionIs
  <2>2. Arranges(p, R, 0)
    BY <2>1 DEF Arranges
  <2> QED
    BY <2>2
<1>2. ASSUME NEW k \in Nat, k \in T, k + 1 <= n PROVE \E p : Arranges(p, R, k + 1)
  <2> DEFINE m == k + 1
  <2>1. PICK p : Arranges(p, R, k)
    BY <1>2
  <2>2. /\ p \in [1..k -> 1..k]
        /\ \A i, j \in 1..k : p[i] = p[j] => i = j
        /\ \A x \in 1..k : \E i \in 1..k : p[i] = x
        /\ \A i, j \in 1..k : i < j => <<p[j], p[i]>> \notin R
    BY <2>1, BijectionIs DEF Arranges
  <2>3. m \in Nat /\ m \in 1..n /\ 1..k \subseteq 1..n
    BY <1>2
  <2> DEFINE S == {i \in 1..m : i = m \/ <<m, p[i]>> \in R}
  <2>4. PICK c \in S : \A i \in S : c <= i
    <3>1. m \in S /\ S \subseteq Nat
      BY <2>3
    <3> HIDE DEF S
    <3> QED
      BY <3>1, LeastNumber
  <2>5. /\ c \in 1..m
        /\ c # m => <<m, p[c]>> \in R
        /\ \A i \in 1..k : i < c => <<m, p[i]>> \notin R
    BY <2>3, <2>4
  <2> HIDE DEF S
  <2> DEFINE q == [i \in 1..m |-> IF i < c THEN p[i] ELSE IF i = c THEN m ELSE p[i - 1]]
  <2>6. q \in [1..m -> 1..m]
    <3> SUFFICES ASSUME NEW i \in 1..m
                 PROVE  (IF i < c THEN p[i] ELSE IF i = c THEN m ELSE p[i - 1]) \in 1..m
      OBVIOUS
    <3>1. CASE i < c
      <4>1. i \in 1..k
        BY <2>5, <3>1
      <4>2. p[i] \in 1..k
        BY <2>2, <4>1
      <4> QED
        BY <3>1, <4>2
    <3>2. CASE i = c
      BY <2>3, <3>2
    <3>3. CASE c < i
      <4>1. i - 1 \in 1..k
        BY <2>5, <3>3
      <4>2. p[i - 1] \in 1..k
        BY <2>2, <4>1
      <4> QED
        BY <2>5, <3>3, <4>2
    <3> QED
      BY <2>5, <3>1, <3>2, <3>3
  <2>7. \A i, j \in 1..m : q[i] = q[j] => i = j
    <3>1. ASSUME NEW i \in 1..m
          PROVE  /\ i < c => i \in 1..k /\ q[i] = p[i] /\ q[i] \in 1..k
                 /\ i = c => q[i] = m
                 /\ c < i => i - 1 \in 1..k /\ q[i] = p[i - 1] /\ q[i] \in 1..k
      <4>1. CASE i < c
        <5>1. i \in 1..k
          BY <2>5, <4>1
        <5>2. q[i] = p[i]
          BY <4>1
        <5>3. p[i] \in 1..k
          BY <2>2, <5>1
        <5> QED
          BY <2>5, <4>1, <5>1, <5>2, <5>3
      <4>2. CASE i = c
        BY <2>5, <4>2
      <4>3. CASE c < i
        <5>1. i - 1 \in 1..k
          BY <2>5, <4>3
        <5>2. q[i] = p[i - 1]
          BY <2>5, <4>3
        <5>3. p[i - 1] \in 1..k
          BY <2>2, <5>1
        <5> QED
          BY <2>5, <4>3, <5>1, <5>2, <5>3
      <4> QED
        BY <2>5, <4>1, <4>2, <4>3
    <3>2. m \notin 1..k
      OBVIOUS
    <3> HIDE DEF q
    <3> SUFFICES ASSUME NEW i \in 1..m, NEW j \in 1..m, q[i] = q[j], i < j PROVE FALSE
      OBVIOUS
    <3>3. CASE j < c
      <4>1. i < c
        BY <2>5, <3>3
      <4>2. i \in 1..k /\ j \in 1..k /\ p[i] = p[j]
        BY <3>1, <3>3, <4>1
      <4> QED
        BY <2>2, <4>2
    <3>4. CASE j = c
      BY <2>5, <3>1, <3>2, <3>4
    <3>5. CASE c < j /\ i = c
      BY <2>5, <3>1, <3>2, <3>5
    <3>6. CASE c < j /\ i < c
      <4>1. i \in 1..k /\ j - 1 \in 1..k /\ p[i] = p[j - 1]
        BY <3>1, <3>6
      <4>2. i = j - 1
        BY <2>2, <4>1
      <4> QED
        BY <2>5, <3>6, <4>2
    <3>7. CASE c < i
      <4>1. c < j
        BY <2>5, <3>7
      <4>2. i - 1 \in 1..k /\ j - 1 \in 1..k /\ p[i - 1] = p[j - 1]
        BY <3>1, <3>7, <4>1
      <4>3. i - 1 = j - 1
        BY <2>2, <4>2
      <4> QED
        BY <4>3
    <3> QED
      BY <2>5, <3>3, <3>4, <3>5, <3>6, <3>7
  <2>8. \A x \in 1..m : \E i \in 1..m : q[i] = x
    <3> SUFFICES ASSUME NEW x \in 1..m PROVE \E i \in 1..m : q[i] = x
      OBVIOUS
    <3>1. CASE x = m
      <4>1. q[c] = m
        BY <2>5
      <4> QED
        BY <2>5, <3>1, <4>1
    <3>2. CASE x # m
      <4>1. PICK i \in 1..k : p[i] = x
        BY <2>2, <3>2
      <4>2. CASE i < c
        <5>1. q[i] = x /\ i \in 1..m
          BY <4>1, <4>2
        <5> QED
          BY <5>1
      <4>3. CASE ~(i < c)
        <5>1. q[i + 1] = x /\ i + 1 \in 1..m
          BY <2>5, <4>1, <4>3
        <5> QED
          BY <5>1
      <4> QED
        BY <4>2, <4>3
    <3> QED
      BY <3>1, <3>2
  <2>9. ASSUME NEW i \in 1..m, NEW j \in 1..m, i < j PROVE <<q[j], q[i]>> \notin R
    <3>1. CASE j < c
      <4>1. q[i] = p[i] /\ q[j] = p[j] /\ i \in 1..k /\ j \in 1..k
        BY <2>5, <2>9, <3>1
      <4> QED
        BY <2>2, <2>9, <4>1
    <3>2. CASE j = c
      <4>1. q[i] = p[i] /\ q[j] = m /\ i \in 1..k
        BY <2>5, <2>9, <3>2
      <4> QED
        BY <2>5, <2>9, <3>2, <4>1
    <3>3. CASE c < j /\ i < c
      <4>1. q[i] = p[i] /\ q[j] = p[j - 1] /\ i \in 1..k /\ j - 1 \in 1..k /\ i < j - 1
        BY <2>5, <2>9, <3>3
      <4>2. <<p[j - 1], p[i]>> \notin R
        BY <2>2, <4>1
      <4> QED
        BY <4>1, <4>2
    <3>4. CASE c < i
      <4>1. /\ q[i] = p[i - 1] /\ q[j] = p[j - 1] /\ i - 1 \in 1..k /\ j - 1 \in 1..k
            /\ i - 1 < j - 1
        BY <2>5, <2>9, <3>4
      <4>2. <<p[j - 1], p[i - 1]>> \notin R
        BY <2>2, <4>1
      <4> QED
        BY <4>1, <4>2
    <3>5. CASE c = i
      <4>1. q[i] = m /\ q[j] = p[j - 1] /\ j - 1 \in 1..k /\ c \in 1..k /\ c <= j - 1
        BY <2>5, <2>9, <3>5
      <4>2. <<m, p[c]>> \in R
        BY <2>5, <4>1
      <4>3. p[c] \in 1..n /\ p[j - 1] \in 1..n /\ m \in 1..n
        BY <2>2, <2>3, <4>1
      <4>4. CASE c = j - 1
        BY <4>1, <4>2, <4>3, <4>4
      <4>5. CASE c < j - 1
        <5>1. <<p[j - 1], p[c]>> \notin R
          BY <2>2, <4>1, <4>5
        <5> QED
          BY <4>1, <4>2, <4>3, <5>1
      <4> QED
        BY <2>5, <4>1, <4>4, <4>5
    <3> QED
      BY <2>5, <2>9, <3>1, <3>2, <3>3, <3>4, <3>5
  <2> HIDE DEF q, m
  <2>10. q \in Bijection(1..m, 1..m)
    BY <2>6, <2>7, <2>8, BijectionIs
  <2>11. Arranges(q, R, m)
    BY <2>9, <2>10 DEF Arranges
  <2> QED
    BY <2>11 DEF m
<1>3. ASSUME NEW k \in Nat, k \in T PROVE k + 1 \in T
  <2>1. k + 1 \in Nat
    OBVIOUS
  <2> QED
    BY <1>2, <1>3, <2>1
<1> HIDE DEF T
<1>4. n \in T
  BY <1>1, <1>3, AllNumbers
<1> QED
  BY <1>4 DEF T

-----------------------------------------------------------------------------
(* Lists, element by element                                               *)

\* What is between two places.
LEMMA MiddleIs ==
  ASSUME NEW S, NEW s \in Seq(S), NEW a \in Nat, NEW b \in Nat, a <= b, b <= Len(s)
  PROVE  /\ SubSeq(s, a + 1, b) \in Seq(S) /\ Len(SubSeq(s, a + 1, b)) = b - a
         /\ \A i \in 1..(b - a) : SubSeq(s, a + 1, b)[i] = s[a + i]
<1>1. Len(s) \in Nat /\ s \in [1..Len(s) -> S]
  OBVIOUS
<1>2. SubSeq(s, a + 1, b) = [i \in 1..(b - a) |-> s[a + i]]
  BY <1>1
<1>3. \A i \in 1..(b - a) : a + i \in 1..Len(s) /\ s[a + i] \in S
  BY <1>1
<1>4. b - a \in Nat
  OBVIOUS
<1> QED
  BY <1>2, <1>3, <1>4

\* Lists of one length with the same elements are one.
LEMMA SameList ==
  ASSUME NEW S, NEW a \in Seq(S), NEW b \in Seq(S), Len(a) = Len(b),
         \A i \in 1..Len(a) : a[i] = b[i]
  PROVE  a = b
OBVIOUS

\* A function on the first n numbers is a list.
LEMMA ListIs ==
  ASSUME NEW S, NEW n \in Nat, NEW f, f = [i \in 1..n |-> f[i]], \A i \in 1..n : f[i] \in S
  PROVE  f \in Seq(S) /\ Len(f) = n
<1>1. f \in [1..n -> S]
  OBVIOUS
<1> QED
  BY <1>1

\* What is joined, element by element.
LEMMA Joined ==
  ASSUME NEW S, NEW x \in Seq(S), NEW y \in Seq(S)
  PROVE  /\ x \o y \in Seq(S) /\ Len(y) \in Nat /\ Len(x) \in Nat
         /\ Len(x \o y) = Len(x) + Len(y)
         /\ \A i \in 1..Len(y) : (x \o y)[Len(x) + i] = y[i]
OBVIOUS

\* What is joined begins with the first.
LEMMA JoinedFirst ==
  ASSUME NEW S, NEW x \in Seq(S), NEW y \in Seq(S)
  PROVE  \A i \in 1..Len(x) : (x \o y)[i] = x[i]
OBVIOUS

\* What comes after the same beginning.
LEMMA SameAfter ==
  ASSUME NEW S, NEW x \in Seq(S), NEW e \in Seq(S), NEW f \in Seq(S), x \o e = x \o f
  PROVE  e = f
<1>1. Len(e) = Len(f)
  <2>1. Len(x) + Len(e) = Len(x) + Len(f) /\ Len(x) \in Nat /\ Len(e) \in Nat /\ Len(f) \in Nat
    BY Joined
  <2> QED
    BY ONLY <2>1
<1>2. ASSUME NEW i \in 1..Len(e) PROVE e[i] = f[i]
  <2>1. (x \o e)[Len(x) + i] = e[i]
    BY Joined
  <2>2. (x \o f)[Len(x) + i] = f[i]
    BY <1>1, Joined
  <2> QED
    BY <2>1, <2>2
<1> QED
  BY <1>1, <1>2, SameList

\* The least of a set, when it is known.
LEMMA MinIs ==
  ASSUME NEW s, s \subseteq Nat, NEW k \in s, \A y \in s : k <= y
  PROVE  Min(s) = k
<1>1. k \in s /\ \A y \in s : k =< y
  OBVIOUS
<1>2. Min(s) \in s /\ \A y \in s : Min(s) =< y
  BY <1>1, Zenon DEF Min
<1>3. Min(s) \in Nat /\ k \in Nat /\ Min(s) <= k /\ k <= Min(s)
  BY <1>1, <1>2
<1> QED
  BY ONLY <1>3
=============================================================================
