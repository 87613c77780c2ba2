--------------------------- MODULE BuildPartsProofs ---------------------------
(***************************************************************************)
(* Theorems about BuildParts for any inputs, of any number and size.       *)
(***************************************************************************)
EXTENDS BuildParts, BundleFormatProofs

-----------------------------------------------------------------------------
(* What the parts give                                                     *)

\* What the executable has is what was embedded in it, which may be nothing.
LEMMA EmbeddedIsBlob ==
  ASSUME NEW blob \in Digits
  PROVE  EmbeddedBlob(BundleObject(blob)) = blob
<1>1. blob \in Seq(Digit) /\ Len(blob) \in Nat
  BY DEF Digits
<1>2. CASE blob = <<>>
  <2>1. BundleObject(blob).data = <<0>> /\ BundleObject(blob).len = 0
    BY <1>2 DEF BundleObject
  <2>2. SubSeq(<<0>>, 1, 0) = <<>>
    OBVIOUS
  <2> QED
    BY <1>2, <2>1, <2>2 DEF EmbeddedBlob
<1>3. CASE blob # <<>>
  <2>1. BundleObject(blob).data = blob /\ BundleObject(blob).len = Len(blob)
    BY <1>3 DEF BundleObject
  <2>2. SubSeq(blob, 1, Len(blob)) = blob
    BY <1>1
  <2> QED
    BY <2>1, <2>2 DEF EmbeddedBlob
<1> QED
  BY <1>2, <1>3

HashedAll(bundles) == [k \in DOMAIN bundles |-> Hashed(bundles[k])]

\* What is packed, embedded and read again.
LEMMA PackedIsReadBack ==
  ASSUME NEW bundles, HashedAll(bundles) \in BundleList
  PROVE  Parse(EmbeddedBlob(BundleObject(Pack(bundles)))) =
           IF \A i \in DOMAIN bundles : AllSafe(bundles[i].files)
             THEN <<HashedAll(bundles)>> ELSE None
<1> DEFINE bs == HashedAll(bundles)
<1>1. Pack(bundles) = PutBundles(bs)
  BY Zenon DEF Pack, HashedAll
<1>2. DOMAIN bs = DOMAIN bundles
  BY DEF HashedAll
<1>3. ASSUME NEW i \in DOMAIN bundles
      PROVE  SafeBundle(bs[i]) <=> AllSafe(bundles[i].files)
  <2>1. bs[i].files = bundles[i].files
    BY DEF HashedAll, Hashed
  <2> HIDE DEF bs
  <2> QED
    BY <2>1, Zenon DEF SafeBundle, SafeFile, AllSafe
<1> HIDE DEF bs
<1>4. bs \in BundleList
  BY DEF bs
<1>5. PutBundles(bs) \in Digits
  BY <1>4, PutBundlesIs
<1>6. EmbeddedBlob(BundleObject(PutBundles(bs))) = PutBundles(bs)
  BY <1>5, EmbeddedIsBlob
<1>7. Parse(PutBundles(bs)) = IF \A i \in DOMAIN bs : SafeBundle(bs[i]) THEN <<bs>> ELSE None
  BY <1>4, ParseReadsPacked
<1>8. (\A i \in DOMAIN bs : SafeBundle(bs[i]))
        <=> \A i \in DOMAIN bundles : AllSafe(bundles[i].files)
  BY <1>2, <1>3
<1> QED
  BY <1>1, <1>6, <1>7, <1>8 DEF bs

\* What is embedded and can be read.
LEMMA ReadIsPacked ==
  ASSUME NEW blob \in Digits, NEW read, read = Parse(EmbeddedBlob(BundleObject(blob)))
  PROVE  IF blob = <<>> THEN read = <<<<>>>>
         ELSE read # None => PutBundles(read[1]) = blob
<1>1. read = Parse(blob)
  BY EmbeddedIsBlob
<1>2. CASE blob = <<>>
  BY <1>1, <1>2 DEF Parse
<1>3. CASE blob # <<>>
  <2> SUFFICES ASSUME read # None PROVE PutBundles(read[1]) = blob
    BY <1>3
  <2>1. PICK bundles \in BundleList : Parse(blob) = <<bundles>> /\ blob = PutBundles(bundles)
    BY <1>1, <1>3, ParseReadsOnlyPacked
  <2>2. read[1] = bundles
    BY <1>1, <2>1
  <2> QED
    BY <2>1, <2>2
<1> QED
  BY <1>2, <1>3

\* What `print` answers to x, as PrintAnswers has it.
Answered(x, answer) ==
  /\ answer # <<>>
  /\ IsFinite(x) => IsFinite(answer[1])
  /\ ~IsFinite(x) \/ Short(x[2]) => answer[1] = x

\* What `print` returns.
LEMMA PrintedIs ==
  ASSUME NEW x \in F64, NEW answer \in Printed(x)
  PROVE  Answered(x, answer)
<1>1. ASSUME PythonDecode(Encode(x)) = <<x>> PROVE answer \in Decode(PythonEncode(x))
  <2> DEFINE there == PythonDecode(Encode(x))
  <2>1. there # <<>> /\ there[1] = x
    BY <1>1
  <2>2. Printed(x) = IF there = <<>> THEN {<<>>} ELSE Decode(PythonEncode(there[1]))
    BY Zenon DEF Printed
  <2> HIDE DEF there
  <2> QED
    BY <2>1, <2>2
<1>2. CASE x \in {"finite"} \X Int
  <2>1. IsFinite(x) /\ x[2] \in Int /\ x = <<"finite", x[2]>>
    BY <1>2 DEF IsFinite
  <2>2. Encode(x) = <<"number", x>> /\ PythonEncode(x) = <<"number", x>>
    BY <2>1 DEF Encode, Json, PythonEncode, PythonDump
  <2>3. PythonDecode(Encode(x)) = <<x>>
    BY <2>2 DEF PythonDecode
  <2>4. answer \in {<<<<"finite", n>>>> : n \in BestEffort(x[2])}
    <3>1. Decode(<<"number", x>>) = {<<<<"finite", n>>>> : n \in BestEffort(x[2])}
      BY DEF Decode
    <3> QED
      BY <1>1, <2>2, <2>3, <3>1
  <2>5. PICK n \in BestEffort(x[2]) : answer = <<<<"finite", n>>>>
    BY <2>4
  <2>6. Short(x[2]) => n = x[2]
    BY <2>5 DEF BestEffort
  <2> QED
    BY <2>1, <2>5, <2>6 DEF Answered, IsFinite
<1>3. /\ Infinite # MinusInfinite /\ Infinite # NotANumber /\ MinusInfinite # NotANumber
      /\ ~IsFinite(Infinite) /\ ~IsFinite(MinusInfinite) /\ ~IsFinite(NotANumber)
  BY DEF Infinite, MinusInfinite, NotANumber, IsFinite
<1>4. ASSUME NEW there, NEW back, ~IsFinite(x),
             RustSpelling(x) = there, PythonSpelling(x) = back,
             Read(there) = x, Read(back) = x
      PROVE  Answered(x, answer)
  <2>1. Encode(x) = <<"string", there>> /\ PythonEncode(x) = <<"string", back>>
    BY <1>4 DEF Encode, PythonEncode
  <2>2. PythonDecode(Encode(x)) = <<x>>
    BY <1>4, <2>1 DEF PythonDecode
  <2>3. Decode(PythonEncode(x)) = {<<x>>}
    BY <1>4, <2>1 DEF Decode
  <2>4. answer = <<x>>
    BY <1>1, <2>2, <2>3
  <2> QED
    BY <1>4, <2>4 DEF Answered
<1>5. CASE x = Infinite
  <2>1. RustSpelling(x) = "inf" /\ PythonSpelling(x) = "inf"
    BY <1>3, <1>5 DEF RustSpelling, PythonSpelling
  <2>2. Read("inf") = x
    BY <1>5 DEF Read
  <2> QED
    BY <1>3, <1>4, <1>5, <2>1, <2>2
<1>6. CASE x = MinusInfinite
  <2>1. RustSpelling(x) = "-inf" /\ PythonSpelling(x) = "-inf"
    BY <1>3, <1>6 DEF RustSpelling, PythonSpelling
  <2>2. Read("-inf") = x
    BY <1>6 DEF Read
  <2> QED
    BY <1>3, <1>4, <1>6, <2>1, <2>2
<1>7. CASE x = NotANumber
  <2>1. RustSpelling(x) = "NaN" /\ PythonSpelling(x) = "nan"
    BY <1>3, <1>7 DEF RustSpelling, PythonSpelling
  <2>2. Read("NaN") = x /\ Read("nan") = x
    BY <1>7 DEF Read
  <2> QED
    BY <1>3, <1>4, <1>7, <2>1, <2>2
<1> QED
  BY <1>2, <1>5, <1>6, <1>7 DEF F64

\* The exit status, as StatusIsTheAnswer has it.
StatusOf(x) ==
  LET whole == IF IsFinite(x) THEN Truncated(x[2]) ELSE 0
      huge == x = Infinite \/ whole > IntMax
      tiny == x = MinusInfinite \/ whole < IntMin
  IN  CASE huge -> StatusMax [] tiny -> 0 [] OTHER -> whole % (StatusMax + 1)

LEMMA ExitStatusIs ==
  ASSUME NEW x \in F64
  PROVE  ExitStatus(x) = StatusOf(x)
<1> DEFINE m == StatusMax + 1
<1>1. StatusMax \in Nat /\ IntMax \in Nat /\ m \in Nat \ {0}
  BY BothAllOnes
<1>2. IntMax % m = StatusMax
  <2> DEFINE a == IntMax + 1
             q == a \div m
  <2>1. a \in Nat /\ a % m = 0 /\ a = IntMax + 1
    BY BothAllOnes, <1>1
  <2> HIDE DEF a, m
  <2>2. a = (a % m) + m * q
    BY <1>1, <2>1, DivisionIs
  <2>3. q \in Nat
    BY <1>1, <2>1
  <2> HIDE DEF q
  <2>4. a = m * q
    BY <2>1, <2>2, <2>3, <1>1
  <2>5. q # 0
    BY <1>1, <2>1, <2>4
  <2> DEFINE p == q - 1
  <2>6. p \in Nat /\ q = p + 1
    BY <2>3, <2>5
  <2> HIDE DEF p
  <2>7. m * q = m * p + m
    BY <1>1, <2>6
  <2>8. IntMax = StatusMax + m * p /\ StatusMax \in 0..(m - 1)
    <3>1. m * p \in Nat
      BY <1>1, <2>6
    <3> DEFINE mp == m * p
    <3> HIDE DEF mp
    <3>2. mp \in Nat /\ a = mp + m
      BY <2>4, <2>7, <3>1 DEF mp
    <3>3. m = StatusMax + 1
      BY DEF m
    <3> QED
      BY <1>1, <2>1, <3>2, <3>3 DEF mp
  <2> QED
    BY <1>1, <2>6, <2>8, DivisionUnique
<1>3. IntMin % m = 0
  <2> DEFINE a == IntMax + 1
  <2>1. a \in Nat /\ a % m = 0 /\ IntMin = 0 - a
    BY BothAllOnes, <1>1 DEF IntMin
  <2> HIDE DEF a, m
  <2>2. (0 - a) % m = 0
    <3>1. a = 0 + m * (a \div m)
      BY <1>1, <2>1, DivisionIs
    <3>2. a \div m \in Nat
      BY <1>1, <2>1
    <3> DEFINE q == 0 - (a \div m)
    <3>3. q \in Int /\ 0 - a = m * q
      BY <1>1, <2>1, <3>1, <3>2
    <3> HIDE DEF q
    <3>4. (m * q) % m = 0
      BY <1>1, <3>3
    <3> QED
      BY <3>3, <3>4
  <2> QED
    BY <2>1, <2>2
<1>4. IntMin \in Int /\ IntMin < 0 /\ IntMin <= IntMax
  BY <1>1 DEF IntMin
<1> DEFINE whole == IF IsFinite(x) THEN Truncated(x[2]) ELSE 0
           huge == x = Infinite \/ whole > IntMax
           tiny == x = MinusInfinite \/ whole < IntMin
<1>5. StatusOf(x) = CASE huge -> StatusMax [] tiny -> 0 [] OTHER -> whole % m
  BY Zenon DEF StatusOf
<1>6. /\ Infinite # MinusInfinite /\ Infinite # NotANumber /\ MinusInfinite # NotANumber
       /\ ~IsFinite(Infinite) /\ ~IsFinite(MinusInfinite) /\ ~IsFinite(NotANumber)
  BY DEF Infinite, MinusInfinite, NotANumber, IsFinite
<1>7. CASE x \in {"finite"} \X Int
  <2>1. IsFinite(x) /\ x[2] \in Int /\ x # Infinite /\ x # MinusInfinite /\ x # NotANumber
    BY <1>7 DEF IsFinite, Infinite, MinusInfinite, NotANumber
  <2> DEFINE n == Truncated(x[2])
  <2>2. n \in Int
    BY <2>1 DEF Truncated
  <2> HIDE DEF n
  <2>3. SaturatedToInt(x) = IF n > IntMax THEN IntMax ELSE IF n < IntMin THEN IntMin ELSE n
    BY <2>1 DEF SaturatedToInt, n
  <2>4. StatusOf(x) = IF n > IntMax THEN StatusMax ELSE IF n < IntMin THEN 0 ELSE n % m
    <3>1. whole = n /\ (huge <=> n > IntMax) /\ (tiny <=> n < IntMin)
      BY <2>1 DEF n
    <3>2. ~(n > IntMax /\ n < IntMin)
      BY <1>1, <1>4, <2>2
    <3> HIDE DEF whole, huge, tiny, m
    <3> QED
      BY <1>5, <3>1, <3>2
  <2> HIDE DEF m
  <2>5. ExitStatus(x) = SaturatedToInt(x) % m
    BY DEF ExitStatus, m
  <2> QED
    BY <1>2, <1>3, <2>3, <2>4, <2>5
<1>8. CASE x = Infinite
  <2>1. SaturatedToInt(x) = IntMax
    BY <1>8, <1>6 DEF SaturatedToInt
  <2>2. huge /\ ~tiny
    BY <1>1, <1>4, <1>8, <1>6
  <2> HIDE DEF huge, tiny, whole
  <2>3. StatusOf(x) = StatusMax
    BY <1>5, <2>2
  <2> QED
    BY <1>2, <2>1, <2>3 DEF ExitStatus
<1>9. CASE x = MinusInfinite
  <2>1. SaturatedToInt(x) = IntMin
    BY <1>9, <1>6 DEF SaturatedToInt
  <2>2. ~huge /\ tiny
    BY <1>1, <1>4, <1>9, <1>6
  <2> HIDE DEF huge, tiny, whole
  <2>3. StatusOf(x) = 0
    BY <1>5, <2>2
  <2> QED
    BY <1>3, <2>1, <2>3 DEF ExitStatus
<1>10. CASE x = NotANumber
  <2>1. SaturatedToInt(x) = 0
    BY <1>10, <1>6 DEF SaturatedToInt
  <2>2. ~huge /\ ~tiny /\ whole = 0
    BY <1>1, <1>4, <1>10, <1>6
  <2> HIDE DEF huge, tiny, whole
  <2>3. StatusOf(x) = 0 % m
    BY <1>5, <2>2
  <2> QED
    BY <2>1, <2>3 DEF ExitStatus
<1> QED
  BY <1>7, <1>8, <1>9, <1>10 DEF F64

-----------------------------------------------------------------------------
(* link_units                                                              *)

UnitOf(b, flavor) == [of |-> b.owner, deps |-> DepArgs(b.deps, Family(flavor))]
AddUnit(units, b, flavor) ==
  IF \E i \in DOMAIN units : units[i].of = b.owner THEN units
  ELSE Append(units, UnitOf(b, flavor))

\* h is what there is after each built-in.
GathersUnits(h, manifest, runtimeDeps, flavor) ==
  /\ h[0] = <<[of |-> Runtime, deps |-> runtimeDeps]>>
  /\ \A i \in 1..Len(manifest) : h[i] = AddUnit(h[i - 1], manifest[i], flavor)
  /\ LinkUnitsOf(manifest, runtimeDeps, flavor) = h[Len(manifest)]

LEMMA UnitsGather ==
  ASSUME NEW manifest, manifest \in Seq(Range(manifest)), NEW runtimeDeps, NEW flavor
  PROVE  \E h : GathersUnits(h, manifest, runtimeDeps, flavor)
<1> DEFINE n == Len(manifest)
           first == [of |-> Runtime, deps |-> runtimeDeps]
           base == <<first>>
           U == {first} \cup {UnitOf(b, flavor) : b \in Range(manifest)}
           A == Seq(U)
           G == [q \in A \X (1..n) |-> AddUnit(q[1], manifest[q[2]], flavor)]
           f == CHOOSE g : g = [s \in SUBSET (DOMAIN manifest) |->
                  IF s = {} THEN base ELSE AddUnit(g[s \ {Max(s)}], manifest[Max(s)], flavor)]
<1>1. LinkUnitsOf(manifest, runtimeDeps, flavor) = f[DOMAIN manifest]
  BY Zenon DEF LinkUnitsOf, FoldLeft, MapThenFoldSet, AddUnit, UnitOf
<1>2. n \in Nat /\ DOMAIN manifest = 1..n /\ \A i \in 1..n : manifest[i] \in Range(manifest)
  OBVIOUS
<1>3. base \in A
  OBVIOUS
<1>4. ASSUME NEW units \in A, NEW i \in 1..n PROVE AddUnit(units, manifest[i], flavor) \in A
  <2>1. UnitOf(manifest[i], flavor) \in U
    BY <1>2
  <2> HIDE DEF U
  <2> QED
    BY <2>1 DEF AddUnit
<1> HIDE DEF A, base, n
<1>5. G \in [A \X (1..n) -> A]
  BY <1>4
<1>6. \A units \in A, i \in 1..n : G[<<units, i>>] = AddUnit(units, manifest[i], flavor)
  OBVIOUS
<1> HIDE DEF G
<1>7. PICK g \in [SUBSET (1..n) -> A] : Accumulates(g, G, base, n)
  BY <1>2, <1>3, <1>5, AccumulatesExists DEF CanAccumulate
<1>8. g = [s \in SUBSET (1..n) |->
             IF s = {} THEN base ELSE AddUnit(g[s \ {Max(s)}], manifest[Max(s)], flavor)]
  <2>1. ASSUME NEW s \in SUBSET (1..n), s # {}
        PROVE  g[s] = AddUnit(g[s \ {Max(s)}], manifest[Max(s)], flavor)
    <3>1. Max(s) \in 1..n
      BY <1>2, <2>1, MaxIs
    <3>2. g[s \ {Max(s)}] \in A
      OBVIOUS
    <3>3. g[s] = G[<<g[s \ {Max(s)}], Max(s)>>]
      BY <1>7, <2>1 DEF Accumulates
    <3> QED
      BY <1>6, <3>1, <3>2, <3>3
  <2>2. g[{}] = base
    BY <1>7 DEF Accumulates
  <2> QED
    BY <2>1, <2>2
<1>9. f = [s \in SUBSET (1..n) |->
             IF s = {} THEN base ELSE AddUnit(f[s \ {Max(s)}], manifest[Max(s)], flavor)]
  BY <1>2, <1>8, Zenon
<1> HIDE DEF f
<1> DEFINE h == [i \in 0..n |-> f[1..i]]
<1>10. h[0] = base
  <2>1. 1..0 = {} /\ 0 \in 0..n /\ {} \in SUBSET (1..n)
    BY <1>2
  <2> QED
    BY <1>9, <2>1
<1>11. ASSUME NEW i \in 1..n PROVE h[i] = AddUnit(h[i - 1], manifest[i], flavor)
  <2>1. i \in Nat \ {0} /\ 1..i \in SUBSET (1..n) /\ i \in 0..n /\ i - 1 \in 0..n
    BY <1>2
  <2>2. 1..i # {} /\ Max(1..i) = i /\ (1..i) \ {i} = 1..(i - 1)
    BY <2>1, MaxOfFirst
  <2>3. f[1..i] = AddUnit(f[1..(i - 1)], manifest[i], flavor)
    BY <1>9, <2>1, <2>2
  <2> QED
    BY <2>1, <2>3
<1>12. LinkUnitsOf(manifest, runtimeDeps, flavor) = h[n]
  <2>1. n \in 0..n
    BY <1>2
  <2> QED
    BY <1>1, <1>2, <2>1
<1> HIDE DEF h
<1>13. GathersUnits(h, manifest, runtimeDeps, flavor)
  BY <1>10, <1>11, <1>12 DEF GathersUnits, base, n
<1> QED
  BY <1>13

\* What the units of the first k built-ins are.
UnitsOf(units, manifest, runtimeDeps, flavor, k) ==
  /\ units \in Seq(Range(units)) /\ units # <<>>
  /\ units[1] = [of |-> Runtime, deps |-> runtimeDeps]
  /\ \A i, j \in 1..Len(units) : units[i].of = units[j].of => i = j
  /\ \A i \in 2..Len(units) : \E b \in Range(manifest) : units[i] = UnitOf(b, flavor)
  /\ \A m \in 1..k : \E i \in 1..Len(units) : units[i].of = manifest[m].owner

LEMMA UnitsAre ==
  ASSUME NEW manifest, manifest \in Seq(Range(manifest)), NEW runtimeDeps, NEW flavor
  PROVE  UnitsOf(LinkUnitsOf(manifest, runtimeDeps, flavor), manifest, runtimeDeps, flavor,
                 Len(manifest))
<1> DEFINE n == Len(manifest)
           IsOf(units, k) == UnitsOf(units, manifest, runtimeDeps, flavor, k)
<1>1. n \in Nat /\ \A i \in 1..n : manifest[i] \in Range(manifest)
  OBVIOUS
<1>2. PICK h : GathersUnits(h, manifest, runtimeDeps, flavor)
  BY UnitsGather
<1> DEFINE T == {k \in Nat : k <= n => IsOf(h[k], k)}
<1>3. 0 \in T
  <2> DEFINE first == [of |-> Runtime, deps |-> runtimeDeps]
  <2>1. h[0] = <<first>>
    BY <1>2 DEF GathersUnits
  <2> HIDE DEF first
  <2>2. Len(h[0]) = 1 /\ h[0][1] = first /\ h[0] # <<>> /\ h[0] \in Seq(Range(h[0]))
    <3>1. <<first>> \in Seq({first}) /\ Len(<<first>>) = 1 /\ <<first>>[1] = first
      OBVIOUS
    <3>2. <<first>> \in Seq(Range(<<first>>))
      BY <3>1, SeqOfRange
    <3>3. <<first>> # <<>>
      OBVIOUS
    <3> QED
      BY <2>1, <3>1, <3>2, <3>3
  <2>3. IsOf(h[0], 0)
    BY <2>2 DEF UnitsOf, first
  <2> QED
    BY <2>3
<1>4. ASSUME NEW k \in Nat, k \in T PROVE k + 1 \in T
  <2> SUFFICES ASSUME k + 1 <= n PROVE IsOf(h[k + 1], k + 1)
    BY <1>4
  <2> DEFINE m == k + 1
             b == manifest[m]
             old == h[k]
             new == h[m]
  <2>1. m \in 1..n /\ m - 1 = k
    BY <1>1
  <2>2. IsOf(old, k)
    BY <1>1, <1>4
  <2>3. new = AddUnit(old, b, flavor)
    BY <1>2, <2>1 DEF GathersUnits
  <2>4. b \in Range(manifest)
    BY <1>1, <2>1
  <2>5. 1..m = (1..k) \cup {m}
    OBVIOUS
  <2> DEFINE l == Len(old)
             u == UnitOf(b, flavor)
  <2>6. l \in Nat \ {0} /\ DOMAIN old = 1..l /\ old \in Seq(Range(old))
    <3>1. old \in Seq(Range(old)) /\ old # <<>>
      BY <2>2 DEF UnitsOf
    <3> HIDE DEF old
    <3> QED
      BY <3>1, EmptySeq DEF l
  <2> HIDE DEF b, old, new, m, l, u
  <2>7. u.of = b.owner
    BY DEF UnitOf, u
  <2>8. CASE \E i \in 1..l : old[i].of = b.owner
    <3>1. new = old
      BY <2>3, <2>6, <2>8 DEF AddUnit
    <3>2. \A j \in 1..m : \E i \in 1..l : old[i].of = manifest[j].owner
      BY <2>2, <2>5, <2>8 DEF UnitsOf, l, b
    <3>3. IsOf(old, m)
      BY <2>2, <3>2 DEF UnitsOf, l
    <3> QED
      BY <3>1, <3>3 DEF new, m
  <2>9. CASE \A i \in 1..l : old[i].of # b.owner
    <3> DEFINE V == Range(old) \cup {u}
    <3>1. old \in Seq(V) /\ u \in V
      <4>1. Range(old) \subseteq V
        OBVIOUS
      <4> HIDE DEF V
      <4>2. old \in Seq(V)
        BY <2>6, <4>1
      <4> QED
        BY <4>2 DEF V
    <3>2. new = Append(old, u)
      BY <2>3, <2>6, <2>9 DEF AddUnit, u
    <3> HIDE DEF V
    <3>3. /\ new \in Seq(V) /\ Len(new) = l + 1 /\ new[l + 1] = u
          /\ \A i \in 1..l : new[i] = old[i]
      BY <3>1, <3>2, AppendProperties DEF l
    <3>4. new \in Seq(Range(new)) /\ new # <<>>
      BY <2>6, <3>3, SeqOfRange
    <3>5. 1 \in 1..l /\ 1..(l + 1) = (1..l) \cup {l + 1} /\ l + 1 \in 1..(l + 1)
      BY <2>6
    <3>6. new[1] = [of |-> Runtime, deps |-> runtimeDeps]
      BY <2>2, <3>3, <3>5 DEF UnitsOf
    <3>7. ASSUME NEW i \in 1..(l + 1), NEW j \in 1..(l + 1), new[i].of = new[j].of PROVE i = j
      <4>1. \A x, y \in 1..l : old[x].of = old[y].of => x = y
        BY <2>2 DEF UnitsOf, l
      <4>2. \A x \in 1..l : new[x].of # new[l + 1].of
        BY <2>7, <2>9, <3>3
      <4>3. (i \in 1..l \/ i = l + 1) /\ (j \in 1..l \/ j = l + 1)
        BY <3>5
      <4> QED
        BY <3>3, <3>7, <4>1, <4>2, <4>3
    <3>8. ASSUME NEW i \in 2..(l + 1) PROVE \E c \in Range(manifest) : new[i] = UnitOf(c, flavor)
      <4>1. i \in 2..l \/ i = l + 1
        BY <2>6
      <4>2. \A x \in 2..l : \E c \in Range(manifest) : old[x] = UnitOf(c, flavor)
        BY <2>2 DEF UnitsOf, l
      <4>3. \A x \in 2..l : x \in 1..l
        BY <2>6
      <4> QED
        BY <2>4, <3>3, <4>1, <4>2, <4>3 DEF u
    <3>9. ASSUME NEW j \in 1..m PROVE \E i \in 1..(l + 1) : new[i].of = manifest[j].owner
      <4>1. CASE j = m
        BY <2>7, <3>3, <3>5, <4>1 DEF b
      <4>2. CASE j \in 1..k
        <5>1. PICK i \in 1..l : old[i].of = manifest[j].owner
          BY <2>2, <4>2 DEF UnitsOf, l
        <5> QED
          BY <3>3, <3>5, <5>1
      <4> QED
        BY <2>5, <4>1, <4>2
    <3>10. IsOf(new, m)
      BY <3>3, <3>4, <3>6, <3>7, <3>8, <3>9 DEF UnitsOf
    <3> QED
      BY <3>10 DEF new, m
  <2> QED
    BY <2>6, <2>8, <2>9 DEF new, m
<1> HIDE DEF T
<1>5. n \in T
  BY <1>1, <1>3, <1>4, AllNumbers
<1>6. IsOf(h[n], n)
  BY <1>1, <1>5 DEF T
<1> QED
  BY <1>2, <1>6 DEF GathersUnits

-----------------------------------------------------------------------------
(* link_args                                                               *)

\* What `link_args` makes of n units: which come first, and in what follows them
\* what they need, after /link where it has to be.
ArgsOf(args, units, flavor) ==
  LET n == Len(units) IN
  /\ args \in Seq(Range(args)) /\ Len(args) > n
  /\ args[1] = <<"objects">>
  /\ \A i \in 1..n : args[i + 1] = <<"unit", units[i].of>>
  /\ \A i \in (n + 2)..Len(args) : args[i] \in {<<"out">>, <<"/link">>} \cup Range(AllDeps(units))
  /\ \A dep \in Range(AllDeps(units)) : \E i \in (n + 2)..Len(args) :
       /\ args[i] = dep
       /\ dep[1] = "option" /\ flavor = "msvc" => \E j \in 1..(i - 1) : args[j] = <<"/link">>

\* A list with another after it has what both have, that of the first before.
Joins(z, s, t, S) ==
  /\ z \in Seq(S) /\ Len(z) = Len(s) + Len(t)
  /\ Len(s) \in Nat /\ Len(t) \in Nat
  /\ \A i \in 1..Len(s) : z[i] = s[i]
  /\ \A i \in 1..Len(t) : z[Len(s) + i] = t[i]

LEMMA ConcatJoins ==
  ASSUME NEW S, NEW s, NEW t, s \in Seq(S), t \in Seq(S)
  PROVE  Joins(s \o t, s, t, S)
BY DEF Joins

\* partition: both parts, and nothing else.
LEMMA PartitionIs ==
  ASSUME NEW S, NEW deps \in Seq(S), NEW options \in BOOLEAN
  PROVE  /\ Partition(deps, options) \in Seq(S)
         /\ Range(Partition(deps, options)) = {dep \in Range(deps) : (dep[1] = "option") = options}
<1> DEFINE n == Len(deps)
           K == {i \in 1..n : (deps[i][1] = "option") = options}
           f == [i \in DOMAIN deps |-> IF (deps[i][1] = "option") = options THEN <<deps[i]>> ELSE <<>>]
<1>1. n \in Nat /\ K \in SUBSET (1..n) /\ DOMAIN deps = 1..n /\ \A i \in K : deps[i] \in S
  OBVIOUS
<1>2. Keeps(f, n, K, deps, S)
  BY <1>1 DEF Keeps
<1>3. Partition(deps, options) = FlattenSeq(f)
  BY DEF Partition
<1>4. {deps[i] : i \in K} = {dep \in Range(deps) : (dep[1] = "option") = options}
  BY <1>1 DEF Range
<1> HIDE DEF n, K, f
<1>5. Kept(FlattenSeq(f), K, deps, S)
  BY <1>2, FlattenSeqKept, ZenonT(30)
<1> QED
  BY <1>3, <1>4, <1>5 DEF Kept

\* What comes after the units.
LateArgs(flavor, deps) ==
  IF flavor = "msvc"
  THEN Partition(deps, FALSE) \o <<<<"out">>>> \o
         (IF Partition(deps, TRUE) = <<>> THEN <<>> ELSE <<<<"/link">>>> \o Partition(deps, TRUE))
  ELSE deps \o <<<<"out">>>>

\* They are what the units need, an option of the linker after /link.
LateOf(late, flavor, deps) ==
  /\ \A i \in 1..Len(late) : late[i] \in {<<"out">>, <<"/link">>} \cup Range(deps)
  /\ \A dep \in Range(deps) : \E i \in 1..Len(late) :
       /\ late[i] = dep
       /\ dep[1] = "option" /\ flavor = "msvc" => \E j \in 1..(i - 1) : late[j] = <<"/link">>

LEMMA LateArgsAre ==
  ASSUME NEW flavor, NEW S, NEW deps, deps \in Seq(S), <<"out">> \in S, <<"/link">> \in S
  PROVE  LateArgs(flavor, deps) \in Seq(S) /\ LateOf(LateArgs(flavor, deps), flavor, deps)
<1> DEFINE out == <<"out">>
           link == <<"/link">>
           late == LateArgs(flavor, deps)
<1>1. out \in S /\ link \in S
  OBVIOUS
<1> HIDE DEF out, link
<1>2. <<out>> \in Seq(S) /\ <<link>> \in Seq(S) /\ Len(<<out>>) = 1 /\ Len(<<link>>) = 1
      /\ <<out>>[1] = out /\ <<link>>[1] = link
  BY <1>1
<1>3. Len(deps) \in Nat /\ Range(deps) = {deps[i] : i \in 1..Len(deps)}
  BY DEF Range
<1>4. CASE flavor # "msvc"
  <2>1. late = deps \o <<out>>
    BY <1>4, Zenon DEF LateArgs, out
  <2> HIDE DEF late
  <2>2. /\ late \in Seq(S) /\ Len(late) = Len(deps) + 1
        /\ \A i \in 1..Len(deps) : late[i] = deps[i]
        /\ late[Len(deps) + 1] = out
    <3> DEFINE o == <<out>>
    <3>1. o \in Seq(S) /\ Len(o) = 1 /\ o[1] = out
      BY <1>2
    <3> HIDE DEF o
    <3>2. late = deps \o o
      BY <2>1 DEF o
    <3>3. Joins(late, deps, o, S)
      BY <3>1, <3>2, ConcatJoins, ZenonT(30)
    <3> QED
      BY <3>1, <3>3 DEF Joins
  <2>3. \A i \in 1..Len(late) : i \in 1..Len(deps) \/ i = Len(deps) + 1
    BY <1>3, <2>2
  <2>4. \A i \in 1..Len(deps) : i \in 1..Len(late)
    BY <1>3, <2>2
  <2>5. \A i \in 1..Len(late) : late[i] \in {out, link} \cup Range(deps)
    BY <1>3, <2>2, <2>3
  <2>6. ASSUME NEW dep \in Range(deps) PROVE \E i \in 1..Len(late) : late[i] = dep
    BY <1>3, <2>2, <2>4
  <2> QED
    BY <1>4, <2>2, <2>5, <2>6 DEF LateOf, late, out, link
<1>5. CASE flavor = "msvc"
  <2> DEFINE libraries == Partition(deps, FALSE)
             options == Partition(deps, TRUE)
             o == <<out>>
             k == <<link>>
             tail == IF options = <<>> THEN <<>> ELSE k \o options
             front == libraries \o o
  <2>1. late = front \o tail
    BY <1>5, Zenon DEF LateArgs, out, link
  <2>2. /\ libraries \in Seq(S) /\ Range(libraries) = {dep \in Range(deps) : dep[1] # "option"}
        /\ options \in Seq(S) /\ Range(options) = {dep \in Range(deps) : dep[1] = "option"}
    <3>1. /\ libraries \in Seq(S)
          /\ Range(libraries) = {dep \in Range(deps) : (dep[1] = "option") = FALSE}
      BY PartitionIs
    <3>2. /\ options \in Seq(S)
          /\ Range(options) = {dep \in Range(deps) : (dep[1] = "option") = TRUE}
      BY PartitionIs
    <3>3. /\ {dep \in Range(deps) : (dep[1] = "option") = FALSE} = {dep \in Range(deps) : dep[1] # "option"}
          /\ {dep \in Range(deps) : (dep[1] = "option") = TRUE} = {dep \in Range(deps) : dep[1] = "option"}
      BY Zenon
    <3> QED
      BY <3>1, <3>2, <3>3
  <2>3. o \in Seq(S) /\ Len(o) = 1 /\ o[1] = out /\ k \in Seq(S) /\ Len(k) = 1 /\ k[1] = link
    BY <1>2
  <2>30. front = libraries \o o
    OBVIOUS
  <2>31. libraries \in Seq(S) /\ options \in Seq(S)
    BY <2>2
  <2> HIDE DEF late, libraries, options, o, k, front
  <2>4. /\ front \in Seq(S) /\ Len(front) = Len(libraries) + 1 /\ Len(libraries) \in Nat
        /\ \A i \in 1..Len(libraries) : front[i] = libraries[i]
        /\ front[Len(libraries) + 1] = out
    <3>1. Joins(front, libraries, o, S)
      BY <2>3, <2>30, <2>31, ConcatJoins, ZenonT(30)
    <3> QED
      BY <2>3, <3>1 DEF Joins
  <2>5. /\ tail \in Seq(S) /\ Len(tail) \in Nat
        /\ options # <<>> =>
             /\ Len(tail) = Len(options) + 1 /\ tail[1] = link
             /\ \A i \in 1..Len(options) : tail[1 + i] = options[i]
        /\ options = <<>> => Len(tail) = 0
    <3>1. CASE options = <<>>
      BY <3>1
    <3>2. CASE options # <<>>
      <4> DEFINE z == k \o options
      <4>1. /\ z \in Seq(S) /\ Len(z) = 1 + Len(options) /\ Len(options) \in Nat
            /\ (\A i \in 1..1 : z[i] = k[i]) /\ (\A i \in 1..Len(options) : z[1 + i] = options[i])
        <5>1. z = k \o options
          OBVIOUS
        <5> HIDE DEF z
        <5>2. Joins(z, k, options, S)
          BY <2>3, <2>31, <5>1, ConcatJoins, ZenonT(30)
        <5> QED
          BY <2>3, <5>2 DEF Joins
      <4>2. tail = z
        BY <3>2
      <4> HIDE DEF z, tail
      <4> QED
        BY <2>3, <3>2, <4>1, <4>2
    <3> QED
      BY <3>1, <3>2
  <2> HIDE DEF tail
  <2> DEFINE l == Len(front)
  <2>6. /\ late \in Seq(S) /\ Len(late) = l + Len(tail) /\ l \in Nat
        /\ \A i \in 1..l : late[i] = front[i]
        /\ \A i \in 1..Len(tail) : late[l + i] = tail[i]
    <3>1. front \in Seq(S) /\ tail \in Seq(S)
      BY <2>4, <2>5
    <3>2. Joins(late, front, tail, S)
      BY <2>1, <3>1, ConcatJoins, ZenonT(30)
    <3> QED
      BY <3>2 DEF Joins
  <2>7. /\ \A i \in 1..Len(libraries) : libraries[i] \in Range(deps)
        /\ \A dep \in Range(deps) : dep[1] # "option" => \E i \in 1..Len(libraries) : libraries[i] = dep
    <3>1. Range(libraries) = {libraries[i] : i \in 1..Len(libraries)}
      BY <2>31, RangeEquality
    <3> QED
      BY <2>2, <3>1
  <2>8. /\ Len(options) \in Nat
        /\ \A i \in 1..Len(options) : options[i] \in Range(deps)
        /\ \A dep \in Range(deps) : dep[1] = "option" => \E i \in 1..Len(options) : options[i] = dep
    <3>1. Range(options) = {options[i] : i \in 1..Len(options)} /\ Len(options) \in Nat
      BY <2>31, RangeEquality
    <3> QED
      BY <2>2, <3>1
  <2>9. options = <<>> => Len(options) = 0
    OBVIOUS
  <2> HIDE DEF l
  <2>10. ASSUME NEW i \in 1..Len(late) PROVE late[i] \in {out, link} \cup Range(deps)
    <3>1. CASE i \in 1..l
      <4>1. i \in 1..Len(libraries) \/ i = Len(libraries) + 1
        BY <2>4, <3>1 DEF l
      <4> QED
        BY <2>4, <2>6, <2>7, <3>1, <4>1
    <3>2. CASE i \notin 1..l
      <4>1. PICK j \in 1..Len(tail) : i = l + j
        <5>1. i - l \in 1..Len(tail) /\ i = l + (i - l)
          BY <2>5, <2>6, <3>2
        <5> QED
          BY <5>1
      <4>2. late[i] = tail[j]
        BY <2>6, <4>1
      <4>3. options # <<>>
        BY <2>5, <4>1
      <4>4. j = 1 \/ \E m \in 1..Len(options) : j = 1 + m
        <5>1. j = 1 \/ (j - 1 \in 1..Len(options) /\ j = 1 + (j - 1))
          BY <2>5, <2>8, <4>3
        <5> QED
          BY <5>1
      <4> QED
        BY <2>5, <2>8, <4>2, <4>3, <4>4
    <3> QED
      BY <3>1, <3>2
  <2>11. ASSUME NEW dep \in Range(deps)
         PROVE  \E i \in 1..Len(late) :
                  /\ late[i] = dep
                  /\ dep[1] = "option" => \E j \in 1..(i - 1) : late[j] = link
    <3>1. CASE dep[1] # "option"
      <4>1. PICK i \in 1..Len(libraries) : libraries[i] = dep
        BY <2>7, <3>1
      <4>2. i \in 1..l /\ i \in 1..Len(late)
        BY <2>4, <2>5, <2>6 DEF l
      <4> QED
        BY <2>4, <2>6, <3>1, <4>1, <4>2
    <3>2. CASE dep[1] = "option"
      <4>1. PICK i \in 1..Len(options) : options[i] = dep
        BY <2>8, <3>2
      <4>2. options # <<>>
        BY <2>8, <2>9
      <4> DEFINE p == l + (1 + i)
                 q == l + 1
      <4>3. /\ 1 + i \in 1..Len(tail) /\ 1 \in 1..Len(tail)
            /\ p \in 1..Len(late) /\ q \in 1..(p - 1)
        BY <2>5, <2>6, <2>8, <4>2
      <4>4. late[p] = tail[1 + i] /\ late[q] = tail[1]
        BY <2>6, <4>3
      <4>5. late[p] = dep /\ late[q] = link
        BY <2>5, <4>1, <4>2, <4>4
      <4> HIDE DEF p, q
      <4> QED
        BY <4>3, <4>5
    <3> QED
      BY <3>1, <3>2
  <2>12. LateOf(late, flavor, deps)
    BY <1>5, <2>10, <2>11 DEF LateOf, out, link
  <2> QED
    BY <2>6, <2>12 DEF late
<1> QED
  BY <1>4, <1>5

\* deps of all units.
LEMMA AllDepsAre ==
  ASSUME NEW units, NEW S, units \in Seq(Range(units)),
         \A i \in 1..Len(units) : units[i].deps \in Seq(S)
  PROVE  /\ AllDeps(units) \in Seq(S)
         /\ \A dep : dep \in Range(AllDeps(units)) <=>
                       \E i \in 1..Len(units) : dep \in Range(units[i].deps)
<1> DEFINE n == Len(units)
           f == [i \in DOMAIN units |-> units[i].deps]
<1>1. n \in Nat /\ DOMAIN units = 1..n
  OBVIOUS
<1>2. f \in Seq(Seq(S)) /\ Len(f) = n /\ \A i \in 1..n : f[i] = units[i].deps
  <2>1. f \in [1..n -> Seq(S)]
    BY <1>1
  <2> QED
    BY <1>1, <2>1
<1>3. AllDeps(units) = FlattenSeq(f)
  BY DEF AllDeps
<1> HIDE DEF f, n
<1>4. FlattenSeq(f) \in Seq(S)
  BY <1>2, FlattenSeqType
<1>5. Range(FlattenSeq(f)) = UNION {Range(f[i]) : i \in 1..n}
  BY <1>2, FlattenSeqRange
<1>6. \A dep : dep \in UNION {Range(f[i]) : i \in 1..n} <=> \E i \in 1..n : dep \in Range(units[i].deps)
  BY <1>2
<1> QED
  BY <1>3, <1>4, <1>5, <1>6 DEF n

LEMMA ArgsAre ==
  ASSUME NEW units, NEW S, NEW flavor, units \in Seq(Range(units)),
         \A i \in 1..Len(units) : units[i].deps \in Seq(S)
  PROVE  ArgsOf(LinkArgs(flavor, units), units, flavor)
<1> DEFINE n == Len(units)
           deps == AllDeps(units)
           R == S \cup {<<"objects">>, <<"out">>, <<"/link">>}
                  \cup {<<"unit", units[i].of>> : i \in 1..n}
           first == <<<<"objects">>>>
           middle == UnitArgs(units)
           late == LateArgs(flavor, deps)
           front == first \o middle
           args == LinkArgs(flavor, units)
<1>1. n \in Nat /\ DOMAIN units = 1..n
  OBVIOUS
<1>2. args = front \o late
  BY Zenon DEF LinkArgs, LateArgs
<1>3. first \in Seq(R) /\ Len(first) = 1 /\ first[1] = <<"objects">>
  OBVIOUS
<1>4. middle \in Seq(R) /\ Len(middle) = n /\ \A i \in 1..n : middle[i] = <<"unit", units[i].of>>
  <2>1. middle \in [1..n -> R]
    BY <1>1 DEF UnitArgs
  <2> QED
    BY <1>1, <2>1 DEF UnitArgs
<1>5. deps \in Seq(R)
  <2>1. \A i \in 1..n : units[i].deps \in Seq(R)
    <3>1. S \subseteq R
      OBVIOUS
    <3> HIDE DEF R
    <3> QED
      BY <3>1
  <2> HIDE DEF R
  <2> QED
    BY <2>1, AllDepsAre DEF n
<1>6. <<"out">> \in R /\ <<"/link">> \in R
  OBVIOUS
<1> HIDE DEF R
<1>7. late \in Seq(R) /\ LateOf(late, flavor, deps)
  BY <1>5, <1>6, LateArgsAre, ZenonT(30)
<1>8. Joins(front, first, middle, R)
  <2>1. front = first \o middle
    OBVIOUS
  <2> HIDE DEF front, first, middle
  <2> QED
    BY <1>3, <1>4, <2>1, ConcatJoins, ZenonT(30)
<1> HIDE DEF front, first, middle, late, args, deps
<1>9. front \in Seq(R) /\ Len(front) = n + 1 /\ front[1] = <<"objects">>
      /\ \A i \in 1..n : front[i + 1] = <<"unit", units[i].of>>
  <2>1. front[1] = first[1] /\ \A i \in 1..n : front[1 + i] = middle[i]
    BY <1>1, <1>3, <1>4, <1>8 DEF Joins
  <2>2. \A i \in 1..n : 1 + i = i + 1
    BY <1>1
  <2>3. front \in Seq(R) /\ Len(front) = 1 + n
    BY <1>3, <1>4, <1>8 DEF Joins
  <2>4. 1 + n = n + 1
    BY <1>1
  <2> QED
    BY <1>3, <1>4, <2>1, <2>2, <2>3, <2>4
<1>10. Joins(args, front, late, R)
  BY <1>2, <1>7, <1>9, ConcatJoins, ZenonT(30)
<1>11. /\ args \in Seq(R) /\ Len(args) = n + 1 + Len(late) /\ Len(late) \in Nat
       /\ \A i \in 1..(n + 1) : args[i] = front[i]
       /\ \A i \in 1..Len(late) : args[n + 1 + i] = late[i]
  BY <1>9, <1>10 DEF Joins
<1>12. args \in Seq(Range(args))
  BY <1>11, SeqOfRange
<1>13. args[1] = <<"objects">> /\ \A i \in 1..n : args[i + 1] = <<"unit", units[i].of>>
  <2>1. 1 \in 1..(n + 1) /\ \A i \in 1..n : i + 1 \in 1..(n + 1)
    BY <1>1
  <2> QED
    BY <1>9, <1>11, <2>1
<1>14. ASSUME NEW i \in (n + 2)..Len(args)
       PROVE  args[i] \in {<<"out">>, <<"/link">>} \cup Range(deps)
  <2>1. i - (n + 1) \in 1..Len(late) /\ i = n + 1 + (i - (n + 1))
    BY <1>1, <1>11
  <2> QED
    BY <1>7, <1>11, <2>1 DEF LateOf
<1>15. ASSUME NEW dep \in Range(deps)
       PROVE  \E i \in (n + 2)..Len(args) :
                /\ args[i] = dep
                /\ dep[1] = "option" /\ flavor = "msvc" => \E j \in 1..(i - 1) : args[j] = <<"/link">>
  <2>1. PICK i \in 1..Len(late) :
          /\ late[i] = dep
          /\ dep[1] = "option" /\ flavor = "msvc" => \E j \in 1..(i - 1) : late[j] = <<"/link">>
    BY <1>7 DEF LateOf
  <2> DEFINE k == n + 1 + i
  <2>2. k \in (n + 2)..Len(args) /\ args[k] = dep
    BY <1>1, <1>11, <2>1
  <2>3. ASSUME NEW j \in 1..(i - 1) PROVE n + 1 + j \in 1..(k - 1) /\ args[n + 1 + j] = late[j]
    <3>1. n + 1 + j \in 1..(k - 1) /\ j \in 1..Len(late)
      BY <1>1, <1>11
    <3> QED
      BY <1>11, <3>1
  <2> HIDE DEF k
  <2>4. dep[1] = "option" /\ flavor = "msvc" => \E j \in 1..(k - 1) : args[j] = <<"/link">>
    BY <2>1, <2>3
  <2> QED
    BY <2>2, <2>4
<1>16. Len(args) > n
  BY <1>1, <1>11
<1> QED
  BY <1>12, <1>13, <1>14, <1>15, <1>16 DEF ArgsOf, n, deps, args

-----------------------------------------------------------------------------
(* The linker                                                              *)

Start(used) == [needed |-> {Plain(s) : s \in used}, from |-> <<>>]

\* h is what is needed, and what is linked, after each argument.
LinksBy(h, args, manifest, archives, calls, used) ==
  /\ h[0] = Start(used)
  /\ \A i \in 1..Len(args) :
       h[i] = Pull(h[i - 1], args[i], Offered(args, archives, i), Wanted(args, manifest, calls, i))
  /\ Linked(args, manifest, archives, calls, used) = h[Len(args)]

Linking(S, R) == [needed : SUBSET S, from : UNION {[D -> R] : D \in SUBSET S}]

LEMMA PullType ==
  ASSUME NEW S, NEW R, NEW state \in Linking(S, R), NEW arg \in R, NEW offers \in SUBSET S,
         NEW wants \in SUBSET S
  PROVE  Pull(state, arg, offers, wants) \in Linking(S, R)
<1> DEFINE needed == IF state.needed \cap offers = {} THEN state.needed
                     ELSE state.needed \cup (wants \ DOMAIN state.from)
           D == DOMAIN state.from \cup (needed \cap offers)
           from == [s \in D |-> IF s \in DOMAIN state.from THEN state.from[s] ELSE arg]
<1>1. state.needed \in SUBSET S /\ state.from \in UNION {[E -> R] : E \in SUBSET S}
  BY DEF Linking
<1>2. PICK E \in SUBSET S : state.from \in [E -> R]
  BY <1>1
<1>3. needed \in SUBSET S /\ D \in SUBSET S
  BY <1>1, <1>2
<1>4. from \in [D -> R]
  BY <1>2
<1>5. Pull(state, arg, offers, wants) = [needed |-> needed \ offers, from |-> from]
  BY Zenon DEF Pull
<1> HIDE DEF needed, from, D
<1>6. needed \ offers \in SUBSET S /\ from \in UNION {[E2 -> R] : E2 \in SUBSET S}
  BY <1>3, <1>4
<1> QED
  BY <1>5, <1>6 DEF Linking

LEMMA LinkedBy ==
  ASSUME NEW args, args \in Seq(Range(args)), NEW manifest, NEW archives, NEW calls, NEW used
  PROVE  \E h : LinksBy(h, args, manifest, archives, calls, used)
<1> DEFINE n == Len(args)
           O(i) == Offered(args, archives, i)
           W(i) == Wanted(args, manifest, calls, i)
           base == Start(used)
           R == Range(args)
           S == {Plain(s) : s \in used} \cup UNION {O(i) \cup W(i) : i \in 1..n}
           A == Linking(S, R)
           Step(st, i) == Pull(st, args[i], O(i), W(i))
           G == [q \in A \X (1..n) |-> Step(q[1], q[2])]
           seq == [i \in DOMAIN args |-> i]
           f == CHOOSE g : g = [s \in SUBSET (DOMAIN seq) |->
                  IF s = {} THEN base ELSE Step(g[s \ {Max(s)}], seq[Max(s)])]
<1>1. Linked(args, manifest, archives, calls, used) = f[DOMAIN seq]
  BY Zenon DEF Linked, FoldLeft, MapThenFoldSet, Start
<1>2. n \in Nat /\ DOMAIN args = 1..n /\ \A i \in 1..n : args[i] \in R
  BY DEF Range
<1>20. DOMAIN seq = 1..n /\ \A i \in 1..n : seq[i] = i
  BY <1>2
<1>3. base \in A
  <2>1. <<>> \in [{} -> R] /\ {} \in SUBSET S
    OBVIOUS
  <2>2. {Plain(s) : s \in used} \in SUBSET S
    OBVIOUS
  <2> HIDE DEF S, R
  <2>3. <<>> \in UNION {[D -> R] : D \in SUBSET S}
    BY <2>1
  <2> QED
    BY <2>2, <2>3 DEF Linking, Start
<1>4. ASSUME NEW st \in A, NEW i \in 1..n PROVE Step(st, i) \in A
  <2>1. args[i] \in R
    BY <1>2
  <2>2. O(i) \in SUBSET S /\ W(i) \in SUBSET S
    OBVIOUS
  <2> HIDE DEF S, R, O, W
  <2> QED
    BY <2>1, <2>2, PullType
<1> HIDE DEF A, base, n, Step, seq
<1>5. G \in [A \X (1..n) -> A]
  BY <1>4
<1>6. \A st \in A, i \in 1..n : G[<<st, i>>] = Step(st, i)
  OBVIOUS
<1> HIDE DEF G
<1>7. PICK g \in [SUBSET (1..n) -> A] : Accumulates(g, G, base, n)
  BY <1>2, <1>3, <1>5, AccumulatesExists DEF CanAccumulate
<1>8. g = [s \in SUBSET (1..n) |->
             IF s = {} THEN base ELSE Step(g[s \ {Max(s)}], seq[Max(s)])]
  <2>1. ASSUME NEW s \in SUBSET (1..n), s # {}
        PROVE  g[s] = Step(g[s \ {Max(s)}], seq[Max(s)])
    <3>1. Max(s) \in 1..n
      BY <1>2, <2>1, MaxIs
    <3>2. g[s \ {Max(s)}] \in A
      OBVIOUS
    <3>3. g[s] = G[<<g[s \ {Max(s)}], Max(s)>>]
      BY <1>7, <2>1 DEF Accumulates
    <3>4. seq[Max(s)] = Max(s)
      BY <1>20, <3>1
    <3> QED
      BY <1>6, <3>1, <3>2, <3>3, <3>4
  <2>2. g[{}] = base
    BY <1>7 DEF Accumulates
  <2> QED
    BY <2>1, <2>2
<1>9. f = [s \in SUBSET (1..n) |->
             IF s = {} THEN base ELSE Step(f[s \ {Max(s)}], seq[Max(s)])]
  BY <1>20, <1>8, ZenonT(30)
<1> HIDE DEF f
<1> DEFINE h == [i \in 0..n |-> f[1..i]]
<1>10. h[0] = base
  <2>1. 1..0 = {} /\ 0 \in 0..n /\ {} \in SUBSET (1..n)
    BY <1>2
  <2> QED
    BY <1>9, <2>1
<1>11. ASSUME NEW i \in 1..n PROVE h[i] = Step(h[i - 1], i)
  <2>1. i \in Nat \ {0} /\ 1..i \in SUBSET (1..n) /\ i \in 0..n /\ i - 1 \in 0..n
    BY <1>2
  <2>2. 1..i # {} /\ Max(1..i) = i /\ (1..i) \ {i} = 1..(i - 1) /\ seq[i] = i
    BY <1>20, <2>1, MaxOfFirst
  <2>3. f[1..i] = Step(f[(1..i) \ {Max(1..i)}], seq[Max(1..i)])
    BY <1>9, <2>1, <2>2
  <2>4. f[1..i] = Step(f[1..(i - 1)], i)
    BY <2>2, <2>3
  <2> QED
    BY <2>1, <2>4
<1>12. Linked(args, manifest, archives, calls, used) = h[n]
  <2>1. n \in 0..n
    BY <1>2
  <2> QED
    BY <1>1, <1>20, <2>1
<1> HIDE DEF h
<1>13. LinksBy(h, args, manifest, archives, calls, used)
  BY <1>10, <1>11, <1>12 DEF LinksBy, base, n, Step
<1> QED
  BY <1>13

-----------------------------------------------------------------------------
(* The link of a task                                                      *)

UnitsFor(t) == LinkUnitsOf(t.manifest, t.runtimeDeps, t.flavor)
ArgsFor(t) == LinkArgs(t.flavor, UnitsFor(t))

\* What a manifest declares that applies, as arguments.
LEMMA DepArgsAre ==
  ASSUME NEW deps, deps \in Seq(Range(deps)), NEW family,
         NEW S, \A d \in Range(deps) : LibraryArg(d) \in S
  PROVE  /\ DepArgs(deps, family) \in Seq(S)
         /\ Range(DepArgs(deps, family)) =
              {LibraryArg(d) : d \in {d \in Range(deps) : AppliesTo(d, family)}}
<1> DEFINE n == Len(deps)
           K == {i \in 1..n : AppliesTo(deps[i], family)}
           V == [i \in 1..n |-> LibraryArg(deps[i])]
           f == [i \in DOMAIN deps |->
                   IF AppliesTo(deps[i], family) THEN <<LibraryArg(deps[i])>> ELSE <<>>]
<1>1. n \in Nat /\ K \in SUBSET (1..n) /\ DOMAIN deps = 1..n /\ \A i \in 1..n : deps[i] \in Range(deps)
  OBVIOUS
<1>2. \A i \in K : V[i] = LibraryArg(deps[i]) /\ V[i] \in S
  BY <1>1
<1>3. f = [i \in 1..n |-> IF i \in K THEN <<V[i]>> ELSE <<>>]
  BY <1>1
<1>4. DepArgs(deps, family) = FlattenSeq(f)
  BY Zenon DEF DepArgs
<1>5. {V[i] : i \in K} = {LibraryArg(d) : d \in {d \in Range(deps) : AppliesTo(d, family)}}
  <2>1. Range(deps) = {deps[i] : i \in 1..n}
    BY <1>1 DEF Range
  <2> QED
    BY <1>1, <2>1
<1> HIDE DEF n, K, V, f
<1>6. Keeps(f, n, K, V, S)
  BY <1>1, <1>2, <1>3 DEF Keeps
<1>7. Kept(FlattenSeq(f), K, V, S)
  BY <1>6, FlattenSeqKept, ZenonT(30)
<1> QED
  BY <1>4, <1>5, <1>7 DEF Kept

\* An argument that stands for a system library.
IsSystem(arg, flavor) == arg[1] = "lib" \/ (arg[1] = "option" /\ flavor = "msvc")

LEMMA UnitDeps ==
  ASSUME NEW t, LinkFits(t), NEW unit,
         \/ unit = [of |-> Runtime, deps |-> t.runtimeDeps]
         \/ \E b \in Range(t.manifest) : unit = UnitOf(b, t.flavor),
         NEW S, S = Range(t.runtimeDeps) \cup
                      {LibraryArg(d) : d \in UNION {Range(b.deps) : b \in Range(t.manifest)}}
  PROVE  unit.deps \in Seq(S) /\ \A arg \in Range(unit.deps) : IsSystem(arg, t.flavor)
<1>1. CASE unit = [of |-> Runtime, deps |-> t.runtimeDeps]
  <2>1. unit.deps = t.runtimeDeps /\ t.runtimeDeps \in Seq(Range(t.runtimeDeps))
    BY <1>1 DEF LinkFits
  <2>2. \A arg \in Range(t.runtimeDeps) : IsSystem(arg, t.flavor)
    BY DEF LinkFits, IsSystem
  <2>3. Range(t.runtimeDeps) \subseteq S
    OBVIOUS
  <2> QED
    BY <2>1, <2>2, <2>3
<1>2. ASSUME NEW b \in Range(t.manifest), unit = UnitOf(b, t.flavor)
      PROVE  unit.deps \in Seq(S) /\ \A arg \in Range(unit.deps) : IsSystem(arg, t.flavor)
  <2> DEFINE deps == b.deps
             family == Family(t.flavor)
  <2>1. unit.deps = DepArgs(deps, family)
    BY <1>2 DEF UnitOf
  <2>2. deps \in Seq(Range(deps))
    BY DEF LinkFits
  <2>3. \A d \in Range(deps) : LibraryArg(d) \in S
    OBVIOUS
  <2> HIDE DEF deps, family
  <2>4. /\ DepArgs(deps, family) \in Seq(S)
        /\ Range(DepArgs(deps, family)) =
             {LibraryArg(d) : d \in {d \in Range(deps) : AppliesTo(d, family)}}
    BY <2>2, <2>3, DepArgsAre
  <2>5. \A d : IsSystem(LibraryArg(d), t.flavor)
    BY DEF IsSystem, LibraryArg
  <2> QED
    BY <2>1, <2>4, <2>5
<1> QED
  BY <1>1, <1>2

\* The units and the arguments of a task that fits.
LEMMA TaskIs ==
  ASSUME NEW t, LinkFits(t)
  PROVE  /\ UnitsOf(UnitsFor(t), t.manifest, t.runtimeDeps, t.flavor, Len(t.manifest))
         /\ ArgsOf(ArgsFor(t), UnitsFor(t), t.flavor)
         /\ \A i \in 1..Len(UnitsFor(t)) : UnitsFor(t)[i].of \in Owners(t.manifest)
         /\ \A dep : dep \in Range(AllDeps(UnitsFor(t))) <=>
                       \E i \in 1..Len(UnitsFor(t)) : dep \in Range(UnitsFor(t)[i].deps)
         /\ \A dep \in Range(AllDeps(UnitsFor(t))) : IsSystem(dep, t.flavor)
<1> DEFINE units == UnitsFor(t)
           n == Len(units)
           S == Range(t.runtimeDeps) \cup
                  {LibraryArg(d) : d \in UNION {Range(b.deps) : b \in Range(t.manifest)}}
<1>1. t.manifest \in Seq(Range(t.manifest))
  BY DEF LinkFits
<1>2. UnitsOf(units, t.manifest, t.runtimeDeps, t.flavor, Len(t.manifest))
  BY <1>1, UnitsAre DEF UnitsFor
<1> HIDE DEF units, S
<1>3. /\ units \in Seq(Range(units)) /\ units # <<>>
      /\ units[1] = [of |-> Runtime, deps |-> t.runtimeDeps]
      /\ \A i \in 2..n : \E b \in Range(t.manifest) : units[i] = UnitOf(b, t.flavor)
  BY <1>2 DEF UnitsOf
<1>4. n \in Nat
  BY <1>3
<1>5. ASSUME NEW i \in 1..n
      PROVE  /\ units[i].of \in Owners(t.manifest)
             /\ units[i].deps \in Seq(S)
             /\ \A arg \in Range(units[i].deps) : IsSystem(arg, t.flavor)
  <2> DEFINE unit == units[i]
  <2>1. \/ unit = [of |-> Runtime, deps |-> t.runtimeDeps]
        \/ \E b \in Range(t.manifest) : unit = UnitOf(b, t.flavor)
    <3>1. i = 1 \/ i \in 2..n
      BY <1>4
    <3> QED
      BY <1>3, <3>1
  <2> HIDE DEF unit
  <2>2. unit.of \in Owners(t.manifest)
    BY <2>1 DEF Owners, UnitOf
  <2>3. unit.deps \in Seq(S) /\ \A arg \in Range(unit.deps) : IsSystem(arg, t.flavor)
    BY <2>1, UnitDeps DEF S
  <2> QED
    BY <2>2, <2>3 DEF unit
<1>6. \A i \in 1..n : units[i].deps \in Seq(S)
  BY <1>5
<1>7. ArgsOf(LinkArgs(t.flavor, units), units, t.flavor)
  BY <1>3, <1>6, ArgsAre
<1>8. \A dep : dep \in Range(AllDeps(units)) <=> \E i \in 1..n : dep \in Range(units[i].deps)
  BY <1>3, <1>6, AllDepsAre
<1> QED
  BY <1>2, <1>5, <1>7, <1>8 DEF units, ArgsFor

\* A symbol an argument does not offer is not linked from it; one it offers is, if
\* at all; and one that nothing needs any more stays as it is.
LEMMA PullIs ==
  ASSUME NEW state, NEW arg, NEW offers, NEW wants, NEW s
  PROVE  LET new == Pull(state, arg, offers, wants)
         IN  /\ s \notin DOMAIN state.from /\ s \notin offers => s \notin DOMAIN new.from
             /\ s \in offers => s \notin new.needed
             /\ s \notin DOMAIN state.from /\ s \in DOMAIN new.from => new.from[s] = arg
             /\ s \in DOMAIN state.from => s \in DOMAIN new.from /\ new.from[s] = state.from[s]
             /\ s \notin state.needed /\ s \notin wants => s \notin new.needed
             /\ s \notin state.needed /\ s \notin wants /\ s \in DOMAIN new.from => s \in DOMAIN state.from
             /\ s \in new.needed => s \notin offers /\ (s \in state.needed \/ s \in wants)
<1> DEFINE needed == IF state.needed \cap offers = {} THEN state.needed
                     ELSE state.needed \cup (wants \ DOMAIN state.from)
           D == DOMAIN state.from \cup (needed \cap offers)
           from == [x \in D |-> IF x \in DOMAIN state.from THEN state.from[x] ELSE arg]
           new == Pull(state, arg, offers, wants)
<1>1. new = [needed |-> needed \ offers, from |-> from]
  BY Zenon DEF Pull
<1> HIDE DEF new
<1>2. new.needed = needed \ offers /\ new.from = from
  BY <1>1
<1>3. s \notin state.needed /\ s \notin wants => s \notin needed
  OBVIOUS
<1>4. s \in needed => s \in state.needed \/ s \in wants
  OBVIOUS
<1> HIDE DEF needed
<1>5. DOMAIN new.from = D
  BY <1>2
<1>6. s \in D => new.from[s] = IF s \in DOMAIN state.from THEN state.from[s] ELSE arg
  BY <1>2
<1>7. s \in D <=> s \in DOMAIN state.from \/ (s \in needed /\ s \in offers)
  OBVIOUS
<1>8. s \in new.needed <=> s \in needed /\ s \notin offers
  BY <1>2
<1> HIDE DEF D, from
<1> QED
  BY <1>3, <1>4, <1>5, <1>6, <1>7, <1>8 DEF new

\* What a link that passed the check knows of the tables that could be read.
LEMMA NoProblems ==
  ASSUME NEW manifest, NEW archives, Problems(manifest, archives) = {},
         NEW b \in Range(manifest), NEW u \in Owners(manifest), HasTable(archives[u])
  PROVE  Exported(archives[u], b.symbol) <=> u = b.owner
<1> DEFINE tables == {v \in Owners(manifest) : HasTable(archives[v])}
           exports(c) == {v \in tables : Exported(archives[v], c.symbol)}
           missing(c) == {<<"isn't exported", c.symbol, v>> : v \in (tables \cap {c.owner}) \ exports(c)}
           also(c) == {<<"also exported", c.symbol, v>> : v \in exports(c) \ {c.owner}}
           exporting == exports(b)
<1>1. missing(b) = {} /\ also(b) = {}
  <2> DEFINE absent == {<<"not found", v>> : v \in {w \in Owners(manifest) : archives[w].file = "absent"}}
             M == {missing(c) \cup also(c) : c \in Range(manifest)}
  <2>1. absent \cup (UNION M) = {}
    BY Zenon DEF Problems
  <2>2. missing(b) \cup also(b) \in M
    OBVIOUS
  <2> HIDE DEF M, absent, missing, also
  <2> QED
    BY <2>1, <2>2
<1>2. u \in tables
  OBVIOUS
<1>3. u = b.owner => u \in exporting
  <2>1. (tables \cap {b.owner}) \ exporting = {}
    BY <1>1
  <2> QED
    BY <1>2, <2>1
<1>4. u \in exporting => u = b.owner
  <2>1. exporting \ {b.owner} = {}
    BY <1>1
  <2> QED
    BY <2>1
<1> QED
  BY <1>2, <1>3, <1>4

\* Where a built-in's unit is among the units, and what it takes for the check to be
\* conclusive about it.
OwnUnitAt(t, b, p) ==
  /\ p \in 1..Len(UnitsFor(t)) /\ UnitsFor(t)[p].of = b.owner
  /\ \A i \in 1..p : HasTable(t.archives[UnitsFor(t)[i].of])
  /\ Underscored(b.symbol) \notin t.archives[b.owner].exports

\* Its symbol is offered by no argument before its unit, and by that; nothing after
\* that wants it again.
LEMMA OffersAre ==
  ASSUME NEW t, LinkFits(t), Problems(t.manifest, t.archives) = {},
         NEW b \in Range(t.manifest), NEW p, OwnUnitAt(t, b, p), NEW i \in 1..Len(ArgsFor(t))
  PROVE  /\ i <= p => Plain(b.symbol) \notin Offered(ArgsFor(t), t.archives, i)
         /\ i = p + 1 => /\ Plain(b.symbol) \in Offered(ArgsFor(t), t.archives, i)
                         /\ ArgsFor(t)[i] = <<"unit", b.owner>>
         /\ i > p + 1 => Plain(b.symbol) \notin Wanted(ArgsFor(t), t.manifest, t.calls, i)
<1> DEFINE args == ArgsFor(t)
           units == UnitsFor(t)
           n == Len(units)
           s == Plain(b.symbol)
<1>1. /\ units \in Seq(Range(units)) /\ units # <<>> /\ units[1].of = Runtime
      /\ \A j, k \in 1..n : units[j].of = units[k].of => j = k
  <2>1. UnitsOf(units, t.manifest, t.runtimeDeps, t.flavor, Len(t.manifest))
    BY TaskIs
  <2> HIDE DEF units
  <2> QED
    BY <2>1 DEF UnitsOf
<1>2. \A j \in 1..n : units[j].of \in Owners(t.manifest)
  BY TaskIs
<1>3. /\ Len(args) > n /\ args[1] = <<"objects">>
      /\ \A j \in 1..n : args[j + 1] = <<"unit", units[j].of>>
      /\ \A j \in (n + 2)..Len(args) :
           args[j] \in {<<"out">>, <<"/link">>} \cup Range(AllDeps(units))
      /\ Len(args) \in Nat
  <2>1. ArgsOf(args, units, t.flavor)
    BY TaskIs
  <2> HIDE DEF args, units
  <2>2. Len(args) \in Nat
    BY <2>1 DEF ArgsOf
  <2> QED
    BY <2>1, <2>2 DEF ArgsOf
<1>4. \A dep \in Range(AllDeps(units)) : dep[1] # "unit"
  BY TaskIs DEF IsSystem
<1>5. /\ p \in 1..n /\ units[p].of = b.owner
      /\ \A j \in 1..p : HasTable(t.archives[units[j].of])
      /\ Underscored(b.symbol) \notin t.archives[b.owner].exports
  BY DEF OwnUnitAt
<1> HIDE DEF args, units
<1>6. n \in Nat /\ i \in Nat /\ p \in Nat
  BY <1>1, <1>3, <1>5
<1>7. CASE i <= p
  <2>1. CASE i = 1
    <3>1. Offered(args, t.archives, i) = {}
      BY <1>3, <2>1 DEF Offered
    <3> HIDE DEF s
    <3>2. s \notin Offered(args, t.archives, i)
      BY <3>1
    <3> QED
      BY <1>6, <1>7, <3>2 DEF s, args
  <2>2. CASE i > 1
    <3> DEFINE k == i - 1
    <3>1. k \in 1..n /\ k \in 1..p /\ k # p /\ k + 1 = i
      BY <1>5, <1>6, <1>7, <2>2
    <3> HIDE DEF k
    <3> DEFINE u == units[k].of
    <3>2. u # b.owner
      BY <1>1, <1>5, <3>1
    <3>3. args[i] = <<"unit", u>>
      BY <1>3, <3>1
    <3>4. u \in Owners(t.manifest) /\ HasTable(t.archives[u])
      BY <1>2, <1>5, <3>1
    <3> HIDE DEF u
    <3>5. ~Exported(t.archives[u], b.symbol)
      BY <3>2, <3>4, NoProblems
    <3>6. Offered(args, t.archives, i) = t.archives[u].exports
      BY <3>3 DEF Offered
    <3>7. s \notin t.archives[u].exports
      BY <3>5 DEF Exported
    <3> HIDE DEF s
    <3>8. s \notin Offered(args, t.archives, i)
      BY <3>6, <3>7
    <3> QED
      BY <1>6, <1>7, <3>8 DEF s, args
  <2> QED
    BY <1>6, <2>1, <2>2
<1>8. CASE i = p + 1
  <2> DEFINE u == b.owner
  <2>1. args[i] = <<"unit", u>>
    BY <1>3, <1>5, <1>8
  <2>2. u \in Owners(t.manifest) /\ HasTable(t.archives[u])
    <3>1. p \in 1..p
      BY <1>5, <1>6
    <3> QED
      BY <1>2, <1>5, <3>1
  <2> HIDE DEF u
  <2>3. Exported(t.archives[u], b.symbol)
    BY <2>2, NoProblems DEF u
  <2>4. Offered(args, t.archives, i) = t.archives[u].exports
    BY <2>1 DEF Offered
  <2>5. s \in t.archives[u].exports
    BY <1>5, <2>3 DEF Exported, u
  <2> HIDE DEF s
  <2>6. s \in Offered(args, t.archives, i)
    BY <2>4, <2>5
  <2> QED
    BY <1>6, <1>8, <2>1, <2>6 DEF s, args, u
<1>9. CASE i > p + 1
  <2>1. CASE i <= n + 1
    <3> DEFINE k == i - 1
    <3>1. k \in 1..n /\ k # 1 /\ 1 \in 1..n /\ k + 1 = i
      BY <1>5, <1>6, <1>9, <2>1
    <3> HIDE DEF k
    <3> DEFINE u == units[k].of
    <3>2. u # Runtime /\ u \in Owners(t.manifest)
      BY <1>1, <1>2, <3>1
    <3>3. args[i] = <<"unit", u>>
      BY <1>3, <3>1
    <3> HIDE DEF u
    <3>4. Wanted(args, t.manifest, t.calls, i) = t.calls[u]
      BY <3>2, <3>3 DEF Wanted
    <3>5. s \notin t.calls[u]
      <4>1. t.calls[u] \cap {Plain(x) : x \in {c.symbol : c \in Range(t.manifest)}} = {}
        BY <3>2 DEF LinkFits
      <4> QED
        BY <4>1
    <3> HIDE DEF s
    <3>6. s \notin Wanted(args, t.manifest, t.calls, i)
      BY <3>4, <3>5
    <3> QED
      BY <1>6, <1>9, <3>6 DEF s, args
  <2>2. CASE i > n + 1
    <3>1. i \in (n + 2)..Len(args)
      BY <1>3, <1>6, <2>2 DEF args
    <3>2. args[i][1] # "unit"
      BY <1>3, <1>4, <3>1
    <3>3. Wanted(args, t.manifest, t.calls, i) = {}
      BY <3>2 DEF Wanted
    <3> HIDE DEF s
    <3>4. s \notin Wanted(args, t.manifest, t.calls, i)
      BY <3>3
    <3> QED
      BY <1>6, <1>9, <3>4 DEF s, args
  <2> QED
    BY <1>6, <2>1, <2>2
<1> QED
  BY <1>6, <1>7, <1>8, <1>9

\* Not linked before its unit is reached, and from that unit or not at all after.
Placed(state, b, p, i) ==
  IF i <= p THEN Plain(b.symbol) \notin DOMAIN state.from
  ELSE /\ Plain(b.symbol) \notin state.needed
       /\ Plain(b.symbol) \in DOMAIN state.from =>
            state.from[Plain(b.symbol)] = <<"unit", b.owner>>

LinksTask(h, t) == LinksBy(h, ArgsFor(t), t.manifest, t.archives, t.calls, t.used)

LEMMA AllPlaced ==
  ASSUME NEW t, LinkFits(t), Problems(t.manifest, t.archives) = {}, NEW h, LinksTask(h, t),
         NEW b \in Range(t.manifest), NEW p, OwnUnitAt(t, b, p)
  PROVE  \A i \in 0..Len(ArgsFor(t)) : Placed(h[i], b, p, i)
<1> DEFINE args == ArgsFor(t)
           n == Len(args)
           s == Plain(b.symbol)
           T == {i \in Nat : i <= n => Placed(h[i], b, p, i)}
<1>1. p \in Nat
  <2>1. UnitsOf(UnitsFor(t), t.manifest, t.runtimeDeps, t.flavor, Len(t.manifest))
    BY TaskIs
  <2>2. p \in 1..Len(UnitsFor(t)) /\ UnitsFor(t) \in Seq(Range(UnitsFor(t)))
    BY <2>1 DEF OwnUnitAt, UnitsOf
  <2> QED
    BY <2>2
<1>2. n \in Nat
  <2>1. ArgsOf(args, UnitsFor(t), t.flavor)
    BY TaskIs
  <2> HIDE DEF args
  <2>2. args \in Seq(Range(args))
    BY <2>1 DEF ArgsOf
  <2> QED
    BY <2>2
<1>3. 0 \in T
  <2>1. h[0] = Start(t.used)
    BY DEF LinksTask, LinksBy
  <2>2. DOMAIN Start(t.used).from = {}
    BY DEF Start
  <2>3. Placed(h[0], b, p, 0)
    BY <1>1, <2>1, <2>2 DEF Placed
  <2> QED
    BY <2>3
<1>4. ASSUME NEW k \in Nat, k \in T PROVE k + 1 \in T
  <2> SUFFICES ASSUME k + 1 <= n PROVE Placed(h[k + 1], b, p, k + 1)
    BY <1>4
  <2> DEFINE i == k + 1
             old == h[k]
             new == h[i]
             offers == Offered(args, t.archives, i)
             wants == Wanted(args, t.manifest, t.calls, i)
  <2>1. i \in 1..n /\ i - 1 = k
    BY <1>2
  <2>2. Placed(old, b, p, k)
    BY <1>2, <1>4
  <2>3. new = Pull(old, args[i], offers, wants)
    BY <2>1 DEF LinksTask, LinksBy
  <2>4. /\ i <= p => s \notin offers
        /\ i = p + 1 => s \in offers /\ args[i] = <<"unit", b.owner>>
        /\ i > p + 1 => s \notin wants
    BY <2>1, OffersAre
  <2> DEFINE arg == args[i]
  <2>5. /\ s \notin DOMAIN old.from /\ s \notin offers => s \notin DOMAIN new.from
        /\ s \in offers => s \notin new.needed
        /\ s \notin DOMAIN old.from /\ s \in DOMAIN new.from => new.from[s] = arg
        /\ s \in DOMAIN old.from => s \in DOMAIN new.from /\ new.from[s] = old.from[s]
        /\ s \notin old.needed /\ s \notin wants => s \notin new.needed
        /\ s \notin old.needed /\ s \notin wants /\ s \in DOMAIN new.from => s \in DOMAIN old.from
    <3> HIDE DEF offers, wants, arg, old, new, s
    <3> QED
      BY <2>3, PullIs DEF arg
  <2> HIDE DEF offers, wants, old, new, s, args, T
  <2>6. CASE i <= p
    <3>1. k <= p
      BY <1>1, <2>6
    <3> QED
      BY <2>2, <2>4, <2>5, <2>6, <3>1 DEF Placed, s, new
  <2>7. CASE i = p + 1
    <3>1. k <= p /\ ~(i <= p)
      BY <1>1, <2>7
    <3>2. s \notin DOMAIN old.from
      BY <2>2, <3>1 DEF Placed, s
    <3> QED
      BY <2>4, <2>5, <2>7, <3>1, <3>2 DEF Placed, s, new
  <2>8. CASE i > p + 1
    <3>1. ~(k <= p) /\ ~(i <= p)
      BY <1>1, <2>8
    <3>2. s \notin old.needed /\ (s \in DOMAIN old.from => old.from[s] = <<"unit", b.owner>>)
      BY <2>2, <3>1 DEF Placed, s
    <3> QED
      BY <2>4, <2>5, <2>8, <3>1, <3>2 DEF Placed, s, new
  <2> QED
    BY <1>1, <2>6, <2>7, <2>8
<1> HIDE DEF T, n
<1>5. ASSUME NEW i \in 0..n PROVE Placed(h[i], b, p, i)
  <2>1. i \in Nat /\ i <= n
    BY <1>2
  <2>2. i \in T
    BY <1>3, <1>4, <2>1, AllNumbers
  <2> QED
    BY <2>1, <2>2 DEF T
<1> QED
  BY <1>5 DEF n

\* The link of a task, when the check found nothing.
LinkedFor(t) == Linked(ArgsFor(t), t.manifest, t.archives, t.calls, t.used)

LEMMA LinkedIs ==
  ASSUME NEW t, LinkFits(t)
  PROVE  \E h : LinksTask(h, t) /\ LinkedFor(t) = h[Len(ArgsFor(t))]
<1>1. ArgsOf(ArgsFor(t), UnitsFor(t), t.flavor)
  BY TaskIs
<1>2. ArgsFor(t) \in Seq(Range(ArgsFor(t)))
  BY <1>1 DEF ArgsOf
<1>3. PICK h : LinksTask(h, t)
  BY <1>2, LinkedBy DEF LinksTask
<1> QED
  BY <1>3 DEF LinksTask, LinksBy, LinkedFor

\* Each built-in whose unit the check could look at is linked from it or not at all,
\* and is not needed any more when the link ends.
LEMMA OwnOrNone ==
  ASSUME NEW t, LinkFits(t), Problems(t.manifest, t.archives) = {},
         NEW b \in Range(t.manifest), NEW p, OwnUnitAt(t, b, p)
  PROVE  /\ Plain(b.symbol) \notin LinkedFor(t).needed
         /\ Plain(b.symbol) \in DOMAIN LinkedFor(t).from =>
              LinkedFor(t).from[Plain(b.symbol)] = <<"unit", b.owner>>
<1> DEFINE n == Len(ArgsFor(t))
           units == UnitsFor(t)
<1>1. PICK h : LinksTask(h, t) /\ LinkedFor(t) = h[n]
  BY LinkedIs
<1>2. n \in Nat /\ p \in Nat /\ p < n
  <2>1. ArgsOf(ArgsFor(t), units, t.flavor)
    BY TaskIs
  <2>2. UnitsOf(units, t.manifest, t.runtimeDeps, t.flavor, Len(t.manifest))
    BY TaskIs
  <2> HIDE DEF units
  <2>3. n > Len(units) /\ ArgsFor(t) \in Seq(Range(ArgsFor(t))) /\ units \in Seq(Range(units))
    BY <2>1, <2>2 DEF ArgsOf, UnitsOf
  <2>4. p \in 1..Len(units)
    BY DEF OwnUnitAt, units
  <2> QED
    BY <2>3, <2>4
<1>3. Placed(h[n], b, p, n)
  <2>1. n \in 0..n
    BY <1>2
  <2> QED
    BY <1>1, <2>1, AllPlaced
<1>4. ~(n <= p)
  BY <1>2
<1> QED
  BY <1>1, <1>3, <1>4 DEF Placed

\* The position of a built-in's unit.
LEMMA OwnUnitIs ==
  ASSUME NEW t, LinkFits(t), NEW b \in Range(t.manifest)
  PROVE  \E p \in 1..Len(UnitsFor(t)) :
           /\ UnitsFor(t)[p].of = b.owner
           /\ \A i \in 1..p : \A k \in 1..(i - 1) : UnitsFor(t)[k].of # b.owner
<1> DEFINE units == UnitsFor(t)
           n == Len(units)
<1>1. UnitsOf(units, t.manifest, t.runtimeDeps, t.flavor, Len(t.manifest))
  BY TaskIs
<1> HIDE DEF units
<1>2. /\ units \in Seq(Range(units))
      /\ \A i, j \in 1..n : units[i].of = units[j].of => i = j
      /\ \A m \in 1..Len(t.manifest) : \E i \in 1..n : units[i].of = t.manifest[m].owner
  BY <1>1 DEF UnitsOf
<1>3. PICK m \in 1..Len(t.manifest) : t.manifest[m] = b
  <2>1. t.manifest \in Seq(Range(t.manifest))
    BY DEF LinkFits
  <2>2. Range(t.manifest) = {t.manifest[m] : m \in 1..Len(t.manifest)}
    BY <2>1, RangeEquality
  <2> QED
    BY <2>2
<1>4. PICK p \in 1..n : units[p].of = b.owner
  BY <1>2, <1>3
<1>5. n \in Nat
  BY <1>2
<1>6. ASSUME NEW i \in 1..p, NEW k \in 1..(i - 1) PROVE units[k].of # b.owner
  <2>1. k \in 1..n /\ k # p
    BY <1>4, <1>5
  <2> QED
    BY <1>2, <1>4, <2>1
<1> QED
  BY <1>4, <1>6 DEF units

\* The units before a built-in's own, and that.
UpToOwn(t, u) ==
  {UnitsFor(t)[i].of : i \in {i \in DOMAIN UnitsFor(t) :
                                \A k \in 1..(i - 1) : UnitsFor(t)[k].of # u}}

LEMMA FromItsOwn ==
  ASSUME NEW t, LinkFits(t), Problems(t.manifest, t.archives) = {},
         NEW b \in Range(t.manifest), Plain(b.symbol) \in DOMAIN LinkedFor(t).from,
         \A u \in UpToOwn(t, b.owner) : HasTable(t.archives[u]),
         Underscored(b.symbol) \notin t.archives[b.owner].exports
  PROVE  LinkedFor(t).from[Plain(b.symbol)] = <<"unit", b.owner>>
<1> DEFINE units == UnitsFor(t)
<1>1. PICK p \in 1..Len(units) :
        /\ units[p].of = b.owner
        /\ \A i \in 1..p : \A k \in 1..(i - 1) : units[k].of # b.owner
  BY OwnUnitIs
<1>2. units \in Seq(Range(units))
  <2>1. UnitsOf(units, t.manifest, t.runtimeDeps, t.flavor, Len(t.manifest))
    BY TaskIs
  <2> HIDE DEF units
  <2> QED
    BY <2>1 DEF UnitsOf
<1>3. ASSUME NEW i \in 1..p PROVE HasTable(t.archives[units[i].of])
  <2>1. i \in DOMAIN units
    BY <1>2
  <2>2. units[i].of \in UpToOwn(t, b.owner)
    BY <1>1, <2>1 DEF UpToOwn
  <2> QED
    BY <2>2
<1>4. OwnUnitAt(t, b, p)
  BY <1>1, <1>3 DEF OwnUnitAt
<1> QED
  BY <1>4, OwnOrNone

\* Every table can be read, no symbol is another's but for an underscore, and what
\* the code of a unit calls is in a library that the unit brings with it.
Declares(t) ==
  /\ \A u \in Owners(t.manifest) :
       HasTable(t.archives[u]) /\ \A s \in t.archives[u].exports : s[1] = "plain"
  /\ \A i \in 1..Len(UnitsFor(t)) : \A x \in t.calls[UnitsFor(t)[i].of] :
       \E dep \in Range(UnitsFor(t)[i].deps) : x = OfSystem(dep[2])

\* What an argument wants is a built-in, or offered by a later argument.
LEMMA WantsAre ==
  ASSUME NEW t, LinkFits(t), Declares(t), NEW i \in 1..Len(ArgsFor(t)),
         NEW x \in Wanted(ArgsFor(t), t.manifest, t.calls, i)
  PROVE  \/ \E b \in Range(t.manifest) : x = Plain(b.symbol)
         \/ \E j \in (i + 1)..Len(ArgsFor(t)) : x \in Offered(ArgsFor(t), t.archives, j)
<1> DEFINE args == ArgsFor(t)
           units == UnitsFor(t)
           n == Len(units)
<1>1. /\ units \in Seq(Range(units)) /\ units # <<>>
  <2>1. UnitsOf(units, t.manifest, t.runtimeDeps, t.flavor, Len(t.manifest))
    BY TaskIs
  <2> HIDE DEF units
  <2> QED
    BY <2>1 DEF UnitsOf
<1>2. /\ Len(args) > n /\ args[1] = <<"objects">> /\ Len(args) \in Nat
      /\ \A j \in 1..n : args[j + 1] = <<"unit", units[j].of>>
      /\ \A j \in (n + 2)..Len(args) :
           args[j] \in {<<"out">>, <<"/link">>} \cup Range(AllDeps(units))
      /\ \A dep \in Range(AllDeps(units)) : \E j \in (n + 2)..Len(args) :
           /\ args[j] = dep
           /\ dep[1] = "option" /\ t.flavor = "msvc" => \E k \in 1..(j - 1) : args[k] = <<"/link">>
  <2>1. ArgsOf(args, units, t.flavor)
    BY TaskIs
  <2> HIDE DEF args, units
  <2>2. Len(args) \in Nat
    BY <2>1 DEF ArgsOf
  <2> QED
    BY <2>1, <2>2 DEF ArgsOf
<1>3. /\ \A dep \in Range(AllDeps(units)) : IsSystem(dep, t.flavor)
      /\ \A k \in 1..n : \A dep \in Range(units[k].deps) : dep \in Range(AllDeps(units))
  BY TaskIs
<1>4. \A k \in 1..n : \A y \in t.calls[units[k].of] :
        \E dep \in Range(units[k].deps) : y = OfSystem(dep[2])
  BY DEF Declares
<1>5. x \in Wanted(args, t.manifest, t.calls, i) /\ i \in 1..Len(args)
  OBVIOUS
<1> HIDE DEF args, units
<1>6. n \in Nat
  BY <1>1
<1>7. args[i][1] = "unit"
  BY <1>5 DEF Wanted
<1>8. i # 1
  BY <1>2, <1>7
<1>9. i \notin (n + 2)..Len(args)
  <2>1. \A dep \in Range(AllDeps(units)) : dep[1] # "unit"
    BY <1>3 DEF IsSystem
  <2> QED
    BY <1>2, <1>7, <2>1
<1> DEFINE k == i - 1
<1>10. k \in 1..n /\ k + 1 = i
  BY <1>2, <1>5, <1>6, <1>8, <1>9
<1> HIDE DEF k
<1> DEFINE u == units[k].of
<1>11. args[i] = <<"unit", u>>
  BY <1>2, <1>10
<1>12. x \in t.calls[u] \/ \E b \in Range(t.manifest) : x = Plain(b.symbol)
  <2> HIDE DEF u
  <2>1. x \in t.calls[u] \/ x \in {Plain(b.symbol) : b \in Range(t.manifest)}
    BY <1>5, <1>11 DEF Wanted
  <2> QED
    BY <2>1
<1>13. ASSUME x \in t.calls[u] PROVE \E j \in (i + 1)..Len(args) : x \in Offered(args, t.archives, j)
  <2>1. PICK dep \in Range(units[k].deps) : x = OfSystem(dep[2])
    BY <1>4, <1>10, <1>13
  <2>2. dep \in Range(AllDeps(units)) /\ IsSystem(dep, t.flavor)
    BY <1>3, <1>10
  <2>3. PICK j \in (n + 2)..Len(args) :
          /\ args[j] = dep
          /\ dep[1] = "option" /\ t.flavor = "msvc" => \E m \in 1..(j - 1) : args[m] = <<"/link">>
    BY <1>2, <2>2
  <2>4. j \in (i + 1)..Len(args)
    BY <1>6, <1>10, <1>2
  <2>5. Honoured(args, j)
    <3>1. CASE dep[1] = "lib"
      BY <2>3, <3>1 DEF Honoured
    <3>2. CASE dep[1] = "option" /\ t.flavor = "msvc"
      <4>1. PICK m \in 1..(j - 1) : args[m] = <<"/link">>
        BY <2>3, <3>2
      <4>2. args[m][1] = "/link"
        BY <4>1
      <4> QED
        BY <4>2 DEF Honoured
    <3> QED
      BY <2>2, <3>1, <3>2 DEF IsSystem
  <2>6. Offered(args, t.archives, j) = {OfSystem(dep[2])}
    <3>1. args[j][1] \in {"lib", "option"}
      BY <2>2, <2>3 DEF IsSystem
    <3> QED
      BY <2>3, <2>5, <3>1 DEF Offered
  <2>7. x \in Offered(args, t.archives, j)
    BY <2>1, <2>6
  <2> QED
    BY <2>4, <2>7
<1> QED
  BY <1>12, <1>13 DEF args

\* What is still needed is a built-in, or offered by a later argument.
Expected(t, state, i) ==
  \A x \in state.needed :
    \/ \E b \in Range(t.manifest) : x = Plain(b.symbol)
    \/ \E j \in (i + 1)..Len(ArgsFor(t)) : x \in Offered(ArgsFor(t), t.archives, j)

LEMMA AllExpected ==
  ASSUME NEW t, LinkFits(t), Declares(t), NEW h, LinksTask(h, t)
  PROVE  \A i \in 0..Len(ArgsFor(t)) : Expected(t, h[i], i)
<1> DEFINE args == ArgsFor(t)
           n == Len(args)
           T == {i \in Nat : i <= n => Expected(t, h[i], i)}
<1>1. n \in Nat
  <2>1. ArgsOf(args, UnitsFor(t), t.flavor)
    BY TaskIs
  <2> HIDE DEF args
  <2>2. args \in Seq(Range(args))
    BY <2>1 DEF ArgsOf
  <2> QED
    BY <2>2
<1>2. 0 \in T
  <2>1. h[0] = Start(t.used)
    BY DEF LinksTask, LinksBy
  <2>2. ASSUME NEW x \in h[0].needed PROVE \E b \in Range(t.manifest) : x = Plain(b.symbol)
    <3>1. PICK s \in t.used : x = Plain(s)
      BY <2>1 DEF Start
    <3>2. s \in {b.symbol : b \in Range(t.manifest)}
      BY DEF LinkFits
    <3> QED
      BY <3>1, <3>2
  <2>3. Expected(t, h[0], 0)
    BY <2>2 DEF Expected
  <2> QED
    BY <2>3
<1>3. ASSUME NEW k \in Nat, k \in T PROVE k + 1 \in T
  <2> SUFFICES ASSUME k + 1 <= n PROVE Expected(t, h[k + 1], k + 1)
    BY <1>3
  <2> DEFINE i == k + 1
             old == h[k]
             new == h[i]
             arg == args[i]
             offers == Offered(args, t.archives, i)
             wants == Wanted(args, t.manifest, t.calls, i)
  <2>1. i \in 1..n /\ i - 1 = k
    BY <1>1
  <2>2. Expected(t, old, k)
    BY <1>1, <1>3
  <2>3. new = Pull(old, arg, offers, wants)
    BY <2>1 DEF LinksTask, LinksBy
  <2>4. ASSUME NEW x \in new.needed
        PROVE  \/ \E b \in Range(t.manifest) : x = Plain(b.symbol)
               \/ \E j \in (i + 1)..n : x \in Offered(args, t.archives, j)
    <3>1. x \notin offers /\ (x \in old.needed \/ x \in wants)
      <4> HIDE DEF offers, wants, arg, old, new
      <4> QED
        BY <2>3, <2>4, PullIs
    <3>2. CASE x \in wants
      BY <2>1, <3>2, WantsAre
    <3>3. CASE x \in old.needed
      <4>1. CASE \E b \in Range(t.manifest) : x = Plain(b.symbol)
        BY <4>1
      <4>2. CASE \E j \in (k + 1)..n : x \in Offered(args, t.archives, j)
        <5>1. PICK j \in (k + 1)..n : x \in Offered(args, t.archives, j)
          BY <4>2
        <5>2. j # i
          BY <3>1, <5>1
        <5>3. j \in (i + 1)..n
          BY <1>1, <5>2
        <5> QED
          BY <5>1, <5>3
      <4> QED
        BY <2>2, <3>3, <4>1, <4>2 DEF Expected
    <3> QED
      BY <3>1, <3>2, <3>3
  <2> QED
    BY <2>4 DEF Expected
<1> HIDE DEF T, n
<1>4. ASSUME NEW i \in 0..n PROVE Expected(t, h[i], i)
  <2>1. i \in Nat /\ i <= n
    BY <1>1
  <2>2. i \in T
    BY <1>2, <1>3, <2>1, AllNumbers
  <2> QED
    BY <2>1, <2>2 DEF T
<1> QED
  BY <1>4 DEF n

\* So a link that passed the check leaves nothing that is needed.
LEMMA NothingIsNeeded ==
  ASSUME NEW t, LinkFits(t), Problems(t.manifest, t.archives) = {}, Declares(t)
  PROVE  LinkedFor(t).needed = {}
<1> DEFINE n == Len(ArgsFor(t))
<1>1. PICK h : LinksTask(h, t) /\ LinkedFor(t) = h[n]
  BY LinkedIs
<1>2. n \in Nat
  <2>1. ArgsOf(ArgsFor(t), UnitsFor(t), t.flavor)
    BY TaskIs
  <2>2. ArgsFor(t) \in Seq(Range(ArgsFor(t)))
    BY <2>1 DEF ArgsOf
  <2> QED
    BY <2>2
<1>3. Expected(t, h[n], n)
  <2>1. n \in 0..n
    BY <1>2
  <2> QED
    BY <1>1, <2>1, AllExpected
<1>4. ASSUME NEW b \in Range(t.manifest) PROVE Plain(b.symbol) \notin h[n].needed
  <2>1. PICK p \in 1..Len(UnitsFor(t)) : UnitsFor(t)[p].of = b.owner
    BY OwnUnitIs
  <2>2. \A i \in 1..Len(UnitsFor(t)) : UnitsFor(t)[i].of \in Owners(t.manifest)
    BY TaskIs
  <2>3. UnitsFor(t) \in Seq(Range(UnitsFor(t)))
    <3>1. UnitsOf(UnitsFor(t), t.manifest, t.runtimeDeps, t.flavor, Len(t.manifest))
      BY TaskIs
    <3> QED
      BY <3>1 DEF UnitsOf
  <2>4. \A i \in 1..p : i \in 1..Len(UnitsFor(t))
    BY <2>1, <2>3
  <2>5. \A i \in 1..p : HasTable(t.archives[UnitsFor(t)[i].of])
    BY <2>2, <2>4 DEF Declares
  <2>6. Underscored(b.symbol) \notin t.archives[b.owner].exports
    <3>1. b.owner \in Owners(t.manifest)
      BY DEF Owners
    <3>2. Underscored(b.symbol)[1] # "plain"
      BY DEF Underscored
    <3> QED
      BY <3>1, <3>2 DEF Declares
  <2>7. OwnUnitAt(t, b, p)
    BY <2>1, <2>5, <2>6 DEF OwnUnitAt
  <2> QED
    BY <1>1, <2>7, OwnOrNone
<1>5. \A j \in (n + 1)..n : FALSE
  BY <1>2
<1>6. h[n].needed = {}
  BY <1>3, <1>4, <1>5 DEF Expected
<1> QED
  BY <1>1, <1>6

-----------------------------------------------------------------------------
(* Paths                                                                   *)

\* h is the way along a path, to where each of its characters leads.
Walks(h, path) ==
  /\ h[0] = [part |-> <<>>, depth |-> 0]
  /\ \A i \in 1..Len(path) : h[i] = Walk(h[i - 1], path[i])

LEMMA DepthIs ==
  ASSUME NEW path \in Digits
  PROVE  \E h : /\ Walks(h, Append(path, Slash))
                /\ Depth(path) = h[Len(path) + 1].depth
<1> DEFINE seq == Append(path, Slash)
           n == Len(path) + 1
           base == [part |-> <<>>, depth |-> 0]
           A == [part : Digits, depth : Int]
           Step(st, i) == Walk(st, seq[i])
           G == [q \in A \X (1..n) |-> Step(q[1], q[2])]
           f == CHOOSE g : g = [s \in SUBSET (DOMAIN seq) |->
                  IF s = {} THEN base ELSE Walk(g[s \ {Max(s)}], seq[Max(s)])]
<1>1. Depth(path) = f[DOMAIN seq].depth
  BY Zenon DEF Depth, FoldLeft, MapThenFoldSet
<1>2. n \in Nat /\ seq \in Digits /\ Len(seq) = n /\ DOMAIN seq = 1..n
  <2>1. Slash \in Digit
    BY BaseIsEnough DEF Digit, Slash
  <2> QED
    BY <2>1 DEF Digits
<1>3. base \in A
  BY DEF Digits
<1>4. ASSUME NEW st \in A, NEW i \in 1..n PROVE Step(st, i) \in A
  <2>1. seq[i] \in Digit
    BY <1>2 DEF Digits
  <2>2. Append(st.part, seq[i]) \in Digits
    BY <2>1 DEF Digits
  <2>3. Deeper(st.depth, st.part) \in Int
    BY DEF Deeper
  <2>4. <<>> \in Digits
    BY DEF Digits
  <2> QED
    BY <2>2, <2>3, <2>4 DEF Walk
<1> HIDE DEF A, base, n, Step, seq
<1>5. G \in [A \X (1..n) -> A]
  BY <1>4
<1>6. \A st \in A, i \in 1..n : G[<<st, i>>] = Step(st, i)
  OBVIOUS
<1> HIDE DEF G
<1>7. PICK g \in [SUBSET (1..n) -> A] : Accumulates(g, G, base, n)
  BY <1>2, <1>3, <1>5, AccumulatesExists DEF CanAccumulate
<1>8. g = [s \in SUBSET (1..n) |->
             IF s = {} THEN base ELSE Walk(g[s \ {Max(s)}], seq[Max(s)])]
  <2>1. ASSUME NEW s \in SUBSET (1..n), s # {}
        PROVE  g[s] = Walk(g[s \ {Max(s)}], seq[Max(s)])
    <3>1. Max(s) \in 1..n
      BY <1>2, <2>1, MaxIs
    <3>2. g[s \ {Max(s)}] \in A
      OBVIOUS
    <3>3. g[s] = G[<<g[s \ {Max(s)}], Max(s)>>]
      BY <1>7, <2>1 DEF Accumulates
    <3> QED
      BY <1>6, <3>1, <3>2, <3>3 DEF Step
  <2>2. g[{}] = base
    BY <1>7 DEF Accumulates
  <2> QED
    BY <2>1, <2>2
<1>9. f = [s \in SUBSET (1..n) |->
             IF s = {} THEN base ELSE Walk(f[s \ {Max(s)}], seq[Max(s)])]
  BY <1>2, <1>8, ZenonT(30)
<1> HIDE DEF f
<1> DEFINE h == [i \in 0..n |-> f[1..i]]
<1>10. h[0] = base
  <2>1. 1..0 = {} /\ 0 \in 0..n /\ {} \in SUBSET (1..n)
    BY <1>2
  <2> QED
    BY <1>9, <2>1
<1>11. ASSUME NEW i \in 1..n PROVE h[i] = Walk(h[i - 1], seq[i])
  <2>1. i \in Nat \ {0} /\ i \in 0..n /\ i - 1 \in 0..n /\ 1..i \in SUBSET (1..n)
    BY <1>2
  <2>2. 1..i # {} /\ Max(1..i) = i /\ (1..i) \ {i} = 1..(i - 1)
    BY <2>1, MaxOfFirst
  <2>3. f[1..i] = Walk(f[(1..i) \ {Max(1..i)}], seq[Max(1..i)])
    BY <1>9, <2>1, <2>2
  <2>4. f[1..i] = Walk(f[1..(i - 1)], seq[i])
    BY <2>2, <2>3
  <2> QED
    BY <2>1, <2>4
<1>12. Depth(path) = h[n].depth
  <2>1. n \in 0..n
    BY <1>2
  <2> QED
    BY <1>1, <1>2, <2>1
<1> HIDE DEF h
<1>13. Walks(h, seq)
  BY <1>2, <1>10, <1>11 DEF Walks, base
<1> QED
  BY <1>12, <1>13 DEF n, seq

\* c is where the part of a path begins that its i-th character is in, or ends at.
PartFrom(path, c, i) ==
  /\ c \in 0..i /\ (c = 0 \/ path[c] = Slash)
  /\ \A k \in (c + 1)..i : path[k] # Slash

\* A part ends with the i-th character.
EndsAt(path, i) == i = Len(path) \/ path[i + 1] = Slash

LEMMA PartsOfSafe ==
  ASSUME NEW path \in Digits, IsSafeRelativePath(path),
         NEW i \in 0..Len(path), NEW c, PartFrom(path, c, i),
         EndsAt(path, i)
  PROVE  SubSeq(path, c + 1, i) \notin {<<>>, <<Dot>>, <<Dot, Dot>>}
<1>1. Len(path) \in Nat /\ DOMAIN path = 1..Len(path)
  BY DEF Digits
<1>0. i \in Nat /\ i <= Len(path) /\ c \in Nat /\ c <= i
  BY <1>1 DEF PartFrom
<1> DEFINE cuts == {0, Len(path) + 1} \cup {k \in DOMAIN path : path[k] = Slash}
           ends(k) == {j \in cuts : k < j /\ \A x \in cuts : x <= k \/ x >= j}
<1>2. c \in cuts /\ i + 1 \in cuts
  <2>1. i + 1 = Len(path) + 1 \/ i + 1 \in 1..Len(path)
    BY <1>0, <1>1
  <2>2. c \in cuts
    BY <1>0, <1>1 DEF PartFrom
  <2>3. CASE i + 1 = Len(path) + 1
    BY <2>2, <2>3
  <2>4. CASE i + 1 # Len(path) + 1
    <3>1. i + 1 \in 1..Len(path) /\ path[i + 1] = Slash
      BY <1>0, <1>1, <2>1, <2>4 DEF EndsAt
    <3> QED
      BY <1>1, <2>2, <3>1
  <2> QED
    BY <2>3, <2>4
<1>3. \A x \in cuts : x <= c \/ x >= i + 1
  <2> SUFFICES ASSUME NEW x \in cuts, c < x, x < i + 1 PROVE FALSE
    BY <1>0, <1>1
  <2>1. x \in (c + 1)..i /\ path[x] = Slash
    BY <1>0, <1>1
  <2> QED
    BY <2>1 DEF PartFrom
<1>4. i + 1 \in ends(c)
  BY <1>0, <1>1, <1>2, <1>3
<1>5. Parts(path) = UNION {{SubSeq(path, k + 1, j - 1) : j \in ends(k)} : k \in cuts}
  BY Zenon DEF Parts
<1>6. SubSeq(path, c + 1, (i + 1) - 1) \in Parts(path)
  <2> DEFINE all == {{SubSeq(path, k + 1, j - 1) : j \in ends(k)} : k \in cuts}
             from == {SubSeq(path, c + 1, j - 1) : j \in ends(c)}
  <2>1. SubSeq(path, c + 1, (i + 1) - 1) \in from
    BY <1>4, Zenon
  <2>2. from \in all
    BY <1>2, Zenon
  <2> HIDE DEF from
  <2>3. SubSeq(path, c + 1, (i + 1) - 1) \in UNION all
    BY <2>1, <2>2, Zenon
  <2> QED
    BY <1>5, <2>3, Zenon
<1>7. (i + 1) - 1 = i
  BY <1>0
<1> QED
  BY <1>6, <1>7 DEF IsSafeRelativePath

\* Along a safe path, a part is read and the depth is that of no directory above.
OnTheWay(path, at, i) ==
  /\ at.depth \in Nat
  /\ \E c : PartFrom(path, c, i) /\ at.part = SubSeq(path, c + 1, i)

LEMMA DeeperByOne ==
  ASSUME NEW d \in Nat, NEW part, part \notin {<<>>, <<Dot>>, <<Dot, Dot>>}
  PROVE  Deeper(d, part) = d + 1
BY DEF Deeper

LEMMA SafeIsInside ==
  ASSUME NEW path \in Digits, IsSafeRelativePath(path)
  PROVE  path[1] # Slash /\ Special \notin Range(path) /\ Depth(path) > 0
<1> DEFINE n == Len(path)
           seq == Append(path, Slash)
<1>1. n \in Nat \ {0} /\ DOMAIN path = 1..n
  BY DEF IsSafeRelativePath, Digits
<1>2. \A i \in 1..n : seq[i] = path[i] /\ path[i] \in Digit
  BY DEF Digits
<1>3. seq[n + 1] = Slash /\ Len(seq) = n + 1
  BY DEF Digits
<1>4. path[1] # Slash
  <2> SUFFICES ASSUME path[1] = Slash PROVE FALSE
    OBVIOUS
  <2>1. PartFrom(path, 0, 0) /\ 0 \in 0..n /\ EndsAt(path, 0)
    BY <1>1 DEF PartFrom, EndsAt
  <2>2. SubSeq(path, 0 + 1, 0) = <<>>
    BY DEF Digits
  <2> QED
    BY <2>1, <2>2, PartsOfSafe
<1>5. PICK h : Walks(h, seq) /\ Depth(path) = h[n + 1].depth
  BY DepthIs
<1> HIDE DEF seq
<1>6. ASSUME NEW i \in 0..n, OnTheWay(path, h[i], i), EndsAt(path, i)
      PROVE  Deeper(h[i].depth, h[i].part) = h[i].depth + 1
  <2>1. PICK c : PartFrom(path, c, i) /\ h[i].part = SubSeq(path, c + 1, i)
    BY <1>6 DEF OnTheWay
  <2>2. h[i].part \notin {<<>>, <<Dot>>, <<Dot, Dot>>}
    BY <1>6, <2>1, PartsOfSafe
  <2>3. h[i].depth \in Nat
    BY <1>6 DEF OnTheWay
  <2> QED
    BY <2>2, <2>3, DeeperByOne
<1>7. OnTheWay(path, h[0], 0)
  <2>1. PartFrom(path, 0, 0)
    BY DEF PartFrom
  <2>2. SubSeq(path, 0 + 1, 0) = <<>>
    BY DEF Digits
  <2>3. h[0].depth \in Nat /\ h[0].part = <<>>
    BY <1>5 DEF Walks
  <2> QED
    BY <2>1, <2>2, <2>3 DEF OnTheWay
<1>8. ASSUME NEW i \in 0..(n - 1), OnTheWay(path, h[i], i) PROVE OnTheWay(path, h[i + 1], i + 1)
  <2>1. i + 1 \in 1..n /\ (i + 1) - 1 = i /\ i \in 0..n
    BY <1>1
  <2>2. h[i + 1] = Walk(h[i], path[i + 1])
    BY <1>2, <1>3, <1>5, <2>1 DEF Walks
  <2>3. CASE path[i + 1] = Slash
    <3>1. Deeper(h[i].depth, h[i].part) = h[i].depth + 1
      BY <1>6, <1>8, <2>1, <2>3 DEF EndsAt
    <3>2. PartFrom(path, i + 1, i + 1)
      BY <2>1, <2>3 DEF PartFrom
    <3>3. SubSeq(path, (i + 1) + 1, i + 1) = <<>>
      BY <2>1 DEF Digits
    <3>4. h[i + 1].depth = h[i].depth + 1 /\ h[i + 1].part = <<>>
      BY <2>2, <2>3, <3>1 DEF Walk
    <3>5. h[i].depth \in Nat
      BY <1>8 DEF OnTheWay
    <3>6. h[i + 1].depth \in Nat
      BY <3>4, <3>5
    <3> QED
      BY <3>2, <3>3, <3>4, <3>6 DEF OnTheWay
  <2>4. CASE path[i + 1] # Slash
    <3>1. PICK c : PartFrom(path, c, i) /\ h[i].part = SubSeq(path, c + 1, i)
      BY <1>8 DEF OnTheWay
    <3>2. PartFrom(path, c, i + 1)
      BY <2>1, <2>4, <3>1 DEF PartFrom
    <3>3. h[i + 1].depth = h[i].depth /\ h[i + 1].part = Append(h[i].part, path[i + 1])
      BY <2>2, <2>4 DEF Walk
    <3>4. Append(SubSeq(path, c + 1, i), path[i + 1]) = SubSeq(path, c + 1, i + 1)
      BY <1>1, <2>1, <3>1 DEF PartFrom, Digits
    <3>5. h[i].depth \in Nat
      BY <1>8 DEF OnTheWay
    <3> QED
      BY <3>1, <3>2, <3>3, <3>4, <3>5 DEF OnTheWay
  <2> QED
    BY <2>3, <2>4
<1> DEFINE T == {i \in Nat : i <= n => OnTheWay(path, h[i], i)}
<1>9. ASSUME NEW i \in Nat, i \in T PROVE i + 1 \in T
  <2>1. i + 1 \in Nat
    OBVIOUS
  <2> SUFFICES ASSUME i + 1 <= n PROVE OnTheWay(path, h[i + 1], i + 1)
    BY <2>1
  <2>2. i \in 0..(n - 1) /\ i <= n
    BY <1>1
  <2>3. OnTheWay(path, h[i], i)
    BY <1>9, <2>2
  <2> QED
    BY <1>8, <2>2, <2>3
<1>10. n \in T
  <2>1. 0 \in T
    BY <1>7
  <2> HIDE DEF T
  <2> QED
    BY <1>1, <1>9, <2>1, AllNumbers
<1>11. OnTheWay(path, h[n], n) /\ n \in 0..n
  BY <1>1, <1>10
<1>12. Depth(path) > 0
  <2>1. Deeper(h[n].depth, h[n].part) = h[n].depth + 1
    BY <1>6, <1>11 DEF EndsAt
  <2>2. h[n + 1] = Walk(h[n], Slash)
    <3>1. n + 1 \in 1..(n + 1) /\ (n + 1) - 1 = n
      BY <1>1
    <3> QED
      BY <1>3, <1>5, <3>1 DEF Walks
  <2>3. h[n + 1].depth = h[n].depth + 1
    BY <2>1, <2>2 DEF Walk
  <2>4. h[n].depth \in Nat
    BY <1>11 DEF OnTheWay
  <2> QED
    BY <1>5, <2>3, <2>4
<1> QED
  BY <1>4, <1>12 DEF IsSafeRelativePath

-----------------------------------------------------------------------------
(* The order of paths                                                      *)

\* p is below q at their first difference, or ends there.
BelowAt(p, q, i) ==
  /\ \A k \in 1..(i - 1) : k <= Len(p) /\ p[k] = q[k]
  /\ (i = Len(p) + 1) \/ (i <= Len(p) /\ p[i] < q[i])
Below(p, q) == \E i \in 1..Len(q) : BelowAt(p, q, i)

LEMMA SameStart ==
  ASSUME NEW p \in Digits, NEW q \in Digits, NEW n \in Nat, n <= Len(p), n <= Len(q)
  PROVE  SubSeq(p, 1, n) = SubSeq(q, 1, n) <=> \A k \in 1..n : p[k] = q[k]
<1> DEFINE a == SubSeq(p, 1, n)
           b == SubSeq(q, 1, n)
<1>1. a \in Digits /\ Len(a) = n /\ \A k \in 1..n : a[k] = p[k]
  BY DEF Digits
<1>2. b \in Digits /\ Len(b) = n /\ \A k \in 1..n : b[k] = q[k]
  BY DEF Digits
<1> HIDE DEF a, b
<1>3. ASSUME \A k \in 1..n : p[k] = q[k] PROVE a = b
  <2>1. \A k \in 1..n : a[k] = b[k]
    BY <1>1, <1>2, <1>3
  <2> QED
    BY <1>1, <1>2, <2>1 DEF Digits
<1>4. (a = b) => \A k \in 1..n : p[k] = q[k]
  BY <1>1, <1>2
<1>5. (a = b) <=> \A k \in 1..n : p[k] = q[k]
  BY <1>3, <1>4
<1> QED
  BY <1>5 DEF a, b

LEMMA BeforeIs ==
  ASSUME NEW f, NEW g, f.path \in Digits, g.path \in Digits
  PROVE  Before(f, g) <=> Below(f.path, g.path)
<1> DEFINE p == f.path
           q == g.path
           n == Len(p)
           m == Len(q)
           least == IF n < m THEN n ELSE m
<1>1. n \in Nat /\ m \in Nat /\ least \in Nat /\ least <= n /\ least <= m
  BY DEF Digits
<1>2. n < m /\ SubSeq(q, 1, n) = p => BelowAt(p, q, n + 1) /\ n + 1 \in 1..m
  <2> SUFFICES ASSUME n < m, SubSeq(q, 1, n) = p PROVE BelowAt(p, q, n + 1) /\ n + 1 \in 1..m
    OBVIOUS
  <2>1. \A k \in 1..n : q[k] = p[k]
    <3>1. SubSeq(p, 1, n) = p
      BY DEF Digits
    <3>2. SubSeq(q, 1, n) = SubSeq(p, 1, n)
      BY <3>1
    <3> HIDE DEF p, q, n
    <3> QED
      BY <1>1, <3>2, SameStart DEF n, p, q
  <2>2. (n + 1) - 1 = n /\ n + 1 \in 1..m
    BY <1>1
  <2> HIDE DEF p, q
  <2> QED
    BY <1>1, <2>1, <2>2 DEF BelowAt
<1>3. ASSUME NEW i \in 1..least
      PROVE  p[i] < q[i] /\ SubSeq(p, 1, i - 1) = SubSeq(q, 1, i - 1) <=>
             p[i] < q[i] /\ \A k \in 1..(i - 1) : p[k] = q[k]
  <2> DEFINE j == i - 1
  <2>1. j \in Nat /\ j <= n /\ j <= m
    BY <1>1
  <2> HIDE DEF j, p, q
  <2>2. SubSeq(p, 1, j) = SubSeq(q, 1, j) <=> \A k \in 1..j : p[k] = q[k]
    BY <2>1, SameStart DEF p, q
  <2> QED
    BY <2>2 DEF j
<1>4. Before(f, g) <=>
        \/ n < m /\ SubSeq(q, 1, n) = p
        \/ \E i \in 1..least : p[i] < q[i] /\ SubSeq(p, 1, i - 1) = SubSeq(q, 1, i - 1)
  BY DEF Before
<1> HIDE DEF p, q
<1>5. ASSUME Before(f, g) PROVE Below(p, q)
  <2>1. CASE n < m /\ SubSeq(q, 1, n) = p
    BY <1>2, <2>1 DEF Below
  <2>2. ASSUME NEW i \in 1..least, p[i] < q[i], \A k \in 1..(i - 1) : p[k] = q[k]
        PROVE  Below(p, q)
    <3>1. BelowAt(p, q, i) /\ i \in 1..m
      BY <1>1, <2>2 DEF BelowAt
    <3> QED
      BY <3>1 DEF Below
  <2> QED
    BY <1>3, <1>4, <1>5, <2>1, <2>2
<1>6. ASSUME NEW i \in 1..m, BelowAt(p, q, i) PROVE Before(f, g)
  <2>1. CASE i = n + 1
    <3>1. n < m /\ \A k \in 1..n : p[k] = q[k]
      BY <1>1, <1>6, <2>1 DEF BelowAt
    <3>2. SubSeq(p, 1, n) = SubSeq(q, 1, n)
      BY <1>1, <3>1, SameStart DEF p, q
    <3>3. SubSeq(p, 1, n) = p
      BY DEF Digits, p
    <3> QED
      BY <1>4, <3>1, <3>2, <3>3
  <2>2. CASE i # n + 1
    <3>1. i \in 1..least /\ p[i] < q[i] /\ \A k \in 1..(i - 1) : p[k] = q[k]
      BY <1>1, <1>6, <2>2 DEF BelowAt
    <3> QED
      BY <1>3, <1>4, <3>1
  <2> QED
    BY <2>1, <2>2
<1> QED
  BY <1>5, <1>6 DEF Below, p, q

LEMMA BelowIsOrder ==
  /\ \A p, q \in Digits : Below(p, q) => ~Below(q, p)
  /\ \A p, q, r \in Digits : Below(p, q) /\ Below(q, r) => Below(p, r)
  /\ \A p, q \in Digits : (p = q) \/ Below(p, q) \/ Below(q, p)
<1>1. ASSUME NEW p \in Digits
      PROVE  Len(p) \in Nat /\ \A i \in 1..Len(p) : p[i] \in Nat
  <2>1. p \in Seq(Digit)
    BY DEF Digits
  <2> QED
    BY <2>1, BaseIsEnough DEF Digit
<1>2. ASSUME NEW p \in Digits, NEW q \in Digits, Below(p, q), Below(q, p) PROVE FALSE
  <2>1. PICK i \in 1..Len(q) : BelowAt(p, q, i)
    BY <1>2 DEF Below
  <2>2. PICK j \in 1..Len(p) : BelowAt(q, p, j)
    BY <1>2 DEF Below
  <2>3. CASE i < j
    BY <1>1, <2>1, <2>2, <2>3 DEF BelowAt
  <2>4. CASE j < i
    BY <1>1, <2>1, <2>2, <2>4 DEF BelowAt
  <2>5. CASE i = j
    BY <1>1, <2>1, <2>2, <2>5 DEF BelowAt
  <2> QED
    BY <1>1, <2>3, <2>4, <2>5
<1>3. ASSUME NEW p \in Digits, NEW q \in Digits, NEW r \in Digits, Below(p, q), Below(q, r)
      PROVE  Below(p, r)
  <2>1. PICK i \in 1..Len(q) : BelowAt(p, q, i)
    BY <1>3 DEF Below
  <2>2. PICK j \in 1..Len(r) : BelowAt(q, r, j)
    BY <1>3 DEF Below
  <2>3. CASE i < j
    <3>1. BelowAt(p, r, i) /\ i \in 1..Len(r)
      BY <1>1, <2>1, <2>2, <2>3 DEF BelowAt
    <3> QED
      BY <3>1 DEF Below
  <2>4. CASE j < i
    <3>1. BelowAt(p, r, j)
      BY <1>1, <2>1, <2>2, <2>4 DEF BelowAt
    <3> QED
      BY <3>1 DEF Below
  <2>5. CASE i = j
    <3>1. BelowAt(p, r, i) /\ i \in 1..Len(r)
      BY <1>1, <2>1, <2>2, <2>5 DEF BelowAt
    <3> QED
      BY <3>1 DEF Below
  <2> QED
    BY <1>1, <2>3, <2>4, <2>5
<1>4. ASSUME NEW p \in Digits, NEW q \in Digits, p # q PROVE Below(p, q) \/ Below(q, p)
  <2> DEFINE T == {k \in Nat \ {0} : k = Len(p) + 1 \/ k = Len(q) + 1 \/ p[k] # q[k]}
  <2>1. Len(p) + 1 \in T /\ T \subseteq Nat
    BY <1>1
  <2>2. PICK i \in T : \A k \in T : i <= k
    BY <2>1, LeastNumber
  <2>3. i \in Nat \ {0} /\ i <= Len(p) + 1 /\ i <= Len(q) + 1
    BY <1>1, <2>2
  <2>4. \A k \in 1..(i - 1) : k <= Len(p) /\ k <= Len(q) /\ p[k] = q[k]
    BY <1>1, <2>2, <2>3
  <2>5. i = Len(p) + 1 \/ i = Len(q) + 1 \/ p[i] # q[i]
    BY <2>2
  <2> HIDE DEF T
  <2>6. CASE i = Len(p) + 1 /\ i = Len(q) + 1
    <3>1. Len(p) = Len(q) /\ \A k \in 1..Len(p) : p[k] = q[k]
      BY <1>1, <2>4, <2>6
    <3>2. p = q
      BY <3>1 DEF Digits
    <3> QED
      BY <1>4, <3>2
  <2>7. CASE i = Len(p) + 1 /\ i <= Len(q)
    BY <1>1, <2>3, <2>4, <2>7 DEF Below, BelowAt
  <2>8. CASE i <= Len(p) /\ i = Len(q) + 1
    BY <1>1, <2>3, <2>4, <2>8 DEF Below, BelowAt
  <2>9. CASE i <= Len(p) /\ i <= Len(q)
    <3>1. p[i] \in Nat /\ q[i] \in Nat /\ p[i] # q[i]
      BY <1>1, <2>3, <2>5, <2>9
    <3>2. i \in 1..Len(p) /\ i \in 1..Len(q)
      BY <1>1, <2>3, <2>9
    <3>3. CASE p[i] < q[i]
      BY <2>4, <3>2, <3>3 DEF Below, BelowAt
    <3>4. CASE q[i] < p[i]
      BY <2>4, <3>2, <3>4 DEF Below, BelowAt
    <3> QED
      BY <3>1, <3>3, <3>4
  <2> QED
    BY <1>1, <2>3, <2>6, <2>7, <2>8, <2>9
<1> QED
  BY <1>2, <1>3, <1>4

-----------------------------------------------------------------------------
(* Sorting                                                                 *)

\* What read_bundle gives for a directory: its files in the order of their paths.
InPathOrder(files) == \A i, j \in 1..Len(files) : i < j => ~Before(files[j], files[i])
OnePerPath(files) == \A i, j \in 1..Len(files) : files[i].path = files[j].path => i = j

LEMMA ReadBundleIs ==
  ASSUME NEW S, NEW dir \in Seq(S), \A f \in S : f.path \in Digits
  PROVE  /\ ReadBundle(dir) \in Seq(S) /\ Len(ReadBundle(dir)) = Len(dir)
         /\ Range(ReadBundle(dir)) = Range(dir)
         /\ InPathOrder(ReadBundle(dir))
         /\ OnePerPath(dir) => OnePerPath(ReadBundle(dir))
<1> DEFINE n == Len(dir)
           R == {x \in (1..n) \X (1..n) : Before(dir[x[1]], dir[x[2]])}
           Good(p) == \A i, j \in 1..n : i < j => ~Before(dir[p[j]], dir[p[i]])
<1>1. n \in Nat /\ \A i \in 1..n : dir[i] \in S /\ dir[i].path \in Digits
  OBVIOUS
<1>2. \A x, y \in 1..n : <<x, y>> \in R <=> Below(dir[x].path, dir[y].path)
  <2> SUFFICES ASSUME NEW x \in 1..n, NEW y \in 1..n
               PROVE  Before(dir[x], dir[y]) <=> Below(dir[x].path, dir[y].path)
    OBVIOUS
  <2>1. dir[x].path \in Digits /\ dir[y].path \in Digits
    BY <1>1
  <2> QED
    BY <2>1, BeforeIs
<1>3. \A x, y \in 1..n : <<x, y>> \in R <=> Before(dir[x], dir[y])
  OBVIOUS
<1> HIDE DEF R
<1>4. PICK p0 : Arranges(p0, R, n)
  <2>1. \A x, y \in 1..n : <<x, y>> \in R => <<y, x>> \notin R
    BY <1>1, <1>2, BelowIsOrder
  <2>2. \A x, y, z \in 1..n : <<x, y>> \in R /\ <<y, z>> \in R => <<x, z>> \in R
    BY <1>1, <1>2, BelowIsOrder
  <2> HIDE DEF n
  <2> QED
    BY <1>1, <2>1, <2>2, CanArrange
<1>5. p0 \in Bijection(1..n, 1..n) /\ Good(p0)
  <2>1. p0 \in Bijection(1..n, 1..n)
    BY <1>4 DEF Arranges
  <2>2. p0 \in [1..n -> 1..n]
    BY <2>1, BijectionIs
  <2> QED
    BY <1>3, <1>4, <2>1, <2>2 DEF Arranges
<1> DEFINE p == CHOOSE p \in Bijection(1..n, 1..n) : Good(p)
<1>6. p \in Bijection(1..n, 1..n) /\ Good(p)
  BY <1>5
<1>7. ReadBundle(dir) = [i \in 1..n |-> dir[p[i]]]
  BY DEF ReadBundle
<1> HIDE DEF p
<1>8. /\ p \in [1..n -> 1..n]
      /\ \A i, j \in 1..n : p[i] = p[j] => i = j
      /\ \A x \in 1..n : \E i \in 1..n : p[i] = x
  BY <1>6, BijectionIs
<1> DEFINE s == ReadBundle(dir)
<1>9. s \in Seq(S) /\ Len(s) = n /\ \A i \in 1..n : s[i] = dir[p[i]]
  <2> HIDE DEF n
  <2>1. \A i \in 1..n : dir[p[i]] \in S
    BY <1>1, <1>8
  <2>2. s = [i \in 1..n |-> dir[p[i]]]
    BY <1>7
  <2> HIDE DEF s
  <2>3. s \in [1..n -> S]
    BY <2>1, <2>2
  <2> QED
    BY <1>1, <2>2, <2>3
<1> HIDE DEF s
<1>10. Range(s) = Range(dir)
  <2>1. Range(s) = {s[i] : i \in 1..n} /\ Range(dir) = {dir[i] : i \in 1..n}
    BY <1>1, <1>9 DEF Range
  <2>2. \A i \in 1..n : \E x \in 1..n : s[i] = dir[x]
    BY <1>8, <1>9
  <2>3. \A x \in 1..n : \E i \in 1..n : s[i] = dir[x]
    BY <1>8, <1>9
  <2> HIDE DEF n
  <2>4. \A y \in Range(s) : y \in Range(dir)
    BY <2>1, <2>2
  <2>5. \A y \in Range(dir) : y \in Range(s)
    BY <2>1, <2>3
  <2> QED
    BY <2>4, <2>5
<1>11. InPathOrder(s)
  BY <1>6, <1>8, <1>9 DEF InPathOrder
<1>12. OnePerPath(dir) => OnePerPath(s)
  <2> SUFFICES ASSUME OnePerPath(dir), NEW i \in 1..n, NEW j \in 1..n, s[i].path = s[j].path
               PROVE  i = j
    BY <1>9 DEF OnePerPath
  <2>1. p[i] \in 1..n /\ p[j] \in 1..n /\ dir[p[i]].path = dir[p[j]].path
    BY <1>8, <1>9
  <2>2. p[i] = p[j]
    BY <2>1 DEF OnePerPath
  <2> QED
    BY <1>8, <2>2
<1> QED
  BY <1>9, <1>10, <1>11, <1>12 DEF s

\* There is one way to sort files of different paths.
LEMMA SortedOnce ==
  ASSUME NEW S, NEW s \in Seq(S), NEW t \in Seq(S), \A f \in S : f.path \in Digits,
         Len(s) = Len(t), Range(s) = Range(t),
         InPathOrder(s), InPathOrder(t), OnePerPath(s), OnePerPath(t)
  PROVE  s = t
<1> DEFINE n == Len(s)
           T == {k \in Nat : \A i \in 1..n : i <= k => s[i] = t[i]}
<1>1. n \in Nat /\ Len(t) = n /\ \A i \in 1..n : s[i].path \in Digits /\ t[i].path \in Digits
  OBVIOUS
<1>2. /\ \A i \in 1..n : \E j \in 1..n : s[i] = t[j]
      /\ \A i \in 1..n : \E j \in 1..n : t[i] = s[j]
  <2>1. Range(s) = {s[i] : i \in 1..n} /\ Range(t) = {t[i] : i \in 1..n}
    BY <1>1 DEF Range
  <2> QED
    BY <2>1
<1>3. 0 \in T
  OBVIOUS
<1>4. ASSUME NEW k \in Nat, k \in T, k + 1 <= n PROVE s[k + 1] = t[k + 1]
  <2> DEFINE m == k + 1
  <2>1. m \in 1..n /\ \A i \in 1..n : i < m => s[i] = t[i]
    BY <1>4
  <2> HIDE DEF m
  <2>2. PICK i \in 1..n : s[m] = t[i]
    BY <1>2, <2>1
  <2>3. PICK j \in 1..n : t[m] = s[j]
    BY <1>2, <2>1
  <2>4. i >= m /\ j >= m
    BY <1>1, <2>1, <2>2, <2>3 DEF OnePerPath
  <2>5. CASE i = m \/ j = m
    BY <2>2, <2>3, <2>5 DEF m
  <2>6. CASE i > m /\ j > m
    <3>1. ~Before(t[i], t[m]) /\ ~Before(s[j], s[m])
      BY <1>1, <2>1, <2>6 DEF InPathOrder
    <3>2. ~Before(s[m], t[m]) /\ ~Before(t[m], s[m])
      BY <2>2, <2>3, <3>1
    <3>3. ~Below(s[m].path, t[m].path) /\ ~Below(t[m].path, s[m].path)
      BY <1>1, <2>1, <3>2, BeforeIs
    <3>4. s[m].path = t[m].path
      BY <1>1, <2>1, <3>3, BelowIsOrder
    <3>5. t[i].path = t[m].path
      BY <2>2, <3>4
    <3> QED
      BY <1>1, <2>1, <2>6, <3>5 DEF OnePerPath
  <2> QED
    BY <2>1, <2>4, <2>5, <2>6 DEF m
<1>5. ASSUME NEW k \in Nat, k \in T PROVE k + 1 \in T
  <2>1. \A i \in 1..n : i <= k + 1 => i <= k \/ i = k + 1
    OBVIOUS
  <2> QED
    BY <1>4, <1>5, <2>1
<1>6. n \in T
  <2> HIDE DEF T
  <2> QED
    BY <1>1, <1>3, <1>5, AllNumbers
<1>7. \A i \in 1..n : s[i] = t[i]
  BY <1>6
<1> QED
  BY <1>1, <1>7

-----------------------------------------------------------------------------
(* Deployment                                                              *)

\* The bundle of a directory, and those that are packed for the built-ins used.
BundleOf(dirs, n) == [name |-> n, files |-> ReadBundle(dirs[n])]
PackedFor(t) ==
  FlattenSeq([i \in DOMAIN t.used |->
                IF t.used[i].bundle = <<>> THEN <<>> ELSE <<BundleOf(t.dirs, t.used[i].bundle[1])>>])
Prepared(t) == PrepareFor(t.used, t.family, t.path, t.dirs)

\* What is read from a directory has the files that are there, and its order is
\* theirs, whatever the directory's.
LEMMA DirectoryIsRead ==
  ASSUME NEW t, DeployFits(t), NEW n \in DOMAIN t.dirs
  PROVE  /\ t.dirs[n] \in Seq(BundleFile) /\ ReadBundle(t.dirs[n]) \in Seq(BundleFile)
         /\ Range(ReadBundle(t.dirs[n])) = Range(t.dirs[n])
         /\ Reverse(t.dirs[n]) \in Seq(BundleFile)
         /\ Range(Reverse(t.dirs[n])) = Range(t.dirs[n])
         /\ ReadBundle(Reverse(t.dirs[n])) = ReadBundle(t.dirs[n])
<1> DEFINE d == t.dirs[n]
           r == Reverse(d)
<1>1. d \in Seq(BundleFile) /\ OnePerPath(d)
  <2>1. d \in FileList /\ \A i, j \in DOMAIN d : d[i].path = d[j].path => i = j
    BY Zenon DEF DeployFits
  <2> HIDE DEF d
  <2>2. d \in Seq(BundleFile)
    BY <2>1 DEF FileList
  <2>3. DOMAIN d = 1..Len(d)
    BY <2>2
  <2> QED
    BY <2>1, <2>2, <2>3 DEF OnePerPath
<1>2. \A f \in BundleFile : f.path \in Digits
  BY DEF BundleFile, Text
<1> HIDE DEF d
<1> DEFINE m == Len(d)
<1>3. m \in Nat /\ DOMAIN d = 1..m /\ \A i \in 1..m : d[i] \in BundleFile /\ m - i + 1 \in 1..m
  BY <1>1
<1>4. r = [i \in 1..m |-> d[(m - i) + 1]]
  BY DEF Reverse
<1>5. r \in Seq(BundleFile) /\ Len(r) = m /\ \A i \in 1..m : r[i] = d[(m - i) + 1]
  BY <1>3, <1>4
<1> HIDE DEF r
<1>6. Range(r) = Range(d)
  <2>1. Range(r) = {r[i] : i \in 1..m} /\ Range(d) = {d[i] : i \in 1..m}
    BY <1>3, <1>5 DEF Range
  <2>2. \A i \in 1..m : r[i] = d[(m - i) + 1] /\ (m - i) + 1 \in 1..m
    BY <1>3, <1>5
  <2>3. \A i \in 1..m : d[i] = r[(m - i) + 1] /\ (m - i) + 1 \in 1..m
    <3> SUFFICES ASSUME NEW i \in 1..m PROVE d[i] = r[(m - i) + 1] /\ (m - i) + 1 \in 1..m
      OBVIOUS
    <3> DEFINE k == (m - i) + 1
    <3>1. k \in 1..m /\ (m - k) + 1 = i
      BY <1>3
    <3> HIDE DEF k
    <3>2. r[k] = d[i]
      BY <1>5, <3>1
    <3> QED
      BY <3>1, <3>2 DEF k
  <2> HIDE DEF m
  <2> QED
    BY <2>1, <2>2, <2>3
<1>7. OnePerPath(r)
  <2> SUFFICES ASSUME NEW i \in 1..m, NEW j \in 1..m, r[i].path = r[j].path PROVE i = j
    BY <1>5 DEF OnePerPath
  <2>1. /\ (m - i) + 1 \in 1..m /\ (m - j) + 1 \in 1..m
        /\ d[(m - i) + 1].path = d[(m - j) + 1].path
    BY <1>3, <1>5
  <2>2. (m - i) + 1 = (m - j) + 1
    BY <1>1, <2>1 DEF OnePerPath
  <2> QED
    BY <1>3, <2>2
<1> HIDE DEF m
<1>8. /\ ReadBundle(d) \in Seq(BundleFile) /\ Len(ReadBundle(d)) = m
      /\ Range(ReadBundle(d)) = Range(d)
      /\ InPathOrder(ReadBundle(d)) /\ OnePerPath(ReadBundle(d))
  BY <1>1, <1>2, ReadBundleIs DEF m
<1>9. /\ ReadBundle(r) \in Seq(BundleFile) /\ Len(ReadBundle(r)) = m
      /\ Range(ReadBundle(r)) = Range(r)
      /\ InPathOrder(ReadBundle(r)) /\ OnePerPath(ReadBundle(r))
  BY <1>2, <1>5, <1>7, ReadBundleIs
<1>10. ReadBundle(r) = ReadBundle(d)
  BY <1>2, <1>6, <1>8, <1>9, SortedOnce
<1> QED
  BY <1>1, <1>5, <1>6, <1>8, <1>10 DEF d, r

\* What is packed fits, and is the bundles of the built-ins used.
LEMMA PackedIs ==
  ASSUME NEW t, DeployFits(t)
  PROVE  /\ HashedAll(PackedFor(t)) \in BundleList
         /\ Len(PackedFor(t)) \in Nat /\ DOMAIN PackedFor(t) = 1..Len(PackedFor(t))
         /\ \A i \in 1..Len(PackedFor(t)) :
              \E n \in DOMAIN t.dirs : PackedFor(t)[i] = BundleOf(t.dirs, n)
         /\ \A b \in Range(t.used) : b.bundle # <<>> =>
              \E i \in 1..Len(PackedFor(t)) : PackedFor(t)[i] = BundleOf(t.dirs, b.bundle[1])
<1> DEFINE used == t.used
           n == Len(used)
           K == {i \in 1..n : used[i].bundle # <<>>}
           V == [i \in K |-> BundleOf(t.dirs, used[i].bundle[1])]
           S == {BundleOf(t.dirs, m) : m \in DOMAIN t.dirs}
           f == [i \in DOMAIN used |->
                  IF used[i].bundle = <<>> THEN <<>> ELSE <<BundleOf(t.dirs, used[i].bundle[1])>>]
<1>1. n \in Nat /\ DOMAIN used = 1..n /\ n \in Digit /\ \A i \in 1..n : used[i] \in Range(used)
  BY DEF DeployFits, Range
<1>2. \A i \in K : used[i].bundle[1] \in DOMAIN t.dirs
  BY <1>1 DEF DeployFits
<1>3. \A i \in K : V[i] = BundleOf(t.dirs, used[i].bundle[1]) /\ V[i] \in S
  BY <1>2
<1>4. f = [i \in 1..n |-> IF i \in K THEN <<V[i]>> ELSE <<>>]
  <2>1. \A i \in 1..n :
          (IF used[i].bundle = <<>> THEN <<>> ELSE <<BundleOf(t.dirs, used[i].bundle[1])>>)
            = IF i \in K THEN <<V[i]>> ELSE <<>>
    <3> HIDE DEF V
    <3> QED
      BY <1>3
  <2> HIDE DEF V
  <2> QED
    BY <1>1, <2>1
<1>5. K \in SUBSET (1..n)
  OBVIOUS
<1>6. PackedFor(t) = FlattenSeq(f)
  BY DEF PackedFor
<1>7. \A s \in S : Hashed(s) \in Bundle
  <2> SUFFICES ASSUME NEW m \in DOMAIN t.dirs PROVE Hashed(BundleOf(t.dirs, m)) \in Bundle
    OBVIOUS
  <2> QED
    BY DEF DeployFits, BundleOf
<1>8. \A b \in Range(used) : b.bundle # <<>> => \E i \in K : b = used[i]
  BY <1>1 DEF Range
<1> DEFINE p == PackedFor(t)
<1>9. \A s \in S : \E m \in DOMAIN t.dirs : s = BundleOf(t.dirs, m)
  OBVIOUS
<1> HIDE DEF f, K, V, S, n, p
<1>10. Keeps(f, n, K, V, S)
  BY <1>1, <1>3, <1>4, <1>5 DEF Keeps
<1>11. p \in Seq(S) /\ Range(p) = {V[i] : i \in K}
  BY <1>6, <1>10, FlattenSeqKept DEF Kept, p
<1>12. Len(p) <= n
  <2>1. f \in Seq(Seq(S)) /\ Len(f) = n /\ \A i \in 1..n : Len(f[i]) <= 1
    <3>1. ASSUME NEW i \in 1..n PROVE f[i] \in Seq(S) /\ Len(f[i]) <= 1
      <4>1. CASE i \in K
        <5> DEFINE v == V[i]
        <5>1. f[i] = <<v>> /\ v \in S
          BY <1>3, <1>4, <4>1
        <5> HIDE DEF v
        <5> QED
          BY <5>1
      <4>2. CASE i \notin K
        <5>1. f[i] = <<>>
          BY <1>4, <4>2
        <5> QED
          BY <5>1
      <4> QED
        BY <4>1, <4>2
    <3>2. f \in [1..n -> Seq(S)]
      BY <1>4, <3>1
    <3> QED
      BY <1>1, <3>1, <3>2
  <2> QED
    BY <1>6, <2>1, FlattenSeqShort DEF p
<1>13. Len(p) \in Nat /\ DOMAIN p = 1..Len(p) /\ \A i \in 1..Len(p) : p[i] \in S
  BY <1>11
<1>14. HashedAll(p) \in BundleList
  <2>1. HashedAll(p) = [i \in 1..Len(p) |-> Hashed(p[i])]
    BY <1>13 DEF HashedAll
  <2>2. HashedAll(p) \in Seq(Bundle) /\ Len(HashedAll(p)) = Len(p)
    BY <1>7, <1>13, <2>1
  <2>3. Len(p) \in Digit
    BY <1>1, <1>12, <1>13, BaseIsEnough DEF Digit
  <2> QED
    BY <2>2, <2>3 DEF BundleList
<1>15. ASSUME NEW b \in Range(used), b.bundle # <<>>
       PROVE  \E i \in 1..Len(p) : p[i] = BundleOf(t.dirs, b.bundle[1])
  <2>1. PICK i \in K : b = used[i]
    BY <1>8, <1>15
  <2>2. V[i] \in Range(p) /\ V[i] = BundleOf(t.dirs, b.bundle[1])
    BY <1>3, <1>11, <2>1
  <2> QED
    BY <1>13, <2>2 DEF Range
<1> QED
  BY <1>9, <1>13, <1>14, <1>15 DEF p

\* What a program that was built is given to run with.
LEMMA PreparedIs ==
  ASSUME NEW t, Prepared(t) # <<>>
  PROVE  /\ \A i \in DOMAIN t.used : CheckCommand(t.used[i], t.family, t.path, t.dirs)
         /\ Prepared(t)[1].blob = Pack(PackedFor(t))
         /\ Prepared(t)[1].notes =
              UNION {RuntimeRequirementsOf(b, t.family) : b \in Range(t.used)}
<1> DEFINE checked == \A i \in DOMAIN t.used : CheckCommand(t.used[i], t.family, t.path, t.dirs)
           prepared == [blob |-> Pack(PackedFor(t)),
                        notes |-> UNION {RuntimeRequirementsOf(b, t.family) : b \in Range(t.used)}]
<1>1. Prepared(t) = IF checked THEN <<prepared>> ELSE <<>>
  BY Zenon DEF Prepared, PrepareFor, PackedFor, BundleOf
<1> HIDE DEF checked
<1>2. checked /\ Prepared(t) = <<prepared>>
  BY <1>1
<1>3. prepared.blob = Pack(PackedFor(t))
  OBVIOUS
<1>4. prepared.notes = UNION {RuntimeRequirementsOf(b, t.family) : b \in Range(t.used)}
  OBVIOUS
<1> HIDE DEF prepared
<1>5. Prepared(t)[1] = prepared
  BY <1>2
<1> QED
  BY <1>2, <1>3, <1>4, <1>5 DEF checked

LEMMA HashedKeeps ==
  ASSUME NEW b
  PROVE  Hashed(b).name = b.name /\ Hashed(b).files = b.files
BY DEF Hashed

\* The bundles of the executable, and the one a built-in finds among them.
LEMMA BundleIsFound ==
  ASSUME NEW t, DeployFits(t), NEW b \in Range(t.used), b.bundle # <<>>,
         NEW named, named = {i \in DOMAIN HashedAll(PackedFor(t)) :
                               HashedAll(PackedFor(t))[i].name = b.bundle[1]}
  PROVE  /\ named # {}
         /\ HashedAll(PackedFor(t))[Min(named)].files = ReadBundle(t.dirs[b.bundle[1]])
<1> DEFINE p == PackedFor(t)
           all == HashedAll(p)
           n == b.bundle[1]
<1>1. Len(p) \in Nat /\ \A i \in 1..Len(p) : \E m \in DOMAIN t.dirs : p[i] = BundleOf(t.dirs, m)
  BY PackedIs
<1>2. PICK i \in 1..Len(p) : p[i] = BundleOf(t.dirs, n)
  BY PackedIs
<1>3. DOMAIN p = 1..Len(p) /\ \A k \in 1..Len(p) : all[k] = Hashed(p[k])
  <2>1. DOMAIN p = 1..Len(p)
    BY PackedIs
  <2> QED
    BY <2>1 DEF HashedAll
<1> HIDE DEF p
<1>4. DOMAIN all = 1..Len(p)
  BY <1>3 DEF HashedAll
<1>5. \A k \in 1..Len(p) : all[k].name = p[k].name /\ all[k].files = p[k].files
  <2> HIDE DEF all
  <2> SUFFICES ASSUME NEW k \in 1..Len(p)
               PROVE  all[k].name = p[k].name /\ all[k].files = p[k].files
    OBVIOUS
  <2>1. all[k] = Hashed(p[k])
    BY <1>3
  <2> QED
    BY <2>1, HashedKeeps
<1>6. \A k \in 1..Len(p) : p[k].files = ReadBundle(t.dirs[p[k].name])
  <2> SUFFICES ASSUME NEW k \in 1..Len(p) PROVE p[k].files = ReadBundle(t.dirs[p[k].name])
    OBVIOUS
  <2>1. PICK m \in DOMAIN t.dirs : p[k] = BundleOf(t.dirs, m)
    BY <1>1 DEF p
  <2>2. p[k].name = m /\ p[k].files = ReadBundle(t.dirs[m])
    BY <2>1 DEF BundleOf
  <2> QED
    BY <2>2
<1> HIDE DEF all
<1>7. i \in named /\ named \subseteq 1..Len(p)
  BY <1>2, <1>4, <1>5 DEF p, all, BundleOf
<1>8. Min(named) \in named
  <2>1. PICK x \in named : \A y \in named : x <= y
    <3>1. named \subseteq Nat
      BY <1>1, <1>7
    <3> QED
      BY <1>7, <3>1, LeastNumber
  <2> QED
    BY <2>1, Zenon DEF Min
<1> DEFINE k == Min(named)
<1>9. k \in 1..Len(p) /\ all[k].name = n
  BY <1>4, <1>7, <1>8 DEF all, p
<1> HIDE DEF k
<1>10. all[k].files = ReadBundle(t.dirs[n])
  BY <1>5, <1>6, <1>9
<1> QED
  BY <1>7, <1>10 DEF k, all, p

\* A built-in was found to work where it was built, with the files in dirs; it finds its
\* bundle among those of the executable, with the same files, and where the program
\* runs is what it needs.
CanRun(b, family, path, dirs, bundles, machine, source, named) ==
  /\ CheckCommand(b, family, path, dirs)
  /\ named = IF b.bundle = <<>> THEN {}
             ELSE {i \in DOMAIN bundles : bundles[i].name = b.bundle[1]}
  /\ b.bundle = <<>> => source = <<>>
  /\ b.bundle # <<>> => /\ named # {} /\ bundles[Min(named)].files = source
                        /\ Range(source) = Range(dirs[b.bundle[1]])
                        /\ machine.cache
  /\ \A c \in Range(IpcCommand(b, family)) :
       /\ InBundle(c) /\ ~c.probe =>
            \A f \in FilesAt(dirs[b.bundle[1]], c.program[2]) : Executable(f.mode)
       /\ ~InBundle(c) => machine.path[c.program[2]] = "works"

\* Then it starts, with those files.
LEMMA Runs ==
  ASSUME NEW b, NEW family, NEW path, NEW dirs, NEW bundles, NEW machine, NEW source,
         NEW named, CanRun(b, family, path, dirs, bundles, machine, source, named)
  PROVE  RunWith(b, family, <<bundles>>, machine) = <<"started", source>>
<1> DEFINE c == IpcCommand(b, family)
           files == IF named = {} THEN <<>> ELSE bundles[Min(named)].files
           seen == IF b.bundle = <<>> THEN <<>> ELSE dirs[b.bundle[1]]
<1>0. /\ named = IF b.bundle = <<>> THEN {}
                 ELSE {i \in DOMAIN bundles : bundles[i].name = b.bundle[1]}
      /\ b.bundle = <<>> => source = <<>>
      /\ b.bundle # <<>> => /\ named # {} /\ bundles[Min(named)].files = source
                            /\ Range(source) = Range(dirs[b.bundle[1]])
                            /\ machine.cache
  BY Zenon DEF CanRun
<1>1. /\ c # <<>>
      /\ UsesBundle(c[1]) <=> b.bundle # <<>>
      /\ RunsFromBundle(c[1]) => FilesAt(seen, c[1].program[2]) # {}
      /\ c[1].probe => Starts(c[1], path, seen)
  <2>1. CheckCommand(b, family, path, dirs)
    BY Zenon DEF CanRun
  <2> QED
    BY <2>1, Zenon DEF CheckCommand
<1>2. c[1] \in Range(c)
  <2>1. c = <<>> \/ \E x : c = <<x>>
    BY Zenon DEF IpcCommand
  <2>2. PICK x : c = <<x>>
    BY <1>1, <2>1
  <2> HIDE DEF c
  <2> QED
    BY <2>2 DEF Range
<1>20. /\ InBundle(c[1]) /\ ~c[1].probe =>
            \A f \in FilesAt(dirs[b.bundle[1]], c[1].program[2]) : Executable(f.mode)
       /\ ~InBundle(c[1]) => machine.path[c[1].program[2]] = "works"
  BY <1>2, Zenon DEF CanRun
<1> HIDE DEF c
<1>3. files = source
  <2>1. CASE b.bundle = <<>>
    BY <1>0, <2>1
  <2>2. CASE b.bundle # <<>>
    BY <1>0, <2>2
  <2> QED
    BY <2>1, <2>2
<1> HIDE DEF files
<1>4. Starts(c[1], machine.path, source)
  <2>1. CASE InBundle(c[1])
    <3>1. b.bundle # <<>>
      BY <1>1, <2>1 DEF UsesBundle, RunsFromBundle
    <3>2. FilesAt(source, c[1].program[2]) = FilesAt(dirs[b.bundle[1]], c[1].program[2])
      BY <1>0, <3>1 DEF FilesAt
    <3>3. \E f \in FilesAt(dirs[b.bundle[1]], c[1].program[2]) : Executable(f.mode)
      <4>1. CASE c[1].probe
        BY <1>1, <2>1, <3>1, <4>1 DEF Starts
      <4>2. CASE ~c[1].probe
        BY <1>1, <1>20, <2>1, <3>1, <4>2 DEF RunsFromBundle
      <4> QED
        BY <4>1, <4>2
    <3> QED
      BY <2>1, <3>2, <3>3, Zenon DEF Starts
  <2>2. CASE ~InBundle(c[1])
    <3>1. machine.path[c[1].program[2]] = "works"
      BY <1>20, <2>2
    <3> QED
      BY <2>2, <3>1 DEF Starts
  <2> QED
    BY <2>1, <2>2
<1>5. <<bundles>> # None /\ <<bundles>>[1] = bundles
  BY DEF None
<1>6. RunWith(b, family, <<bundles>>, machine) =
        IF Starts(c[1], machine.path, files) THEN <<"started", files>> ELSE <<"couldn't start">>
  <2> DEFINE bs == <<bundles>>
  <2>1. bs # None /\ bs[1] = bundles
    BY <1>5
  <2> HIDE DEF bs
  <2>2. named = IF b.bundle = <<>> \/ bs = None THEN {}
                ELSE {i \in DOMAIN bs[1] : bs[1][i].name = b.bundle[1]}
    BY <1>0, <2>1
  <2>3. files = IF named = {} THEN <<>> ELSE bs[1][Min(named)].files
    BY <2>1 DEF files
  <2>4. RunWith(b, family, bs, machine) =
          CASE c = <<>> -> <<"no command">>
            [] c # <<>> /\ b.bundle # <<>> /\ bs = None -> <<"malformed">>
            [] c # <<>> /\ b.bundle # <<>> /\ bs # None /\ named = {} -> <<"isn't embedded">>
            [] c # <<>> /\ named # {} /\ ~machine.cache -> <<"couldn't unpack">>
            [] OTHER -> IF Starts(c[1], machine.path, files) THEN <<"started", files>>
                        ELSE <<"couldn't start">>
    BY <2>2, <2>3, Zenon DEF RunWith, c
  <2>5. /\ ~(c = <<>>)
        /\ ~(c # <<>> /\ b.bundle # <<>> /\ bs = None)
        /\ ~(c # <<>> /\ b.bundle # <<>> /\ bs # None /\ named = {})
        /\ ~(c # <<>> /\ named # {} /\ ~machine.cache)
    BY <1>0, <1>1, <2>1
  <2> QED
    BY <2>4, <2>5 DEF bs
<1> QED
  BY <1>3, <1>4, <1>6

\* What a program finds in its executable, when no path could leave its directory.
LEMMA EmbeddedIsPacked ==
  ASSUME NEW t, DeployFits(t), \A n \in DOMAIN t.dirs : AllSafe(t.dirs[n])
  PROVE  Parse(EmbeddedBlob(BundleObject(Pack(PackedFor(t))))) = <<HashedAll(PackedFor(t))>>
<1> DEFINE p == PackedFor(t)
<1>1. HashedAll(p) \in BundleList /\ DOMAIN p = 1..Len(p)
  BY PackedIs
<1>2. ASSUME NEW i \in DOMAIN p PROVE AllSafe(p[i].files)
  <2>1. PICK n \in DOMAIN t.dirs : p[i] = BundleOf(t.dirs, n)
    BY <1>1, <1>2, PackedIs
  <2>2. p[i].files = ReadBundle(t.dirs[n])
    BY <2>1 DEF BundleOf
  <2>3. Range(ReadBundle(t.dirs[n])) = Range(t.dirs[n])
    BY DirectoryIsRead
  <2>4. \A f \in Range(t.dirs[n]) : IsSafeRelativePath(f.path)
    BY DEF AllSafe, Range
  <2> QED
    BY <2>2, <2>3, <2>4 DEF AllSafe, Range
<1> HIDE DEF p
<1> QED
  BY <1>1, <1>2, PackedIsReadBack DEF p

\* The notes are enough for each built-in.
LEMMA NotesSuffice ==
  ASSUME NEW t, DeployFits(t), Prepared(t) # <<>>,
         \A n \in DOMAIN t.dirs : AllSafe(t.dirs[n]),
         NEW b \in Range(t.used), NEW machine, Provides(machine, Prepared(t)[1].notes),
         \A c \in Range(IpcCommand(b, t.family)) : InBundle(c) /\ ~c.probe =>
           \A f \in FilesAt(t.dirs[b.bundle[1]], c.program[2]) : Executable(f.mode),
         NEW source,
         source = IF b.bundle = <<>> THEN <<>> ELSE ReadBundle(t.dirs[b.bundle[1]])
  PROVE  RunEmbedded(b, t.family, BundleObject(Prepared(t)[1].blob), machine)
           = <<"started", source>>
<1> DEFINE bundles == HashedAll(PackedFor(t))
           named == IF b.bundle = <<>> THEN {}
                    ELSE {i \in DOMAIN bundles : bundles[i].name = b.bundle[1]}
           notes == Prepared(t)[1].notes
           c == IpcCommand(b, t.family)
<1>1. RunEmbedded(b, t.family, BundleObject(Prepared(t)[1].blob), machine)
        = RunWith(b, t.family, <<bundles>>, machine)
  BY PreparedIs, EmbeddedIsPacked DEF RunEmbedded
<1>2. CheckCommand(b, t.family, t.path, t.dirs)
  <2>1. PICK i \in DOMAIN t.used : b = t.used[i]
    BY DEF Range
  <2> QED
    BY <2>1, PreparedIs
<1>3. RuntimeRequirementsOf(b, t.family) \subseteq notes
  <2>1. notes = UNION {RuntimeRequirementsOf(a, t.family) : a \in Range(t.used)}
    BY PreparedIs
  <2> QED
    BY <2>1
<1> HIDE DEF notes
<1>4. ASSUME b.bundle # <<>>
      PROVE  /\ named # {} /\ bundles[Min(named)].files = source
             /\ Range(source) = Range(t.dirs[b.bundle[1]])
             /\ machine.cache
  <2>1. named # {} /\ bundles[Min(named)].files = ReadBundle(t.dirs[b.bundle[1]])
    <3>1. named = {i \in DOMAIN bundles : bundles[i].name = b.bundle[1]}
      BY <1>4
    <3> HIDE DEF named
    <3> QED
      BY <1>4, <3>1, BundleIsFound
  <2>2. b.bundle[1] \in DOMAIN t.dirs /\ b.bundle[1] \in Range(b.bundle)
    <3>1. PICK n \in DOMAIN t.dirs : b.bundle = <<n>>
      BY <1>4 DEF DeployFits
    <3> QED
      BY <3>1 DEF Range
  <2>3. Range(source) = Range(t.dirs[b.bundle[1]])
    BY <1>4, <2>2, DirectoryIsRead
  <2>4. <<"cache", b.bundle[1]>> \in notes
    BY <1>3, <2>2, Zenon DEF RuntimeRequirementsOf
  <2>5. machine.cache
    <3> DEFINE note == <<"cache", b.bundle[1]>>
    <3>1. note \in notes /\ note[1] = "cache"
      BY <2>4
    <3> HIDE DEF note
    <3> QED
      BY <3>1 DEF Provides, notes
  <2> HIDE DEF named, bundles
  <2> QED
    BY <1>4, <2>1, <2>3, <2>5
<1>5. ASSUME NEW x \in Range(c), ~InBundle(x) PROVE machine.path[x.program[2]] = "works"
  <2>1. c # <<>> /\ x = c[1]
    <3>1. c = <<>> \/ \E y : c = <<y>>
      BY Zenon DEF IpcCommand
    <3> HIDE DEF c
    <3>2. c # <<>>
      BY <1>5 DEF Range
    <3>3. PICK y : c = <<y>>
      BY <3>1, <3>2
    <3> QED
      BY <1>5, <3>2, <3>3 DEF Range
  <2> DEFINE note == <<"command", x.program[2]>>
  <2>2. note \in RuntimeRequirementsOf(b, t.family)
    BY <1>5, <2>1, Zenon DEF RuntimeRequirementsOf, RunsFromBundle
  <2>3. note[1] = "command" /\ note[2] = x.program[2]
    OBVIOUS
  <2> HIDE DEF note
  <2> QED
    BY <1>3, <2>2, <2>3 DEF Provides, notes
<1>6. named = (IF b.bundle = <<>> THEN {}
               ELSE {i \in DOMAIN bundles : bundles[i].name = b.bundle[1]})
  OBVIOUS
<1> HIDE DEF bundles, named
<1>7. b.bundle = <<>> => source = <<>>
  OBVIOUS
<1>8. \A x \in Range(c) :
        /\ InBundle(x) /\ ~x.probe =>
             \A f \in FilesAt(t.dirs[b.bundle[1]], x.program[2]) : Executable(f.mode)
        /\ ~InBundle(x) => machine.path[x.program[2]] = "works"
  BY <1>5, Zenon
<1>9. CanRun(b, t.family, t.path, t.dirs, bundles, machine, source, named)
  BY <1>2, <1>4, <1>6, <1>7, <1>8, ZenonT(30) DEF CanRun
<1>10. RunWith(b, t.family, <<bundles>>, machine) = <<"started", source>>
  BY <1>9, Runs
<1> QED
  BY <1>1, <1>10

\* What is prepared does not depend on the order of the directories.
LEMMA TurnedIsSame ==
  ASSUME NEW t, DeployFits(t), NEW turned,
         turned = [n \in DOMAIN t.dirs |-> Reverse(t.dirs[n])]
  PROVE  PrepareFor(t.used, t.family, t.path, turned) = Prepared(t)
<1>1. ASSUME NEW i \in DOMAIN t.used, t.used[i].bundle # <<>>
      PROVE  \E n \in DOMAIN t.dirs : t.used[i].bundle[1] = n
  BY <1>1 DEF DeployFits, Range
<1>2. ASSUME NEW n \in DOMAIN t.dirs
      PROVE  /\ Range(turned[n]) = Range(t.dirs[n])
             /\ ReadBundle(turned[n]) = ReadBundle(t.dirs[n])
  BY DirectoryIsRead
<1>3. ASSUME NEW i \in DOMAIN t.used
      PROVE  CheckCommand(t.used[i], t.family, t.path, turned)
               <=> CheckCommand(t.used[i], t.family, t.path, t.dirs)
  <2> DEFINE b == t.used[i]
             c == IpcCommand(b, t.family)
             files == IF b.bundle = <<>> THEN <<>> ELSE turned[b.bundle[1]]
             seen == IF b.bundle = <<>> THEN <<>> ELSE t.dirs[b.bundle[1]]
  <2>1. Range(files) = Range(seen)
    BY <1>1, <1>2
  <2>2. \A path : FilesAt(files, path) = FilesAt(seen, path)
    BY <2>1 DEF FilesAt
  <2>3. Starts(c[1], t.path, files) <=> Starts(c[1], t.path, seen)
    BY <2>2, Zenon DEF Starts
  <2>4. CheckCommand(b, t.family, t.path, turned) <=>
          /\ c # <<>> /\ (UsesBundle(c[1]) <=> b.bundle # <<>>)
          /\ RunsFromBundle(c[1]) => FilesAt(files, c[1].program[2]) # {}
          /\ c[1].probe => Starts(c[1], t.path, files) /\ ExitsWell(c[1], t.path)
    BY Zenon DEF CheckCommand
  <2>5. CheckCommand(b, t.family, t.path, t.dirs) <=>
          /\ c # <<>> /\ (UsesBundle(c[1]) <=> b.bundle # <<>>)
          /\ RunsFromBundle(c[1]) => FilesAt(seen, c[1].program[2]) # {}
          /\ c[1].probe => Starts(c[1], t.path, seen) /\ ExitsWell(c[1], t.path)
    BY Zenon DEF CheckCommand
  <2> HIDE DEF c, files, seen
  <2> QED
    BY <2>2, <2>3, <2>4, <2>5
<1> DEFINE each(dirs) ==
             [i \in DOMAIN t.used |->
                IF t.used[i].bundle = <<>> THEN <<>> ELSE <<BundleOf(dirs, t.used[i].bundle[1])>>]
           checked(dirs) == \A i \in DOMAIN t.used : CheckCommand(t.used[i], t.family, t.path, dirs)
           notes == UNION {RuntimeRequirementsOf(b, t.family) : b \in Range(t.used)}
<1>4. \A dirs : PrepareFor(t.used, t.family, t.path, dirs) =
        IF checked(dirs) THEN <<[blob |-> Pack(FlattenSeq(each(dirs))), notes |-> notes]>> ELSE <<>>
  BY Zenon DEF PrepareFor, BundleOf
<1>5. each(turned) = each(t.dirs)
  <2>1. ASSUME NEW i \in DOMAIN t.used, t.used[i].bundle # <<>>
        PROVE  BundleOf(turned, t.used[i].bundle[1]) = BundleOf(t.dirs, t.used[i].bundle[1])
    BY <1>1, <1>2, <2>1 DEF BundleOf
  <2> QED
    BY <2>1
<1>6. checked(turned) <=> checked(t.dirs)
  BY <1>3
<1> HIDE DEF each, checked, notes
<1> QED
  BY <1>4, <1>5, <1>6 DEF Prepared

-----------------------------------------------------------------------------
(* Reading what is left                                                    *)

\* After the first p of d, there is e.
RestAt(d, p, e) ==
  /\ p \in 0..Len(d) /\ p + Len(e) = Len(d)
  /\ \A j \in 1..Len(e) : d[p + j] = e[j]

LEMMA RestMoves ==
  ASSUME NEW S, NEW d \in Seq(S), NEW x \in Seq(S), NEW e \in Seq(S), NEW p,
         RestAt(d, p, x \o e)
  PROVE  /\ RestAt(d, p + Len(x), e)
         /\ \A j \in 1..Len(x) : d[p + j] = x[j]
<1>1. /\ p \in 0..Len(d) /\ p + Len(x) + Len(e) = Len(d)
      /\ Len(d) \in Nat /\ Len(x) \in Nat /\ Len(e) \in Nat
  <2>1. Len(x \o e) = Len(x) + Len(e)
    OBVIOUS
  <2>2. Len(d) \in Nat /\ Len(x) \in Nat /\ Len(e) \in Nat
    OBVIOUS
  <2> QED
    BY <2>1, <2>2 DEF RestAt
<1>2. ASSUME NEW j \in 1..Len(x) PROVE d[p + j] = x[j]
  <2>1. j \in 1..Len(x \o e) /\ (x \o e)[j] = x[j]
    OBVIOUS
  <2> QED
    BY <2>1 DEF RestAt
<1>3. ASSUME NEW j \in 1..Len(e) PROVE d[(p + Len(x)) + j] = e[j]
  <2>1. Len(x) + j \in 1..Len(x \o e) /\ (x \o e)[Len(x) + j] = e[j]
    OBVIOUS
  <2>2. d[p + (Len(x) + j)] = e[j]
    BY <2>1 DEF RestAt
  <2>3. p + (Len(x) + j) = (p + Len(x)) + j
    BY <1>1
  <2> QED
    BY <2>2, <2>3
<1>4. p + Len(x) \in 0..Len(d) /\ (p + Len(x)) + Len(e) = Len(d)
  BY <1>1
<1> QED
  BY <1>2, <1>3, <1>4 DEF RestAt

-----------------------------------------------------------------------------
(* The symbol table of an archive                                          *)

Between == [texts : Seq(Seq(Nat)), text : Seq(Nat)]

\* h is how Split reads seq.
Splits(h, seq) ==
  /\ h[0] = [texts |-> <<>>, text |-> <<>>]
  /\ \A i \in 1..Len(seq) : h[i] = SplitAt(h[i - 1], seq[i])

LEMMA SplitAtType ==
  ASSUME NEW st \in Between, NEW c \in Nat
  PROVE  SplitAt(st, c) \in Between
<1>1. st.texts \in Seq(Seq(Nat)) /\ st.text \in Seq(Nat) /\ <<>> \in Seq(Nat)
  BY DEF Between
<1>2. Append(st.texts, st.text) \in Seq(Seq(Nat)) /\ Append(st.text, c) \in Seq(Nat)
  BY <1>1
<1> QED
  BY <1>1, <1>2 DEF SplitAt, Between

LEMMA SplitIs ==
  ASSUME NEW bytes \in Seq(Nat)
  PROVE  \E h : /\ Splits(h, Append(bytes, Nul))
                /\ \A i \in 0..(Len(bytes) + 1) : h[i] \in Between
                /\ Split(bytes) = h[Len(bytes) + 1].texts
<1> DEFINE seq == Append(bytes, Nul)
           n == Len(bytes) + 1
           base == [texts |-> <<>>, text |-> <<>>]
           A == Between
           Step(st, i) == SplitAt(st, seq[i])
           G == [q \in A \X (1..n) |-> Step(q[1], q[2])]
           f == CHOOSE g : g = [s \in SUBSET (DOMAIN seq) |->
                  IF s = {} THEN base ELSE SplitAt(g[s \ {Max(s)}], seq[Max(s)])]
<1>1. Split(bytes) = f[DOMAIN seq].texts
  BY Zenon DEF Split, FoldLeft, MapThenFoldSet
<1>2. n \in Nat /\ seq \in Seq(Nat) /\ Len(seq) = n /\ DOMAIN seq = 1..n
  BY DEF Nul
<1>3. base \in A
  BY DEF Between
<1>4. ASSUME NEW st \in A, NEW i \in 1..n PROVE Step(st, i) \in A
  <2>1. seq[i] \in Nat
    BY <1>2
  <2> QED
    BY <2>1, SplitAtType
<1> HIDE DEF A, base, n, Step, seq
<1>5. G \in [A \X (1..n) -> A]
  BY <1>4
<1>6. \A st \in A, i \in 1..n : G[<<st, i>>] = Step(st, i)
  OBVIOUS
<1> HIDE DEF G
<1>7. PICK g \in [SUBSET (1..n) -> A] : Accumulates(g, G, base, n)
  BY <1>2, <1>3, <1>5, AccumulatesExists DEF CanAccumulate
<1>8. g = [s \in SUBSET (1..n) |->
             IF s = {} THEN base ELSE SplitAt(g[s \ {Max(s)}], seq[Max(s)])]
  <2>1. ASSUME NEW s \in SUBSET (1..n), s # {}
        PROVE  g[s] = SplitAt(g[s \ {Max(s)}], seq[Max(s)])
    <3>1. Max(s) \in 1..n
      BY <1>2, <2>1, MaxIs
    <3>2. g[s \ {Max(s)}] \in A
      OBVIOUS
    <3>3. g[s] = G[<<g[s \ {Max(s)}], Max(s)>>]
      BY <1>7, <2>1 DEF Accumulates
    <3> QED
      BY <1>6, <3>1, <3>2, <3>3 DEF Step
  <2>2. g[{}] = base
    BY <1>7 DEF Accumulates
  <2> QED
    BY <2>1, <2>2
<1>9. f = [s \in SUBSET (1..n) |->
             IF s = {} THEN base ELSE SplitAt(f[s \ {Max(s)}], seq[Max(s)])]
  BY <1>2, <1>8, ZenonT(30)
<1> HIDE DEF f
<1> DEFINE h == [i \in 0..n |-> f[1..i]]
<1>10. h[0] = base
  <2>1. 1..0 = {} /\ 0 \in 0..n /\ {} \in SUBSET (1..n)
    BY <1>2
  <2> QED
    BY <1>9, <2>1
<1>11. ASSUME NEW i \in 1..n PROVE h[i] = SplitAt(h[i - 1], seq[i])
  <2>1. i \in Nat \ {0} /\ i \in 0..n /\ i - 1 \in 0..n /\ 1..i \in SUBSET (1..n)
    BY <1>2
  <2>2. 1..i # {} /\ Max(1..i) = i /\ (1..i) \ {i} = 1..(i - 1)
    BY <2>1, MaxOfFirst
  <2>3. f[1..i] = SplitAt(f[(1..i) \ {Max(1..i)}], seq[Max(1..i)])
    BY <1>9, <2>1, <2>2
  <2>4. f[1..i] = SplitAt(f[1..(i - 1)], seq[i])
    BY <2>2, <2>3
  <2> QED
    BY <2>1, <2>4
<1>12. Split(bytes) = h[n].texts
  <2>1. n \in 0..n
    BY <1>2
  <2> QED
    BY <1>1, <1>2, <2>1
<1> HIDE DEF h
<1>13. Splits(h, seq)
  BY <1>2, <1>10, <1>11 DEF Splits, base
<1>14. \A i \in 0..n : h[i] \in A
  <2>1. \A i \in 1..n : h[i - 1] \in A => h[i] \in A
    BY <1>4, <1>11 DEF Step
  <2> QED
    BY <1>2, <1>3, <1>10, <2>1, StaysIn
<1> QED
  BY <1>12, <1>13, <1>14 DEF n, seq, A

\* The first q of name are in seq after its first p.
Shows(seq, p, name, q) ==
  /\ p \in Nat /\ q \in 0..Len(name) /\ p + q <= Len(seq)
  /\ \A j \in 1..q : seq[p + j] = name[j]

\* What was read up to p.
Got(h, p, texts, text) == h[p] = [texts |-> texts, text |-> text]

\* A text without a NUL is read as it is.
LEMMA TextIsRead ==
  ASSUME NEW h, NEW seq \in Seq(Nat), Splits(h, seq),
         NEW texts, NEW name \in Seq(Nat \ {Nul}), NEW p, NEW q, Shows(seq, p, name, q),
         Got(h, p, texts, <<>>)
  PROVE  Got(h, p + q, texts, SubSeq(name, 1, q))
<1>0. /\ p \in Nat /\ q \in 0..Len(name) /\ p + q <= Len(seq)
      /\ \A j \in 1..q : seq[p + j] = name[j]
  BY DEF Shows
<1>00. h[p] = [texts |-> texts, text |-> <<>>]
  BY DEF Got
<1> DEFINE At(k) == [texts |-> texts, text |-> SubSeq(name, 1, k)]
           T == {k \in Nat : k <= q => h[p + k] = At(k)}
<1>1. 0 \in T
  <2>1. SubSeq(name, 1, 0) = <<>> /\ p + 0 = p
    BY <1>0
  <2> QED
    BY <1>00, <2>1
<1>2. ASSUME NEW k \in Nat, k \in T PROVE k + 1 \in T
  <2> SUFFICES ASSUME k + 1 <= q PROVE h[p + (k + 1)] = At(k + 1)
    OBVIOUS
  <2>1. Len(seq) \in Nat /\ Len(name) \in Nat /\ p \in Nat /\ q \in 0..Len(name)
        /\ p + q <= Len(seq)
    BY <1>0
  <2>2. /\ k + 1 \in 1..q /\ k + 1 \in 1..Len(name) /\ k + 1 <= Len(name) /\ k <= q
        /\ p + (k + 1) \in 1..Len(seq) /\ (p + (k + 1)) - 1 = p + k
    BY <2>1
  <2>3. h[p + k] = At(k)
    BY <1>2, <2>2
  <2>4. seq[p + (k + 1)] = name[k + 1] /\ name[k + 1] # Nul
    <3>1. name \in [1..Len(name) -> Nat \ {Nul}]
      OBVIOUS
    <3>2. name[k + 1] \in Nat \ {Nul}
      BY <2>2, <3>1
    <3> QED
      BY <1>0, <2>2, <3>2
  <2>5. h[p + (k + 1)] = SplitAt(h[p + k], name[k + 1])
    BY <2>2, <2>4 DEF Splits
  <2>6. SubSeq(name, 1, k + 1) = Append(SubSeq(name, 1, k), name[k + 1])
    BY <2>2, BeginningGrows
  <2>7. SplitAt(At(k), name[k + 1]) = [texts |-> texts, text |-> Append(SubSeq(name, 1, k), name[k + 1])]
    BY <2>4 DEF SplitAt
  <2> QED
    BY <2>3, <2>5, <2>6, <2>7
<1> HIDE DEF T
<1>3. q \in T
  <2>1. q \in Nat
    BY <1>0
  <2> QED
    BY <1>1, <1>2, <2>1, AllNumbers
<1> QED
  BY <1>3 DEF T, Got

\* What was read stays.
LEMMA ReadStays ==
  ASSUME NEW h, NEW seq \in Seq(Nat), Splits(h, seq),
         \A i \in 0..Len(seq) : h[i] \in Between,
         NEW i \in 0..Len(seq), NEW j \in i..Len(seq)
  PROVE  /\ Len(h[i].texts) <= Len(h[j].texts)
         /\ \A k \in 1..Len(h[i].texts) : h[j].texts[k] = h[i].texts[k]
<1> DEFINE Keeps1(a, b) == Len(a) <= Len(b) /\ \A k \in 1..Len(a) : b[k] = a[k]
           T == {m \in Nat : i + m <= Len(seq) => Keeps1(h[i].texts, h[i + m].texts)}
<1>0. Len(seq) \in Nat /\ \A m \in 0..Len(seq) : h[m].texts \in Seq(Seq(Nat))
  BY DEF Between
<1>1. 0 \in T
  <2>1. i + 0 = i /\ Len(h[i].texts) \in Nat
    BY <1>0
  <2> QED
    BY <2>1
<1>2. ASSUME NEW m \in Nat, m \in T PROVE m + 1 \in T
  <2> SUFFICES ASSUME i + (m + 1) <= Len(seq) PROVE Keeps1(h[i].texts, h[i + (m + 1)].texts)
    OBVIOUS
  <2> DEFINE x == i + m
             y == i + (m + 1)
  <2>1. /\ y \in 1..Len(seq) /\ y - 1 = x /\ x \in 0..Len(seq) /\ y \in 0..Len(seq)
        /\ x <= Len(seq)
    BY <1>0
  <2>2. Keeps1(h[i].texts, h[x].texts)
    BY <1>2, <2>1
  <2> HIDE DEF x, y
  <2>3. h[y] = SplitAt(h[x], seq[y])
    BY <2>1 DEF Splits
  <2>4. h[y].texts = h[x].texts \/ h[y].texts = Append(h[x].texts, h[x].text)
    <3> DEFINE st == h[x]
    <3> HIDE DEF st
    <3>1. SplitAt(st, seq[y]).texts \in {st.texts, Append(st.texts, st.text)}
      BY DEF SplitAt
    <3> QED
      BY ONLY <2>3, <3>1 DEF st
  <2>5. h[x].texts \in Seq(Seq(Nat)) /\ h[x].text \in Seq(Nat)
    BY <2>1 DEF Between
  <2>6. h[i].texts \in Seq(Seq(Nat))
    BY <1>0
  <2> DEFINE a == h[i].texts
             b == h[x].texts
             c == h[y].texts
  <2> HIDE DEF a, b, c
  <2>7. a \in Seq(Seq(Nat)) /\ b \in Seq(Seq(Nat)) /\ Keeps1(a, b)
    BY <2>2, <2>5, <2>6 DEF a, b
  <2>8. c = b \/ c = Append(b, h[x].text)
    BY <2>4 DEF b, c
  <2>9. Keeps1(a, c)
    <3>1. CASE c = b
      BY <2>7, <3>1
    <3>2. CASE c = Append(b, h[x].text)
      <4>1. Len(a) \in Nat /\ Len(b) \in Nat /\ Len(c) = Len(b) + 1
        BY <2>5, <2>7, <3>2
      <4>2. \A k \in 1..Len(b) : c[k] = b[k]
        BY <2>5, <2>7, <3>2
      <4> QED
        BY <2>7, <4>1, <4>2
    <3> QED
      BY <2>8, <3>1, <3>2
  <2> QED
    BY <2>9 DEF a, c, y
<1> HIDE DEF T
<1>3. j - i \in T
  <2>1. j - i \in Nat
    BY <1>0
  <2> QED
    BY <1>1, <1>2, <2>1, AllNumbers
<1>4. i + (j - i) = j /\ j <= Len(seq)
  BY <1>0
<1> QED
  BY <1>3, <1>4 DEF T

\* r is what is left of w after each of the names.
Leaves(r, w, names) ==
  /\ r \in [0..Len(names) -> Seq(Nat)] /\ r[0] = w
  /\ \A i \in 1..Len(names) : r[i - 1] = Append(names[i], Nul) \o r[i]

\* Where that is.
After(r, w, k) == Len(w) - Len(r[k])

LEMMA NamesLeave ==
  ASSUME NEW names \in Seq(Seq(Nat \ {Nul})), NEW more \in Seq(Nat)
  PROVE  /\ NamesText(names) \in Seq(Nat)
         /\ \E r : /\ Leaves(r, NamesText(names) \o more, names)
                  /\ r[Len(names)] = more
<1> DEFINE seqs == [i \in DOMAIN names |-> Append(names[i], Nul)]
           n == Len(names)
<1>1. n \in Nat /\ DOMAIN names = 1..n /\ \A i \in 1..n : names[i] \in Seq(Nat \ {Nul})
  OBVIOUS
<1>2. \A i \in 1..n : Append(names[i], Nul) \in Seq(Nat)
  <2> SUFFICES ASSUME NEW i \in 1..n PROVE Append(names[i], Nul) \in Seq(Nat)
    OBVIOUS
  <2> DEFINE name == names[i]
  <2>1. name \in Seq(Nat)
    BY <1>1
  <2> HIDE DEF name
  <2>2. Append(name, Nul) \in Seq(Nat)
    BY <2>1 DEF Nul
  <2> QED
    BY <2>2 DEF name
<1>3. seqs \in Seq(Seq(Nat)) /\ Len(seqs) = n
  BY <1>1, <1>2
<1>4. NamesText(names) = FlattenSeq(seqs)
  BY Zenon DEF NamesText
<1>5. \A i \in 1..n : seqs[i] = Append(names[i], Nul)
  BY <1>1
<1> HIDE DEF seqs, n
<1>6. PICK r \in [0..n -> Seq(Nat)] : Rests(r, seqs, more, n)
  BY <1>1, <1>3, FlattenSeqRests
<1>7. Leaves(r, NamesText(names) \o more, names)
  BY <1>4, <1>5, <1>6 DEF Rests, Leaves, n
<1>8. r[n] = more
  BY <1>6 DEF Rests
<1> QED
  BY <1>3, <1>4, <1>7, <1>8, FlattenSeqType DEF n

\* Where the names end is further and further on, and there the rest is left.
Places(r, w, names) ==
  /\ After(r, w, 0) = 0
  /\ \A k \in 0..Len(names) : RestAt(w, After(r, w, k), r[k])
  /\ \A k \in 0..(Len(names) - 1) :
       /\ After(r, w, k + 1) = After(r, w, k) + Len(names[k + 1]) + 1
       /\ \A j \in 1..Len(names[k + 1]) : w[After(r, w, k) + j] = names[k + 1][j]
       /\ w[After(r, w, k + 1)] = Nul

LEMMA LeftThere ==
  ASSUME NEW names \in Seq(Seq(Nat \ {Nul})), NEW w \in Seq(Nat), NEW r, Leaves(r, w, names)
  PROVE  Places(r, w, names)
<1> DEFINE n == Len(names)
           P(k) == After(r, w, k)
           T == {k \in Nat : k <= n => RestAt(w, P(k), r[k])}
<1>1. n \in Nat /\ Len(w) \in Nat /\ \A k \in 1..n : names[k] \in Seq(Nat \ {Nul})
  OBVIOUS
<1>2. ASSUME NEW k \in 0..n PROVE r[k] \in Seq(Nat) /\ Len(r[k]) \in Nat
  <2>1. r \in [0..n -> Seq(Nat)]
    BY DEF Leaves
  <2>2. r[k] \in Seq(Nat)
    BY <2>1
  <2> QED
    BY <2>2
<1>3. r[0] = w /\ P(0) = 0
  BY <1>1 DEF Leaves, After
<1>4. 0 \in T
  BY <1>1, <1>3 DEF RestAt
<1>5. ASSUME NEW k \in Nat, k + 1 <= n, RestAt(w, P(k), r[k])
      PROVE  /\ P(k + 1) = P(k) + Len(names[k + 1]) + 1
             /\ RestAt(w, P(k + 1), r[k + 1])
             /\ \A j \in 1..Len(names[k + 1]) : w[P(k) + j] = names[k + 1][j]
             /\ w[P(k + 1)] = Nul
  <2> DEFINE i == k + 1
             name == names[i]
             x == Append(name, Nul)
  <2>1. i \in 1..n /\ i - 1 = k /\ k \in 0..n /\ i \in 0..n
    BY <1>1, <1>5
  <2>2. r[k] = x \o r[i]
    BY <2>1 DEF Leaves
  <2>3. name \in Seq(Nat)
    BY <1>1, <2>1
  <2> HIDE DEF name
  <2>4. /\ x \in Seq(Nat) /\ Len(x) = Len(name) + 1 /\ x[Len(name) + 1] = Nul
        /\ \A j \in 1..Len(name) : x[j] = name[j]
        /\ Len(name) \in Nat
    BY <2>3 DEF Nul
  <2> HIDE DEF x, i
  <2>5. r[i] \in Seq(Nat) /\ RestAt(w, P(k), x \o r[i])
    BY <1>2, <1>5, <2>1, <2>2
  <2>6. /\ RestAt(w, P(k) + Len(x), r[i])
        /\ \A j \in 1..Len(x) : w[P(k) + j] = x[j]
    BY <2>4, <2>5, RestMoves
  <2>7. P(k) \in Nat /\ P(i) = P(k) + Len(x)
    <3>1. P(k) + Len(x) + Len(r[i]) = Len(w) /\ P(k) \in Nat
      BY <1>1, <1>5, <2>6 DEF RestAt
    <3>2. Len(w) \in Nat /\ Len(r[i]) \in Nat
      BY <1>1, <1>2, <2>1
    <3>3. P(i) = Len(w) - Len(r[i])
      BY DEF After
    <3> DEFINE here == P(k)
               there == P(i)
               lx == Len(x)
               lr == Len(r[i])
    <3>4. here \in Nat /\ lx \in Nat /\ lr \in Nat /\ here + lx + lr = Len(w)
      BY <2>4, <3>1, <3>2
    <3>5. there = Len(w) - lr
      BY <3>3
    <3> HIDE DEF P, here, there, lx, lr
    <3>6. here \in Nat /\ there = here + lx
      BY ONLY <3>4, <3>5
    <3> QED
      BY <3>6 DEF here, there, lx
  <2>8. \A j \in 1..Len(name) : j \in 1..Len(x)
    BY <2>4
  <2>9. \A j \in 1..Len(name) : w[P(k) + j] = name[j]
    BY <2>4, <2>6, <2>8
  <2>10. P(i) = P(k) + Len(name) + 1 /\ P(i) = P(k) + (Len(name) + 1)
         /\ Len(name) + 1 \in 1..Len(x)
    BY <2>4, <2>7
  <2>11. w[P(i)] = Nul
    BY <2>4, <2>6, <2>10
  <2> HIDE DEF P
  <2> QED
    BY <2>6, <2>7, <2>9, <2>10, <2>11 DEF name, i
<1> HIDE DEF P
<1>6. ASSUME NEW k \in Nat, k \in T PROVE k + 1 \in T
  <2> SUFFICES ASSUME k + 1 <= n PROVE RestAt(w, P(k + 1), r[k + 1])
    OBVIOUS
  <2>1. RestAt(w, P(k), r[k])
    BY <1>1, <1>6
  <2> QED
    BY <1>5, <2>1
<1> HIDE DEF T
<1>7. \A k \in 0..n : k \in T
  <2>1. Nat \subseteq T
    BY <1>4, <1>6, AllNumbers
  <2> QED
    BY <1>1, <2>1
<1>8. \A k \in 0..n : RestAt(w, P(k), r[k])
  BY <1>1, <1>7 DEF T
<1>9. ASSUME NEW k \in 0..(n - 1) PROVE k \in Nat /\ k + 1 <= n /\ RestAt(w, P(k), r[k])
  BY <1>1, <1>8
<1> QED
  BY <1>3, <1>5, <1>8, <1>9 DEF P, Places

\* The first m of both are the same.
Alike(seq, w, m) ==
  m \in Nat /\ m <= Len(seq) /\ m <= Len(w) /\ \A j \in 1..m : seq[j] = w[j]

\* Up to where seq is what was written, the names that ended are read.
LEMMA NamesAreRead ==
  ASSUME NEW names \in Seq(Seq(Nat \ {Nul})), NEW w \in Seq(Nat), NEW r, Leaves(r, w, names),
         NEW seq \in Seq(Nat), NEW m, Alike(seq, w, m), NEW h, Splits(h, seq),
         NEW k \in 0..Len(names), After(r, w, k) <= m
  PROVE  Got(h, After(r, w, k), SubSeq(names, 1, k), <<>>)
<1>0. m \in Nat /\ m <= Len(seq) /\ m <= Len(w) /\ \A j \in 1..m : seq[j] = w[j]
  BY DEF Alike
<1> DEFINE n == Len(names)
           P(i) == After(r, w, i)
           Seen(i) == [texts |-> SubSeq(names, 1, i), text |-> <<>>]
           T == {i \in Nat : i <= n /\ P(i) <= m => h[P(i)] = Seen(i)}
<1>1. n \in Nat /\ Len(w) \in Nat /\ \A i \in 1..n : names[i] \in Seq(Nat \ {Nul})
  OBVIOUS
<1>2. /\ P(0) = 0
      /\ \A i \in 0..n : RestAt(w, P(i), r[i])
      /\ \A i \in 0..(n - 1) :
           /\ P(i + 1) = P(i) + Len(names[i + 1]) + 1
           /\ \A j \in 1..Len(names[i + 1]) : w[P(i) + j] = names[i + 1][j]
           /\ w[P(i + 1)] = Nul
  <2>1. Places(r, w, names)
    BY LeftThere
  <2> QED
    BY <2>1, Zenon DEF Places
<1> HIDE DEF P
<1>3. 0 \in T
  <2>1. SubSeq(names, 1, 0) = <<>>
    OBVIOUS
  <2> QED
    BY <1>2, <2>1 DEF Splits
<1>4. ASSUME NEW i \in Nat, i \in T PROVE i + 1 \in T
  <2> SUFFICES ASSUME i + 1 <= n, P(i + 1) <= m PROVE h[P(i + 1)] = Seen(i + 1)
    OBVIOUS
  <2> DEFINE name == names[i + 1]
             q == Len(name)
             p == P(i)
  <2>1. i \in 0..(n - 1) /\ i + 1 \in 1..n /\ i <= n /\ i \in 0..n /\ i + 1 <= Len(names)
    BY <1>1
  <2>2. name \in Seq(Nat \ {Nul}) /\ q \in Nat
    BY <1>1, <2>1
  <2>3. /\ P(i + 1) = p + q + 1
        /\ \A j \in 1..q : w[p + j] = name[j]
        /\ w[P(i + 1)] = Nul
    BY <1>2, <2>1
  <2>4. p \in Nat
    BY <1>1, <1>2, <2>1 DEF RestAt
  <2> HIDE DEF name, p
  <2>5. Len(seq) \in Nat /\ p + q + 1 <= m
    BY <1>0, <2>3
  <2> HIDE DEF q
  <2>50. /\ p <= m /\ p + q <= Len(seq) /\ p + q + 1 \in 1..Len(seq)
         /\ p + q + 1 \in 1..m /\ (p + q + 1) - 1 = p + q
    BY <1>0, <2>2, <2>4, <2>5
  <2>6. h[p] = Seen(i)
    BY <1>4, <2>1, <2>50 DEF p
  <2>7. \A j \in 1..q : seq[p + j] = name[j]
    <3>1. \A j \in 1..q : p + j \in 1..m
      BY <1>0, <2>2, <2>4, <2>50
    <3> QED
      BY <1>0, <2>3, <3>1
  <2>8. h[p + q] = [texts |-> SubSeq(names, 1, i), text |-> SubSeq(name, 1, q)]
    <3>1. q \in 0..Len(name)
      BY <2>2 DEF q
    <3>2. Shows(seq, p, name, q)
      BY <2>4, <2>7, <2>50, <3>1 DEF Shows
    <3>3. Got(h, p, SubSeq(names, 1, i), <<>>)
      BY <2>6 DEF Got
    <3>4. Got(h, p + q, SubSeq(names, 1, i), SubSeq(name, 1, q))
      BY <2>2, <3>2, <3>3, TextIsRead
    <3> QED
      BY <3>4 DEF Got
  <2>9. SubSeq(name, 1, q) = name
    BY <2>2 DEF q
  <2>10. seq[p + q + 1] = Nul
    BY <1>0, <2>3, <2>50
  <2>11. h[p + q + 1] = SplitAt(h[p + q], Nul)
    BY <2>50, <2>10 DEF Splits
  <2>12. h[p + q + 1] = [texts |-> Append(SubSeq(names, 1, i), name), text |-> <<>>]
    <3> DEFINE st == h[p + q]
    <3>1. st.texts = SubSeq(names, 1, i) /\ st.text = name
      BY <2>8, <2>9
    <3>2. SplitAt(st, Nul) = [texts |-> Append(st.texts, st.text), text |-> <<>>]
      BY Zenon DEF SplitAt
    <3> HIDE DEF st
    <3>3. h[p + q + 1] = SplitAt(st, Nul)
      BY <2>11 DEF st
    <3> QED
      BY <3>1, <3>2, <3>3
  <2>13. SubSeq(names, 1, i + 1) = Append(SubSeq(names, 1, i), name)
    BY <2>1, BeginningGrows DEF name
  <2> QED
    BY <2>3, <2>12, <2>13
<1> HIDE DEF T
<1>5. k \in T /\ k \in Nat /\ k <= n
  <2>1. Nat \subseteq T
    BY <1>3, <1>4, AllNumbers
  <2> QED
    BY <1>1, <2>1
<1> QED
  BY <1>5 DEF T, P, Got

LEMMA BeginsIt ==
  ASSUME NEW S, NEW s \in Seq(S), NEW q \in 0..Len(s)
  PROVE  IsPrefix(SubSeq(s, 1, q), s) /\ SubSeq(s, 1, q) \in Seq(S)
<1> DEFINE t == SubSeq(s, 1, q)
<1>1. q \in Nat /\ q <= Len(s) /\ t \in Seq(S) /\ Len(t) = q
  OBVIOUS
<1>2. SubSeq(t, 1, Len(t)) = t
  BY <1>1
<1>3. SubSeq(s, 1, Len(t)) = t
  BY <1>1
<1> HIDE DEF t
<1>4. IsPrefix(t, s)
  BY <1>1, <1>2, <1>3 DEF IsPrefix
<1> QED
  BY <1>1, <1>4 DEF t

\* What Split gives of a table that is cut after the first m.
NamesFrom(read, names) ==
  /\ read \in Seq(Seq(Nat))
  /\ \A i \in 1..Len(names) : i <= Len(read) => IsPrefix(read[i], names[i])
AllNames(read, names) ==
  Len(names) <= Len(read) /\ \A i \in 1..Len(names) : read[i] = names[i]

LEMMA TableIsSplit ==
  ASSUME NEW names \in Seq(Seq(Nat \ {Nul})), NEW more \in Seq(Nat),
         NEW w, w = NamesText(names) \o more, NEW m \in 0..Len(w)
  PROVE  /\ NamesFrom(Split(SubSeq(w, 1, m)), names)
         /\ Len(NamesText(names)) <= m => AllNames(Split(SubSeq(w, 1, m)), names)
<1> DEFINE n == Len(names)
           bytes == SubSeq(w, 1, m)
           seq == Append(bytes, Nul)
           text == NamesText(names)
           read == Split(bytes)
<1>1. PICK r : Leaves(r, w, names) /\ r[n] = more
  BY NamesLeave
<1>2. text \in Seq(Nat) /\ w \in Seq(Nat) /\ Len(w) = Len(text) + Len(more)
  <2>1. text \in Seq(Nat)
    BY NamesLeave
  <2> HIDE DEF text
  <2>2. w = text \o more
    BY DEF text
  <2> QED
    BY <2>1, <2>2
<1> HIDE DEF text
<1>3. n \in Nat /\ \A i \in 1..n : names[i] \in Seq(Nat \ {Nul})
  OBVIOUS
<1>4. /\ m \in Nat /\ m <= Len(w) /\ Len(w) \in Nat /\ bytes \in Seq(Nat) /\ Len(bytes) = m
      /\ \A j \in 1..m : bytes[j] = w[j]
  <2>1. m \in Nat /\ m <= Len(w) /\ Len(w) \in Nat
    BY <1>2
  <2>2. w \in Seq(Nat)
    BY <1>2
  <2> QED
    BY ONLY <2>1, <2>2 DEF bytes
<1> HIDE DEF bytes
<1>5. /\ seq \in Seq(Nat) /\ Len(seq) = m + 1 /\ seq[m + 1] = Nul /\ m <= Len(seq)
      /\ \A j \in 1..m : seq[j] = w[j]
  <2>1. Nul \in Nat
    BY DEF Nul
  <2>2. /\ seq \in Seq(Nat) /\ Len(seq) = Len(bytes) + 1 /\ seq[Len(bytes) + 1] = Nul
        /\ \A j \in 1..Len(bytes) : seq[j] = bytes[j]
    BY ONLY <1>4, <2>1
  <2> HIDE DEF seq
  <2> QED
    BY ONLY <1>4, <2>2
<1>6. PICK h : /\ Splits(h, seq) /\ \A i \in 0..(m + 1) : h[i] \in Between
               /\ read = h[m + 1].texts
  BY <1>4, SplitIs
<1> HIDE DEF seq, read
<1> DEFINE P(k) == After(r, w, k)
<1>7. /\ P(0) = 0
      /\ \A k \in 0..n : RestAt(w, P(k), r[k])
      /\ \A k \in 0..(n - 1) :
           /\ P(k + 1) = P(k) + Len(names[k + 1]) + 1
           /\ \A j \in 1..Len(names[k + 1]) : w[P(k) + j] = names[k + 1][j]
           /\ w[P(k + 1)] = Nul
  <2>1. Places(r, w, names)
    BY <1>1, <1>2, LeftThere
  <2> QED
    BY <2>1, Zenon DEF Places
<1>8. P(n) = Len(text)
  BY <1>1, <1>2 DEF After
<1>9. ASSUME NEW k \in 0..n, P(k) <= m
      PROVE  Got(h, P(k), SubSeq(names, 1, k), <<>>)
  <2>1. Alike(seq, w, m)
    BY <1>4, <1>5 DEF Alike
  <2> QED
    BY <1>1, <1>2, <1>5, <1>6, <1>9, <2>1, NamesAreRead
<1>10. \A k \in 0..n : P(k) \in Nat
  BY <1>4, <1>7 DEF RestAt
<1> HIDE DEF P
<1>11. read \in Seq(Seq(Nat))
  BY <1>4, <1>6 DEF Between
<1>12. ASSUME Len(text) <= m PROVE AllNames(read, names)
  <2>1. n \in 0..n /\ P(n) <= m /\ P(n) \in 0..(m + 1) /\ m + 1 \in P(n)..(m + 1)
    BY <1>3, <1>4, <1>8, <1>10, <1>12
  <2>2. Got(h, P(n), SubSeq(names, 1, n), <<>>)
    BY <1>9, <2>1
  <2>3. SubSeq(names, 1, n) = names
    BY <1>3
  <2>4. h[P(n)].texts = names
    BY <2>2, <2>3 DEF Got
  <2>5. /\ Len(h[P(n)].texts) <= Len(h[m + 1].texts)
        /\ \A k \in 1..Len(h[P(n)].texts) : h[m + 1].texts[k] = h[P(n)].texts[k]
    <3>1. \A i \in 0..Len(seq) : h[i] \in Between
      BY <1>5, <1>6
    <3>2. P(n) \in 0..Len(seq) /\ m + 1 \in P(n)..Len(seq)
      BY <1>5, <2>1
    <3>3. seq \in Seq(Nat) /\ Splits(h, seq)
      BY <1>5, <1>6
    <3> QED
      BY ONLY <3>1, <3>2, <3>3, ReadStays
  <2> QED
    BY <1>6, <2>4, <2>5 DEF AllNames
<1>13. ASSUME AllNames(read, names) PROVE NamesFrom(read, names)
  <2>1. ASSUME NEW i \in 1..n PROVE IsPrefix(read[i], names[i])
    <3> DEFINE name == names[i]
    <3>1. name \in Seq(Nat \ {Nul}) /\ Len(name) \in 0..Len(name)
      BY <1>3
    <3> HIDE DEF name
    <3>2. IsPrefix(SubSeq(name, 1, Len(name)), name) /\ SubSeq(name, 1, Len(name)) = name
      BY <3>1, BeginsIt
    <3>3. read[i] = name
      BY <1>13 DEF AllNames, name
    <3> QED
      BY <3>2, <3>3 DEF name
  <2> QED
    BY <1>11, <2>1 DEF NamesFrom
<1>14. ASSUME m < Len(text) PROVE NamesFrom(read, names)
  <2> DEFINE Later == {k \in Nat : k <= n /\ m < P(k)}
  <2>1. n \in Later
    BY <1>3, <1>8, <1>14
  <2>2. PICK i \in Later : \A k \in Later : i <= k
    BY <2>1, LeastNumber
  <2>3. i \in Nat /\ i <= n /\ m < P(i) /\ i # 0
    BY <1>4, <1>7, <2>2
  <2> DEFINE k == i - 1
             name == names[i]
             p == P(k)
             q == m - p
  <2>4. k \in 0..(n - 1) /\ k \in 0..n /\ k + 1 = i /\ k \in Nat /\ k <= n
        /\ i \in 1..n /\ k < i /\ k + 1 <= n
    BY <1>3, <2>3
  <2>5. p <= m /\ p \in Nat
    <3>1. p \in Nat
      BY <1>10, <2>4
    <3>2. ~(m < p)
      <4> SUFFICES ASSUME m < p PROVE FALSE
        OBVIOUS
      <4>1. k \in Later
        BY <2>4
      <4>2. i <= k
        BY <2>2, <4>1
      <4> QED
        BY <2>4, <2>3, <4>2
    <3> QED
      BY <1>4, <3>1, <3>2
  <2>6. name \in Seq(Nat \ {Nul}) /\ Len(name) \in Nat
    BY <1>3, <2>4
  <2>7. P(i) = p + Len(name) + 1 /\ \A j \in 1..Len(name) : w[p + j] = name[j]
    BY <1>7, <2>4
  <2>8. Got(h, p, SubSeq(names, 1, k), <<>>)
    BY <1>9, <2>4, <2>5
  <2> HIDE DEF Later, k, name, p
  <2>9. q \in 0..Len(name) /\ p + q = m /\ q \in Nat
    BY <1>4, <2>3, <2>5, <2>6, <2>7
  <2> HIDE DEF q
  <2>10. Shows(seq, p, name, q)
    <3>1. \A j \in 1..q : p + j \in 1..m /\ j \in 1..Len(name)
      BY <1>4, <2>5, <2>6, <2>9
    <3>2. \A j \in 1..q : seq[p + j] = name[j]
      BY <1>5, <2>7, <3>1
    <3> QED
      BY <1>5, <2>5, <2>9, <3>2 DEF Shows
  <2>11. Got(h, m, SubSeq(names, 1, k), SubSeq(name, 1, q))
    <3>1. Got(h, p + q, SubSeq(names, 1, k), SubSeq(name, 1, q))
      BY <1>5, <1>6, <2>6, <2>8, <2>10, TextIsRead
    <3> QED
      BY <2>9, <3>1
  <2>12. read = Append(SubSeq(names, 1, k), SubSeq(name, 1, q))
    <3>1. m + 1 \in 1..Len(seq) /\ (m + 1) - 1 = m
      BY <1>4, <1>5
    <3>2. h[m + 1] = SplitAt(h[m], Nul)
      BY <1>5, <1>6, <3>1 DEF Splits
    <3> DEFINE st == h[m]
    <3>3. st.texts = SubSeq(names, 1, k) /\ st.text = SubSeq(name, 1, q)
      <4>1. st = [texts |-> SubSeq(names, 1, k), text |-> SubSeq(name, 1, q)]
        BY <2>11, Zenon DEF Got
      <4> HIDE DEF st
      <4> QED
        BY <4>1
    <3>4. SplitAt(st, Nul).texts = Append(st.texts, st.text)
      BY DEF SplitAt
    <3> HIDE DEF st
    <3> QED
      BY <1>6, <3>2, <3>3, <3>4 DEF st
  <2>13. /\ SubSeq(names, 1, k) \in Seq(Seq(Nat \ {Nul})) /\ Len(SubSeq(names, 1, k)) = k
         /\ \A j \in 1..k : SubSeq(names, 1, k)[j] = names[j]
    BY <2>4
  <2>14. IsPrefix(SubSeq(name, 1, q), name) /\ SubSeq(name, 1, q) \in Seq(Nat \ {Nul})
    BY <2>6, <2>9, BeginsIt
  <2>15. /\ SubSeq(names, 1, k) \in Seq(Seq(Nat)) /\ SubSeq(name, 1, q) \in Seq(Nat)
    BY <2>13, <2>14
  <2>16. /\ Len(read) = k + 1 /\ read[k + 1] = SubSeq(name, 1, q)
         /\ \A j \in 1..k : read[j] = names[j]
    <3> DEFINE a == SubSeq(names, 1, k)
               b == SubSeq(name, 1, q)
    <3>1. /\ a \in Seq(Seq(Nat)) /\ b \in Seq(Nat) /\ Len(a) = k /\ read = Append(a, b)
          /\ \A j \in 1..k : a[j] = names[j]
      BY <2>12, <2>13, <2>15
    <3> HIDE DEF a, b
    <3>2. /\ Len(Append(a, b)) = Len(a) + 1 /\ Append(a, b)[Len(a) + 1] = b
          /\ \A j \in 1..Len(a) : Append(a, b)[j] = a[j]
      BY ONLY <3>1
    <3>3. Len(read) = k + 1 /\ read[k + 1] = b /\ \A j \in 1..k : read[j] = names[j]
      BY ONLY <3>1, <3>2
    <3> QED
      BY <3>3 DEF b
  <2>17. ASSUME NEW j \in 1..n, j <= Len(read) PROVE IsPrefix(read[j], names[j])
    <3>1. Len(read) = k + 1 /\ j \in 1..(k + 1)
      BY <2>4, <2>16, <2>17
    <3>2. CASE j = k + 1
      <4>1. read[j] = SubSeq(name, 1, q)
        BY ONLY <3>2, <2>16
      <4>2. names[j] = name
        BY <2>4, <3>2 DEF name
      <4> QED
        BY <2>14, <4>1, <4>2
    <3>3. CASE j # k + 1
      <4>1. j \in 1..k
        BY <2>4, <3>1, <3>3
      <4>2. read[j] = names[j]
        BY ONLY <4>1, <2>16
      <4> DEFINE x == names[j]
      <4>3. x \in Seq(Nat \ {Nul}) /\ Len(x) \in 0..Len(x)
        BY <1>3
      <4> HIDE DEF x
      <4>4. IsPrefix(SubSeq(x, 1, Len(x)), x) /\ SubSeq(x, 1, Len(x)) = x
        BY <4>3, BeginsIt
      <4> QED
        BY <4>2, <4>4 DEF x
    <3> QED
      BY <3>2, <3>3
  <2> QED
    BY <1>11, <2>16, <2>17 DEF NamesFrom
<1>15. Len(text) <= m \/ m < Len(text)
  BY <1>2, <1>4
<1> QED
  BY <1>12, <1>13, <1>14, <1>15 DEF read, bytes, text

\* What an archive that a tool has written is read as, whole or cut.
LEMMA ArchiveIsRead ==
  ASSUME NEW t, TableFits(t), NEW read, read = ArchiveSymbols(t.archive)
  PROVE  IF t.archive = t.written
         THEN read = IF t.archive[2] = SymbolTable THEN <<t.names>> ELSE NoTable
         ELSE read # NoTable =>
                /\ Len(read[1]) <= Len(t.names)
                /\ \A i \in DOMAIN read[1] : IsPrefix(read[1][i], t.names[i])
<1> DEFINE names == t.names
           W == t.written
           ar == t.archive
           n == Len(names)
           text == NamesText(names)
           s == 4 + 2 * n
           e == s + Len(text)
           data == SubSeq(ar, 3, Len(ar))
<1>1. PICK k \in 0..Len(W) : ar = SubSeq(W, 1, k)
  BY DEF TableFits
<1>2. names \in Seq(Seq(Nat \ {Nul})) /\ W \in Seq(Nat) /\ IsTableOf(W, names)
  BY DEF TableFits
<1>3. /\ Len(W) >= e /\ W[1] = Arch /\ BigEndian(SubSeq(W, 3, 4)) = n
      /\ SubSeq(W, s + 1, e) = text
  BY <1>2, Zenon DEF IsTableOf
<1> HIDE DEF names, W, ar
<1>4. n \in Nat /\ text \in Seq(Nat) /\ Len(text) \in Nat /\ Len(W) \in Nat
  <2>1. text \in Seq(Nat)
    BY <1>2, NamesLeave
  <2> HIDE DEF text
  <2> QED
    BY <1>2, <2>1
<1> HIDE DEF n, text
<1>5. s \in Nat /\ e \in Nat /\ s <= e /\ 4 <= s /\ e <= Len(W)
  BY <1>3, <1>4
<1>6. Cell * W[3] + W[4] = n
  <2>1. /\ SubSeq(W, 3, 4)[1] = W[3] /\ SubSeq(W, 3, 4)[2] = W[4]
    BY <1>2, <1>5
  <2> QED
    BY <1>3, <2>1 DEF BigEndian
<1>7. /\ k \in Nat /\ k <= Len(W) /\ ar \in Seq(Nat) /\ Len(ar) = k
      /\ \A i \in 1..k : ar[i] = W[i]
  BY <1>1, <1>2
<1>8. ar = W <=> k = Len(W)
  <2>1. k = Len(W) => ar = W
    BY <1>1, <1>2
  <2> QED
    BY <1>7, <2>1
<1> DEFINE w == SubSeq(W, s + 1, Len(W))
           more == SubSeq(W, e + 1, Len(W))
<1>9. w = text \o more /\ more \in Seq(Nat) /\ w \in Seq(Nat) /\ Len(w) = Len(W) - s
  <2> HIDE DEF s, e
  <2>0. e = s + Len(text)
    BY DEF e
  <2>1. /\ w \in Seq(Nat) /\ Len(w) = Len(W) - s /\ \A i \in 1..(Len(W) - s) : w[i] = W[s + i]
    BY <1>2, <1>4, <1>5, MiddleIs
  <2>2. /\ more \in Seq(Nat) /\ Len(more) = Len(W) - e
        /\ \A i \in 1..(Len(W) - e) : more[i] = W[e + i]
    BY <1>2, <1>4, <1>5, MiddleIs
  <2>3. \A i \in 1..(e - s) : text[i] = W[s + i]
    BY <1>2, <1>3, <1>4, <1>5, MiddleIs
  <2> HIDE DEF w, more
  <2>4. /\ text \o more \in Seq(Nat) /\ Len(text \o more) = Len(w)
    <3>1. text \o more \in Seq(Nat) /\ Len(text \o more) = Len(text) + Len(more)
      <4>1. text \in Seq(Nat) /\ more \in Seq(Nat)
        BY <1>4, <2>2
      <4> QED
        BY ONLY <4>1, Joined
    <3>2. Len(text) + (Len(W) - e) = Len(W) - s
      BY <1>4, <1>5, <2>0
    <3> QED
      BY <2>1, <2>2, <3>1, <3>2
  <2>5. ASSUME NEW i \in 1..Len(w) PROVE w[i] = (text \o more)[i]
    <3>1. CASE i <= Len(text)
      <4>1. i \in 1..(e - s) /\ i \in 1..Len(text) /\ i \in 1..(Len(W) - s)
        BY <1>4, <1>5, <2>0, <2>1, <3>1
      <4>2. (text \o more)[i] = text[i]
        BY <1>4, <2>2, <4>1
      <4> QED
        BY <2>1, <2>3, <4>1, <4>2
    <3>2. CASE i > Len(text)
      <4> DEFINE j == i - Len(text)
      <4>1. j \in 1..(Len(W) - e) /\ j \in 1..Len(more) /\ i = Len(text) + j /\ e + j = s + i
            /\ i \in 1..(Len(W) - s)
        BY <1>4, <1>5, <2>0, <2>1, <2>2, <3>2
      <4> HIDE DEF j
      <4>2. (text \o more)[Len(text) + j] = more[j]
        BY <1>4, <2>2, <4>1
      <4>3. more[j] = W[e + j] /\ w[i] = W[s + i]
        BY <2>1, <2>2, <4>1
      <4> QED
        BY <4>1, <4>2, <4>3
    <3>3. i \in Nat
      BY <1>5, <2>1
    <3>4. i <= Len(text) \/ i > Len(text)
      BY <1>4, <3>3
    <3> QED
      BY <3>1, <3>2, <3>4, Zenon
  <2>6. w = text \o more
    BY <2>1, <2>4, <2>5, SameList
  <2> QED
    BY <2>1, <2>2, <2>6
<1> DEFINE Fails == \/ Len(ar) < 2 \/ ar[1] # Arch \/ ar[2] # SymbolTable
                    \/ Len(data) < 2 \/ Len(data) < 2 + 2 * BigEndian(data)
           read1 == Split(SubSeq(data, 2 + 2 * BigEndian(data) + 1, Len(data)))
           count == BigEndian(data)
<1>10. read = IF Fails THEN NoTable
              ELSE <<SubSeq(read1, 1, IF count < Len(read1) THEN count ELSE Len(read1))>>
  BY Zenon DEF ArchiveSymbols, ar
<1>11. ASSUME 4 <= k
       PROVE  /\ data \in Seq(Nat) /\ Len(data) = k - 2 /\ count = n
              /\ \A i \in 1..(k - 2) : data[i] = W[2 + i]
  <2>1. /\ SubSeq(ar, 2 + 1, k) \in Seq(Nat) /\ Len(SubSeq(ar, 2 + 1, k)) = k - 2
        /\ \A i \in 1..(k - 2) : SubSeq(ar, 2 + 1, k)[i] = ar[2 + i]
    <3>1. 2 \in Nat /\ 2 <= k /\ k <= Len(ar)
      BY <1>7, <1>11
    <3> QED
      BY <1>7, <3>1, MiddleIs
  <2>2. 2 + 1 = 3 /\ Len(ar) = k
    BY <1>7
  <2>3. /\ data \in Seq(Nat) /\ Len(data) = k - 2 /\ \A i \in 1..(k - 2) : data[i] = ar[2 + i]
    BY <2>1, <2>2
  <2> HIDE DEF data
  <2>4. \A i \in 1..(k - 2) : data[i] = W[2 + i]
    <3>1. \A i \in 1..(k - 2) : 2 + i \in 1..k
      BY <1>7
    <3> QED
      BY <1>7, <2>3, <3>1
  <2>5. data[1] = W[3] /\ data[2] = W[4]
    <3>1. 1 \in 1..(k - 2) /\ 2 \in 1..(k - 2) /\ 2 + 1 = 3 /\ 2 + 2 = 4
      BY <1>7, <1>11
    <3> QED
      BY <2>4, <3>1
  <2>6. count = n
    BY <1>6, <2>5 DEF BigEndian
  <2> QED
    BY <2>3, <2>4, <2>6
<1>12. ASSUME s <= k
       PROVE  /\ data \in Seq(Nat) /\ Len(data) = k - 2 /\ count = n
              /\ SubSeq(data, 2 + 2 * count + 1, Len(data)) = SubSeq(w, 1, k - s)
  <2>1. 4 <= k
    BY <1>5, <1>7, <1>12
  <2>2. /\ data \in Seq(Nat) /\ Len(data) = k - 2 /\ count = n
        /\ \A i \in 1..(k - 2) : data[i] = W[2 + i]
    BY <1>11, <2>1
  <2> HIDE DEF data, count, w
  <2> DEFINE a == 2 + 2 * n
             d == SubSeq(data, a + 1, k - 2)
             v == SubSeq(w, 0 + 1, k - s)
  <2>3. a \in Nat /\ a <= k - 2 /\ k - 2 \in Nat /\ k - 2 <= Len(data) /\ (k - 2) - a = k - s
        /\ k - s \in Nat /\ k - s <= Len(w) /\ 2 + a = s
    <3>1. 2 + a = s /\ a \in Nat
      BY <1>4
    <3> HIDE DEF a, s
    <3>2. Len(w) = Len(W) - s
      BY <1>9
    <3> QED
      BY <1>4, <1>5, <1>7, <1>12, <2>2, <3>1, <3>2
  <2> HIDE DEF a
  <2>4. /\ d \in Seq(Nat) /\ Len(d) = (k - 2) - a
        /\ \A i \in 1..((k - 2) - a) : d[i] = data[a + i]
    <3>1. \A b \in Nat : a <= b /\ b <= Len(data) =>
            /\ SubSeq(data, a + 1, b) \in Seq(Nat) /\ Len(SubSeq(data, a + 1, b)) = b - a
            /\ \A i \in 1..(b - a) : SubSeq(data, a + 1, b)[i] = data[a + i]
      <4>1. data \in Seq(Nat) /\ a \in Nat
        BY <2>2, <2>3
      <4> QED
        BY ONLY <4>1, MiddleIs
    <3> QED
      BY <2>3, <3>1
  <2>5. /\ v \in Seq(Nat) /\ Len(v) = (k - s) - 0
        /\ \A i \in 1..((k - s) - 0) : v[i] = w[0 + i]
    <3>1. 0 \in Nat /\ 0 <= k - s
      BY <2>3
    <3>2. \A b \in Nat : 0 <= b /\ b <= Len(w) =>
            /\ SubSeq(w, 0 + 1, b) \in Seq(Nat) /\ Len(SubSeq(w, 0 + 1, b)) = b - 0
            /\ \A i \in 1..(b - 0) : SubSeq(w, 0 + 1, b)[i] = w[0 + i]
      <4>1. w \in Seq(Nat) /\ 0 \in Nat
        BY <1>9
      <4> HIDE DEF w
      <4> QED
        BY ONLY <4>1, MiddleIs
    <3> QED
      BY <2>3, <3>1, <3>2
  <2>6. \A i \in 1..(Len(W) - s) : w[i] = W[s + i]
    BY <1>2, <1>4, <1>5, MiddleIs DEF w
  <2> HIDE DEF d, v, s
  <2>7. Len(d) = Len(v)
    BY <2>3, <2>4, <2>5
  <2>8. ASSUME NEW i \in 1..Len(d) PROVE d[i] = v[i]
    <3>1. /\ i \in 1..((k - 2) - a) /\ a + i \in 1..(k - 2) /\ i \in 1..((k - s) - 0)
          /\ 0 + i = i /\ i \in 1..(Len(W) - s) /\ 2 + (a + i) = s + i
      BY <1>4, <1>5, <1>7, <2>3, <2>4
    <3>2. d[i] = data[a + i] /\ data[a + i] = W[2 + (a + i)] /\ v[i] = w[0 + i] /\ w[i] = W[s + i]
      BY <2>2, <2>4, <2>5, <2>6, <3>1
    <3> QED
      BY <3>1, <3>2
  <2>9. d = v
    BY <2>4, <2>5, <2>7, <2>8, SameList
  <2>10. a + 1 = 2 + 2 * count + 1 /\ 0 + 1 = 1
    BY <2>2 DEF a
  <2> QED
    BY <2>2, <2>9, <2>10 DEF d, v
<1>13. Fails <=> ~(s <= k /\ ar[2] = SymbolTable)
  <2>1. CASE k < 4
    <3>1. Fails
      <4>1. CASE k < 2
        BY <1>7, <4>1
      <4>2. CASE ~(k < 2)
        <5>1. Len(data) = k - 2
          BY <1>7, <4>2
        <5> QED
          BY <1>7, <2>1, <5>1
      <4> QED
        BY <4>1, <4>2
    <3>2. ~(s <= k)
      BY <1>5, <1>7, <2>1
    <3> QED
      BY <3>1, <3>2
  <2>2. CASE ~(k < 4)
    <3>1. 4 <= k /\ ~(Len(ar) < 2) /\ ar[1] = Arch
      <4>1. 1 \in 1..k /\ 4 <= k
        BY <1>7, <2>2
      <4> QED
        BY <1>3, <1>7, <4>1
    <3>2. Len(data) = k - 2 /\ count = n
      BY <1>11, <3>1
    <3> HIDE DEF data, count
    <3>3. ~(Len(data) < 2) /\ (Len(data) < 2 + 2 * count <=> ~(s <= k))
      BY <1>4, <1>7, <3>1, <3>2
    <3> QED
      BY <3>1, <3>3 DEF count
  <2> QED
    BY <2>1, <2>2
<1> DEFINE cut == k - s
           x == Split(SubSeq(w, 1, cut))
<1>14. ASSUME s <= k
       PROVE  /\ NamesFrom(x, names)
              /\ Len(text) <= cut => AllNames(x, names)
              /\ read1 = x /\ count = n
  <2>1. cut \in 0..Len(w)
    <3>1. Len(w) = Len(W) - s
      BY <1>9
    <3> HIDE DEF s, w
    <3> QED
      BY <1>4, <1>5, <1>7, <1>14, <3>1
  <2> HIDE DEF w, more, cut
  <2>2. /\ NamesFrom(x, names)
        /\ Len(text) <= cut => AllNames(x, names)
    BY <1>2, <1>9, <2>1, TableIsSplit DEF text
  <2>3. read1 = x /\ count = n
    BY <1>12, <1>14, Zenon DEF cut
  <2> QED
    BY <2>2, <2>3
<1> HIDE DEF Fails, read1, count, x
<1>15. ASSUME ~Fails
       PROVE  LET m == IF n < Len(x) THEN n ELSE Len(x)
              IN  /\ read = <<SubSeq(x, 1, m)>> /\ NamesFrom(x, names)
                  /\ Len(text) <= cut => AllNames(x, names)
  BY <1>10, <1>13, <1>14, <1>15
<1>16. CASE Fails
  <2>1. read = NoTable
    BY <1>10, <1>16
  <2>2. ar = W => ar[2] # SymbolTable
    <3>1. ar = W => s <= k
      BY <1>4, <1>5, <1>7, <1>8
    <3> QED
      BY <1>13, <1>16, <3>1
  <2> QED
    BY <2>1, <2>2 DEF ar, W
<1>17. CASE ~Fails
  <2> DEFINE m == IF n < Len(x) THEN n ELSE Len(x)
  <2>1. /\ read = <<SubSeq(x, 1, m)>> /\ NamesFrom(x, names)
        /\ Len(text) <= cut => AllNames(x, names)
    BY <1>15, <1>17
  <2>2. x \in Seq(Seq(Nat)) /\ Len(x) \in Nat
    BY <2>1 DEF NamesFrom
  <2>3. m \in Nat /\ m <= n /\ m <= Len(x)
    BY <1>4, <2>2
  <2>4. /\ read[1] = SubSeq(x, 1, m) /\ read # NoTable /\ Len(SubSeq(x, 1, m)) = m
        /\ DOMAIN SubSeq(x, 1, m) = 1..m /\ \A i \in 1..m : SubSeq(x, 1, m)[i] = x[i]
    BY <2>1, <2>2, <2>3 DEF NoTable
  <2>5. ar = W => read = <<names>>
    <3> SUFFICES ASSUME ar = W PROVE read = <<names>>
      OBVIOUS
    <3>1. Len(text) <= cut
      BY <1>4, <1>5, <1>7, <1>8
    <3>2. n <= Len(x) /\ \A i \in 1..n : x[i] = names[i]
      BY <2>1, <3>1 DEF AllNames, n
    <3>3. m = n
      BY <1>4, <2>2, <3>2
    <3>4. SubSeq(x, 1, m) = names
      <4>1. SubSeq(x, 1, m) \in Seq(Seq(Nat)) /\ names \in Seq(Seq(Nat \ {Nul})) /\ Len(names) = n
        BY <1>2, <2>2 DEF n
      <4>2. names = [i \in 1..n |-> names[i]]
        BY <4>1
      <4>3. SubSeq(x, 1, m) = [i \in 1..n |-> SubSeq(x, 1, m)[i]]
        BY <2>4, <3>3, <4>1
      <4> QED
        BY <2>4, <3>2, <3>3, <4>2, <4>3
    <3> QED
      BY <2>1, <3>4
  <2>6. ASSUME NEW i \in DOMAIN read[1] PROVE IsPrefix(read[1][i], names[i])
    <3>1. i \in 1..m /\ read[1][i] = x[i]
      BY <2>4
    <3>2. i \in 1..n /\ i <= Len(x)
      BY <1>4, <2>2, <2>3, <3>1
    <3> QED
      BY <2>1, <3>1, <3>2 DEF NamesFrom, n
  <2>7. Len(read[1]) <= n
    BY <2>3, <2>4
  <2>8. ar[2] = SymbolTable
    BY <1>13, <1>17
  <2> QED
    BY <2>5, <2>6, <2>7, <2>8 DEF ar, W, names, n
<1> QED
  BY <1>16, <1>17

-----------------------------------------------------------------------------
(* The paths in cargo's dep-info                                           *)

PathsRead == [paths : Seq(Seq(Nat)), path : Seq(Nat)]

\* h is how PathsOf reads deps.
ReadsPaths(h, deps) ==
  /\ h[0] = [paths |-> <<>>, path |-> <<>>]
  /\ \A i \in 1..Len(deps) : h[i] = ReadAt(deps, h[i - 1], i)

LEMMA ReadAtType ==
  ASSUME NEW deps \in Seq(Nat), NEW st \in PathsRead, NEW i \in 1..Len(deps)
  PROVE  ReadAt(deps, st, i) \in PathsRead
<1>1. st.paths \in Seq(Seq(Nat)) /\ st.path \in Seq(Nat) /\ deps[i] \in Nat /\ <<>> \in Seq(Nat)
  BY DEF PathsRead
<1>2. Append(st.paths, st.path) \in Seq(Seq(Nat)) /\ Append(st.path, deps[i]) \in Seq(Nat)
  BY <1>1
<1>3. EndPath(st) \in PathsRead
  BY <1>1, <1>2 DEF EndPath, PathsRead
<1>4. [paths |-> st.paths, path |-> Append(st.path, deps[i])] \in PathsRead
  BY <1>1, <1>2 DEF PathsRead
<1>5. CASE Escapes(deps, i)
  <2>1. deps[i] # Blank
    BY <1>5 DEF Escapes, Escape, Blank
  <2>2. ReadAt(deps, st, i) = st
    BY <1>5, <2>1, Zenon DEF ReadAt
  <2> QED
    BY <2>2
<1>6. CASE ~Escapes(deps, i) /\ deps[i] = Blank /\ ~(i > 1 /\ Escapes(deps, i - 1))
  BY <1>3, <1>6, Zenon DEF ReadAt
<1>7. CASE ~Escapes(deps, i) /\ ~(deps[i] = Blank /\ ~(i > 1 /\ Escapes(deps, i - 1)))
  <2>1. ReadAt(deps, st, i) = [paths |-> st.paths, path |-> Append(st.path, deps[i])]
    BY <1>7, Zenon DEF ReadAt
  <2> QED
    BY <1>4, <2>1
<1> QED
  BY <1>5, <1>6, <1>7

LEMMA PathsOfIs ==
  ASSUME NEW deps \in Seq(Nat)
  PROVE  \E h : ReadsPaths(h, deps) /\ PathsOf(deps) = EndPath(h[Len(deps)]).paths
<1> DEFINE n == Len(deps)
           base == [paths |-> <<>>, path |-> <<>>]
           A == PathsRead
           Step(st, i) == ReadAt(deps, st, i)
           G == [q \in A \X (1..n) |-> Step(q[1], q[2])]
           seq == [i \in DOMAIN deps |-> i]
           f == CHOOSE g : g = [s \in SUBSET (DOMAIN seq) |->
                  IF s = {} THEN base ELSE Step(g[s \ {Max(s)}], seq[Max(s)])]
<1>1. PathsOf(deps) = EndPath(f[DOMAIN seq]).paths
  BY Zenon DEF PathsOf, FoldLeft, MapThenFoldSet
<1>2. n \in Nat /\ DOMAIN deps = 1..n
  OBVIOUS
<1>20. DOMAIN seq = 1..n /\ \A i \in 1..n : seq[i] = i
  BY <1>2
<1>3. base \in A
  BY DEF PathsRead
<1>4. ASSUME NEW st \in A, NEW i \in 1..n PROVE Step(st, i) \in A
  BY ReadAtType
<1> HIDE DEF A, base, n, Step, seq
<1>5. G \in [A \X (1..n) -> A]
  BY <1>4
<1>6. \A st \in A, i \in 1..n : G[<<st, i>>] = Step(st, i)
  OBVIOUS
<1> HIDE DEF G
<1>7. PICK g \in [SUBSET (1..n) -> A] : Accumulates(g, G, base, n)
  BY <1>2, <1>3, <1>5, AccumulatesExists DEF CanAccumulate
<1>8. g = [s \in SUBSET (1..n) |->
             IF s = {} THEN base ELSE Step(g[s \ {Max(s)}], seq[Max(s)])]
  <2>1. ASSUME NEW s \in SUBSET (1..n), s # {}
        PROVE  g[s] = Step(g[s \ {Max(s)}], seq[Max(s)])
    <3>1. Max(s) \in 1..n
      BY <1>2, <2>1, MaxIs
    <3>2. g[s \ {Max(s)}] \in A
      OBVIOUS
    <3>3. g[s] = G[<<g[s \ {Max(s)}], Max(s)>>]
      BY <1>7, <2>1 DEF Accumulates
    <3>4. seq[Max(s)] = Max(s)
      BY <1>20, <3>1
    <3> QED
      BY <1>6, <3>1, <3>2, <3>3, <3>4
  <2>2. g[{}] = base
    BY <1>7 DEF Accumulates
  <2> QED
    BY <2>1, <2>2
<1>9. f = [s \in SUBSET (1..n) |->
             IF s = {} THEN base ELSE Step(f[s \ {Max(s)}], seq[Max(s)])]
  BY <1>20, <1>8, ZenonT(30)
<1> HIDE DEF f
<1> DEFINE h == [i \in 0..n |-> f[1..i]]
<1>10. h[0] = base
  <2>1. 1..0 = {} /\ 0 \in 0..n /\ {} \in SUBSET (1..n)
    BY <1>2
  <2> QED
    BY <1>9, <2>1
<1>11. ASSUME NEW i \in 1..n PROVE h[i] = Step(h[i - 1], i)
  <2>1. i \in Nat \ {0} /\ 1..i \in SUBSET (1..n) /\ i \in 0..n /\ i - 1 \in 0..n
    BY <1>2
  <2>2. 1..i # {} /\ Max(1..i) = i /\ (1..i) \ {i} = 1..(i - 1) /\ seq[i] = i
    BY <1>20, <2>1, MaxOfFirst
  <2>3. f[1..i] = Step(f[(1..i) \ {Max(1..i)}], seq[Max(1..i)])
    BY <1>9, <2>1, <2>2
  <2>4. f[1..i] = Step(f[1..(i - 1)], i)
    BY <2>2, <2>3
  <2> QED
    BY <2>1, <2>4
<1>12. PathsOf(deps) = EndPath(h[n]).paths
  <2>1. n \in 0..n
    BY <1>2
  <2> QED
    BY <1>1, <1>20, <2>1
<1> HIDE DEF h
<1>13. ReadsPaths(h, deps)
  BY <1>10, <1>11 DEF ReadsPaths, base, n, Step
<1> QED
  BY <1>12, <1>13 DEF n

\* After q of deps there is rest, and these paths were read and this one so far; q
\* does not end with a backslash that the path does not.
ReadTo(h, deps, q, rest, paths, path) ==
  /\ RestAt(deps, q, rest)
  /\ h[q] = [paths |-> paths, path |-> path]
  /\ q > 0 /\ deps[q] = Escape => path # <<>> /\ path[Len(path)] = Escape

\* A character of a path.
LEMMA CharacterIsRead ==
  ASSUME NEW deps \in Seq(Nat), NEW h, ReadsPaths(h, deps), NEW q, NEW rest \in Seq(Nat),
         NEW c \in Nat \ {Blank}, NEW paths, NEW path \in Seq(Nat),
         ReadTo(h, deps, q, <<c>> \o rest, paths, path),
         c = Escape => rest = <<>> \/ rest[1] # Blank
  PROVE  ReadTo(h, deps, q + 1, rest, paths, Append(path, c))
<1>1. RestAt(deps, q, <<c>> \o rest) /\ <<c>> \in Seq(Nat) /\ Len(<<c>>) = 1
      /\ 1 \in 1..Len(<<c>>) /\ <<c>>[1] = c
  BY DEF ReadTo
<1>2. RestAt(deps, q + 1, rest) /\ deps[q + 1] = c
  <2> DEFINE x == <<c>>
  <2> HIDE DEF x
  <2>1. /\ RestAt(deps, q, x \o rest) /\ x \in Seq(Nat) /\ Len(x) = 1 /\ 1 \in 1..Len(x) /\ x[1] = c
    BY <1>1 DEF x
  <2>2. RestAt(deps, q + Len(x), rest) /\ \A j \in 1..Len(x) : deps[q + j] = x[j]
    <3>1. /\ deps \in Seq(Nat) /\ rest \in Seq(Nat) /\ x \in Seq(Nat)
          /\ RestAt(deps, q, x \o rest)
      BY <2>1
    <3> QED
      BY ONLY <3>1, RestMoves
  <2> QED
    BY <2>1, <2>2
<1>3. /\ q \in Nat /\ q + 1 \in 1..Len(deps) /\ (q + 1) - 1 = q /\ Len(rest) \in Nat
      /\ (q + 1) + Len(rest) = Len(deps) /\ Len(deps) \in Nat
  <2>1. Len(deps) \in Nat /\ Len(rest) \in Nat
    OBVIOUS
  <2> QED
    BY <1>1, <1>2, <2>1 DEF RestAt
<1>4. ~Escapes(deps, q + 1)
  <2> SUFFICES ASSUME c = Escape, q + 1 < Len(deps), deps[(q + 1) + 1] = Blank PROVE FALSE
    BY <1>2 DEF Escapes
  <2>1. 1 \in 1..Len(rest)
    BY <1>3
  <2>2. deps[(q + 1) + 1] = rest[1]
    BY <1>2, <2>1 DEF RestAt
  <2>3. rest # <<>>
    BY <2>1
  <2> QED
    BY <2>2, <2>3
<1>5. h[q] = [paths |-> paths, path |-> path]
  BY DEF ReadTo
<1> DEFINE st == h[q]
<1>6. st.paths = paths /\ st.path = path
  BY <1>5
<1>7. h[q + 1] = ReadAt(deps, st, q + 1)
  BY <1>3 DEF ReadsPaths
<1> HIDE DEF st
<1>8. ReadAt(deps, st, q + 1) = [paths |-> st.paths, path |-> Append(st.path, deps[q + 1])]
  <2>1. ~(deps[q + 1] = Blank)
    BY <1>2
  <2> QED
    BY <1>4, <2>1, Zenon DEF ReadAt
<1>9. h[q + 1] = [paths |-> paths, path |-> Append(path, c)]
  BY <1>2, <1>6, <1>7, <1>8
<1>10. Append(path, c) # <<>> /\ Append(path, c)[Len(Append(path, c))] = c
  <2>1. Len(Append(path, c)) = Len(path) + 1 /\ Append(path, c)[Len(path) + 1] = c
        /\ Len(path) \in Nat
    OBVIOUS
  <2>2. Append(path, c) # <<>>
    <3> DEFINE a == Append(path, c)
    <3>1. Len(a) # 0
      BY <2>1
    <3> HIDE DEF a
    <3>2. a # <<>>
      BY <3>1
    <3> QED
      BY <3>2 DEF a
  <2> QED
    BY <2>1, <2>2
<1> QED
  BY <1>2, <1>9, <1>10 DEF ReadTo

\* An escaped blank.
LEMMA BlankIsRead ==
  ASSUME NEW deps \in Seq(Nat), NEW h, ReadsPaths(h, deps), NEW q, NEW rest \in Seq(Nat),
         NEW paths, NEW path \in Seq(Nat),
         ReadTo(h, deps, q, <<Escape, Blank>> \o rest, paths, path)
  PROVE  ReadTo(h, deps, q + 2, rest, paths, Append(path, Blank))
<1> DEFINE x == <<Escape, Blank>>
<1>1. /\ RestAt(deps, q, x \o rest) /\ x \in Seq(Nat) /\ Len(x) = 2
      /\ 1 \in 1..Len(x) /\ 2 \in 1..Len(x) /\ x[1] = Escape /\ x[2] = Blank
  BY DEF ReadTo, Escape, Blank
<1> HIDE DEF x
<1>2. RestAt(deps, q + 2, rest) /\ deps[q + 1] = Escape /\ deps[q + 2] = Blank
  <2>1. RestAt(deps, q + Len(x), rest) /\ \A j \in 1..Len(x) : deps[q + j] = x[j]
    <3>1. /\ deps \in Seq(Nat) /\ rest \in Seq(Nat) /\ x \in Seq(Nat)
          /\ RestAt(deps, q, x \o rest)
      BY <1>1
    <3> QED
      BY ONLY <3>1, RestMoves
  <2> QED
    BY <1>1, <2>1
<1>3. /\ q \in Nat /\ q + 1 \in 1..Len(deps) /\ (q + 1) - 1 = q /\ q + 1 < Len(deps)
      /\ (q + 1) + 1 = q + 2 /\ q + 2 \in 1..Len(deps) /\ (q + 2) - 1 = q + 1 /\ q + 2 > 1
  <2>1. Len(deps) \in Nat /\ Len(rest) \in Nat
    OBVIOUS
  <2>2. q \in Nat
    BY <1>1, <2>1 DEF RestAt
  <2>3. (q + 2) + Len(rest) = Len(deps)
    BY <1>2 DEF RestAt
  <2> QED
    BY <2>1, <2>2, <2>3
<1>4. Escapes(deps, q + 1)
  BY <1>2, <1>3 DEF Escapes
<1>5. h[q] = [paths |-> paths, path |-> path]
  BY DEF ReadTo
<1>6. h[q + 1] = h[q]
  <2>1. h[q + 1] = ReadAt(deps, h[q], q + 1)
    BY <1>3 DEF ReadsPaths
  <2>2. deps[q + 1] # Blank
    BY <1>2 DEF Escape, Blank
  <2> QED
    BY <1>4, <2>1, <2>2, Zenon DEF ReadAt
<1> DEFINE st == h[q + 1]
<1>7. st.paths = paths /\ st.path = path
  BY <1>5, <1>6
<1>8. h[q + 2] = ReadAt(deps, st, q + 2)
  BY <1>3 DEF ReadsPaths
<1> HIDE DEF st
<1>9. ReadAt(deps, st, q + 2) = [paths |-> st.paths, path |-> Append(st.path, deps[q + 2])]
  <2>1. ~Escapes(deps, q + 2)
    BY <1>2 DEF Escapes, Escape, Blank
  <2>2. q + 2 > 1 /\ Escapes(deps, (q + 2) - 1)
    BY <1>3, <1>4
  <2> QED
    BY <2>1, <2>2, Zenon DEF ReadAt
<1>10. h[q + 2] = [paths |-> paths, path |-> Append(path, Blank)]
  BY <1>2, <1>7, <1>8, <1>9
<1>11. deps[q + 2] # Escape
  BY <1>2 DEF Escape, Blank
<1> QED
  BY <1>2, <1>10, <1>11 DEF ReadTo

\* The blank between two paths.
LEMMA PathEnds ==
  ASSUME NEW deps \in Seq(Nat), NEW h, ReadsPaths(h, deps), NEW q, NEW rest \in Seq(Nat),
         NEW paths, NEW path \in Seq(Nat), path # <<>>, path[Len(path)] # Escape,
         ReadTo(h, deps, q, <<Blank>> \o rest, paths, path)
  PROVE  ReadTo(h, deps, q + 1, rest, Append(paths, path), <<>>)
<1> DEFINE x == <<Blank>>
<1>1. /\ RestAt(deps, q, x \o rest) /\ x \in Seq(Nat) /\ Len(x) = 1 /\ 1 \in 1..Len(x) /\ x[1] = Blank
  BY DEF ReadTo, Blank
<1> HIDE DEF x
<1>2. RestAt(deps, q + 1, rest) /\ deps[q + 1] = Blank
  <2>1. RestAt(deps, q + Len(x), rest) /\ \A j \in 1..Len(x) : deps[q + j] = x[j]
    <3>1. /\ deps \in Seq(Nat) /\ rest \in Seq(Nat) /\ x \in Seq(Nat)
          /\ RestAt(deps, q, x \o rest)
      BY <1>1
    <3> QED
      BY ONLY <3>1, RestMoves
  <2> QED
    BY <1>1, <2>1
<1>3. /\ q \in Nat /\ q + 1 \in 1..Len(deps) /\ (q + 1) - 1 = q /\ (q + 1 > 1 => q > 0)
  <2>1. Len(deps) \in Nat /\ Len(rest) \in Nat
    OBVIOUS
  <2>2. q \in Nat
    BY <1>1, <2>1 DEF RestAt
  <2>3. (q + 1) + Len(rest) = Len(deps)
    BY <1>2 DEF RestAt
  <2> QED
    BY <2>1, <2>2, <2>3
<1>4. h[q] = [paths |-> paths, path |-> path] /\ (q > 0 => deps[q] # Escape)
  BY DEF ReadTo
<1> DEFINE st == h[q]
<1>5. st.paths = paths /\ st.path = path
  BY <1>4
<1>6. h[q + 1] = ReadAt(deps, st, q + 1)
  BY <1>3 DEF ReadsPaths
<1> HIDE DEF st
<1>7. ReadAt(deps, st, q + 1) = EndPath(st)
  <2>1. ~Escapes(deps, q + 1)
    BY <1>2 DEF Escapes, Escape, Blank
  <2>2. ~(q + 1 > 1 /\ Escapes(deps, (q + 1) - 1))
    BY <1>3, <1>4 DEF Escapes
  <2> QED
    BY <1>2, <2>1, <2>2, Zenon DEF ReadAt
<1>8. EndPath(st) = [paths |-> Append(paths, path), path |-> <<>>]
  BY <1>5 DEF EndPath
<1>9. deps[q + 1] # Escape
  BY <1>2 DEF Escape, Blank
<1> QED
  BY <1>2, <1>6, <1>7, <1>8, <1>9 DEF ReadTo

\* A character as cargo writes it.
Spelled(c) == IF c = Blank THEN <<Escape, Blank>> ELSE <<c>>

\* r is what is left after each character of what Escaped makes.
LeavesPath(r, path, more) ==
  /\ r \in [0..Len(path) -> Seq(Nat)]
  /\ r[0] = Escaped(path) \o more /\ r[Len(path)] = more
  /\ \A i \in 1..Len(path) : r[i - 1] = Spelled(path[i]) \o r[i]

LEMMA SpelledType ==
  ASSUME NEW c \in Nat \ {NewLine}
  PROVE  Spelled(c) \in Seq(Nat \ {NewLine}) /\ Spelled(c) # <<>> /\ Spelled(c)[1] # Blank
<1>1. Escape \in Nat \ {NewLine} /\ Blank \in Nat \ {NewLine} /\ Escape # Blank
  BY DEF Escape, Blank, NewLine
<1>2. CASE c = Blank
  <2>1. Spelled(c) = <<Escape, Blank>>
    BY <1>2 DEF Spelled
  <2> QED
    BY <1>1, <2>1
<1>3. CASE c # Blank
  <2>1. Spelled(c) = <<c>>
    BY <1>3 DEF Spelled
  <2> QED
    BY <1>3, <2>1
<1> QED
  BY <1>2, <1>3

LEMMA EscapedLeaves ==
  ASSUME NEW path \in Seq(Nat \ {NewLine}), NEW more \in Seq(Nat)
  PROVE  /\ Escaped(path) \in Seq(Nat \ {NewLine})
         /\ \E r : LeavesPath(r, path, more)
<1> DEFINE n == Len(path)
           L == Nat \ {NewLine}
           seqs == [i \in DOMAIN path |-> IF path[i] = Blank THEN <<Escape, Blank>> ELSE <<path[i]>>]
<1>1. n \in Nat /\ DOMAIN path = 1..n /\ \A i \in 1..n : path[i] \in L
  OBVIOUS
<1>2. \A i \in 1..n : seqs[i] = Spelled(path[i])
  BY <1>1 DEF Spelled
<1>3. DOMAIN seqs = 1..n
  BY <1>1
<1>4. Escaped(path) = FlattenSeq(seqs)
  BY Zenon DEF Escaped
<1>5. \A i \in 1..n : seqs[i] \in Seq(L)
  BY <1>1, <1>2, SpelledType
<1>6. seqs = [i \in 1..n |-> seqs[i]]
  BY <1>1
<1> HIDE DEF seqs, n
<1>7. seqs \in Seq(Seq(L)) /\ Len(seqs) = n
  <2>1. n \in Nat /\ seqs = [i \in 1..n |-> seqs[i]] /\ \A i \in 1..n : seqs[i] \in Seq(L)
    BY <1>1, <1>5, <1>6
  <2> HIDE DEF L
  <2> QED
    BY ONLY <2>1, ListIs
<1> HIDE DEF L
<1>8. FlattenSeq(seqs) \in Seq(L)
  BY <1>7, FlattenSeqType
<1>9. seqs \in Seq(Seq(Nat))
  <2>1. \A i \in 1..n : seqs[i] \in Seq(Nat)
    <3>1. \A x \in Seq(L) : x \in Seq(Nat)
      BY DEF L
    <3> QED
      BY <1>5, <3>1
  <2> QED
    BY ONLY <1>1, <1>6, <2>1, ListIs
<1>10. PICK r \in [0..n -> Seq(Nat)] : Rests(r, seqs, more, n)
  BY <1>1, <1>7, <1>9, FlattenSeqRests
<1>11. LeavesPath(r, path, more)
  BY <1>2, <1>4, <1>10 DEF LeavesPath, Rests, n
<1> QED
  BY <1>4, <1>8, <1>11 DEF L

\* Of what Escaped makes, no blank is bare.
LEMMA BlanksAreEscaped ==
  ASSUME NEW path \in Seq(Nat \ {NewLine})
  PROVE  \A j \in 1..Len(Escaped(path)) :
           Escaped(path)[j] = Blank => j > 1 /\ Escaped(path)[j - 1] = Escape
<1> DEFINE n == Len(path)
           e == Escaped(path)
           Fine(q) == \A j \in 1..q : e[j] = Blank => j > 1 /\ e[j - 1] = Escape
<1>1. e \in Seq(Nat)
  <2>1. Escaped(path) \in Seq(Nat \ {NewLine})
    BY EscapedLeaves
  <2> QED
    BY <2>1
<1>2. PICK r : LeavesPath(r, path, <<>>)
  <2>1. <<>> \in Seq(Nat)
    OBVIOUS
  <2> QED
    BY <2>1, EscapedLeaves
<1>3. e \o <<>> = e
  <2> HIDE DEF e
  <2> QED
    BY <1>1
<1>4. /\ r \in [0..n -> Seq(Nat)] /\ r[0] = e /\ r[n] = <<>>
      /\ \A i \in 1..n : r[i - 1] = Spelled(path[i]) \o r[i]
  BY <1>2, <1>3 DEF LeavesPath
<1>5. n \in Nat /\ \A i \in 1..n : path[i] \in Nat \ {NewLine}
  OBVIOUS
<1> HIDE DEF e, n
<1> DEFINE T == {k \in Nat : k <= n => \E q : RestAt(e, q, r[k]) /\ Fine(q)}
<1>6. 0 \in T
  <2>1. RestAt(e, 0, r[0])
    BY <1>1, <1>4 DEF RestAt
  <2>2. Fine(0)
    OBVIOUS
  <2> QED
    BY <2>1, <2>2
<1>7. ASSUME NEW k \in Nat, k \in T PROVE k + 1 \in T
  <2> SUFFICES ASSUME k + 1 <= n PROVE \E q : RestAt(e, q, r[k + 1]) /\ Fine(q)
    OBVIOUS
  <2> DEFINE i == k + 1
             c == path[i]
             x == Spelled(c)
  <2>1. k <= n /\ i \in 1..n /\ i - 1 = k /\ i \in 0..n
    BY <1>5
  <2>2. PICK q : RestAt(e, q, r[k]) /\ Fine(q)
    BY <1>7, <2>1
  <2>3. r[k] = x \o r[i] /\ c \in Nat \ {NewLine} /\ r[i] \in Seq(Nat)
    BY <1>4, <1>5, <2>1
  <2> HIDE DEF i, c
  <2>4. x \in Seq(Nat) /\ Len(x) \in Nat
    <3>1. x \in Seq(Nat \ {NewLine})
      BY <2>3, SpelledType
    <3> HIDE DEF x
    <3> QED
      BY <3>1
  <2>5. RestAt(e, q + Len(x), r[i]) /\ \A j \in 1..Len(x) : e[q + j] = x[j]
    <3>1. e \in Seq(Nat) /\ x \in Seq(Nat) /\ r[i] \in Seq(Nat) /\ RestAt(e, q, x \o r[i])
      BY <1>1, <2>2, <2>3, <2>4
    <3> HIDE DEF x
    <3> QED
      BY ONLY <3>1, RestMoves
  <2>6. q \in Nat
    BY <1>1, <2>2 DEF RestAt
  <2>7. Fine(q + Len(x))
    <3>1. CASE c = Blank
      <4>1. x = <<Escape, Blank>>
        BY <3>1 DEF Spelled
      <4>2. Len(x) = 2 /\ x[1] = Escape /\ x[2] = Blank
        BY <4>1
      <4> HIDE DEF x
      <4>3. e[q + 1] = Escape /\ e[q + 2] = Blank
        BY <2>5, <4>2
      <4>4. ASSUME NEW j \in 1..(q + 2), e[j] = Blank PROVE j > 1 /\ e[j - 1] = Escape
        <5>1. j # q + 1
          BY <4>3, <4>4 DEF Escape, Blank
        <5>2. j \in 1..q \/ j = q + 2
          BY <2>6, <5>1
        <5>3. CASE j \in 1..q
          BY <2>2, <4>4, <5>3
        <5>4. CASE j = q + 2
          <6>1. j - 1 = q + 1 /\ j > 1
            BY <2>6, <5>4
          <6> QED
            BY <4>3, <6>1
        <5> QED
          BY <5>2, <5>3, <5>4
      <4> QED
        BY <4>2, <4>4
    <3>2. CASE c # Blank
      <4>1. x = <<c>>
        BY <3>2 DEF Spelled
      <4>2. Len(x) = 1 /\ x[1] = c
        BY <4>1
      <4> HIDE DEF x
      <4>3. e[q + 1] # Blank
        BY <2>5, <3>2, <4>2
      <4>4. ASSUME NEW j \in 1..(q + 1), e[j] = Blank PROVE j > 1 /\ e[j - 1] = Escape
        <5>1. j # q + 1
          BY <4>3, <4>4
        <5>2. j \in 1..q
          BY <2>6, <5>1
        <5> QED
          BY <2>2, <4>4, <5>2
      <4> QED
        BY <4>2, <4>4
    <3> QED
      BY <3>1, <3>2
  <2> HIDE DEF x, Fine
  <2> QED
    BY <2>5, <2>7 DEF i
<1> HIDE DEF T
<1>8. n \in T
  BY <1>5, <1>6, <1>7, AllNumbers
<1>9. PICK q : RestAt(e, q, r[n]) /\ Fine(q)
  BY <1>5, <1>8 DEF T
<1>10. q = Len(e)
  <2>1. Len(r[n]) = 0 /\ Len(e) \in Nat
    BY <1>1, <1>4
  <2> QED
    BY <1>9, <2>1 DEF RestAt
<1> QED
  BY <1>9, <1>10 DEF e

\* One character of a path, as cargo writes it.
LEMMA SpelledIsRead ==
  ASSUME NEW deps \in Seq(Nat), NEW h, ReadsPaths(h, deps), NEW q, NEW rest \in Seq(Nat),
         NEW c \in Nat \ {NewLine}, NEW paths, NEW path \in Seq(Nat),
         ReadTo(h, deps, q, Spelled(c) \o rest, paths, path),
         c = Escape => rest = <<>> \/ rest[1] # Blank
  PROVE  \E p : ReadTo(h, deps, p, rest, paths, Append(path, c))
<1>1. CASE c = Blank
  <2>1. Spelled(c) = <<Escape, Blank>>
    BY <1>1 DEF Spelled
  <2>2. ReadTo(h, deps, q, <<Escape, Blank>> \o rest, paths, path)
    BY <2>1
  <2>3. ReadTo(h, deps, q + 2, rest, paths, Append(path, Blank))
    BY <2>2, BlankIsRead
  <2> QED
    BY <1>1, <2>3
<1>2. CASE c # Blank
  <2>1. Spelled(c) = <<c>>
    BY <1>2 DEF Spelled
  <2>2. ReadTo(h, deps, q, <<c>> \o rest, paths, path)
    BY <2>1
  <2>3. c \in Nat \ {Blank}
    BY <1>2
  <2>4. ReadTo(h, deps, q + 1, rest, paths, Append(path, c))
    BY <2>2, <2>3, CharacterIsRead
  <2> QED
    BY <2>4
<1> QED
  BY <1>1, <1>2

\* A path that does not end with a backslash is read as it is.
LEMMA PathIsRead ==
  ASSUME NEW deps \in Seq(Nat), NEW h, ReadsPaths(h, deps), NEW q, NEW more \in Seq(Nat),
         NEW path \in CargoPath, NEW paths,
         ReadTo(h, deps, q, Escaped(path) \o more, paths, <<>>)
  PROVE  \E p : ReadTo(h, deps, p, more, paths, path)
<1> DEFINE n == Len(path)
<1>1. /\ path \in Seq(Nat \ {NewLine}) /\ n \in Nat /\ n > 0 /\ path[n] # Escape
      /\ \A i \in 1..n : path[i] \in Nat \ {NewLine}
  BY DEF CargoPath, Last
<1>2. PICK r : LeavesPath(r, path, more)
  BY <1>1, EscapedLeaves
<1>3. /\ r \in [0..n -> Seq(Nat)] /\ r[0] = Escaped(path) \o more /\ r[n] = more
      /\ \A i \in 1..n : r[i - 1] = Spelled(path[i]) \o r[i]
  BY <1>2 DEF LeavesPath
<1> HIDE DEF n
<1> DEFINE T == {k \in Nat : k <= n => \E p : ReadTo(h, deps, p, r[k], paths, SubSeq(path, 1, k))}
<1>4. 0 \in T
  <2>1. SubSeq(path, 1, 0) = <<>>
    BY <1>1
  <2> QED
    BY <1>3, <2>1
<1>5. ASSUME NEW i \in 1..n PROVE path[i] = Escape => r[i] = <<>> \/ r[i][1] # Blank
  <2> SUFFICES ASSUME path[i] = Escape PROVE r[i][1] # Blank
    OBVIOUS
  <2> DEFINE j == i + 1
             c == path[j]
             x == Spelled(c)
             e == r[j]
  <2>1. j \in 1..n /\ j - 1 = i /\ j \in 0..n
    BY <1>1
  <2>2. r[i] = x \o e /\ e \in Seq(Nat) /\ c \in Nat \ {NewLine}
    BY <1>1, <1>3, <2>1
  <2> HIDE DEF c, e
  <2>3. x \in Seq(Nat \ {NewLine}) /\ x # <<>> /\ x[1] # Blank
    BY <2>2, SpelledType
  <2> HIDE DEF x
  <2>4. (x \o e)[1] = x[1]
    <3>1. 1 \in 1..Len(x) /\ x \in Seq(Nat)
      BY <2>3
    <3> QED
      BY <2>2, <3>1
  <2> QED
    BY <2>2, <2>3, <2>4
<1>6. ASSUME NEW k \in Nat, k \in T PROVE k + 1 \in T
  <2> SUFFICES ASSUME k + 1 <= n
               PROVE  \E p : ReadTo(h, deps, p, r[k + 1], paths, SubSeq(path, 1, k + 1))
    OBVIOUS
  <2> DEFINE i == k + 1
             c == path[i]
             before == SubSeq(path, 1, k)
  <2>1. k <= n /\ i \in 1..n /\ i - 1 = k /\ i \in 0..n /\ k + 1 <= Len(path)
    BY <1>1 DEF n
  <2>2. PICK p : ReadTo(h, deps, p, r[k], paths, before)
    BY <1>6, <2>1
  <2>3. /\ r[k] = Spelled(c) \o r[i] /\ r[i] \in Seq(Nat) /\ c \in Nat \ {NewLine}
        /\ (c = Escape => r[i] = <<>> \/ r[i][1] # Blank)
    BY <1>1, <1>3, <1>5, <2>1
  <2>4. before \in Seq(Nat)
    <3>1. path \in Seq(Nat)
      BY <1>1
    <3> QED
      BY <2>1, <3>1
  <2>5. SubSeq(path, 1, i) = Append(before, c)
    BY <1>1, <2>1, BeginningGrows
  <2> HIDE DEF i, c, before
  <2>6. ReadTo(h, deps, p, Spelled(c) \o r[i], paths, before)
    BY <2>2, <2>3
  <2>7. \E o : ReadTo(h, deps, o, r[i], paths, Append(before, c))
    BY <2>3, <2>4, <2>6, SpelledIsRead
  <2> QED
    BY <2>5, <2>7 DEF i
<1> HIDE DEF T
<1>7. n \in T
  <2>1. Nat \subseteq T
    BY <1>4, <1>6, AllNumbers
  <2> QED
    BY <1>1, <2>1
<1>8. SubSeq(path, 1, n) = path
  BY <1>1 DEF n
<1> QED
  <2>1. n <= n
    BY <1>1
  <2>2. \E p : ReadTo(h, deps, p, r[n], paths, SubSeq(path, 1, n))
    BY <1>7, <2>1 DEF T
  <2> QED
    BY <1>3, <1>8, <2>2

\* The paths of a rule, each after a blank.
Listed(paths) == FlattenSeq([i \in DOMAIN paths |-> <<Blank>> \o Escaped(paths[i])])

LEMMA ListedLeaves ==
  ASSUME NEW paths \in Seq(CargoPath)
  PROVE  /\ Listed(paths) \in Seq(Nat \ {NewLine})
         /\ \E r \in [0..Len(paths) -> Seq(Nat)] :
              /\ r[0] = Listed(paths) /\ r[Len(paths)] = <<>>
              /\ \A i \in 1..Len(paths) : r[i - 1] = (<<Blank>> \o Escaped(paths[i])) \o r[i]
<1> DEFINE n == Len(paths)
           L == Nat \ {NewLine}
           seqs == [i \in DOMAIN paths |-> <<Blank>> \o Escaped(paths[i])]
<1>1. n \in Nat /\ DOMAIN paths = 1..n /\ \A i \in 1..n : paths[i] \in CargoPath
  OBVIOUS
<1>2. \A i \in 1..n : seqs[i] = <<Blank>> \o Escaped(paths[i])
  BY <1>1
<1>3. seqs = [i \in 1..n |-> seqs[i]]
  BY <1>1
<1>4. Listed(paths) = FlattenSeq(seqs)
  BY Zenon DEF Listed
<1>5. ASSUME NEW i \in 1..n PROVE seqs[i] \in Seq(L)
  <2> DEFINE p == paths[i]
             e == Escaped(p)
  <2>1. p \in Seq(Nat \ {NewLine})
    BY <1>1 DEF CargoPath
  <2> HIDE DEF p
  <2>2. e \in Seq(L)
    <3>1. <<>> \in Seq(Nat)
      OBVIOUS
    <3> QED
      BY <2>1, <3>1, EscapedLeaves
  <2> HIDE DEF e
  <2>3. <<Blank>> \in Seq(L)
    BY DEF Blank, NewLine
  <2>4. <<Blank>> \o e \in Seq(L)
    BY <2>2, <2>3
  <2> QED
    BY <1>2, <2>4 DEF e, p
<1> HIDE DEF seqs, n
<1>6. seqs \in Seq(Seq(L)) /\ Len(seqs) = n
  <2> DEFINE S == Seq(L)
  <2>1. n \in Nat /\ seqs = [i \in 1..n |-> seqs[i]] /\ \A i \in 1..n : seqs[i] \in S
    BY <1>1, <1>3, <1>5
  <2> HIDE DEF S
  <2>2. seqs \in Seq(S) /\ Len(seqs) = n
    BY ONLY <2>1, ListIs
  <2> QED
    BY <2>2 DEF S
<1> HIDE DEF L
<1>7. FlattenSeq(seqs) \in Seq(L)
  BY <1>6, FlattenSeqType
<1>8. seqs \in Seq(Seq(Nat))
  <2>1. \A i \in 1..n : seqs[i] \in Seq(Nat)
    <3>1. \A x \in Seq(L) : x \in Seq(Nat)
      BY DEF L
    <3> QED
      BY <1>5, <3>1
  <2> QED
    BY ONLY <1>1, <1>3, <2>1, ListIs
<1>9. PICK r \in [0..n -> Seq(Nat)] : Rests(r, seqs, <<>>, n)
  <2>1. <<>> \in Seq(Nat)
    OBVIOUS
  <2> QED
    BY <1>1, <1>6, <1>8, <2>1, FlattenSeqRests
<1>10. r[0] = Listed(paths)
  <2> DEFINE flat == FlattenSeq(seqs)
  <2>1. flat \in Seq(L)
    BY <1>7
  <2>2. r[0] = flat \o <<>>
    BY <1>9 DEF Rests
  <2> HIDE DEF flat
  <2>3. flat \o <<>> = flat
    BY <2>1
  <2> QED
    BY <1>4, <2>2, <2>3 DEF flat
<1>11. r[n] = <<>> /\ \A i \in 1..n : r[i - 1] = (<<Blank>> \o Escaped(paths[i])) \o r[i]
  BY <1>2, <1>9 DEF Rests
<1> QED
  BY <1>4, <1>7, <1>9, <1>10, <1>11 DEF L, n

\* The paths that are listed are read as they are.
LEMMA ListIsRead ==
  ASSUME NEW deps \in Seq(Nat), NEW paths \in Seq(CargoPath), paths # <<>>,
         <<Blank>> \o deps = Listed(paths)
  PROVE  PathsOf(deps) = paths
<1> DEFINE n == Len(paths)
<1>1. /\ n \in Nat /\ n > 0 /\ \A i \in 1..n : paths[i] \in CargoPath
  OBVIOUS
<1>2. \A i \in 1..n : paths[i] \in Seq(Nat) /\ paths[i] # <<>> /\ Last(paths[i]) # Escape
  BY <1>1 DEF CargoPath
<1>3. PICK r \in [0..n -> Seq(Nat)] :
        /\ r[0] = Listed(paths) /\ r[n] = <<>>
        /\ \A i \in 1..n : r[i - 1] = (<<Blank>> \o Escaped(paths[i])) \o r[i]
  BY ListedLeaves
<1>4. ASSUME NEW i \in 1..n PROVE Escaped(paths[i]) \in Seq(Nat) /\ r[i] \in Seq(Nat)
  <2>1. paths[i] \in Seq(Nat \ {NewLine}) /\ <<>> \in Seq(Nat)
    BY <1>1 DEF CargoPath
  <2>2. Escaped(paths[i]) \in Seq(Nat \ {NewLine})
    BY <2>1, EscapedLeaves
  <2>3. i \in 0..n
    BY <1>1
  <2>4. r[i] \in Seq(Nat)
    BY ONLY <2>3, r \in [0..n -> Seq(Nat)]
  <2>5. Escaped(paths[i]) \in Seq(Nat)
    <3> DEFINE e == Escaped(paths[i])
    <3>1. e \in Seq(Nat \ {NewLine})
      BY <2>2
    <3> HIDE DEF e
    <3>2. e \in Seq(Nat)
      BY ONLY <3>1
    <3> QED
      BY <3>2 DEF e
  <2> QED
    BY <2>4, <2>5
<1>5. PICK h : ReadsPaths(h, deps) /\ PathsOf(deps) = EndPath(h[Len(deps)]).paths
  BY PathsOfIs
<1> HIDE DEF n
<1> DEFINE There(k) == \E q : ReadTo(h, deps, q, r[k], SubSeq(paths, 1, k - 1), paths[k])
           T == {k \in Nat : k + 1 <= n => There(k + 1)}
<1>6. 0 \in T
  <2> DEFINE path == paths[1]
             e == Escaped(path)
             more == r[1]
  <2>1. 1 \in 1..n /\ 1 - 1 = 0 /\ 0 + 1 = 1
    BY <1>1
  <2>2. r[0] = (<<Blank>> \o e) \o more
    BY <1>3, <2>1
  <2>3. e \in Seq(Nat) /\ more \in Seq(Nat) /\ path \in CargoPath
    BY <1>1, <1>4, <2>1
  <2>4. SubSeq(paths, 1, 0) = <<>>
    OBVIOUS
  <2> HIDE DEF path, e, more
  <2>5. <<Blank>> \o deps = (<<Blank>> \o e) \o more
    BY <1>3, <2>2
  <2>6. deps = e \o more
    <3> DEFINE x == <<Blank>>
               f == e \o more
    <3>1. x \in Seq(Nat) /\ x \o deps = (x \o e) \o more
      <4>1. x \in Seq(Nat)
        BY DEF Blank
      <4>2. x \o deps = (x \o e) \o more
        BY ONLY <2>5, Zenon
      <4> QED
        BY <4>1, <4>2
    <3> HIDE DEF x
    <3>2. (x \o e) \o more = x \o (e \o more)
      <4>1. x \in Seq(Nat) /\ e \in Seq(Nat) /\ more \in Seq(Nat)
        BY <2>3, <3>1
      <4> QED
        BY ONLY <4>1, SMTT(60)
    <3>3. f \in Seq(Nat)
      BY <2>3
    <3>4. x \o deps = x \o f
      BY <3>1, <3>2
    <3> HIDE DEF f
    <3>5. deps = f
      BY ONLY <3>1, <3>3, <3>4, deps \in Seq(Nat), SameAfter
    <3> QED
      BY <3>5 DEF f
  <2>7. RestAt(deps, 0, e \o more)
    <3>1. Len(deps) \in Nat /\ 0 \in 0..Len(deps) /\ 0 + Len(deps) = Len(deps)
      OBVIOUS
    <3>2. RestAt(deps, 0, deps)
      BY <3>1 DEF RestAt
    <3> QED
      BY <2>6, <3>2
  <2>8. ReadTo(h, deps, 0, e \o more, <<>>, <<>>)
    BY <1>5, <2>7 DEF ReadsPaths, ReadTo
  <2>9. \E q : ReadTo(h, deps, q, more, <<>>, path)
    BY <1>5, <2>3, <2>8, PathIsRead DEF e
  <2> QED
    BY <2>1, <2>4, <2>9 DEF path, more
<1>7. ASSUME NEW k \in Nat, k \in T PROVE k + 1 \in T
  <2> DEFINE i == k + 1
             j == i + 1
  <2> SUFFICES ASSUME j <= n PROVE There(j)
    OBVIOUS
  <2> DEFINE path == paths[j]
             e == Escaped(path)
             more == r[j]
             last == paths[i]
             before == SubSeq(paths, 1, i - 1)
  <2>1. i \in 1..n /\ j \in 1..n /\ j - 1 = i /\ i <= n /\ i - 1 = k /\ k + 1 <= Len(paths)
    BY <1>1 DEF n
  <2>2. PICK q : ReadTo(h, deps, q, r[i], before, last)
    BY <1>7, <2>1
  <2>3. r[i] = (<<Blank>> \o e) \o more
    BY <1>3, <2>1
  <2>4. e \in Seq(Nat) /\ more \in Seq(Nat) /\ path \in CargoPath
    BY <1>1, <1>4, <2>1
  <2>5. last \in Seq(Nat) /\ last # <<>> /\ last[Len(last)] # Escape
    BY <1>2, <2>1 DEF Last
  <2>6. SubSeq(paths, 1, i) = Append(before, last)
    BY <2>1, BeginningGrows
  <2> HIDE DEF path, e, more, last, before, i, j
  <2> DEFINE rest == e \o more
  <2>7. rest \in Seq(Nat) /\ r[i] = <<Blank>> \o rest
    <3>1. rest \in Seq(Nat)
      BY <2>4
    <3>2. (<<Blank>> \o e) \o more = <<Blank>> \o rest
      <4> DEFINE x == <<Blank>>
      <4>1. x \in Seq(Nat)
        BY DEF Blank
      <4> HIDE DEF x
      <4>2. (x \o e) \o more = x \o (e \o more)
        <5>1. x \in Seq(Nat) /\ e \in Seq(Nat) /\ more \in Seq(Nat)
          BY <2>4, <4>1
        <5> QED
          BY ONLY <5>1, SMTT(60)
      <4> QED
        BY <4>2 DEF x
    <3> QED
      BY <2>3, <3>1, <3>2
  <2> HIDE DEF rest
  <2>8. ReadTo(h, deps, q, <<Blank>> \o rest, before, last)
    BY <2>2, <2>7
  <2>9. ReadTo(h, deps, q + 1, rest, Append(before, last), <<>>)
    BY <1>5, <2>5, <2>7, <2>8, PathEnds
  <2>10. \E p : ReadTo(h, deps, p, more, Append(before, last), path)
    <3>1. ReadTo(h, deps, q + 1, Escaped(path) \o more, Append(before, last), <<>>)
      BY <2>9 DEF rest, e
    <3> QED
      BY <1>5, <2>4, <3>1, PathIsRead
  <2> QED
    BY <2>1, <2>6, <2>10 DEF path, more
<1> HIDE DEF There, T
<1>8. There(n)
  <2>1. Nat \subseteq T
    BY <1>6, <1>7, AllNumbers
  <2>2. n - 1 \in T /\ (n - 1) + 1 = n /\ n <= n
    BY <1>1, <2>1
  <2> QED
    BY <2>2 DEF T
<1> DEFINE before == SubSeq(paths, 1, n - 1)
           last == paths[n]
<1>9. PICK q : ReadTo(h, deps, q, <<>>, before, last)
  BY <1>3, <1>8 DEF There
<1>10. last # <<>> /\ Append(before, last) = paths
  <2>1. n \in 1..n /\ (n - 1) + 1 = n /\ n - 1 \in Nat /\ (n - 1) + 1 <= Len(paths)
    BY <1>1 DEF n
  <2>2. SubSeq(paths, 1, (n - 1) + 1) = Append(before, paths[(n - 1) + 1])
    BY <2>1, BeginningGrows
  <2>3. SubSeq(paths, 1, n) = paths
    BY DEF n
  <2> QED
    BY <1>2, <2>1, <2>2, <2>3
<1> HIDE DEF before, last
<1>11. h[Len(deps)] = [paths |-> before, path |-> last]
  <2>1. q \in 0..Len(deps) /\ q + Len(<<>>) = Len(deps) /\ Len(<<>>) = 0 /\ Len(deps) \in Nat
    BY <1>9 DEF ReadTo, RestAt
  <2>2. q = Len(deps)
    BY <2>1
  <2> QED
    BY <1>9, <2>2 DEF ReadTo
<1>12. EndPath([paths |-> before, path |-> last]).paths = Append(before, last)
  BY <1>10 DEF EndPath
<1> QED
  BY <1>5, <1>10, <1>11, <1>12

\* What may come after the line of a rule.
Follows(more) == more = <<>> \/ more[1] = NewLine

LEMMA FirstLineIs ==
  ASSUME NEW line \in Seq(Nat \ {NewLine}), NEW more \in Seq(Nat), Follows(more)
  PROVE  FirstLine(line \o more) = line
<1> DEFINE n == Len(line)
           text == line \o more
           ends == {i \in DOMAIN text : text[i] = NewLine}
<1>1. line \in Seq(Nat) /\ \A i \in 1..n : line[i] # NewLine
  OBVIOUS
<1>2. /\ text \in Seq(Nat) /\ Len(text) = n + Len(more) /\ n \in Nat /\ Len(more) \in Nat
      /\ \A i \in 1..Len(more) : text[n + i] = more[i]
  BY <1>1, Joined
<1>3. \A i \in 1..n : text[i] = line[i]
  BY <1>1, JoinedFirst
<1>4. DOMAIN text = 1..Len(text)
  BY <1>2
<1>5. FirstLine(text) = IF ends = {} THEN text ELSE SubSeq(text, 1, Min(ends) - 1)
  BY DEF FirstLine
<1>6. CASE more = <<>>
  <2>1. text = line
    BY <1>1, <1>6
  <2>2. Len(text) = n
    BY <2>1
  <2> HIDE DEF text, n
  <2>3. ends = {}
    BY <1>1, <1>3, <1>4, <2>2
  <2> QED
    BY <1>5, <2>1, <2>3 DEF text
<1>7. CASE more # <<>>
  <2>1. more[1] = NewLine
    BY <1>7 DEF Follows
  <2>2. 1 \in 1..Len(more)
    <3>1. Len(more) # 0
      BY <1>7
    <3> QED
      BY <1>2, <3>1
  <2> HIDE DEF text, n
  <2>3. n + 1 \in 1..Len(text) /\ text[n + 1] = NewLine
    <3>1. text[n + 1] = more[1]
      BY <1>2, <2>2
    <3>2. n + 1 \in 1..Len(text)
      BY <1>2, <2>2
    <3> QED
      BY <2>1, <3>1, <3>2
  <2>4. n + 1 \in ends
    BY <1>4, <2>3
  <2>5. \A i \in ends : n + 1 <= i
    <3> SUFFICES ASSUME NEW i \in 1..Len(text), text[i] = NewLine PROVE n + 1 <= i
      BY <1>4
    <3>1. i \notin 1..n
      BY <1>1, <1>3
    <3> QED
      BY <1>2, <3>1
  <2>6. ends \subseteq Nat
    BY <1>2, <1>4
  <2> HIDE DEF ends
  <2>7. Min(ends) = n + 1
    <3> DEFINE k == n + 1
    <3>1. k \in ends /\ \A i \in ends : k <= i
      BY <2>4, <2>5
    <3> HIDE DEF k
    <3>2. Min(ends) = k
      BY ONLY <2>6, <3>1, MinIs
    <3> QED
      BY <3>2 DEF k
  <2>8. FirstLine(text) = SubSeq(text, 1, n)
    <3>1. Min(ends) - 1 = n
      BY <1>2, <2>7
    <3>2. ends # {}
      BY <2>4
    <3> QED
      BY <1>5, <3>1, <3>2
  <2>9. SubSeq(text, 1, n) = line
    <3> DEFINE s == SubSeq(text, 0 + 1, n)
    <3>1. 0 \in Nat /\ 0 <= n /\ n <= Len(text) /\ n - 0 = n /\ \A i \in 1..n : 0 + i = i
      BY <1>2
    <3>2. s \in Seq(Nat) /\ Len(s) = n - 0 /\ \A i \in 1..(n - 0) : s[i] = text[0 + i]
      BY ONLY <1>2, <3>1, MiddleIs
    <3>3. s = SubSeq(text, 1, n)
      OBVIOUS
    <3> HIDE DEF s
    <3>4. Len(s) = Len(line) /\ \A i \in 1..Len(s) : s[i] = line[i]
      BY <1>3, <3>1, <3>2 DEF n
    <3> QED
      BY <1>1, <3>2, <3>3, <3>4, SameList
  <2> QED
    BY <2>8, <2>9 DEF text
<1> QED
  BY <1>6, <1>7

\* Of a line, the places where a colon is before a blank.
Colons(line) == {i \in DOMAIN line : i < Len(line) /\ line[i] = Colon /\ line[i + 1] = Blank}

LEMMA ListedBegins ==
  ASSUME NEW paths \in Seq(CargoPath)
  PROVE  /\ Listed(paths) \in Seq(Nat \ {NewLine})
         /\ paths = <<>> => Listed(paths) = <<>>
         /\ paths # <<>> => Len(Listed(paths)) > 0 /\ Listed(paths)[1] = Blank
<1> DEFINE n == Len(paths)
           l == Listed(paths)
<1>1. l \in Seq(Nat \ {NewLine})
  BY ListedLeaves
<1>2. PICK r \in [0..n -> Seq(Nat)] :
        /\ r[0] = l /\ r[n] = <<>>
        /\ \A i \in 1..n : r[i - 1] = (<<Blank>> \o Escaped(paths[i])) \o r[i]
  BY ListedLeaves
<1>3. ASSUME paths = <<>> PROVE l = <<>>
  <2>1. n = 0
    BY <1>3
  <2> QED
    BY <1>2, <2>1
<1>4. ASSUME paths # <<>> PROVE Len(l) > 0 /\ l[1] = Blank
  <2> DEFINE e == Escaped(paths[1])
             more == r[1]
             x == <<Blank>>
  <2>1. n \in Nat /\ n # 0 /\ 1 \in 1..n /\ 1 \in 0..n /\ 1 - 1 = 0
    BY <1>4
  <2>2. l = (x \o e) \o more
    BY <1>2, <2>1
  <2>3. more \in Seq(Nat)
    BY <1>2, <2>1
  <2>4. e \in Seq(Nat)
    <3>1. paths[1] \in Seq(Nat \ {NewLine}) /\ <<>> \in Seq(Nat)
      BY <2>1 DEF CargoPath
    <3>2. e \in Seq(Nat \ {NewLine})
      BY <3>1, EscapedLeaves
    <3> HIDE DEF e
    <3> QED
      BY ONLY <3>2
  <2>5. x \in Seq(Nat) /\ Len(x) = 1 /\ x[1] = Blank
    BY DEF Blank
  <2> HIDE DEF e, more, x, l
  <2> DEFINE y == x \o e
  <2>6. y \in Seq(Nat) /\ Len(y) = 1 + Len(e) /\ Len(e) \in Nat /\ y[1] = Blank
    <3>1. y \in Seq(Nat) /\ Len(y) = Len(x) + Len(e) /\ Len(e) \in Nat
      BY <2>4, <2>5, Joined
    <3>2. y[1] = x[1]
      <4>1. 1 \in 1..Len(x)
        BY <2>5
      <4>2. x \in Seq(Nat)
        BY <2>5
      <4>3. \A i \in 1..Len(x) : (x \o e)[i] = x[i]
        BY ONLY <2>4, <4>2, JoinedFirst
      <4> QED
        BY <4>1, <4>3
    <3> QED
      BY <2>5, <3>1, <3>2
  <2> HIDE DEF y
  <2>7. Len(l) = Len(y) + Len(more) /\ Len(more) \in Nat
    BY <2>2, <2>3, <2>6, Joined DEF y
  <2>8. l[1] = y[1]
    <3>1. 1 \in 1..Len(y)
      BY <2>6
    <3> QED
      BY <2>2, <2>3, <2>6, <3>1, JoinedFirst DEF y
  <2> QED
    BY <2>6, <2>7, <2>8
<1> QED
  BY <1>1, <1>3, <1>4

\* The line of a rule: what was built, a colon, the list.
IsRule(line, e, l) ==
  /\ line \in Seq(Nat \ {NewLine}) /\ Len(e) \in Nat /\ Len(l) \in Nat
  /\ Len(line) = (Len(e) + 1) + Len(l)
  /\ \A i \in 1..Len(e) : line[i] = e[i]
  /\ line[Len(e) + 1] = Colon
  /\ \A i \in 1..Len(l) : line[(Len(e) + 1) + i] = l[i]

LEMMA RuleIs ==
  ASSUME NEW out \in Seq(Nat \ {NewLine}), NEW paths \in Seq(CargoPath)
  PROVE  IsRule(Rule(out, paths), Escaped(out), Listed(paths))
<1> DEFINE o == Len(Escaped(out))
           l == Listed(paths)
           line == Rule(out, paths)
           S == Nat \ {NewLine}
           e == Escaped(out)
           x == <<Colon>>
           y == e \o x
<1>1. e \in Seq(S)
  <2>1. <<>> \in Seq(Nat)
    OBVIOUS
  <2> QED
    BY <2>1, EscapedLeaves
<1>2. x \in Seq(S) /\ Len(x) = 1 /\ x[1] = Colon
  BY DEF Colon, NewLine
<1>3. l \in Seq(S)
  BY ListedLeaves
<1>4. line = y \o l
  BY Zenon DEF Rule, Listed
<1>5. o = Len(e)
  OBVIOUS
<1> HIDE DEF S, e, x, o, l, line
<1>6. y \in Seq(S) /\ Len(y) = Len(e) + Len(x) /\ Len(e) \in Nat
      /\ \A i \in 1..Len(x) : y[Len(e) + i] = x[i]
  <2>1. e \in Seq(S) /\ x \in Seq(S)
    BY <1>1, <1>2
  <2> QED
    BY ONLY <2>1, Joined
<1>7. \A i \in 1..Len(e) : y[i] = e[i]
  BY <1>1, <1>2, JoinedFirst
<1>8. Len(y) = o + 1 /\ o \in Nat
  BY <1>2, <1>5, <1>6
<1>9. y[o + 1] = Colon
  <2>1. 1 \in 1..Len(x)
    BY <1>2
  <2> QED
    BY <1>2, <1>5, <1>6, <2>1
<1> HIDE DEF y
<1>10. line \in Seq(S) /\ Len(line) = Len(y) + Len(l) /\ Len(l) \in Nat
       /\ \A i \in 1..Len(l) : line[Len(y) + i] = l[i]
  <2>1. l \in Seq(S) /\ y \in Seq(S)
    BY <1>3, <1>6
  <2>2. /\ y \o l \in Seq(S) /\ Len(y \o l) = Len(y) + Len(l) /\ Len(l) \in Nat
        /\ \A i \in 1..Len(l) : (y \o l)[Len(y) + i] = l[i]
    BY ONLY <2>1, Joined
  <2> QED
    BY ONLY <1>4, <2>2
<1>11. \A i \in 1..Len(y) : line[i] = y[i]
  BY <1>3, <1>4, <1>6, JoinedFirst
<1>12. \A i \in 1..o : i \in 1..Len(y) /\ i \in 1..Len(e)
  BY <1>5, <1>8
<1>13. \A i \in 1..o : line[i] = e[i]
  BY <1>7, <1>11, <1>12
<1>14. o + 1 \in 1..Len(y)
  BY <1>8
<1>15. line[o + 1] = Colon
  BY <1>9, <1>11, <1>14
<1>16. \A i \in 1..Len(l) : line[(o + 1) + i] = l[i]
  BY <1>8, <1>10
<1> QED
  BY <1>5, <1>8, <1>10, <1>13, <1>15, <1>16 DEF S, e, l, line, IsRule

\* What cargo's dep-info is read as.
LEMMA DepInfoIsRead ==
  ASSUME NEW t, DepInfoFits(t)
  PROVE  DepInfoPaths(t.text) = t.paths
<1> DEFINE out == t.out
           paths == t.paths
           line == Rule(out, paths)
           e == Escaped(out)
           o == Len(e)
           l == Listed(paths)
           n == Len(line)
           colons == {i \in DOMAIN line : i < Len(line) /\ line[i] = Colon /\ line[i + 1] = Blank}
<1>1. /\ out \in Seq(Nat \ {NewLine}) /\ paths \in Seq(CargoPath) /\ t.more \in Seq(Nat)
      /\ Follows(t.more) /\ t.text = line \o t.more
  BY DEF DepInfoFits, CargoPath, Follows
<1> HIDE DEF out, paths
<1>2. /\ line \in Seq(Nat \ {NewLine}) /\ o \in Nat /\ Len(l) \in Nat /\ n = (o + 1) + Len(l)
      /\ \A i \in 1..o : line[i] = e[i]
      /\ line[o + 1] = Colon
      /\ \A i \in 1..Len(l) : line[(o + 1) + i] = l[i]
  <2>1. IsRule(line, e, l)
    BY <1>1, RuleIs
  <2> HIDE DEF line, e, l
  <2> QED
    BY <2>1 DEF IsRule
<1>3. /\ l \in Seq(Nat \ {NewLine}) /\ (paths = <<>> => l = <<>>)
      /\ (paths # <<>> => Len(l) > 0 /\ l[1] = Blank)
  BY <1>1, ListedBegins
<1>4. \A j \in 1..o : e[j] = Blank => j > 1 /\ e[j - 1] = Escape
  BY <1>1, BlanksAreEscaped
<1>5. FirstLine(t.text) = line
  BY <1>1, <1>2, FirstLineIs
<1>6. DepInfoPaths(t.text)
        = IF colons = {} THEN <<>> ELSE PathsOf(SubSeq(line, Min(colons) + 2, Len(line)))
  BY <1>5, Zenon DEF DepInfoPaths
<1> HIDE DEF line, e, l, o
<1>7. DOMAIN line = 1..n /\ n \in Nat /\ line \in Seq(Nat)
  BY <1>2
<1> HIDE DEF n
<1>8. ASSUME NEW i \in 1..o, i < n, line[i] = Colon, line[i + 1] = Blank PROVE FALSE
  <2>1. CASE i = o
    <3>1. line[i + 1] = Colon
      BY <1>2, <2>1
    <3> QED
      BY <1>8, <3>1 DEF Colon, Blank
  <2>2. CASE i # o
    <3>1. i \in Nat /\ i + 1 \in 1..o /\ (i + 1) - 1 = i
      BY <1>2, <2>2
    <3>2. e[i + 1] = Blank
      BY <1>2, <1>8, <3>1
    <3>3. e[i] = Escape
      BY <1>4, <3>1, <3>2
    <3>4. line[i] = e[i]
      BY <1>2
    <3> QED
      BY <1>8, <3>3, <3>4 DEF Colon, Escape
  <2> QED
    BY <2>1, <2>2
<1>9. CASE paths = <<>>
  <2>1. Len(l) = 0
    BY <1>3, <1>9
  <2>2. n = o + 1
    BY <1>2, <2>1
  <2>3. colons = {}
    <3> SUFFICES ASSUME NEW i \in 1..n, i < n, line[i] = Colon, line[i + 1] = Blank PROVE FALSE
      BY <1>7 DEF n
    <3>1. i \in 1..o
      BY <1>2, <2>2
    <3> QED
      BY <1>8, <3>1
  <2> QED
    BY <1>6, <1>9, <2>3 DEF paths
<1>10. CASE paths # <<>>
  <2>1. Len(l) > 0 /\ l[1] = Blank /\ 1 \in 1..Len(l)
    BY <1>2, <1>3, <1>10
  <2>2. o + 1 \in 1..n /\ o + 1 < n /\ (o + 1) + 1 = o + 2
    BY <1>2, <2>1
  <2>3. line[o + 2] = Blank
    BY <1>2, <2>1, <2>2
  <2> DEFINE k == o + 1
  <2>4. k \in colons
    BY <1>2, <1>7, <2>2, <2>3 DEF n
  <2>5. \A i \in colons : k <= i
    <3> SUFFICES ASSUME NEW i \in 1..n, i < n, line[i] = Colon, line[i + 1] = Blank PROVE k <= i
      BY <1>7 DEF n
    <3>1. i \notin 1..o
      BY <1>8
    <3> QED
      BY <1>2, <3>1
  <2>6. colons \subseteq Nat
    BY <1>7
  <2> HIDE DEF colons, k
  <2>7. Min(colons) = k
    BY ONLY <2>4, <2>5, <2>6, MinIs
  <2> DEFINE deps == SubSeq(line, (o + 2) + 1, n)
  <2>8. DepInfoPaths(t.text) = PathsOf(deps)
    <3>1. colons # {}
      BY <2>4
    <3>2. Min(colons) + 2 = (o + 2) + 1
      BY <1>2, <2>7 DEF k
    <3> QED
      BY <1>6, <3>1, <3>2 DEF n
  <2>9. deps \in Seq(Nat) /\ Len(deps) = n - (o + 2)
        /\ \A i \in 1..(n - (o + 2)) : deps[i] = line[(o + 2) + i]
    <3>1. o + 2 \in Nat /\ n \in Nat /\ o + 2 <= n /\ n <= Len(line)
      BY <1>2, <1>7, <2>2 DEF n
    <3> DEFINE a == o + 2
    <3>2. a \in Nat /\ a <= n /\ n \in Nat
      BY <3>1
    <3> HIDE DEF a
    <3>3. SubSeq(line, a + 1, n) \in Seq(Nat) /\ Len(SubSeq(line, a + 1, n)) = n - a
          /\ \A i \in 1..(n - a) : SubSeq(line, a + 1, n)[i] = line[a + i]
      BY ONLY <1>7, <3>1, <3>2, MiddleIs
    <3> QED
      BY <3>3 DEF a
  <2> HIDE DEF deps
  <2>10. <<Blank>> \o deps = l
    <3> DEFINE x == <<Blank>>
               d == x \o deps
    <3>1. x \in Seq(Nat) /\ Len(x) = 1 /\ x[1] = Blank
      BY DEF Blank
    <3> HIDE DEF x
    <3>2. d \in Seq(Nat) /\ Len(d) = 1 + Len(deps) /\ Len(deps) \in Nat
          /\ \A i \in 1..Len(deps) : d[1 + i] = deps[i]
      <4>1. x \in Seq(Nat) /\ deps \in Seq(Nat)
        BY <2>9, <3>1
      <4>2. /\ d \in Seq(Nat) /\ Len(d) = Len(x) + Len(deps) /\ Len(deps) \in Nat
            /\ \A i \in 1..Len(deps) : d[Len(x) + i] = deps[i]
        BY ONLY <4>1, Joined
      <4> HIDE DEF d
      <4> QED
        BY ONLY <3>1, <4>2
    <3>3. d[1] = Blank
      <4>1. 1 \in 1..Len(x)
        BY <3>1
      <4>2. x \in Seq(Nat) /\ deps \in Seq(Nat)
        BY <2>9, <3>1
      <4>3. \A i \in 1..Len(x) : d[i] = x[i]
        BY ONLY <4>2, JoinedFirst
      <4> QED
        BY <3>1, <4>1, <4>3
    <3> HIDE DEF d
    <3>4. Len(d) = Len(l)
      BY <1>2, <2>9, <3>2
    <3>5. ASSUME NEW i \in 1..Len(d) PROVE d[i] = l[i]
      <4>1. CASE i = 1
        BY <2>1, <3>3, <4>1
      <4>2. CASE i # 1
        <5> DEFINE j == i - 1
        <5>1. j \in 1..Len(deps) /\ 1 + j = i /\ (o + 1) + i = (o + 2) + j /\ i \in 1..Len(l)
              /\ j \in 1..(n - (o + 2))
          <6>1. /\ o \in Nat /\ n \in Nat /\ Len(deps) \in Nat /\ Len(deps) = n - (o + 2)
                /\ Len(d) = 1 + Len(deps) /\ Len(d) = Len(l) /\ i \in 1..Len(d) /\ i # 1
            BY <1>2, <1>7, <2>9, <3>2, <3>4, <4>2
          <6> QED
            BY ONLY <6>1
        <5> HIDE DEF j
        <5>2. d[i] = deps[j] /\ deps[j] = line[(o + 2) + j] /\ line[(o + 1) + i] = l[i]
          BY <1>2, <2>9, <3>2, <5>1
        <5> QED
          BY <5>1, <5>2
      <4> QED
        BY <4>1, <4>2
    <3>6. l \in Seq(Nat)
      BY ONLY <1>3
    <3> QED
      BY <3>2, <3>4, <3>5, <3>6, SameList DEF d, x
  <2>11. PathsOf(deps) = paths
    BY <1>1, <1>10, <2>9, <2>10, ListIsRead DEF l
  <2> QED
    BY <2>8, <2>11 DEF paths
<1> QED
  BY <1>9, <1>10

-----------------------------------------------------------------------------
(* The invariant                                                           *)

Known == \E i \in DOMAIN Tasks : task \in Tasks[i]

\* A program is linked only when the check found nothing, as its task says.
LinksItsTask ==
  Did("link") => Problems(task.manifest, task.archives) = {} /\ result = <<LinkedFor(task)>>

\* It is built only when every built-in was found to work, as its task says.
DeploysItsTask ==
  Did("deploy") =>
    /\ Prepared(task) # <<>>
    /\ result = <<[object |-> BundleObject(Prepared(task)[1].blob),
                   notes |-> Prepared(task)[1].notes]>>

IInv ==
  /\ Known /\ LinksItsTask /\ DeploysItsTask
  /\ RoundTrips /\ AcceptsOnlyPacked
  /\ ToolFilesAreRead
  /\ PrintAnswers /\ StatusIsTheAnswer

\* A task with a result is one of its own kind's action.
LEMMA StepIsOwn ==
  ASSUME Next
  PROVE  /\ task' = task
         /\ task.kind = "pack" => PackAndParse
         /\ task.kind = "parse" => ParseBlob
         /\ task.kind = "table" => ReadTable
         /\ task.kind = "dep info" => ReadDepInfo
         /\ task.kind = "link" => CheckAndLink
         /\ task.kind = "deploy" => PrepareAndEmbed
         /\ task.kind = "print" => CallPrint
         /\ task.kind = "exit" => ExitWith
BY DEF Next, PackAndParse, ParseBlob, ReadTable, ReadDepInfo, CheckAndLink, PrepareAndEmbed,
       CallPrint, ExitWith

\* A result comes with its task, and every task is one of the inputs: so nothing
\* more than that is needed to know what it is.
THEOREM Invariance == Spec => []IInv
<1>1. Init => IInv
  BY DEF Init, IInv, Known, LinksItsTask, DeploysItsTask, RoundTrips, AcceptsOnlyPacked,
         ToolFilesAreRead, PrintAnswers, StatusIsTheAnswer, Did
<1>2. ASSUME IInv, [Next]_vars PROVE IInv'
  <2>1. CASE UNCHANGED vars
    <3>1. task' = task /\ result' = result
      BY <2>1 DEF vars
    <3> QED
      BY <1>2, <3>1 DEF IInv, Known, LinksItsTask, DeploysItsTask, RoundTrips, AcceptsOnlyPacked,
         ToolFilesAreRead, PrintAnswers, StatusIsTheAnswer, Did
  <2>2. CASE Next
    <3>1. task' = task /\ Known'
      BY <1>2, <2>2, StepIsOwn DEF IInv, Known
    <3>2. PICK i \in DOMAIN Tasks : task \in Tasks[i]
      BY <1>2 DEF IInv, Known
    <3>3. /\ task.kind = "pack" => HashedAll(task.bundles) \in BundleList
          /\ task.kind = "parse" => task.blob \in Digits
          /\ task.kind \in {"print", "exit"} => task.number \in F64
      BY <3>2, InputsFit DEF HashedAll
    <3>4. RoundTrips'
      <4> SUFFICES ASSUME task.kind = "pack"
                   PROVE  result'[1] =
                            IF \A k \in DOMAIN task.bundles : AllSafe(task.bundles[k].files)
                              THEN <<HashedAll(task.bundles)>> ELSE None
        BY <3>1, Zenon DEF RoundTrips, Did, HashedAll
      <4>1. result' = <<Parse(EmbeddedBlob(BundleObject(Pack(task.bundles))))>>
        BY <2>2, StepIsOwn DEF PackAndParse
      <4> QED
        BY <3>3, <4>1, PackedIsReadBack
    <3>5. AcceptsOnlyPacked'
      <4> SUFFICES ASSUME task.kind = "parse"
                   PROVE  IF task.blob = <<>> THEN result'[1] = <<<<>>>>
                          ELSE result'[1] # None => PutBundles(result'[1][1]) = task.blob
        BY <3>1, Zenon DEF AcceptsOnlyPacked, Did
      <4>1. result' = <<Parse(EmbeddedBlob(BundleObject(task.blob)))>>
        BY <2>2, StepIsOwn DEF ParseBlob
      <4> DEFINE read == result'[1]
      <4>2. read = Parse(EmbeddedBlob(BundleObject(task.blob)))
        BY <4>1
      <4> QED
        BY <3>3, <4>2, ReadIsPacked
    <3>6. PrintAnswers'
      <4> SUFFICES ASSUME task.kind = "print" PROVE Answered(task.number, result'[1])
        BY <3>1, Zenon DEF PrintAnswers, Did, Answered
      <4>1. PICK answer \in Printed(task.number) : result' = <<answer>>
        BY <2>2, StepIsOwn DEF CallPrint
      <4> QED
        BY <3>3, <4>1, PrintedIs
    <3>7. StatusIsTheAnswer'
      <4> SUFFICES ASSUME task.kind = "exit" PROVE result'[1] = StatusOf(task.number)
        BY <3>1, Zenon DEF StatusIsTheAnswer, Did, StatusOf
      <4>1. result' = <<ExitStatus(task.number)>>
        BY <2>2, StepIsOwn DEF ExitWith
      <4> QED
        BY <3>3, <4>1, ExitStatusIs
    <3>8. LinksItsTask'
      <4> SUFFICES ASSUME task.kind = "link"
                   PROVE  /\ Problems(task.manifest, task.archives) = {}
                          /\ result' = <<LinkedFor(task)>>
        BY <3>1, Zenon DEF LinksItsTask, Did
      <4> QED
        BY <2>2, StepIsOwn, Zenon DEF CheckAndLink, LinkedFor, ArgsFor, UnitsFor
    <3>9. DeploysItsTask'
      <4> SUFFICES ASSUME task.kind = "deploy"
                   PROVE  /\ Prepared(task) # <<>>
                          /\ result' = <<[object |-> BundleObject(Prepared(task)[1].blob),
                                          notes |-> Prepared(task)[1].notes]>>
        BY <3>1, Zenon DEF DeploysItsTask, Did
      <4> QED
        BY <2>2, StepIsOwn, Zenon DEF PrepareAndEmbed, Prepared
    <3>10. ToolFilesAreRead'
      <4>1. ASSUME task.kind = "table"
            PROVE  IF task.archive = task.written
                   THEN result'[1] = IF task.archive[2] = SymbolTable THEN <<task.names>> ELSE NoTable
                   ELSE result'[1] # NoTable =>
                          /\ Len(result'[1][1]) <= Len(task.names)
                          /\ \A k \in DOMAIN result'[1][1] :
                               IsPrefix(result'[1][1][k], task.names[k])
        <5> DEFINE read == result'[1]
        <5>1. read = ArchiveSymbols(task.archive)
          <6>1. ReadTable
            BY <2>2, <4>1, StepIsOwn, Zenon
          <6>2. result' = <<ArchiveSymbols(task.archive)>>
            BY <6>1, Zenon DEF ReadTable
          <6> QED
            BY ONLY <6>2
        <5>2. TableFits(task)
          BY <3>2, <4>1, InputsFit
        <5> HIDE DEF read
        <5> QED
          BY <5>1, <5>2, ArchiveIsRead DEF read
      <4>2. ASSUME task.kind = "dep info" PROVE result'[1] = task.paths
        <5>1. result'[1] = DepInfoPaths(task.text)
          <6>1. ReadDepInfo
            BY <2>2, <4>2, StepIsOwn, Zenon
          <6>2. result' = <<DepInfoPaths(task.text)>>
            BY <6>1, Zenon DEF ReadDepInfo
          <6> QED
            BY ONLY <6>2
        <5>2. DepInfoFits(task)
          BY <3>2, <4>2, InputsFit
        <5> QED
          BY <5>1, <5>2, DepInfoIsRead
      <4> QED
        BY <3>1, <4>1, <4>2, Zenon DEF ToolFilesAreRead, Did
    <3> QED
      BY <3>1, <3>4, <3>5, <3>6, <3>7, <3>8, <3>9, <3>10 DEF IInv
  <2> QED
    BY <1>2, <2>1, <2>2
<1> QED
  BY <1>1, <1>2, PTL DEF Spec

\* What was packed is read back out of the executable, with its hash, when no path
\* could leave its directory.
THEOREM PackAndParseAgree == Spec => []RoundTrips
<1>1. IInv => RoundTrips
  BY DEF IInv
<1> QED
  BY <1>1, Invariance, PTL

\* What `parse` accepts is, digit for digit, what packing writes.
THEOREM NothingElseIsAccepted == Spec => []AcceptsOnlyPacked
<1>1. IInv => AcceptsOnlyPacked
  BY DEF IInv
<1> QED
  BY <1>1, Invariance, PTL

\* An archive's symbol table and cargo's dep-info are read as the tools wrote them,
\* whatever the names, and a table that is cut short names nothing else.
THEOREM ToolFilesComeThrough == Spec => []ToolFilesAreRead
<1>1. IInv => ToolFilesAreRead
  BY DEF IInv
<1> QED
  BY <1>1, Invariance, PTL

\* `print` answers whichever f64 it is asked: with the very one if it is not finite or
\* its digits are few, and otherwise with a finite one.
THEOREM EveryNumberIsAnswered == Spec => []PrintAnswers
<1>1. IInv => PrintAnswers
  BY DEF IInv
<1> QED
  BY <1>1, Invariance, PTL

\* The exit status is the answer's, or the nearest i32's.
THEOREM EveryStatusIsTheAnswer == Spec => []StatusIsTheAnswer
<1>1. IInv => StatusIsTheAnswer
  BY DEF IInv
<1> QED
  BY <1>1, Invariance, PTL

\* The inputs of a link fit.
LEMMA KnownFits ==
  ASSUME Known, task.kind = "link"
  PROVE  LinkFits(task)
BY InputsFit DEF Known

\* Each built-in of a program that was linked is from its own unit.
THEOREM EachIsItsOwn == Spec => []EachFromItsOwn
<1>1. ASSUME IInv PROVE EachFromItsOwn
  <2> SUFFICES ASSUME Did("link"), NEW b \in Range(task.manifest),
                      Plain(b.symbol) \in DOMAIN result[1].from,
                      \A u \in UpToOwn(task, b.owner) : Readable(u),
                      Underscored(b.symbol) \notin task.archives[b.owner].exports
               PROVE  result[1].from[Plain(b.symbol)] = <<"unit", b.owner>>
    BY Zenon DEF EachFromItsOwn, UpToOwn, UnitsFor
  <2>1. Problems(task.manifest, task.archives) = {} /\ result[1] = LinkedFor(task)
    BY <1>1 DEF IInv, LinksItsTask
  <2>2. LinkFits(task)
    BY <1>1, KnownFits DEF IInv, Did
  <2> QED
    BY <2>1, <2>2, FromItsOwn DEF Readable
<1> QED
  BY <1>1, Invariance, PTL

\* What the manifest declares for a unit is what its unit brings with it.
LEMMA WellDeclaredIs ==
  ASSUME LinkFits(task), WellDeclared
  PROVE  Declares(task)
<1> DEFINE units == UnitsFor(task)
           n == Len(units)
<1>1. UnitsOf(units, task.manifest, task.runtimeDeps, task.flavor, Len(task.manifest))
  BY TaskIs
<1>2. \A i \in 1..n : units[i].of \in Owners(task.manifest)
  BY TaskIs
<1>3. /\ \A u \in Owners(task.manifest) :
           HasTable(task.archives[u]) /\ \A s \in task.archives[u].exports : s[1] = "plain"
      /\ \A b, c \in Range(task.manifest) : b.owner = c.owner => b.deps = c.deps
      /\ \A u \in Owners(task.manifest) :
           task.calls[u] \subseteq {OfSystem(l) : l \in Declared(u, task.flavor)}
  BY DEF WellDeclared, Readable
<1> HIDE DEF units
<1>4. /\ units \in Seq(Range(units)) /\ units # <<>>
      /\ units[1] = [of |-> Runtime, deps |-> task.runtimeDeps]
      /\ \A i, j \in 1..n : units[i].of = units[j].of => i = j
      /\ \A i \in 2..n : \E b \in Range(task.manifest) : units[i] = UnitOf(b, task.flavor)
  BY <1>1 DEF UnitsOf
<1>5. ASSUME NEW i \in 1..n, NEW l \in Declared(units[i].of, task.flavor)
      PROVE  \E dep \in Range(units[i].deps) : dep[2] = l
  <2>1. CASE i = 1
    <3>1. Declared(units[i].of, task.flavor) = {task.runtimeDeps[k][2] : k \in DOMAIN task.runtimeDeps}
      BY <1>4, <2>1 DEF Declared
    <3>2. units[i].deps = task.runtimeDeps
      BY <1>4, <2>1
    <3> QED
      BY <3>1, <3>2 DEF Range
  <2>2. CASE i # 1
    <3>1. i \in 2..n /\ 1 \in 1..n
      BY <1>4, <2>2
    <3>2. PICK b \in Range(task.manifest) : units[i] = UnitOf(b, task.flavor)
      BY <1>4, <3>1
    <3> DEFINE u == b.owner
               family == Family(task.flavor)
               D == CHOOSE deps \in {c.deps : c \in Range(task.manifest)} :
                      \E c \in Range(task.manifest) : c.owner = u /\ c.deps = deps
    <3>3. units[i].of = u /\ units[i].deps = DepArgs(b.deps, family) /\ u # Runtime
      BY <1>4, <2>2, <3>1, <3>2 DEF UnitOf
    <3>4. D = b.deps
      <4>1. \E deps \in {c.deps : c \in Range(task.manifest)} :
              \E c \in Range(task.manifest) : c.owner = u /\ c.deps = deps
        OBVIOUS
      <4>2. \E c \in Range(task.manifest) : c.owner = u /\ c.deps = D
        BY <4>1
      <4> QED
        BY <1>3, <4>2
    <3>5. Declared(u, task.flavor) = {dep.name : dep \in {d \in Range(D) : AppliesTo(d, family)}}
      BY <3>3, Zenon DEF Declared
    <3> HIDE DEF D, u, family
    <3>6. b.deps \in Seq(Range(b.deps))
      BY DEF LinkFits
    <3> DEFINE S == {LibraryArg(d) : d \in Range(b.deps)}
    <3>7. \A d \in Range(b.deps) : LibraryArg(d) \in S
      OBVIOUS
    <3> HIDE DEF S
    <3>8. Range(DepArgs(b.deps, family)) =
            {LibraryArg(d) : d \in {d \in Range(b.deps) : AppliesTo(d, family)}}
      BY <3>6, <3>7, DepArgsAre
    <3>9. PICK d \in Range(b.deps) : AppliesTo(d, family) /\ l = d.name
      BY <3>3, <3>4, <3>5
    <3>10. LibraryArg(d) \in Range(units[i].deps) /\ LibraryArg(d)[2] = l
      BY <3>3, <3>8, <3>9 DEF LibraryArg
    <3> QED
      BY <3>10
  <2> QED
    BY <2>1, <2>2
<1>6. ASSUME NEW i \in 1..n, NEW x \in task.calls[units[i].of]
      PROVE  \E dep \in Range(units[i].deps) : x = OfSystem(dep[2])
  <2>1. PICK l \in Declared(units[i].of, task.flavor) : x = OfSystem(l)
    BY <1>2, <1>3
  <2> QED
    BY <1>5, <2>1
<1> QED
  BY <1>3, <1>6 DEF Declares, units

\* What passes the check links, if the manifest and rustc tell the truth.
THEOREM EverythingDoesLink == Spec => []EverythingLinks
<1>1. ASSUME IInv PROVE EverythingLinks
  <2> SUFFICES ASSUME Did("link"), WellDeclared PROVE result[1].needed = {}
    BY DEF EverythingLinks
  <2>1. Problems(task.manifest, task.archives) = {} /\ result[1] = LinkedFor(task)
    BY <1>1 DEF IInv, LinksItsTask
  <2>2. LinkFits(task)
    BY <1>1, KnownFits DEF IInv, Did
  <2> QED
    BY <2>1, <2>2, WellDeclaredIs, NothingIsNeeded
<1> QED
  BY <1>1, Invariance, PTL

\* What was packed and read back is below its directory, on the way there too.
THEOREM FilesAreInside == Spec => []FilesStayInside
<1>1. ASSUME IInv PROVE FilesStayInside
  <2> DEFINE bundles == task.bundles
             read == result[1]
  <2> SUFFICES ASSUME Did("pack"), read # None, NEW i \in DOMAIN read[1],
                      NEW j \in DOMAIN read[1][i].files
               PROVE  LET path == read[1][i].files[j].path
                      IN  path[1] # Slash /\ Special \notin Range(path) /\ Depth(path) > 0
    BY Zenon DEF FilesStayInside
  <2>1. HashedAll(bundles) \in BundleList
    BY <1>1, InputsFit DEF IInv, Known, Did, HashedAll
  <2>2. /\ \A k \in DOMAIN bundles : AllSafe(bundles[k].files)
        /\ read = <<HashedAll(bundles)>>
    BY <1>1, Zenon DEF IInv, RoundTrips, HashedAll
  <2> HIDE DEF read
  <2>3. read[1] = HashedAll(bundles)
    BY <2>2
  <2>4. DOMAIN HashedAll(bundles) = DOMAIN bundles
        /\ \A k \in DOMAIN bundles : HashedAll(bundles)[k] = Hashed(bundles[k])
    BY DEF HashedAll
  <2> HIDE DEF bundles
  <2>5. i \in DOMAIN bundles /\ read[1][i].files = bundles[i].files
    BY <2>3, <2>4, HashedKeeps
  <2> DEFINE file == bundles[i].files[j]
  <2>6. IsSafeRelativePath(file.path)
    BY <2>2, <2>5 DEF AllSafe
  <2>7. HashedAll(bundles)[i] \in Bundle
    <3>1. HashedAll(bundles) \in Seq(Bundle)
      BY <2>1 DEF BundleList
    <3> QED
      BY <2>4, <2>5, <3>1
  <2>8. bundles[i].files \in Seq(BundleFile)
    <3>1. HashedAll(bundles)[i].files \in FileList
      BY <2>7 DEF Bundle
    <3> QED
      BY <2>3, <2>5, <3>1 DEF FileList
  <2>9. file.path \in Digits
    <3>1. file \in BundleFile
      BY <2>5, <2>8
    <3> QED
      BY <3>1 DEF BundleFile, Text
  <2>10. read[1][i].files[j].path = file.path
    BY <2>5
  <2> HIDE DEF file
  <2> QED
    BY <2>6, <2>9, <2>10, SafeIsInside
<1> QED
  BY <1>1, Invariance, PTL

\* The inputs of a deployment fit.
LEMMA DeployKnownFits ==
  ASSUME Known, task.kind = "deploy"
  PROVE  DeployFits(task)
BY InputsFit DEF Known

\* A program that was built runs where there is what the notes list.
THEOREM NotesSayAll == Spec => []NotesAreEnough
<1>1. ASSUME IInv PROVE NotesAreEnough
  <2> SUFFICES ASSUME Did("deploy"), NEW b \in Range(task.used),
                      \A n \in DOMAIN task.dirs : AllSafe(task.dirs[n]), CanBeExecuted(b),
                      NEW machine \in Machines, Provides(machine, result[1].notes)
               PROVE  RunEmbedded(b, task.family, result[1].object, machine) =
                        <<"started", IF b.bundle = <<>> THEN <<>>
                                     ELSE ReadBundle(task.dirs[b.bundle[1]])>>
    BY Zenon DEF NotesAreEnough
  <2>1. DeployFits(task)
    BY <1>1, DeployKnownFits DEF IInv, Did
  <2>2. /\ Prepared(task) # <<>>
        /\ result[1].object = BundleObject(Prepared(task)[1].blob)
        /\ result[1].notes = Prepared(task)[1].notes
    BY <1>1 DEF IInv, DeploysItsTask
  <2>3. Provides(machine, Prepared(task)[1].notes)
    BY <2>2
  <2>4. \A c \in Range(IpcCommand(b, task.family)) : InBundle(c) /\ ~c.probe =>
          \A f \in FilesAt(task.dirs[b.bundle[1]], c.program[2]) : Executable(f.mode)
    BY Zenon DEF CanBeExecuted
  <2> DEFINE source == IF b.bundle = <<>> THEN <<>> ELSE ReadBundle(task.dirs[b.bundle[1]])
  <2>5. source = IF b.bundle = <<>> THEN <<>> ELSE ReadBundle(task.dirs[b.bundle[1]])
    OBVIOUS
  <2> HIDE DEF source
  <2>6. RunEmbedded(b, task.family, BundleObject(Prepared(task)[1].blob), machine)
          = <<"started", source>>
    BY <2>1, <2>2, <2>3, <2>4, <2>5, NotesSuffice
  <2> QED
    BY <2>2, <2>5, <2>6
<1> QED
  BY <1>1, Invariance, PTL

\* The same files are packed alike in whatever order the directories give them.
THEOREM OrderDoesNotShow == Spec => []OrderIsNoMatter
<1>1. ASSUME IInv PROVE OrderIsNoMatter
  <2> SUFFICES ASSUME Did("deploy"),
                      NEW turned, turned = [n \in DOMAIN task.dirs |-> Reverse(task.dirs[n])]
               PROVE  BundleObject(PrepareFor(task.used, task.family, task.path, turned)[1].blob)
                        = result[1].object
    BY Zenon DEF OrderIsNoMatter
  <2>1. PrepareFor(task.used, task.family, task.path, turned) = Prepared(task)
    BY <1>1, DeployKnownFits, TurnedIsSame DEF IInv, Did
  <2>2. result[1].object = BundleObject(Prepared(task)[1].blob)
    BY <1>1 DEF IInv, DeploysItsTask
  <2> QED
    BY <2>1, <2>2
<1> QED
  BY <1>1, Invariance, PTL
=============================================================================
