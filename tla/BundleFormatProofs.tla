-------------------------- MODULE BundleFormatProofs --------------------------
(***************************************************************************)
(* Theorems about BundleFormat for bundles and blobs of any size, and any  *)
(* base: `parse` reads what `pack` wrote, and accepts nothing else.        *)
(***************************************************************************)
EXTENDS BundleFormat, DataInduction

-----------------------------------------------------------------------------
(* Common to every field.                                                  *)

\* What `parse` asks of the files besides.
SafeFile(f) == IsSafeRelativePath(f.path)
SafeBundle(b) == \A i \in DOMAIN b.files : SafeFile(b.files[i])

\* What reading something in S can give.
Readings(S) == {None} \cup (S \X Digits)

LEMMA BaseFacts ==
  /\ Base \in Nat \ {0} /\ Base - 1 \in Nat
  /\ Base * Base \in Nat /\ Base * Base - 1 \in Nat
  /\ Base <= Base * Base
<1>1. Base \in Nat \ {0} /\ Base - 1 \in Nat
  BY BaseIsEnough
<1>2. Base * Base \in Nat /\ Base <= Base * Base
  BY <1>1
<1> QED
  BY <1>1, <1>2

LEMMA PairIsSome ==
  ASSUME NEW x, NEW y
  PROVE  <<x, y>> # None
BY DEF None

-----------------------------------------------------------------------------
(* Numbers                                                                 *)

\* A number that fits is its digit, or its two digits.
LEMMA U32Is ==
  ASSUME NEW n \in Digit
  PROVE  U32(n) = <<n>> /\ U32(n) \in Digits /\ Len(U32(n)) = 1
<1>1. n % Base = n
  BY BaseFacts DEF Digit
<1> QED
  BY <1>1 DEF U32, Digits

LEMMA U64Is ==
  ASSUME NEW n \in Wide
  PROVE  \E d \in Digit, e \in Digit :
           /\ U64(n) = <<d, e>> /\ U64(n) \in Digits /\ Len(U64(n)) = 2
           /\ n = d + Base * e
<1> DEFINE d == n % Base
           e == n \div Base
<1>1. n \in Nat /\ Base \in Nat \ {0}
  BY BaseFacts DEF Wide
<1>2. d \in Digit /\ e \in Digit
  BY <1>1 DEF Digit, Wide
<1>3. n = d + Base * e
  BY <1>1, DivisionIs
<1>4. (n \div Base) % Base = e
  <2> HIDE DEF d
  <2> DEFINE x == n \div Base
  <2>1. x \in 0..(Base - 1)
    BY <1>2 DEF Digit
  <2> HIDE DEF x
  <2>2. x % Base = x
    BY <1>1, <2>1
  <2> QED
    BY <2>2 DEF x
<1>5. U64(n) = <<d, e>>
  BY <1>4 DEF U64
<1> HIDE DEF d, e
<1>6. <<d, e>> \in Digits /\ Len(<<d, e>>) = 2
  BY <1>2 DEF Digits
<1> QED
  BY <1>2, <1>3, <1>5, <1>6

\* Two digits make a number that is written as they are.
LEMMA U64Of ==
  ASSUME NEW d \in Digit, NEW e \in Digit
  PROVE  d + Base * e \in Wide /\ U64(d + Base * e) = <<d, e>>
<1>1. Base \in Nat \ {0}
  BY BaseFacts
<1>2. d \in Nat /\ e \in Nat /\ d < Base /\ e < Base
  BY <1>1 DEF Digit
<1>3. (d + Base * e) % Base = d /\ (d + Base * e) \div Base = e
  BY <1>1, DivisionUnique DEF Digit
<1>4. e % Base = e
  BY <1>1, <1>2
<1>5. d + Base * e \in Wide
  <2>1. Base * e \in Nat /\ Base * e + Base <= Base * Base
    BY <1>1, <1>2
  <2> DEFINE x == Base * e
             y == Base * Base
  <2>2. x \in Nat /\ y \in Nat /\ x + Base <= y
    BY <2>1, BaseFacts
  <2> HIDE DEF x, y
  <2>3. d + x \in 0..(y - 1)
    BY <1>1, <1>2, <2>2
  <2> QED
    BY <2>3 DEF x, y, Wide
<1> QED
  BY <1>3, <1>4, <1>5 DEF U64

-----------------------------------------------------------------------------
(* Each field twice: reading what was written, with anything after it, and *)
(* what it was that could be read.                                         *)

\* The blobs a blob begins and ends with.
LEMMA Halves ==
  ASSUME NEW a \in Digits, NEW rest \in Digits
  PROVE  /\ a \o rest \in Digits /\ Len(a \o rest) = Len(a) + Len(rest)
         /\ SubSeq(a \o rest, 1, Len(a)) = a
         /\ SubSeq(a \o rest, Len(a) + 1, Len(a \o rest)) = rest
<1>1. a \in Seq(Digit) /\ rest \in Seq(Digit)
  BY DEF Digits
<1>2. a \o rest \in Seq(Digit) /\ Len(a \o rest) = Len(a) + Len(rest)
  BY <1>1
<1>3. SubSeq(a \o rest, 1, Len(a)) = a
  BY <1>1
<1>4. SubSeq(a \o rest, Len(a) + 1, Len(a \o rest)) = rest
  BY <1>1
<1> QED
  BY <1>2, <1>3, <1>4 DEF Digits

LEMMA Longer ==
  ASSUME NEW a \in Digits, NEW b \in Digits, NEW c \in Digits
  PROVE  (a \o b) \o c = a \o (b \o c)
<1>1. a \in Seq(Digit) /\ b \in Seq(Digit) /\ c \in Seq(Digit)
  BY DEF Digits
<1> QED
  BY ONLY <1>1

LEMMA TakeBack ==
  ASSUME NEW a \in Digits, NEW rest \in Digits
  PROVE  Take(a \o rest, Len(a)) = <<a, rest>>
<1>1. ~(Len(a \o rest) < Len(a))
  <2>1. Len(a) \in Nat /\ Len(rest) \in Nat
    BY DEF Digits
  <2> QED
    BY <2>1, Halves
<1> QED
  BY <1>1, Halves DEF Take

LEMMA TakeFrom ==
  ASSUME NEW blob \in Digits, NEW n \in Nat, Take(blob, n) # None
  PROVE  \E a \in Digits, rest \in Digits :
           Take(blob, n) = <<a, rest>> /\ Len(a) = n /\ blob = a \o rest
<1>1. blob \in Seq(Digit) /\ Len(blob) \in Nat
  BY DEF Digits
<1>2. n <= Len(blob)
  BY <1>1 DEF Take
<1> DEFINE a == SubSeq(blob, 1, n)
           rest == SubSeq(blob, n + 1, Len(blob))
<1>3. a \in Seq(Digit) /\ Len(a) = n /\ rest \in Seq(Digit)
  BY <1>1, <1>2
<1>4. blob = a \o rest
  <2>1. \A i \in 1..n : a[i] = blob[i]
    BY <1>1, <1>2
  <2>2. Len(rest) = Len(blob) - n /\ \A i \in 1..(Len(blob) - n) : rest[i] = blob[n + i]
    BY <1>1, <1>2
  <2> HIDE DEF a, rest
  <2>3. /\ a \o rest \in Seq(Digit) /\ Len(a \o rest) = Len(blob)
        /\ \A i \in 1..Len(blob) :
             (a \o rest)[i] = IF i <= n THEN a[i] ELSE rest[i - n]
    BY <1>1, <1>2, <1>3, <2>2, ConcatProperties
  <2>4. ASSUME NEW i \in 1..Len(blob) PROVE (a \o rest)[i] = blob[i]
    <3>1. CASE i <= n
      BY <1>1, <1>2, <2>1, <2>3, <2>4, <3>1
    <3>2. CASE ~(i <= n)
      <4>1. i - n \in 1..(Len(blob) - n) /\ n + (i - n) = i
        BY <1>1, <1>2, <2>4, <3>2
      <4> QED
        BY <2>2, <2>3, <2>4, <3>2, <4>1
    <3> QED
      BY <3>1, <3>2
  <2> QED
    BY ONLY <1>1, <2>3, <2>4, SeqEqual
<1>5. Take(blob, n) = <<a, rest>>
  BY <1>1, <1>2 DEF Take
<1> HIDE DEF a, rest
<1> QED
  BY <1>3, <1>4, <1>5 DEF Digits

LEMMA U32Back ==
  ASSUME NEW n \in Digit, NEW rest \in Digits
  PROVE  GetU32(U32(n) \o rest) = <<n, rest>>
<1> DEFINE a == U32(n)
<1>1. a = <<n>> /\ a \in Digits /\ Len(a) = 1
  BY U32Is
<1>2. a[1] = n
  BY <1>1
<1> HIDE DEF a
<1>3. Take(a \o rest, 1) = <<a, rest>>
  BY <1>1, TakeBack
<1> QED
  BY <1>2, <1>3, PairIsSome DEF GetU32, Then, a

LEMMA U32From ==
  ASSUME NEW blob \in Digits, GetU32(blob) # None
  PROVE  \E n \in Digit, rest \in Digits :
           GetU32(blob) = <<n, rest>> /\ blob = U32(n) \o rest
<1>1. Take(blob, 1) # None
  BY DEF GetU32, Then
<1>2. PICK a \in Digits, rest \in Digits :
        Take(blob, 1) = <<a, rest>> /\ Len(a) = 1 /\ blob = a \o rest
  BY <1>1, TakeFrom
<1>3. a[1] \in Digit /\ a = <<a[1]>>
  BY <1>2 DEF Digits
<1>4. GetU32(blob) = <<a[1], rest>>
  BY <1>1, <1>2 DEF GetU32, Then
<1>5. U32(a[1]) = <<a[1]>>
  BY <1>3, U32Is
<1> QED
  BY <1>2, <1>3, <1>4, <1>5

LEMMA U64Back ==
  ASSUME NEW n \in Wide, NEW rest \in Digits
  PROVE  GetU64(U64(n) \o rest) = <<n, rest>>
<1> DEFINE a == U64(n)
<1>1. PICK d \in Digit, e \in Digit :
        a = <<d, e>> /\ a \in Digits /\ Len(a) = 2 /\ n = d + Base * e
  BY U64Is
<1>2. a[1] + Base * a[2] = n
  BY <1>1
<1> HIDE DEF a
<1>3. Take(a \o rest, 2) = <<a, rest>>
  BY <1>1, TakeBack
<1> QED
  BY <1>2, <1>3, PairIsSome DEF GetU64, Then, a

LEMMA U64From ==
  ASSUME NEW blob \in Digits, GetU64(blob) # None
  PROVE  \E n \in Wide, rest \in Digits :
           GetU64(blob) = <<n, rest>> /\ blob = U64(n) \o rest
<1>1. Take(blob, 2) # None
  BY DEF GetU64, Then
<1>2. PICK a \in Digits, rest \in Digits :
        Take(blob, 2) = <<a, rest>> /\ Len(a) = 2 /\ blob = a \o rest
  BY <1>1, TakeFrom
<1>3. a[1] \in Digit /\ a[2] \in Digit /\ a = <<a[1], a[2]>>
  <2>1. a \in Seq(Digit) /\ Len(a) = 2
    BY <1>2 DEF Digits
  <2> HIDE DEF Digits
  <2>2. a[1] \in Digit /\ a[2] \in Digit
    BY ONLY <2>1
  <2>3. a = <<a[1], a[2]>>
    BY ONLY <2>1
  <2> QED
    BY <2>2, <2>3
<1>4. GetU64(blob) = <<a[1] + Base * a[2], rest>>
  BY <1>1, <1>2 DEF GetU64, Then
<1>5. a[1] + Base * a[2] \in Wide /\ U64(a[1] + Base * a[2]) = <<a[1], a[2]>>
  BY <1>3, U64Of
<1> QED
  BY <1>2, <1>3, <1>4, <1>5

LEMMA StrBack ==
  ASSUME NEW s \in Text, NEW rest \in Digits
  PROVE  PutStr(s) \in Digits /\ GetStr(PutStr(s) \o rest) = <<s, rest>>
<1>1. s \in Digits /\ Len(s) \in Digit /\ NotText \notin Range(s)
  BY DEF Text
<1>2. U32(Len(s)) \in Digits /\ s \o rest \in Digits
  BY <1>1, U32Is, Halves
<1>3. PutStr(s) \in Digits /\ PutStr(s) \o rest = U32(Len(s)) \o (s \o rest)
  <2> DEFINE u == U32(Len(s))
  <2>1. u \in Digits
    BY <1>2
  <2>2. PutStr(s) = u \o s
    BY DEF PutStr
  <2> HIDE DEF u
  <2>3. u \o s \in Digits /\ (u \o s) \o rest = u \o (s \o rest)
    BY <1>1, <2>1, Halves, Longer
  <2> QED
    BY <2>2, <2>3 DEF u
<1>4. GetU32(PutStr(s) \o rest) = <<Len(s), s \o rest>>
  BY <1>1, <1>2, <1>3, U32Back
<1>5. Take(s \o rest, Len(s)) = <<s, rest>>
  BY <1>1, TakeBack
<1> QED
  BY <1>1, <1>3, <1>4, <1>5, PairIsSome DEF GetStr, Then

LEMMA StrFrom ==
  ASSUME NEW blob \in Digits, GetStr(blob) # None
  PROVE  \E s \in Text, rest \in Digits :
           GetStr(blob) = <<s, rest>> /\ blob = PutStr(s) \o rest
<1>1. GetU32(blob) # None
  BY DEF GetStr, Then
<1>2. PICK n \in Digit, chars \in Digits :
        GetU32(blob) = <<n, chars>> /\ blob = U32(n) \o chars
  BY <1>1, U32From
<1>3. n \in Nat /\ Take(chars, n) # None
  BY <1>1, <1>2 DEF GetStr, Then, Digit
<1>4. PICK s \in Digits, rest \in Digits :
        Take(chars, n) = <<s, rest>> /\ Len(s) = n /\ chars = s \o rest
  BY <1>3, TakeFrom
<1>5. NotText \notin Range(s) /\ GetStr(blob) = <<s, rest>>
  <2> DEFINE q == Take(GetU32(blob)[2], GetU32(blob)[1])
  <2>1. GetStr(blob) = IF q = None \/ NotText \in Range(q[1]) THEN None ELSE <<q[1], q[2]>>
    BY <1>1 DEF GetStr, Then
  <2>2. q = <<s, rest>>
    BY <1>2, <1>4
  <2> HIDE DEF q
  <2> QED
    BY <2>1, <2>2
<1>6. s \in Text
  BY <1>4, <1>5 DEF Text
<1>7. blob = PutStr(s) \o rest
  <2> DEFINE u == U32(n)
  <2>1. u \in Digits
    BY U32Is
  <2>2. PutStr(s) = u \o s /\ blob = u \o (s \o rest)
    BY <1>2, <1>4 DEF PutStr
  <2> HIDE DEF u
  <2>3. (u \o s) \o rest = u \o (s \o rest)
    BY <2>1, <1>4, Longer
  <2> QED
    BY <2>2, <2>3
<1> QED
  BY <1>5, <1>6, <1>7

-----------------------------------------------------------------------------
(* A file                                                                  *)

\* Four fields and what follows them, from the first on.
InFours(a, b, c, d, rest) ==
  /\ a \o b \o c \o d \in Digits
  /\ (a \o b \o c \o d) \o rest = a \o (b \o (c \o (d \o rest)))
  /\ b \o (c \o (d \o rest)) \in Digits /\ c \o (d \o rest) \in Digits
  /\ d \o rest \in Digits

LEMMA FourFields ==
  ASSUME NEW a \in Digits, NEW b \in Digits, NEW c \in Digits, NEW d \in Digits,
         NEW rest \in Digits
  PROVE  InFours(a, b, c, d, rest)
<1> DEFINE dr == d \o rest
           cdr == c \o dr
           ab == a \o b
           abc == ab \o c
<1>1. dr \in Digits
  BY Halves
<1>2. ab \in Digits
  BY Halves
<1> HIDE DEF dr, ab
<1>3. cdr \in Digits
  BY <1>1, Halves
<1>4. abc \in Digits
  BY <1>2, Halves
<1> HIDE DEF cdr, abc
<1>5. b \o cdr \in Digits
  BY <1>3, Halves
<1>6. abc \o d \in Digits
  BY <1>4, Halves
<1>7. (abc \o d) \o rest = abc \o dr
  BY SMTT(30), <1>4, Longer DEF dr
<1>8. abc \o dr = ab \o cdr
  BY SMTT(30), <1>1, <1>2, Longer DEF abc, cdr
<1>9. ab \o cdr = a \o (b \o cdr)
  BY SMTT(30), <1>3, Longer DEF ab
<1>10. (abc \o d) \o rest = a \o (b \o cdr)
  BY <1>7, <1>8, <1>9
<1> QED
  BY ONLY <1>1, <1>3, <1>5, <1>6, <1>10 DEF dr, cdr, ab, abc, InFours

\* The four fields of a file have been read.
ReadsFile(blob, path, r1, mode, r2, n, r3, bytes, rest) ==
  /\ GetStr(blob) = <<path, r1>> /\ GetU32(r1) = <<mode, r2>>
  /\ GetU64(r2) = <<n, r3>> /\ Take(r3, n) = <<bytes, rest>>

\* What GetFile is then.
LEMMA GetFileIs ==
  ASSUME NEW blob, NEW path, NEW r1, NEW mode, NEW r2, NEW n, NEW r3, NEW bytes, NEW rest,
         ReadsFile(blob, path, r1, mode, r2, n, r3, bytes, rest)
  PROVE  GetFile(blob) =
           IF IsSafeRelativePath(path)
             THEN <<[path |-> path, mode |-> mode, bytes |-> bytes], rest>>
             ELSE None
<1> USE DEF ReadsFile
<1>1. GetStr(blob) # None /\ GetU32(r1) # None /\ GetU64(r2) # None /\ Take(r3, n) # None
  BY PairIsSome
<1> DEFINE s == GetStr(blob)
           t == Take(GetU64(GetU32(s[2])[2])[2], GetU64(GetU32(s[2])[2])[1])
<1>2. s[1] = path /\ s[2] = r1 /\ GetU32(s[2])[1] = mode /\ GetU32(s[2])[2] = r2
  OBVIOUS
<1>3. GetU64(GetU32(s[2])[2])[1] = n /\ GetU64(GetU32(s[2])[2])[2] = r3
  BY <1>2
<1>4. t = <<bytes, rest>>
  BY <1>3
<1>5. GetFile(blob) =
        IF s = None \/ ~IsSafeRelativePath(s[1]) \/ GetU32(s[2]) = None
           \/ GetU64(GetU32(s[2])[2]) = None \/ t = None
          THEN None
          ELSE <<[path |-> s[1], mode |-> GetU32(s[2])[1], bytes |-> t[1]], t[2]>>
  BY DEF GetFile, Then
<1> HIDE DEF s, t
<1> QED
  BY <1>1, <1>2, <1>3, <1>4, <1>5 DEF s

LEMMA FileBack ==
  ASSUME NEW f \in BundleFile, NEW rest \in Digits
  PROVE  /\ PutFile(f) \in Digits
         /\ GetFile(PutFile(f) \o rest) = IF SafeFile(f) THEN <<f, rest>> ELSE None
<1>1. f.path \in Text /\ f.mode \in Digit /\ f.bytes \in Digits /\ Len(f.bytes) \in Wide
  BY DEF BundleFile
<1>2. f = [path |-> f.path, mode |-> f.mode, bytes |-> f.bytes]
  BY DEF BundleFile
<1> DEFINE a == PutStr(f.path)
           b == U32(f.mode)
           c == U64(Len(f.bytes))
           d == f.bytes
<1>3. a \in Digits /\ b \in Digits /\ c \in Digits /\ d \in Digits
  BY <1>1, StrBack, U32Is, U64Is
<1>4. PutFile(f) = a \o b \o c \o d
  BY DEF PutFile
<1>5. \A r \in Digits : GetStr(a \o r) = <<f.path, r>>
  BY <1>1, StrBack
<1>6. \A r \in Digits : GetU32(b \o r) = <<f.mode, r>>
  BY <1>1, U32Back
<1>7. \A r \in Digits : GetU64(c \o r) = <<Len(f.bytes), r>>
  BY <1>1, U64Back
<1>8. \A r \in Digits : Take(d \o r, Len(f.bytes)) = <<d, r>>
  BY <1>1, TakeBack
<1> HIDE DEF a, b, c, d
<1>9. /\ PutFile(f) \in Digits
      /\ PutFile(f) \o rest = a \o (b \o (c \o (d \o rest)))
      /\ b \o (c \o (d \o rest)) \in Digits /\ c \o (d \o rest) \in Digits
      /\ d \o rest \in Digits
  <2>1. InFours(a, b, c, d, rest)
    BY <1>3, FourFields
  <2> QED
    BY <1>4, <2>1, Zenon DEF InFours
<1>10. GetFile(PutFile(f) \o rest) =
         IF IsSafeRelativePath(f.path)
           THEN <<[path |-> f.path, mode |-> f.mode, bytes |-> d], rest>> ELSE None
  <2>1. GetStr(PutFile(f) \o rest) = <<f.path, b \o (c \o (d \o rest))>>
    BY <1>5, <1>9
  <2>2. GetU32(b \o (c \o (d \o rest))) = <<f.mode, c \o (d \o rest)>>
    BY <1>6, <1>9
  <2>3. GetU64(c \o (d \o rest)) = <<Len(f.bytes), d \o rest>>
    BY <1>7, <1>9
  <2>4. Take(d \o rest, Len(f.bytes)) = <<d, rest>>
    BY <1>8
  <2> DEFINE all == PutFile(f) \o rest
             r1 == b \o (c \o (d \o rest))
             r2 == c \o (d \o rest)
             r3 == d \o rest
  <2> HIDE DEF all, r1, r2, r3
  <2>5. ReadsFile(all, f.path, r1, f.mode, r2, Len(f.bytes), r3, d, rest)
    BY <2>1, <2>2, <2>3, <2>4 DEF all, r1, r2, r3, ReadsFile
  <2>6. GetFile(all) =
         IF IsSafeRelativePath(f.path)
           THEN <<[path |-> f.path, mode |-> f.mode, bytes |-> d], rest>> ELSE None
    BY <2>5, GetFileIs
  <2> QED
    BY <2>6 DEF all
<1> QED
  BY <1>2, <1>9, <1>10 DEF d, SafeFile

LEMMA FileFrom ==
  ASSUME NEW blob \in Digits, GetFile(blob) # None
  PROVE  \E f \in BundleFile, rest \in Digits :
           GetFile(blob) = <<f, rest>> /\ blob = PutFile(f) \o rest /\ SafeFile(f)
<1>1. GetStr(blob) # None
  BY DEF GetFile, Then
<1>2. PICK path \in Text, r1 \in Digits :
        GetStr(blob) = <<path, r1>> /\ blob = PutStr(path) \o r1
  BY <1>1, StrFrom
<1>3. GetU32(r1) # None
  <2>1. GetU32(GetStr(blob)[2]) # None
    BY DEF GetFile, Then
  <2> QED
    BY <1>2, <2>1
<1>4. PICK mode \in Digit, r2 \in Digits : GetU32(r1) = <<mode, r2>> /\ r1 = U32(mode) \o r2
  BY <1>3, U32From
<1>5. GetU64(r2) # None
  <2>1. GetU64(GetU32(GetStr(blob)[2])[2]) # None
    BY DEF GetFile, Then
  <2>2. GetStr(blob)[2] = r1 /\ GetU32(r1)[2] = r2
    BY <1>2, <1>4
  <2> QED
    BY <2>1, <2>2
<1>6. PICK n \in Wide, r3 \in Digits : GetU64(r2) = <<n, r3>> /\ r2 = U64(n) \o r3
  BY <1>5, U64From
<1>7. Take(r3, n) # None
  <2> DEFINE q == GetU64(GetU32(GetStr(blob)[2])[2])
  <2>1. Take(q[2], q[1]) # None
    BY DEF GetFile, Then
  <2>2. GetStr(blob)[2] = r1 /\ GetU32(r1)[2] = r2
    BY <1>2, <1>4
  <2>3. q = <<n, r3>>
    BY <1>6, <2>2
  <2> HIDE DEF q
  <2> QED
    BY <2>1, <2>3
<1>8. n \in Nat
  BY BaseFacts DEF Wide
<1>9. PICK bytes \in Digits, rest \in Digits :
        Take(r3, n) = <<bytes, rest>> /\ Len(bytes) = n /\ r3 = bytes \o rest
  BY <1>7, <1>8, TakeFrom
<1> DEFINE f == [path |-> path, mode |-> mode, bytes |-> bytes]
<1>10. f \in BundleFile
  BY <1>9 DEF BundleFile
<1>11. GetFile(blob) = IF IsSafeRelativePath(path) THEN <<f, rest>> ELSE None
  <2>1. ReadsFile(blob, path, r1, mode, r2, n, r3, bytes, rest)
    BY <1>2, <1>4, <1>6, <1>9 DEF ReadsFile
  <2> QED
    BY <2>1, GetFileIs
<1>12. blob = PutFile(f) \o rest
  <2> DEFINE a == PutStr(path)
             b == U32(mode)
             c == U64(n)
  <2>1. a \in Digits /\ b \in Digits /\ c \in Digits
    BY StrBack, U32Is, U64Is
  <2>2. PutFile(f) = a \o b \o c \o bytes
    BY <1>9 DEF PutFile
  <2>3. blob = a \o (b \o (c \o (bytes \o rest)))
    BY <1>2, <1>4, <1>6, <1>9
  <2> HIDE DEF a, b, c, f
  <2>4. (a \o b \o c \o bytes) \o rest = a \o (b \o (c \o (bytes \o rest)))
    <3>1. InFours(a, b, c, bytes, rest)
      BY <1>9, <2>1, FourFields
    <3> QED
      BY <3>1, Zenon DEF InFours
  <2> QED
    BY <2>2, <2>3, <2>4
<1>13. f.path = path
  OBVIOUS
<1> HIDE DEF f
<1> QED
  BY <1>10, <1>11, <1>12, <1>13 DEF SafeFile

-----------------------------------------------------------------------------
(* Many things, each read by get, which is GetFile or GetBundle as a       *)
(* function.                                                               *)

\* What one more reading makes of what was read.
NextRead(get, read) ==
  IF read = None \/ get[read[2]] = None THEN None
  ELSE <<Append(read[1], get[read[2]][1]), get[read[2]][2]>>

\* h is what there is after each of n readings.
ReadsMany(h, get, n, blob) ==
  /\ h[0] = <<<<>>, blob>>
  /\ \A i \in 1..n : h[i] = NextRead(get, h[i - 1])

LEMMA NextReadStays ==
  ASSUME NEW S, NEW get \in [Digits -> Readings(S)], NEW read \in Readings(Seq(S))
  PROVE  NextRead(get, read) \in Readings(Seq(S))
<1> SUFFICES ASSUME read # None, get[read[2]] # None
             PROVE  <<Append(read[1], get[read[2]][1]), get[read[2]][2]>> \in Seq(S) \X Digits
  BY DEF NextRead, Readings
<1>1. read[1] \in Seq(S) /\ read[2] \in Digits
  BY DEF Readings
<1>2. get[read[2]] \in S \X Digits
  BY <1>1 DEF Readings
<1> DEFINE x == get[read[2]]
<1>3. x[1] \in S /\ x[2] \in Digits
  BY <1>2
<1> HIDE DEF x
<1>4. Append(read[1], x[1]) \in Seq(S)
  BY <1>1, <1>3, AppendProperties
<1> QED
  BY <1>3, <1>4 DEF x

LEMMA ReadsManyStays ==
  ASSUME NEW S, NEW get \in [Digits -> Readings(S)], NEW n \in Nat, NEW blob \in Digits,
         NEW h, ReadsMany(h, get, n, blob)
  PROVE  \A i \in 0..n : h[i] \in Readings(Seq(S))
<1> DEFINE A == Readings(Seq(S))
<1>1. h[0] \in A
  <2>1. h[0] = <<<<>>, blob>>
    BY DEF ReadsMany
  <2>2. <<<<>>, blob>> \in Seq(S) \X Digits
    <3> DEFINE e == <<>>
    <3>1. e \in Seq(S)
      OBVIOUS
    <3> HIDE DEF e
    <3>2. <<e, blob>> \in Seq(S) \X Digits
      BY <3>1
    <3> QED
      BY <3>2 DEF e
  <2>3. h[0] \in Seq(S) \X Digits
    BY <2>1, <2>2, Zenon
  <2> QED
    BY <2>3, Zenon DEF Readings
<1>2. \A i \in 1..n : h[i] = NextRead(get, h[i - 1])
  BY DEF ReadsMany
<1>3. \A read \in A : NextRead(get, read) \in A
  BY NextReadStays
<1> HIDE DEF A
<1>4. \A i \in 1..n : h[i - 1] \in A => h[i] \in A
  BY <1>2, <1>3
<1> QED
  BY <1>1, <1>4, StaysIn DEF A

\* The items and put(each) as a function.
Written(put, items) == [i \in DOMAIN items |-> put[items[i]]]

\* get reads what put wrote, when it may.
GetsBack(get, put, S, safe) ==
  \A x \in S, rest \in Digits :
    get[put[x] \o rest] = IF x \in safe THEN <<x, rest>> ELSE None

\* What get reads, put wrote.
GetsFrom(get, put, safe) ==
  \A blob \in Digits : get[blob] # None =>
    \E x \in safe, rest \in Digits : get[blob] = <<x, rest>> /\ blob = put[x] \o rest

LEMMA ManyBack ==
  ASSUME NEW S, NEW safe \in SUBSET S, NEW put \in [S -> Digits],
         NEW get \in [Digits -> Readings(S)], GetsBack(get, put, S, safe),
         NEW n \in Nat, NEW items \in Seq(S), Len(items) = n, NEW rest \in Digits,
         NEW h, ReadsMany(h, get, n, FlattenSeq(Written(put, items)) \o rest)
  PROVE  h[n] = IF \A i \in 1..n : items[i] \in safe THEN <<items, rest>> ELSE None
<1> DEFINE w == Written(put, items)
<1>1. items \in [1..n -> S] /\ DOMAIN items = 1..n
  OBVIOUS
<1>2. w \in Seq(Digits) /\ Len(w) = n /\ \A i \in 1..n : w[i] = put[items[i]]
  BY <1>1 DEF Written
<1>3. w \in Seq(Seq(Digit)) /\ rest \in Seq(Digit)
  BY <1>2 DEF Digits
<1> HIDE DEF w
<1>4. PICK r \in [0..n -> Seq(Digit)] : Rests(r, w, rest, n)
  BY <1>2, <1>3, FlattenSeqRests
<1>5. r[0] = FlattenSeq(w) \o rest /\ r[n] = rest
  BY <1>4 DEF Rests
<1>6. \A i \in 1..n : r[i - 1] = w[i] \o r[i]
  BY <1>4 DEF Rests
<1>7. h[0] = <<<<>>, r[0]>>
  BY <1>5 DEF ReadsMany, w
<1>8. \A i \in 1..n : h[i] = NextRead(get, h[i - 1])
  BY DEF ReadsMany
<1> DEFINE Good(k) == \A i \in 1..k : items[i] \in safe
           At(k) == h[k] = IF Good(k) THEN <<SubSeq(items, 1, k), r[k]>> ELSE None
           T == {k \in Nat : k <= n => At(k)}
<1>9. 0 \in T
  <2>1. Good(0) /\ SubSeq(items, 1, 0) = <<>>
    OBVIOUS
  <2>2. At(0)
    BY <1>7, <2>1
  <2> HIDE DEF At
  <2> QED
    BY <2>2
<1>10. ASSUME NEW k \in Nat, k \in T PROVE k + 1 \in T
  <2> DEFINE m == k + 1
  <2> SUFFICES ASSUME m <= n PROVE At(m)
    OBVIOUS
  <2>1. k \in 0..n /\ m \in 1..n /\ m - 1 = k /\ At(k)
    BY <1>10
  <2>2. Good(m) <=> Good(k) /\ items[m] \in safe
    BY <2>1
  <2>3. SubSeq(items, 1, m) = Append(SubSeq(items, 1, k), items[m])
    BY <2>1, BeginningGrows
  <2>4. items[m] \in S /\ r[m] \in Digits /\ put[items[m]] = w[m]
    BY <1>1, <1>2, <2>1 DEF Digits
  <2> HIDE DEF m
  <2>5. r[k] = put[items[m]] \o r[m]
    BY <1>6, <2>1, <2>4
  <2>6. get[r[k]] = IF items[m] \in safe THEN <<items[m], r[m]>> ELSE None
    BY <2>4, <2>5 DEF GetsBack
  <2>7. h[m] = NextRead(get, h[k])
    BY <1>8, <2>1
  <2> HIDE DEF Good
  <2>8. CASE ~Good(k)
    BY <2>1, <2>2, <2>7, <2>8 DEF NextRead
  <2>9. CASE Good(k)
    <3>1. h[k] = <<SubSeq(items, 1, k), r[k]>> /\ h[k] # None
      BY <2>1, <2>9, PairIsSome
    <3>2. h[k][1] = SubSeq(items, 1, k) /\ h[k][2] = r[k]
      BY <3>1
    <3>3. CASE items[m] \in safe
      <4>1. get[r[k]] = <<items[m], r[m]>> /\ get[r[k]] # None
        BY <2>6, <3>3, PairIsSome
      <4>2. h[m] = <<Append(h[k][1], get[h[k][2]][1]), get[h[k][2]][2]>>
        BY <2>7, <3>1, <3>2, <4>1 DEF NextRead
      <4>3. get[h[k][2]][1] = items[m] /\ get[h[k][2]][2] = r[m]
        BY <3>2, <4>1
      <4>4. h[m] = <<SubSeq(items, 1, m), r[m]>>
        BY <2>3, <3>2, <4>2, <4>3
      <4> QED
        BY <2>2, <2>9, <3>3, <4>4
    <3>4. CASE items[m] \notin safe
      BY <2>2, <2>6, <2>7, <2>9, <3>1, <3>2, <3>4 DEF NextRead
    <3> QED
      BY <3>3, <3>4
  <2> QED
    BY <2>8, <2>9
<1> HIDE DEF T
<1>11. n \in T
  BY <1>9, <1>10, AllNumbers
<1>12. SubSeq(items, 1, n) = items
  BY <1>1
<1>13. At(n)
  BY <1>11 DEF T
<1> QED
  BY <1>5, <1>12, <1>13

\* What was read is n items that make up the beginning of blob, and its rest.
WasWritten(read, put, safe, n, blob) ==
  \E items \in Seq(safe), rest \in Digits :
    /\ read = <<items, rest>> /\ Len(items) = n
    /\ blob = FlattenSeq(Written(put, items)) \o rest

LEMMA ManyFrom ==
  ASSUME NEW S, NEW safe \in SUBSET S, NEW put \in [S -> Digits],
         NEW get \in [Digits -> Readings(S)], GetsFrom(get, put, safe),
         NEW n \in Nat, NEW blob \in Digits,
         NEW h, ReadsMany(h, get, n, blob), h[n] # None
  PROVE  WasWritten(h[n], put, safe, n, blob)
<1> DEFINE At(k) == \E items \in Seq(safe), rest \in Digits :
                      /\ h[k] = <<items, rest>> /\ Len(items) = k
                      /\ blob = FlattenSeq(Written(put, items)) \o rest
           T == {k \in Nat : k <= n /\ h[k] # None => At(k)}
<1>1. h[0] = <<<<>>, blob>>
  BY DEF ReadsMany
<1>2. \A i \in 1..n : h[i] = NextRead(get, h[i - 1])
  BY DEF ReadsMany
<1>3. 0 \in T
  <2>1. Written(put, <<>>) = <<>>
    BY DEF Written
  <2>2. FlattenSeq(<<>>) = <<>>
    BY Zenon DEF FlattenSeq
  <2>3. <<>> \o blob = blob
    BY DEF Digits
  <2>4. <<>> \in Seq(safe) /\ Len(<<>>) = 0
    OBVIOUS
  <2>5. At(0)
    BY <1>1, <2>1, <2>2, <2>3, <2>4
  <2> HIDE DEF At
  <2> QED
    BY <2>5
<1>4. ASSUME NEW k \in Nat, k \in T PROVE k + 1 \in T
  <2> DEFINE m == k + 1
  <2> SUFFICES ASSUME m <= n, h[m] # None PROVE At(m)
    OBVIOUS
  <2>1. k <= n /\ m \in 1..n /\ m - 1 = k
    OBVIOUS
  <2> HIDE DEF m
  <2>2. h[m] = NextRead(get, h[k])
    BY <1>2, <2>1
  <2>3. h[k] # None /\ get[h[k][2]] # None
    BY <2>2 DEF NextRead
  <2>4. h[m] = <<Append(h[k][1], get[h[k][2]][1]), get[h[k][2]][2]>>
    BY <2>2, <2>3 DEF NextRead
  <2>5. At(k)
    BY <1>4, <2>1, <2>3
  <2>6. PICK items \in Seq(safe), r1 \in Digits :
          /\ h[k] = <<items, r1>> /\ Len(items) = k
          /\ blob = FlattenSeq(Written(put, items)) \o r1
    BY <2>5
  <2>7. h[k][1] = items /\ h[k][2] = r1
    BY <2>6
  <2>8. PICK x \in safe, rest \in Digits : get[r1] = <<x, rest>> /\ r1 = put[x] \o rest
    BY <2>3, <2>7 DEF GetsFrom
  <2> DEFINE more == Append(items, x)
  <2>9. h[m] = <<more, rest>>
    BY <2>4, <2>7, <2>8
  <2>10. more \in Seq(safe) /\ Len(more) = m
    BY <2>6 DEF m
  <2>11. blob = FlattenSeq(Written(put, more)) \o rest
    <3> DEFINE w == Written(put, items)
               a == FlattenSeq(w)
               b == put[x]
    <3>1. items \in Seq(S) /\ DOMAIN items = 1..k /\ k \in Nat /\ x \in S
      BY <2>6
    <3>2. w \in Seq(Digits) /\ Len(w) = k /\ \A i \in 1..k : w[i] = put[items[i]]
      BY <3>1 DEF Written
    <3>3. b \in Digits
      BY <3>1
    <3>4. Written(put, more) = Append(w, b)
      <4>1. /\ DOMAIN more = 1..(k + 1) /\ more[k + 1] = x
            /\ \A i \in 1..k : more[i] = items[i]
        BY <2>6, <3>1
      <4> HIDE DEF more, w
      <4> DEFINE v == Written(put, more)
                 u == Append(w, b)
      <4>2. v = [i \in 1..(k + 1) |-> put[more[i]]]
        BY <4>1 DEF Written
      <4>3. /\ u \in Seq(Digits) /\ Len(u) = k + 1 /\ u[k + 1] = b
            /\ \A i \in 1..k : u[i] = w[i]
        BY <3>2, <3>3
      <4>4. \A i \in 1..(k + 1) : i = k + 1 \/ i \in 1..k
        BY <3>1
      <4>5. \A i \in 1..(k + 1) : put[more[i]] = u[i]
        BY <3>2, <4>1, <4>3, <4>4
      <4> HIDE DEF b, v
      <4>6. u = [i \in 1..(k + 1) |-> u[i]]
        <5> HIDE DEF u
        <5> QED
          BY <4>3
      <4> HIDE DEF u
      <4>7. v = u
        BY <4>2, <4>5, <4>6
      <4> QED
        BY <4>7 DEF v, u
    <3> HIDE DEF w, more
    <3>5. w \in Seq(Seq(Digit)) /\ b \in Seq(Digit)
      BY <3>2, <3>3 DEF Digits
    <3>6. FlattenSeq(Append(w, b)) = a \o b /\ a \in Digits
      BY <3>5, FlattenSeqAppend, FlattenSeqType DEF Digits
    <3>7. blob = a \o r1 /\ r1 = b \o rest
      BY <2>6, <2>8 DEF w
    <3> HIDE DEF a, b
    <3>8. (a \o b) \o rest = a \o (b \o rest)
      BY <2>8, <3>3, <3>6, Longer
    <3> QED
      BY <3>4, <3>6, <3>7, <3>8
  <2> HIDE DEF more
  <2> QED
    BY <2>8, <2>9, <2>10, <2>11
<1> HIDE DEF T
<1>5. n \in T
  BY <1>3, <1>4, AllNumbers
<1> HIDE DEF At
<1>6. At(n)
  BY <1>5 DEF T
<1> QED
  BY <1>6 DEF At, WasWritten

-----------------------------------------------------------------------------
(* GetMany, for files and for bundles.                                     *)

\* f is a fold of into over the numbers up to n, for each set of them.
FoldsInto(f, into, n, blob) ==
  \A s \in SUBSET (1..n) :
    f[s] = IF s = {} THEN <<<<>>, blob>> ELSE into[f[s \ {Max(s)}]]

\* f is one of NextRead.
FoldsReads(f, get, n, blob) ==
  \A s \in SUBSET (1..n) :
    f[s] = IF s = {} THEN <<<<>>, blob>> ELSE NextRead(get, f[s \ {Max(s)}])

IsNextRead(into, get, S) ==
  \A read \in Readings(Seq(S)) : into[read] = NextRead(get, read)

\* A fold of NextRead gives what there is after each reading.
LEMMA AfterEach ==
  ASSUME NEW S, NEW get \in [Digits -> Readings(S)], NEW n \in Nat, NEW blob \in Digits,
         NEW f, NEW into, IsNextRead(into, get, S), FoldsInto(f, into, n, blob)
  PROVE  ReadsMany([i \in 0..n |-> f[1..i]], get, n, blob)
<1> DEFINE h == [i \in 0..n |-> f[1..i]]
           A == Readings(Seq(S))
<1> USE DEF IsNextRead, FoldsInto
<1>1. h[0] = <<<<>>, blob>>
  <2>1. 1..0 = {} /\ 0 \in 0..n /\ {} \in SUBSET (1..n)
    OBVIOUS
  <2>2. h[0] = f[{}]
    BY <2>1
  <2> HIDE DEF h
  <2> QED
    BY <2>1, <2>2
<1>2. ASSUME NEW i \in 1..n PROVE h[i] = into[h[i - 1]]
  <2>1. i \in Nat \ {0} /\ 1..i \in SUBSET (1..n) /\ i \in 0..n /\ i - 1 \in 0..n
    OBVIOUS
  <2>2. 1..i # {} /\ Max(1..i) = i /\ (1..i) \ {i} = 1..(i - 1)
    BY <2>1, MaxOfFirst
  <2>3. f[1..i] = into[f[(1..i) \ {Max(1..i)}]]
    BY <2>1, <2>2
  <2>4. f[1..i] = into[f[1..(i - 1)]]
    BY <2>2, <2>3
  <2> QED
    BY <2>1, <2>4
<1> HIDE DEF h
<1>3. h[0] \in A
  <2> DEFINE e == <<>>
  <2>1. e \in Seq(S)
    OBVIOUS
  <2>2. h[0] = <<e, blob>>
    BY <1>1
  <2> HIDE DEF e
  <2> QED
    BY <2>1, <2>2 DEF Readings
<1>4. \A i \in 1..n : h[i - 1] \in A => h[i] \in A
  BY <1>2, NextReadStays
<1>5. \A i \in 0..n : h[i] \in A
  BY <1>3, <1>4, StaysIn
<1>6. ASSUME NEW i \in 1..n PROVE h[i] = NextRead(get, h[i - 1])
  <2>1. i - 1 \in 0..n
    OBVIOUS
  <2> QED
    BY <1>2, <1>5, <2>1
<1>7. ReadsMany(h, get, n, blob)
  BY <1>1, <1>6 DEF ReadsMany
<1> QED
  BY <1>7 DEF h

\* There is such an f.
LEMMA FoldExists ==
  ASSUME NEW S, NEW get \in [Digits -> Readings(S)], NEW n \in Nat, NEW blob \in Digits
  PROVE  \E f \in [SUBSET (1..n) -> Readings(Seq(S))] : FoldsReads(f, get, n, blob)
<1> DEFINE A == Readings(Seq(S))
           G == [p \in A \X (1..n) |-> NextRead(get, p[1])]
           e == <<>>
<1>1. e \in Seq(S)
  OBVIOUS
<1> HIDE DEF e
<1>2. <<e, blob>> \in A
  BY <1>1 DEF Readings
<1>3. \A p \in A \X (1..n) : p[1] \in A
  OBVIOUS
<1>4. \A read \in A : NextRead(get, read) \in A
  BY NextReadStays
<1> HIDE DEF A
<1>5. G \in [A \X (1..n) -> A]
  BY <1>3, <1>4
<1>6. \A read \in A, i \in 1..n : G[<<read, i>>] = NextRead(get, read)
  OBVIOUS
<1> HIDE DEF G
<1>7. PICK f \in [SUBSET (1..n) -> A] : Accumulates(f, G, <<e, blob>>, n)
  BY <1>2, <1>5, AccumulatesExists DEF CanAccumulate
<1>8. ASSUME NEW s \in SUBSET (1..n), s # {}
      PROVE  f[s] = NextRead(get, f[s \ {Max(s)}])
  <2>1. Max(s) \in 1..n /\ s \ {Max(s)} \in SUBSET (1..n)
    BY <1>8, MaxIs
  <2>2. f[s \ {Max(s)}] \in A
    BY <2>1
  <2>3. f[s] = G[<<f[s \ {Max(s)}], Max(s)>>]
    BY <1>7, <1>8 DEF Accumulates
  <2> QED
    BY <1>6, <2>1, <2>2, <2>3
<1>9. f[{}] = <<e, blob>>
  BY <1>7 DEF Accumulates
<1>10. \A s \in SUBSET (1..n) :
         f[s] = IF s = {} THEN <<e, blob>> ELSE NextRead(get, f[s \ {Max(s)}])
  BY <1>8, <1>9
<1> QED
  BY <1>10 DEF A, e, FoldsReads

GetFileInto(read) ==
  Then(read, LAMBDA items, r1 :
    Then(GetFile(r1), LAMBDA item, rest : <<Append(items, item), rest>>))

LEMMA GetManyFiles ==
  ASSUME NEW get \in [Digits -> Readings(BundleFile)],
         \A b \in Digits : get[b] = GetFile(b),
         NEW n \in Nat, NEW blob \in Digits
  PROVE  \E h : ReadsMany(h, get, n, blob) /\ GetMany(n, GetFile, blob) = h[n]
<1> DEFINE A == Readings(Seq(BundleFile))
           I == [i \in 1..n |-> i]
           f == CHOOSE g : g = [s \in SUBSET (DOMAIN I) |->
                  IF s = {} THEN <<<<>>, blob>> ELSE GetFileInto(g[s \ {Max(s)}])]
<1>1. GetMany(n, GetFile, blob) = f[DOMAIN I]
  BY Zenon DEF GetMany, FoldLeft, MapThenFoldSet, GetFileInto
<1>2. DOMAIN I = 1..n
  OBVIOUS
<1>3. ASSUME NEW read \in A PROVE GetFileInto(read) = NextRead(get, read)
  <2>1. CASE read = None
    BY <2>1 DEF GetFileInto, NextRead, Then
  <2>2. CASE read # None
    <3>1. read[2] \in Digits
      BY <2>2 DEF Readings
    <3>2. get[read[2]] = GetFile(read[2])
      BY <3>1
    <3>3. GetFileInto(read) =
            IF GetFile(read[2]) = None THEN None
            ELSE <<Append(read[1], GetFile(read[2])[1]), GetFile(read[2])[2]>>
      BY <2>2, Zenon DEF GetFileInto, Then
    <3> QED
      BY <2>2, <3>2, <3>3 DEF NextRead
  <2> QED
    BY <2>1, <2>2
<1> HIDE DEF I, A
<1>4. \E g : g = [s \in SUBSET (DOMAIN I) |->
                  IF s = {} THEN <<<<>>, blob>> ELSE GetFileInto(g[s \ {Max(s)}])]
  <2>1. PICK g \in [SUBSET (1..n) -> A] : FoldsReads(g, get, n, blob)
    BY FoldExists DEF A
  <2>2. ASSUME NEW s \in SUBSET (1..n), s # {}
        PROVE  g[s] = GetFileInto(g[s \ {Max(s)}])
    <3>1. s \ {Max(s)} \in SUBSET (1..n)
      OBVIOUS
    <3>2. g[s \ {Max(s)}] \in A
      BY <3>1
    <3> QED
      BY <1>3, <2>1, <2>2, <3>2 DEF FoldsReads
  <2>3. \A s \in SUBSET (1..n) :
          g[s] = IF s = {} THEN <<<<>>, blob>> ELSE GetFileInto(g[s \ {Max(s)}])
    BY <2>1, <2>2 DEF FoldsReads
  <2>4. g = [s \in SUBSET (1..n) |->
               IF s = {} THEN <<<<>>, blob>> ELSE GetFileInto(g[s \ {Max(s)}])]
    BY <2>3
  <2> QED
    BY <1>2, <2>4
<1>5. f = [s \in SUBSET (1..n) |->
             IF s = {} THEN <<<<>>, blob>> ELSE GetFileInto(f[s \ {Max(s)}])]
  BY <1>2, <1>4, Zenon
<1> HIDE DEF f
<1> DEFINE B == A \cup {f[s] : s \in SUBSET (1..n)}
           into == [read \in B |-> GetFileInto(read)]
<1>6. IsNextRead(into, get, BundleFile)
  BY <1>3 DEF IsNextRead, A
<1>7. ASSUME NEW s \in SUBSET (1..n)
      PROVE  f[s] = IF s = {} THEN <<<<>>, blob>> ELSE into[f[s \ {Max(s)}]]
  <2>1. s \ {Max(s)} \in SUBSET (1..n)
    OBVIOUS
  <2>2. f[s \ {Max(s)}] \in B
    BY <2>1
  <2>3. f[s] = IF s = {} THEN <<<<>>, blob>> ELSE GetFileInto(f[s \ {Max(s)}])
    BY <1>5
  <2> HIDE DEF B
  <2> QED
    BY <2>2, <2>3
<1>10. FoldsInto(f, into, n, blob)
  BY <1>7 DEF FoldsInto
<1> HIDE DEF into, B
<1> DEFINE h == [i \in 0..n |-> f[1..i]]
<1>8. ReadsMany(h, get, n, blob)
  BY <1>6, <1>10, AfterEach
<1>9. h[n] = f[1..n]
  OBVIOUS
<1> QED
  BY <1>1, <1>2, <1>8, <1>9

-----------------------------------------------------------------------------
(* The files of a bundle                                                   *)

FilePut == [f \in BundleFile |-> PutFile(f)]
FileGet == [b \in Digits |-> GetFile(b)]
SafeFiles == {f \in BundleFile : SafeFile(f)}

LEMMA FileFunctions ==
  /\ FilePut \in [BundleFile -> Digits]
  /\ FileGet \in [Digits -> Readings(BundleFile)]
  /\ SafeFiles \in SUBSET BundleFile
  /\ GetsBack(FileGet, FilePut, BundleFile, SafeFiles)
  /\ GetsFrom(FileGet, FilePut, SafeFiles)
<1>1. FilePut \in [BundleFile -> Digits]
  <2>1. <<>> \in Digits
    BY DEF Digits
  <2>2. \A f \in BundleFile : PutFile(f) \in Digits
    BY <2>1, FileBack
  <2> QED
    BY <2>2 DEF FilePut
<1>2. SafeFiles \in SUBSET BundleFile
  BY DEF SafeFiles
<1>3. FileGet \in [Digits -> Readings(BundleFile)]
  <2> SUFFICES ASSUME NEW b \in Digits, GetFile(b) # None
               PROVE  GetFile(b) \in BundleFile \X Digits
    BY DEF FileGet, Readings
  <2> QED
    BY FileFrom
<1>4. GetsBack(FileGet, FilePut, BundleFile, SafeFiles)
  <2> SUFFICES ASSUME NEW f \in BundleFile, NEW rest \in Digits
               PROVE  FileGet[FilePut[f] \o rest] =
                        IF f \in SafeFiles THEN <<f, rest>> ELSE None
    BY DEF GetsBack
  <2> DEFINE p == PutFile(f)
             all == p \o rest
  <2>1. p \in Digits /\ GetFile(all) = IF SafeFile(f) THEN <<f, rest>> ELSE None
    BY FileBack
  <2>2. FilePut[f] = p
    BY DEF FilePut
  <2> HIDE DEF p
  <2>3. all \in Digits
    BY <2>1, Halves
  <2> HIDE DEF all
  <2>4. FileGet[all] = GetFile(all)
    BY <2>3 DEF FileGet
  <2>5. FileGet[all] = IF f \in SafeFiles THEN <<f, rest>> ELSE None
    BY <2>1, <2>4 DEF SafeFiles
  <2> QED
    BY <2>2, <2>5 DEF all
<1>5. GetsFrom(FileGet, FilePut, SafeFiles)
  <2> SUFFICES ASSUME NEW blob \in Digits, FileGet[blob] # None
               PROVE  \E x \in SafeFiles, rest \in Digits :
                        FileGet[blob] = <<x, rest>> /\ blob = FilePut[x] \o rest
    BY DEF GetsFrom
  <2>1. FileGet[blob] = GetFile(blob)
    BY DEF FileGet
  <2>2. PICK f \in BundleFile, rest \in Digits :
          GetFile(blob) = <<f, rest>> /\ blob = PutFile(f) \o rest /\ SafeFile(f)
    BY <2>1, FileFrom
  <2>3. f \in SafeFiles /\ FilePut[f] = PutFile(f)
    BY <2>2 DEF SafeFiles, FilePut
  <2> QED
    BY <2>1, <2>2, <2>3
<1> QED
  BY <1>1, <1>2, <1>3, <1>4, <1>5

\* The files one after another.
PutFiles(files) == FlattenSeq([i \in DOMAIN files |-> PutFile(files[i])])

LEMMA PutFilesIs ==
  ASSUME NEW files \in Seq(BundleFile)
  PROVE  PutFiles(files) = FlattenSeq(Written(FilePut, files)) /\ PutFiles(files) \in Digits
<1> DEFINE w == Written(FilePut, files)
<1>1. \A i \in DOMAIN files : files[i] \in BundleFile
  OBVIOUS
<1>2. w = [i \in DOMAIN files |-> PutFile(files[i])]
  BY <1>1 DEF Written, FilePut
<1>3. w \in Seq(Digits)
  BY <1>1, FileFunctions DEF Written
<1> HIDE DEF w
<1>4. w \in Seq(Seq(Digit))
  BY <1>3 DEF Digits
<1>5. FlattenSeq(w) \in Digits
  BY <1>4, FlattenSeqType DEF Digits
<1>6. PutFiles(files) = FlattenSeq(w)
  BY <1>2 DEF PutFiles
<1> QED
  BY <1>5, <1>6 DEF w

LEMMA FilesBack ==
  ASSUME NEW files \in FileList, NEW rest \in Digits
  PROVE  GetMany(Len(files), GetFile, PutFiles(files) \o rest) =
           IF \A i \in DOMAIN files : SafeFile(files[i]) THEN <<files, rest>> ELSE None
<1> DEFINE n == Len(files)
           flat == FlattenSeq(Written(FilePut, files))
           blob == flat \o rest
<1>1. files \in Seq(BundleFile) /\ n \in Nat /\ DOMAIN files = 1..n
  BY DEF FileList
<1>2. flat = PutFiles(files) /\ flat \in Digits
  BY <1>1, PutFilesIs
<1> HIDE DEF n
<1>3. blob \in Digits
  <2> HIDE DEF flat
  <2> QED
    BY <1>2, Halves
<1> HIDE DEF blob
<1>4. PICK h : ReadsMany(h, FileGet, n, blob) /\ GetMany(n, GetFile, blob) = h[n]
  <2>1. \A b \in Digits : FileGet[b] = GetFile(b)
    BY DEF FileGet
  <2>2. FileGet \in [Digits -> Readings(BundleFile)]
    BY FileFunctions
  <2> QED
    BY <1>1, <1>3, <2>1, <2>2, GetManyFiles
<1>5. ReadsMany(h, FileGet, n, flat \o rest)
  BY <1>4 DEF blob
<1>6. h[n] = IF \A i \in 1..n : files[i] \in SafeFiles THEN <<files, rest>> ELSE None
  <2>1. Len(files) = n
    BY DEF n
  <2> QED
    BY <1>1, <1>5, <2>1, FileFunctions, ManyBack
<1>7. (\A i \in 1..n : files[i] \in SafeFiles) <=> \A i \in DOMAIN files : SafeFile(files[i])
  BY <1>1 DEF SafeFiles
<1> QED
  BY <1>2, <1>4, <1>6, <1>7 DEF blob, n

LEMMA FilesFrom ==
  ASSUME NEW n \in Digit, NEW blob \in Digits, GetMany(n, GetFile, blob) # None
  PROVE  \E files \in FileList, rest \in Digits :
           /\ GetMany(n, GetFile, blob) = <<files, rest>> /\ Len(files) = n
           /\ blob = PutFiles(files) \o rest
           /\ \A i \in DOMAIN files : SafeFile(files[i])
<1>1. n \in Nat
  BY BaseFacts DEF Digit
<1>2. PICK h : ReadsMany(h, FileGet, n, blob) /\ GetMany(n, GetFile, blob) = h[n]
  <2>1. \A b \in Digits : FileGet[b] = GetFile(b)
    BY DEF FileGet
  <2>2. FileGet \in [Digits -> Readings(BundleFile)]
    BY FileFunctions
  <2> QED
    BY <1>1, <2>1, <2>2, GetManyFiles
<1>3. PICK files \in Seq(SafeFiles), rest \in Digits :
        /\ h[n] = <<files, rest>> /\ Len(files) = n
        /\ blob = FlattenSeq(Written(FilePut, files)) \o rest
  <2>1. ReadsMany(h, FileGet, n, blob) /\ h[n] # None
    BY <1>2
  <2>2. WasWritten(h[n], FilePut, SafeFiles, n, blob)
    BY <1>1, <2>1, FileFunctions, ManyFrom
  <2> QED
    BY <2>2 DEF WasWritten
<1>4. files \in Seq(BundleFile) /\ \A i \in DOMAIN files : SafeFile(files[i])
  BY <1>3 DEF SafeFiles
<1>5. files \in FileList
  BY <1>3, <1>4 DEF FileList
<1>6. blob = PutFiles(files) \o rest
  BY <1>3, <1>4, PutFilesIs
<1> QED
  BY <1>2, <1>3, <1>4, <1>5, <1>6

-----------------------------------------------------------------------------
(* A bundle                                                                *)

\* The four fields of a bundle have been read.
ReadsBundle(blob, name, r1, hash, r2, n, r3, files, rest) ==
  /\ GetStr(blob) = <<name, r1>> /\ GetU64(r1) = <<hash, r2>>
  /\ GetU32(r2) = <<n, r3>> /\ GetMany(n, GetFile, r3) = <<files, rest>>

LEMMA GetBundleIs ==
  ASSUME NEW blob, NEW name, NEW r1, NEW hash, NEW r2, NEW n, NEW r3, NEW files, NEW rest,
         ReadsBundle(blob, name, r1, hash, r2, n, r3, files, rest)
  PROVE  GetBundle(blob) = <<[name |-> name, hash |-> hash, files |-> files], rest>>
<1> USE DEF ReadsBundle
<1>1. GetStr(blob) # None /\ GetU64(r1) # None /\ GetU32(r2) # None
  BY PairIsSome
<1> DEFINE s == GetStr(blob)
           q == GetU32(GetU64(s[2])[2])
           t == GetMany(q[1], GetFile, q[2])
<1>2. s[1] = name /\ s[2] = r1 /\ GetU64(s[2])[1] = hash /\ GetU64(s[2])[2] = r2
  OBVIOUS
<1>3. q = <<n, r3>> /\ q[1] = n /\ q[2] = r3
  BY <1>2
<1>4. t = <<files, rest>> /\ t # None
  <2> HIDE DEF q
  <2>1. t = GetMany(n, GetFile, r3)
    BY <1>3, Zenon
  <2> QED
    BY <2>1, PairIsSome
<1>5. GetBundle(blob) =
        IF s = None \/ GetU64(s[2]) = None \/ q = None \/ t = None
          THEN None
          ELSE <<[name |-> s[1], hash |-> GetU64(s[2])[1], files |-> t[1]], t[2]>>
  BY DEF GetBundle, Then
<1> HIDE DEF s, q, t
<1> QED
  BY <1>1, <1>2, <1>3, <1>4, <1>5, PairIsSome DEF s

\* PutBundle is its four fields, one after another.
LEMMA PutBundleIs ==
  ASSUME NEW b \in Bundle
  PROVE  /\ PutStr(b.name) \in Digits /\ U64(b.hash) \in Digits
         /\ U32(Len(b.files)) \in Digits /\ PutFiles(b.files) \in Digits
         /\ PutBundle(b) =
              PutStr(b.name) \o U64(b.hash) \o U32(Len(b.files)) \o PutFiles(b.files)
<1>1. b.name \in Text /\ b.hash \in Wide /\ b.files \in FileList
  BY DEF Bundle
<1>2. Len(b.files) \in Digit /\ b.files \in Seq(BundleFile)
  BY <1>1 DEF FileList
<1> DEFINE s == PutStr(b.name)
           u == U64(b.hash)
           c == U32(Len(b.files))
           d == PutFiles(b.files)
           su == s \o u
<1>3. s \in Digits
  <2>1. <<>> \in Digits
    BY DEF Digits
  <2> QED
    BY <1>1, <2>1, StrBack
<1>4. u \in Digits /\ c \in Digits /\ d \in Digits
  BY <1>1, <1>2, U64Is, U32Is, PutFilesIs
<1>5. PutBundle(b) = su \o (c \o d)
  BY Zenon DEF PutBundle, Records, PutFiles
<1> HIDE DEF s, u, c, d
<1>6. su \in Digits
  BY <1>3, <1>4, Halves
<1> HIDE DEF su
<1>7. su \o (c \o d) = (su \o c) \o d
  BY <1>4, <1>6, Longer
<1>8. PutBundle(b) = (su \o c) \o d
  BY <1>5, <1>7
<1> QED
  BY <1>3, <1>4, <1>8, Zenon DEF s, u, c, d, su

LEMMA BundleBack ==
  ASSUME NEW b \in Bundle, NEW rest \in Digits
  PROVE  /\ PutBundle(b) \in Digits
         /\ GetBundle(PutBundle(b) \o rest) = IF SafeBundle(b) THEN <<b, rest>> ELSE None
<1>1. b.name \in Text /\ b.hash \in Wide /\ b.files \in FileList
  BY DEF Bundle
<1>2. b = [name |-> b.name, hash |-> b.hash, files |-> b.files]
  BY DEF Bundle
<1>3. Len(b.files) \in Digit
  BY <1>1 DEF FileList
<1> DEFINE s == PutStr(b.name)
           u == U64(b.hash)
           c == U32(Len(b.files))
           d == PutFiles(b.files)
<1>4. /\ s \in Digits /\ u \in Digits /\ c \in Digits /\ d \in Digits
      /\ PutBundle(b) = s \o u \o c \o d
  BY PutBundleIs
<1>5. \A r \in Digits : GetStr(s \o r) = <<b.name, r>>
  BY <1>1, StrBack
<1>6. \A r \in Digits : GetU64(u \o r) = <<b.hash, r>>
  BY <1>1, U64Back
<1>7. \A r \in Digits : GetU32(c \o r) = <<Len(b.files), r>>
  BY <1>3, U32Back
<1>8. GetMany(Len(b.files), GetFile, d \o rest) =
        IF SafeBundle(b) THEN <<b.files, rest>> ELSE None
  <2>1. GetMany(Len(b.files), GetFile, d \o rest) =
          IF \A i \in DOMAIN b.files : SafeFile(b.files[i]) THEN <<b.files, rest>> ELSE None
    BY <1>1, FilesBack
  <2> QED
    BY <2>1, Zenon DEF SafeBundle
<1> HIDE DEF s, u, c, d
<1> DEFINE all == PutBundle(b) \o rest
           r3 == d \o rest
           r2 == c \o r3
           r1 == u \o r2
<1>9. InFours(s, u, c, d, rest)
  BY <1>4, FourFields
<1>10. /\ PutBundle(b) \in Digits /\ all = s \o r1
       /\ r1 \in Digits /\ r2 \in Digits /\ r3 \in Digits
  BY <1>4, <1>9, Zenon DEF InFours
<1>11. GetStr(all) = <<b.name, r1>> /\ GetU64(r1) = <<b.hash, r2>>
       /\ GetU32(r2) = <<Len(b.files), r3>>
  BY <1>5, <1>6, <1>7, <1>10
<1> HIDE DEF all, r1, r2
<1>12. CASE SafeBundle(b)
  <2>1. GetMany(Len(b.files), GetFile, r3) = <<b.files, rest>>
    BY <1>8, <1>12
  <2> HIDE DEF r3
  <2>2. ReadsBundle(all, b.name, r1, b.hash, r2, Len(b.files), r3, b.files, rest)
    BY <1>11, <2>1 DEF ReadsBundle
  <2>3. GetBundle(all) = <<[name |-> b.name, hash |-> b.hash, files |-> b.files], rest>>
    BY <2>2, GetBundleIs
  <2>4. GetBundle(all) = <<b, rest>>
    BY <1>2, <2>3
  <2> QED
    BY <1>10, <1>12, <2>4 DEF all
<1>13. CASE ~SafeBundle(b)
  <2>1. GetMany(Len(b.files), GetFile, r3) = None
    BY <1>8, <1>13
  <2> HIDE DEF r3
  <2> DEFINE q == GetU32(GetU64(GetStr(all)[2])[2])
  <2>2. GetStr(all)[2] = r1 /\ GetU64(r1)[2] = r2
    BY <1>11
  <2>3. q = <<Len(b.files), r3>>
    BY <1>11, <2>2
  <2>4. GetMany(q[1], GetFile, q[2]) = None => GetBundle(all) = None
    BY DEF GetBundle, Then
  <2> HIDE DEF q
  <2>5. q[1] = Len(b.files) /\ q[2] = r3
    BY <2>3
  <2>6. GetMany(q[1], GetFile, q[2]) = None
    BY <2>1, <2>5, Zenon
  <2>7. GetBundle(all) = None
    BY <2>4, <2>6
  <2> QED
    BY <1>10, <1>13, <2>7 DEF all
<1> QED
  BY <1>12, <1>13

LEMMA BundleFrom ==
  ASSUME NEW blob \in Digits, GetBundle(blob) # None
  PROVE  \E b \in Bundle, rest \in Digits :
           GetBundle(blob) = <<b, rest>> /\ blob = PutBundle(b) \o rest /\ SafeBundle(b)
<1>1. GetStr(blob) # None
  BY DEF GetBundle, Then
<1>2. PICK name \in Text, r1 \in Digits :
        GetStr(blob) = <<name, r1>> /\ blob = PutStr(name) \o r1
  BY <1>1, StrFrom
<1>3. GetStr(blob)[2] = r1
  BY <1>2
<1>4. GetU64(r1) # None
  <2>1. GetU64(GetStr(blob)[2]) # None
    BY DEF GetBundle, Then
  <2> QED
    BY <1>3, <2>1
<1>5. PICK hash \in Wide, r2 \in Digits : GetU64(r1) = <<hash, r2>> /\ r1 = U64(hash) \o r2
  BY <1>4, U64From
<1>6. GetU64(r1)[2] = r2
  BY <1>5
<1>7. GetU32(r2) # None
  <2>1. GetU32(GetU64(GetStr(blob)[2])[2]) # None
    BY DEF GetBundle, Then
  <2> QED
    BY <1>3, <1>6, <2>1
<1>8. PICK n \in Digit, r3 \in Digits : GetU32(r2) = <<n, r3>> /\ r2 = U32(n) \o r3
  BY <1>7, U32From
<1>9. GetMany(n, GetFile, r3) # None
  <2> DEFINE q == GetU32(GetU64(GetStr(blob)[2])[2])
  <2>1. GetMany(q[1], GetFile, q[2]) # None
    BY DEF GetBundle, Then
  <2>2. q = <<n, r3>>
    BY <1>3, <1>6, <1>8
  <2> HIDE DEF q
  <2>3. q[1] = n /\ q[2] = r3
    BY <2>2
  <2> QED
    BY <2>1, <2>3, Zenon
<1>10. PICK files \in FileList, rest \in Digits :
         /\ GetMany(n, GetFile, r3) = <<files, rest>> /\ Len(files) = n
         /\ r3 = PutFiles(files) \o rest
         /\ \A i \in DOMAIN files : SafeFile(files[i])
  BY <1>9, FilesFrom
<1> DEFINE b == [name |-> name, hash |-> hash, files |-> files]
<1>11. b \in Bundle /\ SafeBundle(b)
  BY <1>10 DEF Bundle, SafeBundle
<1>12. GetBundle(blob) = <<b, rest>>
  <2>1. ReadsBundle(blob, name, r1, hash, r2, n, r3, files, rest)
    BY <1>2, <1>5, <1>8, <1>10 DEF ReadsBundle
  <2> QED
    BY <2>1, GetBundleIs
<1>13. blob = PutBundle(b) \o rest
  <2> DEFINE s == PutStr(name)
             u == U64(hash)
             c == U32(n)
             d == PutFiles(files)
  <2>1. /\ s \in Digits /\ u \in Digits /\ c \in Digits /\ d \in Digits
        /\ PutBundle(b) = s \o u \o c \o d
    <3>1. b.name = name /\ b.hash = hash /\ b.files = files /\ Len(b.files) = n
      BY <1>10
    <3> HIDE DEF b
    <3> QED
      BY <1>11, <3>1, PutBundleIs
  <2>2. blob = s \o (u \o (c \o (d \o rest)))
    BY <1>2, <1>5, <1>8, <1>10
  <2> HIDE DEF s, u, c, d, b
  <2>3. InFours(s, u, c, d, rest)
    BY <2>1, FourFields
  <2>4. (s \o u \o c \o d) \o rest = s \o (u \o (c \o (d \o rest)))
    BY <2>3, Zenon DEF InFours
  <2> QED
    BY <2>1, <2>2, <2>4
<1> HIDE DEF b
<1> QED
  BY <1>10, <1>11, <1>12, <1>13

-----------------------------------------------------------------------------
(* Bundles one after another                                               *)

GetBundleInto(read) ==
  Then(read, LAMBDA items, r1 :
    Then(GetBundle(r1), LAMBDA item, rest : <<Append(items, item), rest>>))

LEMMA GetManyBundles ==
  ASSUME NEW get \in [Digits -> Readings(Bundle)],
         \A b \in Digits : get[b] = GetBundle(b),
         NEW n \in Nat, NEW blob \in Digits
  PROVE  \E h : ReadsMany(h, get, n, blob) /\ GetMany(n, GetBundle, blob) = h[n]
<1> DEFINE A == Readings(Seq(Bundle))
           I == [i \in 1..n |-> i]
           f == CHOOSE g : g = [s \in SUBSET (DOMAIN I) |->
                  IF s = {} THEN <<<<>>, blob>> ELSE GetBundleInto(g[s \ {Max(s)}])]
<1>1. GetMany(n, GetBundle, blob) = f[DOMAIN I]
  BY Zenon DEF GetMany, FoldLeft, MapThenFoldSet, GetBundleInto
<1>2. DOMAIN I = 1..n
  OBVIOUS
<1>3. ASSUME NEW read \in A PROVE GetBundleInto(read) = NextRead(get, read)
  <2>1. CASE read = None
    BY <2>1 DEF GetBundleInto, NextRead, Then
  <2>2. CASE read # None
    <3>1. read[2] \in Digits
      BY <2>2 DEF Readings
    <3>2. get[read[2]] = GetBundle(read[2])
      BY <3>1
    <3>3. GetBundleInto(read) =
            IF GetBundle(read[2]) = None THEN None
            ELSE <<Append(read[1], GetBundle(read[2])[1]), GetBundle(read[2])[2]>>
      BY <2>2, Zenon DEF GetBundleInto, Then
    <3> QED
      BY <2>2, <3>2, <3>3 DEF NextRead
  <2> QED
    BY <2>1, <2>2
<1> HIDE DEF I, A
<1>4. \E g : g = [s \in SUBSET (DOMAIN I) |->
                  IF s = {} THEN <<<<>>, blob>> ELSE GetBundleInto(g[s \ {Max(s)}])]
  <2>1. PICK g \in [SUBSET (1..n) -> A] : FoldsReads(g, get, n, blob)
    BY FoldExists DEF A
  <2>2. ASSUME NEW s \in SUBSET (1..n), s # {}
        PROVE  g[s] = GetBundleInto(g[s \ {Max(s)}])
    <3>1. s \ {Max(s)} \in SUBSET (1..n)
      OBVIOUS
    <3>2. g[s \ {Max(s)}] \in A
      BY <3>1
    <3> QED
      BY <1>3, <2>1, <2>2, <3>2 DEF FoldsReads
  <2>3. \A s \in SUBSET (1..n) :
          g[s] = IF s = {} THEN <<<<>>, blob>> ELSE GetBundleInto(g[s \ {Max(s)}])
    BY <2>1, <2>2 DEF FoldsReads
  <2>4. g = [s \in SUBSET (1..n) |->
               IF s = {} THEN <<<<>>, blob>> ELSE GetBundleInto(g[s \ {Max(s)}])]
    BY <2>3
  <2> QED
    BY <1>2, <2>4
<1>5. f = [s \in SUBSET (1..n) |->
             IF s = {} THEN <<<<>>, blob>> ELSE GetBundleInto(f[s \ {Max(s)}])]
  BY <1>2, <1>4, Zenon
<1> HIDE DEF f
<1> DEFINE B == A \cup {f[s] : s \in SUBSET (1..n)}
           into == [read \in B |-> GetBundleInto(read)]
<1>6. IsNextRead(into, get, Bundle)
  BY <1>3 DEF IsNextRead, A
<1>7. ASSUME NEW s \in SUBSET (1..n)
      PROVE  f[s] = IF s = {} THEN <<<<>>, blob>> ELSE into[f[s \ {Max(s)}]]
  <2>1. s \ {Max(s)} \in SUBSET (1..n)
    OBVIOUS
  <2>2. f[s \ {Max(s)}] \in B
    BY <2>1
  <2>3. f[s] = IF s = {} THEN <<<<>>, blob>> ELSE GetBundleInto(f[s \ {Max(s)}])
    BY <1>5
  <2> HIDE DEF B
  <2> QED
    BY <2>2, <2>3
<1>10. FoldsInto(f, into, n, blob)
  BY <1>7 DEF FoldsInto
<1> HIDE DEF into, B
<1> DEFINE h == [i \in 0..n |-> f[1..i]]
<1>8. ReadsMany(h, get, n, blob)
  BY <1>6, <1>10, AfterEach
<1>9. h[n] = f[1..n]
  OBVIOUS
<1> QED
  BY <1>1, <1>2, <1>8, <1>9

BundlePut == [f \in Bundle |-> PutBundle(f)]
BundleGet == [b \in Digits |-> GetBundle(b)]
SafeBundles == {f \in Bundle : SafeBundle(f)}

LEMMA BundleFunctions ==
  /\ BundlePut \in [Bundle -> Digits]
  /\ BundleGet \in [Digits -> Readings(Bundle)]
  /\ SafeBundles \in SUBSET Bundle
  /\ GetsBack(BundleGet, BundlePut, Bundle, SafeBundles)
  /\ GetsFrom(BundleGet, BundlePut, SafeBundles)
<1>1. BundlePut \in [Bundle -> Digits]
  <2>1. <<>> \in Digits
    BY DEF Digits
  <2>2. \A f \in Bundle : PutBundle(f) \in Digits
    BY <2>1, BundleBack
  <2> QED
    BY <2>2 DEF BundlePut
<1>2. SafeBundles \in SUBSET Bundle
  BY DEF SafeBundles
<1>3. BundleGet \in [Digits -> Readings(Bundle)]
  <2> SUFFICES ASSUME NEW b \in Digits, GetBundle(b) # None
               PROVE  GetBundle(b) \in Bundle \X Digits
    BY DEF BundleGet, Readings
  <2> QED
    BY BundleFrom
<1>4. GetsBack(BundleGet, BundlePut, Bundle, SafeBundles)
  <2> SUFFICES ASSUME NEW f \in Bundle, NEW rest \in Digits
               PROVE  BundleGet[BundlePut[f] \o rest] =
                        IF f \in SafeBundles THEN <<f, rest>> ELSE None
    BY DEF GetsBack
  <2> DEFINE p == PutBundle(f)
             all == p \o rest
  <2>1. p \in Digits /\ GetBundle(all) = IF SafeBundle(f) THEN <<f, rest>> ELSE None
    BY BundleBack
  <2>2. BundlePut[f] = p
    BY DEF BundlePut
  <2> HIDE DEF p
  <2>3. all \in Digits
    BY <2>1, Halves
  <2> HIDE DEF all
  <2>4. BundleGet[all] = GetBundle(all)
    BY <2>3 DEF BundleGet
  <2>5. BundleGet[all] = IF f \in SafeBundles THEN <<f, rest>> ELSE None
    BY <2>1, <2>4 DEF SafeBundles
  <2> QED
    BY <2>2, <2>5 DEF all
<1>5. GetsFrom(BundleGet, BundlePut, SafeBundles)
  <2> SUFFICES ASSUME NEW blob \in Digits, BundleGet[blob] # None
               PROVE  \E x \in SafeBundles, rest \in Digits :
                        BundleGet[blob] = <<x, rest>> /\ blob = BundlePut[x] \o rest
    BY DEF GetsFrom
  <2>1. BundleGet[blob] = GetBundle(blob)
    BY DEF BundleGet
  <2>2. PICK f \in Bundle, rest \in Digits :
          GetBundle(blob) = <<f, rest>> /\ blob = PutBundle(f) \o rest /\ SafeBundle(f)
    BY <2>1, BundleFrom
  <2>3. f \in SafeBundles /\ BundlePut[f] = PutBundle(f)
    BY <2>2 DEF SafeBundles, BundlePut
  <2> QED
    BY <2>1, <2>2, <2>3
<1> QED
  BY <1>1, <1>2, <1>3, <1>4, <1>5

\* The bundles one after another.
PutBundleList(bundles) == FlattenSeq([i \in DOMAIN bundles |-> PutBundle(bundles[i])])

LEMMA PutBundleListIs ==
  ASSUME NEW bundles \in Seq(Bundle)
  PROVE  /\ PutBundleList(bundles) = FlattenSeq(Written(BundlePut, bundles))
         /\ PutBundleList(bundles) \in Digits
<1> DEFINE w == Written(BundlePut, bundles)
<1>1. \A i \in DOMAIN bundles : bundles[i] \in Bundle
  OBVIOUS
<1>2. w = [i \in DOMAIN bundles |-> PutBundle(bundles[i])]
  BY <1>1 DEF Written, BundlePut
<1>3. w \in Seq(Digits)
  BY <1>1, BundleFunctions DEF Written
<1> HIDE DEF w
<1>4. w \in Seq(Seq(Digit))
  BY <1>3 DEF Digits
<1>5. FlattenSeq(w) \in Digits
  BY <1>4, FlattenSeqType DEF Digits
<1>6. PutBundleList(bundles) = FlattenSeq(w)
  BY <1>2 DEF PutBundleList
<1> QED
  BY <1>5, <1>6 DEF w

LEMMA BundlesBack ==
  ASSUME NEW bundles \in BundleList, NEW rest \in Digits
  PROVE  GetMany(Len(bundles), GetBundle, PutBundleList(bundles) \o rest) =
           IF \A i \in DOMAIN bundles : SafeBundle(bundles[i])
             THEN <<bundles, rest>> ELSE None
<1> DEFINE n == Len(bundles)
           flat == FlattenSeq(Written(BundlePut, bundles))
           blob == flat \o rest
<1>1. bundles \in Seq(Bundle) /\ n \in Nat /\ DOMAIN bundles = 1..n
  BY DEF BundleList
<1>2. flat = PutBundleList(bundles) /\ flat \in Digits
  BY <1>1, PutBundleListIs
<1> HIDE DEF n
<1>3. blob \in Digits
  <2> HIDE DEF flat
  <2> QED
    BY <1>2, Halves
<1> HIDE DEF blob
<1>4. PICK h : ReadsMany(h, BundleGet, n, blob) /\ GetMany(n, GetBundle, blob) = h[n]
  <2>1. \A b \in Digits : BundleGet[b] = GetBundle(b)
    BY DEF BundleGet
  <2>2. BundleGet \in [Digits -> Readings(Bundle)]
    BY BundleFunctions
  <2> QED
    BY <1>1, <1>3, <2>1, <2>2, GetManyBundles
<1>5. ReadsMany(h, BundleGet, n, flat \o rest)
  BY <1>4 DEF blob
<1>6. h[n] = IF \A i \in 1..n : bundles[i] \in SafeBundles THEN <<bundles, rest>> ELSE None
  <2>1. Len(bundles) = n
    BY DEF n
  <2> QED
    BY <1>1, <1>5, <2>1, BundleFunctions, ManyBack
<1>7. (\A i \in 1..n : bundles[i] \in SafeBundles)
        <=> \A i \in DOMAIN bundles : SafeBundle(bundles[i])
  BY <1>1 DEF SafeBundles
<1> QED
  BY <1>2, <1>4, <1>6, <1>7 DEF blob, n

LEMMA BundlesFrom ==
  ASSUME NEW n \in Digit, NEW blob \in Digits, GetMany(n, GetBundle, blob) # None
  PROVE  \E bundles \in BundleList, rest \in Digits :
           /\ GetMany(n, GetBundle, blob) = <<bundles, rest>> /\ Len(bundles) = n
           /\ blob = PutBundleList(bundles) \o rest
           /\ \A i \in DOMAIN bundles : SafeBundle(bundles[i])
<1>1. n \in Nat
  BY BaseFacts DEF Digit
<1>2. PICK h : ReadsMany(h, BundleGet, n, blob) /\ GetMany(n, GetBundle, blob) = h[n]
  <2>1. \A b \in Digits : BundleGet[b] = GetBundle(b)
    BY DEF BundleGet
  <2>2. BundleGet \in [Digits -> Readings(Bundle)]
    BY BundleFunctions
  <2> QED
    BY <1>1, <2>1, <2>2, GetManyBundles
<1>3. PICK bundles \in Seq(SafeBundles), rest \in Digits :
        /\ h[n] = <<bundles, rest>> /\ Len(bundles) = n
        /\ blob = FlattenSeq(Written(BundlePut, bundles)) \o rest
  <2>1. ReadsMany(h, BundleGet, n, blob) /\ h[n] # None
    BY <1>2
  <2>2. WasWritten(h[n], BundlePut, SafeBundles, n, blob)
    BY <1>1, <2>1, BundleFunctions, ManyFrom
  <2> QED
    BY <2>2 DEF WasWritten
<1>4. bundles \in Seq(Bundle) /\ \A i \in DOMAIN bundles : SafeBundle(bundles[i])
  BY <1>3 DEF SafeBundles
<1>5. bundles \in BundleList
  BY <1>3, <1>4 DEF BundleList
<1>6. blob = PutBundleList(bundles) \o rest
  BY <1>3, <1>4, PutBundleListIs
<1> QED
  BY <1>2, <1>3, <1>4, <1>5, <1>6

-----------------------------------------------------------------------------
(* All the bundles of an executable                                        *)

LEMMA MagicIs ==
  /\ Magic \in Digits /\ Len(Magic) = 2
<1>1. 1 \in Digit /\ 3 \in Digit
  BY BaseIsEnough DEF Digit
<1> QED
  BY <1>1 DEF Magic, Digits

\* PutBundles is its three parts, and what follows them.
LEMMA PutBundlesIs ==
  ASSUME NEW bundles \in BundleList
  PROVE  /\ U32(Len(bundles)) \in Digits /\ PutBundleList(bundles) \in Digits
         /\ PutBundles(bundles) = Magic \o (U32(Len(bundles)) \o PutBundleList(bundles))
         /\ PutBundles(bundles) \in Digits
<1>1. bundles \in Seq(Bundle) /\ Len(bundles) \in Digit
  BY DEF BundleList
<1> DEFINE u == U32(Len(bundles))
           d == PutBundleList(bundles)
<1>2. u \in Digits /\ d \in Digits
  BY <1>1, U32Is, PutBundleListIs
<1>3. PutBundles(bundles) = (Magic \o u) \o d
  BY Zenon DEF PutBundles, PutBundleList
<1> HIDE DEF u, d
<1>4. (Magic \o u) \o d = Magic \o (u \o d)
  BY <1>2, MagicIs, Longer
<1>5. u \o d \in Digits
  BY <1>2, Halves
<1>6. Magic \o (u \o d) \in Digits
  BY <1>5, MagicIs, Halves
<1>7. PutBundles(bundles) = Magic \o (u \o d)
  BY <1>3, <1>4
<1> QED
  BY <1>2, <1>6, <1>7 DEF u, d

\* The magic number and the count have been read.
ReadsCount(blob, r1, n, r2) ==
  blob # <<>> /\ Take(blob, Len(Magic)) = <<Magic, r1>> /\ GetU32(r1) = <<n, r2>>

\* Nothing may follow what was read.
NothingAfter(read) ==
  IF read = None THEN None ELSE IF read[2] = <<>> THEN <<read[1]>> ELSE None

\* What Parse is then.
LEMMA ParseIs ==
  ASSUME NEW blob, NEW r1, NEW n, NEW r2, ReadsCount(blob, r1, n, r2)
  PROVE  Parse(blob) = NothingAfter(GetMany(n, GetBundle, r2))
<1> USE DEF ReadsCount
<1> DEFINE t == Take(blob, Len(Magic))
           q == GetU32(t[2])
<1>1. t # None /\ t[1] = Magic /\ t[2] = r1
  BY PairIsSome
<1>2. q # None /\ q[1] = n /\ q[2] = r2
  BY <1>1, PairIsSome
<1>3. Parse(blob) =
        IF t = None THEN None
        ELSE IF t[1] # Magic THEN None
        ELSE IF q = None THEN None
        ELSE NothingAfter(GetMany(q[1], GetBundle, q[2]))
  BY Zenon DEF Parse, Then, NothingAfter
<1> HIDE DEF t, q
<1>4. Parse(blob) = NothingAfter(GetMany(q[1], GetBundle, q[2]))
  BY <1>1, <1>2, <1>3, Zenon
<1> QED
  BY <1>2, <1>4, Zenon

\* Reading what was packed gives it back, as long as no path could leave its
\* directory, and nothing otherwise.
THEOREM ParseReadsPacked ==
  ASSUME NEW bundles \in BundleList
  PROVE  Parse(PutBundles(bundles)) =
           IF \A i \in DOMAIN bundles : SafeBundle(bundles[i]) THEN <<bundles>> ELSE None
<1> DEFINE u == U32(Len(bundles))
           d == PutBundleList(bundles)
           r1 == u \o d
           blob == PutBundles(bundles)
           n == Len(bundles)
<1>1. /\ u \in Digits /\ d \in Digits /\ blob \in Digits /\ blob = Magic \o r1
  BY PutBundlesIs
<1>2. n \in Digit
  BY DEF BundleList
<1>3. GetU32(r1) = <<n, d>>
  BY <1>1, <1>2, U32Back
<1>4. GetMany(n, GetBundle, d) =
        IF \A i \in DOMAIN bundles : SafeBundle(bundles[i]) THEN <<bundles, <<>>>> ELSE None
  <2>1. <<>> \in Digits /\ d \o <<>> = d
    <3> HIDE DEF d
    <3> QED
      BY <1>1 DEF Digits
  <2> DEFINE e == <<>>
  <2> HIDE DEF e
  <2>2. e \in Digits
    BY <2>1 DEF e
  <2>3. GetMany(Len(bundles), GetBundle, PutBundleList(bundles) \o e) =
          IF \A i \in DOMAIN bundles : SafeBundle(bundles[i]) THEN <<bundles, e>> ELSE None
    BY <2>2, BundlesBack
  <2> QED
    BY <2>1, <2>3 DEF e
<1> HIDE DEF u, d
<1>5. r1 \in Digits
  BY <1>1, Halves
<1> HIDE DEF r1, blob, n
<1>6. Take(blob, Len(Magic)) = <<Magic, r1>> /\ blob # <<>>
  <2>1. Take(blob, Len(Magic)) = <<Magic, r1>>
    BY <1>1, <1>5, MagicIs, TakeBack
  <2>2. Len(blob) = 2 + Len(r1) /\ Len(r1) \in Nat
    <3>1. Len(Magic \o r1) = Len(Magic) + Len(r1)
      BY <1>5, MagicIs, Halves
    <3>2. Len(r1) \in Nat
      BY <1>5 DEF Digits
    <3> QED
      BY <1>1, <3>1, <3>2, MagicIs
  <2>3. blob # <<>>
    BY <2>2
  <2> QED
    BY <2>1, <2>3
<1> DEFINE read == GetMany(n, GetBundle, d)
<1>7. Parse(blob) = NothingAfter(read)
  <2>1. ReadsCount(blob, r1, n, d)
    BY <1>3, <1>6 DEF ReadsCount
  <2> QED
    BY <2>1, ParseIs
<1> HIDE DEF read
<1>8. CASE \A i \in DOMAIN bundles : SafeBundle(bundles[i])
  <2>1. read = <<bundles, <<>>>>
    BY <1>4, <1>8 DEF read
  <2>2. read # None /\ read[1] = bundles /\ read[2] = <<>>
    BY <2>1, PairIsSome
  <2> QED
    BY <1>7, <1>8, <2>2 DEF blob, NothingAfter
<1>9. CASE ~ \A i \in DOMAIN bundles : SafeBundle(bundles[i])
  <2>1. read = None
    BY <1>4, <1>9 DEF read
  <2> QED
    BY <1>7, <1>9, <2>1 DEF blob, NothingAfter
<1> QED
  BY <1>8, <1>9

\* What can be read is what packing the result would write: nothing that is cut
\* short, and nothing with anything after it.
THEOREM ParseReadsOnlyPacked ==
  ASSUME NEW blob \in Digits, blob # <<>>, Parse(blob) # None
  PROVE  \E bundles \in BundleList :
           /\ Parse(blob) = <<bundles>> /\ blob = PutBundles(bundles)
           /\ \A i \in DOMAIN bundles : SafeBundle(bundles[i])
<1>1. Take(blob, Len(Magic)) # None
  BY DEF Parse, Then
<1>2. PICK a \in Digits, r1 \in Digits :
        Take(blob, Len(Magic)) = <<a, r1>> /\ Len(a) = Len(Magic) /\ blob = a \o r1
  <2>1. Len(Magic) \in Nat
    BY MagicIs
  <2> QED
    BY <1>1, <2>1, TakeFrom
<1>3. a = Magic /\ GetU32(r1) # None
  <2> DEFINE t == Take(blob, Len(Magic))
  <2>1. t[1] = Magic /\ GetU32(t[2]) # None
    BY Zenon DEF Parse, Then
  <2>2. t = <<a, r1>>
    BY <1>2
  <2> HIDE DEF t
  <2>3. t[1] = a /\ t[2] = r1
    BY <2>2
  <2> QED
    BY <2>1, <2>3
<1>4. PICK n \in Digit, r2 \in Digits : GetU32(r1) = <<n, r2>> /\ r1 = U32(n) \o r2
  BY <1>3, U32From
<1> DEFINE read == GetMany(n, GetBundle, r2)
<1>5. Parse(blob) = NothingAfter(read)
  <2>1. ReadsCount(blob, r1, n, r2)
    BY <1>2, <1>3, <1>4 DEF ReadsCount
  <2> QED
    BY <2>1, ParseIs
<1> HIDE DEF read
<1>6. read # None /\ read[2] = <<>> /\ Parse(blob) = <<read[1]>>
  BY <1>5 DEF NothingAfter
<1>7. PICK bundles \in BundleList, rest \in Digits :
        /\ read = <<bundles, rest>> /\ Len(bundles) = n
        /\ r2 = PutBundleList(bundles) \o rest
        /\ \A i \in DOMAIN bundles : SafeBundle(bundles[i])
  BY <1>6, BundlesFrom DEF read
<1>8. rest = <<>> /\ Parse(blob) = <<bundles>>
  BY <1>6, <1>7
<1>9. blob = PutBundles(bundles)
  <2> DEFINE u == U32(n)
             d == PutBundleList(bundles)
  <2>1. u \in Digits /\ d \in Digits /\ PutBundles(bundles) = Magic \o (u \o d)
    BY <1>7, PutBundlesIs
  <2> HIDE DEF d
  <2>2. r2 = d
    <3>1. d \o <<>> = d
      BY <2>1 DEF Digits
    <3> QED
      BY <1>7, <1>8, <3>1 DEF d
  <2> QED
    BY <1>2, <1>3, <1>4, <2>1, <2>2
<1> QED
  BY <1>7, <1>8, <1>9
=============================================================================
