---------------------------- MODULE BundleFormat ----------------------------
(***************************************************************************)
(* The format bundles travel in inside an executable, calc-builtins/src/   *)
(* bundle_format.rs: `pack`, `parse`, and the paths `parse` accepts.       *)
(*                                                                         *)
(* A blob is a sequence of digits below Base.  A digit stands for a u32 or *)
(* for a byte, two digits, the low one first, for a u64; so a number too   *)
(* big for its field is cut as the code's `as u32` cuts it.                *)
(***************************************************************************)
EXTENDS Naturals, SequencesExt

CONSTANTS Base,        \* what a digit is below
          Hash(_)      \* fnv1a64

\* There are digits enough for the magic number.
ASSUME BaseIsEnough == Base \in Nat /\ Base > 3

Slash == 0
Dot == 1
Special == 2           \* a backslash or a colon
NotText == Base - 1    \* a byte that is not UTF-8

Magic == <<3, 1>>

-----------------------------------------------------------------------------
(* What the fields can hold, without being cut; BundleFile and Bundle.     *)

Digit == 0..(Base - 1)
Digits == Seq(Digit)
Wide == 0..(Base * Base - 1)

Text == {s \in Digits : Len(s) \in Digit /\ NotText \notin Range(s)}
BundleFile == [path : Text, mode : Digit, bytes : {s \in Digits : Len(s) \in Wide}]
FileList == {fs \in Seq(BundleFile) : Len(fs) \in Digit}
Bundle == [name : Text, hash : Wide, files : FileList]
BundleList == {bs \in Seq(Bundle) : Len(bs) \in Digit}

-----------------------------------------------------------------------------
(* Numbers                                                                 *)

U32(n) == <<n % Base>>

\* A mutant: a length cut to 32 bits on its way to 64.
U64AsU32(n) == <<n % Base, 0>>

U64(n) == <<n % Base, (n \div Base) % Base>>

-----------------------------------------------------------------------------
(* pack                                                                    *)

PutStr(s) == U32(Len(s)) \o s

PutFile(f) == PutStr(f.path) \o U32(f.mode) \o U64(Len(f.bytes)) \o f.bytes

Records(files) == U32(Len(files)) \o FlattenSeq([i \in DOMAIN files |-> PutFile(files[i])])

\* A bundle with this hash.
PutBundle(b) == PutStr(b.name) \o U64(b.hash) \o Records(b.files)

Hashed(b) == [name |-> b.name, hash |-> Hash(Records(b.files)), files |-> b.files]

PutBundles(bundles) ==
  Magic \o U32(Len(bundles)) \o FlattenSeq([i \in DOMAIN bundles |-> PutBundle(bundles[i])])

Pack(bundles) == PutBundles([i \in DOMAIN bundles |-> Hashed(bundles[i])])

-----------------------------------------------------------------------------
(* parse.  Reading gives <<>>, which is None, or <<what was read, the rest>>. *)

None == <<>>

\* `?`
Then(read, Go(_, _)) == IF read = None THEN None ELSE Go(read[1], read[2])

Take(blob, n) ==
  IF Len(blob) < n THEN None ELSE <<SubSeq(blob, 1, n), SubSeq(blob, n + 1, Len(blob))>>

GetU32(blob) == Then(Take(blob, 1), LAMBDA d, rest : <<d[1], rest>>)
GetU64(blob) == Then(Take(blob, 2), LAMBDA d, rest : <<d[1] + Base * d[2], rest>>)

GetStr(blob) ==
  Then(GetU32(blob), LAMBDA n, chars :
    Then(Take(chars, n), LAMBDA s, rest : IF NotText \in Range(s) THEN None ELSE <<s, rest>>))

\* The parts of a path between its slashes.
Parts(path) ==
  LET cuts == {0, Len(path) + 1} \cup {i \in DOMAIN path : path[i] = Slash}
      ends(i) == {j \in cuts : i < j /\ \A k \in cuts : k <= i \/ k >= j}
  IN  UNION {{SubSeq(path, i + 1, j - 1) : j \in ends(i)} : i \in cuts}

\* A mutant: a path that only begins in its directory.
IsSafeRelativePathAtStart(path) ==
  /\ path # <<>> /\ Special \notin Range(path)
  /\ path[1] \notin {Slash, Dot}

IsSafeRelativePath(path) ==
  /\ path # <<>> /\ Special \notin Range(path)
  /\ Parts(path) \cap {<<>>, <<Dot>>, <<Dot, Dot>>} = {}

GetFile(blob) ==
  Then(GetStr(blob), LAMBDA path, r1 :
    IF ~IsSafeRelativePath(path) THEN None ELSE
    Then(GetU32(r1), LAMBDA mode, r2 :
    Then(GetU64(r2), LAMBDA n, r3 :
    Then(Take(r3, n), LAMBDA bytes, rest :
      <<[path |-> path, mode |-> mode, bytes |-> bytes], rest>>))))

\* n things, each read by Get.
GetMany(n, Get(_), blob) ==
  FoldLeft(LAMBDA read, i : Then(read, LAMBDA items, r1 :
             Then(Get(r1), LAMBDA item, rest : <<Append(items, item), rest>>)),
           <<<<>>, blob>>, [i \in 1..n |-> i])

GetBundle(blob) ==
  Then(GetStr(blob), LAMBDA name, r1 :
  Then(GetU64(r1), LAMBDA hash, r2 :
  Then(GetU32(r2), LAMBDA n, r3 :
  Then(GetMany(n, GetFile, r3), LAMBDA files, rest :
    <<[name |-> name, hash |-> hash, files |-> files], rest>>))))

\* A mutant: what follows the last bundle is not looked at.
ParseStart(blob) ==
  IF blob = <<>> THEN <<<<>>>> ELSE
  Then(Take(blob, Len(Magic)), LAMBDA magic, r1 :
    IF magic # Magic THEN None ELSE
    Then(GetU32(r1), LAMBDA n, r2 :
    Then(GetMany(n, GetBundle, r2), LAMBDA bundles, rest : <<bundles>>)))

\* None, or <<the bundles>>.
Parse(blob) ==
  IF blob = <<>> THEN <<<<>>>> ELSE
  Then(Take(blob, Len(Magic)), LAMBDA magic, r1 :
    IF magic # Magic THEN None ELSE
    Then(GetU32(r1), LAMBDA n, r2 :
    Then(GetMany(n, GetBundle, r2), LAMBDA bundles, rest :
      IF rest = <<>> THEN <<bundles>> ELSE None)))
=============================================================================
