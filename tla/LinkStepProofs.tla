--------------------------- MODULE LinkStepProofs ---------------------------
(***************************************************************************)
(* Theorems about LinkStep for any builds, output paths and faults: a      *)
(* build that was never at work beside another of its stem reports success *)
(* only with the program linked from its own two files, keeps those files  *)
(* when asked to, and no build leaves them behind unless a write or a      *)
(* removal failed or it was killed.                                        *)
(***************************************************************************)
EXTENDS LinkStep, SequenceTheorems, TLAPS

-----------------------------------------------------------------------------
(* The inductive invariant.                                                *)

\* The guards a build still has to drop: those of its two files, in the orders
\* `build` and `link_executable` leave them in.
DropOrders(b) == {<<>>, <<ObjectPath(b)>>, <<BundlesPath(b)>>,
                  <<BundlesPath(b), ObjectPath(b)>>, <<ObjectPath(b), BundlesPath(b)>>}

\* What a linker has read once it read one file, and both.
One == {<<o>> : o \in Content}
Two == {<<o, l>> : o, l \in Content}

\* The types, with what the linker has read and what is left to drop at each
\* place of the program.
Types ==
  /\ pc \in [Build -> PC]
  /\ files \in [Path -> Content]
  /\ read \in [Build -> {<<>>} \cup One \cup Two]
  /\ DOMAIN drops = Build
  /\ outcome \in [Build -> {"ok", "err"}]
  /\ met \subseteq Build /\ stuck \subseteq Path
  /\ \A b \in Build :
       /\ pc[b] = "readBundles" => read[b] \in One
       /\ pc[b] = "write" => read[b] \in Two
       /\ drops[b] \in DropOrders(b)
       /\ pc[b] \notin {"drop", "dead"} => drops[b] = <<>>

\* A build that never met another of its stem is alone with it while it works.
Alone ==
  \A b \in Build \ met : \A c \in Build \ {b} :
    Active(b) /\ Active(c) => StemOf[c] # StemOf[b]

\* What a build has put in its files, and its linker has read there, so far.
OwnSoFar(b) ==
  /\ pc[b] \in {"bundles", "bundlesBytes", "spawn", "readObject", "readBundles", "write"}
       => files[ObjectPath(b)] = Object(b)
  /\ pc[b] \in {"spawn", "readObject", "readBundles", "write"}
       => files[BundlesPath(b)] = Bundles(b)
  /\ pc[b] \in {"readBundles", "write"} => read[b][1] = Object(b)
  /\ pc[b] = "write" => read[b][2] = Bundles(b)

\* What is there once the link succeeded, until the build is over.
OwnAtTheEnd(b) ==
  pc[b] = "drop" /\ outcome[b] = "ok" =>
    /\ files[Output(b)] = Program(b, b)
    /\ Output(b) \notin {ObjectPath(b), BundlesPath(b)}
    /\ b \in Keep => /\ drops[b] = <<>>
                     /\ files[ObjectPath(b)] = Object(b)
                     /\ files[BundlesPath(b)] = Bundles(b)

Own == \A b \in Build \ met : OwnSoFar(b) /\ OwnAtTheEnd(b)

\* The build wrote this file and has still to remove it, or never will: it
\* keeps it, or was killed.
Answers(c, path) ==
  \/ /\ path = ObjectPath(c)
     /\ pc[c] \in {"objectBytes", "bundles", "bundlesBytes", "spawn", "readObject",
                   "readBundles", "write"}
  \/ /\ path = BundlesPath(c)
     /\ pc[c] \in {"bundlesBytes", "spawn", "readObject", "readBundles", "write"}
  \/ /\ pc[c] = "drop"
     /\ \E i \in DOMAIN drops[c] : drops[c][i] = path
  \/ /\ path \in {ObjectPath(c), BundlesPath(c)}
     /\ pc[c] = "dead" \/ (c \in Keep /\ pc[c] # "idle")

\* Some build answers for each file that is there, but those a failure left.
Answered ==
  \A b \in Build : \A path \in {ObjectPath(b), BundlesPath(b)} :
    files[path] = Nothing \/ path \in stuck \/ \E c \in Build : Answers(c, path)

IInv == Types /\ Alone /\ Own /\ Answered

\* The actions of one build.
Step(b) ==
  \/ Start(b) \/ FrontEnd(b)
  \/ OpenObject(b) \/ FillObject(b) \/ OpenBundles(b) \/ FillBundles(b)
  \/ SpawnLinker(b) \/ LinkerReadsObject(b) \/ LinkerReadsBundles(b)
  \/ LinkerWrites(b) \/ Drop(b) \/ Exit(b) \/ WriteFails(b) \/ Crash(b)

-----------------------------------------------------------------------------
(* Paths and contents.                                                     *)

\* The three paths of a build differ from those of any build of another stem,
\* and its two object files from each other.
LEMMA PathsOfABuild ==
  ASSUME NEW b \in Build
  PROVE  /\ StemOf[b] \in Stem
         /\ {Output(b), ObjectPath(b), BundlesPath(b)} \subseteq Path
         /\ \A path \in {Output(b), ObjectPath(b), BundlesPath(b)} : path[1] = StemOf[b]
         /\ ObjectPath(b) # BundlesPath(b)
BY LinkConstants DEF Output, ObjectPath, BundlesPath, Path

\* The object files of two builds have the same path only if the builds have
\* the same stem, and then no program of either is linked onto them.
LEMMA ObjectFilesOfTwo ==
  ASSUME NEW b \in Build, NEW c \in Build
  PROVE  /\ ObjectPath(b) # BundlesPath(c)
         /\ \A path \in {ObjectPath(c), BundlesPath(c)} :
              path[1] = StemOf[b] => path \in {ObjectPath(b), BundlesPath(b)}
BY LinkConstants DEF ObjectPath, BundlesPath

\* A file that links as an object is some build's object file, and the same for
\* bundles; so a program linked from two files is content.
LEMMA LinkedContent ==
  ASSUME NEW o \in Content, NEW l \in Content, o[1] = "object", l[1] = "bundles"
  PROVE  Program(o[2], l[2]) \in Content
<1>1. \E c \in Build : o = Object(c)
  BY DEF Content, Nothing, Torn, Object, Bundles, Program
<1>2. \E c \in Build : l = Bundles(c)
  BY DEF Content, Nothing, Torn, Object, Bundles, Program
<1> QED
  BY <1>1, <1>2 DEF Content, Object, Bundles

\* The second file read comes after the first.
LEMMA SecondRead ==
  ASSUME NEW S, NEW o \in S, NEW l \in S
  PROVE  Append(<<o>>, l) = <<o, l>>
<1>1. <<o>> \in Seq(S) /\ Len(<<o>>) = 1 /\ <<o, l>> \in Seq(S) /\ Len(<<o, l>>) = 2
  OBVIOUS
<1>2. Append(<<o>>, l) \in Seq(S) /\ Len(Append(<<o>>, l)) = 2
  BY <1>1
<1>3. Append(<<o>>, l)[1] = o /\ Append(<<o>>, l)[2] = l
  BY <1>1
<1> DEFINE both == Append(<<o>>, l)
           pair == <<o, l>>
<1>4. both \in Seq(S) /\ pair \in Seq(S) /\ Len(both) = 2 /\ Len(pair) = 2
  BY <1>1, <1>2
<1>5. \A i \in 1 .. 2 : both[i] = pair[i]
  BY <1>3
<1> HIDE DEF both, pair
<1>6. both = pair
  BY <1>4, <1>5, SeqEqual
<1> QED
  BY <1>6 DEF both, pair

-----------------------------------------------------------------------------
(* What the helpers of the actions do.                                     *)

\* Replacing one file replaces that one and no other.
LEMMA PutEffect ==
  ASSUME Types, NEW path \in Path, NEW content \in Content, Put(path, content)
  PROVE  /\ files' \in [Path -> Content]
         /\ \A q \in Path : files'[q] = IF q = path THEN content ELSE files[q]
BY DEF Types, Put

\* A build that goes somewhere leaves the others where they are.
LEMMA GotoEffect ==
  ASSUME Types, NEW b \in Build, NEW label \in PC, Goto(b, label)
  PROVE  /\ pc' \in [Build -> PC]
         /\ \A c \in Build : pc'[c] = IF c = b THEN label ELSE pc[c]
BY DEF Types, Goto

\* The orders the program leaves guards in.
LEMMA Orders ==
  ASSUME NEW b \in Build
  PROVE  {<<>>, <<ObjectPath(b)>>, <<BundlesPath(b), ObjectPath(b)>>,
          <<ObjectPath(b), BundlesPath(b)>>} \subseteq DropOrders(b)
BY DEF DropOrders

\* The guard that drops next is that of one of the build's two files, and the
\* others drop after it.
LEMMA NextDrop ==
  ASSUME NEW b \in Build, NEW order \in DropOrders(b), order # <<>>
  PROVE  /\ Head(order) \in {ObjectPath(b), BundlesPath(b)}
         /\ Tail(order) \in DropOrders(b)
         /\ \A i \in DOMAIN order :
              order[i] = Head(order) \/ \E k \in DOMAIN Tail(order) : Tail(order)[k] = order[i]
<1> DEFINE Claim(q) ==
      /\ Head(q) \in {ObjectPath(b), BundlesPath(b)}
      /\ Tail(q) \in DropOrders(b)
      /\ \A i \in DOMAIN q : q[i] = Head(q) \/ \E k \in DOMAIN Tail(q) : Tail(q)[k] = q[i]
<1>1. ASSUME NEW o, NEW l PROVE Head(<<o, l>>) = o /\ Tail(<<o, l>>) = <<l>>
  OBVIOUS
<1>2. ASSUME NEW o PROVE Head(<<o>>) = o /\ Tail(<<o>>) = <<>>
  OBVIOUS
<1>3. ASSUME NEW o \in {ObjectPath(b), BundlesPath(b)} PROVE Claim(<<o>>)
  <2>1. \A i \in DOMAIN <<o>> : <<o>>[i] = o
    OBVIOUS
  <2> QED
    BY <1>2, <2>1 DEF DropOrders
<1>4. ASSUME NEW o \in {ObjectPath(b), BundlesPath(b)}, NEW l \in {ObjectPath(b), BundlesPath(b)}
      PROVE  Claim(<<o, l>>)
  <2>1. \A i \in DOMAIN <<o, l>> : <<o, l>>[i] = o \/ <<o, l>>[i] = <<l>>[1]
    OBVIOUS
  <2>2. 1 \in DOMAIN <<l>>
    OBVIOUS
  <2> QED
    BY <1>1, <2>1, <2>2 DEF DropOrders
<1> HIDE DEF Claim
<1>5. Claim(order)
  BY <1>3, <1>4 DEF DropOrders
<1> QED
  BY <1>5 DEF Claim

\* A build on its way out has the guards it was given, or none if it keeps its
\* files, and the exit it is headed for.
LEMMA LeaveEffect ==
  ASSUME Types, NEW b \in Build, NEW paths \in DropOrders(b), NEW how \in {"ok", "err"},
         Leave(b, paths, how)
  PROVE  /\ pc' \in [Build -> PC]
         /\ \A c \in Build : pc'[c] = IF c = b THEN "drop" ELSE pc[c]
         /\ DOMAIN drops' = Build
         /\ \A c \in Build : drops'[c] = IF c = b THEN IF b \in Keep THEN <<>> ELSE paths
                                         ELSE drops[c]
         /\ drops'[b] \in DropOrders(b)
         /\ outcome' \in [Build -> {"ok", "err"}]
         /\ \A c \in Build : outcome'[c] = IF c = b THEN how ELSE outcome[c]
<1>1. "drop" \in PC /\ <<>> \in DropOrders(b)
  BY Orders DEF PC
<1> QED
  BY <1>1, GotoEffect DEF Types, Leave

-----------------------------------------------------------------------------
(* The types.                                                              *)

\* A build that moves on with nothing to drop keeps the types.
LEMMA GotoTypes ==
  ASSUME Types, NEW b \in Build, NEW label \in PC, Goto(b, label),
         pc[b] \notin {"drop", "dead"} \/ drops[b] = <<>> \/ label = "dead",
         files' \in [Path -> Content], read' = read,
         label = "readBundles" => read[b] \in One,
         label = "write" => read[b] \in Two,
         met' \subseteq Build, stuck' \subseteq Path,
         UNCHANGED <<drops, outcome>>
  PROVE  Types'
<1>1. \A c \in Build : pc'[c] = IF c = b THEN label ELSE pc[c]
  BY GotoEffect
<1>2. pc' \in [Build -> PC]
  BY GotoEffect
<1> QED
  BY <1>1, <1>2 DEF Types, DropOrders, ObjectPath, BundlesPath, One, Two, Content

\* So does one whose linker has read as much as it should have there.
LEMMA ReadTypes ==
  ASSUME Types, NEW b \in Build, NEW label \in {"readBundles", "write"}, Goto(b, label),
         pc[b] \notin {"drop", "dead"},
         read' \in [Build -> {<<>>} \cup One \cup Two],
         read'[b] \in IF label = "write" THEN Two ELSE One,
         \A c \in Build \ {b} : read'[c] = read[c],
         UNCHANGED <<files, drops, outcome, met, stuck>>
  PROVE  Types'
<1>1. pc' \in [Build -> PC] /\ \A c \in Build : pc'[c] = IF c = b THEN label ELSE pc[c]
  BY GotoEffect DEF PC
<1>2. \A c \in Build : /\ pc'[c] = "readBundles" => read'[c] \in One
                       /\ pc'[c] = "write" => read'[c] \in Two
  BY <1>1 DEF Types
<1>3. \A c \in Build : /\ drops'[c] \in DropOrders(c)
                       /\ pc'[c] \notin {"drop", "dead"} => drops'[c] = <<>>
  BY <1>1 DEF Types
<1> QED
  BY SMTT(30), <1>1, <1>2, <1>3 DEF Types, DropOrders, ObjectPath, BundlesPath, One, Two, Content

\* So does a build that leaves.
LEMMA LeaveTypes ==
  ASSUME Types, NEW b \in Build, NEW paths \in DropOrders(b), NEW how \in {"ok", "err"},
         Leave(b, paths, how),
         files' \in [Path -> Content], stuck' \subseteq Path, UNCHANGED <<read, met>>
  PROVE  Types'
<1>1. /\ \A c \in Build : pc'[c] = IF c = b THEN "drop" ELSE pc[c]
      /\ \A c \in Build \ {b} : drops'[c] = drops[c]
      /\ drops'[b] \in DropOrders(b)
  BY LeaveEffect
<1>2. pc' \in [Build -> PC] /\ outcome' \in [Build -> {"ok", "err"}] /\ DOMAIN drops' = Build
  BY LeaveEffect
<1>3. ASSUME NEW c \in Build
      PROVE  /\ pc'[c] = "readBundles" => read'[c] \in One
             /\ pc'[c] = "write" => read'[c] \in Two
             /\ drops'[c] \in DropOrders(c)
             /\ pc'[c] \notin {"drop", "dead"} => drops'[c] = <<>>
  BY <1>1, <1>3 DEF Types
<1> QED
  BY SMTT(30), <1>2, <1>3 DEF Types, DropOrders, ObjectPath, BundlesPath, One, Two, Content

\* No action puts anything but content in a path, or moves a build elsewhere
\* than the program goes.
LEMMA TypesKept ==
  ASSUME Types, NEW b \in Build, Step(b)
  PROVE  Types'
<1>1. CASE Start(b)
  BY <1>1, GotoTypes DEF Start, Types, PC
<1>2. CASE FrontEnd(b)
  BY <1>2, GotoTypes, LeaveTypes, Orders DEF FrontEnd, Types, PC, history
<1>3. CASE OpenObject(b)
  <2>1. files' \in [Path -> Content]
    BY <1>3, PathsOfABuild, PutEffect DEF OpenObject, Content
  <2> QED
    BY <1>3, <2>1, GotoTypes DEF OpenObject, Types, PC, history
<1>4. CASE FillObject(b)
  <2>1. files' \in [Path -> Content]
    BY <1>4, PathsOfABuild, PutEffect DEF FillObject, Content
  <2> QED
    BY <1>4, <2>1, GotoTypes DEF FillObject, Types, PC, history
<1>5. CASE OpenBundles(b)
  <2>1. CASE Leave(b, <<ObjectPath(b)>>, "err") /\ UNCHANGED files
    BY <1>5, <2>1, LeaveTypes, Orders DEF OpenBundles, Types, history
  <2>2. CASE Put(BundlesPath(b), Torn) /\ Goto(b, "bundlesBytes") /\ UNCHANGED <<drops, outcome>>
    <3>1. files' \in [Path -> Content]
      BY <2>2, PathsOfABuild, PutEffect DEF Content
    <3> QED
      BY <1>5, <2>2, <3>1, GotoTypes DEF OpenBundles, Types, PC, history
  <2> QED
    BY <1>5, <2>1, <2>2 DEF OpenBundles
<1>6. CASE FillBundles(b)
  <2>1. files' \in [Path -> Content]
    BY <1>6, PathsOfABuild, PutEffect DEF FillBundles, Content
  <2> QED
    BY <1>6, <2>1, GotoTypes DEF FillBundles, Types, PC, history
<1>7. CASE SpawnLinker(b)
  BY <1>7, GotoTypes, LeaveTypes, Orders DEF SpawnLinker, Types, PC, history
<1>8. CASE LinkerReadsObject(b)
  <2> DEFINE one == <<files[ObjectPath(b)]>>
  <2>1. one \in One
    BY PathsOfABuild DEF Types, One
  <2>2. read' = [read EXCEPT ![b] = one] /\ Goto(b, "readBundles")
    BY <1>8 DEF LinkerReadsObject
  <2> HIDE DEF one
  <2>3. read' \in [Build -> {<<>>} \cup One \cup Two] /\ read'[b] \in One
    BY <2>1, <2>2 DEF Types
  <2>4. \A c \in Build \ {b} : read'[c] = read[c]
    BY <2>2 DEF Types
  <2> QED
    BY <1>8, <2>2, <2>3, <2>4, ReadTypes DEF LinkerReadsObject, history
<1>9. CASE LinkerReadsBundles(b)
  <2> DEFINE both == Append(read[b], files[BundlesPath(b)])
  <2>1. files[BundlesPath(b)] \in Content /\ read[b] \in One
    BY <1>9, PathsOfABuild DEF Types, LinkerReadsBundles
  <2>2. both \in Two
    <3>1. PICK o \in Content : read[b] = <<o>>
      BY <2>1 DEF One
    <3> QED
      BY <2>1, <3>1, SecondRead DEF Two
  <2>3. read' = [read EXCEPT ![b] = both] /\ Goto(b, "write")
    BY <1>9 DEF LinkerReadsBundles
  <2> HIDE DEF both
  <2>4. read' \in [Build -> {<<>>} \cup One \cup Two] /\ read'[b] \in Two
    BY <2>2, <2>3 DEF Types
  <2>5. \A c \in Build \ {b} : read'[c] = read[c]
    BY <2>3 DEF Types
  <2> QED
    BY <1>9, <2>3, <2>4, <2>5, ReadTypes DEF LinkerReadsBundles, history
<1>10. CASE LinkerWrites(b)
  <2>1. files' \in [Path -> Content]
    <3>1. CASE Linkable(b) /\ Put(Output(b), Program(read[b][1][2], read[b][2][2]))
      <4>1. read[b][1] \in Content /\ read[b][2] \in Content
        BY <1>10 DEF LinkerWrites, Types, Two
      <4>2. Program(read[b][1][2], read[b][2][2]) \in Content
        BY <3>1, <4>1, LinkedContent DEF Linkable
      <4> QED
        BY <3>1, <4>2, PathsOfABuild, PutEffect
    <3>2. CASE UNCHANGED files
      BY <3>2 DEF Types
    <3> QED
      BY <1>10, <3>1, <3>2 DEF LinkerWrites
  <2>2. PICK how \in {"ok", "err"} : Leave(b, <<ObjectPath(b), BundlesPath(b)>>, how)
    BY <1>10 DEF LinkerWrites
  <2> QED
    BY <1>10, <2>1, <2>2, LeaveTypes, Orders DEF LinkerWrites, Types, history
<1>11. CASE Drop(b)
  <2>1. Head(drops[b]) \in Path /\ Tail(drops[b]) \in DropOrders(b)
    BY <1>11, PathsOfABuild, NextDrop DEF Drop, Types
  <2>2. files' \in [Path -> Content] /\ stuck' \subseteq Path
    <3>1. CASE Put(Head(drops[b]), Nothing) /\ stuck' = stuck \ {Head(drops[b])}
      <4>1. Nothing \in Content
        BY DEF Content
      <4> QED
        BY <2>1, <3>1, <4>1, PutEffect DEF Types
    <3>2. CASE UNCHANGED files /\ stuck' = stuck \cup {Head(drops[b])}
      BY <2>1, <3>2 DEF Types
    <3> QED
      BY <1>11, <3>1, <3>2 DEF Drop
  <2>3. DOMAIN drops' = Build /\ \A c \in Build : drops'[c] \in DropOrders(c)
    BY <1>11, <2>1 DEF Drop, Types
  <2>4. \A c \in Build : pc'[c] \notin {"drop", "dead"} => drops'[c] = <<>>
    BY <1>11 DEF Drop, Types
  <2>5. UNCHANGED <<pc, read, outcome, met>>
    BY <1>11 DEF Drop
  <2>6. \A c \in Build : /\ pc'[c] = "readBundles" => read'[c] \in One
                         /\ pc'[c] = "write" => read'[c] \in Two
    BY <2>5 DEF Types
  <2> QED
    BY <2>2, <2>3, <2>4, <2>5, <2>6
    DEF Types, DropOrders, ObjectPath, BundlesPath, One, Two, Content
<1>12. CASE Exit(b)
  BY <1>12, GotoTypes DEF Exit, Types, PC, Over, history
<1>13. CASE WriteFails(b)
  <2>1. PICK paths \in {<<>>, <<ObjectPath(b)>>} : Leave(b, paths, "err")
    BY <1>13 DEF WriteFails
  <2>2. stuck' \subseteq Path
    BY <1>13, PathsOfABuild DEF WriteFails, Types
  <2> QED
    BY <1>13, <2>1, <2>2, LeaveTypes, Orders DEF WriteFails, Types
<1>14. CASE Crash(b)
  BY <1>14, GotoTypes DEF Crash, Types, PC, Over, Active, history
<1> QED
  BY <1>1, <1>2, <1>3, <1>4, <1>5, <1>6, <1>7, <1>8, <1>9, <1>10, <1>11, <1>12, <1>13, <1>14
  DEF Step

-----------------------------------------------------------------------------
(* Builds that are alone.                                                  *)

\* What a build does leaves the others where they are, and the files of other
\* stems as they are.
LEMMA OthersStay ==
  ASSUME Types, NEW b \in Build, Step(b)
  PROVE  /\ \A c \in Build \ {b} : /\ pc'[c] = pc[c] /\ read'[c] = read[c]
                                   /\ drops'[c] = drops[c] /\ outcome'[c] = outcome[c]
         /\ \A path \in Path : path[1] # StemOf[b] =>
              files'[path] = files[path] /\ (path \in stuck => path \in stuck')
         /\ met' # met => Start(b)
         /\ pc[b] \in {"idle"} \cup Over => pc'[b] \in {"idle"} \cup Over \/ Start(b)
<1> USE DEF Types
<1>1. CASE Start(b)
  BY <1>1 DEF Start, Goto
<1>2. CASE FrontEnd(b)
  BY <1>2 DEF FrontEnd, Goto, Leave, history, Over
<1>3. CASE OpenObject(b) \/ FillObject(b)
  <2>1. PICK content : Put(ObjectPath(b), content)
    BY <1>3 DEF OpenObject, FillObject
  <2>2. \A path \in Path : path[1] # StemOf[b] => files'[path] = files[path]
    BY <2>1, PathsOfABuild DEF Put
  <2> QED
    BY <1>3, <2>2 DEF OpenObject, FillObject, Goto, history, Over
<1>4. CASE OpenBundles(b) \/ FillBundles(b)
  <2>1. \A path \in Path : path[1] # StemOf[b] => files'[path] = files[path]
    BY <1>4, PathsOfABuild DEF OpenBundles, FillBundles, Put
  <2> QED
    BY <1>4, <2>1 DEF OpenBundles, FillBundles, Goto, Leave, history, Over
<1>5. CASE SpawnLinker(b)
  BY <1>5 DEF SpawnLinker, Goto, Leave, history, Over
<1>6. CASE LinkerReadsObject(b) \/ LinkerReadsBundles(b)
  BY <1>6 DEF LinkerReadsObject, LinkerReadsBundles, Goto, history, Over
<1>7. CASE LinkerWrites(b)
  <2>1. \A path \in Path : path[1] # StemOf[b] => files'[path] = files[path]
    BY <1>7, PathsOfABuild DEF LinkerWrites, Put
  <2> QED
    BY <1>7, <2>1 DEF LinkerWrites, Leave, Goto, history, Over
<1>8. CASE Drop(b)
  <2>1. Head(drops[b]) \in {ObjectPath(b), BundlesPath(b)}
    BY <1>8, NextDrop DEF Drop
  <2>2. \A path \in Path : path[1] # StemOf[b] => files'[path] = files[path]
    BY <1>8, <2>1, PathsOfABuild DEF Drop, Put
  <2>3. \A path \in stuck : path[1] # StemOf[b] => path \in stuck'
    BY <1>8, <2>1, PathsOfABuild DEF Drop
  <2> QED
    BY <1>8, <2>2, <2>3 DEF Drop, Over
<1>9. CASE Exit(b)
  BY <1>9 DEF Exit, Goto, history, Over
<1>10. CASE WriteFails(b)
  BY <1>10 DEF WriteFails, Leave, Goto, Over
<1>11. CASE Crash(b)
  BY <1>11 DEF Crash, Goto, Active, history, Over
<1> QED
  BY <1>1, <1>2, <1>3, <1>4, <1>5, <1>6, <1>7, <1>8, <1>9, <1>10, <1>11 DEF Step

\* Two builds of one stem that work at the same time have met.
LEMMA AloneKept ==
  ASSUME Types, Alone, NEW b \in Build, Step(b)
  PROVE  Alone'
<1> SUFFICES ASSUME NEW c \in Build \ met', NEW d \in Build \ {c}, Active(c)', Active(d)'
             PROVE  StemOf[c] # StemOf[d]
  BY DEF Alone
<1>1. CASE Start(b)
  <2>1. \A e \in Build \ {b} : Active(e)' => Active(e)
    BY <1>1 DEF Types, Start, Goto, Active
  <2>2. CASE b \in {c, d}
    BY <1>1, <2>1, <2>2 DEF Start
  <2>3. CASE b \notin {c, d}
    BY <1>1, <2>1, <2>3 DEF Alone, Start
  <2> QED
    BY <2>2, <2>3
<1>2. CASE ~Start(b)
  <2>1. met' = met /\ \A e \in Build : Active(e)' => Active(e)
    BY <1>2, OthersStay DEF Active
  <2> QED
    BY <2>1 DEF Alone
<1> QED
  BY <1>1, <1>2

-----------------------------------------------------------------------------
(* What a build that is alone finds in its files.                          *)

\* Nobody else touches the files of a build that is alone.
LEMMA OwnUntouched ==
  ASSUME Types, Alone, Own, NEW b \in Build, Step(b), NEW c \in Build \ met', c # b
  PROVE  OwnSoFar(c)' /\ OwnAtTheEnd(c)'
<1>1. c \notin met /\ OwnSoFar(c) /\ OwnAtTheEnd(c)
  <2>1. met \subseteq met'
    BY OthersStay DEF Start
  <2> QED
    BY <2>1 DEF Own
<1>2. pc'[c] = pc[c] /\ read'[c] = read[c] /\ drops'[c] = drops[c] /\ outcome'[c] = outcome[c]
  BY OthersStay
<1>3. CASE ~Active(c)
  BY <1>2, <1>3 DEF Types, PC, Active, Over, OwnSoFar, OwnAtTheEnd
<1>4. CASE Active(c) /\ ~Active(b)
  <2>1. files' = files
    BY <1>4 DEF Active, Over, Step, Start, FrontEnd, OpenObject, FillObject, OpenBundles,
                FillBundles, SpawnLinker, LinkerReadsObject, LinkerReadsBundles, LinkerWrites,
                Drop, Exit, WriteFails, Crash
  <2> QED
    BY <1>1, <1>2, <2>1 DEF OwnSoFar, OwnAtTheEnd
<1>5. CASE Active(c) /\ Active(b)
  <2>1. StemOf[c] # StemOf[b]
    BY <1>1, <1>5 DEF Alone
  <2>2. \A path \in {Output(c), ObjectPath(c), BundlesPath(c)} : files'[path] = files[path]
    BY <2>1, OthersStay, PathsOfABuild
  <2> QED
    BY <1>1, <1>2, <2>2 DEF OwnSoFar, OwnAtTheEnd
<1> QED
  BY <1>3, <1>4, <1>5

\* The own files of a build are right at each place of its program.
LEMMA OwnWritten ==
  ASSUME Types, NEW b \in Build, Step(b), OwnSoFar(b), OwnAtTheEnd(b)
  PROVE  OwnSoFar(b)' /\ OwnAtTheEnd(b)'
<1> USE DEF OwnSoFar, OwnAtTheEnd
<1> ObjectPath(b) # BundlesPath(b) /\ {Output(b), ObjectPath(b), BundlesPath(b)} \subseteq Path
  BY PathsOfABuild
<1>1. CASE Start(b)
  BY <1>1 DEF Types, Start, Goto
<1>2. CASE FrontEnd(b)
  BY <1>2 DEF Types, FrontEnd, Goto, Leave
<1>3. CASE OpenObject(b)
  BY <1>3 DEF Types, OpenObject, Goto
<1>4. CASE FillObject(b)
  BY <1>4 DEF Types, FillObject, Goto, Put
<1>5. CASE OpenBundles(b)
  BY <1>5 DEF Types, OpenBundles, Goto, Leave, Put
<1>6. CASE FillBundles(b)
  BY <1>6 DEF Types, FillBundles, Goto, Put
<1>7. CASE SpawnLinker(b)
  BY <1>7 DEF Types, SpawnLinker, Goto, Leave
<1>8. CASE LinkerReadsObject(b)
  BY <1>8 DEF Types, LinkerReadsObject, Goto
<1>9. CASE LinkerReadsBundles(b)
  <2>1. PICK o \in Content : read[b] = <<o>>
    BY <1>9 DEF Types, LinkerReadsBundles, One
  <2>2. files[BundlesPath(b)] \in Content
    BY DEF Types
  <2>3. read'[b] = <<o, files[BundlesPath(b)]>>
    BY <1>9, <2>1, <2>2, SecondRead DEF Types, LinkerReadsBundles
  <2>4. o = Object(b) /\ files[BundlesPath(b)] = Bundles(b)
    BY <1>9, <2>1 DEF LinkerReadsBundles
  <2>5. read'[b][1] = Object(b) /\ read'[b][2] = Bundles(b)
    BY <2>3, <2>4
  <2>6. pc'[b] = "write" /\ files' = files
    BY <1>9 DEF Types, LinkerReadsBundles, Goto
  <2>7. files[ObjectPath(b)] = Object(b)
    BY <1>9 DEF LinkerReadsBundles
  <2> QED
    BY <2>4, <2>5, <2>6, <2>7
<1>10. CASE LinkerWrites(b)
  <2>1. CASE outcome'[b] = "err"
    BY <1>10, <2>1, LeaveEffect, Orders DEF LinkerWrites
  <2>2. CASE outcome'[b] # "err"
    <3>1. /\ Linkable(b) /\ Put(Output(b), Program(read[b][1][2], read[b][2][2]))
          /\ Leave(b, <<ObjectPath(b), BundlesPath(b)>>, "ok")
      BY <1>10, <2>2 DEF Types, LinkerWrites, Leave
    <3>2. read[b][1] = Object(b) /\ read[b][2] = Bundles(b)
      BY <1>10 DEF LinkerWrites
    <3>3. read[b][1][2] = b /\ read[b][2][2] = b
      BY <3>2 DEF Object, Bundles
    <3>4. Output(b) \notin {ObjectPath(b), BundlesPath(b)}
      BY <3>1 DEF Linkable
    <3>5. files[ObjectPath(b)] = Object(b) /\ files[BundlesPath(b)] = Bundles(b)
      BY <1>10 DEF LinkerWrites
    <3>6. /\ files'[Output(b)] = Program(b, b)
          /\ files'[ObjectPath(b)] = Object(b) /\ files'[BundlesPath(b)] = Bundles(b)
      BY <3>1, <3>3, <3>4, <3>5 DEF Types, Put
    <3>7. pc'[b] = "drop" /\ (b \in Keep => drops'[b] = <<>>)
      BY <3>1, LeaveEffect, Orders
    <3> QED
      BY <3>4, <3>6, <3>7
  <2> QED
    BY <2>1, <2>2
<1>11. CASE Drop(b)
  <2>1. Head(drops[b]) \in {ObjectPath(b), BundlesPath(b)}
    BY <1>11, NextDrop DEF Types, Drop
  <2>2. outcome[b] = "ok" => files'[Output(b)] = Program(b, b) /\ b \notin Keep
    BY <1>11, <2>1 DEF Types, Drop, Put
  <2>3. pc'[b] = "drop" /\ outcome'[b] = outcome[b]
    BY <1>11 DEF Types, Drop
  <2> QED
    BY <1>11, <2>2, <2>3 DEF Drop
<1>12. CASE Exit(b)
  BY <1>12 DEF Types, Exit, Goto
<1>13. CASE WriteFails(b)
  BY <1>13 DEF Types, WriteFails, Leave, Goto
<1>14. CASE Crash(b)
  BY <1>14 DEF Types, Crash, Goto
<1> QED
  BY <1>1, <1>2, <1>3, <1>4, <1>5, <1>6, <1>7, <1>8, <1>9, <1>10, <1>11, <1>12, <1>13, <1>14
  DEF Step

\* Both kinds of build together.
LEMMA OwnKept ==
  ASSUME Types, Alone, Own, NEW b \in Build, Step(b)
  PROVE  Own'
<1>1. met \subseteq met'
  BY OthersStay DEF Start
<1>2. ASSUME NEW c \in Build \ met' PROVE OwnSoFar(c)' /\ OwnAtTheEnd(c)'
  BY <1>1, <1>2, OwnUntouched, OwnWritten DEF Own
<1> QED
  BY <1>2 DEF Own

-----------------------------------------------------------------------------
(* Who answers for the files that are there.                               *)

\* A build writes a file it then answers for, or a program that is no build's
\* object file; one that answered for a file still does, or removed it, or
\* failed on it.
LEMMA StillAnswers ==
  ASSUME Types, NEW b \in Build, Step(b), NEW path \in {ObjectPath(b), BundlesPath(b)}
  PROVE  \/ files'[path] = Nothing \/ path \in stuck' \/ Answers(b, path)'
         \/ files'[path] = files[path] /\ (path \in stuck => path \in stuck') /\ ~Answers(b, path)
<1> USE DEF Answers
<1> ObjectPath(b) # BundlesPath(b) /\ path \in Path
  BY PathsOfABuild
<1> pc[b] \in PC /\ DOMAIN drops = Build
  BY DEF Types
<1> pc[b] \notin {"drop", "dead"} => drops[b] = <<>>
  BY DEF Types
<1>1. CASE Start(b)
  BY <1>1 DEF Start, Goto, Types
<1>2. CASE FrontEnd(b)
  BY <1>2 DEF FrontEnd, Goto, Leave, Types, history
<1>3. CASE OpenObject(b) \/ FillObject(b)
  BY <1>3 DEF OpenObject, FillObject, Goto, Put, Types, history
<1>4. CASE OpenBundles(b)
  BY <1>4 DEF OpenBundles, Goto, Leave, Put, Types, history
<1>5. CASE FillBundles(b)
  BY <1>5 DEF FillBundles, Goto, Put, Types, history
<1>6. CASE SpawnLinker(b)
  BY <1>6 DEF SpawnLinker, Goto, Leave, Types, history
<1>7. CASE LinkerReadsObject(b) \/ LinkerReadsBundles(b)
  BY <1>7 DEF LinkerReadsObject, LinkerReadsBundles, Goto, Types, history
<1>8. CASE LinkerWrites(b)
  <2>1. pc'[b] = "drop"
    BY <1>8 DEF LinkerWrites, Leave, Goto, Types
  <2>2. CASE b \in Keep
    BY <2>1, <2>2
  <2>3. CASE b \notin Keep
    <3>1. drops'[b] = <<ObjectPath(b), BundlesPath(b)>>
      BY <1>8, <2>3 DEF LinkerWrites, Leave, Types
    <3>2. \E i \in DOMAIN drops'[b] : drops'[b][i] = path
      BY <3>1
    <3> QED
      BY <2>1, <3>2
  <2> QED
    BY <2>2, <2>3
<1>9. CASE Drop(b)
  BY <1>9, NextDrop DEF Drop, Put, Types
<1>10. CASE Exit(b)
  BY <1>10 DEF Exit, Goto, Types, history
<1>11. CASE WriteFails(b)
  BY <1>11 DEF WriteFails, Leave, Goto, Types
<1>12. CASE Crash(b)
  BY <1>12 DEF Crash, Goto, Active, Over, Types, history
<1> QED
  BY <1>1, <1>2, <1>3, <1>4, <1>5, <1>6, <1>7, <1>8, <1>9, <1>10, <1>11, <1>12 DEF Step

\* So each file that is there still has some build that answers for it.
LEMMA AnsweredKept ==
  ASSUME Types, Answered, NEW b \in Build, Step(b)
  PROVE  Answered'
<1> SUFFICES ASSUME NEW c \in Build, NEW path \in {ObjectPath(c), BundlesPath(c)},
                    files'[path] # Nothing, path \notin stuck'
             PROVE  \E d \in Build : Answers(d, path)'
  BY DEF Answered
<1>1. \A d \in Build \ {b} : Answers(d, path) => Answers(d, path)'
  BY OthersStay DEF Answers
<1>2. CASE path[1] = StemOf[b]
  <2>1. path \in {ObjectPath(b), BundlesPath(b)}
    BY <1>2, ObjectFilesOfTwo
  <2>2. CASE Answers(b, path)'
    BY <2>2
  <2>3. CASE ~Answers(b, path)'
    BY <1>1, <2>1, <2>3, StillAnswers DEF Answered
  <2> QED
    BY <2>2, <2>3
<1>3. CASE path[1] # StemOf[b]
  <2>1. files'[path] = files[path]
    BY <1>3, OthersStay, PathsOfABuild
  <2>2. ~Answers(b, path)
    BY <1>3, PathsOfABuild DEF Answers, Types, DropOrders
  <2>3. path \notin stuck
    BY <1>3, OthersStay, PathsOfABuild
  <2> QED
    BY <1>1, <2>1, <2>2, <2>3 DEF Answered
<1> QED
  BY <1>2, <1>3

-----------------------------------------------------------------------------
(* The invariant holds initially and every step keeps it.                  *)

\* No build has started, no file is there.
LEMMA InitHolds == Init => IInv
<1> SUFFICES ASSUME Init PROVE IInv
  OBVIOUS
<1>1. Types
  <2>1. \A b \in Build : <<>> \in DropOrders(b)
    BY Orders
  <2>2. pc \in [Build -> PC] /\ files \in [Path -> Content]
    BY DEF Init, PC, Content
  <2> QED
    BY <2>1, <2>2 DEF Init, Types
<1>2. Alone /\ Own
  BY DEF Init, Alone, Own, OwnSoFar, OwnAtTheEnd, Active
<1>3. Answered
  BY PathsOfABuild DEF Init, Answered
<1> QED
  BY <1>1, <1>2, <1>3 DEF IInv

\* The next-state relation is a step of some build.
LEMMA NextIsAStep == Next => \E b \in Build : Step(b)
BY DEF Next, Step

\* Every step keeps the invariant.
LEMMA NextKeeps == IInv /\ [Next]_vars => IInv'
<1> SUFFICES ASSUME IInv, [Next]_vars PROVE IInv'
  OBVIOUS
<1>1. CASE UNCHANGED vars
  <2>1. Types'
    BY <1>1 DEF IInv, vars, history, Types, DropOrders, ObjectPath, BundlesPath, One, Two, Content
  <2>2. Alone'
    BY <1>1 DEF IInv, vars, history, Alone, Active
  <2>3. Own'
    BY <1>1 DEF IInv, vars, history, Own, OwnSoFar, OwnAtTheEnd
  <2>4. Answered'
    BY <1>1 DEF IInv, vars, history, Answered, Answers
  <2> QED
    BY <2>1, <2>2, <2>3, <2>4 DEF IInv
<1>2. CASE Next
  <2>1. PICK b \in Build : Step(b)
    BY <1>2, NextIsAStep
  <2> QED
    BY <2>1, TypesKept, AloneKept, OwnKept, AnsweredKept DEF IInv
<1> QED
  BY <1>1, <1>2

\* The inductive invariant holds in every reachable state.
THEOREM Invariance == Spec => []IInv
BY InitHolds, NextKeeps, PTL DEF Spec

\* Every value a build, its linker or its paths can take, at any time, is one
\* of those the model declares.
THEOREM TypeCorrect == Spec => []TypeOK
<1>1. IInv => TypeOK
  <2> SUFFICES ASSUME Types PROVE TypeOK
    BY DEF IInv
  <2>1. ASSUME NEW b \in Build
        PROVE  Len(read[b]) <= 2 /\ \A i \in DOMAIN read[b] : read[b][i] \in Content
    <3>1. CASE read[b] = <<>>
      BY <3>1
    <3>2. CASE read[b] \in One
      <4>1. PICK o \in Content : read[b] = <<o>>
        BY <3>2 DEF One
      <4> QED
        BY <4>1
    <3>3. CASE read[b] \in Two
      <4>1. PICK o \in Content, l \in Content : read[b] = <<o, l>>
        BY <3>3 DEF Two
      <4> QED
        BY <4>1
    <3> QED
      BY <2>1, <3>1, <3>2, <3>3 DEF Types
  <2>2. ASSUME NEW b \in Build
        PROVE  Len(drops[b]) <= 2 /\ \A i \in DOMAIN drops[b] : drops[b][i] \in Path
    <3>1. ASSUME NEW o \in Path, NEW l \in Path
          PROVE  /\ Len(<<o>>) <= 2 /\ \A i \in DOMAIN <<o>> : <<o>>[i] \in Path
                 /\ Len(<<o, l>>) <= 2 /\ \A i \in DOMAIN <<o, l>> : <<o, l>>[i] \in Path
      BY <3>1
    <3>2. Len(<<>>) <= 2 /\ DOMAIN <<>> = {}
      OBVIOUS
    <3> HIDE DEF Path
    <3>3. ObjectPath(b) \in Path /\ BundlesPath(b) \in Path /\ drops[b] \in DropOrders(b)
      BY <2>2, PathsOfABuild DEF Types
    <3> QED
      BY <3>1, <3>2, <3>3 DEF DropOrders
  <2> QED
    BY <2>1, <2>2 DEF TypeOK, Types
<1> QED
  BY <1>1, Invariance, PTL

-----------------------------------------------------------------------------
(* The properties.                                                         *)

\* An object file that no build at work, killed or asked to keep it explains is
\* there only because a write or a removal failed on it: each build answers for
\* what it wrote until it removed it.
THEOREM NothingElseLingers == Spec => []LingersOnlyIfStuck
<1>1. IInv => LingersOnlyIfStuck
  <2> SUFFICES ASSUME IInv, NEW path \in Lingering PROVE path \in stuck
    BY DEF LingersOnlyIfStuck
  <2>1. /\ \E b \in Build : path \in {ObjectPath(b), BundlesPath(b)}
        /\ files[path] # Nothing /\ ~Explained(path)
    BY DEF Lingering
  <2>2. ASSUME NEW c \in Build, Answers(c, path) PROVE Explained(path)
    <3>1. path \in {ObjectPath(c), BundlesPath(c)}
      BY <2>2 DEF IInv, Types, Answers, DropOrders
    <3> QED
      BY <2>2, <3>1 DEF Answers, Explained, Active, Over
  <2> QED
    BY <2>1, <2>2 DEF IInv, Answered
<1> QED
  BY <1>1, Invariance, PTL

\* The only step that makes a build a success is its exit with nothing left to
\* drop, and that step changes no file.
LEMMA SuccessIsAnExit ==
  ASSUME IInv, [Next]_vars, NEW b \in Build, pc[b] # "ok", pc'[b] = "ok"
  PROVE  pc[b] = "drop" /\ outcome[b] = "ok" /\ files' = files
<1>1. PICK c \in Build : Step(c)
  BY NextIsAStep DEF vars
<1>2. c = b
  BY <1>1, OthersStay DEF IInv
<1>3. Exit(b)
  BY <1>1, <1>2 DEF IInv, Types, Step, Start, FrontEnd, OpenObject, FillObject, OpenBundles,
     FillBundles, SpawnLinker, LinkerReadsObject, LinkerReadsBundles, LinkerWrites, Drop,
     WriteFails, Crash, Goto, Leave
<1> QED
  BY <1>3 DEF Exit, Goto, IInv, Types

\* A build that was never at work beside another of its stem reports success
\* only when its path holds the program linked from its own two files, for any
\* number of builds of any stems, any faults of theirs, and whatever an earlier
\* build left there.
THEOREM SuccessMeansItsOwn == Spec => SuccessIsItsOwn
<1>1. IInv /\ [Next]_vars => WroteItsOwn
  BY SuccessIsAnExit DEF WroteItsOwn, IInv, Own, OwnAtTheEnd
<1>2. IInv /\ [Next]_vars => [WroteItsOwn]_vars
  BY <1>1
<1> QED
  BY <1>2, Invariance, PTL DEF Spec, SuccessIsItsOwn

\* With --keep-object the two files are still what it was linked from then.
THEOREM KeptObjectsAreItsOwn == Spec => ObjectsAreKept
<1>1. IInv /\ [Next]_vars => KeptAtTheEnd
  BY SuccessIsAnExit, LinkConstants DEF KeptAtTheEnd, IInv, Own, OwnAtTheEnd
<1>2. IInv /\ [Next]_vars => [KeptAtTheEnd]_vars
  BY <1>1
<1> QED
  BY <1>2, Invariance, PTL DEF Spec, ObjectsAreKept
=============================================================================
