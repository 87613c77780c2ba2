-------------------------- MODULE BundleCacheProofs --------------------------
(***************************************************************************)
(* Theorems about BundleUnpack and BundleCache for any number of           *)
(* processes, ids, bundles, files, cleanings and power failures.  When all *)
(* processes share one process id space, the cache never shows a           *)
(* half-written bundle, BundleUnpack implements BundleStore, a bundle      *)
(* directory lacks something only where a cleaner or a power failure took  *)
(* it, and what runs undisturbed from any other directory has it whole.    *)
(* Whatever their process id spaces, no directory mixes bundles, and only  *)
(* failures leave a staging directory behind.                              *)
(***************************************************************************)
EXTENDS BundleCache, TLAPS

-----------------------------------------------------------------------------
(* What the helpers of the actions do.                                     *)

\* The directories the actions write are directories.
LEMMA FolderType ==
  /\ Absent \in Folder
  /\ NoFiles \in [FileNo -> File]
  /\ Missing \in File
  /\ \A b \in Bundle : Complete(b) \in Folder
BY ConstantTypes DEF Absent, Folder, NoFiles, Missing, File, Stage, Complete, FileNo

\* What a process finds of its own in a state of the right type.
LEMMA StgType ==
  ASSUME TypeOK, NEW p \in Proc
  PROVE  /\ Home(p) \in Dir
         /\ BundleOf[p] \in Bundle
         /\ pid[p] \in Pid
         /\ FileCount[BundleOf[p]] \in 0..MaxFiles
         /\ Stg(p) \in Folder
         /\ final[Home(p)] \in Folder
BY ConstantTypes DEF TypeOK, Home, Stg

\* Replacing one file of a staging directory replaces that file and no other.
LEMMA StagedWithType ==
  ASSUME TypeOK, NEW p \in Proc, NEW j \in FileNo, NEW f \in File
  PROVE  /\ StagedWith(p, j, f) \in Folder
         /\ StagedWith(p, j, f).present = Stg(p).present
         /\ \A k \in FileNo :
              StagedWith(p, j, f).file[k] = IF k = j THEN f ELSE Stg(p).file[k]
BY StgType DEF StagedWith, Folder

\* Replacing the staging directory of p replaces that one and no other.
LEMMA SetStagingEffect ==
  ASSUME TypeOK, NEW p \in Proc, NEW folder \in Folder, SetStaging(p, folder)
  PROVE  /\ staging' \in [Dir -> [Pid -> Folder]]
         /\ \A d \in Dir : \A n \in Pid :
              staging'[d][n] = IF d = Home(p) /\ n = pid[p]
                               THEN folder ELSE staging[d][n]
<1>1. Home(p) \in Dir /\ pid[p] \in Pid
  BY StgType
<1>2. staging \in [Dir -> [Pid -> Folder]]
  BY DEF TypeOK
<1> QED
  BY <1>1, <1>2 DEF SetStaging

\* Bundles are told apart by the directory they unpack into.
LEMMA OneBundlePerDir ==
  ASSUME NEW b \in Bundle, NEW c \in Bundle, DirOf[b] = DirOf[c]
  PROVE  b = c
BY NoHashCollision

\* What is in place at the home of p is the bundle of p.
LEMMA InPlaceIsComplete ==
  ASSUME TypeOK, NoHalfWrittenBundle, NEW p \in Proc, final[Home(p)].present
  PROVE  final[Home(p)] = Complete(BundleOf[p])
<1>1. PICK b \in Bundle : DirOf[b] = Home(p) /\ final[Home(p)] = Complete(b)
  BY StgType DEF NoHalfWrittenBundle
<1> QED
  BY <1>1, StgType, OneBundlePerDir DEF Home

-----------------------------------------------------------------------------
\* A step of one process leaves the others where they are: live processes
\* have different ids, so different staging directories.
LEMMA OthersKeep ==
  ASSUME IInv, TypeOK', NEW p \in Proc, Live(p), pid' = pid,
         \A q \in Proc \ {p} : pc'[q] = pc[q] /\ next'[q] = next[q],
         \A d \in Dir : \A n \in Pid :
           d # Home(p) \/ n # pid[p] => staging'[d][n] = staging[d][n],
         \A d \in Dir : final[d].present => final'[d].present
  PROVE  /\ LivePidsDiffer'
         /\ \A q \in Proc \ {p} : Achieved(q)'
<1>1. LivePidsDiffer'
  BY DEF IInv, LivePidsDiffer, Live
<1>2. ASSUME NEW q \in Proc \ {p} PROVE Achieved(q)'
  <2>1. CASE ~Live(q)
    BY <1>2, <2>1 DEF Live, Achieved, Stopped, Writing
  <2>2. CASE Live(q)
    <3>1. pid[q] # pid[p]
      BY <1>2, <2>2 DEF IInv, LivePidsDiffer
    <3>2. Stg(q)' = Stg(q)
      BY <1>2, <3>1, StgType DEF IInv, Stg, Home
    <3>3. Achieved(q) /\ TypeOK
      BY <1>2 DEF IInv
    <3>4. final[Home(q)].present => final'[Home(q)].present
      BY <3>3, StgType
    <3> QED
      BY <1>2, <3>2, <3>3, <3>4 DEF Achieved, Home
  <2> QED
    BY <2>1, <2>2
<1> QED
  BY <1>1, <1>2

\* The same for a step that touches no directory.
LEMMA NoWriteKeeps ==
  ASSUME IInv, TypeOK', NEW p \in Proc, Live(p), pid' = pid,
         \A q \in Proc \ {p} : pc'[q] = pc[q] /\ next'[q] = next[q],
         UNCHANGED <<final, staging>>, Achieved(p)'
  PROVE  IInv'
<1>1. LivePidsDiffer' /\ \A q \in Proc \ {p} : Achieved(q)'
  BY OthersKeep
<1>2. StagedFilesBelong' /\ NoHalfWrittenBundle' /\ NothingInAbsent'
  BY DEF IInv, StagedFilesBelong, NoHalfWrittenBundle, NothingInAbsent
<1> QED
  BY <1>1, <1>2 DEF IInv

\* The same for a step that changes only p's own staging directory, where the
\* files of its bundle, or none, are.
LEMMA StagingWriteKeeps ==
  ASSUME IInv, TypeOK', NEW p \in Proc, Live(p), pid' = pid,
         NEW folder \in Folder, SetStaging(p, folder),
         \A q \in Proc \ {p} : pc'[q] = pc[q] /\ next'[q] = next[q],
         \A j \in FileNo : \/ folder.file[j] \in {Missing, Stg(p).file[j]}
                           \/ j <= FileCount[BundleOf[p]] /\ folder.file[j].of = BundleOf[p],
         UNCHANGED final, Achieved(p)'
  PROVE  IInv'
<1>1. TypeOK
  BY DEF IInv
<1>2. \A d \in Dir : \A n \in Pid :
        staging'[d][n] = IF d = Home(p) /\ n = pid[p] THEN folder ELSE staging[d][n]
  BY <1>1, SetStagingEffect
<1>3. LivePidsDiffer' /\ \A q \in Proc \ {p} : Achieved(q)'
  BY <1>2, OthersKeep
<1>4. NoHalfWrittenBundle' /\ NothingInAbsent'
  BY DEF IInv, NoHalfWrittenBundle, NothingInAbsent
<1>5. StagedFilesBelong'
  <2> SUFFICES ASSUME NEW d \in Dir, NEW n \in Pid, NEW j \in FileNo,
                      staging'[d][n].file[j] # Missing
               PROVE  \E b \in Bundle : /\ DirOf[b] = d
                                        /\ j <= FileCount[b]
                                        /\ staging'[d][n].file[j].of = b
    BY DEF StagedFilesBelong
  <2>1. CASE staging'[d][n].file[j] = staging[d][n].file[j]
    BY <2>1 DEF IInv, StagedFilesBelong
  <2>2. CASE staging'[d][n].file[j] # staging[d][n].file[j]
    <3>1. d = Home(p) /\ n = pid[p] /\ staging'[d][n] = folder
      BY <1>2, <2>2
    <3>2. j <= FileCount[BundleOf[p]] /\ folder.file[j].of = BundleOf[p]
      BY <2>2, <3>1 DEF Stg
    <3> QED
      BY <1>1, <3>1, <3>2, StgType DEF Home
  <2> QED
    BY <2>1, <2>2
<1> QED
  BY <1>3, <1>4, <1>5 DEF IInv

-----------------------------------------------------------------------------
(* The invariant holds initially and every step keeps it.                  *)

\* No process has started, no directory is there.
LEMMA InitHolds == OnePidSpace /\ Init => IInv
<1> SUFFICES ASSUME Init PROVE IInv
  OBVIOUS
<1>1. TypeOK
  BY ConstantTypes, FolderType DEF Init, TypeOK, PC, Stopped
<1>2. LivePidsDiffer
  BY DEF Init, LivePidsDiffer, Live, Stopped
<1>3. StagedFilesBelong /\ NoHalfWrittenBundle /\ NothingInAbsent
  BY DEF Init, StagedFilesBelong, NoHalfWrittenBundle, NothingInAbsent, Absent, NoFiles
<1>4. \A p \in Proc : Achieved(p)
  BY DEF Init, Achieved, Writing
<1> QED
  BY <1>1, <1>2, <1>3, <1>4 DEF IInv

\* A new process gets an id no live process of the one host has.
LEMMA StartKeeps ==
  ASSUME IInv, OnePidSpace, NEW p \in Proc, Start(p)
  PROVE  IInv'
<1>1. TypeOK'
  BY DEF IInv, Start, TypeOK, Goto, PC, Working
<1>2. LivePidsDiffer'
  <2> SUFFICES ASSUME NEW q \in Proc, NEW r \in Proc, q # r, Live(q)', Live(r)'
               PROVE  pid'[q] # pid'[r]
    BY DEF LivePidsDiffer
  <2>1. \A x \in Proc \ {p} : pid'[x] = pid[x] /\ (Live(x)' => Live(x))
    BY DEF IInv, TypeOK, Start, Goto, Live
  <2>2. \A x \in Proc \ {p} : Live(x) => pid[x] # pid'[p]
    BY DEF IInv, TypeOK, Start, Goto, OnePidSpace
  <2> QED
    BY <2>1, <2>2 DEF IInv, LivePidsDiffer
<1>3. StagedFilesBelong' /\ NoHalfWrittenBundle' /\ NothingInAbsent'
  BY DEF IInv, Start, StagedFilesBelong, NoHalfWrittenBundle, NothingInAbsent
<1>4. ASSUME NEW q \in Proc PROVE Achieved(q)'
  <2>1. CASE q = p
    BY <2>1 DEF IInv, TypeOK, Start, Goto, Achieved, Writing
  <2>2. CASE q # p
    <3>1. pc'[q] = pc[q] /\ Stg(q)' = Stg(q) /\ Achieved(q)
      BY <2>2, <1>4 DEF IInv, TypeOK, Start, Goto, Stg, Home
    <3> QED
      BY <3>1 DEF Start, Achieved, Home
  <2> QED
    BY <2>1, <2>2
<1> QED
  BY <1>1, <1>2, <1>3, <1>4 DEF IInv

\* The steps that only decide where to go next.
LEMMA DecideKeeps ==
  ASSUME IInv, NEW p \in Proc,
         Check(p) \/ RemoveFails(p) \/ Lost(p) \/ Again(p) \/ Exit(p)
           \/ IoError(p) \/ Crash(p)
  PROVE  IInv'
<1> USE DEF Goto
<1>1. TypeOK /\ Achieved(p)
  BY DEF IInv
<1>2. Live(p)
  BY DEF Check, RemoveFails, Lost, Again, Exit, IoError, Crash, Live, Stopped, Writing
<1>3. pid' = pid /\ UNCHANGED <<final, staging>>
  BY DEF Check, RemoveFails, Lost, Again, Exit, IoError, Crash
<1>4. /\ \A q \in Proc \ {p} : pc'[q] = pc[q] /\ next'[q] = next[q]
      /\ TypeOK'
  <2>1. \E l \in PC : pc' = [pc EXCEPT ![p] = l]
    BY DEF Check, RemoveFails, AfterRemove, Lost, Again, Exit, IoError, Crash,
           PC, Stopped, Working, Writing
  <2>2. next' = next \/ next' = [next EXCEPT ![p] = 1]
    BY DEF Check, RemoveFails, AfterRemove, Lost, Again, Exit, IoError, Crash
  <2>3. 1 \in 1..(MaxFiles + 1)
    BY ConstantTypes
  <2> QED
    BY <1>1, <1>3, <2>1, <2>2, <2>3 DEF TypeOK
<1>5. Achieved(p)'
  <2>1. CASE RemoveFails(p)
    <3>1. \/ pc'[p] = "file" /\ next'[p] = 1
          \/ pc[p] = "discard" /\ pc'[p] = "run"
      BY <1>1, <2>1 DEF RemoveFails, AfterRemove, TypeOK
    <3>2. FileCount[BundleOf[p]] \in Nat
      BY ConstantTypes
    <3>3. CASE pc'[p] = "file" /\ next'[p] = 1
      BY <3>2, <3>3 DEF Achieved, Writing
    <3>4. CASE pc[p] = "discard" /\ pc'[p] = "run"
      BY <1>1, <1>3, <3>4 DEF Achieved, Writing, Home
    <3> QED
      BY <3>1, <3>3, <3>4
  <2>2. CASE ~RemoveFails(p)
    BY <1>1, <2>2 DEF TypeOK, Check, Lost, Again, Exit, IoError, Crash, Achieved, Writing
  <2> QED
    BY <2>1, <2>2
<1> QED
  BY <1>2, <1>3, <1>4, <1>5, NoWriteKeeps

\* fs::remove_dir_all, file by file and then the directory
LEMMA RemoveFileKeeps ==
  ASSUME IInv, NEW p \in Proc, RemoveFile(p)
  PROVE  IInv'
<1>1. TypeOK /\ Achieved(p) /\ Live(p)
  BY DEF IInv, RemoveFile, Live, Stopped
<1>2. PICK j \in FileNo : SetStaging(p, StagedWith(p, j, Missing))
  BY DEF RemoveFile
<1> DEFINE folder == StagedWith(p, j, Missing)
<1>3. /\ folder \in Folder
      /\ \A k \in FileNo : folder.file[k] = IF k = j THEN Missing ELSE Stg(p).file[k]
  BY <1>1, StagedWithType, FolderType
<1> HIDE DEF folder
<1>4. SetStaging(p, folder)
  BY <1>2 DEF folder
<1>5. TypeOK'
  BY <1>1, <1>3, <1>4, SetStagingEffect DEF TypeOK, RemoveFile
<1>6. Achieved(p)'
  BY <1>1 DEF RemoveFile, Achieved, Writing
<1> QED
  BY <1>1, <1>3, <1>4, <1>5, <1>6, StagingWriteKeeps DEF RemoveFile

\* ... and the directory, after which the loop begins or the process runs.
LEMMA RemoveDirKeeps ==
  ASSUME IInv, NEW p \in Proc, RemoveDir(p)
  PROVE  IInv'
<1>1. TypeOK /\ Achieved(p) /\ Live(p)
  BY DEF IInv, RemoveDir, Live, Stopped
<1>2. /\ \A q \in Proc \ {p} : pc'[q] = pc[q] /\ next'[q] = next[q]
      /\ TypeOK'
  <2>1. \E l \in PC : pc' = [pc EXCEPT ![p] = l]
    BY DEF RemoveDir, AfterRemove, Goto, PC, Working, Writing
  <2>2. next' = next \/ next' = [next EXCEPT ![p] = 1]
    BY DEF RemoveDir, AfterRemove
  <2>3. 1 \in 1..(MaxFiles + 1)
    BY ConstantTypes
  <2>4. staging' \in [Dir -> [Pid -> Folder]]
    BY <1>1, FolderType, SetStagingEffect DEF RemoveDir
  <2> QED
    BY <1>1, <2>1, <2>2, <2>3, <2>4 DEF TypeOK, RemoveDir
<1>3. Achieved(p)'
  BY <1>1, StgType DEF RemoveDir, AfterRemove, Goto, TypeOK, Achieved, Writing, Home
<1>4. \A j \in FileNo : Absent.file[j] = Missing
  BY DEF Absent, NoFiles
<1> QED
  BY <1>1, <1>2, <1>3, <1>4, FolderType, StagingWriteKeeps DEF RemoveDir

\* fs::create_dir_all, of a file's parent or of the staging directory itself
LEMMA MakeKeeps ==
  ASSUME IInv, NEW p \in Proc, MakeParent(p) \/ MakeStaging(p)
  PROVE  IInv'
<1>1. TypeOK /\ Achieved(p) /\ Live(p) /\ pc[p] = "file"
  BY DEF IInv, MakeParent, MakeStaging, Live, Stopped
<1> DEFINE folder == [Stg(p) EXCEPT !.present = TRUE]
<1>2. /\ folder \in Folder
      /\ folder.present
      /\ folder.file = Stg(p).file
  BY <1>1, StgType DEF Folder
<1>3. SetStaging(p, folder)
  BY DEF MakeParent, MakeStaging
<1> HIDE DEF folder
<1>4. /\ \A d \in Dir : \A n \in Pid :
           staging'[d][n] = IF d = Home(p) /\ n = pid[p] THEN folder ELSE staging[d][n]
      /\ staging' \in [Dir -> [Pid -> Folder]]
  BY <1>1, <1>2, <1>3, SetStagingEffect
<1>5. /\ \A q \in Proc \ {p} : pc'[q] = pc[q] /\ next'[q] = next[q]
      /\ TypeOK'
  BY <1>1, <1>4 DEF TypeOK, MakeParent, MakeStaging, Goto, PC, Working, Writing
<1>6. Stg(p)' = folder
  BY <1>1, <1>4, StgType DEF MakeParent, MakeStaging, Stg, Home
<1>7. Achieved(p)'
  <2>1. next[p] \in Nat /\ FileCount[BundleOf[p]] \in Nat
    BY <1>1, StgType, ConstantTypes DEF TypeOK
  <2>2. pc'[p] \in {"open", "rename"} /\ next' = next
    BY <1>1 DEF TypeOK, MakeParent, MakeStaging, Goto
  <2>3. /\ pc'[p] = "open" => next[p] <= FileCount[BundleOf[p]]
        /\ pc'[p] = "rename" => next[p] > FileCount[BundleOf[p]]
    BY <1>1 DEF TypeOK, MakeParent, MakeStaging, Goto
  <2> QED
    BY <1>1, <1>2, <1>6, <2>1, <2>2, <2>3 DEF Achieved, Writing
<1> QED
  BY <1>1, <1>2, <1>3, <1>5, <1>7, StagingWriteKeeps DEF MakeParent, MakeStaging

\* fs::write and fs::set_permissions on the file the loop is at: what a step
\* that gives it the contents f makes of p's staging directory.
LEMMA FileStepEffect ==
  ASSUME TypeOK, NEW p \in Proc, next[p] \in FileNo, NEW f \in File,
         SetStaging(p, StagedWith(p, next[p], f)), pid' = pid
  PROVE  /\ staging' \in [Dir -> [Pid -> Folder]]
         /\ Stg(p)' \in Folder
         /\ SetStaging(p, Stg(p)')
         /\ Stg(p)'.present = Stg(p).present
         /\ \A k \in FileNo :
              Stg(p)'.file[k] = IF k = next[p] THEN f ELSE Stg(p).file[k]
<1> DEFINE folder == StagedWith(p, next[p], f)
<1>1. /\ folder \in Folder
      /\ folder.present = Stg(p).present
      /\ \A k \in FileNo : folder.file[k] = IF k = next[p] THEN f ELSE Stg(p).file[k]
  BY StagedWithType
<1>2. SetStaging(p, folder)
  OBVIOUS
<1> HIDE DEF folder
<1>3. staging' \in [Dir -> [Pid -> Folder]] /\ Stg(p)' = folder
  BY <1>1, <1>2, SetStagingEffect, StgType DEF Stg, Home
<1> QED
  BY <1>1, <1>2, <1>3

\* One file step of p, whichever: the file it is at becomes p's own, in stage s.
LEMMA FileStepKeeps ==
  ASSUME IInv, NEW p \in Proc, pc[p] \in {"open", "fill", "chmod"},
         NEW s \in Stage, NEW l \in Writing, NEW m \in 1..(MaxFiles + 1),
         SetStaging(p, StagedWith(p, next[p], [stage |-> s, of |-> BundleOf[p]])),
         pc' = [pc EXCEPT ![p] = l], next' = [next EXCEPT ![p] = m],
         UNCHANGED <<pid, final>>,
         \/ l = "fill" /\ s = "created" /\ m = next[p]
         \/ l = "chmod" /\ s = "written" /\ m = next[p]
         \/ l = "file" /\ s = "ready" /\ m = next[p] + 1
  PROVE  IInv'
<1> DEFINE f == [stage |-> s, of |-> BundleOf[p]]
<1>1. TypeOK /\ Achieved(p) /\ Live(p)
  BY DEF IInv, Live, Stopped
<1>2. /\ f \in File
      /\ next[p] \in FileNo
      /\ next[p] <= FileCount[BundleOf[p]]
      /\ next[p] \in Nat
      /\ FileCount[BundleOf[p]] \in Nat
      /\ MaxFiles \in Nat
  BY <1>1, StgType, ConstantTypes DEF TypeOK, Achieved, File, FileNo
<1>3. f.stage = s /\ f.of = BundleOf[p]
  OBVIOUS
<1>4. SetStaging(p, StagedWith(p, next[p], f)) /\ pid' = pid
  OBVIOUS
<1> HIDE DEF f
<1>5. /\ staging' \in [Dir -> [Pid -> Folder]]
      /\ Stg(p)' \in Folder
      /\ SetStaging(p, Stg(p)')
      /\ Stg(p)'.present = Stg(p).present
      /\ \A k \in FileNo :
           Stg(p)'.file[k] = IF k = next[p] THEN f ELSE Stg(p).file[k]
  BY <1>1, <1>2, <1>4, FileStepEffect
<1>6. TypeOK'
  BY <1>1, <1>2, <1>5 DEF TypeOK, PC, Working
<1>7. Achieved(p)'
  <2>1. pc'[p] = l /\ next'[p] = m
    BY <1>1 DEF TypeOK
  <2>2. Stg(p).present
    BY <1>1 DEF Achieved
  <2>3. \A j \in 1..(m - 1) : Stg(p)'.file[j] = [stage |-> "ready", of |-> BundleOf[p]]
    <3> SUFFICES ASSUME NEW j \in 1..(m - 1)
                 PROVE  Stg(p)'.file[j] = [stage |-> "ready", of |-> BundleOf[p]]
      OBVIOUS
    <3>1. j \in FileNo
      BY <1>2 DEF FileNo
    <3>2. CASE j = next[p]
      BY <1>2, <1>5, <3>1, <3>2 DEF f
    <3>3. CASE j # next[p]
      <4>1. j \in 1..(next[p] - 1)
        BY <1>2, <3>3
      <4>2. Stg(p).file[j] = [stage |-> "ready", of |-> BundleOf[p]]
        BY <1>1, <4>1 DEF Achieved, Writing
      <4> QED
        BY <1>5, <3>1, <3>3, <4>2
    <3> QED
      BY <3>2, <3>3
  <2> QED
    BY <1>1, <1>2, <1>3, <1>5, <2>1, <2>2, <2>3 DEF Achieved, Writing
<1>8. \A q \in Proc \ {p} : pc'[q] = pc[q] /\ next'[q] = next[q]
  BY <1>1 DEF TypeOK
<1>9. \A j \in FileNo : \/ Stg(p)'.file[j] \in {Missing, Stg(p).file[j]}
                        \/ j <= FileCount[BundleOf[p]] /\ Stg(p)'.file[j].of = BundleOf[p]
  BY <1>2, <1>3, <1>5
<1> DEFINE folder == Stg(p)'
<1>10. /\ folder \in Folder
       /\ SetStaging(p, folder)
       /\ \A j \in FileNo : \/ folder.file[j] \in {Missing, Stg(p).file[j]}
                            \/ j <= FileCount[BundleOf[p]] /\ folder.file[j].of = BundleOf[p]
  BY <1>5, <1>9
<1> HIDE DEF folder
<1> QED
  BY <1>1, <1>6, <1>7, <1>8, <1>10, StagingWriteKeeps

\* fs::write creates the file the loop is at ...
LEMMA OpenKeeps ==
  ASSUME IInv, NEW p \in Proc, Open(p)
  PROVE  IInv'
<1>1. TypeOK /\ Stg(p).present /\ next[p] \in 1..(MaxFiles + 1)
  BY DEF IInv, TypeOK, Achieved, Open
<1>2. next' = [next EXCEPT ![p] = next[p]]
  BY <1>1 DEF Open, TypeOK
<1>3. /\ pc[p] = "open"
      /\ SetStaging(p, StagedWith(p, next[p], [stage |-> "created", of |-> BundleOf[p]]))
      /\ pc' = [pc EXCEPT ![p] = "fill"]
      /\ UNCHANGED <<pid, final>>
  BY <1>1 DEF Open, Goto
<1>4. "created" \in Stage /\ "fill" \in Writing
  BY DEF Stage, Writing
<1> QED
  BY <1>1, <1>2, <1>3, <1>4, FileStepKeeps

\* No file in place is waiting for its bytes.
LEMMA NothingUnfinishedInPlace ==
  ASSUME IInv, NEW p \in Proc, NEW j \in FileNo
  PROVE  final[Home(p)].file[j].stage # "created"
<1>1. TypeOK
  BY DEF IInv
<1>2. CASE final[Home(p)].present
  <2>1. final[Home(p)] = Complete(BundleOf[p])
    BY <1>1, <1>2, InPlaceIsComplete DEF IInv
  <2> QED
    BY <2>1 DEF Complete, Missing
<1>3. CASE ~final[Home(p)].present
  <2>1. final[Home(p)] = Absent
    BY <1>1, <1>3, StgType DEF IInv, NothingInAbsent
  <2> QED
    BY <2>1 DEF Absent, NoFiles, Missing
<1> QED
  BY <1>2, <1>3

\* ... and writes its bytes, to the staging directory: no other process has renamed
\* it away.
LEMMA FillKeeps ==
  ASSUME IInv, NEW p \in Proc, Fill(p)
  PROVE  IInv'
<1>1. TypeOK /\ Achieved(p) /\ pc[p] = "fill"
  BY DEF IInv, Fill
<1>2. Stg(p).file[next[p]].stage = "created" /\ next[p] \in FileNo
  BY <1>1, StgType, ConstantTypes DEF TypeOK, Achieved, FileNo
<1>3. final[Home(p)].file[next[p]].stage # "created"
  BY <1>1, <1>2, NothingUnfinishedInPlace
<1>4. /\ SetStaging(p, StagedWith(p, next[p], [stage |-> "written", of |-> BundleOf[p]]))
      /\ pc' = [pc EXCEPT ![p] = "chmod"]
      /\ UNCHANGED <<pid, next, final>>
  BY <1>2, <1>3 DEF Fill, Goto
<1>5. next' = [next EXCEPT ![p] = next[p]] /\ next[p] \in 1..(MaxFiles + 1)
  BY <1>1, <1>4 DEF TypeOK
<1>6. "written" \in Stage /\ "chmod" \in Writing
  BY DEF Stage, Writing
<1> QED
  BY <1>1, <1>4, <1>5, <1>6, FileStepKeeps

\* fs::set_permissions makes the file ready, and the loop goes on.
LEMMA ChmodKeeps ==
  ASSUME IInv, NEW p \in Proc, Chmod(p)
  PROVE  IInv'
<1>1. TypeOK /\ Achieved(p) /\ pc[p] = "chmod"
  BY DEF IInv, Chmod
<1>2. Stg(p).file[next[p]].stage = "written"
  BY <1>1 DEF Achieved
<1>3. next[p] + 1 \in 1..(MaxFiles + 1)
  BY <1>1, StgType, ConstantTypes DEF TypeOK, Achieved
<1>4. /\ SetStaging(p, StagedWith(p, next[p], [stage |-> "ready", of |-> BundleOf[p]]))
      /\ pc' = [pc EXCEPT ![p] = "file"]
      /\ next' = [next EXCEPT ![p] = next[p] + 1]
      /\ UNCHANGED <<pid, final>>
  BY <1>1, <1>2 DEF Chmod, Goto, Missing, TypeOK
<1>5. "ready" \in Stage /\ "file" \in Writing
  BY DEF Stage, Writing
<1> QED
  BY <1>1, <1>3, <1>4, <1>5, FileStepKeeps

\* fs::rename: the staging directory is complete, so the bundle appears whole.
LEMMA CompleteAtRename ==
  ASSUME IInv, NEW p \in Proc, pc[p] = "rename"
  PROVE  Stg(p) = Complete(BundleOf[p])
<1>1. TypeOK /\ Achieved(p) /\ Stg(p) \in Folder /\ Stg(p).present
  BY StgType DEF IInv, Achieved
<1>2. FileCount[BundleOf[p]] \in Nat /\ MaxFiles \in Nat
  BY <1>1, StgType, ConstantTypes
<1>3. ASSUME NEW j \in FileNo
      PROVE  Stg(p).file[j] = Complete(BundleOf[p]).file[j]
  <2>1. CASE j <= FileCount[BundleOf[p]]
    <3>1. j \in 1..(next[p] - 1)
      BY <1>1, <1>2, <2>1 DEF Achieved, FileNo
    <3> QED
      BY <1>1, <2>1, <3>1 DEF Achieved, Writing, Complete
  <2>2. CASE ~(j <= FileCount[BundleOf[p]])
    <3>1. Stg(p).file[j] = Missing
      <4> SUFFICES ASSUME Stg(p).file[j] # Missing PROVE FALSE
        OBVIOUS
      <4>1. PICK b \in Bundle : DirOf[b] = Home(p) /\ j <= FileCount[b]
        BY <1>1, StgType DEF IInv, StagedFilesBelong, Stg
      <4>2. b = BundleOf[p]
        BY <1>1, <4>1, StgType, OneBundlePerDir DEF Home
      <4> QED
        BY <2>2, <4>1, <4>2
    <3> QED
      BY <2>2, <3>1 DEF Complete
  <2> QED
    BY <2>1, <2>2
<1>4. Complete(BundleOf[p]) \in Folder /\ Complete(BundleOf[p]).present
  BY <1>1, FolderType, StgType DEF Complete
<1> QED
  BY <1>1, <1>3, <1>4 DEF Folder

\* A rename that fails changes nothing; one that succeeds installs a whole bundle.
LEMMA RenameKeeps ==
  ASSUME IInv, NEW p \in Proc, Rename(p)
  PROVE  IInv'
<1>1. TypeOK /\ Achieved(p) /\ Live(p) /\ pc[p] = "rename"
  BY DEF IInv, Rename, Live, Stopped
<1>2. CASE ~CanRename(p)
  <2>1. pc' = [pc EXCEPT ![p] = "lost"] /\ UNCHANGED <<pid, next, final, staging>>
    BY <1>1, <1>2 DEF Rename, Goto
  <2>2. TypeOK' /\ \A q \in Proc \ {p} : pc'[q] = pc[q]
    BY <1>1, <2>1 DEF TypeOK, PC, Working
  <2>3. Achieved(p)'
    BY <1>1, <2>1 DEF TypeOK, Achieved, Writing
  <2> QED
    BY <1>1, <2>1, <2>2, <2>3, NoWriteKeeps
<1>3. CASE CanRename(p)
  <2>1. /\ final' = [final EXCEPT ![Home(p)] = Complete(BundleOf[p])]
        /\ SetStaging(p, Absent)
        /\ pc' = [pc EXCEPT ![p] = "run"]
        /\ UNCHANGED <<pid, next>>
    BY <1>1, <1>3, CompleteAtRename DEF Rename, Goto
  <2>2. /\ staging' \in [Dir -> [Pid -> Folder]]
        /\ \A d \in Dir : \A n \in Pid :
             staging'[d][n] = IF d = Home(p) /\ n = pid[p] THEN Absent ELSE staging[d][n]
    BY <1>1, <2>1, FolderType, SetStagingEffect
  <2>3. Home(p) \in Dir /\ BundleOf[p] \in Bundle /\ Complete(BundleOf[p]) \in Folder
    BY <1>1, StgType, FolderType
  <2>4. TypeOK'
    BY <1>1, <2>1, <2>2, <2>3 DEF TypeOK, PC
  <2>5. \A d \in Dir : final'[d] = IF d = Home(p) THEN Complete(BundleOf[p]) ELSE final[d]
    BY <1>1, <2>1 DEF TypeOK
  <2>6. NoHalfWrittenBundle' /\ NothingInAbsent'
    <3>1. Complete(BundleOf[p]).present /\ DirOf[BundleOf[p]] = Home(p)
      BY DEF Complete, Home
    <3> HIDE DEF Home
    <3> QED
      BY <2>3, <2>5, <3>1 DEF IInv, NoHalfWrittenBundle, NothingInAbsent
  <2>7. StagedFilesBelong'
    <3>1. \A j \in FileNo : Absent.file[j] = Missing
      BY DEF Absent, NoFiles
    <3> QED
      BY <2>2, <3>1 DEF IInv, StagedFilesBelong
  <2>8. /\ LivePidsDiffer'
        /\ \A q \in Proc \ {p} : Achieved(q)'
    <3>1. \A q \in Proc \ {p} : pc'[q] = pc[q] /\ next'[q] = next[q]
      BY <1>1, <2>1 DEF TypeOK
    <3>2. Complete(BundleOf[p]).present
      BY DEF Complete
    <3>3. \A d \in Dir : final[d].present => final'[d].present
      BY <2>5, <3>2
    <3> QED
      BY <1>1, <2>1, <2>2, <2>4, <3>1, <3>3, OthersKeep
  <2>9. Achieved(p)'
    BY <1>1, <2>1, <2>3, <2>5 DEF TypeOK, Achieved, Writing, Complete, Home
  <2> QED
    BY <2>4, <2>6, <2>7, <2>8, <2>9 DEF IInv
<1> QED
  BY <1>2, <1>3

\* Every step of any process keeps the invariant.
LEMMA NextKeeps == OnePidSpace /\ IInv /\ [Next]_vars => IInv'
<1> SUFFICES ASSUME OnePidSpace, IInv, [Next]_vars PROVE IInv'
  OBVIOUS
<1>1. CASE Next
  <2>1. PICK p \in Proc :
          Start(p) \/ Step(p) \/ Again(p) \/ Exit(p) \/ IoError(p) \/ Crash(p)
    BY <1>1 DEF Next
  <2> QED
    BY <2>1, StartKeeps, DecideKeeps, RemoveFileKeeps, RemoveDirKeeps, MakeKeeps,
       OpenKeeps, FillKeeps, ChmodKeeps, RenameKeeps DEF Step
<1>2. CASE UNCHANGED vars
  <2>1. TypeOK' /\ LivePidsDiffer'
    BY <1>2 DEF vars, IInv, TypeOK, LivePidsDiffer, Live
  <2>2. StagedFilesBelong' /\ NoHalfWrittenBundle' /\ NothingInAbsent'
    BY <1>2 DEF vars, IInv, StagedFilesBelong, NoHalfWrittenBundle, NothingInAbsent
  <2>3. \A p \in Proc : Achieved(p)'
    BY <1>2 DEF vars, IInv, Achieved, Stg, Home
  <2> QED
    BY <2>1, <2>2, <2>3 DEF IInv
<1> QED
  BY <1>1, <1>2

-----------------------------------------------------------------------------
(* The theorems                                                            *)

\* The invariant holds in every state of every run of processes that share one
\* process id space.
THEOREM Invariance == OnePidSpace /\ Spec => []IInv
<1> SUFFICES ASSUME OnePidSpace PROVE Spec => []IInv
  OBVIOUS
<1>1. Init => IInv
  BY InitHolds
<1>2. IInv /\ [Next]_vars => IInv'
  BY NextKeeps
<1> QED
  BY <1>1, <1>2, PTL DEF Spec

\* Every variable has its type in every state.
THEOREM TypeCorrect == OnePidSpace /\ Spec => []TypeOK
<1>1. IInv => TypeOK
  BY DEF IInv
<1> QED
  BY <1>1, Invariance, PTL

\* The comment on `unpack`: a concurrent first run cannot see a half-written
\* bundle, whatever crashes, fails or reuses a process id, as long as no two
\* running processes have the same id.
THEOREM NeverHalfWritten == OnePidSpace /\ Spec => []NoHalfWrittenBundle
<1>1. IInv => NoHalfWrittenBundle
  BY DEF IInv
<1> QED
  BY <1>1, Invariance, PTL

\* The directory `unpack` returns holds the caller's whole bundle.
THEOREM AlwaysRunsItsOwn == OnePidSpace /\ Spec => []RunsItsOwnBundle
<1>1. IInv => RunsItsOwnBundle
  <2> SUFFICES ASSUME IInv, NEW p \in Proc, pc[p] = "run"
               PROVE  final[Home(p)] = Complete(BundleOf[p])
    BY DEF RunsItsOwnBundle
  <2>1. TypeOK /\ NoHalfWrittenBundle /\ final[Home(p)].present
    BY DEF IInv, Achieved
  <2> QED
    BY <2>1, InPlaceIsComplete
<1> QED
  BY <1>1, Invariance, PTL

-----------------------------------------------------------------------------
(* What a step does to the directories in place.                           *)

\* Only a successful rename changes a directory in place, to the whole bundle,
\* and one that is there keeps what it holds.
LEMMA InPlaceStep ==
  ASSUME IInv, NEW p \in Proc,
         Start(p) \/ Step(p) \/ Again(p) \/ Exit(p) \/ IoError(p) \/ Crash(p)
  PROVE  \/ /\ pc[p] = "rename" /\ pc' = [pc EXCEPT ![p] = "run"]
            /\ final' = [final EXCEPT ![Home(p)] = Complete(BundleOf[p])]
            /\ final[Home(p)].present => final[Home(p)] = Complete(BundleOf[p])
         \/ UNCHANGED final /\ (pc[p] = "rename" => pc'[p] # "run")
<1>1. TypeOK /\ Achieved(p)
  BY DEF IInv
<1>2. CASE Rename(p)
  <2>1. CASE CanRename(p)
    <3>1. pc[p] = "rename" /\ Stg(p) = Complete(BundleOf[p])
      BY <1>2, CompleteAtRename DEF Rename
    <3>2. final[Home(p)].present => final[Home(p)] = Complete(BundleOf[p])
      BY <1>1, InPlaceIsComplete DEF IInv
    <3> QED
      BY <1>2, <2>1, <3>1, <3>2 DEF Rename, Goto
  <2>2. CASE ~CanRename(p)
    BY <1>1, <1>2, <2>2 DEF Rename, Goto, TypeOK
  <2> QED
    BY <2>1, <2>2
<1>3. CASE Fill(p)
  <2>1. Stg(p).file[next[p]].stage = "created" /\ next[p] \in FileNo
    BY <1>1, <1>3, StgType, ConstantTypes DEF TypeOK, Achieved, FileNo, Fill
  <2>2. final[Home(p)].file[next[p]].stage # "created"
    BY <2>1, NothingUnfinishedInPlace
  <2> QED
    BY <1>3, <2>1, <2>2 DEF Fill
<1>4. CASE ~Rename(p) /\ ~Fill(p)
  <2>1. UNCHANGED final
    BY <1>4 DEF Start, Step, Check, RemoveFile, RemoveDir, RemoveFails, MakeParent, Open,
                Chmod, MakeStaging, Lost, Again, Exit, IoError, Crash
  <2>2. pc[p] = "rename" => IoError(p) \/ Crash(p)
    BY <1>4 DEF Start, Step, Check, RemoveFile, RemoveDir, RemoveFails, MakeParent, Open,
                Chmod, MakeStaging, Lost, Again, Exit
  <2> QED
    BY <1>1, <2>1, <2>2 DEF IoError, Crash, Goto, TypeOK
<1> QED
  BY <1>2, <1>3, <1>4

\* No step touches a bundle that is in place.
LEMMA InstalledStep ==
  ASSUME IInv, [Next]_vars
  PROVE  InstalledStays
<1>1. CASE Next
  <2>1. PICK p \in Proc :
          Start(p) \/ Step(p) \/ Again(p) \/ Exit(p) \/ IoError(p) \/ Crash(p)
    BY <1>1 DEF Next
  <2>2. \/ /\ final' = [final EXCEPT ![Home(p)] = Complete(BundleOf[p])]
           /\ final[Home(p)].present => final[Home(p)] = Complete(BundleOf[p])
        \/ UNCHANGED final
    BY <2>1, InPlaceStep
  <2>3. final \in [Dir -> Folder]
    BY DEF IInv, TypeOK
  <2> QED
    BY <2>2, <2>3 DEF InstalledStays
<1>2. CASE UNCHANGED vars
  BY <1>2 DEF vars, InstalledStays
<1> QED
  BY <1>1, <1>2

\* "An existing directory is never stale": what is in place is never touched.
THEOREM NeverTouched == OnePidSpace /\ Spec => InstalledIsImmutable
<1>1. IInv /\ [Next]_vars => [InstalledStays]_vars
  BY InstalledStep
<1> QED
  BY <1>1, Invariance, PTL DEF Spec, InstalledIsImmutable

-----------------------------------------------------------------------------
(* BundleUnpack implements BundleStore.                                    *)

\* The bundle a directory is named after is that of every process whose home it is.
LEMMA BundleAtHome ==
  ASSUME TypeOK, NEW p \in Proc
  PROVE  BundleAt(Home(p)) = BundleOf[p]
BY StgType, OneBundlePerDir DEF BundleAt, Home

\* Initially the store is empty and every user away.
LEMMA InitImplements == Init => Store!Init
BY DEF Init, Store!Init, storeBar, userBar, Absent

\* What a process that is at label l is doing, seen from outside.
UserAt(l) == CASE l = "idle" -> "away"
               [] l = "run" -> "running"
               [] l \in {"done", "failed", "dead"} -> "gone"
               [] OTHER -> "asking"

\* A step moves p alone, and p only gets to run what is in place.
LEMMA UserStep ==
  ASSUME IInv, NEW p \in Proc,
         Start(p) \/ Step(p) \/ Again(p) \/ Exit(p) \/ IoError(p) \/ Crash(p)
  PROVE  /\ userBar' = [userBar EXCEPT ![p] = UserAt(pc'[p])]
         /\ userBar[p] = UserAt(pc[p])
         /\ \/ UserAt(pc[p]) = UserAt(pc'[p])
            \/ UserAt(pc[p]) \in {"away", "running"} /\ UserAt(pc'[p]) = "asking"
            \/ UserAt(pc[p]) \in {"asking", "running"} /\ UserAt(pc'[p]) = "gone"
            \/ /\ UserAt(pc[p]) = "asking" /\ UserAt(pc'[p]) = "running"
               /\ pc[p] # "rename" => final[Home(p)].present
<1>1. pc \in [Proc -> PC] /\ Achieved(p)
  BY DEF IInv, TypeOK
<1>2. \E l \in PC : pc' = [pc EXCEPT ![p] = l]
  <2>1. RemoveFile(p) => pc' = [pc EXCEPT ![p] = pc[p]]
    BY <1>1 DEF RemoveFile
  <2> QED
    BY <1>1, <2>1 DEF Start, Step, Check, RemoveDir, RemoveFails, AfterRemove, MakeParent, Open,
        Fill, Chmod, MakeStaging, Rename, Lost, Again, Exit, IoError, Crash, Goto,
        PC, Stopped, Working, Writing
<1>3. /\ userBar' = [userBar EXCEPT ![p] = UserAt(pc'[p])]
      /\ userBar[p] = UserAt(pc[p])
  BY <1>1, <1>2 DEF userBar, UserAt
<1>4. CASE Start(p) \/ Check(p) \/ Again(p) \/ Exit(p) \/ IoError(p) \/ Crash(p) \/ Lost(p)
  BY <1>1, <1>3, <1>4 DEF Start, Check, Again, Exit, IoError, Crash, Lost, Goto, UserAt,
                          PC, Working, Writing, Live, Stopped
<1>5. CASE RemoveFile(p) \/ RemoveDir(p) \/ RemoveFails(p)
  BY <1>1, <1>3, <1>5 DEF RemoveFile, RemoveDir, RemoveFails, AfterRemove, Goto, UserAt,
                          Achieved
<1>6. CASE MakeParent(p) \/ Open(p) \/ Fill(p) \/ Chmod(p) \/ MakeStaging(p) \/ Rename(p)
  BY <1>1, <1>3, <1>6 DEF MakeParent, Open, Fill, Chmod, MakeStaging, Rename, Goto, UserAt
<1> QED
  BY <1>3, <1>4, <1>5, <1>6 DEF Step

\* To give an argument of a function the value it has changes nothing.
LEMMA SameUpdate ==
  ASSUME NEW S, NEW f, f = [x \in S |-> f[x]], NEW a
  PROVE  [f EXCEPT ![a] = f[a]] = f
OBVIOUS

\* Every step is a step of the store, or changes nothing that can be seen of it.
LEMMA StepImplements ==
  ASSUME IInv, [Next]_vars
  PROVE  [Store!Next]_(Store!vars)
<1>1. CASE UNCHANGED vars
  BY <1>1 DEF vars, Store!vars, storeBar, userBar
<1>2. CASE Next
  <2>1. PICK p \in Proc :
          Start(p) \/ Step(p) \/ Again(p) \/ Exit(p) \/ IoError(p) \/ Crash(p)
    BY <1>2 DEF Next
  <2>2. /\ TypeOK
        /\ Home(p) \in Dir
        /\ BundleAt(Home(p)) = BundleOf[p]
        /\ Store!Home(p) = Home(p)
    BY StgType, BundleAtHome DEF IInv, Store!Home, Home
  <2>3. storeBar[Home(p)] = IF final[Home(p)].present THEN BundleOf[p] ELSE NoBundle
    BY <2>2 DEF storeBar
  <2>4. /\ userBar' = [userBar EXCEPT ![p] = UserAt(pc'[p])]
        /\ userBar[p] = UserAt(pc[p])
    BY <2>1, UserStep
  <2>5. CASE UNCHANGED final /\ (pc[p] = "rename" => pc'[p] # "run")
    <3>1. storeBar' = storeBar
      BY <2>5 DEF storeBar
    <3>2. CASE UserAt(pc[p]) = UserAt(pc'[p])
      <4>1. userBar' = [userBar EXCEPT ![p] = userBar[p]]
        BY <2>4, <3>2
      <4>2. userBar = [q \in Proc |-> userBar[q]]
        BY DEF userBar
      <4>3. userBar' = userBar
        BY <4>1, <4>2, SameUpdate
      <4> QED
        BY <3>1, <4>3 DEF Store!vars
    <3>3. CASE UserAt(pc[p]) \in {"away", "running"} /\ UserAt(pc'[p]) = "asking"
      BY <2>4, <3>1, <3>3 DEF Store!Next, Store!Ask
    <3>4. CASE UserAt(pc[p]) \in {"asking", "running"} /\ UserAt(pc'[p]) = "gone"
      BY <2>4, <3>1, <3>4 DEF Store!Next, Store!Leave
    <3>5. CASE UserAt(pc[p]) = "asking" /\ UserAt(pc'[p]) = "running" /\ final[Home(p)].present
      BY <2>2, <2>3, <2>4, <3>1, <3>5 DEF Store!Next, Store!Reuse
    <3>6. UserAt(pc'[p]) = "running" => pc'[p] = "run"
      BY DEF UserAt
    <3> QED
      BY <2>1, <2>5, <3>2, <3>3, <3>4, <3>5, <3>6, UserStep
  <2>6. CASE /\ pc[p] = "rename" /\ pc' = [pc EXCEPT ![p] = "run"]
             /\ final' = [final EXCEPT ![Home(p)] = Complete(BundleOf[p])]
             /\ final[Home(p)].present => final[Home(p)] = Complete(BundleOf[p])
    <3>1. UserAt(pc[p]) = "asking" /\ UserAt(pc'[p]) = "running"
      BY <2>2, <2>6 DEF UserAt, TypeOK
    <3>2. storeBar' = [storeBar EXCEPT ![Home(p)] = BundleOf[p]]
      <4>1. \A d \in Dir : final'[d] = IF d = Home(p) THEN Complete(BundleOf[p]) ELSE final[d]
        BY <2>2, <2>6 DEF TypeOK
      <4>2. Complete(BundleOf[p]).present
        BY DEF Complete
      <4> QED
        BY <2>2, <4>1, <4>2 DEF storeBar
    <3>3. CASE final[Home(p)].present
      <4>1. storeBar' = storeBar
        BY <2>3, <3>2, <3>3 DEF storeBar
      <4> QED
        BY <2>2, <2>3, <2>4, <3>1, <3>3, <4>1 DEF Store!Next, Store!Reuse
    <3>4. CASE ~final[Home(p)].present
      BY <2>2, <2>3, <2>4, <3>1, <3>2, <3>4 DEF Store!Next, Store!Install
    <3> QED
      BY <3>3, <3>4
  <2> QED
    BY <2>1, <2>5, <2>6, InPlaceStep
<1> QED
  BY <1>1, <1>2

\* Seen from outside, the file system calls of all the processes are bundles
\* that appear whole in one step and are only reused from then on.
THEOREM Implementation == OnePidSpace /\ Spec => ImplementsBundleStore
<1>1. Init => Store!Init
  BY InitImplements
<1>2. IInv /\ [Next]_vars => [Store!Next]_(Store!vars)
  BY StepImplements
<1> QED
  BY <1>1, <1>2, Invariance, PTL DEF Spec, Store!Spec, ImplementsBundleStore

-----------------------------------------------------------------------------
(* Whatever the process id spaces: two processes may have the same staging *)
(* directory at the same time.                                             *)

\* The file a process is at is one of its bundle.
AtItsFile(p) == pc[p] \in {"open", "fill", "chmod"} => next[p] <= FileCount[BundleOf[p]]

\* The inductive invariant.
SharedInv ==
  /\ TypeOK
  /\ StagedFilesBelong
  /\ NeverMixesBundles
  /\ \A p \in Proc : AtItsFile(p)

\* Whose staging directory is there: a process past its first check makes one
\* and is past it until the directory is gone.
PastCheck == (Working \ {"check"}) \cup {"failed", "dead"}
StagedHasOwner ==
  \A d \in Dir : \A n \in Pid : staging[d][n].present =>
    \E p \in Proc : Home(p) = d /\ pid[p] = n /\ pc[p] \in PastCheck

\* What a directory may have in it, wherever it is.
Belongs(d, folder) ==
  \A j \in FileNo : folder.file[j] # Missing =>
    \E b \in Bundle : DirOf[b] = d /\ j <= FileCount[b] /\ folder.file[j].of = b

\* A step of p puts into the directories of its bundle only what belongs there.
LEMMA SharedStep ==
  ASSUME SharedInv, TypeOK', NEW p \in Proc,
         \A d \in Dir : \A n \in Pid :
           staging'[d][n] = staging[d][n] \/ Belongs(d, staging'[d][n]),
         \A d \in Dir : final'[d] = final[d] \/ Belongs(d, final'[d]),
         \A q \in Proc \ {p} : pc'[q] = pc[q] /\ next'[q] = next[q],
         AtItsFile(p)'
  PROVE  SharedInv'
<1>1. StagedFilesBelong'
  <2> SUFFICES ASSUME NEW d \in Dir, NEW n \in Pid PROVE Belongs(d, staging'[d][n])
    BY DEF StagedFilesBelong, Belongs
  <2>1. Belongs(d, staging[d][n])
    BY DEF SharedInv, StagedFilesBelong, Belongs
  <2> QED
    BY <2>1
<1>2. NeverMixesBundles'
  <2> SUFFICES ASSUME NEW d \in Dir PROVE Belongs(d, final'[d])
    BY DEF NeverMixesBundles, Belongs
  <2>1. Belongs(d, final[d])
    BY DEF SharedInv, NeverMixesBundles, Belongs
  <2> QED
    BY <2>1
<1>3. \A q \in Proc : AtItsFile(q)'
  BY DEF SharedInv, AtItsFile
<1> QED
  BY <1>1, <1>2, <1>3 DEF SharedInv

\* The steps that touch no directory.
LEMMA SharedDecide ==
  ASSUME SharedInv, NEW p \in Proc,
         Start(p) \/ Check(p) \/ RemoveFails(p) \/ Lost(p) \/ Again(p) \/ Exit(p)
           \/ IoError(p) \/ Crash(p)
  PROVE  SharedInv'
<1> USE DEF Goto
<1>1. TypeOK /\ AtItsFile(p)
  BY DEF SharedInv
<1>2. UNCHANGED <<final, staging>>
  BY DEF Start, Check, RemoveFails, Lost, Again, Exit, IoError, Crash
<1>3. \E l \in PC \ {"open", "fill", "chmod"} : pc' = [pc EXCEPT ![p] = l]
  BY DEF Start, Check, RemoveFails, AfterRemove, Lost, Again, Exit, IoError, Crash,
         PC, Stopped, Working, Writing
<1>4. next' = next \/ next' = [next EXCEPT ![p] = 1]
  BY DEF Start, Check, RemoveFails, AfterRemove, Lost, Again, Exit, IoError, Crash
<1>5. pid' = pid \/ \E n \in Pid : pid' = [pid EXCEPT ![p] = n]
  BY DEF Start, Check, RemoveFails, Lost, Again, Exit, IoError, Crash
<1>6. 1 \in 1..(MaxFiles + 1)
  BY ConstantTypes
<1>7. TypeOK'
  BY <1>1, <1>2, <1>3, <1>4, <1>5, <1>6 DEF TypeOK
<1>8. AtItsFile(p)' /\ \A q \in Proc \ {p} : pc'[q] = pc[q] /\ next'[q] = next[q]
  BY <1>1, <1>3, <1>4 DEF TypeOK, AtItsFile
<1> QED
  BY <1>2, <1>7, <1>8, SharedStep

\* The steps that write to the staging directory alone.
LEMMA SharedWrite ==
  ASSUME SharedInv, NEW p \in Proc, NEW folder \in Folder, Belongs(Home(p), folder),
         SetStaging(p, folder), UNCHANGED <<pid, final>>,
         NEW l \in PC, pc' = [pc EXCEPT ![p] = l],
         NEW m \in 1..(MaxFiles + 1), next' = [next EXCEPT ![p] = m],
         l \in {"open", "fill", "chmod"} => m <= FileCount[BundleOf[p]]
  PROVE  SharedInv'
<1>1. TypeOK
  BY DEF SharedInv
<1>2. /\ staging' \in [Dir -> [Pid -> Folder]]
      /\ \A d \in Dir : \A n \in Pid :
           staging'[d][n] = IF d = Home(p) /\ n = pid[p] THEN folder ELSE staging[d][n]
  BY <1>1, SetStagingEffect
<1>3. TypeOK'
  BY <1>1, <1>2 DEF TypeOK
<1>4. AtItsFile(p)' /\ \A q \in Proc \ {p} : pc'[q] = pc[q] /\ next'[q] = next[q]
  BY <1>1 DEF TypeOK, AtItsFile
<1> QED
  BY <1>2, <1>3, <1>4, SharedStep

\* A staging directory stays what it should be when one of its files goes, or
\* becomes one of the bundle.
LEMMA StillBelongs ==
  ASSUME SharedInv, NEW p \in Proc, NEW folder,
         \A j \in FileNo : \/ folder.file[j] \in {Missing, Stg(p).file[j]}
                           \/ j <= FileCount[BundleOf[p]] /\ folder.file[j].of = BundleOf[p]
  PROVE  Belongs(Home(p), folder)
<1>1. TypeOK /\ Belongs(Home(p), Stg(p))
  BY StgType DEF SharedInv, StagedFilesBelong, Belongs, Stg
<1>2. BundleOf[p] \in Bundle /\ DirOf[BundleOf[p]] = Home(p)
  BY <1>1, StgType DEF Home
<1> SUFFICES ASSUME NEW j \in FileNo, folder.file[j] # Missing
             PROVE  \E b \in Bundle : DirOf[b] = Home(p) /\ j <= FileCount[b] /\ folder.file[j].of = b
  BY DEF Belongs
<1>3. CASE folder.file[j] = Stg(p).file[j]
  BY <1>1, <1>3 DEF Belongs
<1>4. CASE j <= FileCount[BundleOf[p]] /\ folder.file[j].of = BundleOf[p]
  BY <1>2, <1>4
<1> QED
  BY <1>3, <1>4

LEMMA SharedRemove ==
  ASSUME SharedInv, NEW p \in Proc, RemoveFile(p) \/ RemoveDir(p)
  PROVE  SharedInv'
<1>1. TypeOK /\ pc[p] \in PC /\ next[p] \in 1..(MaxFiles + 1) /\ 1 \in 1..(MaxFiles + 1)
  BY ConstantTypes DEF SharedInv, TypeOK
<1>2. CASE RemoveFile(p)
  <2>1. PICK j \in FileNo : SetStaging(p, StagedWith(p, j, Missing))
    BY <1>2 DEF RemoveFile
  <2> DEFINE folder == StagedWith(p, j, Missing)
  <2>2. /\ folder \in Folder
        /\ \A k \in FileNo : folder.file[k] = IF k = j THEN Missing ELSE Stg(p).file[k]
    BY <1>1, StagedWithType, FolderType
  <2> HIDE DEF folder
  <2>3. SetStaging(p, folder)
    BY <2>1 DEF folder
  <2>4. Belongs(Home(p), folder)
    BY <2>2, StillBelongs
  <2>5. pc' = [pc EXCEPT ![p] = pc[p]] /\ next' = [next EXCEPT ![p] = next[p]]
    BY <1>1, <1>2 DEF RemoveFile, TypeOK
  <2>6. UNCHANGED <<pid, final>> /\ pc[p] \notin {"open", "fill", "chmod"}
    BY <1>2 DEF RemoveFile
  <2> QED
    BY <1>1, <2>2, <2>3, <2>4, <2>5, <2>6, SharedWrite
<1>3. CASE RemoveDir(p)
  <2>1. \A j \in FileNo : Absent.file[j] = Missing
    BY DEF Absent, NoFiles
  <2>2. Belongs(Home(p), Absent)
    BY <2>1, StillBelongs
  <2>3. \E l \in {"file", "run"} : pc' = [pc EXCEPT ![p] = l]
    BY <1>3 DEF RemoveDir, AfterRemove, Goto
  <2>4. \E m \in 1..(MaxFiles + 1) : next' = [next EXCEPT ![p] = m]
    <3>1. next' = next \/ next' = [next EXCEPT ![p] = 1]
      BY <1>3 DEF RemoveDir, AfterRemove
    <3>2. next = [next EXCEPT ![p] = next[p]]
      BY <1>1 DEF TypeOK
    <3> QED
      BY <1>1, <3>1, <3>2
  <2>5. {"file", "run"} \subseteq PC \ {"open", "fill", "chmod"}
    BY DEF PC, Working, Writing
  <2> QED
    BY <1>1, <1>3, <2>2, <2>3, <2>4, <2>5, FolderType, SharedWrite DEF RemoveDir
<1> QED
  BY <1>2, <1>3

LEMMA SharedMake ==
  ASSUME SharedInv, NEW p \in Proc, MakeParent(p) \/ MakeStaging(p)
  PROVE  SharedInv'
<1> DEFINE folder == [Stg(p) EXCEPT !.present = TRUE]
<1>1. TypeOK /\ next[p] \in 1..(MaxFiles + 1)
  BY DEF SharedInv, TypeOK
<1>2. folder \in Folder /\ folder.file = Stg(p).file
  BY <1>1, StgType DEF Folder
<1>3. SetStaging(p, folder) /\ UNCHANGED <<pid, next, final>>
  BY DEF MakeParent, MakeStaging
<1> HIDE DEF folder
<1>4. Belongs(Home(p), folder)
  BY <1>2, StillBelongs
<1>5. next' = [next EXCEPT ![p] = next[p]]
  BY <1>1, <1>3 DEF TypeOK
<1>6. \E l \in {"open", "rename"} : /\ pc' = [pc EXCEPT ![p] = l]
                                    /\ l = "open" => next[p] <= FileCount[BundleOf[p]]
  BY DEF MakeParent, MakeStaging, Goto
<1>7. {"open", "rename"} \subseteq PC
  BY DEF PC, Working, Writing
<1> QED
  BY <1>1, <1>2, <1>3, <1>4, <1>5, <1>6, <1>7, SharedWrite

\* One file of p's bundle, in any stage.
LEMMA SharedFile ==
  ASSUME SharedInv, NEW p \in Proc, pc[p] \in {"open", "fill", "chmod"}, NEW s \in Stage
  PROVE  LET f == [stage |-> s, of |-> BundleOf[p]]
         IN  /\ next[p] \in FileNo /\ f \in File
             /\ StagedWith(p, next[p], f) \in Folder
             /\ Belongs(Home(p), StagedWith(p, next[p], f))
<1> DEFINE f == [stage |-> s, of |-> BundleOf[p]]
           folder == StagedWith(p, next[p], f)
<1>1. TypeOK /\ next[p] <= FileCount[BundleOf[p]]
  BY DEF SharedInv, AtItsFile
<1>2. next[p] \in FileNo /\ f \in File /\ f.of = BundleOf[p]
  BY <1>1, StgType, ConstantTypes DEF TypeOK, File, FileNo
<1> HIDE DEF f
<1>3. /\ folder \in Folder
      /\ \A k \in FileNo : folder.file[k] = IF k = next[p] THEN f ELSE Stg(p).file[k]
  BY <1>1, <1>2, StagedWithType
<1> HIDE DEF folder
<1>4. \A k \in FileNo : \/ folder.file[k] \in {Missing, Stg(p).file[k]}
                        \/ k <= FileCount[BundleOf[p]] /\ folder.file[k].of = BundleOf[p]
  BY <1>1, <1>2, <1>3
<1>5. Belongs(Home(p), folder)
  BY <1>4, StillBelongs
<1> QED
  BY <1>2, <1>3, <1>5 DEF f, folder

LEMMA SharedOpen ==
  ASSUME SharedInv, NEW p \in Proc, Open(p)
  PROVE  SharedInv'
<1>1. /\ TypeOK /\ pc[p] = "open" /\ next[p] \in 1..(MaxFiles + 1)
      /\ next[p] <= FileCount[BundleOf[p]] /\ UNCHANGED <<pid, next, final>>
  BY DEF SharedInv, TypeOK, AtItsFile, Open
<1>2. next' = [next EXCEPT ![p] = next[p]]
  BY <1>1 DEF TypeOK
<1>3. CASE Stg(p).present
  <2> DEFINE folder == StagedWith(p, next[p], [stage |-> "created", of |-> BundleOf[p]])
  <2>1. "created" \in Stage /\ "fill" \in PC
    BY DEF Stage, PC, Working, Writing
  <2>2. folder \in Folder /\ Belongs(Home(p), folder)
    BY <1>1, <2>1, SharedFile
  <2>3. SetStaging(p, folder) /\ pc' = [pc EXCEPT ![p] = "fill"]
    BY <1>3 DEF Open, Goto
  <2> HIDE DEF folder
  <2> QED
    BY <1>1, <1>2, <2>1, <2>2, <2>3, SharedWrite
<1>4. CASE ~Stg(p).present
  <2>1. pc' = [pc EXCEPT ![p] = "failed"] /\ UNCHANGED staging /\ "failed" \in PC
    BY <1>4 DEF Open, Goto, PC, Stopped
  <2>2. TypeOK' /\ AtItsFile(p)' /\ \A q \in Proc \ {p} : pc'[q] = pc[q] /\ next'[q] = next[q]
    BY <1>1, <2>1 DEF TypeOK, AtItsFile
  <2> QED
    BY <1>1, <2>1, <2>2, SharedStep
<1> QED
  BY <1>3, <1>4

LEMMA SharedFill ==
  ASSUME SharedInv, NEW p \in Proc, Fill(p)
  PROVE  SharedInv'
<1> DEFINE f == [stage |-> "written", of |-> BundleOf[p]]
           j == next[p]
<1>1. /\ TypeOK /\ pc[p] = "fill" /\ next[p] \in 1..(MaxFiles + 1)
      /\ next[p] <= FileCount[BundleOf[p]] /\ UNCHANGED <<pid, next>>
      /\ pc' = [pc EXCEPT ![p] = "chmod"]
  BY DEF SharedInv, TypeOK, AtItsFile, Fill, Goto
<1>2. next' = [next EXCEPT ![p] = next[p]]
  BY <1>1 DEF TypeOK
<1>3. "written" \in Stage /\ "chmod" \in PC
  BY DEF Stage, PC, Working, Writing
<1>4. /\ j \in FileNo /\ f \in File /\ f.of = BundleOf[p]
      /\ StagedWith(p, j, f) \in Folder /\ Belongs(Home(p), StagedWith(p, j, f))
  BY <1>1, <1>3, SharedFile
<1>5. AtItsFile(p)' /\ \A q \in Proc \ {p} : pc'[q] = pc[q] /\ next'[q] = next[q]
  BY <1>1 DEF TypeOK, AtItsFile
<1>6. CASE SetStaging(p, StagedWith(p, j, f)) /\ UNCHANGED final
  <2> DEFINE folder == StagedWith(p, j, f)
  <2>1. folder \in Folder /\ Belongs(Home(p), folder) /\ SetStaging(p, folder)
    BY <1>4, <1>6
  <2> HIDE DEF folder
  <2> QED
    BY <1>1, <1>2, <1>3, <1>6, <2>1, SharedWrite
<1>7. CASE final' = [final EXCEPT ![Home(p)].file[j] = f] /\ UNCHANGED staging
  <2>1. /\ Home(p) \in Dir /\ final \in [Dir -> Folder] /\ BundleOf[p] \in Bundle
        /\ DirOf[BundleOf[p]] = Home(p)
    BY <1>1, StgType DEF TypeOK, Home
  <2> DEFINE old == final[Home(p)]
             new == [old EXCEPT !.file[j] = f]
  <2> HIDE DEF f, j
  <2>2. final' = [final EXCEPT ![Home(p)] = new]
    BY <1>7
  <2>3. /\ old \in Folder /\ new \in Folder
        /\ \A k \in FileNo : new.file[k] = IF k = j THEN f ELSE old.file[k]
    BY <1>4, <2>1 DEF Folder
  <2>4. Belongs(Home(p), new)
    <3>1. Belongs(Home(p), old)
      BY <2>1 DEF SharedInv, NeverMixesBundles, Belongs
    <3>2. j <= FileCount[BundleOf[p]]
      BY <1>1 DEF j
    <3> HIDE DEF old, new
    <3> SUFFICES ASSUME NEW k \in FileNo, new.file[k] # Missing
                 PROVE  \E b \in Bundle : DirOf[b] = Home(p) /\ k <= FileCount[b] /\ new.file[k].of = b
      BY DEF Belongs
    <3>3. CASE k = j
      BY <1>4, <2>1, <2>3, <3>2, <3>3
    <3>4. CASE k # j
      BY <2>3, <3>1, <3>4 DEF Belongs
    <3> QED
      BY <3>3, <3>4
  <2> HIDE DEF old, new
  <2>5. TypeOK'
    BY <1>1, <1>3, <1>7, <2>1, <2>2, <2>3 DEF TypeOK
  <2>6. \A d \in Dir : final'[d] = final[d] \/ Belongs(d, final'[d])
    BY <2>1, <2>2, <2>4
  <2> QED
    BY <1>5, <1>7, <2>5, <2>6, SharedStep
<1>8. CASE UNCHANGED <<final, staging>>
  <2>1. TypeOK'
    BY <1>1, <1>3, <1>8 DEF TypeOK
  <2> QED
    BY <1>5, <1>8, <2>1, SharedStep
<1> QED
  BY <1>6, <1>7, <1>8 DEF Fill

LEMMA SharedChmod ==
  ASSUME SharedInv, NEW p \in Proc, Chmod(p)
  PROVE  SharedInv'
<1>1. /\ TypeOK /\ pc[p] = "chmod" /\ next[p] \in 1..(MaxFiles + 1)
      /\ next[p] <= FileCount[BundleOf[p]] /\ UNCHANGED <<pid, final>>
  BY DEF SharedInv, TypeOK, AtItsFile, Chmod
<1>2. next[p] + 1 \in 1..(MaxFiles + 1)
  BY <1>1, StgType, ConstantTypes
<1>3. "ready" \in Stage /\ {"file", "failed"} \subseteq PC \ {"open", "fill", "chmod"}
  BY DEF Stage, PC, Working, Writing, Stopped
<1> DEFINE folder == StagedWith(p, next[p], [stage |-> "ready", of |-> BundleOf[p]])
<1>4. folder \in Folder /\ Belongs(Home(p), folder)
  BY <1>1, <1>3, SharedFile
<1>5. CASE SetStaging(p, folder)
  <2>1. \E l \in {"file", "failed"} : pc' = [pc EXCEPT ![p] = l]
    BY DEF Chmod, Goto
  <2>2. \E m \in 1..(MaxFiles + 1) : next' = [next EXCEPT ![p] = m]
    <3>1. next' = next \/ next' = [next EXCEPT ![p] = next[p] + 1]
      BY DEF Chmod
    <3>2. next = [next EXCEPT ![p] = next[p]]
      BY <1>1 DEF TypeOK
    <3> QED
      BY <1>1, <1>2, <3>1, <3>2
  <2> HIDE DEF folder
  <2> QED
    BY <1>1, <1>3, <1>4, <1>5, <2>1, <2>2, SharedWrite
<1>6. CASE UNCHANGED staging
  <2>1. \E l \in {"file", "failed"} : pc' = [pc EXCEPT ![p] = l]
    BY DEF Chmod, Goto
  <2>2. next' = next \/ next' = [next EXCEPT ![p] = next[p] + 1]
    BY DEF Chmod
  <2>3. TypeOK' /\ AtItsFile(p)' /\ \A q \in Proc \ {p} : pc'[q] = pc[q] /\ next'[q] = next[q]
    BY <1>1, <1>2, <1>3, <1>6, <2>1, <2>2 DEF TypeOK, AtItsFile
  <2> QED
    BY <1>1, <1>6, <2>3, SharedStep
<1> QED
  BY <1>5, <1>6 DEF Chmod

LEMMA SharedRename ==
  ASSUME SharedInv, NEW p \in Proc, Rename(p)
  PROVE  SharedInv'
<1>1. TypeOK /\ UNCHANGED <<pid, next>> /\ Home(p) \in Dir /\ Stg(p) \in Folder
  BY StgType DEF SharedInv, Rename
<1>2. {"run", "lost"} \subseteq PC \ {"open", "fill", "chmod"}
  BY DEF PC, Working
<1>3. \E l \in {"run", "lost"} : pc' = [pc EXCEPT ![p] = l]
  BY DEF Rename, Goto
<1>4. AtItsFile(p)' /\ \A q \in Proc \ {p} : pc'[q] = pc[q] /\ next'[q] = next[q]
  BY <1>1, <1>2, <1>3 DEF TypeOK, AtItsFile
<1>5. CASE CanRename(p)
  <2>1. final' = [final EXCEPT ![Home(p)] = Stg(p)] /\ SetStaging(p, Absent)
    BY <1>5 DEF Rename
  <2>2. /\ staging' \in [Dir -> [Pid -> Folder]]
        /\ \A d \in Dir : \A n \in Pid :
             staging'[d][n] = IF d = Home(p) /\ n = pid[p] THEN Absent ELSE staging[d][n]
    BY <1>1, <2>1, FolderType, SetStagingEffect
  <2>3. TypeOK'
    BY <1>1, <1>2, <1>3, <2>1, <2>2 DEF TypeOK
  <2>4. Belongs(Home(p), Absent)
    <3>1. \A j \in FileNo : Absent.file[j] = Missing
      BY DEF Absent, NoFiles
    <3> QED
      BY <3>1, StillBelongs
  <2>5. Belongs(Home(p), Stg(p))
    BY StillBelongs
  <2>6. \A d \in Dir : final'[d] = final[d] \/ Belongs(d, final'[d])
    BY <1>1, <2>1, <2>5 DEF TypeOK
  <2> QED
    BY <1>4, <2>2, <2>3, <2>4, <2>6, SharedStep
<1>6. CASE ~CanRename(p)
  <2>1. UNCHANGED <<final, staging>>
    BY <1>6 DEF Rename
  <2>2. TypeOK'
    BY <1>1, <1>2, <1>3, <2>1 DEF TypeOK
  <2> QED
    BY <1>4, <2>1, <2>2, SharedStep
<1> QED
  BY <1>5, <1>6

LEMMA SharedInit ==
  ASSUME Init
  PROVE  SharedInv
<1>1. TypeOK
  BY ConstantTypes, FolderType DEF Init, TypeOK, PC, Stopped
<1>2. StagedFilesBelong /\ NeverMixesBundles
  BY DEF Init, StagedFilesBelong, NeverMixesBundles, Absent, NoFiles
<1>3. \A p \in Proc : AtItsFile(p)
  BY DEF Init, AtItsFile
<1> QED
  BY <1>1, <1>2, <1>3 DEF SharedInv

LEMMA SharedKeeps ==
  ASSUME SharedInv, [Next]_vars
  PROVE  SharedInv'
<1>1. CASE Next
  <2>1. PICK p \in Proc :
          Start(p) \/ Step(p) \/ Again(p) \/ Exit(p) \/ IoError(p) \/ Crash(p)
    BY <1>1 DEF Next
  <2> QED
    BY <2>1, SharedDecide, SharedRemove, SharedMake, SharedOpen, SharedFill, SharedChmod,
       SharedRename DEF Step
<1>2. CASE UNCHANGED vars
  <2>1. TypeOK' /\ \A p \in Proc : AtItsFile(p)'
    BY <1>2 DEF vars, SharedInv, TypeOK, AtItsFile
  <2>2. StagedFilesBelong' /\ NeverMixesBundles'
    BY <1>2 DEF vars, SharedInv, StagedFilesBelong, NeverMixesBundles
  <2> QED
    BY <2>1, <2>2 DEF SharedInv
<1> QED
  BY <1>1, <1>2

\* The same whether or not the processes share one process id space.
THEOREM SharedInvariance == Spec => []SharedInv
BY SharedInit, SharedKeeps, PTL DEF Spec

\* However many machines or containers share the cache, a bundle's directory
\* never has a file in it that is another bundle's.
THEOREM NeverMixed == Spec => []NeverMixesBundles
<1>1. SharedInv => NeverMixesBundles
  BY DEF SharedInv
<1> QED
  BY <1>1, SharedInvariance, PTL

-----------------------------------------------------------------------------
(* What is left of a staging directory, whatever the process id spaces,    *)
(* when fs::remove_dir_all does what it is called for.                     *)

\* No step of p but those that take its staging directory away ends what p is
\* doing there, and none but p's own makes one.
OwnerStep(p) ==
  /\ \A q \in Proc \ {p} : pc'[q] = pc[q] /\ pid'[q] = pid[q]
  /\ \A d \in Dir : \A n \in Pid : staging'[d][n].present =>
       staging[d][n].present \/ (d = Home(p) /\ n = pid'[p] /\ pc'[p] \in PastCheck)
  /\ pc[p] \in PastCheck =>
       /\ pid'[p] = pid[p]
       /\ pc'[p] \in PastCheck \/ ~staging'[Home(p)][pid[p]].present

LEMMA OwnerStepKeeps ==
  ASSUME TypeOK, StagedHasOwner, NEW p \in Proc, OwnerStep(p)
  PROVE  StagedHasOwner'
<1> SUFFICES ASSUME NEW d \in Dir, NEW n \in Pid, staging'[d][n].present
             PROVE  \E q \in Proc : Home(q) = d /\ pid'[q] = n /\ pc'[q] \in PastCheck
  BY DEF StagedHasOwner, Home
<1>1. CASE d = Home(p) /\ n = pid'[p] /\ pc'[p] \in PastCheck
  BY <1>1
<1>2. CASE staging[d][n].present
  <2>1. PICK q \in Proc : Home(q) = d /\ pid[q] = n /\ pc[q] \in PastCheck
    BY <1>2 DEF StagedHasOwner
  <2>2. pid'[q] = n /\ pc'[q] \in PastCheck
    BY <2>1 DEF OwnerStep
  <2> QED
    BY <2>1, <2>2
<1> QED
  BY <1>1, <1>2 DEF OwnerStep

\* A program starts or looks again, neither of which is past the check.
LEMMA OwnerBegins ==
  ASSUME TypeOK, NEW p \in Proc,
         Start(p) \/ Check(p) \/ Again(p) \/ Exit(p)
  PROVE  OwnerStep(p)
<1>1. pc[p] \in {"idle", "check", "run"} /\ UNCHANGED staging
  BY DEF Start, Check, Again, Exit
<1>2. pc[p] \notin PastCheck
  BY <1>1 DEF PastCheck, Working, Writing
<1>3. \A q \in Proc \ {p} : pc'[q] = pc[q] /\ pid'[q] = pid[q]
  BY DEF TypeOK, Start, Check, Again, Exit, Goto
<1> QED
  BY <1>1, <1>2, <1>3 DEF OwnerStep

\* A process is somewhere past the check and stays so, making at most its own
\* staging directory.
LEMMA OwnerStays ==
  ASSUME TypeOK, NEW p \in Proc, UNCHANGED pid,
         NEW l \in PastCheck, pc' = [pc EXCEPT ![p] = l],
         \A d \in Dir : \A n \in Pid : staging'[d][n].present =>
           staging[d][n].present \/ (d = Home(p) /\ n = pid[p])
  PROVE  OwnerStep(p)
<1>1. pc'[p] = l /\ \A q \in Proc \ {p} : pc'[q] = pc[q]
  BY DEF TypeOK
<1> QED
  BY <1>1 DEF OwnerStep

LEMMA OwnerStops ==
  ASSUME TypeOK, NEW p \in Proc, Lost(p) \/ IoError(p) \/ Crash(p)
  PROVE  OwnerStep(p)
<1>1. UNCHANGED <<pid, staging>>
  BY DEF Lost, IoError, Crash
<1>2. \E l \in {"discard", "failed", "lost", "dead"} : pc' = [pc EXCEPT ![p] = l]
  BY DEF Lost, IoError, Crash, Goto
<1>3. {"discard", "failed", "lost", "dead"} \subseteq PastCheck
  BY DEF PastCheck, Working
<1> QED
  BY <1>1, <1>2, <1>3, OwnerStays

\* Writing to the staging directory, which is made at most.
LEMMA OwnerWrites ==
  ASSUME TypeOK, NEW p \in Proc, UNCHANGED pid,
         NEW l \in PastCheck, pc' = [pc EXCEPT ![p] = l],
         NEW folder \in Folder, SetStaging(p, folder)
  PROVE  OwnerStep(p)
<1>1. \A d \in Dir : \A n \in Pid :
        staging'[d][n] = IF d = Home(p) /\ n = pid[p] THEN folder ELSE staging[d][n]
  BY SetStagingEffect
<1> QED
  BY <1>1, OwnerStays

\* Taking the staging directory away.
LEMMA OwnerRemoves ==
  ASSUME TypeOK, NEW p \in Proc, UNCHANGED pid,
         \A q \in Proc \ {p} : pc'[q] = pc[q], SetStaging(p, Absent)
  PROVE  OwnerStep(p)
<1>1. \A d \in Dir : \A n \in Pid :
        staging'[d][n] = IF d = Home(p) /\ n = pid[p] THEN Absent ELSE staging[d][n]
  BY FolderType, SetStagingEffect
<1>2. Home(p) \in Dir /\ pid[p] \in Pid /\ ~Absent.present
  BY StgType DEF Absent
<1> QED
  BY <1>1, <1>2 DEF OwnerStep

LEMMA OwnerWorks ==
  ASSUME SharedInv, NEW p \in Proc, Step(p), ~RemoveFails(p), ~Check(p), ~Lost(p)
  PROVE  OwnerStep(p)
<1>1. TypeOK /\ Stg(p) \in Folder /\ Missing \in File
  BY StgType, FolderType DEF SharedInv
<1>2. CASE RemoveFile(p)
  <2>1. PICK j \in FileNo : SetStaging(p, StagedWith(p, j, Missing))
    BY <1>2 DEF RemoveFile
  <2>2. StagedWith(p, j, Missing) \in Folder
    BY <1>1, StagedWithType
  <2>3. pc[p] \in PastCheck /\ pc' = [pc EXCEPT ![p] = pc[p]] /\ UNCHANGED pid
    BY <1>1, <1>2 DEF RemoveFile, TypeOK, PastCheck, Working
  <2> QED
    BY <1>1, <2>1, <2>2, <2>3, OwnerWrites
<1>3. CASE RemoveDir(p)
  <2>1. UNCHANGED pid /\ SetStaging(p, Absent)
    BY <1>3 DEF RemoveDir
  <2>2. \A q \in Proc \ {p} : pc'[q] = pc[q]
    BY <1>1, <1>3 DEF RemoveDir, AfterRemove, Goto, TypeOK
  <2> QED
    BY <1>1, <2>1, <2>2, OwnerRemoves
<1>4. CASE MakeParent(p) \/ MakeStaging(p)
  <2> DEFINE folder == [Stg(p) EXCEPT !.present = TRUE]
  <2>1. folder \in Folder
    BY <1>1 DEF Folder
  <2>2. SetStaging(p, folder) /\ UNCHANGED pid
    BY <1>4 DEF MakeParent, MakeStaging
  <2> HIDE DEF folder
  <2>3. \E l \in {"open", "rename"} : pc' = [pc EXCEPT ![p] = l]
    BY <1>4 DEF MakeParent, MakeStaging, Goto
  <2>4. {"open", "rename"} \subseteq PastCheck
    BY DEF PastCheck, Working, Writing
  <2> QED
    BY <1>1, <2>1, <2>2, <2>3, <2>4, OwnerWrites
<1>5. CASE Open(p) \/ Fill(p) \/ Chmod(p)
  <2>1. UNCHANGED pid
    BY <1>5 DEF Open, Fill, Chmod
  <2>2. PICK l \in PastCheck : pc' = [pc EXCEPT ![p] = l]
    <3>1. \E l \in {"fill", "chmod", "file", "failed"} : pc' = [pc EXCEPT ![p] = l]
      BY <1>5 DEF Open, Fill, Chmod, Goto
    <3>2. {"fill", "chmod", "file", "failed"} \subseteq PastCheck
      BY DEF PastCheck, Working, Writing
    <3> QED
      BY <3>1, <3>2
  <2>3. CASE UNCHANGED staging
    BY <1>1, <2>1, <2>2, <2>3, OwnerStays
  <2>4. CASE ~UNCHANGED staging
    <3>1. PICK s \in Stage :
            SetStaging(p, StagedWith(p, next[p], [stage |-> s, of |-> BundleOf[p]]))
      <4>1. {"created", "written", "ready"} \subseteq Stage
        BY DEF Stage
      <4> QED
        BY <1>5, <2>4, <4>1 DEF Open, Fill, Chmod
    <3>2. pc[p] \in {"open", "fill", "chmod"}
      BY <1>5 DEF Open, Fill, Chmod
    <3>3. StagedWith(p, next[p], [stage |-> s, of |-> BundleOf[p]]) \in Folder
      BY <3>2, SharedFile
    <3> QED
      BY <1>1, <2>1, <2>2, <3>1, <3>3, OwnerWrites
  <2> QED
    BY <2>3, <2>4
<1>6. CASE Rename(p)
  <2>1. UNCHANGED pid
    BY <1>6 DEF Rename
  <2>2. CASE CanRename(p)
    <3>1. SetStaging(p, Absent) /\ \A q \in Proc \ {p} : pc'[q] = pc[q]
      BY <1>1, <1>6, <2>2 DEF Rename, Goto, TypeOK
    <3> QED
      BY <1>1, <2>1, <3>1, OwnerRemoves
  <2>3. CASE ~CanRename(p)
    <3>1. UNCHANGED staging /\ pc' = [pc EXCEPT ![p] = "lost"]
      BY <1>6, <2>3 DEF Rename, Goto
    <3>2. "lost" \in PastCheck
      BY DEF PastCheck, Working
    <3> QED
      BY <1>1, <2>1, <3>1, <3>2, OwnerStays
  <2> QED
    BY <2>2, <2>3
<1> QED
  BY <1>2, <1>3, <1>4, <1>5, <1>6 DEF Step

LEMMA StagedHasOwnerKeeps ==
  ASSUME "remove" \notin Faults, SharedInv, StagedHasOwner, [Next]_vars
  PROVE  StagedHasOwner'
<1>1. CASE Next
  <2>1. PICK p \in Proc :
          Start(p) \/ Step(p) \/ Again(p) \/ Exit(p) \/ IoError(p) \/ Crash(p)
    BY <1>1 DEF Next
  <2>2. TypeOK /\ ~RemoveFails(p)
    BY DEF SharedInv, RemoveFails
  <2>3. OwnerStep(p)
    BY <2>1, <2>2, OwnerBegins, OwnerStops, OwnerWorks
  <2> QED
    BY <2>2, <2>3, OwnerStepKeeps
<1>2. CASE UNCHANGED vars
  BY <1>2 DEF vars, StagedHasOwner, Home
<1> QED
  BY <1>1, <1>2

\* A temporary sibling that is there belongs to a process still unpacking that
\* bundle, or to one that failed or was killed, however many share an id: only
\* a removal that failed leaves one that belongs to nobody.
THEOREM OnlyFailuresLitter ==
  ASSUME "remove" \notin Faults
  PROVE  Spec => []NoLitter
<1>1. Init => StagedHasOwner
  BY DEF Init, StagedHasOwner, Absent
<1>2. SharedInv /\ StagedHasOwner /\ [Next]_vars => StagedHasOwner'
  BY StagedHasOwnerKeeps
<1>3. StagedHasOwner => NoLitter
  BY DEF StagedHasOwner, NoLitter, PastCheck
<1> QED
  BY <1>1, <1>2, <1>3, SharedInvariance, PTL DEF Spec

-----------------------------------------------------------------------------
(* The cache with a cleaner and power failures: BundleCache.               *)

\* A file whose name is there without its bytes.
Unfinished(folder) == \E j \in FileNo : folder.file[j].stage = "created"

\* The file j of p's staging directory is where p left it, unless a cleaner took it.
Stands(p, j, s) ==
  \/ Stg(p).file[j] = [stage |-> s, of |-> BundleOf[p]]
  \/ p \in robbed /\ Stg(p).file[j] = Missing

\* What p has achieved by the time it gets where it is, but for the files that were
\* taken; whether its staging directory still is there does not matter: `unpack` fails
\* if it is not.  What is in place, a process that found nothing in place finished
\* itself, or another did: a power failure kills them all.  What a call found there, or
\* put there, only a cleaner removes.
Kept(p) ==
  /\ pc[p] \in Writing =>
       /\ next[p] <= FileCount[BundleOf[p]] + 1
       /\ \A j \in 1..(next[p] - 1) : Stands(p, j, "ready")
  /\ pc[p] = "fill" => Stands(p, next[p], "created")
  /\ pc[p] = "chmod" => Stands(p, next[p], "written")
  /\ pc[p] = "rename" => next[p] = FileCount[BundleOf[p]] + 1
  /\ pc[p] \in {"clear", "lost", "discard"} \cup Writing => ~Unfinished(final[Home(p)])
  /\ pc[p] \in {"discard", "run"} => final[Home(p)].present \/ p \in disturbed

FaultTypes ==
  /\ cleaner \in Target \cup {NoTarget}
  /\ spoiled \subseteq Dir
  /\ robbed \subseteq Proc

CacheInv ==
  /\ SharedInv
  /\ FaultTypes
  /\ LivePidsDiffer
  /\ NothingInAbsent
  /\ HalfOnlyAfterFault
  /\ \A p \in Proc : Kept(p)

-----------------------------------------------------------------------------
(* The steps of the processes.                                             *)

\* The bundle directory d stays as it is, or what p renamed there is whole or counts
\* as spoiled.
Renewed(d) ==
  /\ final'[d].present /\ ~Unfinished(final'[d])
  /\ d \in spoiled' \/ \E b \in Bundle : DirOf[b] = d /\ final'[d] = Complete(b)
Same(d) == final'[d] = final[d] /\ (d \in spoiled' <=> d \in spoiled)

\* What a step of p does to the others, and to what is in place.
Local(p) ==
  /\ \A q \in Proc \ {p} : pc'[q] = pc[q] /\ next'[q] = next[q] /\ pid'[q] = pid[q]
  /\ \A q \in Proc \ {p} : (q \in robbed' <=> q \in robbed) /\ (q \in disturbed' <=> q \in disturbed)
  /\ \A d \in Dir : \A n \in Pid :
       \/ staging'[d][n] = staging[d][n]
       \/ Live(p) /\ d = Home(p) /\ n = pid[p]
  /\ \A d \in Dir : Same(d) \/ Renewed(d)
  /\ FaultTypes'

LEMMA CompleteIsFinished ==
  ASSUME NEW b \in Bundle
  PROVE  ~Unfinished(Complete(b)) /\ Complete(b).present
BY DEF Unfinished, Complete, Missing

LEMMA OthersStayKept ==
  ASSUME CacheInv, NEW p \in Proc, Local(p), NEW q \in Proc \ {p}
  PROVE  Kept(q)'
<1>1. /\ TypeOK /\ Kept(q) /\ Home(q) \in Dir /\ pid[q] \in Pid
      /\ pc'[q] = pc[q] /\ next'[q] = next[q] /\ pid'[q] = pid[q]
      /\ q \in robbed' <=> q \in robbed
      /\ q \in disturbed' <=> q \in disturbed
  BY StgType DEF CacheInv, SharedInv, Local
<1>2. /\ Unfinished(final'[Home(q)]) => Unfinished(final[Home(q)])
      /\ final[Home(q)].present => final'[Home(q)].present
  BY <1>1 DEF Local, Same, Renewed
<1>3. Live(q) => Stg(q)' = Stg(q)
  <2> SUFFICES ASSUME Live(q) PROVE Stg(q)' = Stg(q)
    OBVIOUS
  <2>1. staging'[Home(q)][pid[q]] = staging[Home(q)][pid[q]]
    BY <1>1 DEF Local, CacheInv, LivePidsDiffer
  <2> QED
    BY <1>1, <2>1 DEF Stg, Home
<1>4. CASE ~Live(q)
  BY <1>1, <1>4 DEF Kept, Live, Stopped, Writing
<1>5. CASE Live(q)
  <2>1. \A j, s : Stands(q, j, s)' <=> Stands(q, j, s)
    BY <1>1, <1>3, <1>5 DEF Stands
  <2> HIDE DEF Stands
  <2> QED
    BY <1>1, <1>2, <2>1 DEF Kept, Home
<1> QED
  BY <1>4, <1>5

LEMMA LocalKeeps ==
  ASSUME CacheInv, SharedInv', NEW p \in Proc, Local(p),
         LivePidsDiffer', NothingInAbsent', Kept(p)'
  PROVE  CacheInv'
<1>1. HalfOnlyAfterFault'
  <2> SUFFICES ASSUME NEW d \in Dir
               PROVE  \/ ~final'[d].present
                      \/ \E b \in Bundle : DirOf[b] = d /\ final'[d] = Complete(b)
                      \/ d \in spoiled'
    BY DEF HalfOnlyAfterFault
  <2>1. CASE Same(d)
    BY <2>1 DEF Same, CacheInv, HalfOnlyAfterFault
  <2>2. CASE Renewed(d)
    BY <2>2 DEF Renewed
  <2> QED
    BY <2>1, <2>2 DEF Local
<1>2. \A q \in Proc : Kept(q)'
  BY OthersStayKept
<1> QED
  BY <1>1, <1>2 DEF CacheInv, Local

\* When the processes share one process id space, a step leaves live ones apart.
LEMMA IdsStayApart ==
  ASSUME OnePidSpace, TypeOK, LivePidsDiffer, NEW p \in Proc,
         Start(p) \/ Step(p) \/ Again(p) \/ Exit(p)
  PROVE  LivePidsDiffer'
<1>1. \A x \in Proc \ {p} : pid'[x] = pid[x] /\ pc'[x] = pc[x]
  BY DEF TypeOK, Start, Again, Exit, Step, Check, RemoveFile, RemoveDir, RemoveFails,
         AfterRemove, MakeParent, Open, Fill, Chmod, MakeStaging, Rename, Lost, Goto
<1>2. \A x \in Proc \ {p} : Live(x) /\ Live(p)' => pid'[p] # pid[x]
  <2>1. CASE Start(p)
    BY <2>1 DEF TypeOK, Start, OnePidSpace
  <2>2. CASE ~Start(p)
    <3>1. pid' = pid /\ Live(p)
      BY <2>2 DEF Again, Exit, Step, Check, RemoveFile, RemoveDir, RemoveFails, MakeParent,
                  Open, Fill, Chmod, MakeStaging, Rename, Lost, Live, Stopped
    <3> QED
      BY <3>1 DEF LivePidsDiffer
  <2> QED
    BY <2>1, <2>2
<1> SUFFICES ASSUME NEW q \in Proc, NEW r \in Proc, q # r, Live(q)', Live(r)'
             PROVE  pid'[q] # pid'[r]
  BY DEF LivePidsDiffer
<1> QED
  BY <1>1, <1>2 DEF LivePidsDiffer, Live

\* A step of p that leaves the invariant as LocalKeeps wants it.
Proper(p) == Local(p) /\ NothingInAbsent' /\ Kept(p)'

\* What a step leaves alone that is not the beginning of a call and puts nothing in
\* place.
Calm == UNCHANGED <<cleaner, spoiled, robbed, disturbed>>

\* A step that leaves what is in place alone.
LEMMA ProperStep ==
  ASSUME CacheInv, NEW p \in Proc, Calm, UNCHANGED final,
         \A q \in Proc \ {p} : pc'[q] = pc[q] /\ next'[q] = next[q] /\ pid'[q] = pid[q],
         \A d \in Dir : \A n \in Pid :
           staging'[d][n] = staging[d][n] \/ (Live(p) /\ d = Home(p) /\ n = pid[p]),
         Kept(p)'
  PROVE  Proper(p)
<1>1. Local(p)
  BY DEF Local, Same, Calm, FaultTypes, CacheInv
<1>2. NothingInAbsent'
  BY DEF CacheInv, NothingInAbsent
<1> QED
  BY <1>1, <1>2 DEF Proper

\* What a process that found nothing in place sees there.
LEMMA NothingUnfinished ==
  ASSUME CacheInv, NEW p \in Proc, ~final[Home(p)].present
  PROVE  ~Unfinished(final[Home(p)])
<1>1. final[Home(p)] = Absent
  BY StgType DEF CacheInv, SharedInv, NothingInAbsent
<1> QED
  BY <1>1 DEF Unfinished, Absent, NoFiles, Missing

\* A call begins.
LEMMA ProperBegin ==
  ASSUME CacheInv, NEW p \in Proc, Begin(p)
  PROVE  Proper(p)
<1>1. /\ TypeOK /\ UNCHANGED <<final, staging, next, cleaner, spoiled>>
      /\ robbed' = robbed \ {p} /\ disturbed' = disturbed \ {p}
  BY DEF CacheInv, SharedInv, Begin, Start, Again
<1>2. \A q \in Proc \ {p} : pc'[q] = pc[q] /\ next'[q] = next[q] /\ pid'[q] = pid[q]
  BY <1>1 DEF TypeOK, Begin, Start, Again, Goto
<1>3. Kept(p)'
  <2>1. pc'[p] = "check"
    BY <1>1 DEF TypeOK, Begin, Start, Again, Goto
  <2> QED
    BY <2>1 DEF Kept, Writing
<1>4. Local(p)
  BY <1>1, <1>2 DEF Local, Same, FaultTypes, CacheInv
<1>5. NothingInAbsent'
  BY <1>1 DEF CacheInv, NothingInAbsent
<1> QED
  BY <1>3, <1>4, <1>5 DEF Proper

\* Steps that write nothing and do not get p into the loop.
LEMMA ProperDecide ==
  ASSUME CacheInv, NEW p \in Proc, Calm, Check(p) \/ Lost(p) \/ Exit(p)
  PROVE  Proper(p)
<1>1. TypeOK /\ UNCHANGED <<final, staging, next, pid>>
  BY DEF CacheInv, SharedInv, Check, Lost, Exit
<1>2. \A q \in Proc \ {p} : pc'[q] = pc[q] /\ next'[q] = next[q] /\ pid'[q] = pid[q]
  BY <1>1 DEF TypeOK, Check, Lost, Exit, Goto
<1>3. Kept(p)'
  <2>1. \/ pc'[p] \in {"done", "failed"}
        \/ pc'[p] = "clear" /\ ~final[Home(p)].present
        \/ pc'[p] = "run" /\ final[Home(p)].present
        \/ pc'[p] = "discard" /\ pc[p] = "lost" /\ final[Home(p)].present
    BY <1>1 DEF TypeOK, Check, Lost, Exit, Goto
  <2>2. pc'[p] \in {"clear", "discard"} => ~Unfinished(final[Home(p)])
    BY <2>1, NothingUnfinished DEF CacheInv, Kept
  <2> QED
    BY <1>1, <2>1, <2>2 DEF Kept, Home, Writing
<1> QED
  BY <1>1, <1>2, <1>3, ProperStep

\* The loop begins, whatever is left of the staging directory.
LEMMA ProperRemove ==
  ASSUME CacheInv, NEW p \in Proc, Calm, RemoveFile(p) \/ RemoveDir(p) \/ RemoveFails(p)
  PROVE  Proper(p)
<1>1. /\ TypeOK /\ UNCHANGED <<final, pid>> /\ Live(p) /\ Kept(p)
      /\ pc[p] \in {"clear", "discard"} /\ Missing \in File /\ Stg(p) \in Folder
  BY FolderType, StgType
     DEF CacheInv, SharedInv, RemoveFile, RemoveDir, RemoveFails, Live, Stopped
<1>2. \A q \in Proc \ {p} : pc'[q] = pc[q] /\ next'[q] = next[q] /\ pid'[q] = pid[q]
  BY <1>1 DEF TypeOK, RemoveFile, RemoveDir, RemoveFails, AfterRemove, Goto
<1>3. \A d \in Dir : \A n \in Pid :
        staging'[d][n] = staging[d][n] \/ (Live(p) /\ d = Home(p) /\ n = pid[p])
  <2>1. CASE RemoveFile(p)
    <3>1. PICK j \in FileNo : SetStaging(p, StagedWith(p, j, Missing))
      BY <2>1 DEF RemoveFile
    <3>2. StagedWith(p, j, Missing) \in Folder
      BY <1>1, StagedWithType
    <3> QED
      BY <1>1, <3>1, <3>2, SetStagingEffect
  <2>2. CASE RemoveDir(p)
    BY <1>1, <2>2, FolderType, SetStagingEffect DEF RemoveDir
  <2>3. CASE RemoveFails(p)
    BY <2>3 DEF RemoveFails
  <2> QED
    BY <2>1, <2>2, <2>3
<1>4. Kept(p)'
  <2>1. \/ pc'[p] = pc[p]
        \/ pc'[p] = "run" /\ pc[p] = "discard"
        \/ pc'[p] = "file" /\ next'[p] = 1
    BY <1>1 DEF TypeOK, RemoveFile, RemoveDir, RemoveFails, AfterRemove, Goto
  <2>2. ~Unfinished(final[Home(p)])
    BY <1>1 DEF Kept
  <2>3. FileCount[BundleOf[p]] \in Nat
    BY <1>1, StgType
  <2>4. CASE pc'[p] = pc[p] \/ (pc'[p] = "run" /\ pc[p] = "discard")
    BY <1>1, <2>2, <2>4 DEF Kept, Home, Writing, Calm
  <2>5. CASE pc'[p] = "file" /\ next'[p] = 1
    BY <1>1, <2>2, <2>3, <2>5 DEF Kept, Home, Writing
  <2> QED
    BY <2>1, <2>4, <2>5
<1> QED
  BY <1>1, <1>2, <1>3, <1>4, ProperStep

LEMMA ProperMake ==
  ASSUME CacheInv, NEW p \in Proc, Calm, MakeParent(p) \/ MakeStaging(p)
  PROVE  Proper(p)
<1> DEFINE folder == [Stg(p) EXCEPT !.present = TRUE]
<1>1. /\ TypeOK /\ UNCHANGED <<final, pid, next>> /\ Live(p) /\ pc[p] = "file" /\ Kept(p)
  BY DEF CacheInv, SharedInv, MakeParent, MakeStaging, Live, Stopped
<1>2. folder \in Folder /\ folder.file = Stg(p).file
  BY <1>1, StgType DEF Folder
<1>3. SetStaging(p, folder)
  BY DEF MakeParent, MakeStaging
<1> HIDE DEF folder
<1>4. \A d \in Dir : \A n \in Pid :
        staging'[d][n] = IF d = Home(p) /\ n = pid[p] THEN folder ELSE staging[d][n]
  BY <1>1, <1>2, <1>3, SetStagingEffect
<1>5. \A q \in Proc \ {p} : pc'[q] = pc[q] /\ next'[q] = next[q] /\ pid'[q] = pid[q]
  BY <1>1 DEF TypeOK, MakeParent, MakeStaging, Goto
<1>6. Kept(p)'
  <2>1. Stg(p)'.file = Stg(p).file
    BY <1>1, <1>2, <1>4, StgType DEF Stg, Home
  <2>2. \A j, s : Stands(p, j, s)' <=> Stands(p, j, s)
    BY <2>1 DEF Stands, Calm
  <2>3. next[p] \in Nat /\ FileCount[BundleOf[p]] \in Nat
    BY <1>1, StgType, ConstantTypes DEF TypeOK
  <2>4. pc'[p] \in {"open", "rename"} /\ (pc'[p] = "rename" => next[p] > FileCount[BundleOf[p]])
    BY <1>1 DEF TypeOK, MakeParent, MakeStaging, Goto
  <2> HIDE DEF Stands
  <2> QED
    BY <1>1, <2>2, <2>3, <2>4 DEF Kept, Home, Writing
<1> QED
  BY <1>1, <1>4, <1>5, <1>6, ProperStep

\* A step that gives the file p is at the stage s.
LEMMA ProperFile ==
  ASSUME CacheInv, NEW p \in Proc, pc[p] \in {"open", "fill", "chmod"}, Calm,
         NEW s \in Stage, NEW l, NEW m,
         SetStaging(p, StagedWith(p, next[p], [stage |-> s, of |-> BundleOf[p]])),
         pc' = [pc EXCEPT ![p] = l], next' = [next EXCEPT ![p] = m],
         UNCHANGED <<pid, final>>,
         \/ l = "fill" /\ s = "created" /\ m = next[p]
         \/ l = "chmod" /\ s = "written" /\ m = next[p]
         \/ l = "file" /\ s = "ready" /\ m = next[p] + 1
  PROVE  Proper(p)
<1> DEFINE f == [stage |-> s, of |-> BundleOf[p]]
<1>1. TypeOK /\ SharedInv /\ Live(p)
  BY DEF CacheInv, SharedInv, Live, Stopped
<1>2. /\ next[p] \in FileNo /\ f \in File /\ StagedWith(p, next[p], f) \in Folder
      /\ next[p] \in Nat /\ FileCount[BundleOf[p]] \in Nat /\ MaxFiles \in Nat
      /\ next[p] <= FileCount[BundleOf[p]]
  BY <1>1, SharedFile, StgType, ConstantTypes DEF TypeOK, SharedInv, AtItsFile
<1>3. SetStaging(p, StagedWith(p, next[p], f))
  OBVIOUS
<1> HIDE DEF f
<1>4. /\ \A d \in Dir : \A n \in Pid :
           staging'[d][n] = staging[d][n] \/ (Live(p) /\ d = Home(p) /\ n = pid[p])
      /\ \A k \in FileNo : Stg(p)'.file[k] = IF k = next[p] THEN f ELSE Stg(p).file[k]
  BY <1>1, <1>2, <1>3, SetStagingEffect, FileStepEffect
<1>5. \A q \in Proc \ {p} : pc'[q] = pc[q] /\ next'[q] = next[q] /\ pid'[q] = pid[q]
  BY <1>1 DEF TypeOK
<1>6. /\ pc'[p] = l /\ next'[p] = m /\ pid'[p] = pid[p]
      /\ robbed' = robbed /\ final' = final
  BY <1>1 DEF TypeOK, Calm
<1>7. \A j \in 1..(next[p] - 1) : Stands(p, j, "ready")'
  <2> SUFFICES ASSUME NEW j \in 1..(next[p] - 1) PROVE Stands(p, j, "ready")'
    OBVIOUS
  <2>1. j \in FileNo /\ j # next[p]
    BY <1>2 DEF FileNo
  <2>2. Stands(p, j, "ready")
    BY DEF CacheInv, Kept, Writing
  <2> QED
    BY <1>4, <1>6, <2>1, <2>2 DEF Stands
<1>8. ~Unfinished(final[Home(p)])
  BY DEF CacheInv, Kept, Writing
<1>9. Stg(p)'.file[next[p]] = f
  BY <1>2, <1>4
<1>10. Kept(p)'
  <2>1. CASE l \in {"fill", "chmod"}
    <3>1. m = next[p] /\ Stands(p, m, s)'
      BY <1>9, <2>1 DEF f, Stands
    <3> HIDE DEF Stands
    <3> QED
      BY <1>2, <1>6, <1>7, <1>8, <2>1, <3>1 DEF Kept, Writing, Home
  <2>2. CASE l = "file"
    <3>1. m = next[p] + 1 /\ s = "ready"
      BY <2>2
    <3>2. \A j \in 1..(m - 1) : Stands(p, j, "ready")'
      <4> SUFFICES ASSUME NEW j \in 1..(m - 1) PROVE Stands(p, j, "ready")'
        OBVIOUS
      <4>1. j = next[p] \/ j \in 1..(next[p] - 1)
        BY <1>2, <3>1
      <4> QED
        BY <1>7, <1>9, <3>1, <4>1 DEF f, Stands
    <3>3. m <= FileCount[BundleOf[p]] + 1
      BY <1>2, <3>1
    <3> HIDE DEF Stands
    <3> QED
      BY <1>6, <1>8, <2>2, <3>2, <3>3 DEF Kept, Writing, Home
  <2> QED
    BY <2>1, <2>2
<1> QED
  BY <1>1, <1>4, <1>5, <1>6, <1>10, ProperStep

\* A step at a file that leaves what is in place alone, and fails or finds nothing to
\* write to.
LEMMA ProperElse ==
  ASSUME CacheInv, NEW p \in Proc, Calm, UNCHANGED <<final, staging>>,
         Open(p) \/ Fill(p) \/ Chmod(p),
         pc'[p] = "failed" \/ (pc[p] = "fill" /\ p \in robbed /\ Stg(p).file[next[p]] = Missing)
  PROVE  Proper(p)
<1>1. TypeOK /\ Kept(p)
  BY DEF CacheInv, SharedInv
<1>2. \A q \in Proc \ {p} : pc'[q] = pc[q] /\ next'[q] = next[q] /\ pid'[q] = pid[q]
  BY <1>1 DEF TypeOK, Open, Fill, Chmod, Goto
<1>3. Kept(p)'
  <2>1. CASE pc'[p] = "failed"
    BY <2>1 DEF Kept, Writing
  <2>2. CASE pc[p] = "fill" /\ p \in robbed /\ Stg(p).file[next[p]] = Missing
    <3>1. pc'[p] = "chmod" /\ UNCHANGED <<next, pid>>
      BY <1>1, <2>2 DEF TypeOK, Open, Fill, Chmod, Goto
    <3>2. \A j, s : Stands(p, j, s)' <=> Stands(p, j, s)
      BY <3>1 DEF Stands, Stg, Home, Calm
    <3>3. \A s : Stands(p, next[p], s)
      BY <2>2 DEF Stands
    <3> HIDE DEF Stands
    <3> QED
      BY <1>1, <2>2, <3>1, <3>2, <3>3 DEF Kept, Writing, Home
  <2> QED
    BY <1>1, <2>1, <2>2
<1> QED
  BY <1>2, <1>3, ProperStep

LEMMA ProperOpen ==
  ASSUME CacheInv, NEW p \in Proc, Calm, Open(p)
  PROVE  Proper(p)
<1>1. TypeOK /\ pc[p] = "open" /\ UNCHANGED <<pid, next, final>> /\ "created" \in Stage
  BY DEF CacheInv, SharedInv, Open, Stage
<1>2. next' = [next EXCEPT ![p] = next[p]]
  BY <1>1 DEF TypeOK
<1>3. CASE Stg(p).present
  <2>1. /\ SetStaging(p, StagedWith(p, next[p], [stage |-> "created", of |-> BundleOf[p]]))
        /\ pc' = [pc EXCEPT ![p] = "fill"]
    BY <1>3 DEF Open, Goto
  <2> QED
    BY <1>1, <1>2, <2>1, ProperFile
<1>4. CASE ~Stg(p).present
  <2>1. pc'[p] = "failed" /\ UNCHANGED staging
    BY <1>1, <1>4 DEF TypeOK, Open, Goto
  <2> QED
    BY <1>1, <2>1, ProperElse
<1> QED
  BY <1>3, <1>4

\* The bytes go to the file in the staging directory, or nowhere if it was taken: what is
\* in place has no file that is being written.
LEMMA ProperFill ==
  ASSUME CacheInv, NEW p \in Proc, Calm, Fill(p)
  PROVE  Proper(p)
<1>1. /\ TypeOK /\ SharedInv /\ pc[p] = "fill" /\ UNCHANGED <<pid, next>> /\ Kept(p)
      /\ "written" \in Stage /\ pc' = [pc EXCEPT ![p] = "chmod"]
  BY DEF CacheInv, SharedInv, Fill, Stage, Goto
<1>2. next' = [next EXCEPT ![p] = next[p]] /\ next[p] \in FileNo
  BY <1>1, SharedFile DEF TypeOK
<1>3. final[Home(p)].file[next[p]].stage # "created"
  BY <1>1, <1>2 DEF Kept, Unfinished, Writing
<1>4. CASE Stg(p).file[next[p]].stage = "created"
  <2>1. /\ SetStaging(p, StagedWith(p, next[p], [stage |-> "written", of |-> BundleOf[p]]))
        /\ UNCHANGED final
    BY <1>3, <1>4 DEF Fill
  <2> QED
    BY <1>1, <1>2, <2>1, ProperFile
<1>5. CASE Stg(p).file[next[p]].stage # "created"
  <2>1. p \in robbed /\ Stg(p).file[next[p]] = Missing
    BY <1>1, <1>5 DEF Kept, Stands
  <2>2. UNCHANGED <<final, staging>>
    BY <1>3, <1>5 DEF Fill
  <2> QED
    BY <1>1, <2>1, <2>2, ProperElse
<1> QED
  BY <1>4, <1>5

LEMMA ProperChmod ==
  ASSUME CacheInv, NEW p \in Proc, Calm, Chmod(p)
  PROVE  Proper(p)
<1>1. TypeOK /\ pc[p] = "chmod" /\ UNCHANGED <<pid, final>> /\ "ready" \in Stage /\ Kept(p)
  BY DEF CacheInv, SharedInv, Chmod, Stage
<1>2. CASE Stg(p).file[next[p]] = Missing
  <2>1. pc'[p] = "failed" /\ UNCHANGED staging
    BY <1>1, <1>2 DEF TypeOK, Chmod, Goto
  <2> QED
    BY <1>1, <2>1, ProperElse
<1>3. CASE Stg(p).file[next[p]] # Missing
  <2>1. Stg(p).file[next[p]].stage = "written"
    BY <1>1, <1>3 DEF Kept, Stands
  <2>2. /\ SetStaging(p, StagedWith(p, next[p], [stage |-> "ready", of |-> BundleOf[p]]))
        /\ pc' = [pc EXCEPT ![p] = "file"]
        /\ next' = [next EXCEPT ![p] = next[p] + 1]
    BY <1>1, <1>3, <2>1 DEF Chmod, Goto, TypeOK
  <2> QED
    BY <1>1, <2>2, ProperFile
<1> QED
  BY <1>2, <1>3

\* What p renames into place: the files of its bundle, all but those that were taken.
LEMMA FilesAtRename ==
  ASSUME CacheInv, NEW p \in Proc, pc[p] = "rename", NEW j \in FileNo
  PROVE  \/ Stg(p).file[j] = Complete(BundleOf[p]).file[j]
         \/ p \in robbed /\ Stg(p).file[j] = Missing
<1>1. TypeOK /\ StagedFilesBelong /\ Kept(p)
  BY DEF CacheInv, SharedInv
<1>2. FileCount[BundleOf[p]] \in Nat /\ MaxFiles \in Nat
  BY <1>1, StgType, ConstantTypes
<1>3. CASE j <= FileCount[BundleOf[p]]
  <2>1. j \in 1..(next[p] - 1)
    BY <1>1, <1>2, <1>3 DEF Kept, FileNo
  <2>2. Stands(p, j, "ready")
    BY <1>1, <2>1 DEF Kept, Writing
  <2> QED
    BY <1>3, <2>2 DEF Stands, Complete
<1>4. CASE ~(j <= FileCount[BundleOf[p]])
  <2>1. Stg(p).file[j] = Missing
    <3> SUFFICES ASSUME Stg(p).file[j] # Missing PROVE FALSE
      OBVIOUS
    <3>1. PICK b \in Bundle : DirOf[b] = Home(p) /\ j <= FileCount[b]
      BY <1>1, StgType DEF StagedFilesBelong, Stg
    <3>2. b = BundleOf[p]
      BY <1>1, <3>1, StgType, OneBundlePerDir DEF Home
    <3> QED
      BY <1>4, <3>1, <3>2
  <2> QED
    BY <1>4, <2>1 DEF Complete
<1> QED
  BY <1>3, <1>4

LEMMA WholeAtRename ==
  ASSUME CacheInv, NEW p \in Proc, pc[p] = "rename", Stg(p).present
  PROVE  /\ ~Unfinished(Stg(p))
         /\ p \in robbed \/ Stg(p) = Complete(BundleOf[p])
<1>1. TypeOK /\ Stg(p) \in Folder /\ BundleOf[p] \in Bundle
  BY StgType DEF CacheInv, SharedInv
<1>2. Complete(BundleOf[p]) \in Folder /\ Complete(BundleOf[p]).present
  BY <1>1, FolderType DEF Complete
<1>3. ~Unfinished(Stg(p))
  <2> SUFFICES ASSUME NEW j \in FileNo PROVE Stg(p).file[j].stage # "created"
    BY DEF Unfinished
  <2> QED
    BY <1>1, FilesAtRename, CompleteIsFinished DEF Unfinished, Missing
<1>4. p \in robbed \/ Stg(p) = Complete(BundleOf[p])
  BY <1>1, <1>2, FilesAtRename DEF Folder
<1> QED
  BY <1>3, <1>4

\* What Proceed says of `spoiled` when p renames.
LEMMA ProperRename ==
  ASSUME CacheInv, NEW p \in Proc, Rename(p), UNCHANGED <<cleaner, robbed, disturbed>>,
         spoiled' = IF pc'[p] # "run" THEN spoiled
                    ELSE IF p \in robbed THEN spoiled \cup {Home(p)} ELSE spoiled \ {Home(p)}
  PROVE  Proper(p)
<1>1. /\ TypeOK /\ pc[p] = "rename" /\ Live(p) /\ UNCHANGED <<pid, next>>
      /\ Home(p) \in Dir /\ BundleOf[p] \in Bundle
  BY StgType DEF CacheInv, SharedInv, Rename, Live, Stopped
<1>2. \A q \in Proc \ {p} : pc'[q] = pc[q] /\ next'[q] = next[q] /\ pid'[q] = pid[q]
  BY <1>1 DEF TypeOK, Rename, Goto
<1>3. CASE ~CanRename(p)
  <2>1. UNCHANGED <<final, staging>> /\ pc'[p] = "lost"
    BY <1>1, <1>3 DEF TypeOK, Rename, Goto
  <2>2. Kept(p)'
    BY <1>1, <2>1 DEF CacheInv, Kept, Writing, Home
  <2>3. Calm
    BY <2>1 DEF Calm
  <2> QED
    BY <1>2, <2>1, <2>2, <2>3, ProperStep
<1>4. CASE CanRename(p)
  <2>1. /\ final' = [final EXCEPT ![Home(p)] = Stg(p)] /\ SetStaging(p, Absent)
        /\ pc'[p] = "run" /\ Stg(p).present
    BY <1>1, <1>4 DEF TypeOK, Rename, Goto, CanRename
  <2>2. \A d \in Dir : final'[d] = IF d = Home(p) THEN Stg(p) ELSE final[d]
    BY <1>1, <2>1 DEF TypeOK
  <2>3. \A d \in Dir : \A n \in Pid :
          staging'[d][n] = IF d = Home(p) /\ n = pid[p] THEN Absent ELSE staging[d][n]
    BY <1>1, <2>1, FolderType, SetStagingEffect
  <2>4. NothingInAbsent'
    BY <2>1, <2>2 DEF CacheInv, NothingInAbsent
  <2>5. ~Unfinished(Stg(p)) /\ (p \in robbed \/ Stg(p) = Complete(BundleOf[p]))
    BY <1>1, <2>1, WholeAtRename
  <2>6. spoiled' = IF p \in robbed THEN spoiled \cup {Home(p)} ELSE spoiled \ {Home(p)}
    BY <2>1
  <2>7. Renewed(Home(p))
    BY <1>1, <2>1, <2>2, <2>5, <2>6 DEF Renewed, Home
  <2>8. \A d \in Dir \ {Home(p)} : Same(d)
    BY <2>2, <2>6 DEF Same
  <2>9. FaultTypes'
    BY <1>1, <2>6 DEF CacheInv, FaultTypes
  <2>10. Local(p)
    BY <1>1, <1>2, <2>3, <2>7, <2>8, <2>9 DEF Local
  <2>11. Kept(p)'
    <3>1. final'[Home(p)].present
      BY <1>1, <2>1, <2>2
    <3> QED
      BY <2>1, <3>1 DEF Kept, Writing, Home
  <2> QED
    BY <2>4, <2>10, <2>11 DEF Proper
<1> QED
  BY <1>3, <1>4

LEMMA ProcessKeeps ==
  ASSUME OnePidSpace, CacheInv, NEW p \in Proc, Begin(p) \/ Proceed(p) \/ Leave(p)
  PROVE  CacheInv'
<1>1. Start(p) \/ Step(p) \/ Again(p) \/ Exit(p)
  BY DEF Begin, Proceed, Leave
<1>2. Proper(p)
  <2>1. CASE Begin(p)
    BY <2>1, ProperBegin
  <2>2. CASE Leave(p)
    BY <2>2, ProperDecide DEF Leave, Calm, faultVars
  <2>3. CASE Proceed(p) /\ pc[p] = "rename"
    <3>1. Rename(p) /\ UNCHANGED <<cleaner, robbed, disturbed>>
      BY <2>3 DEF Proceed, Step, Check, RemoveFile, RemoveDir, RemoveFails, MakeParent, Open,
                  Fill, Chmod, MakeStaging, Lost
    <3>2. spoiled' = IF pc'[p] # "run" THEN spoiled
                     ELSE IF p \in robbed THEN spoiled \cup {Home(p)} ELSE spoiled \ {Home(p)}
      BY <2>3 DEF Proceed
    <3> QED
      BY <3>1, <3>2, ProperRename
  <2>4. CASE Proceed(p) /\ pc[p] # "rename"
    <3>1. Calm /\ Step(p) /\ ~Rename(p)
      BY <2>4 DEF Proceed, Calm, Rename
    <3> QED
      BY <3>1, ProperDecide, ProperRemove, ProperMake, ProperOpen, ProperFill, ProperChmod
         DEF Step
  <2> QED
    BY <2>1, <2>2, <2>3, <2>4
<1>3. SharedInv'
  BY <1>1, SharedKeeps DEF CacheInv, Next
<1>4. LivePidsDiffer'
  BY <1>1, IdsStayApart DEF CacheInv, SharedInv
<1> QED
  BY <1>2, <1>3, <1>4, LocalKeeps DEF Proper

-----------------------------------------------------------------------------
(* The steps of the machine.                                               *)

LEMMA MachineKeeps ==
  ASSUME CacheInv, TypeOK', UNCHANGED <<pid, next>>,
         \A p \in Proc : pc'[p] = pc[p] \/ pc'[p] \in Stopped,
         \A d \in Dir : \A n \in Pid : Belongs(d, staging'[d][n]),
         \A d \in Dir : Belongs(d, final'[d]),
         FaultTypes', NothingInAbsent', HalfOnlyAfterFault',
         \A p \in Proc : Kept(p)'
  PROVE  CacheInv'
<1>1. StagedFilesBelong' /\ NeverMixesBundles'
  BY DEF StagedFilesBelong, NeverMixesBundles, Belongs
<1>2. \A p \in Proc : AtItsFile(p)'
  BY DEF CacheInv, SharedInv, AtItsFile, Stopped
<1>3. LivePidsDiffer'
  BY DEF CacheInv, LivePidsDiffer, Live
<1> QED
  BY <1>1, <1>2, <1>3 DEF CacheInv, SharedInv

\* What is in the cache belongs where it is.
LEMMA AllBelongs ==
  ASSUME CacheInv
  PROVE  /\ \A d \in Dir : \A n \in Pid : Belongs(d, staging[d][n])
         /\ \A d \in Dir : Belongs(d, final[d])
BY DEF CacheInv, SharedInv, StagedFilesBelong, NeverMixesBundles, Belongs

\* The cleaner empties t by a step whose result is folder, and is remembered for it.
Remembers(t, folder) ==
  /\ robbed \subseteq robbed' /\ disturbed \subseteq disturbed'
  /\ Affected(t) \subseteq disturbed'
  /\ t.pid = NoPid \/ Affected(t) \subseteq robbed' \/ folder.file = Cleaned(t).file

\* A process whose directories a cleaner takes files from knows what is left of them.
LEMMA CleanedKept ==
  ASSUME CacheInv, UNCHANGED <<pc, pid, next>>, NEW t \in Target, NEW folder \in Folder,
         \A j \in FileNo : folder.file[j] \in {Missing, Cleaned(t).file[j]},
         Remembers(t, folder),
         \A d \in Dir : final'[d] = IF t.pid = NoPid /\ d = t.dir THEN folder ELSE final[d],
         \A d \in Dir : \A n \in Pid :
           staging'[d][n] = IF t.pid # NoPid /\ d = t.dir /\ n = t.pid THEN folder ELSE staging[d][n],
         NEW q \in Proc
  PROVE  Kept(q)'
<1>1. TypeOK /\ Home(q) \in Dir /\ pid[q] \in Pid /\ next[q] \in Nat /\ FileCount[BundleOf[q]] \in 0..MaxFiles
      /\ MaxFiles \in Nat /\ Kept(q)
  BY StgType, ConstantTypes DEF CacheInv, SharedInv, TypeOK
<1>2. CASE ~Live(q)
  BY <1>2 DEF Kept, Live, Stopped, Writing
<1>3. CASE Live(q)
  <2>1. q \in robbed => q \in robbed'
    BY DEF Remembers
  <2>2. ASSUME NEW j \in FileNo
        PROVE  \/ Stg(q)'.file[j] = Stg(q).file[j]
               \/ q \in robbed' /\ Stg(q)'.file[j] = Missing
    <3>1. CASE t.pid # NoPid /\ Home(q) = t.dir /\ pid[q] = t.pid
      <4>1. Stg(q)' = folder /\ Cleaned(t) = Stg(q)
        BY <1>1, <3>1 DEF Cleaned, Stg, Home
      <4>2. q \in Affected(t)
        BY <1>3, <3>1 DEF Affected
      <4> QED
        BY <3>1, <4>1, <4>2 DEF Remembers
    <3>2. CASE ~(t.pid # NoPid /\ Home(q) = t.dir /\ pid[q] = t.pid)
      <4>1. Stg(q)' = Stg(q)
        BY <1>1, <3>2 DEF Stg, Home
      <4> QED
        BY <4>1
    <3> QED
      BY <3>1, <3>2
  <2>3. ASSUME NEW j \in FileNo, NEW s, Stands(q, j, s) PROVE Stands(q, j, s)'
    BY <2>1, <2>2, <2>3 DEF Stands
  <2>4. Unfinished(final'[Home(q)]) => Unfinished(final[Home(q)])
    <3>1. CASE t.pid = NoPid /\ Home(q) = t.dir
      <4>1. final'[Home(q)] = folder /\ Cleaned(t) = final[Home(q)]
        BY <1>1, <3>1 DEF Cleaned
      <4>2. \A j \in FileNo : folder.file[j].stage = "created" =>
                                Cleaned(t).file[j].stage = "created"
        BY DEF Missing
      <4> QED
        BY <4>1, <4>2 DEF Unfinished
    <3>2. CASE ~(t.pid = NoPid /\ Home(q) = t.dir)
      BY <1>1, <3>2
    <3> QED
      BY <3>1, <3>2
  <2>5. final[Home(q)].present \/ q \in disturbed => final'[Home(q)].present \/ q \in disturbed'
    <3>1. CASE t.pid = NoPid /\ Home(q) = t.dir
      <4>1. q \in Affected(t)
        BY <1>3, <3>1 DEF Affected
      <4> QED
        BY <4>1 DEF Remembers
    <3>2. CASE ~(t.pid = NoPid /\ Home(q) = t.dir)
      BY <1>1, <3>2 DEF Remembers
    <3> QED
      BY <3>1, <3>2
  <2>6. pc[q] \in Writing =>
          \A j \in 1..(next[q] - 1) : Stands(q, j, "ready") => Stands(q, j, "ready")'
    <3> SUFFICES ASSUME pc[q] \in Writing, NEW j \in 1..(next[q] - 1), Stands(q, j, "ready")
                 PROVE  Stands(q, j, "ready")'
      OBVIOUS
    <3>1. next[q] <= FileCount[BundleOf[q]] + 1
      BY <1>1 DEF Kept
    <3>2. j \in FileNo
      BY <1>1, <3>1 DEF FileNo
    <3> QED
      BY <2>3, <3>2
  <2>7. PICK k : k = next[q]
    OBVIOUS
  <2>8. pc[q] \in {"fill", "chmod"} => k \in FileNo
    BY <1>1, <2>7 DEF CacheInv, SharedInv, AtItsFile, FileNo, TypeOK
  <2>9. /\ pc[q] = "fill" => Stands(q, k, "created")'
        /\ pc[q] = "chmod" => Stands(q, k, "written")'
    <3>1. /\ pc[q] = "fill" => Stands(q, k, "created")
          /\ pc[q] = "chmod" => Stands(q, k, "written")
      BY <1>1, <2>7 DEF Kept
    <3> QED
      BY <2>3, <2>8, <3>1
  <2>10. pc' = pc /\ next' = next /\ k = next'[q]
    BY <2>7
  <2> HIDE DEF Stands
  <2> QED
    BY <1>1, <2>4, <2>5, <2>6, <2>7, <2>9, <2>10 DEF Kept, Home
<1> QED
  BY <1>2, <1>3

\* A step of the cleaner takes files, or the directory, and puts nothing there.
LEMMA CleanKeeps ==
  ASSUME CacheInv, UNCHANGED <<pc, pid, next>>, NEW t \in Target, NEW folder \in Folder,
         SetCleaned(t, folder), t.pid = NoPid => folder.present \/ folder = Absent,
         \A j \in FileNo : folder.file[j] \in {Missing, Cleaned(t).file[j]},
         Remembers(t, folder), FaultTypes', HalfOnlyAfterFault'
  PROVE  CacheInv'
<1>1. TypeOK /\ t.dir \in Dir /\ (t.pid # NoPid => t.pid \in Pid)
  BY DEF CacheInv, SharedInv, Target
<1>2. /\ \A d \in Dir : final'[d] = IF t.pid = NoPid /\ d = t.dir THEN folder ELSE final[d]
      /\ final' \in [Dir -> Folder]
  BY <1>1 DEF SetCleaned, TypeOK
<1>3. /\ \A d \in Dir : \A n \in Pid :
           staging'[d][n] = IF t.pid # NoPid /\ d = t.dir /\ n = t.pid THEN folder ELSE staging[d][n]
      /\ staging' \in [Dir -> [Pid -> Folder]]
  BY SMTT(30), <1>1 DEF SetCleaned, TypeOK
<1>4. TypeOK'
  BY <1>1, <1>2, <1>3 DEF TypeOK
<1>5. Belongs(t.dir, folder)
  <2>1. Belongs(t.dir, Cleaned(t))
    BY <1>1, AllBelongs DEF Cleaned
  <2> QED
    BY <2>1 DEF Belongs
<1>6. /\ \A d \in Dir : \A n \in Pid : Belongs(d, staging'[d][n])
      /\ \A d \in Dir : Belongs(d, final'[d])
  BY <1>2, <1>3, <1>5, AllBelongs
<1>7. NothingInAbsent'
  BY <1>2 DEF CacheInv, NothingInAbsent
<1>8. \A q \in Proc : Kept(q)'
  BY <1>2, <1>3, CleanedKept
<1> QED
  BY <1>4, <1>6, <1>7, <1>8, MachineKeeps

\* What is said of a directory stays true while faults are only added to, except
\* that the cleaner forgets what it took away whole.
LEMMA StillOnlyAfterFault ==
  ASSUME CacheInv,
         \A d \in Dir : \/ final'[d] = final[d] /\ (d \in spoiled => d \in spoiled')
                        \/ ~final'[d].present
                        \/ d \in spoiled'
  PROVE  HalfOnlyAfterFault'
BY DEF CacheInv, HalfOnlyAfterFault

\* What the cleaner is at.
LEMMA CleanedType ==
  ASSUME CacheInv, cleaner # NoTarget
  PROVE  /\ TypeOK /\ FaultTypes /\ cleaner \in Target /\ cleaner.dir \in Dir
         /\ cleaner.pid # NoPid => cleaner.pid \in Pid
         /\ Cleaned(cleaner) \in Folder
<1>1. TypeOK /\ FaultTypes /\ cleaner \in Target
  BY DEF CacheInv, SharedInv, FaultTypes
<1>2. cleaner.dir \in Dir /\ (cleaner.pid # NoPid => cleaner.pid \in Pid)
  BY <1>1 DEF Target
<1> QED
  BY <1>1, <1>2 DEF Cleaned, TypeOK

\* Replacing a bundle directory, or one of staging.
LEMMA SetCleanedFinal ==
  ASSUME TypeOK, NEW t \in Target, NEW folder \in Folder, SetCleaned(t, folder)
  PROVE  \A d \in Dir : final'[d] = IF t.pid = NoPid /\ d = t.dir THEN folder ELSE final[d]
BY DEF SetCleaned, TypeOK

LEMMA CleanFileKeeps ==
  ASSUME CacheInv, CleanFile
  PROVE  CacheInv'
<1> DEFINE old == Cleaned(cleaner)
<1>1. PICK j \in FileNo : /\ old.file[j] # Missing
                          /\ SetCleaned(cleaner, [old EXCEPT !.file[j] = Missing])
  BY DEF CleanFile
<1> DEFINE folder == [old EXCEPT !.file[j] = Missing]
<1>2. /\ TypeOK /\ FaultTypes /\ cleaner \in Target /\ cleaner.dir \in Dir
      /\ cleaner.pid # NoPid => cleaner.pid \in Pid
      /\ old \in Folder
  BY CleanedType DEF CleanFile
<1>3. /\ folder \in Folder /\ folder.present = old.present
      /\ \A k \in FileNo : folder.file[k] = IF k = j THEN Missing ELSE old.file[k]
  BY <1>2, FolderType DEF Folder
<1>4. SetCleaned(cleaner, folder)
  BY <1>1
<1>5. cleaner.pid = NoPid => folder.present
  <2> SUFFICES ASSUME cleaner.pid = NoPid PROVE old.present
    BY <1>3
  <2>1. old = final[cleaner.dir]
    BY DEF Cleaned
  <2>2. old # Absent
    BY <1>1 DEF Absent, NoFiles
  <2> HIDE DEF old
  <2> QED
    BY <1>2, <2>1, <2>2 DEF CacheInv, NothingInAbsent
<1> HIDE DEF old, folder
<1>6. \A k \in FileNo : folder.file[k] \in {Missing, old.file[k]}
  BY <1>3
<1>7. /\ UNCHANGED <<pc, pid, next, cleaner>>
      /\ spoiled \subseteq spoiled'
      /\ cleaner.pid = NoPid => cleaner.dir \in spoiled'
      /\ Remembers(cleaner, folder)
  BY DEF CleanFile, Remembers
<1>8. FaultTypes'
  BY <1>2 DEF CleanFile, FaultTypes, Affected
<1>9. \A d \in Dir : final'[d] = IF cleaner.pid = NoPid /\ d = cleaner.dir THEN folder ELSE final[d]
  BY <1>2, <1>3, <1>4, SetCleanedFinal
<1>10. HalfOnlyAfterFault'
  BY <1>7, <1>9, StillOnlyAfterFault
<1> QED
  BY <1>2, <1>3, <1>4, <1>5, <1>6, <1>7, <1>8, <1>10, CleanKeeps DEF old

\* Nothing the invariant is about changes.
LEMMA StillHolds ==
  ASSUME CacheInv, UNCHANGED <<vars, spoiled, robbed, disturbed>>,
         cleaner' \in Target \cup {NoTarget}
  PROVE  CacheInv'
<1>1. SharedInv'
  BY SharedKeeps DEF CacheInv
<1>2. LivePidsDiffer' /\ NothingInAbsent' /\ HalfOnlyAfterFault'
  BY DEF CacheInv, vars, LivePidsDiffer, Live, NothingInAbsent, HalfOnlyAfterFault
<1>3. \A p \in Proc : Kept(p)'
  BY DEF CacheInv, vars, Home, Kept, Stg, Stands, Unfinished
<1>4. FaultTypes'
  BY DEF CacheInv, FaultTypes
<1> QED
  BY <1>1, <1>2, <1>3, <1>4 DEF CacheInv

LEMMA CleanDirKeeps ==
  ASSUME CacheInv, CleanDir
  PROVE  CacheInv'
<1>1. /\ TypeOK /\ FaultTypes /\ cleaner \in Target /\ cleaner.dir \in Dir
      /\ cleaner.pid # NoPid => cleaner.pid \in Pid
      /\ cleaner' = NoTarget
  BY CleanedType DEF CleanDir
<1>2. CASE Cleaned(cleaner).file = NoFiles
  <2>1. /\ SetCleaned(cleaner, Absent) /\ UNCHANGED <<pc, pid, next, robbed>>
        /\ spoiled' = IF cleaner.pid = NoPid THEN spoiled \ {cleaner.dir} ELSE spoiled
        /\ disturbed' = disturbed \cup Affected(cleaner)
    BY <1>2 DEF CleanDir
  <2>2. Absent \in Folder /\ Absent.file = Cleaned(cleaner).file /\ ~Absent.present
    BY <1>2, FolderType DEF Absent
  <2>3. \A d \in Dir : final'[d] = IF cleaner.pid = NoPid /\ d = cleaner.dir THEN Absent ELSE final[d]
    BY <1>1, <2>1, <2>2, SetCleanedFinal
  <2>4. HalfOnlyAfterFault'
    BY <2>1, <2>2, <2>3, StillOnlyAfterFault
  <2>5. FaultTypes'
    BY <1>1, <2>1 DEF FaultTypes
  <2>6. \A j \in FileNo : Absent.file[j] \in {Missing, Cleaned(cleaner).file[j]}
    BY <2>2
  <2>7. Remembers(cleaner, Absent)
    BY <2>1, <2>2 DEF Remembers
  <2> QED
    BY <1>1, <2>1, <2>2, <2>4, <2>5, <2>6, <2>7, CleanKeeps
<1>3. CASE Cleaned(cleaner).file # NoFiles
  <2>1. UNCHANGED <<vars, spoiled, robbed, disturbed>>
    BY <1>3 DEF CleanDir, vars
  <2> QED
    BY <1>1, <2>1, StillHolds
<1> QED
  BY <1>2, <1>3

\* A file without its bytes is the same bundle's.
LEMMA TornType ==
  ASSUME NEW file \in [FileNo -> File], NEW lost
  PROVE  /\ Torn(file, lost) \in [FileNo -> File]
         /\ \A j \in FileNo : /\ Torn(file, lost)[j].of = file[j].of
                              /\ Torn(file, lost)[j] = Missing <=> file[j] = Missing
<1> SUFFICES ASSUME NEW j \in FileNo
             PROVE  /\ Torn(file, lost)[j] \in File
                    /\ Torn(file, lost)[j].of = file[j].of
                    /\ Torn(file, lost)[j] = Missing <=> file[j] = Missing
  BY DEF Torn
<1>1. file[j] \in File /\ "created" \in Stage
  BY DEF Stage
<1>2. CASE j \in lost /\ file[j] # Missing
  <2>1. Torn(file, lost)[j] = [file[j] EXCEPT !.stage = "created"]
    BY <1>2 DEF Torn
  <2> QED
    BY <1>1, <1>2, <2>1 DEF File, Missing
<1>3. CASE ~(j \in lost /\ file[j] # Missing)
  BY <1>1, <1>3 DEF Torn
<1> QED
  BY <1>2, <1>3

LEMMA TornBelongs ==
  ASSUME NEW d, NEW folder \in Folder, NEW lost, Belongs(d, folder)
  PROVE  LET torn == [folder EXCEPT !.file = Torn(@, lost)]
         IN  torn \in Folder /\ Belongs(d, torn) /\ torn.present = folder.present
<1> DEFINE torn == [folder EXCEPT !.file = Torn(@, lost)]
<1>1. folder.file \in [FileNo -> File]
  BY DEF Folder
<1>2. torn.file = Torn(folder.file, lost) /\ torn.present = folder.present
  BY DEF Folder
<1>3. torn \in Folder
  BY <1>1, TornType DEF Folder
<1> HIDE DEF torn
<1>4. Belongs(d, torn)
  BY <1>1, <1>2, TornType DEF Belongs
<1> QED
  BY <1>2, <1>3, <1>4 DEF torn

LEMMA PowerFailsKeeps ==
  ASSUME CacheInv, PowerFails
  PROVE  CacheInv'
<1>1. TypeOK /\ FaultTypes
  BY DEF CacheInv, SharedInv
<1> DEFINE unsafe == {d \in Dir \ durable : final[d].present}
<1>2. PICK lost \in SUBSET FileNo :
        /\ final' = [d \in Dir |-> IF d \in unsafe
                       THEN [final[d] EXCEPT !.file = Torn(@, lost)] ELSE final[d]]
        /\ staging' = [d \in Dir |-> [n \in Pid |->
                         [staging[d][n] EXCEPT !.file = Torn(@, lost)]]]
        /\ spoiled' = spoiled \cup {d \in unsafe : final'[d] # final[d]}
  BY DEF PowerFails
<1>3. /\ UNCHANGED <<pid, next, robbed>> /\ cleaner' = NoTarget
      /\ pc' = [p \in Proc |-> IF Live(p) THEN "dead" ELSE pc[p]]
  BY DEF PowerFails
<1>4. ASSUME NEW d \in Dir
      PROVE  /\ final'[d] \in Folder /\ Belongs(d, final'[d])
             /\ final'[d].present = final[d].present
             /\ final'[d] # final[d] => final[d].present /\ d \in spoiled'
  <2>1. final[d] \in Folder /\ Belongs(d, final[d])
    BY <1>1, AllBelongs DEF TypeOK
  <2>2. CASE d \in unsafe
    <3>1. final'[d] = [final[d] EXCEPT !.file = Torn(@, lost)]
      BY <1>2, <2>2
    <3>2. /\ final'[d] \in Folder /\ Belongs(d, final'[d])
          /\ final'[d].present = final[d].present
      BY <2>1, <3>1, TornBelongs
    <3>3. final'[d] # final[d] => d \in spoiled'
      BY <1>2, <2>2
    <3> QED
      BY <2>2, <3>2, <3>3
  <2>3. CASE d \notin unsafe
    BY <1>2, <2>1, <2>3
  <2> QED
    BY <2>2, <2>3
<1>5. ASSUME NEW d \in Dir, NEW n \in Pid
      PROVE  staging'[d][n] \in Folder /\ Belongs(d, staging'[d][n])
  <2>1. staging[d][n] \in Folder /\ Belongs(d, staging[d][n])
    BY <1>1, AllBelongs DEF TypeOK
  <2>2. staging'[d][n] = [staging[d][n] EXCEPT !.file = Torn(@, lost)]
    BY <1>2
  <2> QED
    BY <2>1, <2>2, TornBelongs
<1>6. \A p \in Proc : pc'[p] \in Stopped
  BY <1>3 DEF Live, Stopped
<1>7. TypeOK'
  <2>1. final' \in [Dir -> Folder]
    BY <1>2, <1>4
  <2>2. staging' \in [Dir -> [Pid -> Folder]]
    BY <1>2, <1>5
  <2>3. pc' \in [Proc -> PC]
    BY <1>3, <1>6 DEF PC
  <2> QED
    BY <1>1, <1>3, <2>1, <2>2, <2>3 DEF TypeOK
<1>8. FaultTypes'
  BY <1>1, <1>2, <1>3 DEF FaultTypes
<1>9. NothingInAbsent'
  BY <1>4 DEF CacheInv, NothingInAbsent
<1>10. spoiled \subseteq spoiled'
  BY <1>2
<1> HIDE DEF unsafe
<1>11. HalfOnlyAfterFault'
  BY <1>3, <1>4, <1>10, StillOnlyAfterFault
<1>12. \A p \in Proc : Kept(p)'
  BY <1>6 DEF Kept, Stopped, Writing
<1> QED
  BY <1>3, <1>4, <1>5, <1>6, <1>7, <1>8, <1>9, <1>11, <1>12, MachineKeeps

-----------------------------------------------------------------------------
LEMMA CacheInitHolds ==
  ASSUME CacheInit
  PROVE  CacheInv
<1>1. SharedInv
  BY SharedInit DEF CacheInit
<1>2. FaultTypes
  BY DEF CacheInit, FaultTypes
<1>3. LivePidsDiffer /\ NothingInAbsent /\ HalfOnlyAfterFault
  BY DEF CacheInit, Init, LivePidsDiffer, Live, Stopped, NothingInAbsent, HalfOnlyAfterFault,
         Absent
<1>4. \A p \in Proc : Kept(p)
  BY DEF CacheInit, Init, Kept, Writing
<1> QED
  BY <1>1, <1>2, <1>3, <1>4 DEF CacheInv

LEMMA CacheKeeps ==
  ASSUME OnePidSpace, CacheInv, [CacheNext]_cacheVars
  PROVE  CacheInv'
<1>1. cleaner \in Target \cup {NoTarget}
  BY DEF CacheInv, FaultTypes
<1>2. CASE \E p \in Proc : Begin(p) \/ Proceed(p) \/ Leave(p)
  BY <1>2, ProcessKeeps
<1>3. CASE CleanStarts
  BY <1>3, StillHolds DEF CleanStarts
<1>4. CASE Flush \/ UNCHANGED cacheVars
  BY <1>1, <1>4, StillHolds DEF Flush, cacheVars, faultVars
<1> QED
  BY <1>2, <1>3, <1>4, CleanFileKeeps, CleanDirKeeps, PowerFailsKeeps DEF CacheNext

\* However often the cache is cleaned and power fails, when all processes share one
\* process id space.
THEOREM CacheInvariance == OnePidSpace /\ CacheSpec => []CacheInv
<1> SUFFICES ASSUME OnePidSpace PROVE CacheSpec => []CacheInv
  OBVIOUS
<1>1. CacheInit => CacheInv
  BY CacheInitHolds
<1>2. CacheInv /\ [CacheNext]_cacheVars => CacheInv'
  BY CacheKeeps
<1> QED
  BY <1>1, <1>2, PTL DEF CacheSpec

\* A bundle directory that is there holds the whole bundle, unless a cleaner took
\* files from it or from the staging directory it was renamed from, or power failed
\* before its files were on the disk: `unpack` itself never leaves one half-written, not
\* even where it comes back after either.
THEOREM HalfNeedsAFault == OnePidSpace /\ CacheSpec => []HalfOnlyAfterFault
<1>1. CacheInv => HalfOnlyAfterFault
  BY DEF CacheInv
<1> QED
  BY <1>1, CacheInvariance, PTL

\* What `unpack` returned is there, and whole, while the program runs from it, unless a
\* cleaner was at it or at the process's staging directory during the call, or the
\* directory is one that a fault spoiled and `unpack` trusted.
LEMMA WholeWhileRunning ==
  ASSUME CacheInv
  PROVE  RunsWholeUnlessSpoiled
<1> SUFFICES ASSUME NEW p \in Proc, pc[p] = "run", p \notin disturbed, Home(p) \notin spoiled
             PROVE  final[Home(p)] = Complete(BundleOf[p])
  BY DEF RunsWholeUnlessSpoiled
<1>1. TypeOK /\ Home(p) \in Dir /\ BundleOf[p] \in Bundle
  BY StgType DEF CacheInv, SharedInv
<1>2. final[Home(p)].present
  BY DEF CacheInv, Kept
<1>3. PICK b \in Bundle : DirOf[b] = Home(p) /\ final[Home(p)] = Complete(b)
  BY <1>1, <1>2 DEF CacheInv, HalfOnlyAfterFault
<1>4. b = BundleOf[p]
  BY <1>1, <1>3, OneBundlePerDir DEF Home
<1> QED
  BY <1>3, <1>4

\* However often the cache is cleaned and power fails, an undisturbed call whose
\* directory no fault spoiled runs in the whole bundle of its own program.
THEOREM RunsWhole == OnePidSpace /\ CacheSpec => []RunsWholeUnlessSpoiled
<1>1. CacheInv => RunsWholeUnlessSpoiled
  BY WholeWhileRunning
<1> QED
  BY <1>1, CacheInvariance, PTL
=============================================================================
