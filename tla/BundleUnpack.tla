---------------------------- MODULE BundleUnpack ----------------------------
(***************************************************************************)
(* `unpack` of calc-runtime/src/ipc_runtime.rs: compiled programs sharing  *)
(* one bundle cache, each unpacking the bundle embedded in its executable  *)
(* the first time it calls an IPC built-in.  One action per file system    *)
(* call, so that any two processes interleave between any two calls, and a *)
(* process can be killed between any two.                                  *)
(*                                                                         *)
(* A file is named by its position in the bundle, and holds which bundle   *)
(* it was written from and how far fs::write and fs::set_permissions got.  *)
(***************************************************************************)
EXTENDS Naturals

CONSTANTS Proc,       \* runs of compiled programs sharing one cache
          Host,       \* machines or containers: one process id space each
          HostOf,     \* where each process runs
          Pid,        \* process ids
          Bundle,     \* bundle contents
          NoBundle,   \* the origin of a file that is not there
          BundleOf,   \* the bundle embedded in each process's executable
          Dir,        \* `<name>-<hash>` directory names
          DirOf,      \* bundle -> its directory name
          MaxFiles,   \* bound: files of the largest bundle
          FileCount,  \* bundle -> its number of files
          Faults      \* which of "crash", "io" and "remove" can happen

ASSUME ConstantTypes ==
  /\ HostOf \in [Proc -> Host]
  /\ BundleOf \in [Proc -> Bundle]
  /\ DirOf \in [Bundle -> Dir]
  /\ MaxFiles \in Nat
  /\ FileCount \in [Bundle -> 0..MaxFiles]
  /\ NoBundle \notin Bundle

\* Directories are named by a 64-bit hash of the bundle's records: two bundles
\* share a directory name only on a hash collision, which is not modelled.
ASSUME NoHashCollision ==
  \A b, c \in Bundle : DirOf[b] = DirOf[c] => b = c

VARIABLES pc,         \* where each process is in `unpack`
          pid,        \* the process id of each process
          next,       \* the file the `for` loop of each process is at
          final,      \* <root>/calc-bundles/<name>-<hash>
          staging     \* <root>/calc-bundles/.<name>-<hash>.<pid>

vars == <<pc, pid, next, final, staging>>

FileNo == 1..MaxFiles

Stage == {"none", "created", "written", "ready"}
File == [stage : Stage, of : Bundle \cup {NoBundle}]
Missing == [stage |-> "none", of |-> NoBundle]

Folder == [present : BOOLEAN, file : [FileNo -> File]]
NoFiles == [j \in FileNo |-> Missing]
Absent == [present |-> FALSE, file |-> NoFiles]

\* The directory a fully unpacked bundle makes.
Complete(b) ==
  [present |-> TRUE,
   file |-> [j \in FileNo |-> IF j <= FileCount[b]
                              THEN [stage |-> "ready", of |-> b]
                              ELSE Missing]]

Stopped == {"idle", "done", "failed", "dead"}
Writing == {"file", "open", "fill", "chmod", "rename"}
Working == {"check", "clear", "lost", "discard"} \cup Writing
PC == Stopped \cup Working \cup {"run"}

Live(p) == pc[p] \notin Stopped
Home(p) == DirOf[BundleOf[p]]
Stg(p) == staging[Home(p)][pid[p]]

-----------------------------------------------------------------------------
Goto(p, label) == pc' = [pc EXCEPT ![p] = label]

\* A mutant: the staging directory is named by the process id alone.
SetStagingByPidOnly(p, folder) ==
  staging' = [d \in Dir |-> [staging[d] EXCEPT ![pid[p]] = folder]]

\* Replaces the staging directory of p.
SetStaging(p, folder) == staging' = [staging EXCEPT ![Home(p)][pid[p]] = folder]

\* The files p's staging directory has once file j holds f.
StagedWith(p, j, f) == [Stg(p) EXCEPT !.file[j] = f]

\* A program starts; its process id is one no live process of its host has.
Start(p) ==
  /\ pc[p] = "idle"
  /\ \E n \in Pid :
       /\ \A q \in Proc : HostOf[q] = HostOf[p] /\ Live(q) => pid[q] # n
       /\ pid' = [pid EXCEPT ![p] = n]
  /\ Goto(p, "check")
  /\ UNCHANGED <<next, final, staging>>

\* if dir.is_dir() { return Ok(dir); }
Check(p) ==
  /\ pc[p] = "check"
  /\ Goto(p, IF final[Home(p)].present THEN "run" ELSE "clear")
  /\ UNCHANGED <<pid, next, final, staging>>

\* fs::remove_dir_all(&staging) takes the files away one by one, then the
\* directory; its result is ignored both where the staging directory is made
\* ready and where the loser of a race discards it.
RemoveFile(p) ==
  /\ pc[p] \in {"clear", "discard"}
  /\ \E j \in FileNo :
       /\ Stg(p).file[j] # Missing
       /\ SetStaging(p, StagedWith(p, j, Missing))
  /\ UNCHANGED <<pc, pid, next, final>>

AfterRemove(p) ==
  IF pc[p] = "clear"
  THEN Goto(p, "file") /\ next' = [next EXCEPT ![p] = 1]
  ELSE Goto(p, "run") /\ UNCHANGED next

RemoveDir(p) ==
  /\ pc[p] \in {"clear", "discard"}
  /\ Stg(p).file = NoFiles
  /\ SetStaging(p, Absent)
  /\ AfterRemove(p)
  /\ UNCHANGED <<pid, final>>

RemoveFails(p) ==
  /\ "remove" \in Faults
  /\ pc[p] \in {"clear", "discard"}
  /\ AfterRemove(p)
  /\ UNCHANGED <<pid, final, staging>>

-----------------------------------------------------------------------------
(* for file in &bundle.files                                               *)

\* fs::create_dir_all(path.parent())
MakeParent(p) ==
  /\ pc[p] = "file"
  /\ next[p] <= FileCount[BundleOf[p]]
  /\ SetStaging(p, [Stg(p) EXCEPT !.present = TRUE])
  /\ Goto(p, "open")
  /\ UNCHANGED <<pid, next, final>>

\* fs::write opens the file, creating or truncating it ...
Open(p) ==
  /\ pc[p] = "open"
  /\ IF Stg(p).present
     THEN /\ SetStaging(p, StagedWith(p, next[p],
                             [stage |-> "created", of |-> BundleOf[p]]))
          /\ Goto(p, "fill")
     ELSE Goto(p, "failed") /\ UNCHANGED staging
  /\ UNCHANGED <<pid, next, final>>

\* ... and writes its bytes to the open file, wherever that file is by now: a
\* process with the same id may have renamed the staging directory into place,
\* or removed it, in which case the bytes go nowhere.
Fill(p) ==
  LET j == next[p]
      written == [stage |-> "written", of |-> BundleOf[p]]
      staged == Stg(p).file[j].stage = "created"
      installed == final[Home(p)].file[j].stage = "created"
  IN /\ pc[p] = "fill"
     /\ \/ /\ staged
           /\ SetStaging(p, StagedWith(p, j, written))
           /\ UNCHANGED final
        \/ /\ installed
           /\ final' = [final EXCEPT ![Home(p)].file[j] = written]
           /\ UNCHANGED staging
        \/ ~staged /\ ~installed /\ UNCHANGED <<final, staging>>
     /\ Goto(p, "chmod")
     /\ UNCHANGED <<pid, next>>

\* fs::set_permissions(&path, ..), then the next file
Chmod(p) ==
  /\ pc[p] = "chmod"
  /\ IF Stg(p).file[next[p]] # Missing
     THEN /\ IF Stg(p).file[next[p]].stage = "written"
             THEN SetStaging(p, StagedWith(p, next[p],
                                  [stage |-> "ready", of |-> BundleOf[p]]))
             ELSE UNCHANGED staging
          /\ next' = [next EXCEPT ![p] = @ + 1]
          /\ Goto(p, "file")
     ELSE Goto(p, "failed") /\ UNCHANGED <<next, staging>>
  /\ UNCHANGED <<pid, final>>

\* A mutant: an off-by-one, the last file is left out.
MakeStagingEarly(p) ==
  /\ pc[p] = "file"
  /\ next[p] >= FileCount[BundleOf[p]]
  /\ SetStaging(p, [Stg(p) EXCEPT !.present = TRUE])
  /\ Goto(p, "rename")
  /\ UNCHANGED <<pid, next, final>>

\* After the loop: fs::create_dir_all(&staging), for a bundle with no files
MakeStaging(p) ==
  /\ pc[p] = "file"
  /\ next[p] > FileCount[BundleOf[p]]
  /\ SetStaging(p, [Stg(p) EXCEPT !.present = TRUE])
  /\ Goto(p, "rename")
  /\ UNCHANGED <<pid, next, final>>

-----------------------------------------------------------------------------
\* rename(2) on a directory replaces only a directory that is not there or empty.
CanRename(p) ==
  /\ Stg(p).present
  /\ final[Home(p)].present => final[Home(p)].file = NoFiles

\* fs::rename(&staging, &dir)
Rename(p) ==
  /\ pc[p] = "rename"
  /\ IF CanRename(p)
     THEN /\ final' = [final EXCEPT ![Home(p)] = Stg(p)]
          /\ SetStaging(p, Absent)
          /\ Goto(p, "run")
     ELSE Goto(p, "lost") /\ UNCHANGED <<final, staging>>
  /\ UNCHANGED <<pid, next>>

\* A mutant: the loser of a race fails.
LostFails(p) ==
  /\ pc[p] = "lost"
  /\ Goto(p, "failed")
  /\ UNCHANGED <<pid, next, final, staging>>

\* A mutant: the loser of a race leaves its staging directory behind.
LostKeepsStaging(p) ==
  /\ pc[p] = "lost"
  /\ Goto(p, IF final[Home(p)].present THEN "run" ELSE "failed")
  /\ UNCHANGED <<pid, next, final, staging>>

\* A mutant: the loser of a race removes the winner's directory.
LostRemovesDir(p) ==
  /\ pc[p] = "lost"
  /\ Goto(p, IF final[Home(p)].present THEN "discard" ELSE "failed")
  /\ final' = [final EXCEPT ![Home(p)] = Absent]
  /\ UNCHANGED <<pid, next, staging>>

\* A mutant: `Err(_)` without `if dir.is_dir()`.
LostAssumesTheirs(p) ==
  /\ pc[p] = "lost"
  /\ Goto(p, "discard")
  /\ UNCHANGED <<pid, next, final, staging>>

\* Err(_) if dir.is_dir() => discard and use theirs;  Err(err) => Err(err)
Lost(p) ==
  /\ pc[p] = "lost"
  /\ Goto(p, IF final[Home(p)].present THEN "discard" ELSE "failed")
  /\ UNCHANGED <<pid, next, final, staging>>

-----------------------------------------------------------------------------
\* A mutant: a program remembers the directory of its first call.
AgainRemembers(p) ==
  /\ pc[p] = "run"
  /\ UNCHANGED vars

\* The program calls the built-in again, or ends.
Again(p) ==
  /\ pc[p] = "run"
  /\ Goto(p, "check")
  /\ UNCHANGED <<pid, next, final, staging>>

Exit(p) ==
  /\ pc[p] = "run"
  /\ Goto(p, "done")
  /\ UNCHANGED <<pid, next, final, staging>>

\* A file system call fails (`?`): `unpack` returns Err and `bundle_dir` panics;
\* a failing rename still looks at `dir` first.
IoError(p) ==
  /\ "io" \in Faults
  /\ pc[p] \in Writing
  /\ Goto(p, IF pc[p] = "rename" THEN "lost" ELSE "failed")
  /\ UNCHANGED <<pid, next, final, staging>>

\* The process is killed.
Crash(p) ==
  /\ "crash" \in Faults
  /\ Live(p)
  /\ Goto(p, "dead")
  /\ UNCHANGED <<pid, next, final, staging>>

-----------------------------------------------------------------------------
Init ==
  /\ pc = [p \in Proc |-> "idle"]
  /\ pid \in [Proc -> Pid]
  /\ next = [p \in Proc |-> 1]
  /\ final = [d \in Dir |-> Absent]
  /\ staging = [d \in Dir |-> [n \in Pid |-> Absent]]

\* The calls `unpack` itself makes.
Step(p) ==
  \/ Check(p) \/ RemoveFile(p) \/ RemoveDir(p) \/ RemoveFails(p)
  \/ MakeParent(p) \/ Open(p) \/ Fill(p) \/ Chmod(p) \/ MakeStaging(p)
  \/ Rename(p) \/ Lost(p)

Next == \E p \in Proc :
          Start(p) \/ Step(p) \/ Again(p) \/ Exit(p) \/ IoError(p) \/ Crash(p)

Spec == Init /\ [][Next]_vars

-----------------------------------------------------------------------------
(* Properties                                                              *)

TypeOK ==
  /\ pc \in [Proc -> PC]
  /\ pid \in [Proc -> Pid]
  /\ next \in [Proc -> 1..(MaxFiles + 1)]
  /\ final \in [Dir -> Folder]
  /\ staging \in [Dir -> [Pid -> Folder]]

\* "A concurrent first run can't see a half-written bundle": whatever is at
\* the directory `unpack` looks for is a whole bundle, and the one the
\* directory is named after, at every moment another process may look.
NoHalfWrittenBundle ==
  \A d \in Dir : final[d].present =>
    \E b \in Bundle : DirOf[b] = d /\ final[d] = Complete(b)

\* The directory `unpack` returns holds every file of the caller's own bundle,
\* written and executable, for as long as the caller runs from it.
RunsItsOwnBundle ==
  \A p \in Proc : pc[p] = "run" => final[Home(p)] = Complete(BundleOf[p])

\* "An existing directory is never stale": no process, live or restarted, ever
\* touches a bundle that is in place.
InstalledStays == \A d \in Dir : final[d].present => final'[d] = final[d]
InstalledIsImmutable == [][InstalledStays]_vars

\* Even where two processes do share an id, because their machines or containers
\* share the cache, a bundle's directory never gets another bundle's files: the
\* content hash is part of the staging directory's name too.
NeverMixesBundles ==
  \A d \in Dir : \A j \in FileNo :
    final[d].file[j] # Missing =>
      \E b \in Bundle : /\ DirOf[b] = d
                        /\ j <= FileCount[b]
                        /\ final[d].file[j].of = b

\* Temporary siblings do not pile up: one that is there belongs to a process
\* still unpacking that bundle, or to one that failed or was killed and whose
\* id has not come back for the same bundle since.
NoLitter ==
  \A d \in Dir : \A n \in Pid : staging[d][n].present =>
    \E p \in Proc : /\ Home(p) = d /\ pid[p] = n
                    /\ pc[p] \in Working \cup {"failed", "dead"}

-----------------------------------------------------------------------------
(* BundleUnpack implements BundleStore.                                    *)

BundleAt(d) == CHOOSE b \in Bundle : DirOf[b] = d

storeBar == [d \in Dir |-> IF final[d].present THEN BundleAt(d) ELSE NoBundle]
userBar == [p \in Proc |-> CASE pc[p] = "idle" -> "away"
                             [] pc[p] = "run" -> "running"
                             [] pc[p] \in {"done", "failed", "dead"} -> "gone"
                             [] OTHER -> "asking"]

Store == INSTANCE BundleStore WITH
           Empty <- NoBundle, store <- storeBar, user <- userBar

\* The file system calls of all the processes together look, from outside,
\* like bundles that appear whole and are then only reused.
ImplementsBundleStore == Store!Spec

-----------------------------------------------------------------------------
(* The inductive invariant behind the safety properties, for processes that *)
(* share one process id space.                                             *)

OnePidSpace == \A p, q \in Proc : HostOf[p] = HostOf[q]

\* Two live processes never have the same staging directory.
LivePidsDiffer ==
  \A p, q \in Proc : p # q /\ Live(p) /\ Live(q) => pid[p] # pid[q]

\* A staging directory only ever holds files of the bundle it is named after.
StagedFilesBelong ==
  \A d \in Dir : \A n \in Pid : \A j \in FileNo :
    staging[d][n].file[j] # Missing =>
      \E b \in Bundle : /\ DirOf[b] = d
                        /\ j <= FileCount[b]
                        /\ staging[d][n].file[j].of = b

\* A bundle's directory that is not there has nothing in it.
NothingInAbsent == \A d \in Dir : final[d].present \/ final[d] = Absent

\* What p has achieved by the time it gets where it is: the files the loop is
\* past are ready, the one it is at is as far as the label says, and nobody runs
\* or discards before the bundle is in place.
Achieved(p) ==
  /\ pc[p] \in {"open", "fill", "chmod"} => next[p] <= FileCount[BundleOf[p]]
  /\ pc[p] \in Writing =>
       /\ next[p] <= FileCount[BundleOf[p]] + 1
       /\ \A j \in 1..(next[p] - 1) :
            Stg(p).file[j] = [stage |-> "ready", of |-> BundleOf[p]]
  /\ pc[p] \in {"open", "fill", "chmod", "rename"} => Stg(p).present
  /\ pc[p] = "fill" => Stg(p).file[next[p]].stage = "created"
  /\ pc[p] = "chmod" => Stg(p).file[next[p]].stage = "written"
  /\ pc[p] = "rename" => next[p] = FileCount[BundleOf[p]] + 1
  /\ pc[p] \in {"discard", "run"} => final[Home(p)].present

IInv ==
  /\ TypeOK
  /\ LivePidsDiffer
  /\ StagedFilesBelong
  /\ NoHalfWrittenBundle
  /\ NothingInAbsent
  /\ \A p \in Proc : Achieved(p)
=============================================================================
