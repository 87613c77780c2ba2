----------------------------- MODULE BundleCache -----------------------------
(***************************************************************************)
(* `unpack` of calc-runtime/src/ipc_runtime.rs in a cache directory it     *)
(* does not have to itself: something empties the user's cache while       *)
(* programs unpack into it and run from it, and the machine loses power    *)
(* before what they wrote has reached the disk, which nothing in `unpack`  *)
(* waits for.                                                              *)
(***************************************************************************)
EXTENDS BundleUnpack

CONSTANTS MaxCleans,      \* bound: bundle or staging directories cleaned
          MaxPowerCuts,   \* bound: power failures
          NoPid           \* what the cleaner is at is no staging directory

VARIABLES cleaner,     \* the directory being cleaned, or NoTarget
          cleans,      \* how many were begun
          powerCuts,   \* how often power failed
          durable,     \* the bundle directories whose files are on the disk
          spoiled,     \* history: bundle directories that a cleaner took files
                       \* from, before or after they came into place, or a power
                       \* failure the bytes of files
          robbed,      \* history: processes from whose staging directory a cleaner
                       \* took files during their latest call
          disturbed    \* history: processes whose latest call a cleaner interfered
                       \* with, there or in the bundle directory

faultVars == <<cleaner, cleans, powerCuts, durable, spoiled, robbed, disturbed>>
cacheVars == <<vars, faultVars>>

Target == [dir : Dir, pid : Pid \cup {NoPid}]
NoTarget == [dir |-> NoBundle, pid |-> NoPid]

\* The processes that unpack into the cleaned directory or run from it.
Affected(t) ==
  {p \in Proc : Live(p) /\ Home(p) = t.dir /\ t.pid \in {NoPid, pid[p]}}

Cleaned(t) == IF t.pid = NoPid THEN final[t.dir] ELSE staging[t.dir][t.pid]

SetCleaned(t, folder) ==
  IF t.pid = NoPid
  THEN final' = [final EXCEPT ![t.dir] = folder] /\ UNCHANGED staging
  ELSE staging' = [staging EXCEPT ![t.dir][t.pid] = folder] /\ UNCHANGED final

-----------------------------------------------------------------------------
(* The processes                                                           *)

\* A call begins; what cleaners did before it is none of its business.
Begin(p) ==
  /\ Start(p) \/ Again(p)
  /\ disturbed' = disturbed \ {p} /\ robbed' = robbed \ {p}
  /\ UNCHANGED <<cleaner, cleans, powerCuts, durable, spoiled>>

\* A directory that comes into place is not on the disk yet, and lacks what was
\* taken from it before.
Proceed(p) ==
  /\ Step(p)
  /\ durable' = {d \in durable : final'[d] = final[d]}
  /\ spoiled' = IF ~(pc[p] = "rename" /\ pc'[p] = "run") THEN spoiled
                ELSE IF p \in robbed THEN spoiled \cup {Home(p)} ELSE spoiled \ {Home(p)}
  /\ UNCHANGED <<cleaner, cleans, powerCuts, robbed, disturbed>>

Leave(p) == Exit(p) /\ UNCHANGED faultVars

-----------------------------------------------------------------------------
(* The machine                                                             *)

\* A cleaner goes for a directory, removes what it finds there, in any order,
\* and at last the directory, unless something has come into it by then.
CleanStarts ==
  /\ cleaner = NoTarget /\ cleans < MaxCleans
  /\ \E t \in Target : Cleaned(t).present /\ cleaner' = t
  /\ cleans' = cleans + 1
  /\ UNCHANGED <<vars, powerCuts, durable, spoiled, robbed, disturbed>>

CleanFile ==
  /\ cleaner # NoTarget
  /\ \E j \in FileNo :
       /\ Cleaned(cleaner).file[j] # Missing
       /\ SetCleaned(cleaner, [Cleaned(cleaner) EXCEPT !.file[j] = Missing])
  /\ IF cleaner.pid = NoPid
     THEN spoiled' = spoiled \cup {cleaner.dir} /\ UNCHANGED robbed
     ELSE robbed' = robbed \cup Affected(cleaner) /\ UNCHANGED spoiled
  /\ disturbed' = disturbed \cup Affected(cleaner)
  /\ UNCHANGED <<pc, pid, next, cleaner, cleans, powerCuts, durable>>

CleanDir ==
  /\ cleaner # NoTarget
  /\ IF Cleaned(cleaner).file = NoFiles
     THEN /\ SetCleaned(cleaner, Absent)
          /\ disturbed' = disturbed \cup Affected(cleaner)
          /\ spoiled' = IF cleaner.pid = NoPid THEN spoiled \ {cleaner.dir} ELSE spoiled
     ELSE UNCHANGED <<final, staging, disturbed, spoiled>>
  /\ cleaner' = NoTarget
  /\ UNCHANGED <<pc, pid, next, cleans, powerCuts, durable, robbed>>

\* The kernel writes the files of a bundle to the disk, sooner or later.
Flush ==
  /\ \E d \in Dir \ durable : final[d].present /\ durable' = durable \cup {d}
  /\ UNCHANGED <<vars, cleaner, cleans, powerCuts, spoiled, robbed, disturbed>>

\* A file whose name is on the disk without its bytes.
Torn(file, lost) ==
  [j \in FileNo |-> IF j \in lost /\ file[j] # Missing
                    THEN [file[j] EXCEPT !.stage = "created"] ELSE file[j]]

\* Power fails: every process is gone, and of the files that had not reached the
\* disk some have lost their bytes.
PowerFails ==
  /\ powerCuts < MaxPowerCuts
  /\ \E lost \in SUBSET FileNo :
       LET unsafe == {d \in Dir \ durable : final[d].present} IN
       /\ final' = [d \in Dir |-> IF d \in unsafe
                      THEN [final[d] EXCEPT !.file = Torn(@, lost)] ELSE final[d]]
       /\ staging' = [d \in Dir |-> [n \in Pid |->
                        [staging[d][n] EXCEPT !.file = Torn(@, lost)]]]
       /\ spoiled' = spoiled \cup {d \in unsafe : final'[d] # final[d]}
  /\ pc' = [p \in Proc |-> IF Live(p) THEN "dead" ELSE pc[p]]
  /\ powerCuts' = powerCuts + 1
  /\ cleaner' = NoTarget
  /\ UNCHANGED <<pid, next, cleans, durable, robbed, disturbed>>

-----------------------------------------------------------------------------
CacheInit ==
  /\ Init
  /\ cleaner = NoTarget /\ cleans = 0 /\ powerCuts = 0
  /\ durable = {} /\ spoiled = {} /\ robbed = {} /\ disturbed = {}

CacheNext ==
  \/ \E p \in Proc : Begin(p) \/ Proceed(p) \/ Leave(p)
  \/ CleanStarts \/ CleanFile \/ CleanDir \/ Flush \/ PowerFails

CacheSpec == CacheInit /\ [][CacheNext]_cacheVars

\* The operating system keeps running a process that has a call to make; nothing
\* is said of the cleaner, nor of when bytes reach the disk.
FairCacheSpec == CacheSpec /\ \A p \in Proc : WF_cacheVars(Proceed(p))

-----------------------------------------------------------------------------
(* Properties                                                              *)

\* A bundle directory that is there holds the whole bundle, even one that was
\* emptied and unpacked again, or unpacked by a process that came back after a
\* power failure with the id of one that died in the middle of it.  It lacks
\* something only where a cleaner took files from it, or from the staging directory
\* it was renamed from, or power failed before its files were on the disk; and then
\* `unpack` trusts it as it is, for as long as it is there.
HalfOnlyAfterFault ==
  \A d \in Dir :
    \/ ~final[d].present
    \/ \E b \in Bundle : DirOf[b] = d /\ final[d] = Complete(b)
    \/ d \in spoiled

\* The directory that `unpack` returned stays there, whole, for the rest of the call,
\* even where it was removed since the call before, unless a cleaner is at it or at
\* the process's staging directory during the very call, or the call found it spoiled
\* and trusted it.
RunsWholeUnlessSpoiled ==
  \A p \in Proc :
    pc[p] = "run" /\ p \notin disturbed /\ Home(p) \notin spoiled =>
      final[Home(p)] = Complete(BundleOf[p])

\* Nobody waits for what cleaners and power failures left, or fails because of it: a
\* call ends by running, in a whole bundle or in a directory that is spoiled already,
\* which `is_dir` does not tell from a whole one, so that the program may then fail;
\* unless a cleaner was at its own directories during that very call, or power failed.
CallsRecover ==
  \A p \in Proc :
    pc[p] = "check" ~>
      \/ pc[p] = "run" /\ (final[Home(p)] = Complete(BundleOf[p]) \/ Home(p) \in spoiled)
      \/ pc[p] \in {"run", "failed"} /\ p \in disturbed
      \/ pc[p] = "dead"
=============================================================================
