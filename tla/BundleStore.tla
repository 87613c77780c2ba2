---------------------------- MODULE BundleStore ----------------------------
(***************************************************************************)
(* What unpacking an IPC bundle promises (the comment on `unpack`,         *)
(* calc-runtime/src/ipc_runtime.rs): a bundle appears in the per-user      *)
(* cache whole, in one step, under its own directory; it never changes     *)
(* afterwards; and a process only ever runs a program from a directory     *)
(* that holds its own bundle.  BundleUnpack implements this with the file  *)
(* system calls the code makes.                                            *)
(***************************************************************************)
CONSTANTS Proc,       \* runs of compiled programs
          Bundle,     \* bundle contents
          Dir,        \* directory names `<name>-<hash>`
          BundleOf,   \* the bundle embedded in a process's executable
          DirOf,      \* the directory name of a bundle
          Empty       \* a directory that is not there

VARIABLES store,      \* what each directory of the cache holds
          user        \* what each process is doing

vars == <<store, user>>

Home(p) == DirOf[BundleOf[p]]

Init ==
  /\ store = [d \in Dir |-> Empty]
  /\ user = [p \in Proc |-> "away"]

\* A process starts a call that needs its bundle.
Ask(p) ==
  /\ user[p] \in {"away", "running"}
  /\ user' = [user EXCEPT ![p] = "asking"]
  /\ UNCHANGED store

\* The bundle appears, whole, in a directory that was not there.
Install(p) ==
  /\ user[p] = "asking"
  /\ store[Home(p)] = Empty
  /\ store' = [store EXCEPT ![Home(p)] = BundleOf[p]]
  /\ user' = [user EXCEPT ![p] = "running"]

\* The directory is there already: run from it.
Reuse(p) ==
  /\ user[p] = "asking"
  /\ store[Home(p)] = BundleOf[p]
  /\ user' = [user EXCEPT ![p] = "running"]
  /\ UNCHANGED store

\* The process ends: it is done, it panics, or it is killed.
Leave(p) ==
  /\ user[p] \in {"asking", "running"}
  /\ user' = [user EXCEPT ![p] = "gone"]
  /\ UNCHANGED store

Next == \E p \in Proc : Ask(p) \/ Install(p) \/ Reuse(p) \/ Leave(p)

Spec == Init /\ [][Next]_vars
=============================================================================
