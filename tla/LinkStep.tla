------------------------------ MODULE LinkStep ------------------------------
(***************************************************************************)
(* `calcc build` and its link step (calc-compiler/src/main.rs, link.rs):   *)
(* builds that may run at the same time write two object files next to the *)
(* output, run the linker on them, and delete them.  One action per file   *)
(* system call, and one per file the linker reads or writes.               *)
(***************************************************************************)
EXTENDS Naturals, Sequences

CONSTANTS Build,      \* runs of `calcc build`
          Stem,       \* output file names without their extension
          Ext,        \* extensions of output files
          StemOf,     \* build -> stem of its `-o` path
          ExtOf,      \* build -> extension of its `-o` path
          Keep,       \* the builds with --keep-object
          Faults      \* which of "crash", "io" and "remove" can happen

ASSUME LinkConstants ==
  /\ StemOf \in [Build -> Stem]
  /\ ExtOf \in [Build -> Ext]
  /\ Keep \subseteq Build

VARIABLES pc,         \* where each build is
          files,      \* what each path holds
          read,       \* what the linker of each build has read
          drops,      \* the TempFiles of each build, in the order they drop
          outcome,    \* the exit each build is headed for: "ok" or "err"
          met,        \* history: the builds that were ever at work at the same
                      \* time as another with the same stem
          stuck       \* history: the files that a write or a removal failed on,
                      \* and that were not removed since

history == <<met, stuck>>
vars == <<pc, files, read, drops, outcome, history>>

\* output_path, and output_path.with_extension(..)
Output(b) == <<StemOf[b], ExtOf[b]>>
ObjectPath(b) == <<StemOf[b], "o">>
BundlesPath(b) == <<StemOf[b], "bundles.o">>

Path == Stem \X (Ext \cup {"o", "bundles.o"})

\* A file holds a build's object or bundles, a program linked from the object
\* of one build and the bundles of another, or part of something.
Nothing == <<"nothing">>
Torn == <<"torn">>
Object(b) == <<"object", b>>
Bundles(b) == <<"bundles", b>>
Program(o, l) == <<"program", o, l>>

Content == {Nothing, Torn} \cup {Object(b) : b \in Build} \cup {Bundles(b) : b \in Build}
             \cup {Program(o, l) : o, l \in Build}

Over == {"ok", "err", "dead"}
PC == {"idle", "front", "object", "objectBytes", "bundles", "bundlesBytes",
       "spawn", "readObject", "readBundles", "write", "drop"} \cup Over

Active(b) == pc[b] \notin {"idle"} \cup Over

-----------------------------------------------------------------------------
Goto(b, label) == pc' = [pc EXCEPT ![b] = label]

Put(path, content) == files' = [files EXCEPT ![path] = content]

\* A mutant: `--keep-object` forgotten.
LeaveAlways(b, paths, how) ==
  /\ Goto(b, "drop")
  /\ drops' = [drops EXCEPT ![b] = paths]
  /\ outcome' = [outcome EXCEPT ![b] = how]

\* The build drops these files, then exits like this.
Leave(b, paths, how) ==
  /\ Goto(b, "drop")
  /\ drops' = [drops EXCEPT ![b] = IF b \in Keep THEN <<>> ELSE paths]
  /\ outcome' = [outcome EXCEPT ![b] = how]

Start(b) ==
  /\ pc[b] = "idle"
  /\ Goto(b, "front")
  /\ LET same == {c \in Build : Active(c) /\ StemOf[c] = StemOf[b]}
     IN  met' = IF same = {} THEN met ELSE met \cup same \cup {b}
  /\ UNCHANGED <<files, read, drops, outcome, stuck>>

\* Selecting the backend, parsing, resolving, lowering, code generation, the
\* run-time dependency checks and the symbol check: none writes a file.
FrontEnd(b) ==
  /\ pc[b] = "front"
  /\ \/ Goto(b, "object") /\ UNCHANGED <<drops, outcome>>
     \/ Leave(b, <<>>, "err")
  /\ UNCHANGED <<files, read, history>>

\* std::fs::write(&object_path, ..) creates or truncates the file ...
OpenObject(b) ==
  /\ pc[b] = "object"
  /\ Put(ObjectPath(b), Torn)
  /\ Goto(b, "objectBytes")
  /\ UNCHANGED <<read, drops, outcome, history>>

\* ... and writes it.  The TempFile guard exists only after that.
FillObject(b) ==
  /\ pc[b] = "objectBytes"
  /\ Put(ObjectPath(b), Object(b))
  /\ Goto(b, "bundles")
  /\ UNCHANGED <<read, drops, outcome, history>>

\* A mutant: bundles that are there already are taken as they are.
OpenBundlesOnce(b) ==
  /\ pc[b] = "bundles"
  /\ IF files[BundlesPath(b)] = Nothing
     THEN Put(BundlesPath(b), Torn) /\ Goto(b, "bundlesBytes")
     ELSE Goto(b, "spawn") /\ UNCHANGED files
  /\ UNCHANGED <<read, drops, outcome, history>>

\* bundle_object(..) may find no object format for the target.
OpenBundles(b) ==
  /\ pc[b] = "bundles"
  /\ \/ /\ Put(BundlesPath(b), Torn)
        /\ Goto(b, "bundlesBytes")
        /\ UNCHANGED <<drops, outcome>>
     \/ /\ Leave(b, <<ObjectPath(b)>>, "err")
        /\ UNCHANGED files
  /\ UNCHANGED <<read, history>>

FillBundles(b) ==
  /\ pc[b] = "bundlesBytes"
  /\ Put(BundlesPath(b), Bundles(b))
  /\ Goto(b, "spawn")
  /\ UNCHANGED <<read, drops, outcome, history>>

\* cmd.output(): the linker starts, or `?` drops the guards in reverse order.
SpawnLinker(b) ==
  /\ pc[b] = "spawn"
  /\ \/ Goto(b, "readObject") /\ UNCHANGED <<drops, outcome>>
     \/ Leave(b, <<BundlesPath(b), ObjectPath(b)>>, "err")
  /\ UNCHANGED <<files, read, history>>

LinkerReadsObject(b) ==
  /\ pc[b] = "readObject"
  /\ read' = [read EXCEPT ![b] = <<files[ObjectPath(b)]>>]
  /\ Goto(b, "readBundles")
  /\ UNCHANGED <<files, drops, outcome, history>>

LinkerReadsBundles(b) ==
  /\ pc[b] = "readBundles"
  /\ read' = [read EXCEPT ![b] = Append(@, files[BundlesPath(b)])]
  /\ Goto(b, "write")
  /\ UNCHANGED <<files, drops, outcome, history>>

\* The linker takes one whole object and one whole bundles object, and refuses
\* to write over an input.
Linkable(b) ==
  /\ Output(b) \notin {ObjectPath(b), BundlesPath(b)}
  /\ read[b][1][1] = "object" /\ read[b][2][1] = "bundles"

\* A mutant: only a successful link is tidied up after.
LinkerWritesTidyOnSuccess(b) ==
  /\ pc[b] = "write"
  /\ \/ /\ Linkable(b)
        /\ Put(Output(b), Program(read[b][1][2], read[b][2][2]))
        /\ Leave(b, <<ObjectPath(b), BundlesPath(b)>>, "ok")
     \/ /\ Leave(b, <<>>, "err")
        /\ UNCHANGED files
  /\ UNCHANGED <<read, history>>

\* It writes the program, or fails; then drop(cleanup); drop(bundles_cleanup).
LinkerWrites(b) ==
  /\ pc[b] = "write"
  /\ \/ /\ Linkable(b)
        /\ Put(Output(b), Program(read[b][1][2], read[b][2][2]))
        /\ Leave(b, <<ObjectPath(b), BundlesPath(b)>>, "ok")
     \/ /\ Leave(b, <<ObjectPath(b), BundlesPath(b)>>, "err")
        /\ UNCHANGED files
  /\ UNCHANGED <<read, history>>

\* impl Drop for TempFile: remove_file, its result ignored.
Drop(b) ==
  /\ pc[b] = "drop" /\ drops[b] # <<>>
  /\ LET path == Head(drops[b])
     IN \/ Put(path, Nothing) /\ stuck' = stuck \ {path}
        \/ /\ "remove" \in Faults /\ UNCHANGED files
           /\ stuck' = stuck \cup {path}
  /\ drops' = [drops EXCEPT ![b] = Tail(@)]
  /\ UNCHANGED <<pc, read, outcome, met>>

\* A mutant: std::process::exit, which drops nothing.
ExitAtOnce(b) ==
  /\ pc[b] = "drop"
  /\ Goto(b, outcome[b])
  /\ UNCHANGED <<files, read, drops, outcome, history>>

Exit(b) ==
  /\ pc[b] = "drop" /\ drops[b] = <<>>
  /\ Goto(b, outcome[b])
  /\ UNCHANGED <<files, read, drops, outcome, history>>

\* A write fails, before or after it made the file: `?` drops the guards there are.
WriteFails(b) ==
  /\ "io" \in Faults
  /\ \/ pc[b] \in {"object", "objectBytes"} /\ Leave(b, <<>>, "err")
     \/ pc[b] \in {"bundles", "bundlesBytes"} /\ Leave(b, <<ObjectPath(b)>>, "err")
  /\ stuck' = stuck \cup (CASE pc[b] = "objectBytes" -> {ObjectPath(b)}
                            [] pc[b] = "bundlesBytes" -> {BundlesPath(b)}
                            [] OTHER -> {})
  /\ UNCHANGED <<files, read, met>>

Crash(b) ==
  /\ "crash" \in Faults
  /\ Active(b)
  /\ Goto(b, "dead")
  /\ UNCHANGED <<files, read, drops, outcome, history>>

-----------------------------------------------------------------------------
Init ==
  /\ pc = [b \in Build |-> "idle"]
  /\ files = [p \in Path |-> Nothing]
  /\ read = [b \in Build |-> <<>>]
  /\ drops = [b \in Build |-> <<>>]
  /\ outcome = [b \in Build |-> "ok"]
  /\ met = {} /\ stuck = {}

Next == \E b \in Build :
          \/ Start(b) \/ FrontEnd(b)
          \/ OpenObject(b) \/ FillObject(b) \/ OpenBundles(b) \/ FillBundles(b)
          \/ SpawnLinker(b) \/ LinkerReadsObject(b) \/ LinkerReadsBundles(b)
          \/ LinkerWrites(b) \/ Drop(b) \/ Exit(b) \/ WriteFails(b) \/ Crash(b)

Spec == Init /\ [][Next]_vars

-----------------------------------------------------------------------------
(* Properties                                                              *)

TypeOK ==
  /\ pc \in [Build -> PC]
  /\ files \in [Path -> Content]
  /\ \A b \in Build : /\ Len(read[b]) <= 2
                      /\ \A i \in DOMAIN read[b] : read[b][i] \in Content
                      /\ Len(drops[b]) <= 2
                      /\ \A i \in DOMAIN drops[b] : drops[b][i] \in Path
                      /\ pc[b] \in {"ok", "err"} => drops[b] = <<>>
  /\ outcome \in [Build -> {"ok", "err"}]
  /\ met \subseteq Build /\ stuck \subseteq Path

\* "wrote <path>": when a build reports success, its path holds the program
\* linked from its own object and its own bundles and no other build's, whatever
\* earlier builds left there and whatever builds with other stems do.
WroteItsOwn ==
  \A b \in Build \ met : pc[b] # "ok" /\ pc'[b] = "ok" => files'[Output(b)] = Program(b, b)
SuccessIsItsOwn == [][WroteItsOwn]_vars

\* --keep-object "leaves" the object files next to the output: they hold what
\* this build was linked from when it is over.
KeptAtTheEnd ==
  \A b \in Keep \ met : pc[b] # "ok" /\ pc'[b] = "ok" =>
    /\ files'[ObjectPath(b)] = Object(b)
    /\ files'[BundlesPath(b)] = Bundles(b)
ObjectsAreKept == [][KeptAtTheEnd]_vars

\* What is there of an object file is a live build's, a killed one's, or one's
\* that keeps it.
Explained(path) ==
  \E c \in Build : /\ path \in {ObjectPath(c), BundlesPath(c)}
                   /\ Active(c) \/ pc[c] = "dead" \/ (c \in Keep /\ pc[c] # "idle")

Lingering == {path \in {ObjectPath(b) : b \in Build} \cup {BundlesPath(b) : b \in Build} :
                files[path] # Nothing /\ ~Explained(path)}

\* "The intermediate object file doesn't linger next to the requested output
\* whether or not linking succeeds."
NothingLingers == Lingering = {}

\* Nothing lingers but a file that a write or its removal failed on.
LingersOnlyIfStuck == Lingering \subseteq stuck
=============================================================================
