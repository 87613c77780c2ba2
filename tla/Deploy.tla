------------------------------- MODULE Deploy -------------------------------
(***************************************************************************)
(* An IPC built-in from the manifest to the machine it runs on, for any    *)
(* manifest: calc-builtins/src/lib.rs, `prepare` of calc-compiler/src/     *)
(* runtime_deps.rs on the machine that builds, and `run` of calc-runtime/  *)
(* src/ipc_runtime.rs on the one the program runs on.                      *)
(*                                                                         *)
(* A command is [program, refers, probe, on]: the program a name on PATH   *)
(* or a path in the bundle, `refers` whether an argument or a variable     *)
(* refers to the bundle.  The bundle of a built-in is <<>> or <<its name>>. *)
(***************************************************************************)
EXTENDS BundleFormat

InBundle(c) == c.program[1] = "in bundle"

\* An executable file's mode, of 0..Base-1.
Executable(mode) == mode % 2 = 1

-----------------------------------------------------------------------------
(* The manifest                                                            *)

RunsFromBundle(c) == InBundle(c)
UsesBundle(c) == RunsFromBundle(c) \/ c.refers

\* ipc_command: <<>> or <<the first command for the family>>.
IpcCommand(b, family) ==
  LET its == {i \in DOMAIN b.commands : b.commands[i].on \in {"any", family}}
  IN  IF its = {} THEN <<>> ELSE <<b.commands[Min(its)]>>

\* A mutant: a program among the arguments of another, all taken to be inside.
RuntimeRequirementsOf1(b, family) ==
  LET c == IpcCommand(b, family)
  IN  (IF c # <<>> /\ ~UsesBundle(c[1]) THEN {<<"command", c[1].program[2]>>} ELSE {})
      \cup {<<"cache", n>> : n \in Range(b.bundle)}

\* runtime_requirements
RuntimeRequirementsOf(b, family) ==
  LET c == IpcCommand(b, family)
  IN  (IF c # <<>> /\ ~RunsFromBundle(c[1]) THEN {<<"command", c[1].program[2]>>} ELSE {})
      \cup {<<"cache", n>> : n \in Range(b.bundle)}

-----------------------------------------------------------------------------
(* The machine that builds: the programs on its PATH, and its bundle       *)
(* directories, each a sequence of files in the order read_dir gives them. *)

\* Where one file's path is before another's.
Before(f, g) ==
  LET n == Len(f.path) m == Len(g.path)
  IN  \/ n < m /\ SubSeq(g.path, 1, n) = f.path
      \/ \E i \in 1..(IF n < m THEN n ELSE m) :
           /\ f.path[i] < g.path[i]
           /\ SubSeq(f.path, 1, i - 1) = SubSeq(g.path, 1, i - 1)

\* A mutant: in the order of the directory.
ReadBundleUnsorted(dir) == dir

\* read_bundle
ReadBundle(dir) ==
  LET places == 1..Len(dir)
      order == CHOOSE p \in Bijection(places, places) :
                 \A i, j \in places : i < j => ~Before(dir[p[j]], dir[p[i]])
  IN  [i \in places |-> dir[order[i]]]

FilesAt(files, path) == {f \in Range(files) : f.path = path}

\* Whether a program starts, with the bundle's files where it looks for them, and
\* whether it exits with 0.
Starts(c, path, files) ==
  IF InBundle(c)
  THEN \E f \in FilesAt(files, c.program[2]) : Executable(f.mode)
  ELSE path[c.program[2]] # "absent"
ExitsWell(c, path) == InBundle(c) \/ path[c.program[2]] = "works"

\* A mutant: the probe is enough.
CheckCommandUnread(b, family, path, dirs) ==
  LET c == IpcCommand(b, family)
      files == IF b.bundle = <<>> THEN <<>> ELSE dirs[b.bundle[1]]
  IN  /\ c # <<>>
      /\ UsesBundle(c[1]) <=> b.bundle # <<>>
      /\ c[1].probe => Starts(c[1], path, files) /\ ExitsWell(c[1], path)

\* check_command
CheckCommand(b, family, path, dirs) ==
  LET c == IpcCommand(b, family)
      files == IF b.bundle = <<>> THEN <<>> ELSE dirs[b.bundle[1]]
  IN  /\ c # <<>>
      /\ UsesBundle(c[1]) <=> b.bundle # <<>>
      /\ RunsFromBundle(c[1]) => FilesAt(files, c[1].program[2]) # {}
      /\ c[1].probe => Starts(c[1], path, files) /\ ExitsWell(c[1], path)

\* prepare, for the IPC built-ins a program uses, in their order: <<>>, or <<the
\* packed bundles and the notes>>.
PrepareFor(used, family, path, dirs) ==
  LET bundle(n) == [name |-> n, files |-> ReadBundle(dirs[n])]
      packed == FlattenSeq([i \in DOMAIN used |->
                  IF used[i].bundle = <<>> THEN <<>> ELSE <<bundle(used[i].bundle[1])>>])
  IN  IF \A i \in DOMAIN used : CheckCommand(used[i], family, path, dirs)
      THEN <<[blob |-> Pack(packed),
              notes |-> UNION {RuntimeRequirementsOf(b, family) : b \in Range(used)}]>>
      ELSE <<>>

-----------------------------------------------------------------------------
(* Into the executable and out of it                                       *)

\* bundle_object: the symbols calc_ipc_bundles and calc_ipc_bundles_len.
BundleObject(blob) == [data |-> IF blob = <<>> THEN <<0>> ELSE blob, len |-> Len(blob)]

\* embedded_blob
EmbeddedBlob(object) == SubSeq(object.data, 1, object.len)

\* run: what starts, with which bundle, or what its panic says.  Bundles are
\* <<those of the executable>>, or None.
RunWith(b, family, bundles, machine) ==
  LET c == IpcCommand(b, family)
      named == IF b.bundle = <<>> \/ bundles = None THEN {}
               ELSE {i \in DOMAIN bundles[1] : bundles[1][i].name = b.bundle[1]}
      files == IF named = {} THEN <<>> ELSE bundles[1][Min(named)].files
  IN  CASE c = <<>> -> <<"no command">>
        [] c # <<>> /\ b.bundle # <<>> /\ bundles = None -> <<"malformed">>
        [] c # <<>> /\ b.bundle # <<>> /\ bundles # None /\ named = {} -> <<"isn't embedded">>
        [] c # <<>> /\ named # {} /\ ~machine.cache -> <<"couldn't unpack">>
        [] OTHER -> IF Starts(c[1], machine.path, files) THEN <<"started", files>>
                    ELSE <<"couldn't start">>

RunEmbedded(b, family, object, machine) ==
  RunWith(b, family, Parse(EmbeddedBlob(object)), machine)
=============================================================================
