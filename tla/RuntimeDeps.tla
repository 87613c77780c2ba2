---------------------------- MODULE RuntimeDeps ----------------------------
(***************************************************************************)
(* What a program needs at run time, found when it is built: calc-compiler *)
(* /src/runtime_deps.rs.  `code` is a lowered program, block 1 its body.   *)
(***************************************************************************)
EXTENDS Manifest, SequencesExt

\* The built-ins found so far and those of a block, each once, in the order of
\* their first use.
RECURSIVE WalkBlock(_, _, _)

\* A mutant: only the branch taken when the condition holds is walked.
WalkInstrThen(code, instr, found) ==
  CASE instr.op = "call" ->
         IF Contains(found, instr.what) THEN found ELSE Append(found, instr.what)
    [] instr.op = "if" -> WalkBlock(code, code[instr.arms[1]], found)
    [] OTHER -> found

WalkInstr(code, instr, found) ==
  CASE instr.op = "call" ->
         IF Contains(found, instr.what) THEN found ELSE Append(found, instr.what)
    [] instr.op = "if" ->
         WalkBlock(code, code[instr.arms[2]], WalkBlock(code, code[instr.arms[1]], found))
    [] OTHER -> found

WalkBlock(code, block, found) ==
  FoldLeft(LAMBDA sofar, instr : WalkInstr(code, instr, sofar), found, block)

UsedBuiltins(code) == WalkBlock(code, code[1], <<>>)

\* The bundles to embed and what to report, when every command of an IPC
\* built-in used passes `check_command` and every bundle can be read.
Prepare(code) ==
  LET ipc == SelectSeq(UsedBuiltins(code), LAMBDA f : Kind[f] = "ipc")
  IN  [bundles |-> [i \in DOMAIN ipc |-> BundleName(ipc[i])],
       notes   |-> UNION {RuntimeRequirements(ipc[i]) : i \in DOMAIN ipc}]

\* `prepare` runs a check that can fail.
ChecksSomething(code) == Prepare(code).bundles # <<>>
=============================================================================
