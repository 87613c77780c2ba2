------------------------------- MODULE Calcc -------------------------------
(***************************************************************************)
(* `calcc` (calc-compiler/src/main.rs): parse and resolve (`check`), lower *)
(* and interpret (`run --interpret`), or lower, generate code, prepare     *)
(* what it needs and run the executable (`build`), each pass on what the   *)
(* one before it made.  What linking does to files is in LinkStep.         *)
(***************************************************************************)
EXTENDS Parse, Resolve, Interp, Codegen, Native, RuntimeDeps

\* KNOWN
Backend == {"cranelift", "llvm"}

\* backend::select: the backend of that name, or of no name if there is one, of
\* those compiled into this `calcc`; none if there is no such backend.
Select(enabled, name) ==
  IF name # <<>> THEN enabled \cap Range(name)
  ELSE IF Cardinality(enabled) = 1 THEN enabled ELSE {}

VARIABLES phase,     \* "parse", "rejected"; "checked"; or "lower", and then
                     \* "run", "done"; or "failed", "built", "exited"
          errors,    \* what resolution reported
          exe,       \* the executable: <<>> or <<[main, bundles, notes]>>
          answer     \* what the program computed: <<>> or <<value>>

vars == <<parseVars, lowerVars, interpVars, phase, errors, exe, answer>>

Program == ast[1]

Parser ==
  /\ phase = "parse"
  /\ ParseNext
  /\ UNCHANGED <<lowerVars, interpVars, phase, errors, exe, answer>>

\* parse_and_resolve: a program with errors gets no further, and `check` ends.
Check ==
  /\ phase = "parse" /\ ast # <<>>
  /\ errors' = ResolveErrors(Program)
  /\ IF errors' = <<>>
     THEN \/ phase' = "lower" /\ LowerProgram(Program)
          \/ phase' = "checked" /\ UNCHANGED lowerVars
     ELSE phase' = "rejected" /\ UNCHANGED lowerVars
  /\ UNCHANGED <<parseVars, interpVars, exe, answer>>

Lowering ==
  /\ phase = "lower"
  /\ LowerStep
  /\ UNCHANGED <<parseVars, interpVars, phase, errors, exe, answer>>

\* interpret(&lower(&ast))
Run ==
  /\ phase = "lower"
  /\ Interpret
  /\ phase' = "run"
  /\ UNCHANGED <<parseVars, lowerVars, errors, exe, answer>>

Interpreting ==
  /\ phase = "run"
  /\ InterpStep
  /\ UNCHANGED <<parseVars, lowerVars, phase, errors, exe, answer>>

\* store.read(program.result)
Finish ==
  /\ phase = "run" /\ control = <<>>
  /\ Result \in DOMAIN store
  /\ phase' = "done"
  /\ answer' = <<store[Result]>>
  /\ UNCHANGED <<parseVars, lowerVars, interpVars, errors, exe>>

\* backend.compile(&program), runtime_deps::prepare(&program, ..) and link, of
\* which `prepare` can find that a command does not run on this machine.
Build(enabled, name) ==
  /\ phase = "lower" /\ Lowered
  /\ \/ /\ phase' = "built"
        /\ \E backend \in Select(enabled, name) :
             exe' = <<[main    |-> Compile(backend, code, Result),
                       bundles |-> Prepare(code).bundles,
                       notes   |-> Prepare(code).notes]>>
     \/ /\ Select(enabled, name) # {} /\ ChecksSomething(code)
        /\ phase' = "failed"
        /\ UNCHANGED exe
  /\ UNCHANGED <<parseVars, lowerVars, interpVars, errors, answer>>

\* The executable runs, or aborts in one of its calls of `print`.  What one that
\* is not well formed would compute is not defined.
Launch ==
  /\ phase = "built" /\ WellFormed(exe[1].main)
  /\ LET run == Execute(exe[1].main)
     IN \/ answer' = <<run.value>> /\ out' = run.out /\ UNCHANGED panic
        \/ \E n \in DOMAIN run.out :
             out' = SubSeq(run.out, 1, n - 1) /\ panic' = TRUE /\ UNCHANGED answer
  /\ phase' = "exited"
  /\ UNCHANGED <<parseVars, lowerVars, store, control, errors, exe>>

Init ==
  /\ ParseInit /\ LowerInit /\ InterpInit
  /\ phase = "parse" /\ errors = <<>> /\ exe = <<>> /\ answer = <<>>

SomeBuild ==
  \E enabled \in SUBSET Backend, name \in {<<>>} \cup {<<b>> : b \in Backend} : Build(enabled, name)

Next ==
  \/ Parser \/ Check \/ Lowering \/ Run \/ Interpreting \/ Finish
  \/ SomeBuild
  \/ Launch

Spec == Init /\ [][Next]_vars

\* One thread, which nothing can keep from its next step.
FairSpec == Spec /\ WF_vars(\/ Lowering \/ Run \/ Interpreting \/ Finish
                            \/ SomeBuild \/ Launch)

-----------------------------------------------------------------------------
(* Properties                                                              *)

Source == INSTANCE Semantics

IsOneOf(s, kinds) == s = <<>> \/ (Len(s) = 1 /\ s[1] \in kinds)

TypeOK ==
  /\ phase \in {"parse", "rejected", "checked", "lower", "run", "done", "failed", "built", "exited"}
  /\ (exe # <<>>) <=> phase \in {"built", "exited"}
  /\ next \in 0..(4 * MaxSize)
  /\ IsOneOf(ret, 0..(next - 1))
  /\ \A i \in DOMAIN env : env[i] \in [DOMAIN env[i] -> 0..(next - 1)]
  /\ Len(entry) = Len(code)
  /\ \A i \in DOMAIN frames : frames[i].block \in DOMAIN code
  /\ DOMAIN store \subseteq 0..(next - 1)
  /\ \A i \in DOMAIN control : control[i].block \in DOMAIN code
  /\ panic \in BOOLEAN

\* Resolution reports exactly the uses of unbound names, and rejects exactly the
\* programs that have one or bind a name twice in a block: lexical scoping, a
\* `let` in force from the next statement to the end of its block.
ResolveIsExact ==
  ast # <<>> /\ phase # "parse" =>
    OneStep!Exact(errors, Source!FreeNames(Program), Source!BindsOnce(Program))

\* The answer, of the interpreter and of the executable of either backend, is the
\* source program's, and what is printed is what the source says in the order it
\* says it, or the beginning of that if a built-in fails: the value an `if` leaves
\* behind and a condition that is not a number included.
MeaningIsKept ==
  LET meaning == Source!Meaning(Program)
  IN  /\ phase = "run" => Lowered /\ KeepsMeaning(meaning)
      /\ phase \in {"done", "exited"} =>
           IF panic THEN IsStrictPrefix(out, meaning.out)
           ELSE answer = <<meaning.value>> /\ out = meaning.out

\* "generated LLVM IR is well-formed": every operand is there on every path to
\* it, and a phi has one operand for each block control can come from: the lookups
\* in the tables of both backends and `module.verify()` never panic.
GeneratedIsWellFormed == phase = "built" => WellFormed(exe[1].main)

\* The executable carries the bundle of each IPC built-in its code calls on some
\* path, once, and no other, and `calcc build` reports just what those need:
\* "bundle isn't embedded" is out of reach.
ShipsWhatItCalls ==
  phase = "built" =>
    LET called == {f \in Builtin : Kind[f] = "ipc" /\ Symbol[f] \in Callees(exe[1].main)}
    IN  /\ Range(exe[1].bundles) = {BundleName(f) : f \in called}
        /\ IsInjective(exe[1].bundles)
        /\ exe[1].notes = UNION {RuntimeRequirements(f) : f \in called}

\* Lowering and interpretation of a program that resolves come to an end, and so
\* does its executable, with the answer unless an IPC built-in fails: no
\* activation waits for a value that never comes, and no call is made twice.
EveryProgramEnds ==
  phase = "lower" ~> phase \in {"done", "failed", "exited"} \/ panic
=============================================================================
