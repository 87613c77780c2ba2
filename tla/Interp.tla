------------------------------- MODULE Interp -------------------------------
(***************************************************************************)
(* The interpreter of calc-ir/src/interp.rs, as a machine: one action per  *)
(* kind of instruction, on a stack of the blocks being executed.           *)
(***************************************************************************)
EXTENDS Lower, Manifest, Float

VARIABLES store,     \* TempStore: from the temps written to their values
          control,   \* the blocks being executed, innermost last, each with
                     \* the index of its next instruction
          out,       \* what the program has had print
          panic      \* whether an IPC built-in failed

interpVars == <<store, control, out, panic>>

Running == control # <<>> /\ ~panic
Here == Last(control)
AtEnd == Here.at > Len(code[Here.block])
Current == code[Here.block][Here.at]

Step == Front(control) \o <<[Here EXCEPT !.at = @ + 1]>>

Write(t, v) == store' = [x \in DOMAIN store \cup {t} |-> IF x = t THEN v ELSE store[x]]

\* TempStore::read panics on a temp that was not written, and `assert_eq!` on a
\* call with the wrong number of arguments: the machine stops.
Readable(instr) ==
  /\ \A i \in DOMAIN instr.args : instr.args[i] \in DOMAIN store
  /\ instr.op = "call" => Len(instr.args) = Arity[instr.what]

\* The current instruction is of this kind and can read its operands.
Exec(op) == Running /\ ~AtEnd /\ Current.op = op /\ Readable(Current)
Arg(i) == store[Current.args[i]]

\* interpret(program)
Interpret ==
  /\ control = <<>> /\ Lowered /\ DOMAIN store = {}
  /\ control' = <<[block |-> 1, at |-> 1]>>
  /\ UNCHANGED <<store, out, panic>>

ExecConst ==
  /\ Exec("const")
  /\ Write(Current.dst, Current.what)
  /\ control' = Step
  /\ UNCHANGED <<out, panic>>

ExecBinOp ==
  /\ Exec("binop")
  /\ Write(Current.dst, Arith(Current.what, Arg(1), Arg(2)))
  /\ control' = Step
  /\ UNCHANGED <<out, panic>>

\* calc_print sends its argument to the program behind the built-in, relays the
\* text that comes back, and returns the argument.
ExecCall ==
  /\ Exec("call")
  /\ IF Current.what = "print"
     THEN Write(Current.dst, Arg(1)) /\ out' = Append(out, Arg(1))
     ELSE Write(Current.dst, Arith(Current.what, Arg(1), Arg(2))) /\ UNCHANGED out
  /\ control' = Step
  /\ UNCHANGED panic

\* Its program cannot be started, exits with an error or answers nonsense.
CallFails ==
  /\ Exec("call") /\ Current.what = "print"
  /\ panic' = TRUE
  /\ UNCHANGED <<store, control, out>>

ExecCopy ==
  /\ Exec("copy")
  /\ Write(Current.dst, Arg(1))
  /\ control' = Step
  /\ UNCHANGED <<out, panic>>

\* as_number() != 0.0, which holds of a NaN.
Truthy(v) == v # Zero

\* A mutant: the block that ends comes back to the same `if`.
ExecIfAgain ==
  /\ Exec("if")
  /\ control' = Append(control, [block |-> Current.arms[IF Truthy(Arg(1)) THEN 1 ELSE 2],
                                 at |-> 1])
  /\ UNCHANGED <<store, out, panic>>

ExecIf ==
  /\ Exec("if")
  /\ control' = Append(Step, [block |-> Current.arms[IF Truthy(Arg(1)) THEN 1 ELSE 2],
                              at |-> 1])
  /\ UNCHANGED <<store, out, panic>>

EndBlock ==
  /\ Running /\ AtEnd
  /\ control' = Front(control)
  /\ UNCHANGED <<store, out, panic>>

InterpInit == store = <<>> /\ control = <<>> /\ out = <<>> /\ panic = FALSE

InterpStep ==
  \/ ExecConst \/ ExecBinOp \/ ExecCall \/ CallFails
  \/ ExecCopy \/ ExecIf \/ EndBlock

-----------------------------------------------------------------------------
(* Properties                                                              *)

\* "Read of Temp before it was written" never happens: whichever branches the
\* program takes, TempStore::read finds a value for each operand, and for the
\* result at the end; a built-in is called with as many arguments as it takes.
ReadsSucceed ==
  /\ Running /\ ~AtEnd => Readable(Current)
  /\ control = <<>> /\ DOMAIN store # {} => Lowered /\ Result \in DOMAIN store

\* What has been printed is the beginning of what the program means, and not all of
\* it if a built-in fails: the call that fails prints too.  When the body has ended
\* all of it is printed, and the result is what the program means.
KeepsMeaning(meaning) ==
  Lowered =>
    /\ IF panic THEN IsStrictPrefix(out, meaning.out) ELSE IsPrefix(out, meaning.out)
    /\ control = <<>> /\ DOMAIN store # {} => store[Result] = meaning.value /\ out = meaning.out
=============================================================================
