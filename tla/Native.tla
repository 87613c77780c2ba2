------------------------------- MODULE Native -------------------------------
(***************************************************************************)
(* What a generated function computes, and when it is well formed: the     *)
(* meaning of basic blocks that Cranelift and LLVM document, and the       *)
(* runtime library (calc-runtime/src/lib.rs) its calls are linked to.      *)
(***************************************************************************)
EXTENDS Naturals, SequencesExt, Float

\* The functions behind the symbols.
Function == [calc_add |-> "add", calc_mul |-> "mul", calc_sub |-> "sub"]

Value(regs, arg) == IF arg[1] = "constant" THEN arg[2] ELSE regs[arg[2]]
Holds(test, v) == v # Zero /\ (test = "one" => ~IsNaN(v))

\* A state of execution: the registers, and what was printed.  A phi takes what
\* the block that control came from sends.
Executed(came, state, instr) ==
  LET arg(i) == Value(state.regs, instr.args[i])
      prints == instr.op = "call" /\ instr.what = "calc_print"
      value == CASE instr.op = "copy" -> arg(1)
                 [] instr.op = "f64" -> Arith(instr.what, arg(1), arg(2))
                 [] prints -> arg(1)
                 [] instr.op = "call" /\ ~prints ->
                      Arith(Function[instr.what], arg(1), arg(2))
                 [] instr.op = "phi" ->
                      Value(state.regs, SelectSeq(instr.args, LAMBDA in : in[2] = came)[1][1])
      regs == state.regs
  IN  [regs |-> [n \in DOMAIN regs \cup {instr.dst} |-> IF n = instr.dst THEN value ELSE regs[n]],
       out |-> IF prints THEN Append(state.out, value) ELSE state.out]

RECURSIVE RunFrom(_, _, _, _)
RunFrom(blocks, n, came, state) ==
  LET s == FoldLeft(LAMBDA st, instr : Executed(came, st, instr), state, blocks[n].body)
      exit == blocks[n].exit
  IN  CASE exit.kind = "return" -> [value |-> Value(s.regs, exit.args[1]), out |-> s.out]
        [] exit.kind = "jump" -> RunFrom(blocks, exit.to[1], n, s)
        [] exit.kind = "fork" ->
             RunFrom(blocks, exit.to[IF Holds(exit.what, Value(s.regs, exit.args[1])) THEN 1 ELSE 2],
                     n, s)

\* Calling the function whose first block is block 1.
Execute(blocks) == RunFrom(blocks, 1, 0, [regs |-> <<>>, out |-> <<>>])

-----------------------------------------------------------------------------
(* Well-formedness                                                         *)

Preds(blocks, n) == {m \in DOMAIN blocks : n \in Range(blocks[m].exit.to)}
Assigned(body) == {body[i].dst : i \in DOMAIN body}

\* The registers assigned on every path to the start, and the end, of a block.
RECURSIVE AtStart(_, _)
AtEndOf(blocks, n) == AtStart(blocks, n) \cup Assigned(blocks[n].body)
AtStart(blocks, n) ==
  LET before == {AtEndOf(blocks, m) : m \in Preds(blocks, n)}
  IN  {r \in UNION before : \A regs \in before : r \in regs}

Usable(arg, regs) == arg[1] = "constant" \/ (arg[1] = "register" /\ arg[2] \in regs)

\* Every operand is there, whichever way control came; a phi has one operand for
\* each way; every block ends.
WellFormed(blocks) ==
  \A n \in DOMAIN blocks :
    LET body == blocks[n].body
        before(i) == AtStart(blocks, n) \cup Assigned(SubSeq(body, 1, i - 1))
    IN  /\ blocks[n].exit.kind # "none"
        /\ \A i \in DOMAIN blocks[n].exit.args :
             Usable(blocks[n].exit.args[i], AtEndOf(blocks, n))
        /\ \A i \in DOMAIN body : \A j \in DOMAIN body[i].args :
             IF body[i].op = "phi"
             THEN /\ {in[2] : in \in Range(body[i].args)} = Preds(blocks, n)
                  /\ Usable(body[i].args[j][1], AtEndOf(blocks, body[i].args[j][2]))
             ELSE Usable(body[i].args[j], before(i))

\* The symbols a function calls.
Callees(blocks) ==
  {s \in {"calc_add", "calc_mul", "calc_sub", "calc_print"} :
     \E n \in DOMAIN blocks : \E i \in DOMAIN blocks[n].body :
       blocks[n].body[i].op = "call" /\ blocks[n].body[i].what = s}
=============================================================================
