------------------------------ MODULE Codegen ------------------------------
(***************************************************************************)
(* The two code generators, calc-compiler/src/cranelift_backend.rs and     *)
(* llvm_backend.rs: from a lowered program to a function of basic blocks.  *)
(* Both drive a builder that appends to the block it is positioned at.     *)
(***************************************************************************)
EXTENDS Manifest, SequencesExt

\* An operand is a constant or what a register holds: a Cranelift variable or
\* an LLVM value.  Looking up a temp the table does not have is a panic.
Constant(v) == <<"constant", v>>
Register(n) == <<"register", n>>
Panic(t)    == <<"panic", t>>

Machine(op, what, dst, args) == [op |-> op, what |-> what, dst |-> dst, args |-> args]

\* How a block ends.
Jump(to) == [kind |-> "jump", args |-> <<>>, what |-> "", to |-> <<to>>]
\* A mutant: the targets of a conditional jump are swapped.
ForkSwapped(test, cond, t, e) ==
  [kind |-> "fork", args |-> <<cond>>, what |-> test, to |-> <<e, t>>]
Fork(test, cond, t, e) ==
  [kind |-> "fork", args |-> <<cond>>, what |-> test, to |-> <<t, e>>]
LeaveWith(v) == [kind |-> "return", args |-> <<v>>, what |-> "", to |-> <<>>]

NoExit == [kind |-> "none", args |-> <<>>, what |-> "", to |-> <<>>]
EmptyBlock == [body |-> <<>>, exit |-> NoExit]

\* The builder, with the table from temps to operands; `made` counts the values
\* defined.
NewBuilder(table) == [blocks |-> <<EmptyBlock>>, here |-> 1, table |-> table, made |-> 0]

Insert(b, instr) == [b EXCEPT !.blocks[b.here].body = Append(@, instr)]
Seal(b, exit) == [b EXCEPT !.blocks[b.here].exit = exit]
PositionAt(b, n) == [b EXCEPT !.here = n]
AppendBlocks(b, n) == [b EXCEPT !.blocks = @ \o [i \in 1..n |-> EmptyBlock]]

\* vars[t], values[t]
Operand(b, t) == IF t \in DOMAIN b.table THEN b.table[t] ELSE Panic(t)
Operands(b, ts) == [i \in DOMAIN ts |-> Operand(b, ts[i])]

\* A mutant: FloatCC::OrderedNotEqual, which is false of a NaN.
OrderedNotEqual == "one"
\* FloatCC::NotEqual and FloatPredicate::UNE: unordered or not equal.
NotEqual == "une"

-----------------------------------------------------------------------------
(* Cranelift: a variable for every temp, which the branches of an `if` both *)
(* assign.                                                                  *)

\* collect_temps
CollectTemps(code, result) ==
  {result} \cup UNION {{code[b][i].dst : i \in DOMAIN code[b]} : b \in DOMAIN code}

RECURSIVE CraneliftBlock(_, _, _)

\* builder.def_var(vars[dst], ..)
DefVar(b, t, op, what, args) == Insert(b, Machine(op, what, Operand(b, t)[2], args))

CraneliftIf(code, b, instr) ==
  LET n == Len(b.blocks)
      forked == AppendBlocks(Seal(b, Fork(NotEqual, Operand(b, instr.args[1]), n + 1, n + 2)), 3)
      then == Seal(CraneliftBlock(code, code[instr.arms[1]], PositionAt(forked, n + 1)),
                   Jump(n + 3))
      else == Seal(CraneliftBlock(code, code[instr.arms[2]], PositionAt(then, n + 2)),
                   Jump(n + 3))
  IN  PositionAt(else, n + 3)

CraneliftInstr(code, b, instr) ==
  CASE instr.op = "const" -> DefVar(b, instr.dst, "copy", "", <<Constant(instr.what)>>)
    [] instr.op = "binop" -> DefVar(b, instr.dst, "f64", instr.what, Operands(b, instr.args))
    [] instr.op = "call" ->
         DefVar(b, instr.dst, "call", Symbol[instr.what], Operands(b, instr.args))
    [] instr.op = "copy" -> DefVar(b, instr.dst, "copy", "", Operands(b, instr.args))
    [] instr.op = "if" -> CraneliftIf(code, b, instr)

CraneliftBlock(code, block, b) ==
  FoldLeft(LAMBDA builder, instr : CraneliftInstr(code, builder, instr), b, block)

\* define_calc_main
CraneliftMain(code, result) ==
  LET b == CraneliftBlock(code, code[1],
             NewBuilder([t \in CollectTemps(code, result) |-> Register(t)]))
  IN  Seal(b, LeaveWith(Operand(b, result))).blocks

-----------------------------------------------------------------------------
(* LLVM: a value for every definition, and a phi where branches meet.       *)

RECURSIVE LlvmBlock(_, _, _)

\* values.insert(t, v)
Bound(b, t, v) ==
  [b EXCEPT !.table = [u \in DOMAIN @ \cup {t} |-> IF u = t THEN v ELSE @[u]]]

Define(b, t, op, what, args) ==
  LET n == b.made + 1
  IN  Bound([Insert(b, Machine(op, what, n, args)) EXCEPT !.made = n], t, Register(n))

\* A mutant: a branch enters the phi by the block it began in.
IncomingStart(side, dst, start) == <<Operand(side, dst), start>>
\* What a branch sends to the phi: its value of dst, and the block it ended in,
\* which is not the one it began in if there is an `if` in it.
Incoming(side, dst, start) == <<Operand(side, dst), side.here>>

\* Each branch is lowered with its own copy of the table.
LlvmIf(code, b, instr) ==
  LET n == Len(b.blocks)
      forked == AppendBlocks(Seal(b, Fork(NotEqual, Operand(b, instr.args[1]), n + 1, n + 2)), 3)
      then == Seal(LlvmBlock(code, code[instr.arms[1]], PositionAt(forked, n + 1)),
                   Jump(n + 3))
      else == Seal(LlvmBlock(code, code[instr.arms[2]],
                             [PositionAt(then, n + 2) EXCEPT !.table = b.table]),
                   Jump(n + 3))
      merge == [PositionAt(else, n + 3) EXCEPT !.table = b.table]
  IN  Define(merge, instr.dst, "phi", "",
             <<Incoming(then, instr.dst, n + 1), Incoming(else, instr.dst, n + 2)>>)

LlvmInstr(code, b, instr) ==
  CASE instr.op = "const" -> Bound(b, instr.dst, Constant(instr.what))
    [] instr.op = "binop" -> Define(b, instr.dst, "f64", instr.what, Operands(b, instr.args))
    [] instr.op = "call" ->
         Define(b, instr.dst, "call", Symbol[instr.what], Operands(b, instr.args))
    [] instr.op = "copy" -> Bound(b, instr.dst, Operand(b, instr.args[1]))
    [] instr.op = "if" -> LlvmIf(code, b, instr)

LlvmBlock(code, block, b) ==
  FoldLeft(LAMBDA builder, instr : LlvmInstr(code, builder, instr), b, block)

LlvmMain(code, result) ==
  LET b == LlvmBlock(code, code[1], NewBuilder(<<>>))
  IN  Seal(b, LeaveWith(Operand(b, result))).blocks

\* A backend's calc_main.
Compile(backend, code, result) ==
  IF backend = "llvm" THEN LlvmMain(code, result) ELSE CraneliftMain(code, result)
=============================================================================
