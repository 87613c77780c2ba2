------------------------------- MODULE Lower -------------------------------
(***************************************************************************)
(* Lowering the AST to calc-ir's three-address code, calc-ir/src/          *)
(* ast_to_ir.rs: `lower_expr` as a machine.  A frame is one activation of  *)
(* lower_expr; a step runs from one recursive call or return to the next.  *)
(* The IR nests a block in an `If` instruction; here blocks are numbered   *)
(* and an `If` names its two.                                              *)
(***************************************************************************)
EXTENDS Ast, SequencesExt

VARIABLES frames,    \* the activations of lower_expr, innermost last
          env,       \* scopes, innermost last, each from names to temps
          code,      \* the instructions of each block; block 1 is the body
          entry,     \* history: the temps written on the way to each block
          next,      \* next_temp
          ret        \* what lower_expr just returned: <<>> or <<temp>>

lowerVars == <<frames, env, code, entry, next, ret>>

-----------------------------------------------------------------------------
(* Instructions                                                            *)

Instr(op, what, dst, args, arms) ==
  [op |-> op, what |-> what, dst |-> dst, args |-> args, arms |-> arms]

Const(dst, v)        == Instr("const", v, dst, <<>>, <<>>)
Div(dst, l, r)       == Instr("binop", "div", dst, <<l, r>>, <<>>)
Call(dst, f, args)   == Instr("call", f, dst, args, <<>>)
Copy(dst, src)       == Instr("copy", "", dst, <<src>>, <<>>)
Branch(dst, c, t, e) == Instr("if", "", dst, <<c>>, <<t, e>>)

\* `/` has no built-in and stays an inline instruction.
Builtins == {"add", "mul", "sub"}
OpInstr(op, dst, l, r) ==
  IF op \in Builtins THEN Call(dst, op, <<l, r>>) ELSE Div(dst, l, r)

Written(block) == {block[i].dst : i \in DOMAIN block}

\* The temps certain to be written once block b has run as far as it goes.
Available(b) == entry[b] \cup Written(code[b])

-----------------------------------------------------------------------------
(* Activations                                                             *)

\* `calls` is how many recursive calls the activation has made; `temps` its
\* locals; `arms` the blocks of an `if` it has begun; `depth` is env.len() at
\* the call.
Frame(e, b, depth) ==
  [e |-> e, block |-> b, depth |-> depth, calls |-> 0, temps |-> <<>>, arms |-> <<>>]

Top == Last(frames)

\* The innermost activation is of this kind, has made n calls, and the last of
\* them has returned.
At(kind, n) ==
  /\ frames # <<>>
  /\ Top.e.kind = kind
  /\ Top.calls = n
  /\ n > 0 => ret # <<>>

Returned == ret[1]

\* The innermost activation, now f, calls lower_expr(e, ..) on block b, with
\* `depth` scopes open.
CallIn(f, e, b, depth) ==
  /\ frames' = Front(frames) \o <<[f EXCEPT !.calls = @ + 1], Frame(e, b, depth)>>
  /\ ret' = <<>>

CallLower(f, e, b) == CallIn(f, e, b, Len(env))

\* The innermost activation returns t.
Return(t) == frames' = Front(frames) /\ ret' = <<t>>

Emit(b, instr) == code' = [code EXCEPT ![b] = Append(@, instr)]

-----------------------------------------------------------------------------
\* lower(expr)
LowerProgram(e) ==
  /\ frames = <<>> /\ code = <<>>
  /\ frames' = <<Frame(e, 1, 0)>>
  /\ code' = <<<<>>>>
  /\ entry' = <<{}>>
  /\ UNCHANGED <<env, next, ret>>

LowerNumber ==
  /\ At("num", 0)
  /\ Emit(Top.block, Const(next, Top.e.value))
  /\ next' = next + 1
  /\ Return(next)
  /\ UNCHANGED <<env, entry>>

\* A mutant: `lookup` looks at the innermost scope only.
ScopesWithNoParents(name) == {i \in {Len(env)} \cap DOMAIN env : name \in DOMAIN env[i]}

\* The innermost scope that binds the name decides.  `lookup` panics if there
\* is none: the machine stops.
ScopesWith(name) == {i \in DOMAIN env : name \in DOMAIN env[i]}
\* A mutant: `lookup` without `.rev()`.
Outermost(scopes) == CHOOSE i \in scopes : \A j \in scopes : j >= i
Innermost(scopes) == CHOOSE i \in scopes : \A j \in scopes : j <= i

LowerVar ==
  /\ At("var", 0)
  /\ ScopesWith(Top.e.name) # {}
  /\ Return(env[Innermost(ScopesWith(Top.e.name))][Top.e.name])
  /\ UNCHANGED <<env, code, entry, next>>

LowerLhs ==
  /\ At("binop", 0)
  /\ CallLower(Top, Top.e.lhs, Top.block)
  /\ UNCHANGED <<env, code, entry, next>>

LowerRhs ==
  /\ At("binop", 1)
  /\ CallLower([Top EXCEPT !.temps = <<Returned>>], Top.e.rhs, Top.block)
  /\ UNCHANGED <<env, code, entry, next>>

\* A mutant: the temp of the result is not a fresh one.
EmitBinOpReusing ==
  /\ At("binop", 2)
  /\ Emit(Top.block, OpInstr(Top.e.op, next, Top.temps[1], Returned))
  /\ Return(next)
  /\ UNCHANGED <<env, entry, next>>

EmitBinOp ==
  /\ At("binop", 2)
  /\ Emit(Top.block, OpInstr(Top.e.op, next, Top.temps[1], Returned))
  /\ next' = next + 1
  /\ Return(next)
  /\ UNCHANGED <<env, entry>>

LowerCond ==
  /\ At("if", 0)
  /\ CallLower(Top, Top.e.cond, Top.block)
  /\ UNCHANGED <<env, code, entry, next>>

\* A mutant: dst is not a fresh temp.
LowerThenReusing ==
  LET b == Len(code) + 1
  IN /\ At("if", 1)
     /\ CallLower([Top EXCEPT !.temps = <<Returned, next>>, !.arms = <<b>>], Top.e.then, b)
     /\ code' = Append(code, <<>>)
     /\ entry' = Append(entry, Available(Top.block))
     /\ UNCHANGED <<env, next>>

\* The condition is known: dst, and the instructions of the first branch.
LowerThen ==
  LET b == Len(code) + 1
  IN /\ At("if", 1)
     /\ CallLower([Top EXCEPT !.temps = <<Returned, next>>, !.arms = <<b>>], Top.e.then, b)
     /\ next' = next + 1
     /\ code' = Append(code, <<>>)
     /\ entry' = Append(entry, Available(Top.block))
     /\ UNCHANGED env

LowerElse ==
  LET b == Len(code) + 1
      done == Append(code[Top.arms[1]], Copy(Top.temps[2], Returned))
  IN /\ At("if", 2)
     /\ CallLower([Top EXCEPT !.arms = Append(@, b)], Top.e.else, b)
     /\ code' = Append([code EXCEPT ![Top.arms[1]] = done], <<>>)
     /\ entry' = Append(entry, Available(Top.block))
     /\ UNCHANGED <<env, next>>

\* A mutant: the `if` evaluates to what its second branch does, not to dst.
EmitIfReturningElse ==
  LET dst == Top.temps[2]
  IN /\ At("if", 3)
     /\ code' = [code EXCEPT
                   ![Top.arms[2]] = Append(@, Copy(dst, Returned)),
                   ![Top.block] = Append(@, Branch(dst, Top.temps[1], Top.arms[1], Top.arms[2]))]
     /\ Return(Returned)
     /\ UNCHANGED <<env, entry, next>>

\* A mutant: the second branch does not leave its value in dst.
EmitIfOneCopy ==
  LET dst == Top.temps[2]
  IN /\ At("if", 3)
     /\ code' = [code EXCEPT
                   ![Top.block] = Append(@, Branch(dst, Top.temps[1], Top.arms[1], Top.arms[2]))]
     /\ Return(dst)
     /\ UNCHANGED <<env, entry, next>>

EmitIf ==
  LET dst == Top.temps[2]
  IN /\ At("if", 3)
     /\ code' = [code EXCEPT
                   ![Top.arms[2]] = Append(@, Copy(dst, Returned)),
                   ![Top.block] = Append(@, Branch(dst, Top.temps[1], Top.arms[1], Top.arms[2]))]
     /\ Return(dst)
     /\ UNCHANGED <<env, entry, next>>

\* What a block lowers with its nth call: its statements' values, its result.
Part(e, n) == IF n <= Len(e.stmts) THEN e.stmts[n].value ELSE e.result

OpenScope ==
  /\ At("block", 0)
  /\ env' = Append(env, <<>>)
  /\ CallIn(Top, Part(Top.e, 1), Top.block, Len(env) + 1)
  /\ UNCHANGED <<code, entry, next>>

Bind(scope, name, temp) ==
  [n \in DOMAIN scope \cup {name} |-> IF n = name THEN temp ELSE scope[n]]

\* The innermost activation is of a block, and its latest call lowered the value
\* of this kind of statement.
AtStmt(kind) ==
  /\ frames # <<>>
  /\ At("block", Top.calls)
  /\ Top.calls \in DOMAIN Top.e.stmts
  /\ Top.e.stmts[Top.calls].kind = kind

LowerLet ==
  /\ AtStmt("let")
  /\ env' = [env EXCEPT ![Len(env)] = Bind(@, Top.e.stmts[Top.calls].name, Returned)]
  /\ CallLower(Top, Part(Top.e, Top.calls + 1), Top.block)
  /\ UNCHANGED <<code, entry, next>>

\* Nothing can name what `print` returns.
LowerPrint ==
  /\ AtStmt("print")
  /\ Emit(Top.block, Call(next, "print", <<Returned>>))
  /\ next' = next + 1
  /\ CallLower(Top, Part(Top.e, Top.calls + 1), Top.block)
  /\ UNCHANGED <<env, entry>>

CloseScope ==
  /\ At("block", Len(Top.e.stmts) + 1)
  /\ env' = Front(env)
  /\ Return(Returned)
  /\ UNCHANGED <<code, entry, next>>

-----------------------------------------------------------------------------
LowerInit ==
  /\ frames = <<>> /\ env = <<>> /\ code = <<>> /\ entry = <<>>
  /\ next = 0 /\ ret = <<>>

LowerStep ==
  \/ LowerNumber \/ LowerVar
  \/ LowerLhs \/ LowerRhs \/ EmitBinOp
  \/ LowerCond \/ LowerThen \/ LowerElse \/ EmitIf
  \/ OpenScope \/ LowerLet \/ LowerPrint \/ CloseScope

\* lower_expr has returned from the program: `Program { body, result }` is made.
Lowered == code # <<>> /\ frames = <<>>
Result == Returned

-----------------------------------------------------------------------------
(* Properties                                                              *)

\* "Its input has already passed resolve()": the scopes lowering keeps find
\* every name resolution found, so lowering never panics.
ResolvedProgramsLower ==
  frames # <<>> /\ Top.e.kind = "var" => ScopesWith(Top.e.name) # {}

\* Every operand of every instruction was written on every path to it, whichever
\* branches that path took; what an `if` leaves behind is its dst alone.
\* Interpreter and code generators index their tables by this.
ReadsAreWritten ==
  \A b \in DOMAIN code : \A i \in DOMAIN code[b] :
    \A j \in DOMAIN code[b][i].args :
      code[b][i].args[j] \in entry[b] \cup Written(SubSeq(code[b], 1, i - 1))

\* A temp is written by one instruction, or by an `if` and the last instruction
\* of each of its blocks: the slots of TempStore are never shared.
WrittenOnce ==
  \A b, c \in DOMAIN code : \A i \in DOMAIN code[b], j \in DOMAIN code[c] :
    code[b][i].dst = code[c][j].dst /\ <<b, i>> # <<c, j>> =>
      \/ code[b][i].op = "copy" /\ i = Len(code[b])
      \/ code[c][j].op = "copy" /\ j = Len(code[c])
=============================================================================
