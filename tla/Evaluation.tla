----------------------------- MODULE Evaluation -----------------------------
(***************************************************************************)
(* What an expression computes and has print, by one step from it to its   *)
(* parts.  A reference, which models no code; Semantics has the recursion. *)
(***************************************************************************)
EXTENDS Ast, Float

CONSTANTS
  Eval(_, _),     \* the value of an expression and what evaluating it prints,
                  \* where `bound` gives the names in scope their values
  After(_, _, _)  \* the names in scope and what is printed after the first n
                  \* statements of a block

\* The latest binding of a name is in force.
With(bound, name, value) ==
  [n \in DOMAIN bound \cup {name} |-> IF n = name THEN value ELSE bound[n]]

AfterStmt(state, stmt) ==
  LET v == Eval(stmt.value, state.bound)
  IN  IF stmt.kind = "let"
      THEN [bound |-> With(state.bound, stmt.name, v.value), out |-> state.out \o v.out]
      ELSE [bound |-> state.bound, out |-> state.out \o Append(v.out, v.value)]

AfterOf(e, bound, n) ==
  IF n = 0 THEN [bound |-> bound, out |-> <<>>]
  ELSE AfterStmt(After(e, bound, n - 1), e.stmts[n])

EvalOf(e, bound) ==
  CASE e.kind = "num" -> [value |-> e.value, out |-> <<>>]
    [] e.kind = "var" -> [value |-> bound[e.name], out |-> <<>>]
    [] e.kind = "binop" ->
         LET l == Eval(e.lhs, bound)
             r == Eval(e.rhs, bound)
         IN  [value |-> Arith(e.op, l.value, r.value), out |-> l.out \o r.out]
    [] e.kind = "if" ->
         LET c == Eval(e.cond, bound)
             b == Eval(IF c.value # Zero THEN e.then ELSE e.else, bound)
         IN  [value |-> b.value, out |-> c.out \o b.out]
    [] e.kind = "block" ->
         LET s == After(e, bound, Len(e.stmts))
             r == Eval(e.result, s.bound)
         IN  [value |-> r.value, out |-> s.out \o r.out]
=============================================================================
