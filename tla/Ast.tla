-------------------------------- MODULE Ast --------------------------------
(***************************************************************************)
(* The typed AST of calc-syntax/src/ast.rs, as nested records.             *)
(***************************************************************************)
EXTENDS Naturals, Sequences

Num(v)               == [kind |-> "num", value |-> v]
Var(n)               == [kind |-> "var", name |-> n]
BinOp(op, l, r)      == [kind |-> "binop", op |-> op, lhs |-> l, rhs |-> r]
If(c, t, e)          == [kind |-> "if", cond |-> c, then |-> t, else |-> e]
Block(stmts, result) == [kind |-> "block", stmts |-> stmts, result |-> result]

LetStmt(n, e)        == [kind |-> "let", name |-> n, value |-> e]
PrintStmt(e)         == [kind |-> "print", value |-> e]

BinOps == {"add", "sub", "mul", "div"}

IsStmt(x) == x.kind \in {"let", "print"}
IsExpr(x) == x.kind \in {"num", "var", "binop", "if", "block"}
IsBlock(x) == x.kind = "block"
=============================================================================
