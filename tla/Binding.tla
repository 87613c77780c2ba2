------------------------------ MODULE Binding ------------------------------
(***************************************************************************)
(* Lexical scoping in one step from an expression to its parts: a `let` is *)
(* in force from the next statement to the end of its block.  A reference, *)
(* which models no code; Semantics has the recursion.                      *)
(***************************************************************************)
EXTENDS Ast

CONSTANTS
  FreeNames(_),   \* the names that an expression uses without binding them
  BindsOnce(_)    \* no block in it binds a name twice

\* The names that the first n statements bind.
Bound(stmts, n) == {stmts[i].name : i \in {j \in 1..n : stmts[j].kind = "let"}}

\* The names that the first n statements use without one before them binding them.
FreeOfStmts(stmts, n) ==
  UNION {FreeNames(stmts[i].value) \ Bound(stmts, i - 1) : i \in 1..n}

\* The names that e uses without binding them.
FreeOf(e) ==
  CASE e.kind = "num" -> {}
    [] e.kind = "var" -> {e.name}
    [] e.kind = "binop" -> FreeNames(e.lhs) \cup FreeNames(e.rhs)
    [] e.kind = "if" -> FreeNames(e.cond) \cup FreeNames(e.then) \cup FreeNames(e.else)
    [] e.kind = "block" ->
         FreeOfStmts(e.stmts, Len(e.stmts))
           \cup (FreeNames(e.result) \ Bound(e.stmts, Len(e.stmts)))

\* No block in e binds a name twice.
OnceOf(e) ==
  CASE e.kind \in {"num", "var"} -> TRUE
    [] e.kind = "binop" -> BindsOnce(e.lhs) /\ BindsOnce(e.rhs)
    [] e.kind = "if" -> BindsOnce(e.cond) /\ BindsOnce(e.then) /\ BindsOnce(e.else)
    [] e.kind = "block" ->
         /\ \A i, j \in DOMAIN e.stmts :
              i # j /\ e.stmts[i].kind = "let" /\ e.stmts[j].kind = "let"
                => e.stmts[i].name # e.stmts[j].name
         /\ \A i \in DOMAIN e.stmts : BindsOnce(e.stmts[i].value)
         /\ BindsOnce(e.result)
=============================================================================
