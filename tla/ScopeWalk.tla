------------------------------ MODULE ScopeWalk ------------------------------
(***************************************************************************)
(* One step of name resolution's walk of the tree, calc-syntax/src/        *)
(* resolve.rs, with a stack of scopes: what is in force at each part of an *)
(* expression.  The walk itself, `ResolveExpr` here, is in Resolve.        *)
(***************************************************************************)
EXTENDS Ast, SequencesExt

CONSTANT ResolveExpr(_, _)   \* resolve_expr: the errors of an expression in a stack of scopes

Unresolved(name) == [error |-> "UnresolvedIdentifier", name |-> name]
Duplicate(name)  == [error |-> "DuplicateBinding", name |-> name]

\* A mutant: the name is in scope in its own value.
ResolveStmtBindsFirst(state, stmt) ==
  LET scope == Last(state.scopes)
      scopes == IF stmt.kind = "let"
                THEN Append(Front(state.scopes), scope \cup {stmt.name})
                ELSE state.scopes
      errors == state.errors \o ResolveExpr(stmt.value, scopes)
  IN  IF stmt.kind = "let" /\ stmt.name \in scope
      THEN [state EXCEPT !.errors = Append(errors, Duplicate(stmt.name))]
      ELSE [scopes |-> scopes, errors |-> errors]

\* One statement of a block: `state` is the scopes and the errors so far.
ResolveStmt(state, stmt) ==
  LET scope == Last(state.scopes)
      errors == state.errors \o ResolveExpr(stmt.value, state.scopes)
  IN  IF stmt.kind = "let"
      THEN IF stmt.name \in scope
           THEN [state EXCEPT !.errors = Append(errors, Duplicate(stmt.name))]
           ELSE [scopes |-> Append(Front(state.scopes), scope \cup {stmt.name}),
                 errors |-> errors]
      ELSE [state EXCEPT !.errors = errors]

\* The scopes and the errors after a block's statements.
ResolveStmts(stmts, scopes) ==
  FoldLeft(ResolveStmt,
           [scopes |-> Append(scopes, {}), errors |-> <<>>], stmts)

\* The errors of e where `scopes`, innermost last, are the sets of names bound.
WalkExpr(e, scopes) ==
  CASE e.kind = "num" -> <<>>
    [] e.kind = "var" ->
         IF \E i \in DOMAIN scopes : e.name \in scopes[i] THEN <<>> ELSE <<Unresolved(e.name)>>
    [] e.kind = "binop" -> ResolveExpr(e.lhs, scopes) \o ResolveExpr(e.rhs, scopes)
    [] e.kind = "if" -> ResolveExpr(e.cond, scopes) \o ResolveExpr(e.then, scopes)
                          \o ResolveExpr(e.else, scopes)
    [] e.kind = "block" ->
         LET inner == ResolveStmts(e.stmts, scopes)
         IN  inner.errors \o ResolveExpr(e.result, inner.scopes)

-----------------------------------------------------------------------------
(* Properties                                                              *)

\* The names reported as unresolved.
Missing(errors) ==
  {errors[i].name : i \in {j \in DOMAIN errors : errors[j].error = "UnresolvedIdentifier"}}

\* `errors` report exactly the names used unbound, and there are none just if
\* no name is and none is bound twice in a block.
Exact(errors, free, once) ==
  /\ Missing(errors) = free
  /\ errors = <<>> <=> free = {} /\ once
=============================================================================
