------------------------------ MODULE Resolve ------------------------------
(***************************************************************************)
(* Name resolution, calc-syntax/src/resolve.rs: one walk of the tree,      *)
(* collecting every error in the order it is found.                        *)
(***************************************************************************)
EXTENDS Ast, SequencesExt

RECURSIVE ResolveExpr(_, _)
OneStep == INSTANCE ScopeWalk

\* resolve_expr, by the steps of ScopeWalk.
ResolveExpr(e, scopes) == OneStep!WalkExpr(e, scopes)

\* The errors of a program: none if it resolves.
ResolveErrors(e) == ResolveExpr(e, <<>>)
=============================================================================
