----------------------------- MODULE Semantics -----------------------------
(***************************************************************************)
(* What calc-lang programs mean, independently of how calcc goes about it: *)
(* which names are free, and what a program computes and what it has       *)
(* print.  This is the reference the compiler's passes are checked         *)
(* against; it models no code.                                             *)
(***************************************************************************)
EXTENDS Ast, Float

\* The names a program uses without binding them.
RECURSIVE FreeNames(_), BindsOnce(_)
Scoping == INSTANCE Binding
FreeNames(e) == Scoping!FreeOf(e)

\* No block anywhere binds a name twice.
BindsOnce(e) == Scoping!OnceOf(e)

RECURSIVE Eval(_, _), After(_, _, _)
Evaluating == INSTANCE Evaluation
Eval(e, bound) == Evaluating!EvalOf(e, bound)
After(e, bound, n) == Evaluating!AfterOf(e, bound, n)

\* What a program computes and has print.
Meaning(e) == Eval(e, <<>>)
=============================================================================
