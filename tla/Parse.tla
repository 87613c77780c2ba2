------------------------------- MODULE Parse -------------------------------
(***************************************************************************)
(* The parser LALRPOP generates from calc-syntax/src/calc.lalrpop: one     *)
(* action per production that builds a tree, on the stack of trees built   *)
(* so far.  Tokens, precedence and parentheses decide which production     *)
(* comes next and leave no other trace, so the model picks any: every tree *)
(* is the tree of some source text, with enough parentheses.               *)
(***************************************************************************)
EXTENDS Ast, SequencesExt

CONSTANTS Number,      \* the literals tried
          Name,        \* the identifiers tried
          Operator,    \* the operators tried
          MaxSize,     \* bound: literals and identifiers in a source
          MaxBraces    \* bound: braces around a lone expression,
                          \* those of a branch not counted

ASSUME ParseConstants ==
  Operator \subseteq BinOps /\ MaxSize \in Nat \ {0} /\ MaxBraces \in Nat

VARIABLES trees,       \* the parser's value stack
          size,        \* literals and identifiers so far
          braces,      \* braces so far around a lone expression
          ast          \* the program, once accepted: <<>> or <<tree>>

parseVars == <<trees, size, braces, ast>>

ParseInit == trees = <<>> /\ size = 0 /\ braces = 0 /\ ast = <<>>

\* The parser is at work, with at least n trees on its stack.
Parsing(n) == ast = <<>> /\ Len(trees) >= n

\* The tree n below the top.
Tree(n) == trees[Len(trees) - n]

\* Replaces the topmost n trees by one.
Reduce(n, tree) == trees' = Append(SubSeq(trees, 1, Len(trees) - n), tree)

Leaf ==
  /\ Parsing(0) /\ size < MaxSize
  /\ \/ \E v \in Number : Reduce(0, Num(v))
     \/ \E n \in Name : Reduce(0, Var(n))
  /\ size' = size + 1
  /\ UNCHANGED <<braces, ast>>

ReduceBinOp ==
  /\ Parsing(2) /\ IsExpr(Tree(0)) /\ IsExpr(Tree(1))
  /\ \E op \in Operator : Reduce(2, BinOp(op, Tree(1), Tree(0)))
  /\ UNCHANGED <<size, braces, ast>>

\* A branch that is a lone expression gets its braces here.
Braced(tree) == IF IsBlock(tree) THEN tree ELSE Block(<<>>, tree)

ReduceIf ==
  /\ Parsing(3) /\ \A i \in 0..2 : IsExpr(Tree(i))
  /\ Reduce(3, If(Tree(2), Braced(Tree(1)), Braced(Tree(0))))
  /\ UNCHANGED <<size, braces, ast>>

ReduceStmt ==
  /\ Parsing(1) /\ IsExpr(Tree(0))
  /\ \/ \E n \in Name : Reduce(1, LetStmt(n, Tree(0)))
     \/ Reduce(1, PrintStmt(Tree(0)))
  /\ UNCHANGED <<size, braces, ast>>

\* `{`, the topmost n statements, a result expression and `}`.
ReduceBlock ==
  /\ Parsing(1) /\ IsExpr(Tree(0))
  /\ \E n \in 0..(Len(trees) - 1) :
       /\ \A i \in 1..n : IsStmt(Tree(i))
       /\ Reduce(n + 1, Block([i \in 1..n |-> Tree(n + 1 - i)], Tree(0)))
       /\ n = 0 => braces < MaxBraces
       /\ braces' = IF n = 0 THEN braces + 1 ELSE braces
  /\ UNCHANGED <<size, ast>>

\* The entry point `Program`: statements and a result without braces, which is
\* the bare result when there are no statements.
Accept ==
  /\ Parsing(1) /\ IsExpr(Tree(0))
  /\ \A i \in 1..(Len(trees) - 1) : IsStmt(Tree(i))
  /\ ast' = <<IF Len(trees) = 1 THEN Tree(0) ELSE Block(Front(trees), Tree(0))>>
  /\ trees' = <<>>
  /\ size' = 0 /\ braces' = 0

ParseNext == Leaf \/ ReduceBinOp \/ ReduceIf \/ ReduceStmt \/ ReduceBlock \/ Accept
=============================================================================
