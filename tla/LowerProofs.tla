---------------------------- MODULE LowerProofs ----------------------------
(***************************************************************************)
(* Theorems about Lower, the interpreter and name resolution for any       *)
(* program: the code that lower_expr makes reads only what is written on   *)
(* every path, and writes no temp twice; the interpreter gets through it;  *)
(* resolution reports just what lexical scoping does not allow, and        *)
(* lowering finds every name of a program that resolves.                   *)
(***************************************************************************)
EXTENDS Interp, ScopeWalk, Binding, DataInduction, SequenceTheorems, TLAPS

CONSTANT Expr    \* the expressions of the programs, with all their parts

\* ast.rs: what the parts of an expression are.
IsAst ==
  \A e \in Expr :
    /\ e.kind = "binop" => e.lhs \in Expr /\ e.rhs \in Expr
    /\ e.kind = "if" => e.cond \in Expr /\ e.then \in Expr /\ e.else \in Expr
    /\ e.kind = "block" =>
         /\ e.result \in Expr
         /\ Len(e.stmts) \in Nat /\ DOMAIN e.stmts = 1..Len(e.stmts)
         /\ \A i \in DOMAIN e.stmts : e.stmts[i].value \in Expr

\* lower(expr), and all that it calls.
LowerNext == (\E e \in Expr : LowerProgram(e)) \/ LowerStep
LowerSpec == LowerInit /\ [][LowerNext]_lowerVars

-----------------------------------------------------------------------------
(* The code, and what is so of any part of it.                             *)

What == {e.value : e \in Expr} \cup {e.op : e \in Expr} \cup Builtins \cup {"div", "print", ""}
Instruction ==
  [op : {"const", "binop", "call", "copy", "if"}, what : What, dst : Nat,
   args : Seq(Nat), arms : Seq(Nat)]
Code == Seq(Seq(Instruction))

\* Block b of the code c is entered with en[b] written.
Has(c, en, b) == en[b] \cup Written(c[b])

Reads(c, en) ==
  \A b \in 1..Len(c) : \A i \in 1..Len(c[b]) : \A j \in 1..Len(c[b][i].args) :
    c[b][i].args[j] \in en[b] \cup {c[b][k].dst : k \in 1..(i - 1)}

\* The end of an arm is the only place for a copy.
CopyEndsBlock(c) ==
  \A b \in 1..Len(c) : \A i \in 1..Len(c[b]) : c[b][i].op = "copy" => i = Len(c[b])

\* Two instructions that write the same are not both something else than a copy.
OneWrites(c) ==
  \A b, d \in 1..Len(c) : \A i \in 1..Len(c[b]), j \in 1..Len(c[d]) :
    c[b][i].dst = c[d][j].dst /\ (b # d \/ i # j) => c[b][i].op = "copy" \/ c[d][j].op = "copy"

\* next_temp is not written yet, nor is any temp after it.
Below(c, n) == \A b \in 1..Len(c) : \A i \in 1..Len(c[b]) : c[b][i].dst < n

CodeOK(c, en, n) ==
  /\ c \in Code /\ en \in Seq(SUBSET Nat) /\ Len(en) = Len(c) /\ n \in Nat
  /\ Reads(c, en) /\ CopyEndsBlock(c) /\ OneWrites(c) /\ Below(c, n)

-----------------------------------------------------------------------------
(* An activation, and what is so of each.                                  *)

Activation ==
  [e : Expr, block : Nat, depth : Nat, calls : Nat, temps : Seq(Nat), arms : Seq(Nat)]

\* It has begun an `if`, has its dst, and works in one of the arms.
InArms(f) == f.e.kind = "if" /\ f.calls \in {2, 3}
Dst(f) == f.temps[2]

\* The block its latest call works in, and the scopes that were open for it.
WorksIn(f) == IF InArms(f) THEN f.arms[f.calls - 1] ELSE f.block
Scopes(f) == IF f.e.kind = "block" /\ f.calls > 0 THEN f.depth + 1 ELSE f.depth

Shape(f, c) ==
  /\ f \in Activation /\ f.block \in 1..Len(c)
  /\ f.e.kind = "binop" /\ f.calls = 2 => Len(f.temps) = 1
  /\ f.e.kind = "if" => f.calls <= 3
  /\ InArms(f) =>
       /\ Len(f.temps) = 2 /\ Len(f.arms) = f.calls - 1
       /\ \A i \in 1..Len(f.arms) : f.block < f.arms[i] /\ f.arms[i] <= Len(c)
  /\ f.calls < 2 => f.temps = <<>>

\* The temps it has kept can be read where it is; dst is not written but by copies.
Knows(f, c, en, ev) ==
  /\ f.temps # <<>> => f.temps[1] \in Has(c, en, f.block)
  /\ \A k \in 1..Scopes(f) : \A name \in DOMAIN ev[k] : ev[k][name] \in Has(c, en, f.block)

NoCopyIn(c, b) == \A i \in 1..Len(c[b]) : c[b][i].op # "copy"
OnlyCopies(c, t) ==
  \A b \in 1..Len(c) : \A i \in 1..Len(c[b]) : c[b][i].dst = t => c[b][i].op = "copy"

Owns(f, c, n) ==
  /\ NoCopyIn(c, f.block) /\ NoCopyIn(c, WorksIn(f))
  /\ InArms(f) => Dst(f) < n /\ OnlyCopies(c, Dst(f))

ActivationOK(f, c, en, ev, n) == Shape(f, c) /\ Knows(f, c, en, ev) /\ Owns(f, c, n)

\* Of f and g, where g is inside of f.
Inside(f, g) ==
  /\ WorksIn(f) <= g.block /\ Scopes(f) <= g.depth
  /\ InArms(f) /\ InArms(g) => Dst(f) # Dst(g)

\* And g is what f called.
Called(f, g) == g.block = WorksIn(f) /\ g.depth = Scopes(f)

-----------------------------------------------------------------------------
(* The inductive invariant.                                                *)

Nested(fs) ==
  /\ \A i, j \in 1..Len(fs) : i < j => Inside(fs[i], fs[j])
  /\ \A i \in 1..(Len(fs) - 1) : Called(fs[i], fs[i + 1])

\* The innermost activation has its scopes open, and its latest call has returned
\* something that can be read where it worked.
LatestOK(f, c, en, ev, r) ==
  /\ Len(ev) = Scopes(f)
  /\ r # <<>> => r[1] \in Has(c, en, WorksIn(f))

StackOK(fs, c, en, ev, n, r) ==
  /\ fs \in Seq(Activation)
  /\ \A i \in 1..Len(fs) : ActivationOK(fs[i], c, en, ev, n)
  /\ Nested(fs)
  /\ fs # <<>> => LatestOK(fs[Len(fs)], c, en, ev, r)

Types ==
  /\ \E S : env \in Seq(S)
  /\ ret = <<>> \/ ret \in {<<t>> : t \in Nat}
  /\ code = <<>> => frames = <<>> /\ ret = <<>> /\ env = <<>>

IInv == Types /\ CodeOK(code, entry, next) /\ StackOK(frames, code, entry, env, next, ret)

-----------------------------------------------------------------------------
(* One more instruction.                                                   *)

\* Block b ends with x.
Put(c, b, x) == [c EXCEPT ![b] = Append(c[b], x)]

LEMMA PutIs ==
  ASSUME NEW c \in Code, NEW b \in 1..Len(c), NEW x \in Instruction
  PROVE  /\ Put(c, b, x) \in Code /\ Len(Put(c, b, x)) = Len(c)
         /\ \A d \in 1..Len(c) : d # b => Put(c, b, x)[d] = c[d]
         /\ Put(c, b, x)[b] \in Seq(Instruction) /\ c[b] \in Seq(Instruction)
         /\ Len(Put(c, b, x)[b]) = Len(c[b]) + 1
         /\ \A i \in 1..Len(c[b]) : Put(c, b, x)[b][i] = c[b][i]
         /\ Put(c, b, x)[b][Len(c[b]) + 1] = x
<1> DEFINE S == Seq(Instruction)
           s == c[b]
           t == Append(s, x)
<1>1. s \in Seq(Instruction)
  BY DEF Code
<1>2. /\ t \in Seq(Instruction) /\ Len(t) = Len(s) + 1
      /\ \A i \in 1..Len(s) : t[i] = s[i]
      /\ t[Len(s) + 1] = x
  <2> HIDE DEF s
  <2> QED
    BY <1>1
<1>3. t \in S /\ c \in Seq(S)
  BY <1>2 DEF Code
<1>4. Put(c, b, x) = [c EXCEPT ![b] = t]
  BY DEF Put
<1> HIDE DEF S, t
<1>5. /\ Put(c, b, x) \in Seq(S) /\ Len(Put(c, b, x)) = Len(c)
      /\ Put(c, b, x)[b] = t
      /\ \A d \in 1..Len(c) : d # b => Put(c, b, x)[d] = c[d]
  BY <1>3, <1>4
<1>6. Put(c, b, x) \in Code
  BY <1>5 DEF Code, S
<1> QED
  BY <1>1, <1>2, <1>5, <1>6

LEMMA BlockIs ==
  ASSUME NEW c \in Code
  PROVE  /\ Append(c, <<>>) \in Code /\ Len(Append(c, <<>>)) = Len(c) + 1
         /\ \A d \in 1..Len(c) : Append(c, <<>>)[d] = c[d]
         /\ Append(c, <<>>)[Len(c) + 1] = <<>>
<1> DEFINE S == Seq(Instruction)
           e == <<>>
<1>1. e \in S /\ c \in Seq(S)
  BY DEF Code
<1> HIDE DEF S, e
<1>2. /\ Append(c, e) \in Seq(S) /\ Len(Append(c, e)) = Len(c) + 1
      /\ \A d \in 1..Len(c) : Append(c, e)[d] = c[d]
      /\ Append(c, e)[Len(c) + 1] = e
  BY <1>1
<1> QED
  BY <1>2 DEF S, e, Code

\* What is written is written, and what x writes too.
LEMMA HasPut ==
  ASSUME NEW c \in Code, NEW b \in 1..Len(c), NEW x \in Instruction, NEW en,
         NEW d \in 1..Len(c)
  PROVE  /\ Has(c, en, d) \subseteq Has(Put(c, b, x), en, d)
         /\ x.dst \in Has(Put(c, b, x), en, b)
<1> DEFINE s == c[b]
           t == Put(c, b, x)[b]
           n == Len(s)
<1>1. /\ t \in Seq(Instruction) /\ s \in Seq(Instruction)
      /\ Len(t) = n + 1 /\ t[n + 1] = x
      /\ \A i \in 1..n : t[i] = s[i]
  <2>1. t \in Seq(Instruction) /\ s \in Seq(Instruction)
    BY PutIs
  <2>2. Len(t) = n + 1
    BY PutIs
  <2>3. t[n + 1] = x
    BY PutIs
  <2>4. \A i \in 1..n : t[i] = s[i]
    BY PutIs
  <2> QED
    BY <2>1, <2>2, <2>3, <2>4
<1>2. d # b => Put(c, b, x)[d] = c[d]
  BY PutIs
<1>3. Has(c, en, b) = en[b] \cup Written(s) /\ Has(Put(c, b, x), en, b) = en[b] \cup Written(t)
  BY DEF Has
<1> HIDE DEF s, t
<1>4. DOMAIN t = 1..Len(t) /\ DOMAIN s = 1..n /\ n \in Nat
  BY <1>1
<1> HIDE DEF n
<1>5. Written(t) = Written(s) \cup {x.dst}
  <2>1. ASSUME NEW i \in 1..(n + 1) PROVE i \in 1..n \/ i = n + 1
    BY <1>4
  <2>2. 1..n \subseteq 1..(n + 1) /\ n + 1 \in 1..(n + 1)
    BY <1>4
  <2> QED
    BY <1>1, <1>4, <2>1, <2>2 DEF Written
<1> QED
  BY <1>2, <1>3, <1>5 DEF Has

\* An instruction is where it was, or is x.
LEMMA PutAt ==
  ASSUME NEW c \in Code, NEW b \in 1..Len(c), NEW x \in Instruction,
         NEW d \in 1..Len(c), NEW i \in 1..Len(Put(c, b, x)[d])
  PROVE  \/ i \in 1..Len(c[d]) /\ Put(c, b, x)[d][i] = c[d][i]
         \/ d = b /\ i = Len(c[b]) + 1 /\ Put(c, b, x)[d][i] = x
<1>1. CASE d # b
  BY <1>1, PutIs
<1>2. CASE d = b
  <2> DEFINE s == c[b]
             t == Put(c, b, x)[b]
             n == Len(s)
  <2>1. /\ s \in Seq(Instruction) /\ Len(t) = n + 1 /\ t[n + 1] = x
        /\ \A k \in 1..n : t[k] = s[k]
    BY PutIs
  <2> HIDE DEF s, t
  <2>2. n \in Nat
    BY <2>1
  <2> HIDE DEF n
  <2>3. i \in 1..(n + 1)
    BY <1>2, <2>1 DEF t
  <2>4. i \in 1..n \/ i = n + 1
    BY <2>2, <2>3
  <2> QED
    BY <1>2, <2>1, <2>4 DEF s, t, n
<1> QED
  BY <1>1, <1>2

LEMMA PutCode ==
  ASSUME NEW c, NEW en, NEW n, CodeOK(c, en, n),
         NEW b \in 1..Len(c), NEW x \in Instruction, NEW m \in Nat, n <= m, x.dst < m,
         NoCopyIn(c, b), x.op = "copy" \/ OnlyCopies(c, x.dst),
         \A j \in 1..Len(x.args) : x.args[j] \in Has(c, en, b)
  PROVE  CodeOK(Put(c, b, x), en, m)
<1> DEFINE p == Put(c, b, x)
<1>1. c \in Code /\ Reads(c, en) /\ CopyEndsBlock(c) /\ OneWrites(c) /\ Below(c, n)
  BY DEF CodeOK
<1>2. p \in Code /\ Len(p) = Len(c)
  BY <1>1, PutIs
<1>3. ASSUME NEW d \in 1..Len(c), NEW i \in 1..Len(p[d])
      PROVE  \/ i \in 1..Len(c[d]) /\ p[d][i] = c[d][i]
             \/ d = b /\ i = Len(c[b]) + 1 /\ p[d][i] = x
  BY <1>1, PutAt
<1>4. /\ \A d \in 1..Len(c) : d # b => p[d] = c[d]
      /\ Len(p[b]) = Len(c[b]) + 1
      /\ \A i \in 1..Len(c[b]) : p[b][i] = c[b][i]
  BY <1>1, PutIs
<1>5. \A d \in 1..Len(c) : c[d] \in Seq(Instruction) /\ Len(c[d]) \in Nat
  <2>1. \A d \in 1..Len(c) : c[d] \in Seq(Instruction)
    BY <1>1 DEF Code
  <2> QED
    BY <2>1
<1> HIDE DEF p
<1>6. Reads(p, en)
  <2> SUFFICES ASSUME NEW d \in 1..Len(c), NEW i \in 1..Len(p[d]), NEW j \in 1..Len(p[d][i].args)
               PROVE  p[d][i].args[j] \in en[d] \cup {p[d][k].dst : k \in 1..(i - 1)}
    BY <1>2 DEF Reads
  <2>1. CASE i \in 1..Len(c[d]) /\ p[d][i] = c[d][i]
    <3>1. c[d][i].args[j] \in en[d] \cup {c[d][k].dst : k \in 1..(i - 1)}
      BY <1>1, <2>1 DEF Reads
    <3>2. \A k \in 1..(i - 1) : k \in 1..Len(c[d])
      BY <1>5, <2>1
    <3>3. \A k \in 1..(i - 1) : c[d][k].dst = p[d][k].dst
      BY <1>4, <3>2
    <3> QED
      BY <2>1, <3>1, <3>3
  <2>2. CASE d = b /\ i = Len(c[b]) + 1 /\ p[d][i] = x
    <3>1. x.args[j] \in en[b] \cup Written(c[b])
      BY <2>2 DEF Has
    <3>2. i - 1 = Len(c[b])
      BY <1>5, <2>2
    <3>3. DOMAIN c[b] = 1..Len(c[b])
      BY <1>5
    <3>4. Written(c[b]) = {c[b][k].dst : k \in 1..Len(c[b])}
      BY <3>3 DEF Written
    <3>5. \A k \in 1..(i - 1) : c[b][k].dst = p[b][k].dst
      BY <1>4, <3>2
    <3> QED
      BY <2>2, <3>1, <3>2, <3>4, <3>5
  <2> QED
    BY <1>3, <2>1, <2>2
<1>7. CopyEndsBlock(p)
  <2> SUFFICES ASSUME NEW d \in 1..Len(c), NEW i \in 1..Len(p[d]), p[d][i].op = "copy"
               PROVE  i = Len(p[d])
    BY <1>2 DEF CopyEndsBlock
  <2>1. CASE i \in 1..Len(c[d]) /\ p[d][i] = c[d][i]
    BY <1>1, <1>4, <2>1 DEF CopyEndsBlock, NoCopyIn
  <2> QED
    BY <1>3, <1>4, <2>1
<1>8. OneWrites(p)
  <2> SUFFICES ASSUME NEW d \in 1..Len(c), NEW e \in 1..Len(c),
                      NEW i \in 1..Len(p[d]), NEW j \in 1..Len(p[e]),
                      p[d][i].dst = p[e][j].dst, d # e \/ i # j
               PROVE  p[d][i].op = "copy" \/ p[e][j].op = "copy"
    BY <1>2, SMTT(30) DEF OneWrites
  <2> HIDE DEF p
  <2>1. CASE i \in 1..Len(c[d]) /\ p[d][i] = c[d][i] /\ j \in 1..Len(c[e]) /\ p[e][j] = c[e][j]
    <3>1. c[d][i].dst = c[e][j].dst
      BY <2>1
    <3>2. c[d][i].op = "copy" \/ c[e][j].op = "copy"
      BY <1>1, <2>1, <3>1, ZenonT(30) DEF OneWrites
    <3> QED
      BY <2>1, <3>2
  <2>2. CASE i \in 1..Len(c[d]) /\ p[d][i] = c[d][i] /\ p[e][j] = x
    BY <2>2 DEF OnlyCopies
  <2>3. CASE p[d][i] = x /\ j \in 1..Len(c[e]) /\ p[e][j] = c[e][j]
    BY <2>3 DEF OnlyCopies
  <2> QED
    BY <1>3, <2>1, <2>2, <2>3
<1>9. Below(p, m)
  <2> SUFFICES ASSUME NEW d \in 1..Len(c), NEW i \in 1..Len(p[d])
               PROVE  p[d][i].dst < m
    BY <1>2 DEF Below
  <2>1. CASE i \in 1..Len(c[d]) /\ p[d][i] = c[d][i]
    <3>1. p[d][i].dst < n /\ n \in Nat
      BY <1>1, <2>1 DEF Below, CodeOK
    <3>2. p[d][i].dst \in Nat
      <4>1. c[d][i] \in Instruction
        BY <1>5, <2>1
      <4> QED
        BY <2>1, <4>1 DEF Instruction
    <3> QED
      BY <3>1, <3>2
  <2> QED
    BY <1>3, <2>1
<1> QED
  BY <1>2, <1>6, <1>7, <1>8, <1>9 DEF CodeOK, p

\* One more block, entered with t written.
LEMMA BlockCode ==
  ASSUME NEW c, NEW en, NEW n, CodeOK(c, en, n), NEW t \in SUBSET Nat, NEW m \in Nat, n <= m
  PROVE  CodeOK(Append(c, <<>>), Append(en, t), m)
<1> DEFINE p == Append(c, <<>>)
           l == Len(c)
           q == Append(en, t)
<1>1. c \in Code /\ Reads(c, en) /\ CopyEndsBlock(c) /\ OneWrites(c) /\ Below(c, n)
  BY DEF CodeOK
<1>2. en \in Seq(SUBSET Nat) /\ Len(en) = l /\ n \in Nat
  BY DEF CodeOK
<1>3. l \in Nat
  BY <1>1 DEF Code
<1>4. p \in Code /\ Len(p) = l + 1 /\ p[l + 1] = <<>> /\ \A d \in 1..l : p[d] = c[d]
  BY <1>1, BlockIs
<1>5. q \in Seq(SUBSET Nat) /\ Len(q) = l + 1 /\ \A d \in 1..l : q[d] = en[d]
  BY <1>2
<1>6. \A d \in 1..l : c[d] \in Seq(Instruction)
  BY <1>1 DEF Code
<1>7. Len(<<>>) = 0
  OBVIOUS
<1> HIDE DEF p, q, l
<1>8. ASSUME NEW d \in 1..(l + 1), NEW i \in 1..Len(p[d]) PROVE d \in 1..l /\ p[d] = c[d]
  <2>1. CASE d = l + 1
    BY <1>4, <1>7, <2>1
  <2>2. CASE d \in 1..l
    BY <1>4, <2>2
  <2> QED
    BY <1>3, <2>1, <2>2
<1>9. Reads(p, q)
  <2> SUFFICES ASSUME NEW d \in 1..(l + 1), NEW i \in 1..Len(p[d]), NEW j \in 1..Len(p[d][i].args)
               PROVE  p[d][i].args[j] \in q[d] \cup {p[d][k].dst : k \in 1..(i - 1)}
    BY <1>4 DEF Reads
  <2>1. d \in 1..l /\ p[d] = c[d] /\ q[d] = en[d]
    BY <1>5, <1>8
  <2>2. c[d][i].args[j] \in en[d] \cup {c[d][k].dst : k \in 1..(i - 1)}
    <3>1. d \in 1..Len(c) /\ i \in 1..Len(c[d]) /\ j \in 1..Len(c[d][i].args)
      BY <2>1 DEF l
    <3> QED
      BY <1>1, <3>1, Zenon DEF Reads
  <2> QED
    BY <2>1, <2>2
<1>10. CopyEndsBlock(p)
  BY <1>1, <1>4, <1>8 DEF CopyEndsBlock, l
<1>11. OneWrites(p)
  <2> SUFFICES ASSUME NEW d \in 1..(l + 1), NEW e \in 1..(l + 1),
                      NEW i \in 1..Len(p[d]), NEW j \in 1..Len(p[e]),
                      p[d][i].dst = p[e][j].dst, d # e \/ i # j
               PROVE  p[d][i].op = "copy" \/ p[e][j].op = "copy"
    BY <1>4 DEF OneWrites
  <2>1. d \in 1..l /\ p[d] = c[d] /\ e \in 1..l /\ p[e] = c[e]
    BY <1>8
  <2> QED
    BY <1>1, <2>1 DEF OneWrites, l
<1>12. Below(p, m)
  <2> SUFFICES ASSUME NEW d \in 1..(l + 1), NEW i \in 1..Len(p[d])
               PROVE  p[d][i].dst < m
    BY <1>4 DEF Below
  <2>1. d \in 1..l /\ p[d] = c[d]
    BY <1>8
  <2>2. p[d][i].dst < n
    BY <1>1, <2>1 DEF Below, l
  <2>3. c[d][i] \in Instruction
    BY <1>6, <2>1
  <2>4. p[d][i].dst \in Nat
    BY <2>1, <2>3 DEF Instruction
  <2> QED
    BY <1>2, <2>2, <2>4
<1> QED
  BY <1>4, <1>5, <1>9, <1>10, <1>11, <1>12 DEF CodeOK, p, q

-----------------------------------------------------------------------------
(* What is so of an activation stays so while it waits.                    *)

\* The block it works in is there, and an arm comes after the block of its `if`.
LEMMA WorksInIs ==
  ASSUME NEW c \in Code, NEW f, Shape(f, c)
  PROVE  WorksIn(f) \in 1..Len(c) /\ f.block <= WorksIn(f) /\ (InArms(f) => f.block < WorksIn(f))
<1>1. f.block \in 1..Len(c)
  BY DEF Shape
<1>2. CASE InArms(f)
  <2>1. f.arms[f.calls - 1] > f.block /\ f.arms[f.calls - 1] <= Len(c)
    BY <1>2 DEF Shape, InArms
  <2>2. f.arms[f.calls - 1] \in Nat
    BY <1>2 DEF Shape, InArms, Activation
  <2>3. Len(c) \in Nat
    BY DEF Code
  <2> QED
    BY <1>1, <1>2, <2>1, <2>2, <2>3 DEF WorksIn
<1>3. CASE ~InArms(f)
  BY <1>1, <1>3 DEF WorksIn
<1> QED
  BY <1>2, <1>3

\* It waits for x to be emitted, which is no copy in its blocks and does not write
\* its dst.
LEMMA WaitsForPut ==
  ASSUME NEW c \in Code, NEW en, NEW ev, NEW n \in Nat, NEW f, ActivationOK(f, c, en, ev, n),
         NEW b \in 1..Len(c), NEW x \in Instruction, NEW m \in Nat, n <= m,
         x.op # "copy" \/ (b # f.block /\ b # WorksIn(f)),
         x.op = "copy" \/ (InArms(f) => x.dst # Dst(f))
  PROVE  ActivationOK(f, Put(c, b, x), en, ev, m)
<1> DEFINE p == Put(c, b, x)
<1>1. Shape(f, c) /\ Knows(f, c, en, ev) /\ Owns(f, c, n)
  BY DEF ActivationOK
<1>2. f.block \in 1..Len(c) /\ Len(p) = Len(c)
  BY ZenonT(30), <1>1, PutIs DEF Shape
<1>3. Shape(f, p)
  BY <1>1, <1>2 DEF Shape
<1>4. Has(c, en, f.block) \subseteq Has(p, en, f.block)
  BY <1>2, HasPut
<1>5. Knows(f, p, en, ev)
  BY <1>1, <1>4 DEF Knows
<1>6. \A d \in 1..Len(c) : \A i \in 1..Len(p[d]) :
        \/ i \in 1..Len(c[d]) /\ p[d][i] = c[d][i]
        \/ d = b /\ i = Len(c[b]) + 1 /\ p[d][i] = x
  BY PutAt
<1> HIDE DEF p
<1>7. WorksIn(f) \in 1..Len(c)
  BY <1>1, WorksInIs
<1>8. ASSUME NEW d \in 1..Len(c), NoCopyIn(c, d), x.op # "copy" \/ b # d
      PROVE  NoCopyIn(p, d)
  BY <1>6, <1>8 DEF NoCopyIn
<1>9. NoCopyIn(p, f.block) /\ NoCopyIn(p, WorksIn(f))
  BY <1>1, <1>2, <1>7, <1>8 DEF Owns
<1>10. InArms(f) => Dst(f) < m /\ OnlyCopies(p, Dst(f))
  <2> SUFFICES ASSUME InArms(f) PROVE Dst(f) < m /\ OnlyCopies(p, Dst(f))
    OBVIOUS
  <2>1. Dst(f) < n /\ OnlyCopies(c, Dst(f))
    BY <1>1 DEF Owns
  <2>2. Dst(f) \in Nat
    BY SMTT(30), <1>1 DEF Shape, InArms, Activation, Dst
  <2>3. OnlyCopies(p, Dst(f))
    BY <1>2, <1>6, <2>1 DEF OnlyCopies
  <2> QED
    BY <2>1, <2>2, <2>3
<1>11. Owns(f, p, m)
  BY <1>9, <1>10 DEF Owns
<1> QED
  BY <1>3, <1>5, <1>11 DEF ActivationOK, p

\* It waits for a block to be begun.
LEMMA WaitsForBlock ==
  ASSUME NEW c \in Code, NEW en \in Seq(SUBSET Nat), Len(en) = Len(c), NEW ev, NEW n \in Nat,
         NEW f, ActivationOK(f, c, en, ev, n), NEW t \in SUBSET Nat, NEW m \in Nat, n <= m
  PROVE  ActivationOK(f, Append(c, <<>>), Append(en, t), ev, m)
<1> DEFINE p == Append(c, <<>>)
           l == Len(c)
           q == Append(en, t)
<1>1. Shape(f, c) /\ Knows(f, c, en, ev) /\ Owns(f, c, n)
  BY DEF ActivationOK
<1>2. Len(p) = l + 1 /\ p[l + 1] = <<>> /\ \A d \in 1..l : p[d] = c[d]
  BY BlockIs
<1>3. \A d \in 1..l : q[d] = en[d]
  OBVIOUS
<1>4. l \in Nat
  BY DEF Code
<1>5. f.block \in 1..l /\ WorksIn(f) \in 1..l
  BY <1>1, WorksInIs DEF Shape
<1>6. Len(<<>>) = 0
  OBVIOUS
<1>7. \A i \in 1..Len(f.arms) : InArms(f) => f.arms[i] \in Nat
  BY SMTT(30), <1>1 DEF Shape, Activation
<1> HIDE DEF p, q
<1>8. Shape(f, p)
  <2>1. f.block \in 1..Len(p)
    BY <1>2, <1>4, <1>5
  <2>2. InArms(f) => \A i \in 1..Len(f.arms) : f.block < f.arms[i] /\ f.arms[i] <= Len(p)
    BY <1>1, <1>2, <1>4, <1>7 DEF Shape
  <2> QED
    BY <1>1, <2>1, <2>2 DEF Shape
<1>9. Knows(f, p, q, ev)
  <2>1. Has(p, q, f.block) = Has(c, en, f.block)
    BY <1>2, <1>3, <1>5 DEF Has
  <2> QED
    BY <1>1, <2>1 DEF Knows
<1>10. Owns(f, p, m)
  <2>1. NoCopyIn(p, f.block) /\ NoCopyIn(p, WorksIn(f))
    BY <1>1, <1>2, <1>5 DEF Owns, NoCopyIn
  <2>2. ASSUME InArms(f) PROVE Dst(f) < m /\ OnlyCopies(p, Dst(f))
    <3>1. Dst(f) < n /\ OnlyCopies(c, Dst(f))
      BY <1>1, <2>2 DEF Owns
    <3>2. Dst(f) \in Nat
      BY SMTT(30), <1>1, <2>2 DEF Shape, InArms, Activation, Dst
    <3>3. ASSUME NEW d \in 1..Len(p), NEW i \in 1..Len(p[d]) PROVE d \in 1..l /\ p[d] = c[d]
      <4>1. CASE d = l + 1
        BY <1>2, <1>6, <4>1
      <4>2. CASE d \in 1..l
        BY <1>2, <4>2
      <4> QED
        BY <1>2, <1>4, <4>1, <4>2
    <3>4. OnlyCopies(p, Dst(f))
      BY <3>1, <3>3 DEF OnlyCopies
    <3> QED
      BY <3>1, <3>2, <3>4
  <2> QED
    BY <2>1, <2>2 DEF Owns
<1> QED
  BY <1>8, <1>9, <1>10 DEF ActivationOK, p, q

\* It waits for scopes that others open, fill and close.
LEMMA WaitsForScopes ==
  ASSUME NEW c, NEW en, NEW ev, NEW n, NEW f, ActivationOK(f, c, en, ev, n),
         NEW ev2, \A k \in 1..Scopes(f) : ev2[k] = ev[k]
  PROVE  ActivationOK(f, c, en, ev2, n)
BY DEF ActivationOK, Knows

-----------------------------------------------------------------------------
(* Calls and returns.                                                      *)

\* The last of s goes.
LEMMA PopIs ==
  ASSUME NEW S, NEW s \in Seq(S), s # <<>>
  PROVE  /\ Front(s) \in Seq(S) /\ Len(Front(s)) = Len(s) - 1 /\ Len(s) \in Nat \ {0}
         /\ \A i \in 1..(Len(s) - 1) : Front(s)[i] = s[i]
<1> DEFINE n == Len(s) - 1
           a == SubSeq(s, 1, n)
<1>1. Len(s) \in Nat \ {0}
  BY EmptySeq
<1>2. n \in Nat /\ n \in Int /\ 1 \in Int
  BY <1>1
<1>3. \A i \in 1..n : s[i] \in S
  BY <1>1
<1> HIDE DEF n
<1>4. /\ a \in Seq(S) /\ Len(a) = IF 1 <= n THEN n - 1 + 1 ELSE 0
      /\ \A i \in 1..(n - 1 + 1) : a[i] = s[1 + i - 1]
  BY <1>2, <1>3, SubSeqProperties
<1> HIDE DEF a
<1>5. Len(a) = n /\ n - 1 + 1 = n
  BY <1>2, <1>4
<1>6. \A i \in 1..n : 1 + i - 1 = i
  BY <1>2
<1>7. \A i \in 1..n : a[i] = s[i]
  BY <1>4, <1>5, <1>6
<1>8. Front(s) = a
  BY DEF Front, a, n
<1> QED
  BY <1>1, <1>4, <1>5, <1>7, <1>8 DEF n

\* The last of s becomes g, and h comes after it.
LEMMA PushIs ==
  ASSUME NEW S, NEW s \in Seq(S), s # <<>>, NEW g \in S, NEW h \in S
  PROVE  LET r == Front(s) \o <<g, h>>
         IN  /\ r \in Seq(S) /\ Len(r) = Len(s) + 1
             /\ \A i \in 1..(Len(s) - 1) : r[i] = s[i]
             /\ r[Len(s)] = g /\ r[Len(s) + 1] = h
<1> DEFINE a == Front(s)
           b == <<g, h>>
           n == Len(s)
           r == a \o b
<1>1. n \in Nat \ {0} /\ a \in Seq(S) /\ Len(a) = n - 1 /\ \A i \in 1..(n - 1) : a[i] = s[i]
  BY PopIs
<1>2. b \in Seq(S) /\ Len(b) = 2 /\ b[1] = g /\ b[2] = h
  OBVIOUS
<1> HIDE DEF a, b, n
<1>3. /\ r \in Seq(S) /\ Len(r) = Len(a) + Len(b)
      /\ \A i \in 1..(Len(a) + Len(b)) : r[i] = IF i <= Len(a) THEN a[i] ELSE b[i - Len(a)]
  <2>1. a \in Seq(S) /\ b \in Seq(S)
    BY <1>1, <1>2
  <2> QED
    BY ONLY <2>1, ConcatProperties
<1> HIDE DEF r
<1>4. Len(a) + Len(b) = n + 1 /\ Len(a) = n - 1
  BY <1>1, <1>2
<1>5. \A i \in 1..(n + 1) : r[i] = IF i <= n - 1 THEN a[i] ELSE b[i - (n - 1)]
  BY <1>3, <1>4
<1>6. \A i \in 1..(n - 1) : r[i] = s[i]
  BY <1>1, <1>5
<1>7. n \in 1..(n + 1) /\ ~(n <= n - 1) /\ n - (n - 1) = 1
  BY <1>1
<1>8. n + 1 \in 1..(n + 1) /\ ~(n + 1 <= n - 1) /\ n + 1 - (n - 1) = 2
  BY <1>1
<1>9. r[n] = g
  BY <1>2, <1>5, <1>7
<1>10. r[n + 1] = h
  <2> DEFINE k == n + 1
  <2>1. k \in 1..(n + 1) /\ ~(k <= n - 1) /\ k - (n - 1) = 2
    BY <1>1
  <2> HIDE DEF k
  <2>2. r[k] = IF k <= n - 1 THEN a[k] ELSE b[k - (n - 1)]
    BY <1>5, <2>1
  <2>3. r[k] = h
    BY <1>2, <2>1, <2>2
  <2> QED
    BY <2>3 DEF k
<1> QED
  BY <1>3, <1>4, <1>6, <1>9, <1>10 DEF r, a, b, n

\* An activation has scopes from its own depth on.
LEMMA ScopesIs ==
  ASSUME NEW f \in Activation
  PROVE  Scopes(f) \in Nat /\ f.depth \in Nat /\ f.depth <= Scopes(f) /\ (f.calls = 0 => Scopes(f) = f.depth)
BY DEF Scopes, Activation

\* An activation begins where the one that calls it works.
LEMMA Begins ==
  ASSUME NEW c \in Code, NEW en, NEW ev, NEW n, NEW g, ActivationOK(g, c, en, ev, n),
         Has(c, en, g.block) \subseteq Has(c, en, WorksIn(g)), NEW e \in Expr
  PROVE  ActivationOK(Frame(e, WorksIn(g), Scopes(g)), c, en, ev, n)
<1> DEFINE b == WorksIn(g)
           d == Scopes(g)
           h == Frame(e, b, d)
<1>1. Shape(g, c) /\ Knows(g, c, en, ev) /\ Owns(g, c, n)
  BY DEF ActivationOK
<1>2. b \in 1..Len(c)
  BY <1>1, WorksInIs
<1>3. d \in Nat
  BY <1>1, ScopesIs DEF Shape
<1>4. NoCopyIn(c, b) /\ \A k \in 1..d : \A name \in DOMAIN ev[k] : ev[k][name] \in Has(c, en, b)
  BY <1>1 DEF Owns, Knows
<1> HIDE DEF b, d
<1>5. h \in Activation
  <2>1. b \in Nat
    <3>1. Len(c) \in Nat
      BY DEF Code
    <3> QED
      BY <1>2, <3>1
  <2>2. <<>> \in Seq(Nat)
    OBVIOUS
  <2> QED
    BY <1>3, <2>1, <2>2 DEF Frame, Activation
<1>6. h.block = b /\ h.depth = d /\ h.calls = 0 /\ h.temps = <<>>
  BY DEF Frame
<1> HIDE DEF h
<1>7. ~InArms(h) /\ WorksIn(h) = b /\ Scopes(h) = d
  BY <1>6 DEF InArms, WorksIn, Scopes
<1>8. Shape(h, c)
  BY <1>2, <1>5, <1>6, <1>7 DEF Shape
<1>9. Knows(h, c, en, ev)
  BY <1>4, <1>6, <1>7 DEF Knows
<1>10. Owns(h, c, n)
  BY <1>4, <1>6, <1>7 DEF Owns
<1> QED
  BY <1>8, <1>9, <1>10 DEF ActivationOK, h, b, d

\* The innermost activation becomes g and calls lower_expr(e, ..).
LEMMA PushStack ==
  ASSUME NEW fs \in Seq(Activation), fs # <<>>, Nested(fs),
         NEW c \in Code, NEW en, NEW ev, NEW n,
         \A i \in 1..(Len(fs) - 1) : ActivationOK(fs[i], c, en, ev, n),
         NEW g, ActivationOK(g, c, en, ev, n),
         g.block = fs[Len(fs)].block, g.depth = fs[Len(fs)].depth,
         \A i \in 1..(Len(fs) - 1) : InArms(fs[i]) /\ InArms(g) => Dst(fs[i]) # Dst(g),
         Has(c, en, g.block) \subseteq Has(c, en, WorksIn(g)),
         Len(ev) = Scopes(g), NEW e \in Expr
  PROVE  StackOK(Front(fs) \o <<g, Frame(e, WorksIn(g), Scopes(g))>>, c, en, ev, n, <<>>)
<1> DEFINE h == Frame(e, WorksIn(g), Scopes(g))
           m == Len(fs)
           r == Front(fs) \o <<g, h>>
<1>1. ActivationOK(h, c, en, ev, n)
  BY Begins
<1>2. g \in Activation /\ h \in Activation
  BY <1>1 DEF ActivationOK, Shape
<1>3. /\ r \in Seq(Activation) /\ Len(r) = m + 1
      /\ \A i \in 1..(m - 1) : r[i] = fs[i]
      /\ r[m] = g /\ r[m + 1] = h
  BY <1>2, PushIs
<1>4. m \in Nat \ {0}
  BY PopIs
<1>5. h.block = WorksIn(g) /\ h.depth = Scopes(g) /\ h.calls = 0
  BY DEF Frame
<1>6. \A i, j \in 1..m : i < j => Inside(fs[i], fs[j])
  BY DEF Nested
<1>7. \A i \in 1..(m - 1) : Called(fs[i], fs[i + 1])
  BY DEF Nested
<1>8. \A i \in 1..m : fs[i] \in Activation
  OBVIOUS
<1>9. g.block = fs[m].block /\ g.depth = fs[m].depth
  OBVIOUS
<1> HIDE DEF h, m, r
<1>10. ~InArms(h) /\ WorksIn(h) = WorksIn(g) /\ Scopes(h) = Scopes(g)
  BY <1>5 DEF InArms, WorksIn, Scopes
<1>11. \A i \in 1..(m + 1) : i \in 1..(m - 1) \/ i = m \/ i = m + 1
  BY <1>4
<1>12. \A i \in 1..Len(r) : ActivationOK(r[i], c, en, ev, n)
  BY <1>1, <1>3, <1>11 DEF m
<1>13. Len(r) \in Nat /\ Len(r) - 1 = m
  BY <1>3, <1>4
<1>14. ASSUME NEW i \in 1..(m - 1) PROVE Inside(fs[i], g) /\ Inside(fs[i], h)
  <2>1. i \in 1..m /\ m \in 1..m /\ i < m
    BY <1>4
  <2>2. WorksIn(fs[i]) <= g.block /\ Scopes(fs[i]) <= g.depth
    BY <1>6, <1>9, <2>1 DEF Inside
  <2>3. InArms(fs[i]) /\ InArms(g) => Dst(fs[i]) # Dst(g)
    BY DEF m
  <2>4. g.block <= h.block /\ g.block \in Nat /\ h.block \in Nat
    BY <1>2, <1>5, WorksInIs DEF ActivationOK, Activation
  <2>5. g.depth <= h.depth /\ g.depth \in Nat /\ h.depth \in Nat
    BY <1>2, <1>5, ScopesIs
  <2>6. Scopes(fs[i]) \in Nat
    BY <1>8, <2>1, ScopesIs
  <2>7. WorksIn(fs[i]) \in Nat
    <3>1. ActivationOK(fs[i], c, en, ev, n)
      BY DEF m
    <3>2. WorksIn(fs[i]) \in 1..Len(c) /\ Len(c) \in Nat
      BY <3>1, WorksInIs DEF ActivationOK, Code
    <3> QED
      BY <3>2
  <2>8. WorksIn(fs[i]) <= h.block /\ Scopes(fs[i]) <= h.depth
    BY <2>2, <2>4, <2>5, <2>6, <2>7
  <2> QED
    BY <1>10, <2>2, <2>3, <2>8 DEF Inside
<1>15. Inside(g, h)
  <2>1. WorksIn(g) \in Nat /\ Scopes(g) \in Nat
    <3>1. WorksIn(g) \in 1..Len(c) /\ Len(c) \in Nat
      BY WorksInIs DEF ActivationOK, Code
    <3> QED
      BY <1>2, <3>1, ScopesIs
  <2> QED
    BY <1>5, <1>10, <2>1 DEF Inside
<1>16. \A i, j \in 1..Len(r) : i < j => Inside(r[i], r[j])
  <2> SUFFICES ASSUME NEW i \in 1..(m + 1), NEW j \in 1..(m + 1), i < j
               PROVE  Inside(r[i], r[j])
    BY <1>3
  <2>1. \/ i \in 1..(m - 1) /\ j \in 1..(m - 1)
        \/ i \in 1..(m - 1) /\ j = m
        \/ i \in 1..(m - 1) /\ j = m + 1
        \/ i = m /\ j = m + 1
    BY <1>4
  <2>2. CASE i \in 1..(m - 1) /\ j \in 1..(m - 1)
    <3>1. i \in 1..m /\ j \in 1..m
      BY <1>4, <2>2
    <3> QED
      BY <1>3, <1>6, <2>2, <3>1
  <2>3. CASE i \in 1..(m - 1) /\ j = m
    BY <1>3, <1>14, <2>3
  <2>4. CASE i \in 1..(m - 1) /\ j = m + 1
    BY <1>3, <1>14, <2>4
  <2>5. CASE i = m /\ j = m + 1
    BY <1>3, <1>15, <2>5
  <2> QED
    BY <2>1, <2>2, <2>3, <2>4, <2>5
<1>17. \A i \in 1..m : Called(r[i], r[i + 1])
  <2> SUFFICES ASSUME NEW i \in 1..m PROVE Called(r[i], r[i + 1])
    OBVIOUS
  <2>1. \/ i \in 1..(m - 1) /\ i + 1 \in 1..(m - 1)
        \/ i \in 1..(m - 1) /\ i + 1 = m
        \/ i = m
    BY <1>4
  <2>2. CASE i \in 1..(m - 1) /\ i + 1 \in 1..(m - 1)
    BY <1>3, <1>7, <2>2
  <2>3. CASE i \in 1..(m - 1) /\ i + 1 = m
    BY <1>3, <1>7, <1>9, <2>3 DEF Called
  <2>4. CASE i = m
    BY <1>3, <1>5, <2>4 DEF Called
  <2> QED
    BY <2>1, <2>2, <2>3, <2>4
<1>18. Nested(r)
  BY <1>13, <1>16, <1>17 DEF Nested
<1>19. LatestOK(r[Len(r)], c, en, ev, <<>>)
  BY <1>3, <1>10 DEF LatestOK
<1> QED
  BY <1>3, <1>12, <1>18, <1>19 DEF StackOK, r, h

\* The innermost activation returns t.
LEMMA PopStack ==
  ASSUME NEW fs \in Seq(Activation), fs # <<>>, Nested(fs),
         NEW c, NEW en, NEW ev, NEW n,
         \A i \in 1..(Len(fs) - 1) : ActivationOK(fs[i], c, en, ev, n),
         NEW t, t \in Has(c, en, fs[Len(fs)].block), Len(ev) = fs[Len(fs)].depth
  PROVE  StackOK(Front(fs), c, en, ev, n, <<t>>)
<1> DEFINE m == Len(fs)
           r == Front(fs)
<1>1. /\ r \in Seq(Activation) /\ Len(r) = m - 1 /\ m \in Nat \ {0}
      /\ \A i \in 1..(m - 1) : r[i] = fs[i]
  BY PopIs
<1>2. \A i, j \in 1..m : i < j => Inside(fs[i], fs[j])
  BY DEF Nested
<1>3. \A i \in 1..(m - 1) : Called(fs[i], fs[i + 1])
  BY DEF Nested
<1>4. t \in Has(c, en, fs[m].block) /\ Len(ev) = fs[m].depth
  OBVIOUS
<1> HIDE DEF r
<1>5. r # <<>> => Len(r) \in Nat \ {0}
  BY <1>1, EmptySeq
<1>6. \A i \in 1..Len(r) : ActivationOK(r[i], c, en, ev, n)
  BY <1>1
<1> HIDE DEF m
<1>7. Nested(r)
  <2>1. ASSUME NEW i \in 1..Len(r), NEW j \in 1..Len(r), i < j PROVE Inside(r[i], r[j])
    <3>1. i \in 1..m /\ j \in 1..m
      BY <1>1
    <3> QED
      BY <1>1, <1>2, <2>1, <3>1
  <2>2. ASSUME NEW i \in 1..(Len(r) - 1) PROVE Called(r[i], r[i + 1])
    <3>1. i \in 1..(m - 1) /\ i + 1 \in 1..(m - 1)
      BY <1>1
    <3> QED
      BY <1>1, <1>3, <3>1
  <2> QED
    BY <2>1, <2>2 DEF Nested
<1>8. ASSUME r # <<>> PROVE LatestOK(r[Len(r)], c, en, ev, <<t>>)
  <2>1. Len(r) \in 1..(m - 1) /\ Len(r) + 1 = m
    BY <1>1, <1>5, <1>8
  <2>2. r[Len(r)] = fs[Len(r)] /\ Called(fs[Len(r)], fs[m])
    BY <1>1, <1>3, <2>1
  <2>3. fs[m].block = WorksIn(r[Len(r)]) /\ fs[m].depth = Scopes(r[Len(r)])
    BY <2>2 DEF Called
  <2>4. <<t>>[1] = t
    OBVIOUS
  <2> QED
    BY <1>4, <2>3, <2>4 DEF LatestOK
<1> QED
  BY <1>1, <1>6, <1>7, <1>8 DEF StackOK, r

-----------------------------------------------------------------------------
(* What every step finds, and what calls and returns leave.                *)

LEMMA HasType ==
  ASSUME NEW c, NEW en, NEW n, CodeOK(c, en, n), NEW b \in 1..Len(c)
  PROVE  Has(c, en, b) \subseteq Nat
<1> DEFINE s == c[b]
<1>1. s \in Seq(Instruction) /\ en[b] \subseteq Nat
  BY DEF CodeOK, Code
<1> HIDE DEF s
<1>2. \A i \in DOMAIN s : s[i].dst \in Nat
  <2>1. \A i \in DOMAIN s : s[i] \in Instruction
    BY <1>1
  <2>2. \A x \in Instruction : x.dst \in Nat
    BY DEF Instruction
  <2> QED
    BY <2>1, <2>2
<1>3. Written(s) \subseteq Nat
  BY <1>2 DEF Written
<1> QED
  BY <1>1, <1>3 DEF Has, s

LEMMA TopIs ==
  ASSUME IInv, frames # <<>>
  PROVE  /\ Top = frames[Len(frames)] /\ Top \in Activation
         /\ ActivationOK(Top, code, entry, env, next) /\ Len(env) = Scopes(Top)
         /\ Top.block \in 1..Len(code) /\ WorksIn(Top) \in 1..Len(code) /\ Len(code) \in Nat
         /\ code \in Code /\ CodeOK(code, entry, next) /\ next \in Nat
         /\ \A i \in 1..(Len(frames) - 1) :
              ActivationOK(frames[i], code, entry, env, next) /\ Inside(frames[i], Top)
<1> DEFINE n == Len(frames)
<1>1. /\ frames \in Seq(Activation) /\ Nested(frames)
      /\ \A i \in 1..n : ActivationOK(frames[i], code, entry, env, next)
      /\ LatestOK(frames[n], code, entry, env, ret)
  BY DEF IInv, StackOK
<1>2. n \in Nat \ {0}
  BY <1>1, EmptySeq
<1>3. Top = frames[n]
  BY DEF Top, Last
<1>4. CodeOK(code, entry, next) /\ code \in Code /\ next \in Nat
  BY DEF IInv, CodeOK
<1>5. Len(code) \in Nat
  BY <1>4 DEF Code
<1>6. n \in 1..n /\ \A i \in 1..(n - 1) : i \in 1..n /\ i < n
  BY <1>2
<1>7. ActivationOK(Top, code, entry, env, next) /\ Shape(Top, code)
  BY <1>1, <1>3, <1>6 DEF ActivationOK
<1>8. Top \in Activation /\ Top.block \in 1..Len(code) /\ WorksIn(Top) \in 1..Len(code)
  BY <1>4, <1>7, WorksInIs DEF Shape
<1>9. Len(env) = Scopes(Top)
  BY <1>1, <1>3 DEF LatestOK
<1>10. \A i \in 1..(n - 1) : Inside(frames[i], Top)
  BY <1>1, <1>3, <1>6 DEF Nested
<1> QED
  BY <1>1, <1>3, <1>4, <1>5, <1>6, <1>7, <1>8, <1>9, <1>10

LEMMA ReturnedIs ==
  ASSUME IInv, frames # <<>>, ret # <<>>
  PROVE  Returned \in Has(code, entry, WorksIn(Top)) /\ Returned \in Nat
<1>1. Top = frames[Len(frames)]
  BY TopIs
<1>2. LatestOK(frames[Len(frames)], code, entry, env, ret)
  BY DEF IInv, StackOK
<1>3. Returned \in Has(code, entry, WorksIn(Top))
  BY <1>1, <1>2 DEF LatestOK, Returned
<1>4. Has(code, entry, WorksIn(Top)) \subseteq Nat
  BY TopIs, HasType
<1> QED
  BY <1>3, <1>4

LEMMA StepCalls ==
  ASSUME IInv, frames # <<>>, CodeOK(code', entry', next'), code' # <<>>,
         \A i \in 1..(Len(frames) - 1) : ActivationOK(frames[i], code', entry', env', next'),
         NEW g, ActivationOK(g, code', entry', env', next'),
         g.block = Top.block, g.depth = Top.depth,
         \A i \in 1..(Len(frames) - 1) : InArms(frames[i]) /\ InArms(g) => Dst(frames[i]) # Dst(g),
         Has(code', entry', g.block) \subseteq Has(code', entry', WorksIn(g)),
         \E S : env' \in Seq(S), Len(env') = Scopes(g), NEW e \in Expr,
         frames' = Front(frames) \o <<g, Frame(e, WorksIn(g), Scopes(g))>>, ret' = <<>>
  PROVE  IInv'
<1>1. frames \in Seq(Activation) /\ Nested(frames) /\ Top = frames[Len(frames)]
  BY TopIs DEF IInv, StackOK
<1>2. code' \in Code
  BY DEF CodeOK
<1>3. StackOK(frames', code', entry', env', next', ret')
  BY <1>1, <1>2, PushStack
<1>4. Types'
  BY DEF Types
<1> QED
  BY <1>3, <1>4 DEF IInv

LEMMA StepReturns ==
  ASSUME IInv, frames # <<>>, CodeOK(code', entry', next'), code' # <<>>, Len(code') = Len(code),
         \A i \in 1..(Len(frames) - 1) : ActivationOK(frames[i], code', entry', env', next'),
         NEW t, t \in Has(code', entry', Top.block),
         \E S : env' \in Seq(S), Len(env') = Top.depth,
         frames' = Front(frames), ret' = <<t>>
  PROVE  IInv'
<1>1. frames \in Seq(Activation) /\ Nested(frames) /\ Top = frames[Len(frames)]
  BY TopIs DEF IInv, StackOK
<1>2. StackOK(frames', code', entry', env', next', ret')
  BY <1>1, PopStack
<1>3. t \in Nat
  BY TopIs, HasType
<1>4. Types'
  BY <1>3 DEF Types
<1> QED
  BY <1>2, <1>4 DEF IInv

\* Where no code is made, the others wait for the scopes of the innermost one.
LEMMA OthersWait ==
  ASSUME IInv, frames # <<>>, NEW ev, \A k \in 1..Top.depth : ev[k] = env[k]
  PROVE  \A i \in 1..(Len(frames) - 1) : ActivationOK(frames[i], code, entry, ev, next)
<1> SUFFICES ASSUME NEW i \in 1..(Len(frames) - 1)
             PROVE  ActivationOK(frames[i], code, entry, ev, next)
  OBVIOUS
<1> DEFINE f == frames[i]
<1>1. ActivationOK(f, code, entry, env, next) /\ Inside(f, Top) /\ Top \in Activation
  BY TopIs
<1> HIDE DEF f
<1>2. Scopes(f) \in Nat /\ Scopes(f) <= Top.depth /\ Top.depth \in Nat
  BY <1>1, ScopesIs DEF ActivationOK, Shape, Inside
<1>3. \A k \in 1..Scopes(f) : k \in 1..Top.depth
  BY <1>2
<1>4. \A k \in 1..Scopes(f) : ev[k] = env[k]
  BY <1>3
<1> QED
  BY <1>1, <1>4, WaitsForScopes DEF f

LEMMA SomeItems ==
  ASSUME NEW s, Len(s) # 0
  PROVE  s # <<>>
<1>1. Len(<<>>) = 0
  OBVIOUS
<1> QED
  BY <1>1

LEMMA SomeCode ==
  ASSUME NEW c, NEW b \in 1..Len(c)
  PROVE  c # <<>>
<1>1. Len(<<>>) = 0
  OBVIOUS
<1> QED
  BY <1>1

\* A call for which no code was made.
LEMMA QuietCall ==
  ASSUME IInv, frames # <<>>, UNCHANGED <<code, entry, next>>,
         \E S : env' \in Seq(S), \A k \in 1..Top.depth : env'[k] = env[k],
         NEW g, ActivationOK(g, code, entry, env', next), ~InArms(g),
         g.block = Top.block, g.depth = Top.depth, Len(env') = Scopes(g), NEW e \in Expr,
         frames' = Front(frames) \o <<g, Frame(e, Top.block, Scopes(g))>>, ret' = <<>>
  PROVE  IInv'
<1>1. WorksIn(g) = Top.block
  BY DEF WorksIn
<1>2. CodeOK(code, entry, next) /\ code # <<>>
  BY TopIs, SomeCode
<1>3. \A i \in 1..(Len(frames) - 1) : ActivationOK(frames[i], code, entry, env', next)
  BY OthersWait
<1> QED
  BY <1>1, <1>2, <1>3, StepCalls

LEMMA QuietReturn ==
  ASSUME IInv, frames # <<>>, UNCHANGED <<code, entry, next>>,
         \E S : env' \in Seq(S), \A k \in 1..Top.depth : env'[k] = env[k],
         Len(env') = Top.depth, NEW t, t \in Has(code, entry, Top.block),
         frames' = Front(frames), ret' = <<t>>
  PROVE  IInv'
<1>1. CodeOK(code, entry, next) /\ code # <<>>
  BY TopIs, SomeCode
<1>2. \A i \in 1..(Len(frames) - 1) : ActivationOK(frames[i], code, entry, env', next)
  BY OthersWait
<1> QED
  BY <1>1, <1>2, StepReturns

\* An instruction at the end of the innermost activation's block, with a fresh temp.
LEMMA Emits ==
  ASSUME IInv, frames # <<>>, NEW x \in Instruction, x.op # "copy", x.dst = next,
         \A j \in 1..Len(x.args) : x.args[j] \in Has(code, entry, Top.block)
  PROVE  LET c == Put(code, Top.block, x)
         IN  /\ CodeOK(c, entry, next + 1) /\ c # <<>> /\ Len(c) = Len(code)
             /\ next \in Has(c, entry, Top.block)
             /\ ActivationOK(Top, c, entry, env, next + 1)
             /\ \A i \in 1..(Len(frames) - 1) : ActivationOK(frames[i], c, entry, env, next + 1)
<1> DEFINE b == Top.block
           c == Put(code, b, x)
           m == next + 1
<1>1. /\ code \in Code /\ CodeOK(code, entry, next) /\ b \in 1..Len(code) /\ next \in Nat
      /\ ActivationOK(Top, code, entry, env, next)
      /\ \A i \in 1..(Len(frames) - 1) : ActivationOK(frames[i], code, entry, env, next)
  BY TopIs
<1>2. NoCopyIn(code, b)
  BY <1>1 DEF ActivationOK, Owns
<1>3. OnlyCopies(code, next)
  <2>1. Below(code, next)
    BY <1>1 DEF CodeOK
  <2> QED
    BY <1>1, <2>1 DEF OnlyCopies, Below
<1>4. m \in Nat /\ next <= m /\ next < m
  BY <1>1
<1>5. \A j \in 1..Len(x.args) : x.args[j] \in Has(code, entry, b)
  OBVIOUS
<1> HIDE DEF b, m
<1>6. CodeOK(c, entry, m)
  BY <1>1, <1>2, <1>3, <1>4, <1>5, PutCode
<1>7. Len(c) = Len(code) /\ next \in Has(c, entry, b)
  <2>1. Len(c) = Len(code)
    BY ZenonT(30), <1>1, PutIs
  <2>2. x.dst \in Has(c, entry, b)
    BY <1>1, HasPut
  <2> QED
    BY <2>1, <2>2
<1>8. c # <<>>
  BY <1>1, <1>7, SomeCode
<1>9. ASSUME NEW f, ActivationOK(f, code, entry, env, next) PROVE ActivationOK(f, c, entry, env, m)
  <2>1. InArms(f) => x.dst # Dst(f)
    <3>1. InArms(f) => Dst(f) < next
      BY <1>9 DEF ActivationOK, Owns
    <3> QED
      BY <1>1, <3>1
  <2> QED
    BY <1>1, <1>4, <1>9, <2>1, WaitsForPut
<1> QED
  BY <1>1, <1>6, <1>7, <1>8, <1>9 DEF b, m

LEMMA MoreOf ==
  ASSUME NEW S, NEW T, NEW s \in Seq(S)
  PROVE  s \in Seq(S \cup T)
<1> DEFINE U == S \cup T
<1>1. Len(s) \in Nat /\ s \in [1..Len(s) -> S] /\ S \subseteq U
  BY LenProperties
<1> HIDE DEF U
<1>2. s \in Seq(U)
  BY <1>1
<1> QED
  BY <1>2 DEF U

\* What the innermost activation becomes when it is in no arm.
LEMMA Becomes ==
  ASSUME NEW c, NEW en, NEW ev0, NEW n, NEW f, ActivationOK(f, c, en, ev0, n),
         NEW g \in Activation, g.block = f.block, ~InArms(g),
         g.e.kind = "binop" /\ g.calls = 2 => Len(g.temps) = 1, g.e.kind = "if" => g.calls <= 3,
         g.calls < 2 => g.temps = <<>>, g.temps # <<>> => g.temps[1] \in Has(c, en, f.block),
         NEW ev, \A k \in 1..Scopes(g) : \A name \in DOMAIN ev[k] : ev[k][name] \in Has(c, en, f.block)
  PROVE  ActivationOK(g, c, en, ev, n)
<1>1. f.block \in 1..Len(c) /\ NoCopyIn(c, f.block)
  BY DEF ActivationOK, Shape, Owns
<1>2. Shape(g, c)
  BY <1>1 DEF Shape
<1>3. Knows(g, c, en, ev)
  BY DEF Knows
<1>4. Owns(g, c, n)
  BY <1>1 DEF Owns, WorksIn
<1> QED
  BY <1>2, <1>3, <1>4 DEF ActivationOK

\* What the innermost activation can name.
LEMMA NamesKnown ==
  ASSUME IInv, frames # <<>>
  PROVE  /\ \A k \in 1..Len(env) : \A name \in DOMAIN env[k] :
              env[k][name] \in Has(code, entry, Top.block)
         /\ Top.temps # <<>> => Top.temps[1] \in Has(code, entry, Top.block)
BY TopIs DEF ActivationOK, Knows

\* Where it works in its own block, what its latest call returned can be read there.
LEMMA ReturnedHere ==
  ASSUME IInv, frames # <<>>, ret # <<>>, ~InArms(Top)
  PROVE  Returned \in Has(code, entry, Top.block) /\ Returned \in Nat
BY ReturnedIs DEF WorksIn

\* Its next call, and nothing else.
LEMMA NextCall ==
  ASSUME NEW f \in Activation
  PROVE  LET g == [f EXCEPT !.calls = @ + 1]
         IN  /\ g \in Activation /\ g.e = f.e /\ g.block = f.block /\ g.depth = f.depth
             /\ g.calls = f.calls + 1 /\ g.temps = f.temps /\ g.arms = f.arms
BY SMTT(30) DEF Activation

LEMMA EnvIs ==
  ASSUME IInv
  PROVE  \E S : env \in Seq(S)
BY DEF IInv, Types

-----------------------------------------------------------------------------
(* One lemma per step.                                                     *)

LEMMA NumberStep ==
  ASSUME IInv, LowerNumber
  PROVE  IInv'
<1> DEFINE x == Const(next, Top.e.value)
<1>1. frames # <<>> /\ Top.e.kind = "num"
  BY DEF LowerNumber, At
<1>2. Top \in Activation /\ next \in Nat /\ Len(env) = Scopes(Top)
  BY <1>1, TopIs
<1>3. x \in Instruction
  <2>1. Top.e.value \in What
    BY <1>2 DEF Activation, What
  <2>2. <<>> \in Seq(Nat)
    OBVIOUS
  <2> QED
    BY <1>2, <2>1, <2>2 DEF Const, Instr, Instruction
<1>4. x.op # "copy" /\ x.dst = next /\ x.args = <<>>
  BY DEF Const, Instr
<1>5. code' = Put(code, Top.block, x) /\ next' = next + 1 /\ UNCHANGED <<env, entry>>
  BY DEF LowerNumber, Emit, Put
<1>6. frames' = Front(frames) /\ ret' = <<next>>
  BY DEF LowerNumber, Return
<1> HIDE DEF x
<1>7. /\ CodeOK(code', entry', next') /\ code' # <<>> /\ Len(code') = Len(code)
      /\ next \in Has(code', entry', Top.block)
      /\ \A i \in 1..(Len(frames) - 1) : ActivationOK(frames[i], code', entry', env', next')
  <2>1. Len(<<>>) = 0
    OBVIOUS
  <2>2. \A j \in 1..Len(x.args) : x.args[j] \in Has(code, entry, Top.block)
    BY <1>4, <2>1
  <2> QED
    BY <1>1, <1>3, <1>4, <1>5, <2>2, Emits
<1>8. Len(env') = Top.depth
  BY <1>1, <1>2, <1>5 DEF Scopes
<1>9. \E S : env' \in Seq(S)
  BY <1>5, EnvIs
<1> QED
  BY <1>1, <1>6, <1>7, <1>8, <1>9, StepReturns

\* What `lookup` finds can be read where the name is.
LEMMA FoundIs ==
  ASSUME IInv, LowerVar
  PROVE  env[Innermost(ScopesWith(Top.e.name))][Top.e.name] \in Has(code, entry, Top.block)
<1> DEFINE Ss == ScopesWith(Top.e.name)
           k == Innermost(Ss)
<1>1. frames # <<>>
  BY DEF LowerVar, At
<1>2. Len(env) \in Nat /\ DOMAIN env = 1..Len(env)
  BY EnvIs
<1>3. Ss \subseteq 1..Len(env) /\ Ss # {}
  BY <1>2 DEF ScopesWith, LowerVar
<1>4. k \in Ss
  <2>1. \E i \in Ss : \A j \in Ss : j <= i
    BY <1>2, <1>3, GreatestNumber
  <2> HIDE DEF Ss
  <2> QED
    BY <2>1, Zenon DEF Innermost
<1>5. k \in 1..Len(env) /\ Top.e.name \in DOMAIN env[k]
  BY <1>3, <1>4 DEF ScopesWith
<1> HIDE DEF k
<1>6. env[k][Top.e.name] \in Has(code, entry, Top.block)
  BY <1>1, <1>5, NamesKnown
<1> QED
  BY <1>6 DEF k

LEMMA VarStep ==
  ASSUME IInv, LowerVar
  PROVE  IInv'
<1> DEFINE t == env[Innermost(ScopesWith(Top.e.name))][Top.e.name]
<1>1. frames # <<>> /\ Top.e.kind = "var"
  BY DEF LowerVar, At
<1>2. UNCHANGED <<env, code, entry, next>> /\ frames' = Front(frames) /\ ret' = <<t>>
  BY DEF LowerVar, Return
<1>3. Len(env) = Top.depth
  BY <1>1, TopIs DEF Scopes
<1>4. t \in Has(code, entry, Top.block)
  BY FoundIs
<1> HIDE DEF t
<1>5. \E S : env' \in Seq(S)
  BY <1>2, EnvIs
<1> QED
  BY <1>1, <1>2, <1>3, <1>4, <1>5, QuietReturn

LEMMA LhsStep ==
  ASSUME IsAst, IInv, LowerLhs
  PROVE  IInv'
<1> DEFINE g == [Top EXCEPT !.calls = @ + 1]
<1>1. frames # <<>> /\ Top.e.kind = "binop" /\ Top.calls = 0
  BY DEF LowerLhs, At
<1>2. /\ Top \in Activation /\ ActivationOK(Top, code, entry, env, next) /\ Len(env) = Scopes(Top)
      /\ Top.temps = <<>>
  BY <1>1, TopIs DEF ActivationOK, Shape
<1>3. /\ g \in Activation /\ g.e = Top.e /\ g.block = Top.block /\ g.depth = Top.depth
      /\ g.calls = 1 /\ g.temps = <<>>
  <2>1. /\ g \in Activation /\ g.e = Top.e /\ g.block = Top.block /\ g.depth = Top.depth
        /\ g.calls = Top.calls + 1 /\ g.temps = Top.temps
    BY <1>2, NextCall
  <2> HIDE DEF g
  <2> QED
    BY <1>1, <1>2, <2>1
<1>4. Top.e.lhs \in Expr
  BY <1>1, <1>2 DEF IsAst, Activation
<1>5. /\ UNCHANGED <<env, code, entry, next>> /\ ret' = <<>>
      /\ frames' = Front(frames) \o <<g, Frame(Top.e.lhs, Top.block, Len(env))>>
  BY DEF LowerLhs, CallLower, CallIn
<1> HIDE DEF g
<1>6. ~InArms(g) /\ Scopes(g) = Scopes(Top)
  BY <1>1, <1>3 DEF InArms, Scopes
<1>7. ActivationOK(g, code, entry, env, next)
  BY <1>1, <1>2, <1>3, <1>6, Becomes, NamesKnown
<1>8. \E S : env' \in Seq(S)
  BY <1>5, EnvIs
<1> QED
  BY <1>1, <1>2, <1>3, <1>4, <1>5, <1>6, <1>7, <1>8, QuietCall

LEMMA RhsStep ==
  ASSUME IsAst, IInv, LowerRhs
  PROVE  IInv'
<1> DEFINE f == [Top EXCEPT !.temps = <<Returned>>]
           g == [f EXCEPT !.calls = @ + 1]
<1>1. frames # <<>> /\ Top.e.kind = "binop" /\ Top.calls = 1 /\ ret # <<>>
  BY DEF LowerRhs, At
<1>2. /\ Top \in Activation /\ ActivationOK(Top, code, entry, env, next) /\ Len(env) = Scopes(Top)
      /\ ~InArms(Top)
  BY <1>1, TopIs DEF InArms
<1>3. Returned \in Has(code, entry, Top.block) /\ Returned \in Nat
  BY <1>1, <1>2, ReturnedHere
<1>4. /\ g \in Activation /\ g.e = Top.e /\ g.block = Top.block /\ g.depth = Top.depth
      /\ g.calls = 2 /\ g.temps = <<Returned>>
  <2> DEFINE s == <<Returned>>
  <2>1. s \in Seq(Nat)
    BY <1>3
  <2> HIDE DEF s
  <2>2. f = [Top EXCEPT !.temps = s]
    BY DEF s
  <2>3. /\ f \in Activation /\ f.e = Top.e /\ f.block = Top.block /\ f.depth = Top.depth
        /\ f.calls = 1 /\ f.temps = s
    BY <1>1, <1>2, <2>1, <2>2 DEF Activation
  <2> HIDE DEF f
  <2>4. /\ g \in Activation /\ g.e = f.e /\ g.block = f.block /\ g.depth = f.depth
        /\ g.calls = f.calls + 1 /\ g.temps = f.temps
    BY <2>3, NextCall
  <2> HIDE DEF g
  <2> QED
    BY <2>3, <2>4 DEF s
<1>5. Top.e.rhs \in Expr
  BY <1>1, <1>2 DEF IsAst, Activation
<1>6. /\ UNCHANGED <<env, code, entry, next>> /\ ret' = <<>>
      /\ frames' = Front(frames) \o <<g, Frame(Top.e.rhs, Top.block, Len(env))>>
  BY DEF LowerRhs, CallLower, CallIn
<1> HIDE DEF g
<1>7. ~InArms(g) /\ Scopes(g) = Scopes(Top)
  BY <1>1, <1>4 DEF InArms, Scopes
<1>8. Len(g.temps) = 1 /\ g.temps[1] = Returned
  BY <1>4
<1>9. ActivationOK(g, code, entry, env, next)
  <2>1. \A k \in 1..Scopes(g) : \A name \in DOMAIN env[k] :
          env[k][name] \in Has(code, entry, Top.block)
    BY <1>1, <1>2, <1>7, NamesKnown
  <2>2. g.temps[1] \in Has(code, entry, Top.block) /\ g.e.kind # "if" /\ ~(g.calls < 2)
    BY <1>1, <1>3, <1>4, <1>8
  <2> QED
    BY <1>2, <1>4, <1>7, <1>8, <2>1, <2>2, Becomes
<1>10. \E S : env' \in Seq(S)
  BY <1>6, EnvIs
<1> QED
  BY <1>1, <1>2, <1>4, <1>5, <1>6, <1>7, <1>9, <1>10, QuietCall

LEMMA CondStep ==
  ASSUME IsAst, IInv, LowerCond
  PROVE  IInv'
<1> DEFINE g == [Top EXCEPT !.calls = @ + 1]
<1>1. frames # <<>> /\ Top.e.kind = "if" /\ Top.calls = 0
  BY DEF LowerCond, At
<1>2. /\ Top \in Activation /\ ActivationOK(Top, code, entry, env, next) /\ Len(env) = Scopes(Top)
      /\ Top.temps = <<>>
  BY <1>1, TopIs DEF ActivationOK, Shape
<1>3. /\ g \in Activation /\ g.e = Top.e /\ g.block = Top.block /\ g.depth = Top.depth
      /\ g.calls = 1 /\ g.temps = <<>>
  BY <1>1, <1>2, NextCall
<1>4. Top.e.cond \in Expr
  BY <1>1, <1>2 DEF IsAst, Activation
<1>5. /\ UNCHANGED <<env, code, entry, next>> /\ ret' = <<>>
      /\ frames' = Front(frames) \o <<g, Frame(Top.e.cond, Top.block, Len(env))>>
  BY DEF LowerCond, CallLower, CallIn
<1> HIDE DEF g
<1>6. ~InArms(g) /\ Scopes(g) = Scopes(Top)
  BY <1>1, <1>3 DEF InArms, Scopes
<1>7. ActivationOK(g, code, entry, env, next)
  BY <1>1, <1>2, <1>3, <1>6, Becomes, NamesKnown
<1>8. \E S : env' \in Seq(S)
  BY <1>5, EnvIs
<1> QED
  BY <1>1, <1>2, <1>3, <1>4, <1>5, <1>6, <1>7, <1>8, QuietCall

LEMMA BinOpStep ==
  ASSUME IInv, EmitBinOp
  PROVE  IInv'
<1> DEFINE b == Top.block
           l == Top.temps[1]
           x == OpInstr(Top.e.op, next, l, Returned)
<1>1. frames # <<>> /\ Top.e.kind = "binop" /\ Top.calls = 2 /\ ret # <<>>
  BY DEF EmitBinOp, At
<1>2. /\ Top \in Activation /\ next \in Nat /\ Len(env) = Scopes(Top) /\ ~InArms(Top)
      /\ b \in 1..Len(code) /\ CodeOK(code, entry, next) /\ Len(Top.temps) = 1
  BY <1>1, TopIs DEF InArms, ActivationOK, Shape
<1>3. Returned \in Has(code, entry, b) /\ Returned \in Nat
  BY <1>1, <1>2, ReturnedHere
<1>4. l \in Has(code, entry, b) /\ l \in Nat
  <2>1. Top.temps # <<>>
    <3>1. Len(Top.temps) # 0
      BY <1>2
    <3> QED
      BY <3>1, SomeItems
  <2>2. l \in Has(code, entry, b)
    BY <1>1, <2>1, NamesKnown
  <2> QED
    BY <1>2, <2>2, HasType
<1>5. code' = Put(code, b, x) /\ next' = next + 1 /\ UNCHANGED <<env, entry>>
  BY DEF EmitBinOp, Emit, Put
<1>6. frames' = Front(frames) /\ ret' = <<next>>
  BY DEF EmitBinOp, Return
<1> HIDE DEF l
<1> DEFINE args == <<l, Returned>>
<1>7. /\ args \in Seq(Nat) /\ Len(args) = 2
      /\ \A j \in 1..Len(args) : args[j] \in Has(code, entry, b)
  BY <1>3, <1>4
<1>8. <<>> \in Seq(Nat)
  OBVIOUS
<1>9. x.op # "copy" /\ x.dst = next /\ x.args = args
  BY DEF OpInstr, Call, Div, Instr
<1>10. x \in Instruction
  <2> HIDE DEF args
  <2>1. CASE Top.e.op \in Builtins
    <3>1. x = Instr("call", Top.e.op, next, args, <<>>) /\ Top.e.op \in What
      BY <2>1 DEF OpInstr, Call, args, What
    <3> HIDE DEF x
    <3> QED
      BY <1>2, <1>7, <1>8, <3>1 DEF Instr, Instruction
  <2>2. CASE Top.e.op \notin Builtins
    <3>1. x = Instr("binop", "div", next, args, <<>>) /\ "div" \in What
      BY <2>2 DEF OpInstr, Div, args, What
    <3> HIDE DEF x
    <3> QED
      BY <1>2, <1>7, <1>8, <3>1 DEF Instr, Instruction
  <2> QED
    BY <2>1, <2>2
<1> HIDE DEF x, args
<1>11. /\ CodeOK(code', entry', next') /\ code' # <<>> /\ Len(code') = Len(code)
       /\ next \in Has(code', entry', b)
       /\ \A i \in 1..(Len(frames) - 1) : ActivationOK(frames[i], code', entry', env', next')
  BY <1>1, <1>5, <1>7, <1>9, <1>10, Emits
<1>12. Len(env') = Top.depth
  BY <1>1, <1>2, <1>5 DEF Scopes
<1>13. \E S : env' \in Seq(S)
  BY <1>5, EnvIs
<1> QED
  BY <1>1, <1>6, <1>11, <1>12, <1>13, StepReturns

\* What a block lowers is an expression.
LEMMA PartIs ==
  ASSUME IsAst, NEW e \in Expr, e.kind = "block", NEW n \in Nat, n # 0
  PROVE  Part(e, n) \in Expr
<1>1. /\ e.result \in Expr /\ Len(e.stmts) \in Nat /\ DOMAIN e.stmts = 1..Len(e.stmts)
      /\ \A i \in DOMAIN e.stmts : e.stmts[i].value \in Expr
  BY DEF IsAst
<1> QED
  BY <1>1 DEF Part

LEMMA OpenStep ==
  ASSUME IsAst, IInv, OpenScope
  PROVE  IInv'
<1> DEFINE g == [Top EXCEPT !.calls = @ + 1]
           s == <<>>
<1>1. frames # <<>> /\ Top.e.kind = "block" /\ Top.calls = 0
  BY DEF OpenScope, At
<1>2. /\ Top \in Activation /\ ActivationOK(Top, code, entry, env, next) /\ Len(env) = Scopes(Top)
      /\ Top.temps = <<>>
  BY <1>1, TopIs DEF ActivationOK, Shape
<1>3. /\ g \in Activation /\ g.e = Top.e /\ g.block = Top.block /\ g.depth = Top.depth
      /\ g.calls = 1 /\ g.temps = <<>>
  BY <1>1, <1>2, NextCall
<1>4. Part(Top.e, 1) \in Expr
  BY <1>1, <1>2, PartIs DEF Activation
<1>5. /\ UNCHANGED <<code, entry, next>> /\ ret' = <<>> /\ env' = Append(env, s)
      /\ frames' = Front(frames) \o <<g, Frame(Part(Top.e, 1), Top.block, Len(env) + 1)>>
  BY DEF OpenScope, CallIn
<1>6. DOMAIN s = {}
  OBVIOUS
<1> HIDE DEF g, s
<1>7. Scopes(Top) = Top.depth /\ ~InArms(g) /\ Scopes(g) = Len(env) + 1 /\ Len(env) \in Nat
  BY <1>1, <1>2, <1>3 DEF InArms, Scopes, Activation
<1>8. \E S : env' \in Seq(S) /\ Len(env') = Len(env) + 1 /\ env'[Len(env) + 1] = s
         /\ \A k \in 1..Len(env) : env'[k] = env[k]
  <2>1. PICK S : env \in Seq(S)
    BY EnvIs
  <2> DEFINE U == S \cup {s}
  <2>2. env \in Seq(U) /\ s \in U
    BY <2>1, MoreOf
  <2> HIDE DEF U
  <2>3. /\ env' \in Seq(U) /\ Len(env') = Len(env) + 1 /\ env'[Len(env) + 1] = s
        /\ \A k \in 1..Len(env) : env'[k] = env[k]
    BY <1>5, <2>2
  <2> QED
    BY <2>3
<1>9. \A k \in 1..Scopes(g) : \A name \in DOMAIN env'[k] : env'[k][name] \in Has(code, entry, Top.block)
  <2> SUFFICES ASSUME NEW k \in 1..(Len(env) + 1), NEW name \in DOMAIN env'[k]
               PROVE  env'[k][name] \in Has(code, entry, Top.block)
    BY <1>7
  <2>1. k \in 1..Len(env)
    <3>1. k # Len(env) + 1
      BY <1>6, <1>8
    <3> QED
      BY <1>7, <3>1
  <2> QED
    BY <1>1, <1>8, <2>1, NamesKnown
<1>10. ActivationOK(g, code, entry, env', next)
  BY <1>1, <1>2, <1>3, <1>7, <1>9, Becomes
<1> QED
  BY <1>1, <1>2, <1>3, <1>4, <1>5, <1>7, <1>8, <1>10, QuietCall

\* A statement's value has been lowered.
LEMMA StmtIs ==
  ASSUME IsAst, IInv, NEW kind, AtStmt(kind)
  PROVE  /\ frames # <<>> /\ Top.e.kind = "block" /\ ret # <<>> /\ ~InArms(Top)
         /\ Top.calls \in Nat \ {0} /\ Scopes(Top) = Top.depth + 1 /\ Len(env) = Top.depth + 1
         /\ Top.depth \in Nat /\ Part(Top.e, Top.calls + 1) \in Expr
<1>1. frames # <<>> /\ Top.e.kind = "block" /\ Top.calls \in DOMAIN Top.e.stmts
  BY DEF AtStmt, At
<1>2. Top \in Activation /\ Len(env) = Scopes(Top)
  BY <1>1, TopIs
<1>3. /\ Top.e \in Expr /\ Top.depth \in Nat /\ Top.calls \in Nat
  BY <1>2 DEF Activation
<1>4. Len(Top.e.stmts) \in Nat /\ DOMAIN Top.e.stmts = 1..Len(Top.e.stmts)
  BY <1>1, <1>3 DEF IsAst
<1>5. Top.calls \in Nat \ {0}
  BY <1>1, <1>4
<1>6. ret # <<>>
  BY <1>5 DEF AtStmt, At
<1>7. Part(Top.e, Top.calls + 1) \in Expr
  BY <1>1, <1>3, PartIs
<1>8. ~InArms(Top) /\ Scopes(Top) = Top.depth + 1
  BY <1>1, <1>5 DEF InArms, Scopes
<1> QED
  BY <1>1, <1>2, <1>3, <1>5, <1>6, <1>7, <1>8

\* What the innermost activation becomes after a statement.
LEMMA StmtDone ==
  ASSUME IsAst, IInv, NEW kind, AtStmt(kind)
  PROVE  LET g == [Top EXCEPT !.calls = @ + 1]
         IN  /\ g \in Activation /\ g.e = Top.e /\ g.block = Top.block /\ g.depth = Top.depth
             /\ g.calls = Top.calls + 1 /\ g.temps = Top.temps
             /\ ~InArms(g) /\ Scopes(g) = Len(env) /\ (g.calls < 2 => FALSE)
<1> DEFINE g == [Top EXCEPT !.calls = @ + 1]
<1>1. /\ frames # <<>> /\ Top.e.kind = "block" /\ Top.calls \in Nat \ {0}
      /\ Len(env) = Top.depth + 1
  BY StmtIs
<1>2. /\ g \in Activation /\ g.e = Top.e /\ g.block = Top.block /\ g.depth = Top.depth
      /\ g.calls = Top.calls + 1 /\ g.temps = Top.temps
  BY <1>1, TopIs, NextCall
<1> HIDE DEF g
<1>3. ~InArms(g) /\ Scopes(g) = Len(env) /\ ~(g.calls < 2)
  BY <1>1, <1>2 DEF InArms, Scopes
<1> QED
  BY <1>2, <1>3 DEF g

LEMMA BindIs ==
  ASSUME NEW scope, NEW name, NEW temp, NEW T, temp \in T, \A m \in DOMAIN scope : scope[m] \in T
  PROVE  \A m \in DOMAIN Bind(scope, name, temp) : Bind(scope, name, temp)[m] \in T
BY DEF Bind

LEMMA LetStep ==
  ASSUME IsAst, IInv, LowerLet
  PROVE  IInv'
<1> DEFINE g == [Top EXCEPT !.calls = @ + 1]
           n == Len(env)
           s == Bind(env[n], Top.e.stmts[Top.calls].name, Returned)
           e == Part(Top.e, Top.calls + 1)
<1>1. AtStmt("let")
  BY DEF LowerLet
<1>2. /\ frames # <<>> /\ Top.e.kind = "block" /\ ret # <<>> /\ ~InArms(Top)
      /\ n = Top.depth + 1 /\ Top.depth \in Nat /\ e \in Expr
  BY <1>1, StmtIs
<1>3. /\ g \in Activation /\ g.e = Top.e /\ g.block = Top.block /\ g.depth = Top.depth
      /\ g.temps = Top.temps /\ ~InArms(g) /\ Scopes(g) = n /\ ~(g.calls < 2)
  BY <1>1, StmtDone
<1>4. /\ UNCHANGED <<code, entry, next>> /\ ret' = <<>> /\ env' = [env EXCEPT ![n] = s]
      /\ frames' = Front(frames) \o <<g, Frame(e, Top.block, n)>>
  BY DEF LowerLet, CallLower, CallIn
<1>5. \A name \in DOMAIN s : s[name] \in Has(code, entry, Top.block)
  <2>1. \A name \in DOMAIN env[n] : env[n][name] \in Has(code, entry, Top.block)
    BY <1>2, NamesKnown
  <2>2. Returned \in Has(code, entry, Top.block)
    BY <1>2, ReturnedHere
  <2> QED
    BY <2>1, <2>2, BindIs
<1> HIDE DEF g, s, e
<1>6. n \in 1..n /\ \A k \in 1..Top.depth : k \in 1..n /\ k # n
  BY <1>2
<1>7. \E S : env' \in Seq(S) /\ Len(env') = n /\ env'[n] = s
         /\ \A k \in 1..n : k # n => env'[k] = env[k]
  <2>1. PICK S : env \in Seq(S)
    BY EnvIs
  <2> DEFINE U == S \cup {s}
  <2>2. env \in Seq(U) /\ s \in U
    BY <2>1, MoreOf
  <2> HIDE DEF U
  <2>3. env' \in Seq(U) /\ Len(env') = n /\ env'[n] = s /\ \A k \in 1..n : k # n => env'[k] = env[k]
    BY <1>4, <1>6, <2>2, ExceptSeq
  <2> QED
    BY <2>3
<1> HIDE DEF n
<1>8. \A k \in 1..Scopes(g) : \A name \in DOMAIN env'[k] : env'[k][name] \in Has(code, entry, Top.block)
  <2> SUFFICES ASSUME NEW k \in 1..n, NEW name \in DOMAIN env'[k]
               PROVE  env'[k][name] \in Has(code, entry, Top.block)
    BY <1>3
  <2>1. CASE k = n
    BY <1>5, <1>7, <2>1
  <2>2. CASE k # n
    BY <1>2, <1>7, <2>2, NamesKnown DEF n
  <2> QED
    BY <2>1, <2>2
<1>9. ActivationOK(g, code, entry, env', next)
  <2>1. ActivationOK(Top, code, entry, env, next)
    BY <1>2, TopIs
  <2>2. g.temps # <<>> => g.temps[1] \in Has(code, entry, Top.block)
    BY <1>2, <1>3, NamesKnown
  <2> QED
    BY <1>2, <1>3, <1>8, <2>1, <2>2, Becomes
<1>10. \A k \in 1..Top.depth : env'[k] = env[k]
  BY <1>6, <1>7
<1>11. Len(env') = Scopes(g) /\ \E S : env' \in Seq(S)
  BY <1>3, <1>7
<1> QED
  BY <1>2, <1>3, <1>4, <1>9, <1>10, <1>11, QuietCall

LEMMA PrintStep ==
  ASSUME IsAst, IInv, LowerPrint
  PROVE  IInv'
<1> DEFINE g == [Top EXCEPT !.calls = @ + 1]
           x == Call(next, "print", <<Returned>>)
           b == Top.block
           e == Part(Top.e, Top.calls + 1)
<1>1. AtStmt("print")
  BY DEF LowerPrint
<1>2. /\ frames # <<>> /\ Top.e.kind = "block" /\ ret # <<>> /\ ~InArms(Top) /\ e \in Expr
      /\ Scopes(Top) = Top.depth + 1 /\ Len(env) = Top.depth + 1
  BY <1>1, StmtIs
<1>3. /\ g \in Activation /\ g.e = Top.e /\ g.block = b /\ g.depth = Top.depth
      /\ g.temps = Top.temps /\ ~InArms(g) /\ Scopes(g) = Len(env) /\ ~(g.calls < 2)
  BY <1>1, StmtDone
<1>4. /\ code' = Put(code, b, x) /\ next' = next + 1 /\ UNCHANGED <<env, entry>> /\ ret' = <<>>
      /\ frames' = Front(frames) \o <<g, Frame(e, b, Len(env))>>
  BY DEF LowerPrint, CallLower, CallIn, Emit, Put
<1>5. Returned \in Has(code, entry, b) /\ Returned \in Nat
  BY <1>2, ReturnedHere
<1> DEFINE args == <<Returned>>
<1>6. args \in Seq(Nat) /\ \A j \in 1..Len(args) : args[j] \in Has(code, entry, b)
  BY <1>5
<1>7. x.op # "copy" /\ x.dst = next /\ x.args = args
  BY DEF Call, Instr
<1>8. x \in Instruction
  <2>1. x = Instr("call", "print", next, args, <<>>) /\ "print" \in What
    BY DEF Call, What
  <2>2. <<>> \in Seq(Nat)
    OBVIOUS
  <2>3. next \in Nat
    BY <1>2, TopIs
  <2> HIDE DEF x, args
  <2> QED
    BY <1>6, <2>1, <2>2, <2>3 DEF Instr, Instruction
<1> HIDE DEF g, x, e, args
<1>9. /\ CodeOK(code', entry', next') /\ code' # <<>>
      /\ ActivationOK(Top, code', entry', env', next')
      /\ \A i \in 1..(Len(frames) - 1) : ActivationOK(frames[i], code', entry', env', next')
  BY <1>2, <1>4, <1>6, <1>7, <1>8, Emits
<1>10. ActivationOK(g, code', entry', env', next')
  <2>1. Knows(Top, code', entry', env')
    BY <1>9 DEF ActivationOK
  <2>2. g.temps # <<>> => g.temps[1] \in Has(code', entry', b)
    BY <1>3, <2>1 DEF Knows
  <2>3. \A k \in 1..Scopes(g) : \A name \in DOMAIN env'[k] : env'[k][name] \in Has(code', entry', b)
    BY <1>2, <1>3, <2>1 DEF Knows
  <2> QED
    BY <1>2, <1>3, <1>9, <2>2, <2>3, Becomes
<1>11. WorksIn(g) = b
  BY <1>3 DEF WorksIn
<1>12. Len(env') = Scopes(g) /\ \E S : env' \in Seq(S)
  BY <1>3, <1>4, EnvIs
<1> QED
  BY <1>2, <1>3, <1>4, <1>9, <1>10, <1>11, <1>12, StepCalls

LEMMA CloseStep ==
  ASSUME IsAst, IInv, CloseScope
  PROVE  IInv'
<1> DEFINE n == Len(env)
<1>1. frames # <<>> /\ Top.e.kind = "block" /\ Top.calls = Len(Top.e.stmts) + 1
  BY DEF CloseScope, At
<1>2. Top \in Activation /\ n = Scopes(Top)
  BY <1>1, TopIs
<1>3. Top.e \in Expr /\ Top.depth \in Nat /\ Len(Top.e.stmts) \in Nat
  BY <1>1, <1>2 DEF Activation, IsAst
<1>4. Top.calls > 0
  BY <1>1, <1>3
<1>5. ret # <<>> /\ ~InArms(Top) /\ n = Top.depth + 1
  BY <1>1, <1>2, <1>3, <1>4 DEF CloseScope, At, InArms, Scopes
<1>6. Returned \in Has(code, entry, Top.block)
  BY <1>1, <1>5, ReturnedHere
<1>7. /\ UNCHANGED <<code, entry, next>> /\ env' = Front(env)
      /\ frames' = Front(frames) /\ ret' = <<Returned>>
  BY DEF CloseScope, Return
<1>8. \E S : env' \in Seq(S) /\ Len(env') = n - 1 /\ \A k \in 1..(n - 1) : env'[k] = env[k]
  <2>1. PICK S : env \in Seq(S)
    BY EnvIs
  <2>2. env # <<>>
    BY <1>3, <1>5, SomeItems
  <2> QED
    BY <1>7, <2>1, <2>2, PopIs
<1> HIDE DEF n
<1>9. n - 1 = Top.depth
  BY <1>3, <1>5
<1> QED
  BY <1>1, <1>6, <1>7, <1>8, <1>9, QuietReturn

-----------------------------------------------------------------------------
(* The steps of an `if`, that begin and end its arms.                      *)

LEMMA OnlyCopiesPut ==
  ASSUME NEW c \in Code, NEW b \in 1..Len(c), NEW x \in Instruction,
         NEW u, OnlyCopies(c, u), x.op = "copy" \/ x.dst # u
  PROVE  OnlyCopies(Put(c, b, x), u)
<1> DEFINE p == Put(c, b, x)
<1>1. Len(p) = Len(c)
  BY PutIs, ZenonT(30)
<1>2. ASSUME NEW d \in 1..Len(c), NEW i \in 1..Len(p[d])
      PROVE  (i \in 1..Len(c[d]) /\ p[d][i] = c[d][i]) \/ p[d][i] = x
  BY PutAt
<1> HIDE DEF p
<1>3. OnlyCopies(p, u)
  BY <1>1, <1>2 DEF OnlyCopies
<1> QED
  BY <1>3 DEF p

\* What a block that is begun leaves as it was.
LEMMA BlockAdds ==
  ASSUME NEW c, NEW en, NEW n, CodeOK(c, en, n), NEW t \in SUBSET Nat
  PROVE  LET p == Append(c, <<>>)
             q == Append(en, t)
             l == Len(c) + 1
         IN  /\ p \in Code /\ Len(p) = l /\ l \in Nat /\ l \in 1..l
             /\ \A d \in 1..Len(c) : d \in 1..l /\ d < l /\ Has(p, q, d) = Has(c, en, d)
             /\ \A d \in 1..Len(c) : NoCopyIn(c, d) => NoCopyIn(p, d)
             /\ NoCopyIn(p, l) /\ t \subseteq Has(p, q, l)
             /\ \A u : OnlyCopies(c, u) => OnlyCopies(p, u)
<1> DEFINE p == Append(c, <<>>)
           q == Append(en, t)
           k == Len(c)
<1>1. c \in Code /\ en \in Seq(SUBSET Nat) /\ Len(en) = k
  BY DEF CodeOK
<1>2. p \in Code /\ Len(p) = k + 1 /\ p[k + 1] = <<>> /\ \A d \in 1..k : p[d] = c[d]
  BY <1>1, BlockIs
<1>3. q[k + 1] = t /\ \A d \in 1..k : q[d] = en[d]
  BY <1>1
<1>4. k \in Nat
  BY <1>1 DEF Code
<1>5. Len(<<>>) = 0
  OBVIOUS
<1> HIDE DEF p, q, k
<1>6. \A d \in 1..k : d \in 1..(k + 1) /\ d < k + 1
  BY <1>4
<1>7. k + 1 \in Nat /\ k + 1 \in 1..(k + 1)
  BY <1>4
<1>8. \A d \in 1..k : Has(p, q, d) = Has(c, en, d) /\ (NoCopyIn(c, d) => NoCopyIn(p, d))
  BY <1>2, <1>3 DEF Has, NoCopyIn
<1>9. NoCopyIn(p, k + 1)
  BY <1>2, <1>5 DEF NoCopyIn
<1>10. t \subseteq Has(p, q, k + 1)
  BY <1>3 DEF Has
<1>11. ASSUME NEW u, OnlyCopies(c, u) PROVE OnlyCopies(p, u)
  <2> SUFFICES ASSUME NEW d \in 1..(k + 1), NEW i \in 1..Len(p[d]), p[d][i].dst = u
               PROVE  p[d][i].op = "copy"
    BY <1>2 DEF OnlyCopies
  <2>1. d # k + 1
    BY <1>2, <1>5
  <2>2. d \in 1..k
    BY <1>4, <2>1
  <2> QED
    BY <1>2, <1>11, <2>2 DEF OnlyCopies, k
<1> QED
  BY <1>2, <1>6, <1>7, <1>8, <1>9, <1>10, <1>11 DEF p, q, k

\* An arm of the innermost activation is nobody else's.
LEMMA ArmIsItsOwn ==
  ASSUME IInv, frames # <<>>, InArms(Top), NEW i \in 1..(Len(frames) - 1)
  PROVE  /\ frames[i].block # WorksIn(Top) /\ WorksIn(frames[i]) # WorksIn(Top)
         /\ InArms(frames[i]) => Dst(frames[i]) # Dst(Top)
<1> DEFINE f == frames[i]
<1>1. /\ ActivationOK(f, code, entry, env, next) /\ ActivationOK(Top, code, entry, env, next)
      /\ Inside(f, Top) /\ code \in Code /\ Len(code) \in Nat
  BY TopIs
<1> HIDE DEF f
<1>2. WorksIn(f) \in 1..Len(code) /\ f.block <= WorksIn(f) /\ f.block \in 1..Len(code)
  BY <1>1, WorksInIs DEF ActivationOK, Shape
<1>3. Top.block < WorksIn(Top) /\ WorksIn(Top) \in 1..Len(code) /\ Top.block \in 1..Len(code)
  BY <1>1, WorksInIs DEF ActivationOK, Shape
<1>4. WorksIn(f) <= Top.block /\ (InArms(f) => Dst(f) # Dst(Top))
  BY <1>1 DEF Inside
<1>5. f.block # WorksIn(Top) /\ WorksIn(f) # WorksIn(Top)
  BY <1>1, <1>2, <1>3, <1>4
<1> QED
  BY <1>4, <1>5 DEF f

\* The copy at the end of an arm.
LEMMA ArmEnds ==
  ASSUME IInv, frames # <<>>, InArms(Top), ret # <<>>
  PROVE  LET p == Put(code, WorksIn(Top), Copy(Dst(Top), Returned))
         IN  /\ CodeOK(p, entry, next) /\ p \in Code /\ Len(p) = Len(code)
             /\ Has(p, entry, Top.block) = Has(code, entry, Top.block)
             /\ NoCopyIn(p, Top.block) /\ OnlyCopies(p, Dst(Top))
             /\ \A i \in 1..(Len(frames) - 1) : ActivationOK(frames[i], p, entry, env, next)
<1> DEFINE a == WorksIn(Top)
           t == Dst(Top)
           x == Copy(t, Returned)
           p == Put(code, a, x)
           args == <<Returned>>
<1>1. /\ Top \in Activation /\ ActivationOK(Top, code, entry, env, next)
      /\ Top.block \in 1..Len(code) /\ a \in 1..Len(code) /\ Len(code) \in Nat
      /\ code \in Code /\ CodeOK(code, entry, next) /\ next \in Nat
      /\ \A i \in 1..(Len(frames) - 1) : ActivationOK(frames[i], code, entry, env, next)
  BY TopIs
<1>2. Returned \in Has(code, entry, a) /\ Returned \in Nat
  BY ReturnedIs
<1>3. /\ NoCopyIn(code, Top.block) /\ NoCopyIn(code, a) /\ t < next /\ OnlyCopies(code, t)
      /\ Len(Top.temps) = 2
  BY <1>1 DEF ActivationOK, Owns, Shape
<1>4. t \in Nat
  BY <1>1, <1>3 DEF Dst, Activation
<1>5. Top.block # a
  <2>1. Top.block < a
    BY <1>1, WorksInIs DEF ActivationOK
  <2> QED
    BY <1>1, <2>1
<1>6. args \in Seq(Nat) /\ \A j \in 1..Len(args) : args[j] \in Has(code, entry, a)
  BY <1>2
<1> HIDE DEF a, t
<1>7. x.op = "copy" /\ x.dst = t /\ x.args = args
  BY DEF Copy, Instr
<1>8. x \in Instruction
  <2>1. x = Instr("copy", "", t, args, <<>>) /\ "" \in What
    BY DEF Copy, What
  <2>2. <<>> \in Seq(Nat)
    OBVIOUS
  <2> HIDE DEF x, args
  <2> QED
    BY <1>4, <1>6, <2>1, <2>2 DEF Instr, Instruction
<1> HIDE DEF x, args
<1>9. CodeOK(p, entry, next)
  <2>1. next <= next
    BY <1>1
  <2> QED
    BY <1>1, <1>3, <1>6, <1>7, <1>8, <2>1, PutCode
<1>10. p \in Code /\ Len(p) = Len(code) /\ p[Top.block] = code[Top.block]
  <2>1. a \in 1..Len(code) /\ code \in Code
    BY <1>1
  <2>2. p \in Code /\ Len(p) = Len(code) /\ \A d \in 1..Len(code) : d # a => p[d] = code[d]
    BY ZenonT(30), <1>8, <2>1, PutIs
  <2> HIDE DEF p
  <2> QED
    BY <1>1, <1>5, <2>2
<1>11. Has(p, entry, Top.block) = Has(code, entry, Top.block) /\ NoCopyIn(p, Top.block)
  BY <1>3, <1>10 DEF Has, NoCopyIn
<1>12. OnlyCopies(p, t)
  BY <1>1, <1>3, <1>7, <1>8, OnlyCopiesPut
<1>13. ASSUME NEW i \in 1..(Len(frames) - 1) PROVE ActivationOK(frames[i], p, entry, env, next)
  <2>1. a # frames[i].block /\ a # WorksIn(frames[i])
    BY ArmIsItsOwn DEF a
  <2>2. next <= next
    BY <1>1
  <2> QED
    BY <1>1, <1>7, <1>8, <2>1, <2>2, WaitsForPut
<1> QED
  BY <1>9, <1>10, <1>11, <1>12, <1>13 DEF p, x, a, t

\* What the innermost activation of an `if` becomes when the next block is begun,
\* for its next arm: `arms` has that block, and t is written on the way there.
AtNextArm(g, c, en, ev, m, t) ==
  /\ g \in Activation /\ InArms(g) /\ g.block \in 1..Len(c) /\ NoCopyIn(c, g.block)
  /\ Len(g.temps) = 2 /\ Dst(g) < m /\ OnlyCopies(c, Dst(g))
  /\ Len(g.arms) = g.calls - 1 /\ g.arms[g.calls - 1] = Len(c) + 1
  /\ \A i \in 1..(g.calls - 2) : g.block < g.arms[i] /\ g.arms[i] <= Len(c)
  /\ g.temps[1] \in Has(c, en, g.block)
  /\ \A k \in 1..Scopes(g) : \A name \in DOMAIN ev[k] : ev[k][name] \in Has(c, en, g.block)
  /\ Has(c, en, g.block) \subseteq t

LEMMA ArmBegins ==
  ASSUME NEW c, NEW en, NEW ev, NEW n, CodeOK(c, en, n), NEW t \in SUBSET Nat,
         NEW g, NEW m \in Nat, n <= m, AtNextArm(g, c, en, ev, m, t)
  PROVE  LET p == Append(c, <<>>)
             q == Append(en, t)
         IN  /\ ActivationOK(g, p, q, ev, m) /\ WorksIn(g) = Len(c) + 1
             /\ Has(p, q, g.block) \subseteq Has(p, q, WorksIn(g))
<1> USE DEF AtNextArm
<1> DEFINE p == Append(c, <<>>)
           q == Append(en, t)
           l == Len(c) + 1
           k == Len(c)
<1>1. /\ Len(p) = l /\ l \in Nat /\ l \in 1..l /\ NoCopyIn(p, l) /\ t \subseteq Has(p, q, l)
      /\ g.block \in 1..l /\ g.block < l /\ Has(p, q, g.block) = Has(c, en, g.block)
      /\ NoCopyIn(p, g.block) /\ OnlyCopies(p, Dst(g))
  BY BlockAdds
<1>2. c \in Code /\ k \in Nat
  BY DEF CodeOK, Code
<1> HIDE DEF p, q
<1>3. WorksIn(g) = l
  BY DEF WorksIn
<1>4. \A i \in 1..Len(g.arms) : g.block < g.arms[i] /\ g.arms[i] <= l
  <2> SUFFICES ASSUME NEW i \in 1..(g.calls - 1) PROVE g.block < g.arms[i] /\ g.arms[i] <= l
    OBVIOUS
  <2>1. CASE i = g.calls - 1
    BY <1>1, <2>1
  <2>2. CASE i # g.calls - 1
    <3>1. i \in 1..(g.calls - 2)
      BY <2>2 DEF InArms
    <3>2. g.block < g.arms[i] /\ g.arms[i] <= k
      BY <3>1
    <3>3. g.arms[i] \in Nat
      <4>1. g.arms \in Seq(Nat)
        <5>1. g \in Activation
          OBVIOUS
        <5> QED
          BY ONLY <5>1 DEF Activation
      <4>2. i \in 1..Len(g.arms)
        BY <3>1
      <4> QED
        BY <4>1, <4>2
    <3> QED
      BY <1>2, <3>2, <3>3
  <2> QED
    BY <2>1, <2>2
<1> HIDE DEF l
<1>5. Shape(g, p)
  BY <1>1, <1>4 DEF Shape, InArms
<1>6. Knows(g, p, q, ev)
  BY <1>1 DEF Knows
<1>7. Owns(g, p, m)
  BY <1>1, <1>3 DEF Owns
<1>8. Has(p, q, g.block) \subseteq Has(p, q, WorksIn(g))
  BY <1>1, <1>3
<1> QED
  BY <1>3, <1>5, <1>6, <1>7, <1>8 DEF ActivationOK, p, q, l

\* The scopes of an `if` are open for all it calls.
LEMMA IfIs ==
  ASSUME IsAst, IInv, frames # <<>>, Top.e.kind = "if"
  PROVE  /\ Scopes(Top) = Top.depth /\ Len(env) = Top.depth
         /\ Top.e.then \in Expr /\ Top.e.else \in Expr
<1>1. Top.e \in Expr /\ Len(env) = Scopes(Top)
  BY TopIs DEF Activation
<1> QED
  BY <1>1 DEF IsAst, Scopes

LEMMA ThenStep ==
  ASSUME IsAst, IInv, LowerThen
  PROVE  IInv'
<1> DEFINE l == Len(code) + 1
           b == Top.block
           t == Has(code, entry, b)
           f == [Top EXCEPT !.temps = <<Returned, next>>, !.arms = <<l>>]
           g == [f EXCEPT !.calls = @ + 1]
           temps == <<Returned, next>>
           arms == <<l>>
<1>1. frames # <<>> /\ Top.e.kind = "if" /\ Top.calls = 1 /\ ret # <<>>
  BY DEF LowerThen, At
<1>2. /\ Top \in Activation /\ ActivationOK(Top, code, entry, env, next) /\ b \in 1..Len(code)
      /\ Len(code) \in Nat /\ code \in Code /\ CodeOK(code, entry, next) /\ next \in Nat
      /\ \A i \in 1..(Len(frames) - 1) : ActivationOK(frames[i], code, entry, env, next)
  BY <1>1, TopIs
<1>3. ~InArms(Top)
  BY <1>1 DEF InArms
<1>4. Returned \in t /\ Returned \in Nat
  BY <1>1, <1>3, ReturnedHere
<1>5. Scopes(Top) = Top.depth /\ Len(env) = Top.depth /\ Top.e.then \in Expr
  BY <1>1, IfIs
<1>6. /\ code' = Append(code, <<>>) /\ entry' = Append(entry, t) /\ next' = next + 1
      /\ UNCHANGED env /\ ret' = <<>>
      /\ frames' = Front(frames) \o <<g, Frame(Top.e.then, l, Len(env))>>
  BY DEF LowerThen, CallLower, CallIn, Available, Has
<1>7. temps \in Seq(Nat) /\ Len(temps) = 2 /\ temps[1] = Returned /\ temps[2] = next
  BY <1>2, <1>4
<1>8. l \in Nat /\ arms \in Seq(Nat) /\ Len(arms) = 1 /\ arms[1] = l
  BY <1>2
<1>9. t \subseteq Nat
  BY <1>2, HasType
<1> HIDE DEF t, temps, arms
<1>10. /\ g \in Activation /\ g.e = Top.e /\ g.block = b /\ g.depth = Top.depth
       /\ g.calls = 2 /\ g.temps = temps /\ g.arms = arms
  <2>1. /\ f \in Activation /\ f.e = Top.e /\ f.block = b /\ f.depth = Top.depth
        /\ f.calls = 1 /\ f.temps = temps /\ f.arms = arms
    BY <1>1, <1>2, <1>7, <1>8 DEF Activation, temps, arms
  <2> HIDE DEF f
  <2>2. /\ g \in Activation /\ g.e = f.e /\ g.block = f.block /\ g.depth = f.depth
        /\ g.calls = f.calls + 1 /\ g.temps = f.temps /\ g.arms = f.arms
    BY <2>1, NextCall
  <2> HIDE DEF g
  <2> QED
    BY <2>1, <2>2
<1> HIDE DEF f, g
<1>11. InArms(g) /\ Scopes(g) = Top.depth /\ Dst(g) = next
  BY <1>1, <1>7, <1>10 DEF InArms, Scopes, Dst
<1>12. next + 1 \in Nat /\ next <= next + 1 /\ next < next + 1
  BY <1>2
<1>13. OnlyCopies(code, next)
  <2>1. Below(code, next)
    BY <1>2 DEF CodeOK
  <2> QED
    BY <1>2, <2>1 DEF OnlyCopies, Below
<1>14. /\ ActivationOK(g, code', entry', env', next') /\ WorksIn(g) = l
       /\ Has(code', entry', g.block) \subseteq Has(code', entry', WorksIn(g))
  <2>1. g.calls - 1 = 1 /\ g.calls - 2 = 0
    BY <1>10
  <2>2. NoCopyIn(code, b)
    BY <1>2 DEF ActivationOK, Owns
  <2>3. \A k \in 1..Scopes(g) : \A name \in DOMAIN env[k] : env[k][name] \in t
    BY <1>1, <1>5, <1>11, NamesKnown DEF t
  <2>4. \A i \in 1..(g.calls - 2) : g.block < g.arms[i] /\ g.arms[i] <= Len(code)
    BY <2>1
  <2>5. g.block \in 1..Len(code) /\ NoCopyIn(code, g.block) /\ Len(g.temps) = 2
        /\ Len(g.arms) = g.calls - 1 /\ g.arms[g.calls - 1] = Len(code) + 1
    BY <1>2, <1>7, <1>8, <1>10, <2>1, <2>2
  <2>6. g.temps[1] \in Has(code, entry, g.block) /\ Has(code, entry, g.block) \subseteq t
    BY <1>4, <1>7, <1>10 DEF t
  <2>7. Dst(g) < next + 1 /\ OnlyCopies(code, Dst(g))
    BY <1>11, <1>12, <1>13
  <2>8. \A k \in 1..Scopes(g) : \A name \in DOMAIN env[k] :
          env[k][name] \in Has(code, entry, g.block)
    BY <1>10, <2>3 DEF t
  <2>9. AtNextArm(g, code, entry, env, next + 1, t)
    BY <1>10, <1>11, <2>4, <2>5, <2>6, <2>7, <2>8 DEF AtNextArm
  <2>10. /\ ActivationOK(g, Append(code, <<>>), Append(entry, t), env, next + 1)
         /\ WorksIn(g) = Len(code) + 1
         /\ Has(Append(code, <<>>), Append(entry, t), g.block)
              \subseteq Has(Append(code, <<>>), Append(entry, t), WorksIn(g))
    BY <1>2, <1>9, <1>12, <2>9, ArmBegins
  <2> QED
    BY <1>6, <2>10
<1>15. CodeOK(code', entry', next')
  BY <1>2, <1>6, <1>9, <1>12, BlockCode
<1>16. code' # <<>>
  <2>1. Len(code') # 0
    BY <1>2, <1>6, BlockIs
  <2> QED
    BY <2>1, SomeItems
<1>17. \A i \in 1..(Len(frames) - 1) : ActivationOK(frames[i], code', entry', env', next')
  <2>1. entry \in Seq(SUBSET Nat) /\ Len(entry) = Len(code)
    BY <1>2 DEF CodeOK
  <2> QED
    BY <1>2, <1>6, <1>9, <1>12, <2>1, WaitsForBlock
<1>18. \A i \in 1..(Len(frames) - 1) : InArms(frames[i]) /\ InArms(g) => Dst(frames[i]) # Dst(g)
  <2> SUFFICES ASSUME NEW i \in 1..(Len(frames) - 1), InArms(frames[i])
               PROVE  Dst(frames[i]) # next
    BY <1>11
  <2>1. Dst(frames[i]) < next
    BY <1>2 DEF ActivationOK, Owns
  <2> QED
    BY <1>2, <2>1
<1>19. Len(env') = Scopes(g) /\ \E S : env' \in Seq(S)
  BY <1>5, <1>6, <1>11, EnvIs
<1>20. frames' = Front(frames) \o <<g, Frame(Top.e.then, WorksIn(g), Scopes(g))>>
  BY <1>5, <1>6, <1>11, <1>14
<1>21. g.block = Top.block /\ g.depth = Top.depth
  BY <1>10
<1> QED
  BY <1>1, <1>5, <1>6, <1>14, <1>15, <1>16, <1>17, <1>18, <1>19, <1>20, <1>21, StepCalls

LEMMA ElseStep ==
  ASSUME IsAst, IInv, LowerElse
  PROVE  IInv'
<1> DEFINE p == Put(code, WorksIn(Top), Copy(Dst(Top), Returned))
           l == Len(p) + 1
           b == Top.block
           t == Has(code, entry, b)
           f == [Top EXCEPT !.arms = Append(@, l)]
           g == [f EXCEPT !.calls = @ + 1]
           arms == Append(Top.arms, l)
<1>1. frames # <<>> /\ Top.e.kind = "if" /\ Top.calls = 2 /\ ret # <<>>
  BY DEF LowerElse, At
<1>2. InArms(Top) /\ WorksIn(Top) = Top.arms[1] /\ Dst(Top) = Top.temps[2]
  BY <1>1 DEF InArms, WorksIn, Dst
<1>3. /\ CodeOK(p, entry, next) /\ p \in Code /\ Len(p) = Len(code)
      /\ Has(p, entry, b) = t /\ NoCopyIn(p, b) /\ OnlyCopies(p, Dst(Top))
      /\ \A i \in 1..(Len(frames) - 1) : ActivationOK(frames[i], p, entry, env, next)
  BY <1>1, <1>2, ArmEnds
<1>4. /\ Top \in Activation /\ ActivationOK(Top, code, entry, env, next) /\ b \in 1..Len(code)
      /\ Len(code) \in Nat /\ CodeOK(code, entry, next) /\ next \in Nat
  BY <1>1, TopIs
<1>5. Scopes(Top) = Top.depth /\ Len(env) = Top.depth /\ Top.e.else \in Expr
  BY <1>1, IfIs
<1>6. /\ code' = Append(p, <<>>) /\ entry' = Append(entry, t)
      /\ UNCHANGED <<env, next>> /\ ret' = <<>>
  BY <1>2 DEF LowerElse, CallLower, CallIn, Available, Has, Put
<1>7. frames' = Front(frames) \o <<g, Frame(Top.e.else, l, Len(env))>>
  BY <1>3 DEF LowerElse, CallLower, CallIn
<1>8. t \subseteq Nat
  BY <1>4, HasType
<1>9. /\ Len(Top.temps) = 2 /\ Len(Top.arms) = 1 /\ Top.arms \in Seq(Nat)
      /\ b < Top.arms[1] /\ Top.arms[1] <= Len(code) /\ Dst(Top) < next
  <2>1. Shape(Top, code) /\ Owns(Top, code, next) /\ Top.arms \in Seq(Nat)
    BY <1>4 DEF ActivationOK, Activation
  <2>2. /\ Len(Top.temps) = 2 /\ Len(Top.arms) = 1
        /\ b < Top.arms[1] /\ Top.arms[1] <= Len(code)
    BY <1>1, <1>2, <2>1 DEF Shape
  <2>3. Dst(Top) < next
    BY <1>1, <1>2, <2>1, <2>2 DEF Owns
  <2> QED
    BY <2>1, <2>2, <2>3
<1> HIDE DEF t, p
<1>10. l \in Nat
  BY <1>3, <1>4
<1>11. arms \in Seq(Nat) /\ Len(arms) = 2 /\ arms[1] = Top.arms[1] /\ arms[2] = l
  BY <1>9, <1>10
<1> HIDE DEF arms, l
<1>12. /\ g \in Activation /\ g.e = Top.e /\ g.block = b /\ g.depth = Top.depth
       /\ g.calls = 3 /\ g.temps = Top.temps /\ g.arms = arms
  <2>1. f = [Top EXCEPT !.arms = arms]
    BY DEF arms
  <2>2. /\ f \in Activation /\ f.e = Top.e /\ f.block = b /\ f.depth = Top.depth
        /\ f.calls = 2 /\ f.temps = Top.temps /\ f.arms = arms
    BY <1>1, <1>4, <1>11, <2>1 DEF Activation
  <2> HIDE DEF f
  <2>3. /\ g \in Activation /\ g.e = f.e /\ g.block = f.block /\ g.depth = f.depth
        /\ g.calls = f.calls + 1 /\ g.temps = f.temps /\ g.arms = f.arms
    BY <2>2, NextCall
  <2> HIDE DEF g
  <2> QED
    BY <2>2, <2>3
<1> HIDE DEF f, g
<1>13. InArms(g) /\ Scopes(g) = Top.depth /\ Dst(g) = Dst(Top)
  BY <1>1, <1>12 DEF InArms, Scopes, Dst
<1>14. next <= next
  BY <1>4
<1>15. /\ ActivationOK(g, code', entry', env', next') /\ WorksIn(g) = l
       /\ Has(code', entry', g.block) \subseteq Has(code', entry', WorksIn(g))
  <2>1. g.calls - 1 = 2 /\ g.calls - 2 = 1
    BY <1>12
  <2>2. \A i \in 1..(g.calls - 2) : g.block < g.arms[i] /\ g.arms[i] <= Len(p)
    <3>1. \A i \in 1..(g.calls - 2) : i = 1
      BY <2>1
    <3> QED
      BY <1>3, <1>9, <1>11, <1>12, <3>1
  <2>3. g.block \in 1..Len(p) /\ NoCopyIn(p, g.block) /\ Len(g.temps) = 2
        /\ Len(g.arms) = g.calls - 1 /\ g.arms[g.calls - 1] = Len(p) + 1
    BY <1>3, <1>4, <1>9, <1>11, <1>12, <2>1 DEF l
  <2>4. Has(p, entry, g.block) = t
    BY <1>3, <1>12
  <2>5. g.temps[1] \in t
    <3>1. Len(Top.temps) # 0
      BY <1>9
    <3>2. Top.temps # <<>>
      BY <3>1, SomeItems
    <3> QED
      BY <1>1, <1>12, <3>2, NamesKnown DEF t
  <2>6. \A k \in 1..Scopes(g) : \A name \in DOMAIN env[k] : env[k][name] \in t
    BY <1>1, <1>5, <1>13, NamesKnown DEF t
  <2>7. Dst(g) < next /\ OnlyCopies(p, Dst(g))
    BY <1>3, <1>9, <1>13
  <2>8. AtNextArm(g, p, entry, env, next, t)
    BY <1>12, <1>13, <2>2, <2>3, <2>4, <2>5, <2>6, <2>7 DEF AtNextArm
  <2>9. /\ ActivationOK(g, Append(p, <<>>), Append(entry, t), env, next)
        /\ WorksIn(g) = Len(p) + 1
        /\ Has(Append(p, <<>>), Append(entry, t), g.block)
             \subseteq Has(Append(p, <<>>), Append(entry, t), WorksIn(g))
    BY <1>3, <1>4, <1>8, <1>14, <2>8, ArmBegins
  <2> QED
    BY <1>6, <2>9 DEF l
<1>16. CodeOK(code', entry', next')
  BY <1>3, <1>4, <1>6, <1>8, <1>14, BlockCode
<1>17. code' # <<>>
  <2>1. Len(code') # 0
    BY <1>3, <1>4, <1>6, BlockIs
  <2> QED
    BY <2>1, SomeItems
<1>18. \A i \in 1..(Len(frames) - 1) : ActivationOK(frames[i], code', entry', env', next')
  <2>1. entry \in Seq(SUBSET Nat) /\ Len(entry) = Len(p)
    BY <1>3 DEF CodeOK
  <2> QED
    BY <1>3, <1>4, <1>6, <1>8, <1>14, <2>1, WaitsForBlock
<1>19. \A i \in 1..(Len(frames) - 1) : InArms(frames[i]) /\ InArms(g) => Dst(frames[i]) # Dst(g)
  BY <1>1, <1>2, <1>13, ArmIsItsOwn
<1>20. Len(env') = Scopes(g) /\ \E S : env' \in Seq(S)
  BY <1>5, <1>6, <1>13, EnvIs
<1>21. frames' = Front(frames) \o <<g, Frame(Top.e.else, WorksIn(g), Scopes(g))>>
  BY <1>5, <1>7, <1>13, <1>15
<1>22. g.block = Top.block /\ g.depth = Top.depth
  BY <1>12
<1> QED
  BY <1>1, <1>5, <1>6, <1>15, <1>16, <1>17, <1>18, <1>19, <1>20, <1>21, <1>22, StepCalls

LEMMA IfStep ==
  ASSUME IsAst, IInv, EmitIf
  PROVE  IInv'
<1> DEFINE p == Put(code, WorksIn(Top), Copy(Dst(Top), Returned))
           b == Top.block
           t == Dst(Top)
           l == Top.temps[1]
           x == Branch(t, l, Top.arms[1], Top.arms[2])
           args == <<l>>
           arms == <<Top.arms[1], Top.arms[2]>>
<1>1. frames # <<>> /\ Top.e.kind = "if" /\ Top.calls = 3 /\ ret # <<>>
  BY DEF EmitIf, At
<1>2. InArms(Top) /\ WorksIn(Top) = Top.arms[2] /\ t = Top.temps[2]
  BY <1>1 DEF InArms, WorksIn, Dst
<1>3. /\ CodeOK(p, entry, next) /\ p \in Code /\ Len(p) = Len(code)
      /\ Has(p, entry, b) = Has(code, entry, b) /\ NoCopyIn(p, b) /\ OnlyCopies(p, t)
      /\ \A i \in 1..(Len(frames) - 1) : ActivationOK(frames[i], p, entry, env, next)
  BY <1>1, <1>2, ArmEnds
<1>4. /\ Top \in Activation /\ ActivationOK(Top, code, entry, env, next) /\ b \in 1..Len(code)
      /\ Len(code) \in Nat /\ code \in Code /\ CodeOK(code, entry, next) /\ next \in Nat
  BY <1>1, TopIs
<1>5. Len(env) = Top.depth
  BY <1>1, IfIs
<1>6. /\ Len(Top.temps) = 2 /\ Len(Top.arms) = 2 /\ Top.arms \in Seq(Nat) /\ Top.temps \in Seq(Nat)
      /\ t < next
  BY <1>1, <1>2, <1>4 DEF ActivationOK, Shape, Owns, Activation
<1>7. l \in Has(p, entry, b)
  <2>1. Len(Top.temps) # 0
    BY <1>6
  <2>2. Top.temps # <<>>
    BY <2>1, SomeItems
  <2> QED
    BY <1>1, <1>3, <2>2, NamesKnown
<1>8. b # WorksIn(Top)
  <2>1. b < WorksIn(Top)
    BY <1>2, <1>4, WorksInIs DEF ActivationOK
  <2> QED
    BY <1>4, <2>1
<1>9. code' = Put(p, b, x) /\ ret' = <<t>> /\ frames' = Front(frames)
      /\ UNCHANGED <<env, entry, next>>
  BY <1>2, <1>8 DEF EmitIf, Return, Put
<1>10. l \in Nat /\ t \in Nat /\ Top.arms[1] \in Nat /\ Top.arms[2] \in Nat
  <2>1. l = Top.temps[1] /\ t = Top.temps[2]
    BY <1>2
  <2> HIDE DEF l, t
  <2>2. l \in Nat /\ t \in Nat
    BY <1>6, <2>1
  <2>3. Top.arms[1] \in Nat /\ Top.arms[2] \in Nat
    BY <1>6
  <2> QED
    BY <2>2, <2>3
<1> HIDE DEF p, t, l
<1>11. /\ args \in Seq(Nat) /\ arms \in Seq(Nat)
       /\ \A j \in 1..Len(args) : args[j] \in Has(p, entry, b)
  BY <1>7, <1>10
<1>12. x.op # "copy" /\ x.dst = t /\ x.args = args
  BY DEF Branch, Instr
<1>13. x \in Instruction
  <2>1. x = Instr("if", "", t, args, arms) /\ "" \in What
    BY DEF Branch, What
  <2> HIDE DEF x, args, arms
  <2> QED
    BY <1>10, <1>11, <2>1 DEF Instr, Instruction
<1> HIDE DEF x, args, arms
<1>14. next <= next
  BY <1>4
<1>15. CodeOK(code', entry', next')
  <2>1. x.dst < next /\ OnlyCopies(p, x.dst)
    BY <1>3, <1>6, <1>12
  <2>2. b \in 1..Len(p)
    BY <1>3, <1>4
  <2>3. \A j \in 1..Len(x.args) : x.args[j] \in Has(p, entry, b)
    BY <1>11, <1>12
  <2> QED
    BY <1>3, <1>4, <1>9, <1>13, <1>14, <2>1, <2>2, <2>3, PutCode
<1>16. t \in Has(code', entry', b) /\ Len(code') = Len(code)
  <2>1. b \in 1..Len(p)
    BY <1>3, <1>4
  <2> QED
    BY ZenonT(30), <1>3, <1>9, <1>12, <1>13, <2>1, HasPut, PutIs
<1>17. code' # <<>>
  <2>1. Len(code') # 0
    BY <1>4, <1>16
  <2> QED
    BY <2>1, SomeItems
<1>18. ASSUME NEW i \in 1..(Len(frames) - 1)
       PROVE  ActivationOK(frames[i], code', entry', env', next')
  <2>1. InArms(frames[i]) => x.dst # Dst(frames[i])
    BY <1>1, <1>2, <1>12, ArmIsItsOwn DEF t
  <2>2. b \in 1..Len(p) /\ ActivationOK(frames[i], p, entry, env, next)
    BY <1>3, <1>4
  <2> QED
    BY <1>3, <1>4, <1>9, <1>12, <1>13, <1>14, <2>1, <2>2, WaitsForPut
<1>19. Len(env') = Top.depth /\ \E S : env' \in Seq(S)
  BY <1>5, <1>9, EnvIs
<1> QED
  BY <1>1, <1>9, <1>15, <1>16, <1>17, <1>18, <1>19, StepReturns

-----------------------------------------------------------------------------
(* The first activation.                                                   *)

LEMMA ProgramStep ==
  ASSUME IInv, NEW e \in Expr, LowerProgram(e)
  PROVE  IInv'
<1> DEFINE h == Frame(e, 1, 0)
           none == <<>>
           c == <<none>>
           no == {}
           en == <<no>>
<1>1. frames = <<>> /\ code = <<>> /\ env = <<>> /\ ret = <<>> /\ next \in Nat
  BY DEF LowerProgram, IInv, Types, CodeOK
<1>2. /\ frames' = <<h>> /\ code' = c /\ entry' = en /\ UNCHANGED <<env, next, ret>>
  BY DEF LowerProgram
<1>3. /\ none \in Seq(Instruction) /\ none \in Seq(Nat) /\ Len(none) = 0 /\ no \in SUBSET Nat
  OBVIOUS
<1>4. h \in Activation /\ h.block = 1 /\ h.depth = 0 /\ h.calls = 0 /\ h.temps = none
  BY <1>3 DEF Frame, Activation
<1> HIDE DEF h, none, no
<1>5. /\ Len(c) = 1 /\ c[1] = none /\ c \in Code
      /\ Len(en) = 1 /\ en \in Seq(SUBSET Nat)
  BY <1>3 DEF Code
<1> HIDE DEF c, en
<1>6. CodeOK(c, en, next)
  <2>1. \A b \in 1..Len(c) : Len(c[b]) = 0
    BY <1>3, <1>5
  <2>2. Reads(c, en) /\ CopyEndsBlock(c) /\ OneWrites(c) /\ Below(c, next)
    BY <2>1 DEF Reads, CopyEndsBlock, OneWrites, Below
  <2> QED
    BY <1>1, <1>5, <2>2 DEF CodeOK
<1>7. ~InArms(h) /\ Scopes(h) = 0 /\ WorksIn(h) = 1
  BY <1>4 DEF InArms, Scopes, WorksIn
<1>8. ActivationOK(h, c, en, env, next)
  <2>1. Shape(h, c)
    BY <1>4, <1>5, <1>7 DEF Shape, none
  <2>2. Knows(h, c, en, env)
    BY <1>4, <1>7 DEF Knows, none
  <2>3. Owns(h, c, next)
    BY <1>3, <1>4, <1>5, <1>7 DEF Owns, NoCopyIn
  <2> QED
    BY <2>1, <2>2, <2>3 DEF ActivationOK
<1> DEFINE fs == <<h>>
<1>9. fs \in Seq(Activation) /\ Len(fs) = 1 /\ fs[1] = h
  BY <1>4
<1> HIDE DEF fs
<1>10. StackOK(fs, c, en, env, next, <<>>)
  <2>1. Nested(fs)
    BY <1>9 DEF Nested
  <2>2. LatestOK(fs[Len(fs)], c, en, env, <<>>)
    <3>1. Len(env) = 0
      BY <1>1, <1>3 DEF none
    <3> QED
      BY <1>7, <1>9, <3>1 DEF LatestOK
  <2>3. \A i \in 1..Len(fs) : ActivationOK(fs[i], c, en, env, next)
    BY <1>8, <1>9
  <2> QED
    BY <1>9, <2>1, <2>2, <2>3 DEF StackOK
<1>11. c # <<>>
  BY <1>5, SomeItems
<1>12. Types'
  <2>1. (\E S : env \in Seq(S)) /\ code' # <<>> /\ ret' = <<>>
    BY <1>1, <1>2, <1>11, EnvIs
  <2> QED
    BY <1>2, <2>1 DEF Types
<1> QED
  BY <1>1, <1>2, <1>6, <1>10, <1>12 DEF IInv, fs

-----------------------------------------------------------------------------
(* The theorems.                                                           *)

LEMMA InitOK ==
  ASSUME LowerInit
  PROVE  IInv
<1> DEFINE c == <<>>
<1>1. c \in Seq(Seq(Instruction)) /\ c \in Seq(SUBSET Nat) /\ c \in Seq(Activation) /\ Len(c) = 0
  OBVIOUS
<1>2. /\ frames = c /\ code = c /\ env = c /\ entry = c /\ next = 0 /\ ret = c
  BY DEF LowerInit
<1> HIDE DEF c
<1>3. Reads(c, c) /\ CopyEndsBlock(c) /\ OneWrites(c) /\ Below(c, 0)
  BY <1>1 DEF Reads, CopyEndsBlock, OneWrites, Below
<1>4. CodeOK(code, entry, next)
  BY <1>1, <1>2, <1>3 DEF CodeOK, Code
<1>5. Nested(c)
  BY <1>1 DEF Nested
<1>6. StackOK(frames, code, entry, env, next, ret)
  BY <1>1, <1>2, <1>5 DEF StackOK, c
<1>7. Types
  BY <1>1, <1>2 DEF Types, c
<1> QED
  BY <1>4, <1>6, <1>7 DEF IInv

LEMMA StepOK ==
  ASSUME IsAst, IInv, [LowerNext]_lowerVars
  PROVE  IInv'
<1>1. CASE \E e \in Expr : LowerProgram(e)
  BY <1>1, ProgramStep
<1>2. CASE LowerStep
  BY <1>2, NumberStep, VarStep, LhsStep, RhsStep, BinOpStep, CondStep, ThenStep, ElseStep, IfStep,
     OpenStep, LetStep, PrintStep, CloseStep DEF LowerStep
<1>3. CASE UNCHANGED lowerVars
  <2>1. Types'
    BY <1>3 DEF IInv, Types, lowerVars
  <2>2. CodeOK(code, entry, next)' /\ StackOK(frames, code, entry, env, next, ret)'
    BY <1>3 DEF IInv, lowerVars
  <2> QED
    BY <2>1, <2>2 DEF IInv
<1> QED
  BY <1>1, <1>2, <1>3 DEF LowerNext

\* The inductive invariant: what the code, the scopes and the activations of
\* lower_expr are to each other at each of its calls and returns.
THEOREM Invariance ==
  ASSUME IsAst
  PROVE  LowerSpec => []IInv
BY InitOK, StepOK, PTL DEF LowerSpec

LEMMA ReadsOK ==
  ASSUME IInv
  PROVE  ReadsAreWritten
<1>1. code \in Code /\ Reads(code, entry)
  BY DEF IInv, CodeOK
<1> SUFFICES ASSUME NEW b \in DOMAIN code, NEW i \in DOMAIN code[b],
                    NEW j \in DOMAIN code[b][i].args
             PROVE  code[b][i].args[j] \in entry[b] \cup Written(SubSeq(code[b], 1, i - 1))
  BY DEF ReadsAreWritten
<1> DEFINE s == code[b]
           a == SubSeq(s, 1, i - 1)
<1>2. b \in 1..Len(code) /\ s \in Seq(Instruction)
  BY <1>1 DEF Code
<1>3. i \in 1..Len(s) /\ s[i] \in Instruction /\ Len(s) \in Nat
  BY <1>2
<1>4. s[i].args \in Seq(Nat)
  BY <1>3 DEF Instruction
<1>5. j \in 1..Len(s[i].args)
  BY <1>4
<1>6. s[i].args[j] \in entry[b] \cup {s[k].dst : k \in 1..(i - 1)}
  BY <1>1, <1>2, <1>3, <1>5 DEF Reads
<1> HIDE DEF s
<1>7. i - 1 \in Nat /\ \A k \in 1..(i - 1) : k \in 1..Len(s)
  BY <1>3
<1>8. \A k \in 1..(i - 1) : s[k] \in Instruction
  BY <1>2, <1>7
<1> DEFINE n == i - 1
<1>9. n \in Nat /\ n \in Int /\ 1 \in Int /\ n - 1 + 1 = n /\ \A k \in 1..n : 1 + k - 1 = k
  BY <1>7
<1>10. \A k \in 1..n : s[k] \in Instruction
  BY <1>8
<1> HIDE DEF n
<1>11. /\ SubSeq(s, 1, n) \in Seq(Instruction)
       /\ Len(SubSeq(s, 1, n)) = IF 1 <= n THEN n - 1 + 1 ELSE 0
       /\ \A k \in 1..(n - 1 + 1) : SubSeq(s, 1, n)[k] = s[1 + k - 1]
  BY <1>9, <1>10, SubSeqProperties
<1>12. a = SubSeq(s, 1, n)
  BY DEF n
<1> HIDE DEF a
<1>13. a \in Seq(Instruction) /\ Len(a) = n
  BY <1>9, <1>11, <1>12
<1>14. \A k \in 1..n : a[k] = s[k]
  BY <1>9, <1>11, <1>12
<1>15. DOMAIN a = 1..n
  BY <1>13
<1>16. Written(a) = {s[k].dst : k \in 1..n}
  BY <1>14, <1>15 DEF Written
<1> QED
  BY <1>6, <1>16 DEF s, a, n

LEMMA WrittenOK ==
  ASSUME IInv
  PROVE  WrittenOnce
<1>1. code \in Code /\ OneWrites(code) /\ CopyEndsBlock(code)
  BY DEF IInv, CodeOK
<1>2. DOMAIN code = 1..Len(code) /\ \A b \in 1..Len(code) : code[b] \in Seq(Instruction)
  BY <1>1 DEF Code
<1>3. \A b \in 1..Len(code) : DOMAIN code[b] = 1..Len(code[b])
  BY <1>2
<1> SUFFICES ASSUME NEW b \in DOMAIN code, NEW d \in DOMAIN code
             PROVE  \A i \in DOMAIN code[b], j \in DOMAIN code[d] :
                      code[b][i].dst = code[d][j].dst /\ <<b, i>> # <<d, j>> =>
                        \/ code[b][i].op = "copy" /\ i = Len(code[b])
                        \/ code[d][j].op = "copy" /\ j = Len(code[d])
  BY Zenon DEF WrittenOnce
<1> TAKE i \in DOMAIN code[b], j \in DOMAIN code[d]
<1> HAVE code[b][i].dst = code[d][j].dst /\ <<b, i>> # <<d, j>>
<1>4. b \in 1..Len(code) /\ d \in 1..Len(code) /\ (b # d \/ i # j)
  BY <1>2
<1>5. i \in 1..Len(code[b]) /\ j \in 1..Len(code[d])
  BY <1>3, <1>4
<1>6. code[b][i].op = "copy" \/ code[d][j].op = "copy"
  BY <1>1, <1>4, <1>5 DEF OneWrites
<1> QED
  BY <1>1, <1>4, <1>5, <1>6 DEF CopyEndsBlock

\* Whatever the program, every operand of every instruction that lower_expr has
\* made was written on every path to it: TempStore::get finds a value, and
\* neither code generator reads a variable that some branch left out.
THEOREM OperandsAreWritten ==
  ASSUME IsAst
  PROVE  LowerSpec => []ReadsAreWritten
BY Invariance, ReadsOK, PTL

\* Whatever the program, no temp is written by two instructions, unless it is the
\* dst of an `if`, which the last instructions of its arms write.
THEOREM NoTempIsShared ==
  ASSUME IsAst
  PROVE  LowerSpec => []WrittenOnce
BY Invariance, WrittenOK, PTL

-----------------------------------------------------------------------------
(* The code that the interpreter gets.                                     *)

\* What is written when instruction i of block b is executed.
Before(c, en, b, i) == en[b] \cup {c[b][k].dst : k \in 1..(i - 1)}

CallOK(x) == x.op = "call" => x.what \in Builtin /\ Len(x.args) = Arity[x.what]

\* An arm begins with no more than what is written at the `if`, and writes its dst.
BranchOK(c, en, b, i) ==
  LET x == c[b][i]
  IN  x.op = "if" =>
        /\ Len(x.arms) = 2
        /\ \A k \in 1..2 :
             /\ x.arms[k] \in 1..Len(c)
             /\ en[x.arms[k]] \subseteq Before(c, en, b, i)
             /\ x.dst \in Written(c[x.arms[k]])

Executable(c, en) ==
  \A b \in 1..Len(c) : \A i \in 1..Len(c[b]) : CallOK(c[b][i]) /\ BranchOK(c, en, b, i)

\* The same of an `if` that is not made yet, for the arms it has.
Prepares(f, c, en) ==
  InArms(f) =>
    \A k \in 1..Len(f.arms) :
      /\ en[f.arms[k]] \subseteq Has(c, en, f.block)
      /\ k < Len(f.arms) => Dst(f) \in Written(c[f.arms[k]])

\* Block 1 is the program's, and begins with nothing; the program's result is written in it.
BodyOK ==
  /\ entry[1] = {}
  /\ frames # <<>> => frames[1].block = 1
  /\ frames = <<>> => ret # <<>> /\ Returned \in Has(code, entry, 1)

CodeRuns ==
  /\ Executable(code, entry)
  /\ \A i \in 1..Len(frames) : Prepares(frames[i], code, entry)
  /\ code # <<>> => BodyOK

\* More is appended to what there is.
Grows(c, en, p, q) ==
  \A d \in 1..Len(c) :
    /\ d \in 1..Len(p) /\ q[d] = en[d] /\ Written(c[d]) \subseteq Written(p[d])
    /\ \A i \in 1..Len(c[d]) : i \in 1..Len(p[d]) /\ p[d][i] = c[d][i]

LEMMA PutGrows ==
  ASSUME NEW c \in Code, NEW b \in 1..Len(c), NEW x \in Instruction, NEW en
  PROVE  Grows(c, en, Put(c, b, x), en)
<1> DEFINE p == Put(c, b, x)
<1> SUFFICES ASSUME NEW d \in 1..Len(c)
             PROVE  /\ d \in 1..Len(p) /\ Written(c[d]) \subseteq Written(p[d])
                    /\ \A i \in 1..Len(c[d]) : i \in 1..Len(p[d]) /\ p[d][i] = c[d][i]
  BY DEF Grows
<1>1. d \in 1..Len(p)
  BY PutIs
<1>2. \A i \in 1..Len(c[d]) : i \in 1..Len(p[d]) /\ p[d][i] = c[d][i]
  <2>1. CASE d # b
    <3>1. p[d] = c[d]
      BY <2>1, PutIs
    <3> QED
      BY <3>1
  <2>2. CASE d = b
    <3> DEFINE s == c[b]
               t == p[b]
    <3>1. s \in Seq(Instruction) /\ Len(t) = Len(s) + 1
      BY PutIs
    <3>2. \A i \in 1..Len(s) : t[i] = s[i]
      BY PutIs
    <3> HIDE DEF s, t
    <3>3. \A i \in 1..Len(s) : i \in 1..Len(t)
      BY <3>1
    <3> QED
      BY <2>2, <3>2, <3>3 DEF s, t
  <2> QED
    BY <2>1, <2>2
<1>3. DOMAIN c[d] = 1..Len(c[d]) /\ DOMAIN p[d] = 1..Len(p[d])
  <2>1. p \in Code
    BY PutIs
  <2>2. \A s \in Seq(Instruction) : DOMAIN s = 1..Len(s)
    OBVIOUS
  <2> HIDE DEF p
  <2>3. c[d] \in Seq(Instruction) /\ p[d] \in Seq(Instruction)
    BY <1>1, <2>1 DEF Code
  <2> QED
    BY <2>2, <2>3
<1> HIDE DEF p
<1>4. Written(c[d]) \subseteq Written(p[d])
  BY <1>2, <1>3 DEF Written
<1> QED
  BY <1>1, <1>2, <1>4

LEMMA BlockGrows ==
  ASSUME NEW c \in Code, NEW en \in Seq(SUBSET Nat), Len(en) = Len(c), NEW t \in SUBSET Nat
  PROVE  Grows(c, en, Append(c, <<>>), Append(en, t))
<1> DEFINE p == Append(c, <<>>)
           q == Append(en, t)
           n == Len(c)
<1>1. Len(p) = n + 1 /\ \A d \in 1..n : p[d] = c[d]
  BY BlockIs
<1>2. \A d \in 1..n : q[d] = en[d]
  OBVIOUS
<1>3. n \in Nat
  BY DEF Code
<1> HIDE DEF p, q
<1>4. \A d \in 1..n : d \in 1..Len(p)
  BY <1>1, <1>3
<1>5. Grows(c, en, p, q)
  BY <1>1, <1>2, <1>4 DEF Grows, n
<1> QED
  BY <1>5 DEF p, q

LEMMA GrowsMade ==
  ASSUME NEW c \in Code, NEW en, NEW p, NEW q, Grows(c, en, p, q),
         NEW d \in 1..Len(c), NEW i \in 1..Len(c[d]), BranchOK(c, en, d, i)
  PROVE  BranchOK(p, q, d, i)
<1>1. p[d][i] = c[d][i] /\ q[d] = en[d]
  BY DEF Grows
<1>2. c[d] \in Seq(Instruction)
  BY DEF Code
<1>3. \A k \in 1..(i - 1) : k \in 1..Len(c[d])
  BY <1>2
<1>4. Before(p, q, d, i) = Before(c, en, d, i)
  <2>1. \A k \in 1..(i - 1) : p[d][k] = c[d][k]
    BY <1>3 DEF Grows
  <2> QED
    BY <1>1, <2>1 DEF Before
<1>5. \A a \in 1..Len(c) : a \in 1..Len(p) /\ q[a] = en[a] /\ Written(c[a]) \subseteq Written(p[a])
  BY DEF Grows
<1> QED
  BY <1>1, <1>4, <1>5 DEF BranchOK

LEMMA GrowsHas ==
  ASSUME NEW c, NEW en, NEW p, NEW q, Grows(c, en, p, q), NEW d \in 1..Len(c)
  PROVE  Has(c, en, d) \subseteq Has(p, q, d)
BY DEF Grows, Has

LEMMA ArmsAre ==
  ASSUME NEW c \in Code, NEW f, Shape(f, c), InArms(f), NEW k \in 1..Len(f.arms)
  PROVE  f.arms[k] \in 1..Len(c)
<1>1. f.arms \in Seq(Nat) /\ f.block \in 1..Len(c) /\ f.block < f.arms[k] /\ f.arms[k] <= Len(c)
  BY DEF Shape, Activation
<1>2. f.arms[k] \in Nat /\ Len(c) \in Nat
  BY <1>1 DEF Code
<1> QED
  BY <1>1, <1>2

LEMMA GrowsPrepared ==
  ASSUME NEW c \in Code, NEW en, NEW p, NEW q, Grows(c, en, p, q),
         NEW f, Shape(f, c), Prepares(f, c, en)
  PROVE  Prepares(f, p, q)
<1> SUFFICES ASSUME InArms(f), NEW k \in 1..Len(f.arms)
             PROVE  /\ q[f.arms[k]] \subseteq Has(p, q, f.block)
                    /\ k < Len(f.arms) => Dst(f) \in Written(p[f.arms[k]])
  BY DEF Prepares
<1>1. f.arms[k] \in 1..Len(c) /\ f.block \in 1..Len(c)
  BY ArmsAre DEF Shape
<1>2. Has(c, en, f.block) \subseteq Has(p, q, f.block)
  BY <1>1, GrowsHas
<1>3. q[f.arms[k]] = en[f.arms[k]] /\ Written(c[f.arms[k]]) \subseteq Written(p[f.arms[k]])
  BY <1>1 DEF Grows
<1> QED
  BY <1>2, <1>3 DEF Prepares

LEMMA PutExecutable ==
  ASSUME NEW c \in Code, NEW b \in 1..Len(c), NEW x \in Instruction, NEW en,
         Executable(c, en), CallOK(x), BranchOK(Put(c, b, x), en, b, Len(c[b]) + 1)
  PROVE  Executable(Put(c, b, x), en)
<1> DEFINE p == Put(c, b, x)
<1>1. Len(p) = Len(c) /\ Grows(c, en, p, en)
  BY PutIs, PutGrows
<1> SUFFICES ASSUME NEW d \in 1..Len(c), NEW i \in 1..Len(p[d])
             PROVE  CallOK(p[d][i]) /\ BranchOK(p, en, d, i)
  BY <1>1 DEF Executable
<1>2. \/ i \in 1..Len(c[d]) /\ p[d][i] = c[d][i]
      \/ d = b /\ i = Len(c[b]) + 1 /\ p[d][i] = x
  BY PutAt
<1> HIDE DEF p
<1>3. CASE i \in 1..Len(c[d]) /\ p[d][i] = c[d][i]
  <2>1. CallOK(c[d][i]) /\ BranchOK(c, en, d, i)
    BY <1>3 DEF Executable
  <2>2. BranchOK(p, en, d, i)
    BY <1>1, <1>3, <2>1, GrowsMade
  <2> QED
    BY <1>3, <2>1, <2>2
<1>4. CASE d = b /\ i = Len(c[b]) + 1 /\ p[d][i] = x
  BY <1>4 DEF p
<1> QED
  BY <1>2, <1>3, <1>4

\* An instruction that is no `if`.
LEMMA PutPlain ==
  ASSUME NEW c \in Code, NEW b \in 1..Len(c), NEW x \in Instruction, NEW en,
         Executable(c, en), CallOK(x), x.op # "if"
  PROVE  Executable(Put(c, b, x), en)
<1>1. Put(c, b, x)[b][Len(c[b]) + 1] = x
  BY PutIs
<1>2. BranchOK(Put(c, b, x), en, b, Len(c[b]) + 1)
  BY <1>1 DEF BranchOK
<1> QED
  BY <1>2, PutExecutable

LEMMA BlockExecutable ==
  ASSUME NEW c \in Code, NEW en \in Seq(SUBSET Nat), Len(en) = Len(c), NEW t \in SUBSET Nat,
         Executable(c, en)
  PROVE  Executable(Append(c, <<>>), Append(en, t))
<1> DEFINE p == Append(c, <<>>)
           q == Append(en, t)
           n == Len(c)
<1>1. Len(p) = n + 1 /\ p[n + 1] = <<>> /\ \A d \in 1..n : p[d] = c[d]
  BY BlockIs
<1>2. Grows(c, en, p, q)
  BY BlockGrows
<1>3. n \in Nat
  BY DEF Code
<1>4. Len(<<>>) = 0
  OBVIOUS
<1> HIDE DEF p, q
<1> SUFFICES ASSUME NEW d \in 1..(n + 1), NEW i \in 1..Len(p[d])
             PROVE  CallOK(p[d][i]) /\ BranchOK(p, q, d, i)
  BY <1>1 DEF Executable, p, q
<1>5. d # n + 1
  BY <1>1, <1>4
<1>6. d \in 1..n
  BY <1>3, <1>5
<1>7. i \in 1..Len(c[d]) /\ p[d][i] = c[d][i] /\ CallOK(c[d][i]) /\ BranchOK(c, en, d, i)
  BY <1>1, <1>6 DEF Executable, n
<1>8. BranchOK(p, q, d, i)
  BY <1>2, <1>6, <1>7, GrowsMade DEF n
<1> QED
  BY <1>7, <1>8

LEMMA GrowsSame ==
  ASSUME NEW c, NEW en
  PROVE  Grows(c, en, c, en)
BY DEF Grows

LEMMA GrowsFurther ==
  ASSUME NEW c, NEW en, NEW p, NEW q, Grows(c, en, p, q), NEW r, NEW s, Grows(p, q, r, s)
  PROVE  Grows(c, en, r, s)
<1> SUFFICES ASSUME NEW d \in 1..Len(c)
             PROVE  /\ d \in 1..Len(r) /\ s[d] = en[d] /\ Written(c[d]) \subseteq Written(r[d])
                    /\ \A i \in 1..Len(c[d]) : i \in 1..Len(r[d]) /\ r[d][i] = c[d][i]
  BY DEF Grows
<1>1. /\ d \in 1..Len(p) /\ q[d] = en[d] /\ Written(c[d]) \subseteq Written(p[d])
      /\ \A i \in 1..Len(c[d]) : i \in 1..Len(p[d]) /\ p[d][i] = c[d][i]
  BY DEF Grows
<1>2. /\ d \in 1..Len(r) /\ s[d] = q[d] /\ Written(p[d]) \subseteq Written(r[d])
      /\ \A i \in 1..Len(p[d]) : i \in 1..Len(r[d]) /\ r[d][i] = p[d][i]
  BY <1>1 DEF Grows
<1> QED
  BY <1>1, <1>2

\* What the code ends with is an instruction.
LEMMA PutIn ==
  ASSUME NEW c \in Code, NEW b \in 1..Len(c), NEW x, Put(c, b, x) \in Code
  PROVE  x \in Instruction
<1> DEFINE s == c[b]
           t == Append(s, x)
           U == Instruction \cup {x}
<1>1. s \in Seq(Instruction) /\ b \in DOMAIN c
  BY DEF Code
<1>2. s \in Seq(U) /\ x \in U
  BY <1>1, MoreOf
<1>3. Put(c, b, x)[b] = t /\ b \in DOMAIN Put(c, b, x)
  BY <1>1 DEF Put
<1>4. \A p \in Code : \A d \in DOMAIN p : p[d] \in Seq(Instruction)
  BY DEF Code
<1>5. t \in Seq(Instruction)
  <2> HIDE DEF t
  <2> QED
    BY <1>3, <1>4
<1> HIDE DEF U, s
<1>6. Len(t) = Len(s) + 1 /\ t[Len(s) + 1] = x /\ Len(s) \in Nat
  BY <1>2
<1> HIDE DEF t
<1>7. Len(s) + 1 \in 1..Len(t)
  BY <1>6
<1> QED
  BY <1>5, <1>6, <1>7

LEMMA PutWrites ==
  ASSUME NEW c \in Code, NEW b \in 1..Len(c), NEW x \in Instruction
  PROVE  x.dst \in Written(Put(c, b, x)[b])
<1> DEFINE en == [d \in {b} |-> {}]
<1>1. en[b] = {}
  OBVIOUS
<1> HIDE DEF en
<1>2. x.dst \in Has(Put(c, b, x), en, b)
  BY HasPut
<1> QED
  BY <1>1, <1>2 DEF Has

LEMMA BeforeLast ==
  ASSUME NEW c \in Code, NEW b \in 1..Len(c), NEW x \in Instruction, NEW en
  PROVE  Before(Put(c, b, x), en, b, Len(c[b]) + 1) = Has(c, en, b)
<1> DEFINE s == c[b]
           t == Put(c, b, x)[b]
<1>1. s \in Seq(Instruction) /\ \A i \in 1..Len(s) : t[i] = s[i]
  BY PutIs
<1> HIDE DEF s, t
<1>2. DOMAIN s = 1..Len(s) /\ Len(s) + 1 - 1 = Len(s)
  BY <1>1
<1>3. Written(s) = {t[k].dst : k \in 1..(Len(s) + 1 - 1)}
  BY <1>1, <1>2 DEF Written
<1> QED
  BY <1>3 DEF Before, Has, s, t

-----------------------------------------------------------------------------
(* It stays so while lower_expr calls and returns.                         *)

\* The activations that wait.
LEMMA OthersPrepared ==
  ASSUME IInv, CodeRuns, frames # <<>>, NEW p, NEW q, Grows(code, entry, p, q),
         NEW i \in 1..(Len(frames) - 1)
  PROVE  Prepares(frames[i], p, q)
<1>1. frames \in Seq(Activation)
  BY DEF IInv, StackOK
<1>2. i \in 1..Len(frames)
  BY <1>1
<1>3. Shape(frames[i], code) /\ code \in Code
  BY TopIs DEF ActivationOK
<1>4. Prepares(frames[i], code, entry)
  BY <1>2 DEF CodeRuns
<1> QED
  BY <1>3, <1>4, GrowsPrepared

\* Block 1 is there, and begins with nothing still.
LEMMA BodyBegins ==
  ASSUME IInv, CodeRuns, frames # <<>>, NEW p, NEW q, Grows(code, entry, p, q)
  PROVE  q[1] = {} /\ frames[1].block = 1
<1>1. Top.block \in 1..Len(code) /\ Len(code) \in Nat
  BY TopIs
<1>2. 1 \in 1..Len(code)
  BY <1>1
<1>3. code # <<>>
  BY <1>1, SomeCode
<1>4. BodyOK
  BY <1>3 DEF CodeRuns
<1> QED
  BY <1>2, <1>4 DEF BodyOK, Grows

LEMMA RunsCall ==
  ASSUME IInv, CodeRuns, frames # <<>>, Executable(code', entry'), Grows(code, entry, code', entry'),
         NEW g, g.block = Top.block, Prepares(g, code', entry'), NEW e, NEW b, NEW d,
         frames' = Front(frames) \o <<g, Frame(e, b, d)>>
  PROVE  CodeRuns'
<1> DEFINE h == Frame(e, b, d)
           n == Len(frames)
           S == Activation \cup {g, h}
<1>1. frames \in Seq(Activation) /\ Top = frames[n]
  BY TopIs DEF IInv, StackOK
<1>2. n \in Nat \ {0}
  BY <1>1, PopIs
<1>3. ~InArms(h)
  BY DEF Frame, InArms
<1>4. frames \in Seq(S) /\ g \in S /\ h \in S
  BY <1>1, MoreOf
<1> HIDE DEF h, S
<1>5. /\ Len(frames') = n + 1 /\ \A i \in 1..(n - 1) : frames'[i] = frames[i]
      /\ frames'[n] = g /\ frames'[n + 1] = h
  BY <1>4, PushIs DEF h
<1>6. ASSUME NEW i \in 1..(n + 1) PROVE Prepares(frames'[i], code', entry')
  <2>1. i \in 1..(n - 1) \/ i = n \/ i = n + 1
    BY <1>2
  <2>2. CASE i \in 1..(n - 1)
    BY <1>5, <2>2, OthersPrepared
  <2>3. CASE i = n
    BY <1>5, <2>3
  <2>4. CASE i = n + 1
    BY <1>3, <1>5, <2>4 DEF Prepares
  <2> QED
    BY <2>1, <2>2, <2>3, <2>4
<1>7. entry'[1] = {} /\ frames[1].block = 1
  BY BodyBegins
<1> HIDE DEF n
<1>8. frames'[1].block = 1
  <2>1. CASE n = 1
    BY <1>1, <1>5, <1>7, <2>1
  <2>2. CASE n # 1
    <3>1. 1 \in 1..(n - 1)
      BY <1>2, <2>2
    <3> QED
      BY <1>5, <1>7, <3>1
  <2> QED
    BY <2>1, <2>2
<1>9. frames' # <<>>
  <2>1. Len(frames') # 0
    BY <1>2, <1>5
  <2> QED
    BY <2>1, SomeItems
<1>10. BodyOK'
  BY <1>7, <1>8, <1>9 DEF BodyOK
<1> QED
  BY <1>5, <1>6, <1>10 DEF CodeRuns

LEMMA RunsReturn ==
  ASSUME IInv, CodeRuns, frames # <<>>, Executable(code', entry'), Grows(code, entry, code', entry'),
         NEW t, t \in Has(code', entry', Top.block), frames' = Front(frames), ret' = <<t>>
  PROVE  CodeRuns'
<1> DEFINE n == Len(frames)
<1>1. frames \in Seq(Activation) /\ Top = frames[n]
  BY TopIs DEF IInv, StackOK
<1>2. /\ n \in Nat \ {0} /\ Len(frames') = n - 1
      /\ \A i \in 1..(n - 1) : frames'[i] = frames[i]
  BY <1>1, PopIs
<1>3. \A i \in 1..(n - 1) : Prepares(frames'[i], code', entry')
  BY <1>2, OthersPrepared
<1>4. entry'[1] = {} /\ frames[1].block = 1
  BY BodyBegins
<1> HIDE DEF n
<1>5. ASSUME frames' # <<>> PROVE frames'[1].block = 1
  <2>1. frames' \in Seq(Activation)
    BY <1>1, PopIs
  <2>2. Len(frames') # 0
    BY <1>5, <2>1, EmptySeq
  <2>3. 1 \in 1..(n - 1)
    BY <1>2, <2>2
  <2> QED
    BY <1>2, <1>4, <2>3
<1>6. ASSUME frames' = <<>> PROVE ret' # <<>> /\ ret'[1] \in Has(code', entry', 1)
  <2>1. Len(frames') = 0
    BY <1>6
  <2>2. n = 1
    BY <1>2, <2>1
  <2>3. Top.block = 1
    BY <1>1, <1>4, <2>2
  <2> QED
    BY <2>3
<1>7. BodyOK'
  BY <1>4, <1>5, <1>6 DEF BodyOK, Returned
<1> QED
  BY <1>2, <1>3, <1>7 DEF CodeRuns

-----------------------------------------------------------------------------
(* One lemma per step, again.                                              *)

LEMMA CodeIs ==
  ASSUME IInv
  PROVE  code \in Code /\ entry \in Seq(SUBSET Nat) /\ Len(entry) = Len(code)
BY DEF IInv, CodeOK

\* Steps that make no code.
LEMMA QuietRuns ==
  ASSUME IsAst, IInv, CodeRuns,
         LowerVar \/ LowerLhs \/ LowerRhs \/ LowerCond \/ OpenScope \/ LowerLet \/ CloseScope
  PROVE  CodeRuns'
<1> USE DEF At, CallLower, CallIn, Return
<1>1. frames # <<>> /\ UNCHANGED <<code, entry>>
  BY DEF LowerVar, LowerLhs, LowerRhs, LowerCond, OpenScope, LowerLet, AtStmt, CloseScope
<1>2. Grows(code, entry, code', entry') /\ Executable(code', entry')
  BY <1>1, GrowsSame DEF CodeRuns
<1>3. Top \in Activation
  BY <1>1, TopIs
<1> DEFINE g == [Top EXCEPT !.calls = @ + 1]
<1>4. /\ g.block = Top.block /\ g.e = Top.e /\ g.calls = Top.calls + 1 /\ Top.calls \in Nat
  <2>1. Top.calls \in Nat
    BY <1>3 DEF Activation
  <2> QED
    BY <1>3, <2>1, NextCall
<1>5. CASE LowerVar
  <2> DEFINE t == env[Innermost(ScopesWith(Top.e.name))][Top.e.name]
  <2>1. t \in Has(code, entry, Top.block)
    BY <1>5, FoundIs
  <2>2. frames' = Front(frames) /\ ret' = <<t>>
    BY <1>5 DEF LowerVar
  <2> HIDE DEF t
  <2> QED
    BY <1>1, <1>2, <2>1, <2>2, RunsReturn
<1>6. CASE CloseScope
  <2>1. Top.e.kind = "block" /\ Top.calls = Len(Top.e.stmts) + 1
    BY <1>6 DEF CloseScope
  <2>2. Len(Top.e.stmts) \in Nat
    BY <1>3, <2>1 DEF Activation, IsAst
  <2>3. ret # <<>> /\ ~InArms(Top)
    BY <1>6, <2>1, <2>2 DEF CloseScope, InArms
  <2>4. Returned \in Has(code, entry, Top.block)
    BY <1>1, <2>3, ReturnedHere
  <2>5. frames' = Front(frames) /\ ret' = <<Returned>>
    BY <1>6 DEF CloseScope
  <2> QED
    BY <1>1, <1>2, <2>4, <2>5, RunsReturn
<1>7. CASE LowerLhs
  <2>1. frames' = Front(frames) \o <<g, Frame(Top.e.lhs, Top.block, Len(env))>>
    BY <1>7 DEF LowerLhs
  <2>2. Top.e.kind = "binop"
    BY <1>7 DEF LowerLhs
  <2> HIDE DEF g
  <2>3. Prepares(g, code', entry')
    BY <1>4, <2>2 DEF Prepares, InArms
  <2> QED
    BY <1>1, <1>2, <1>4, <2>1, <2>3, RunsCall
<1>8. CASE LowerCond
  <2>1. frames' = Front(frames) \o <<g, Frame(Top.e.cond, Top.block, Len(env))>>
    BY <1>8 DEF LowerCond
  <2>2. Top.calls = 0
    BY <1>8 DEF LowerCond
  <2> HIDE DEF g
  <2>3. Prepares(g, code', entry')
    BY <1>4, <2>2 DEF Prepares, InArms
  <2> QED
    BY <1>1, <1>2, <1>4, <2>1, <2>3, RunsCall
<1>9. CASE OpenScope
  <2>1. frames' = Front(frames) \o <<g, Frame(Part(Top.e, 1), Top.block, Len(env) + 1)>>
    BY <1>9 DEF OpenScope
  <2>2. Top.e.kind = "block"
    BY <1>9 DEF OpenScope
  <2> HIDE DEF g
  <2>3. Prepares(g, code', entry')
    BY <1>4, <2>2 DEF Prepares, InArms
  <2> QED
    BY <1>1, <1>2, <1>4, <2>1, <2>3, RunsCall
<1>10. CASE LowerLet
  <2>1. frames' = Front(frames) \o <<g, Frame(Part(Top.e, Top.calls + 1), Top.block, Len(env))>>
    BY <1>10 DEF LowerLet
  <2>2. Top.e.kind = "block"
    BY <1>10 DEF LowerLet, AtStmt
  <2> HIDE DEF g
  <2>3. Prepares(g, code', entry')
    BY <1>4, <2>2 DEF Prepares, InArms
  <2> QED
    BY <1>1, <1>2, <1>4, <2>1, <2>3, RunsCall
<1>11. CASE LowerRhs
  <2> DEFINE f == [Top EXCEPT !.temps = <<Returned>>]
             k == [f EXCEPT !.calls = @ + 1]
  <2>1. frames' = Front(frames) \o <<k, Frame(Top.e.rhs, Top.block, Len(env))>>
    BY <1>11 DEF LowerRhs
  <2>2. k.block = Top.block /\ k.e = Top.e
    BY <1>3 DEF Activation
  <2>3. Top.e.kind = "binop"
    BY <1>11 DEF LowerRhs
  <2> HIDE DEF k
  <2>4. Prepares(k, code', entry')
    BY <2>2, <2>3 DEF Prepares, InArms
  <2> QED
    BY <1>1, <1>2, <2>1, <2>2, <2>4, RunsCall
<1> QED
  BY <1>5, <1>6, <1>7, <1>8, <1>9, <1>10, <1>11

\* One more instruction, which is no `if`.
LEMMA PlainRuns ==
  ASSUME IInv, CodeRuns, frames # <<>>, IInv', NEW x, x.op # "if", CallOK(x),
         code' = Put(code, Top.block, x), entry' = entry
  PROVE  /\ Grows(code, entry, code', entry') /\ Executable(code', entry')
         /\ x.dst \in Has(code', entry', Top.block)
<1>1. Top.block \in 1..Len(code) /\ code \in Code
  BY TopIs
<1>2. code' \in Code
  BY DEF IInv, CodeOK
<1>3. x \in Instruction
  BY <1>1, <1>2, PutIn
<1>4. Executable(code, entry)
  BY DEF CodeRuns
<1>5. Executable(code', entry')
  BY <1>1, <1>3, <1>4, PutPlain
<1>6. Grows(code, entry, code', entry')
  BY <1>1, <1>3, PutGrows
<1>7. x.dst \in Has(code', entry', Top.block)
  BY <1>1, <1>3, HasPut
<1> QED
  BY <1>5, <1>6, <1>7

LEMMA EmitRuns ==
  ASSUME IsAst, IInv, CodeRuns, IInv', LowerNumber \/ EmitBinOp \/ LowerPrint
  PROVE  CodeRuns'
<1> USE DEF At, CallLower, CallIn, Return, Emit, Put
<1>1. frames # <<>> /\ entry' = entry
  BY DEF LowerNumber, EmitBinOp, LowerPrint, AtStmt
<1>2. CASE LowerNumber
  <2> DEFINE x == Const(next, Top.e.value)
  <2>1. code' = Put(code, Top.block, x) /\ frames' = Front(frames) /\ ret' = <<next>>
    BY <1>2 DEF LowerNumber
  <2>2. x.op = "const" /\ x.dst = next
    BY DEF Const, Instr
  <2> HIDE DEF x
  <2>3. x.op # "if" /\ CallOK(x)
    BY <2>2 DEF CallOK
  <2>4. /\ Grows(code, entry, code', entry') /\ Executable(code', entry')
        /\ x.dst \in Has(code', entry', Top.block)
    BY <1>1, <2>1, <2>3, PlainRuns
  <2> QED
    BY <1>1, <2>1, <2>2, <2>4, RunsReturn
<1>3. CASE EmitBinOp
  <2> DEFINE args == <<Top.temps[1], Returned>>
             x == OpInstr(Top.e.op, next, Top.temps[1], Returned)
  <2>1. code' = Put(code, Top.block, x) /\ frames' = Front(frames) /\ ret' = <<next>>
    BY <1>3 DEF EmitBinOp
  <2>2. /\ x.dst = next /\ x.args = args
        /\ x.op = "binop" \/ (x.op = "call" /\ x.what \in Builtins)
    BY DEF OpInstr, Call, Div, Instr
  <2>3. Len(args) = 2
    OBVIOUS
  <2> HIDE DEF x, args
  <2>4. \A f \in Builtins : f \in Builtin /\ Arity[f] = 2
    BY DEF Builtins, Builtin, Arity
  <2>5. x.op # "if" /\ CallOK(x)
    BY <2>2, <2>3, <2>4 DEF CallOK
  <2>6. /\ Grows(code, entry, code', entry') /\ Executable(code', entry')
        /\ x.dst \in Has(code', entry', Top.block)
    BY <1>1, <2>1, <2>5, PlainRuns
  <2> QED
    BY <1>1, <2>1, <2>2, <2>6, RunsReturn
<1>4. CASE LowerPrint
  <2> DEFINE g == [Top EXCEPT !.calls = @ + 1]
             args == <<Returned>>
             x == Call(next, "print", <<Returned>>)
  <2>1. /\ code' = Put(code, Top.block, x)
        /\ frames' = Front(frames) \o <<g, Frame(Part(Top.e, Top.calls + 1), Top.block, Len(env))>>
    BY <1>4 DEF LowerPrint
  <2>2. x.op = "call" /\ x.what = "print" /\ x.args = args
    BY DEF Call, Instr
  <2>3. Len(args) = 1
    OBVIOUS
  <2>4. g.block = Top.block /\ g.e = Top.e
    BY <1>1, TopIs, NextCall
  <2>5. Top.e.kind = "block"
    BY <1>4 DEF LowerPrint, AtStmt
  <2> HIDE DEF g, x, args
  <2>6. "print" \in Builtin /\ Arity["print"] = 1
    BY DEF Builtin, Arity
  <2>7. x.op # "if" /\ CallOK(x)
    BY <2>2, <2>3, <2>6 DEF CallOK
  <2>8. Grows(code, entry, code', entry') /\ Executable(code', entry')
    BY <1>1, <2>1, <2>7, PlainRuns
  <2>9. Prepares(g, code', entry')
    BY <2>4, <2>5 DEF Prepares, InArms
  <2> QED
    BY <1>1, <2>1, <2>4, <2>8, <2>9, RunsCall
<1> QED
  BY <1>2, <1>3, <1>4

\* An arm has ended.
LEMMA CopyRuns ==
  ASSUME IInv, CodeRuns, frames # <<>>, InArms(Top), ret # <<>>
  PROVE  LET p == Put(code, WorksIn(Top), Copy(Dst(Top), Returned))
         IN  /\ p \in Code /\ Len(p) = Len(code) /\ Has(p, entry, Top.block) = Has(code, entry, Top.block)
             /\ Grows(code, entry, p, entry) /\ Executable(p, entry)
             /\ Dst(Top) \in Written(p[WorksIn(Top)])
<1> DEFINE a == WorksIn(Top)
           x == Copy(Dst(Top), Returned)
           p == Put(code, a, x)
<1>1. p \in Code /\ Len(p) = Len(code) /\ Has(p, entry, Top.block) = Has(code, entry, Top.block)
  BY ArmEnds
<1>2. a \in 1..Len(code) /\ code \in Code
  BY TopIs
<1>3. x.op = "copy" /\ x.dst = Dst(Top)
  BY DEF Copy, Instr
<1> HIDE DEF a, x
<1>4. x \in Instruction
  BY <1>1, <1>2, PutIn
<1>5. Grows(code, entry, p, entry)
  BY <1>2, <1>4, PutGrows
<1>6. CallOK(x) /\ x.op # "if"
  BY <1>3 DEF CallOK
<1>7. Executable(code, entry)
  BY DEF CodeRuns
<1>8. Executable(p, entry)
  BY <1>2, <1>4, <1>6, <1>7, PutPlain
<1>9. Dst(Top) \in Written(p[a])
  BY <1>2, <1>3, <1>4, PutWrites
<1> QED
  BY <1>1, <1>5, <1>8, <1>9 DEF a, x

\* An arm begins: block Len(c) + 1, with t written.
LEMMA BlockRuns ==
  ASSUME NEW c \in Code, NEW en \in Seq(SUBSET Nat), Len(en) = Len(c), NEW t \in SUBSET Nat,
         NEW b \in 1..Len(c), t = Has(c, en, b), Executable(c, en)
  PROVE  LET p == Append(c, <<>>)
             q == Append(en, t)
         IN  /\ Grows(c, en, p, q) /\ Executable(p, q)
             /\ q[Len(c) + 1] = t /\ t \subseteq Has(p, q, b)
<1>1. Append(en, t)[Len(c) + 1] = t
  OBVIOUS
<1> QED
  BY <1>1, BlockGrows, BlockExecutable, GrowsHas

LEMMA ThenRuns ==
  ASSUME IInv, CodeRuns, LowerThen
  PROVE  CodeRuns'
<1> DEFINE l == Len(code) + 1
           b == Top.block
           t == Has(code, entry, b)
           f == [Top EXCEPT !.temps = <<Returned, next>>, !.arms = <<l>>]
           g == [f EXCEPT !.calls = @ + 1]
           arms == <<l>>
<1>1. frames # <<>> /\ Top.calls = 1
  BY DEF LowerThen, At
<1>2. Top \in Activation /\ b \in 1..Len(code) /\ CodeOK(code, entry, next)
  BY <1>1, TopIs
<1>3. /\ code' = Append(code, <<>>) /\ entry' = Append(entry, t)
      /\ frames' = Front(frames) \o <<g, Frame(Top.e.then, l, Len(env))>>
  BY DEF LowerThen, CallLower, CallIn, Available, Has
<1>4. t \in SUBSET Nat /\ Executable(code, entry)
  BY <1>2, HasType DEF CodeRuns
<1>5. g.block = b /\ g.arms = arms
  BY <1>2 DEF Activation
<1>6. Len(arms) = 1 /\ arms[1] = l
  OBVIOUS
<1>7. /\ Grows(code, entry, code', entry') /\ Executable(code', entry')
      /\ entry'[l] = t /\ t \subseteq Has(code', entry', b)
  BY <1>2, <1>3, <1>4, CodeIs, BlockRuns
<1> HIDE DEF f, g, arms, t, l
<1>8. Prepares(g, code', entry')
  <2> SUFFICES ASSUME NEW k \in 1..1
               PROVE  /\ entry'[arms[k]] \subseteq Has(code', entry', b)
                      /\ ~(k < 1)
    BY <1>5, <1>6 DEF Prepares
  <2>1. k = 1
    OBVIOUS
  <2> QED
    BY <1>6, <1>7, <2>1
<1> QED
  BY <1>1, <1>3, <1>5, <1>7, <1>8, RunsCall

LEMMA ElseRuns ==
  ASSUME IInv, CodeRuns, LowerElse
  PROVE  CodeRuns'
<1> DEFINE p == Put(code, WorksIn(Top), Copy(Dst(Top), Returned))
           l == Len(p) + 1
           b == Top.block
           t == Has(code, entry, b)
           f == [Top EXCEPT !.arms = Append(@, l)]
           g == [f EXCEPT !.calls = @ + 1]
           arms == Append(Top.arms, l)
<1>1. frames # <<>> /\ Top.e.kind = "if" /\ Top.calls = 2 /\ ret # <<>>
  BY DEF LowerElse, At
<1>2. InArms(Top) /\ WorksIn(Top) = Top.arms[1] /\ Dst(Top) = Top.temps[2]
  BY <1>1 DEF InArms, WorksIn, Dst
<1>3. /\ p \in Code /\ Len(p) = Len(code) /\ Has(p, entry, b) = t
      /\ Grows(code, entry, p, entry) /\ Executable(p, entry)
      /\ Dst(Top) \in Written(p[Top.arms[1]])
  BY <1>1, <1>2, CopyRuns
<1>4. /\ Top \in Activation /\ Shape(Top, code) /\ b \in 1..Len(code) /\ CodeOK(code, entry, next)
      /\ code \in Code
  BY <1>1, TopIs DEF ActivationOK
<1>5. /\ code' = Append(p, <<>>) /\ entry' = Append(entry, t)
  BY <1>2 DEF LowerElse, CallLower, CallIn, Available, Has, Put
<1>6. frames' = Front(frames) \o <<g, Frame(Top.e.else, l, Len(env))>>
  BY <1>3 DEF LowerElse, CallLower, CallIn
<1>7. t \in SUBSET Nat
  BY <1>4, HasType
<1>8. Len(Top.arms) = 1 /\ Top.arms \in Seq(Nat)
  BY <1>1, <1>2, <1>4 DEF Shape, Activation
<1>9. g.e = Top.e /\ g.block = b /\ g.arms = arms /\ g.temps = Top.temps
  BY <1>4 DEF Activation
<1> HIDE DEF p, t
<1>10. l \in Nat
  BY <1>3 DEF Code
<1>11. Len(arms) = 2 /\ arms[1] = Top.arms[1] /\ arms[2] = l
  BY <1>8, <1>10
<1> HIDE DEF f, g, arms
<1>12. /\ Grows(p, entry, code', entry') /\ Executable(code', entry')
       /\ entry'[l] = t /\ t \subseteq Has(code', entry', b)
  BY <1>3, <1>4, <1>5, <1>7, CodeIs, BlockRuns
<1>13. Grows(code, entry, code', entry')
  BY <1>3, <1>12, GrowsFurther
<1>14. /\ entry'[arms[1]] \subseteq Has(code', entry', b)
       /\ Dst(Top) \in Written(code'[arms[1]])
  <2>1. 1 \in 1..Len(Top.arms)
    BY <1>8
  <2>2. Top.arms[1] \in 1..Len(code)
    BY <1>2, <1>4, <2>1, ArmsAre
  <2>3. Prepares(Top, code, entry)
    <3>1. frames \in Seq(Activation) /\ Top = frames[Len(frames)]
      BY <1>1, TopIs DEF IInv, StackOK
    <3>2. Len(frames) \in 1..Len(frames)
      BY <1>1, <3>1, EmptySeq
    <3> QED
      BY <3>1, <3>2 DEF CodeRuns
  <2>4. entry[Top.arms[1]] \subseteq t
    BY <1>2, <2>1, <2>3 DEF Prepares, t
  <2>5. entry'[Top.arms[1]] = entry[Top.arms[1]] /\ Written(p[Top.arms[1]]) \subseteq Written(code'[Top.arms[1]])
    BY <1>3, <1>12, <1>13, <2>2 DEF Grows
  <2> QED
    BY <1>3, <1>11, <1>12, <2>4, <2>5
<1>15. Prepares(g, code', entry')
  <2> SUFFICES ASSUME NEW k \in 1..2
               PROVE  /\ entry'[arms[k]] \subseteq Has(code', entry', b)
                      /\ k < 2 => Dst(Top) \in Written(code'[arms[k]])
    BY <1>9, <1>11 DEF Prepares, Dst
  <2>1. k = 1 \/ k = 2
    OBVIOUS
  <2> QED
    BY <1>11, <1>12, <1>14, <2>1
<1> QED
  BY <1>1, <1>6, <1>9, <1>12, <1>13, <1>15, RunsCall

LEMMA IfRuns ==
  ASSUME IInv, CodeRuns, IInv', EmitIf
  PROVE  CodeRuns'
<1> DEFINE p == Put(code, WorksIn(Top), Copy(Dst(Top), Returned))
           b == Top.block
           t == Dst(Top)
           x == Branch(t, Top.temps[1], Top.arms[1], Top.arms[2])
           arms == <<Top.arms[1], Top.arms[2]>>
<1>1. frames # <<>> /\ Top.e.kind = "if" /\ Top.calls = 3 /\ ret # <<>>
  BY DEF EmitIf, At
<1>2. InArms(Top) /\ WorksIn(Top) = Top.arms[2] /\ t = Top.temps[2]
  BY <1>1 DEF InArms, WorksIn, Dst
<1>3. /\ p \in Code /\ Len(p) = Len(code) /\ Has(p, entry, b) = Has(code, entry, b)
      /\ Grows(code, entry, p, entry) /\ Executable(p, entry)
      /\ t \in Written(p[Top.arms[2]])
  BY <1>1, <1>2, CopyRuns
<1>4. /\ Top \in Activation /\ ActivationOK(Top, code, entry, env, next) /\ Shape(Top, code)
      /\ b \in 1..Len(code) /\ Len(code) \in Nat /\ code \in Code
  BY <1>1, TopIs DEF ActivationOK
<1>5. Len(Top.arms) = 2
  BY <1>1, <1>2, <1>4 DEF Shape
<1>6. b # WorksIn(Top)
  <2>1. b < WorksIn(Top)
    BY <1>2, <1>4, WorksInIs DEF ActivationOK
  <2> QED
    BY <1>4, <2>1
<1>7. /\ code' = Put(p, b, x) /\ ret' = <<t>> /\ frames' = Front(frames) /\ entry' = entry
  BY <1>2, <1>6 DEF EmitIf, Return, Put
<1>8. x.op = "if" /\ x.dst = t /\ x.arms = arms
  BY DEF Branch, Instr
<1>9. Len(arms) = 2 /\ arms[1] = Top.arms[1] /\ arms[2] = Top.arms[2]
  OBVIOUS
<1>10. Prepares(Top, code, entry)
  <2>1. frames \in Seq(Activation) /\ Top = frames[Len(frames)]
    BY <1>1, TopIs DEF IInv, StackOK
  <2>2. Len(frames) \in 1..Len(frames)
    BY <1>1, <2>1, EmptySeq
  <2> QED
    BY <2>1, <2>2 DEF CodeRuns
<1>11. code' \in Code
  BY CodeIs DEF IInv, CodeOK
<1> HIDE DEF p, t, x, arms
<1>12. x \in Instruction
  BY <1>3, <1>4, <1>7, <1>11, PutIn
<1>13. Grows(p, entry, code', entry')
  BY <1>3, <1>4, <1>7, <1>12, PutGrows
<1>14. Grows(code, entry, code', entry')
  BY <1>3, <1>7, <1>13, GrowsFurther
<1>15. ASSUME NEW k \in 1..2
       PROVE  /\ arms[k] \in 1..Len(code') /\ entry[arms[k]] \subseteq Has(p, entry, b)
              /\ t \in Written(code'[arms[k]])
  <2>1. k \in 1..Len(Top.arms) /\ (k = 1 \/ k = 2)
    BY <1>5
  <2>2. arms[k] = Top.arms[k]
    BY <1>9, <2>1
  <2>3. Top.arms[k] \in 1..Len(code)
    BY <1>2, <1>4, <2>1, ArmsAre
  <2>4. entry[Top.arms[k]] \subseteq Has(p, entry, b)
    BY <1>2, <1>3, <1>10, <2>1 DEF Prepares
  <2>5. t \in Written(p[Top.arms[k]])
    <3>1. CASE k = 1
      <4>1. t \in Written(code[Top.arms[1]])
        BY <1>2, <1>5, <1>10, <2>1, <3>1 DEF Prepares, t
      <4> QED
        BY <1>3, <2>3, <3>1, <4>1 DEF Grows
    <3>2. CASE k = 2
      BY <1>3, <3>2
    <3> QED
      BY <2>1, <3>1, <3>2
  <2>6. Top.arms[k] \in 1..Len(code') /\ Written(p[Top.arms[k]]) \subseteq Written(code'[Top.arms[k]])
    BY <1>3, <1>13, <2>3 DEF Grows
  <2> QED
    BY <2>2, <2>4, <2>5, <2>6
<1>16. BranchOK(code', entry', b, Len(p[b]) + 1)
  <2> DEFINE i == Len(p[b]) + 1
  <2>1. b \in 1..Len(p)
    BY <1>3, <1>4
  <2>2. Put(p, b, x)[b][i] = x
    BY <1>3, <1>12, <2>1, PutIs
  <2>3. Before(Put(p, b, x), entry, b, i) = Has(p, entry, b)
    BY <1>3, <1>12, <2>1, BeforeLast
  <2> HIDE DEF i
  <2>4. BranchOK(code', entry', b, i)
    BY <1>7, <1>8, <1>9, <1>15, <2>2, <2>3 DEF BranchOK
  <2> QED
    BY <2>4 DEF i
<1>17. Executable(code', entry')
  <2>1. CallOK(x)
    BY <1>8 DEF CallOK
  <2>2. b \in 1..Len(p)
    BY <1>3, <1>4
  <2> QED
    BY <1>3, <1>7, <1>12, <1>16, <2>1, <2>2, PutExecutable
<1>18. t \in Has(code', entry', b)
  <2>1. b \in 1..Len(p)
    BY <1>3, <1>4
  <2> QED
    BY <1>3, <1>7, <1>8, <1>12, <2>1, HasPut
<1> QED
  BY <1>1, <1>7, <1>14, <1>17, <1>18, RunsReturn

LEMMA ProgramRuns ==
  ASSUME IInv, NEW e \in Expr, LowerProgram(e)
  PROVE  CodeRuns'
<1> DEFINE h == Frame(e, 1, 0)
           none == <<>>
           c == <<none>>
           en == <<{}>>
           fs == <<h>>
<1>1. frames' = fs /\ code' = c /\ entry' = en
  BY DEF LowerProgram
<1>2. /\ Len(fs) = 1 /\ fs[1] = h /\ Len(c) = 1 /\ c[1] = none /\ Len(none) = 0 /\ en[1] = {}
  OBVIOUS
<1>3. h.block = 1 /\ ~InArms(h)
  BY DEF Frame, InArms
<1> HIDE DEF h, fs, c, en, none
<1>4. Executable(c, en)
  BY <1>2 DEF Executable
<1>5. \A i \in 1..Len(fs) : Prepares(fs[i], c, en)
  BY <1>2, <1>3 DEF Prepares
<1>6. fs # <<>>
  <2>1. Len(fs) # 0
    BY <1>2
  <2> QED
    BY <2>1, SomeItems
<1>7. BodyOK'
  BY <1>1, <1>2, <1>3, <1>6 DEF BodyOK
<1> QED
  BY <1>1, <1>4, <1>5, <1>7 DEF CodeRuns

LEMMA RunsStep ==
  ASSUME IsAst, IInv, CodeRuns, [LowerNext]_lowerVars
  PROVE  IInv' /\ CodeRuns'
<1>1. IInv'
  BY StepOK
<1>2. CASE \E e \in Expr : LowerProgram(e)
  BY <1>1, <1>2, ProgramRuns
<1>3. CASE LowerStep
  BY <1>1, <1>3, QuietRuns, EmitRuns, ThenRuns, ElseRuns, IfRuns DEF LowerStep
<1>4. CASE UNCHANGED lowerVars
  BY <1>1, <1>4 DEF lowerVars, CodeRuns, BodyOK, Returned
<1> QED
  BY <1>1, <1>2, <1>3, <1>4 DEF LowerNext

LEMMA RunsInit ==
  ASSUME LowerInit
  PROVE  CodeRuns
<1> DEFINE none == <<>>
<1>1. code = none /\ entry = none /\ frames = none
  BY DEF LowerInit
<1>2. Len(none) = 0
  OBVIOUS
<1>3. code = <<>>
  BY DEF LowerInit
<1> HIDE DEF none
<1>4. Executable(code, entry) /\ \A i \in 1..Len(frames) : Prepares(frames[i], code, entry)
  BY <1>1, <1>2 DEF Executable
<1> QED
  BY <1>3, <1>4 DEF CodeRuns

-----------------------------------------------------------------------------
(* The interpreter.                                                        *)

\* `calcc run --interpret`: interpret(&lower(&ast)).
RunInit == LowerInit /\ InterpInit
RunNext ==
  \/ LowerNext /\ UNCHANGED interpVars
  \/ (Interpret \/ InterpStep) /\ UNCHANGED lowerVars
RunSpec == RunInit /\ [][RunNext]_<<lowerVars, interpVars>>

PlaceAt(b, i) == [block |-> b, at |-> i]
Place == [block : Nat, at : Nat]

\* All that instruction i of block b comes after is written.
Covered(b, i) == Before(code, entry, b, i) \subseteq DOMAIN store

\* It is at an instruction of its block, or at the end.
Within(f) == f.block \in 1..Len(code) /\ f.at \in 1..(Len(code[f.block]) + 1)

\* The instruction before f is an `if`, one of whose arms g is in.
Waits(f, g) ==
  /\ f.at - 1 \in 1..Len(code[f.block])
  /\ code[f.block][f.at - 1].op = "if"
  /\ \E k \in 1..2 : g.block = code[f.block][f.at - 1].arms[k]
  /\ Covered(f.block, f.at - 1)

RunOK ==
  /\ control \in Seq(Place)
  /\ \A k \in 1..Len(control) : Within(control[k])
  /\ \A k \in 1..(Len(control) - 1) : Waits(control[k], control[k + 1])
  /\ control # <<>> =>
       Lowered /\ control[1].block = 1 /\ Covered(control[Len(control)].block, control[Len(control)].at)
  /\ control = <<>> => DOMAIN store = {} \/ (Lowered /\ Result \in DOMAIN store)

LEMMA HereIs ==
  ASSUME IInv, RunOK, control # <<>>
  PROVE  /\ Here = control[Len(control)] /\ Len(control) \in Nat \ {0} /\ Here \in Place
         /\ Within(Here) /\ Covered(Here.block, Here.at) /\ Lowered
         /\ Len(code[Here.block]) \in Nat
         /\ (~AtEnd => Here.at \in 1..Len(code[Here.block]))
         /\ (AtEnd => Here.at = Len(code[Here.block]) + 1)
<1> DEFINE n == Len(control)
<1>1. control \in Seq(Place)
  BY DEF RunOK
<1>2. n \in Nat \ {0}
  BY <1>1, EmptySeq
<1>3. Here = control[n]
  BY DEF Here, Last
<1>4. n \in 1..n
  BY <1>2
<1>5. Here \in Place
  BY <1>1, <1>3, <1>4
<1>6. Within(Here) /\ Covered(Here.block, Here.at) /\ Lowered
  BY <1>3, <1>4 DEF RunOK
<1>7. Len(code[Here.block]) \in Nat
  <2> DEFINE s == code[Here.block]
  <2>1. s \in Seq(Instruction)
    BY <1>6, CodeIs DEF Within, Code
  <2> HIDE DEF s
  <2>2. Len(s) \in Nat
    BY <2>1
  <2> QED
    BY <2>2 DEF s
<1>8. /\ (~AtEnd => Here.at \in 1..Len(code[Here.block]))
      /\ (AtEnd => Here.at = Len(code[Here.block]) + 1)
  BY <1>5, <1>6, <1>7 DEF AtEnd, Within, Place
<1> QED
  BY <1>2, <1>3, <1>5, <1>6, <1>7, <1>8

LEMMA ReadsFound ==
  ASSUME IInv, CodeRuns, RunOK
  PROVE  ReadsSucceed
<1>1. ASSUME Running, ~AtEnd PROVE Readable(Current)
  <2> DEFINE b == Here.block
             i == Here.at
             x == code[b][i]
  <2>1. /\ b \in 1..Len(code) /\ i \in 1..Len(code[b]) /\ Covered(b, i)
    BY <1>1, HereIs DEF Running, Within
  <2>2. CallOK(x)
    BY <2>1 DEF CodeRuns, Executable
  <2>3. Reads(code, entry)
    BY DEF IInv, CodeOK
  <2>4. x \in Instruction
    <3>1. code[b] \in Seq(Instruction)
      BY <2>1, CodeIs DEF Code
    <3> QED
      BY <2>1, <3>1
  <2>5. DOMAIN x.args = 1..Len(x.args)
    <3>1. x.args \in Seq(Nat)
      BY <2>4 DEF Instruction
    <3> QED
      BY <3>1
  <2>6. \A j \in 1..Len(x.args) : x.args[j] \in Before(code, entry, b, i)
    BY <2>1, <2>3 DEF Reads, Before
  <2>7. Current = x
    BY DEF Current
  <2> HIDE DEF x, b, i
  <2> QED
    BY <2>1, <2>2, <2>5, <2>6, <2>7 DEF Readable, CallOK, Covered
<1>2. control = <<>> /\ DOMAIN store # {} => Lowered /\ Result \in DOMAIN store
  BY DEF RunOK
<1> QED
  BY <1>1, <1>2 DEF ReadsSucceed

\* The last of s becomes g.
LEMMA SwapIs ==
  ASSUME NEW S, NEW s \in Seq(S), s # <<>>, NEW g \in S
  PROVE  LET r == Front(s) \o <<g>>
         IN  /\ r \in Seq(S) /\ Len(r) = Len(s) /\ r[Len(s)] = g
             /\ \A i \in 1..(Len(s) - 1) : r[i] = s[i]
<1> DEFINE a == Front(s)
           b == <<g>>
           n == Len(s)
           r == a \o b
<1>1. n \in Nat \ {0} /\ a \in Seq(S) /\ Len(a) = n - 1 /\ \A i \in 1..(n - 1) : a[i] = s[i]
  BY PopIs
<1>2. b \in Seq(S) /\ Len(b) = 1 /\ b[1] = g
  OBVIOUS
<1> HIDE DEF a, b, n
<1>3. /\ r \in Seq(S) /\ Len(r) = Len(a) + Len(b)
      /\ \A i \in 1..(Len(a) + Len(b)) : r[i] = IF i <= Len(a) THEN a[i] ELSE b[i - Len(a)]
  <2>1. a \in Seq(S) /\ b \in Seq(S)
    BY <1>1, <1>2
  <2> QED
    BY ONLY <2>1, ConcatProperties
<1> HIDE DEF r
<1>4. Len(a) + Len(b) = n
  BY <1>1, <1>2
<1>5. \A i \in 1..n : r[i] = IF i <= n - 1 THEN a[i] ELSE b[i - (n - 1)]
  BY <1>1, <1>3, <1>4
<1>6. \A i \in 1..(n - 1) : r[i] = s[i]
  BY <1>1, <1>5
<1>7. n \in 1..n /\ ~(n <= n - 1) /\ n - (n - 1) = 1
  BY <1>1
<1>8. r[n] = g
  BY <1>2, <1>5, <1>7
<1> QED
  BY <1>3, <1>4, <1>6, <1>8 DEF r, a, b, n

\* One more instruction precedes.
LEMMA BeforeNext ==
  ASSUME NEW c, NEW en, NEW b, NEW i \in Nat \ {0}
  PROVE  Before(c, en, b, i + 1) = Before(c, en, b, i) \cup {c[b][i].dst}
<1>1. 1..(i + 1 - 1) = 1..(i - 1) \cup {i}
  OBVIOUS
<1> QED
  BY <1>1 DEF Before

\* What is written stays written.
LEMMA CoveredStill ==
  ASSUME UNCHANGED lowerVars, DOMAIN store \subseteq DOMAIN store', NEW b, NEW i, Covered(b, i)
  PROVE  Covered(b, i)'
BY DEF Covered, lowerVars

LEMMA WaitsStill ==
  ASSUME UNCHANGED lowerVars, DOMAIN store \subseteq DOMAIN store', NEW f, NEW g, Waits(f, g)
  PROVE  Waits(f, g)'
BY DEF Waits, Covered, lowerVars

LEMMA LoweredStill ==
  ASSUME UNCHANGED lowerVars
  PROVE  /\ Lowered => Lowered' /\ Result' = Result
         /\ \A f : Within(f) => Within(f)'
BY DEF Lowered, Result, Returned, Within, lowerVars

\* What the next instruction of this block gives way to.
Stepped(f) == [f EXCEPT !.at = @ + 1]

LEMMA NextIs ==
  ASSUME IInv, RunOK, control # <<>>, ~AtEnd
  PROVE  /\ Stepped(Here) \in Place /\ Stepped(Here).block = Here.block /\ Stepped(Here).at = Here.at + 1
         /\ Within(Stepped(Here)) /\ Stepped(Here).at - 1 = Here.at
<1> DEFINE g == Stepped(Here)
           n == Len(code[Here.block])
<1>1. /\ Here \in Place /\ Within(Here) /\ Here.at \in 1..n /\ n \in Nat
  BY HereIs
<1>2. g \in Place /\ g.block = Here.block /\ g.at = Here.at + 1
  BY <1>1 DEF Place, Stepped
<1> HIDE DEF g, n
<1>3. g.at \in 1..(n + 1) /\ g.at - 1 = Here.at
  BY <1>1, <1>2
<1>4. Within(g)
  BY <1>1, <1>2, <1>3 DEF Within, n
<1> QED
  BY <1>2, <1>3, <1>4 DEF g

\* The blocks outside of the innermost one wait as they did.
LEMMA OutsideWaits ==
  ASSUME IInv, RunOK, control # <<>>, UNCHANGED lowerVars, DOMAIN store \subseteq DOMAIN store',
         NEW s, \A k \in 1..(Len(control) - 1) : s[k] = control[k],
         s[Len(control)].block = Here.block
  PROVE  \A k \in 1..(Len(control) - 1) : Waits(s[k], s[k + 1])' /\ Within(s[k])'
<1> DEFINE n == Len(control)
<1>1. n \in Nat \ {0} /\ Here = control[n]
  BY HereIs
<1> SUFFICES ASSUME NEW k \in 1..(n - 1) PROVE Waits(s[k], s[k + 1])' /\ Within(s[k])'
  OBVIOUS
<1>2. Waits(control[k], control[k + 1]) /\ s[k] = control[k]
  BY DEF RunOK
<1>3. s[n].block = Here.block
  OBVIOUS
<1>4. Within(control[k])
  <2>1. \A j \in 1..n : Within(control[j])
    BY DEF RunOK
  <2> HIDE DEF n
  <2>2. k \in 1..n
    BY <1>1
  <2> QED
    BY <2>1, <2>2
<1> DEFINE i == k + 1
<1>5. Waits(control[k], control[i])
  BY <1>2
<1>6. i \in 1..(n - 1) \/ i = n
  <2> HIDE DEF n
  <2> QED
    BY <1>1
<1>7. \A j \in 1..(n - 1) : s[j] = control[j]
  OBVIOUS
<1> HIDE DEF n, i
<1>8. s[i].block = control[i].block
  BY <1>1, <1>3, <1>6, <1>7
<1>9. Waits(s[k], s[i])
  BY <1>2, <1>5, <1>8 DEF Waits
<1>10. Waits(s[k], s[i])' /\ Within(s[k])'
  BY <1>2, <1>4, <1>9, WaitsStill, LoweredStill
<1> QED
  BY <1>10 DEF i

\* The innermost block becomes g, and what it waits for is written.
LEMMA StepIs ==
  ASSUME IInv, RunOK, control # <<>>, UNCHANGED lowerVars, DOMAIN store \subseteq DOMAIN store',
         NEW g \in Place, g.block = Here.block, Within(g), NEW s, s = Front(control) \o <<g>>
  PROVE  /\ s \in Seq(Place) /\ Len(s) = Len(control) /\ Len(s) \in Nat \ {0} /\ s[Len(s)] = g
         /\ s # <<>> /\ s[1].block = 1 /\ Lowered'
         /\ \A k \in 1..Len(s) : Within(s[k])'
         /\ \A k \in 1..(Len(s) - 1) : Waits(s[k], s[k + 1])'
<1>1. control \in Seq(Place) /\ control[1].block = 1
  BY DEF RunOK
<1>2. PICK n : n = Len(control)
  OBVIOUS
<1>3. n \in Nat \ {0} /\ Here = control[n] /\ Lowered
  BY <1>2, HereIs
<1>4. /\ s \in Seq(Place) /\ Len(s) = n /\ s[n] = g
      /\ \A k \in 1..(n - 1) : s[k] = control[k]
  BY <1>1, <1>2, SwapIs
<1>5. \A k \in 1..(n - 1) : Waits(s[k], s[k + 1])' /\ Within(s[k])'
  BY <1>2, <1>4, OutsideWaits
<1>6. Within(g)' /\ Lowered'
  BY <1>3, LoweredStill
<1>7. s[1].block = 1
  <2>1. CASE n = 1
    BY <1>1, <1>3, <1>4, <2>1
  <2>2. CASE n # 1
    <3>1. 1 \in 1..(n - 1)
      BY <1>3, <2>2
    <3> QED
      BY <1>1, <1>4, <3>1
  <2> QED
    BY <2>1, <2>2
<1>8. \A k \in 1..n : Within(s[k])'
  <2>1. \A k \in 1..n : k \in 1..(n - 1) \/ k = n
    BY <1>3
  <2> QED
    BY <1>4, <1>5, <1>6, <2>1
<1>9. s # <<>>
  <2>1. Len(s) # 0
    BY <1>3, <1>4
  <2> QED
    BY <2>1, SomeItems
<1> QED
  BY <1>2, <1>3, <1>4, <1>5, <1>6, <1>7, <1>8, <1>9

LEMMA WriteStep ==
  ASSUME IInv, RunOK, control # <<>>, ~AtEnd, UNCHANGED lowerVars, control' = Step,
         DOMAIN store' = DOMAIN store \cup {Current.dst}
  PROVE  RunOK'
<1>1. PICK g : g = Stepped(Here)
  OBVIOUS
<1>2. PICK s : s = control'
  OBVIOUS
<1>3. g \in Place /\ g.block = Here.block /\ g.at = Here.at + 1 /\ Within(g)
  BY <1>1, NextIs
<1>4. s = Front(control) \o <<g>>
  BY <1>1, <1>2 DEF Step, Stepped
<1>5. /\ s \in Seq(Place) /\ s[Len(s)] = g /\ s # <<>> /\ s[1].block = 1 /\ Lowered'
      /\ \A k \in 1..Len(s) : Within(s[k])'
      /\ \A k \in 1..(Len(s) - 1) : Waits(s[k], s[k + 1])'
  BY <1>3, <1>4, StepIs
<1>6. Covered(g.block, g.at)'
  <2>1. Here.at \in Nat \ {0} /\ Covered(Here.block, Here.at)
    BY HereIs DEF Place
  <2>2. Before(code, entry, Here.block, Here.at + 1)
          = Before(code, entry, Here.block, Here.at) \cup {code[Here.block][Here.at].dst}
    <3> DEFINE b == Here.block
               i == Here.at
    <3>1. i \in Nat \ {0}
      BY <2>1
    <3> HIDE DEF b, i
    <3>2. Before(code, entry, b, i + 1) = Before(code, entry, b, i) \cup {code[b][i].dst}
      BY <3>1, BeforeNext
    <3> QED
      BY <3>2 DEF b, i
  <2>3. Before(code, entry, g.block, g.at) \subseteq DOMAIN store'
    BY <1>3, <2>1, <2>2 DEF Covered, Current
  <2>4. code' = code /\ entry' = entry
    BY DEF lowerVars
  <2> QED
    BY <2>3, <2>4 DEF Covered
<1> QED
  BY <1>2, <1>5, <1>6 DEF RunOK

\* What the `if` that is next needs of the code.
LEMMA BranchIs ==
  ASSUME IInv, CodeRuns, NEW b \in 1..Len(code), NEW i \in 1..Len(code[b]), code[b][i].op = "if",
         NEW k \in 1..2
  PROVE  LET a == code[b][i].arms[k]
         IN  /\ a \in 1..Len(code) /\ a \in Nat /\ entry[a] \subseteq Before(code, entry, b, i)
             /\ code[b][i].dst \in Written(code[a])
<1>1. BranchOK(code, entry, b, i)
  BY DEF CodeRuns, Executable
<1>2. Len(code) \in Nat
  BY CodeIs DEF Code
<1>3. code[b][i].arms[k] \in 1..Len(code)
  BY <1>1 DEF BranchOK
<1>4. code[b][i].arms[k] \in Nat
  BY <1>2, <1>3
<1> QED
  BY <1>1, <1>3, <1>4 DEF BranchOK

LEMMA IfExecuted ==
  ASSUME IInv, CodeRuns, RunOK, ExecIf, UNCHANGED lowerVars
  PROVE  RunOK'
<1>1. control # <<>> /\ ~AtEnd /\ Current.op = "if" /\ store' = store
  BY DEF ExecIf, Exec, Running
<1>2. PICK g : g = Stepped(Here)
  OBVIOUS
<1>3. PICK s : s = Front(control) \o <<g>>
  OBVIOUS
<1>4. PICK b : b = Here.block
  OBVIOUS
<1>5. PICK i : i = Here.at
  OBVIOUS
<1>6. PICK x : x = code[b][i]
  OBVIOUS
<1>7. PICK k \in 1..2 : control' = Append(s, PlaceAt(x.arms[k], 1))
  <2>1. s = Step /\ x = Current
    BY <1>2, <1>3, <1>4, <1>5, <1>6 DEF Step, Stepped, Current
  <2>2. control' = Append(s, PlaceAt(x.arms[IF Truthy(Arg(1)) THEN 1 ELSE 2], 1))
    BY <2>1 DEF ExecIf, PlaceAt
  <2> QED
    BY <2>2
<1>8. PICK h : h = PlaceAt(x.arms[k], 1)
  OBVIOUS
<1>9. g \in Place /\ g.block = b /\ g.at - 1 = i /\ Within(g)
  BY <1>1, <1>2, <1>4, <1>5, NextIs
<1>10. /\ s \in Seq(Place) /\ Len(s) \in Nat \ {0} /\ s[Len(s)] = g /\ s[1].block = 1 /\ Lowered'
       /\ \A j \in 1..Len(s) : Within(s[j])'
       /\ \A j \in 1..(Len(s) - 1) : Waits(s[j], s[j + 1])'
  BY <1>1, <1>3, <1>4, <1>9, StepIs
<1>11. b \in 1..Len(code) /\ i \in 1..Len(code[b]) /\ Covered(b, i) /\ x.op = "if"
  BY <1>1, <1>4, <1>5, <1>6, HereIs DEF Within, Current
<1>12. /\ x.arms[k] \in 1..Len(code) /\ x.arms[k] \in Nat
       /\ entry[x.arms[k]] \subseteq Before(code, entry, b, i)
  BY <1>6, <1>11, BranchIs
<1>13. h.block = x.arms[k] /\ h.at = 1 /\ h \in Place
  BY <1>8, <1>12 DEF PlaceAt, Place
<1>14. code' = code /\ entry' = entry
  BY DEF lowerVars
<1>15. Within(h)'
  <2>1. Len(code[h.block]) \in Nat
    <3> DEFINE c == code[h.block]
    <3>1. c \in Seq(Instruction)
      BY <1>12, <1>13, CodeIs DEF Code
    <3> HIDE DEF c
    <3>2. Len(c) \in Nat
      BY <3>1
    <3> QED
      BY <3>2 DEF c
  <2> DEFINE n == Len(code[h.block])
  <2> HIDE DEF n
  <2>2. 1 \in 1..(n + 1)
    BY <2>1 DEF n
  <2> QED
    BY <1>12, <1>13, <1>14, <2>2 DEF Within, n
<1>16. Covered(h.block, h.at)'
  <2>1. 1..(1 - 1) = {}
    OBVIOUS
  <2>2. Before(code, entry, h.block, 1) = entry[h.block]
    BY <2>1 DEF Before
  <2>3. Before(code, entry, h.block, 1) \subseteq DOMAIN store
    BY <1>11, <1>12, <1>13, <2>2 DEF Covered
  <2> QED
    BY <1>1, <1>13, <1>14, <2>3 DEF Covered
<1>17. Waits(g, h)'
  BY <1>1, <1>6, <1>9, <1>11, <1>13, <1>14 DEF Waits, Covered
<1>18. PICK r : r = control'
  OBVIOUS
<1>19. PICK n : n = Len(s)
  OBVIOUS
<1>20. /\ r \in Seq(Place) /\ Len(r) = n + 1 /\ r[n + 1] = h /\ n \in Nat \ {0} /\ s[n] = g
       /\ \A j \in 1..n : r[j] = s[j]
  BY <1>7, <1>8, <1>10, <1>13, <1>18, <1>19
<1>21. \A j \in 1..Len(r) : Within(r[j])'
  <2>1. \A j \in 1..(n + 1) : j \in 1..n \/ j = n + 1
    BY <1>20
  <2> QED
    BY <1>10, <1>15, <1>19, <1>20, <2>1
<1>22. ASSUME NEW j \in 1..(Len(r) - 1) PROVE Waits(r[j], r[j + 1])'
  <2>1. j \in 1..n
    BY <1>20
  <2>2. CASE j = n
    BY <1>17, <1>20, <2>1, <2>2
  <2>3. CASE j # n
    <3>1. j \in 1..(n - 1) /\ j + 1 \in 1..n
      BY <1>20, <2>1, <2>3
    <3>2. r[j] = s[j] /\ r[j + 1] = s[j + 1]
      BY <1>20, <2>1, <3>1
    <3> QED
      BY <1>10, <1>19, <3>1, <3>2
  <2> QED
    BY <2>2, <2>3
<1>23. r # <<>>
  <2>1. Len(r) # 0
    BY <1>20
  <2> QED
    BY <2>1, SomeItems
<1>24. r[1].block = 1
  <2>1. 1 \in 1..n
    BY <1>20
  <2> QED
    BY <1>10, <1>20, <2>1
<1>25. r[Len(r)] = h
  BY <1>20
<1> QED
  BY <1>10, <1>16, <1>18, <1>20, <1>21, <1>22, <1>23, <1>24, <1>25 DEF RunOK

LEMMA BlockEnded ==
  ASSUME IInv, CodeRuns, RunOK, EndBlock, UNCHANGED lowerVars
  PROVE  RunOK'
<1>1. control # <<>> /\ AtEnd /\ store' = store /\ control' = Front(control)
  BY DEF EndBlock, Running
<1>2. PICK n : n = Len(control)
  OBVIOUS
<1>3. PICK b : b = Here.block
  OBVIOUS
<1>4. PICK s : s = control'
  OBVIOUS
<1>5. /\ n \in Nat \ {0} /\ Here = control[n] /\ b \in 1..Len(code) /\ Lowered
      /\ Covered(b, Len(code[b]) + 1) /\ Len(code[b]) \in Nat
  BY <1>1, <1>2, <1>3, HereIs DEF Within
<1>6. /\ s \in Seq(Place) /\ Len(s) = n - 1 /\ \A k \in 1..(n - 1) : s[k] = control[k]
  <2>1. control \in Seq(Place)
    BY DEF RunOK
  <2> QED
    BY <1>1, <1>2, <1>4, <2>1, PopIs
<1>7. Has(code, entry, b) \subseteq DOMAIN store
  <2> DEFINE c == code[b]
  <2>1. c \in Seq(Instruction)
    BY <1>5, CodeIs DEF Code
  <2>2. Covered(b, Len(c) + 1)
    BY <1>5
  <2>3. Has(code, entry, b) = entry[b] \cup Written(c)
    BY DEF Has
  <2>4. Before(code, entry, b, Len(c) + 1) = entry[b] \cup {c[k].dst : k \in 1..(Len(c) + 1 - 1)}
    BY DEF Before
  <2> HIDE DEF c
  <2>5. DOMAIN c = 1..Len(c) /\ Len(c) + 1 - 1 = Len(c)
    BY <2>1
  <2> QED
    BY <2>2, <2>3, <2>4, <2>5 DEF Written, Covered
<1>8. \A k \in 1..n : Within(control[k])
  BY <1>2 DEF RunOK
<1>9. \A k \in 1..(n - 1) : Waits(control[k], control[k + 1])
  BY <1>2 DEF RunOK
<1>10. control[1].block = 1
  BY <1>1 DEF RunOK
<1>11. code' = code /\ entry' = entry /\ Lowered' /\ Result' = Result
  BY <1>5, LoweredStill DEF lowerVars
<1>12. CASE n = 1
  <2>1. b = 1
    BY <1>3, <1>5, <1>10, <1>12
  <2>2. Result \in Has(code, entry, 1)
    BY <1>5 DEF CodeRuns, BodyOK, Lowered, Result
  <2>3. Result \in DOMAIN store
    BY <1>7, <2>1, <2>2
  <2>4. Len(s) = 0
    BY <1>6, <1>12
  <2>5. s = <<>>
    BY <1>6, <2>4, EmptySeq
  <2>6. \A k \in 1..0 : FALSE
    OBVIOUS
  <2>7. \A k \in 1..(0 - 1) : FALSE
    OBVIOUS
  <2> QED
    BY <1>1, <1>4, <1>6, <1>11, <2>3, <2>4, <2>5, <2>6, <2>7 DEF RunOK
<1>13. CASE n # 1
  <2>1. PICK m : m = n - 1
    OBVIOUS
  <2>2. m \in Nat \ {0} /\ m + 1 = n /\ m \in 1..(n - 1) /\ m \in 1..n /\ 1 \in 1..m
    BY <1>5, <1>13, <2>1
  <2>3. PICK f : f = control[m]
    OBVIOUS
  <2>4. PICK i : i = f.at - 1
    OBVIOUS
  <2>5. f \in Place /\ Within(f) /\ Waits(f, Here)
    <3>1. control \in Seq(Place)
      BY DEF RunOK
    <3> QED
      BY <1>2, <1>5, <1>8, <1>9, <2>2, <2>3, <3>1
  <2>6. f.block \in 1..Len(code) /\ i \in 1..Len(code[f.block]) /\ code[f.block][i].op = "if"
    BY <2>4, <2>5 DEF Waits, Within
  <2>7. code[f.block][i].dst \in Written(code[b])
    <3>1. PICK k \in 1..2 : b = code[f.block][i].arms[k]
      BY <1>3, <2>4, <2>5 DEF Waits
    <3> QED
      BY <2>6, <3>1, BranchIs
  <2>8. code[f.block][i].dst \in DOMAIN store
    BY <1>7, <2>7 DEF Has
  <2>9. Covered(f.block, i)
    BY <2>4, <2>5 DEF Waits
  <2>10. f.at \in Nat /\ i \in Nat \ {0} /\ i + 1 = f.at
    <3>1. f.at \in Nat
      BY <2>5 DEF Place
    <3>2. i \in Int /\ i >= 1
      BY <2>4, <2>6, <3>1
    <3> QED
      BY <2>4, <3>1, <3>2
  <2>11. Covered(f.block, f.at)
    <3>1. Before(code, entry, f.block, i + 1)
            = Before(code, entry, f.block, i) \cup {code[f.block][i].dst}
      <4>1. PICK d : d = f.block
        OBVIOUS
      <4>2. Before(code, entry, d, i + 1) = Before(code, entry, d, i) \cup {code[d][i].dst}
        BY <2>10, BeforeNext
      <4> QED
        BY <4>1, <4>2
    <3> QED
      BY <2>8, <2>9, <2>10, <3>1 DEF Covered
  <2>12. Len(s) = m /\ s[m] = f /\ s[1].block = 1
    BY <1>6, <1>10, <2>1, <2>2, <2>3
  <2>13. s # <<>>
    <3>1. Len(s) # 0
      BY <2>2, <2>12
    <3> QED
      BY <3>1, SomeItems
  <2>14. \A k \in 1..m : Within(s[k])'
    <3>1. \A k \in 1..m : k \in 1..n /\ k \in 1..(n - 1)
      BY <2>2
    <3> QED
      BY <1>6, <1>8, <3>1, LoweredStill
  <2>15. ASSUME NEW k \in 1..(m - 1) PROVE Waits(s[k], s[k + 1])'
    <3>1. k \in 1..(n - 1) /\ k + 1 \in 1..(n - 1)
      BY <2>2
    <3>2. s[k] = control[k] /\ s[k + 1] = control[k + 1]
      BY <1>6, <3>1
    <3>3. Waits(s[k], s[k + 1])
      BY <1>9, <3>1, <3>2
    <3>4. DOMAIN store \subseteq DOMAIN store'
      BY <1>1
    <3> QED
      BY <3>3, <3>4, WaitsStill
  <2>16. Covered(f.block, f.at)'
    BY <1>1, <1>11, <2>11 DEF Covered
  <2> QED
    BY <1>4, <1>6, <1>11, <2>12, <2>13, <2>14, <2>15, <2>16 DEF RunOK
<1> QED
  BY <1>12, <1>13

LEMMA BodyStarts ==
  ASSUME IInv, CodeRuns, Interpret, UNCHANGED lowerVars
  PROVE  RunOK'
<1>1. PICK h : h = PlaceAt(1, 1)
  OBVIOUS
<1>2. PICK s : s = <<h>>
  OBVIOUS
<1>3. Lowered /\ control' = s /\ store' = store /\ code' = code /\ entry' = entry
  BY <1>1, <1>2 DEF Interpret, PlaceAt, lowerVars
<1>4. h.block = 1 /\ h.at = 1 /\ h \in Place
  BY <1>1 DEF PlaceAt, Place
<1>5. s \in Seq(Place) /\ Len(s) = 1 /\ s[1] = h
  BY <1>2, <1>4
<1>6. code # <<>> /\ entry[1] = {}
  BY <1>3 DEF Lowered, CodeRuns, BodyOK
<1>7. 1 \in 1..Len(code)
  <2>1. code \in Code
    BY CodeIs
  <2>2. Len(code) \in Nat \ {0}
    BY <1>6, <2>1, EmptySeq DEF Code
  <2> QED
    BY <2>2
<1>8. Within(h)
  <2>1. PICK c : c = code[1]
    OBVIOUS
  <2>2. c \in Seq(Instruction)
    BY <1>7, <2>1, CodeIs DEF Code
  <2>3. 1 \in 1..(Len(c) + 1)
    BY <2>2
  <2> QED
    BY <1>4, <1>7, <2>1, <2>3 DEF Within
<1>9. Within(h)' /\ Lowered'
  BY <1>3, <1>8, LoweredStill
<1>10. Covered(h.block, h.at)'
  <2>1. 1..(1 - 1) = {}
    OBVIOUS
  <2>2. Before(code, entry, 1, 1) = {}
    BY <1>6, <2>1 DEF Before
  <2> QED
    BY <1>3, <1>4, <2>2 DEF Covered
<1>11. s # <<>>
  <2>1. Len(s) # 0
    BY <1>5
  <2> QED
    BY <2>1, SomeItems
<1>12. \A k \in 1..(1 - 1) : FALSE
  OBVIOUS
<1>13. \A k \in 1..1 : k = 1
  OBVIOUS
<1> QED
  BY <1>3, <1>4, <1>5, <1>9, <1>10, <1>11, <1>12, <1>13 DEF RunOK

\* The interpreter while lower_expr runs.
LEMMA NotYet ==
  ASSUME RunOK, LowerNext, UNCHANGED interpVars
  PROVE  RunOK'
<1>1. ~Lowered
  BY DEF LowerNext, LowerProgram, LowerStep, LowerNumber, LowerVar, LowerLhs, LowerRhs, EmitBinOp,
     LowerCond, LowerThen, LowerElse, EmitIf, OpenScope, LowerLet, LowerPrint, AtStmt, CloseScope,
     At, Lowered
<1>2. control = <<>> /\ DOMAIN store = {} /\ control \in Seq(Place)
  BY <1>1 DEF RunOK
<1>3. control' = control /\ store' = store
  BY DEF interpVars
<1>4. Len(<<>>) = 0 /\ (\A k \in 1..0 : FALSE) /\ (\A k \in 1..(0 - 1) : FALSE)
  OBVIOUS
<1>5. control' = <<>> /\ control' \in Seq(Place) /\ Len(control') = 0 /\ DOMAIN store' = {}
  BY <1>2, <1>3, <1>4
<1> QED
  BY <1>4, <1>5 DEF RunOK

LEMMA RunStays ==
  ASSUME RunOK, UNCHANGED lowerVars, UNCHANGED <<store, control>>
  PROVE  RunOK'
BY DEF RunOK, Within, Waits, Covered, Lowered, Result, Returned, lowerVars

LEMMA RunStep ==
  ASSUME IsAst, IInv, CodeRuns, RunOK, [RunNext]_<<lowerVars, interpVars>>
  PROVE  IInv' /\ CodeRuns' /\ RunOK'
<1>1. CASE LowerNext /\ UNCHANGED interpVars
  BY <1>1, RunsStep, NotYet
<1>2. ASSUME UNCHANGED lowerVars PROVE IInv' /\ CodeRuns'
  BY <1>2, RunsStep
<1>3. CASE Interpret /\ UNCHANGED lowerVars
  BY <1>2, <1>3, BodyStarts
<1>4. CASE InterpStep /\ UNCHANGED lowerVars
  <2>1. CASE ExecConst \/ ExecBinOp \/ ExecCall \/ ExecCopy
    <3>1. control # <<>> /\ ~AtEnd /\ control' = Step
      BY <2>1 DEF ExecConst, ExecBinOp, ExecCall, ExecCopy, Exec, Running
    <3>2. DOMAIN store' = DOMAIN store \cup {Current.dst}
      BY <2>1 DEF ExecConst, ExecBinOp, ExecCall, ExecCopy, Write
    <3> QED
      BY <1>2, <1>4, <3>1, <3>2, WriteStep
  <2>2. CASE CallFails
    BY <1>2, <1>4, <2>2, RunStays DEF CallFails
  <2>3. CASE ExecIf
    BY <1>2, <1>4, <2>3, IfExecuted
  <2>4. CASE EndBlock
    BY <1>2, <1>4, <2>4, BlockEnded
  <2> QED
    BY <1>4, <2>1, <2>2, <2>3, <2>4 DEF InterpStep
<1>5. CASE UNCHANGED <<lowerVars, interpVars>>
  BY <1>2, <1>5, RunStays DEF interpVars
<1> QED
  BY <1>1, <1>3, <1>4, <1>5 DEF RunNext

\* Whatever the program and whichever branches it takes, the interpreter gets past
\* each instruction of the code that lower_expr has made, and to a result: no
\* TempStore::read finds nothing, and no `assert_eq!` on a call's arguments fails.
THEOREM InterpreterReads ==
  ASSUME IsAst
  PROVE  RunSpec => []ReadsSucceed
<1>1. RunInit => IInv /\ CodeRuns /\ RunOK
  <2> SUFFICES ASSUME RunInit PROVE IInv /\ CodeRuns /\ RunOK
    OBVIOUS
  <2>1. IInv /\ CodeRuns
    BY InitOK, RunsInit DEF RunInit
  <2>2. control = <<>> /\ control \in Seq(Place)
    BY DEF RunInit, InterpInit
  <2>3. DOMAIN store = {}
    BY DEF RunInit, InterpInit
  <2>4. Len(<<>>) = 0 /\ (\A k \in 1..0 : FALSE) /\ (\A k \in 1..(0 - 1) : FALSE)
    OBVIOUS
  <2>5. Len(control) = 0
    BY <2>2, <2>4
  <2> QED
    BY <2>1, <2>2, <2>3, <2>4, <2>5 DEF RunOK
<1>2. IsAst /\ IInv /\ CodeRuns /\ RunOK /\ [RunNext]_<<lowerVars, interpVars>>
        => IInv' /\ CodeRuns' /\ RunOK'
  BY RunStep
<1>3. IInv /\ CodeRuns /\ RunOK => ReadsSucceed
  BY ReadsFound
<1>4. IsAst
  OBVIOUS
<1>5. IInv /\ CodeRuns /\ RunOK /\ [RunNext]_<<lowerVars, interpVars>>
        => IInv' /\ CodeRuns' /\ RunOK'
  BY <1>2, <1>4
<1> QED
  BY <1>1, <1>3, <1>5, PTL DEF RunSpec

-----------------------------------------------------------------------------
(* Name resolution: the walk of resolve.rs, one step from an expression to *)
(* its parts; `ResolveExpr` is any operator that takes these steps.        *)

CONSTANT Height(_)   \* how high the tree of an expression is

\* What a scope can bind.
Names == SUBSET STRING

ResolveError == [error : {"UnresolvedIdentifier", "DuplicateBinding"}, name : STRING]

\* ast.rs: names are strings.
IsNamed ==
  \A e \in Expr :
    /\ e.kind = "var" => e.name \in STRING
    /\ e.kind = "block" =>
         \A i \in DOMAIN e.stmts : e.stmts[i].kind = "let" => e.stmts[i].name \in STRING

\* ast.rs: an expression is one of these, and a finite tree.
IsTree ==
  \A e \in Expr :
    /\ IsExpr(e) /\ Height(e) \in Nat
    /\ e.kind = "binop" => Height(e.lhs) < Height(e) /\ Height(e.rhs) < Height(e)
    /\ e.kind = "if" =>
         Height(e.cond) < Height(e) /\ Height(e.then) < Height(e) /\ Height(e.else) < Height(e)
    /\ e.kind = "block" =>
         /\ \A i \in DOMAIN e.stmts : Height(e.stmts[i].value) < Height(e)
         /\ Height(e.result) < Height(e)

\* resolve_expr, of each expression in whatever scopes: it pushes errors, in these steps.
IsWalk ==
  \A e \in Expr : \A scopes \in Seq(Names) :
    /\ ResolveExpr(e, scopes) \in Seq(ResolveError)
    /\ ResolveExpr(e, scopes) = WalkExpr(e, scopes)

\* Lexical scoping, of each expression.
IsBinding ==
  \A e \in Expr :
    FreeNames(e) = FreeOf(e) /\ (BindsOnce(e) <=> OnceOf(e))

Resolves(e, scopes) == ResolveExpr(e, scopes) = <<>>

LEMMA NoErrors ==
  ASSUME NEW S, NEW s \in Seq(S), NEW t \in Seq(S), s \o t = <<>>
  PROVE  s = <<>> /\ t = <<>>
<1>1. Len(s \o t) = Len(s) + Len(t) /\ Len(s) \in Nat /\ Len(t) \in Nat
  OBVIOUS
<1>2. Len(s \o t) = 0
  BY EmptySeq
<1>3. Len(s) = 0 /\ Len(t) = 0
  BY <1>1, <1>2
<1> QED
  BY <1>3, EmptySeq

LEMMA VarResolves ==
  ASSUME IsWalk, NEW e \in Expr, e.kind = "var", NEW scopes \in Seq(Names),
         Resolves(e, scopes)
  PROVE  \E i \in DOMAIN scopes : e.name \in scopes[i]
<1>1. WalkExpr(e, scopes) = <<>>
  BY Zenon DEF IsWalk, Resolves
<1>2. WalkExpr(e, scopes) =
        IF \E i \in DOMAIN scopes : e.name \in scopes[i] THEN <<>> ELSE <<Unresolved(e.name)>>
  BY Zenon DEF WalkExpr
<1> QED
  BY <1>1, <1>2

LEMMA OperandsResolve ==
  ASSUME IsAst, IsWalk, NEW e \in Expr, e.kind = "binop", NEW scopes \in Seq(Names),
         Resolves(e, scopes)
  PROVE  Resolves(e.lhs, scopes) /\ Resolves(e.rhs, scopes)
<1>1. WalkExpr(e, scopes) = <<>>
  BY Zenon DEF IsWalk, Resolves
<1>2. ResolveExpr(e.lhs, scopes) \o ResolveExpr(e.rhs, scopes) = <<>>
  BY <1>1, Zenon DEF WalkExpr
<1>3. ResolveExpr(e.lhs, scopes) \in Seq(ResolveError) /\ ResolveExpr(e.rhs, scopes) \in Seq(ResolveError)
  BY Zenon DEF IsWalk, IsAst
<1> QED
  BY <1>2, <1>3, NoErrors, Zenon DEF Resolves

LEMMA BranchesResolve ==
  ASSUME IsAst, IsWalk, NEW e \in Expr, e.kind = "if", NEW scopes \in Seq(Names),
         Resolves(e, scopes)
  PROVE  Resolves(e.cond, scopes) /\ Resolves(e.then, scopes) /\ Resolves(e.else, scopes)
<1> DEFINE c == ResolveExpr(e.cond, scopes)
           t == ResolveExpr(e.then, scopes)
           f == ResolveExpr(e.else, scopes)
<1>1. WalkExpr(e, scopes) = <<>>
  BY Zenon DEF IsWalk, Resolves
<1>2. c \o t \o f = <<>>
  BY <1>1, Zenon DEF WalkExpr
<1>3. c \in Seq(ResolveError) /\ t \in Seq(ResolveError) /\ f \in Seq(ResolveError)
  BY Zenon DEF IsWalk, IsAst
<1> HIDE DEF c, t, f
<1>4. c \o t \in Seq(ResolveError)
  BY <1>3
<1>5. c \o t = <<>> /\ f = <<>>
  BY <1>2, <1>3, <1>4, NoErrors, Zenon
<1>6. c = <<>> /\ t = <<>>
  BY <1>3, <1>5, NoErrors, Zenon
<1> QED
  BY <1>5, <1>6 DEF c, t, f, Resolves

-----------------------------------------------------------------------------
(* What a list of errors tells.                                            *)

Twice(errors) == \E i \in DOMAIN errors : errors[i].error = "DuplicateBinding"

\* A list tells nothing exactly when it is empty.
LEMMA NothingTold ==
  ASSUME NEW errors, errors = <<>>
  PROVE  Missing(errors) = {} /\ ~Twice(errors)
BY DEF Missing, Twice

LEMMA SomethingTold ==
  ASSUME NEW errors \in Seq(ResolveError)
  PROVE  errors = <<>> <=> Missing(errors) = {} /\ ~Twice(errors)
<1>1. CASE errors = <<>>
  BY <1>1 DEF Missing, Twice
<1>2. CASE errors # <<>>
  <2>1. 1 \in DOMAIN errors
    BY <1>2, EmptySeq
  <2>2. errors[1] \in ResolveError
    BY <2>1
  <2>3. \/ errors[1].error = "UnresolvedIdentifier"
        \/ errors[1].error = "DuplicateBinding"
    BY <2>2 DEF ResolveError
  <2>4. Missing(errors) # {} \/ Twice(errors)
    BY <2>1, <2>3 DEF Missing, Twice
  <2> QED
    BY <1>2, <2>4
<1> QED
  BY <1>1, <1>2

LEMMA ToldTogether ==
  ASSUME NEW a \in Seq(ResolveError), NEW b \in Seq(ResolveError)
  PROVE  /\ Missing(a \o b) = Missing(a) \cup Missing(b)
         /\ Twice(a \o b) <=> Twice(a) \/ Twice(b)
<1> DEFINE c == a \o b
<1>1. /\ c \in Seq(ResolveError) /\ Len(a) \in Nat /\ Len(b) \in Nat
      /\ Len(c) = Len(a) + Len(b)
  BY Joined
<1>2. \A i \in 1..Len(c) : c[i] = IF i <= Len(a) THEN a[i] ELSE b[i - Len(a)]
  BY ConcatProperties
<1>3. DOMAIN a = 1..Len(a) /\ DOMAIN b = 1..Len(b) /\ DOMAIN c = 1..Len(c)
  BY <1>1
<1> HIDE DEF c
<1>4. ASSUME NEW i \in DOMAIN c
      PROVE  \/ i \in DOMAIN a /\ c[i] = a[i]
             \/ i - Len(a) \in DOMAIN b /\ c[i] = b[i - Len(a)]
  BY <1>1, <1>2, <1>3
<1>5. ASSUME NEW i \in DOMAIN a PROVE i \in DOMAIN c /\ c[i] = a[i]
  BY <1>1, <1>2, <1>3
<1>6. ASSUME NEW i \in DOMAIN b PROVE i + Len(a) \in DOMAIN c /\ c[i + Len(a)] = b[i]
  <2>1. i + Len(a) \in 1..Len(c) /\ ~(i + Len(a) <= Len(a)) /\ i + Len(a) - Len(a) = i
    BY <1>1, <1>3
  <2> QED
    BY <1>2, <1>3, <2>1
<1>7. Missing(c) \subseteq Missing(a) \cup Missing(b)
  BY <1>4 DEF Missing
<1>8. Missing(a) \subseteq Missing(c)
  BY <1>5 DEF Missing
<1>9. Missing(b) \subseteq Missing(c)
  BY <1>6 DEF Missing
<1>10. Twice(c) => Twice(a) \/ Twice(b)
  BY <1>4 DEF Twice
<1>11. Twice(a) => Twice(c)
  BY <1>5 DEF Twice
<1>12. Twice(b) => Twice(c)
  BY <1>6 DEF Twice
<1> QED
  BY <1>7, <1>8, <1>9, <1>10, <1>11, <1>12 DEF c

LEMMA OneTold ==
  ASSUME NEW name \in STRING
  PROVE  /\ <<Unresolved(name)>> \in Seq(ResolveError) /\ <<Duplicate(name)>> \in Seq(ResolveError)
         /\ Missing(<<Unresolved(name)>>) = {name} /\ ~Twice(<<Unresolved(name)>>)
         /\ Missing(<<Duplicate(name)>>) = {} /\ Twice(<<Duplicate(name)>>)
<1> DEFINE u == Unresolved(name)
           d == Duplicate(name)
<1>1. u \in ResolveError /\ u.error = "UnresolvedIdentifier" /\ u.name = name
  BY DEF Unresolved, ResolveError
<1>2. d \in ResolveError /\ d.error = "DuplicateBinding"
  BY DEF Duplicate, ResolveError
<1> HIDE DEF u, d
<1>3. DOMAIN <<u>> = {1} /\ <<u>>[1] = u /\ DOMAIN <<d>> = {1} /\ <<d>>[1] = d
  OBVIOUS
<1>4. <<u>> \in Seq(ResolveError) /\ <<d>> \in Seq(ResolveError)
  BY <1>1, <1>2
<1>5. Missing(<<u>>) = {name} /\ ~Twice(<<u>>)
  BY <1>1, <1>3 DEF Missing, Twice
<1>6. Missing(<<d>>) = {} /\ Twice(<<d>>)
  BY <1>2, <1>3 DEF Missing, Twice
<1> QED
  BY <1>4, <1>5, <1>6 DEF u, d

-----------------------------------------------------------------------------
(* The walk of a block's statements.                                       *)

\* Where a block's walk is: its own scope is s, on `scopes`.
In(scopes, s, errors) == [scopes |-> Append(scopes, s), errors |-> errors]
Walking(scopes) == {In(scopes, s, errors) : s \in Names, errors \in Seq(ResolveError)}

\* The names that stmt binds.
Binds(stmt) == IF stmt.kind = "let" THEN {stmt.name} ELSE {}

LEMMA InIs ==
  ASSUME NEW scopes \in Seq(Names), NEW s \in Names, NEW errors
  PROVE  /\ Last(In(scopes, s, errors).scopes) = s
         /\ Front(In(scopes, s, errors).scopes) = scopes
         /\ In(scopes, s, errors).errors = errors
         /\ In(scopes, s, errors).scopes = Append(scopes, s)
         /\ Append(scopes, s) \in Seq(Names)
<1> DEFINE p == Append(scopes, s)
           n == Len(scopes)
<1>2. In(scopes, s, errors).scopes = p /\ In(scopes, s, errors).errors = errors
  BY DEF In
<1>3. p \in Seq(Names) /\ Len(p) = n + 1 /\ p[n + 1] = s /\ n \in Nat /\ \A i \in 1..n : p[i] = scopes[i]
  OBVIOUS
<1> HIDE DEF p
<1>4. Last(p) = s
  BY <1>3 DEF Last
<1>5. Front(p) = scopes
  <2>1. p # <<>>
    <3>1. Len(p) # 0
      BY <1>3
    <3> QED
      BY <3>1, SomeItems
  <2>2. Front(p) \in Seq(Names) /\ Len(Front(p)) = Len(p) - 1 /\ \A i \in 1..(Len(p) - 1) : Front(p)[i] = p[i]
    BY <1>3, <2>1, PopIs
  <2>3. Len(p) - 1 = n
    BY <1>3
  <2>4. Len(Front(p)) = n /\ \A i \in 1..n : Front(p)[i] = scopes[i]
    BY <1>3, <2>2, <2>3
  <2>5. Len(scopes) = n
    OBVIOUS
  <2> QED
    BY <2>2, <2>4, <2>5, SameList
<1> QED
  BY <1>2, <1>3, <1>4, <1>5 DEF p

\* One statement of the walk, whatever it finds.
LEMMA WalkTells ==
  ASSUME IsWalk, NEW scopes \in Seq(Names), NEW s \in Names,
         NEW errors \in Seq(ResolveError), NEW stmt, stmt.value \in Expr,
         stmt.kind = "let" => stmt.name \in STRING
  PROVE  LET more == ResolveExpr(stmt.value, Append(scopes, s))
         IN  \E all \in Seq(ResolveError) :
               /\ ResolveStmt(In(scopes, s, errors), stmt) = In(scopes, s \cup Binds(stmt), all)
               /\ Missing(all) = Missing(errors) \cup Missing(more)
               /\ Twice(all) <=> Twice(errors) \/ Twice(more) \/ Binds(stmt) \cap s # {}
<1> DEFINE st == In(scopes, s, errors)
           p == Append(scopes, s)
           more == ResolveExpr(stmt.value, p)
           all == errors \o more
           dup == Append(all, Duplicate(stmt.name))
           w == ResolveStmt(st, stmt)
<1>1. /\ Last(st.scopes) = s /\ Front(st.scopes) = scopes /\ st.errors = errors /\ st.scopes = p
      /\ p \in Seq(Names)
  BY InIs
<1>2. more \in Seq(ResolveError)
  BY <1>1, Zenon DEF IsWalk
<1> HIDE DEF more
<1>3. /\ all \in Seq(ResolveError) /\ Missing(all) = Missing(errors) \cup Missing(more)
      /\ Twice(all) <=> Twice(errors) \/ Twice(more)
  BY <1>2, ToldTogether
<1> HIDE DEF all
<1> SUFFICES \E a \in Seq(ResolveError) :
               /\ w = In(scopes, s \cup Binds(stmt), a)
               /\ Missing(a) = Missing(errors) \cup Missing(more)
               /\ Twice(a) <=> Twice(errors) \/ Twice(more) \/ Binds(stmt) \cap s # {}
  BY DEF more
<1>5. CASE stmt.kind = "let" /\ stmt.name \in s
  <2>1. w = [st EXCEPT !.errors = dup]
    BY <1>1, <1>5, Zenon DEF ResolveStmt, all, more
  <2>2. Duplicate(stmt.name) \in ResolveError
    BY <1>5 DEF Duplicate, ResolveError
  <2>3. dup = all \o <<Duplicate(stmt.name)>> /\ dup \in Seq(ResolveError)
    <3> DEFINE d == Duplicate(stmt.name)
    <3> HIDE DEF d
    <3>1. Append(all, d) \in Seq(ResolveError) /\ Append(all, d) = all \o <<d>>
      BY <1>3, <2>2 DEF d
    <3> QED
      BY <3>1 DEF d
  <2>4. Missing(dup) = Missing(all) /\ Twice(dup)
    <3> DEFINE d == <<Duplicate(stmt.name)>>
    <3>1. d \in Seq(ResolveError) /\ Missing(d) = {} /\ Twice(d)
      BY <1>5, OneTold
    <3>2. dup = all \o d
      BY <2>3
    <3> HIDE DEF d, dup
    <3> QED
      BY <1>3, <3>1, <3>2, ToldTogether
  <2> HIDE DEF dup
  <2>5. Binds(stmt) = {stmt.name} /\ s \cup Binds(stmt) = s /\ Binds(stmt) \cap s # {}
    BY <1>5 DEF Binds
  <2>6. w = In(scopes, s, dup)
    BY <2>1 DEF In
  <2> QED
    BY <1>3, <2>3, <2>4, <2>5, <2>6
<1>6. CASE stmt.kind = "let" /\ stmt.name \notin s
  <2>1. w = In(scopes, s \cup {stmt.name}, all)
    BY <1>1, <1>6, Zenon DEF ResolveStmt, all, more, In
  <2>2. Binds(stmt) = {stmt.name} /\ Binds(stmt) \cap s = {}
    BY <1>6 DEF Binds
  <2> QED
    BY <1>3, <2>1, <2>2
<1>7. CASE stmt.kind # "let"
  <2>1. w = [st EXCEPT !.errors = all]
    BY <1>1, <1>7, Zenon DEF ResolveStmt, all, more
  <2>2. w = In(scopes, s, all)
    BY <2>1 DEF In
  <2>3. Binds(stmt) = {} /\ s \cup Binds(stmt) = s
    BY <1>7 DEF Binds
  <2> QED
    BY <1>3, <2>2, <2>3
<1> QED
  BY <1>5, <1>6, <1>7

\* h is what the walk of a block's statements goes through.
Walks(h, stmts, scopes) ==
  /\ h[0] = In(scopes, {}, <<>>)
  /\ \A i \in 1..Len(stmts) :
       h[i] = ResolveStmt(h[i - 1], stmts[i]) /\ h[i - 1] \in Walking(scopes) /\ h[i] \in Walking(scopes)

\* What is so of a block, opened.
Stmts(stmts) ==
  /\ Len(stmts) \in Nat /\ DOMAIN stmts = 1..Len(stmts)
  /\ \A i \in 1..Len(stmts) :
       stmts[i].value \in Expr /\ (stmts[i].kind = "let" => stmts[i].name \in STRING)

LEMMA WalkType ==
  ASSUME IsWalk, NEW scopes \in Seq(Names), NEW state \in Walking(scopes), NEW stmt,
         stmt.value \in Expr, stmt.kind = "let" => stmt.name \in STRING
  PROVE  /\ ResolveStmt(state, stmt) \in Walking(scopes)
         /\ ResolveStmt(state, stmt).errors = <<>> =>
              /\ state.errors = <<>>
              /\ \A s \in Names : state.scopes = Append(scopes, s) =>
                   /\ Resolves(stmt.value, Append(scopes, s))
                   /\ ResolveStmt(state, stmt).scopes = Append(scopes, s \cup Binds(stmt))
<1>1. PICK s \in Names, errors \in Seq(ResolveError) : state = In(scopes, s, errors)
  BY DEF Walking
<1>2. /\ state.errors = errors /\ state.scopes = Append(scopes, s)
      /\ Last(state.scopes) = s
  BY <1>1, InIs
<1>3. /\ ResolveStmt(state, stmt) \in Walking(scopes)
      /\ ResolveStmt(state, stmt).errors = <<>> =>
           /\ errors = <<>>
           /\ Resolves(stmt.value, Append(scopes, s))
           /\ ResolveStmt(state, stmt) = In(scopes, s \cup Binds(stmt), <<>>)
  <2> DEFINE more == ResolveExpr(stmt.value, Append(scopes, s))
             w == ResolveStmt(state, stmt)
             r == s \cup Binds(stmt)
  <2>1. PICK all \in Seq(ResolveError) :
          /\ ResolveStmt(In(scopes, s, errors), stmt) = In(scopes, r, all)
          /\ Missing(all) = Missing(errors) \cup Missing(more)
          /\ Twice(all) <=> Twice(errors) \/ Twice(more) \/ Binds(stmt) \cap s # {}
    BY WalkTells
  <2>2. w = In(scopes, r, all)
    BY <1>1, <2>1
  <2>3. more \in Seq(ResolveError)
    <3>1. Append(scopes, s) \in Seq(Names)
      BY InIs
    <3> QED
      BY <3>1, Zenon DEF IsWalk
  <2>4. r \in Names
    BY DEF Binds, Names
  <2> HIDE DEF more, w, r
  <2>5. w.errors = all
    BY <2>2 DEF In
  <2>6. w \in Walking(scopes)
    BY <2>2, <2>4 DEF Walking
  <2>7. ASSUME all = <<>> PROVE errors = <<>> /\ more = <<>>
    <3>1. Missing(all) = {} /\ ~Twice(all)
      BY <2>7, SomethingTold
    <3>2. Missing(errors) = {} /\ ~Twice(errors) /\ Missing(more) = {} /\ ~Twice(more)
      BY <2>1, <3>1
    <3> QED
      BY <2>3, <3>2, SomethingTold
  <2> QED
    BY <2>2, <2>5, <2>6, <2>7 DEF Resolves, more, w, r
<1> SUFFICES ASSUME ResolveStmt(state, stmt).errors = <<>>
             PROVE  /\ state.errors = <<>>
                    /\ \A r \in Names : state.scopes = Append(scopes, r) =>
                         /\ Resolves(stmt.value, Append(scopes, r))
                         /\ ResolveStmt(state, stmt).scopes = Append(scopes, r \cup Binds(stmt))
  BY <1>3
<1>4. ResolveStmt(state, stmt).scopes = Append(scopes, s \cup Binds(stmt))
  BY <1>3 DEF In
<1>5. ASSUME NEW r \in Names, state.scopes = Append(scopes, r) PROVE r = s
  <2>1. Last(In(scopes, r, errors).scopes) = r /\ In(scopes, r, errors).scopes = Append(scopes, r)
    BY InIs
  <2> QED
    BY <1>2, <1>5, <2>1
<1> QED
  BY <1>2, <1>3, <1>4, <1>5

LEMMA WalkBegins ==
  ASSUME NEW scopes
  PROVE  In(scopes, {}, <<>>) \in Walking(scopes)
<1> DEFINE s == {}
           errors == <<>>
<1>1. s \in Names /\ errors \in Seq(ResolveError)
  BY DEF Names
<1> HIDE DEF s, errors
<1>2. In(scopes, s, errors) \in Walking(scopes)
  BY <1>1 DEF Walking
<1> QED
  BY <1>2 DEF s, errors

LEMMA StmtsWalk ==
  ASSUME IsWalk, NEW stmts, Stmts(stmts), NEW scopes \in Seq(Names)
  PROVE  \E h : Walks(h, stmts, scopes) /\ ResolveStmts(stmts, scopes) = h[Len(stmts)]
<1> DEFINE n == Len(stmts)
           base == In(scopes, {}, <<>>)
           A == Walking(scopes)
           Walked(st, i) == ResolveStmt(st, stmts[i])
           G == [q \in A \X (1..n) |-> Walked(q[1], q[2])]
           f == CHOOSE g : g = [s \in SUBSET (DOMAIN stmts) |->
                  IF s = {} THEN base ELSE ResolveStmt(g[s \ {Max(s)}], stmts[Max(s)])]
<1>1. ResolveStmts(stmts, scopes) = f[DOMAIN stmts]
  BY Zenon DEF ResolveStmts, FoldLeft, MapThenFoldSet, In
<1>2. n \in Nat /\ DOMAIN stmts = 1..n
  BY DEF Stmts
<1>3. base \in A
  BY WalkBegins
<1>4. ASSUME NEW st \in A, NEW i \in 1..n PROVE Walked(st, i) \in A
  BY WalkType DEF Stmts
<1> HIDE DEF A, base, n
<1>5. G \in [A \X (1..n) -> A]
  BY <1>4
<1>6. \A st \in A, i \in 1..n : G[<<st, i>>] = Walked(st, i)
  OBVIOUS
<1> HIDE DEF G
<1>7. PICK g \in [SUBSET (1..n) -> A] : Accumulates(g, G, base, n)
  BY <1>2, <1>3, <1>5, AccumulatesExists DEF CanAccumulate
<1>8. g = [s \in SUBSET (1..n) |->
             IF s = {} THEN base ELSE ResolveStmt(g[s \ {Max(s)}], stmts[Max(s)])]
  <2>1. ASSUME NEW s \in SUBSET (1..n), s # {}
        PROVE  g[s] = Walked(g[s \ {Max(s)}], Max(s))
    <3>1. Max(s) \in 1..n
      BY <1>2, <2>1, MaxIs
    <3>2. g[s \ {Max(s)}] \in A
      OBVIOUS
    <3>3. g[s] = G[<<g[s \ {Max(s)}], Max(s)>>]
      BY <1>7, <2>1 DEF Accumulates
    <3> QED
      BY <1>6, <3>1, <3>2, <3>3
  <2>2. g[{}] = base
    BY <1>7 DEF Accumulates
  <2> QED
    BY <2>1, <2>2
<1>9. f = [s \in SUBSET (1..n) |->
             IF s = {} THEN base ELSE ResolveStmt(f[s \ {Max(s)}], stmts[Max(s)])]
  BY <1>2, <1>8, ZenonT(30)
<1> HIDE DEF f
<1> DEFINE h == [i \in 0..n |-> f[1..i]]
<1>11. h[0] = base
  <2>1. 1..0 = {} /\ 0 \in 0..n /\ {} \in SUBSET (1..n)
    BY <1>2
  <2> QED
    BY <1>9, <2>1
<1>12. ASSUME NEW i \in 1..n PROVE h[i] = ResolveStmt(h[i - 1], stmts[i])
  <2>1. i \in Nat \ {0} /\ 1..i \in SUBSET (1..n) /\ i \in 0..n /\ i - 1 \in 0..n
    BY <1>2
  <2>2. 1..i # {} /\ Max(1..i) = i /\ (1..i) \ {i} = 1..(i - 1)
    BY <2>1, MaxOfFirst
  <2>3. f[1..i] = ResolveStmt(f[(1..i) \ {Max(1..i)}], stmts[Max(1..i)])
    BY <1>9, <2>1, <2>2
  <2>4. f[1..i] = ResolveStmt(f[1..(i - 1)], stmts[i])
    BY <2>2, <2>3
  <2> QED
    BY <2>1, <2>4
<1>13. h[n] = f[1..n]
  BY <1>2
<1> HIDE DEF h
<1>14. \A i \in 0..n : h[i] \in A
  <2>1. \A i \in 1..n : h[i - 1] \in A => h[i] \in A
    BY <1>4, <1>12
  <2> QED
    BY <1>2, <1>3, <1>11, <2>1, StaysIn
<1>15. ASSUME NEW i \in 1..n PROVE h[i - 1] \in A /\ h[i] \in A
  <2>1. i - 1 \in 0..n /\ i \in 0..n
    BY <1>2
  <2> QED
    BY <1>14, <2>1
<1>16. Walks(h, stmts, scopes)
  BY <1>11, <1>12, <1>15 DEF Walks, base, n, A
<1>17. ResolveStmts(stmts, scopes) = h[n]
  BY <1>1, <1>2, <1>13
<1> HIDE DEF h
<1>18. \E k : Walks(k, stmts, scopes) /\ ResolveStmts(stmts, scopes) = k[n]
  BY <1>16, <1>17
<1> QED
  BY <1>18 DEF n

LEMMA BoundIs ==
  ASSUME NEW stmts
  PROVE  /\ Bound(stmts, 0) = {}
         /\ \A n \in Nat : Bound(stmts, n + 1) = Bound(stmts, n) \cup Binds(stmts[n + 1])
<1>1. Bound(stmts, 0) = {}
  BY DEF Bound
<1>2. ASSUME NEW n \in Nat
      PROVE  Bound(stmts, n + 1) = Bound(stmts, n) \cup Binds(stmts[n + 1])
  <2>1. 1..(n + 1) = 1..n \cup {n + 1}
    OBVIOUS
  <2> QED
    BY <2>1 DEF Bound, Binds
<1> QED
  BY <1>1, <1>2

LEMMA StmtsAre ==
  ASSUME IsAst, IsNamed, NEW e \in Expr, e.kind = "block"
  PROVE  Stmts(e.stmts)
BY DEF IsAst, IsNamed, Stmts

\* Where the walk has found no error, it has found none before, and each value
\* was resolved with what the statements before it bind in scope.
LEMMA BlockResolves ==
  ASSUME IsAst, IsNamed, IsWalk, NEW e \in Expr, e.kind = "block", NEW scopes \in Seq(Names),
         Resolves(e, scopes)
  PROVE  \A k \in 0..Len(e.stmts) :
           Bound(e.stmts, k) \in Names /\ Resolves(Part(e, k + 1), Append(scopes, Bound(e.stmts, k)))
<1> DEFINE stmts == e.stmts
           n == Len(stmts)
           w == ResolveStmts(stmts, scopes)
           rest == ResolveExpr(e.result, w.scopes)
<1>1. Stmts(stmts)
  BY StmtsAre
<1>2. PICK h : Walks(h, stmts, scopes) /\ w = h[n]
  BY <1>1, StmtsWalk
<1>3. w.errors \o rest = <<>>
  <2>1. WalkExpr(e, scopes) = <<>>
    BY Zenon DEF IsWalk, Resolves
  <2> QED
    BY <2>1, Zenon DEF WalkExpr
<1> HIDE DEF w, rest
<1>4. n \in Nat /\ \A i \in 1..n : stmts[i].value \in Expr /\ (stmts[i].kind = "let" => stmts[i].name \in STRING)
  BY <1>1 DEF Stmts
<1>5. /\ h[0] = In(scopes, {}, <<>>)
      /\ \A i \in 1..n : h[i] = ResolveStmt(h[i - 1], stmts[i])
      /\ \A i \in 1..n : h[i - 1] \in Walking(scopes) /\ h[i] \in Walking(scopes)
  BY <1>2 DEF Walks
<1>6. \A i \in 0..n : Bound(e.stmts, i) \in Names
  <2>1. \A i \in 0..n : \A j \in 1..i : j \in 1..n
    BY <1>4
  <2>2. ASSUME NEW i \in 0..n, NEW x \in Bound(stmts, i) PROVE x \in STRING
    <3>1. PICK j \in 1..i : stmts[j].kind = "let" /\ x = stmts[j].name
      BY DEF Bound
    <3> QED
      BY <1>4, <2>1, <3>1
  <2> QED
    BY <2>2 DEF Names
<1>7. h[n] \in Walking(scopes)
  <2>1. CASE n = 0
    BY <1>5, <2>1, WalkBegins
  <2>2. CASE n # 0
    <3>1. n \in 1..n
      BY <1>4, <2>2
    <3> QED
      BY <1>5, <3>1
  <2> QED
    BY <2>1, <2>2
<1>8. ASSUME NEW st \in Walking(scopes)
      PROVE  /\ st.errors \in Seq(ResolveError) /\ st.scopes \in Seq(Names)
  <2>1. PICK s \in Names, errors \in Seq(ResolveError) : st = In(scopes, s, errors)
    BY DEF Walking
  <2>2. st.errors = errors /\ st.scopes = Append(scopes, s)
    BY <2>1 DEF In
  <2>3. Append(scopes, s) \in Seq(Names)
    OBVIOUS
  <2> QED
    BY <2>2, <2>3
<1>9. e.result \in Expr
  BY DEF IsAst
<1> HIDE DEF stmts, n
<1>10. w.errors = <<>> /\ rest = <<>>
  <2>1. w.errors \in Seq(ResolveError) /\ w.scopes \in Seq(Names)
    BY <1>2, <1>7, <1>8
  <2>2. rest \in Seq(ResolveError)
    BY <1>9, <2>1, Zenon DEF IsWalk, rest
  <2> QED
    BY <1>3, <2>1, <2>2, NoErrors, Zenon
<1> DEFINE T == {k \in Nat : k <= n => h[n - k].errors = <<>>}
           U == {k \in Nat : k <= n => h[k].scopes = Append(scopes, Bound(e.stmts, k))}
<1>11. ASSUME NEW i \in 1..n, h[i].errors = <<>>
       PROVE  /\ h[i - 1].errors = <<>>
              /\ \A s \in Names : h[i - 1].scopes = Append(scopes, s) =>
                   /\ Resolves(stmts[i].value, Append(scopes, s))
                   /\ h[i].scopes = Append(scopes, s \cup Binds(stmts[i]))
  <2> DEFINE st == h[i - 1]
             stmt == stmts[i]
  <2>1. st \in Walking(scopes) /\ h[i] = ResolveStmt(st, stmt) /\ stmt.value \in Expr
    BY <1>4, <1>5
  <2>2. stmt.kind = "let" => stmt.name \in STRING
    BY <1>4
  <2> HIDE DEF st, stmt
  <2>3. /\ st.errors = <<>>
        /\ \A s \in Names : st.scopes = Append(scopes, s) =>
             /\ Resolves(stmt.value, Append(scopes, s))
             /\ ResolveStmt(st, stmt).scopes = Append(scopes, s \cup Binds(stmt))
    BY <1>11, <2>1, <2>2, WalkType
  <2> QED
    BY <2>1, <2>3 DEF st, stmt
<1>12. \A i \in 0..n : h[i].errors = <<>>
  <2>1. 0 \in T
    BY <1>2, <1>4, <1>10 DEF n
  <2>2. ASSUME NEW k \in Nat, k \in T PROVE k + 1 \in T
    <3> SUFFICES ASSUME k + 1 <= n PROVE h[n - (k + 1)].errors = <<>>
      OBVIOUS
    <3>1. n - k \in 1..n /\ k <= n /\ n - k - 1 = n - (k + 1)
      BY <1>4
    <3>2. h[n - k].errors = <<>>
      BY <2>2, <3>1
    <3>3. h[n - k - 1].errors = <<>>
      BY <1>11, <3>1, <3>2
    <3> QED
      BY <3>1, <3>3
  <2> HIDE DEF T
  <2>3. Nat \subseteq T
    BY <2>1, <2>2, AllNumbers
  <2> SUFFICES ASSUME NEW i \in 0..n PROVE h[i].errors = <<>>
    OBVIOUS
  <2>4. n - i \in Nat /\ n - i <= n /\ n - (n - i) = i
    BY <1>4
  <2>5. n - i \in T
    BY <2>3, <2>4
  <2>6. h[n - (n - i)].errors = <<>>
    BY <2>4, <2>5 DEF T
  <2> QED
    BY <2>4, <2>6
<1> HIDE DEF T
<1>13. \A i \in 0..n : h[i].scopes = Append(scopes, Bound(e.stmts, i))
  <2>1. 0 \in U
    <3>1. In(scopes, {}, <<>>).scopes = Append(scopes, {})
      BY DEF In
    <3> QED
      BY <1>5, <3>1, BoundIs
  <2>2. ASSUME NEW k \in Nat, k \in U PROVE k + 1 \in U
    <3> SUFFICES ASSUME k + 1 <= n
                 PROVE  h[k + 1].scopes = Append(scopes, Bound(e.stmts, k + 1))
      OBVIOUS
    <3> DEFINE i == k + 1
    <3>1. i \in 1..n /\ i - 1 = k /\ k \in 0..n /\ k <= n /\ i \in 0..n
      BY <1>4
    <3>2. h[k].scopes = Append(scopes, Bound(e.stmts, k)) /\ Bound(e.stmts, k) \in Names
      BY <1>6, <2>2, <3>1
    <3>3. Bound(e.stmts, i) = Bound(e.stmts, k) \cup Binds(stmts[i])
      BY BoundIs DEF stmts
    <3> HIDE DEF i
    <3>4. h[i].scopes = Append(scopes, Bound(e.stmts, k) \cup Binds(stmts[i]))
      BY <1>11, <1>12, <3>1, <3>2
    <3> QED
      BY <3>3, <3>4 DEF i
  <2> HIDE DEF U
  <2>3. Nat \subseteq U
    BY <2>1, <2>2, AllNumbers
  <2> SUFFICES ASSUME NEW i \in 0..n PROVE h[i].scopes = Append(scopes, Bound(e.stmts, i))
    OBVIOUS
  <2>4. i \in U /\ i <= n
    BY <1>4, <2>3
  <2> QED
    BY <2>4 DEF U
<1> HIDE DEF U
<1> SUFFICES ASSUME NEW k \in 0..n
             PROVE  Bound(e.stmts, k) \in Names /\ Resolves(Part(e, k + 1), Append(scopes, Bound(e.stmts, k)))
  BY DEF n, stmts
<1>14. Bound(e.stmts, k) \in Names /\ h[k].scopes = Append(scopes, Bound(e.stmts, k))
  BY <1>6, <1>13
<1>15. CASE k < n
  <2>1. k + 1 \in 1..n /\ k + 1 \in 0..n /\ k + 1 - 1 = k
    BY <1>4, <1>15
  <2>2. Resolves(stmts[k + 1].value, Append(scopes, Bound(e.stmts, k)))
    <3> DEFINE i == k + 1
    <3>1. i \in 1..n /\ h[i].errors = <<>> /\ h[i - 1].scopes = Append(scopes, Bound(e.stmts, k))
      BY <1>12, <1>14, <2>1
    <3> HIDE DEF i
    <3>2. Resolves(stmts[i].value, Append(scopes, Bound(e.stmts, k)))
      BY <1>11, <1>14, <3>1
    <3> QED
      BY <3>2 DEF i
  <2>3. Part(e, k + 1) = stmts[k + 1].value
    BY <2>1 DEF Part, stmts, n
  <2> QED
    BY <1>14, <2>2, <2>3
<1>16. CASE k = n
  <2>1. Part(e, k + 1) = e.result
    BY <1>4, <1>16 DEF Part, stmts, n
  <2>2. w.scopes = Append(scopes, Bound(e.stmts, k))
    BY <1>2, <1>14, <1>16
  <2>3. Resolves(e.result, Append(scopes, Bound(e.stmts, k)))
    BY <1>10, <2>2 DEF Resolves, rest
  <2> QED
    BY <1>14, <2>1, <2>3
<1>17. k < n \/ k = n
  BY <1>4
<1> QED
  BY <1>15, <1>16, <1>17

-----------------------------------------------------------------------------
(* Resolution reports exactly what lexical scoping does not allow.         *)

\* The names in force.
InScope(scopes) == UNION {scopes[i] : i \in DOMAIN scopes}

\* What the errors say of an expression: what is free in it, and whether it binds
\* each name once.
Tells(errors, free, once) == Missing(errors) = free /\ (Twice(errors) <=> ~once)

TellsOf(e) ==
  \A scopes \in Seq(Names) :
    Tells(ResolveExpr(e, scopes), FreeNames(e) \ InScope(scopes), BindsOnce(e))

LEMMA InScopeAlso ==
  ASSUME NEW scopes \in Seq(Names), NEW s \in Names
  PROVE  /\ Append(scopes, s) \in Seq(Names)
         /\ InScope(Append(scopes, s)) = InScope(scopes) \cup s
<1> DEFINE p == Append(scopes, s)
           n == Len(scopes)
<1>1. /\ p \in Seq(Names) /\ Len(p) = n + 1 /\ p[n + 1] = s /\ n \in Nat
      /\ \A i \in 1..n : p[i] = scopes[i]
  OBVIOUS
<1>2. DOMAIN p = 1..(n + 1) /\ DOMAIN scopes = 1..n
  BY <1>1
<1> HIDE DEF p, n
<1>3. 1..(n + 1) = 1..n \cup {n + 1}
  BY <1>1
<1>4. InScope(p) = InScope(scopes) \cup s
  BY <1>1, <1>2, <1>3 DEF InScope
<1> QED
  BY <1>1, <1>4 DEF p

LEMMA LeafTells ==
  ASSUME IsNamed, IsWalk, IsBinding, NEW e \in Expr, e.kind \in {"num", "var"}
  PROVE  TellsOf(e)
<1> SUFFICES ASSUME NEW scopes \in Seq(Names)
             PROVE  Tells(ResolveExpr(e, scopes), FreeNames(e) \ InScope(scopes), BindsOnce(e))
  BY DEF TellsOf
<1>1. ResolveExpr(e, scopes) = WalkExpr(e, scopes)
  BY Zenon DEF IsWalk
<1>2. FreeNames(e) = FreeOf(e) /\ (BindsOnce(e) <=> OnceOf(e))
  BY Zenon DEF IsBinding
<1>3. OnceOf(e)
  BY Zenon DEF OnceOf
<1>4. CASE e.kind = "num"
  <2>1. WalkExpr(e, scopes) = <<>> /\ FreeOf(e) = {}
    BY <1>4, Zenon DEF WalkExpr, FreeOf
  <2> QED
    BY <1>1, <1>2, <1>3, <2>1, NothingTold DEF Tells
<1>5. CASE e.kind = "var"
  <2>1. FreeOf(e) = {e.name} /\ e.name \in STRING
    BY <1>5, Zenon DEF FreeOf, IsNamed
  <2>2. WalkExpr(e, scopes) =
          IF \E i \in DOMAIN scopes : e.name \in scopes[i] THEN <<>> ELSE <<Unresolved(e.name)>>
    BY <1>5, Zenon DEF WalkExpr
  <2>3. (\E i \in DOMAIN scopes : e.name \in scopes[i]) <=> e.name \in InScope(scopes)
    BY DEF InScope
  <2>4. CASE e.name \in InScope(scopes)
    <3>1. WalkExpr(e, scopes) = <<>>
      BY <2>2, <2>3, <2>4, Zenon
    <3> QED
      BY <1>1, <1>2, <1>3, <2>1, <2>4, <3>1, NothingTold DEF Tells
  <2>5. CASE e.name \notin InScope(scopes)
    <3>1. WalkExpr(e, scopes) = <<Unresolved(e.name)>>
      BY <2>2, <2>3, <2>5, Zenon
    <3>2. Missing(<<Unresolved(e.name)>>) = {e.name} /\ ~Twice(<<Unresolved(e.name)>>)
      BY <2>1, OneTold
    <3> QED
      BY <1>1, <1>2, <1>3, <2>1, <2>5, <3>1, <3>2 DEF Tells
  <2> QED
    BY <2>4, <2>5
<1> QED
  BY <1>4, <1>5

LEMMA OperatorTells ==
  ASSUME IsAst, IsWalk, IsBinding, NEW e \in Expr, e.kind = "binop",
         TellsOf(e.lhs), TellsOf(e.rhs)
  PROVE  TellsOf(e)
<1> SUFFICES ASSUME NEW scopes \in Seq(Names)
             PROVE  Tells(ResolveExpr(e, scopes), FreeNames(e) \ InScope(scopes), BindsOnce(e))
  BY DEF TellsOf
<1> DEFINE l == ResolveExpr(e.lhs, scopes)
           r == ResolveExpr(e.rhs, scopes)
<1>1. ResolveExpr(e, scopes) = l \o r
  <2>1. ResolveExpr(e, scopes) = WalkExpr(e, scopes)
    BY Zenon DEF IsWalk
  <2> QED
    BY <2>1, Zenon DEF WalkExpr
<1>2. l \in Seq(ResolveError) /\ r \in Seq(ResolveError)
  BY Zenon DEF IsWalk, IsAst
<1>3. FreeNames(e) = FreeNames(e.lhs) \cup FreeNames(e.rhs)
  <2>1. FreeNames(e) = FreeOf(e)
    BY Zenon DEF IsBinding
  <2> QED
    BY <2>1, Zenon DEF FreeOf
<1>4. BindsOnce(e) <=> BindsOnce(e.lhs) /\ BindsOnce(e.rhs)
  <2>1. BindsOnce(e) <=> OnceOf(e)
    BY Zenon DEF IsBinding
  <2>2. e.kind \notin {"num", "var"}
    OBVIOUS
  <2> QED
    BY <2>1, <2>2, Zenon DEF OnceOf
<1>5. /\ Tells(l, FreeNames(e.lhs) \ InScope(scopes), BindsOnce(e.lhs))
      /\ Tells(r, FreeNames(e.rhs) \ InScope(scopes), BindsOnce(e.rhs))
  BY Zenon DEF TellsOf
<1> HIDE DEF l, r
<1>6. Missing(l \o r) = Missing(l) \cup Missing(r) /\ (Twice(l \o r) <=> Twice(l) \/ Twice(r))
  BY <1>2, ToldTogether
<1>7. Missing(l \o r) = FreeNames(e) \ InScope(scopes)
  BY <1>3, <1>5, <1>6 DEF Tells
<1>8. Twice(l \o r) <=> ~BindsOnce(e)
  BY <1>4, <1>5, <1>6, Zenon DEF Tells
<1> QED
  BY <1>1, <1>7, <1>8 DEF Tells

LEMMA BranchTells ==
  ASSUME IsAst, IsWalk, IsBinding, NEW e \in Expr, e.kind = "if",
         TellsOf(e.cond), TellsOf(e.then), TellsOf(e.else)
  PROVE  TellsOf(e)
<1> SUFFICES ASSUME NEW scopes \in Seq(Names)
             PROVE  Tells(ResolveExpr(e, scopes), FreeNames(e) \ InScope(scopes), BindsOnce(e))
  BY DEF TellsOf
<1> DEFINE c == ResolveExpr(e.cond, scopes)
           t == ResolveExpr(e.then, scopes)
           f == ResolveExpr(e.else, scopes)
           all == c \o t \o f
<1>1. ResolveExpr(e, scopes) = all
  <2>1. ResolveExpr(e, scopes) = WalkExpr(e, scopes)
    BY Zenon DEF IsWalk
  <2> QED
    BY <2>1, Zenon DEF WalkExpr
<1>2. c \in Seq(ResolveError) /\ t \in Seq(ResolveError) /\ f \in Seq(ResolveError)
  BY Zenon DEF IsWalk, IsAst
<1>3. FreeNames(e) = FreeNames(e.cond) \cup FreeNames(e.then) \cup FreeNames(e.else)
  <2>1. FreeNames(e) = FreeOf(e)
    BY Zenon DEF IsBinding
  <2> QED
    BY <2>1, Zenon DEF FreeOf
<1>4. BindsOnce(e) <=> BindsOnce(e.cond) /\ BindsOnce(e.then) /\ BindsOnce(e.else)
  <2>1. BindsOnce(e) <=> OnceOf(e)
    BY Zenon DEF IsBinding
  <2>2. e.kind \notin {"num", "var"}
    OBVIOUS
  <2> QED
    BY <2>1, <2>2, Zenon DEF OnceOf
<1>5. /\ Tells(c, FreeNames(e.cond) \ InScope(scopes), BindsOnce(e.cond))
      /\ Tells(t, FreeNames(e.then) \ InScope(scopes), BindsOnce(e.then))
      /\ Tells(f, FreeNames(e.else) \ InScope(scopes), BindsOnce(e.else))
  BY Zenon DEF TellsOf
<1> HIDE DEF c, t, f
<1>6. c \o t \in Seq(ResolveError)
  BY <1>2
<1>7. /\ Missing(c \o t) = Missing(c) \cup Missing(t) /\ (Twice(c \o t) <=> Twice(c) \/ Twice(t))
      /\ Missing(all) = Missing(c \o t) \cup Missing(f) /\ (Twice(all) <=> Twice(c \o t) \/ Twice(f))
  BY <1>2, <1>6, ToldTogether
<1> HIDE DEF all
<1>8. Missing(all) = FreeNames(e) \ InScope(scopes)
  BY <1>3, <1>5, <1>7 DEF Tells
<1>9. Twice(all) <=> ~BindsOnce(e)
  BY <1>4, <1>5, <1>7, Zenon DEF Tells
<1> QED
  BY <1>1, <1>8, <1>9 DEF Tells

\* One of the first n statements binds a name twice, or binds one again.
TwiceIn(stmts, n) ==
  \E j \in 1..n : ~BindsOnce(stmts[j].value) \/ Binds(stmts[j]) \cap Bound(stmts, j - 1) # {}

LEMMA OneMore ==
  ASSUME NEW stmts, NEW n \in Nat
  PROVE  /\ FreeOfStmts(stmts, 0) = {} /\ ~TwiceIn(stmts, 0)
         /\ FreeOfStmts(stmts, n + 1) =
              FreeOfStmts(stmts, n) \cup (FreeNames(stmts[n + 1].value) \ Bound(stmts, n))
         /\ TwiceIn(stmts, n + 1) <=>
              \/ TwiceIn(stmts, n)
              \/ ~BindsOnce(stmts[n + 1].value) \/ Binds(stmts[n + 1]) \cap Bound(stmts, n) # {}
<1> DEFINE m == n + 1
<1>1. 1..m = 1..n \cup {m} /\ m - 1 = n /\ 1..0 = {}
  OBVIOUS
<1> HIDE DEF m
<1>2. FreeOfStmts(stmts, 0) = {} /\ ~TwiceIn(stmts, 0)
  BY <1>1 DEF FreeOfStmts, TwiceIn
<1>3. FreeOfStmts(stmts, m) =
        FreeOfStmts(stmts, n) \cup (FreeNames(stmts[m].value) \ Bound(stmts, n))
  BY <1>1 DEF FreeOfStmts
<1>4. TwiceIn(stmts, m) <=>
        \/ TwiceIn(stmts, n)
        \/ ~BindsOnce(stmts[m].value) \/ Binds(stmts[m]) \cap Bound(stmts, n) # {}
  BY <1>1, Zenon DEF TwiceIn
<1> QED
  BY <1>2, <1>3, <1>4 DEF m

\* No two statements bind one name, just if none binds a name that is bound.
LEMMA BindsAgain ==
  ASSUME NEW stmts, NEW n \in Nat
  PROVE  (\E j \in 1..n : Binds(stmts[j]) \cap Bound(stmts, j - 1) # {}) <=>
         ~(\A i, j \in 1..n : i # j /\ stmts[i].kind = "let" /\ stmts[j].kind = "let"
                                => stmts[i].name # stmts[j].name)
<1>1. ASSUME NEW j \in 1..n, Binds(stmts[j]) \cap Bound(stmts, j - 1) # {}
      PROVE  \E i, k \in 1..n : /\ i # k /\ stmts[i].kind = "let" /\ stmts[k].kind = "let"
                                /\ stmts[i].name = stmts[k].name
  <2>1. stmts[j].kind = "let" /\ stmts[j].name \in Bound(stmts, j - 1)
    BY <1>1 DEF Binds
  <2>2. PICK i \in 1..(j - 1) : stmts[i].kind = "let" /\ stmts[i].name = stmts[j].name
    BY <2>1 DEF Bound
  <2>3. i \in 1..n /\ i # j
    OBVIOUS
  <2> QED
    BY <2>1, <2>2, <2>3
<1>2. ASSUME NEW i \in 1..n, NEW k \in 1..n, i < k, stmts[i].kind = "let", stmts[k].kind = "let",
             stmts[i].name = stmts[k].name
      PROVE  Binds(stmts[k]) \cap Bound(stmts, k - 1) # {}
  <2>1. i \in 1..(k - 1)
    BY <1>2
  <2>2. stmts[k].name \in Bound(stmts, k - 1) /\ stmts[k].name \in Binds(stmts[k])
    BY <1>2, <2>1 DEF Bound, Binds
  <2> QED
    BY <2>2
<1>3. ASSUME NEW i \in 1..n, NEW k \in 1..n, i # k, stmts[i].kind = "let", stmts[k].kind = "let",
             stmts[i].name = stmts[k].name
      PROVE  \E j \in 1..n : Binds(stmts[j]) \cap Bound(stmts, j - 1) # {}
  <2>1. i < k \/ k < i
    BY <1>3
  <2> QED
    BY <1>2, <1>3, <2>1
<1> QED
  BY <1>1, <1>3

LEMMA BlockFree ==
  ASSUME IsBinding, NEW e \in Expr, e.kind = "block"
  PROVE  FreeNames(e) = FreeOfStmts(e.stmts, Len(e.stmts))
                          \cup (FreeNames(e.result) \ Bound(e.stmts, Len(e.stmts)))
<1>1. FreeNames(e) = FreeOf(e)
  BY Zenon DEF IsBinding
<1> QED
  BY <1>1, Zenon DEF FreeOf

LEMMA BlockTells ==
  ASSUME IsAst, IsNamed, IsWalk, IsBinding, NEW e \in Expr, e.kind = "block",
         TellsOf(e.result), \A i \in DOMAIN e.stmts : TellsOf(e.stmts[i].value)
  PROVE  TellsOf(e)
<1> SUFFICES ASSUME NEW scopes \in Seq(Names)
             PROVE  Tells(ResolveExpr(e, scopes), FreeNames(e) \ InScope(scopes), BindsOnce(e))
  BY DEF TellsOf
<1> DEFINE stmts == e.stmts
           n == Len(stmts)
           w == ResolveStmts(stmts, scopes)
           rest == ResolveExpr(e.result, w.scopes)
           here == InScope(scopes)
           free == FreeNames(e)
           once == BindsOnce(e)
<1>1. Stmts(stmts)
  BY StmtsAre
<1>2. PICK h : Walks(h, stmts, scopes) /\ w = h[n]
  BY <1>1, StmtsWalk
<1>3. ResolveExpr(e, scopes) = w.errors \o rest
  <2>1. ResolveExpr(e, scopes) = WalkExpr(e, scopes)
    BY Zenon DEF IsWalk
  <2> QED
    BY <2>1, Zenon DEF WalkExpr
<1>4. free = FreeOfStmts(stmts, n) \cup (FreeNames(e.result) \ Bound(stmts, n))
  BY BlockFree
<1>5. once <=> ~TwiceIn(stmts, n) /\ BindsOnce(e.result)
  <2>1. BindsOnce(e) <=> OnceOf(e)
    BY Zenon DEF IsBinding
  <2>2. e.kind \notin {"num", "var"}
    OBVIOUS
  <2>3. once <=>
         /\ \A i, j \in DOMAIN stmts :
              i # j /\ stmts[i].kind = "let" /\ stmts[j].kind = "let"
                => stmts[i].name # stmts[j].name
         /\ \A i \in DOMAIN stmts : BindsOnce(stmts[i].value)
         /\ BindsOnce(e.result)
    BY <2>1, <2>2, Zenon DEF OnceOf
  <2> HIDE DEF once, stmts
  <2>4. DOMAIN stmts = 1..n /\ n \in Nat
    BY <1>1 DEF Stmts
  <2> HIDE DEF n
  <2>5. (\E j \in 1..n : Binds(stmts[j]) \cap Bound(stmts, j - 1) # {}) <=>
        ~(\A i, j \in 1..n : i # j /\ stmts[i].kind = "let" /\ stmts[j].kind = "let"
                               => stmts[i].name # stmts[j].name)
    BY <2>4, BindsAgain
  <2>6. TwiceIn(stmts, n) <=>
          \/ \E j \in 1..n : ~BindsOnce(stmts[j].value)
          \/ \E j \in 1..n : Binds(stmts[j]) \cap Bound(stmts, j - 1) # {}
    BY Zenon DEF TwiceIn
  <2> QED
    BY <2>3, <2>4, <2>5, <2>6, Zenon
<1>6. n \in Nat /\ \A i \in 1..n : stmts[i].value \in Expr /\ (stmts[i].kind = "let" => stmts[i].name \in STRING)
  BY <1>1 DEF Stmts
<1>7. h[0] = In(scopes, {}, <<>>) /\ \A i \in 1..n : h[i] = ResolveStmt(h[i - 1], stmts[i])
  BY <1>2 DEF Walks
<1>8. \A i \in 1..n : TellsOf(stmts[i].value)
  BY <1>1 DEF Stmts
<1>9. \A i \in 1..n : Binds(stmts[i]) \in SUBSET STRING
  BY <1>6 DEF Binds
<1> HIDE DEF w, rest, here, free, once, stmts, n
<1> DEFINE Reached(i) ==
             Bound(stmts, i) \in Names /\ \E all \in Seq(ResolveError) :
               /\ h[i] = In(scopes, Bound(stmts, i), all)
               /\ Missing(all) = FreeOfStmts(stmts, i) \ here
               /\ Twice(all) <=> TwiceIn(stmts, i)
           T == {i \in Nat : i <= n => Reached(i)}
<1>10. Reached(0)
  <2> DEFINE none == <<>>
  <2>1. none \in Seq(ResolveError) /\ Missing(none) = {} /\ ~Twice(none)
    BY NothingTold
  <2>2. Bound(stmts, 0) = {} /\ FreeOfStmts(stmts, 0) = {} /\ ~TwiceIn(stmts, 0)
    BY BoundIs, OneMore
  <2>3. h[0] = In(scopes, Bound(stmts, 0), none)
    BY <1>7, <2>2
  <2>4. Bound(stmts, 0) \in Names
    BY <2>2 DEF Names
  <2> HIDE DEF none
  <2> QED
    BY <2>1, <2>2, <2>3, <2>4
<1>11. ASSUME NEW i \in Nat, i + 1 \in 1..n, Reached(i) PROVE Reached(i + 1)
  <2> DEFINE m == i + 1
             B == Bound(stmts, i)
             stmt == stmts[m]
             more == ResolveExpr(stmt.value, Append(scopes, B))
  <2>1. PICK errors \in Seq(ResolveError) :
          /\ h[i] = In(scopes, B, errors)
          /\ Missing(errors) = FreeOfStmts(stmts, i) \ here
          /\ Twice(errors) <=> TwiceIn(stmts, i)
    BY <1>11
  <2>2. /\ m \in 1..n /\ m - 1 = i /\ B \in Names
        /\ stmt.value \in Expr /\ (stmt.kind = "let" => stmt.name \in STRING)
        /\ TellsOf(stmt.value) /\ Binds(stmt) \in SUBSET STRING
    <3>1. m \in 1..n /\ m - 1 = i /\ B \in Names
      BY <1>11
    <3>2. stmt.value \in Expr /\ (stmt.kind = "let" => stmt.name \in STRING)
      BY <1>6, <3>1
    <3>3. TellsOf(stmt.value)
      BY <1>8, <3>1
    <3>4. Binds(stmt) \in SUBSET STRING
      BY <1>9, <3>1
    <3> QED
      BY <3>1, <3>2, <3>3, <3>4
  <2>3. Bound(stmts, m) = B \cup Binds(stmt)
    BY BoundIs
  <2>4. /\ FreeOfStmts(stmts, m) = FreeOfStmts(stmts, i) \cup (FreeNames(stmt.value) \ B)
        /\ TwiceIn(stmts, m) <=>
             TwiceIn(stmts, i) \/ ~BindsOnce(stmt.value) \/ Binds(stmt) \cap B # {}
    BY OneMore
  <2>5. h[m] = ResolveStmt(h[i], stmt)
    BY <1>7, <2>2
  <2>6. Bound(stmts, m) \in Names
    BY <2>2, <2>3 DEF Names
  <2>7. Append(scopes, B) \in Seq(Names) /\ InScope(Append(scopes, B)) = here \cup B
    BY <2>2, InScopeAlso DEF here
  <2>8. Tells(more, FreeNames(stmt.value) \ (here \cup B), BindsOnce(stmt.value))
    BY <2>2, <2>7, Zenon DEF TellsOf
  <2>9. PICK all \in Seq(ResolveError) :
          /\ ResolveStmt(In(scopes, B, errors), stmt) = In(scopes, B \cup Binds(stmt), all)
          /\ Missing(all) = Missing(errors) \cup Missing(more)
          /\ Twice(all) <=> Twice(errors) \/ Twice(more) \/ Binds(stmt) \cap B # {}
    BY <2>2, WalkTells, Zenon
  <2> HIDE DEF m, B, stmt, more
  <2>10. h[m] = In(scopes, Bound(stmts, m), all)
    BY <2>1, <2>3, <2>5, <2>9
  <2>11. Missing(all) = FreeOfStmts(stmts, m) \ here
    BY <2>1, <2>4, <2>8, <2>9 DEF Tells
  <2>12. Twice(all) <=> TwiceIn(stmts, m)
    BY <2>1, <2>4, <2>8, <2>9, Zenon DEF Tells
  <2> QED
    BY <2>6, <2>10, <2>11, <2>12 DEF m
<1> HIDE DEF Reached
<1>12. Reached(n)
  <2>1. 0 \in T
    BY <1>10
  <2>2. ASSUME NEW i \in Nat, i \in T PROVE i + 1 \in T
    <3> SUFFICES ASSUME i + 1 <= n PROVE Reached(i + 1)
      OBVIOUS
    <3>1. i + 1 \in 1..n /\ i <= n
      BY <1>6
    <3> QED
      BY <1>11, <2>2, <3>1
  <2> HIDE DEF T
  <2>3. n \in T
    BY <1>6, <2>1, <2>2, AllNumbers
  <2> QED
    BY <1>6, <2>3 DEF T
<1> DEFINE B == Bound(stmts, n)
<1>13. PICK all \in Seq(ResolveError) :
         /\ h[n] = In(scopes, B, all)
         /\ Missing(all) = FreeOfStmts(stmts, n) \ here
         /\ Twice(all) <=> TwiceIn(stmts, n)
  BY <1>12 DEF Reached
<1>14. B \in Names
  BY <1>12 DEF Reached
<1>15. w.errors = all /\ w.scopes = Append(scopes, B)
  BY <1>2, <1>13 DEF In
<1>16. e.result \in Expr
  BY DEF IsAst
<1> HIDE DEF B
<1>17. Append(scopes, B) \in Seq(Names) /\ InScope(Append(scopes, B)) = here \cup B
  BY <1>14, InScopeAlso DEF here
<1>18. rest \in Seq(ResolveError) /\ Tells(rest, FreeNames(e.result) \ (here \cup B), BindsOnce(e.result))
  BY <1>15, <1>16, <1>17, Zenon DEF IsWalk, TellsOf, rest
<1>19. /\ Missing(all \o rest) = Missing(all) \cup Missing(rest)
       /\ Twice(all \o rest) <=> Twice(all) \/ Twice(rest)
  BY <1>13, <1>18, ToldTogether
<1>20. Missing(all \o rest) = free \ here
  BY <1>4, <1>13, <1>18, <1>19 DEF Tells, B
<1>21. Twice(all \o rest) <=> ~once
  BY <1>5, <1>13, <1>18, <1>19, Zenon DEF Tells
<1> QED
  BY <1>3, <1>15, <1>20, <1>21, Zenon DEF Tells, free, here, once

\* By the height of the tree.
LEMMA AllTell ==
  ASSUME IsAst, IsNamed, IsTree, IsWalk, IsBinding
  PROVE  \A e \in Expr : TellsOf(e)
<1> DEFINE T == {n \in Nat : \A e \in Expr : Height(e) < n => TellsOf(e)}
<1>1. \A e \in Expr : Height(e) \in Nat
  BY DEF IsTree
<1>2. 0 \in T
  BY <1>1
<1>3. ASSUME NEW n \in Nat, n \in T PROVE n + 1 \in T
  <2> SUFFICES ASSUME NEW e \in Expr, Height(e) < n + 1 PROVE TellsOf(e)
    OBVIOUS
  <2>1. ASSUME NEW d \in Expr, Height(d) < Height(e) PROVE TellsOf(d)
    <3>1. Height(d) < n
      BY <1>1, <2>1
    <3> QED
      BY <1>3, <3>1
  <2>2. CASE e.kind \in {"num", "var"}
    BY <2>2, LeafTells
  <2>3. CASE e.kind = "binop"
    BY <2>1, <2>3, OperatorTells DEF IsAst, IsTree
  <2>4. CASE e.kind = "if"
    BY <2>1, <2>4, BranchTells DEF IsAst, IsTree
  <2>5. CASE e.kind = "block"
    <3>1. e.result \in Expr /\ Height(e.result) < Height(e)
      BY <2>5 DEF IsAst, IsTree
    <3>2. \A i \in DOMAIN e.stmts : e.stmts[i].value \in Expr /\ Height(e.stmts[i].value) < Height(e)
      BY <2>5 DEF IsAst, IsTree
    <3> QED
      BY <2>1, <2>5, <3>1, <3>2, BlockTells
  <2>6. IsExpr(e)
    BY DEF IsTree
  <2> QED
    BY <2>2, <2>3, <2>4, <2>5, <2>6 DEF IsExpr
<1> HIDE DEF T
<1> SUFFICES ASSUME NEW e \in Expr PROVE TellsOf(e)
  OBVIOUS
<1>4. Height(e) + 1 \in Nat /\ Height(e) < Height(e) + 1
  BY <1>1
<1>5. Height(e) + 1 \in T
  BY <1>2, <1>3, <1>4, AllNumbers
<1> QED
  BY <1>4, <1>5 DEF T

\* Whatever the program, resolution reports exactly its uses of unbound names, and
\* accepts exactly the programs that have none and bind no name twice in a block:
\* no program is rejected for a name that a `let` before it binds, or passes with
\* one that is used in its own value or after its block.
THEOREM ResolutionIsExact ==
  ASSUME IsAst, IsNamed, IsTree, IsWalk, IsBinding, NEW e \in Expr
  PROVE  Exact(ResolveExpr(e, <<>>), FreeNames(e), BindsOnce(e))
<1> DEFINE none == <<>>
<1>1. none \in Seq(Names) /\ InScope(none) = {}
  BY DEF InScope
<1>2. TellsOf(e)
  BY AllTell
<1> HIDE DEF none
<1>3. ResolveExpr(e, none) \in Seq(ResolveError)
  BY <1>1, Zenon DEF IsWalk
<1>4. Tells(ResolveExpr(e, none), FreeNames(e), BindsOnce(e))
  BY <1>1, <1>2 DEF TellsOf
<1>5. Exact(ResolveExpr(e, none), FreeNames(e), BindsOnce(e))
  BY <1>3, <1>4, SomethingTold DEF Exact, Tells
<1> QED
  BY <1>5 DEF none

-----------------------------------------------------------------------------
(* A program that resolves, as it is lowered.                              *)

\* The names bound by the first d scopes of ev, as resolution has them.
Open(ev, d) == [k \in 1..d |-> DOMAIN ev[k]]

\* f lowers an expression that resolves in the scopes open for it, and if that is
\* a block, its own scope has what the statements that are lowered bind.
Resolved(f, ev) ==
  /\ Open(ev, f.depth) \in Seq(Names)
  /\ Resolves(f.e, Open(ev, f.depth))
  /\ f.e.kind = "block" /\ f.calls > 0 => DOMAIN ev[f.depth + 1] = Bound(f.e.stmts, f.calls - 1)

AllResolved == \A i \in 1..Len(frames) : Resolved(frames[i], env)

LEMMA StaysResolved ==
  ASSUME NEW f \in Activation, NEW ev, Resolved(f, ev), NEW ev2,
         \A k \in 1..Scopes(f) : ev2[k] = ev[k]
  PROVE  Resolved(f, ev2)
<1>1. Scopes(f) \in Nat /\ f.depth \in Nat /\ f.depth <= Scopes(f)
  BY ScopesIs
<1>2. \A k \in 1..f.depth : k \in 1..Scopes(f)
  BY <1>1
<1>3. Open(ev2, f.depth) = Open(ev, f.depth)
  BY <1>2 DEF Open
<1>4. ASSUME f.e.kind = "block" /\ f.calls > 0 PROVE ev2[f.depth + 1] = ev[f.depth + 1]
  <2>1. f.depth + 1 = Scopes(f) /\ Scopes(f) \in 1..Scopes(f)
    BY <1>1, <1>4 DEF Scopes
  <2> QED
    BY <2>1
<1> QED
  BY <1>3, <1>4 DEF Resolved

\* The other activations are as they were.
LEMMA OthersResolved ==
  ASSUME IInv, AllResolved, frames # <<>>, NEW ev, \A k \in 1..Top.depth : ev[k] = env[k]
  PROVE  \A i \in 1..(Len(frames) - 1) : Resolved(frames[i], ev)
<1> SUFFICES ASSUME NEW i \in 1..(Len(frames) - 1)
             PROVE  Resolved(frames[i], ev)
  OBVIOUS
<1> DEFINE f == frames[i]
<1>1. ActivationOK(f, code, entry, env, next) /\ Inside(f, Top) /\ Top \in Activation
  BY TopIs
<1>2. Resolved(f, env)
  <2>1. frames \in Seq(Activation)
    BY DEF IInv, StackOK
  <2>2. i \in 1..Len(frames)
    BY <2>1
  <2> QED
    BY <2>2 DEF AllResolved
<1> HIDE DEF f
<1>3. f \in Activation
  BY <1>1 DEF ActivationOK, Shape
<1>4. Scopes(f) \in Nat /\ Scopes(f) <= Top.depth /\ Top.depth \in Nat
  BY <1>1, <1>3, ScopesIs DEF Inside
<1>5. \A k \in 1..Scopes(f) : k \in 1..Top.depth
  BY <1>4
<1>6. \A k \in 1..Scopes(f) : ev[k] = env[k]
  BY <1>5
<1> QED
  BY <1>2, <1>3, <1>6, StaysResolved DEF f

LEMMA TopResolved ==
  ASSUME IInv, AllResolved, frames # <<>>
  PROVE  Resolved(Top, env)
<1>1. frames \in Seq(Activation)
  BY DEF IInv, StackOK
<1>2. Len(frames) \in 1..Len(frames)
  BY <1>1, EmptySeq
<1>3. Top = frames[Len(frames)]
  BY TopIs
<1> QED
  BY <1>2, <1>3 DEF AllResolved

LEMMA ReturnResolved ==
  ASSUME IInv, AllResolved, frames # <<>>, frames' = Front(frames),
         \A k \in 1..Top.depth : env'[k] = env[k]
  PROVE  AllResolved'
<1>1. frames \in Seq(Activation)
  BY DEF IInv, StackOK
<1>2. Len(frames') = Len(frames) - 1 /\ \A i \in 1..(Len(frames) - 1) : frames'[i] = frames[i]
  BY <1>1, PopIs
<1>3. \A i \in 1..(Len(frames) - 1) : Resolved(frames[i], env')
  BY OthersResolved
<1> QED
  BY <1>2, <1>3 DEF AllResolved

LEMMA CallResolved ==
  ASSUME IInv, AllResolved, frames # <<>>, \A k \in 1..Top.depth : env'[k] = env[k],
         NEW g, g.e = Top.e, g.depth = Top.depth,
         g.e.kind = "block" => DOMAIN env'[g.depth + 1] = Bound(g.e.stmts, g.calls - 1),
         NEW e \in Expr, NEW b \in Nat, NEW d \in Nat,
         Open(env', d) \in Seq(Names), Resolves(e, Open(env', d)),
         frames' = Front(frames) \o <<g, Frame(e, b, d)>>
  PROVE  AllResolved'
<1> DEFINE h == Frame(e, b, d)
           none == <<>>
           n == Len(frames)
<1>1. frames \in Seq(Activation) /\ n \in Nat
  BY DEF IInv, StackOK
<1>2. none \in Seq(Nat)
  OBVIOUS
<1>3. h \in Activation /\ h.e = e /\ h.depth = d /\ h.calls = 0
  BY <1>2 DEF Frame, Activation
<1> HIDE DEF h, none
<1>4. /\ Len(frames') = n + 1 /\ \A i \in 1..(n - 1) : frames'[i] = frames[i]
      /\ frames'[n] = g /\ frames'[n + 1] = h
  <2> DEFINE S == Activation \cup {g}
  <2>1. frames \in Seq(S) /\ g \in S /\ h \in S
    BY <1>1, <1>3, MoreOf
  <2> HIDE DEF S
  <2> QED
    BY <2>1, PushIs DEF h
<1>5. \A i \in 1..(n - 1) : Resolved(frames[i], env')
  BY OthersResolved
<1>6. Resolved(h, env')
  BY <1>3 DEF Resolved
<1>7. Resolved(g, env')
  <2>1. Resolved(Top, env) /\ Top.depth \in Nat
    BY TopResolved, TopIs DEF Activation
  <2>2. Open(env', g.depth) = Open(env, Top.depth)
    BY DEF Open
  <2> QED
    BY <2>1, <2>2 DEF Resolved
<1> HIDE DEF n
<1> SUFFICES ASSUME NEW i \in 1..(n + 1) PROVE Resolved(frames'[i], env')
  BY <1>4 DEF AllResolved
<1>8. i \in 1..(n - 1) \/ i = n \/ i = n + 1
  BY <1>1
<1> QED
  BY <1>4, <1>5, <1>6, <1>7, <1>8

\* A call for the part e of an expression that is not a block.
LEMMA PartResolved ==
  ASSUME IInv, AllResolved, frames # <<>>, UNCHANGED env, Top.e.kind # "block",
         NEW g, g.e = Top.e, g.depth = Top.depth,
         NEW e \in Expr, NEW b \in Nat, Resolves(e, Open(env, Top.depth)),
         frames' = Front(frames) \o <<g, Frame(e, b, Len(env))>>
  PROVE  AllResolved'
<1>1. Len(env) = Top.depth /\ Top.depth \in Nat
  BY TopIs DEF Scopes, Activation
<1>2. Open(env', Len(env)) \in Seq(Names) /\ Resolves(e, Open(env', Len(env)))
  BY <1>1, TopResolved DEF Resolved
<1> QED
  BY <1>1, <1>2, CallResolved

LEMMA OperatorResolved ==
  ASSUME IsAst, IsWalk, IInv, AllResolved, LowerLhs \/ LowerRhs
  PROVE  AllResolved'
<1> DEFINE g == [Top EXCEPT !.calls = @ + 1]
           k == [[Top EXCEPT !.temps = <<Returned>>] EXCEPT !.calls = @ + 1]
<1>1. frames # <<>> /\ Top.e.kind = "binop" /\ UNCHANGED env
  BY DEF LowerLhs, LowerRhs, At
<1>2. Top \in Activation /\ Top.block \in Nat /\ Top.e \in Expr
  BY <1>1, TopIs DEF Activation
<1>3. g.e = Top.e /\ g.depth = Top.depth /\ k.e = Top.e /\ k.depth = Top.depth
  BY <1>2 DEF Activation
<1>4. Open(env, Top.depth) \in Seq(Names) /\ Resolves(Top.e, Open(env, Top.depth))
  BY <1>1, TopResolved DEF Resolved
<1>5. /\ Resolves(Top.e.lhs, Open(env, Top.depth)) /\ Top.e.lhs \in Expr
      /\ Resolves(Top.e.rhs, Open(env, Top.depth)) /\ Top.e.rhs \in Expr
  BY <1>1, <1>2, <1>4, OperandsResolve DEF IsAst
<1>6. CASE LowerLhs
  <2>1. frames' = Front(frames) \o <<g, Frame(Top.e.lhs, Top.block, Len(env))>>
    BY <1>6 DEF LowerLhs, CallLower, CallIn
  <2> HIDE DEF g
  <2> QED
    BY <1>1, <1>2, <1>3, <1>5, <2>1, PartResolved
<1>7. CASE LowerRhs
  <2>1. frames' = Front(frames) \o <<k, Frame(Top.e.rhs, Top.block, Len(env))>>
    BY <1>7 DEF LowerRhs, CallLower, CallIn
  <2> HIDE DEF k
  <2> QED
    BY <1>1, <1>2, <1>3, <1>5, <2>1, PartResolved
<1> QED
  BY <1>6, <1>7

LEMMA BranchResolved ==
  ASSUME IsAst, IsWalk, IInv, AllResolved, LowerCond \/ LowerThen \/ LowerElse
  PROVE  AllResolved'
<1> DEFINE b == Len(code) + 1
           g == [Top EXCEPT !.calls = @ + 1]
           k == [[Top EXCEPT !.temps = <<Returned, next>>, !.arms = <<b>>] EXCEPT !.calls = @ + 1]
           m == [[Top EXCEPT !.arms = Append(@, b)] EXCEPT !.calls = @ + 1]
<1>1. frames # <<>> /\ Top.e.kind = "if" /\ UNCHANGED env
  BY DEF LowerCond, LowerThen, LowerElse, At
<1>2. Top \in Activation /\ Top.block \in Nat /\ Top.e \in Expr /\ b \in Nat
  BY <1>1, TopIs DEF Activation
<1>3. /\ g.e = Top.e /\ g.depth = Top.depth /\ k.e = Top.e /\ k.depth = Top.depth
      /\ m.e = Top.e /\ m.depth = Top.depth
  BY <1>2 DEF Activation
<1>4. Open(env, Top.depth) \in Seq(Names) /\ Resolves(Top.e, Open(env, Top.depth))
  BY <1>1, TopResolved DEF Resolved
<1>5. /\ Resolves(Top.e.cond, Open(env, Top.depth)) /\ Top.e.cond \in Expr
      /\ Resolves(Top.e.then, Open(env, Top.depth)) /\ Top.e.then \in Expr
      /\ Resolves(Top.e.else, Open(env, Top.depth)) /\ Top.e.else \in Expr
  BY <1>1, <1>2, <1>4, BranchesResolve DEF IsAst
<1>6. CASE LowerCond
  <2>1. frames' = Front(frames) \o <<g, Frame(Top.e.cond, Top.block, Len(env))>>
    BY <1>6 DEF LowerCond, CallLower, CallIn
  <2> HIDE DEF g
  <2> QED
    BY <1>1, <1>2, <1>3, <1>5, <2>1, PartResolved
<1>7. CASE LowerThen
  <2>1. frames' = Front(frames) \o <<k, Frame(Top.e.then, b, Len(env))>>
    BY <1>7 DEF LowerThen, CallLower, CallIn
  <2> HIDE DEF k, b
  <2> QED
    BY <1>1, <1>2, <1>3, <1>5, <2>1, PartResolved
<1>8. CASE LowerElse
  <2>1. frames' = Front(frames) \o <<m, Frame(Top.e.else, b, Len(env))>>
    BY <1>8 DEF LowerElse, CallLower, CallIn
  <2> HIDE DEF m, b
  <2> QED
    BY <1>1, <1>2, <1>3, <1>5, <2>1, PartResolved
<1> QED
  BY <1>6, <1>7, <1>8

\* What a block calls for, n of its statements being done.
LEMMA BlockCalls ==
  ASSUME IsAst, IsNamed, IsWalk, IInv, AllResolved, frames # <<>>, Top.e.kind = "block",
         NEW n \in 0..Len(Top.e.stmts), \A k \in 1..Top.depth : env'[k] = env[k],
         DOMAIN env'[Top.depth + 1] = Bound(Top.e.stmts, n), NEW g, g.e = Top.e, g.depth = Top.depth,
         g.calls - 1 = n, NEW b \in Nat,
         frames' = Front(frames) \o <<g, Frame(Part(Top.e, n + 1), b, Top.depth + 1)>>
  PROVE  AllResolved'
<1> DEFINE d == Top.depth
           scopes == Open(env, d)
           e == Part(Top.e, n + 1)
<1>1. d \in Nat /\ Top.e \in Expr
  BY TopIs DEF Activation
<1>2. scopes \in Seq(Names) /\ Resolves(Top.e, scopes)
  BY TopResolved DEF Resolved
<1>3. Bound(Top.e.stmts, n) \in Names /\ Resolves(e, Append(scopes, Bound(Top.e.stmts, n)))
  BY <1>1, <1>2, BlockResolves
<1>4. n \in Nat /\ e \in Expr
  <2>1. Len(Top.e.stmts) \in Nat
    BY <1>1 DEF IsAst
  <2>2. n \in Nat /\ n + 1 \in Nat /\ n + 1 # 0
    BY <2>1
  <2> QED
    BY <1>1, <2>2, PartIs
<1>5. Len(scopes) = d /\ \A k \in 1..d : scopes[k] = DOMAIN env[k]
  BY <1>1 DEF Open
<1> HIDE DEF scopes, d, e
<1>6. Open(env', d + 1) = Append(scopes, Bound(Top.e.stmts, n))
  <2> DEFINE B == Bound(Top.e.stmts, n)
             o == Open(env', d + 1)
             p == Append(scopes, B)
  <2>1. o = [k \in 1..(d + 1) |-> o[k]] /\ \A k \in 1..(d + 1) : o[k] = DOMAIN env'[k]
    BY DEF Open
  <2>2. DOMAIN env'[d + 1] = B
    BY DEF d
  <2> HIDE DEF B
  <2>3. p \in Seq(Names) /\ Len(p) = d + 1 /\ p[d + 1] = B /\ \A k \in 1..d : p[k] = scopes[k]
    BY <1>2, <1>3, <1>5 DEF B
  <2> HIDE DEF o, p
  <2>4. ASSUME NEW k \in 1..(d + 1) PROVE o[k] = p[k]
    <3>1. CASE k = d + 1
      BY <2>1, <2>2, <2>3, <3>1
    <3>2. CASE k # d + 1
      <4>1. k \in 1..d
        BY <1>1, <3>2
      <4> QED
        BY <1>5, <2>1, <2>3, <4>1 DEF d
    <3> QED
      BY <3>1, <3>2
  <2>5. p = [k \in 1..(d + 1) |-> p[k]]
    BY <2>3
  <2> QED
    BY <2>1, <2>4, <2>5 DEF o, p, B
<1>7. Open(env', d + 1) \in Seq(Names) /\ Resolves(e, Open(env', d + 1))
  <2> DEFINE B == Bound(Top.e.stmts, n)
  <2> HIDE DEF B
  <2>1. Append(scopes, B) \in Seq(Names)
    BY <1>2, <1>3 DEF B
  <2> QED
    BY <1>3, <1>6, <2>1, Zenon DEF B
<1>8. DOMAIN env'[g.depth + 1] = Bound(g.e.stmts, g.calls - 1)
  OBVIOUS
<1>10. d + 1 \in Nat
  BY <1>1
<1>9. frames' = Front(frames) \o <<g, Frame(e, b, d + 1)>>
  BY DEF e, d
<1> QED
  BY <1>4, <1>7, <1>8, <1>9, <1>10, CallResolved

LEMMA OpenResolved ==
  ASSUME IsAst, IsNamed, IsWalk, IInv, AllResolved, OpenScope
  PROVE  AllResolved'
<1> DEFINE g == [Top EXCEPT !.calls = @ + 1]
           s == <<>>
<1>1. frames # <<>> /\ Top.e.kind = "block" /\ Top.calls = 0
  BY DEF OpenScope, At
<1>2. /\ Top \in Activation /\ Top.block \in Nat /\ Top.e \in Expr /\ Top.depth \in Nat
      /\ Len(env) = Top.depth
  BY <1>1, TopIs DEF Activation, Scopes
<1>3. g.e = Top.e /\ g.depth = Top.depth /\ g.calls - 1 = 0
  BY <1>1, <1>2 DEF Activation
<1>4. 0 \in 0..Len(Top.e.stmts) /\ 0 + 1 = 1
  BY <1>1, <1>2 DEF IsAst
<1>5. /\ env' = Append(env, s)
      /\ frames' = Front(frames) \o <<g, Frame(Part(Top.e, 0 + 1), Top.block, Top.depth + 1)>>
  BY <1>2, <1>4 DEF OpenScope, CallIn
<1>6. DOMAIN s = {}
  OBVIOUS
<1> HIDE DEF g, s
<1>7. env'[Len(env) + 1] = s /\ \A k \in 1..Len(env) : env'[k] = env[k]
  <2>1. PICK S : env \in Seq(S)
    BY EnvIs
  <2> DEFINE U == S \cup {s}
  <2>2. env \in Seq(U) /\ s \in U
    BY <2>1, MoreOf
  <2> HIDE DEF U
  <2> QED
    BY <1>5, <2>2
<1>8. DOMAIN env'[Top.depth + 1] = Bound(Top.e.stmts, 0)
  BY <1>2, <1>6, <1>7, BoundIs
<1> QED
  BY <1>1, <1>2, <1>3, <1>4, <1>5, <1>7, <1>8, BlockCalls

\* A statement has been lowered, and its name is bound if it has one.
LEMMA StmtResolved ==
  ASSUME IsAst, IsNamed, IsWalk, IInv, AllResolved, LowerLet \/ LowerPrint
  PROVE  AllResolved'
<1> DEFINE g == [Top EXCEPT !.calls = @ + 1]
           n == Top.calls
           stmt == Top.e.stmts[n]
<1>1. AtStmt("let") \/ AtStmt("print")
  BY DEF LowerLet, LowerPrint
<1>2. /\ frames # <<>> /\ Top.e.kind = "block" /\ n \in Nat \ {0}
      /\ Len(env) = Top.depth + 1 /\ Top.depth \in Nat
  BY <1>1, StmtIs
<1>3. Top \in Activation /\ Top.block \in Nat /\ Top.e \in Expr /\ n \in DOMAIN Top.e.stmts
  BY <1>1, <1>2, TopIs DEF Activation, AtStmt
<1>4. Len(Top.e.stmts) \in Nat /\ DOMAIN Top.e.stmts = 1..Len(Top.e.stmts)
  BY <1>2, <1>3 DEF IsAst
<1>5. n \in 0..Len(Top.e.stmts) /\ n - 1 + 1 = n /\ n - 1 \in Nat
  BY <1>2, <1>3, <1>4
<1>6. g.e = Top.e /\ g.depth = Top.depth /\ g.calls - 1 = n
  <2>1. g.e = Top.e /\ g.depth = Top.depth /\ g.calls = n + 1
    BY <1>3 DEF Activation
  <2> HIDE DEF g
  <2> QED
    BY <1>2, <2>1
<1>7. frames' = Front(frames) \o <<g, Frame(Part(Top.e, n + 1), Top.block, Top.depth + 1)>>
  BY <1>2 DEF LowerLet, LowerPrint, CallLower, CallIn
<1> HIDE DEF g
<1>8. Bound(Top.e.stmts, n) = DOMAIN env[Top.depth + 1] \cup Binds(stmt)
  <2>1. Bound(Top.e.stmts, n) = Bound(Top.e.stmts, n - 1) \cup Binds(stmt)
    BY <1>5, BoundIs
  <2>2. DOMAIN env[Top.depth + 1] = Bound(Top.e.stmts, n - 1)
    BY <1>2, TopResolved DEF Resolved
  <2> QED
    BY <2>1, <2>2
<1>9. /\ \A k \in 1..Top.depth : env'[k] = env[k]
      /\ DOMAIN env'[Top.depth + 1] = Bound(Top.e.stmts, n)
  <2>1. CASE LowerLet
    <3> DEFINE l == Len(env)
               b == Bind(env[l], stmt.name, Returned)
    <3>1. stmt.kind = "let"
      BY <2>1 DEF LowerLet, AtStmt
    <3>2. DOMAIN b = DOMAIN env[l] \cup Binds(stmt)
      BY <3>1 DEF Bind, Binds
    <3>3. env' = [env EXCEPT ![l] = b]
      BY <2>1 DEF LowerLet
    <3> HIDE DEF b
    <3>4. DOMAIN env = 1..l /\ l \in 1..l /\ \A k \in 1..Top.depth : k \in 1..l /\ k # l
      BY <1>2, EnvIs
    <3>5. env'[l] = b /\ \A k \in 1..Top.depth : env'[k] = env[k]
      BY <3>3, <3>4
    <3> QED
      BY <1>2, <1>8, <3>2, <3>5
  <2>2. CASE LowerPrint
    <3>1. stmt.kind = "print" /\ env' = env
      BY <2>2 DEF LowerPrint, AtStmt
    <3>2. Binds(stmt) = {}
      BY <3>1 DEF Binds
    <3> QED
      BY <1>8, <3>1, <3>2
  <2> QED
    BY <2>1, <2>2
<1> HIDE DEF n
<1> QED
  BY <1>2, <1>3, <1>5, <1>6, <1>7, <1>9, BlockCalls

LEMMA EndResolved ==
  ASSUME IsAst, IInv, AllResolved,
         LowerNumber \/ LowerVar \/ EmitBinOp \/ EmitIf \/ CloseScope
  PROVE  AllResolved'
<1>1. frames # <<>> /\ frames' = Front(frames)
  BY DEF LowerNumber, LowerVar, EmitBinOp, EmitIf, CloseScope, At, Return
<1>2. \A k \in 1..Top.depth : env'[k] = env[k]
  <2>1. CASE env' = env
    BY <2>1
  <2>2. CASE CloseScope
    <3>1. Top.e.kind = "block" /\ Top.calls = Len(Top.e.stmts) + 1 /\ env' = Front(env)
      BY <2>2 DEF CloseScope, At
    <3>2. Top \in Activation /\ Len(env) = Scopes(Top)
      BY <1>1, TopIs
    <3>3. Top.e \in Expr /\ Top.depth \in Nat /\ Len(Top.e.stmts) \in Nat
      BY <3>1, <3>2 DEF Activation, IsAst
    <3>4. Len(env) = Top.depth + 1
      <4>1. Top.calls > 0
        BY <3>1, <3>3
      <4> QED
        BY <3>1, <3>2, <4>1 DEF Scopes
    <3>5. env # <<>>
      BY <3>3, <3>4, SomeItems
    <3>6. \A k \in 1..(Len(env) - 1) : env'[k] = env[k]
      BY <3>1, <3>5, EnvIs, PopIs
    <3>7. Len(env) - 1 = Top.depth
      BY <3>3, <3>4
    <3> QED
      BY <3>6, <3>7
  <2> QED
    BY <2>1, <2>2 DEF LowerNumber, LowerVar, EmitBinOp, EmitIf
<1> QED
  BY <1>1, <1>2, ReturnResolved

\* `lower` gets programs that `resolve` has no error in.
ResolvedNext == (\E e \in Expr : ResolveExpr(e, <<>>) = <<>> /\ LowerProgram(e)) \/ LowerStep
ResolvedSpec == LowerInit /\ [][ResolvedNext]_lowerVars

LEMMA ProgramResolved ==
  ASSUME NEW e \in Expr, ResolveExpr(e, <<>>) = <<>>, LowerProgram(e)
  PROVE  AllResolved'
<1> DEFINE h == Frame(e, 1, 0)
           none == <<>>
           fs == <<h>>
<1>1. frames' = fs
  BY DEF LowerProgram
<1>2. none \in Seq(Names) /\ none \in Seq(Nat) /\ Len(none) = 0
  OBVIOUS
<1>3. h \in Activation /\ h.e = e /\ h.depth = 0 /\ h.calls = 0
  BY <1>2 DEF Frame, Activation
<1> HIDE DEF h
<1>4. Len(fs) = 1 /\ fs[1] = h
  OBVIOUS
<1> HIDE DEF fs
<1>5. Open(env', 0) = none
  BY DEF Open
<1>6. Resolves(e, none)
  BY DEF Resolves
<1> HIDE DEF none
<1>7. Resolved(h, env')
  <2>1. Open(env', h.depth) = none /\ ~(h.calls > 0)
    BY <1>3, <1>5
  <2> QED
    BY <1>2, <1>3, <1>6, <2>1 DEF Resolved
<1> QED
  BY <1>1, <1>4, <1>7 DEF AllResolved

LEMMA ResolvedStep ==
  ASSUME IsAst, IsNamed, IsWalk, IInv, AllResolved, [ResolvedNext]_lowerVars
  PROVE  IInv' /\ AllResolved'
<1>1. [LowerNext]_lowerVars
  BY DEF ResolvedNext, LowerNext
<1>2. IInv'
  BY <1>1, StepOK
<1>3. CASE \E e \in Expr : ResolveExpr(e, <<>>) = <<>> /\ LowerProgram(e)
  BY <1>2, <1>3, ProgramResolved
<1>4. CASE LowerStep
  BY <1>2, <1>4, OperatorResolved, BranchResolved, OpenResolved, StmtResolved, EndResolved
  DEF LowerStep
<1>5. CASE UNCHANGED lowerVars
  BY <1>2, <1>5 DEF lowerVars, AllResolved
<1> QED
  BY <1>2, <1>3, <1>4, <1>5 DEF ResolvedNext

LEMMA NamesFound ==
  ASSUME IsWalk, IInv, AllResolved
  PROVE  ResolvedProgramsLower
<1> SUFFICES ASSUME frames # <<>>, Top.e.kind = "var"
             PROVE  ScopesWith(Top.e.name) # {}
  BY DEF ResolvedProgramsLower
<1> DEFINE d == Top.depth
           scopes == Open(env, d)
<1>1. Top.e \in Expr /\ d \in Nat /\ Len(env) = d
  BY TopIs DEF Activation, Scopes
<1>2. scopes \in Seq(Names) /\ Resolves(Top.e, scopes)
  BY TopResolved DEF Resolved
<1>3. DOMAIN scopes = 1..d /\ \A k \in 1..d : scopes[k] = DOMAIN env[k]
  BY DEF Open
<1> HIDE DEF scopes
<1>4. PICK k \in DOMAIN scopes : Top.e.name \in scopes[k]
  BY <1>1, <1>2, VarResolves
<1>5. DOMAIN env = 1..d
  BY <1>1, EnvIs
<1> QED
  BY <1>3, <1>4, <1>5 DEF ScopesWith

\* Whatever program name resolution has no error in, lowering finds each name in
\* the scopes that it keeps on its own: `lookup` never panics.
THEOREM NamesAreFound ==
  ASSUME IsAst, IsNamed, IsWalk
  PROVE  ResolvedSpec => []ResolvedProgramsLower
<1>1. LowerInit => IInv /\ AllResolved
  <2> SUFFICES ASSUME LowerInit PROVE IInv /\ AllResolved
    OBVIOUS
  <2>1. Len(<<>>) = 0
    OBVIOUS
  <2>2. Len(frames) = 0
    BY <2>1 DEF LowerInit
  <2> QED
    BY <2>2, InitOK DEF AllResolved
<1>2. IInv /\ AllResolved /\ [ResolvedNext]_lowerVars => IInv' /\ AllResolved'
  BY ResolvedStep
<1>3. IInv /\ AllResolved => ResolvedProgramsLower
  BY NamesFound
<1> QED
  BY <1>1, <1>2, <1>3, PTL DEF ResolvedSpec
=============================================================================
