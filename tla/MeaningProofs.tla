--------------------------- MODULE MeaningProofs ---------------------------
(***************************************************************************)
(* Lowering and interpretation keep the meaning of any program: what the   *)
(* interpreter prints and returns is what Evaluation says, step by step.   *)
(***************************************************************************)
EXTENDS LowerProofs, Evaluation

CONSTANT Value    \* what a program computes with: f64

\* Literals are values, and so is what the operations make of values.
IsNumeric ==
  /\ Zero \in Value
  /\ \A op \in BinOps, v, w \in Value : Arith(op, v, w) \in Value
  /\ \A e \in Expr : e.kind = "num" => e.value \in Value

\* ast.rs: an expression is one of these, with one of the operators; a statement also.
IsKinds ==
  \A e \in Expr :
    /\ IsExpr(e)
    /\ e.kind = "binop" => e.op \in BinOps
    /\ e.kind = "block" => \A i \in DOMAIN e.stmts : IsStmt(e.stmts[i])

\* The reference, of each expression.
IsEval ==
  \A e \in Expr : \A bound :
    /\ Eval(e, bound) = EvalOf(e, bound)
    /\ \A n \in Nat : After(e, bound, n) = AfterOf(e, bound, n)

-----------------------------------------------------------------------------
(* What the code means, where val[t] is the value of the temp t, if it is  *)
(* written at all, and pre[b][i] what block b prints up to instruction i.  *)

Out(c, pre, b) == pre[b][Len(c[b]) + 1]

\* The arm an `if` takes.
Taken(x, val) == x.arms[IF val[x.args[1]] # Zero THEN 1 ELSE 2]

CopiesMean(c, val, a) ==
  \A i \in 1..Len(c[a]) : c[a][i].op = "copy" => val[c[a][i].dst] = val[c[a][i].args[1]]

Computes(c, val, x) ==
  /\ x.op = "const" => val[x.dst] = x.what
  /\ x.op = "binop" => val[x.dst] = Arith(x.what, val[x.args[1]], val[x.args[2]])
  /\ x.op = "call" => val[x.dst] = IF x.what = "print" THEN val[x.args[1]]
                                   ELSE Arith(x.what, val[x.args[1]], val[x.args[2]])
  /\ x.op = "if" => CopiesMean(c, val, Taken(x, val))

Prints(c, val, pre, x) ==
  IF x.op = "call" /\ x.what = "print" THEN <<val[x.args[1]]>>
  ELSE IF x.op = "if" THEN Out(c, pre, Taken(x, val)) ELSE <<>>

\* The number of operands of an instruction.
Operands(x) ==
  Len(x.args) = CASE x.op = "const" -> 0
                  [] x.op = "binop" -> 2
                  [] x.op = "call" -> IF x.what = "print" THEN 1 ELSE 2
                  [] x.op = "copy" -> 1
                  [] x.op = "if" -> 1

\* Both arms of an `if` have come to their end.
Closed(c, x) ==
  x.op = "if" =>
    Len(x.arms) = 2 /\ \A k \in 1..2 : x.arms[k] \in 1..Len(c) /\ ~NoCopyIn(c, x.arms[k])

Proper(c) == \A b \in 1..Len(c) : \A i \in 1..Len(c[b]) : Operands(c[b][i]) /\ Closed(c, c[b][i])

CodeMeans(c, val, pre) ==
  /\ Proper(c)
  /\ \A b \in 1..Len(c) : \A i \in 1..Len(c[b]) :
       /\ Computes(c, val, c[b][i])
       /\ pre[b][i + 1] = pre[b][i] \o Prints(c, val, pre, c[b][i])

Ghosts(val, pre) ==
  /\ val \in [Nat -> Value]
  /\ pre \in [Nat -> [Nat -> Seq(Value)]]
  /\ \A b \in Nat : pre[b][1] = <<>>

-----------------------------------------------------------------------------
(* What the activations mean, where g gives an activation f the names that *)
(* are in scope when it begins and what its block has printed until then.  *)

\* The names in scope for its latest call.
Now(f, g) ==
  IF f.e.kind = "block" /\ f.calls > 0 THEN After(f.e, g.bound, f.calls - 1).bound ELSE g.bound

\* What its latest call is given, and is called with.
Due(f, g) ==
  [bound |-> Now(f, g),
   base  |-> CASE f.e.kind = "block" -> g.base \o After(f.e, g.bound, f.calls - 1).out
               [] f.e.kind = "binop" /\ f.calls = 2 -> g.base \o Eval(f.e.lhs, g.bound).out
               [] InArms(f) -> <<>>
               [] OTHER -> g.base]

Child(f) ==
  CASE f.e.kind = "binop" -> IF f.calls = 1 THEN f.e.lhs ELSE f.e.rhs
    [] f.e.kind = "if" -> IF f.calls = 1 THEN f.e.cond
                          ELSE IF f.calls = 2 THEN f.e.then ELSE f.e.else
    [] f.e.kind = "block" -> Part(f.e, f.calls)

\* lower_expr(e, ..) on block b has returned t.
Did(e, g, b, t, c, val, pre) ==
  LET m == Eval(e, g.bound)
  IN  val[t] = m.value /\ m.out \in Seq(Value) /\ Out(c, pre, b) = g.base \o m.out

\* The scopes from the first to the dth agree with `bound`.
Agrees(ev, d, bound, val) ==
  \A i \in 1..d : \A name \in DOMAIN ev[i] :
    (\A j \in 1..d : j > i => name \notin DOMAIN ev[j]) =>
      name \in DOMAIN bound /\ bound[name] = val[ev[i][name]]

\* What f has done before its latest call.
Known(f, g, c, val, pre) ==
  /\ g.base \in Seq(Value)
  /\ f.e.kind = "block" /\ f.calls > 0 => After(f.e, g.bound, f.calls - 1).out \in Seq(Value)
  /\ f.e.kind = "binop" /\ f.calls = 2 =>
       LET m == Eval(f.e.lhs, g.bound) IN val[f.temps[1]] = m.value /\ m.out \in Seq(Value)
  /\ InArms(f) =>
       LET m == Eval(f.e.cond, g.bound)
           v == Eval(f.e, g.bound).value
       IN  /\ val[f.temps[1]] = m.value /\ m.out \in Seq(Value)
           /\ Out(c, pre, f.block) = g.base \o m.out
           /\ v \in Value => val[Dst(f)] = v
  /\ InArms(f) /\ f.calls = 3 =>
       LET m == Eval(f.e.then, g.bound)
       IN  /\ m.out \in Seq(Value) /\ Out(c, pre, f.arms[1]) = m.out /\ ~NoCopyIn(c, f.arms[1])
           /\ Eval(f.e.cond, g.bound).value # Zero => m.value \in Value /\ CopiesMean(c, val, f.arms[1])

Start == [bound |-> <<>>, base |-> <<>>]

\* The innermost activation has just been called, or its latest call has returned.
LatestMeans(f, g, c, r, val, pre) ==
  /\ f.calls = 0 => Out(c, pre, f.block) = g.base
  /\ r # <<>> => Did(Child(f), Due(f, g), WorksIn(f), r[1], c, val, pre)

StackMeans(program, fs, c, ev, r, val, pre, G) ==
  /\ DOMAIN G = Nat /\ G[1] = Start
  /\ fs # <<>> => fs[1].e = program
  /\ \A k \in 1..(Len(fs) - 1) :
       fs[k].calls # 0 /\ fs[k + 1].e = Child(fs[k]) /\ G[k + 1] = Due(fs[k], G[k])
  /\ \A k \in 1..Len(fs) :
       Known(fs[k], G[k], c, val, pre) /\ Agrees(ev, Scopes(fs[k]), Now(fs[k], G[k]), val)
  /\ fs # <<>> => LatestMeans(fs[Len(fs)], G[Len(fs)], c, r, val, pre)

\* Everything written on the way into a block is.
EntriesBelow(en, n) == \A b \in 1..Len(en) : \A t \in en[b] : t < n

Means(program, fs, c, en, ev, n, r, val, pre, G) ==
  /\ Ghosts(val, pre) /\ CodeMeans(c, val, pre) /\ EntriesBelow(en, n)
  /\ StackMeans(program, fs, c, ev, r, val, pre, G)
  /\ c # <<>> => /\ NoCopyIn(c, 1)
                 /\ fs = <<>> => Did(program, Start, 1, r[1], c, val, pre)

MInv(program) ==
  \E val, pre, G : Means(program, frames, code, entry, env, next, ret, val, pre, G)

-----------------------------------------------------------------------------
(* More code, and more temps, mean the same.                               *)

\* The temps below n have the same value.
Same(val, val2, n) == \A t \in Nat : t < n => val2[t] = val[t]

\* Nothing reads or writes a temp that is not yet there.
LEMMA HasBelow ==
  ASSUME NEW c, NEW en, NEW n, CodeOK(c, en, n), EntriesBelow(en, n),
         NEW b \in 1..Len(c), NEW t \in Has(c, en, b)
  PROVE  t \in Nat /\ t < n
<1>1. t \in Nat
  BY HasType
<1>2. c[b] \in Seq(Instruction) /\ b \in 1..Len(en)
  BY DEF CodeOK, Code
<1>3. CASE t \in en[b]
  BY <1>1, <1>2, <1>3 DEF EntriesBelow
<1>4. CASE t \in Written(c[b])
  <2>1. PICK i \in DOMAIN c[b] : t = c[b][i].dst
    BY <1>4 DEF Written
  <2>2. i \in 1..Len(c[b])
    BY <1>2, <2>1
  <2> QED
    BY <1>1, <2>1, <2>2 DEF CodeOK, Below
<1> QED
  BY <1>3, <1>4 DEF Has

\* What an instruction in place reads and writes is below next_temp.
LEMMA InstrBelow ==
  ASSUME NEW c, NEW en, NEW n, CodeOK(c, en, n), EntriesBelow(en, n),
         NEW b \in 1..Len(c), NEW i \in 1..Len(c[b])
  PROVE  /\ c[b][i] \in Instruction /\ c[b][i].dst \in Nat /\ c[b][i].dst < n
         /\ \A j \in 1..Len(c[b][i].args) : c[b][i].args[j] \in Nat /\ c[b][i].args[j] < n
<1> DEFINE x == c[b][i]
<1>1. c[b] \in Seq(Instruction)
  BY DEF CodeOK, Code
<1>2. x \in Instruction
  BY <1>1
<1>3. x.dst \in Nat /\ x.dst < n
  BY <1>2 DEF Instruction, CodeOK, Below
<1>4. ASSUME NEW j \in 1..Len(x.args) PROVE x.args[j] \in Has(c, en, b)
  <2>1. x.args[j] \in en[b] \cup {c[b][k].dst : k \in 1..(i - 1)}
    BY DEF CodeOK, Reads
  <2>2. \A k \in 1..(i - 1) : k \in DOMAIN c[b]
    BY <1>1
  <2> QED
    BY <2>1, <2>2 DEF Has, Written
<1>5. ASSUME NEW j \in 1..Len(x.args) PROVE x.args[j] \in Nat /\ x.args[j] < n
  BY <1>4, HasBelow
<1> QED
  BY <1>2, <1>3, <1>5

\* Copies that have their meaning keep it.
LEMMA CopiesSame ==
  ASSUME NEW c, NEW en, NEW n, CodeOK(c, en, n), EntriesBelow(en, n),
         NEW val, NEW val2, Same(val, val2, n), Proper(c),
         NEW b \in 1..Len(c), CopiesMean(c, val, b)
  PROVE  CopiesMean(c, val2, b)
<1> SUFFICES ASSUME NEW i \in 1..Len(c[b]), c[b][i].op = "copy"
             PROVE  val2[c[b][i].dst] = val2[c[b][i].args[1]]
  BY DEF CopiesMean
<1>1. c[b][i].dst \in Nat /\ c[b][i].dst < n
  BY InstrBelow
<1>2. 1 \in 1..Len(c[b][i].args)
  BY DEF Proper, Operands
<1>3. c[b][i].args[1] \in Nat /\ c[b][i].args[1] < n
  BY <1>2, InstrBelow
<1>4. val[c[b][i].dst] = val[c[b][i].args[1]]
  BY DEF CopiesMean
<1> QED
  BY <1>1, <1>3, <1>4 DEF Same

\* What an instruction computes and prints.
LEMMA InstrSame ==
  ASSUME NEW c, NEW en, NEW n, CodeOK(c, en, n), EntriesBelow(en, n),
         NEW val, NEW val2, Same(val, val2, n), Proper(c),
         NEW b \in 1..Len(c), NEW i \in 1..Len(c[b]), Computes(c, val, c[b][i])
  PROVE  /\ Computes(c, val2, c[b][i])
         /\ c[b][i].op = "if" => Taken(c[b][i], val2) = Taken(c[b][i], val)
         /\ c[b][i].op = "call" => val2[c[b][i].args[1]] = val[c[b][i].args[1]]
<1> DEFINE x == c[b][i]
<1>1. /\ x.dst \in Nat /\ x.dst < n
      /\ \A j \in 1..Len(x.args) : x.args[j] \in Nat /\ x.args[j] < n
  BY InstrBelow
<1> Operands(x) /\ Closed(c, x)
  BY DEF Proper
<1>2. val2[x.dst] = val[x.dst] /\ \A j \in 1..Len(x.args) : val2[x.args[j]] = val[x.args[j]]
  BY <1>1 DEF Same
<1> HIDE DEF x
<1>3. x.op \in {"binop", "call", "if"} => 1 \in 1..Len(x.args)
  BY <1>1 DEF Operands
<1>4. x.op = "binop" \/ (x.op = "call" /\ x.what # "print") => 2 \in 1..Len(x.args)
  BY <1>1 DEF Operands
<1>5. x.op = "if" => Taken(x, val2) = Taken(x, val) /\ Taken(x, val) \in 1..Len(c)
  <2>1. x.op = "if" => val2[x.args[1]] = val[x.args[1]]
    BY <1>2, <1>3
  <2>2. x.op = "if" => x.arms[1] \in 1..Len(c) /\ x.arms[2] \in 1..Len(c)
    BY DEF Closed, x
  <2> QED
    BY <2>1, <2>2 DEF Taken
<1>6. x.op = "if" => CopiesMean(c, val2, Taken(x, val))
  <2> SUFFICES ASSUME x.op = "if" PROVE CopiesMean(c, val2, Taken(x, val))
    OBVIOUS
  <2>1. CopiesMean(c, val, Taken(x, val)) /\ Taken(x, val) \in 1..Len(c)
    BY <1>5 DEF Computes, x
  <2> QED
    BY <2>1, CopiesSame
<1>7. Computes(c, val2, x)
  <2>1. x.op = "const" => val2[x.dst] = x.what
    BY <1>2 DEF Computes, x
  <2>2. x.op = "binop" => val2[x.dst] = Arith(x.what, val2[x.args[1]], val2[x.args[2]])
    BY <1>2, <1>3, <1>4 DEF Computes, x
  <2>3. x.op = "call" => val2[x.dst] = IF x.what = "print" THEN val2[x.args[1]]
                                       ELSE Arith(x.what, val2[x.args[1]], val2[x.args[2]])
    BY <1>2, <1>3, <1>4 DEF Computes, x
  <2> QED
    BY <1>5, <1>6, <2>1, <2>2, <2>3 DEF Computes
<1>8. x.op = "call" => val2[x.args[1]] = val[x.args[1]]
  BY <1>2, <1>3
<1> QED
  BY <1>5, <1>7, <1>8 DEF x

\* The code means what it did when only new temps get a value.
LEMMA MeansSame ==
  ASSUME NEW c, NEW en, NEW n, CodeOK(c, en, n), EntriesBelow(en, n),
         NEW val, NEW val2, Same(val, val2, n), NEW pre, CodeMeans(c, val, pre)
  PROVE  CodeMeans(c, val2, pre)
<1>1. Proper(c)
  BY DEF CodeMeans
<1>2. ASSUME NEW b \in 1..Len(c), NEW i \in 1..Len(c[b])
      PROVE  /\ Computes(c, val2, c[b][i])
             /\ pre[b][i + 1] = pre[b][i] \o Prints(c, val2, pre, c[b][i])
  <2>1. /\ Computes(c, val, c[b][i])
        /\ pre[b][i + 1] = pre[b][i] \o Prints(c, val, pre, c[b][i])
    BY DEF CodeMeans
  <2>2. /\ Computes(c, val2, c[b][i])
        /\ c[b][i].op = "if" => Taken(c[b][i], val2) = Taken(c[b][i], val)
        /\ c[b][i].op = "call" => val2[c[b][i].args[1]] = val[c[b][i].args[1]]
    BY <1>1, <2>1, InstrSame
  <2>3. Prints(c, val2, pre, c[b][i]) = Prints(c, val, pre, c[b][i])
    BY <2>2 DEF Prints
  <2> QED
    BY <2>1, <2>2, <2>3
<1> QED
  BY <1>1, <1>2 DEF CodeMeans

\* The same with one more instruction, x, at the end of block b.
OutWith(c, val, pre, b, x) == Out(c, pre, b) \o Prints(c, val, pre, x)
Printed(c, val, pre, b, x) == [pre EXCEPT ![b][Len(c[b]) + 2] = OutWith(c, val, pre, b, x)]

\* The arm an `if` takes is one that has come to its end.
LEMMA ArmTaken ==
  ASSUME NEW c, NEW val, NEW x, x.op = "if", Closed(c, x)
  PROVE  Taken(x, val) \in 1..Len(c) /\ ~NoCopyIn(c, Taken(x, val))
<1>1. \A k \in 1..2 : x.arms[k] \in 1..Len(c) /\ ~NoCopyIn(c, x.arms[k])
  BY DEF Closed
<1>2. Taken(x, val) = x.arms[1] \/ Taken(x, val) = x.arms[2]
  BY DEF Taken
<1> QED
  BY <1>1, <1>2

\* An arm that has come to its end stays so.
LEMMA StillClosed ==
  ASSUME NEW c \in Code, NEW b \in 1..Len(c), NEW x \in Instruction, NEW y, Closed(c, y)
  PROVE  Closed(Put(c, b, x), y)
<1> DEFINE p == Put(c, b, x)
<1> SUFFICES ASSUME y.op = "if" PROVE Closed(p, y)
  BY DEF Closed
<1>1. /\ Len(p) = Len(c) /\ Len(p[b]) = Len(c[b]) + 1
      /\ \A d \in 1..Len(c) : d # b => p[d] = c[d]
      /\ \A i \in 1..Len(c[b]) : p[b][i] = c[b][i]
  BY PutIs, ZenonT(30)
<1>2. \A d \in 1..Len(c) : Len(c[d]) \in Nat
  BY DEF Code
<1> HIDE DEF p
<1>3. ASSUME NEW d \in 1..Len(c), ~NoCopyIn(c, d) PROVE ~NoCopyIn(p, d)
  <2>1. PICK i \in 1..Len(c[d]) : c[d][i].op = "copy"
    BY <1>3 DEF NoCopyIn
  <2>2. i \in 1..Len(p[d]) /\ p[d][i].op = "copy"
    <3>1. CASE d = b
      BY <1>1, <1>2, <2>1, <3>1
    <3>2. CASE d # b
      BY <1>1, <2>1, <3>2
    <3> QED
      BY <3>1, <3>2
  <2> QED
    BY <2>2 DEF NoCopyIn
<1> QED
  BY <1>1, <1>3 DEF Closed

\* Only the end of block b is printed anew.
LEMMA PrintedIs ==
  ASSUME NEW c \in Code, NEW b \in 1..Len(c), NEW x, NEW val, NEW pre, Ghosts(val, pre),
         NEW q, q = Printed(c, val, pre, b, x)
  PROVE  /\ \A d \in Nat : d # b => q[d] = pre[d]
         /\ \A i \in 1..(Len(c[b]) + 1) : q[b][i] = pre[b][i]
         /\ q[b][Len(c[b]) + 2] = OutWith(c, val, pre, b, x)
         /\ Prints(c, val, pre, x) \in Seq(Value) => Ghosts(val, q)
<1> DEFINE l == Len(c[b]) + 2
           new == OutWith(c, val, pre, b, x)
<1>1. pre \in [Nat -> [Nat -> Seq(Value)]]
  BY DEF Ghosts
<1>2. Len(c[b]) \in Nat /\ b \in Nat
  BY DEF Code
<1>3. l \in Nat /\ l # 1 /\ l - 1 = Len(c[b]) + 1 /\ Len(c[b]) + 1 \in Nat
  BY <1>2
<1>4. q = [pre EXCEPT ![b] = [pre[b] EXCEPT ![l] = new]]
  BY DEF Printed
<1> HIDE DEF new, l
<1>5. \A d \in Nat : d # b => q[d] = pre[d]
  BY <1>1, <1>4
<1>6. q[b] = [pre[b] EXCEPT ![l] = new] /\ pre[b] \in [Nat -> Seq(Value)]
  BY <1>1, <1>2, <1>4
<1>7. q[b][l] = new /\ \A i \in Nat : i # l => q[b][i] = pre[b][i]
  BY <1>3, <1>6
<1>8. ASSUME Prints(c, val, pre, x) \in Seq(Value) PROVE Ghosts(val, q)
  <2>1. Out(c, pre, b) \in Seq(Value)
    BY <1>3, <1>6 DEF Out
  <2>2. new \in Seq(Value)
    BY <1>8, <2>1 DEF new, OutWith
  <2>3. [pre[b] EXCEPT ![l] = new] \in [Nat -> Seq(Value)]
    BY <1>3, <1>6, <2>2
  <2>4. q \in [Nat -> [Nat -> Seq(Value)]]
    BY <1>1, <1>2, <1>4, <2>3
  <2>5. \A d \in Nat : q[d][1] = <<>>
    BY <1>1, <1>3, <1>5, <1>7 DEF Ghosts
  <2> QED
    BY <2>4, <2>5 DEF Ghosts
<1>9. \A i \in 1..(Len(c[b]) + 1) : q[b][i] = pre[b][i]
  <2>1. \A i \in 1..(Len(c[b]) + 1) : i \in Nat /\ i # l
    BY <1>2 DEF l
  <2> QED
    BY <1>7, <2>1
<1> QED
  BY <1>5, <1>7, <1>8, <1>9 DEF l, new

\* One more instruction, and the code still means something.
LEMMA PutMeans ==
  ASSUME NEW c \in Code, NEW b \in 1..Len(c), NEW x \in Instruction, NEW val, NEW pre,
         Ghosts(val, pre), CodeMeans(c, val, pre), NoCopyIn(c, b),
         Operands(x), Closed(c, x), Computes(c, val, x)
  PROVE  LET q == Printed(c, val, pre, b, x)
         IN  /\ CodeMeans(Put(c, b, x), val, q)
             /\ Out(Put(c, b, x), q, b) = OutWith(c, val, pre, b, x)
<1> DEFINE q == Printed(c, val, pre, b, x)
           p == Put(c, b, x)
<1> Len(c[b]) \in Nat
  BY DEF Code
<1>1. /\ Len(p) = Len(c) /\ Len(p[b]) = Len(c[b]) + 1
      /\ \A d \in 1..Len(c) : d # b => p[d] = c[d]
  BY PutIs, ZenonT(30)
<1>2. /\ \A d \in 1..Len(c) : d # b => q[d] = pre[d]
      /\ \A i \in 1..(Len(c[b]) + 1) : q[b][i] = pre[b][i]
      /\ q[b][Len(c[b]) + 2] = OutWith(c, val, pre, b, x)
  <2>1. q = Printed(c, val, pre, b, x)
    OBVIOUS
  <2> HIDE DEF q
  <2>2. \A d \in Nat : d # b => q[d] = pre[d]
    BY <2>1, PrintedIs
  <2>3. \A i \in 1..(Len(c[b]) + 1) : q[b][i] = pre[b][i]
    BY <2>1, PrintedIs
  <2>4. q[b][Len(c[b]) + 2] = OutWith(c, val, pre, b, x)
    BY <2>1, PrintedIs
  <2>5. \A d \in 1..Len(c) : d \in Nat
    OBVIOUS
  <2> QED
    BY <2>2, <2>3, <2>4, <2>5
<1> HIDE DEF q
<1>3. ASSUME NEW y, Closed(c, y), Computes(c, val, y)
      PROVE  /\ Computes(p, val, y) /\ Prints(p, val, q, y) = Prints(c, val, pre, y)
  <2> DEFINE a == Taken(y, val)
  <2>1. y.op = "if" => a \in 1..Len(c) /\ a # b
    BY <1>3, ArmTaken
  <2>2. y.op = "if" => p[a] = c[a] /\ q[a] = pre[a]
    BY <1>1, <1>2, <2>1
  <2> HIDE DEF p, a
  <2>3. y.op = "if" => CopiesMean(p, val, a)
    BY <1>3, <2>2 DEF Computes, CopiesMean, a
  <2>4. Computes(p, val, y)
    BY <1>3, <2>3 DEF Computes, a
  <2>5. Prints(p, val, q, y) = Prints(c, val, pre, y)
    BY <2>2 DEF Prints, Out, a
  <2> QED
    BY <2>4, <2>5 DEF p
<1>4. ASSUME NEW d \in 1..Len(p), NEW i \in 1..Len(p[d])
      PROVE  /\ Operands(p[d][i]) /\ Closed(p, p[d][i]) /\ Computes(p, val, p[d][i])
             /\ q[d][i + 1] = q[d][i] \o Prints(p, val, q, p[d][i])
  <2>1. d \in 1..Len(c)
    BY <1>1
  <2>2. CASE i \in 1..Len(c[d]) /\ p[d][i] = c[d][i]
    <3> DEFINE y == c[d][i]
    <3>1. Operands(y) /\ Closed(c, y)
      BY <2>1, <2>2 DEF CodeMeans, Proper
    <3>2. Computes(c, val, y) /\ pre[d][i + 1] = pre[d][i] \o Prints(c, val, pre, y)
      BY <2>1, <2>2 DEF CodeMeans
    <3>3. q[d][i] = pre[d][i] /\ q[d][i + 1] = pre[d][i + 1]
      <4>1. CASE d # b
        BY <1>2, <2>1, <4>1
      <4>2. CASE d = b
        <5>1. i \in 1..(Len(c[b]) + 1) /\ i + 1 \in 1..(Len(c[b]) + 1)
          BY <1>1, <2>2, <4>2
        <5> QED
          BY <1>2, <4>2, <5>1
      <4> QED
        BY <4>1, <4>2
    <3>4. Closed(p, y)
      BY <3>1, StillClosed
    <3>5. Computes(p, val, y) /\ Prints(p, val, q, y) = Prints(c, val, pre, y)
      BY <1>3, <3>1, <3>2
    <3> HIDE DEF y, p
    <3>6. p[d][i] = y
      BY <2>2 DEF y
    <3> QED
      BY <3>1, <3>2, <3>3, <3>4, <3>5, <3>6
  <2>3. CASE d = b /\ i = Len(c[b]) + 1 /\ p[d][i] = x
    <3>1. Closed(p, x)
      BY StillClosed
    <3>2. Computes(p, val, x) /\ Prints(p, val, q, x) = Prints(c, val, pre, x)
      BY <1>3
    <3> HIDE DEF p
    <3>3. i \in 1..(Len(c[b]) + 1) /\ i + 1 = Len(c[b]) + 2
      BY <1>1, <2>3
    <3>4. q[d][i] = Out(c, pre, b)
      BY <1>2, <2>3, <3>3 DEF Out
    <3> QED
      BY <1>2, <2>3, <3>1, <3>2, <3>3, <3>4 DEF OutWith
  <2>4. \/ i \in 1..Len(c[d]) /\ p[d][i] = c[d][i]
        \/ d = b /\ i = Len(c[b]) + 1 /\ p[d][i] = x
    BY <2>1, PutAt
  <2> QED
    BY <2>2, <2>3, <2>4
<1> HIDE DEF p
<1>5. CodeMeans(p, val, q)
  BY <1>4 DEF CodeMeans, Proper
<1>6. Out(p, q, b) = q[b][Len(c[b]) + 2]
  <2>1. Len(c[b]) + 1 + 1 = Len(c[b]) + 2
    BY <1>1
  <2> QED
    BY <1>1, <2>1 DEF Out
<1> QED
  BY <1>2, <1>5, <1>6 DEF p, q

\* The same with one more block.
LEMMA BlockMeans ==
  ASSUME NEW c \in Code, NEW val, NEW pre, Ghosts(val, pre), CodeMeans(c, val, pre)
  PROVE  /\ CodeMeans(Append(c, <<>>), val, pre)
         /\ Out(Append(c, <<>>), pre, Len(c) + 1) = <<>>
<1> DEFINE p == Append(c, <<>>)
           n == Len(c)
<1>1. n \in Nat /\ Len(p) = n + 1 /\ p[n + 1] = <<>> /\ \A d \in 1..n : p[d] = c[d] /\ d \in 1..Len(p)
  <2>1. Len(p) = n + 1 /\ p[n + 1] = <<>> /\ \A d \in 1..n : p[d] = c[d]
    BY BlockIs
  <2>2. n \in Nat
    BY DEF Code
  <2> HIDE DEF p, n
  <2> QED
    BY <2>1, <2>2
<1> HIDE DEF p, n
<1>2. ASSUME NEW d \in 1..Len(p), NEW i \in 1..Len(p[d])
      PROVE  d \in 1..n /\ i \in 1..Len(c[d]) /\ p[d][i] = c[d][i]
  <2>1. d # n + 1
    BY <1>1
  <2> QED
    BY <1>1, <2>1
<1>3. ASSUME NEW d \in 1..Len(p), NEW i \in 1..Len(p[d])
      PROVE  /\ Operands(p[d][i]) /\ Closed(p, p[d][i]) /\ Computes(p, val, p[d][i])
             /\ pre[d][i + 1] = pre[d][i] \o Prints(p, val, pre, p[d][i])
  <2> DEFINE y == c[d][i]
             a == Taken(y, val)
  <2>1. Operands(y) /\ Closed(c, y)
    BY <1>2 DEF CodeMeans, Proper, n
  <2>2. Computes(c, val, y) /\ pre[d][i + 1] = pre[d][i] \o Prints(c, val, pre, y)
    BY <1>2 DEF CodeMeans, n
  <2>3. p[d][i] = y
    BY <1>2
  <2> HIDE DEF y
  <2>4. y.op = "if" => a \in 1..n /\ p[a] = c[a]
    <3>1. y.op = "if" => a \in 1..n
      BY <2>1, ArmTaken DEF n
    <3> QED
      BY <1>1, <3>1
  <2> HIDE DEF a
  <2>5. Closed(p, y)
    <3>1. y.op = "if" => Len(y.arms) = 2 /\ \A k \in 1..2 : y.arms[k] \in 1..n /\ ~NoCopyIn(c, y.arms[k])
      BY <2>1 DEF Closed, n
    <3> QED
      BY <1>1, <3>1 DEF Closed, NoCopyIn
  <2>6. Computes(p, val, y)
    BY <2>2, <2>4 DEF Computes, CopiesMean, a
  <2>7. Prints(p, val, pre, y) = Prints(c, val, pre, y)
    BY <2>4 DEF Prints, Out, a
  <2> QED
    BY <2>1, <2>2, <2>3, <2>5, <2>6, <2>7
<1>4. CodeMeans(p, val, pre)
  BY <1>3 DEF CodeMeans, Proper
<1>5. Out(p, pre, n + 1) = <<>>
  BY <1>1 DEF Out, Ghosts
<1> QED
  BY <1>4, <1>5 DEF p, n

\* What is written on the way into a block stays below next_temp.
LEMMA EntriesStay ==
  ASSUME NEW n \in Nat, NEW en, EntriesBelow(en, n), NEW m \in Nat, n <= m,
         \A b \in 1..Len(en) : en[b] \subseteq Nat
  PROVE  EntriesBelow(en, m)
BY DEF EntriesBelow

-----------------------------------------------------------------------------
(* What an activation knows stays so.                                      *)

LEMMA AgreesStays ==
  ASSUME NEW val, NEW val2, NEW n, Same(val, val2, n), NEW ev, NEW ev2, NEW d, NEW bound,
         Agrees(ev, d, bound, val), \A k \in 1..d : ev2[k] = ev[k],
         \A k \in 1..d : \A name \in DOMAIN ev[k] : ev[k][name] \in Nat /\ ev[k][name] < n
  PROVE  Agrees(ev2, d, bound, val2)
BY DEF Agrees, Same

\* The temps of the scopes are below next_temp.
LEMMA ScopesBelow ==
  ASSUME NEW c, NEW en, NEW ev, NEW n, CodeOK(c, en, n), EntriesBelow(en, n),
         NEW f, ActivationOK(f, c, en, ev, n), NEW k \in 1..Scopes(f), NEW name \in DOMAIN ev[k]
  PROVE  ev[k][name] \in Nat /\ ev[k][name] < n
<1>1. ev[k][name] \in Has(c, en, f.block) /\ f.block \in 1..Len(c)
  BY DEF ActivationOK, Knows, Shape
<1> QED
  BY <1>1, HasBelow

\* The temps an activation keeps are below next_temp.
LEMMA TempBelow ==
  ASSUME NEW c, NEW en, NEW ev, NEW n, CodeOK(c, en, n), EntriesBelow(en, n),
         NEW f, ActivationOK(f, c, en, ev, n), f.temps # <<>>
  PROVE  f.temps[1] \in Nat /\ f.temps[1] < n
<1>1. f.temps[1] \in Has(c, en, f.block) /\ f.block \in 1..Len(c)
  BY DEF ActivationOK, Knows, Shape
<1> QED
  BY <1>1, HasBelow

\* What an activation knows stays so while another block grows.
LEMMA KnownStays ==
  ASSUME NEW c, NEW en, NEW ev, NEW n, CodeOK(c, en, n), EntriesBelow(en, n), Proper(c),
         NEW f, ActivationOK(f, c, en, ev, n), NEW val, NEW val2, Same(val, val2, n),
         NEW g, NEW pre, Known(f, g, c, val, pre), NEW c2, NEW pre2,
         InArms(f) => c2[f.block] = c[f.block] /\ pre2[f.block] = pre[f.block],
         InArms(f) /\ f.calls = 3 => c2[f.arms[1]] = c[f.arms[1]] /\ pre2[f.arms[1]] = pre[f.arms[1]]
  PROVE  Known(f, g, c2, val2, pre2)
<1>1. f.temps # <<>> => val2[f.temps[1]] = val[f.temps[1]]
  BY TempBelow DEF Same
<1>2. /\ f.e.kind = "binop" /\ f.calls = 2 => f.temps # <<>>
      /\ InArms(f) => f.temps # <<>>
  <2>1. f.e.kind = "binop" /\ f.calls = 2 => Len(f.temps) = 1
    BY DEF ActivationOK, Shape
  <2>2. InArms(f) => Len(f.temps) = 2
    BY DEF ActivationOK, Shape
  <2>3. Len(f.temps) = 1 \/ Len(f.temps) = 2 => f.temps # <<>>
    BY SomeItems
  <2> QED
    BY <2>1, <2>2, <2>3
<1>3. InArms(f) => val2[Dst(f)] = val[Dst(f)]
  <2> SUFFICES ASSUME InArms(f) PROVE val2[Dst(f)] = val[Dst(f)]
    OBVIOUS
  <2>1. Len(f.temps) = 2 /\ f.temps \in Seq(Nat) /\ Dst(f) < n
    BY DEF ActivationOK, Shape, Owns, Activation
  <2>2. Dst(f) \in Nat
    BY <2>1 DEF Dst
  <2> QED
    BY <2>1, <2>2 DEF Same
<1>4. /\ InArms(f) => Out(c2, pre2, f.block) = Out(c, pre, f.block)
      /\ InArms(f) /\ f.calls = 3 => Out(c2, pre2, f.arms[1]) = Out(c, pre, f.arms[1])
  BY DEF Out
<1>5. ASSUME InArms(f), f.calls = 3
      PROVE  /\ NoCopyIn(c2, f.arms[1]) = NoCopyIn(c, f.arms[1])
             /\ CopiesMean(c, val, f.arms[1]) => CopiesMean(c2, val2, f.arms[1])
  <2>1. f.arms[1] \in 1..Len(c)
    <3>1. c \in Code /\ Shape(f, c) /\ Len(f.arms) = f.calls - 1
      BY <1>5 DEF CodeOK, ActivationOK, Shape
    <3>2. 1 \in 1..Len(f.arms)
      BY <1>5, <3>1
    <3> QED
      BY <1>5, <3>1, <3>2, ArmsAre
  <2>2. CopiesMean(c, val, f.arms[1]) => CopiesMean(c, val2, f.arms[1])
    BY <2>1, CopiesSame
  <2> QED
    BY <1>5, <2>2 DEF NoCopyIn, CopiesMean
<1>6. InArms(f) =>
        LET m == Eval(f.e.cond, g.bound)
            v == Eval(f.e, g.bound).value
        IN  /\ val2[f.temps[1]] = m.value /\ m.out \in Seq(Value)
            /\ Out(c2, pre2, f.block) = g.base \o m.out
            /\ v \in Value => val2[Dst(f)] = v
  BY <1>1, <1>2, <1>3, <1>4 DEF Known
<1>7. InArms(f) /\ f.calls = 3 =>
        LET m == Eval(f.e.then, g.bound)
        IN  /\ m.out \in Seq(Value) /\ Out(c2, pre2, f.arms[1]) = m.out /\ ~NoCopyIn(c2, f.arms[1])
            /\ Eval(f.e.cond, g.bound).value # Zero =>
                 m.value \in Value /\ CopiesMean(c2, val2, f.arms[1])
  BY <1>4, <1>5 DEF Known
<1>8. f.e.kind = "binop" /\ f.calls = 2 =>
        LET m == Eval(f.e.lhs, g.bound) IN val2[f.temps[1]] = m.value /\ m.out \in Seq(Value)
  BY <1>1, <1>2 DEF Known
<1>9. /\ g.base \in Seq(Value)
      /\ f.e.kind = "block" /\ f.calls > 0 => After(f.e, g.bound, f.calls - 1).out \in Seq(Value)
  BY DEF Known
<1> QED
  BY <1>6, <1>7, <1>8, <1>9 DEF Known

-----------------------------------------------------------------------------
(* A step of lowering.                                                     *)

\* What the activations outside of the innermost one know, in the code to be.
Evolves(G, c2, en2, ev2, n2, val2, pre2) ==
  /\ Ghosts(val2, pre2) /\ CodeMeans(c2, val2, pre2) /\ EntriesBelow(en2, n2)
  /\ c2 # <<>> /\ NoCopyIn(c2, 1)
  /\ \A k \in 1..(Len(frames) - 1) :
       /\ Known(frames[k], G[k], c2, val2, pre2)
       /\ Agrees(ev2, Scopes(frames[k]), Now(frames[k], G[k]), val2)

\* The code is what it was, but for the blocks the innermost activation works in.
Untouched(c2, pre, pre2) ==
  \A d \in 1..Len(code) :
    d # Top.block /\ d # WorksIn(Top) => c2[d] = code[d] /\ pre2[d] = pre[d]

\* The activations outside of the innermost one know what they did.
LEMMA OthersKnow ==
  ASSUME IInv, frames # <<>>, NEW program, NEW val, NEW pre, NEW G,
         Means(program, frames, code, entry, env, next, ret, val, pre, G),
         NEW val2, Same(val, val2, next), NEW ev2, \A k \in 1..Top.depth : ev2[k] = env[k],
         NEW c2, NEW pre2, Untouched(c2, pre, pre2),
         NEW k \in 1..(Len(frames) - 1)
  PROVE  /\ Known(frames[k], G[k], c2, val2, pre2)
         /\ Agrees(ev2, Scopes(frames[k]), Now(frames[k], G[k]), val2)
<1> DEFINE f == frames[k]
           g == G[k]
<1>1. /\ CodeOK(code, entry, next) /\ code \in Code /\ Top \in Activation
      /\ ActivationOK(Top, code, entry, env, next)
      /\ ActivationOK(f, code, entry, env, next) /\ Inside(f, Top)
  BY TopIs
<1>2. /\ EntriesBelow(entry, next) /\ Proper(code)
      /\ Known(f, g, code, val, pre) /\ Agrees(env, Scopes(f), Now(f, g), val)
  <2>1. frames \in Seq(Activation)
    BY DEF IInv, StackOK
  <2>2. k \in 1..Len(frames)
    BY <2>1
  <2> QED
    BY <2>2 DEF Means, CodeMeans, StackMeans
<1> HIDE DEF f, g
<1>3. f \in Activation /\ f.block \in 1..Len(code) /\ Shape(f, code) /\ Shape(Top, code)
  BY <1>1 DEF ActivationOK, Shape
<1>4. /\ InArms(f) => f.block < WorksIn(f)
      /\ Top.block <= WorksIn(Top) /\ WorksIn(f) <= Top.block
      /\ WorksIn(f) \in 1..Len(code) /\ WorksIn(Top) \in 1..Len(code) /\ Top.block \in 1..Len(code)
  <2>1. /\ WorksIn(f) \in 1..Len(code) /\ (InArms(f) => f.block < WorksIn(f))
    BY <1>1, <1>3, WorksInIs
  <2>2. /\ WorksIn(Top) \in 1..Len(code) /\ Top.block <= WorksIn(Top)
    BY <1>1, <1>3, WorksInIs
  <2> QED
    BY <1>1, <1>3, <2>1, <2>2 DEF Inside, Shape
<1>5. InArms(f) => c2[f.block] = code[f.block] /\ pre2[f.block] = pre[f.block]
  <2>1. InArms(f) => f.block # Top.block /\ f.block # WorksIn(Top)
    BY <1>3, <1>4
  <2> QED
    BY <1>3, <2>1 DEF Untouched
<1>6. InArms(f) /\ f.calls = 3 => c2[f.arms[1]] = code[f.arms[1]] /\ pre2[f.arms[1]] = pre[f.arms[1]]
  <2> SUFFICES ASSUME InArms(f), f.calls = 3
               PROVE  c2[f.arms[1]] = code[f.arms[1]] /\ pre2[f.arms[1]] = pre[f.arms[1]]
    OBVIOUS
  <2>1. ~NoCopyIn(code, f.arms[1])
    BY <1>2 DEF Known
  <2>2. NoCopyIn(code, Top.block) /\ NoCopyIn(code, WorksIn(Top))
    BY <1>1 DEF ActivationOK, Owns
  <2>3. f.arms[1] \in 1..Len(code)
    <3>1. Len(f.arms) = f.calls - 1
      BY <1>3 DEF Shape
    <3>2. 1 \in 1..Len(f.arms)
      BY <3>1
    <3> QED
      BY <1>1, <1>3, <3>2, ArmsAre
  <2> QED
    BY <2>1, <2>2, <2>3 DEF Untouched
<1>7. Known(f, g, c2, val2, pre2)
  BY <1>1, <1>2, <1>5, <1>6, KnownStays
<1>8. \A i \in 1..Scopes(f) : ev2[i] = env[i]
  <2>1. Scopes(f) <= Top.depth /\ Scopes(f) \in Nat /\ Top.depth \in Nat
    BY <1>1, <1>3, ScopesIs DEF Inside
  <2>2. \A i \in 1..Scopes(f) : i \in 1..Top.depth
    BY <2>1
  <2> QED
    BY <2>2
<1>9. \A i \in 1..Scopes(f) : \A name \in DOMAIN env[i] : env[i][name] \in Nat /\ env[i][name] < next
  BY <1>1, <1>2, ScopesBelow
<1>10. Agrees(ev2, Scopes(f), Now(f, g), val2)
  BY <1>2, <1>8, <1>9, AgreesStays
<1> QED
  BY <1>7, <1>10 DEF f, g

\* A call: the innermost activation becomes f, and lowers e next.
LEMMA CallMeans ==
  ASSUME IInv, frames # <<>>, NEW program, NEW val, NEW pre, NEW G,
         Means(program, frames, code, entry, env, next, ret, val, pre, G),
         NEW val2, NEW pre2, Evolves(G, code', entry', env', next', val2, pre2),
         NEW f \in Activation, f.e = Top.e, f.calls # 0,
         NEW g, g = G[Len(frames)], Known(f, g, code', val2, pre2),
         Agrees(env', Scopes(f), Now(f, g), val2),
         Due(f, g).base \in Seq(Value), Out(code', pre2, WorksIn(f)) = Due(f, g).base,
         NEW e, e = Child(f), frames' = Front(frames) \o <<f, Frame(e, WorksIn(f), Scopes(f))>>,
         ret' = <<>>
  PROVE  MInv(program)'
<1> DEFINE n == Len(frames)
           new == Frame(e, WorksIn(f), Scopes(f))
           H == [G EXCEPT ![n + 1] = Due(f, g)]
           S == Activation \cup {new}
<1>1. frames \in Seq(Activation) /\ n \in Nat \ {0} /\ Top = frames[n]
  <2>1. frames \in Seq(Activation)
    BY DEF IInv, StackOK
  <2>2. n \in Nat \ {0}
    BY <2>1, PopIs
  <2>3. Top = frames[n]
    BY TopIs
  <2> QED
    BY <2>1, <2>2, <2>3
<1>2. frames \in Seq(S) /\ f \in S /\ new \in S
  BY <1>1, MoreOf
<1> HIDE DEF S
<1> PICK fs : fs = frames'
  OBVIOUS
<1>3. /\ fs # <<>> /\ Len(fs) = n + 1 /\ fs[n] = f /\ fs[n + 1] = new
      /\ \A i \in 1..(n - 1) : fs[i] = frames[i]
  <2>1. /\ Len(fs) = n + 1 /\ fs[n] = f /\ fs[n + 1] = new
        /\ \A i \in 1..(n - 1) : fs[i] = frames[i]
    BY <1>2, PushIs
  <2>2. Len(fs) # 0
    BY <1>1, <2>1
  <2> QED
    BY <2>1, <2>2, SomeItems
<1>4. /\ new.e = e /\ new.block = WorksIn(f) /\ new.depth = Scopes(f) /\ new.calls = 0
      /\ ~InArms(new) /\ Scopes(new) = Scopes(f) /\ WorksIn(new) = WorksIn(f)
  BY DEF Frame, InArms, Scopes, WorksIn
<1> HIDE DEF new
<1>5. /\ DOMAIN G = Nat /\ G[1] = Start /\ frames[1].e = program
      /\ \A k \in 1..(n - 1) :
           frames[k].calls # 0 /\ frames[k + 1].e = Child(frames[k]) /\ G[k + 1] = Due(frames[k], G[k])
  BY DEF Means, StackMeans
<1>6. DOMAIN H = Nat /\ H[n + 1] = Due(f, g) /\ \A k \in 1..n : H[k] = G[k]
  <2>1. n + 1 \in Nat /\ \A k \in 1..n : k \in Nat /\ k # n + 1
    BY <1>1
  <2> HIDE DEF n
  <2> QED
    BY <1>5, <2>1
<1> HIDE DEF n, H
<1>7. Now(new, Due(f, g)) = Now(f, g) /\ Due(f, g).bound = Now(f, g)
  BY <1>4 DEF Now, Due
<1>8. H[1] = Start /\ fs[1].e = program
  <2>1. 1 \in 1..n /\ 1 \in 1..(n + 1) /\ (n = 1 \/ 1 \in 1..(n - 1))
    BY <1>1
  <2>2. n = 1 => fs[1].e = program
    BY <1>1, <1>3, <1>5
  <2> QED
    BY <1>3, <1>5, <1>6, <2>1, <2>2
<1>9. ASSUME NEW k \in 1..n
      PROVE  fs[k].calls # 0 /\ fs[k + 1].e = Child(fs[k]) /\ H[k + 1] = Due(fs[k], H[k])
  <2>1. CASE k = n
    <3>1. H[n] = g
      BY <1>6, <2>1 DEF n
    <3> QED
      BY <1>3, <1>4, <1>6, <2>1, <3>1
  <2>2. CASE k # n
    <3>1. k \in 1..(n - 1) /\ k + 1 \in 1..n /\ (k + 1 = n \/ k + 1 \in 1..(n - 1))
      BY <1>1, <2>2
    <3>2. fs[k] = frames[k] /\ H[k] = G[k] /\ H[k + 1] = G[k + 1]
      BY <1>3, <1>6, <3>1
    <3>3. fs[k + 1].e = frames[k + 1].e
      BY <1>1, <1>3, <3>1
    <3> QED
      BY <1>5, <3>1, <3>2, <3>3
  <2> QED
    BY <2>1, <2>2
<1>10. ASSUME NEW k \in 1..(n + 1)
       PROVE  /\ Known(fs[k], H[k], code', val2, pre2)
              /\ Agrees(env', Scopes(fs[k]), Now(fs[k], H[k]), val2)
  <2>1. CASE k = n + 1
    <3>1. Known(new, Due(f, g), code', val2, pre2)
      <4>1. new.calls # 2 /\ ~(new.calls > 0) /\ ~InArms(new)
        BY <1>4
      <4> DEFINE d == Due(f, g)
      <4>2. d.base \in Seq(Value)
        OBVIOUS
      <4> HIDE DEF d
      <4> QED
        BY <4>1, <4>2 DEF Known, d
    <3>2. Agrees(env', Scopes(new), Now(new, Due(f, g)), val2)
      BY <1>4, <1>7
    <3> QED
      BY <1>3, <1>6, <2>1, <3>1, <3>2
  <2>2. CASE k = n
    <3>1. H[n] = g
      BY <1>6, <2>2 DEF n
    <3> QED
      BY <1>3, <2>2, <3>1
  <2>3. CASE k # n /\ k # n + 1
    <3>1. k \in 1..(n - 1) /\ k \in 1..n
      BY <1>1, <2>3
    <3>2. fs[k] = frames[k] /\ H[k] = G[k]
      BY <1>3, <1>6, <3>1
    <3>3. /\ Known(frames[k], G[k], code', val2, pre2)
          /\ Agrees(env', Scopes(frames[k]), Now(frames[k], G[k]), val2)
      BY <3>1 DEF Evolves, n
    <3> QED
      BY <3>2, <3>3
  <2> QED
    BY <2>1, <2>2, <2>3
<1>11. LatestMeans(new, Due(f, g), code', <<>>, val2, pre2)
  BY <1>4 DEF LatestMeans
<1>12. StackMeans(program, fs, code', env', <<>>, val2, pre2, H)
  <2>1. (n + 1) - 1 = n
    BY <1>1
  <2> QED
    BY <1>3, <1>6, <1>8, <1>9, <1>10, <1>11, <2>1 DEF StackMeans
<1>13. Means(program, frames', code', entry', env', next', ret', val2, pre2, H)
  BY <1>3, <1>12 DEF Means, Evolves
<1> QED
  BY <1>13 DEF MInv

\* A return: the innermost activation is gone, and its value is known to its caller.
LEMMA ReturnMeans ==
  ASSUME IInv, BodyOK, frames # <<>>, NEW program, NEW val, NEW pre, NEW G,
         Means(program, frames, code, entry, env, next, ret, val, pre, G),
         NEW val2, NEW pre2, Evolves(G, code', entry', env', next', val2, pre2),
         NEW t, frames' = Front(frames), ret' = <<t>>,
         NEW g, g = G[Len(frames)], Did(Top.e, g, Top.block, t, code', val2, pre2)
  PROVE  MInv(program)'
<1> DEFINE n == Len(frames)
<1>1. frames \in Seq(Activation) /\ n \in Nat \ {0} /\ Top = frames[n] /\ Nested(frames)
  <2>1. frames \in Seq(Activation) /\ Nested(frames)
    BY DEF IInv, StackOK
  <2>2. n \in Nat \ {0}
    BY <2>1, PopIs
  <2>3. Top = frames[n]
    BY TopIs
  <2> QED
    BY <2>1, <2>2, <2>3
<1> PICK fs : fs = frames'
  OBVIOUS
<1>2. fs \in Seq(Activation) /\ Len(fs) = n - 1 /\ \A k \in 1..(n - 1) : fs[k] = frames[k]
  BY <1>1, PopIs
<1>3. /\ DOMAIN G = Nat /\ G[1] = Start /\ frames[1].e = program
      /\ \A k \in 1..(n - 1) :
           frames[k].calls # 0 /\ frames[k + 1].e = Child(frames[k]) /\ G[k + 1] = Due(frames[k], G[k])
  BY DEF Means, StackMeans
<1>4. <<t>>[1] = t
  OBVIOUS
<1>5. ASSUME fs # <<>>
      PROVE  n - 1 \in 1..(n - 1) /\ LatestMeans(fs[n - 1], G[n - 1], code', <<t>>, val2, pre2)
  <2> DEFINE m == n - 1
             f == frames[m]
  <2>1. n - 1 # 0
    BY <1>2, <1>5, EmptySeq
  <2>2. m \in 1..m /\ m + 1 = n
    BY <1>1, <2>1
  <2> HIDE DEF m
  <2>3. f.calls # 0 /\ Top.e = Child(f) /\ g = Due(f, G[m])
    BY <1>1, <1>3, <2>2 DEF m
  <2>4. Top.block = WorksIn(f)
    BY <1>1, <2>2 DEF Nested, Called, m
  <2> HIDE DEF f
  <2>5. LatestMeans(f, G[m], code', <<t>>, val2, pre2)
    BY <1>4, <2>3, <2>4 DEF LatestMeans
  <2> QED
    BY <1>2, <2>2, <2>5 DEF f, m
<1>6. ASSUME fs = <<>> PROVE Did(program, Start, 1, t, code', val2, pre2)
  <2>1. n = 1
    BY <1>1, <1>2, <1>6
  <2>2. Top.block = 1
    BY <1>1, <2>1 DEF BodyOK
  <2> QED
    BY <1>1, <1>3, <2>1, <2>2
<1>7. ASSUME NEW k \in 1..(n - 1)
      PROVE  /\ Known(fs[k], G[k], code', val2, pre2)
             /\ Agrees(env', Scopes(fs[k]), Now(fs[k], G[k]), val2)
  <2>1. /\ Known(frames[k], G[k], code', val2, pre2)
        /\ Agrees(env', Scopes(frames[k]), Now(frames[k], G[k]), val2)
    BY DEF Evolves
  <2> QED
    BY <1>2, <2>1
<1>8. \A k \in 1..(Len(fs) - 1) :
         fs[k].calls # 0 /\ fs[k + 1].e = Child(fs[k]) /\ G[k + 1] = Due(fs[k], G[k])
  <2>1. \A k \in 1..(Len(fs) - 1) : k \in 1..(n - 1) /\ k + 1 \in 1..(n - 1)
    BY <1>1, <1>2
  <2> QED
    BY <1>2, <1>3, <2>1
<1>9. fs # <<>> => fs[1].e = program
  <2>1. fs # <<>> => 1 \in 1..(n - 1)
    BY <1>1, <1>5
  <2> QED
    BY <1>2, <1>3, <2>1
<1> HIDE DEF n
<1>10. StackMeans(program, fs, code', env', <<t>>, val2, pre2, G)
  BY <1>2, <1>3, <1>5, <1>7, <1>8, <1>9 DEF StackMeans
<1>11. Means(program, frames', code', entry', env', next', ret', val2, pre2, G)
  BY <1>4, <1>6, <1>10 DEF Means, Evolves
<1> QED
  BY <1>11 DEF MInv

MeansNow(program, val, pre, G) ==
  Means(program, frames, code, entry, env, next, ret, val, pre, G)

\* What the innermost activation knows.
LEMMA TopMeans ==
  ASSUME IInv, frames # <<>>, NEW program, NEW val, NEW pre, NEW G, MeansNow(program, val, pre, G),
         NEW g, g = G[Len(frames)]
  PROVE  /\ Known(Top, g, code, val, pre) /\ Agrees(env, Len(env), Now(Top, g), val)
         /\ LatestMeans(Top, g, code, ret, val, pre)
         /\ Ghosts(val, pre) /\ CodeMeans(code, val, pre) /\ EntriesBelow(entry, next)
         /\ NoCopyIn(code, 1) /\ code # <<>> /\ Proper(code)
         /\ Out(code, pre, Top.block) \in Seq(Value)
<1>1. frames \in Seq(Activation) /\ Len(frames) \in 1..Len(frames)
  <2>1. frames \in Seq(Activation)
    BY DEF IInv, StackOK
  <2> QED
    BY <2>1, PopIs
<1>2. Top = frames[Len(frames)] /\ Len(env) = Scopes(Top) /\ Top.block \in 1..Len(code) /\ code \in Code
  BY TopIs
<1>3. /\ Known(Top, g, code, val, pre) /\ Agrees(env, Len(env), Now(Top, g), val)
      /\ LatestMeans(Top, g, code, ret, val, pre)
  BY <1>1, <1>2 DEF MeansNow, Means, StackMeans
<1>4. code # <<>>
  BY <1>2, SomeCode
<1>5. Ghosts(val, pre) /\ CodeMeans(code, val, pre) /\ EntriesBelow(entry, next) /\ NoCopyIn(code, 1)
  BY <1>4 DEF MeansNow, Means
<1>6. Out(code, pre, Top.block) \in Seq(Value)
  <2>1. Len(code[Top.block]) + 1 \in Nat /\ Top.block \in Nat
    BY <1>2 DEF Code
  <2>2. pre \in [Nat -> [Nat -> Seq(Value)]]
    BY <1>5 DEF Ghosts
  <2>3. pre[Top.block] \in [Nat -> Seq(Value)]
    BY <2>1, <2>2
  <2> QED
    BY <2>1, <2>3 DEF Out
<1> QED
  BY <1>3, <1>4, <1>5, <1>6 DEF CodeMeans

\* A step that makes no code.
LEMMA QuietEvolves ==
  ASSUME IInv, frames # <<>>, NEW program, NEW val, NEW pre, NEW G, MeansNow(program, val, pre, G),
         UNCHANGED <<code, entry, next>>, \A k \in 1..Top.depth : env'[k] = env[k]
  PROVE  Evolves(G, code', entry', env', next', val, pre)
<1>1. /\ Ghosts(val, pre) /\ CodeMeans(code, val, pre) /\ EntriesBelow(entry, next)
      /\ NoCopyIn(code, 1) /\ code # <<>>
  BY TopMeans
<1>2. Same(val, val, next)
  BY DEF Same
<1>3. Means(program, frames, code, entry, env, next, ret, val, pre, G)
  BY DEF MeansNow
<1>4. ASSUME NEW k \in 1..(Len(frames) - 1)
      PROVE  /\ Known(frames[k], G[k], code', val, pre)
             /\ Agrees(env', Scopes(frames[k]), Now(frames[k], G[k]), val)
  <2>1. Untouched(code', pre, pre)
    BY DEF Untouched
  <2> QED
    BY <1>2, <1>3, <2>1, OthersKnow
<1> QED
  BY <1>1, <1>4 DEF Evolves

\* The temps that are there keep their values when the next one gets one.
LEMMA NextValue ==
  ASSUME NEW val, NEW pre, Ghosts(val, pre), NEW n \in Nat, NEW v \in Value,
         NEW val2, val2 = [val EXCEPT ![n] = v]
  PROVE  Ghosts(val2, pre) /\ Same(val, val2, n) /\ val2[n] = v /\ val2 \in [Nat -> Value]
<1>1. val \in [Nat -> Value]
  BY DEF Ghosts
<1>2. val2 \in [Nat -> Value] /\ val2[n] = v /\ \A t \in Nat : t # n => val2[t] = val[t]
  BY <1>1
<1>3. \A t \in Nat : t < n => t # n
  OBVIOUS
<1> QED
  BY <1>2, <1>3 DEF Ghosts, Same

\* An instruction that is not a copy brings none into a block.
LEMMA NoCopyPut ==
  ASSUME NEW c \in Code, NEW b \in 1..Len(c), NEW x \in Instruction, x.op # "copy",
         NEW a \in 1..Len(c), NoCopyIn(c, a)
  PROVE  NoCopyIn(Put(c, b, x), a)
<1> SUFFICES ASSUME NEW i \in 1..Len(Put(c, b, x)[a]) PROVE Put(c, b, x)[a][i].op # "copy"
  BY DEF NoCopyIn
<1>1. \/ i \in 1..Len(c[a]) /\ Put(c, b, x)[a][i] = c[a][i]
      \/ a = b /\ i = Len(c[a]) + 1 /\ Put(c, b, x)[a][i] = x
  BY PutAt
<1> QED
  BY <1>1 DEF NoCopyIn

\* pre2 is what is printed once x is there.
AsPrinted(c, val, pre, b, x, pre2) == pre2 = Printed(c, val, pre, b, x)

\* One more instruction with a fresh temp, whose value is v.
Grown(c, en, n, b, x, val, pre, val2, pre2) ==
  /\ Ghosts(val2, pre2) /\ Same(val, val2, n) /\ CodeMeans(Put(c, b, x), val2, pre2)
  /\ Out(Put(c, b, x), pre2, b) = OutWith(c, val2, pre, b, x)
  /\ EntriesBelow(en, n + 1)
  /\ \A d \in 1..Len(c) : d # b => Put(c, b, x)[d] = c[d] /\ pre2[d] = pre[d]

\* The next temp gets a value, and the instruction that writes it a meaning.
LEMMA FreshMeans ==
  ASSUME NEW c, NEW en, NEW n, CodeOK(c, en, n), EntriesBelow(en, n), NEW b \in 1..Len(c),
         NoCopyIn(c, b), NEW x \in Instruction, x.op \notin {"copy", "if"}, Operands(x),
         NEW val, NEW pre, Ghosts(val, pre), CodeMeans(c, val, pre),
         NEW v \in Value, NEW val2, val2 = [val EXCEPT ![n] = v], Computes(c, val2, x),
         NEW pre2, AsPrinted(c, val2, pre, b, x, pre2), Prints(c, val2, pre, x) \in Seq(Value)
  PROVE  Grown(c, en, n, b, x, val, pre, val2, pre2)
<1>1. c \in Code /\ n \in Nat
  BY DEF CodeOK
<1>2. Same(val, val2, n) /\ Ghosts(val2, pre)
  BY <1>1, NextValue
<1>3. CodeMeans(c, val2, pre)
  BY <1>1, <1>2, MeansSame
<1>4. Closed(c, x)
  BY DEF Closed
<1>5. CodeMeans(Put(c, b, x), val2, pre2) /\ Out(Put(c, b, x), pre2, b) = OutWith(c, val2, pre, b, x)
  <2>1. LET q == Printed(c, val2, pre, b, x)
        IN  /\ CodeMeans(Put(c, b, x), val2, q)
            /\ Out(Put(c, b, x), q, b) = OutWith(c, val2, pre, b, x)
    BY <1>1, <1>2, <1>3, <1>4, PutMeans
  <2> QED
    BY <2>1 DEF AsPrinted
<1>6. (\A d \in Nat : d # b => pre2[d] = pre[d]) /\ Ghosts(val2, pre2)
  BY <1>1, <1>2, PrintedIs DEF AsPrinted
<1>7. \A d \in 1..Len(c) : d # b => Put(c, b, x)[d] = c[d]
  BY <1>1, PutIs, ZenonT(30)
<1>8. EntriesBelow(en, n + 1)
  <2>1. en \in Seq(SUBSET Nat)
    BY DEF CodeOK
  <2>2. \A d \in 1..Len(en) : en[d] \subseteq Nat
    BY <2>1
  <2>3. n + 1 \in Nat /\ n <= n + 1
    BY <1>1
  <2> QED
    BY <1>1, <2>2, <2>3, EntriesStay
<1>9. \A d \in 1..Len(c) : d \in Nat
  OBVIOUS
<1> QED
  BY <1>2, <1>5, <1>6, <1>7, <1>8, <1>9 DEF Grown

\* A step that makes one, x, with the value v.
Emitted(x, val, pre, v, val2, pre2) ==
  /\ val2 = [val EXCEPT ![next] = v]
  /\ AsPrinted(code, val2, pre, Top.block, x, pre2)

EmitMeans(G, x, val, pre, val2, pre2, c) ==
  /\ Evolves(G, c, entry, env, next + 1, val2, pre2)
  /\ Out(c, pre2, Top.block) = OutWith(code, val2, pre, Top.block, x)

\* What is so after an instruction is emitted into the block at work.
LEMMA EmitEvolves ==
  ASSUME IInv, frames # <<>>, NEW program, NEW val, NEW pre, NEW G, MeansNow(program, val, pre, G),
         NEW x \in Instruction, x.op \notin {"copy", "if"}, Operands(x),
         NEW v \in Value, NEW val2, NEW pre2, Emitted(x, val, pre, v, val2, pre2),
         Computes(code, val2, x), Prints(code, val2, pre, x) \in Seq(Value),
         NEW c, c = Put(code, Top.block, x)
  PROVE  EmitMeans(G, x, val, pre, val2, pre2, c)
<1> DEFINE b == Top.block
<1>1. /\ Ghosts(val, pre) /\ CodeMeans(code, val, pre) /\ EntriesBelow(entry, next)
      /\ NoCopyIn(code, 1) /\ code # <<>>
  BY TopMeans
<1>2. /\ b \in 1..Len(code) /\ code \in Code /\ CodeOK(code, entry, next) /\ next \in Nat
      /\ NoCopyIn(code, b)
  BY TopIs DEF ActivationOK, Owns
<1> HIDE DEF b
<1>3. /\ x.op # "copy" /\ b = Top.block /\ c = Put(code, b, x)
      /\ AsPrinted(code, val2, pre, b, x, pre2) /\ val2 = [val EXCEPT ![next] = v]
  BY DEF b, Emitted
<1>4. /\ Ghosts(val2, pre2) /\ Same(val, val2, next) /\ CodeMeans(c, val2, pre2)
      /\ Out(c, pre2, b) = OutWith(code, val2, pre, b, x) /\ EntriesBelow(entry, next + 1)
      /\ \A d \in 1..Len(code) : d # b => c[d] = code[d] /\ pre2[d] = pre[d]
  <2>1. Grown(code, entry, next, b, x, val, pre, val2, pre2)
    BY <1>1, <1>2, <1>3, FreshMeans
  <2> QED
    BY <1>3, <2>1 DEF Grown
<1>5. Len(c) = Len(code) /\ c # <<>> /\ NoCopyIn(c, 1)
  <2>1. Len(Put(code, b, x)) = Len(code)
    BY <1>2, PutIs
  <2>2. 1 \in 1..Len(code)
    BY <1>2 DEF Code
  <2>3. NoCopyIn(Put(code, b, x), 1)
    BY <1>1, <1>2, <1>3, <2>2, NoCopyPut
  <2>4. c = Put(code, b, x)
    BY <1>3
  <2>5. c # <<>>
    BY <2>1, <2>2, <2>4, SomeCode
  <2> QED
    BY <2>1, <2>3, <2>4, <2>5
<1>6. Untouched(c, pre, pre2)
  BY <1>3, <1>4 DEF Untouched
<1>7. Means(program, frames, code, entry, env, next, ret, val, pre, G)
  BY DEF MeansNow
<1>8. ASSUME NEW k \in 1..(Len(frames) - 1)
      PROVE  /\ Known(frames[k], G[k], c, val2, pre2)
             /\ Agrees(env, Scopes(frames[k]), Now(frames[k], G[k]), val2)
  <2>1. \A i \in 1..Top.depth : env[i] = env[i]
    OBVIOUS
  <2> QED
    BY <1>4, <1>6, <1>7, <2>1, OthersKnow
<1> QED
  BY <1>3, <1>4, <1>5, <1>8 DEF Evolves, EmitMeans

-----------------------------------------------------------------------------
(* The meaning of each kind of expression.                                 *)

\* What is printed is joined in any order.
LEMMA OutJoined ==
  ASSUME NEW p \in Seq(Value), NEW q \in Seq(Value), NEW u \in Seq(Value)
  PROVE  (p \o q) \o u = p \o (q \o u) /\ p \o q \in Seq(Value) /\ p \o <<>> = p
<1>1. (p \o q) \o u = p \o (q \o u)
  BY SMT
<1>2. p \o q \in Seq(Value)
  BY ConcatProperties
<1>3. p \o <<>> = p
  BY ConcatEmptySeq
<1> QED
  BY <1>1, <1>2, <1>3

\* OutJoined, where only the grouping matters.
LEMMA Regrouped ==
  ASSUME NEW p \in Seq(Value), NEW q \in Seq(Value), NEW u \in Seq(Value)
  PROVE  (p \o q) \o u = p \o (q \o u) /\ q \o u \in Seq(Value)
BY OutJoined

\* OutJoined, when nothing is printed at the end.
LEMMA JoinedTwice ==
  ASSUME NEW p \in Seq(Value), NEW q \in Seq(Value), NEW u \in Seq(Value)
  PROVE  ((p \o q) \o u) \o <<>> = p \o (q \o u) /\ q \o u \in Seq(Value)
<1>1. p \o q \in Seq(Value) /\ q \o u \in Seq(Value)
  BY OutJoined
<1>2. (p \o q) \o u \in Seq(Value)
  BY <1>1, OutJoined
<1>3. ((p \o q) \o u) \o <<>> = (p \o q) \o u
  BY <1>2, OutJoined
<1>4. (p \o q) \o u = p \o (q \o u)
  BY OutJoined
<1> QED
  BY <1>1, <1>3, <1>4

\* A literal is its value.
LEMMA NumIs ==
  ASSUME IsEval, NEW e \in Expr, e.kind = "num", NEW bound
  PROVE  Eval(e, bound) = [value |-> e.value, out |-> <<>>]
<1>1. Eval(e, bound) = EvalOf(e, bound)
  BY DEF IsEval
<1> QED
  BY <1>1 DEF EvalOf

\* A name is what it is bound to.
LEMMA VarIs ==
  ASSUME IsEval, NEW e \in Expr, e.kind = "var", NEW bound
  PROVE  Eval(e, bound) = [value |-> bound[e.name], out |-> <<>>]
<1>1. Eval(e, bound) = EvalOf(e, bound)
  BY DEF IsEval
<1> QED
  BY <1>1 DEF EvalOf

\* An operation applies to the values of its operands.
LEMMA BinOpIs ==
  ASSUME IsEval, NEW e \in Expr, e.kind = "binop", NEW bound
  PROVE  /\ Eval(e, bound).value = Arith(e.op, Eval(e.lhs, bound).value, Eval(e.rhs, bound).value)
         /\ Eval(e, bound).out = Eval(e.lhs, bound).out \o Eval(e.rhs, bound).out
<1> DEFINE l == Eval(e.lhs, bound)
           r == Eval(e.rhs, bound)
           o == l.out \o r.out
<1>1. Eval(e, bound) = EvalOf(e, bound)
  BY DEF IsEval
<1>2. Eval(e, bound) = [value |-> Arith(e.op, l.value, r.value), out |-> o]
  BY <1>1 DEF EvalOf
<1> HIDE DEF l, r, o
<1>3. Eval(e, bound).value = Arith(e.op, l.value, r.value) /\ Eval(e, bound).out = o
  BY <1>2
<1> QED
  BY <1>3 DEF o, l, r

\* An `if` is the arm its condition selects.
LEMMA BranchMeans ==
  ASSUME IsEval, NEW e \in Expr, e.kind = "if", NEW bound
  PROVE  LET c == Eval(e.cond, bound)
             b == Eval(IF c.value # Zero THEN e.then ELSE e.else, bound)
         IN  Eval(e, bound).value = b.value /\ Eval(e, bound).out = c.out \o b.out
<1> DEFINE c == Eval(e.cond, bound)
           b == Eval(IF c.value # Zero THEN e.then ELSE e.else, bound)
           o == c.out \o b.out
<1>1. Eval(e, bound) = EvalOf(e, bound)
  BY DEF IsEval
<1>2. Eval(e, bound) = [value |-> b.value, out |-> o]
  BY <1>1 DEF EvalOf
<1> HIDE DEF c, b, o
<1>3. Eval(e, bound).value = b.value /\ Eval(e, bound).out = o
  BY <1>2
<1> QED
  BY <1>3 DEF o, b, c

\* A block is its result, with its names in scope.
LEMMA BlockIsDone ==
  ASSUME IsEval, NEW e \in Expr, e.kind = "block", NEW bound
  PROVE  LET s == After(e, bound, Len(e.stmts))
             r == Eval(e.result, s.bound)
         IN  Eval(e, bound).value = r.value /\ Eval(e, bound).out = s.out \o r.out
<1> DEFINE s == After(e, bound, Len(e.stmts))
           r == Eval(e.result, s.bound)
           o == s.out \o r.out
<1>1. Eval(e, bound) = EvalOf(e, bound)
  BY DEF IsEval
<1>2. Eval(e, bound) = [value |-> r.value, out |-> o]
  BY <1>1 DEF EvalOf
<1> HIDE DEF s, r, o
<1>3. Eval(e, bound).value = r.value /\ Eval(e, bound).out = o
  BY <1>2
<1> QED
  BY <1>3 DEF o, s, r

\* Before its first statement a block has bound and printed nothing.
LEMMA AfterNone ==
  ASSUME IsEval, NEW e \in Expr, NEW bound
  PROVE  After(e, bound, 0).bound = bound /\ After(e, bound, 0).out = <<>>
<1>1. After(e, bound, 0) = AfterOf(e, bound, 0)
  BY DEF IsEval
<1>2. After(e, bound, 0) = [bound |-> bound, out |-> <<>>]
  BY <1>1 DEF AfterOf
<1> QED
  BY <1>2

\* What the nth statement adds.
StmtAdds(e, bound, n) ==
  LET s == After(e, bound, n - 1)
      t == After(e, bound, n)
      v == Eval(e.stmts[n].value, s.bound)
  IN  /\ e.stmts[n].kind = "let" =>
           t.bound = With(s.bound, e.stmts[n].name, v.value) /\ t.out = s.out \o v.out
      /\ e.stmts[n].kind # "let" => t.bound = s.bound /\ t.out = s.out \o Append(v.out, v.value)

\* What the next statement of a block adds.
LEMMA AfterNext ==
  ASSUME IsEval, NEW e \in Expr, NEW bound, NEW n \in Nat, n # 0
  PROVE  StmtAdds(e, bound, n)
<1> DEFINE s == After(e, bound, n - 1)
           t == After(e, bound, n)
           v == Eval(e.stmts[n].value, s.bound)
<1> DEFINE st == e.stmts[n]
           o == s.out \o v.out
           p == s.out \o Append(v.out, v.value)
           w == With(s.bound, st.name, v.value)
<1>1. t = AfterOf(e, bound, n)
  BY DEF IsEval
<1>2. t = AfterStmt(s, st)
  BY <1>1 DEF AfterOf
<1>3. t = IF st.kind = "let" THEN [bound |-> w, out |-> o] ELSE [bound |-> s.bound, out |-> p]
  BY <1>2 DEF AfterStmt
<1> HIDE DEF st, o, p, w, s, t, v
<1>4. /\ st.kind = "let" => t.bound = w /\ t.out = o
      /\ st.kind # "let" => t.bound = s.bound /\ t.out = p
  BY <1>3
<1> QED
  BY <1>4 DEF st, o, p, w, s, t, v, StmtAdds

\* What the latest call of an activation is called with.
LEMMA DueIs ==
  ASSUME NEW f, NEW g
  PROVE  /\ f.e.kind = "binop" /\ f.calls = 2 => Due(f, g).base = g.base \o Eval(f.e.lhs, g.bound).out
         /\ f.e.kind = "block" => Due(f, g).base = g.base \o After(f.e, g.bound, f.calls - 1).out
         /\ Due(f, g).bound = Now(f, g)
<1> DEFINE o == g.base \o After(f.e, g.bound, f.calls - 1).out
           p == g.base \o Eval(f.e.lhs, g.bound).out
           none == <<>>
<1>1. Due(f, g) = [bound |-> Now(f, g),
                   base |-> CASE f.e.kind = "block" -> o
                              [] f.e.kind = "binop" /\ f.calls = 2 -> p
                              [] InArms(f) -> none
                              [] OTHER -> g.base]
  BY DEF Due
<1>2. f.e.kind = "binop" => ~InArms(f)
  BY DEF InArms
<1> HIDE DEF o, p, none
<1>3. Due(f, g).bound = Now(f, g)
  BY <1>1
<1>4. ASSUME f.e.kind = "block" PROVE Due(f, g).base = o
  BY <1>1, <1>2, <1>4 DEF InArms
<1>5. ASSUME f.e.kind = "binop", f.calls = 2 PROVE Due(f, g).base = p
  BY <1>1, <1>2, <1>5
<1> QED
  BY <1>3, <1>4, <1>5 DEF o, p

-----------------------------------------------------------------------------
(* One lemma per step of lowering.                                         *)

LEMMA NumberMeans ==
  ASSUME IsAst, IsNumeric, IsEval, IInv, CodeRuns, NEW program, MInv(program), LowerNumber
  PROVE  MInv(program)'
<1> PICK val, pre, G : MeansNow(program, val, pre, G)
  BY DEF MInv, MeansNow
<1> DEFINE g == G[Len(frames)]
           b == Top.block
           v == Top.e.value
           x == Const(next, v)
<1>1. /\ frames # <<>> /\ Top.e.kind = "num" /\ Top.calls = 0
      /\ frames' = Front(frames) /\ ret' = <<next>> /\ next' = next + 1
      /\ code' = Put(code, b, x) /\ entry' = entry /\ env' = env
  BY DEF LowerNumber, At, Return, Emit, Put
<1> PICK c : c = Put(code, b, x)
  OBVIOUS
<1> PICK val2 : val2 = [val EXCEPT ![next] = v]
  OBVIOUS
<1> PICK pre2 : AsPrinted(code, val2, pre, b, x, pre2)
  BY DEF AsPrinted
<1>2. /\ Top \in Activation /\ Top.e \in Expr /\ next \in Nat
  BY <1>1, TopIs DEF Activation
<1>3. v \in Value
  BY <1>1, <1>2 DEF IsNumeric
<1>4. /\ Known(Top, g, code, val, pre) /\ LatestMeans(Top, g, code, ret, val, pre)
      /\ Ghosts(val, pre) /\ code # <<>>
  BY <1>1, TopMeans
<1>5. Out(code, pre, b) = g.base /\ g.base \in Seq(Value)
  BY <1>1, <1>4 DEF LatestMeans, Known
<1>6. x \in Instruction /\ x.op = "const" /\ x.what = v /\ x.dst = next /\ x.args = <<>>
  <2>1. v \in What
    BY <1>2 DEF What
  <2> HIDE DEF v
  <2> QED
    BY <1>2, <2>1 DEF Instruction, Const, Instr
<1> HIDE DEF v, x
<1>7. val2[next] = v
  BY <1>2, <1>3, <1>4, NextValue
<1>8. x.op \notin {"copy", "if"} /\ Operands(x) /\ Computes(code, val2, x) /\ Prints(code, val2, pre, x) = <<>>
  BY <1>6, <1>7 DEF Operands, Computes, Prints
<1>9. Prints(code, val2, pre, x) \in Seq(Value)
  BY <1>8
<1>10. Evolves(G, c, entry, env, next + 1, val2, pre2) /\ Out(c, pre2, b) = OutWith(code, val2, pre, b, x)
  <2>1. Emitted(x, val, pre, v, val2, pre2)
    BY DEF Emitted
  <2>2. EmitMeans(G, x, val, pre, val2, pre2, c)
    BY <1>1, <1>3, <1>6, <1>8, <1>9, <2>1, EmitEvolves
  <2> QED
    BY <2>2 DEF EmitMeans
<1>11. Did(Top.e, g, b, next, c, val2, pre2)
  <2>1. Eval(Top.e, g.bound) = [value |-> v, out |-> <<>>]
    BY <1>1, <1>2, NumIs DEF v
  <2>2. Out(c, pre2, b) = g.base \o <<>>
    BY <1>5, <1>8, <1>10 DEF OutWith
  <2>3. Eval(Top.e, g.bound).value = v /\ Eval(Top.e, g.bound).out = <<>>
    BY <2>1
  <2> QED
    BY <1>7, <2>2, <2>3 DEF Did
<1>12. BodyOK /\ Means(program, frames, code, entry, env, next, ret, val, pre, G)
  BY <1>4 DEF CodeRuns, MeansNow
<1>13. Evolves(G, code', entry', env', next', val2, pre2) /\ Did(Top.e, g, Top.block, next, code', val2, pre2)
  BY <1>1, <1>10, <1>11
<1> QED
  BY <1>1, <1>12, <1>13, ReturnMeans

\* LowerVar returns the temp that the name is bound to.
LEMMA VarMeans ==
  ASSUME IsAst, IsNumeric, IsEval, IInv, CodeRuns, NEW program, MInv(program), LowerVar
  PROVE  MInv(program)'
<1> PICK val, pre, G : MeansNow(program, val, pre, G)
  BY DEF MInv, MeansNow
<1> DEFINE g == G[Len(frames)]
           b == Top.block
           name == Top.e.name
           Ss == ScopesWith(name)
           k == Innermost(Ss)
           t == env[k][name]
<1>1. /\ frames # <<>> /\ Top.e.kind = "var" /\ Top.calls = 0 /\ Ss # {}
      /\ frames' = Front(frames) /\ ret' = <<t>> /\ UNCHANGED <<env, code, entry, next>>
  BY DEF LowerVar, At, Return
<1>2. /\ Top \in Activation /\ Top.e \in Expr
      /\ Len(env) = Top.depth
  BY <1>1, TopIs DEF Activation, Scopes
<1>3. /\ Known(Top, g, code, val, pre) /\ LatestMeans(Top, g, code, ret, val, pre)
      /\ Agrees(env, Len(env), Now(Top, g), val) /\ code # <<>>
  BY <1>1, TopMeans
<1>4. Out(code, pre, b) = g.base /\ g.base \in Seq(Value) /\ Now(Top, g) = g.bound
  BY <1>1, <1>3 DEF LatestMeans, Known, Now
<1>5. Len(env) \in Nat /\ DOMAIN env = 1..Len(env)
  BY EnvIs
<1>6. Ss \subseteq 1..Len(env)
  BY <1>5 DEF ScopesWith
<1>7. k \in Ss /\ \A j \in Ss : j <= k
  <2>1. \E i \in Ss : \A j \in Ss : j <= i
    BY <1>1, <1>5, <1>6, GreatestNumber
  <2> HIDE DEF Ss
  <2> QED
    BY <2>1, Zenon DEF Innermost
<1>8. /\ k \in 1..Len(env) /\ name \in DOMAIN env[k]
      /\ \A j \in 1..Len(env) : j > k => name \notin DOMAIN env[j]
  <2>1. k \in 1..Len(env) /\ name \in DOMAIN env[k]
    BY <1>6, <1>7 DEF ScopesWith
  <2>2. ASSUME NEW j \in 1..Len(env), j > k PROVE name \notin DOMAIN env[j]
    <3>1. j \notin Ss
      BY <1>5, <1>6, <1>7, <2>2
    <3> QED
      BY <1>5, <3>1 DEF ScopesWith
  <2> QED
    BY <2>1, <2>2
<1> HIDE DEF k
<1>9. g.bound[name] = val[t]
  BY <1>3, <1>4, <1>8 DEF Agrees
<1> HIDE DEF t
<1>10. Did(Top.e, g, b, t, code, val, pre)
  <2>1. Eval(Top.e, g.bound) = [value |-> g.bound[name], out |-> <<>>]
    BY <1>1, <1>2, VarIs
  <2>2. Eval(Top.e, g.bound).value = val[t] /\ Eval(Top.e, g.bound).out = <<>>
    BY <1>9, <2>1
  <2>3. g.base \o <<>> = g.base
    BY <1>4, ConcatEmptySeq
  <2> QED
    BY <1>4, <2>2, <2>3 DEF Did
<1>11. Evolves(G, code', entry', env', next', val, pre)
  <2>1. \A i \in 1..Top.depth : env'[i] = env[i]
    BY <1>1
  <2> QED
    BY <1>1, <2>1, QuietEvolves
<1>12. BodyOK /\ Means(program, frames, code, entry, env, next, ret, val, pre, G)
  BY <1>3 DEF CodeRuns, MeansNow
<1>13. Did(Top.e, g, Top.block, t, code', val, pre)
  BY <1>1, <1>10
<1> QED
  BY <1>1, <1>11, <1>12, <1>13, ReturnMeans

\* A call for which no code was made.
LEMMA QuietCallMeans ==
  ASSUME IInv, frames # <<>>, NEW program, NEW val, NEW pre, NEW G, MeansNow(program, val, pre, G),
         UNCHANGED <<code, entry, next>>, \A k \in 1..Top.depth : env'[k] = env[k],
         NEW f \in Activation, f.e = Top.e, f.block = Top.block, f.calls # 0, ~InArms(f),
         NEW g, g = G[Len(frames)], Known(f, g, code, val, pre),
         Agrees(env', Scopes(f), Now(f, g), val),
         Out(code, pre, Top.block) = Due(f, g).base,
         frames' = Front(frames) \o <<f, Frame(Child(f), Top.block, Scopes(f))>>, ret' = <<>>
  PROVE  MInv(program)'
<1>1. Evolves(G, code', entry', env', next', val, pre)
  BY QuietEvolves
<1>2. Means(program, frames, code, entry, env, next, ret, val, pre, G)
  BY DEF MeansNow
<1>3. WorksIn(f) = Top.block
  BY DEF WorksIn
<1>4. Due(f, g).base \in Seq(Value)
  BY TopMeans
<1>5. Known(f, g, code', val, pre) /\ Out(code', pre, WorksIn(f)) = Due(f, g).base
  BY <1>3
<1>6. frames' = Front(frames) \o <<f, Frame(Child(f), WorksIn(f), Scopes(f))>>
  BY <1>3
<1> QED
  BY <1>1, <1>2, <1>4, <1>5, <1>6, CallMeans

\* LowerLhs calls for the left operand.
LEMMA LhsMeans ==
  ASSUME IsAst, IsNumeric, IsEval, IInv, CodeRuns, NEW program, MInv(program), LowerLhs
  PROVE  MInv(program)'
<1> PICK val, pre, G : MeansNow(program, val, pre, G)
  BY DEF MInv, MeansNow
<1> DEFINE g == G[Len(frames)]
           f == [Top EXCEPT !.calls = @ + 1]
<1>1. /\ frames # <<>> /\ Top.e.kind = "binop" /\ Top.calls = 0
      /\ UNCHANGED <<env, code, entry, next>> /\ ret' = <<>>
      /\ frames' = Front(frames) \o <<f, Frame(Top.e.lhs, Top.block, Len(env))>>
  BY DEF LowerLhs, At, CallLower, CallIn
<1>2. Top \in Activation /\ Len(env) = Scopes(Top)
  BY <1>1, TopIs
<1>3. f \in Activation /\ f.e = Top.e /\ f.block = Top.block /\ f.depth = Top.depth /\ f.calls = 1
  <2>1. /\ f \in Activation /\ f.e = Top.e /\ f.block = Top.block /\ f.depth = Top.depth
        /\ f.calls = Top.calls + 1
    BY <1>2, NextCall
  <2> HIDE DEF f
  <2> QED
    BY <1>1, <2>1
<1> HIDE DEF f
<1>4. /\ Known(Top, g, code, val, pre) /\ LatestMeans(Top, g, code, ret, val, pre)
      /\ Agrees(env, Len(env), Now(Top, g), val)
  BY <1>1, TopMeans
<1>5. /\ ~InArms(f) /\ f.calls # 0 /\ Scopes(f) = Len(env) /\ Now(f, g) = Now(Top, g)
      /\ Child(f) = Top.e.lhs /\ Due(f, g).base = g.base
  BY <1>1, <1>2, <1>3 DEF InArms, Scopes, Now, Child, Due
<1>6. Known(f, g, code, val, pre)
  <2>1. g.base \in Seq(Value)
    BY <1>4 DEF Known
  <2>2. f.e.kind = "binop" /\ f.calls # 2 /\ ~InArms(f)
    BY <1>1, <1>3, <1>5
  <2> QED
    BY <2>1, <2>2 DEF Known
<1>7. Out(code, pre, Top.block) = Due(f, g).base
  BY <1>1, <1>4, <1>5 DEF LatestMeans
<1>8. Agrees(env', Scopes(f), Now(f, g), val) /\ \A k \in 1..Top.depth : env'[k] = env[k]
  BY <1>1, <1>4, <1>5
<1> QED
  BY <1>1, <1>3, <1>5, <1>6, <1>7, <1>8, QuietCallMeans

\* LowerCond calls for the condition.
LEMMA CondMeans ==
  ASSUME IsAst, IsNumeric, IsEval, IInv, CodeRuns, NEW program, MInv(program), LowerCond
  PROVE  MInv(program)'
<1> PICK val, pre, G : MeansNow(program, val, pre, G)
  BY DEF MInv, MeansNow
<1> DEFINE g == G[Len(frames)]
           f == [Top EXCEPT !.calls = @ + 1]
<1>1. /\ frames # <<>> /\ Top.e.kind = "if" /\ Top.calls = 0
      /\ UNCHANGED <<env, code, entry, next>> /\ ret' = <<>>
      /\ frames' = Front(frames) \o <<f, Frame(Top.e.cond, Top.block, Len(env))>>
  BY DEF LowerCond, At, CallLower, CallIn
<1>2. Top \in Activation /\ Len(env) = Scopes(Top)
  BY <1>1, TopIs
<1>3. f \in Activation /\ f.e = Top.e /\ f.block = Top.block /\ f.depth = Top.depth /\ f.calls = 1
  <2>1. /\ f \in Activation /\ f.e = Top.e /\ f.block = Top.block /\ f.depth = Top.depth
        /\ f.calls = Top.calls + 1
    BY <1>2, NextCall
  <2> HIDE DEF f
  <2> QED
    BY <1>1, <2>1
<1> HIDE DEF f
<1>4. /\ Known(Top, g, code, val, pre) /\ LatestMeans(Top, g, code, ret, val, pre)
      /\ Agrees(env, Len(env), Now(Top, g), val)
  BY <1>1, TopMeans
<1>5. /\ ~InArms(f) /\ f.calls # 0 /\ Scopes(f) = Len(env) /\ Now(f, g) = Now(Top, g)
      /\ Child(f) = Top.e.cond /\ Due(f, g).base = g.base
  BY <1>1, <1>2, <1>3 DEF InArms, Scopes, Now, Child, Due
<1>6. Known(f, g, code, val, pre)
  <2>1. g.base \in Seq(Value)
    BY <1>4 DEF Known
  <2>2. f.e.kind = "if" /\ ~InArms(f)
    BY <1>1, <1>3, <1>5
  <2> QED
    BY <2>1, <2>2 DEF Known
<1>7. Out(code, pre, Top.block) = Due(f, g).base
  BY <1>1, <1>4, <1>5 DEF LatestMeans
<1>8. Agrees(env', Scopes(f), Now(f, g), val) /\ \A k \in 1..Top.depth : env'[k] = env[k]
  BY <1>1, <1>4, <1>5
<1> QED
  BY <1>1, <1>3, <1>5, <1>6, <1>7, <1>8, QuietCallMeans

\* LowerRhs calls for the right operand, after the left.
LEMMA RhsMeans ==
  ASSUME IsAst, IsNumeric, IsEval, IInv, CodeRuns, NEW program, MInv(program), LowerRhs
  PROVE  MInv(program)'
<1> PICK val, pre, G : MeansNow(program, val, pre, G)
  BY DEF MInv, MeansNow
<1> DEFINE g == G[Len(frames)]
           h == [Top EXCEPT !.temps = <<Returned>>]
           f == [h EXCEPT !.calls = @ + 1]
           m == Eval(Top.e.lhs, g.bound)
<1>1. /\ frames # <<>> /\ ret # <<>> /\ Top.e.kind = "binop" /\ Top.calls = 1
      /\ UNCHANGED <<env, code, entry, next>> /\ ret' = <<>>
      /\ frames' = Front(frames) \o <<f, Frame(Top.e.rhs, Top.block, Len(env))>>
  BY DEF LowerRhs, At, CallLower, CallIn
<1>2. Top \in Activation /\ Len(env) = Scopes(Top) /\ ~InArms(Top)
  BY <1>1, TopIs DEF InArms
<1>3. /\ f \in Activation /\ f.e = Top.e /\ f.block = Top.block /\ f.depth = Top.depth
      /\ f.calls = 2 /\ f.temps[1] = Returned
  <2> DEFINE s == <<Returned>>
  <2>1. s \in Seq(Nat) /\ s[1] = Returned
    BY <1>1, <1>2, ReturnedHere
  <2> HIDE DEF s
  <2>2. h = [Top EXCEPT !.temps = s]
    BY DEF s
  <2>3. /\ h \in Activation /\ h.e = Top.e /\ h.block = Top.block /\ h.depth = Top.depth
        /\ h.calls = 1 /\ h.temps = s
    BY <1>1, <1>2, <2>1, <2>2 DEF Activation
  <2> HIDE DEF h
  <2>4. /\ f \in Activation /\ f.e = h.e /\ f.block = h.block /\ f.depth = h.depth
        /\ f.calls = h.calls + 1 /\ f.temps = h.temps
    BY <2>3, NextCall
  <2> HIDE DEF f
  <2> QED
    BY <2>1, <2>3, <2>4
<1> HIDE DEF f
<1>4. /\ Known(Top, g, code, val, pre) /\ LatestMeans(Top, g, code, ret, val, pre)
      /\ Agrees(env, Len(env), Now(Top, g), val)
  BY <1>1, TopMeans
<1>5. /\ ~InArms(f) /\ f.calls # 0 /\ Scopes(f) = Len(env) /\ Now(f, g) = Now(Top, g)
      /\ Child(f) = Top.e.rhs /\ f.e.kind = "binop" /\ f.e.lhs = Top.e.lhs
  BY <1>1, <1>2, <1>3 DEF InArms, Scopes, Now, Child
<1>6. Due(f, g).base = g.base \o m.out
  BY <1>1, <1>3, <1>5 DEF Due
<1>7. val[Returned] = m.value /\ m.out \in Seq(Value) /\ Out(code, pre, Top.block) = g.base \o m.out
  <2>1. Did(Child(Top), Due(Top, g), WorksIn(Top), Returned, code, val, pre)
    BY <1>1, <1>4 DEF LatestMeans, Returned
  <2>2. /\ Child(Top) = Top.e.lhs /\ WorksIn(Top) = Top.block
        /\ Due(Top, g).bound = g.bound /\ Due(Top, g).base = g.base
    BY <1>1, <1>2 DEF Child, WorksIn, Due, Now
  <2> QED
    BY <2>1, <2>2 DEF Did
<1> HIDE DEF m
<1>8. Known(f, g, code, val, pre)
  <2>1. g.base \in Seq(Value)
    BY <1>4 DEF Known
  <2>2. f.e.kind = "binop" /\ ~InArms(f)
    BY <1>5
  <2>3. LET n == Eval(f.e.lhs, g.bound) IN val[f.temps[1]] = n.value /\ n.out \in Seq(Value)
    BY <1>3, <1>5, <1>7 DEF m
  <2> QED
    BY <2>1, <2>2, <2>3 DEF Known
<1>9. Out(code, pre, Top.block) = Due(f, g).base
  BY <1>6, <1>7
<1>10. Agrees(env', Scopes(f), Now(f, g), val) /\ \A k \in 1..Top.depth : env'[k] = env[k]
  BY <1>1, <1>4, <1>5
<1> QED
  BY <1>1, <1>3, <1>5, <1>8, <1>9, <1>10, QuietCallMeans

\* EmitBinOp emits the operation, or the call of the built-in it stands for.
LEMMA BinOpMeans ==
  ASSUME IsAst, IsNumeric, IsKinds, IsEval, IInv, CodeRuns, NEW program, MInv(program), EmitBinOp
  PROVE  MInv(program)'
<1> PICK val, pre, G : MeansNow(program, val, pre, G)
  BY DEF MInv, MeansNow
<1> DEFINE g == G[Len(frames)]
           b == Top.block
           op == Top.e.op
           l == Eval(Top.e.lhs, g.bound)
           r == Eval(Top.e.rhs, g.bound)
           v == Arith(op, l.value, r.value)
           args == <<Top.temps[1], Returned>>
           x == OpInstr(op, next, Top.temps[1], Returned)
<1>1. /\ frames # <<>> /\ ret # <<>> /\ Top.e.kind = "binop" /\ Top.calls = 2
      /\ frames' = Front(frames) /\ ret' = <<next>> /\ next' = next + 1
      /\ code' = Put(code, b, x) /\ entry' = entry /\ env' = env
  BY DEF EmitBinOp, At, Return, Emit, Put
<1>2. /\ Top \in Activation /\ Top.e \in Expr /\ next \in Nat /\ ~InArms(Top)
      /\ Top.temps \in Seq(Nat) /\ Len(Top.temps) = 1
  BY <1>1, TopIs DEF Activation, InArms, ActivationOK, Shape
<1>3. args \in Seq(Nat) /\ Len(args) = 2 /\ args[1] = Top.temps[1] /\ args[2] = Returned
  <2>1. Returned \in Nat
    BY <1>1, ReturnedIs
  <2>2. Top.temps[1] \in Nat
    BY <1>2
  <2> QED
    BY <2>1, <2>2
<1>4. /\ Known(Top, g, code, val, pre) /\ LatestMeans(Top, g, code, ret, val, pre)
      /\ Ghosts(val, pre) /\ code # <<>>
  BY <1>1, TopMeans
<1>5. g.base \in Seq(Value) /\ val[Top.temps[1]] = l.value /\ l.out \in Seq(Value)
  BY <1>1, <1>4 DEF Known
<1>6. val[Returned] = r.value /\ r.out \in Seq(Value) /\ Out(code, pre, b) = (g.base \o l.out) \o r.out
  <2>1. Did(Child(Top), Due(Top, g), WorksIn(Top), Returned, code, val, pre)
    BY <1>1, <1>4 DEF LatestMeans, Returned
  <2>2. Child(Top) = Top.e.rhs /\ WorksIn(Top) = b /\ Due(Top, g).bound = g.bound
    BY <1>1, <1>2 DEF Child, WorksIn, Due, Now
  <2>3. Due(Top, g).base = g.base \o l.out
    BY <1>1, DueIs
  <2> HIDE DEF l
  <2> QED
    BY <2>1, <2>2, <2>3 DEF Did
<1>7. op \in BinOps /\ v \in Value
  <2>1. op \in BinOps
    BY <1>1, <1>2 DEF IsKinds
  <2>2. val \in [Nat -> Value]
    BY <1>4 DEF Ghosts
  <2>3. l.value \in Value /\ r.value \in Value
    <3>1. Top.temps[1] \in Nat /\ Returned \in Nat
      BY <1>1, <1>2, ReturnedIs
    <3> HIDE DEF l, r
    <3> QED
      BY <1>5, <1>6, <2>2, <3>1
  <2> HIDE DEF op, l, r
  <2> QED
    BY <2>1, <2>3 DEF IsNumeric
<1>8. /\ x \in Instruction /\ x.op \in {"call", "binop"} /\ x.what = op /\ x.dst = next /\ x.args = args
      /\ op # "print"
  <2>1. op \in What
    BY <1>2 DEF What
  <2>2. <<>> \in Seq(Nat)
    OBVIOUS
  <2>3. x = [op |-> IF op \in Builtins THEN "call" ELSE "binop", what |-> op, dst |-> next,
             args |-> args, arms |-> <<>>]
    BY <1>7 DEF OpInstr, Call, Div, Instr, Builtins, BinOps
  <2>4. op # "print"
    BY <1>7 DEF BinOps
  <2> HIDE DEF x, op, args
  <2> QED
    BY <1>2, <1>3, <2>1, <2>2, <2>3, <2>4 DEF Instruction
<1> PICK c : c = Put(code, b, x)
  OBVIOUS
<1> PICK val2 : val2 = [val EXCEPT ![next] = v]
  OBVIOUS
<1> PICK pre2 : AsPrinted(code, val2, pre, b, x, pre2)
  BY DEF AsPrinted
<1>9. Emitted(x, val, pre, v, val2, pre2)
  BY DEF Emitted
<1> HIDE DEF v, x, l, r, args, op
<1>10. val2[next] = v /\ val2[Top.temps[1]] = l.value /\ val2[Returned] = r.value
  <2>1. val2[next] = v /\ Same(val, val2, next)
    <3>1. Ghosts(val, pre) /\ next \in Nat /\ v \in Value
      BY <1>2, <1>4, <1>7
    <3>2. val2[next] = v
      BY <3>1, NextValue
    <3>3. Same(val, val2, next)
      BY <3>1, NextValue
    <3> QED
      BY <3>2, <3>3
  <2>2. Returned \in Nat /\ Returned < next
    <3>1. CodeOK(code, entry, next) /\ EntriesBelow(entry, next) /\ WorksIn(Top) \in 1..Len(code)
      BY <1>1, TopIs, TopMeans
    <3>2. Returned \in Has(code, entry, WorksIn(Top))
      BY <1>1, ReturnedIs
    <3> QED
      BY <3>1, <3>2, HasBelow
  <2>3. Top.temps[1] \in Nat /\ Top.temps[1] < next
    <3>1. CodeOK(code, entry, next) /\ EntriesBelow(entry, next) /\ ActivationOK(Top, code, entry, env, next)
      BY <1>1, TopIs, TopMeans
    <3>2. Len(Top.temps) # 0
      BY <1>2
    <3>3. Top.temps # <<>>
      BY <3>2, SomeItems
    <3> QED
      BY <3>1, <3>3, TempBelow
  <2> QED
    BY <1>5, <1>6, <2>1, <2>2, <2>3 DEF Same
<1>11. x.op \notin {"copy", "if"} /\ Operands(x) /\ Computes(code, val2, x) /\ Prints(code, val2, pre, x) = <<>>
  <2>1. Operands(x)
    BY <1>3, <1>8 DEF Operands
  <2>2. v = Arith(x.what, val2[x.args[1]], val2[x.args[2]])
    BY <1>3, <1>8, <1>10 DEF v
  <2>3. Computes(code, val2, x)
    BY <1>8, <1>10, <2>2 DEF Computes
  <2>4. Prints(code, val2, pre, x) = <<>>
    BY <1>8 DEF Prints
  <2> QED
    BY <1>8, <2>1, <2>3, <2>4
<1>12. Prints(code, val2, pre, x) \in Seq(Value)
  BY <1>11
<1>13. Evolves(G, c, entry, env, next + 1, val2, pre2) /\ Out(c, pre2, b) = OutWith(code, val2, pre, b, x)
  <2>1. EmitMeans(G, x, val, pre, val2, pre2, c)
    BY <1>1, <1>7, <1>8, <1>9, <1>11, <1>12, EmitEvolves
  <2> QED
    BY <2>1 DEF EmitMeans
<1>14. Did(Top.e, g, b, next, c, val2, pre2)
  <2> PICK m : m = Eval(Top.e, g.bound)
    OBVIOUS
  <2>1. m.value = v /\ m.out = l.out \o r.out
    BY <1>1, <1>2, BinOpIs DEF v, op, l, r
  <2>2. Out(c, pre2, b) = ((g.base \o l.out) \o r.out) \o <<>>
    BY <1>6, <1>11, <1>13 DEF OutWith
  <2>3. /\ ((g.base \o l.out) \o r.out) \o <<>> = g.base \o (l.out \o r.out)
        /\ l.out \o r.out \in Seq(Value)
    BY <1>5, <1>6, JoinedTwice
  <2> QED
    BY <1>10, <2>1, <2>2, <2>3 DEF Did
<1>15. BodyOK /\ Means(program, frames, code, entry, env, next, ret, val, pre, G)
  BY <1>4 DEF CodeRuns, MeansNow
<1>16. Evolves(G, code', entry', env', next', val2, pre2) /\ Did(Top.e, g, Top.block, next, code', val2, pre2)
  BY <1>1, <1>13, <1>14
<1> QED
  BY <1>1, <1>15, <1>16, ReturnMeans

\* OpenScope calls for the first part of a block, in a scope that binds nothing.
LEMMA OpenMeans ==
  ASSUME IsAst, IsEval, IInv, CodeRuns, NEW program, MInv(program), OpenScope
  PROVE  MInv(program)'
<1> PICK val, pre, G : MeansNow(program, val, pre, G)
  BY DEF MInv, MeansNow
<1> DEFINE g == G[Len(frames)]
           f == [Top EXCEPT !.calls = @ + 1]
           s == <<>>
           n == Len(env)
<1>1. /\ frames # <<>> /\ Top.e.kind = "block" /\ Top.calls = 0
      /\ UNCHANGED <<code, entry, next>> /\ ret' = <<>> /\ env' = Append(env, s)
      /\ frames' = Front(frames) \o <<f, Frame(Part(Top.e, 1), Top.block, n + 1)>>
  BY DEF OpenScope, At, CallIn
<1>2. Top \in Activation /\ Top.e \in Expr /\ n = Top.depth /\ n \in Nat
  BY <1>1, TopIs DEF Scopes, Activation
<1>3. f \in Activation /\ f.e = Top.e /\ f.block = Top.block /\ f.depth = Top.depth /\ f.calls = 1
  <2>1. /\ f \in Activation /\ f.e = Top.e /\ f.block = Top.block /\ f.depth = Top.depth
        /\ f.calls = Top.calls + 1
    BY <1>2, NextCall
  <2> HIDE DEF f
  <2> QED
    BY <1>1, <2>1
<1> DOMAIN s = {}
  OBVIOUS
<1> HIDE DEF f, s
<1>4. /\ Known(Top, g, code, val, pre) /\ LatestMeans(Top, g, code, ret, val, pre)
      /\ Agrees(env, n, Now(Top, g), val)
  BY <1>1, TopMeans
<1>5. After(f.e, g.bound, f.calls - 1).bound = g.bound /\ After(f.e, g.bound, f.calls - 1).out = <<>>
  BY <1>2, <1>3, AfterNone
<1>6. /\ ~InArms(f) /\ f.calls # 0 /\ Scopes(f) = n + 1 /\ Now(f, g) = g.bound /\ Now(Top, g) = g.bound
      /\ Child(f) = Part(Top.e, 1)
  BY <1>1, <1>2, <1>3, <1>5 DEF InArms, Scopes, Now, Child
<1>7. g.base \in Seq(Value) /\ Out(code, pre, Top.block) = g.base
  BY <1>1, <1>4 DEF Known, LatestMeans
<1>8. Due(f, g).base = g.base
  <2>1. Due(f, g).base = g.base \o <<>>
    <3>1. Due(f, g).base = g.base \o After(f.e, g.bound, f.calls - 1).out
      BY <1>1, <1>3, DueIs
    <3> QED
      BY <1>5, <3>1
  <2> QED
    BY <1>7, <2>1, OutJoined
<1>9. Known(f, g, code, val, pre)
  <2>1. <<>> \in Seq(Value)
    OBVIOUS
  <2>2. f.e.kind = "block" /\ ~InArms(f)
    BY <1>1, <1>3, <1>6
  <2> QED
    BY <1>5, <1>7, <2>1, <2>2 DEF Known
<1>10. env'[n + 1] = s /\ \A k \in 1..n : env'[k] = env[k]
  <2>1. PICK S : env \in Seq(S)
    BY EnvIs
  <2> DEFINE U == S \cup {s}
  <2>2. env \in Seq(U) /\ s \in U
    BY <2>1, MoreOf
  <2> HIDE DEF U
  <2> QED
    BY <1>1, <2>2
<1>11. Agrees(env', Scopes(f), Now(f, g), val)
  <2> SUFFICES ASSUME NEW i \in 1..(n + 1), NEW name \in DOMAIN env'[i],
                      \A j \in 1..(n + 1) : j > i => name \notin DOMAIN env'[j]
               PROVE  name \in DOMAIN g.bound /\ g.bound[name] = val[env'[i][name]]
    BY <1>6 DEF Agrees
  <2>1. i # n + 1
    BY <1>10
  <2>2. i \in 1..n /\ \A j \in 1..n : j \in 1..(n + 1)
    BY <1>2, <2>1
  <2>3. name \in DOMAIN env[i] /\ \A j \in 1..n : j > i => name \notin DOMAIN env[j]
    BY <1>10, <2>2
  <2>4. name \in DOMAIN g.bound /\ g.bound[name] = val[env[i][name]]
    BY <1>4, <1>6, <2>2, <2>3 DEF Agrees
  <2> QED
    BY <1>10, <2>2, <2>4
<1>12. \A k \in 1..Top.depth : env'[k] = env[k]
  BY <1>2, <1>10
<1>13. Out(code, pre, Top.block) = Due(f, g).base
  BY <1>7, <1>8
<1> HIDE DEF n
<1>14. frames' = Front(frames) \o <<f, Frame(Child(f), Top.block, Scopes(f))>>
  BY <1>1, <1>6
<1> QED
  BY <1>1, <1>3, <1>6, <1>9, <1>11, <1>12, <1>13, <1>14, QuietCallMeans

\* A statement's value has been lowered.
LEMMA StmtMeans ==
  ASSUME IsAst, IInv, NEW kind, AtStmt(kind), NEW program, NEW val, NEW pre, NEW G,
         MeansNow(program, val, pre, G)
  PROVE  LET g == G[Len(frames)]
             s == After(Top.e, g.bound, Top.calls - 1)
             m == Eval(Top.e.stmts[Top.calls].value, s.bound)
         IN  /\ val[Returned] = m.value /\ s.out \in Seq(Value) /\ m.out \in Seq(Value)
             /\ g.base \in Seq(Value) /\ Now(Top, g) = s.bound
             /\ Out(code, pre, Top.block) = (g.base \o s.out) \o m.out
<1> DEFINE g == G[Len(frames)]
           s == After(Top.e, g.bound, Top.calls - 1)
           m == Eval(Top.e.stmts[Top.calls].value, s.bound)
<1>1. /\ frames # <<>> /\ Top.e.kind = "block" /\ ret # <<>> /\ ~InArms(Top)
      /\ Top.calls \in Nat \ {0}
  BY StmtIs
<1>2. Top.e \in Expr /\ Top.calls \in DOMAIN Top.e.stmts
  BY <1>1, TopIs DEF AtStmt, Activation
<1>3. Top.calls <= Len(Top.e.stmts)
  BY <1>1, <1>2 DEF IsAst
<1>4. Known(Top, g, code, val, pre) /\ LatestMeans(Top, g, code, ret, val, pre)
  BY <1>1, TopMeans
<1>5. Now(Top, g) = s.bound
  BY <1>1 DEF Now
<1>6. g.base \in Seq(Value) /\ s.out \in Seq(Value)
  BY <1>1, <1>4 DEF Known
<1>7. Did(Child(Top), Due(Top, g), WorksIn(Top), Returned, code, val, pre)
  BY <1>1, <1>4 DEF LatestMeans, Returned
<1>8. /\ Child(Top) = Top.e.stmts[Top.calls].value /\ WorksIn(Top) = Top.block
      /\ Due(Top, g).bound = s.bound
  BY <1>1, <1>3, <1>5, DueIs DEF Child, WorksIn, Part
<1>9. Due(Top, g).base = g.base \o s.out
  BY <1>1, DueIs
<1> HIDE DEF s
<1>10. val[Returned] = m.value /\ m.out \in Seq(Value) /\ Out(code, pre, Top.block) = (g.base \o s.out) \o m.out
  BY <1>7, <1>8, <1>9 DEF Did
<1> QED
  BY <1>5, <1>6, <1>10 DEF s

\* LowerLet binds a name to what has just been computed.
LEMMA LetMeans ==
  ASSUME IsAst, IsEval, IInv, CodeRuns, NEW program, MInv(program), LowerLet
  PROVE  MInv(program)'
<1> PICK val, pre, G : MeansNow(program, val, pre, G)
  BY DEF MInv, MeansNow
<1> DEFINE g == G[Len(frames)]
           f == [Top EXCEPT !.calls = @ + 1]
           n == Len(env)
           name == Top.e.stmts[Top.calls].name
           bind == Bind(env[n], name, Returned)
           s == After(Top.e, g.bound, Top.calls - 1)
           m == Eval(Top.e.stmts[Top.calls].value, s.bound)
           t == After(Top.e, g.bound, Top.calls)
<1>1. AtStmt("let")
  BY DEF LowerLet
<1>2. /\ frames # <<>> /\ Top.e.kind = "block" /\ ~InArms(Top)
      /\ n = Top.depth + 1 /\ Top.depth \in Nat /\ Top.calls \in Nat \ {0}
  BY <1>1, StmtIs
<1>3. /\ f \in Activation /\ f.e = Top.e /\ f.block = Top.block /\ f.depth = Top.depth
      /\ f.calls = Top.calls + 1 /\ ~InArms(f) /\ Scopes(f) = n
  BY <1>1, StmtDone
<1>4. /\ UNCHANGED <<code, entry, next>> /\ ret' = <<>> /\ env' = [env EXCEPT ![n] = bind]
      /\ frames' = Front(frames) \o <<f, Frame(Part(Top.e, Top.calls + 1), Top.block, n)>>
  BY DEF LowerLet, CallLower, CallIn
<1> HIDE DEF f
<1>5. Top.e \in Expr /\ Top.e.stmts[Top.calls].kind = "let"
  BY <1>1, <1>2, TopIs DEF AtStmt, Activation
<1>6. /\ val[Returned] = m.value /\ s.out \in Seq(Value) /\ m.out \in Seq(Value)
      /\ g.base \in Seq(Value) /\ Now(Top, g) = s.bound
      /\ Out(code, pre, Top.block) = (g.base \o s.out) \o m.out
  BY <1>1, StmtMeans
<1>7. t.bound = With(s.bound, name, m.value) /\ t.out = s.out \o m.out
  BY <1>2, <1>5, AfterNext DEF StmtAdds
<1>8. /\ f.calls # 0 /\ f.calls > 0 /\ f.calls - 1 = Top.calls
      /\ f.e.kind = "block" /\ f.e = Top.e
  BY <1>2, <1>3
<1>9. Now(f, g) = t.bound /\ Child(f) = Part(Top.e, Top.calls + 1)
  BY <1>3, <1>8 DEF Now, Child
<1>10. Due(f, g).base = g.base \o t.out
  BY <1>8, DueIs
<1>11. Agrees(env, n, s.bound, val)
  BY <1>2, <1>6, TopMeans
<1> HIDE DEF s, m, t
<1>12. t.out \in Seq(Value) /\ Out(code, pre, Top.block) = Due(f, g).base
  <2>1. (g.base \o s.out) \o m.out = g.base \o (s.out \o m.out) /\ s.out \o m.out \in Seq(Value)
    BY <1>6, Regrouped
  <2> QED
    BY <1>6, <1>7, <1>10, <2>1
<1>13. Known(f, g, code, val, pre)
  BY <1>3, <1>6, <1>8, <1>12 DEF Known, t
<1> HIDE DEF bind
<1>14. n \in 1..n /\ \A k \in 1..Top.depth : k \in 1..n /\ k # n
  BY <1>2
<1>15. env'[n] = bind /\ \A k \in 1..n : k # n => env'[k] = env[k]
  <2>1. PICK S : env \in Seq(S)
    BY EnvIs
  <2> DEFINE U == S \cup {bind}
  <2>2. env \in Seq(U) /\ bind \in U
    BY <2>1, MoreOf
  <2> HIDE DEF U
  <2> QED
    BY <1>4, <1>14, <2>2, ExceptSeq
<1>16. /\ DOMAIN bind = DOMAIN env[n] \cup {name} /\ bind[name] = Returned
       /\ \A x \in DOMAIN env[n] : x # name => bind[x] = env[n][x]
  BY DEF bind, Bind
<1>17. /\ DOMAIN t.bound = DOMAIN s.bound \cup {name} /\ t.bound[name] = m.value
       /\ \A x \in DOMAIN s.bound : x # name => t.bound[x] = s.bound[x]
  BY <1>7 DEF With
<1> HIDE DEF n, name
<1>18. Agrees(env', n, t.bound, val)
  <2> SUFFICES ASSUME NEW i \in 1..n, NEW x \in DOMAIN env'[i],
                      \A j \in 1..n : j > i => x \notin DOMAIN env'[j]
               PROVE  x \in DOMAIN t.bound /\ t.bound[x] = val[env'[i][x]]
    BY DEF Agrees
  <2>1. CASE x = name
    <3>1. i = n
      <4>1. x \in DOMAIN env'[n]
        BY <1>15, <1>16, <2>1
      <4>2. ~(n > i)
        BY <1>14, <4>1
      <4> QED
        BY <1>2, <4>2
    <3>2. env'[i][x] = Returned
      BY <1>15, <1>16, <2>1, <3>1
    <3> QED
      BY <1>6, <1>17, <2>1, <3>2
  <2>2. CASE x # name
    <3>1. x \in DOMAIN env[i] /\ env'[i][x] = env[i][x]
      BY <1>15, <1>16, <2>2
    <3>2. \A j \in 1..n : j > i => x \notin DOMAIN env[j]
      BY <1>15, <1>16, <2>2
    <3>3. x \in DOMAIN s.bound /\ s.bound[x] = val[env[i][x]]
      BY <1>11, <3>1, <3>2 DEF Agrees
    <3> QED
      BY <1>17, <2>2, <3>1, <3>3
  <2> QED
    BY <2>1, <2>2
<1>19. \A k \in 1..Top.depth : env'[k] = env[k]
  BY <1>14, <1>15
<1>20. /\ Agrees(env', Scopes(f), Now(f, g), val)
       /\ frames' = Front(frames) \o <<f, Frame(Child(f), Top.block, Scopes(f))>>
  BY <1>3, <1>4, <1>9, <1>18 DEF n
<1> QED
  BY <1>2, <1>3, <1>4, <1>8, <1>12, <1>13, <1>19, <1>20, QuietCallMeans

\* CloseScope returns what the block's result computes.
LEMMA CloseMeans ==
  ASSUME IsAst, IsEval, IInv, CodeRuns, NEW program, MInv(program), CloseScope
  PROVE  MInv(program)'
<1> PICK val, pre, G : MeansNow(program, val, pre, G)
  BY DEF MInv, MeansNow
<1> DEFINE g == G[Len(frames)]
           n == Len(Top.e.stmts)
           s == After(Top.e, g.bound, n)
           r == Eval(Top.e.result, s.bound)
<1>1. /\ frames # <<>> /\ Top.e.kind = "block" /\ Top.calls = n + 1
      /\ env' = Front(env) /\ frames' = Front(frames) /\ ret' = <<Returned>>
      /\ UNCHANGED <<code, entry, next>>
  BY DEF CloseScope, At, Return
<1>2. /\ Top \in Activation /\ Top.e \in Expr /\ Top.depth \in Nat /\ Len(env) = Scopes(Top)
  BY <1>1, TopIs DEF Activation
<1>3. n \in Nat
  BY <1>1, <1>2 DEF IsAst
<1>4. /\ Top.calls > 0 /\ Top.calls - 1 = n /\ ~InArms(Top) /\ Len(env) = Top.depth + 1 /\ ~(Top.calls <= n)
  BY <1>1, <1>2, <1>3 DEF InArms, Scopes
<1>5. ret # <<>>
  BY <1>4 DEF CloseScope, At
<1>6. /\ Known(Top, g, code, val, pre) /\ LatestMeans(Top, g, code, ret, val, pre) /\ code # <<>>
  BY <1>1, TopMeans
<1>7. g.base \in Seq(Value) /\ s.out \in Seq(Value)
  BY <1>1, <1>4, <1>6 DEF Known
<1>8. Did(Child(Top), Due(Top, g), WorksIn(Top), Returned, code, val, pre)
  BY <1>5, <1>6 DEF LatestMeans, Returned
<1>9. Child(Top) = Top.e.result /\ WorksIn(Top) = Top.block /\ Due(Top, g).bound = s.bound
  BY <1>1, <1>4, DueIs DEF Child, WorksIn, Part, Now
<1>10. Due(Top, g).base = g.base \o s.out
  BY <1>1, <1>4, DueIs
<1>11. Eval(Top.e, g.bound).value = r.value /\ Eval(Top.e, g.bound).out = s.out \o r.out
  BY <1>1, <1>2, BlockIsDone
<1> HIDE DEF s, n
<1>12. val[Returned] = r.value /\ r.out \in Seq(Value) /\ Out(code, pre, Top.block) = (g.base \o s.out) \o r.out
  BY <1>8, <1>9, <1>10 DEF Did
<1> HIDE DEF r
<1>13. Did(Top.e, g, Top.block, Returned, code, val, pre)
  <2>1. (g.base \o s.out) \o r.out = g.base \o (s.out \o r.out) /\ s.out \o r.out \in Seq(Value)
    BY <1>7, <1>12, Regrouped
  <2> QED
    BY <1>11, <1>12, <2>1 DEF Did
<1>14. \A k \in 1..Top.depth : env'[k] = env[k]
  <2>1. PICK S : env \in Seq(S)
    BY EnvIs
  <2>2. env # <<>>
    <3>1. Len(env) # 0
      BY <1>2, <1>4
    <3> QED
      BY <3>1, SomeItems
  <2>3. \A k \in 1..(Len(env) - 1) : env'[k] = env[k]
    BY <1>1, <2>1, <2>2, PopIs
  <2> QED
    BY <1>2, <1>4, <2>3
<1>15. Evolves(G, code', entry', env', next', val, pre)
  BY <1>1, <1>14, QuietEvolves
<1>16. BodyOK /\ Means(program, frames, code, entry, env, next, ret, val, pre, G)
  BY <1>6 DEF CodeRuns, MeansNow
<1>17. Did(Top.e, g, Top.block, Returned, code', val, pre)
  BY <1>1, <1>13
<1> QED
  BY <1>1, <1>15, <1>16, <1>17, ReturnMeans

\* OutJoined, for one more value at the end.
LEMMA PrintJoined ==
  ASSUME NEW p \in Seq(Value), NEW q \in Seq(Value), NEW u \in Seq(Value), NEW v \in Value
  PROVE  /\ ((p \o q) \o u) \o <<v>> = p \o (q \o Append(u, v))
         /\ q \o Append(u, v) \in Seq(Value)
<1> DEFINE w == <<v>>
<1>1. Append(u, v) = u \o w
  BY AppendIsConcat
<1>2. w \in Seq(Value)
  OBVIOUS
<1> HIDE DEF w
<1>3. p \o q \in Seq(Value) /\ u \o w \in Seq(Value)
  BY <1>2, OutJoined
<1>4. ((p \o q) \o u) \o w = (p \o q) \o (u \o w)
  BY <1>2, <1>3, Regrouped
<1>5. (p \o q) \o (u \o w) = p \o (q \o (u \o w)) /\ q \o (u \o w) \in Seq(Value)
  BY <1>3, Regrouped
<1> QED
  BY <1>1, <1>4, <1>5 DEF w

\* The names in scope stay what they are when a temp gets a value.
LEMMA NamesAgree ==
  ASSUME IInv, frames # <<>>, NEW program, NEW val, NEW pre, NEW G, MeansNow(program, val, pre, G),
         NEW val2, Same(val, val2, next)
  PROVE  Agrees(env, Len(env), Now(Top, G[Len(frames)]), val2)
<1>1. /\ CodeOK(code, entry, next) /\ ActivationOK(Top, code, entry, env, next)
      /\ Len(env) = Scopes(Top)
  BY TopIs
<1>2. EntriesBelow(entry, next) /\ Agrees(env, Len(env), Now(Top, G[Len(frames)]), val)
  BY TopMeans
<1>3. \A k \in 1..Len(env) : \A name \in DOMAIN env[k] : env[k][name] \in Nat /\ env[k][name] < next
  BY <1>1, <1>2, ScopesBelow
<1> QED
  BY <1>2, <1>3, AgreesStays

\* LowerPrint prints what has just been computed.
LEMMA PrintMeans ==
  ASSUME IsAst, IsKinds, IsEval, IInv, CodeRuns, NEW program, MInv(program), LowerPrint
  PROVE  MInv(program)'
<1> PICK val, pre, G : MeansNow(program, val, pre, G)
  BY DEF MInv, MeansNow
<1> DEFINE g == G[Len(frames)]
           f == [Top EXCEPT !.calls = @ + 1]
           b == Top.block
           s == After(Top.e, g.bound, Top.calls - 1)
           m == Eval(Top.e.stmts[Top.calls].value, s.bound)
           t == After(Top.e, g.bound, Top.calls)
           v == m.value
           args == <<Returned>>
           x == Call(next, "print", args)
<1>1. AtStmt("print")
  BY DEF LowerPrint
<1>2. /\ frames # <<>> /\ Top.e.kind = "block" /\ ~InArms(Top) /\ ret # <<>>
      /\ Top.depth \in Nat /\ Top.calls \in Nat \ {0}
  BY <1>1, StmtIs
<1>3. /\ f \in Activation /\ f.e = Top.e /\ f.block = b /\ f.depth = Top.depth
      /\ f.calls = Top.calls + 1 /\ ~InArms(f) /\ Scopes(f) = Len(env)
  BY <1>1, StmtDone
<1>4. /\ code' = Put(code, b, x) /\ next' = next + 1 /\ UNCHANGED <<env, entry>> /\ ret' = <<>>
      /\ frames' = Front(frames) \o <<f, Frame(Part(Top.e, Top.calls + 1), b, Len(env))>>
  BY DEF LowerPrint, CallLower, CallIn, Emit, Put
<1> HIDE DEF f
<1>5. Top.e \in Expr /\ Top.e.stmts[Top.calls].kind = "print"
  BY <1>1, <1>2, TopIs DEF AtStmt, Activation
<1>6. /\ val[Returned] = m.value /\ s.out \in Seq(Value) /\ m.out \in Seq(Value)
      /\ g.base \in Seq(Value) /\ Now(Top, g) = s.bound
      /\ Out(code, pre, b) = (g.base \o s.out) \o m.out
  BY <1>1, StmtMeans
<1>7. t.bound = s.bound /\ t.out = s.out \o Append(m.out, v)
  BY <1>2, <1>5, AfterNext DEF StmtAdds
<1>8. /\ f.calls # 0 /\ f.calls > 0 /\ f.calls - 1 = Top.calls
      /\ f.e.kind = "block" /\ f.e = Top.e
  BY <1>2, <1>3
<1>9. Now(f, g) = t.bound /\ Child(f) = Part(Top.e, Top.calls + 1) /\ WorksIn(f) = b
  BY <1>3, <1>8 DEF Now, Child, WorksIn
<1>10. Due(f, g).base = g.base \o t.out
  BY <1>8, DueIs
<1>11. Ghosts(val, pre) /\ next \in Nat
  BY <1>2, TopIs, TopMeans
<1>12. Returned \in Nat /\ Returned < next
  <2>1. CodeOK(code, entry, next) /\ EntriesBelow(entry, next) /\ WorksIn(Top) \in 1..Len(code)
    BY <1>2, TopIs, TopMeans
  <2>2. Returned \in Has(code, entry, WorksIn(Top))
    BY <1>2, ReturnedIs
  <2> QED
    BY <2>1, <2>2, HasBelow
<1> HIDE DEF s, t, m, v
<1>13. v \in Value
  <2>1. val \in [Nat -> Value]
    BY <1>11 DEF Ghosts
  <2> QED
    BY <1>6, <1>12, <2>1 DEF v
<1>14. args \in Seq(Nat) /\ Len(args) = 1 /\ args[1] = Returned
  BY <1>12
<1>15. /\ x \in Instruction /\ x.op = "call" /\ x.what = "print" /\ x.dst = next /\ x.args = args
  <2>1. x = [op |-> "call", what |-> "print", dst |-> next, args |-> args, arms |-> <<>>]
    BY DEF Call, Instr
  <2>2. <<>> \in Seq(Nat) /\ "print" \in What
    BY DEF What
  <2> HIDE DEF x, args
  <2> QED
    BY <1>11, <1>14, <2>1, <2>2 DEF Instruction
<1> HIDE DEF x, args
<1> PICK c : c = Put(code, b, x)
  OBVIOUS
<1> PICK val2 : val2 = [val EXCEPT ![next] = v]
  OBVIOUS
<1> PICK pre2 : AsPrinted(code, val2, pre, b, x, pre2)
  BY DEF AsPrinted
<1>16. Emitted(x, val, pre, v, val2, pre2)
  BY DEF Emitted
<1>17. val2[next] = v /\ Same(val, val2, next) /\ val2[Returned] = v
  <2>1. val2[next] = v
    BY <1>11, <1>13, NextValue
  <2>2. Same(val, val2, next)
    BY <1>11, <1>13, NextValue
  <2> QED
    BY <1>6, <1>12, <2>1, <2>2 DEF Same, v
<1>18. /\ x.op \notin {"copy", "if"} /\ Operands(x) /\ Computes(code, val2, x)
       /\ Prints(code, val2, pre, x) = <<v>>
  BY <1>14, <1>15, <1>17 DEF Operands, Computes, Prints
<1>19. Prints(code, val2, pre, x) \in Seq(Value)
  <2> DEFINE w == <<v>>
  <2>1. w \in Seq(Value)
    BY <1>13
  <2>2. Prints(code, val2, pre, x) = w
    BY <1>18
  <2> HIDE DEF w
  <2> QED
    BY <2>1, <2>2
<1>20. Evolves(G, c, entry, env, next + 1, val2, pre2) /\ Out(c, pre2, b) = OutWith(code, val2, pre, b, x)
  <2>1. EmitMeans(G, x, val, pre, val2, pre2, c)
    BY <1>2, <1>13, <1>15, <1>16, <1>18, <1>19, EmitEvolves
  <2> QED
    BY <2>1 DEF EmitMeans
<1>21. t.out \in Seq(Value) /\ Out(c, pre2, b) = Due(f, g).base
  <2>1. /\ ((g.base \o s.out) \o m.out) \o <<v>> = g.base \o (s.out \o Append(m.out, v))
        /\ s.out \o Append(m.out, v) \in Seq(Value)
    BY <1>6, <1>13, PrintJoined
  <2>2. Out(c, pre2, b) = ((g.base \o s.out) \o m.out) \o <<v>>
    BY <1>6, <1>18, <1>20 DEF OutWith
  <2> QED
    BY <1>7, <1>10, <2>1, <2>2
<1>22. Known(f, g, c, val2, pre2)
  BY <1>3, <1>6, <1>8, <1>21 DEF Known, t
<1>23. Agrees(env, Scopes(f), Now(f, g), val2)
  BY <1>2, <1>3, <1>6, <1>7, <1>9, <1>17, NamesAgree
<1>24. Due(f, g).base \in Seq(Value)
  <2>1. g.base \o t.out \in Seq(Value)
    BY <1>6, <1>21, OutJoined
  <2> QED
    BY <1>10, <2>1
<1>25. /\ Evolves(G, code', entry', env', next', val2, pre2) /\ Known(f, g, code', val2, pre2)
       /\ Agrees(env', Scopes(f), Now(f, g), val2) /\ Out(code', pre2, WorksIn(f)) = Due(f, g).base
  BY <1>4, <1>9, <1>20, <1>21, <1>22, <1>23
<1>26. frames' = Front(frames) \o <<f, Frame(Child(f), WorksIn(f), Scopes(f))>>
  BY <1>3, <1>4, <1>9
<1>27. Means(program, frames, code, entry, env, next, ret, val, pre, G)
  BY DEF MeansNow
<1> HIDE DEF g
<1>28. g = G[Len(frames)]
  BY DEF g
<1> QED
  BY <1>2, <1>3, <1>4, <1>8, <1>24, <1>25, <1>26, <1>27, <1>28, CallMeans

\* One more block, entered with t written.
BlockAlso(c, en, m, val, pre, p, q) ==
  /\ CodeMeans(p, val, pre) /\ Out(p, pre, Len(c) + 1) = <<>> /\ EntriesBelow(q, m)
  /\ p # <<>> /\ NoCopyIn(p, 1) /\ \A d \in 1..Len(c) : p[d] = c[d]

\* A new block begins, with nothing in it.
LEMMA BlockBegins ==
  ASSUME NEW c, NEW en, NEW n, CodeOK(c, en, n), c # <<>>, NEW val, NEW pre, Ghosts(val, pre),
         CodeMeans(c, val, pre), NoCopyIn(c, 1), NEW m \in Nat, EntriesBelow(en, m),
         NEW t \in SUBSET Nat, \A u \in t : u < m
  PROVE  BlockAlso(c, en, m, val, pre, Append(c, <<>>), Append(en, t))
<1> DEFINE p == Append(c, <<>>)
           q == Append(en, t)
           l == Len(c)
<1>1. c \in Code /\ en \in Seq(SUBSET Nat) /\ Len(en) = l /\ l \in Nat
  BY DEF CodeOK, Code
<1>2. CodeMeans(p, val, pre) /\ Out(p, pre, l + 1) = <<>>
  BY <1>1, BlockMeans
<1>3. Len(p) = l + 1 /\ \A d \in 1..l : p[d] = c[d]
  BY <1>1, BlockIs
<1>4. Len(q) = l + 1 /\ q[l + 1] = t /\ \A d \in 1..l : q[d] = en[d]
  BY <1>1
<1> HIDE DEF p, q
<1>5. EntriesBelow(q, m)
  <2> SUFFICES ASSUME NEW d \in 1..(l + 1), NEW u \in q[d] PROVE u < m
    BY <1>4 DEF EntriesBelow
  <2>1. CASE d = l + 1
    BY <1>4, <2>1
  <2>2. CASE d # l + 1
    <3>1. d \in 1..l
      BY <1>1, <2>2
    <3> QED
      BY <1>1, <1>4, <3>1 DEF EntriesBelow
  <2> QED
    BY <2>1, <2>2
<1>6. 1 \in 1..l
  <2>1. l # 0
    BY <1>1, EmptySeq DEF Code
  <2> QED
    BY <1>1, <2>1
<1>7. NoCopyIn(p, 1)
  BY <1>3, <1>6 DEF NoCopyIn
<1>8. p # <<>>
  <2>1. Len(p) # 0
    BY <1>1, <1>3
  <2> QED
    BY <2>1, SomeItems
<1> QED
  BY <1>2, <1>3, <1>5, <1>7, <1>8 DEF BlockAlso, p, q, l

\* What the arms of an `if` are called with.
LEMMA DueForArm ==
  ASSUME NEW f, NEW g, InArms(f)
  PROVE  Due(f, g).base = <<>> /\ Due(f, g).bound = g.bound /\ Now(f, g) = g.bound
<1>1. f.e.kind = "if"
  BY DEF InArms
<1>2. Due(f, g) = [bound |-> Now(f, g), base |-> <<>>]
  BY <1>1 DEF Due
<1>3. Now(f, g) = g.bound
  BY <1>1 DEF Now
<1> QED
  BY <1>2, <1>3

\* LowerThen calls for the first arm, in a block of its own.
LEMMA ThenMeans ==
  ASSUME IsAst, IsEval, IInv, CodeRuns, NEW program, MInv(program), LowerThen
  PROVE  MInv(program)'
<1> PICK val, pre, G : MeansNow(program, val, pre, G)
  BY DEF MInv, MeansNow
<1> DEFINE g == G[Len(frames)]
           l == Len(code) + 1
           b == Top.block
           t == Has(code, entry, b)
           h == [Top EXCEPT !.temps = <<Returned, next>>, !.arms = <<l>>]
           f == [h EXCEPT !.calls = @ + 1]
           temps == <<Returned, next>>
           arms == <<l>>
           m == Eval(Top.e.cond, g.bound)
           v == Eval(Top.e, g.bound).value
<1>1. frames # <<>> /\ Top.e.kind = "if" /\ Top.calls = 1 /\ ret # <<>> /\ ~InArms(Top)
  BY DEF LowerThen, At, InArms
<1>2. /\ Top \in Activation /\ b \in 1..Len(code) /\ Len(code) \in Nat /\ code \in Code
      /\ CodeOK(code, entry, next) /\ next \in Nat
  BY <1>1, TopIs
<1>3. Returned \in t /\ Returned \in Nat
  BY <1>1, ReturnedHere
<1>4. Scopes(Top) = Top.depth /\ Len(env) = Top.depth
  BY <1>1, IfIs
<1>5. /\ code' = Append(code, <<>>) /\ entry' = Append(entry, t) /\ next' = next + 1
      /\ UNCHANGED env /\ ret' = <<>>
      /\ frames' = Front(frames) \o <<f, Frame(Top.e.then, l, Len(env))>>
  BY DEF LowerThen, CallLower, CallIn, Available, Has
<1>6. temps \in Seq(Nat) /\ temps[1] = Returned /\ temps[2] = next
  BY <1>2, <1>3
<1>7. arms \in Seq(Nat) /\ arms[1] = l
  BY <1>2
<1>8. t \subseteq Nat
  BY <1>2, HasType
<1>9. /\ Known(Top, g, code, val, pre) /\ LatestMeans(Top, g, code, ret, val, pre)
      /\ Ghosts(val, pre) /\ CodeMeans(code, val, pre) /\ EntriesBelow(entry, next)
      /\ NoCopyIn(code, 1) /\ code # <<>>
  BY <1>1, TopMeans
<1>10. \A u \in t : u \in Nat /\ u < next
  BY <1>2, <1>9, HasBelow
<1> HIDE DEF t, temps, arms
<1>11. /\ f \in Activation /\ f.e = Top.e /\ f.block = b /\ f.depth = Top.depth
       /\ f.calls = 2 /\ f.temps = temps /\ f.arms = arms
  <2>1. /\ h \in Activation /\ h.e = Top.e /\ h.block = b /\ h.depth = Top.depth
        /\ h.calls = 1 /\ h.temps = temps /\ h.arms = arms
    BY <1>1, <1>2, <1>6, <1>7 DEF Activation, temps, arms
  <2> HIDE DEF h
  <2>2. /\ f \in Activation /\ f.e = h.e /\ f.block = h.block /\ f.depth = h.depth
        /\ f.calls = h.calls + 1 /\ f.temps = h.temps /\ f.arms = h.arms
    BY <2>1, NextCall
  <2> HIDE DEF f
  <2> QED
    BY <2>1, <2>2
<1> HIDE DEF h, f
<1>12. /\ InArms(f) /\ Scopes(f) = Top.depth /\ Dst(f) = next /\ WorksIn(f) = l
       /\ Child(f) = Top.e.then /\ Now(Top, g) = g.bound
  BY <1>1, <1>6, <1>7, <1>11 DEF InArms, Scopes, Dst, WorksIn, Child, Now
<1>13. Due(f, g).base = <<>> /\ Due(f, g).bound = g.bound /\ Now(f, g) = g.bound
  BY <1>12, DueForArm
<1>14. g.base \in Seq(Value) /\ val[Returned] = m.value /\ m.out \in Seq(Value) /\ Out(code, pre, b) = g.base \o m.out
  <2>1. Did(Child(Top), Due(Top, g), WorksIn(Top), Returned, code, val, pre)
    BY <1>1, <1>9 DEF LatestMeans, Returned
  <2>2. /\ Child(Top) = Top.e.cond /\ WorksIn(Top) = b
        /\ Due(Top, g).bound = g.bound /\ Due(Top, g).base = g.base
    BY <1>1 DEF Child, WorksIn, Due, Now
  <2>3. g.base \in Seq(Value)
    BY <1>9 DEF Known
  <2> QED
    BY <2>1, <2>2, <2>3 DEF Did
<1> HIDE DEF m, v
<1> PICK val2 : Ghosts(val2, pre) /\ Same(val, val2, next) /\ (v \in Value => val2[next] = v)
  <2>1. CASE v \in Value
    <3> PICK w : w = [val EXCEPT ![next] = v]
      OBVIOUS
    <3>1. Ghosts(w, pre)
      BY <1>2, <1>9, <2>1, NextValue
    <3>2. Same(val, w, next)
      BY <1>2, <1>9, <2>1, NextValue
    <3>3. w[next] = v
      BY <1>2, <1>9, <2>1, NextValue
    <3> QED
      BY <3>1, <3>2, <3>3
  <2>2. CASE v \notin Value
    <3>1. Same(val, val, next)
      BY DEF Same
    <3> QED
      BY <1>9, <2>2, <3>1
  <2> QED
    BY <2>1, <2>2
<1>15. CodeMeans(code, val2, pre)
  BY <1>2, <1>9, MeansSame
<1>16. next + 1 \in Nat /\ EntriesBelow(entry, next + 1) /\ \A u \in t : u < next + 1
  <2>1. entry \in Seq(SUBSET Nat)
    BY <1>2 DEF CodeOK
  <2>2. \A d \in 1..Len(entry) : entry[d] \subseteq Nat
    BY <2>1
  <2>3. next + 1 \in Nat /\ next <= next + 1
    BY <1>2
  <2>4. EntriesBelow(entry, next + 1)
    BY <1>2, <1>9, <2>2, <2>3, EntriesStay
  <2> QED
    BY <1>2, <1>10, <2>3, <2>4
<1> PICK c, en : c = Append(code, <<>>) /\ en = Append(entry, t)
  OBVIOUS
<1>17. BlockAlso(code, entry, next + 1, val2, pre, c, en)
  BY <1>2, <1>8, <1>9, <1>15, <1>16, BlockBegins
<1>18. /\ CodeMeans(c, val2, pre) /\ Out(c, pre, l) = <<>> /\ EntriesBelow(en, next + 1)
       /\ c # <<>> /\ NoCopyIn(c, 1) /\ \A d \in 1..Len(code) : c[d] = code[d]
  BY <1>17 DEF BlockAlso
<1>19. Untouched(c, pre, pre)
  BY <1>18 DEF Untouched
<1>20. Means(program, frames, code, entry, env, next, ret, val, pre, G)
  BY DEF MeansNow
<1>21. Evolves(G, c, en, env, next + 1, val2, pre)
  <2>1. ASSUME NEW k \in 1..(Len(frames) - 1)
        PROVE  /\ Known(frames[k], G[k], c, val2, pre)
               /\ Agrees(env, Scopes(frames[k]), Now(frames[k], G[k]), val2)
    <3>1. \A i \in 1..Top.depth : env[i] = env[i]
      OBVIOUS
    <3> QED
      BY <1>1, <1>19, <1>20, <3>1, OthersKnow
  <2> QED
    BY <1>18, <2>1 DEF Evolves
<1>22. Known(f, g, c, val2, pre)
  <2>1. f.e.kind = "if" /\ f.e = Top.e /\ f.calls # 3
    BY <1>1, <1>11
  <2>2. val2[f.temps[1]] = m.value
    BY <1>3, <1>6, <1>10, <1>11, <1>14 DEF Same
  <2>3. Out(c, pre, f.block) = g.base \o m.out
    BY <1>2, <1>11, <1>14, <1>18 DEF Out
  <2>4. v \in Value => val2[Dst(f)] = v
    BY <1>12
  <2>5. LET n == Eval(f.e.cond, g.bound)
            w == Eval(f.e, g.bound).value
        IN  /\ val2[f.temps[1]] = n.value /\ n.out \in Seq(Value)
            /\ Out(c, pre, f.block) = g.base \o n.out
            /\ w \in Value => val2[Dst(f)] = w
    BY <1>14, <2>1, <2>2, <2>3, <2>4 DEF m, v
  <2> QED
    BY <1>14, <2>1, <2>5 DEF Known
<1>23. Agrees(env, Scopes(f), Now(f, g), val2)
  BY <1>1, <1>4, <1>12, <1>13, NamesAgree
<1>24. <<>> \in Seq(Value)
  OBVIOUS
<1>25. /\ Evolves(G, code', entry', env', next', val2, pre) /\ Known(f, g, code', val2, pre)
       /\ Agrees(env', Scopes(f), Now(f, g), val2) /\ Out(code', pre, WorksIn(f)) = Due(f, g).base
       /\ Due(f, g).base \in Seq(Value)
  BY <1>5, <1>12, <1>13, <1>18, <1>21, <1>22, <1>23, <1>24
<1>26. frames' = Front(frames) \o <<f, Frame(Child(f), WorksIn(f), Scopes(f))>>
  BY <1>4, <1>5, <1>12
<1>27. f.calls # 0
  BY <1>11
<1> HIDE DEF g
<1>28. g = G[Len(frames)]
  BY DEF g
<1> QED
  BY <1>1, <1>5, <1>11, <1>20, <1>25, <1>26, <1>27, <1>28, CallMeans

\* Code p, where the arm that the innermost activation works in has its copy.
ArmOver(p, val, pre, pre2) ==
  LET a == WorksIn(Top)
  IN  /\ Ghosts(val, pre2) /\ CodeMeans(p, val, pre2) /\ p # <<>> /\ NoCopyIn(p, 1)
      /\ ~NoCopyIn(p, a) /\ Out(p, pre2, a) = Out(code, pre, a)
      /\ val[Dst(Top)] = val[Returned] => CopiesMean(p, val, a)
      /\ \A d \in 1..Len(code) : d # a => p[d] = code[d] /\ pre2[d] = pre[d]

\* The copy that ends an arm.
LEMMA ArmMeans ==
  ASSUME IInv, frames # <<>>, InArms(Top), ret # <<>>,
         NEW program, NEW val, NEW pre, NEW G, MeansNow(program, val, pre, G)
  PROVE  \E pre2 : ArmOver(Put(code, WorksIn(Top), Copy(Dst(Top), Returned)), val, pre, pre2)
<1> DEFINE a == WorksIn(Top)
           t == Dst(Top)
           args == <<Returned>>
           x == Copy(t, Returned)
<1>1. /\ ActivationOK(Top, code, entry, env, next) /\ a \in 1..Len(code)
      /\ code \in Code /\ CodeOK(code, entry, next) /\ Top \in Activation
  BY TopIs
<1>2. NoCopyIn(code, a) /\ Len(Top.temps) = 2
  BY <1>1 DEF ActivationOK, Owns, Shape
<1>3. t \in Nat
  BY <1>1, <1>2 DEF Dst, Activation
<1>4. /\ Ghosts(val, pre) /\ CodeMeans(code, val, pre) /\ NoCopyIn(code, 1)
  BY TopMeans
<1>5. args \in Seq(Nat) /\ Len(args) = 1 /\ args[1] = Returned
  BY ReturnedIs
<1> HIDE DEF a, t
<1>6. x \in Instruction /\ x.op = "copy" /\ x.dst = t /\ x.args = args
  <2>1. x = [op |-> "copy", what |-> "", dst |-> t, args |-> args, arms |-> <<>>] /\ "" \in What
    BY DEF Copy, Instr, What
  <2>2. <<>> \in Seq(Nat)
    OBVIOUS
  <2> HIDE DEF x, args
  <2> QED
    BY <1>3, <1>5, <2>1, <2>2 DEF Instruction
<1> HIDE DEF x, args
<1>7. Operands(x) /\ Closed(code, x) /\ Computes(code, val, x) /\ Prints(code, val, pre, x) = <<>>
  BY <1>5, <1>6 DEF Operands, Closed, Computes, Prints
<1> DEFINE p == Put(code, a, x)
<1> PICK pre2 : pre2 = Printed(code, val, pre, a, x)
  OBVIOUS
<1>8. CodeMeans(p, val, pre2) /\ Out(p, pre2, a) = OutWith(code, val, pre, a, x)
  <2>1. LET q == Printed(code, val, pre, a, x)
        IN  /\ CodeMeans(Put(code, a, x), val, q)
            /\ Out(Put(code, a, x), q, a) = OutWith(code, val, pre, a, x)
    BY <1>1, <1>2, <1>4, <1>6, <1>7, PutMeans
  <2> QED
    BY <2>1
<1>9. (\A d \in Nat : d # a => pre2[d] = pre[d]) /\ Ghosts(val, pre2)
  <2>1. <<>> \in Seq(Value)
    OBVIOUS
  <2>2. Prints(code, val, pre, x) \in Seq(Value)
    BY <1>7, <2>1
  <2> QED
    BY <1>1, <1>4, <2>2, PrintedIs
<1>10. /\ Len(p) = Len(code) /\ Len(p[a]) = Len(code[a]) + 1 /\ p[a][Len(code[a]) + 1] = x
       /\ \A d \in 1..Len(code) : d # a => p[d] = code[d]
  <2>1. Len(p) = Len(code) /\ Len(p[a]) = Len(code[a]) + 1 /\ p[a][Len(code[a]) + 1] = x
    BY <1>1, <1>6, PutIs
  <2>2. \A d \in 1..Len(code) : d # a => p[d] = code[d]
    BY <1>1, <1>6, PutIs
  <2> QED
    BY <2>1, <2>2
<1>11. Len(code[a]) \in Nat
  BY <1>1 DEF Code
<1>12. ASSUME NEW i \in 1..Len(p[a]), i # Len(code[a]) + 1 PROVE p[a][i].op # "copy"
  <2>1. i \in 1..Len(code[a]) /\ p[a][i] = code[a][i]
    BY <1>1, <1>6, <1>12, PutAt
  <2> QED
    BY <1>2, <2>1 DEF NoCopyIn
<1> HIDE DEF p
<1>13. ~NoCopyIn(p, a)
  <2>1. Len(code[a]) + 1 \in 1..Len(p[a])
    BY <1>10, <1>11
  <2> QED
    BY <1>6, <1>10, <2>1 DEF NoCopyIn
<1>14. val[t] = val[Returned] => CopiesMean(p, val, a)
  BY <1>5, <1>6, <1>10, <1>12 DEF CopiesMean
<1>15. Out(p, pre2, a) = Out(code, pre, a)
  <2>1. Out(code, pre, a) \in Seq(Value)
    <3>1. pre \in [Nat -> [Nat -> Seq(Value)]]
      BY <1>4 DEF Ghosts
    <3>2. a \in Nat /\ Len(code[a]) + 1 \in Nat
      BY <1>1, <1>11
    <3>3. pre[a] \in [Nat -> Seq(Value)]
      BY <3>1, <3>2
    <3> QED
      BY <3>2, <3>3 DEF Out
  <2>2. Out(code, pre, a) \o <<>> = Out(code, pre, a)
    BY <2>1, OutJoined
  <2> QED
    BY <1>7, <1>8, <2>2 DEF OutWith
<1>16. NoCopyIn(p, 1) /\ p # <<>>
  <2>1. a # 1 /\ 1 \in 1..Len(code)
    <3>1. Top.block < a /\ Top.block \in Nat
      BY <1>1, WorksInIs DEF ActivationOK, Shape, Activation, a
    <3>2. Top.block \in 1..Len(code)
      BY <1>1 DEF ActivationOK, Shape
    <3> QED
      BY <1>1, <3>1, <3>2
  <2>2. p[1] = code[1]
    BY <1>10, <2>1
  <2>3. p # <<>>
    BY <1>1, <1>10, SomeCode
  <2> QED
    BY <1>4, <2>2, <2>3 DEF NoCopyIn
<1>17. \A d \in 1..Len(code) : d # a => p[d] = code[d] /\ pre2[d] = pre[d]
  <2>1. \A d \in 1..Len(code) : d \in Nat
    OBVIOUS
  <2> QED
    BY <1>9, <1>10, <2>1
<1>18. ArmOver(p, val, pre, pre2)
  BY <1>8, <1>9, <1>13, <1>14, <1>15, <1>16, <1>17 DEF ArmOver, a, t
<1> QED
  BY <1>18 DEF p, x, a, t

\* What lowering an arm has come to.
LEMMA ArmDid ==
  ASSUME IInv, frames # <<>>, InArms(Top), ret # <<>>,
         NEW program, NEW val, NEW pre, NEW G, MeansNow(program, val, pre, G)
  PROVE  LET g == G[Len(frames)]
             m == Eval(IF Top.calls = 2 THEN Top.e.then ELSE Top.e.else, g.bound)
         IN  /\ val[Returned] = m.value /\ m.value \in Value
             /\ m.out \in Seq(Value) /\ Out(code, pre, WorksIn(Top)) = m.out
<1> DEFINE g == G[Len(frames)]
           e == IF Top.calls = 2 THEN Top.e.then ELSE Top.e.else
           m == Eval(e, g.bound)
<1>1. LatestMeans(Top, g, code, ret, val, pre) /\ Ghosts(val, pre)
  BY TopMeans
<1>2. Did(Child(Top), Due(Top, g), WorksIn(Top), Returned, code, val, pre)
  BY <1>1 DEF LatestMeans, Returned
<1>3. Child(Top) = e
  BY DEF Child, InArms
<1>4. Due(Top, g).base = <<>> /\ Due(Top, g).bound = g.bound
  BY DueForArm
<1>5. Returned \in Nat /\ val \in [Nat -> Value]
  BY <1>1, ReturnedIs DEF Ghosts
<1> HIDE DEF e, g
<1>6. val[Returned] = m.value /\ m.out \in Seq(Value) /\ Out(code, pre, WorksIn(Top)) = <<>> \o m.out
  BY <1>2, <1>3, <1>4 DEF Did
<1>7. <<>> \o m.out = m.out
  BY <1>6, ConcatEmptySeq
<1>8. val[Returned] \in Value
  BY <1>5
<1> QED
  BY <1>6, <1>7, <1>8 DEF e, g

\* LowerElse ends the first arm, and calls for the second.
LEMMA ElseMeans ==
  ASSUME IsAst, IsEval, IInv, CodeRuns, NEW program, MInv(program), LowerElse
  PROVE  MInv(program)'
<1> PICK val, pre, G : MeansNow(program, val, pre, G)
  BY DEF MInv, MeansNow
<1> DEFINE g == G[Len(frames)]
           l == Len(code) + 1
           b == Top.block
           a == WorksIn(Top)
           t == Has(code, entry, b)
           arms == Append(Top.arms, l)
           h == [Top EXCEPT !.arms = arms]
           f == [h EXCEPT !.calls = @ + 1]
           m == Eval(Top.e.cond, g.bound)
           w == Eval(Top.e.then, g.bound)
           v == Eval(Top.e, g.bound).value
<1>1. frames # <<>> /\ Top.e.kind = "if" /\ Top.calls = 2 /\ ret # <<>>
  BY DEF LowerElse, At
<1>2. InArms(Top) /\ a = Top.arms[1] /\ Dst(Top) = Top.temps[2]
  BY <1>1 DEF InArms, WorksIn, Dst
<1> PICK p : p = Put(code, WorksIn(Top), Copy(Dst(Top), Returned))
  OBVIOUS
<1>3. CodeOK(p, entry, next) /\ Len(p) = Len(code) /\ Has(p, entry, b) = t
  BY <1>1, <1>2, ArmEnds
<1>4. /\ Top \in Activation /\ ActivationOK(Top, code, entry, env, next) /\ b \in 1..Len(code)
      /\ Len(code) \in Nat /\ CodeOK(code, entry, next) /\ next \in Nat /\ a \in 1..Len(code)
      /\ Top.e \in Expr
  BY <1>1, TopIs DEF Activation
<1>5. Scopes(Top) = Top.depth /\ Len(env) = Top.depth
  BY <1>1, IfIs
<1>6. /\ code' = Append(p, <<>>) /\ entry' = Append(entry, t)
      /\ UNCHANGED <<env, next>> /\ ret' = <<>>
  BY <1>2 DEF LowerElse, CallLower, CallIn, Available, Has, Put
<1>7. frames' = Front(frames) \o <<f, Frame(Top.e.else, l, Len(env))>>
  BY DEF LowerElse, CallLower, CallIn
<1>8. t \subseteq Nat
  BY <1>4, HasType
<1>9. /\ Len(Top.temps) = 2 /\ Len(Top.arms) = 1 /\ Top.arms \in Seq(Nat) /\ b < a
  <2>1. Shape(Top, code) /\ Top.arms \in Seq(Nat)
    BY <1>4 DEF ActivationOK, Activation
  <2> QED
    BY <1>1, <1>2, <2>1 DEF Shape
<1>10. arms \in Seq(Nat) /\ Len(arms) = 2 /\ arms[1] = a /\ arms[2] = l
  <2>1. l \in Nat
    BY <1>4
  <2> HIDE DEF l, a
  <2>2. Top.arms \in Seq(Nat)
    BY <1>9
  <2>3. /\ arms \in Seq(Nat) /\ Len(arms) = Len(Top.arms) + 1 /\ arms[Len(Top.arms) + 1] = l
        /\ \A i \in 1..Len(Top.arms) : arms[i] = Top.arms[i]
    BY <2>1, <2>2
  <2> HIDE DEF arms
  <2>4. Len(Top.arms) + 1 = 2 /\ 1 \in 1..Len(Top.arms)
    BY <1>9
  <2> QED
    BY <1>2, <2>3, <2>4
<1>11. /\ Known(Top, g, code, val, pre) /\ Ghosts(val, pre) /\ EntriesBelow(entry, next)
  BY <1>1, TopMeans
<1>12. \A u \in t : u < next
  BY <1>4, <1>11, HasBelow
<1> HIDE DEF t, arms
<1>13. /\ f \in Activation /\ f.e = Top.e /\ f.block = b /\ f.depth = Top.depth
       /\ f.calls = 3 /\ f.temps = Top.temps /\ f.arms = arms
  <2>1. /\ h \in Activation /\ h.e = Top.e /\ h.block = b /\ h.depth = Top.depth
        /\ h.calls = 2 /\ h.temps = Top.temps /\ h.arms = arms
    BY <1>1, <1>4, <1>10 DEF Activation
  <2> HIDE DEF h
  <2>2. /\ f \in Activation /\ f.e = h.e /\ f.block = h.block /\ f.depth = h.depth
        /\ f.calls = h.calls + 1 /\ f.temps = h.temps /\ f.arms = h.arms
    BY <2>1, NextCall
  <2> HIDE DEF f
  <2> QED
    BY <2>1, <2>2
<1> HIDE DEF h
<1>14. frames' = Front(frames) \o <<f, Frame(Top.e.else, l, Len(env))>>
  BY <1>7
<1> HIDE DEF f
<1>15. /\ InArms(f) /\ Scopes(f) = Top.depth /\ Dst(f) = Dst(Top) /\ WorksIn(f) = l
       /\ Child(f) = Top.e.else
  BY <1>1, <1>10, <1>13 DEF InArms, Scopes, Dst, WorksIn, Child
<1>16. /\ Due(f, g).base = <<>> /\ Due(f, g).bound = g.bound /\ Now(f, g) = g.bound
       /\ Now(Top, g) = g.bound
  BY <1>2, <1>15, DueForArm
<1>17. /\ g.base \in Seq(Value) /\ val[Top.temps[1]] = m.value /\ m.out \in Seq(Value)
       /\ Out(code, pre, b) = g.base \o m.out /\ (v \in Value => val[Dst(Top)] = v)
  BY <1>2, <1>11 DEF Known
<1>18. val[Returned] = w.value /\ w.value \in Value /\ w.out \in Seq(Value) /\ Out(code, pre, a) = w.out
  <2>1. LET k == Eval(IF Top.calls = 2 THEN Top.e.then ELSE Top.e.else, g.bound)
        IN  /\ val[Returned] = k.value /\ k.value \in Value
            /\ k.out \in Seq(Value) /\ Out(code, pre, WorksIn(Top)) = k.out
    BY <1>1, <1>2, ArmDid
  <2> QED
    BY <1>1, <2>1
<1>19. m.value # Zero => v = w.value
  BY <1>1, <1>4, BranchMeans
<1> HIDE DEF m, v, w, a
<1>20. PICK pre2 : ArmOver(p, val, pre, pre2)
  BY <1>1, <1>2, ArmMeans
<1>21. /\ Ghosts(val, pre2) /\ CodeMeans(p, val, pre2) /\ p # <<>> /\ NoCopyIn(p, 1)
       /\ ~NoCopyIn(p, a) /\ Out(p, pre2, a) = w.out
       /\ \A d \in 1..Len(code) : d # a => p[d] = code[d] /\ pre2[d] = pre[d]
  BY <1>18, <1>20 DEF ArmOver, a
<1>22. m.value # Zero => CopiesMean(p, val, a)
  BY <1>17, <1>18, <1>19, <1>20 DEF ArmOver, a
<1> PICK c, en : c = Append(p, <<>>) /\ en = Append(entry, t)
  OBVIOUS
<1>23. BlockAlso(p, entry, next, val, pre2, c, en)
  BY <1>3, <1>4, <1>8, <1>11, <1>12, <1>21, BlockBegins
<1>24. /\ CodeMeans(c, val, pre2) /\ Out(c, pre2, l) = <<>> /\ EntriesBelow(en, next)
       /\ c # <<>> /\ NoCopyIn(c, 1) /\ \A d \in 1..Len(code) : c[d] = p[d]
  BY <1>3, <1>23 DEF BlockAlso
<1>25. Untouched(c, pre, pre2)
  BY <1>21, <1>24 DEF Untouched, a
<1>26. Means(program, frames, code, entry, env, next, ret, val, pre, G)
  BY DEF MeansNow
<1>27. Same(val, val, next)
  BY DEF Same
<1>28. Evolves(G, c, en, env, next, val, pre2)
  <2>1. ASSUME NEW k \in 1..(Len(frames) - 1)
        PROVE  /\ Known(frames[k], G[k], c, val, pre2)
               /\ Agrees(env, Scopes(frames[k]), Now(frames[k], G[k]), val)
    <3>1. \A i \in 1..Top.depth : env[i] = env[i]
      OBVIOUS
    <3> QED
      BY <1>1, <1>25, <1>26, <1>27, <3>1, OthersKnow
  <2> QED
    BY <1>21, <1>24, <2>1 DEF Evolves
<1>29. Known(f, g, c, val, pre2)
  <2>1. f.e.kind = "if" /\ f.e = Top.e /\ f.calls = 3
    BY <1>1, <1>13
  <2>2. b # a /\ c[b] = code[b] /\ pre2[b] = pre[b] /\ c[a] = p[a]
    <3>1. b # a
      BY <1>4, <1>9
    <3>2. p[b] = code[b] /\ pre2[b] = pre[b]
      BY <1>4, <1>21, <3>1
    <3>3. c[b] = p[b] /\ c[a] = p[a]
      BY <1>4, <1>24
    <3> QED
      BY <3>1, <3>2, <3>3
  <2>3. Out(c, pre2, b) = g.base \o m.out
    BY <1>17, <2>2 DEF Out
  <2>4. /\ Out(c, pre2, a) = w.out /\ ~NoCopyIn(c, a)
        /\ m.value # Zero => CopiesMean(c, val, a)
    <3>1. Out(c, pre2, a) = w.out
      BY <1>21, <2>2 DEF Out
    <3>2. ~NoCopyIn(c, a)
      BY <1>21, <2>2 DEF NoCopyIn
    <3>3. m.value # Zero => CopiesMean(c, val, a)
      BY <1>22, <2>2 DEF CopiesMean
    <3> QED
      BY <3>1, <3>2, <3>3
  <2>5. LET n == Eval(f.e.cond, g.bound)
            u == Eval(f.e, g.bound).value
        IN  /\ val[f.temps[1]] = n.value /\ n.out \in Seq(Value)
            /\ Out(c, pre2, f.block) = g.base \o n.out
            /\ u \in Value => val[Dst(f)] = u
    BY <1>13, <1>15, <1>17, <2>1, <2>3 DEF m, v
  <2>6. LET n == Eval(f.e.then, g.bound)
        IN  /\ n.out \in Seq(Value) /\ Out(c, pre2, f.arms[1]) = n.out /\ ~NoCopyIn(c, f.arms[1])
            /\ Eval(f.e.cond, g.bound).value # Zero =>
                 n.value \in Value /\ CopiesMean(c, val, f.arms[1])
    BY <1>10, <1>13, <1>18, <2>1, <2>4 DEF m, w
  <2> QED
    BY <1>17, <2>1, <2>5, <2>6 DEF Known
<1>30. Agrees(env, Scopes(f), Now(f, g), val)
  BY <1>1, <1>5, <1>15, <1>16, <1>27, NamesAgree
<1>31. <<>> \in Seq(Value)
  OBVIOUS
<1>32. /\ Evolves(G, code', entry', env', next', val, pre2) /\ Known(f, g, code', val, pre2)
       /\ Agrees(env', Scopes(f), Now(f, g), val) /\ Out(code', pre2, WorksIn(f)) = Due(f, g).base
       /\ Due(f, g).base \in Seq(Value)
  BY <1>6, <1>15, <1>16, <1>24, <1>28, <1>29, <1>30, <1>31
<1>33. frames' = Front(frames) \o <<f, Frame(Child(f), WorksIn(f), Scopes(f))>>
  BY <1>5, <1>14, <1>15
<1>34. f.calls # 0
  BY <1>13
<1> HIDE DEF g
<1>35. g = G[Len(frames)]
  BY DEF g
<1> QED
  BY <1>1, <1>6, <1>13, <1>26, <1>32, <1>33, <1>34, <1>35, CallMeans

\* EmitIf ends the second arm, and emits the `if`.
LEMMA IfMeans ==
  ASSUME IsAst, IsEval, IInv, CodeRuns, NEW program, MInv(program), EmitIf
  PROVE  MInv(program)'
<1> PICK val, pre, G : MeansNow(program, val, pre, G)
  BY DEF MInv, MeansNow
<1> DEFINE g == G[Len(frames)]
           b == Top.block
           a == WorksIn(Top)
           i == Top.arms[1]
           t == Dst(Top)
           l == Top.temps[1]
           args == <<l>>
           arms == <<i, a>>
           x == Branch(t, l, i, a)
           m == Eval(Top.e.cond, g.bound)
           w == Eval(Top.e.then, g.bound)
           u == Eval(Top.e.else, g.bound)
           k == IF m.value # Zero THEN w ELSE u
           v == Eval(Top.e, g.bound).value
<1>1. frames # <<>> /\ Top.e.kind = "if" /\ Top.calls = 3 /\ ret # <<>>
  BY DEF EmitIf, At
<1>2. InArms(Top) /\ a = Top.arms[2] /\ t = Top.temps[2]
  BY <1>1 DEF InArms, WorksIn, Dst
<1> PICK p : p = Put(code, WorksIn(Top), Copy(Dst(Top), Returned))
  OBVIOUS
<1>3. CodeOK(p, entry, next) /\ p \in Code /\ Len(p) = Len(code) /\ NoCopyIn(p, b)
  BY <1>1, <1>2, ArmEnds
<1>4. /\ Top \in Activation /\ ActivationOK(Top, code, entry, env, next) /\ b \in 1..Len(code)
      /\ Len(code) \in Nat /\ code \in Code /\ CodeOK(code, entry, next) /\ next \in Nat
      /\ a \in 1..Len(code) /\ Top.e \in Expr
  BY <1>1, TopIs DEF Activation
<1>5. /\ Len(Top.temps) = 2 /\ Len(Top.arms) = 2 /\ Top.arms \in Seq(Nat) /\ Top.temps \in Seq(Nat)
      /\ NoCopyIn(code, a) /\ b < a
  <2>1. Shape(Top, code) /\ Owns(Top, code, next) /\ Top.arms \in Seq(Nat) /\ Top.temps \in Seq(Nat)
    BY <1>4 DEF ActivationOK, Activation
  <2>2. Len(Top.temps) = 2 /\ Len(Top.arms) = 2 /\ NoCopyIn(code, a)
    BY <1>1, <1>2, <2>1 DEF Shape, Owns
  <2>3. b < a
    BY <1>2, <1>4, WorksInIs DEF ActivationOK
  <2> QED
    BY <2>1, <2>2, <2>3
<1>6. i \in 1..Len(code) /\ l \in Nat /\ t \in Nat
  <2>1. i \in 1..Len(code)
    <3>1. Shape(Top, code) /\ 1 \in 1..Len(Top.arms)
      BY <1>4, <1>5 DEF ActivationOK
    <3> QED
      BY <1>2, <1>4, <3>1, ArmsAre
  <2>2. Top.temps[1] \in Nat /\ Top.temps[2] \in Nat
    BY <1>5
  <2> QED
    BY <1>2, <2>1, <2>2
<1>7. /\ Known(Top, g, code, val, pre) /\ Ghosts(val, pre) /\ EntriesBelow(entry, next)
  BY <1>1, TopMeans
<1>8. /\ g.base \in Seq(Value) /\ val[l] = m.value /\ m.out \in Seq(Value)
      /\ Out(code, pre, b) = g.base \o m.out /\ (v \in Value => val[t] = v)
      /\ w.out \in Seq(Value) /\ Out(code, pre, i) = w.out /\ ~NoCopyIn(code, i)
      /\ m.value # Zero => w.value \in Value /\ CopiesMean(code, val, i)
  BY <1>1, <1>2, <1>7 DEF Known
<1>9. val[Returned] = u.value /\ u.value \in Value /\ u.out \in Seq(Value) /\ Out(code, pre, a) = u.out
  <2>1. LET n == Eval(IF Top.calls = 2 THEN Top.e.then ELSE Top.e.else, g.bound)
        IN  /\ val[Returned] = n.value /\ n.value \in Value
            /\ n.out \in Seq(Value) /\ Out(code, pre, WorksIn(Top)) = n.out
    BY <1>1, <1>2, ArmDid
  <2> QED
    BY <1>1, <2>1
<1>10. v = k.value /\ Eval(Top.e, g.bound).out = m.out \o k.out
  <2>1. LET c == Eval(Top.e.cond, g.bound)
            n == Eval(IF c.value # Zero THEN Top.e.then ELSE Top.e.else, g.bound)
        IN  /\ Eval(Top.e, g.bound).value = n.value
            /\ Eval(Top.e, g.bound).out = c.out \o n.out
    BY <1>1, <1>4, BranchMeans
  <2>2. k = Eval(IF m.value # Zero THEN Top.e.then ELSE Top.e.else, g.bound)
    OBVIOUS
  <2> HIDE DEF k
  <2> QED
    BY <2>1, <2>2
<1> PICK o : o = Eval(Top.e, g.bound).out
  OBVIOUS
<1> HIDE DEF m, v, w, u, a, i, t, l
<1>11. /\ m.value # Zero => k = w
       /\ m.value = Zero => k = u
  OBVIOUS
<1> HIDE DEF k
<1>12. v \in Value /\ val[t] = v /\ k.out \in Seq(Value)
  BY <1>8, <1>9, <1>10, <1>11
<1>13. PICK pre1 : ArmOver(p, val, pre, pre1)
  BY <1>1, <1>2, ArmMeans
<1>14. /\ Ghosts(val, pre1) /\ CodeMeans(p, val, pre1) /\ p # <<>> /\ NoCopyIn(p, 1)
       /\ ~NoCopyIn(p, a) /\ Out(p, pre1, a) = u.out
       /\ (val[t] = val[Returned] => CopiesMean(p, val, a))
       /\ \A d \in 1..Len(code) : d # a => p[d] = code[d] /\ pre1[d] = pre[d]
  BY <1>9, <1>13 DEF ArmOver, a, t
<1>15. i # a /\ b # a /\ p[i] = code[i] /\ pre1[i] = pre[i] /\ p[b] = code[b] /\ pre1[b] = pre[b]
  <2>1. i # a
    BY <1>5, <1>8
  <2>2. b # a
    BY <1>4, <1>5
  <2>3. p[i] = code[i] /\ pre1[i] = pre[i]
    BY <1>6, <1>14, <2>1
  <2>4. p[b] = code[b] /\ pre1[b] = pre[b]
    BY <1>4, <1>14, <2>2
  <2> QED
    BY <2>1, <2>2, <2>3, <2>4
<1>16. code' = Put(p, b, x) /\ ret' = <<t>> /\ frames' = Front(frames) /\ UNCHANGED <<env, entry, next>>
  BY <1>2, <1>15 DEF EmitIf, Return, Put, a, i, l, t
<1>17. /\ Out(p, pre1, i) = w.out /\ ~NoCopyIn(p, i) /\ Out(p, pre1, b) = g.base \o m.out
       /\ m.value # Zero => CopiesMean(p, val, i)
  <2>1. Out(p, pre1, i) = w.out /\ Out(p, pre1, b) = g.base \o m.out
    BY <1>8, <1>15 DEF Out
  <2>2. ~NoCopyIn(p, i)
    BY <1>8, <1>15 DEF NoCopyIn
  <2>3. m.value # Zero => CopiesMean(p, val, i)
    BY <1>8, <1>15 DEF CopiesMean
  <2> QED
    BY <2>1, <2>2, <2>3
<1>18. /\ args \in Seq(Nat) /\ Len(args) = 1 /\ args[1] = l
       /\ arms \in Seq(Nat) /\ Len(arms) = 2 /\ arms[1] = i /\ arms[2] = a
  BY <1>4, <1>6
<1>19. x = [op |-> "if", what |-> "", dst |-> t, args |-> args, arms |-> arms]
  BY DEF Branch, Instr
<1> HIDE DEF x, args, arms
<1>20. x \in Instruction
  <2>1. "" \in What
    BY DEF What
  <2> QED
    BY <1>6, <1>18, <1>19, <2>1 DEF Instruction
<1>21. x.op = "if" /\ x.op # "copy" /\ x.args = args /\ x.arms = arms
  BY <1>19
<1>22. Operands(x) /\ Closed(p, x)
  <2>1. Operands(x)
    BY <1>18, <1>21 DEF Operands
  <2>2. \A n \in 1..2 : arms[n] \in 1..Len(p) /\ ~NoCopyIn(p, arms[n])
    BY <1>3, <1>4, <1>6, <1>14, <1>17, <1>18
  <2> QED
    BY <1>18, <1>21, <2>1, <2>2 DEF Closed
<1>23. /\ m.value # Zero => Taken(x, val) = i
       /\ m.value = Zero => Taken(x, val) = a
  BY <1>8, <1>18, <1>21 DEF Taken
<1>24. CopiesMean(p, val, Taken(x, val)) /\ Out(p, pre1, Taken(x, val)) = k.out
  <2>1. CASE m.value # Zero
    BY <1>11, <1>17, <1>23, <2>1
  <2>2. CASE m.value = Zero
    BY <1>9, <1>10, <1>11, <1>12, <1>14, <1>23, <2>2
  <2> QED
    BY <2>1, <2>2
<1>25. Computes(p, val, x) /\ Prints(p, val, pre1, x) = k.out
  BY <1>21, <1>24 DEF Computes, Prints
<1> PICK c : c = Put(p, b, x)
  OBVIOUS
<1> PICK pre2 : pre2 = Printed(p, val, pre1, b, x)
  OBVIOUS
<1>26. CodeMeans(c, val, pre2) /\ Out(c, pre2, b) = OutWith(p, val, pre1, b, x)
  <2>1. b \in 1..Len(p)
    BY <1>3, <1>4
  <2>2. LET q == Printed(p, val, pre1, b, x)
        IN  /\ CodeMeans(Put(p, b, x), val, q)
            /\ Out(Put(p, b, x), q, b) = OutWith(p, val, pre1, b, x)
    BY <1>3, <1>14, <1>20, <1>22, <1>25, <2>1, PutMeans
  <2> QED
    BY <2>2
<1>27. (\A d \in Nat : d # b => pre2[d] = pre1[d]) /\ Ghosts(val, pre2)
  <2>1. b \in 1..Len(p) /\ Prints(p, val, pre1, x) \in Seq(Value)
    BY <1>3, <1>4, <1>12, <1>25
  <2> QED
    BY <1>3, <1>14, <2>1, PrintedIs
<1>28. Len(c) = Len(p) /\ \A d \in 1..Len(p) : d # b => c[d] = p[d]
  <2>1. b \in 1..Len(p)
    BY <1>3, <1>4
  <2> QED
    BY <1>3, <1>20, <2>1, PutIs, ZenonT(30)
<1>29. c # <<>> /\ NoCopyIn(c, 1)
  <2>1. b \in 1..Len(p) /\ 1 \in 1..Len(p)
    BY <1>3, <1>4
  <2>2. NoCopyIn(Put(p, b, x), 1)
    BY <1>3, <1>14, <1>20, <1>21, <2>1, NoCopyPut
  <2>3. c # <<>>
    BY <1>28, <2>1, SomeCode
  <2> QED
    BY <2>2, <2>3
<1>30. Untouched(c, pre, pre2)
  <2> SUFFICES ASSUME NEW d \in 1..Len(code), d # b, d # a
               PROVE  c[d] = code[d] /\ pre2[d] = pre[d]
    BY DEF Untouched, a
  <2>1. p[d] = code[d] /\ pre1[d] = pre[d]
    BY <1>14
  <2>2. c[d] = p[d]
    BY <1>3, <1>28
  <2>3. pre2[d] = pre1[d]
    BY <1>27
  <2> QED
    BY <2>1, <2>2, <2>3
<1>31. Means(program, frames, code, entry, env, next, ret, val, pre, G)
  BY DEF MeansNow
<1>32. Same(val, val, next)
  BY DEF Same
<1>33. Evolves(G, c, entry, env, next, val, pre2)
  <2>1. ASSUME NEW j \in 1..(Len(frames) - 1)
        PROVE  /\ Known(frames[j], G[j], c, val, pre2)
               /\ Agrees(env, Scopes(frames[j]), Now(frames[j], G[j]), val)
    <3>1. \A n \in 1..Top.depth : env[n] = env[n]
      OBVIOUS
    <3> QED
      BY <1>1, <1>30, <1>31, <1>32, <3>1, OthersKnow
  <2> QED
    BY <1>7, <1>26, <1>27, <1>29, <2>1 DEF Evolves
<1>34. Did(Top.e, g, b, t, c, val, pre2)
  <2>1. Out(c, pre2, b) = (g.base \o m.out) \o k.out
    BY <1>17, <1>25, <1>26 DEF OutWith
  <2>2. (g.base \o m.out) \o k.out = g.base \o (m.out \o k.out) /\ m.out \o k.out \in Seq(Value)
    BY <1>8, <1>12, Regrouped
  <2>3. o \in Seq(Value) /\ Out(c, pre2, b) = g.base \o o
    BY <1>10, <2>1, <2>2
  <2> QED
    BY <1>12, <2>3 DEF Did, v
<1>35. BodyOK /\ frames # <<>>
  <2>1. code # <<>>
    BY <1>1, TopMeans
  <2> QED
    BY <1>1, <2>1 DEF CodeRuns
<1>36. Evolves(G, code', entry', env', next', val, pre2) /\ Did(Top.e, g, Top.block, t, code', val, pre2)
  BY <1>16, <1>33, <1>34
<1> QED
  BY <1>16, <1>31, <1>35, <1>36, ReturnMeans

-----------------------------------------------------------------------------
(* Every step.                                                             *)

LEMMA ProgramMeans ==
  ASSUME IsNumeric, IInv, NEW program \in Expr, LowerProgram(program)
  PROVE  MInv(program)'
<1> DEFINE h == Frame(program, 1, 0)
           none == <<>>
           c == <<none>>
           no == {}
           en == <<no>>
           fs == <<h>>
           nothing == [i \in Nat |-> none]
<1>1. frames = <<>> /\ code = <<>> /\ env = <<>> /\ ret = <<>> /\ next \in Nat
  BY DEF LowerProgram, IInv, Types, CodeOK
<1>2. /\ frames' = fs /\ code' = c /\ entry' = en /\ UNCHANGED <<env, next, ret>>
  BY DEF LowerProgram
<1>3. /\ none \in Seq(Value) /\ Len(none) = 0 /\ Len(env) = 0
  BY <1>1
<1>4. h.block = 1 /\ h.depth = 0 /\ h.calls = 0 /\ h.e = program
  BY DEF Frame
<1> PICK val : val = [i \in Nat |-> Zero]
  OBVIOUS
<1> PICK pre : pre = [i \in Nat |-> nothing]
  OBVIOUS
<1> PICK G : G = [i \in Nat |-> Start]
  OBVIOUS
<1> HIDE DEF h
<1>5. /\ Len(c) = 1 /\ c[1] = none /\ Len(en) = 1 /\ en[1] = no /\ Len(fs) = 1 /\ fs[1] = h
  OBVIOUS
<1> HIDE DEF none, no, c, en, fs
<1>6. Ghosts(val, pre)
  <2>1. nothing \in [Nat -> Seq(Value)]
    BY <1>3
  <2>2. pre \in [Nat -> [Nat -> Seq(Value)]] /\ \A b \in Nat : pre[b] = nothing
    BY <2>1
  <2>3. nothing[1] = none
    OBVIOUS
  <2>4. val \in [Nat -> Value]
    BY DEF IsNumeric
  <2> QED
    BY <2>2, <2>3, <2>4 DEF Ghosts, none
<1>7. CodeMeans(c, val, pre) /\ NoCopyIn(c, 1)
  <2>1. \A b \in 1..Len(c) : \A i \in 1..Len(c[b]) : FALSE
    BY <1>3, <1>5
  <2>2. 1 \in 1..Len(c)
    BY <1>5
  <2>3. NoCopyIn(c, 1)
    BY <2>1, <2>2 DEF NoCopyIn
  <2> QED
    BY <2>1, <2>3 DEF CodeMeans, Proper
<1>8. EntriesBelow(en, next)
  BY <1>5 DEF EntriesBelow, no
<1>9. Out(c, pre, 1) = <<>>
  <2>1. Len(c[1]) + 1 = 1
    BY <1>3, <1>5
  <2> QED
    BY <1>6, <2>1 DEF Out, Ghosts
<1>10. DOMAIN G = Nat /\ G[1] = Start
  OBVIOUS
<1>11. Start.base = <<>> /\ Start.bound = <<>> /\ <<>> \in Seq(Value)
  BY <1>3 DEF Start, none
<1>12. ~InArms(h) /\ Scopes(h) = 0
  BY <1>4 DEF InArms, Scopes
<1>13. Known(h, Start, c, val, pre)
  BY <1>4, <1>11, <1>12 DEF Known
<1>14. Agrees(env, Scopes(h), Now(h, Start), val)
  BY <1>12 DEF Agrees
<1>15. LatestMeans(h, Start, c, <<>>, val, pre)
  BY <1>4, <1>9, <1>11 DEF LatestMeans
<1>16. fs # <<>> /\ c # <<>>
  <2>1. Len(fs) # 0
    BY <1>5
  <2>2. fs # <<>>
    BY <2>1, SomeItems
  <2>3. Len(c) # 0
    BY <1>5
  <2>4. c # <<>>
    BY <2>3, SomeItems
  <2> QED
    BY <2>2, <2>4
<1>17. StackMeans(program, fs, c, env, <<>>, val, pre, G)
  <2>1. \A k \in 1..Len(fs) : k = 1
    BY <1>5
  <2>2. \A k \in 1..(Len(fs) - 1) : FALSE
    BY <1>5
  <2>3. \A k \in 1..Len(fs) :
          Known(fs[k], G[k], c, val, pre) /\ Agrees(env, Scopes(fs[k]), Now(fs[k], G[k]), val)
    BY <1>5, <1>10, <1>13, <1>14, <2>1
  <2>4. LatestMeans(fs[Len(fs)], G[Len(fs)], c, <<>>, val, pre)
    BY <1>5, <1>10, <1>15
  <2> QED
    BY <1>4, <1>5, <1>10, <2>2, <2>3, <2>4 DEF StackMeans
<1>18. Means(program, fs, c, en, env, next, <<>>, val, pre, G)
  BY <1>6, <1>7, <1>8, <1>16, <1>17 DEF Means
<1>19. Means(program, frames', code', entry', env', next', ret', val, pre, G)
  BY <1>1, <1>2, <1>18
<1> QED
  BY <1>19 DEF MInv

\* There is no code at first.
LEMMA InitMeans ==
  ASSUME IsNumeric, LowerInit, NEW program
  PROVE  MInv(program)
<1> DEFINE none == <<>>
           nothing == [i \in Nat |-> none]
<1>1. frames = none /\ code = none /\ entry = none /\ none \in Seq(Value) /\ Len(none) = 0
  BY DEF LowerInit
<1> PICK val : val = [i \in Nat |-> Zero]
  OBVIOUS
<1> PICK pre : pre = [i \in Nat |-> nothing]
  OBVIOUS
<1> PICK G : G = [i \in Nat |-> Start]
  OBVIOUS
<1>2. code = <<>> /\ frames = <<>>
  BY DEF LowerInit
<1> HIDE DEF none
<1>3. Ghosts(val, pre)
  <2>1. nothing \in [Nat -> Seq(Value)]
    BY <1>1
  <2>2. pre \in [Nat -> [Nat -> Seq(Value)]] /\ \A b \in Nat : pre[b] = nothing
    BY <2>1
  <2>3. nothing[1] = none
    OBVIOUS
  <2>4. val \in [Nat -> Value]
    BY DEF IsNumeric
  <2> QED
    BY <2>2, <2>3, <2>4 DEF Ghosts, none
<1>4. CodeMeans(code, val, pre) /\ EntriesBelow(entry, next)
  BY <1>1 DEF CodeMeans, Proper, EntriesBelow
<1>5. DOMAIN G = Nat /\ G[1] = Start
  OBVIOUS
<1>6. StackMeans(program, frames, code, env, ret, val, pre, G)
  BY <1>1, <1>2, <1>5 DEF StackMeans
<1> QED
  BY <1>2, <1>3, <1>4, <1>6 DEF Means, MInv

\* Every step of lowering keeps the invariant.
LEMMA MeansStep ==
  ASSUME IsAst, IsNumeric, IsKinds, IsEval, IInv, CodeRuns, NEW program \in Expr, MInv(program),
         LowerProgram(program) \/ LowerStep \/ UNCHANGED lowerVars
  PROVE  MInv(program)'
<1>1. CASE LowerProgram(program)
  BY <1>1, ProgramMeans
<1>2. CASE LowerStep
  <2>1. CASE LowerNumber \/ LowerVar \/ LowerLhs \/ LowerRhs \/ EmitBinOp
    BY <2>1, NumberMeans, VarMeans, LhsMeans, RhsMeans, BinOpMeans
  <2>2. CASE LowerCond \/ LowerThen \/ LowerElse \/ EmitIf
    BY <2>2, CondMeans, ThenMeans, ElseMeans, IfMeans
  <2>3. CASE OpenScope \/ LowerLet \/ LowerPrint \/ CloseScope
    BY <2>3, OpenMeans, LetMeans, PrintMeans, CloseMeans
  <2> QED
    BY <1>2, <2>1, <2>2, <2>3 DEF LowerStep
<1>3. CASE UNCHANGED lowerVars
  BY <1>3 DEF lowerVars, MInv
<1> QED
  BY <1>1, <1>2, <1>3

-----------------------------------------------------------------------------
(* What the interpreter makes of code that means something.                *)

\* s is the beginning of t.
Precedes(s, t) == \E r \in Seq(Value) : t = s \o r

\* A beginning stays one with the same before it, and of what begins so.
LEMMA BeginsMore ==
  ASSUME NEW p \in Seq(Value), NEW s \in Seq(Value), NEW t \in Seq(Value), NEW u, Precedes(s, t)
  PROVE  Precedes(p \o s, p \o t) /\ (Precedes(t, u) => Precedes(s, u))
<1>1. PICK r \in Seq(Value) : t = s \o r
  BY DEF Precedes
<1>2. p \o (s \o r) = (p \o s) \o r
  BY OutJoined
<1>3. ASSUME Precedes(t, u) PROVE Precedes(s, u)
  <2>1. PICK q \in Seq(Value) : u = t \o q
    BY <1>3 DEF Precedes
  <2>2. (s \o r) \o q = s \o (r \o q) /\ r \o q \in Seq(Value)
    BY OutJoined
  <2> QED
    BY <1>1, <2>1, <2>2 DEF Precedes
<1> QED
  BY <1>1, <1>2, <1>3 DEF Precedes

\* What an instruction prints is a list of values.
LEMMA PrintsIs ==
  ASSUME NEW c \in Code, NEW val, NEW pre, Ghosts(val, pre), NEW x \in Instruction,
         Operands(x), Closed(c, x)
  PROVE  Prints(c, val, pre, x) \in Seq(Value)
<1>1. ASSUME x.op = "call", x.what = "print" PROVE Prints(c, val, pre, x) \in Seq(Value)
  <2>1. Len(x.args) = 1
    BY <1>1 DEF Operands
  <2>2. x.args \in Seq(Nat)
    BY DEF Instruction
  <2>3. x.args[1] \in Nat
    BY <2>1, <2>2
  <2>4. PICK v \in Value : v = val[x.args[1]]
    BY <2>3 DEF Ghosts
  <2>5. <<v>> \in Seq(Value)
    OBVIOUS
  <2> QED
    BY <1>1, <2>4, <2>5 DEF Prints
<1>2. ASSUME x.op = "if" PROVE Prints(c, val, pre, x) \in Seq(Value)
  <2>1. PICK a : a = Taken(x, val)
    OBVIOUS
  <2>2. a \in 1..Len(c)
    BY <1>2, <2>1, ArmTaken
  <2>3. Len(c) \in Nat /\ Len(c[a]) \in Nat
    BY <2>2 DEF Code
  <2>4. a \in Nat /\ Len(c[a]) + 1 \in Nat
    BY <2>2, <2>3
  <2>5. Out(c, pre, a) \in Seq(Value)
    BY <2>4 DEF Out, Ghosts
  <2> QED
    BY <1>2, <2>1, <2>5 DEF Prints
<1>3. <<>> \in Seq(Value)
  OBVIOUS
<1>4. x.op # "if" /\ ~(x.op = "call" /\ x.what = "print") => Prints(c, val, pre, x) = <<>>
  BY DEF Prints
<1> QED
  BY <1>1, <1>2, <1>3, <1>4

\* What a block has printed up to an instruction is the beginning of what it prints.
LEMMA PrintedFirst ==
  ASSUME NEW c \in Code, NEW val, NEW pre, Ghosts(val, pre), CodeMeans(c, val, pre),
         NEW b \in 1..Len(c), NEW i \in 1..(Len(c[b]) + 1)
  PROVE  Precedes(pre[b][i], Out(c, pre, b))
<1> DEFINE n == Len(c[b])
           T == {k \in Nat : k <= n => Precedes(pre[b][n + 1 - k], pre[b][n + 1])}
<1>1. n \in Nat /\ c[b] \in Seq(Instruction) /\ b \in Nat
  <2>1. c[b] \in Seq(Instruction) /\ Len(c) \in Nat
    BY DEF Code
  <2> QED
    BY <2>1
<1>2. \A j \in 1..n : c[b][j] \in Instruction
  BY <1>1
<1>3. \A j \in Nat : pre[b][j] \in Seq(Value)
  BY <1>1 DEF Ghosts
<1>4. \A j \in 1..n : Precedes(pre[b][j], pre[b][j + 1])
  <2> SUFFICES ASSUME NEW j \in 1..n PROVE Precedes(pre[b][j], pre[b][j + 1])
    OBVIOUS
  <2>1. Operands(c[b][j]) /\ Closed(c, c[b][j])
    BY DEF CodeMeans, Proper
  <2>2. Prints(c, val, pre, c[b][j]) \in Seq(Value)
    BY <1>2, <2>1, PrintsIs
  <2>3. pre[b][j + 1] = pre[b][j] \o Prints(c, val, pre, c[b][j])
    BY DEF CodeMeans
  <2> QED
    BY <2>2, <2>3 DEF Precedes
<1>5. i \in 1..(n + 1)
  OBVIOUS
<1>6. Out(c, pre, b) = pre[b][n + 1]
  BY DEF Out
<1> HIDE DEF n
<1>7. 0 \in T
  <2>1. pre[b][n + 1] \o <<>> = pre[b][n + 1]
    BY <1>1, <1>3, OutJoined
  <2>2. <<>> \in Seq(Value)
    OBVIOUS
  <2>3. Precedes(pre[b][n + 1], pre[b][n + 1])
    BY <2>1, <2>2 DEF Precedes
  <2>4. n + 1 - 0 = n + 1
    BY <1>1
  <2> QED
    BY <2>3, <2>4
<1>8. \A k \in Nat : k \in T => k + 1 \in T
  <2> SUFFICES ASSUME NEW k \in T, k + 1 <= n PROVE Precedes(pre[b][n + 1 - (k + 1)], pre[b][n + 1])
    OBVIOUS
  <2>1. PICK j : j = n + 1 - (k + 1)
    OBVIOUS
  <2>2. j \in 1..n /\ j + 1 = n + 1 - k /\ k <= n /\ j \in Nat /\ j + 1 \in Nat
    BY <1>1, <2>1
  <2>3. Precedes(pre[b][j + 1], pre[b][n + 1])
    BY <2>2
  <2>4. pre[b][j] \in Seq(Value) /\ pre[b][j + 1] \in Seq(Value)
    BY <1>3, <2>2
  <2>5. Precedes(pre[b][j], pre[b][j + 1])
    BY <1>4, <2>2
  <2> QED
    BY <2>1, <2>3, <2>4, <2>5, BeginsMore
<1>9. Nat \subseteq T
  BY <1>7, <1>8, AllNumbers
<1>10. PICK k \in Nat : k <= n /\ n + 1 - k = i
  <2>1. n + 1 - i \in Nat /\ n + 1 - i <= n /\ n + 1 - (n + 1 - i) = i
    BY <1>1, <1>5
  <2> QED
    BY <2>1
<1>11. k \in T
  BY <1>9
<1> QED
  BY <1>6, <1>10, <1>11

\* f waits for g, which is the arm it takes, and B2 is printed when g begins.
Entered(f, g, B1, B2, c, val, pre) ==
  /\ g.block = Taken(c[f.block][f.at - 1], val)
  /\ B2 = B1 \o pre[f.block][f.at - 1]

IsPrint(x) == x.op = "call" /\ x.what = "print"

\* The interpreter is where the code is, where B[k] has been printed when the kth
\* of the blocks it is in began.
Performs(cs, st, o, p, c, val, pre, B) ==
  /\ \A t \in DOMAIN st : st[t] = val[t]
  /\ cs = <<>> => ~p /\ o = IF DOMAIN st = {} THEN <<>> ELSE Out(c, pre, 1)
  /\ cs # <<>> =>
       /\ DOMAIN B = Nat /\ B[1] = <<>>
       /\ \A k \in 1..Len(cs) :
            B[k] \in Seq(Value) /\ Precedes(B[k] \o Out(c, pre, cs[k].block), Out(c, pre, 1))
       /\ \A k \in 1..(Len(cs) - 1) : Entered(cs[k], cs[k + 1], B[k], B[k + 1], c, val, pre)
       /\ LET f == cs[Len(cs)]
          IN  /\ o = B[Len(cs)] \o pre[f.block][f.at]
              /\ p => f.at \in 1..Len(c[f.block]) /\ IsPrint(c[f.block][f.at])

Goes(cs, st, o, p, c, val, pre) == \E B : Performs(cs, st, o, p, c, val, pre, B)

PerformsNow(val, pre, B) == Performs(control, store, out, panic, code, val, pre, B)

\* q and then p have been printed.
Shown(q, p) == out = q \o p

\* What the code at hand means.
LEMMA HereMeans ==
  ASSUME IInv, RunOK, control # <<>>, NEW val, NEW pre, NEW B, Ghosts(val, pre),
         CodeMeans(code, val, pre), PerformsNow(val, pre, B), NEW b, b = Here.block, NEW i, i = Here.at,
         NEW n, n = Len(control)
  PROVE  /\ n \in Nat \ {0} /\ Here = control[n] /\ b \in 1..Len(code) /\ b \in Nat /\ i \in Nat
         /\ pre[b][i] \in Seq(Value) /\ B[n] \in Seq(Value) /\ DOMAIN B = Nat /\ B[1] = <<>>
         /\ Shown(B[n], pre[b][i]) /\ Out(code, pre, b) \in Seq(Value)
         /\ Precedes(B[n] \o Out(code, pre, b), Out(code, pre, 1))
<1>1. /\ n \in Nat \ {0} /\ Here = control[n] /\ b \in 1..Len(code) /\ Here \in Place
      /\ Len(code[b]) \in Nat
  BY HereIs DEF Within
<1>2. b \in Nat /\ i \in Nat
  BY <1>1 DEF Place
<1>3. Len(code[b]) + 1 \in Nat
  BY <1>1
<1>4. pre[b][i] \in Seq(Value) /\ Out(code, pre, b) \in Seq(Value)
  BY <1>2, <1>3 DEF Ghosts, Out
<1>5. DOMAIN B = Nat /\ B[1] = <<>>
  BY DEF PerformsNow, Performs
<1>6. Shown(B[n], pre[b][i])
  BY <1>1 DEF PerformsNow, Performs, Shown
<1>7. \A k \in 1..n : B[k] \in Seq(Value) /\ Precedes(B[k] \o Out(code, pre, control[k].block), Out(code, pre, 1))
  BY DEF PerformsNow, Performs
<1>8. n \in 1..n
  BY <1>1
<1>9. B[n] \in Seq(Value) /\ Precedes(B[n] \o Out(code, pre, b), Out(code, pre, 1))
  BY <1>1, <1>7, <1>8
<1> QED
  BY <1>1, <1>2, <1>4, <1>5, <1>6, <1>9

PrintedNext(pre, b, i, y) == pre[b][i + 1] = pre[b][i] \o y

\* What the instruction at hand means.
LEMMA CurrentMeans ==
  ASSUME IInv, RunOK, control # <<>>, ~AtEnd, NEW val, NEW pre, Ghosts(val, pre),
         CodeMeans(code, val, pre), NEW b, b = Here.block, NEW i, i = Here.at, NEW x, x = Current
  PROVE  /\ x = code[b][i] /\ x \in Instruction /\ b \in 1..Len(code) /\ b \in Nat
         /\ i \in 1..Len(code[b]) /\ i \in Nat
         /\ Computes(code, val, x) /\ Operands(x) /\ Closed(code, x)
         /\ Prints(code, val, pre, x) \in Seq(Value) /\ pre[b][i] \in Seq(Value)
         /\ PrintedNext(pre, b, i, Prints(code, val, pre, x)) /\ pre[b][i + 1] \in Seq(Value)
<1>1. b \in 1..Len(code) /\ i \in 1..Len(code[b]) /\ Here \in Place
  BY HereIs DEF Within
<1>2. code \in Code
  BY CodeIs
<1>3. b \in Nat /\ i \in Nat
  BY <1>1 DEF Place
<1>4. x = code[b][i]
  BY DEF Current
<1>5. x \in Instruction
  <2>1. code[b] \in Seq(Instruction)
    BY <1>1, <1>2 DEF Code
  <2> QED
    BY <1>1, <1>4, <2>1
<1>6. /\ Computes(code, val, x) /\ Operands(x) /\ Closed(code, x)
      /\ PrintedNext(pre, b, i, Prints(code, val, pre, x))
  BY <1>1, <1>4 DEF CodeMeans, Proper, PrintedNext
<1>7. Prints(code, val, pre, x) \in Seq(Value)
  BY <1>2, <1>5, <1>6, PrintsIs
<1>8. i + 1 \in Nat
  BY <1>3
<1>9. pre[b][i] \in Seq(Value) /\ pre[b][i + 1] \in Seq(Value)
  BY <1>3, <1>8 DEF Ghosts
<1> QED
  BY <1>1, <1>3, <1>4, <1>5, <1>6, <1>7, <1>9

\* One instruction further in the block it is in.
LEMMA StepMeans ==
  ASSUME IInv, RunOK, control # <<>>, ~AtEnd, UNCHANGED lowerVars, control' = Step, ~panic',
         NEW val, NEW pre, NEW B, Ghosts(val, pre), CodeMeans(code, val, pre), PerformsNow(val, pre, B),
         NEW v, v = val[Current.dst], Write(Current.dst, v), out' = out \o Prints(code, val, pre, Current)
  PROVE  Performs(control', store', out', panic', code', val, pre, B)
<1>1. PICK n : n = Len(control)
  OBVIOUS
<1>2. PICK b : b = Here.block
  OBVIOUS
<1>3. PICK i : i = Here.at
  OBVIOUS
<1>4. PICK x : x = Current
  OBVIOUS
<1>5. PICK g : g = Stepped(Here)
  OBVIOUS
<1>6. PICK s : s = Front(control) \o <<g>>
  OBVIOUS
<1>7. /\ n \in Nat \ {0} /\ Here = control[n] /\ pre[b][i] \in Seq(Value) /\ B[n] \in Seq(Value)
      /\ DOMAIN B = Nat /\ B[1] = <<>> /\ Shown(B[n], pre[b][i])
  BY <1>1, <1>2, <1>3, HereMeans
<1>8. /\ Prints(code, val, pre, x) \in Seq(Value)
      /\ PrintedNext(pre, b, i, Prints(code, val, pre, x))
  BY <1>2, <1>3, <1>4, CurrentMeans
<1>9. g \in Place /\ g.block = b /\ g.at = i + 1
  BY <1>2, <1>3, <1>5, NextIs
<1>10. control' = s /\ code' = code
  BY <1>5, <1>6 DEF Step, Stepped, lowerVars
<1>11. s \in Seq(Place) /\ Len(s) = n /\ s[n] = g /\ \A k \in 1..(n - 1) : s[k] = control[k]
  <2>1. control \in Seq(Place)
    BY DEF RunOK
  <2> QED
    BY <1>1, <1>6, <1>9, <2>1, SwapIs
<1>12. \A t \in DOMAIN store' : store'[t] = val[t]
  <2>1. PICK d : d = Current.dst
    OBVIOUS
  <2>2. \A t \in DOMAIN store : store[t] = val[t]
    BY DEF PerformsNow, Performs
  <2>3. store' = [t \in DOMAIN store \cup {d} |-> IF t = d THEN v ELSE store[t]]
    BY <2>1 DEF Write
  <2> QED
    BY <2>1, <2>2, <2>3
<1>13. s # <<>>
  <2>1. Len(s) # 0
    BY <1>7, <1>11
  <2> QED
    BY <2>1, SomeItems
<1>14. \A k \in 1..n : s[k].block = control[k].block
  <2>1. \A k \in 1..n : k \in 1..(n - 1) \/ k = n
    BY <1>7
  <2>2. s[n].block = control[n].block
    BY <1>2, <1>7, <1>9, <1>11
  <2> QED
    BY <1>11, <2>1, <2>2
<1>15. \A k \in 1..n : B[k] \in Seq(Value) /\ Precedes(B[k] \o Out(code, pre, s[k].block), Out(code, pre, 1))
  <2>1. \A k \in 1..n : B[k] \in Seq(Value) /\ Precedes(B[k] \o Out(code, pre, control[k].block), Out(code, pre, 1))
    BY <1>1 DEF PerformsNow, Performs
  <2> QED
    BY <1>14, <2>1
<1>16. \A k \in 1..(n - 1) : Entered(s[k], s[k + 1], B[k], B[k + 1], code, val, pre)
  <2> SUFFICES ASSUME NEW k \in 1..(n - 1) PROVE Entered(s[k], s[k + 1], B[k], B[k + 1], code, val, pre)
    OBVIOUS
  <2>1. Entered(control[k], control[k + 1], B[k], B[k + 1], code, val, pre)
    BY <1>1 DEF PerformsNow, Performs
  <2>2. k + 1 \in 1..n
    BY <1>7
  <2>3. s[k + 1].block = control[k + 1].block /\ s[k] = control[k]
    BY <1>11, <1>14, <2>2
  <2> QED
    BY <2>1, <2>3 DEF Entered
<1>17. out' = B[n] \o pre[g.block][g.at]
  <2>1. PICK y : y = Prints(code, val, pre, x)
    OBVIOUS
  <2>2. PICK p : p = pre[b][i]
    OBVIOUS
  <2>3. y \in Seq(Value) /\ p \in Seq(Value)
    BY <1>7, <1>8, <2>1, <2>2
  <2>4. (B[n] \o p) \o y = B[n] \o (p \o y)
    <3>1. B[n] \in Seq(Value) /\ p \in Seq(Value) /\ y \in Seq(Value)
      BY <1>7, <2>3
    <3> QED
      BY <3>1, Regrouped
  <2>5. out' = (B[n] \o p) \o y
    BY <1>4, <1>7, <2>1, <2>2 DEF Shown
  <2> QED
    BY <1>8, <1>9, <2>1, <2>2, <2>4, <2>5 DEF PrintedNext
<1> QED
  BY <1>7, <1>10, <1>11, <1>12, <1>13, <1>15, <1>16, <1>17 DEF Performs

\* An operand is read as what its temp means.
LEMMA ArgIs ==
  ASSUME IInv, RunOK, control # <<>>, ~AtEnd, NEW val, NEW pre, NEW B, Ghosts(val, pre),
         CodeMeans(code, val, pre), PerformsNow(val, pre, B), Readable(Current),
         NEW k \in Nat \ {0}, k <= Len(Current.args)
  PROVE  Arg(k) = val[Current.args[k]]
<1>1. PICK x : x = Current
  OBVIOUS
<1>2. PICK b : b = Here.block
  OBVIOUS
<1>3. PICK i : i = Here.at
  OBVIOUS
<1>4. x \in Instruction
  BY <1>1, <1>2, <1>3, CurrentMeans
<1>5. x.args \in Seq(Nat)
  BY <1>4 DEF Instruction
<1>6. k \in DOMAIN x.args
  BY <1>1, <1>5
<1>7. x.args[k] \in DOMAIN store
  BY <1>1, <1>6 DEF Readable
<1>8. \A t \in DOMAIN store : store[t] = val[t]
  BY DEF PerformsNow, Performs
<1> QED
  BY <1>1, <1>7, <1>8 DEF Arg

\* What has been printed is a list of values.
LEMMA OutIs ==
  ASSUME IInv, RunOK, control # <<>>, NEW val, NEW pre, NEW B, Ghosts(val, pre),
         CodeMeans(code, val, pre), PerformsNow(val, pre, B)
  PROVE  out \in Seq(Value) /\ out \o <<>> = out
<1>1. PICK n : n = Len(control)
  OBVIOUS
<1>2. PICK b : b = Here.block
  OBVIOUS
<1>3. PICK i : i = Here.at
  OBVIOUS
<1>4. pre[b][i] \in Seq(Value) /\ B[n] \in Seq(Value) /\ Shown(B[n], pre[b][i])
  BY <1>1, <1>2, <1>3, HereMeans
<1>5. out \in Seq(Value)
  <2>1. PICK p : p = pre[b][i]
    OBVIOUS
  <2>2. PICK q : q = B[n]
    OBVIOUS
  <2>3. q \o p \in Seq(Value)
    BY <1>4, <2>1, <2>2, OutJoined
  <2> QED
    BY <1>4, <2>1, <2>2, <2>3 DEF Shown
<1>6. PICK o : o = out
  OBVIOUS
<1>7. o \o <<>> = o
  BY <1>5, <1>6, OutJoined
<1> QED
  BY <1>5, <1>6, <1>7

\* Copies are met in the arm of an `if` that has been taken.
LEMMA CopyMeans ==
  ASSUME IInv, RunOK, control # <<>>, ~AtEnd, NEW val, NEW pre, NEW B, Ghosts(val, pre),
         CodeMeans(code, val, pre), PerformsNow(val, pre, B), NoCopyIn(code, 1), Current.op = "copy"
  PROVE  val[Current.dst] = val[Current.args[1]]
<1>1. PICK n : n = Len(control)
  OBVIOUS
<1>2. PICK b : b = Here.block
  OBVIOUS
<1>3. PICK i : i = Here.at
  OBVIOUS
<1>4. PICK x : x = Current
  OBVIOUS
<1>5. x = code[b][i] /\ i \in 1..Len(code[b])
  BY <1>2, <1>3, <1>4, CurrentMeans
<1>6. n \in Nat \ {0} /\ Here = control[n]
  BY <1>1, <1>2, <1>3, HereMeans
<1>7. n # 1
  <2>1. control[1].block = 1
    BY DEF RunOK
  <2>2. ASSUME n = 1 PROVE FALSE
    <3>1. b = 1
      BY <1>2, <1>6, <2>1, <2>2
    <3> QED
      BY <1>4, <1>5, <3>1 DEF NoCopyIn
  <2> QED
    BY <2>2
<1>8. PICK m : m = n - 1
  OBVIOUS
<1>9. m \in 1..(n - 1) /\ m + 1 = n /\ m \in 1..n
  BY <1>6, <1>7, <1>8
<1>10. PICK f : f = control[m]
  OBVIOUS
<1>11. Waits(f, Here) /\ Within(f)
  BY <1>1, <1>6, <1>9, <1>10 DEF RunOK
<1>12. Entered(f, Here, B[m], B[n], code, val, pre)
  BY <1>1, <1>6, <1>9, <1>10 DEF PerformsNow, Performs
<1>13. PICK y : y = code[f.block][f.at - 1]
  OBVIOUS
<1>14. y.op = "if" /\ Computes(code, val, y)
  BY <1>11, <1>13 DEF Waits, Within, CodeMeans
<1>15. CopiesMean(code, val, b)
  BY <1>2, <1>12, <1>13, <1>14 DEF Computes, Entered
<1> QED
  BY <1>4, <1>5, <1>15 DEF CopiesMean

\* What the instruction that writes means.
LEMMA WriteMeans ==
  ASSUME IInv, RunOK, UNCHANGED lowerVars, NEW val, NEW pre, NEW B, Ghosts(val, pre),
         CodeMeans(code, val, pre), PerformsNow(val, pre, B), NoCopyIn(code, 1),
         ExecConst \/ ExecBinOp \/ ExecCall \/ ExecCopy
  PROVE  Performs(control', store', out', panic', code', val, pre, B)
<1>1. control # <<>> /\ ~panic /\ ~AtEnd /\ Readable(Current) /\ control' = Step /\ ~panic'
  BY DEF ExecConst, ExecBinOp, ExecCall, ExecCopy, Exec, Running
<1>2. PICK x : x = Current
  OBVIOUS
<1>3. PICK b : b = Here.block
  OBVIOUS
<1>4. PICK i : i = Here.at
  OBVIOUS
<1>5. Computes(code, val, x) /\ Operands(x)
  BY <1>1, <1>2, <1>3, <1>4, CurrentMeans
<1>6. out \o <<>> = out
  BY <1>1, OutIs
<1>7. PICK v : v = val[x.dst]
  OBVIOUS
<1>8. \A k \in Nat \ {0} : k <= Len(x.args) => Arg(k) = val[x.args[k]]
  BY <1>1, <1>2, ArgIs
<1>9. Write(x.dst, v) /\ out' = out \o Prints(code, val, pre, x)
  <2>1. CASE ExecConst
    <3>1. x.op = "const" /\ Write(x.dst, x.what) /\ out' = out
      BY <1>2, <2>1 DEF ExecConst, Exec
    <3>2. Prints(code, val, pre, x) = <<>>
      BY <3>1 DEF Prints
    <3>3. v = x.what
      BY <1>5, <1>7, <3>1 DEF Computes
    <3> QED
      BY <1>6, <3>1, <3>2, <3>3
  <2>2. CASE ExecBinOp
    <3>1. x.op = "binop" /\ Write(x.dst, Arith(x.what, Arg(1), Arg(2))) /\ out' = out
      BY <1>2, <2>2 DEF ExecBinOp, Exec
    <3>2. Prints(code, val, pre, x) = <<>>
      BY <3>1 DEF Prints
    <3>3. Len(x.args) = 2
      BY <1>5, <3>1 DEF Operands
    <3>4. Arg(1) = val[x.args[1]] /\ Arg(2) = val[x.args[2]]
      BY <1>8, <3>3
    <3>5. v = Arith(x.what, Arg(1), Arg(2))
      BY <1>5, <1>7, <3>1, <3>4 DEF Computes
    <3> QED
      BY <1>6, <3>1, <3>2, <3>5
  <2>3. CASE ExecCall /\ x.what = "print"
    <3>1. x.op = "call" /\ Write(x.dst, Arg(1)) /\ out' = Append(out, Arg(1))
      BY <1>2, <2>3 DEF ExecCall, Exec
    <3>2. Len(x.args) = 1
      BY <1>5, <2>3, <3>1 DEF Operands
    <3>3. Arg(1) = val[x.args[1]]
      BY <1>8, <3>2
    <3>4. v = Arg(1)
      BY <1>5, <1>7, <2>3, <3>1, <3>3 DEF Computes
    <3>5. Prints(code, val, pre, x) = <<v>>
      BY <2>3, <3>1, <3>3, <3>4 DEF Prints
    <3>6. out \in Seq(Value)
      BY <1>1, OutIs
    <3>7. v \in Value
      <4>1. x.dst \in Nat
        <5>1. x \in Instruction
          BY <1>1, <1>2, <1>3, <1>4, CurrentMeans
        <5> QED
          BY <5>1 DEF Instruction
      <4> QED
        BY <1>7, <4>1 DEF Ghosts
    <3>8. Append(out, v) = out \o <<v>>
      BY <3>6, <3>7, AppendIsConcat
    <3> QED
      BY <3>1, <3>4, <3>5, <3>8
  <2>4. CASE ExecCall /\ x.what # "print"
    <3>1. x.op = "call" /\ Write(x.dst, Arith(x.what, Arg(1), Arg(2))) /\ out' = out
      BY <1>2, <2>4 DEF ExecCall, Exec
    <3>2. Prints(code, val, pre, x) = <<>>
      BY <2>4, <3>1 DEF Prints
    <3>3. Len(x.args) = 2
      BY <1>5, <2>4, <3>1 DEF Operands
    <3>4. Arg(1) = val[x.args[1]] /\ Arg(2) = val[x.args[2]]
      BY <1>8, <3>3
    <3>5. v = Arith(x.what, Arg(1), Arg(2))
      BY <1>5, <1>7, <2>4, <3>1, <3>4 DEF Computes
    <3> QED
      BY <1>6, <3>1, <3>2, <3>5
  <2>5. CASE ExecCopy
    <3>1. x.op = "copy" /\ Write(x.dst, Arg(1)) /\ out' = out
      BY <1>2, <2>5 DEF ExecCopy, Exec
    <3>2. Prints(code, val, pre, x) = <<>>
      BY <3>1 DEF Prints
    <3>3. Len(x.args) = 1
      BY <1>5, <3>1 DEF Operands
    <3>4. Arg(1) = val[x.args[1]]
      BY <1>8, <3>3
    <3>5. v = Arg(1)
      BY <1>1, <1>2, <1>7, <3>1, <3>4, CopyMeans
    <3> QED
      BY <1>6, <3>1, <3>2, <3>5
  <2> QED
    BY <2>1, <2>2, <2>3, <2>4, <2>5
<1> QED
  BY <1>1, <1>2, <1>7, <1>9, StepMeans

\* The arm that an `if` takes begins.
LEMMA TakenArm ==
  ASSUME IInv, RunOK, UNCHANGED lowerVars, NEW val, NEW pre, NEW B, Ghosts(val, pre),
         CodeMeans(code, val, pre), PerformsNow(val, pre, B), ExecIf
  PROVE  Goes(control', store', out', panic', code', val, pre)
<1>1. /\ control # <<>> /\ ~AtEnd /\ ~panic /\ Current.op = "if" /\ Readable(Current)
      /\ UNCHANGED <<store, out, panic>> /\ code' = code
  BY DEF ExecIf, Exec, Running, lowerVars
<1>2. PICK n : n = Len(control)
  OBVIOUS
<1>3. PICK b : b = Here.block
  OBVIOUS
<1>4. PICK i : i = Here.at
  OBVIOUS
<1>5. PICK x : x = Current
  OBVIOUS
<1>6. PICK g : g = Stepped(Here)
  OBVIOUS
<1>7. PICK s : s = Front(control) \o <<g>>
  OBVIOUS
<1>8. PICK a : a = Taken(x, val)
  OBVIOUS
<1>9. PICK h : h = PlaceAt(a, 1)
  OBVIOUS
<1>10. /\ n \in Nat \ {0} /\ Here = control[n] /\ pre[b][i] \in Seq(Value) /\ B[n] \in Seq(Value)
       /\ DOMAIN B = Nat /\ B[1] = <<>> /\ Shown(B[n], pre[b][i])
       /\ Precedes(B[n] \o Out(code, pre, b), Out(code, pre, 1)) /\ Out(code, pre, b) \in Seq(Value)
  <2>1. n \in Nat \ {0} /\ Here = control[n] /\ DOMAIN B = Nat /\ B[1] = <<>>
    BY <1>1, <1>2, <1>3, <1>4, HereMeans
  <2>4. pre[b][i] \in Seq(Value) /\ B[n] \in Seq(Value)
    BY <1>1, <1>2, <1>3, <1>4, HereMeans
  <2>5. Shown(B[n], pre[b][i])
    BY <1>1, <1>2, <1>3, <1>4, HereMeans
  <2>2. Out(code, pre, b) \in Seq(Value)
    BY <1>1, <1>2, <1>3, <1>4, HereMeans
  <2>3. Precedes(B[n] \o Out(code, pre, b), Out(code, pre, 1))
    BY <1>1, <1>2, <1>3, <1>4, HereMeans
  <2> QED
    BY <2>1, <2>2, <2>3, <2>4, <2>5
<1>11. /\ Computes(code, val, x) /\ Operands(x) /\ Closed(code, x) /\ b \in 1..Len(code)
       /\ i \in 1..Len(code[b]) /\ i \in Nat /\ x = code[b][i]
       /\ PrintedNext(pre, b, i, Prints(code, val, pre, x)) /\ pre[b][i + 1] \in Seq(Value)
       /\ Prints(code, val, pre, x) \in Seq(Value)
  BY <1>1, <1>3, <1>4, <1>5, CurrentMeans
<1>12. a \in 1..Len(code) /\ a \in Nat
  <2>1. a \in 1..Len(code)
    BY <1>1, <1>5, <1>8, <1>11, ArmTaken
  <2>2. Len(code) \in Nat
    BY CodeIs DEF Code
  <2> QED
    BY <2>1, <2>2
<1>13. h.block = a /\ h.at = 1 /\ h \in Place
  BY <1>9, <1>12 DEF PlaceAt, Place
<1>14. g \in Place /\ g.block = b /\ g.at = i + 1
  BY <1>1, <1>3, <1>4, <1>6, NextIs
<1>15. s \in Seq(Place) /\ Len(s) = n /\ s[n] = g /\ \A k \in 1..(n - 1) : s[k] = control[k]
  <2>1. control \in Seq(Place)
    BY DEF RunOK
  <2> QED
    BY <1>1, <1>2, <1>7, <1>14, <2>1, SwapIs
<1>16. Arg(1) = val[x.args[1]]
  <2>1. Len(x.args) = 1
    BY <1>1, <1>5, <1>11 DEF Operands
  <2> QED
    BY <1>1, <1>5, <2>1, ArgIs
<1>17. PICK r : r = control'
  OBVIOUS
<1>18. r = Append(s, h)
  <2>1. s = Step
    BY <1>6, <1>7 DEF Step, Stepped
  <2>2. a = Current.arms[IF Truthy(Arg(1)) THEN 1 ELSE 2]
    BY <1>5, <1>8, <1>16 DEF Taken, Truthy
  <2> QED
    BY <1>9, <1>17, <2>1, <2>2 DEF ExecIf, PlaceAt
<1>19. /\ Len(r) = n + 1 /\ r[n + 1] = h /\ \A k \in 1..n : r[k] = s[k]
  <2>1. /\ Len(r) = Len(s) + 1 /\ r[Len(s) + 1] = h /\ \A k \in 1..Len(s) : r[k] = s[k]
    BY <1>13, <1>15, <1>18
  <2> QED
    BY <1>15, <2>1
<1>20. PICK p : p = B[n] \o pre[b][i]
  OBVIOUS
<1>21. PICK B2 : B2 = [B EXCEPT ![n + 1] = p]
  OBVIOUS
<1>22. /\ DOMAIN B2 = Nat /\ B2[n + 1] = p /\ \A k \in 1..n : B2[k] = B[k]
  <2>1. n + 1 \in Nat /\ \A k \in 1..n : k \in Nat /\ k # n + 1
    BY <1>10
  <2> QED
    BY <1>10, <1>21, <2>1
<1>23. B2[1] = <<>> /\ B2[n] = B[n]
  BY <1>10, <1>22
<1>24. p \in Seq(Value) /\ p \o <<>> = p
  <2>1. PICK u : u = pre[b][i]
    OBVIOUS
  <2>2. PICK q : q = B[n]
    OBVIOUS
  <2>3. q \o u \in Seq(Value)
    BY <1>10, <2>1, <2>2, OutJoined
  <2>4. p \in Seq(Value)
    BY <1>20, <2>1, <2>2, <2>3
  <2> QED
    BY <2>4, OutJoined
<1>25. Precedes(p \o Out(code, pre, a), Out(code, pre, 1))
  <2>1. PICK u : u = pre[b][i]
    OBVIOUS
  <2>2. PICK q : q = B[n]
    OBVIOUS
  <2>3. PICK y : y = Out(code, pre, a)
    OBVIOUS
  <2>4. PICK w : w = Out(code, pre, b)
    OBVIOUS
  <2>5. PICK z : z = pre[b][i + 1]
    OBVIOUS
  <2>6. Prints(code, val, pre, x) = y
    BY <1>1, <1>5, <1>8, <2>3 DEF Prints
  <2>7. z = u \o y /\ y \in Seq(Value) /\ u \in Seq(Value) /\ q \in Seq(Value) /\ w \in Seq(Value)
        /\ z \in Seq(Value)
    BY <1>10, <1>11, <2>1, <2>2, <2>4, <2>5, <2>6 DEF PrintedNext
  <2>8. Precedes(z, w)
    <3>1. i + 1 \in 1..(Len(code[b]) + 1)
      <4>1. code[b] \in Seq(Instruction)
        BY <1>11, CodeIs DEF Code
      <4>2. PICK m : m = Len(code[b])
        OBVIOUS
      <4>3. m \in Nat
        BY <4>1, <4>2
      <4> QED
        BY <1>11, <4>2, <4>3
    <3>2. code \in Code
      BY CodeIs
    <3>3. PICK j : j = i + 1
      OBVIOUS
    <3>4. Precedes(pre[b][j], Out(code, pre, b))
      BY <1>11, <3>1, <3>2, <3>3, PrintedFirst
    <3> QED
      BY <2>4, <2>5, <3>3, <3>4
  <2>9. Precedes(q \o z, q \o w)
    BY <2>7, <2>8, BeginsMore
  <2>10. Precedes(q \o w, Out(code, pre, 1))
    BY <1>10, <2>2, <2>4
  <2>11. q \o z \in Seq(Value) /\ q \o w \in Seq(Value)
    BY <2>7, OutJoined
  <2>12. PICK m : m = Out(code, pre, 1)
    OBVIOUS
  <2>13. <<>> \in Seq(Value)
    OBVIOUS
  <2>14. Precedes(q \o z, m)
    BY <2>9, <2>10, <2>11, <2>12, <2>13, BeginsMore
  <2>15. (q \o u) \o y = q \o z
    BY <2>7, OutJoined
  <2> QED
    BY <1>20, <2>1, <2>2, <2>3, <2>12, <2>14, <2>15
<1>26. \A k \in 1..(n + 1) : B2[k] \in Seq(Value) /\ Precedes(B2[k] \o Out(code, pre, r[k].block), Out(code, pre, 1))
  <2>1. \A k \in 1..n : B[k] \in Seq(Value) /\ Precedes(B[k] \o Out(code, pre, control[k].block), Out(code, pre, 1))
    BY <1>1, <1>2 DEF PerformsNow, Performs
  <2>2. \A k \in 1..n : r[k].block = control[k].block
    <3>1. \A k \in 1..n : k \in 1..(n - 1) \/ k = n
      BY <1>10
    <3>2. s[n].block = control[n].block
      BY <1>3, <1>10, <1>14, <1>15
    <3> QED
      BY <1>15, <1>19, <3>1, <3>2
  <2>3. \A k \in 1..n : B2[k] \in Seq(Value) /\ Precedes(B2[k] \o Out(code, pre, r[k].block), Out(code, pre, 1))
    BY <1>22, <2>1, <2>2
  <2>4. \A k \in 1..(n + 1) : k \in 1..n \/ k = n + 1
    BY <1>10
  <2> QED
    BY <1>13, <1>19, <1>22, <1>24, <1>25, <2>3, <2>4
<1>27. \A k \in 1..n : Entered(r[k], r[k + 1], B2[k], B2[k + 1], code, val, pre)
  <2> SUFFICES ASSUME NEW k \in 1..n PROVE Entered(r[k], r[k + 1], B2[k], B2[k + 1], code, val, pre)
    OBVIOUS
  <2>1. CASE k = n
    <3>1. g.at - 1 = i
      BY <1>11, <1>14
    <3>2. Entered(g, h, B[n], p, code, val, pre)
      BY <1>8, <1>11, <1>13, <1>14, <1>20, <3>1 DEF Entered
    <3> QED
      BY <1>15, <1>19, <1>22, <1>23, <2>1, <3>2
  <2>2. CASE k # n
    <3>1. k \in 1..(n - 1) /\ k + 1 \in 1..n
      BY <1>10, <2>2
    <3>2. Entered(control[k], control[k + 1], B[k], B[k + 1], code, val, pre)
      BY <1>1, <1>2, <3>1 DEF PerformsNow, Performs
    <3>3. r[k] = control[k] /\ r[k + 1] = s[k + 1]
      BY <1>15, <1>19, <3>1
    <3>4. s[k + 1].block = control[k + 1].block
      <4>1. k + 1 \in 1..(n - 1) \/ k + 1 = n
        BY <1>10, <3>1
      <4>2. s[n].block = control[n].block
        BY <1>3, <1>10, <1>14, <1>15
      <4>3. PICK m : m = k + 1
        OBVIOUS
      <4> QED
        BY <1>15, <4>1, <4>2, <4>3
    <3> QED
      BY <1>22, <3>1, <3>2, <3>3, <3>4 DEF Entered
  <2> QED
    BY <2>1, <2>2
<1>28. r # <<>>
  <2>1. Len(r) # 0
    BY <1>10, <1>19
  <2> QED
    BY <2>1, SomeItems
<1>29. out = B2[n + 1] \o pre[h.block][h.at]
  <2>1. pre[a][1] = <<>>
    BY <1>12 DEF Ghosts
  <2> QED
    BY <1>10, <1>13, <1>20, <1>22, <1>24, <2>1 DEF Shown
<1>30. \A t \in DOMAIN store : store[t] = val[t]
  BY DEF PerformsNow, Performs
<1>31. /\ n + 1 - 1 = n
       /\ \A k \in 1..(Len(r) - 1) : Entered(r[k], r[k + 1], B2[k], B2[k + 1], code, val, pre)
       /\ LET f == r[Len(r)] IN out = B2[Len(r)] \o pre[f.block][f.at]
  <2>1. n + 1 - 1 = n
    BY <1>10
  <2>2. Len(r) - 1 = n
    BY <1>10, <1>19
  <2>3. \A k \in 1..(Len(r) - 1) : Entered(r[k], r[k + 1], B2[k], B2[k + 1], code, val, pre)
    BY <1>27, <2>2
  <2>4. LET f == r[Len(r)] IN out = B2[Len(r)] \o pre[f.block][f.at]
    BY <1>19, <1>29
  <2> QED
    BY <2>1, <2>3, <2>4
<1>32. Performs(r, store, out, panic, code, val, pre, B2)
  BY <1>1, <1>19, <1>22, <1>23, <1>26, <1>28, <1>30, <1>31 DEF Performs
<1>33. control' = r /\ store' = store /\ out' = out /\ panic' = panic /\ code' = code
  BY <1>1, <1>17
<1>34. Goes(r, store, out, panic, code, val, pre)
  BY <1>32 DEF Goes
<1> QED
  BY <1>33, <1>34

\* Something is written when the body comes to its end.
LEMMA BodyWrites ==
  ASSUME IInv, CodeRuns, RunOK, control # <<>>, AtEnd, Here.block = 1
  PROVE  DOMAIN store # {}
<1>1. PICK c : c = code[1]
  OBVIOUS
<1>2. Lowered /\ Covered(1, Len(c) + 1) /\ 1 \in 1..Len(code)
  BY <1>1, HereIs DEF Within
<1>3. c \in Seq(Instruction)
  BY <1>1, <1>2, CodeIs DEF Code
<1>4. DOMAIN c = 1..Len(c) /\ Len(c) + 1 - 1 = Len(c)
  BY <1>3
<1>5. Has(code, entry, 1) = Before(code, entry, 1, Len(c) + 1)
  BY <1>1, <1>4 DEF Has, Before, Written
<1>6. Result \in Has(code, entry, 1)
  BY <1>2 DEF CodeRuns, BodyOK, Lowered, Result
<1> QED
  BY <1>2, <1>5, <1>6 DEF Covered

\* The innermost block ends.
LEMMA EndMeans ==
  ASSUME IInv, CodeRuns, RunOK, UNCHANGED lowerVars, NEW val, NEW pre, NEW B, Ghosts(val, pre),
         CodeMeans(code, val, pre), PerformsNow(val, pre, B), EndBlock
  PROVE  Performs(control', store', out', panic', code', val, pre, B)
<1>1. control # <<>> /\ AtEnd /\ ~panic /\ UNCHANGED <<store, out, panic>> /\ code' = code
  BY DEF EndBlock, Running, lowerVars
<1>2. PICK n : n = Len(control)
  OBVIOUS
<1>3. PICK b : b = Here.block
  OBVIOUS
<1>4. PICK i : i = Here.at
  OBVIOUS
<1>5. PICK s : s = control'
  OBVIOUS
<1>6. /\ n \in Nat \ {0} /\ Here = control[n] /\ DOMAIN B = Nat /\ B[1] = <<>> /\ b \in Nat
      /\ B[n] \in Seq(Value) /\ pre[b][i] \in Seq(Value) /\ Shown(B[n], pre[b][i])
      /\ Out(code, pre, b) \in Seq(Value)
  BY <1>1, <1>2, <1>3, <1>4, HereMeans
<1>7. pre[b][i] = Out(code, pre, b)
  BY <1>1, <1>3, <1>4, HereIs DEF Out
<1>8. s \in Seq(Place) /\ Len(s) = n - 1 /\ \A k \in 1..(n - 1) : s[k] = control[k]
  <2>1. control \in Seq(Place)
    BY DEF RunOK
  <2> QED
    BY <1>1, <1>2, <1>5, <2>1, PopIs DEF EndBlock
<1>9. \A t \in DOMAIN store : store[t] = val[t]
  BY DEF PerformsNow, Performs
<1>10. PICK y : y = Out(code, pre, b)
  OBVIOUS
<1>11. y \in Seq(Value) /\ out = B[n] \o y
  BY <1>6, <1>7, <1>10 DEF Shown
<1>12. control' = s /\ store' = store /\ out' = out /\ panic' = panic /\ code' = code
  BY <1>1, <1>5
<1>13. ASSUME n = 1 PROVE Performs(s, store, out, panic, code, val, pre, B)
  <2>1. control[1].block = 1
    BY <1>1 DEF RunOK
  <2>2. b = 1 /\ Here.block = 1
    BY <1>3, <1>6, <1>13, <2>1
  <2>3. DOMAIN store # {}
    BY <1>1, <2>2, BodyWrites
  <2>4. s = <<>>
    <3>1. Len(s) = 0
      BY <1>8, <1>13
    <3> QED
      BY <1>8, <3>1, EmptySeq
  <2>5. <<>> \o y = y
    BY <1>11, ConcatEmptySeq
  <2>6. out = Out(code, pre, 1)
    BY <1>6, <1>10, <1>11, <1>13, <2>2, <2>5
  <2> QED
    BY <1>1, <1>9, <2>3, <2>4, <2>6 DEF Performs
<1>14. ASSUME n # 1 PROVE Performs(s, store, out, panic, code, val, pre, B)
  <2>1. PICK m : m = n - 1
    OBVIOUS
  <2>2. m \in Nat \ {0} /\ m \in 1..(n - 1) /\ m + 1 = n /\ m \in 1..n
    BY <1>6, <1>14, <2>1
  <2>3. PICK f : f = control[m]
    OBVIOUS
  <2>4. PICK j : j = f.at - 1
    OBVIOUS
  <2>5. Waits(f, Here) /\ Within(f) /\ f \in Place
    <3>1. control \in Seq(Place)
      BY DEF RunOK
    <3>2. f \in Place
      BY <1>2, <2>2, <2>3, <3>1
    <3> QED
      BY <1>2, <1>6, <2>2, <2>3, <3>2 DEF RunOK
  <2>6. Entered(f, Here, B[m], B[n], code, val, pre)
    BY <1>1, <1>2, <1>6, <2>2, <2>3 DEF PerformsNow, Performs
  <2>7. PICK d : d = f.block
    OBVIOUS
  <2>8. d \in 1..Len(code) /\ j \in 1..Len(code[d]) /\ code[d][j].op = "if"
    BY <2>4, <2>5, <2>7 DEF Waits, Within
  <2>9. PICK x : x = code[d][j]
    OBVIOUS
  <2>10. b = Taken(x, val) /\ B[n] = B[m] \o pre[d][j]
    BY <1>3, <2>4, <2>6, <2>7, <2>9 DEF Entered
  <2>11. pre[d][j + 1] = pre[d][j] \o Prints(code, val, pre, x)
    BY <2>8, <2>9 DEF CodeMeans
  <2>12. Prints(code, val, pre, x) = y
    BY <1>10, <2>8, <2>9, <2>10 DEF Prints
  <2>13. j + 1 = f.at /\ j \in Nat /\ d \in Nat /\ j + 1 \in Nat
    <3>1. f.at \in Nat /\ d \in Nat
      BY <2>5, <2>7 DEF Place
    <3>2. j \in Int /\ j >= 1
      BY <2>4, <2>8, <3>1
    <3> QED
      BY <2>4, <3>1, <3>2
  <2>14. pre[d][j] \in Seq(Value) /\ B[m] \in Seq(Value)
    <3>1. pre[d][j] \in Seq(Value)
      BY <2>13 DEF Ghosts
    <3>2. B[m] \in Seq(Value)
      BY <1>1, <1>2, <2>2 DEF PerformsNow, Performs
    <3> QED
      BY <3>1, <3>2
  <2>15. PICK u : u = pre[d][j]
    OBVIOUS
  <2>16. PICK q : q = B[m]
    OBVIOUS
  <2>17. (q \o u) \o y = q \o (u \o y)
    <3>1. q \in Seq(Value) /\ u \in Seq(Value) /\ y \in Seq(Value)
      BY <1>11, <2>14, <2>15, <2>16
    <3> QED
      BY <3>1, OutJoined
  <2>18. out = B[m] \o pre[f.block][f.at]
    BY <1>11, <2>7, <2>10, <2>11, <2>12, <2>13, <2>15, <2>16, <2>17
  <2>19. Len(s) = m /\ s[m] = f
    BY <1>8, <2>1, <2>2, <2>3
  <2>20. s # <<>>
    <3>1. Len(s) # 0
      BY <2>2, <2>19
    <3> QED
      BY <3>1, SomeItems
  <2>21. \A k \in 1..m : B[k] \in Seq(Value) /\ Precedes(B[k] \o Out(code, pre, s[k].block), Out(code, pre, 1))
    <3>1. \A k \in 1..n : B[k] \in Seq(Value) /\ Precedes(B[k] \o Out(code, pre, control[k].block), Out(code, pre, 1))
      BY <1>1, <1>2 DEF PerformsNow, Performs
    <3>2. \A k \in 1..m : k \in 1..n /\ k \in 1..(n - 1)
      BY <2>2
    <3> QED
      BY <1>8, <3>1, <3>2
  <2>22. \A k \in 1..(m - 1) : Entered(s[k], s[k + 1], B[k], B[k + 1], code, val, pre)
    <3> SUFFICES ASSUME NEW k \in 1..(m - 1)
                 PROVE  Entered(s[k], s[k + 1], B[k], B[k + 1], code, val, pre)
      OBVIOUS
    <3>1. k \in 1..(n - 1) /\ k + 1 \in 1..(n - 1)
      BY <2>2
    <3>2. s[k] = control[k] /\ s[k + 1] = control[k + 1]
      BY <1>8, <3>1
    <3>3. Entered(control[k], control[k + 1], B[k], B[k + 1], code, val, pre)
      BY <1>1, <1>2, <3>1 DEF PerformsNow, Performs
    <3> QED
      BY <3>2, <3>3
  <2> QED
    BY <1>1, <1>6, <1>9, <2>18, <2>19, <2>20, <2>21, <2>22 DEF Performs
<1>15. Performs(s, store, out, panic, code, val, pre, B)
  BY <1>13, <1>14
<1> QED
  BY <1>12, <1>15

\* A print that fails leaves the interpreter where it is.
LEMMA LossMeans ==
  ASSUME IInv, RunOK, UNCHANGED lowerVars, NEW val, NEW pre, NEW B, Ghosts(val, pre),
         CodeMeans(code, val, pre), PerformsNow(val, pre, B), CallFails
  PROVE  Performs(control', store', out', panic', code', val, pre, B)
<1>1. /\ control # <<>> /\ ~AtEnd /\ UNCHANGED <<store, control, out>> /\ code' = code /\ panic'
      /\ IsPrint(Current)
  BY DEF CallFails, Exec, Running, lowerVars, IsPrint
<1>2. PICK f : f = Here
  OBVIOUS
<1>3. f = control[Len(control)] /\ f.at \in 1..Len(code[f.block]) /\ IsPrint(code[f.block][f.at])
  BY <1>1, <1>2, HereIs DEF Current
<1>4. Performs(control, store, out, TRUE, code, val, pre, B)
  BY <1>1, <1>3 DEF PerformsNow, Performs
<1>5. panic' = TRUE
  BY DEF CallFails
<1> QED
  BY <1>1, <1>4, <1>5

\* The body begins.
LEMMA BodyMeans ==
  ASSUME IInv, CodeRuns, RunOK, UNCHANGED lowerVars, NEW val, NEW pre, NEW B, Ghosts(val, pre),
         CodeMeans(code, val, pre), PerformsNow(val, pre, B), Interpret
  PROVE  Goes(control', store', out', panic', code', val, pre)
<1>1. PICK h : h = PlaceAt(1, 1)
  OBVIOUS
<1>2. PICK s : s = <<h>>
  OBVIOUS
<1>3. control' = s /\ store' = store /\ out' = out /\ panic' = panic /\ code' = code
  BY <1>1, <1>2 DEF Interpret, PlaceAt, lowerVars
<1>4. control = <<>> /\ DOMAIN store = {} /\ Lowered
  BY DEF Interpret
<1>5. ~panic /\ out = <<>>
  BY <1>4 DEF PerformsNow, Performs
<1>6. PICK none : none = <<>>
  OBVIOUS
<1>7. none \in Seq(Value) /\ none \o none = none
  <2>1. none \in Seq(Value)
    BY <1>6
  <2> QED
    BY <1>6, <2>1, OutJoined
<1>8. PICK N : N = [k \in Nat |-> none]
  OBVIOUS
<1>9. DOMAIN N = Nat /\ N[1] = none
  BY <1>8
<1>10. h.block = 1 /\ h.at = 1
  BY <1>1 DEF PlaceAt
<1>11. Len(s) = 1 /\ s[1] = h
  BY <1>2
<1>12. s # <<>>
  <2>1. Len(s) # 0
    BY <1>11
  <2> QED
    BY <2>1, SomeItems
<1>13. pre[1][1] = none
  BY <1>6 DEF Ghosts
<1>14. out = none \o pre[h.block][h.at]
  BY <1>5, <1>6, <1>7, <1>10, <1>13
<1>15. Precedes(none \o Out(code, pre, 1), Out(code, pre, 1))
  <2>1. 1 \in 1..Len(code)
    <3>1. code # <<>> /\ code \in Code
      BY <1>4, CodeIs DEF Lowered
    <3>2. Len(code) \in Nat \ {0}
      BY <3>1, EmptySeq DEF Code
    <3> QED
      BY <3>2
  <2>2. Len(code[1]) + 1 \in Nat
    <3>1. PICK c : c = code[1]
      OBVIOUS
    <3>2. c \in Seq(Instruction)
      BY <2>1, <3>1, CodeIs DEF Code
    <3>3. Len(c) + 1 \in Nat
      BY <3>2
    <3> QED
      BY <3>1, <3>3
  <2>3. PICK y : y = Out(code, pre, 1)
    OBVIOUS
  <2>4. y \in Seq(Value)
    BY <2>2, <2>3 DEF Out, Ghosts
  <2>5. none \o y = y /\ y \o none = y
    BY <1>6, <2>4, ConcatEmptySeq
  <2>6. Precedes(none \o y, y)
    BY <1>7, <2>5 DEF Precedes
  <2> QED
    BY <2>3, <2>6
<1>16. \A t \in DOMAIN store : store[t] = val[t]
  BY <1>4
<1>17. \A k \in 1..1 : k = 1
  OBVIOUS
<1>18. \A k \in 1..(1 - 1) : FALSE
  OBVIOUS
<1>19. \A k \in 1..Len(s) :
         N[k] \in Seq(Value) /\ Precedes(N[k] \o Out(code, pre, s[k].block), Out(code, pre, 1))
  BY <1>7, <1>9, <1>10, <1>11, <1>15, <1>17
<1>20. Performs(s, store, out, panic, code, val, pre, N)
  BY <1>5, <1>6, <1>9, <1>11, <1>12, <1>14, <1>16, <1>18, <1>19 DEF Performs
<1>21. Goes(s, store, out, panic, code, val, pre)
  BY <1>20 DEF Goes
<1> QED
  BY <1>3, <1>21

-----------------------------------------------------------------------------
(* The theorem.                                                            *)

LEMMA PrecedesIs ==
  ASSUME NEW s \in Seq(Value), NEW t \in Seq(Value), Precedes(s, t)
  PROVE  IsPrefix(s, t)
<1>1. PICK r \in Seq(Value) : t = s \o r
  BY DEF Precedes
<1>2. PICK n : n = Len(s)
  OBVIOUS
<1>3. n \in Nat /\ Len(r) \in Nat /\ Len(t) = n + Len(r)
  BY <1>1, <1>2, ConcatProperties
<1>4. \A i \in 1..n : t[i] = s[i]
  <2> SUFFICES ASSUME NEW i \in 1..n PROVE t[i] = s[i]
    OBVIOUS
  <2>1. i \in 1..(n + Len(r)) /\ i <= n
    BY <1>3
  <2> QED
    BY <1>1, <1>2, <2>1, ConcatProperties
<1>5. n <= Len(t)
  BY <1>3
<1>6. SubSeq(s, 1, n) = SubSeq(t, 1, n)
  <2>1. PICK a : a = SubSeq(s, 1, n)
    OBVIOUS
  <2>2. PICK b : b = SubSeq(t, 1, n)
    OBVIOUS
  <2>3. a \in Seq(Value) /\ Len(a) = n /\ \A i \in 1..n : a[i] = s[i]
    BY <1>2, <1>3, <2>1
  <2>4. b \in Seq(Value) /\ Len(b) = n /\ \A i \in 1..n : b[i] = t[i]
    BY <1>3, <1>5, <2>2
  <2>5. \A i \in 1..n : a[i] = b[i]
    BY <1>4, <2>3, <2>4
  <2> QED
    BY <2>1, <2>2, <2>3, <2>4, <2>5, SeqEqual
<1> QED
  BY <1>2, <1>5, <1>6 DEF IsPrefix

\* More is to be printed.
LEMMA MoreToCome ==
  ASSUME NEW s \in Seq(Value), NEW v \in Value, NEW t \in Seq(Value), Precedes(s \o <<v>>, t)
  PROVE  Precedes(s, t) /\ s # t
<1>1. PICK w : w = <<v>>
  OBVIOUS
<1>2. w \in Seq(Value) /\ Len(w) = 1
  BY <1>1
<1>3. PICK r \in Seq(Value) : t = (s \o w) \o r
  BY <1>1 DEF Precedes
<1>4. (s \o w) \o r = s \o (w \o r) /\ w \o r \in Seq(Value)
  BY <1>2, OutJoined
<1>5. Precedes(s, t)
  BY <1>3, <1>4 DEF Precedes
<1>6. Len(t) = Len(s) + 1 + Len(r) /\ Len(s) \in Nat /\ Len(r) \in Nat
  <2>1. s \o w \in Seq(Value) /\ Len(s \o w) = Len(s) + Len(w)
    BY <1>2, ConcatProperties
  <2>2. Len(t) = Len(s \o w) + Len(r)
    BY <1>3, <2>1, ConcatProperties
  <2> QED
    BY <1>2, <2>1, <2>2
<1>7. s # t
  BY <1>6
<1> QED
  BY <1>5, <1>7

\* The code means what the program means, and the interpreter is somewhere in it.
Meant(program) ==
  \E val, pre, G :
    MeansNow(program, val, pre, G) /\ Goes(control, store, out, panic, code, val, pre)

\* `calcc run --interpret` on this program.
RunsOn(program) ==
  \/ (LowerProgram(program) \/ LowerStep) /\ UNCHANGED interpVars
  \/ (Interpret \/ InterpStep) /\ UNCHANGED lowerVars
RunOf(program) == RunInit /\ [][RunsOn(program)]_<<lowerVars, interpVars>>

\* What is known while the body runs.
LEMMA BodyKeeps ==
  ASSUME IInv, RunOK, control # <<>>, NEW val, NEW pre, NEW B, Ghosts(val, pre),
         CodeMeans(code, val, pre), PerformsNow(val, pre, B),
         NEW whole \in Seq(Value), Out(code, pre, 1) = whole
  PROVE  IF panic THEN IsStrictPrefix(out, whole) ELSE IsPrefix(out, whole)
<1>1. PICK n : n = Len(control)
  OBVIOUS
<1>2. PICK b : b = Here.block
  OBVIOUS
<1>3. PICK i : i = Here.at
  OBVIOUS
<1>4. PICK p : p = pre[b][i]
  OBVIOUS
<1>5. PICK q : q = B[n]
  OBVIOUS
<1>6. PICK w : w = Out(code, pre, b)
  OBVIOUS
<1>7. p \in Seq(Value) /\ q \in Seq(Value) /\ w \in Seq(Value)
  BY <1>1, <1>2, <1>3, <1>4, <1>5, <1>6, HereMeans
<1>8. Shown(q, p)
  BY <1>1, <1>2, <1>3, <1>4, <1>5, HereMeans
<1>9. Precedes(q \o w, whole)
  <2>1. Precedes(B[n] \o Out(code, pre, b), Out(code, pre, 1))
    BY <1>1, <1>2, <1>3, HereMeans
  <2> QED
    BY <1>5, <1>6, <2>1
<1>10. out = q \o p /\ out \in Seq(Value) /\ q \o w \in Seq(Value)
  <2>1. q \o p \in Seq(Value) /\ q \o w \in Seq(Value)
    BY <1>7, OutJoined
  <2> QED
    BY <1>8, <2>1 DEF Shown
<1>11. \A z \in Seq(Value) : Precedes(z, w) => Precedes(q \o z, whole)
  <2> SUFFICES ASSUME NEW z \in Seq(Value), Precedes(z, w) PROVE Precedes(q \o z, whole)
    OBVIOUS
  <2>1. Precedes(q \o z, q \o w)
    BY <1>7, BeginsMore
  <2>2. q \o z \in Seq(Value)
    BY <1>7, OutJoined
  <2>3. <<>> \in Seq(Value)
    OBVIOUS
  <2> QED
    BY <1>9, <1>10, <2>1, <2>2, <2>3, BeginsMore
<1>12. code \in Code /\ b \in 1..Len(code) /\ i \in 1..(Len(code[b]) + 1)
  BY <1>2, <1>3, CodeIs, HereIs DEF Within
<1>13. Precedes(p, w)
  BY <1>4, <1>6, <1>12, PrintedFirst
<1>14. IsPrefix(out, whole)
  BY <1>7, <1>10, <1>11, <1>13, PrecedesIs
<1>15. ASSUME panic PROVE out # whole
  <2>1. ~AtEnd /\ IsPrint(Current)
    <3>1. Here = control[Len(control)]
      BY HereIs
    <3>2. Here.at \in 1..Len(code[Here.block]) /\ IsPrint(code[Here.block][Here.at])
      BY <1>15, <3>1 DEF PerformsNow, Performs
    <3>3. Len(code[Here.block]) \in Nat /\ Here.at \in Nat
      BY HereIs DEF Place
    <3> QED
      BY <3>2, <3>3 DEF AtEnd, Current
  <2>2. PICK x : x = Current
    OBVIOUS
  <2>3. /\ x \in Instruction /\ Operands(x) /\ PrintedNext(pre, b, i, Prints(code, val, pre, x))
        /\ i \in 1..Len(code[b]) /\ pre[b][i + 1] \in Seq(Value)
    BY <1>2, <1>3, <2>1, <2>2, CurrentMeans
  <2>4. x.args \in Seq(Nat) /\ Len(x.args) = 1
    BY <2>1, <2>2, <2>3 DEF Instruction, Operands, IsPrint
  <2>5. x.args[1] \in Nat
    BY <2>4
  <2>6. PICK v \in Value : v = val[x.args[1]]
    BY <2>5 DEF Ghosts
  <2>7. Prints(code, val, pre, x) = <<v>>
    BY <2>1, <2>2, <2>6 DEF Prints, IsPrint
  <2>8. PICK u : u = <<v>>
    OBVIOUS
  <2>9. u \in Seq(Value)
    BY <2>8
  <2>10. pre[b][i + 1] = p \o u
    BY <1>4, <2>3, <2>7, <2>8 DEF PrintedNext
  <2>11. PICK j : j = i + 1
    OBVIOUS
  <2>12. j \in 1..(Len(code[b]) + 1)
    <3>1. PICK m : m = Len(code[b])
      OBVIOUS
    <3>2. m \in Nat
      BY <1>2, <3>1, HereIs
    <3> QED
      BY <2>3, <2>11, <3>1, <3>2
  <2>13. Precedes(pre[b][j], w)
    BY <1>6, <1>12, <2>12, PrintedFirst
  <2>14. p \o u \in Seq(Value)
    BY <1>7, <2>9, OutJoined
  <2>15. Precedes(p \o u, w)
    BY <2>10, <2>11, <2>13
  <2>16. Precedes(q \o (p \o u), whole)
    BY <1>11, <2>14, <2>15
  <2>17. (q \o p) \o u = q \o (p \o u)
    <3>1. q \in Seq(Value) /\ p \in Seq(Value) /\ u \in Seq(Value)
      BY <1>7, <2>9
    <3> QED
      BY ONLY <3>1, Regrouped
  <2>18. Precedes(out \o <<v>>, whole)
    BY <1>10, <2>8, <2>16, <2>17
  <2> QED
    BY <1>10, <2>18, MoreToCome
<1> QED
  BY <1>14, <1>15 DEF IsStrictPrefix

\* What the invariant says of what is printed and of the result.
LEMMA MeantKeeps ==
  ASSUME IInv, RunOK, NEW program, Meant(program)
  PROVE  KeepsMeaning(Eval(program, <<>>))
<1> SUFFICES ASSUME Lowered PROVE KeepsMeaning(Eval(program, <<>>))
  BY DEF KeepsMeaning
<1>1. PICK val, pre, G :
        MeansNow(program, val, pre, G) /\ Goes(control, store, out, panic, code, val, pre)
  BY DEF Meant
<1>2. PICK B : PerformsNow(val, pre, B)
  BY <1>1 DEF Goes, PerformsNow
<1>3. Ghosts(val, pre) /\ CodeMeans(code, val, pre) /\ Did(program, Start, 1, Result, code, val, pre)
  BY <1>1 DEF MeansNow, Means, Lowered, Result, Returned
<1>4. PICK m : m = Eval(program, <<>>)
  OBVIOUS
<1>5. Start.bound = <<>> /\ Start.base = <<>>
  BY DEF Start
<1>6. val[Result] = m.value /\ m.out \in Seq(Value) /\ Out(code, pre, 1) = <<>> \o m.out
  BY <1>3, <1>4, <1>5 DEF Did
<1>7. PICK whole : whole = m.out
  OBVIOUS
<1>8. whole \in Seq(Value) /\ Out(code, pre, 1) = whole
  <2>1. whole \in Seq(Value)
    BY <1>6, <1>7
  <2>2. <<>> \o whole = whole
    BY <2>1, ConcatEmptySeq
  <2> QED
    BY <1>6, <1>7, <2>1, <2>2
<1>9. CASE control # <<>>
  <2>1. IF panic THEN IsStrictPrefix(out, whole) ELSE IsPrefix(out, whole)
    BY <1>2, <1>3, <1>8, <1>9, BodyKeeps
  <2> QED
    BY <1>4, <1>7, <1>9, <2>1 DEF KeepsMeaning
<1>10. CASE control = <<>>
  <2>1. ~panic /\ out = IF DOMAIN store = {} THEN <<>> ELSE whole
    BY <1>2, <1>8, <1>10 DEF PerformsNow, Performs
  <2>2. PICK none : none = <<>>
    OBVIOUS
  <2>3. none \in Seq(Value)
    BY <2>2
  <2>4. none \o whole = whole /\ whole \o none = whole
    BY <1>8, <2>2, ConcatEmptySeq
  <2>5. Precedes(none, whole) /\ Precedes(whole, whole)
    BY <1>8, <2>3, <2>4 DEF Precedes
  <2>6. IsPrefix(none, whole) /\ IsPrefix(whole, whole)
    BY <1>8, <2>3, <2>5, PrecedesIs
  <2>7. IsPrefix(out, whole)
    BY <2>1, <2>2, <2>6
  <2>8. ASSUME DOMAIN store # {} PROVE store[Result] = m.value /\ out = whole
    <3>1. Result \in DOMAIN store
      BY <1>10, <2>8 DEF RunOK
    <3>2. store[Result] = val[Result]
      BY <1>2, <3>1 DEF PerformsNow, Performs
    <3> QED
      BY <1>6, <2>1, <2>8, <3>2
  <2> QED
    BY <1>4, <1>7, <2>1, <2>7, <2>8 DEF KeepsMeaning
<1> QED
  BY <1>9, <1>10

\* Every step of lowering and of interpretation keeps the invariant.
LEMMA MeantStep ==
  ASSUME IsAst, IsNumeric, IsKinds, IsEval, IInv, CodeRuns, RunOK, NEW program \in Expr,
         Meant(program), [RunsOn(program)]_<<lowerVars, interpVars>>
  PROVE  Meant(program)'
<1>1. PICK val, pre, G :
        MeansNow(program, val, pre, G) /\ Goes(control, store, out, panic, code, val, pre)
  BY DEF Meant
<1>2. PICK B : PerformsNow(val, pre, B)
  BY <1>1 DEF Goes, PerformsNow
<1>3. Ghosts(val, pre) /\ CodeMeans(code, val, pre) /\ (code # <<>> => NoCopyIn(code, 1))
  BY <1>1 DEF MeansNow, Means
<1>4. CASE (LowerProgram(program) \/ LowerStep) /\ UNCHANGED interpVars
  <2>1. MInv(program)
    BY <1>1 DEF MeansNow, MInv
  <2>2. MInv(program)'
    BY <1>4, <2>1, MeansStep
  <2>3. PICK val2, pre2, G2 :
          Means(program, frames', code', entry', env', next', ret', val2, pre2, G2)
    BY <2>2 DEF MInv
  <2>4. ~Lowered
    BY <1>4 DEF LowerProgram, LowerStep, LowerNumber, LowerVar, LowerLhs, LowerRhs, EmitBinOp,
       LowerCond, LowerThen, LowerElse, EmitIf, OpenScope, LowerLet, LowerPrint, AtStmt, CloseScope,
       At, Lowered
  <2>5. control = <<>> /\ DOMAIN store = {}
    BY <2>4 DEF RunOK
  <2>6. ~panic /\ out = <<>>
    BY <1>2, <2>5 DEF PerformsNow, Performs
  <2>7. control' = control /\ store' = store /\ out' = out /\ panic' = panic
    BY <1>4 DEF interpVars
  <2>8. PICK c2 : c2 = code'
    OBVIOUS
  <2>9. Performs(control, store, out, panic, c2, val2, pre2, B)
    BY <2>5, <2>6 DEF Performs
  <2>10. Goes(control, store, out, panic, c2, val2, pre2)
    BY <2>9 DEF Goes
  <2>11. Goes(control', store', out', panic', code', val2, pre2)
    BY <2>7, <2>8, <2>10
  <2> QED
    BY <2>3, <2>11 DEF Meant, MeansNow
<1>5. ASSUME UNCHANGED lowerVars, Goes(control', store', out', panic', code', val, pre)
      PROVE  Meant(program)'
  <2>1. Means(program, frames', code', entry', env', next', ret', val, pre, G)
    BY <1>1, <1>5 DEF MeansNow, lowerVars
  <2> QED
    BY <1>5, <2>1 DEF Meant, MeansNow
<1>6. ASSUME UNCHANGED lowerVars, Performs(control', store', out', panic', code', val, pre, B)
      PROVE  Meant(program)'
  <2>1. PICK cs : cs = control'
    OBVIOUS
  <2>2. PICK st : st = store'
    OBVIOUS
  <2>3. PICK o : o = out'
    OBVIOUS
  <2>4. PICK p : p = panic'
    OBVIOUS
  <2>5. PICK c : c = code'
    OBVIOUS
  <2>6. Performs(cs, st, o, p, c, val, pre, B)
    BY <1>6, <2>1, <2>2, <2>3, <2>4, <2>5
  <2>7. Goes(cs, st, o, p, c, val, pre)
    BY <2>6 DEF Goes
  <2>8. Goes(control', store', out', panic', code', val, pre)
    BY <2>1, <2>2, <2>3, <2>4, <2>5, <2>7
  <2> QED
    BY <1>5, <1>6, <2>8
<1>7. CASE Interpret /\ UNCHANGED lowerVars
  BY <1>2, <1>3, <1>5, <1>7, BodyMeans
<1>8. CASE InterpStep /\ UNCHANGED lowerVars
  <2>1. control # <<>>
    BY <1>8 DEF InterpStep, ExecConst, ExecBinOp, ExecCall, CallFails, ExecCopy, ExecIf, EndBlock,
       Exec, Running
  <2>2. NoCopyIn(code, 1)
    BY <1>3, <2>1 DEF RunOK, Lowered
  <2>3. CASE ExecConst \/ ExecBinOp \/ ExecCall \/ ExecCopy
    BY <1>2, <1>3, <1>6, <1>8, <2>2, <2>3, WriteMeans
  <2>4. CASE CallFails
    BY <1>2, <1>3, <1>6, <1>8, <2>4, LossMeans
  <2>5. CASE ExecIf
    BY <1>2, <1>3, <1>5, <1>8, <2>5, TakenArm
  <2>6. CASE EndBlock
    BY <1>2, <1>3, <1>6, <1>8, <2>6, EndMeans
  <2> QED
    BY <1>8, <2>3, <2>4, <2>5, <2>6 DEF InterpStep
<1>9. CASE UNCHANGED <<lowerVars, interpVars>>
  <2>1. control' = control /\ store' = store /\ out' = out /\ panic' = panic /\ code' = code
    BY <1>9 DEF interpVars, lowerVars
  <2>2. Performs(control', store', out', panic', code', val, pre, B)
    BY <1>2, <2>1 DEF PerformsNow
  <2> QED
    BY <1>6, <1>9, <2>2
<1> QED
  BY <1>4, <1>7, <1>8, <1>9 DEF RunsOn

\* Nothing is lowered, nor run, at first.
LEMMA MeantInit ==
  ASSUME IsNumeric, RunInit, NEW program
  PROVE  Meant(program)
<1>1. PICK val, pre, G : MeansNow(program, val, pre, G)
  BY InitMeans DEF RunInit, MInv, MeansNow
<1>2. control = <<>> /\ DOMAIN store = {} /\ out = <<>> /\ ~panic
  BY DEF RunInit, InterpInit
<1>3. PICK B : B = <<>>
  OBVIOUS
<1>4. Performs(control, store, out, panic, code, val, pre, B)
  BY <1>2 DEF Performs
<1>5. Goes(control, store, out, panic, code, val, pre)
  BY <1>4 DEF Goes
<1> QED
  BY <1>1, <1>5 DEF Meant

\* Lowering and interpretation keep the meaning of any program: what is printed is
\* what the program says in the order it says it, the beginning of that while it
\* runs or when a built-in fails, and the result is the program's value.
THEOREM InterpreterMeans ==
  ASSUME IsAst, IsKinds, IsNumeric, IsEval, NEW program \in Expr
  PROVE  RunOf(program) => []KeepsMeaning(Eval(program, <<>>))
<1>1. IsAst /\ IsKinds /\ IsNumeric /\ IsEval /\ program \in Expr
  OBVIOUS
<1>2. RunInit => IInv /\ CodeRuns /\ RunOK /\ Meant(program)
  <2> SUFFICES ASSUME RunInit PROVE IInv /\ CodeRuns /\ RunOK /\ Meant(program)
    OBVIOUS
  <2>1. IInv /\ CodeRuns
    BY InitOK, RunsInit DEF RunInit
  <2>2. control = <<>> /\ control \in Seq(Place) /\ DOMAIN store = {}
    BY DEF RunInit, InterpInit
  <2>3. Len(<<>>) = 0 /\ (\A k \in 1..0 : FALSE) /\ (\A k \in 1..(0 - 1) : FALSE)
    OBVIOUS
  <2>4. RunOK
    BY <2>2, <2>3 DEF RunOK
  <2>5. Meant(program)
    BY <1>1, MeantInit
  <2> QED
    BY <2>1, <2>4, <2>5
<1>3. IInv /\ CodeRuns /\ RunOK /\ Meant(program) /\ [RunsOn(program)]_<<lowerVars, interpVars>>
        => IInv' /\ CodeRuns' /\ RunOK' /\ Meant(program)'
  <2> SUFFICES ASSUME IInv, CodeRuns, RunOK, Meant(program), [RunsOn(program)]_<<lowerVars, interpVars>>
               PROVE  IInv' /\ CodeRuns' /\ RunOK' /\ Meant(program)'
    OBVIOUS
  <2>1. [RunNext]_<<lowerVars, interpVars>>
    BY <1>1 DEF RunsOn, RunNext, LowerNext
  <2>2. IInv' /\ CodeRuns' /\ RunOK'
    BY <1>1, <2>1, RunStep
  <2>3. Meant(program)'
    BY <1>1, MeantStep
  <2> QED
    BY <2>2, <2>3
<1>4. IInv /\ CodeRuns /\ RunOK /\ Meant(program) => KeepsMeaning(Eval(program, <<>>))
  BY MeantKeeps
<1> QED
  BY <1>2, <1>3, <1>4, PTL DEF RunOf
=============================================================================
