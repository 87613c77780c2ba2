---------------------------- MODULE IpcCallProofs ----------------------------
(***************************************************************************)
(* Theorems about IpcCall for any number of calls, any pipe capacity and   *)
(* any scripts of the children: what a program says comes out whole and in *)
(* order, a failed call says why, and IpcCall implements CallPromise.      *)
(***************************************************************************)
EXTENDS IpcCall, DataInduction

-----------------------------------------------------------------------------
(* The inductive invariant.                                                *)

\* What is on stdout: pieces of text and newlines, with the call each is from.
Item == Nat \X {"text", "newline"}

Streamed == [out : Seq(ChildStep), err : Seq(ChildStep)]

Types ==
  /\ host \in Host /\ call \in 0..MaxCalls
  /\ phase \in {"idle", "spawn", "write", "wait", "check"} \cup Left
  /\ why \in {"", "bundle", "start", "exited", "non-UTF-8", "invalid"}
  /\ child \in {"none", "running", "succeeded", "failed"}
  /\ request \in {"unwritten", "sent", "lost"} /\ heir \in BOOLEAN
  /\ pipe \in Streamed /\ got \in Streamed /\ wrote \in Streamed
  /\ buffer \in Seq(Item) /\ stdout \in Seq(Item)
  /\ answered \in Seq(Nat \X Output)

\* A pipe never holds more than it can.
PipesFit == Len(pipe.out) <= Capacity /\ Len(pipe.err) <= Capacity

\* At most one call is under way, and each answers at most once.
Counted ==
  /\ Len(answered) <= call
  /\ phase \in {"spawn", "write", "wait", "check"} => Len(answered) < call

\* Outside of a call nothing of a child is left, and in one there is a child.
ChildByPhase ==
  /\ phase \notin {"write", "wait"} => child # "running" /\ ~heir
  /\ phase \in {"write", "wait", "check"} => child # "none"

\* What the child wrote is read or still in the pipe; once it has ended, all of
\* it is read.
NothingLost ==
  /\ phase \in {"write", "wait", "check"} =>
       /\ wrote.out = got.out \o pipe.out
       /\ wrote.err = got.err \o pipe.err
  /\ phase = "check" => pipe = Streams

\* Where a message is from.
Blame ==
  /\ why # "" => phase = "panicked"
  /\ why = "exited" => child = "failed" /\ got.err = wrote.err
  /\ why \in {"non-UTF-8", "invalid"} => child = "succeeded" /\ Parsed(wrote.out) = {}

\* stdout ends with a whole line, and what waits for its newline has none.
LineBuffered ==
  /\ WholeLines(buffer) = 0
  /\ phase \notin Left => WholeLines(stdout) = Len(stdout)
  /\ phase \in Left => buffer = <<>>

IInv == Types /\ PipesFit /\ Counted /\ ChildByPhase /\ NothingLost /\ Blame
          /\ LineBuffered /\ OutputIsInOrder

-----------------------------------------------------------------------------
(* Texts and their lines.                                                  *)

\* A set of places of a text that is not empty has a last one, and Max is it.
LEMMA LastPlace ==
  ASSUME NEW n \in Nat, NEW S, S \subseteq 1..n, S # {}
  PROVE  Max(S) \in S /\ \A x \in S : x <= Max(S)
<1>1. PICK z \in S : \A y \in S : y <= z
  BY GreatestNumber
<1>2. \E z2 \in S : \A y \in S : z2 >= y
  BY <1>1
<1>3. Max(S) \in S /\ \A y \in S : Max(S) >= y
  BY <1>2, Zenon DEF Max
<1> QED
  BY <1>3

\* What the calls say is text.
LEMMA TextType ==
  ASSUME NEW k \in Nat, NEW o \in Output
  PROVE  Text(k, o) \in Seq(Item)
<1> DEFINE t == <<k, "text">>
           n == <<k, "newline">>
<1>1. t \in Item /\ n \in Item
  BY DEF Item
<1>2. Text(k, o) = <<>> \/ Text(k, o) = <<t>> \/ Text(k, o) = <<t, n>> \/ Text(k, o) = <<t, n, t>>
  <2>1. CASE o = "none"
    BY <2>1 DEF Text
  <2>2. CASE o = "part"
    BY <2>2 DEF Text
  <2>3. CASE o = "line"
    BY <2>3 DEF Text
  <2>4. CASE o = "more"
    BY <2>4 DEF Text
  <2> QED
    BY <2>1, <2>2, <2>3, <2>4 DEF Output
<1> HIDE DEF t, n
<1>3. <<>> \in Seq(Item) /\ <<t>> \in Seq(Item)
  BY <1>1
<1>4. <<t, n>> \in Seq(Item)
  BY <1>1
<1>5. <<t, n, t>> \in Seq(Item)
  BY <1>1
<1> QED
  BY <1>2, <1>3, <1>4, <1>5

\* The whole lines of a text end at its last newline.
LEMMA WholeLinesIs ==
  ASSUME NEW text \in Seq(Item)
  PROVE  /\ WholeLines(text) \in 0..Len(text)
         /\ WholeLines(text) # 0 => text[WholeLines(text)][2] = "newline"
         /\ \A i \in 1..Len(text) : text[i][2] = "newline" => i <= WholeLines(text)
<1> DEFINE ends == {i \in DOMAIN text : text[i][2] = "newline"}
<1>1. DOMAIN text = 1..Len(text) /\ Len(text) \in Nat
  OBVIOUS
<1>2. CASE ends = {}
  BY <1>1, <1>2 DEF WholeLines
<1>3. CASE ends # {}
  <2>1. Max(ends) \in ends /\ \A i \in ends : i <= Max(ends)
    BY <1>1, <1>3, LastPlace
  <2>2. WholeLines(text) = Max(ends)
    BY <1>3 DEF WholeLines
  <2> HIDE DEF ends
  <2>3. WholeLines(text) \in ends /\ \A i \in ends : i <= WholeLines(text)
    BY <2>1, <2>2
  <2> QED
    BY <1>1, <2>3 DEF ends
<1> QED
  BY <1>2, <1>3

\* It is the only place of which that is so.
LEMMA WholeLinesOnly ==
  ASSUME NEW text \in Seq(Item), NEW n \in 0..Len(text),
         n # 0 => text[n][2] = "newline",
         \A i \in 1..Len(text) : text[i][2] = "newline" => i <= n
  PROVE  WholeLines(text) = n
<1> DEFINE m == WholeLines(text)
<1>1. /\ m \in 0..Len(text)
      /\ m # 0 => text[m][2] = "newline"
      /\ \A i \in 1..Len(text) : text[i][2] = "newline" => i <= m
  BY WholeLinesIs
<1> HIDE DEF m
<1>2. Len(text) \in Nat
  OBVIOUS
<1>3. m <= n
  BY <1>1, <1>2
<1>4. n <= m
  BY <1>1, <1>2
<1>5. m = n
  BY <1>1, <1>2, <1>3, <1>4
<1> QED
  BY <1>5 DEF m

\* Where two texts are put together.
LEMMA PutTogether ==
  ASSUME NEW S, NEW s \in Seq(S), NEW t \in Seq(S)
  PROVE  /\ s \o t \in Seq(S) /\ Len(s \o t) = Len(s) + Len(t)
         /\ \A i \in 1..Len(s) : (s \o t)[i] = s[i]
         /\ \A i \in (Len(s) + 1)..(Len(s) + Len(t)) : (s \o t)[i] = t[i - Len(s)]
OBVIOUS

\* A text cut in two, anywhere, is its two parts.
LEMMA CutInTwo ==
  ASSUME NEW S, NEW s \in Seq(S), NEW n \in 0..Len(s)
  PROVE  /\ SubSeq(s, 1, n) \in Seq(S) /\ Len(SubSeq(s, 1, n)) = n
         /\ \A i \in 1..n : SubSeq(s, 1, n)[i] = s[i]
         /\ SubSeq(s, n + 1, Len(s)) \in Seq(S) /\ Len(SubSeq(s, n + 1, Len(s))) = Len(s) - n
         /\ \A i \in 1..(Len(s) - n) : SubSeq(s, n + 1, Len(s))[i] = s[n + i]
         /\ SubSeq(s, 1, n) \o SubSeq(s, n + 1, Len(s)) = s
<1> DEFINE a == SubSeq(s, 1, n)
           b == SubSeq(s, n + 1, Len(s))
<1>1. a \in Seq(S) /\ Len(a) = n /\ \A i \in 1..n : a[i] = s[i]
  OBVIOUS
<1>2. b \in Seq(S) /\ Len(b) = Len(s) - n /\ \A i \in 1..(Len(s) - n) : b[i] = s[n + i]
  OBVIOUS
<1> HIDE DEF a, b
<1>3. a \o b = s
  <2>1. /\ a \o b \in Seq(S) /\ Len(a \o b) = Len(a) + Len(b)
        /\ \A i \in 1..Len(a) : (a \o b)[i] = a[i]
        /\ \A i \in (Len(a) + 1)..(Len(a) + Len(b)) : (a \o b)[i] = b[i - Len(a)]
    BY <1>1, <1>2, PutTogether
  <2> DEFINE c == a \o b
             l == Len(s)
  <2>2. /\ l \in Nat /\ n \in 0..l /\ c \in Seq(S) /\ Len(c) = n + (l - n)
        /\ \A i \in 1..n : c[i] = s[i]
    BY <1>1, <1>2, <2>1
  <2>3. \A i \in (n + 1)..(n + (l - n)) : c[i] = b[i - n]
    BY <1>1, <1>2, <2>1
  <2>4. \A i \in 1..(l - n) : b[i] = s[n + i]
    BY <1>2
  <2>5. Len(s) = l
    OBVIOUS
  <2> HIDE DEF c, l
  <2>6. n + (l - n) = l /\ Len(c) = l
    BY <2>2
  <2>7. ASSUME NEW i \in 1..l PROVE c[i] = s[i]
    <3>1. CASE i \in 1..n
      BY <2>2, <3>1
    <3>2. CASE i \in (n + 1)..l
      <4>1. i - n \in 1..(l - n) /\ n + (i - n) = i
        BY <2>2, <3>2
      <4> QED
        BY <2>3, <2>4, <2>6, <3>2, <4>1
    <3> QED
      BY <2>2, <3>1, <3>2
  <2>8. c = s
    BY <2>2, <2>5, <2>6, <2>7, SeqEqual
  <2> QED
    BY <2>8 DEF c
<1> QED
  BY <1>1, <1>2, <1>3 DEF a, b

\* What print! sends out ends with a whole line, and what it keeps has none.
LEMMA WholeLinesCut ==
  ASSUME NEW text \in Seq(Item)
  PROVE  LET n == WholeLines(text)
             out == SubSeq(text, 1, n)
             rest == SubSeq(text, n + 1, Len(text))
         IN  /\ out \in Seq(Item) /\ rest \in Seq(Item)
             /\ out \o rest = text
             /\ WholeLines(out) = Len(out)
             /\ WholeLines(rest) = 0
<1> DEFINE n == WholeLines(text)
           out == SubSeq(text, 1, n)
           rest == SubSeq(text, n + 1, Len(text))
<1>1. /\ n \in 0..Len(text)
      /\ n # 0 => text[n][2] = "newline"
      /\ \A i \in 1..Len(text) : text[i][2] = "newline" => i <= n
  BY WholeLinesIs
<1> HIDE DEF n
<1>2. /\ out \in Seq(Item) /\ Len(out) = n
      /\ \A i \in 1..n : out[i] = text[i]
      /\ rest \in Seq(Item) /\ Len(rest) = Len(text) - n
      /\ \A i \in 1..(Len(text) - n) : rest[i] = text[n + i]
      /\ out \o rest = text
  BY <1>1, CutInTwo
<1> HIDE DEF out, rest
<1>3. Len(text) \in Nat
  OBVIOUS
<1>4. WholeLines(out) = n
  <2>1. n # 0 => out[n][2] = "newline"
    BY <1>1, <1>2, <1>3
  <2>2. n \in 0..Len(out) /\ \A i \in 1..Len(out) : i <= n
    BY <1>1, <1>2, <1>3
  <2> QED
    BY <1>2, <2>1, <2>2, WholeLinesOnly
<1>5. WholeLines(rest) = 0
  <2>1. ASSUME NEW i \in 1..Len(rest), rest[i][2] = "newline" PROVE FALSE
    <3>1. i \in 1..(Len(text) - n) /\ n + i \in 1..Len(text) /\ ~(n + i <= n)
      BY <1>1, <1>2, <1>3
    <3> QED
      BY <1>1, <1>2, <2>1, <3>1
  <2>2. 0 \in 0..Len(rest)
    BY <1>2
  <2> QED
    BY <1>2, <2>1, <2>2, WholeLinesOnly
<1> QED
  BY <1>2, <1>4, <1>5 DEF n, out, rest

\* Whole lines after whole lines are whole lines.
LEMMA WholeAfterWhole ==
  ASSUME NEW s \in Seq(Item), NEW t \in Seq(Item),
         WholeLines(s) = Len(s), WholeLines(t) = Len(t)
  PROVE  WholeLines(s \o t) = Len(s \o t)
<1> DEFINE n == Len(s)
           m == Len(t)
           both == s \o t
<1>1. /\ both \in Seq(Item) /\ Len(both) = n + m
      /\ \A i \in 1..n : both[i] = s[i]
      /\ \A i \in (n + 1)..(n + m) : both[i] = t[i - n]
  BY PutTogether
<1>2. n \in Nat /\ m \in Nat
  OBVIOUS
<1>3. n # 0 => s[n][2] = "newline"
  BY WholeLinesIs
<1>4. m # 0 => t[m][2] = "newline"
  BY WholeLinesIs
<1> HIDE DEF n, m, both
<1>5. n + m # 0 => both[n + m][2] = "newline"
  <2>1. CASE m = 0
    BY <1>1, <1>2, <1>3, <2>1
  <2>2. CASE m # 0
    <3>1. n + m \in (n + 1)..(n + m) /\ (n + m) - n = m
      BY <1>2, <2>2
    <3> QED
      BY <1>1, <1>4, <2>2, <3>1
  <2> QED
    BY <2>1, <2>2
<1>6. n + m \in 0..Len(both) /\ \A i \in 1..Len(both) : i <= n + m
  BY <1>1, <1>2
<1>7. WholeLines(both) = n + m
  BY <1>1, <1>5, <1>6, WholeLinesOnly
<1> QED
  BY <1>1, <1>7 DEF both

\* Only the unfinished last line of a text is not in its whole lines.
LEMMA WholeBeforeRest ==
  ASSUME NEW s \in Seq(Item), NEW t \in Seq(Item),
         WholeLines(s) = Len(s), WholeLines(t) = 0
  PROVE  SubSeq(s \o t, 1, WholeLines(s \o t)) = s
<1> DEFINE n == Len(s)
           m == Len(t)
           both == s \o t
<1>1. /\ both \in Seq(Item) /\ Len(both) = n + m
      /\ \A i \in 1..n : both[i] = s[i]
      /\ \A i \in (n + 1)..(n + m) : both[i] = t[i - n]
  BY PutTogether
<1>2. n \in Nat /\ m \in Nat
  OBVIOUS
<1>3. n # 0 => s[n][2] = "newline"
  BY WholeLinesIs
<1>4. \A i \in 1..m : t[i][2] # "newline"
  <2>1. \A i \in 1..m : t[i][2] = "newline" => i <= 0
    BY WholeLinesIs
  <2> HIDE DEF m
  <2> QED
    BY <1>2, <2>1
<1> HIDE DEF n, m, both
<1>5. n # 0 => both[n][2] = "newline"
  BY <1>1, <1>2, <1>3
<1>6. ASSUME NEW i \in 1..Len(both), both[i][2] = "newline" PROVE i <= n
  <2> SUFFICES ASSUME ~(i <= n) PROVE FALSE
    OBVIOUS
  <2>1. i \in (n + 1)..(n + m) /\ i - n \in 1..m
    BY <1>1, <1>2
  <2> QED
    BY <1>1, <1>4, <1>6, <2>1
<1>7. n \in 0..Len(both)
  BY <1>1, <1>2
<1>8. WholeLines(both) = n
  BY <1>1, <1>5, <1>6, <1>7, WholeLinesOnly
<1>9. SubSeq(both, 1, n) = s
  <2>1. SubSeq(both, 1, n) \in Seq(Item) /\ Len(SubSeq(both, 1, n)) = n
    BY <1>1, <1>7, CutInTwo
  <2>2. \A i \in 1..n : SubSeq(both, 1, n)[i] = both[i]
    BY <1>1, <1>7, CutInTwo
  <2>3. Len(s) = n
    BY DEF n
  <2> QED
    BY <1>1, <2>1, <2>2, <2>3, SeqEqual
<1> QED
  BY <1>8, <1>9 DEF both

-----------------------------------------------------------------------------
(* What the answered calls said.                                           *)

\* The texts of the calls in `calls`, in their order.
Texts(calls) == [i \in DOMAIN calls |-> Text(calls[i][1], calls[i][2])]

\* They are texts, each in the place of its call.
LEMMA TextsType ==
  ASSUME NEW calls \in Seq(Nat \X Output)
  PROVE  /\ Texts(calls) \in Seq(Seq(Item)) /\ Len(Texts(calls)) = Len(calls)
         /\ \A i \in 1..Len(calls) : Texts(calls)[i] = Text(calls[i][1], calls[i][2])
<1>1. DOMAIN calls = 1..Len(calls) /\ Len(calls) \in Nat
  OBVIOUS
<1>2. ASSUME NEW i \in 1..Len(calls)
      PROVE  Text(calls[i][1], calls[i][2]) \in Seq(Item)
  <2>1. calls[i] \in Nat \X Output
    OBVIOUS
  <2>2. calls[i][1] \in Nat /\ calls[i][2] \in Output
    BY <2>1
  <2> QED
    BY <2>2, TextType
<1> QED
  BY <1>1, <1>2 DEF Texts

\* A call that answers is heard after the others.
LEMMA SaidNext ==
  ASSUME NEW calls \in Seq(Nat \X Output), NEW k \in Nat, NEW o \in Output
  PROVE  FlattenSeq(Texts(Append(calls, <<k, o>>)))
           = FlattenSeq(Texts(calls)) \o Text(k, o)
<1> DEFINE n == Len(calls)
           more == Append(calls, <<k, o>>)
           a == Texts(more)
           b == Append(Texts(calls), Text(k, o))
<1>1. /\ n \in Nat /\ more \in Seq(Nat \X Output) /\ Len(more) = n + 1
      /\ more[n + 1][1] = k /\ more[n + 1][2] = o
      /\ \A i \in 1..n : more[i] = calls[i]
  OBVIOUS
<1>2. /\ Texts(calls) \in Seq(Seq(Item)) /\ Len(Texts(calls)) = n
      /\ \A i \in 1..n : Texts(calls)[i] = Text(calls[i][1], calls[i][2])
  BY TextsType
<1> HIDE DEF n, more
<1>3. /\ a \in Seq(Seq(Item)) /\ Len(a) = n + 1
      /\ \A i \in 1..(n + 1) : a[i] = Text(more[i][1], more[i][2])
  BY <1>1, TextsType
<1>4. Text(k, o) \in Seq(Item)
  BY TextType
<1>5. /\ b \in Seq(Seq(Item)) /\ Len(b) = n + 1 /\ b[n + 1] = Text(k, o)
      /\ \A i \in 1..n : b[i] = Texts(calls)[i]
  BY <1>2, <1>4
<1> HIDE DEF a, b
<1>6. ASSUME NEW i \in 1..(n + 1) PROVE a[i] = b[i]
  <2>1. CASE i \in 1..n
    <3>1. more[i] = calls[i]
      BY <1>1, <2>1
    <3>2. a[i] = Text(calls[i][1], calls[i][2])
      BY <1>3, <3>1
    <3> QED
      BY <1>2, <1>5, <2>1, <3>2
  <2>2. CASE i = n + 1
    BY <1>1, <1>3, <1>5, <2>2
  <2> QED
    BY <1>1, <2>1, <2>2
<1>7. a = b
  BY <1>3, <1>5, <1>6, SeqEqual
<1> QED
  BY <1>2, <1>4, <1>7, FlattenSeqAppend DEF a, b, more

\* The same of the state: Said is a text, and Answer adds to it.
LEMMA SaidType ==
  ASSUME Types
  PROVE  Said \in Seq(Item)
<1>1. Texts(answered) \in Seq(Seq(Item))
  BY TextsType DEF Types
<1>2. Said = FlattenSeq(Texts(answered))
  BY DEF Said, Texts
<1> QED
  BY <1>1, <1>2, FlattenSeqType

LEMMA CallIsNumber ==
  ASSUME Types
  PROVE  call \in Nat
<1>1. call \in 0..MaxCalls
  BY DEF Types
<1>2. MaxCalls \in Nat
  BY Bounds
<1> QED
  BY <1>1, <1>2

LEMMA SaidAnswer ==
  ASSUME Types, NEW o \in Output, answered' = Append(answered, <<call, o>>)
  PROVE  Said' = Said \o Text(call, o)
<1>1. answered \in Seq(Nat \X Output) /\ call \in Nat
  BY CallIsNumber DEF Types
<1>2. Said = FlattenSeq(Texts(answered)) /\ Said' = FlattenSeq(Texts(answered'))
  BY DEF Said, Texts
<1> QED
  BY <1>1, <1>2, SaidNext

-----------------------------------------------------------------------------
(* The two ways in which something comes out.                              *)

\* Relay puts the text after all that was there, and sends out the whole lines.
LEMMA RelayKeeps ==
  ASSUME Types, NEW text \in Seq(Item), Relay(text),
         WholeLines(stdout) = Len(stdout)
  PROVE  /\ stdout' \in Seq(Item) /\ buffer' \in Seq(Item)
         /\ stdout' \o buffer' = (stdout \o buffer) \o text
         /\ WholeLines(stdout') = Len(stdout')
         /\ WholeLines(buffer') = 0
<1> DEFINE all == buffer \o text
           n == WholeLines(all)
           out == SubSeq(all, 1, n)
           rest == SubSeq(all, n + 1, Len(all))
<1>1. buffer \in Seq(Item) /\ stdout \in Seq(Item)
  BY DEF Types
<1>2. all \in Seq(Item)
  BY <1>1
<1>3. stdout' = stdout \o out /\ buffer' = rest
  BY DEF Relay
<1> HIDE DEF all
<1>4. /\ out \in Seq(Item) /\ rest \in Seq(Item) /\ out \o rest = all
      /\ WholeLines(out) = Len(out) /\ WholeLines(rest) = 0
  BY <1>2, WholeLinesCut
<1> HIDE DEF out, rest
<1>5. WholeLines(stdout \o out) = Len(stdout \o out)
  BY <1>1, <1>4, WholeAfterWhole
<1>6. out \o rest = buffer \o text
  BY <1>4 DEF all
<1>7. stdout \o out \in Seq(Item) /\ (stdout \o out) \o rest = (stdout \o buffer) \o text
  <2>1. stdout \in Seq(Item) /\ buffer \in Seq(Item) /\ text \in Seq(Item)
    BY <1>1
  <2>2. out \in Seq(Item) /\ rest \in Seq(Item)
    BY <1>4
  <2>3. stdout \o out \in Seq(Item) /\ (stdout \o out) \o rest = stdout \o (out \o rest)
    BY SMTT(30), <2>1, <2>2
  <2>4. (stdout \o buffer) \o text = stdout \o (buffer \o text)
    BY <2>1
  <2> QED
    BY <1>6, <2>3, <2>4, Zenon
<1> QED
  BY <1>3, <1>4, <1>5, <1>7

\* Whatever way the program ends, stdout is what was said, but for an unfinished
\* last line that nobody flushes.
LEMMA LeaveKeeps ==
  ASSUME Types, LineBuffered, OutputIsInOrder, phase \notin Left,
         NEW how \in Left, Leave(how), UNCHANGED <<host, answered>>
  PROVE  /\ phase' \in Left /\ stdout' \in Seq(Item) /\ buffer' \in Seq(Item)
         /\ LineBuffered' /\ OutputIsInOrder'
<1>1. /\ buffer \in Seq(Item) /\ stdout \in Seq(Item)
      /\ WholeLines(stdout) = Len(stdout) /\ WholeLines(buffer) = 0
      /\ stdout \o buffer = Said
  BY DEF Types, LineBuffered, OutputIsInOrder
<1>2. phase' \in Left /\ buffer' = <<>> /\ Said' = Said /\ host' = host
  BY DEF Leave, Said
<1>3. WholeLines(<<>>) = 0
  BY DEF WholeLines
<1>4. stdout' = IF host = "interpreter" THEN stdout \o buffer ELSE stdout
  BY DEF Leave
<1>5. SubSeq(Said, 1, WholeLines(Said)) = stdout
  BY <1>1, WholeBeforeRest
<1>6. stdout' \in Seq(Item) /\ buffer' \in Seq(Item)
  <2>1. stdout \o buffer \in Seq(Item)
    <3>1. buffer \in Seq(Item) /\ stdout \in Seq(Item)
      BY <1>1
    <3> QED
      BY <3>1, PutTogether
  <2>2. <<>> \in Seq(Item)
    OBVIOUS
  <2>3. stdout' \in Seq(Item)
    <3>1. CASE host = "interpreter"
      BY <1>4, <2>1, <3>1
    <3>2. CASE host # "interpreter"
      BY <1>1, <1>4, <3>2
    <3> QED
      BY <3>1, <3>2
  <2>4. buffer' \in Seq(Item)
    BY <1>2, <2>2, Zenon
  <2> QED
    BY <2>3, <2>4
<1>7. LineBuffered'
  BY <1>2, <1>3 DEF LineBuffered
<1>8. OutputIsInOrder'
  <2>1. stdout' = IF host' = "interpreter" THEN Said' ELSE SubSeq(Said', 1, WholeLines(Said'))
    BY <1>1, <1>2, <1>4, <1>5
  <2> QED
    BY <1>2, <2>1 DEF OutputIsInOrder
<1> QED
  BY <1>2, <1>6, <1>7, <1>8

-----------------------------------------------------------------------------
(* What the steps have in common.                                          *)

\* The steps that end the program, those that call nothing on stdout, and Answer.
Leaving == BundleFails \/ SpawnFails \/ Fail \/ BrokenPipe \/ Finish
Parting == BundleDir \/ Spawn \/ WriteRequest \/ Wait
Working ==
  \/ Collect("out") \/ Collect("err")
  \/ ChildReads \/ ChildWrites("out") \/ ChildWrites("err") \/ ChildForks \/ ChildExits
  \/ ChildDies \/ HeirExits

LEMMA Steps ==
  Next <=> Leaving \/ Parting \/ Working \/ Answer
BY DEF Next, Parent, Child, Leaving, Parting, Working

\* The program leaves once, and does not touch the child, its pipes or the calls.
LEMMA LeavingStep ==
  ASSUME Leaving
  PROVE  /\ phase \notin Left /\ \E how \in Left : Leave(how)
         /\ UNCHANGED <<host, call, childVars, request, pipe, heir, got, answered>>
<1>1. CASE BundleFails
  BY <1>1 DEF BundleFails, PanicWith, Left
<1>2. CASE SpawnFails
  BY <1>2 DEF SpawnFails, PanicWith, Left
<1>3. CASE Fail
  BY <1>3 DEF Fail, PanicWith, Left
<1>4. CASE BrokenPipe
  BY <1>4 DEF BrokenPipe, Left
<1>5. CASE Finish
  BY <1>5 DEF Finish, Left
<1> QED
  BY <1>1, <1>2, <1>3, <1>4, <1>5 DEF Leaving

\* The parent goes from a phase of a call to another and writes nothing.
LEMMA PartingStep ==
  ASSUME Parting
  PROVE  /\ phase \notin Left /\ phase' \in {"spawn", "write", "wait", "check"}
         /\ UNCHANGED <<host, why, stdioVars, answered>>
<1>1. CASE BundleDir
  BY <1>1 DEF BundleDir, Left
<1>2. CASE Spawn
  BY <1>2 DEF Spawn, Left
<1>3. CASE WriteRequest
  BY <1>3 DEF WriteRequest, Left
<1>4. CASE Wait
  BY <1>4 DEF Wait, Left
<1> QED
  BY <1>1, <1>2, <1>3, <1>4 DEF Parting

\* The child and the pipes work while the parent stays where it is.
LEMMA WorkingStep ==
  ASSUME Working
  PROVE  UNCHANGED <<host, phase, call, why, request, stdioVars, answered>>
<1>1. ASSUME NEW s \in {"out", "err"}, Collect(s) \/ ChildWrites(s)
      PROVE  UNCHANGED <<host, phase, call, why, request, stdioVars, answered>>
  BY <1>1 DEF Collect, ChildWrites, ParentVars
<1>2. CASE ChildReads \/ ChildForks \/ ChildExits \/ ChildDies \/ HeirExits
  BY <1>2 DEF ChildReads, ChildForks, ChildExits, ChildDies, HeirExits, ParentVars
<1> QED
  BY <1>1, <1>2 DEF Working

-----------------------------------------------------------------------------
(* Each conjunct of the invariant is kept by each step.                    *)

\* stdout is kept in order and in whole lines: only leaving and answering touch it.
LEMMA KeepsOutput ==
  ASSUME IInv, Next
  PROVE  stdout' \in Seq(Item) /\ buffer' \in Seq(Item) /\ LineBuffered' /\ OutputIsInOrder'
<1> USE DEF IInv
<1>1. CASE Leaving
  BY <1>1, LeavingStep, LeaveKeeps
<1>2. ASSUME UNCHANGED <<host, stdioVars, answered>>, phase' \in Left <=> phase \in Left
      PROVE  stdout' \in Seq(Item) /\ buffer' \in Seq(Item) /\ LineBuffered' /\ OutputIsInOrder'
  <2>1. stdout' \in Seq(Item) /\ buffer' \in Seq(Item)
    BY <1>2 DEF Types, stdioVars
  <2>2. LineBuffered'
    BY <1>2 DEF LineBuffered, stdioVars
  <2>3. Said' = Said
    BY <1>2 DEF Said
  <2>4. OutputIsInOrder'
    BY <1>2, <2>3 DEF OutputIsInOrder, stdioVars
  <2> QED
    BY <2>1, <2>2, <2>4
<1>3. CASE Parting
  BY <1>2, <1>3, PartingStep DEF Left
<1>4. CASE Working
  BY <1>2, <1>4, WorkingStep
<1>5. CASE Answer
  <2>1. PICK o \in Output : Relay(Text(call, o)) /\ answered' = Append(answered, <<call, o>>)
    BY <1>5 DEF Answer, Parsed
  <2>2. phase \notin Left /\ phase' \notin Left
    BY <1>5 DEF Answer, Left
  <2>3. call \in Nat
    BY CallIsNumber
  <2>4. Text(call, o) \in Seq(Item)
    BY <2>3, TextType
  <2>5. WholeLines(stdout) = Len(stdout) /\ stdout \o buffer = Said
    BY <2>2 DEF LineBuffered, OutputIsInOrder
  <2>6. /\ stdout' \in Seq(Item) /\ buffer' \in Seq(Item)
        /\ stdout' \o buffer' = (stdout \o buffer) \o Text(call, o)
        /\ WholeLines(stdout') = Len(stdout')
        /\ WholeLines(buffer') = 0
    BY <2>1, <2>4, <2>5, RelayKeeps
  <2>7. Said' = Said \o Text(call, o)
    BY <2>1, SaidAnswer
  <2>8. stdout' \o buffer' = Said'
    BY <2>5, <2>6, <2>7, Zenon
  <2>9. LineBuffered'
    BY <2>2, <2>6 DEF LineBuffered
  <2>10. OutputIsInOrder'
    BY <2>2, <2>8 DEF OutputIsInOrder
  <2> QED
    BY <2>6, <2>9, <2>10
<1> QED
  BY <1>1, <1>3, <1>4, <1>5, Steps

\* The other variables keep their types.
LEMMA KeepsTypes ==
  ASSUME IInv, Next
  PROVE  Types'
<1>1. Types /\ stdout' \in Seq(Item) /\ buffer' \in Seq(Item)
  BY KeepsOutput DEF IInv
<1>2. CASE BundleFails \/ SpawnFails \/ Fail
  <2>1. /\ phase' = "panicked" /\ why' \in {"bundle", "start", "exited", "non-UTF-8", "invalid"}
        /\ UNCHANGED <<host, call, childVars, request, pipe, heir, got, answered>>
    BY <1>2 DEF BundleFails, SpawnFails, Fail, PanicWith, Leave
  <2> QED
    BY <1>1, <2>1 DEF Types, childVars, Left
<1>3. CASE BrokenPipe \/ Finish
  <2>1. /\ phase' \in {"killed", "ended"}
        /\ UNCHANGED <<host, call, why, childVars, request, pipe, heir, got, answered>>
    BY <1>3 DEF BrokenPipe, Finish, Leave
  <2> QED
    BY <1>1, <2>1 DEF Types, childVars, Left
<1>4. CASE Parting
  <2>1. host' \in Host /\ why' = why /\ answered' = answered
    BY <1>1, <1>4, PartingStep DEF Types
  <2>2. call' \in 0..MaxCalls
    <3>1. call' = call \/ (call < MaxCalls /\ call' = call + 1)
      <4>1. CASE BundleDir
        BY <4>1 DEF BundleDir
      <4>2. CASE Spawn
        BY <4>2 DEF Spawn
      <4>3. CASE WriteRequest \/ Wait
        BY <4>3 DEF WriteRequest, Wait
      <4> QED
        BY <1>4, <4>1, <4>2, <4>3 DEF Parting
    <3>2. call \in 0..MaxCalls
      BY <1>1 DEF Types
    <3>3. MaxCalls \in Nat
      BY Bounds
    <3> QED
      BY <3>1, <3>2, <3>3
  <2>3. phase' \in {"spawn", "write", "wait", "check"}
    BY <1>4, PartingStep
  <2>4. Streams \in Streamed
    <3>1. <<>> \in Seq(ChildStep)
      OBVIOUS
    <3> QED
      BY <3>1 DEF Streams, Streamed
  <2>5. CASE Spawn
    <3>1. child' = "running" /\ request' = "unwritten" /\ heir' = FALSE
      BY <2>5 DEF Spawn
    <3>2. pipe' = Streams /\ got' = Streams /\ wrote' = Streams
      BY <2>5 DEF Spawn
    <3> QED
      BY <1>1, <2>1, <2>2, <2>3, <2>4, <3>1, <3>2 DEF Types
  <2>6. CASE BundleDir \/ WriteRequest \/ Wait
    <3>1. /\ UNCHANGED <<child, wrote, pipe, heir, got>>
          /\ request' = request \/ request' \in {"sent", "lost"}
      BY <2>6 DEF BundleDir, WriteRequest, Wait, childVars
    <3> QED
      BY <1>1, <2>1, <2>2, <2>3, <3>1 DEF Types
  <2> QED
    BY <1>4, <2>5, <2>6 DEF Parting
<1>5. ASSUME NEW s \in {"out", "err"}, Collect(s)
      PROVE  Types'
  <2>1. pipe \in Streamed /\ got \in Streamed
    BY <1>1 DEF Types
  <2>2. pipe[s] \in Seq(ChildStep) /\ got[s] \in Seq(ChildStep)
    BY <2>1 DEF Streamed
  <2>3. got[s] \o pipe[s] \in Seq(ChildStep) /\ <<>> \in Seq(ChildStep)
    BY <2>2
  <2>4. pipe' = [pipe EXCEPT ![s] = <<>>] /\ got' = [got EXCEPT ![s] = got[s] \o pipe[s]]
    BY <1>5 DEF Collect
  <2>5. pipe' \in Streamed /\ got' \in Streamed
    BY <2>1, <2>3, <2>4 DEF Streamed
  <2>6. UNCHANGED <<host, phase, call, why, child, wrote, request, heir, answered>>
    BY <1>5 DEF Collect, childVars
  <2> QED
    BY <1>1, <2>5, <2>6 DEF Types
<1>6. ASSUME NEW s \in {"out", "err"}, ChildWrites(s)
      PROVE  Types'
  <2>1. pipe \in Streamed /\ wrote \in Streamed
    BY <1>1 DEF Types
  <2>2. pipe[s] \in Seq(ChildStep) /\ wrote[s] \in Seq(ChildStep)
    BY <2>1 DEF Streamed
  <2>3. NextStep \in ChildStep
    BY <1>6 DEF ChildWrites, ChildStep
  <2> DEFINE e == NextStep
  <2>4. e \in ChildStep
    BY <2>3
  <2>5. pipe' = [pipe EXCEPT ![s] = Append(pipe[s], e)] /\ wrote' = [wrote EXCEPT ![s] = Append(wrote[s], e)]
    BY <1>6 DEF ChildWrites
  <2> HIDE DEF e
  <2>6. Append(pipe[s], e) \in Seq(ChildStep) /\ Append(wrote[s], e) \in Seq(ChildStep)
    BY <2>2, <2>4
  <2>7. pipe' \in Streamed /\ wrote' \in Streamed
    BY <2>1, <2>5, <2>6 DEF Streamed
  <2>8. UNCHANGED <<host, phase, call, why, child, request, heir, got, answered>>
    BY <1>6 DEF ChildWrites, ParentVars
  <2> QED
    BY <1>1, <2>7, <2>8 DEF Types
<1>7. CASE ChildReads \/ ChildForks \/ ChildExits \/ ChildDies \/ HeirExits
  <2>1. /\ UNCHANGED <<host, phase, call, why, request, pipe, wrote, got, answered>>
        /\ child' \in {child, "succeeded", "failed"} /\ heir' \in {heir, TRUE, FALSE}
    BY <1>7 DEF ChildReads, ChildForks, ChildExits, ChildDies, HeirExits, Goes, ParentVars, childVars
  <2> QED
    BY ZenonT(30), <1>1, <2>1 DEF Types
<1>8. CASE Answer
  <2>1. PICK o \in Output : answered' = Append(answered, <<call, o>>)
    BY <1>8 DEF Answer, Parsed
  <2>2. answered \in Seq(Nat \X Output) /\ <<call, o>> \in Nat \X Output
    BY <1>1, CallIsNumber DEF Types
  <2>3. answered' \in Seq(Nat \X Output)
    BY <2>1, <2>2
  <2>4. phase' = "idle" /\ UNCHANGED <<host, call, why, childVars, request, pipe, heir, got>>
    BY <1>8 DEF Answer
  <2> QED
    BY <1>1, <2>3, <2>4 DEF Types, childVars
<1> QED
  BY <1>2, <1>3, <1>4, <1>5, <1>6, <1>7, <1>8, Steps DEF Leaving, Working

\* A call is counted before it is made, and answers at most once.
LEMMA KeepsCounted ==
  ASSUME IInv, Next
  PROVE  Counted'
<1>1. Counted /\ call \in Nat /\ answered \in Seq(Nat \X Output)
  BY CallIsNumber DEF IInv, Types
<1>2. Len(answered) \in Nat
  BY <1>1
<1>3. CASE Leaving
  <2>1. phase' \in Left /\ UNCHANGED <<call, answered>>
    BY <1>3, LeavingStep DEF Leave
  <2> QED
    BY <1>1, <2>1 DEF Counted, Left
<1>4. CASE BundleDir
  <2>1. call' = call + 1 /\ answered' = answered
    BY <1>4 DEF BundleDir
  <2> QED
    BY <1>1, <1>2, <2>1 DEF Counted
<1>5. CASE Spawn \/ WriteRequest \/ Wait
  <2>1. phase \in {"spawn", "write", "wait"} /\ UNCHANGED <<call, answered>>
    BY <1>5 DEF Spawn, WriteRequest, Wait
  <2> QED
    BY <1>1, <2>1 DEF Counted
<1>6. CASE Working
  BY <1>1, <1>6, WorkingStep DEF Counted
<1>7. CASE Answer
  <2>1. PICK o \in Output : answered' = Append(answered, <<call, o>>)
    BY <1>7 DEF Answer, Parsed
  <2>2. Len(answered') = Len(answered) + 1
    BY <1>1, <2>1
  <2>3. Len(answered) < call /\ call' = call /\ phase' = "idle"
    BY <1>1, <1>7 DEF Answer, Counted
  <2> QED
    BY <1>1, <1>2, <2>2, <2>3 DEF Counted
<1> QED
  BY <1>3, <1>4, <1>5, <1>6, <1>7, Steps DEF Parting

\* A call does not end before its child and whoever else holds the pipes.
LEMMA KeepsChildByPhase ==
  ASSUME IInv, Next
  PROVE  ChildByPhase'
<1>1. ChildByPhase
  BY DEF IInv
<1>2. CASE Leaving
  <2>1. phase' \in Left /\ UNCHANGED <<child, heir>>
    BY <1>2, LeavingStep DEF Leave, childVars
  <2>2. child # "running" /\ ~heir
    BY <1>1, <1>2 DEF ChildByPhase, Leaving, BundleFails, SpawnFails, Fail, BrokenPipe, Finish, Held
  <2> QED
    BY <2>1, <2>2 DEF ChildByPhase, Left
<1>3. CASE Parting
  BY <1>1, <1>3 DEF ChildByPhase, Parting, BundleDir, Spawn, WriteRequest, Wait, Held, childVars
<1>4. CASE Working
  <2>1. phase' = phase
    BY <1>4, WorkingStep
  <2>2. \/ UNCHANGED <<child, heir>>
        \/ child' = child /\ ~heir'
        \/ child = "running" /\ child' # "none"
    <3>1. ASSUME NEW s \in {"out", "err"}, Collect(s) \/ ChildWrites(s)
          PROVE  UNCHANGED <<child, heir>>
      BY <3>1 DEF Collect, ChildWrites, childVars
    <3>2. CASE ChildReads \/ ChildForks \/ ChildExits \/ ChildDies \/ HeirExits
      BY <3>2 DEF ChildReads, ChildForks, ChildExits, ChildDies, HeirExits, Goes, childVars
    <3> QED
      BY <1>4, <3>1, <3>2 DEF Working
  <2> QED
    BY <1>1, <2>1, <2>2 DEF ChildByPhase
<1>5. CASE Answer
  BY <1>1, <1>5 DEF ChildByPhase, Answer, childVars
<1> QED
  BY <1>2, <1>3, <1>4, <1>5, Steps

\* A pipe has something only while it is written to or read from.
LEMMA PipeSteps ==
  ASSUME Next
  PROVE  \/ UNCHANGED <<pipe, got, wrote>>
         \/ pipe' = Streams /\ got' = Streams /\ wrote' = Streams /\ Spawn
         \/ \E s \in {"out", "err"} : Collect(s) \/ ChildWrites(s)
<1>1. CASE Leaving
  BY <1>1, LeavingStep DEF childVars
<1>2. CASE Parting
  BY <1>2 DEF Parting, BundleDir, Spawn, WriteRequest, Wait, childVars
<1>3. CASE ChildReads \/ ChildForks \/ ChildExits \/ ChildDies \/ HeirExits
  BY <1>3 DEF ChildReads, ChildForks, ChildExits, ChildDies, HeirExits, ParentVars, childVars
<1>4. CASE Answer
  BY <1>4 DEF Answer, childVars
<1> QED
  BY <1>1, <1>2, <1>3, <1>4, Steps DEF Working

LEMMA KeepsPipesFit ==
  ASSUME IInv, Next
  PROVE  PipesFit'
<1>1. Types /\ PipesFit
  BY DEF IInv
<1>2. Capacity \in Nat \ {0}
  BY Bounds
<1>3. Len(<<>>) <= Capacity
  BY <1>2
<1>4. CASE pipe' = pipe
  BY <1>1, <1>4 DEF PipesFit
<1>5. CASE pipe' = Streams
  BY <1>3, <1>5 DEF PipesFit, Streams
<1>6. ASSUME NEW s \in {"out", "err"}, Collect(s)
      PROVE  PipesFit'
  <2>1. pipe \in Streamed /\ pipe' = [pipe EXCEPT ![s] = <<>>]
    BY <1>1, <1>6 DEF Types, Collect
  <2> QED
    BY <1>1, <1>3, <2>1 DEF PipesFit, Streamed
<1>7. ASSUME NEW s \in {"out", "err"}, ChildWrites(s)
      PROVE  PipesFit'
  <2>1. pipe \in Streamed /\ Len(pipe[s]) < Capacity
    BY <1>1, <1>7 DEF Types, ChildWrites
  <2> DEFINE l == Append(pipe[s], NextStep)
             n == Len(pipe[s])
  <2>2. pipe' = [pipe EXCEPT ![s] = l]
    BY <1>7 DEF ChildWrites
  <2>3. pipe[s] \in Seq(ChildStep)
    BY <2>1 DEF Streamed
  <2>4. Len(l) = n + 1 /\ n \in Nat
    BY <2>3
  <2>5. n < Capacity
    BY <2>1
  <2> HIDE DEF l, n
  <2>6. Len(l) <= Capacity
    BY <1>2, <2>4, <2>5
  <2> QED
    BY <1>1, <2>1, <2>2, <2>6 DEF PipesFit, Streamed
<1> QED
  BY <1>4, <1>5, <1>6, <1>7, PipeSteps

\* What was written is what was read and what is in the pipe, of each stream.
LEMMA KeepsNothingLost ==
  ASSUME IInv, Next
  PROVE  NothingLost'
<1>1. Types /\ NothingLost /\ ChildByPhase
  BY DEF IInv
<1>2. pipe \in Streamed /\ got \in Streamed /\ wrote \in Streamed
  BY <1>1 DEF Types
<1>3. CASE Spawn
  <2>1. pipe' = Streams /\ got' = Streams /\ wrote' = Streams /\ phase' = "write"
    BY <1>3 DEF Spawn
  <2>2. <<>> = <<>> \o <<>>
    OBVIOUS
  <2> QED
    BY <2>1, <2>2 DEF NothingLost, Streams
<1>4. CASE UNCHANGED <<pipe, got, wrote>> /\ ~Spawn
  <2>1. phase' \in {"write", "wait", "check"} => phase \in {"write", "wait", "check"}
    BY <1>4, Steps, LeavingStep, WorkingStep
       DEF Leave, Left, Parting, BundleDir, WriteRequest, Wait, Answer
  <2>2. phase' = "check" => phase = "check" \/ pipe = Streams
    BY <1>4, Steps, LeavingStep, WorkingStep
       DEF Leave, Left, Parting, BundleDir, WriteRequest, Wait, Answer
  <2> QED
    BY <1>1, <1>4, <2>1, <2>2 DEF NothingLost
<1>5. ASSUME NEW s \in {"out", "err"}, Collect(s)
      PROVE  NothingLost'
  <2>1. /\ phase = "wait" /\ phase' = "wait" /\ wrote' = wrote
        /\ pipe' = [pipe EXCEPT ![s] = <<>>] /\ got' = [got EXCEPT ![s] = got[s] \o pipe[s]]
    BY <1>5 DEF Collect, childVars
  <2>2. wrote.out = got.out \o pipe.out /\ wrote.err = got.err \o pipe.err
    BY <1>1, <2>1 DEF NothingLost
  <2>3. /\ pipe.out \in Seq(ChildStep) /\ pipe.err \in Seq(ChildStep)
        /\ got.out \in Seq(ChildStep) /\ got.err \in Seq(ChildStep)
    BY <1>2 DEF Streamed
  <2>4. /\ (got.out \o pipe.out) \o <<>> = got.out \o pipe.out
        /\ (got.err \o pipe.err) \o <<>> = got.err \o pipe.err
    BY <2>3
  <2>5. CASE s = "out"
    <3>1. pipe'.out = <<>> /\ got'.out = got.out \o pipe.out
      BY <1>2, <2>1, <2>5 DEF Streamed
    <3>2. pipe'.err = pipe.err /\ got'.err = got.err
      BY <1>2, <2>1, <2>5 DEF Streamed
    <3> QED
      BY <2>1, <2>2, <2>4, <3>1, <3>2 DEF NothingLost
  <2>6. CASE s = "err"
    <3>1. pipe'.err = <<>> /\ got'.err = got.err \o pipe.err
      BY <1>2, <2>1, <2>6 DEF Streamed
    <3>2. pipe'.out = pipe.out /\ got'.out = got.out
      BY <1>2, <2>1, <2>6 DEF Streamed
    <3> QED
      BY <2>1, <2>2, <2>4, <3>1, <3>2 DEF NothingLost
  <2> QED
    BY <2>5, <2>6
<1>6. ASSUME NEW s \in {"out", "err"}, ChildWrites(s)
      PROVE  NothingLost'
  <2> DEFINE e == NextStep
  <2>1. /\ child = "running" /\ phase' = phase /\ got' = got
        /\ pipe' = [pipe EXCEPT ![s] = Append(pipe[s], e)]
        /\ wrote' = [wrote EXCEPT ![s] = Append(wrote[s], e)]
    BY <1>6 DEF ChildWrites, Goes, ParentVars
  <2>2. e \in ChildStep
    BY <1>6 DEF ChildWrites, ChildStep
  <2> HIDE DEF e
  <2>3. phase \in {"write", "wait"}
    BY <1>1, <2>1 DEF ChildByPhase
  <2>4. wrote.out = got.out \o pipe.out /\ wrote.err = got.err \o pipe.err
    BY <1>1, <2>3 DEF NothingLost
  <2>5. /\ pipe.out \in Seq(ChildStep) /\ pipe.err \in Seq(ChildStep)
        /\ got.out \in Seq(ChildStep) /\ got.err \in Seq(ChildStep)
    BY <1>2 DEF Streamed
  <2>6. /\ Append(got.out \o pipe.out, e) = got.out \o Append(pipe.out, e)
        /\ Append(got.err \o pipe.err, e) = got.err \o Append(pipe.err, e)
    <3>1. ASSUME NEW a \in Seq(ChildStep), NEW b \in Seq(ChildStep)
          PROVE  Append(a \o b, e) = a \o Append(b, e)
      BY <2>2
    <3> QED
      BY <2>5, <3>1
  <2>7. CASE s = "out"
    <3>1. pipe'.out = Append(pipe.out, e) /\ wrote'.out = Append(wrote.out, e)
      BY <1>2, <2>1, <2>7 DEF Streamed
    <3>2. pipe'.err = pipe.err /\ wrote'.err = wrote.err
      BY <1>2, <2>1, <2>7 DEF Streamed
    <3> QED
      BY <2>1, <2>3, <2>4, <2>6, <3>1, <3>2 DEF NothingLost
  <2>8. CASE s = "err"
    <3>1. pipe'.err = Append(pipe.err, e) /\ wrote'.err = Append(wrote.err, e)
      BY <1>2, <2>1, <2>8 DEF Streamed
    <3>2. pipe'.out = pipe.out /\ wrote'.out = wrote.out
      BY <1>2, <2>1, <2>8 DEF Streamed
    <3> QED
      BY <2>1, <2>3, <2>4, <2>6, <3>1, <3>2 DEF NothingLost
  <2> QED
    BY <2>7, <2>8
<1> QED
  BY <1>3, <1>4, <1>5, <1>6, PipeSteps

\* A response is UTF-8, and what is not is no response.
LEMMA ResponseIsUtf8 ==
  ASSUME NEW text, NotUtf8(text)
  PROVE  Parsed(text) = {}
<1> SUFFICES ASSUME NEW o \in Output, text = Wire(o) PROVE FALSE
  BY DEF Parsed
<1>1. PICK i \in DOMAIN text : text[i] = "ff"
  BY DEF NotUtf8, Range
<1>2. Len(text) = 3 /\ text[1] = "{" /\ text[2] = o /\ text[3] = "}"
  BY DEF Wire
<1>3. text \in Seq(Piece)
  <2> DEFINE a == "{"
             b == "}"
  <2>1. a \in Piece /\ o \in Piece /\ b \in Piece /\ text = <<a, o, b>>
    BY DEF Piece, Wire
  <2> HIDE DEF a, b
  <2> QED
    BY <2>1
<1>4. i = 1 \/ i = 2 \/ i = 3
  <2>1. Len(text) = 3
    BY <1>2
  <2>2. i \in 1..3
    BY <1>1, <1>3, <2>1
  <2> QED
    BY <2>2
<1>5. o # "ff"
  BY DEF Output
<1>6. text[1] # "ff" /\ text[2] # "ff" /\ text[3] # "ff"
  BY <1>2, <1>5
<1> QED
  BY <1>1, <1>4, <1>6

\* When the output is checked, all that the child wrote is read.
LEMMA AllIsRead ==
  ASSUME IInv, phase = "check"
  PROVE  got.out = wrote.out /\ got.err = wrote.err
<1>1. pipe.out = <<>> /\ pipe.err = <<>>
  BY DEF IInv, NothingLost, Streams
<1>2. wrote.out = got.out \o <<>> /\ wrote.err = got.err \o <<>>
  BY <1>1 DEF IInv, NothingLost
<1>3. got.out \in Seq(ChildStep) /\ got.err \in Seq(ChildStep)
  BY DEF IInv, Types, Streamed
<1> QED
  BY <1>2, <1>3

\* A message is from what the child did, and stays true when it is out.
LEMMA KeepsBlame ==
  ASSUME IInv, Next
  PROVE  Blame'
<1>1. Types /\ Blame /\ ChildByPhase /\ NothingLost
  BY DEF IInv
<1>2. CASE BundleFails \/ SpawnFails
  <2>1. why' \in {"bundle", "start"} /\ phase' = "panicked"
    BY <1>2 DEF BundleFails, SpawnFails, PanicWith, Leave
  <2> QED
    BY <2>1 DEF Blame
<1>3. CASE Fail
  <2>1. phase' = "panicked" /\ UNCHANGED <<child, got, wrote>>
    BY <1>3 DEF Fail, PanicWith, Leave, childVars
  <2>2. got.out = wrote.out /\ got.err = wrote.err
    BY <1>3, AllIsRead DEF Fail
  <2>3. \/ why' = "exited" /\ child = "failed"
        \/ why' \in {"non-UTF-8", "invalid"} /\ child = "succeeded" /\ Parsed(got.out) = {}
    <3>1. CASE child = "failed" /\ PanicWith("exited")
      BY <3>1 DEF PanicWith
    <3>2. CASE child = "succeeded" /\ NotUtf8(got.out) /\ PanicWith("non-UTF-8")
      BY <3>2, ResponseIsUtf8 DEF PanicWith
    <3>3. CASE child = "succeeded" /\ Parsed(got.out) = {} /\ PanicWith("invalid")
      BY <3>3 DEF PanicWith
    <3> QED
      BY <1>3, <3>1, <3>2, <3>3 DEF Fail
  <2> QED
    BY <2>1, <2>2, <2>3 DEF Blame
<1>4. CASE phase \notin Left /\ why' = why
  BY <1>1, <1>4 DEF Blame, Left
<1>5. CASE BrokenPipe \/ Finish \/ Answer
  <2>1. phase \notin Left /\ why' = why
    BY <1>5 DEF BrokenPipe, Finish, Answer, Left
  <2> QED
    BY <1>4, <2>1
<1>6. CASE Parting
  BY <1>4, <1>6, PartingStep
<1>7. CASE Working
  <2>1. phase = "panicked" => FALSE
    <3>1. ASSUME NEW s \in {"out", "err"}, Collect(s) \/ ChildWrites(s)
          PROVE  phase # "panicked"
      BY <1>1, <3>1 DEF Collect, ChildWrites, Goes, ChildByPhase
    <3>2. CASE ChildReads \/ ChildForks \/ ChildExits \/ ChildDies \/ HeirExits
      BY <1>1, <3>2 DEF ChildReads, ChildForks, ChildExits, ChildDies, HeirExits, Goes, ChildByPhase
    <3> QED
      BY <1>7, <3>1, <3>2 DEF Working
  <2> QED
    BY <1>1, <1>7, <2>1, WorkingStep DEF Blame
<1> QED
  BY <1>2, <1>3, <1>5, <1>6, <1>7, Steps DEF Leaving

-----------------------------------------------------------------------------
(* The invariant, and what it says.                                        *)

LEMMA InitIInv ==
  ASSUME Init
  PROVE  IInv
<1>1. WholeLines(<<>>) = 0
  BY DEF WholeLines
<1>2. /\ answered = <<>> /\ stdout = <<>> /\ buffer = <<>> /\ phase = "idle" /\ why = ""
      /\ host \in Host /\ call = 0 /\ child = "none" /\ request = "unwritten" /\ heir = FALSE
      /\ pipe = Streams /\ got = Streams /\ wrote = Streams
  BY DEF Init
<1>3. Types
  <2>1. <<>> \in Seq(ChildStep) /\ <<>> \in Seq(Item) /\ <<>> \in Seq(Nat \X Output)
    OBVIOUS
  <2>2. Streams \in Streamed
    BY <2>1 DEF Streams, Streamed
  <2>3. 0 \in 0..MaxCalls
    BY Bounds
  <2> QED
    BY <1>2, <2>1, <2>2, <2>3 DEF Types
<1>4. PipesFit
  <2>1. Len(<<>>) <= Capacity
    BY Bounds
  <2> QED
    BY <1>2, <2>1 DEF PipesFit, Streams
<1>5. Counted
  <2>1. answered = <<>> /\ call = 0 /\ phase = "idle"
    BY <1>2
  <2>2. Len(<<>>) <= 0
    OBVIOUS
  <2> QED
    BY <2>1, <2>2 DEF Counted
<1>6. ChildByPhase /\ NothingLost /\ Blame
  BY <1>2 DEF ChildByPhase, NothingLost, Blame
<1>7. LineBuffered
  <2>1. Len(<<>>) = 0
    OBVIOUS
  <2> QED
    BY <1>1, <1>2, <2>1 DEF LineBuffered, Left
<1>8. OutputIsInOrder
  <2>1. Said = <<>>
    <3>1. Texts(answered) = <<>>
      <4>1. answered \in Seq(Nat \X Output) /\ Len(answered) = 0
        <5>1. <<>> \in Seq(Nat \X Output) /\ Len(<<>>) = 0
          OBVIOUS
        <5>2. answered = <<>>
          BY <1>2
        <5> QED
          BY <5>1, <5>2
      <4>2. Texts(answered) \in Seq(Seq(Item)) /\ Len(Texts(answered)) = 0
        BY <4>1, TextsType
      <4> QED
        BY <4>2, EmptySeq
    <3>2. Said = FlattenSeq(<<>>)
      BY <3>1 DEF Said, Texts
    <3>3. Len(<<>>) = 0
      OBVIOUS
    <3> QED
      BY <3>2, <3>3, Zenon DEF FlattenSeq
  <2>2. <<>> \o <<>> = <<>>
    OBVIOUS
  <2> QED
    BY <1>2, <2>1, <2>2 DEF OutputIsInOrder, Left
<1> QED
  BY <1>3, <1>4, <1>5, <1>6, <1>7, <1>8 DEF IInv

LEMMA StepIInv ==
  ASSUME IInv, [Next]_vars
  PROVE  IInv'
<1>1. CASE Next
  BY <1>1, KeepsTypes, KeepsPipesFit, KeepsCounted, KeepsChildByPhase, KeepsNothingLost,
     KeepsBlame, KeepsOutput DEF IInv
<1>2. CASE UNCHANGED vars
  <2>1. /\ UNCHANGED <<host, phase, call, why, child, request, pipe, heir, got, wrote>>
        /\ UNCHANGED <<buffer, stdout, answered>>
    BY <1>2 DEF vars, childVars, stdioVars
  <2>2. Types' /\ PipesFit' /\ Counted' /\ ChildByPhase'
    BY ZenonT(30), <2>1 DEF IInv, Types, PipesFit, Counted, ChildByPhase
  <2>3. NothingLost' /\ Blame'
    BY <2>1 DEF IInv, NothingLost, Blame
  <2>4. LineBuffered'
    BY <2>1 DEF IInv, LineBuffered
  <2>5. OutputIsInOrder'
    <3>1. Said' = Said
      BY <2>1 DEF Said
    <3> QED
      BY <2>1, <3>1 DEF IInv, OutputIsInOrder
  <2> QED
    BY <2>2, <2>3, <2>4, <2>5 DEF IInv
<1> QED
  BY <1>1, <1>2

\* IInv is an invariant: Init makes it true and every step of ipc_runtime.rs, of the
\* child and of who holds its pipes keeps it.
THEOREM Invariance == Spec => []IInv
BY InitIInv, StepIInv, PTL DEF Spec

\* Every variable keeps its type, no pipe holds more than it can, no call answers
\* twice, and what waits for its newline in the stdout of Rust has none.
THEOREM TypeCorrect == Spec => []TypeOK
<1>1. IInv => TypeOK
  <2> SUFFICES ASSUME IInv PROVE TypeOK
    OBVIOUS
  <2>1. \A s \in {"out", "err"} : Len(pipe[s]) <= Capacity
    BY DEF IInv, PipesFit
  <2>2. Len(answered) <= call /\ WholeLines(buffer) = 0
    BY DEF IInv, Counted, LineBuffered
  <2> QED
    BY <2>1, <2>2 DEF IInv, TypeOK, Types
<1> QED
  BY <1>1, Invariance, PTL

\* Whatever the children do and however the program ends, what comes out on its
\* stdout is what the answered calls said, in their order, each once: the print! in
\* `call` and the flush at exit lose at most an unfinished last line.
THEOREM OutputInOrder == Spec => []OutputIsInOrder
<1>1. IInv => OutputIsInOrder
  BY DEF IInv
<1> QED
  BY <1>1, Invariance, PTL

\* The checks of `call` after wait_with_output blame a child only for what it did,
\* with all that it wrote to stderr, for any scripts of the children.
THEOREM FailuresExplained == Spec => []FailuresSayWhy
<1>1. IInv => FailuresSayWhy
  BY DEF IInv, Blame, FailuresSayWhy
<1> QED
  BY <1>1, Invariance, PTL

-----------------------------------------------------------------------------
(* IpcCall implements CallPromise.                                         *)

\* The verdict on the call under way, by what its child did.
Judged ==
  IF child = "running" THEN "open"
  ELSE IF child = "succeeded" /\ Parsed(wrote.out) # {} THEN CHOOSE o \in Parsed(wrote.out) : TRUE
  ELSE "bad"

\* Where the phases of IpcCall are in CallPromise.
StatusMap ==
  /\ phase = "idle" => statusBar = "between"
  /\ phase \in Left => statusBar = "over"
  /\ phase \in {"spawn", "write", "wait", "check"} => statusBar = "asked"

LEMMA StatusIs == StatusMap
<1>1. CASE phase = "idle"
  BY <1>1 DEF StatusMap, statusBar, Left
<1>2. CASE phase \in Left
  BY <1>2 DEF StatusMap, statusBar, Left
<1>3. CASE phase \notin Left /\ phase # "idle"
  BY <1>3 DEF StatusMap, statusBar, Left
<1> QED
  BY <1>1, <1>2, <1>3 DEF Left

LEMMA StatusIsNext == StatusMap'
BY StatusIs, PTL

\* Where their verdicts are.
VerdictMap ==
  IF phase \in {"idle", "spawn", "ended"} \/ why \in {"bundle", "start"}
  THEN verdictBar = "open"
  ELSE verdictBar = Judged

LEMMA VerdictIs == VerdictMap
<1>1. CASE child = "running"
  BY <1>1 DEF VerdictMap, verdictBar, Judged
<1>2. CASE child = "succeeded" /\ Parsed(wrote.out) # {}
  BY <1>2 DEF VerdictMap, verdictBar, Judged
<1>3. CASE child # "running" /\ ~(child = "succeeded" /\ Parsed(wrote.out) # {})
  BY <1>3 DEF VerdictMap, verdictBar, Judged
<1> QED
  BY <1>1, <1>2, <1>3

LEMMA VerdictIsNext == VerdictMap'
BY VerdictIs, PTL

LEMMA InitPromise ==
  ASSUME Init
  PROVE  Promise!Init
<1>1. phase = "idle" /\ call = 0 /\ stdout = <<>> /\ buffer = <<>> /\ host \in Host
  BY DEF Init
<1>2. statusBar = "between" /\ verdictBar = "open"
  BY <1>1, StatusIs, VerdictIs DEF StatusMap, VerdictMap
<1>3. <<>> \o <<>> = <<>>
  OBVIOUS
<1> QED
  BY <1>1, <1>2, <1>3 DEF Promise!Init, Host

\* A response says what it says: no text is one with two outputs.
JudgedMap ==
  /\ child = "running" => Judged = "open"
  /\ child \in {"succeeded", "failed"} => Judged \in Output \cup {"bad"}
  /\ child = "failed" => Judged = "bad"
  /\ child = "succeeded" /\ Parsed(wrote.out) = {} => Judged = "bad"
  /\ \A o \in Output : child = "succeeded" /\ o \in Parsed(wrote.out) => Judged = o

LEMMA JudgedIs == JudgedMap
<1>1. ASSUME NEW o \in Parsed(wrote.out)
      PROVE  o \in Output /\ Parsed(wrote.out) = {o}
  <2>1. o \in Output /\ wrote.out = Wire(o)
    BY <1>1 DEF Parsed
  <2>2. ASSUME NEW p \in Output, Wire(o) = Wire(p) PROVE p = o
    <3>1. Wire(o)[2] = o /\ Wire(p)[2] = p
      BY DEF Wire
    <3> QED
      BY <2>2, <3>1
  <2> QED
    BY <2>1, <2>2 DEF Parsed
<1>2. child = "succeeded" => (IF Parsed(wrote.out) # {} THEN Judged \in Output ELSE Judged = "bad")
  BY <1>1 DEF Judged
<1>3. \A o \in Output : child = "succeeded" /\ o \in Parsed(wrote.out) => Judged = o
  BY <1>1 DEF Judged
<1>4. child \notin {"running", "succeeded"} => Judged = "bad"
  BY DEF Judged
<1>5. child = "running" => Judged = "open"
  BY DEF Judged
<1> QED
  BY <1>2, <1>3, <1>4, <1>5 DEF JudgedMap

LEMMA JudgedIsNext == JudgedMap'
BY JudgedIs, PTL

\* A step of which nothing can be seen from outside.
LEMMA Unseen ==
  ASSUME UNCHANGED <<host, call, stdioVars>>, statusBar' = statusBar, verdictBar' = verdictBar
  PROVE  UNCHANGED Promise!vars
BY DEF Promise!vars, stdioVars

\* The program ends as the promise says: what was said, or its whole lines.
LEMMA OverStep ==
  ASSUME IInv, phase \notin Left, NEW how \in Left, Leave(how), UNCHANGED host
  PROVE  Promise!Over
<1>1. /\ buffer \in Seq(Item) /\ stdout \in Seq(Item)
      /\ WholeLines(stdout) = Len(stdout) /\ WholeLines(buffer) = 0
  BY DEF IInv, Types, LineBuffered
<1>2. SubSeq(stdout \o buffer, 1, WholeLines(stdout \o buffer)) = stdout
  BY <1>1, WholeBeforeRest
<1>3. phase' \in Left /\ buffer' = <<>>
  BY DEF Leave
<1>4. stdout' = IF host = "interpreter" THEN stdout \o buffer ELSE stdout
  BY DEF Leave
<1>5. statusBar' = "over"
  BY <1>3, StatusIsNext DEF StatusMap
<1>6. stdout' \o buffer' = stdout'
  <2>1. \A t \in Seq(Item) : t \o <<>> = t
    OBVIOUS
  <2>2. stdout' \in Seq(Item)
    BY <1>1, <1>4, PutTogether
  <2> QED
    BY <1>3, <2>1, <2>2
<1> QED
  BY <1>2, <1>4, <1>5, <1>6 DEF Promise!Over

\* BundleDir asks.
LEMMA BundleDirAsks ==
  ASSUME IInv, BundleDir
  PROVE  Promise!Ask
<1>1. /\ phase = "idle" /\ phase' = "spawn" /\ call < MaxCalls /\ call' = call + 1
      /\ UNCHANGED <<host, stdioVars>>
  BY DEF BundleDir
<1>2. statusBar = "between" /\ statusBar' = "asked"
  BY <1>1, StatusIs, StatusIsNext DEF StatusMap
<1>3. verdictBar = "open" /\ verdictBar' = "open"
  BY <1>1, VerdictIs, VerdictIsNext DEF VerdictMap
<1> QED
  BY <1>1, <1>2, <1>3 DEF Promise!Ask, stdioVars

\* A program that ends between two calls was given no verdict, nor one whose call
\* got no child.
LEMMA EndsOrGivesUp ==
  ASSUME IInv, BundleFails \/ SpawnFails \/ Finish
  PROVE  Promise!GiveUp \/ Promise!End
<1>1. phase \notin Left /\ (\E how \in Left : Leave(how)) /\ UNCHANGED <<host, call>>
  BY LeavingStep DEF Leaving
<1>2. Promise!Over
  BY <1>1, OverStep
<1>3. CASE BundleFails \/ SpawnFails
  <2>1. phase = "spawn" /\ why' \in {"bundle", "start"}
    BY <1>3 DEF BundleFails, SpawnFails, PanicWith
  <2>2. statusBar = "asked" /\ verdictBar = "open" /\ verdictBar' = "open"
    BY <2>1, StatusIs, VerdictIs, VerdictIsNext DEF StatusMap, VerdictMap
  <2>3. "open" \notin Output
    BY DEF Output
  <2> QED
    BY <1>1, <1>2, <2>2, <2>3 DEF Promise!GiveUp
<1>4. CASE Finish
  <2>1. phase = "idle" /\ phase' = "ended"
    BY <1>4 DEF Finish, Leave
  <2>2. statusBar = "between" /\ verdictBar = "open" /\ verdictBar' = "open"
    BY <2>1, StatusIs, VerdictIs, VerdictIsNext DEF StatusMap, VerdictMap
  <2> QED
    BY <1>1, <1>2, <2>2 DEF Promise!End
<1> QED
  BY <1>3, <1>4

\* While a call is under way nothing has been said against it, and its verdict is
\* what its child did.
LEMMA Undecided ==
  ASSUME IInv, phase \in {"write", "wait", "check"}
  PROVE  why = "" /\ statusBar = "asked" /\ verdictBar = Judged
<1>1. why = ""
  BY DEF IInv, Blame
<1> QED
  BY <1>1, StatusIs, VerdictIs DEF StatusMap, VerdictMap

\* SIGPIPE comes when the child has ended, in a compiled program.
LEMMA BrokenPipeKills ==
  ASSUME IInv, BrokenPipe
  PROVE  Promise!Killed
<1>1. /\ phase = "write" /\ child # "running" /\ host = "compiled" /\ Leave("killed")
      /\ UNCHANGED <<host, call, why, child, wrote>>
  BY DEF BrokenPipe, Held, childVars
<1>2. Promise!Over
  BY <1>1, OverStep DEF Left
<1>3. child \in {"succeeded", "failed"}
  BY <1>1 DEF IInv, Types, ChildByPhase
<1>4. why = "" /\ statusBar = "asked" /\ verdictBar = Judged
  BY <1>1, Undecided
<1>5. Judged # "open"
  BY <1>3, JudgedIs DEF JudgedMap, Output
<1>6. verdictBar' = Judged' /\ Judged' = Judged
  <2>1. phase' = "killed" /\ why' = ""
    BY <1>1, <1>4 DEF Leave
  <2>2. verdictBar' = Judged'
    BY <2>1, VerdictIsNext DEF VerdictMap
  <2> QED
    BY <1>1, <2>2 DEF Judged
<1> QED
  BY <1>1, <1>2, <1>4, <1>5, <1>6 DEF Promise!Killed

\* No call fails after a response.
LEMMA FailGivesUp ==
  ASSUME IInv, Fail
  PROVE  Promise!GiveUp
<1>1. /\ phase = "check" /\ Leave("panicked") /\ why' \in {"exited", "non-UTF-8", "invalid"}
      /\ UNCHANGED <<host, call, child, wrote>>
  BY DEF Fail, PanicWith, childVars
<1>2. Promise!Over
  BY <1>1, OverStep DEF Left
<1>3. statusBar = "asked" /\ verdictBar = Judged
  BY <1>1, Undecided
<1>4. child = "failed" \/ (child = "succeeded" /\ Parsed(wrote.out) = {})
  BY <1>1, AllIsRead, ResponseIsUtf8 DEF Fail
<1>5. Judged = "bad" /\ Judged' = Judged
  BY <1>1, <1>4, JudgedIs DEF JudgedMap, Judged
<1>6. verdictBar' = Judged'
  <2>1. phase' = "panicked"
    BY <1>1 DEF Leave
  <2> QED
    BY <1>1, <2>1, VerdictIsNext DEF VerdictMap
<1>7. "bad" \notin Output
  BY DEF Output
<1> QED
  BY <1>1, <1>2, <1>3, <1>5, <1>6, <1>7 DEF Promise!GiveUp

\* A call returns with the response of its child, and has relayed it.
LEMMA AnswerReplies ==
  ASSUME IInv, Answer
  PROVE  Promise!Reply
<1>1. PICK o \in Parsed(got.out) : Relay(Text(call, o))
  BY DEF Answer
<1>2. /\ phase = "check" /\ phase' = "idle" /\ child = "succeeded"
      /\ UNCHANGED <<host, call>>
  BY DEF Answer
<1>3. o \in Output /\ o \in Parsed(wrote.out)
  BY <1>1, <1>2, AllIsRead DEF Parsed
<1>4. statusBar = "asked" /\ verdictBar = o
  BY <1>2, <1>3, Undecided, JudgedIs DEF JudgedMap
<1>5. statusBar' = "between" /\ verdictBar' = "open"
  BY <1>2, StatusIsNext, VerdictIsNext DEF StatusMap, VerdictMap
<1>6. stdout' \o buffer' = (stdout \o buffer) \o Text(call, o)
  <2>1. Types /\ WholeLines(stdout) = Len(stdout)
    BY <1>2 DEF IInv, LineBuffered, Left
  <2>2. Text(call, o) \in Seq(Item)
    BY <1>3, <2>1, CallIsNumber, TextType
  <2> QED
    BY <1>1, <2>1, <2>2, RelayKeeps
<1> QED
  BY <1>2, <1>3, <1>4, <1>5, <1>6 DEF Promise!Reply

\* The verdict on a call falls when its child ends.
LEMMA ChildEndsJudges ==
  ASSUME IInv, ChildExits \/ ChildDies
  PROVE  Promise!Judge
<1>1. /\ child = "running" /\ child' \in {"succeeded", "failed"}
      /\ UNCHANGED <<host, phase, call, why, stdioVars>>
  BY DEF ChildExits, ChildDies, Goes, ParentVars
<1>2. phase \in {"write", "wait", "check"}
  BY <1>1 DEF IInv, ChildByPhase
<1>3. why = "" /\ statusBar = "asked" /\ verdictBar = "open"
  BY <1>1, <1>2, Undecided, JudgedIs DEF JudgedMap
<1>4. statusBar' = "asked" /\ verdictBar' = Judged'
  BY <1>1, <1>2, <1>3, StatusIsNext, VerdictIsNext DEF StatusMap, VerdictMap
<1>5. Judged' \in Output \cup {"bad"}
  BY <1>1, JudgedIsNext DEF JudgedMap
<1> QED
  BY <1>1, <1>3, <1>4, <1>5 DEF Promise!Judge, stdioVars

\* The pipes cannot be seen: of a call under way, only whether the child still runs,
\* and if not, what it did.
LEMMA PipesUnseen ==
  ASSUME IInv, Spawn \/ WriteRequest \/ Wait
               \/ (\E s \in {"out", "err"} : Collect(s) \/ ChildWrites(s))
               \/ ChildReads \/ ChildForks \/ HeirExits
  PROVE  UNCHANGED Promise!vars
<1>1. CASE Spawn
  <2>1. /\ phase = "spawn" /\ phase' = "write" /\ child' = "running"
        /\ UNCHANGED <<host, call, why, stdioVars>>
    BY <1>1 DEF Spawn
  <2>2. why = ""
    BY <2>1 DEF IInv, Blame
  <2>3. statusBar = "asked" /\ statusBar' = "asked"
    BY <2>1, StatusIs, StatusIsNext DEF StatusMap
  <2>4. verdictBar = "open" /\ verdictBar' = "open"
    BY <2>1, <2>2, VerdictIs, VerdictIsNext, JudgedIsNext DEF VerdictMap, JudgedMap
  <2> QED
    BY <2>1, <2>3, <2>4, Unseen
<1>2. CASE WriteRequest \/ Wait
  <2>1. /\ phase \in {"write", "wait"} /\ phase' \in {"wait", "check"}
        /\ UNCHANGED <<host, call, why, child, wrote, stdioVars>>
    BY <1>2 DEF WriteRequest, Wait, childVars
  <2>2. why = "" /\ statusBar = "asked" /\ verdictBar = Judged
    BY <2>1, Undecided
  <2>3. statusBar' = "asked" /\ verdictBar' = Judged'
    BY <2>1, <2>2, StatusIsNext, VerdictIsNext DEF StatusMap, VerdictMap
  <2>4. Judged' = Judged
    BY <2>1 DEF Judged
  <2> QED
    BY <2>1, <2>2, <2>3, <2>4, Unseen
<1>3. ASSUME UNCHANGED <<host, phase, call, why, child, stdioVars>>,
             wrote' = wrote \/ child = "running"
      PROVE  UNCHANGED Promise!vars
  <2>1. statusBar' = statusBar
    BY <1>3 DEF statusBar
  <2>2. Judged' = Judged
    <3>1. CASE wrote' = wrote
      BY <1>3, <3>1 DEF Judged
    <3>2. CASE child = "running"
      BY <1>3, <3>2 DEF Judged
    <3> QED
      BY <1>3, <3>1, <3>2
  <2>3. verdictBar' = verdictBar
    BY <1>3, <2>2, VerdictIs, VerdictIsNext DEF VerdictMap
  <2> QED
    BY <1>3, <2>1, <2>3, Unseen
<1>4. ASSUME NEW s \in {"out", "err"}, Collect(s) \/ ChildWrites(s)
      PROVE  UNCHANGED Promise!vars
  <2>1. /\ UNCHANGED <<host, phase, call, why, child, stdioVars>>
        /\ wrote' = wrote \/ child = "running"
    BY <1>4 DEF Collect, ChildWrites, Goes, ParentVars, childVars
  <2> QED
    BY <1>3, <2>1
<1>5. CASE ChildReads \/ ChildForks \/ HeirExits
  <2>1. UNCHANGED <<host, phase, call, why, child, stdioVars, wrote>>
    BY <1>5 DEF ChildReads, ChildForks, HeirExits, ParentVars, childVars
  <2> QED
    BY <1>3, <2>1
<1> QED
  BY <1>1, <1>2, <1>4, <1>5

LEMMA PromiseStep ==
  ASSUME IInv, [Next]_vars
  PROVE  [Promise!Next]_(Promise!vars)
<1>1. CASE UNCHANGED vars
  <2>1. UNCHANGED <<host, phase, call, why, child, wrote, stdioVars>>
    BY <1>1 DEF vars, childVars
  <2>2. statusBar' = statusBar /\ Judged' = Judged
    BY <2>1 DEF statusBar, Judged
  <2>3. verdictBar' = verdictBar
    BY <2>1, <2>2, VerdictIs, VerdictIsNext DEF VerdictMap
  <2> QED
    BY <2>1, <2>2, <2>3, Unseen
<1>2. CASE BundleDir
  BY <1>2, BundleDirAsks DEF Promise!Next
<1>3. CASE BundleFails \/ SpawnFails \/ Finish
  BY <1>3, EndsOrGivesUp DEF Promise!Next
<1>4. CASE BrokenPipe
  BY <1>4, BrokenPipeKills DEF Promise!Next
<1>5. CASE Fail
  BY <1>5, FailGivesUp DEF Promise!Next
<1>6. CASE Answer
  BY <1>6, AnswerReplies DEF Promise!Next
<1>7. CASE ChildExits \/ ChildDies
  BY <1>7, ChildEndsJudges DEF Promise!Next
<1>8. CASE Spawn \/ WriteRequest \/ Wait
           \/ (\E s \in {"out", "err"} : Collect(s) \/ ChildWrites(s))
           \/ ChildReads \/ ChildForks \/ HeirExits
  BY <1>8, PipesUnseen
<1>9. Next => \/ BundleDir \/ BundleFails \/ SpawnFails \/ Finish \/ BrokenPipe \/ Fail \/ Answer
              \/ ChildExits \/ ChildDies \/ Spawn \/ WriteRequest \/ Wait
              \/ (\E s \in {"out", "err"} : Collect(s) \/ ChildWrites(s))
              \/ ChildReads \/ ChildForks \/ HeirExits
  BY DEF Next, Parent, Child
<1> QED
  BY <1>1, <1>2, <1>3, <1>4, <1>5, <1>6, <1>7, <1>8, <1>9

\* Seen from outside, a call of `call`, with its three pipes and the processes at
\* their ends, is one question and one reply: it never replies without the response
\* of the child it asked, never fails after one, and says nothing else.
THEOREM ImplementsPromise == Spec => ImplementsCalls
<1>1. Init => Promise!Init
  BY InitPromise
<1>2. IInv /\ [Next]_vars => [Promise!Next]_(Promise!vars)
  BY PromiseStep
<1> QED
  BY <1>1, <1>2, Invariance, PTL DEF Spec, ImplementsCalls, Promise!Spec
=============================================================================
