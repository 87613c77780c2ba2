----------------------------- MODULE CallPromise -----------------------------
(***************************************************************************)
(* What a program that calls IPC built-ins may rely on, and nothing of     *)
(* pipes: it asks one external program at a time, each comes to one        *)
(* verdict, a response or none, and a call that returns has relayed that   *)
(* response and no other.                                                  *)
(***************************************************************************)
EXTENDS Naturals, Sequences

CONSTANTS MaxCalls,       \* calls that a program makes
          Output,         \* the outputs a response can carry
          Text(_, _),     \* call, output -> what it puts on stdout
          WholeLines(_)   \* the length of the whole lines at the start of a text

VARIABLES host,      \* the "interpreter", or a "compiled" program
          status,    \* "between" calls, "asked", or "over"
          asked,     \* the number of the last call
          verdict,   \* what came of the external program: "open" yet, a response
                     \* with an output, or "bad"
          heard      \* what the calls have said

vars == <<host, status, asked, verdict, heard>>

\* A compiled program does not flush an unfinished last line.
Over ==
  /\ status' = "over"
  /\ heard' = IF host = "interpreter" THEN heard ELSE SubSeq(heard, 1, WholeLines(heard))

Ask ==
  /\ status = "between" /\ asked < MaxCalls
  /\ status' = "asked" /\ asked' = asked + 1
  /\ UNCHANGED <<host, verdict, heard>>

\* The external program ends, once for each call.
Judge ==
  /\ status = "asked" /\ verdict = "open"
  /\ verdict' \in Output \cup {"bad"}
  /\ UNCHANGED <<host, status, asked, heard>>

Reply ==
  /\ status = "asked" /\ verdict \in Output
  /\ heard' = heard \o Text(asked, verdict)
  /\ status' = "between" /\ verdict' = "open"
  /\ UNCHANGED <<host, asked>>

\* The call fails, and the program with it: never after a response ...
GiveUp ==
  /\ status = "asked" /\ verdict \notin Output
  /\ Over
  /\ UNCHANGED <<host, asked, verdict>>

\* ... except that a compiled program is killed when it still writes the request
\* to an external program that has ended.
Killed ==
  /\ status = "asked" /\ verdict # "open" /\ host = "compiled"
  /\ Over
  /\ UNCHANGED <<host, asked, verdict>>

End ==
  /\ status = "between"
  /\ Over
  /\ UNCHANGED <<host, asked, verdict>>

Init ==
  /\ host \in {"interpreter", "compiled"}
  /\ status = "between" /\ asked = 0 /\ verdict = "open" /\ heard = <<>>

Next == Ask \/ Judge \/ Reply \/ GiveUp \/ Killed \/ End

Spec == Init /\ [][Next]_vars
=============================================================================
