------------------------------ MODULE IpcCall ------------------------------
(***************************************************************************)
(* The calls a program makes of IPC built-ins, calc-runtime/src/           *)
(* ipc_runtime.rs: a child process for every call, three pipes to it, one  *)
(* request and one response, and the program's own stdout.  `call` and the *)
(* functions under it are the parent; the child is whatever command the    *)
(* manifest names, so it does what one of the scripts says.                *)
(*                                                                         *)
(* A host is the program the parent code runs in: "interpreter" is calcc,  *)
(* whose main is Rust, so SIGPIPE is ignored, a panic unwinds and stdout   *)
(* is flushed at exit; "compiled" is an executable whose main is C, where  *)
(* none of this is so.                                                     *)
(***************************************************************************)
EXTENDS Naturals, SequencesExt

CONSTANTS MaxCalls,    \* calls that a program makes
          Capacity,    \* what a pipe holds
          Script       \* what a child may do

Host == {"interpreter", "compiled"}

\* The "output" of a response: without a newline, ending with one, or going on
\* after it.
Output == {"none", "part", "line", "more"}

\* A response on the wire, in three pieces.
Wire(o) == <<"{", o, "}">>
Piece == Output \cup {"{", "}", "ff"}      \* "ff" is not UTF-8

\* The steps of a script: read the request, write a piece, write to stderr, leave
\* a process behind that holds the pipes, exit, or never go on.
ChildStep == Piece \cup {"read", "note", "fork", "exit 0", "exit 1", "hang"}

ASSUME Bounds == /\ MaxCalls \in Nat /\ Capacity \in Nat \ {0}
                 /\ Script \subseteq Seq(ChildStep) \ {<<>>}

VARIABLES host,
          phase,      \* where the parent is, or how it ended
          call,       \* the call it is in, or made last
          why,        \* what its panic says
          child,      \* "none", "running", "succeeded" or "failed"
          script,     \* what the child is still to do
          request,    \* the stdin pipe: "unwritten", "sent" or "lost"; the last
                      \* two closed
          pipe,       \* what is in the stdout and the stderr pipe
          heir,       \* a process the child left behind holds the pipes
          got,        \* what wait_with_output read from each
          wrote,      \* history: what the child wrote to each
          buffer,     \* Rust's line-buffered stdout
          stdout,     \* what the program wrote to its stdout
          answered    \* history: the calls answered, with the output of each

childVars  == <<child, script, wrote>>
stdioVars  == <<buffer, stdout>>
vars == <<host, phase, call, why, childVars, request, pipe, heir, got, stdioVars, answered>>

Streams == [out |-> <<>>, err |-> <<>>]

-----------------------------------------------------------------------------
(* stdout                                                                  *)

\* The text of an output, each piece with the call it is from.
Text(k, o) == CASE o = "none" -> <<>>
                [] o = "part" -> <<<<k, "text">>>>
                [] o = "line" -> <<<<k, "text">>, <<k, "newline">>>>
                [] o = "more" -> <<<<k, "text">>, <<k, "newline">>, <<k, "text">>>>

\* The length of the whole lines at the start of a text.
WholeLines(text) ==
  LET ends == {i \in DOMAIN text : text[i][2] = "newline"}
  IN  IF ends = {} THEN 0 ELSE Max(ends)

\* A mutant: nothing goes out before the process ends.
RelayInBlocks(text) ==
  /\ buffer' = buffer \o text
  /\ UNCHANGED stdout

\* print!: whole lines go out, the rest waits for its newline.
Relay(text) ==
  LET all == buffer \o text
  IN  /\ stdout' = stdout \o SubSeq(all, 1, WholeLines(all))
      /\ buffer' = SubSeq(all, WholeLines(all) + 1, Len(all))

\* The process ends: only a Rust main flushes.
Leave(how) ==
  /\ phase' = how
  /\ stdout' = IF host = "interpreter" THEN stdout \o buffer ELSE stdout
  /\ buffer' = <<>>

\* panic!, which calc_print does not let out of the executable.
PanicWith(message) ==
  /\ Leave("panicked")
  /\ why' = message
  /\ UNCHANGED <<host, call, childVars, request, pipe, heir, got, answered>>

-----------------------------------------------------------------------------
(* The parent                                                              *)

\* run: the next call, which finds its bundle.
BundleDir ==
  /\ phase = "idle" /\ call < MaxCalls
  /\ phase' = "spawn" /\ call' = call + 1
  /\ UNCHANGED <<host, why, childVars, request, pipe, heir, got, stdioVars, answered>>

\* "couldn't unpack bundle"; the interpreter uses the source directory.
BundleFails ==
  /\ phase = "spawn" /\ host = "compiled"
  /\ PanicWith("bundle")

\* Command::spawn
Spawn ==
  /\ phase = "spawn"
  /\ phase' = "write"
  /\ script' \in Script
  /\ child' = "running" /\ wrote' = Streams
  /\ request' = "unwritten" /\ pipe' = Streams /\ heir' = FALSE /\ got' = Streams
  /\ UNCHANGED <<host, call, why, stdioVars, answered>>

SpawnFails == phase = "spawn" /\ PanicWith("start")

Held == child = "running" \/ heir

\* A mutant: stdin is not dropped after the write.
WriteRequestKeepsStdin ==
  /\ phase = "write"
  /\ Held \/ host = "interpreter"
  /\ phase' = "wait"
  /\ request' = IF Held THEN "unwritten" ELSE "lost"
  /\ UNCHANGED <<host, call, why, childVars, pipe, heir, got, stdioVars, answered>>

\* stdin.write_all, whose error is ignored, and the drop that closes the pipe.
WriteRequest ==
  /\ phase = "write"
  /\ Held \/ host = "interpreter"
  /\ phase' = "wait"
  /\ request' = IF Held THEN "sent" ELSE "lost"
  /\ UNCHANGED <<host, call, why, childVars, pipe, heir, got, stdioVars, answered>>

\* SIGPIPE
BrokenPipe ==
  /\ phase = "write"
  /\ ~Held /\ host = "compiled"
  /\ Leave("killed")
  /\ UNCHANGED <<host, call, why, childVars, request, pipe, heir, got, answered>>

\* A mutant: stderr is read when stdout has ended.
CollectInTurn(s) ==
  /\ phase = "wait" /\ pipe[s] # <<>>
  /\ s = "err" => ~Held /\ pipe.out = <<>>
  /\ got' = [got EXCEPT ![s] = @ \o pipe[s]]
  /\ pipe' = [pipe EXCEPT ![s] = <<>>]
  /\ UNCHANGED <<host, phase, call, why, childVars, request, heir, stdioVars, answered>>

\* wait_with_output reads whichever of the two pipes has something,
Collect(s) ==
  /\ phase = "wait" /\ pipe[s] # <<>>
  /\ got' = [got EXCEPT ![s] = @ \o pipe[s]]
  /\ pipe' = [pipe EXCEPT ![s] = <<>>]
  /\ UNCHANGED <<host, phase, call, why, childVars, request, heir, stdioVars, answered>>

\* A mutant: waits for the child, and not for the end of its output.
WaitForExit ==
  /\ phase = "wait" /\ child # "running"
  /\ phase' = "check"
  /\ UNCHANGED <<host, call, why, childVars, request, pipe, heir, got, stdioVars, answered>>

\* until nobody can write to either any more, and waits for the child.
Wait ==
  /\ phase = "wait" /\ ~Held /\ pipe = Streams
  /\ phase' = "check"
  /\ UNCHANGED <<host, call, why, childVars, request, pipe, heir, got, stdioVars, answered>>

NotUtf8(text) == "ff" \in Range(text)

\* parse_response: the outputs that `text` is a response with, at most one.
Parsed(text) == {o \in Output : text = Wire(o)}

\* output.status.success(), String::from_utf8, parse_response
Fail ==
  /\ phase = "check"
  /\ \/ child = "failed" /\ PanicWith("exited")
     \/ child = "succeeded" /\ NotUtf8(got.out) /\ PanicWith("non-UTF-8")
     \/ /\ child = "succeeded" /\ ~NotUtf8(got.out) /\ Parsed(got.out) = {}
        /\ PanicWith("invalid")

\* A mutant: the exit status is not looked at.
AnswerWhateverTheStatus ==
  /\ phase = "check"
  /\ \E o \in Parsed(got.out) :
       /\ Relay(Text(call, o))
       /\ answered' = Append(answered, <<call, o>>)
  /\ phase' = "idle"
  /\ UNCHANGED <<host, call, why, childVars, request, pipe, heir, got>>

\* call: relays the output and returns.
Answer ==
  /\ phase = "check" /\ child = "succeeded"
  /\ \E o \in Parsed(got.out) :
       /\ Relay(Text(call, o))
       /\ answered' = Append(answered, <<call, o>>)
  /\ phase' = "idle"
  /\ UNCHANGED <<host, call, why, childVars, request, pipe, heir, got>>

\* main returns.
Finish ==
  /\ phase = "idle"
  /\ Leave("ended")
  /\ UNCHANGED <<host, call, why, childVars, request, pipe, heir, got, answered>>

-----------------------------------------------------------------------------
(* The child                                                               *)

NextStep == Head(script)
Goes == child = "running" /\ script' = Tail(script)
ParentVars ==
  <<host, phase, call, why, request, got, stdioVars, answered>>

\* Reads the request to its end, which is where stdin was closed.
ChildReads ==
  /\ Goes /\ NextStep = "read" /\ request # "unwritten"
  /\ UNCHANGED <<ParentVars, child, wrote, pipe, heir>>

\* Writes to a pipe, when there is room.
ChildWrites(s) ==
  /\ Goes /\ NextStep \in (IF s = "out" THEN Piece ELSE {"note"})
  /\ Len(pipe[s]) < Capacity
  /\ pipe' = [pipe EXCEPT ![s] = Append(@, NextStep)]
  /\ wrote' = [wrote EXCEPT ![s] = Append(@, NextStep)]
  /\ UNCHANGED <<ParentVars, child, heir>>

ChildForks ==
  /\ Goes /\ NextStep = "fork"
  /\ heir' = TRUE
  /\ UNCHANGED <<ParentVars, child, wrote, pipe>>

ChildExits ==
  /\ Goes /\ NextStep \in {"exit 0", "exit 1"}
  /\ child' = IF NextStep = "exit 0" THEN "succeeded" ELSE "failed"
  /\ UNCHANGED <<ParentVars, wrote, pipe, heir>>

\* A signal.
ChildDies ==
  /\ child = "running" /\ child' = "failed"
  /\ UNCHANGED <<ParentVars, script, wrote, pipe, heir>>

HeirExits ==
  /\ heir /\ heir' = FALSE
  /\ UNCHANGED <<ParentVars, childVars, pipe>>

-----------------------------------------------------------------------------
Init ==
  /\ host \in Host
  /\ phase = "idle" /\ call = 0 /\ why = "" /\ answered = <<>>
  /\ child = "none" /\ script = <<>> /\ wrote = Streams
  /\ request = "unwritten" /\ pipe = Streams /\ heir = FALSE /\ got = Streams
  /\ buffer = <<>> /\ stdout = <<>>

Parent ==
  \/ BundleDir \/ BundleFails \/ Spawn \/ SpawnFails \/ WriteRequest \/ BrokenPipe
  \/ Collect("out") \/ Collect("err") \/ Wait \/ Fail \/ Answer \/ Finish

Child ==
  ChildReads \/ ChildWrites("out") \/ ChildWrites("err") \/ ChildForks \/ ChildExits

Next == Parent \/ Child \/ ChildDies \/ HeirExits

Spec == Init /\ [][Next]_vars

\* The parent is one thread.  A child that is not stuck and does not hang goes on;
\* nothing says when a process it left behind ends.
FairSpec == Spec /\ WF_vars(Parent) /\ WF_vars(Child)

-----------------------------------------------------------------------------
(* Properties                                                              *)

Left == {"ended", "panicked", "killed"}

TypeOK ==
  /\ host \in Host /\ call \in 0..MaxCalls
  /\ phase \in {"idle", "spawn", "write", "wait", "check"} \cup Left
  /\ why \in {"", "bundle", "start", "exited", "non-UTF-8", "invalid"}
  /\ child \in {"none", "running", "succeeded", "failed"}
  /\ request \in {"unwritten", "sent", "lost"} /\ heir \in BOOLEAN
  /\ \A s \in {"out", "err"} : Len(pipe[s]) <= Capacity
  /\ Len(answered) <= call
  /\ WholeLines(buffer) = 0

\* What the answered calls said, in the order of the calls.
Said == FlattenSeq([i \in DOMAIN answered |-> Text(answered[i][1], answered[i][2])])

\* The program's stdout is what the calls said, in their order and each once,
\* whatever became of the program; only an unfinished last line can be missing,
\* and of the interpreter not even that.
OutputIsInOrder ==
  /\ phase \notin Left => stdout \o buffer = Said
  /\ phase \in Left =>
       stdout = IF host = "interpreter" THEN Said ELSE SubSeq(Said, 1, WholeLines(Said))

\* A call that fails says why: it blames a child only for what that child did,
\* quotes all of its diagnostics, and one that answered well is never blamed.
FailuresSayWhy ==
  /\ why = "exited" => child = "failed" /\ got.err = wrote.err
  /\ why \in {"non-UTF-8", "invalid"} => child = "succeeded" /\ Parsed(wrote.out) = {}

\* Parent and child are never both waiting for the other: a call comes to an end
\* unless its child hangs or leaves a process behind that holds its pipes.
CallsEnd ==
  []<>(phase # "wait" \/ heir \/ (child = "running" /\ NextStep = "hang"))

\* "A write error means the child already exited; its exit status, checked below,
\* says why": no failure of a call ends the program without a message.
WriteErrorsAreExplained == phase # "killed"

-----------------------------------------------------------------------------
(* IpcCall implements CallPromise.                                         *)

statusBar == CASE phase = "idle" -> "between" [] phase \in Left -> "over" [] OTHER -> "asked"

\* The verdict on a call is there as soon as its child has ended.
verdictBar ==
  IF phase \in {"idle", "spawn", "ended"} \/ why \in {"bundle", "start"} THEN "open"
  ELSE CASE child = "running" -> "open"
         [] child = "succeeded" /\ Parsed(wrote.out) # {} -> CHOOSE o \in Parsed(wrote.out) : TRUE
         [] OTHER -> "bad"

Promise == INSTANCE CallPromise WITH
             status <- statusBar, asked <- call, verdict <- verdictBar,
             heard <- stdout \o buffer

\* With its pipes, its bounded buffers and the processes at both ends of them, a
\* call looks from outside like one question and one reply.
ImplementsCalls == Promise!Spec
=============================================================================
