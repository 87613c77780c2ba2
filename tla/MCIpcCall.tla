----------------------------- MODULE MCIpcCall -----------------------------
(* An instance of IpcCall for TLC. *)
EXTENDS IpcCall

\* What a child writes to stdout: a response, none, one cut short, one followed by
\* something, or bytes that are not text.
Written == {<<>>, <<"{">>, <<"{", "line", "}", "}">>, <<"ff">>} \cup {Wire(o) : o \in Output}

\* It reads the request before, after or never, and writes diagnostics before,
\* after or never, more of them than a pipe holds.
Notes == <<"note", "note">>
Work ==
  {read \o w : read \in {<<>>, <<"read">>}, w \in
     UNION {{w, Notes \o w, w \o Notes} : w \in Written}} \cup {w \o <<"read">> : w \in Written}

Ends == {<<"exit 0">>, <<"exit 1">>, <<"fork", "exit 0">>, <<"hang">>}

Scripts == {w \o e : w \in Work, e \in Ends}
=============================================================================
