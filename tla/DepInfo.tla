------------------------------ MODULE DepInfo ------------------------------
(***************************************************************************)
(* The dep-info file of the nested build, from which the build script of   *)
(* calc-runtime-artifacts learns what to watch for changes: one rule of a  *)
(* makefile, `out: dep dep ...`.  A text is a sequence of characters.      *)
(***************************************************************************)
EXTENDS Naturals, SequencesExt

Blank == 0
Escape == 1      \* the backslash
Colon == 2
NewLine == 3     \* every other character is above

FirstLine(text) ==
  LET ends == {i \in DOMAIN text : text[i] = NewLine}
  IN  IF ends = {} THEN text ELSE SubSeq(text, 1, Min(ends) - 1)

\* A path ends: none begins before the next character.
EndPath(state) ==
  IF state.path = <<>> THEN state
  ELSE [paths |-> Append(state.paths, state.path), path |-> <<>>]

\* A backslash that escapes the blank after it is not of the path; a blank that none
\* escapes ends it.
Escapes(deps, i) == deps[i] = Escape /\ i < Len(deps) /\ deps[i + 1] = Blank
ReadAt(deps, state, i) ==
  CASE Escapes(deps, i) -> state
    [] deps[i] = Blank /\ ~(i > 1 /\ Escapes(deps, i - 1)) -> EndPath(state)
    [] OTHER -> [paths |-> state.paths, path |-> Append(state.path, deps[i])]

PathsOf(deps) ==
  LET read(state, i) == ReadAt(deps, state, i)
  IN  EndPath(FoldLeft(read, [paths |-> <<>>, path |-> <<>>], [i \in DOMAIN deps |-> i])).paths

\* A mutant: what follows the first colon, which may be a drive's.
DepInfoPathsColon(text) ==
  LET line == FirstLine(text)
      colons == {i \in DOMAIN line : line[i] = Colon}
  IN  IF colons = {} THEN <<>> ELSE PathsOf(SubSeq(line, Min(colons) + 1, Len(line)))

\* dep_info_paths: those after the first ": " of the first line.
DepInfoPaths(text) ==
  LET line == FirstLine(text)
      colons == {i \in DOMAIN line : i < Len(line) /\ line[i] = Colon /\ line[i + 1] = Blank}
  IN  IF colons = {} THEN <<>> ELSE PathsOf(SubSeq(line, Min(colons) + 2, Len(line)))

\* What cargo writes: what was built and what that depends on, their blanks escaped.
Escaped(path) ==
  FlattenSeq([i \in DOMAIN path |-> IF path[i] = Blank THEN <<Escape, Blank>> ELSE <<path[i]>>])
Rule(out, paths) ==
  Escaped(out) \o <<Colon>>
  \o FlattenSeq([i \in DOMAIN paths |-> <<Blank>> \o Escaped(paths[i])])
=============================================================================
