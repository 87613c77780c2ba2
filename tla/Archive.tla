------------------------------- MODULE Archive -------------------------------
(***************************************************************************)
(* The symbol table of an `ar` archive, which calc-compiler/src/link.rs    *)
(* reads for the symbols an archive exports.  An archive is a sequence of  *)
(* cells: one stands for the magic number, one for the header of the first *)
(* member, then one for each of that member's bytes, with two for a u32.   *)
(***************************************************************************)
EXTENDS Naturals, SequencesExt

CONSTANTS Cell      \* how many values a cell has

Arch == 2           \* "!<arch>\n"
SymbolTable == 3    \* the header of a member whose name is "/ ", and not "/SYM64/ ", ...
Nul == 0

NoTable == <<>>

BigEndian(digits) == Cell * digits[1] + digits[2]

\* A NUL ends a text.
SplitAt(state, cell) ==
  IF cell = Nul THEN [texts |-> Append(state.texts, state.text), text |-> <<>>]
  ELSE [texts |-> state.texts, text |-> Append(state.text, cell)]

\* The texts between the NULs.
Split(bytes) == FoldLeft(SplitAt, [texts |-> <<>>, text |-> <<>>], Append(bytes, Nul)).texts

\* A mutant: what pads the table is taken for names.
ArchiveSymbolsUncounted(ar) ==
  LET data == SubSeq(ar, 3, Len(ar))
      start == 2 + 2 * BigEndian(data)
  IN  IF \/ Len(ar) < 4 \/ ar[1] # Arch \/ ar[2] # SymbolTable \/ Len(data) < start
      THEN NoTable
      ELSE <<Split(SubSeq(data, start + 1, Len(data)))>>

\* archive_symbols: NoTable, or <<the names>>.  The count, as many offsets, and as
\* many names that end in NUL.
ArchiveSymbols(ar) ==
  LET data == SubSeq(ar, 3, Len(ar))
      count == BigEndian(data)
      names == Split(SubSeq(data, 2 + 2 * count + 1, Len(data)))
  IN  IF \/ Len(ar) < 2 \/ ar[1] # Arch \/ ar[2] # SymbolTable
         \/ Len(data) < 2 \/ Len(data) < 2 + 2 * count
      THEN NoTable
      ELSE <<SubSeq(names, 1, IF count < Len(names) THEN count ELSE Len(names))>>

\* What the tools that make archives write for these names: whatever they put for the
\* offsets, and after the names.
NamesText(names) == FlattenSeq([i \in DOMAIN names |-> Append(names[i], Nul)])
IsTableOf(ar, names) ==
  LET start == 4 + 2 * Len(names)
      end == start + Len(NamesText(names))
  IN  /\ Len(ar) >= end
      /\ ar[1] = Arch /\ BigEndian(SubSeq(ar, 3, 4)) = Len(names)
      /\ SubSeq(ar, start + 1, end) = NamesText(names)
=============================================================================
