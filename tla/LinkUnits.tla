----------------------------- MODULE LinkUnits -----------------------------
(***************************************************************************)
(* What a program is linked from, and the check that each built-in comes   *)
(* from its own unit: `link_units`, `check_symbols` and `link_args` of     *)
(* calc-compiler/src/link.rs.  A manifest is a sequence of built-ins, each *)
(* with a symbol, the unit that has to define it (the runtime archive or   *)
(* an FFI library) and the system libraries it declares for that unit.     *)
(* `archives` says of each unit what its file is; a symbol of it is plain  *)
(* or has an underscore before its name, or is a system library's.         *)
(***************************************************************************)
EXTENDS Naturals, SequencesExt

Runtime == "runtime"
Plain(symbol) == <<"plain", symbol>>
Underscored(symbol) == <<"underscored", symbol>>
OfSystem(library) == <<"system", library>>

\* LinkFlavor; LinkFlavor::library_arg for a LinkDep that applies to the family.
Flavor == {"msvc", "unix"}
Family(flavor) == IF flavor = "msvc" THEN "windows" ELSE "unix"
AppliesTo(dep, family) == dep.on \in {"any", family}
LibraryArg(dep) == <<"lib", dep.name>>
DepArgs(deps, family) ==
  FlattenSeq([i \in DOMAIN deps |->
                IF AppliesTo(deps[i], family) THEN <<LibraryArg(deps[i])>> ELSE <<>>])

\* A mutant: what others use comes before what uses it.
LinkUnitsRuntimeLast(manifest, runtimeDeps, flavor) ==
  LET unit(b) == [of |-> b.owner, deps |-> DepArgs(b.deps, Family(flavor))]
      add(units, b) ==
        IF \E i \in DOMAIN units : units[i].of = b.owner THEN units ELSE <<unit(b)>> \o units
  IN  FoldLeft(add, <<[of |-> Runtime, deps |-> runtimeDeps]>>, manifest)

\* link_units: the runtime archive with the arguments rustc reported for it, then
\* each FFI library once, with what the first built-in in it declares.
LinkUnitsOf(manifest, runtimeDeps, flavor) ==
  LET unit(b) == [of |-> b.owner, deps |-> DepArgs(b.deps, Family(flavor))]
      add(units, b) ==
        IF \E i \in DOMAIN units : units[i].of = b.owner THEN units ELSE Append(units, unit(b))
  IN  FoldLeft(add, <<[of |-> Runtime, deps |-> runtimeDeps]>>, manifest)

Owners(manifest) == {Runtime} \cup {b.owner : b \in Range(manifest)}

\* archive_symbols: of an archive that is there and has a table it can read.
HasTable(archive) == archive.file = "readable"

\* exports
Exported(archive, symbol) == archive.exports \cap {Plain(symbol), Underscored(symbol)} # {}

\* A mutant: a symbol in two units is not a problem.
ProblemsMissing(manifest, archives) ==
  {<<"not found", u>> : u \in {v \in Owners(manifest) : archives[v].file = "absent"}}
  \cup {<<"isn't exported", b.symbol, b.owner>> :
          b \in {c \in Range(manifest) : /\ HasTable(archives[c.owner])
                                         /\ ~Exported(archives[c.owner], c.symbol)}}

\* check_symbols: what it reports.
Problems(manifest, archives) ==
  LET tables == {u \in Owners(manifest) : HasTable(archives[u])}
      exporting(b) == {u \in tables : Exported(archives[u], b.symbol)}
      isNotExported(b) == {<<"isn't exported", b.symbol, u>> : u \in (tables \cap {b.owner}) \ exporting(b)}
      alsoExported(b) == {<<"also exported", b.symbol, u>> : u \in exporting(b) \ {b.owner}}
  IN  {<<"not found", u>> : u \in {v \in Owners(manifest) : archives[v].file = "absent"}}
      \cup UNION {isNotExported(b) \cup alsoExported(b) : b \in Range(manifest)}

UnitArgs(units) == [i \in DOMAIN units |-> <<"unit", units[i].of>>]
AllDeps(units) == FlattenSeq([i \in DOMAIN units |-> units[i].deps])

\* A mutant: everything rustc reports is an input of the compiler driver.
LinkArgsNoLink(flavor, units) == <<<<"objects">>>> \o UnitArgs(units) \o AllDeps(units) \o <<<<"out">>>>

\* Those that are options of the linker, or those that are not.
Partition(deps, options) ==
  FlattenSeq([i \in DOMAIN deps |->
                IF (deps[i][1] = "option") = options THEN <<deps[i]>> ELSE <<>>])

\* link_args: objects, units, system libraries; what rustc reports as an option
\* of the linker comes after /link, for cl.exe.
LinkArgs(flavor, units) ==
  LET options == Partition(AllDeps(units), TRUE)
      libraries == Partition(AllDeps(units), FALSE)
      link == IF options = <<>> THEN <<>> ELSE <<<<"/link">>>> \o options
  IN  <<<<"objects">>>> \o UnitArgs(units) \o
      IF flavor = "msvc" THEN libraries \o <<<<"out">>>> \o link
                         ELSE AllDeps(units) \o <<<<"out">>>>

-----------------------------------------------------------------------------
(* The linker, which reads its inputs once, in the order of the arguments: *)
(* the program's object needs the symbols it uses.  A member of an archive *)
(* is linked when something needs it, and then needs what `calls` says of  *)
(* its archive; one of the runtime archive's needs every built-in, for the *)
(* interpreter's table.  cl.exe hands an option on only after /link.       *)

\* What the i-th argument has to offer, and what linking any of it needs.
Honoured(args, i) == args[i][1] = "lib" \/ \E j \in 1..(i - 1) : args[j][1] = "/link"
Offered(args, archives, i) ==
  CASE args[i][1] = "unit" -> archives[args[i][2]].exports
    [] args[i][1] \in {"lib", "option"} ->
         IF Honoured(args, i) THEN {OfSystem(args[i][2])} ELSE {}
    [] OTHER -> {}
Wanted(args, manifest, calls, i) ==
  IF args[i][1] # "unit" THEN {}
  ELSE calls[args[i][2]] \cup
         (IF args[i][2] = Runtime THEN {Plain(b.symbol) : b \in Range(manifest)} ELSE {})

Pull(state, arg, offers, wants) ==
  LET needed == IF state.needed \cap offers = {} THEN state.needed
                ELSE state.needed \cup (wants \ DOMAIN state.from)
  IN  [needed |-> needed \ offers,
       from |-> [s \in DOMAIN state.from \cup (needed \cap offers) |->
                   IF s \in DOMAIN state.from THEN state.from[s] ELSE arg]]

Linked(args, manifest, archives, calls, used) ==
  LET pull(state, i) == Pull(state, args[i], Offered(args, archives, i), Wanted(args, manifest, calls, i))
  IN  FoldLeft(pull, [needed |-> {Plain(s) : s \in used}, from |-> <<>>], [i \in DOMAIN args |-> i])
=============================================================================
