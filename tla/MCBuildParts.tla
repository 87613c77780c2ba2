---------------------------- MODULE MCBuildParts ----------------------------
(* An instance of BuildParts for TLC. *)
EXTENDS BuildParts

CONSTANTS MaxBlob      \* bound: the digits after the magic number

\* A digest that tells apart what order and content tell apart, mostly.
Digest(records) == FoldLeft(LAMBDA h, d : (3 * h + d + 1) % (Base * Base), 7, records)

Upto(S, n) == UNION {[1..k -> S] : k \in 0..n}

-----------------------------------------------------------------------------
\* Paths of slashes, dots, special and other characters.
Paths == Upto({Slash, Dot, Special, 3}, 4)
Files(paths, bytes) == [path : paths, mode : {0, 3}, bytes : bytes]
Bundles(n, files) == [name : {<<3>>, <<>>}, files : Upto(files, n)]

\* One file with any path; two bundles of up to two files; a file of more bytes
\* than one digit counts.
Packs ==
  LET small == Files({<<3>>, <<3, 3>>}, {<<>>, <<NotText, 0>>})
      big == Files({<<3>>}, {[i \in 1..(Base + 1) |-> i % Base]})
      cases == {<<b>> : b \in Bundles(1, Files(Paths, {<<>>}))}
               \cup Upto(Bundles(1, small), 2) \cup {<<b>> : b \in Bundles(2, small \cup big)}
  IN  {[kind |-> "pack", bundles |-> c] : c \in cases}

Parses ==
  {[kind |-> "parse", blob |-> b] :
     b \in Upto(0..(Base - 1), 3) \cup {Magic \o w : w \in Upto(0..(Base - 1), MaxBlob)}}

-----------------------------------------------------------------------------
\* Archives whose first member is a symbol table, or not, of up to as many names
\* as need both digits of the count; whole, or cut anywhere.
Names == Upto({<<2>>, <<3>>, <<2, 3>>, <<1, 2>>}, Cell)
Written(head, names, offset, after) ==
  <<Arch, head>> \o <<Len(names) \div Cell, Len(names) % Cell>>
  \o [i \in 1..(2 * Len(names)) |-> offset] \o NamesText(names) \o after

Whole ==
  {LET written == Written(h, n, o, a)
   IN  [kind |-> "table", names |-> n, written |-> written, archive |-> written] :
     n \in Names, h \in {SymbolTable, 0}, o \in {0, 1},
     a \in {<<>>, <<Nul>>, <<Nul, Nul>>, <<3, Nul>>}}
Cut ==
  UNION {LET written == Written(SymbolTable, n, 1, <<>>)
         IN  {[kind |-> "table", names |-> n, written |-> written,
               archive |-> SubSeq(written, 1, k)] : k \in 0..(Len(written) - 1)} : n \in Names}

\* Dep-info of any paths, with one rule or two.
CargoPaths == {path \in Upto({Blank, Escape, Colon, 4}, 3) : path \in CargoPath}
DepInfos ==
  {[kind |-> "dep info", out |-> out, paths |-> p, more |-> more, text |-> Rule(out, p) \o more] :
     out \in CargoPaths, p \in {<<>>} \cup (CargoPaths \X {<<4>>, <<0, 4>>}),
     more \in {<<>>, <<NewLine>> \o Rule(<<4>>, <<<<4>>>>)}}

-----------------------------------------------------------------------------
\* Two built-ins, each the runtime's or one of two libraries'.
Units == {Runtime, "m", "n"}
BuiltIn(symbol, owner, deps) == [symbol |-> symbol, owner |-> owner, deps |-> deps]

\* Any archives, and no system libraries;
Archives ==
  [file : {"absent"}, exports : {{}}]
  \cup [file : {"unreadable"}, exports : SUBSET {Plain("f"), Plain("g")}]
  \cup [file : {"readable"}, exports : SUBSET {Plain("f"), Underscored("f"), Plain("g")}]
LinksOfAny ==
  [kind : {"link"}, flavor : {"unix"}, runtimeDeps : {<<>>}, archives : [Units -> Archives],
   calls : [Units -> {{}}], used : SUBSET {"f", "g"},
   manifest : {<<BuiltIn("f", o, <<>>), BuiltIn("g", p, <<>>)>> : o \in Units, p \in Units}]

\* or archives that are in order, with system libraries that their code calls.
Deps == {<<>>, <<[name |-> "l", on |-> "any"]>>, <<[name |-> "l", on |-> "windows"]>>,
         <<[name |-> "k", on |-> "unix"], [name |-> "l", on |-> "any"]>>}
Libs(flavor) ==
  {<<>>, <<<<"lib", "l">>>>} \cup
  (IF flavor = "msvc" THEN {<<<<"option", "l">>>>, <<<<"option", "k">>, <<"lib", "l">>>>} ELSE {})
Exporting(symbols) == [file |-> "readable", exports |-> {Plain(s) : s \in symbols}]
InOrder(p) ==
  ("m" :> Exporting({"f"} \cup IF p = "m" THEN {"g"} ELSE {}))
  @@ (p :> Exporting({"g"})) @@ [x \in Units |-> Exporting({})]
LinksOfLibraries(p, flavor) ==
  [kind : {"link"}, flavor : {flavor}, runtimeDeps : Libs(flavor), archives : {InOrder(p)},
   calls : [Units -> SUBSET {OfSystem("l"), OfSystem("k")}], used : {{"f", "g"}},
   manifest : {<<BuiltIn("f", "m", d), BuiltIn("g", p, e)>> : d \in Deps, e \in Deps}]

-----------------------------------------------------------------------------
\* A built-in with any command, or one for each platform; two that may share a
\* bundle; any machine and any bundle of up to two files.
Helper == <<"in bundle", <<3>>>>
OnPath(t) == <<"on path", t>>
Command == [program : {OnPath("t"), OnPath("u"), Helper}, refers : BOOLEAN, probe : BOOLEAN,
            on : {"any", "unix", "windows"}]
Pairs ==
  {<<[program |-> OnPath("t"), refers |-> r, probe |-> TRUE, on |-> "unix"],
     [program |-> OnPath("u"), refers |-> r, probe |-> p, on |-> o]>> :
     r \in BOOLEAN, p \in BOOLEAN, o \in {"any", "windows"}}
Ipcs == [commands : {<<c>> : c \in Command} \cup Pairs, bundle : {<<>>, <<<<3>>>>}]
Common == {b \in Ipcs : b.commands \in {<<c>> : c \in [program : {OnPath("t"), Helper}, refers : {TRUE},
                                                       probe : {TRUE}, on : {"any"}]}}
Programs == {<<b>> : b \in Ipcs} \cup {<<b, c>> : b \in Common, c \in Common}

File(path, mode) == [path |-> path, mode |-> mode, bytes |-> <<1>>]
SomeFiles == {File(<<3>>, 0), File(<<3>>, 1), File(<<3, 3>>, 0), File(<<3, Special>>, 1)}
Dirs == {d \in Upto(SomeFiles, 2) : \A i, j \in DOMAIN d : d[i].path = d[j].path => i = j}

Deploys ==
  [kind : {"deploy"}, used : Programs, family : {"unix", "windows"},
   path : [{"t", "u"} -> {"works", "broken", "absent"}], dirs : [{<<3>>} -> Dirs]]

JustDeploys == <<Deploys>>

-----------------------------------------------------------------------------
\* Halves around the ends of both widths.
Values == {Infinite, MinusInfinite, NotANumber}
          \cup {<<"finite", n>> : n \in (0 - 3 * IntMax)..(3 * IntMax)}
ValueTasks == {[kind |-> k, number |-> x] : k \in {"print", "exit"}, x \in Values}

Everything ==
  <<Packs, Parses, Whole, Cut, DepInfos, LinksOfAny,
    LinksOfLibraries(Runtime, "unix"), LinksOfLibraries(Runtime, "msvc"),
    LinksOfLibraries("m", "unix"), LinksOfLibraries("m", "msvc"),
    LinksOfLibraries("n", "unix"), LinksOfLibraries("n", "msvc"),
    Deploys, ValueTasks>>
=============================================================================
