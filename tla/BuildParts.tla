----------------------------- MODULE BuildParts -----------------------------
(***************************************************************************)
(* The parts of building and running a program that compute something and  *)
(* touch nothing, for every input of a bounded size: bundles packed and    *)
(* read back, blobs and archives that nobody may have written, manifests,  *)
(* machines, numbers.  A task names the part and has its input.            *)
(***************************************************************************)
EXTENDS Deploy, LinkUnits, Numbers, Archive, DepInfo

CONSTANTS Tasks       \* the inputs: a sequence of sets of them

\* What a link is given: whole lists; options of the linker only where there is one
\* that takes them; a program that uses built-ins; archives whose code calls none of
\* them, but for the interpreter's table.
LinkFits(t) ==
  LET symbols == {b.symbol : b \in Range(t.manifest)} IN
  /\ t.flavor \in Flavor
  /\ t.manifest \in Seq(Range(t.manifest)) /\ t.runtimeDeps \in Seq(Range(t.runtimeDeps))
  /\ \A b \in Range(t.manifest) : b.deps \in Seq(Range(b.deps))
  /\ \A arg \in Range(t.runtimeDeps) :
       arg[1] = "lib" \/ (arg[1] = "option" /\ t.flavor = "msvc")
  /\ t.used \subseteq symbols
  /\ \A u \in Owners(t.manifest) : t.calls[u] \cap {Plain(s) : s \in symbols} = {}

\* What a deployment is given: bundles that fit, with one file of a path, and
\* built-ins that have one of them or none.
DeployFits(t) ==
  /\ t.used \in Seq(Range(t.used)) /\ Len(t.used) \in Digit
  /\ \A b \in Range(t.used) : b.bundle = <<>> \/ \E n \in DOMAIN t.dirs : b.bundle = <<n>>
  /\ \A n \in DOMAIN t.dirs :
       /\ t.dirs[n] \in FileList
       /\ \A i, j \in DOMAIN t.dirs[n] : t.dirs[n][i].path = t.dirs[n][j].path => i = j
       /\ Hashed([name |-> n, files |-> ReadBundle(t.dirs[n])]) \in Bundle

\* What archives are given: written by a tool, and read as far as anyone has written.
TableFits(t) ==
  /\ t.names \in Seq(Seq(Nat \ {Nul}))
  /\ t.written \in Seq(Nat) /\ IsTableOf(t.written, t.names)
  /\ \E k \in 0..Len(t.written) : t.archive = SubSeq(t.written, 1, k)

\* What dep-info is given: cargo's, of any rule and whatever follows it.  No path is
\* empty or ends with a backslash, and none has a line's end in it.
CargoPath == {path \in Seq(Nat \ {NewLine}) : path # <<>> /\ Last(path) # Escape}
DepInfoFits(t) ==
  /\ t.out \in CargoPath /\ t.paths \in Seq(CargoPath)
  /\ t.more \in Seq(Nat) /\ (t.more = <<>> \/ t.more[1] = NewLine)
  /\ t.text = Rule(t.out, t.paths) \o t.more

\* What is packed fits in the format, which cuts what does not without a word; the
\* rest is of its type.
ASSUME InputsFit ==
  \A i \in DOMAIN Tasks : \A t \in Tasks[i] :
    /\ t.kind = "pack" => [k \in DOMAIN t.bundles |-> Hashed(t.bundles[k])] \in BundleList
    /\ t.kind = "parse" => t.blob \in Digits
    /\ t.kind = "table" => TableFits(t)
    /\ t.kind = "dep info" => DepInfoFits(t)
    /\ t.kind = "link" => LinkFits(t)
    /\ t.kind = "deploy" => DeployFits(t)
    /\ t.kind \in {"print", "exit"} => t.number \in F64

VARIABLES task, result

vars == <<task, result>>

Init == (\E i \in DOMAIN Tasks : task \in Tasks[i]) /\ result = <<>>

\* runtime_deps::prepare and link at build time, bundle_dir at run time.
PackAndParse ==
  /\ task.kind = "pack"
  /\ result' = <<Parse(EmbeddedBlob(BundleObject(Pack(task.bundles))))>>

ParseBlob ==
  /\ task.kind = "parse"
  /\ result' = <<Parse(EmbeddedBlob(BundleObject(task.blob)))>>

ReadTable ==
  /\ task.kind = "table"
  /\ result' = <<ArchiveSymbols(task.archive)>>

ReadDepInfo ==
  /\ task.kind = "dep info"
  /\ result' = <<DepInfoPaths(task.text)>>

\* link: the check first, and the linker if it finds no problem.
CheckAndLink ==
  /\ task.kind = "link"
  /\ Problems(task.manifest, task.archives) = {}
  /\ LET units == LinkUnitsOf(task.manifest, task.runtimeDeps, task.flavor)
     IN  result' = <<Linked(LinkArgs(task.flavor, units), task.manifest, task.archives,
                            task.calls, task.used)>>

\* prepare and link.
PrepareAndEmbed ==
  /\ task.kind = "deploy"
  /\ LET prepared == PrepareFor(task.used, task.family, task.path, task.dirs)
     IN  /\ prepared # <<>>
         /\ result' = <<[object |-> BundleObject(prepared[1].blob),
                         notes |-> prepared[1].notes]>>

CallPrint ==
  /\ task.kind = "print"
  /\ \E answer \in Printed(task.number) : result' = <<answer>>

ExitWith ==
  /\ task.kind = "exit"
  /\ result' = <<ExitStatus(task.number)>>

Next ==
  /\ result = <<>>
  /\ \/ PackAndParse \/ ParseBlob \/ ReadTable \/ ReadDepInfo
     \/ CheckAndLink \/ PrepareAndEmbed \/ CallPrint \/ ExitWith
  /\ UNCHANGED task

Spec == Init /\ [][Next]_vars

-----------------------------------------------------------------------------
(* Properties                                                              *)

Did(kind) == result # <<>> /\ task.kind = kind

AllSafe(files) == \A i \in DOMAIN files : IsSafeRelativePath(files[i].path)

\* "The packing and unpacking sides can't disagree": what was packed is read
\* back out of the executable, with its hash, when no path could leave its
\* directory.
RoundTrips ==
  Did("pack") =>
    result[1] = IF \A i \in DOMAIN task.bundles : AllSafe(task.bundles[i].files)
                THEN <<[i \in DOMAIN task.bundles |-> Hashed(task.bundles[i])]>>
                ELSE None

\* "Anything malformed is None": what `parse` accepts is, digit for digit, what
\* packing its result with these hashes writes, or nothing at all, which has no
\* bundles; nothing cut short or with something after it is.
AcceptsOnlyPacked ==
  Did("parse") =>
    IF task.blob = <<>> THEN result[1] = <<<<>>>>
    ELSE result[1] # None => PutBundles(result[1][1]) = task.blob

\* How deep in its directory a path ends: ".." goes up, "." and "" stay; -1 for
\* one that leaves it on the way.
Deeper(depth, part) ==
  CASE depth < 0 -> depth
    [] depth >= 0 /\ part \in {<<>>, <<Dot>>} -> depth
    [] depth >= 0 /\ part = <<Dot, Dot>> -> depth - 1
    [] OTHER -> depth + 1

Walk(at, c) ==
  IF c = Slash THEN [part |-> <<>>, depth |-> Deeper(at.depth, at.part)]
  ELSE [part |-> Append(at.part, c), depth |-> at.depth]

Depth(path) == FoldLeft(Walk, [part |-> <<>>, depth |-> 0], Append(path, Slash)).depth

\* "Joining it onto a directory can't land outside that directory": a file of a
\* bundle is below it, and the way there never leaves it nor starts elsewhere.
FilesStayInside ==
  Did("pack") /\ result[1] # None =>
    \A i \in DOMAIN result[1][1] : \A j \in DOMAIN result[1][1][i].files :
      LET path == result[1][1][i].files[j].path
      IN  path[1] # Slash /\ Special \notin Range(path) /\ Depth(path) > 0

\* What other tools wrote is read as they wrote it.  The names in an archive's
\* symbol table: whatever the offsets before them hold and however the table is
\* padded; one that is cut short names nothing but beginnings of them, and another
\* member is no table.  The paths in cargo's dep-info: blanks, colons and all, of
\* the dependencies and not of what depends on them.
ToolFilesAreRead ==
  /\ Did("table") =>
       LET names == task.names
           read == result[1]
       IN  IF task.archive = task.written
           THEN read = IF task.archive[2] = SymbolTable THEN <<names>> ELSE NoTable
           ELSE read # NoTable =>
                  /\ Len(read[1]) <= Len(names)
                  /\ \A i \in DOMAIN read[1] : IsPrefix(read[1][i], names[i])
  /\ Did("dep info") => result[1] = task.paths

Readable(u) == HasTable(task.archives[u])

\* "Each built-in must come from exactly one link unit": a program is linked
\* from each built-in's own unit, whatever the archives define, as long as its
\* unit's table and those of the units before it could be read, and its unit has
\* no symbol that only differs by an underscore: the check takes that for it.
EachFromItsOwn ==
  Did("link") =>
    LET units == LinkUnitsOf(task.manifest, task.runtimeDeps, task.flavor)
        before(u) == {units[i].of : i \in {i \in DOMAIN units :
                                             \A k \in 1..(i - 1) : units[k].of # u}}
    IN  \A b \in Range(task.manifest) :
          /\ Plain(b.symbol) \in DOMAIN result[1].from
          /\ \A u \in before(b.owner) : Readable(u)
          /\ Underscored(b.symbol) \notin task.archives[b.owner].exports
          => result[1].from[Plain(b.symbol)] = <<"unit", b.owner>>

\* What the manifest, or rustc, has to say for the link to be possible: which
\* system libraries the code of a unit calls, in every entry for the same library
\* alike; and no symbol of an archive differs from a built-in's by an underscore.
Declared(u, flavor) ==
  IF u = Runtime THEN {task.runtimeDeps[i][2] : i \in DOMAIN task.runtimeDeps}
  ELSE LET deps == CHOOSE deps \in {b.deps : b \in Range(task.manifest)} :
                     \E b \in Range(task.manifest) : b.owner = u /\ b.deps = deps
       IN  {dep.name : dep \in {d \in Range(deps) : AppliesTo(d, Family(flavor))}}
WellDeclared ==
  LET owners == Owners(task.manifest) IN
  /\ \A u \in owners : Readable(u) /\ \A s \in task.archives[u].exports : s[1] = "plain"
  /\ \A b, c \in Range(task.manifest) : b.owner = c.owner => b.deps = c.deps
  /\ \A u \in owners : task.calls[u] \subseteq
                         {OfSystem(l) : l \in Declared(u, task.flavor)}

\* "One order that works for all of them": what passes the check links, for every
\* program, with either kind of linker, though it reads each input once.
EverythingLinks ==
  Did("link") /\ WellDeclared => result[1].needed = {}

\* A machine that has what `calcc build` said a program needs.
Provides(machine, notes) ==
  /\ \A n \in notes : n[1] = "command" => machine.path[n[2]] = "works"
  /\ (\E n \in notes : n[1] = "cache") => machine.cache

Machines ==
  [path : [DOMAIN task.path -> {"works", "broken", "absent"}], cache : BOOLEAN]

\* What `check_command` leaves unchecked: that a program that is in its bundle can
\* be executed, if the manifest has no probe for it.
CanBeExecuted(b) ==
  \A c \in Range(IpcCommand(b, task.family)) :
    InBundle(c) /\ ~c.probe =>
      \A f \in FilesAt(task.dirs[b.bundle[1]], c.program[2]) : Executable(f.mode)

\* "Exactly what will be used": a program that was built makes every call on any
\* machine that has what the notes list, and runs there the files of the bundle it
\* was built with, on whatever platform and with whatever manifest, as long as the
\* names of the files are safe.
NotesAreEnough ==
  Did("deploy") =>
    \A b \in Range(task.used) :
      LET source == IF b.bundle = <<>> THEN <<>> ELSE ReadBundle(task.dirs[b.bundle[1]])
      IN  (\A n \in DOMAIN task.dirs : AllSafe(task.dirs[n])) /\ CanBeExecuted(b) =>
            \A machine \in Machines :
              Provides(machine, result[1].notes) =>
                RunEmbedded(b, task.family, result[1].object, machine) = <<"started", source>>

\* "Doesn't depend on directory order": one set of files always gets one directory
\* in the cache.
OrderIsNoMatter ==
  Did("deploy") =>
    LET turned == [n \in DOMAIN task.dirs |-> Reverse(task.dirs[n])]
    IN  BundleObject(PrepareFor(task.used, task.family, task.path, turned)[1].blob)
          = result[1].object

\* `print` answers whatever it is asked: a number that JSON has no notation for comes
\* back as it is, for each side reads what the other writes, though they spell it
\* differently; a finite one comes back finite, and as it is if its digits are few.
\* One of more digits may come back as a neighbour, although it "returns its argument".
PrintAnswers ==
  Did("print") =>
    LET x == task.number IN
    /\ result[1] # <<>>
    /\ IsFinite(x) => IsFinite(result[1][1])
    /\ ~IsFinite(x) \/ Short(x[2]) => result[1][1] = x

\* "The compiled program's answer": the exit status is the answer's integer part
\* where a status can hold it; an answer beyond any i32 ends like the i32 nearest
\* to it, and one that is not a number like 0.
StatusIsTheAnswer ==
  Did("exit") =>
    LET x == task.number
        whole == IF IsFinite(x) THEN Truncated(x[2]) ELSE 0
        huge == x = Infinite \/ whole > IntMax
        tiny == x = MinusInfinite \/ whole < IntMin
    IN  result[1] = CASE huge -> StatusMax [] tiny -> 0 [] OTHER -> whole % (StatusMax + 1)

\* "So the packing and unpacking sides can't disagree on it": what `calcc build`
\* embeds, the executable can read.
SidesAgree ==
  Did("deploy") => Parse(EmbeddedBlob(result[1].object)) # None
=============================================================================
