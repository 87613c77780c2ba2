# A formal model of calc-lang

TLA+ models of calc-lang (`src/calc-lang`), its compiler `calcc` and the
programs `calcc` makes, checked with TLC on small instances and, for bundle
unpacking, the link step, IPC calls, lowering, the bundle format and numbers,
proved with TLAPS for every instance. `PROJECT.json` lists,
for machines, what this file says for readers: the components, the runs, which
lines each definition stands for, the hazards and the theorems.

## The system

calc-lang is a small expression language: numbers, names, `+ - * /`, `if`,
blocks with `let`, and `print`. `calcc` has three commands, which share the start
of one pipeline: `check` ends after resolution.

    source ─ parse ─ resolve ─ lower ─┬─ interpret                  (calcc run --interpret)
           (calc-syntax)    (calc-ir) └─ codegen ─ runtime_deps ─ link   (calcc build)
                                          │                        │
                                          └─────── executable ◄────┘
                                                      │ calc_print
                                                      ▼
                           unpack the embedded bundle, spawn its program,
                           one JSON request, one JSON response (calc-runtime)

| Component | State it keeps | Operations | Hard behaviours | What makes it correct |
|---|---|---|---|---|
| Parser (`calc.lalrpop`) | a stack of trees | one reduction per production | none beyond shape | every tree comes from some text |
| Name resolution (`resolve.rs`) | a stack of scopes, the errors | one walk | shadowing, order of binding | reports exactly what breaks lexical scoping |
| Lowering (`ast_to_ir.rs`) | scopes, instruction lists, `next_temp`, the call stack | `lower_expr` | temps of one branch read in another, two passes that disagree on scopes | the code can be executed on every path, and means what the source does |
| Interpreter (`interp.rs`) | `TempStore`, the blocks being executed | `exec_instr` | a built-in that fails half way | value and output are the source's |
| Built-ins and IPC call (`calc-runtime`) | a child process and three pipes per call | `call`, `run`, `spawn` | early exit of the child, full pipes, no timeout | an answer or a message that says why not |
| The print program (`ipc/print`) | none | one request, one response | numbers that JSON has not, numbers of many digits | answers every number, and no other than it was asked where JSON keeps it |
| Bundle unpacking (`unpack`) | the per-user cache directory, shared by every process | `bundle_dir`, `unpack` | races of first runs, crashes, process ids that come back, cache cleaners, power failures | nobody sees or runs half a bundle, or another's |
| Code generators (`cranelift_backend.rs`, `llvm_backend.rs`) | variables, or value tables and phis | `lower_instr`, `define_c_main` | merge points, exit codes | what the interpreter does |
| Run-time dependencies (`runtime_deps.rs`, `calc-builtins`) | none | `used_builtins`, `check_command`, `read_bundle`, `runtime_requirements` | built-ins in one branch only, one machine builds and another runs | what is packed and noted is enough to run |
| Bundle format (`bundle_format.rs`) | none | `pack`, `parse` | widths of counts, short input | `parse` inverts `pack`, and refuses the rest |
| Link step (`link.rs`, `build` in `main.rs`) | object files next to the output | `link`, `TempFile::drop` | concurrent builds, failures between two files, leftovers | the program is linked from the build's own objects, which do not linger |
| Link units and symbol check (`link.rs`) | none | `link_units`, `check_symbols`, `link_args` | a symbol in two units, tables that cannot be read | every symbol comes from its own unit |
| Backend selection (`backend.rs`) | none | `select` | no name, several backends | one backend, or an error |
| Runtime artifacts (`calc-runtime-artifacts`) | none | `dep_info_paths` | blanks and colons in paths | the paths cargo wrote |
| clap's arguments, build scripts, `calc-lsp` | none | | | |

The components interact through values (a tree, a `Program`, object bytes, a
packed blob) and, in two places, through the file system: the object files next
to an output, and the bundle cache. Those two are where processes that know
nothing of each other meet, and where the concurrency of the system is. The
compiler itself is one thread.

## Modules

| Module | Models | |
|---|---|---|
| `BundleStore` | what `unpack` promises: bundles appear whole, in one step, and are then only reused | abstract specification |
| `BundleUnpack` | `unpack` and its callers, one action per file system call | implements `BundleStore` |
| `BundleCache` | the same in a cache that is cleaned, on a machine that loses power | EXTENDS `BundleUnpack` |
| `CallPromise` | what a program may rely on when it calls IPC built-ins | abstract specification |
| `IpcCall` | `call`, `run`, `spawn` and `parse_response`, with the child, three pipes and stdout | implements `CallPromise` |
| `Ast` | the tree types of `ast.rs` | |
| `Float` | f64 values, left abstract | |
| `Manifest` | the built-ins: symbols, arities, kinds, what they need | |
| `Parse` | the LALRPOP grammar, one action per production that builds a tree | |
| `ScopeWalk` | one step of `resolve_expr`, from an expression to its parts | |
| `Resolve` | `resolve`, as operators: the walk of a whole tree | instantiates `ScopeWalk` |
| `Lower` | `lower_expr`, as a machine with an explicit call stack, and what its code must satisfy | |
| `Interp` | `exec_instr`, as a machine | EXTENDS `Lower` |
| `Codegen` | both code generators, as operators on a builder of basic blocks | |
| `Native` | what a function of basic blocks computes, and when it is well formed | external |
| `RuntimeDeps` | `used_builtins` and `prepare` | |
| `Calcc` | `calcc check`, `calcc run --interpret` and `calcc build` up to linking, with the choice of a backend, then the executable | EXTENDS all of these |
| `Binding` | lexical scoping, one step from an expression to its parts | reference definition |
| `Evaluation` | what an expression computes and has print, one step from it to its parts | reference definition |
| `Semantics` | what programs mean, independently of the compiler | reference definition, instantiates `Binding` and `Evaluation` |
| `LinkStep` | the files of `calcc build` and its link step, by builds that may overlap | |
| `BundleFormat` | `pack`, `parse` and the path check | |
| `Deploy` | an IPC built-in from the manifest over `prepare` to `run`: commands, requirements, bundles on disk and in the executable | EXTENDS `BundleFormat` |
| `LinkUnits` | `link_units`, `check_symbols` and `link_args`, and the linker | |
| `Archive` | `archive_symbols` | |
| `DepInfo` | `dep_info_paths` of the build script | |
| `Numbers` | numbers over the JSON protocol, on both sides, and as an exit status | |
| `BuildParts` | the last six on every bounded input | EXTENDS or instantiates them |
| `LinkStepProofs`, `IpcCallProofs`, `BundleFormatProofs`, `BuildPartsProofs` | | theorems about the module each is named after |
| `BundleCacheProofs` | | theorems about `BundleUnpack` and `BundleCache` |
| `LowerProofs` | | theorems about `Lower`, about `Interp` after it, and about `ScopeWalk` before it |
| `MeaningProofs` | | a theorem about `Lower` and `Interp`, beside `Evaluation` |
| `DataInduction` | | lemmas: induction over numbers, sequences that are put together from others, division |
| `MCBundleUnpack`, `MCBundleCache`, `MCIpcCall`, `MCCalcc`, `MCLinkStep`, `MCBuildParts` | instances for TLC | |

Definitions whose comment starts with "A mutant" are wrong variants of the
definition that follows them, of the kind a bug in that code would be. No
specification uses them: putting one in the place of the original must break
the property `PROJECT.json` pairs it with.

### Bundle unpacking

`final[d]` is the directory `<name>-<hash>`, `staging[d][n]` its temporary
sibling of the process with id `n`. A file has a stage (there, written, ready:
with its permissions) and the bundle it is from. `pc[p]` is the next file system
call of process `p`: `Check` (190-192), `RemoveFile`/`RemoveDir`/`RemoveFails`
(199, 215; `remove_dir_all` takes files one by one and its result is ignored),
`MakeParent`, `Open`, `Fill`, `Chmod` for each file (200-209; `fs::write` is two
steps, the bytes go to the open file wherever it is by then), `MakeStaging`
(210), `Rename` (211) and `Lost` (213-218). `Start` gives a process an id no
live process *of its host* has, so ids come back; `Crash` stops a process
anywhere; `IoError` makes any fallible call fail. After a call the program may
call again or end.

Abstracted: file contents and names, subdirectories, and the cache root, which
is one directory. A directory is named by a 64-bit hash of the bundle; that two
bundles have different names is the assumption `NoHashCollision`. A crash is the
death of a process: what it wrote stays written. Windows, where `rename` does not
replace an empty directory, is not distinguished.

`BundleCache` adds what else happens to a cache directory. A cleaner removes the
files of a bundle or staging directory one by one, and the directory if it is empty
by then (`CleanStarts`, `CleanFile`, `CleanDir`). Nothing in `unpack` waits for the
disk, so a directory is not `durable` until the kernel says so (`Flush`), and
`PowerFails` ends every process and may leave files of the others without their
bytes. Three variables are history. `spoiled` are the directories in place that lost
files to a cleaner or bytes to a power failure, or were renamed there after a cleaner
took files from them; they are that until they are removed or replaced. `robbed` are the processes whose
staging directory a cleaner took files from during their latest call, `disturbed` those
that a cleaner met there or in the bundle's directory. The faults of `BundleUnpack`
are off in its run, so that what is left is due to these two.

### A call of an IPC built-in

`host` is the program the parent code runs in. In the interpreter, `calcc`, main
is Rust's: SIGPIPE is ignored and stdout is flushed at exit. In a compiled program
main is the C function the code generators emit: SIGPIPE has its default and
nothing flushes. `phase` is where the parent is: `BundleDir` (75-89, with
`BundleFails` for 136-146), `Spawn`, `WriteRequest` or `BrokenPipe` (113-118: the
write and the drop that closes stdin, whose error is ignored), `Collect` and `Wait`
(119-121), `Fail` and `Answer` (122-129, 222-247, 67-71). `Relay` is `print!` through
the line buffer, `Leave` the end of the process.

`CallPromise` knows nothing of pipes: a program asks, the external program comes to
one verdict, a response or none, and a call that returns has relayed that response.
A program gives up only if there was none; a compiled one may also be killed after
the verdict, as `ipc_sigpipe` shows. `Promise` in `IpcCall` is the mapping: the
verdict is there when the child has ended, and what has been heard is stdout with
the line buffer behind it. An unfinished last line is lost at the end of a compiled program, whose C main does not flush Rust's
stdout: `CallPromise!Over` says so. The `print` bundle ends its lines, so that none
of today's built-ins is concerned.

The child is external: it runs a script, a sequence of writes, reads, a fork, an
exit or a hang, and `ChildDies` kills it anywhere. An `heir` is a process the child
left behind, holding the ends of its pipes. A response is three pieces on the wire;
what it says beyond its `output` is not told apart. The request is never larger
than a pipe, so writing it does not wait: one number or one string, against 64 kB.

### The compiler

A program is chosen by running the parser: `Parse` reduces what is on its stack
by any production, so `ast` ranges over every tree with at most `MaxSize`
literals and identifiers. The branches of an `if` are blocks, as the grammar has
it; `MaxBraces` bounds only the other braces around a lone expression, which blocks
with statements do not count for. Precedence and parentheses only decide which tree
a text is, so they are not modelled; texts that do not parse end `calcc` before
anything modelled here.

`Check` is `resolve` and the start of `lower`. In `Lower` a frame is one
activation of `lower_expr`; it records how many recursive calls it has made, so
each action is the code between one call or return and the next. The IR nests
blocks in `If`; the model numbers blocks in the order lowering opens them, and
`entry[b]` remembers what was written on the way into block `b`. In `Interp`
each action executes one instruction. Where the Rust code would panic (`lookup`,
`TempStore::read`, the arity check) the machine has no step, and an invariant
says that it never gets there. `CallFails` is a built-in whose program fails.

`Select` is `backend::select` over any set of enabled backends. `Build` is
`backend.compile` and `prepare`. A builder holds basic blocks and the
table of temps: in Cranelift a temp is a variable, declared beforehand
(`collect_temps`), in LLVM a value, with a phi after each `if`. A temp the table
lacks is a `Panic` operand, which no well-formed function has. `Native` is what the
two code generators are given: `WellFormed` is what LLVM's verifier and Cranelift's
check, `Execute` what the function computes. `Launch` runs it, and may stop at any
`calc_print`, as one that fails aborts the program.

f64 arithmetic is symbolic: a value is the expression that computed it. Literal
`0` is false, `0 / 0` is not a number, and everything else is true. Two
computations agree only if they did the same operations on the same operands in
the same order. So `-0.0`, which `interp.rs` 114 takes for false, would be true in the
model. What the C main makes of the value is in `Numbers`.

### The link step

`pc[b]` is the next file system call of build `b`. `FrontEnd` stands for all that
`build` does before it writes a file: it succeeds or ends the build. Writing a
file is two steps, and a file half written is `Torn`. The linker is external: it
reads the object, reads the bundles, and writes the program or fails; it
refuses input that is not whole, and an output that is one of its inputs (as GNU
ld does). `Leave` and `Drop` are the `TempFile` guards that exist at each `?`
and at the end, in their order. A path is a stem and an extension, so that
`with_extension` is what it is: `-o a`, `-o a.exe` and `-o a.o` share `a.o`.

Two history variables make the properties exact. `met` holds the builds that
were at work at the same time as another of their stem: those share object files,
and `SuccessIsItsOwn` promises nothing of them, since the code does not.
`stuck` holds the files that a write or a removal failed on.

### The parts that touch nothing

`BuildParts` applies a pure part to one input, a `task`, and stops. The tasks are
enumerated by `MCBuildParts`; each action names the code that calls the part.

* `BundleFormat` writes numbers as digits of base `Base`: one digit stands for a `u32`
  or a byte, two for a `u64`, so that a number cut to 32 bits on its way would show.
  The hash is a constant.
* `Deploy` follows an IPC built-in. A manifest entry has any commands, for any
  platform, with a program on PATH or in the bundle (`{bundle}` in it), references to
  the bundle in its arguments, a probe or none, and a bundle or none. The machine that
  builds has programs on its PATH that work, are broken or absent, and bundle
  directories whose files come in any order. `PrepareFor` is `prepare` with
  `check_command` and `read_bundle`; `BundleObject` and `EmbeddedBlob` are the two ends
  of the executable; `RunEmbedded` is `run` on another machine, up to the child's
  start. Files in subdirectories are files with a slash in their path. A file of the
  bundle that may be executed is taken to start, and to work, on the other machine.
* `LinkUnits` takes a manifest, a description of each archive (absent, with a symbol
  table `archive_symbols` can read, or without, and the symbols it defines), and the
  libraries rustc reported for the runtime archive. `LinkArgs` gives the arguments for
  both flavors, `/link` of `cl.exe` included. `Linked` is the external linker, which
  takes from each archive, once and in order, what is still needed, and what the
  members it takes need.
* `Archive` and `DepInfo` read files that other tools wrote, as sequences of cells or
  characters; a cell count takes two cells, so that the count has a high byte. They also
  say what those tools write (`IsTableOf`, `Rule`), whatever the offsets, the padding and
  the other rules are. `BuildParts` extends both; `TableFits` and `DepInfoFits` say that its
  inputs are such files, which for an archive may be cut off anywhere.
* `Numbers` has numbers as halves, infinities and NaN. Rust and Python both write a
  finite number as the shortest decimal that rounds to it, so the model names the text by
  that number. Python reads it correctly rounded. Rust reads it with `serde_json`, which
  `calc-runtime` has without `float_roundtrip` (`Cargo.toml` 13): exactly while the digits
  make an integer of at most `Exact`, which stands for 2^53, and otherwise as any number up
  to `Slip` places away. An `i32` has `IntMax + 1` values above -1, an exit status
  `StatusMax + 1`.

## Runs

| Run | Bounds | Shows |
|---|---|---|
| `unpack_crash` | 4 processes, 3 with one bundle of two files and 1 with one of one file, 2 process ids, all faults | `NoHalfWrittenBundle`, `RunsItsOwnBundle`, `InstalledIsImmutable`, the inductive invariant `IInv`, which has the types, and that `BundleStore` is implemented |
| `unpack_cleaned` | 2 processes with one bundle of two files, 2 process ids, 2 cleanings, 1 power failure, `FairCacheSpec` | `HalfOnlyAfterFault`, `RunsWholeUnlessSpoiled`, `CallsRecover` |
| `unpack_shared_cache` | 4 processes on 2 hosts, 1 process id, crashes and failing calls | `NeverMixesBundles`, `NoLitter` |
| `unpack_two_hosts` | 2 processes on 2 hosts, 1 process id | violates `NoHalfWrittenBundle` |
| `ipc_calls` | 2 calls, pipes of 1 piece, 2 hosts, every script that writes one of 8 texts, reads before, after or never, adds two diagnostics before, after or never, and exits with 0 or 1, forks or hangs; `FairSpec` | `TypeOK`, `OutputIsInOrder`, `FailuresSayWhy`, `CallsEnd`, and that `CallPromise` is implemented |
| `ipc_sigpipe` | the same | violates `WriteErrorsAreExplained` |
| `calcc_deep` | 5 leaves, 1 name, 1 literal, `/` | `TypeOK`, `ResolveIsExact`, `ResolvedProgramsLower`, `ReadsAreWritten`, `WrittenOnce`, `MeaningIsKept`, `GeneratedIsWellFormed`, `ShipsWhatItCalls` |
| `calcc_live` | 3 leaves, 2 names, 2 literals, `/` and `-`, 1 more pair of braces, `FairSpec` | `ReadsSucceed`, `MeaningIsKept`, `EveryProgramEnds` |
| `link_builds` | 3 builds at any time, 2 with one stem, 1 of them `--keep-object`, 1 with another stem, all faults | `TypeOK`, `LingersOnlyIfStuck`, `SuccessIsItsOwn`, `ObjectsAreKept` |
| `link_write_fails` | 1 build, failing writes | violates `NothingLingers` |
| `build_parts` | base 5; one file with any path of up to 4 characters, up to 2 bundles or 2 files, a file longer than one digit counts; any blob of up to 3 digits, and of up to 6 after the magic number; symbol tables of up to 4 names over cells of 4 values, padded, cut anywhere; dep-info of up to 2 paths of up to 3 characters; 2 built-ins of 3 units with any archives, or with archives in order and up to 2 system libraries, in both flavors; 1 built-in with any command or one per platform, or 2 that may share a bundle of up to 2 files; every half up to 3 times `IntMax` = 7, statuses up to 3, `Exact` = 30 tenths, `Slip` = 2 | `RoundTrips`, `AcceptsOnlyPacked`, `FilesStayInside`, `ToolFilesAreRead`, `EachFromItsOwn`, `EverythingLinks`, `NotesAreEnough`, `OrderIsNoMatter`, `PrintAnswers`, `StatusIsTheAnswer` |
| `sides_agree` | the built-ins and bundles of `build_parts` | violates `SidesAgree` |

Why the bounds are enough to be worth something.

* Unpacking: a race needs two processes and a third that finds what they left; a
  process id comes back when a fourth starts after a crash with two ids; two files
  make "half written" and "half removed" different from empty; the second bundle is
  there to be mixed in. The theorems remove the bounds.
* A cleaned cache: the second process is the one that loses a race, or comes back
  with the first's id after a power failure; the second cleaning meets what was
  unpacked again after the first.
* IPC calls: the response has three pieces and a child may write two diagnostics, so
  a pipe of one piece fills on both streams, whichever the parent reads first; the
  second call is there to meet what the first left in the line buffer.
* Compiler: five leaves are what it takes to shadow a name in a branch, or to put an
  `if` in a branch of an `if`. One literal is enough there: `0` is false and `0 / 0`
  true. The other name and literal and the built-in call `-` are in `calcc_live`, so
  that conditions there go either way;
  `+` and `*` are calls like `-`.
* Link step: a stale file needs one build before, an overlap one beside.
* Bundles and blobs: four characters are a path with a `..` in it; six digits after
  the magic number are one bundle with no file. A bundle with a file is too long to be
  met by trying blobs, so the format of files is covered by packing them.
* Tables and dep-info: four names need both cells of the count, and three characters
  are a drive, a colon and a blank.
* Links: two built-ins are enough for each to be found in the other's unit, and for
  two entries of one library; two libraries for one of them to be left out.
* Deployment: two built-ins share a bundle or need the same program; two files have an
  order, and one of them may have a name that is not safe.
* Numbers: the range passes both ends of an `i32` and of a status, by halves, and what
  `Exact` reads exactly.

Deadlock checking is off: processes, builds, calls and programs end.

### Findings

* `unpack_two_hosts`: the comment on `unpack` (185-186) says a concurrent first
  run cannot see a half-written bundle. The staging directory is named by bundle
  and process id alone (197). Two containers, or two machines with one home
  directory, share the cache and not the ids: both write to one staging
  directory, and the first rename installs it while the other still writes.
  Within one process id space it cannot happen, which is the theorem
  `NeverHalfWritten`; and even then only files of the right bundle get in
  (`NeverMixesBundles`).
* `ipc_sigpipe`: the comment on the write of the request (114-115) says an error
  means that the child has exited, and that its status says why. In a compiled
  program SIGPIPE is not ignored: the write ends the program, without a message.
* `link_write_fails`: the comment on `TempFile` (446-447) says the object file
  does not linger whether or not linking succeeds. It is written by
  `fs::write(..)?` (156) before the guard exists (157), and so are the bundles
  (159, 160): on a full disk, what was written of it stays.
* `sides_agree`: the format is defined once "so the packing and unpacking sides can't
  disagree" (`bundle_format.rs` 3-4). `read_bundle` takes file names as they come
  (`runtime_deps.rs` 193), `pack` writes them, and `parse` refuses the whole blob if
  one of them has a colon or a backslash, which Unix allows. Such a program builds
  without a word and panics in every call that needs a bundle. The one bundle there
  is today has no such file.

Cases that properties leave out by a hypothesis, because the code leaves them out:

* A directory that lost its bytes to a power failure, or files to a cleaner, is
  trusted for as long as it is there: `dir.is_dir()` (190) is all that is asked of it.
  Every later call of every program with that bundle, disturbed by nothing itself, is
  handed half a bundle, and its program may fail. Nothing in the code repairs this, and
  no property here denies it: `HalfOnlyAfterFault` says which directories are concerned,
  `RunsWholeUnlessSpoiled` that a call which is given any other runs in the whole bundle, and
  `CallsRecover` that nobody waits for ever. A cleaner that empties a staging directory during a
  call can get half a bundle installed, too; that directory counts as spoiled.
* A finite number of many digits may come back from `print` as a neighbouring f64: for
  1/11, `0.09090909090909091`, `serde_json` reads 0.09090909090909093. The documents say
  that `print` "returns its argument" and `decode` calls itself the inverse of `encode`
  (`ipc_runtime.rs` 240). `PrintAnswers` promises the very number only where the digits are
  few, as halves have them up to about 9·10^14. Nobody sees the difference today: no program
  can use what a `print` returns (`DECISIONS.md` 404-408).
* `exports` (link.rs 440) takes `_f` for `f` on every platform. `EachFromItsOwn` and
  `EverythingLinks` suppose that the archives concerned export no such symbol; where
  one does, a check that passes does not mean that the link does.
* A second built-in of a library adds no unit, and what it alone declares in
  `link_deps` is dropped (link.rs 229-231). `EverythingLinks` supposes that the entries
  of a library agree; there is one such entry today.
* A program in its bundle that has no execute permission and no probe passes
  `check_command`; `NotesAreEnough` supposes that it can be executed.

## Fairness

* `BundleCache!FairCacheSpec` is weak fairness of each process's next call in `unpack`:
  the operating system keeps running a process that can run, and no call waits for
  another process. Nothing is assumed of the cleaner, of power, or of when bytes reach
  the disk. `CallsRecover` promises that a call comes to an end: in a whole bundle or a
  spoiled directory, or by failing if a cleaner was at its own directories meanwhile, or
  with the power.
* `IpcCall!FairSpec` is weak fairness of the parent, which is one thread, and of the
  child's script, which goes on unless it waits for a full pipe or for its request,
  or hangs. Nothing is assumed of a process the child leaves behind; `CallsEnd`
  excepts a call whose child hangs or has left one, as the code has no timeout.
* `Calcc!FairSpec` is weak fairness of the passes after parsing and of the
  executable: one thread with nothing to wait for. Which program is parsed, or
  whether any is, is up to the environment and not fair.
* `LinkStep` states no liveness: the linker is external and need not end. `BuildParts`
  has one step.

## Proofs

`PROJECT.json` lists the theorems. Each holds for every value of the constants that
satisfies the named assumptions of its module, which TLC evaluates in each run, and
the hypotheses in its statement.

| Module | Theorems | Beyond the module's own assumptions |
|---|---|---|
| `BundleCacheProofs` | `Invariance`, `TypeCorrect`, `NeverHalfWritten`, `AlwaysRunsItsOwn`, `NeverTouched`, `Implementation` | `OnePidSpace` |
| | `NeverMixed` | none: any hosts may share the cache |
| | `OnlyFailuresLitter` | `"remove" \notin Faults`: a removal that fails leaves litter |
| | `CacheInvariance`, `HalfNeedsAFault`, `RunsWhole` | `OnePidSpace` |
| `LinkStepProofs` | `Invariance`, `TypeCorrect`, `NothingElseLingers`, `SuccessMeansItsOwn`, `KeptObjectsAreItsOwn` | none |
| `IpcCallProofs` | `Invariance`, `TypeCorrect`, `OutputInOrder`, `FailuresExplained`, `ImplementsPromise` | none |
| `LowerProofs` | `Invariance`, `OperandsAreWritten`, `NoTempIsShared`, `InterpreterReads` | `IsAst`: the parts of an expression are expressions |
| | `NamesAreFound` | also `IsNamed`, that names are strings, and `IsWalk`, that `ResolveExpr` takes the steps of `ScopeWalk` and reports errors |
| | `ResolutionIsExact` | also `IsBinding`, that `FreeNames` and `BindsOnce` take the steps of `Binding`, and `IsTree`, that expressions are finite trees of the kinds in `ast.rs` |
| `MeaningProofs` | `InterpreterMeans` | `IsAst`; `IsKinds`, that expressions and statements are of the kinds in `ast.rs`; `IsNumeric`, that literals are values and operations make values of values; `IsEval`, that `Eval` and `After` take the steps of `Evaluation` |
| `BundleFormatProofs` | `ParseReadsPacked`, `ParseReadsOnlyPacked` | none |
| `BuildPartsProofs` | `Invariance`, `PackAndParseAgree`, `NothingElseIsAccepted`, `FilesAreInside`, `EachIsItsOwn`, `EverythingDoesLink`, `NotesSayAll`, `OrderDoesNotShow`, `ToolFilesComeThrough`, `EveryNumberIsAnswered`, `EveryStatusIsTheAnswer` | none |

The assumptions on constants are types, and: `NoHashCollision`, that two bundles have
different names (`BundleUnpack`); `Bounds`, that a pipe holds something and a child's
script is a sequence of steps (`IpcCall`); `BaseIsEnough`, that the digits of the format
are more than a magic number needs (`BundleFormat`); `BothAllOnes`, that an `i32` is a
whole number of exit statuses wide (`Numbers`); `InputsFit` (`BuildParts`), that what is
packed fits the fields, which cut a length that does not without a word, and `LinkFits` of
each link: its lists are whole, `rustc` reports options of the linker only to the linker
that has them, a program uses built-ins of the manifest, and no archive's code calls a
built-in by its symbol but the interpreter's table, which calls all; and `DeployFits` of each
deployment: its bundles fit, with one file of a path, and a built-in's bundle is one of them;
and `TableFits` and `DepInfoFits`: the names of a table have no NUL in them, and a path
that cargo lists is not empty, has no end of line in it and does not end with a backslash,
which would escape the blank that ends it. `OnePidSpace`
is the hypothesis `unpack_two_hosts` shows to be necessary.

### Unpacking

`NoHalfWrittenBundle` is not inductive: that a rename installs a
whole bundle depends on what its process did before. `Achieved(p)` says what `p`
has done by the time it is where it is: files before the loop's are ready, the
loop's own is as far as the label says, and at the rename all are.
`LivePidsDiffer` keeps other live processes out of `p`'s staging directory.
`StagedFilesBelong` covers what a dead process left there: it may be litter, but
of this bundle, and every file of the bundle is overwritten before the rename,
so none is left that should not be. `NothingInAbsent` and the types close it.

`OthersKeep` shows once that a step of `p` that touches only its own
staging directory keeps every other process's `Achieved`; `NoWriteKeeps` and
`StagingWriteKeeps` package that for steps that write nothing and steps that
write in staging; `FileStepKeeps` does it for the three steps on the loop's file;
`RenameKeeps` is the one step that changes `final`. Each action of `Next` then
has a lemma of a few lines. `InstalledStep` and `StepImplements` follow from the
invariant and the one fact that only `Rename` changes `final` (`InPlaceStep`).

Where process ids do not tell processes apart, `Achieved` is false, and
`NeverMixesBundles` still holds. `SharedInv` is what is left of the invariant:
whatever is in a staging directory is of the bundle it is named after, because the
name has the hash. `StagedHasOwner`, on which `NoLitter` rests, says that whoever made a
staging directory is still past the check, failed or dead: each step past it either
stays there or takes the directory away.

`BundleCache` adds a cleaner and power failures, so `Achieved` becomes `Kept`. A file of the
staging directory `Stands` where its process left it, or is missing and its process was
`robbed`; whether the directory is still there is not promised. `Kept` also says what
`Achieved` had for free, that a process which found nothing in place still finds nothing
unfinished there: a power failure that spoils what is in place ends every process that looked
before, and what a robbed process renames lacks whole files, never the bytes of one
(`WholeAtRename`). And it says that what a call returned is still there, unless the call was
disturbed; `RunsWhole` is that with `HalfOnlyAfterFault`. A step of the cleaner can shorten what
several processes keep; `CleanedKept` goes through what it `Remembers` of them.

### The link step

`SuccessIsItsOwn` is about the last step of a build, `Own` about every step before:
while a build that met no other of its stem is at work, its two files are its own as far
as it has got, and so is what its linker has read. `Alone` keeps others of its stem away,
and a path belongs to one stem (`PathsOfABuild`, `ObjectFilesOfTwo`): the output of a
build of another stem is no file of this one. For `LingersOnlyIfStuck`, `Answered` names
for each file that is there a build that will remove it, keeps it or was killed, unless a
write or a removal failed on it; the types give `drops` its shape at each place of the
program, so that a step that drops one guard still answers for the other.

### A call

What reaches stdout depends on a child that may write, close, fork, hang or die at any
moment. `NothingLost` is the invariant that makes it manageable: what the child wrote is
what was read followed by what is in the pipe, on both streams, until the child is waited
for, and by then the pipes are empty. `Blame` relates each message to what is known
of the child when it is given. `LineBuffered` says that stdout ends with a whole line
until the program leaves and that the buffer holds no newline, so that
`OutputIsInOrder` survives both `Relay` and the exit. `ImplementsPromise` shows that
each step of `IpcCall` is a step of `CallPromise` under `Promise`, or a stutter: the
verdict is reached in the step in which the child ends (`ChildEndsJudges`), `Answer` is the
abstract reply (`AnswerReplies`), and everything about pipes is hidden (`PipesUnseen`). A
verdict is one output because no text is the response with two (`JudgedIs`), and it is the
one relayed because of `NothingLost`.

### Lowering

`lower_expr` is recursive over trees, and nothing about trees can be proved by induction
here; but the model has its call stack as a state variable, so that induction over
steps does it. `StackOK` says what each activation may rely on: the temps it
has kept, and every temp named by a scope it can see, are written on entry to its block
or in it (`Knows`); the activation inside of it works in the same block or in one opened
later (`Inside`, `Called`); no block an activation has still to write in has the copy that
ends an arm (`Owns`); and the `dst` of an `if` is written by copies alone. `CodeOK` has the
properties of the code itself in an inductive form: `Below` is that `next_temp` is fresh,
and `OneWrites` is `WrittenOnce` without paths. What an
instruction, a new block, a call and a return keep is said once (`PutCode`, `BlockCode`,
`PushStack`, `PopStack`), and each action has a lemma that puts those together.

The specification there is `LowerSpec`, the variables and actions of `Lower` alone. In
`Calcc` those variables change by these actions only, and those of `Interp` by its own and
by `Launch`, after which nothing is interpreted.

### Interpretation

`InterpreterReads` is of `RunSpec`, lowering and then interpretation (`calcc run
--interpret`), and joins what the first proves to what the second does. The model's
interpreter stops where `TempStore::read` would panic, so the theorem says that it is
never there. `ReadsAreWritten` is not enough for that: it takes the word of an `If`
that its `dst` gets written, and counts on `entry`, which is a history of lowering. So
there are two more inductive invariants.

* `CodeRuns`, of the code: both arms of an `if` write its `dst`, and begin with no more
  than what is written where the `if` stands (`BranchOK`); a call has as many arguments
  as the manifest says (`CallOK`). While an `if` is still being made, its activation keeps
  its part of that (`Prepares`). Appending to any block spoils none of it (`Grows`,
  `GrowsMade`).
* `RunOK`, of the stack of blocks being executed: a block that waits stands just behind an
  `if`, the block above it is one of the arms, and all that is written before that `if` has
  a value (`Waits`, `Covered`); for the innermost block, all that comes before its
  instruction has one. When an arm ends, all it writes has a value, `dst` too, so that
  the block below it is covered where it goes on. `store` only grows.

### The meaning of programs

`InterpreterMeans` is of `RunOf(program)`, lowering of one program and then interpretation:
what has been printed is the beginning of what the program says, not all of it if a built-in
failed, and at the end all of it, with the program's value as the result
(`KeepsMeaning`, the part of `MeaningIsKept` that is about the interpreter). It holds
of every program, whatever its size, names and nesting, and of any arithmetic.

The first half is that the code means something at every moment while it is being made.
`val[t]` is the value of the temp `t`, if anything ever writes it, and `pre[b][i]` what block
`b` prints before its instruction `i`: both are found as instructions are emitted, and neither
is a variable of the model. `CodeMeans` says that each instruction is true of them, where an
`if` prints what the arm it takes prints, and its arm's copies write the value of that arm. A
temp of the arm that is not taken has a value too, which nobody reads. `Known` says what each
activation has found out: the value and the output of the operands, the condition, the first
arm or the statements it is done with, as `Evaluation` has them; `Agrees` that the scopes it
can see bind each name to a temp whose value is the name's; and `Due` what it expects of its
latest call. So a call has its caller's promise to keep, and a return keeps it (`CallMeans`,
`ReturnMeans`). Both arms of an `if` are lowered, and only one has the value that the `if`
has: only the copy that ends this one is held to it (`CopiesMean`).

The second half is that the interpreter is somewhere in that code. `Performs` says that what
is stored is `val`, and what is printed is what was printed before each block began, `B`,
followed by `pre` of the place it is at; each block that waits stands behind an `if` that takes
the block above it. A copy is met only in an arm that is taken, because the body has none.
`PrintedFirst` then gives the beginning: `pre` only grows in a block.

### Name resolution

A recursive operator is beyond the provers, so the recursion is apart from its steps: in
`ScopeWalk` and `Binding` the recursive operators are constants `ResolveExpr`, `FreeNames` and
`BindsOnce`. `Resolve` and `Semantics` define those by recursion, for TLC, from an instance of
the steps; in `LowerProofs` they stay constants of which it is assumed that they take the
steps, as the recursive ones do. `Height` is any measure by which a part of an expression is
less than the whole.

`ResolutionIsExact` is what `Calcc`'s `ResolveIsExact` says of the programs of its runs, for
every expression: induction over `Height` (`AllTell`), in which a block is an induction over its
statements. `TellsOf` is the inductive form, for any stack of scopes: the names reported are the
free ones that no scope has, and a duplicate is reported just if a block binds a name twice.

`NamesAreFound` relates two pieces of code that keep scopes on their own, `resolve_expr` and
`lower_expr`. `ResolvedSpec` is `LowerSpec` with only programs that resolve. `AllResolved`
says of each activation that its expression resolves in the scopes it was called in, and that
a block's own scope has the names its statements have bound so far. A part of an expression
that resolves does so too, since the walk never drops an error (`WalkType`, `BlockResolves`).

### The bundle format

`BundleFormatProofs` shows that each field can be read back from the beginning of any digits
that start with it, leaving the rest, and that any digits from which it can be read start
with it; then the same for a file, a list of files, a bundle, and the whole blob. Lists are
read by a recursive function of the count. `FlattenSeqRests` gives what is left
after each element, and `AllNumbers` the induction.

`AllNumbers` in `DataInduction` is how induction is done: the library's theorem takes
a property as a parameter, which the provers cannot instantiate, so it speaks of the set of
numbers that have the property, and follows from the library's `WFMin`. The folds
of the community modules are functions chosen by what they satisfy; `FlattensExists` and
`AccumulatesExists` show that there are such functions, and `FlattenSeqIs` what they are.

`BuildParts` has one step. Its invariant says that the task is one of the inputs, that a
link and a deployment are what the operators make of their tasks (`LinksItsTask`,
`DeploysItsTask`), and has five properties themselves: `RoundTrips`, `AcceptsOnlyPacked`,
`ToolFilesAreRead`, `PrintAnswers` and `StatusIsTheAnswer`. The other five follow from these and the lemmas
about their operators. The arguments are in `PackedIsReadBack` and in the
lemmas about numbers: an `i32` cut to a status is the number cut to a status because the one
width divides the other (`DivisionIs`), which is `BothAllOnes`.

### Links

A linker reads its arguments once, in order, and takes an archive only if a symbol is
undefined when it gets there. `LinkedFor` folds that over the arguments, and two
invariants of the fold carry the theorems, by induction over the arguments read so far.
`Placed`: a built-in is not linked before its owner's archive, and after it from there or
not at all; this needs that no archive before it exports the symbol, which is what
`check_symbols` refuses where it can read the tables. `Expected`: whatever is still
needed is a built-in, or is offered by an argument after this one; at the end there is
none, and `Placed` says that no built-in is needed past its archive. The order of
`link_units` and `link_args` enters through `UnitsAre` and `ArgsAre`: the runtime, which calls every built-in, is before their owners, and every system library
after the units. `IInv` has `LinksItsTask`: a link that happened passed the check and is
`LinkedFor` its task.

### Deployment

`ReadBundle` is stated as what `sort_by` promises: the files in an order of their places that
puts none after one whose path is above its own. That there is such an order is `CanArrange`,
by induction over the number of files, because paths are ordered (`BelowIsOrder`, by the first
place where two differ); that there is one only, so that the directory's order does not show,
is `SortedOnce`, because a directory has one file of a path. `NotesSayAll` puts the rest
together: what is packed comes back (`EmbeddedIsPacked`), a built-in finds its own bundle among
those of the others (`BundleIsFound`), and `CanRun` says what `check_command` and the notes
leave the other machine to have. `FilesAreInside` follows a path from character to character:
each part that `parse` accepted goes one directory down (`OnTheWay`).

### What other tools wrote

`ToolFilesComeThrough` is about two readers that go through a text once, from the front:
each is a fold, and its state after any number of elements is what the proof speaks of.
`RestAt` says what is left of the text there, and `RestMoves` takes a known beginning off
it. For a table, `Got` says that after the first names, and a part of the next, these
are what was read (`NamesAreRead`); what is read stays (`ReadStays`), so that neither
padding nor a cut changes the names before it. For dep-info, `ReadTo` adds that
no escape is left open: with that `PathEnds` knows the blank between two paths from the
blank in one (`BlankIsRead`), and `BlanksAreEscaped` finds the first `": "`: what was
built may have colons and blanks, but no bare blank.

### What stays with TLC

* Liveness: `CallsRecover`, `CallsEnd`, `EveryProgramEnds`.
* `Resolve`, `Semantics`, `Native` and `RuntimeDeps` are written with recursive operators
  over trees or blocks, which the provers do not take, and so are the modules that extend
  them: `Calcc`'s `TypeOK`, `ResolveIsExact`, `MeaningIsKept`, `GeneratedIsWellFormed` and
  `ShipsWhatItCalls`. What `MeaningIsKept` says of the interpreter is the theorem
  `InterpreterMeans`; what it says of the executables of both backends is checked only. `ReadsAreWritten`, `WrittenOnce` and `ResolvedProgramsLower` are
  proved of `Lower`, `ReadsSucceed` of `Lower` and `Interp`, which have none, and what
  `ResolveIsExact` says of `resolve` is the theorem `ResolutionIsExact`.
* That the operators of `Resolve` and `Semantics` are as `IsWalk`, `IsBinding` and `IsEval`
  say: those are the definitions themselves.

## Plan

1. The composition of `IpcCall` and `BundleUnpack`, whose `run` label becomes a call.
2. `LinkStep` with the MSVC flavor, where the program's path gets an extension after
   the object files' paths are chosen.

## Not modelled

* LALRPOP's tables, tokens, precedence and error messages: only which trees there are.
* clap's parsing of the arguments, and what `--verbose` prints.
* The build scripts, which run cargo, rustc and the C compiler, except `dep_info_paths`.
* Object emission, optimisation passes and calling conventions: both code generators
  are modelled up to the functions they build.
* Which C compiler driver `cc` picks, and how its command line is quoted.
* The digits of numbers on the way through JSON: only whether they are few enough to be
  read exactly.
* `calc-lsp`, which is a placeholder that prints a line.
