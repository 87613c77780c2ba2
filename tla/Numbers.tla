------------------------------- MODULE Numbers -------------------------------
(***************************************************************************)
(* How numbers leave a program: over the JSON protocol to an IPC built-in  *)
(* and back, calc-runtime/src/ipc_runtime.rs and ipc/print; and as the     *)
(* exit status of a compiled program, `define_c_main` of both backends.    *)
(*                                                                         *)
(* A number is <<"finite", n>> for n halves, or one of the other three.    *)
(***************************************************************************)
EXTENDS Integers

CONSTANTS IntMax,       \* the largest i32: all ones
          StatusMax,    \* the largest exit status a system hands on: all ones
          Exact,        \* 2^53: every integer up to it is an f64
          Slip          \* how many f64s off serde_json may read a long number

\* What fills an i32 leaves its low bits all ones.
ASSUME BothAllOnes ==
  StatusMax \in Nat /\ IntMax \in Nat /\ (IntMax + 1) % (StatusMax + 1) = 0
ASSUME ReadingErrs == Exact \in Nat /\ Slip \in Nat

Infinite == <<"inf">>
MinusInfinite == <<"-inf">>
NotANumber == <<"nan">>
IsFinite(x) == x[1] = "finite"

F64 == {Infinite, MinusInfinite, NotANumber} \cup ({"finite"} \X Int)

-----------------------------------------------------------------------------
(* The JSON protocol.  A value is a number, a string, or no JSON at all.   *)
(* Both sides write a finite number as the shortest decimal that rounds to *)
(* it; the model names the text by that number.                            *)

\* f64::to_string, and Python's str: they differ in one.
RustSpelling(x) == CASE x = Infinite -> "inf" [] x = MinusInfinite -> "-inf" [] x = NotANumber -> "NaN"
PythonSpelling(x) == CASE x = Infinite -> "inf" [] x = MinusInfinite -> "-inf" [] x = NotANumber -> "nan"

\* str::parse::<f64> and Python's float() of these, upper or lower case.
Read(text) == CASE text = "inf" -> Infinite [] text = "-inf" -> MinusInfinite
                [] text \in {"nan", "NaN"} -> NotANumber

\* json!(x) of what is not finite is null.
Json(x) == IF IsFinite(x) THEN <<"number", x>> ELSE <<"null">>

\* A mutant: every number is a JSON number.
EncodeAsNumber(x) == Json(x)

\* encode
Encode(x) == IF IsFinite(x) THEN Json(x) ELSE <<"string", RustSpelling(x)>>

\* formatting.py: decode, whose numbers Python rounds correctly; encode, of which
\* json.dump writes a number that is not finite as a word that is not JSON.
PythonDecode(v) == IF v[1] = "number" THEN <<v[2]>> ELSE IF v[1] = "string" THEN <<Read(v[2])>> ELSE <<>>
PythonDump(x) == IF IsFinite(x) THEN <<"number", x>> ELSE <<"not JSON">>

PythonEncode(x) == IF IsFinite(x) THEN PythonDump(x) ELSE <<"string", PythonSpelling(x)>>

\* serde_json without `float_roundtrip` multiplies or divides the digits, as one
\* integer, by a power of ten.  That is exact for few digits, here a number of
\* tenths; otherwise it may end up beside the nearest f64.
Short(n) == 5 * n \in (0 - Exact)..Exact
BestEffort(n) == IF Short(n) THEN {n} ELSE (n - Slip)..(n + Slip)

\* decode, any of whose outcomes the library may give: <<>> for anything that is
\* neither.
Decode(v) == CASE v[1] = "number" -> {<<<<"finite", n>>>> : n \in BestEffort(v[2][2])}
               [] v[1] = "string" -> {<<Read(v[2])>>}
               [] OTHER -> {<<>>}

\* What `call` may return of `print`: <<>> if either side fails.
Printed(x) ==
  LET there == PythonDecode(Encode(x))
  IN  IF there = <<>> THEN {<<>>} ELSE Decode(PythonEncode(there[1]))

-----------------------------------------------------------------------------
(* The exit status                                                         *)

IntMin == 0 - IntMax - 1

\* Rounded towards zero.
Truncated(halves) == IF halves >= 0 THEN halves \div 2 ELSE 0 - ((0 - halves) \div 2)

\* A mutant: a conversion that keeps the low bits.
WrappedToInt(x) ==
  IF IsFinite(x) THEN ((Truncated(x[2]) - IntMin) % (2 * (IntMax + 1))) + IntMin ELSE IntMin

\* fcvt_to_sint_sat, llvm.fptosi.sat
SaturatedToInt(x) ==
  CASE x = NotANumber -> 0
    [] x = Infinite -> IntMax
    [] x = MinusInfinite -> IntMin
    [] IsFinite(x) -> LET n == Truncated(x[2])
                      IN  IF n > IntMax THEN IntMax ELSE IF n < IntMin THEN IntMin ELSE n

\* main returns it, and a Unix system hands on the low eight bits.
ExitStatus(x) == SaturatedToInt(x) % (StatusMax + 1)
=============================================================================
