------------------------------ MODULE Manifest ------------------------------
(***************************************************************************)
(* The built-in manifest, calc-builtins/src/lib.rs: what each built-in is. *)
(***************************************************************************)
EXTENDS Naturals

Builtin == {"add", "mul", "sub", "print"}

Symbol == [add |-> "calc_add", mul |-> "calc_mul", sub |-> "calc_sub", print |-> "calc_print"]

Arity == [add |-> 2, mul |-> 2, sub |-> 2, print |-> 1]

\* The kinds NativeRust, Ffi and Ipc.
Kind == [add |-> "rust", mul |-> "rust", sub |-> "ffi", print |-> "ipc"]

\* What an IPC built-in needs of the machine: its command on PATH, as
\* `{bundle}` is among the arguments and not the program, and its bundle.
BundleName(f) == f
RuntimeRequirements(f) ==
  IF Kind[f] = "ipc" THEN {<<"command", f>>, <<"cache", BundleName(f)>>} ELSE {}
=============================================================================
