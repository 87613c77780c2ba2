------------------------------- MODULE Float -------------------------------
(***************************************************************************)
(* The f64 values of calc-lang and their operations, left abstract.        *)
(***************************************************************************)

CONSTANTS Arith(_, _, _),    \* the value of `x op y`
          Zero,              \* 0.0
          IsNaN(_)           \* whether a value is not a number
=============================================================================
