------------------------------- MODULE Values -------------------------------
(***************************************************************************)
(* Values of Python and of JSON, and how calls with them fail.             *)
(*                                                                         *)
(* A value is a pair of its kind and its content.  Numbers count halves    *)
(* when they are compared, so that 1, 1.0 and 1.5 can be told apart: the   *)
(* content of an int is the number and that of a float its halves.  An int *)
(* above Largest is too big for a float.                                   *)
(***************************************************************************)
EXTENDS Integers, Sequences

CONSTANTS
    None,           \* a parameter that is not given
    Largest

ASSUME LargestAssumption == Largest \in Nat

\* What ends a call: ConstraintError, or any other exception.
Refused == <<"refused", 0>>
Raised == <<"raised", 0>>
Failed(v) == v \in {Refused, Raised}

Verdict(ok) == IF ok THEN <<"ok", 0>> ELSE Refused

\* The first result of a sequence that failed, else the result of all.
FirstFailure(results, otherwise) ==
    LET failures == {i \in DOMAIN results : Failed(results[i])}
    IN  IF failures = {} THEN otherwise
        ELSE results[CHOOSE i \in failures : \A j \in failures : i <= j]

Halves(number) == IF number[1] = "int" THEN 2 * number[2] ELSE number[2]

JsonKinds == {"int", "float", "bool", "string", "list", "object"}

===========================================================================
