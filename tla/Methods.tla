------------------------------- MODULE Methods -------------------------------
(***************************************************************************)
(* The methods of a TunableType (types.py), and what other code makes of   *)
(* its values.  They are parameters, as a type may be the host's own: a    *)
(* call of one is a call of the method of whatever type it is given.       *)
(***************************************************************************)
EXTENDS Values

CONSTANTS
    coerce(_, _),
    validate(_, _),
    to_json(_, _),
    describe(_),
    admits(_, _),   \* a value satisfies json_schema() of a type
    plain(_),       \* what == of Python compares of a value
    exact(_),       \* no number in a value is rounded to a float
    whole(_)        \* some number in a value is a float like 1.0

===========================================================================
