------------------------------- MODULE Scalars -------------------------------
(***************************************************************************)
(* The built-in types of types.py whose values have no parts: integers,    *)
(* floats, booleans, strings and enums.  What coerce, to_json, validate,   *)
(* describe and json_schema make of a type and a value, and what JSON      *)
(* Schema makes of the schema.                                             *)
(*                                                                         *)
(* Bounds are in halves.  A string is known by its length and by the       *)
(* patterns it matches.  Floats are exact up to Precise; above it they are *)
(* the even integers.  One Matches stands for the regular expressions of   *)
(* Python (types.py:172) and for those of a JSON Schema validator          *)
(* (types.py:185), whose dialect may differ.                               *)
(***************************************************************************)
EXTENDS Values, SequencesExt

CONSTANTS
    Length(_),      \* the length of a string
    Matches(_, _),  \* this pattern is found in this string, by re.search and by a schema alike
    Precise

ASSUME ScalarsAssumption ==
    /\ Precise \in 0..Largest
    /\ None \notin {"integer", "number", "string"}

Numeric == {"integer", "float"}
Scalar == Numeric \cup {"boolean", "string", "enum"}

\* float(n) of an int: ties go to the neighbour with the even significand.
Rounded(n) ==
    IF n \in -Precise..Precise \/ n % 2 = 0 THEN n
    ELSE IF (n + 1) % 4 = 0 THEN n + 1 ELSE n - 1

\* isfinite() raises OverflowError for an int that no float can hold, as float() would.
ToFloat(number) ==
    IF number[1] # "int" THEN number
    ELSE IF number[2] \in -Largest..Largest THEN <<"float", 2 * Rounded(number[2])>>
    ELSE Raised

---------------------------------------------------------------------------
(* coerce, to_json and validate.                                           *)

\* The kinds of JSON that a type takes: no bool is an int, and neither infinity
\* nor NaN is a float.
KindsOf(type) ==
    CASE type.name = "integer" -> {"int"}
      [] type.name = "float" -> {"int", "float"}
      [] type.name = "boolean" -> {"bool"}
      [] type.name \in {"string", "enum"} -> {"string"}

CoerceScalar(type, raw) ==
    IF raw[1] \notin KindsOf(type) THEN Refused
    ELSE IF type.name = "float" THEN ToFloat(raw) ELSE raw

ScalarToJson(type, value) == IF type.name = "float" THEN ToFloat(value) ELSE value

\* Equality: numbers by their value, and for Python True is 1 and False is 0.
PlainScalar(value, python) ==
    CASE value[1] \in {"int", "float"} -> <<"number", Halves(value)>>
      [] value[1] = "bool" /\ python -> <<"number", IF value[2] THEN 2 ELSE 0>>
      [] OTHER -> value

\* A float holds an int of this value exactly.
ExactScalar(value) == value[1] = "int" => value[2] \in -Precise..Precise

\* A whole number that was written as a float.
WholeScalar(value) == value[1] = "float" /\ value[2] % 2 = 0

Between(n, low, high) == (low = None \/ n >= low) /\ (high = None \/ n <= high)

ValidateString(type, value) ==
    /\ Between(Length(value[2]), type.min_length, type.max_length)
    /\ type.pattern = None \/ Matches(type.pattern, value[2])

ValidateScalar(type, value) ==
    Verdict(CASE type.name \in Numeric -> Between(Halves(value), type.min, type.max)
              [] type.name = "boolean" -> TRUE
              [] type.name = "string" -> ValidateString(type, value)
              [] type.name = "enum" -> Contains(type.choices, value[2]))

---------------------------------------------------------------------------
(* describe and json_schema.                                               *)

DescribeScalar(type) ==
    [name |-> type.name,
     params |->
        CASE type.name \in Numeric -> [min |-> type.min, max |-> type.max]
          [] type.name = "boolean" -> <<>>
          [] type.name = "string" -> [min_length |-> type.min_length, max_length |-> type.max_length,
                                      pattern |-> type.pattern]
          [] type.name = "enum" -> [choices |-> type.choices]]

\* A schema has the keywords whose parameters are given.
Keywords(parameters) ==
    [k \in {k \in DOMAIN parameters : parameters[k] # None} |-> parameters[k]]

JsonType(type) == IF type.name = "float" THEN "number" ELSE type.name

\* Bug variant: a bound of zero counts as none.
TruthyNumberSchema(type) ==
    Keywords([type |-> JsonType(type), minimum |-> IF type.min = 0 THEN None ELSE type.min,
              maximum |-> IF type.max = 0 THEN None ELSE type.max])

NumberSchema(type) ==
    Keywords([type |-> JsonType(type), minimum |-> type.min, maximum |-> type.max])

StringSchema(type) ==
    Keywords([type |-> "string", minLength |-> type.min_length, maxLength |-> type.max_length,
              pattern |-> type.pattern])

ScalarSchema(type) ==
    CASE type.name \in Numeric -> NumberSchema(type)
      [] type.name = "boolean" -> [type |-> "boolean"]
      [] type.name = "string" -> StringSchema(type)
      [] type.name = "enum" -> [type |-> "string", enum |-> type.choices]

\* Draft 2020-12, as the client who validates has it.
Kind(value) ==
    CASE value[1] = "int" -> {"integer", "number"}
      [] value[1] = "float" -> IF value[2] % 2 = 0 THEN {"integer", "number"} ELSE {"number"}
      [] value[1] = "bool" -> {"boolean"}
      [] value[1] = "list" -> {"array"}
      [] OTHER -> {value[1]}

Given(schema, name) == IF name \in DOMAIN schema THEN schema[name] ELSE None

\* The keywords about the kind of a value, about numbers and about strings.
SatisfiesScalar(schema, value) ==
    /\ schema["type"] \in Kind(value)
    /\ schema["type"] \in {"integer", "number"} =>
            Between(Halves(value), Given(schema, "minimum"), Given(schema, "maximum"))
    /\ schema["type"] = "string" =>
            /\ Between(Length(value[2]), Given(schema, "minLength"), Given(schema, "maxLength"))
            /\ "pattern" \in DOMAIN schema => Matches(schema["pattern"], value[2])
            /\ "enum" \in DOMAIN schema => Contains(schema["enum"], value[2])

===========================================================================
