-------------------------------- MODULE Types --------------------------------
(***************************************************************************)
(* The methods of the seven types of types.py.  Those without parts are in *)
(* Scalars.  A list or a mapping calls the methods of its item, key and    *)
(* value types, whichever these are, and so do the operators here: they    *)
(* call the constants of Methods.  An instance that gives each constant    *)
(* the operator defined with it has types of any depth.                    *)
(***************************************************************************)
EXTENDS Scalars, Methods, FiniteSets

CONSTANTS
    json_schema(_),     \* the method of a type
    satisfies(_, _),    \* JSON Schema: a value satisfies a schema
    json_value(_)       \* what JSON Schema compares of a value

ASSUME TypesAssumption == None # TRUE /\ None \notin {"array", "object"}

\* The types that a type is made of.
PartsOf(type) ==
    CASE type.name \in Scalar -> {}
      [] type.name = "list" -> {type.item}
      [] type.name = "mapping" -> {type.key, type.value}

\* Entries of a mapping may fail in both ways: the first would decide, here any one does.
SomeFailure(results, otherwise) ==
    LET failures == {r \in results : Failed(r)}
    IN  IF failures = {} THEN otherwise ELSE CHOOSE f \in failures : TRUE

---------------------------------------------------------------------------
(* coerce, to_json and validate.                                           *)

CoerceList(type, raw) ==
    LET items == [i \in DOMAIN raw[2] |-> coerce(type.item, raw[2][i])]
    IN  FirstFailure(items, <<"list", items>>)

\* A key type whose coerce takes a string and gives one gives the same one.
CoerceMapping(type, raw) ==
    LET entries == [k \in DOMAIN raw[2] |-> coerce(type.value, raw[2][k])]
    IN  IF \E k \in DOMAIN raw[2] : coerce(type.key, <<"string", k>>) = Refused
        THEN Refused
        ELSE SomeFailure({entries[k] : k \in DOMAIN entries}, <<"object", entries>>)

Coerce(type, raw) ==
    CASE type.name \in Scalar -> CoerceScalar(type, raw)
      [] type.name = "list" -> IF raw[1] = "list" THEN CoerceList(type, raw) ELSE Refused
      [] type.name = "mapping" -> IF raw[1] = "object" THEN CoerceMapping(type, raw) ELSE Refused

ToJson(type, value) ==
    CASE type.name \in Scalar -> ScalarToJson(type, value)
      [] type.name = "list" -> <<"list", [i \in DOMAIN value[2] |-> to_json(type.item, value[2][i])]>>
      [] type.name = "mapping" -> <<"object", [k \in DOMAIN value[2] |-> to_json(type.value, value[2][k])]>>

\* What == of Python compares.
PythonValue(value) ==
    CASE value[1] = "list" -> <<"list", [i \in DOMAIN value[2] |-> plain(value[2][i])]>>
      [] value[1] = "object" -> <<"object", [k \in DOMAIN value[2] |-> plain(value[2][k])]>>
      [] OTHER -> PlainScalar(value, TRUE)

\* What JSON Schema compares: true is not 1.
JsonValue(value) ==
    CASE value[1] = "list" -> <<"list", [i \in DOMAIN value[2] |-> json_value(value[2][i])]>>
      [] value[1] = "object" -> <<"object", [k \in DOMAIN value[2] |-> json_value(value[2][k])]>>
      [] OTHER -> PlainScalar(value, FALSE)

\* A float holds every int of this value exactly.
Exact(value) ==
    CASE value[1] = "list" -> \A i \in DOMAIN value[2] : exact(value[2][i])
      [] value[1] = "object" -> \A k \in DOMAIN value[2] : exact(value[2][k])
      [] OTHER -> ExactScalar(value)

\* A whole number that was written as a float is in this value.
Whole(value) ==
    CASE value[1] = "list" -> \E i \in DOMAIN value[2] : whole(value[2][i])
      [] value[1] = "object" -> \E k \in DOMAIN value[2] : whole(value[2][k])
      [] OTHER -> WholeScalar(value)

\* {to_json(item) ...}: a list or a dict cannot be in a set.
Unhashable(items) == \E i \in DOMAIN items : items[i][1] \in {"list", "object"}
AllDifferent(items) == Cardinality({PlainScalar(items[i], TRUE) : i \in DOMAIN items}) = Len(items)

ValidateList(type, value) ==
    LET items == [i \in DOMAIN value[2] |-> to_json(type.item, value[2][i])]
    IN  IF ~ Between(Len(items), type.min_items, type.max_items) THEN Refused
        ELSE IF type.unique /\ Unhashable(items) THEN Raised
        ELSE IF type.unique /\ ~ AllDifferent(items) THEN Refused
        ELSE FirstFailure([i \in DOMAIN items |-> validate(type.item, value[2][i])], Verdict(TRUE))

ValidateMapping(type, value) ==
    IF ~ Between(Cardinality(DOMAIN value[2]), type.min_entries, type.max_entries) THEN Refused
    ELSE SomeFailure(UNION {{validate(type.key, <<"string", k>>), validate(type.value, value[2][k])} :
                                k \in DOMAIN value[2]}, Verdict(TRUE))

Validate(type, value) ==
    CASE type.name \in Scalar -> ValidateScalar(type, value)
      [] type.name = "list" -> ValidateList(type, value)
      [] type.name = "mapping" -> ValidateMapping(type, value)

---------------------------------------------------------------------------
(* describe and json_schema.                                               *)

Describe(type) ==
    CASE type.name \in Scalar -> DescribeScalar(type)
      [] type.name = "list" ->
            [name |-> "list", params |-> [item |-> describe(type.item), min_items |-> type.min_items,
                                          max_items |-> type.max_items, unique |-> type.unique]]
      [] type.name = "mapping" ->
            [name |-> "mapping", params |-> [key |-> describe(type.key), value |-> describe(type.value),
                                             min_entries |-> type.min_entries,
                                             max_entries |-> type.max_entries]]

ListSchema(type) ==
    Keywords([type |-> "array", items |-> json_schema(type.item),
              minItems |-> type.min_items, maxItems |-> type.max_items,
              uniqueItems |-> IF type.unique THEN TRUE ELSE None])

MappingSchema(type) ==
    Keywords([type |-> "object", propertyNames |-> json_schema(type.key),
              additionalProperties |-> json_schema(type.value),
              minProperties |-> type.min_entries, maxProperties |-> type.max_entries])

JsonSchema(type) ==
    CASE type.name \in Scalar -> ScalarSchema(type)
      [] type.name = "list" -> ListSchema(type)
      [] type.name = "mapping" -> MappingSchema(type)

\* What JSON Schema makes of a schema and a value.
Satisfies(schema, value) ==
    /\ SatisfiesScalar(schema, value)
    /\ schema["type"] = "array" =>
            /\ Between(Len(value[2]), Given(schema, "minItems"), Given(schema, "maxItems"))
            /\ \A i \in DOMAIN value[2] : satisfies(schema["items"], value[2][i])
            /\ "uniqueItems" \in DOMAIN schema =>
                    \A i, j \in DOMAIN value[2] : i # j => json_value(value[2][i]) # json_value(value[2][j])
    /\ schema["type"] = "object" =>
            /\ Between(Cardinality(DOMAIN value[2]), Given(schema, "minProperties"), Given(schema, "maxProperties"))
            /\ \A k \in DOMAIN value[2] : /\ satisfies(schema["propertyNames"], <<"string", k>>)
                                          /\ satisfies(schema["additionalProperties"], value[2][k])

\* A client that validates a value against json_schema() lets it pass.
Admits(type, value) == satisfies(json_schema(type), value)

===========================================================================
