------------------------------- MODULE BuiltIns -------------------------------
(***************************************************************************)
(* Catalogues with the built-in types alone: the methods are those of      *)
(* Types, for every declared type and its parts, and for every value and   *)
(* its parts.  A type has a depth, so that its methods end.                *)
(***************************************************************************)
EXTENDS Declarations, Types

CONSTANTS
    BuiltInTypes,       \* the declared types and their parts
    depth,              \* how deep each of them is
    JsonValues          \* JSON and its parts, with what becomes of it

TypesHaveParts ==
    /\ DeclaredTypes \subseteq BuiltInTypes
    /\ depth \in [BuiltInTypes -> Nat]
    /\ \A type \in BuiltInTypes :
            /\ type.name \in Scalar \cup {"list", "mapping"}
            /\ \A part \in PartsOf(type) : part \in BuiltInTypes /\ depth[part] < depth[type]

\* What JSON holds, null and infinity, with numbers for the content of numbers.
IsValue(raw) ==
    /\ raw[1] \in JsonKinds \cup {"null", "infinite"}
    /\ raw[1] \in {"int", "float"} => raw \in {"int", "float"} \X Int
    /\ raw[1] = "bool" => raw \in {"bool"} \X BOOLEAN

ValuesHaveParts ==
    /\ Json \subseteq JsonValues
    /\ \A raw \in JsonValues :
            /\ IsValue(raw)
            /\ raw[1] = "list" => raw = <<"list", raw[2]>> /\ raw[2] \in Seq(JsonValues)
            /\ raw[1] = "object" =>
                    /\ raw = <<"object", raw[2]>> /\ raw[2] = [k \in DOMAIN raw[2] |-> raw[2][k]]
                    /\ \A k \in DOMAIN raw[2] : raw[2][k] \in JsonValues /\ <<"string", k>> \in JsonValues

\* coerce of any JSON; the other two of what coerce returned.
ValueMethods ==
    \A type \in BuiltInTypes, raw \in JsonValues :
        LET value == coerce(type, raw)
        IN  /\ value = Coerce(type, raw)
            /\ ~ Failed(value) =>
                    /\ to_json(type, value) = ToJson(type, value)
                    /\ validate(type, value) = Validate(type, value)
                    /\ to_json(type, value) \in JsonValues \ {Absent}

TypeMethods ==
    \A type \in BuiltInTypes :
        /\ describe(type) = Describe(type)
        /\ json_schema(type) = JsonSchema(type) /\ json_schema(type) # None

Comparisons ==
    \A raw \in JsonValues :
        /\ plain(raw) = PythonValue(raw)
        /\ json_value(raw) = JsonValue(raw)
        /\ exact(raw) <=> Exact(raw)
        /\ whole(raw) <=> Whole(raw)

Clients ==
    \A type \in BuiltInTypes, raw \in JsonValues :
        /\ admits(type, raw) <=> Admits(type, raw)
        /\ satisfies(json_schema(type), raw) <=> Satisfies(json_schema(type), raw)

ASSUME BuiltInsAssumption ==
    /\ TypesHaveParts /\ ValuesHaveParts
    /\ ValueMethods /\ TypeMethods /\ Comparisons /\ Clients

===========================================================================
