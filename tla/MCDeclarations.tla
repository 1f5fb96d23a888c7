--------------------------- MODULE MCDeclarations ---------------------------
(***************************************************************************)
(* Small instances of Declarations for TLC.  Halves count numbers, floats  *)
(* are exact up to 4, and no float holds more than 8.                      *)
(***************************************************************************)
EXTENDS BuiltIns, TLC

MCLength(s) == CASE s = "" -> 0 [] s \in {"a", "b"} -> 1 [] OTHER -> 2
MCMatches(pattern, s) == CASE pattern = "a" -> s \in {"a", "ab"}

\* The built-in types: a method calls itself, through the constant, for the parts.
\* As local values the calls stay out of TLC's coverage, which would unfold them
\* without end.
MCCoerce(type, raw) == LET result == Coerce(type, raw) IN result
MCValidate(type, value) == LET result == Validate(type, value) IN result
MCToJson(type, value) == LET result == ToJson(type, value) IN result
MCDescribe(type) == LET result == Describe(type) IN result
MCJsonSchema(type) == LET result == JsonSchema(type) IN result
MCAdmits(type, value) == LET result == Admits(type, value) IN result
MCSatisfies(schema, value) == LET result == Satisfies(schema, value) IN result
MCPlain(value) == LET result == PythonValue(value) IN result
MCJsonValue(value) == LET result == JsonValue(value) IN result
MCExact(value) == LET result == Exact(value) IN result
MCWhole(value) == LET result == Whole(value) IN result

Integer(low, high) == [name |-> "integer", min |-> low, max |-> high]
Float(low, high) == [name |-> "float", min |-> low, max |-> high]
Boolean == [name |-> "boolean"]
String(low, high, pattern) ==
    [name |-> "string", min_length |-> low, max_length |-> high, pattern |-> pattern]
Enum(choices) == [name |-> "enum", choices |-> choices]
List(item, low, high, unique) ==
    [name |-> "list", item |-> item, min_items |-> low, max_items |-> high, unique |-> unique]
Mapping(key, value, low, high) ==
    [name |-> "mapping", key |-> key, value |-> value, min_entries |-> low, max_entries |-> high]

I(n) == <<"int", n>>
F(n) == <<"float", n>>
S(s) == <<"string", s>>
L(items) == <<"list", items>>
O(entries) == <<"object", entries>>

Tunable(name, type, default) == [name |-> name, type |-> type, default |-> default, deprecated |-> FALSE]
Group(name, order, category, tunables, rules) ==
    [name |-> name, order |-> order, category |-> category, tunables |-> tunables, rules |-> rules]
Catalogue(groups, categories) == [label |-> "", groups |-> groups, categories |-> categories]

Plainly(type, default) == Catalogue(<<Group(1, 0, 0, <<Tunable(1, type, default)>>, {})>>, <<>>)

\* One key through the types of numbers, of text, of lists and of objects.
NumberLine ==
    "int" :> Plainly(Integer(None, None), I(0))
    @@ "natural" :> Plainly(Integer(0, None), I(0))
    @@ "digit" :> Plainly(Integer(0, 4), I(0))
    @@ "float" :> Plainly(Float(None, 8), I(0))
    @@ "half" :> Plainly(Float(1, 4), F(1))
    @@ "bool" :> Plainly(Boolean, <<"bool", FALSE>>)
    @@ "wrong" :> Plainly(Integer(0, 4), I(9))
    @@ "below" :> Plainly(Integer(4, None), I(0))

TextLine ==
    "text" :> Plainly(String(None, None, None), S(""))
    @@ "word" :> Plainly(String(1, 1, None), S("b"))
    @@ "match" :> Plainly(String(None, None, "a"), S("a"))
    @@ "enum" :> Plainly(Enum(<<"b", "ab">>), S("b"))

ListLine ==
    "ints" :> Plainly(List(Integer(None, None), None, 2, FALSE), L(<<>>))
    @@ "set" :> Plainly(List(Integer(0, None), None, 2, TRUE), L(<<>>))
    @@ "floats" :> Plainly(List(Float(None, None), 1, None, TRUE), L(<<F(1)>>))
    @@ "nested" :> Plainly(List(List(Integer(None, None), None, None, FALSE), None, None, FALSE), L(<<>>))
    @@ "lists" :> Plainly(List(List(Integer(None, None), None, None, FALSE), None, None, TRUE), L(<<>>))

ObjectLine ==
    "object" :> Plainly(Mapping(String(None, None, None), Float(None, None), None, 1), O(<<>>))
    @@ "table" :> Plainly(Mapping(Enum(<<"a">>), Float(1, None), None, None), O("a" :> F(1)))
    @@ "keys" :> Plainly(Mapping(Integer(None, None), Boolean, None, None), O(<<>>))

Up(names, strict, floor, ceiling) ==
    [kind |-> "order", names |-> names, down |-> FALSE, strict |-> strict, floor |-> floor, ceiling |-> ceiling]
Down(names, strict, floor, ceiling) == [Up(names, strict, floor, ceiling) EXCEPT !.down = TRUE]
Sum(names, total, tolerance) == [kind |-> "sum", names |-> names, total |-> total, tolerance |-> tolerance]

Ruled(rules) ==
    Catalogue(<<Group(1, 0, 0, <<Tunable(1, Integer(None, None), I(0)), Tunable(2, Float(None, None), F(1)),
                                 Tunable(3, Integer(None, None), I(1))>>, rules)>>, <<>>)

\* Three numbers under one rule or another.
RuleLine ==
    "up" :> Ruled({Up(<<1, 2, 3>>, FALSE, 2, None)})
    @@ "down" :> Ruled({Down(<<3, 2, 1>>, TRUE, 0, 4)})
    @@ "sum" :> Ruled({Sum(<<1, 2, 3>>, 3, 1)})
    @@ "twice" :> Ruled({Up(<<1, 1, 2>>, TRUE, None, None)})
    @@ "unknown" :> Ruled({Sum(<<1, 4>>, 3, 1)})

First == Group(1, 2, 0, <<Tunable(1, Boolean, <<"bool", FALSE>>)>>, {})
Second(order, category) ==
    Group(2, order, category, <<Tunable(1, Boolean, <<"bool", FALSE>>), Tunable(2, Boolean, <<"bool", TRUE>>)>>, {})
Late == [name |-> 1, order |-> 1]

\* Two groups in one category or two, in one order or another.
LayoutLine ==
    "plain" :> Catalogue(<<First, Second(3, 0)>>, <<>>)
    @@ "other" :> Catalogue(<<Second(3, 0), First>>, <<[name |-> 0, order |-> 2], Late>>)
    @@ "moved" :> Catalogue(<<[First EXCEPT !.category = 1], Second(3, 0)>>, <<Late>>)
    @@ "ahead" :> Catalogue(<<First, Second(1, 0)>>, <<>>)
    @@ "gone" :> Catalogue(<<Second(3, 0)>>, <<>>)
    @@ "labelled" :> [Catalogue(<<First, Second(3, 0)>>, <<>>) EXCEPT !.label = "b"]
    @@ "nowhere" :> Catalogue(<<First, Second(3, 1)>>, <<>>)
    @@ "double" :> Catalogue(<<First, First>>, <<>>)

MCDeclared == NumberLine @@ TextLine @@ ListLine @@ ObjectLine @@ RuleLine @@ LayoutLine
MCReleases == DOMAIN MCDeclared
MCLines ==
    {DOMAIN NumberLine, DOMAIN TextLine, DOMAIN ListLine, DOMAIN ObjectLine, DOMAIN RuleLine, DOMAIN LayoutLine}

Numbers == {I(0 - 1), I(1), I(2), I(5), I(9), F(1), F(2), F(4)}
Texts == {S(""), S("a"), S("b"), S("ab")}
Lists == {L(<<>>), L(<<I(1)>>), L(<<I(1), I(1)>>), L(<<I(1), F(2)>>), L(<<I(0 - 1), I(2)>>), L(<<I(1), I(2), I(3)>>),
          L(<<S("a")>>), L(<<L(<<I(1)>>)>>), L(<<L(<<I(1)>>), L(<<I(1)>>)>>)}
Objects == {O(<<>>), O("a" :> I(1)), O("a" :> F(1)), O("b" :> I(0)), O("a" :> I(1) @@ "b" :> F(1)), O("a" :> S("a"))}
Others == {<<"null", 0>>, <<"bool", TRUE>>, <<"bool", FALSE>>, <<"infinite", 0>>}

MCRaws ==
    [r \in MCReleases |->
        CASE r \in DOMAIN NumberLine -> Numbers \cup Others \cup {S("a")}
          [] r \in DOMAIN TextLine -> Texts \cup {I(1)}
          [] r \in DOMAIN ListLine -> Lists \cup {I(1)}
          [] r \in DOMAIN ObjectLine -> Objects \cup {L(<<>>)}
          [] r \in DOMAIN RuleLine -> {I(0 - 1), I(1), I(2), F(2)}
          [] r \in DOMAIN LayoutLine -> {<<"bool", TRUE>>, <<"bool", FALSE>>, I(1)}]

Defaults ==
    {t.default : t \in UNION {ToSet(g.tunables) : g \in UNION {ToSet(Declared[r].groups) : r \in Releases}}}
Sent == Defaults \cup UNION {Raws[r] : r \in Releases}

\* What is sent and declared, and what becomes of it.
MCJson ==
    Sent \cup {Canonical(x[1], x[2]) : x \in {y \in DeclaredTypes \X Sent : ~ Failed(coerce(y[1], y[2]))}}

RECURSIVE TypesWithin(_)
TypesWithin(type) == {type} \cup UNION {TypesWithin(part) : part \in PartsOf(type)}

RECURSIVE DepthOf(_)
DepthOf(type) == Max({0} \cup {DepthOf(part) + 1 : part \in PartsOf(type)})

RECURSIVE ValuesWithin(_)
ValuesWithin(raw) ==
    {raw} \cup (IF raw[1] = "list" THEN UNION {ValuesWithin(raw[2][i]) : i \in DOMAIN raw[2]}
               ELSE IF raw[1] = "object"
               THEN UNION {ValuesWithin(raw[2][k]) \cup {S(k)} : k \in DOMAIN raw[2]}
               ELSE {})

MCBuiltInTypes == UNION {TypesWithin(type) : type \in DeclaredTypes}
MCDepth == [type \in MCBuiltInTypes |-> DepthOf(type)]

\* What is sent and declared, its parts, and what becomes of them.
MCJsonValues ==
    LET sent == UNION {ValuesWithin(raw) : raw \in Sent}
    IN  sent \cup {Canonical(x[1], x[2]) :
                    x \in {y \in MCBuiltInTypes \X sent : ~ Failed(coerce(y[1], y[2]))}}

===========================================================================
