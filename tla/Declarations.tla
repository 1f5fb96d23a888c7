---------------------------- MODULE Declarations ----------------------------
(***************************************************************************)
(* What a catalogue declares: how Catalogue checks, orders and hashes it,  *)
(* what its group validators say, and what becomes of stored values while  *)
(* releases come and go that declare the same keys with other types,       *)
(* defaults, rules or order.  Every call is one step: Store looks at how   *)
(* calls interleave.                                                       *)
(*                                                                         *)
(* The types are known by their methods: Types defines those of the        *)
(* built-in ones.  Groups, categories and tunables have numbers for names, *)
(* in the order of the alphabet.  A key is the pair of its group's name    *)
(* and its own.                                                            *)
(***************************************************************************)
EXTENDS Methods, FiniteSets, FiniteSetsExt, SequencesExt

CONSTANTS
    Releases,
    Declared,       \* the catalogue that each release declares
    Lines,          \* sets of releases that one deployment may move between
    Json,           \* the values that may be sent, be defaults or be stored
    Raws,           \* those that callers send to each release
    Absent,         \* no override; as the value of a change: a reset
    General         \* the name of the category that always exists

\* What group validators look like: at least two names (validators.py:162).
Rules ==
    [kind : {"sum"}, names : Seq(Int), total : Int, tolerance : Nat]
        \cup [kind : {"order"}, names : Seq(Int), down : BOOLEAN, strict : BOOLEAN,
              floor : Int \cup {None}, ceiling : Int \cup {None}]

ASSUME DeclaredAssumption ==
    /\ ~ Failed(Absent)
    /\ \A r \in Releases :
            /\ Raws[r] \subseteq Json \ {Absent}
            /\ \A group \in ToSet(Declared[r].groups) :
                    /\ DOMAIN group.tunables \subseteq Nat
                    /\ \A t \in ToSet(group.tunables) : t.default \in Json \ {Absent}
                    /\ \A rule \in group.rules : rule \in Rules /\ Len(rule.names) >= 2

\* coerce, then validate what it returns: the value, or how that failed.
Checked(type, raw) ==
    LET value == coerce(type, raw)
    IN  IF Failed(value) THEN value
        ELSE IF Failed(validate(type, value)) THEN validate(type, value) ELSE value

\* What is stored of a value that is accepted.
Canonical(type, raw) == to_json(type, coerce(type, raw))

Equal(v, w) == plain(v) = plain(w)

DeclaredTypes ==
    UNION {{t.type : t \in ToSet(g.tunables)} : g \in UNION {ToSet(Declared[r].groups) : r \in Releases}}

\* What docs/catalogue.md:270-277 asks of the methods of a type, and what the
\* built-in types make of JSON: coerce takes what to_json gives and gives the
\* same value; what it takes is JSON and is stored unchanged but for rounding;
\* what is accepted satisfies the schema; numbers are numbers; and describe()
\* tells apart the types that treat some JSON differently.
KeepContract(types, json) ==
    \A type \in types :
        /\ \A raw \in json : ~ Failed(coerce(type, raw)) =>
                /\ raw[1] \in JsonKinds
                /\ Canonical(type, raw) \in json \ {Absent}
                /\ coerce(type, Canonical(type, raw)) = coerce(type, raw)
                /\ exact(raw) => Equal(Canonical(type, raw), raw)
                /\ exact(raw) /\ ~ Failed(Checked(type, raw)) => admits(type, raw)
                /\ type.name \in {"integer", "float"} => coerce(type, raw) \in {"int", "float"} \X Int
        /\ \A other \in types : describe(type) = describe(other) =>
                \A raw \in json :
                    /\ coerce(type, raw) = coerce(other, raw) /\ Checked(type, raw) = Checked(other, raw)
                    /\ ~ Failed(coerce(type, raw)) => Canonical(type, raw) = Canonical(other, raw)

ASSUME TypesContract == KeepContract(DeclaredTypes, Json)

VARIABLES
    code,           \* the release that runs
    synced,         \* a release with the stored State.catalogue_version
    stored,         \* the JSON of TunableValue rows
    past,           \* the snapshot of one earlier version, and its release
    outcome         \* "raised" if the last call ended in an error that is no answer

vars == <<code, synced, stored, past, outcome>>

Names(seq) == {seq[i].name : i \in DOMAIN seq}

Distinct(seq) == \A i, j \in DOMAIN seq : seq[i].name = seq[j].name => i = j

ByName(seq, name) == seq[CHOOSE i \in DOMAIN seq : seq[i].name = name]

---------------------------------------------------------------------------
(* Constructing a catalogue.                                               *)

\* Categories that are declared, and general.
Categories(c) ==
    IF General \in Names(c.categories) THEN ToSet(c.categories)
    ELSE ToSet(c.categories) \cup {[name |-> General, order |-> 0]}

KeysOf(c) == UNION {{<<g.name, t>> : t \in Names(g.tunables)} : g \in ToSet(c.groups)}

TunableOf(c, key) == ByName(ByName(c.groups, key[1]).tunables, key[2])

\* Tunable.__post_init__ keeps the coerced default.
DefaultOf(tunable) == coerce(tunable.type, tunable.default)

ValidDefault(tunable) == ~ Failed(Checked(tunable.type, tunable.default))

\* check_group of the rules that come with the package.
Fits(rule, group) ==
    /\ \A i, j \in DOMAIN rule.names : i # j => rule.names[i] # rule.names[j]
    /\ \A i \in DOMAIN rule.names :
            /\ rule.names[i] \in Names(group.tunables)
            /\ ByName(group.tunables, rule.names[i]).type.name \in {"integer", "float"}

\* No CatalogueError, and no other one from a default.
Builds(c) ==
    /\ Distinct(c.categories) /\ Distinct(c.groups)
    /\ \A g \in ToSet(c.groups) :
            /\ g.category \in {category.name : category \in Categories(c)}
            /\ Distinct(g.tunables)
            /\ \A t \in ToSet(g.tunables) : ValidDefault(t)
            /\ \A rule \in g.rules : Fits(rule, g)

\* Position in the order of (order, name).
Precedes(a, b) == a.order < b.order \/ (a.order = b.order /\ a.name < b.name)

\* How many groups come before this one when they are hashed: categories play no part.
Place(c, group) == Cardinality({h.name : h \in {g \in ToSet(c.groups) : Precedes(g, group)}})

\* Bug variant: the parameters of a type are not hashed.
HashedByName(tunable) ==
    [name |-> tunable.name, type |-> tunable.type.name,
     default |-> to_json(tunable.type, DefaultOf(tunable)), deprecated |-> tunable.deprecated]

Hashed(tunable) ==
    [name |-> tunable.name, type |-> describe(tunable.type),
     default |-> to_json(tunable.type, DefaultOf(tunable)), deprecated |-> tunable.deprecated]

\* Catalogue.version, before SHA-256: a list of groups is the set of them with their places.
Version(c) ==
    [label |-> c.label,
     groups |-> {[name |-> g.name, place |-> Place(c, g),
                  tunables |-> [i \in DOMAIN g.tunables |-> Hashed(g.tunables[i])]] : g \in ToSet(c.groups)}]

---------------------------------------------------------------------------
(* Group validators: sums_to, ascending and descending.                    *)

SumOf(terms) ==
    LET upTo[i \in 0..Len(terms)] == IF i = 0 THEN 0 ELSE upTo[i - 1] + terms[i]
    IN  upTo[Len(terms)]

\* The values of one kind, in halves, with 0 for each other one.
TermsOf(rule, number, kind) ==
    [i \in 1..Len(rule.names) |->
        IF number[rule.names[i]][1] = kind THEN Halves(number[rule.names[i]]) ELSE 0]

\* Integers add exactly.  Neither does the sum of integers and floats round here,
\* and a sum of integers too large for a float is refused, which _within does only
\* where it meets a float (validators.py:64-80).
SumsTo(rule, number) ==
    LET total == SumOf(TermsOf(rule, number, "int"))
        parts == SumOf(TermsOf(rule, number, "float"))
    IN  /\ total \in -(2 * Largest)..(2 * Largest)
        /\ total + parts - rule.total \in -rule.tolerance..rule.tolerance

InOrder(rule, left, right) ==
    /\ rule.strict => left # right
    /\ IF rule.down THEN left >= right ELSE left <= right

\* Bug variant: the ends are pinned as for a descending rule.
DownFloorName(rule) == Last(rule.names)

FloorName(rule) == IF rule.down THEN Last(rule.names) ELSE Head(rule.names)

CeilingName(rule) == IF rule.down THEN Head(rule.names) ELSE Last(rule.names)

Ordered(rule, number) ==
    LET half(name) == Halves(number[name])
    IN  /\ \A i \in 1..Len(rule.names) - 1 :
                InOrder(rule, half(rule.names[i]), half(rule.names[i + 1]))
        /\ rule.floor # None => half(FloorName(rule)) = rule.floor
        /\ rule.ceiling # None => half(CeilingName(rule)) = rule.ceiling

Holds(rule, number) == IF rule.kind = "sum" THEN SumsTo(rule, number) ELSE Ordered(rule, number)

---------------------------------------------------------------------------
(* Values of a release over what is stored.                                *)

\* current_values(): an override as the type coerces it, else the default.
Effective(c, values, key) ==
    LET t == TunableOf(c, key)
    IN  IF values[key] = Absent THEN DefaultOf(t) ELSE coerce(t.type, values[key])

\* build_document(): an override as it is stored, else the default as JSON.
Served(c, values, key) ==
    LET t == TunableOf(c, key)
    IN  IF values[key] = Absent THEN to_json(t.type, DefaultOf(t)) ELSE values[key]

\* _validate_group(): a value that cannot be built refuses, like a broken rule.
GroupResult(c, values, name) ==
    LET group == ByName(c.groups, name)
        results == [i \in DOMAIN group.tunables |-> Effective(c, values, <<name, group.tunables[i].name>>)]
        number == [t \in Names(group.tunables) |-> Effective(c, values, <<name, t>>)]
    IN  FirstFailure(results, Verdict(\A rule \in group.rules : Holds(rule, number)))

Running == Declared[code]

Versions == [r \in Releases |-> Version(Declared[r])]

\* sync.is_current().
InSync == Versions[code] = Versions[synced]

Nobody == [key \in UNION {KeysOf(Declared[r]) : r \in Releases} |-> Absent]

Init ==
    /\ code \in {r \in Releases : Builds(Declared[r])}
    /\ synced = code
    /\ stored = Nobody
    /\ past = [values |-> Nobody, of |-> code]
    /\ outcome = "answered"

\* Any one snapshot may be the one that somebody rolls back to.
Snapshot(r, values) == past' \in {past, [values |-> values, of |-> r]}

---------------------------------------------------------------------------
(* Releases.                                                               *)

Deploy(r) ==
    /\ \E line \in Lines : {code, r} \subseteq line
    /\ Builds(Declared[r])
    /\ code' = r
    /\ outcome' = "answered"
    /\ UNCHANGED <<synced, stored, past>>

\* Bug variant: an override is kept if it coerces.
CoercedKept(key, value) == coerce(TunableOf(Running, key).type, value)

\* _drop_invalid_overrides, for one override.
Recheck(key, value) == Checked(TunableOf(Running, key).type, value)

\* Bug variant: the stale overrides of other keys are kept.
StaleKept ==
    [key \in DOMAIN stored |->
        IF key \in KeysOf(Running) /\ stored[key] # Absent /\ Recheck(key, stored[key]) = Refused
        THEN Absent ELSE stored[key]]

\* What _drop_stale_overrides and _drop_invalid_overrides leave.
Survivors ==
    [key \in DOMAIN stored |->
        IF key \in KeysOf(Running) /\ stored[key] # Absent /\ Recheck(key, stored[key]) # Refused
        THEN stored[key] ELSE Absent]

\* sync(): an exception that is no ConstraintError takes the transaction with it.
Sync ==
    /\ ~ InSync
    /\ IF \E key \in KeysOf(Running) : stored[key] # Absent /\ Recheck(key, stored[key]) = Raised
       THEN outcome' = "raised" /\ UNCHANGED <<synced, stored, past>>
       ELSE /\ outcome' = "answered"
            /\ synced' = code /\ stored' = Survivors
            /\ Snapshot(code, Survivors)
    /\ UNCHANGED code

---------------------------------------------------------------------------
(* Change sets.                                                            *)

\* Bug variant: a value that is served already counts as the default.
EchoOverride(key, json) == IF Equal(json, Served(Running, stored, key)) THEN Absent ELSE json

Override(key, json) ==
    LET t == TunableOf(Running, key)
    IN  IF Equal(json, to_json(t.type, DefaultOf(t))) THEN Absent
        ELSE IF Equal(json, Served(Running, stored, key)) THEN stored[key]
        ELSE json

\* _prepare_one(): what becomes of the override, or how the change failed.
Prepare(key, value) ==
    IF value = Absent THEN Absent
    ELSE LET checked == Checked(TunableOf(Running, key).type, value)
         IN  IF Failed(checked) THEN checked
             ELSE Override(key, to_json(TunableOf(Running, key).type, checked))

\* apply_changeset() of one change for each key of changes.
Apply(changes) ==
    LET result == [key \in DOMAIN changes |-> Prepare(key, changes[key])]
        failures == {result[key] : key \in DOMAIN changes} \cap {Refused, Raised}
        values == [key \in DOMAIN stored |->
                    IF key \in DOMAIN changes /\ result[key] # Refused THEN result[key] ELSE stored[key]]
        touched == {key[1] : key \in {k \in DOMAIN stored : values[k] # stored[k]}}
        groups == {GroupResult(Running, values, name) : name \in touched} \cap {Refused, Raised}
    IN  /\ InSync
        /\ outcome' = IF Raised \in failures \cup groups THEN "raised" ELSE "answered"
        /\ IF failures \cup groups # {} \/ values = stored
           THEN UNCHANGED <<stored, past>>
           ELSE stored' = values /\ Snapshot(synced, values)
        /\ UNCHANGED <<code, synced>>

Change(key, value) == Apply([k \in {key} |-> value])

\* A client that sends back what it was served.
Resend(key) == Change(key, Served(Running, stored, key))

Restore(key) == IF key \in KeysOf(Declared[past.of]) THEN past.values[key] ELSE Absent

\* Bug variant: overrides that the earlier version lacks stay.
MovedBack ==
    {key \in KeysOf(Running) : Restore(key) # Absent /\ (stored[key] = Absent \/ ~ Equal(stored[key], Restore(key)))}

\* The keys that rollback_changes() changes or resets.
Moved ==
    LET Same(v, w) == IF v = Absent \/ w = Absent THEN v = w ELSE Equal(v, w)
    IN  {key \in KeysOf(Running) : ~ Same(stored[key], Restore(key))}

\* rollback().
Rollback == Apply([key \in Moved |-> Restore(key)])

Next ==
    \/ \E r \in Releases : Deploy(r)
    \/ Sync
    \/ \E key \in KeysOf(Running) : Resend(key)
    \/ \E key \in KeysOf(Running), value \in Raws[code] \cup {Absent} : Change(key, value)
    \/ Rollback

Spec == Init /\ [][Next]_vars

---------------------------------------------------------------------------
(* What should be true.                                                    *)

\* Every stored override is JSON, neither a failure nor a number JSON lacks, and
\* has a key of the release that the database was synced with.
TypeOK ==
    /\ {code, synced, past.of} \subseteq Releases
    /\ \A key \in DOMAIN stored :
            stored[key] # Absent => key \in KeysOf(Declared[synced]) /\ stored[key][1] \in JsonKinds
    /\ outcome \in {"answered", "raised"}

\* While code and database agree, current_values() raises nothing and gives
\* values that the declared types admit (services.py:404, sync.py:183), and each
\* value of the document satisfies the schema of its tunable
\* (docs/snapshot-format.md:69) unless a float rounds it: also where it is JSON
\* that an earlier release stored (document.py:28), whatever releases came before.
ReadersGetValues ==
    InSync => \A key \in KeysOf(Running) :
                LET type == TunableOf(Running, key).type
                    value == Effective(Running, stored, key)
                    json == Served(Running, stored, key)
                IN  /\ ~ Failed(value) /\ ~ Failed(validate(type, value))
                    /\ exact(json) => admits(type, json)

\* The releases whose schemas admit what their types admit.
ExactSchemas ==
    LET Agree(type, raw) ==
            LET checked == Checked(type, raw)
            IN  exact(raw) /\ ~ whole(raw) /\ checked # Raised => (admits(type, raw) <=> ~ Failed(checked))
    IN  {r \in Releases : \A key \in KeysOf(Declared[r]), raw \in Raws[r] :
                                Agree(TunableOf(Declared[r], key).type, raw)}

\* What a client may check with json_schema() is what the server checks, but
\* for numbers that a float rounds and for 1.0, which is an integer to a schema
\* and none to Integer.coerce (types.py:30, types.py:76).  A pattern is the same on
\* both sides by the definition of Matches, so this says nothing of its dialect.
SchemaIsExact == code \in ExactSchemas

\* Sending back the value that was served changes no value, whatever type it
\* was stored under (services.py:295-301): at most an override that says what
\* the default says goes.
EditsNothing ==
    [][ stored' # stored =>
            \A key \in KeysOf(Running) :
                exact(Served(Running, stored, key)) /\ Resend(key) =>
                    \A k \in KeysOf(Running) : Equal(Served(Running, stored', k), Served(Running, stored, k)) ]_vars

\* A rollback that succeeds restores every override of the earlier version that
\* still has a key and leaves no other (services.py:117-130), across retyping
\* and new defaults.
RestoresValues ==
    [][ stored' # stored /\ Rollback =>
            \A key \in KeysOf(Running) :
                IF key \in KeysOf(Declared[past.of]) /\ past.values[key] # Absent
                THEN exact(past.values[key]) => Equal(Served(Running, stored', key), past.values[key])
                ELSE stored'[key] = Absent ]_vars

\* What docs/catalogue.md:84-91 says that a rule means, of all its values at once.
Meant(rule, number) ==
    LET half == [i \in 1..Len(rule.names) |-> Halves(number[rule.names[i]])]
        all == ToSet(half)
        Goes(v, w) == IF rule.strict THEN v < w ELSE v <= w
    IN  IF rule.kind = "sum"
        THEN SumOf(half) - rule.total \in -rule.tolerance..rule.tolerance
        ELSE /\ \A i, j \in DOMAIN half :
                    i < j => IF rule.down THEN Goes(half[j], half[i]) ELSE Goes(half[i], half[j])
             /\ rule.floor # None => rule.floor = Min(all)
             /\ rule.ceiling # None => rule.ceiling = Max(all)

\* A change set or a rollback leaves each group it touches with values that
\* obey the group's rules (services.py:353), also when the rules are new since
\* the last one: they are no part of the version.
ChangesObeyRules ==
    [][ UNCHANGED <<code, synced>> =>
            \A group \in ToSet(Running.groups) :
                LET number == [t \in Names(group.tunables) |-> Effective(Running, stored', <<group.name, t>>)]
                IN  (\E t \in Names(group.tunables) : stored'[<<group.name, t>>] # stored[<<group.name, t>>])
                        => \A rule \in group.rules : Meant(rule, number) ]_vars

\* All of a catalogue but its categories, its rules and the order of declaration.
Data(c) ==
    [label |-> c.label,
     groups |-> {[name |-> g.name, order |-> g.order, tunables |-> g.tunables] : g \in ToSet(c.groups)}]

\* What each key of a release makes of JSON, and its default.
Meaning ==
    LET Of(t) == [default |-> DefaultOf(t), values |-> [raw \in Json |-> Checked(t.type, raw)]]
    IN  [r \in Releases |-> [key \in KeysOf(Declared[r]) |-> Of(TunableOf(Declared[r], key))]]

\* Releases that count as in sync admit the same JSON, read it as the same
\* values and have the same defaults, so no stored value changes its meaning
\* without a sync (docs/catalogue.md:313-316).  Moving groups between categories,
\* reordering categories or the declaration, and changing rules put nothing out
\* of sync (catalogue.py:193-194).
VersionIsExact ==
    /\ InSync => Meaning[code] = Meaning[synced]
    /\ Data(Running) = Data(Declared[synced]) => InSync

===========================================================================
