---------------------------- MODULE Catalogues ----------------------------
(***************************************************************************)
(* The pure part of the change-set service: what a release's catalogue     *)
(* says about keys and values, and the functions services.py, sync.py and  *)
(* document.py compute from a catalogue, the stored overrides and a        *)
(* request.  No variable is declared here.                                 *)
(*                                                                         *)
(* A release is one deployed version of the host's code.  Two releases may *)
(* have the same catalogue hash and still differ in their validators,      *)
(* because Catalogue.version does not cover them.                          *)
(***************************************************************************)
EXTENDS Integers

CONSTANTS
    Keys,           \* every key some release declares or a caller may name
    Values,         \* JSON values, raw or canonical
    Groups,
    Releases,       \* the versions of the code that may be deployed
    Hashes,         \* the values of Catalogue.version
    Absent,         \* no override; as the value of a change: a reset
    Bad,            \* the outcome of a coercion that raises
    NoItem,         \* the change set has no item for the key
    Hash,           \* Hash[r]: Catalogue.version of release r
    KeysOf,         \* KeysOf[r]: the keys release r declares
    GroupOf,        \* GroupOf[k]: the part of the key before the dot
    DefaultOf,      \* DefaultOf[r][k]: to_json of the default
    Canon,          \* Canon[r][k][v]: to_json(coerce(v)), or Bad
    Admitted,       \* Admitted[r][k]: what validate() accepts, as JSON
    Validated,      \* the releases whose catalogue has validators
    GroupRule(_, _, _),     \* release, group, effective values
    CatalogueRule(_, _)     \* release, effective values

Content == [Keys -> Values \cup {Absent}]

Item == [old : Values \cup {Absent}, new : Values \cup {Absent}]

Items == [Keys -> Item \cup {NoItem}]

Nothing == [k \in Keys |-> NoItem]

Empty == [k \in Keys |-> Absent]

Change == [key : Keys, value : Values \cup {Absent}]

(***************************************************************************)
(* What the constants stand for.  Defaults are coerced and validated when  *)
(* a Tunable is built; the built-in types return their own output          *)
(* unchanged; and the hash covers names, types with every parameter, and   *)
(* defaults, so releases with one hash agree on them.                      *)
(***************************************************************************)
ASSUME CatalogueAssumption ==
    /\ Absent \notin Values /\ Bad \notin Values /\ Absent # Bad
    /\ NoItem \notin Item
    /\ Hash \in [Releases -> Hashes]
    /\ KeysOf \in [Releases -> SUBSET Keys]
    /\ GroupOf \in [Keys -> Groups]
    /\ DefaultOf \in [Releases -> [Keys -> Values]]
    /\ Canon \in [Releases -> [Keys -> [Values -> Values \cup {Bad}]]]
    /\ Admitted \in [Releases -> [Keys -> SUBSET Values]]
    /\ Validated \subseteq Releases

ASSUME RoundTripAssumption ==
    \A r \in Releases : \A k \in KeysOf[r] : \A v \in Values :
        Canon[r][k][v] # Bad => Canon[r][k][Canon[r][k][v]] = Canon[r][k][v]

ASSUME HashAssumption ==
    \A r, s \in Releases : Hash[r] = Hash[s] =>
        /\ KeysOf[r] = KeysOf[s]
        /\ \A k \in KeysOf[r] : /\ DefaultOf[r][k] = DefaultOf[s][k]
                                /\ Canon[r][k] = Canon[s][k]
                                /\ Admitted[r][k] = Admitted[s][k]

---------------------------------------------------------------------------
(* Reading the stored overrides.                                           *)

\* stored_overrides: the rows whose key the release declares.
Known(r, overrides) ==
    [k \in Keys |-> IF k \in KeysOf[r] THEN overrides[k] ELSE Absent]

\* coerce(v) succeeds and validate() accepts the result.
Valid(r, k, v) == Canon[r][k][v] \in Admitted[r][k]

\* The value a reader of the release gets for each declared key.
Effective(r, overrides) ==
    [k \in KeysOf[r] |-> IF overrides[k] = Absent
                         THEN DefaultOf[r][k]
                         ELSE Canon[r][k][overrides[k]]]

\* build_document: raw stored values over the defaults, and which were stored.
BuildDocument(r, overrides) ==
    [catalogue  |-> Hash[r],
     values     |-> [k \in Keys |-> IF k \notin KeysOf[r] THEN Absent
                                    ELSE IF overrides[k] = Absent
                                         THEN DefaultOf[r][k]
                                         ELSE overrides[k]],
     overridden |-> {k \in KeysOf[r] : overrides[k] # Absent}]

Document == [catalogue : Hashes, values : Content, overridden : SUBSET Keys]

---------------------------------------------------------------------------
(* Preparing a request: services._prepare and what it calls.  A request    *)
(* is a family of changes: indexed by position when a caller lists them,   *)
(* by key when rollback or import computes them.                           *)

\* A key named twice is an error of the whole request.
Duplicated(changes) ==
    \E i, j \in DOMAIN changes : i # j /\ changes[i].key = changes[j].key

FieldError(r, change) ==
    \/ change.key \notin KeysOf[r]
    \/ change.value # Absent /\ ~Valid(r, change.key, change.value)

\* The override a change asks for: none for a reset and for the default.
Wanted(r, change) ==
    IF change.value = Absent
    THEN Absent
    ELSE LET new == Canon[r][change.key][change.value]
         IN  IF new = DefaultOf[r][change.key] THEN Absent ELSE new

\* _prepare_one, for each key: an item when the change has an effect.
Prepared(r, stored, changes) ==
    [k \in Keys |->
        LET asked == {i \in DOMAIN changes : /\ changes[i].key = k
                                             /\ ~FieldError(r, changes[i])}
            new == Wanted(r, changes[CHOOSE i \in asked : TRUE])
        IN  IF asked = {} \/ new = stored[k]
            THEN NoItem
            ELSE [old |-> stored[k], new |-> new]]

\* _proposed, and also what writing the items does to the stored rows.
Proposed(overrides, items) ==
    [k \in Keys |-> IF items[k] = NoItem THEN overrides[k] ELSE items[k].new]

Touched(items) == {GroupOf[k] : k \in {j \in Keys : items[j] # NoItem}}

\* _group_values does not raise for this group.
Buildable(r, g, stored) ==
    \A k \in KeysOf[r] : GroupOf[k] = g /\ stored[k] # Absent
                            => Canon[r][k][stored[k]] # Bad

GroupHolds(r, g, stored) ==
    Buildable(r, g, stored) /\ GroupRule(r, g, Effective(r, stored))

CatalogueHolds(r, stored) ==
    r \in Validated => /\ \A g \in Groups : Buildable(r, g, stored)
                       /\ CatalogueRule(r, Effective(r, stored))

\* Bug variant: the rules see the request without the stored overrides.
BlindRejected(r, stored, changes) ==
    LET items == Prepared(r, stored, changes)
        proposed == Proposed(Empty, items)
    IN  \/ Duplicated(changes)
        \/ \E i \in DOMAIN changes : FieldError(r, changes[i])
        \/ \E g \in Touched(items) : ~GroupHolds(r, g, proposed)
        \/ ~CatalogueHolds(r, proposed)

\* The errors come first: a request that is wrong and changes nothing is wrong.
Rejected(r, stored, changes) ==
    LET items == Prepared(r, stored, changes)
        proposed == Proposed(stored, items)
    IN  \/ Duplicated(changes)
        \/ \E i \in DOMAIN changes : FieldError(r, changes[i])
        \/ \E g \in Touched(items) : ~GroupHolds(r, g, proposed)
        \/ ~CatalogueHolds(r, proposed)

NothingToChange(r, stored, changes) == Prepared(r, stored, changes) = Nothing

---------------------------------------------------------------------------
(* Requests the service computes itself.                                   *)

\* The changes that turn the known overrides into goal, leaving out no-ops.
Towards(stored, goal, named) ==
    [k \in {j \in named : stored[j] # goal[j]} |->
        [key |-> k, value |-> goal[k]]]

\* rollback_changes: the overrides of a stored document, as far as known.
RollbackGoal(r, document) ==
    [k \in Keys |-> IF k \in KeysOf[r] \cap document.overridden
                    THEN document.values[k] ELSE Absent]

RollbackChanges(r, overrides, document) ==
    Towards(Known(r, overrides), RollbackGoal(r, document), KeysOf[r])

\* document_changes: every known value of an imported document is a change,
\* and with replace every known override it does not name is reset.
ImportChanges(r, overrides, document, replace) ==
    LET stored == Known(r, overrides)
    IN  [k \in {j \in KeysOf[r] : \/ document.values[j] # Absent
                                  \/ replace /\ stored[j] # Absent} |->
            [key |-> k, value |-> document.values[k]]]

ImportDocument == [supported : BOOLEAN, values : Content]

\* Another format, or with strict a key the release does not declare.
ImportRejected(r, document, strict) ==
    \/ ~document.supported
    \/ strict /\ \E k \in Keys \ KeysOf[r] : document.values[k] # Absent

---------------------------------------------------------------------------
(* What sync does to the overrides of the previous catalogue:              *)
(* _drop_stale_overrides and _drop_invalid_overrides.                      *)
\* Bug variant: only keys that are gone are reset (before release 0.1.1).
StaleOnlySyncItems(r, overrides) ==
    [k \in Keys |-> IF overrides[k] # Absent /\ k \notin KeysOf[r]
                    THEN [old |-> overrides[k], new |-> Absent] ELSE NoItem]

\* Bug variant: every override is reset when the catalogue changes.
ResetAllSyncItems(r, overrides) ==
    [k \in Keys |-> IF overrides[k] # Absent
                    THEN [old |-> overrides[k], new |-> Absent] ELSE NoItem]

SyncItems(r, overrides) ==
    [k \in Keys |->
        IF overrides[k] # Absent /\ (k \notin KeysOf[r] \/ ~Valid(r, k, overrides[k]))
        THEN [old |-> overrides[k], new |-> Absent]
        ELSE NoItem]

===========================================================================
