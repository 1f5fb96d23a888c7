------------------------------- MODULE Tags -------------------------------
(***************************************************************************)
(* Tags and their assignments: the helpers of tags.py, the tag admin and   *)
(* the seeding of sync.  All of them write the same two tables, and only   *)
(* syncs exclude each other.                                               *)
(*                                                                         *)
(* A call is split where it reads what it later relies on.  What a call    *)
(* writes is one action: rows that it locks or inserts make others wait,   *)
(* and whatever they find then is what they would find after its commit.   *)
(* A call can end without a write at any time: a crash, a deadlock or a    *)
(* unique or foreign key that the database refuses.                        *)
(***************************************************************************)
EXTENDS Naturals, FiniteSets, Functions

CONSTANTS
    Keys,       \* the definitions; each release declares all of them
    Names,      \* names of tags
    Releases,
    Seeds,      \* the pairs of a key and a tag that a release declares
    Callers,    \* who calls, under the name that assigned_by keeps
    SYSTEM,     \* what assigned_by is on the rows that sync creates
    MaxId       \* bound on the primary keys of tags

ASSUME TagsAssumption ==
    /\ IsFiniteSet(Names)
    /\ Seeds \in [Releases -> SUBSET (Keys \X Names)]
    /\ SYSTEM \notin Callers
    /\ MaxId \in Nat

VARIABLES
    tags,       \* Tag: name and from_catalogue by primary key
    ids,        \* the last primary key
    rows,       \* TunableDefinitionTag: seeded and assigned_by, by key and tag
    pc, call,   \* the calls in progress
    applied,    \* history: the release that synced last
    raced       \* history: since then a call has written over it what it read before

vars == <<tags, ids, rows, pc, call, applied, raced>>

NoCall == "no call"

Known == {tags[i].name : i \in DOMAIN tags}

SeedNames(r) == {seed[2] : seed \in Seeds[r]}

IdOf(table, n) == CHOOSE i \in DOMAIN table : table[i].name = n

\* The tags with new ones, under the next primary keys.
Born(new) == ids + 1 .. ids + Cardinality(new)

Insert(new, mark) ==
    LET names == CHOOSE f \in Bijection(Born(new), new) : TRUE
    IN  [i \in DOMAIN tags \cup Born(new) |->
            IF i \in DOMAIN tags THEN tags[i] ELSE [name |-> names[i], from_catalogue |-> mark]]

Without(table, gone) == [x \in DOMAIN table \ gone |-> table[x]]

---------------------------------------------------------------------------
(* tunables_sync                                                           *)

\* Seeded tags are marked, and tags that are seeded no more are not.
SeedTags(r) ==
    LET all == Insert(SeedNames(r) \ Known, TRUE)
    IN  [i \in DOMAIN all |->
            [name |-> all[i].name, from_catalogue |-> all[i].name \in SeedNames(r)]]

\* Bug variant: each seed that is dropped stays as a manual assignment.
KeptSeedRows(r) ==
    LET table == SeedTags(r)
        seeded == {<<seed[1], IdOf(table, seed[2])>> : seed \in Seeds[r]}
    IN  [x \in DOMAIN rows \cup seeded |->
            [seeded |-> x \in seeded,
             assigned_by |-> IF x \in DOMAIN rows THEN rows[x].assigned_by ELSE SYSTEM]]

\* Bug variant: assigned_by among the defaults of an update.
ClaimedSeedRows(r) ==
    LET table == SeedTags(r)
        seeded == {<<seed[1], IdOf(table, seed[2])>> : seed \in Seeds[r]}
        kept == {x \in DOMAIN rows : rows[x].seeded => rows[x].assigned_by # SYSTEM}
    IN  [x \in kept \cup seeded |->
            [seeded |-> x \in seeded,
             assigned_by |-> IF x \in seeded THEN SYSTEM ELSE rows[x].assigned_by]]

\* Rows that exist keep assigned_by.  A seeded row that is no seed of r stays
\* as a manual one if a caller created it.
SeedRows(r) ==
    LET table == SeedTags(r)
        seeded == {<<seed[1], IdOf(table, seed[2])>> : seed \in Seeds[r]}
        kept == {x \in DOMAIN rows : rows[x].seeded => rows[x].assigned_by # SYSTEM}
    IN  [x \in kept \cup seeded |->
            [seeded |-> x \in seeded,
             assigned_by |-> IF x \in DOMAIN rows THEN rows[x].assigned_by ELSE SYSTEM]]

\* What mirror_drift() finds about tags.
Seeded == {x \in DOMAIN rows : rows[x].seeded}
Assigned == {<<x[1], tags[x[2]].name>> : x \in Seeded}
Marked == {tags[i].name : i \in {j \in DOMAIN tags : tags[j].from_catalogue}}

\* Bug variant: only what is missing.
MissingDrift(r) == Seeds[r] \ Assigned

Drift(r) == (Seeds[r] \ Assigned) \cup (Assigned \ Seeds[r]) \cup (Marked \ SeedNames(r))

\* A call that is busy with one of the keys is not alone, and rows that are
\* gone need no deletion.
Disturb(keys, gone) ==
    call' = [c \in Callers |->
        CASE pc'[c] = "idle" -> NoCall
          [] pc'[c] \in {"set", "deleted"} ->
                [call[c] EXCEPT !.doomed = @ \ gone, !.alone = @ /\ call[c].key \notin keys]
          [] OTHER -> call[c]]

Sync(r) ==
    LET new == SeedNames(r) \ Known
    IN  /\ ids + Cardinality(new) <= MaxId
        /\ ids' = ids + Cardinality(new)
        /\ tags' = SeedTags(r)
        /\ rows' = SeedRows(r)
        /\ applied' = r
        /\ raced' = FALSE
        /\ UNCHANGED pc
        /\ Disturb(Keys, DOMAIN rows \ DOMAIN rows')

---------------------------------------------------------------------------
(* The helpers and the tag admin                                           *)

Start(c, at, with) ==
    /\ pc[c] = "idle"
    /\ pc' = [pc EXCEPT ![c] = at]
    /\ call' = [call EXCEPT ![c] = with]
    /\ UNCHANGED <<tags, ids, rows, applied, raced>>

\* create_tag(), or a new tag in the admin; a name that exists is refused.
Create(n) ==
    /\ n \notin Known
    /\ ids < MaxId
    /\ ids' = ids + 1
    /\ tags' = Insert({n}, FALSE)
    /\ UNCHANGED <<rows, pc, call, applied, raced>>

\* delete_tag() and the delete page read the mark, and delete what they read.
DeleteRead(c) ==
    \E i \in DOMAIN tags : ~ tags[i].from_catalogue /\ Start(c, "delete", [id |-> i, loaded |-> tags[i]])

DeleteWrite(c) ==
    LET i == call[c].id
        gone == {x \in DOMAIN rows : x[2] = i}
    IN  /\ pc[c] = "delete"
        /\ pc' = [pc EXCEPT ![c] = "idle"]
        /\ tags' = Without(tags, {i})
        /\ rows' = Without(rows, gone)
        /\ raced' = (raced \/ (i \in DOMAIN tags
                               /\ tags[i].from_catalogue # call[c].loaded.from_catalogue))
        /\ Disturb(Keys, gone)
        /\ UNCHANGED <<ids, applied>>

\* Bug variant: the name of a seeded tag can be edited.
RenamingSaveRead(c) ==
    \E i \in DOMAIN tags : \E n \in Names :
        /\ n = tags[i].name \/ n \notin Known
        /\ Start(c, "save", [id |-> i, loaded |-> tags[i], name |-> n])

\* A save in the tag admin loads a tag and writes all of it: the name, which is
\* read only on a seeded tag, and the mark as it was loaded.  A row that has
\* been deleted meanwhile is inserted again.
SaveRead(c) ==
    \E i \in DOMAIN tags : \E n \in Names :
        /\ n = tags[i].name \/ (~ tags[i].from_catalogue /\ n \notin Known)
        /\ Start(c, "save", [id |-> i, loaded |-> tags[i], name |-> n])

SaveWrite(c) ==
    LET i == call[c].id
        loaded == call[c].loaded
        tag == [loaded EXCEPT !.name = call[c].name]
    IN  /\ pc[c] = "save"
        /\ pc' = [pc EXCEPT ![c] = "idle"]
        /\ \A j \in DOMAIN tags \ {i} : tags[j].name # tag.name
        /\ tags' = [j \in DOMAIN tags \cup {i} |-> IF j = i THEN tag ELSE tags[j]]
        /\ raced' = (raced \/ IF i \in DOMAIN tags THEN tags[i] # loaded
                                                   ELSE loaded.from_catalogue)
        /\ Disturb(Keys, {})
        /\ UNCHANGED <<ids, rows, applied>>

---------------------------------------------------------------------------
(* set_manual_tags()                                                       *)

RowsOf(k) == {x \in DOMAIN rows : x[1] = k}
NameOf(x) == tags[x[2]].name

SetRead(c) ==
    \E k \in Keys, wanted \in SUBSET Names :
        Start(c, "set", [key |-> k, wanted |-> wanted, doomed |-> {}, alone |-> TRUE,
                         seeded |-> {NameOf(x) : x \in RowsOf(k) \cap Seeded}])

\* Bug variant: seeded rows are replaced too.
SeededSetDelete(c) ==
    LET doomed == {x \in RowsOf(call[c].key) : NameOf(x) \notin call[c].wanted}
    IN  /\ pc[c] = "set"
        /\ pc' = [pc EXCEPT ![c] = "deleted"]
        /\ call' = [call EXCEPT ![c].doomed = doomed]
        /\ UNCHANGED <<tags, ids, rows, applied, raced>>

\* The rows that the DELETE statement finds.
SetDelete(c) ==
    LET doomed == {x \in RowsOf(call[c].key) \ Seeded : NameOf(x) \notin call[c].wanted}
    IN  /\ pc[c] = "set"
        /\ pc' = [pc EXCEPT ![c] = "deleted"]
        /\ call' = [call EXCEPT ![c].doomed = doomed]
        /\ UNCHANGED <<tags, ids, rows, applied, raced>>

\* A row that a sync has seeded while the statement waited for it is deleted or
\* not: that is up to the database.  Tags and rows that exist are not created.
SetWrite(c) ==
    LET names == call[c].wanted \ call[c].seeded
        new == names \ Known
        doomed == call[c].doomed
    IN  /\ pc[c] = "deleted"
        /\ pc' = [pc EXCEPT ![c] = "idle"]
        /\ ids + Cardinality(new) <= MaxId
        /\ ids' = ids + Cardinality(new)
        /\ tags' = Insert(new, FALSE)
        /\ \E gone \in {doomed, doomed \ Seeded} :
              /\ rows' = [x \in (DOMAIN rows \ gone)
                                \cup {<<call[c].key, IdOf(tags', n)>> : n \in names} |->
                            IF x \in DOMAIN rows \ gone THEN rows[x]
                            ELSE [seeded |-> FALSE, assigned_by |-> c]]
              /\ raced' = (raced \/ gone \cap Seeded # {})
              /\ Disturb({call[c].key}, gone)
        /\ UNCHANGED applied

Abandon(c) ==
    /\ pc[c] # "idle"
    /\ pc' = [pc EXCEPT ![c] = "idle"]
    /\ call' = [call EXCEPT ![c] = NoCall]
    /\ UNCHANGED <<tags, ids, rows, applied, raced>>

---------------------------------------------------------------------------

\* The tables as their migration leaves them, under a release that seeds nothing.
Init ==
    /\ tags = << >>
    /\ ids = 0
    /\ rows = << >>
    /\ pc = [c \in Callers |-> "idle"]
    /\ call = [c \in Callers |-> NoCall]
    /\ applied \in {r \in Releases : Seeds[r] = {}}
    /\ raced = FALSE

Next ==
    \/ \E r \in Releases : Sync(r)
    \/ \E n \in Names : Create(n)
    \/ \E c \in Callers :
        \/ DeleteRead(c) \/ DeleteWrite(c)
        \/ SaveRead(c) \/ SaveWrite(c)
        \/ SetRead(c) \/ SetDelete(c) \/ SetWrite(c)
        \/ Abandon(c)

Spec == Init /\ [][Next]_vars

---------------------------------------------------------------------------
(* Properties                                                              *)

Ids == 1..MaxId

\* The type of every variable, with the constraints of the tables: names are
\* unique (models.py:44), a row belongs to a tag that exists (models.py:82), and
\* a row that nobody attached is a seed.
TypeOK ==
    /\ DOMAIN tags \subseteq 1..ids /\ ids \in 0..MaxId
    /\ \A i \in DOMAIN tags :
        /\ tags[i] \in [name : Names, from_catalogue : BOOLEAN]
        /\ \A j \in DOMAIN tags : tags[i].name = tags[j].name => i = j
    /\ DOMAIN rows \subseteq Keys \X DOMAIN tags
    /\ \A x \in DOMAIN rows :
        /\ rows[x] \in [seeded : BOOLEAN, assigned_by : Callers \cup {SYSTEM}]
        /\ rows[x].assigned_by = SYSTEM => rows[x].seeded
    /\ pc \in [Callers -> {"idle", "delete", "save", "set", "deleted"}]
    /\ \A c \in Callers :
        call[c] \in CASE pc[c] = "idle" -> {NoCall}
                      [] pc[c] = "delete" ->
                            [id : Ids, loaded : [name : Names, from_catalogue : {FALSE}]]
                      [] pc[c] = "save" ->
                            [id : Ids, loaded : [name : Names, from_catalogue : BOOLEAN],
                             name : Names]
                      [] OTHER ->
                            [key : Keys, wanted : SUBSET Names, seeded : SUBSET Names,
                             doomed : SUBSET DOMAIN rows, alone : BOOLEAN]
    /\ applied \in Releases
    /\ raced \in BOOLEAN

\* A sync repairs whatever it finds, and what the code seeds then stays as it is
\* in the code, marked as such, until a call overwrites it with what it read
\* before the sync (sync.py:149, tags.py:74 and 98, admin/__init__.py:389).
DriftOnlyByRace == ~ raced => Drift(applied) = {} /\ SeedNames(applied) \subseteq Marked

\* tunables_sync --check reports no drift exactly when a sync would write no tag
\* and no assignment, except that it does not see a seeded tag that is not
\* marked (sync.py:36 against sync.py:149, for any release over any state).
CheckFindsAll ==
    \A r \in Releases :
        Drift(r) = {} /\ SeedNames(r) \cap Known \subseteq Marked
            <=> SeedTags(r) = tags /\ SeedRows(r) = rows

\* What a caller attached is lost only with its tag, or to a set_manual_tags that
\* does not want it; seeds that come and go neither remove it nor claim it
\* (tests/test_tags.py:118-147, sync.py:168).
HandmadeStays ==
    [][\A x \in DOMAIN rows : rows[x].assigned_by # SYSTEM =>
        \/ x \in DOMAIN rows' /\ rows'[x].assigned_by = rows[x].assigned_by
        \/ x[2] \notin DOMAIN tags'
        \/ \E c \in Callers : pc[c] = "deleted" /\ pc'[c] = "idle" /\ x \in call[c].doomed]_vars

\* set_manual_tags() replaces the manual tags of its definition and leaves its
\* seeded ones, unless somebody else writes to the definition or renames a tag
\* meanwhile (docs/api.md:222, tags.py:82).
NamesOn(k) == {NameOf(x) : x \in RowsOf(k)}
SeededOn(k) == {NameOf(x) : x \in RowsOf(k) \cap Seeded}

SetReplaces ==
    [][\A c \in Callers, k \in Keys :
        SetWrite(c) /\ call[c].alone /\ call[c].key = k =>
            /\ NamesOn(k)' = call[c].wanted \cup SeededOn(k)
            /\ SeededOn(k)' = SeededOn(k)]_vars

===========================================================================
