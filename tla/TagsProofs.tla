----------------------------- MODULE TagsProofs -----------------------------
(***************************************************************************)
(* Proofs about Tags, for any definitions, tags, releases and callers.     *)
(***************************************************************************)
EXTENDS Tags, FiniteSetTheorems, TLAPS

\* A table of tags: records with names of their own.
IsTagTable(T) ==
    /\ T = [i \in DOMAIN T |-> T[i]]
    /\ \A i \in DOMAIN T : T[i] \in [name : Names, from_catalogue : BOOLEAN]
    /\ \A i, j \in DOMAIN T : T[i].name = T[j].name => i = j

\* The two tables, with the constraints of the database.
Tables ==
    /\ IsTagTable(tags)
    /\ DOMAIN tags \subseteq 1..ids /\ ids \in 0..MaxId
    /\ rows = [x \in DOMAIN rows |-> rows[x]]
    /\ DOMAIN rows \subseteq Keys \X DOMAIN tags
    /\ \A x \in DOMAIN rows :
        /\ rows[x] \in [seeded : BOOLEAN, assigned_by : Callers \cup {SYSTEM}]
        /\ rows[x].assigned_by = SYSTEM => rows[x].seeded

---------------------------------------------------------------------------
(* Inserting tags.                                                         *)

\* The primary keys of new tags are above every one handed out, one for each name.
LEMMA NewKeys ==
    ASSUME Tables, NEW new \in SUBSET Names
    PROVE  /\ Cardinality(new) \in Nat /\ ids \in Nat
           /\ Born(new) = {i \in Nat : ids < i /\ i <= ids + Cardinality(new)}
           /\ Born(new) \cap DOMAIN tags = {}
           /\ Born(new) = {} <=> new = {}
           /\ Bijection(Born(new), new) # {}
  <1>1. IsFiniteSet(new)
    BY TagsAssumption, FS_Subset
  <1>2. Cardinality(new) \in Nat /\ ids \in Nat
    BY <1>1, FS_CardinalityType, TagsAssumption DEF Tables
  <1>3. /\ Born(new) = {i \in Nat : ids < i /\ i <= ids + Cardinality(new)}
        /\ Born(new) \cap DOMAIN tags = {}
    BY <1>2 DEF Born, Tables
  <1>4. IsFiniteSet(Born(new)) /\ Cardinality(Born(new)) = Cardinality(new)
    <2> DEFINE n == Cardinality(new)
    <2>1. n \in Nat
      BY <1>2
    <2> HIDE DEF n
    <2>2. /\ IsFiniteSet(ids + 1 .. ids + n)
          /\ Cardinality(ids + 1 .. ids + n) =
                IF ids + 1 > ids + n THEN 0 ELSE (ids + n) - (ids + 1) + 1
      BY <1>2, <2>1, FS_Interval
    <2>3. Cardinality(ids + 1 .. ids + n) = n
      BY <1>2, <2>1, <2>2
    <2> QED
      BY <2>2, <2>3 DEF Born, n
  <1>5. ExistsBijection(Born(new), new)
    BY <1>1, <1>4, FS_SameCardinalityBij
  <1>6. Born(new) = {} <=> new = {}
    BY <1>1, <1>4, FS_EmptySet
  <1> QED
    BY <1>2, <1>3, <1>5, <1>6 DEF ExistsBijection

\* What an insert of new names makes of the tags.
LEMMA Inserted ==
    ASSUME Tables, NEW new \in SUBSET Names, new \cap Known = {}, NEW mark \in BOOLEAN
    PROVE  LET T == Insert(new, mark) IN
           /\ IsTagTable(T)
           /\ DOMAIN T = DOMAIN tags \cup Born(new)
           /\ \A i \in DOMAIN tags : T[i] = tags[i]
           /\ \A i \in Born(new) : T[i].name \in new /\ T[i].from_catalogue = mark
           /\ \A n \in new : \E i \in Born(new) : T[i].name = n
  <1> DEFINE names == CHOOSE f \in Bijection(Born(new), new) : TRUE
             T == Insert(new, mark)
  <1>1. names \in Bijection(Born(new), new)
    BY NewKeys
  <1>2. /\ names \in [Born(new) -> new]
        /\ \A i, j \in Born(new) : names[i] = names[j] => i = j
        /\ \A n \in new : \E i \in Born(new) : names[i] = n
    BY <1>1 DEF Bijection, Injection, Surjection, IsInjective
  <1>3. T = [i \in DOMAIN tags \cup Born(new) |->
                IF i \in DOMAIN tags THEN tags[i]
                ELSE [name |-> names[i], from_catalogue |-> mark]]
    BY DEF Insert
  <1> HIDE DEF names, T
  <1>4. /\ DOMAIN T = DOMAIN tags \cup Born(new)
        /\ T = [i \in DOMAIN T |-> T[i]]
        /\ \A i \in DOMAIN tags : T[i] = tags[i]
    BY <1>3
  <1>5. \A i \in Born(new) : T[i] = [name |-> names[i], from_catalogue |-> mark]
    BY <1>3, NewKeys
  <1>6. \A i \in Born(new) : T[i].name = names[i] /\ T[i].from_catalogue = mark
    <2> SUFFICES ASSUME NEW i \in Born(new)
                 PROVE  T[i].name = names[i] /\ T[i].from_catalogue = mark
      OBVIOUS
    <2>1. T[i] = [name |-> names[i], from_catalogue |-> mark]
      BY <1>5
    <2> HIDE <1>5
    <2> QED
      BY <2>1
  <1>7. \A i \in DOMAIN T : T[i] \in [name : Names, from_catalogue : BOOLEAN]
    BY <1>2, <1>4, <1>5 DEF Tables, IsTagTable
  <1>8. \A i \in DOMAIN tags : T[i].name \in Known
    BY <1>4 DEF Known
  <1>9. \A i, j \in DOMAIN T : T[i].name = T[j].name => i = j
    <2> SUFFICES ASSUME NEW i \in DOMAIN T, NEW j \in DOMAIN T, T[i].name = T[j].name
                 PROVE  i = j
      OBVIOUS
    <2>1. CASE i \in DOMAIN tags /\ j \in DOMAIN tags
      <3>1. tags[i].name = tags[j].name
        BY <1>4, <2>1
      <3> QED
        BY <2>1, <3>1 DEF Tables, IsTagTable
    <2>2. CASE i \in Born(new) /\ j \in Born(new)
      BY <1>2, <1>6, <2>2
    <2>3. \A k \in Born(new) : T[k].name \notin Known
      BY <1>2, <1>6
    <2> QED
      BY <1>4, <1>8, <2>1, <2>2, <2>3
  <1> QED
    BY <1>2, <1>4, <1>6, <1>7, <1>9 DEF IsTagTable, T

\* The primary key of a name.
LEMMA FindsName ==
    ASSUME NEW T, IsTagTable(T)
    PROVE  /\ \A i \in DOMAIN T : IdOf(T, T[i].name) = i
           /\ \A n : (\E i \in DOMAIN T : T[i].name = n) =>
                 IdOf(T, n) \in DOMAIN T /\ T[IdOf(T, n)].name = n
  <1>1. \A n : (\E i \in DOMAIN T : T[i].name = n) =>
            IdOf(T, n) \in DOMAIN T /\ T[IdOf(T, n)].name = n
    BY DEF IdOf
  <1> QED
    BY <1>1 DEF IsTagTable

---------------------------------------------------------------------------
(* What a sync leaves.                                                     *)

\* After a sync the tags with the seeds' names are there, and only these are marked.
LEMMA SeedTable ==
    ASSUME Tables, NEW r \in Releases
    PROVE  LET T == SeedTags(r) IN
           /\ SeedNames(r) \subseteq Names
           /\ IsTagTable(T)
           /\ DOMAIN T = DOMAIN tags \cup Born(SeedNames(r) \ Known)
           /\ \A i \in DOMAIN tags : T[i].name = tags[i].name
           /\ \A i \in DOMAIN T : T[i].from_catalogue = (T[i].name \in SeedNames(r))
           /\ \A n \in SeedNames(r) : \E i \in DOMAIN T : T[i].name = n
  <1> DEFINE T == SeedTags(r)
             new == SeedNames(r) \ Known
             all == Insert(new, TRUE)
  <1>1. SeedNames(r) \subseteq Names
    BY TagsAssumption DEF SeedNames
  <1>2. /\ IsTagTable(all) /\ DOMAIN all = DOMAIN tags \cup Born(new)
        /\ \A i \in DOMAIN tags : all[i] = tags[i]
        /\ \A n \in new : \E i \in Born(new) : all[i].name = n
    <2>1. new \in SUBSET Names /\ new \cap Known = {}
      BY <1>1
    <2> HIDE DEF new
    <2> QED
      BY <2>1, Inserted
  <1>3. T = [i \in DOMAIN all |->
                [name |-> all[i].name, from_catalogue |-> all[i].name \in SeedNames(r)]]
    BY DEF SeedTags
  <1> HIDE DEF T, all
  <1>4. DOMAIN T = DOMAIN all /\ T = [i \in DOMAIN T |-> T[i]]
    BY <1>3
  <1>5. \A i \in DOMAIN T :
            /\ T[i].name = all[i].name
            /\ T[i].from_catalogue = (all[i].name \in SeedNames(r))
            /\ T[i] \in [name : Names, from_catalogue : BOOLEAN]
    <2> SUFFICES ASSUME NEW i \in DOMAIN T
                 PROVE  /\ T[i].name = all[i].name
                        /\ T[i].from_catalogue = (all[i].name \in SeedNames(r))
                        /\ T[i] \in [name : Names, from_catalogue : BOOLEAN]
      OBVIOUS
    <2>1. T[i] = [name |-> all[i].name, from_catalogue |-> all[i].name \in SeedNames(r)]
      BY <1>3, <1>4
    <2>2. all[i].name \in Names
      BY <1>2, <1>4 DEF IsTagTable
    <2> QED
      BY <2>1, <2>2
  <1>6. IsTagTable(T)
    BY <1>2, <1>4, <1>5 DEF IsTagTable
  <1>7. \A n \in SeedNames(r) : \E i \in DOMAIN T : T[i].name = n
    <2> SUFFICES ASSUME NEW n \in SeedNames(r) PROVE \E i \in DOMAIN all : all[i].name = n
      BY <1>4, <1>5
    <2>1. CASE n \in Known
      BY <1>2, <2>1 DEF Known
    <2>2. CASE n \notin Known
      BY <1>2, <2>2
    <2> QED
      BY <2>1, <2>2
  <1>8. \A i \in DOMAIN tags : T[i].name = tags[i].name
    BY <1>2, <1>4, <1>5
  <1>9. \A i \in DOMAIN T : T[i].from_catalogue = (T[i].name \in SeedNames(r))
    BY <1>5
  <1> QED
    BY <1>1, <1>2, <1>4, <1>6, <1>7, <1>8, <1>9 DEF T

\* The rows that a release seeds, and what else a sync keeps.
SeedKeys(r) == {<<seed[1], IdOf(SeedTags(r), seed[2])>> : seed \in Seeds[r]}

KeptRows == {x \in DOMAIN rows : rows[x].seeded => rows[x].assigned_by # SYSTEM}

\* The seeded rows name exactly the seeds of the release.
LEMMA SeedKeysNameSeeds ==
    ASSUME Tables, NEW r \in Releases
    PROVE  /\ SeedKeys(r) \subseteq Keys \X DOMAIN SeedTags(r)
           /\ {<<x[1], SeedTags(r)[x[2]].name>> : x \in SeedKeys(r)} = Seeds[r]
  <1> DEFINE T == SeedTags(r)
  <1>1. /\ IsTagTable(T)
        /\ \A n \in SeedNames(r) : \E i \in DOMAIN T : T[i].name = n
    BY SeedTable
  <1> HIDE DEF T
  <1>2. \A seed \in Seeds[r] :
            /\ seed = <<seed[1], seed[2]>> /\ seed[1] \in Keys
            /\ IdOf(T, seed[2]) \in DOMAIN T
            /\ T[IdOf(T, seed[2])].name = seed[2]
    <2> SUFFICES ASSUME NEW seed \in Seeds[r]
                 PROVE  /\ seed = <<seed[1], seed[2]>> /\ seed[1] \in Keys
                        /\ IdOf(T, seed[2]) \in DOMAIN T
                        /\ T[IdOf(T, seed[2])].name = seed[2]
      OBVIOUS
    <2>1. seed \in Keys \X Names
      BY TagsAssumption
    <2>2. seed[2] \in SeedNames(r)
      BY DEF SeedNames
    <2> QED
      BY <1>1, <2>1, <2>2, FindsName
  <1>3. SeedKeys(r) = {<<seed[1], IdOf(T, seed[2])>> : seed \in Seeds[r]}
    BY DEF SeedKeys, T
  <1>4. SeedKeys(r) \subseteq Keys \X DOMAIN T
    BY <1>2, <1>3
  <1>5. {<<x[1], T[x[2]].name>> : x \in SeedKeys(r)} \subseteq Seeds[r]
    <2> SUFFICES ASSUME NEW x \in SeedKeys(r) PROVE <<x[1], T[x[2]].name>> \in Seeds[r]
      OBVIOUS
    <2>1. PICK seed \in Seeds[r] : x = <<seed[1], IdOf(T, seed[2])>>
      BY <1>3
    <2>2. x[1] = seed[1] /\ T[x[2]].name = seed[2]
      BY <1>2, <2>1
    <2> QED
      BY <1>2, <2>2
  <1>6. ASSUME NEW seed \in Seeds[r]
        PROVE  seed \in {<<x[1], T[x[2]].name>> : x \in SeedKeys(r)}
    <2> DEFINE x == <<seed[1], IdOf(T, seed[2])>>
    <2>1. x \in SeedKeys(r)
      BY <1>3
    <2>2. seed = <<x[1], T[x[2]].name>>
      BY <1>2
    <2> HIDE DEF x
    <2> QED
      BY <2>1, <2>2
  <1> QED
    BY <1>4, <1>5, <1>6 DEF T

\* The assignments after a sync: seeds, and what was assigned by hand.
LEMMA SeedRowsAre ==
    ASSUME Tables, NEW r \in Releases
    PROVE  LET R == SeedRows(r) IN
           /\ R = [x \in DOMAIN R |-> R[x]]
           /\ DOMAIN R = KeptRows \cup SeedKeys(r)
           /\ \A x \in DOMAIN R :
                /\ R[x].seeded = (x \in SeedKeys(r))
                /\ R[x].assigned_by = IF x \in DOMAIN rows THEN rows[x].assigned_by ELSE SYSTEM
                /\ R[x] \in [seeded : BOOLEAN, assigned_by : Callers \cup {SYSTEM}]
                /\ R[x].assigned_by = SYSTEM => R[x].seeded
  <1> DEFINE R == SeedRows(r)
             by(x) == IF x \in DOMAIN rows THEN rows[x].assigned_by ELSE SYSTEM
  <1>1. R = [x \in KeptRows \cup SeedKeys(r) |->
                [seeded |-> x \in SeedKeys(r), assigned_by |-> by(x)]]
    BY DEF SeedRows, SeedKeys, KeptRows
  <1> HIDE DEF R
  <1>2. DOMAIN R = KeptRows \cup SeedKeys(r) /\ R = [x \in DOMAIN R |-> R[x]]
    BY <1>1
  <1>3. \A x \in DOMAIN R :
            /\ R[x].seeded = (x \in SeedKeys(r))
            /\ R[x].assigned_by = by(x)
            /\ R[x] \in [seeded : BOOLEAN, assigned_by : Callers \cup {SYSTEM}]
            /\ R[x].assigned_by = SYSTEM => R[x].seeded
    <2> SUFFICES ASSUME NEW x \in DOMAIN R
                 PROVE  /\ R[x].seeded = (x \in SeedKeys(r))
                        /\ R[x].assigned_by = by(x)
                        /\ R[x] \in [seeded : BOOLEAN, assigned_by : Callers \cup {SYSTEM}]
                        /\ R[x].assigned_by = SYSTEM => R[x].seeded
      OBVIOUS
    <2> DEFINE b == x \in SeedKeys(r)
    <2>1. R[x] = [seeded |-> b, assigned_by |-> by(x)]
      BY <1>1, <1>2
    <2>2. by(x) \in Callers \cup {SYSTEM}
      BY DEF Tables
    <2>3. by(x) = SYSTEM => b
      BY <1>2 DEF Tables, KeptRows
    <2>4. b \in BOOLEAN
      OBVIOUS
    <2> HIDE DEF by, b
    <2>5. R[x].seeded = b /\ R[x].assigned_by = by(x)
      BY <2>1
    <2>6. R[x] \in [seeded : BOOLEAN, assigned_by : Callers \cup {SYSTEM}]
      BY <2>1, <2>2, <2>4
    <2> QED
      BY <2>3, <2>5, <2>6 DEF b
  <1> QED
    BY <1>2, <1>3 DEF R

---------------------------------------------------------------------------
(* The calls in progress.                                                  *)

DeleteCalls == [id : Ids, loaded : [name : Names, from_catalogue : {FALSE}]]

SaveCalls == [id : Ids, loaded : [name : Names, from_catalogue : BOOLEAN], name : Names]

SetCalls == [key : Keys, wanted : SUBSET Names, seeded : SUBSET Names,
             doomed : SUBSET DOMAIN rows, alone : BOOLEAN]

\* What the call of c is like at each place; a tag that it has loaded has a
\* primary key that was used, and a seeded tag keeps its name.
Fits(c) ==
    /\ pc[c] = "idle" => call[c] = NoCall
    /\ pc[c] = "delete" => call[c] \in DeleteCalls
    /\ pc[c] = "save" =>
        /\ call[c] \in SaveCalls /\ call[c].id <= ids
        /\ call[c].loaded.from_catalogue => call[c].name = call[c].loaded.name
    /\ pc[c] \in {"set", "deleted"} =>
        call[c] \in SetCalls /\ call[c].doomed \subseteq RowsOf(call[c].key)

Calls ==
    /\ pc \in [Callers -> {"idle", "delete", "save", "set", "deleted"}]
    /\ call = [c \in Callers |-> call[c]]
    /\ \A c \in Callers : Fits(c)

\* What set_manual_tags has read is still so while it is alone.
Fresh ==
    \A c \in Callers : pc[c] \in {"set", "deleted"} /\ call[c].alone =>
        /\ call[c].seeded = SeededOn(call[c].key)
        /\ pc[c] = "deleted" =>
            call[c].doomed = {x \in RowsOf(call[c].key) \ Seeded : NameOf(x) \notin call[c].wanted}

\* Until a call overwrites it, the tables hold exactly the seeds.
Mirrored == ~ raced => Assigned = Seeds[applied] /\ Marked = SeedNames(applied)

Rest == applied \in Releases /\ raced \in BOOLEAN

IInv == Tables /\ Calls /\ Rest /\ Fresh /\ Mirrored

\* A write that disturbs the others leaves their calls as they fit.
LEMMA Disturbed ==
    ASSUME Calls, ids \in Nat, ids' \in Nat, ids <= ids',
           NEW keys, NEW gone, Disturb(keys, gone),
           \/ pc' = pc
           \/ \E c \in Callers : pc' = [pc EXCEPT ![c] = "idle"],
           DOMAIN rows \ gone \subseteq DOMAIN rows'
    PROVE  /\ Calls'
           /\ \A d \in Callers : pc'[d] \in {"set", "deleted"} =>
                /\ pc[d] = pc'[d]
                /\ call'[d].key = call[d].key
                /\ call'[d].wanted = call[d].wanted
                /\ call'[d].seeded = call[d].seeded
                /\ call'[d].doomed = call[d].doomed \ gone
                /\ call'[d].alone => call[d].alone /\ call[d].key \notin keys
  <1>1. /\ pc' \in [Callers -> {"idle", "delete", "save", "set", "deleted"}]
        /\ \A d \in Callers : pc'[d] = "idle" \/ pc'[d] = pc[d]
    BY DEF Calls
  <1>2. call' = [c \in Callers |-> call'[c]]
    BY DEF Disturb
  <1>3. ASSUME NEW d \in Callers, pc'[d] \in {"set", "deleted"}
        PROVE  /\ call'[d] \in SetCalls'
               /\ call'[d].key = call[d].key
               /\ call'[d].wanted = call[d].wanted
               /\ call'[d].seeded = call[d].seeded
               /\ call'[d].doomed = call[d].doomed \ gone
               /\ call'[d].alone => call[d].alone /\ call[d].key \notin keys
               /\ (call[d].doomed \subseteq RowsOf(call[d].key))'
    <2>a. PICK rec : rec = call[d]
      OBVIOUS
    <2>b. PICK lone \in BOOLEAN : lone = (rec.alone /\ rec.key \notin keys)
      OBVIOUS
    <2>1. call'[d] = [rec EXCEPT !.doomed = rec.doomed \ gone, !.alone = lone]
      BY <1>3, <2>a, <2>b DEF Disturb
    <2>2. rec \in SetCalls /\ rec.doomed \subseteq RowsOf(rec.key)
      BY <1>1, <1>3, <2>a DEF Calls, Fits
    <2>4. /\ call'[d].key = rec.key /\ call'[d].wanted = rec.wanted
          /\ call'[d].seeded = rec.seeded
          /\ call'[d].doomed = rec.doomed \ gone /\ call'[d].alone = lone
      BY <2>1, <2>2 DEF SetCalls
    <2>5. rec.doomed \ gone \subseteq DOMAIN rows'
      BY <2>2 DEF SetCalls
    <2>6. call'[d] \in SetCalls'
      BY <2>1, <2>2, <2>5 DEF SetCalls
    <2>7. (call[d].doomed \subseteq RowsOf(call[d].key))'
      BY <2>2, <2>4, <2>5 DEF RowsOf
    <2> QED
      BY <2>a, <2>b, <2>4, <2>6, <2>7
  <1>4. ASSUME NEW d \in Callers PROVE Fits(d)'
    <2>1. pc'[d] = "idle" => call'[d] = NoCall
      BY DEF Disturb
    <2>2. ASSUME pc'[d] \in {"delete", "save"} PROVE call'[d] = call[d] /\ pc'[d] = pc[d]
      BY <1>1, <2>2 DEF Disturb
    <2>3. pc'[d] = "delete" => call'[d] \in DeleteCalls'
      BY <2>2 DEF Calls, Fits, DeleteCalls, Ids
    <2>4. ASSUME pc'[d] = "save"
          PROVE  /\ call'[d] \in SaveCalls' /\ call'[d].id <= ids'
                 /\ call'[d].loaded.from_catalogue => call'[d].name = call'[d].loaded.name
      <3>1. /\ call'[d] = call[d] /\ call[d] \in SaveCalls /\ call[d].id <= ids
            /\ call[d].loaded.from_catalogue => call[d].name = call[d].loaded.name
        BY <2>2, <2>4 DEF Calls, Fits
      <3>2. call[d].id \in Nat
        BY <3>1, TagsAssumption DEF SaveCalls, Ids
      <3>3. call'[d] \in SaveCalls'
        BY <3>1 DEF SaveCalls, Ids
      <3> QED
        BY <3>1, <3>2, <3>3
    <2> QED
      BY <1>3, <2>1, <2>3, <2>4 DEF Fits
  <1> QED
    BY <1>1, <1>2, <1>3, <1>4 DEF Calls

\* A call that starts.
LEMMA Started ==
    ASSUME Calls, NEW c \in Callers, NEW at, NEW with, Start(c, at, with),
           at \in {"delete", "save", "set"},
           at = "delete" => with \in DeleteCalls,
           at = "save" => /\ with \in SaveCalls /\ with.id <= ids
                          /\ with.loaded.from_catalogue => with.name = with.loaded.name,
           at = "set" => with \in SetCalls /\ with.doomed \subseteq RowsOf(with.key)
    PROVE  /\ Calls'
           /\ pc'[c] = at /\ call'[c] = with
           /\ \A d \in Callers \ {c} : pc'[d] = pc[d] /\ call'[d] = call[d]
  <1>1. /\ pc' = [pc EXCEPT ![c] = at] /\ call' = [call EXCEPT ![c] = with]
        /\ ids' = ids /\ rows' = rows
    BY DEF Start
  <1>2. /\ pc'[c] = at /\ call'[c] = with
        /\ \A d \in Callers \ {c} : pc'[d] = pc[d] /\ call'[d] = call[d]
        /\ pc' \in [Callers -> {"idle", "delete", "save", "set", "deleted"}]
        /\ call' = [d \in Callers |-> call'[d]]
    BY <1>1 DEF Calls
  <1>3. ASSUME NEW d \in Callers PROVE Fits(d)'
    <2>1. CASE d = c
      BY <1>1, <1>2, <2>1 DEF Fits, SetCalls, DeleteCalls, SaveCalls, Ids, RowsOf
    <2>2. CASE d # c
      BY <1>1, <1>2, <2>2 DEF Calls, Fits, SetCalls, DeleteCalls, SaveCalls, Ids, RowsOf
    <2> QED
      BY <2>1, <2>2
  <1> QED
    BY <1>2, <1>3 DEF Calls

\* What was read about a key that nobody has written to is still so.
LEMMA FreshStays ==
    ASSUME Calls, Fresh, ids \in Nat, ids' \in Nat, ids <= ids',
           NEW keys, NEW gone, Disturb(keys, gone),
           \/ pc' = pc
           \/ \E c \in Callers : pc' = [pc EXCEPT ![c] = "idle"],
           DOMAIN rows \ gone \subseteq DOMAIN rows',
           \A k \in Keys \ keys :
                /\ RowsOf(k)' = RowsOf(k) /\ RowsOf(k) \cap gone = {}
                /\ \A x \in RowsOf(k) : /\ rows'[x].seeded = rows[x].seeded
                                        /\ NameOf(x)' = NameOf(x)
    PROVE  Fresh'
  <1> SUFFICES ASSUME NEW c \in Callers, pc'[c] \in {"set", "deleted"}, call'[c].alone
               PROVE  /\ call'[c].seeded = SeededOn(call[c].key)'
                      /\ pc'[c] = "deleted" =>
                            call'[c].doomed = {x \in RowsOf(call[c].key) \ Seeded :
                                                NameOf(x) \notin call[c].wanted}'
    BY DEF Fresh
  <1>1. PICK rec : rec = call[c]
    OBVIOUS
  <1>2. /\ pc[c] = pc'[c] /\ rec.alone /\ rec.key \notin keys
        /\ call'[c].key = rec.key /\ call'[c].wanted = rec.wanted
        /\ call'[c].seeded = rec.seeded /\ call'[c].doomed = rec.doomed \ gone
    BY <1>1, Disturbed
  <1>3. rec.key \in Keys /\ rec.doomed \subseteq RowsOf(rec.key)
    BY <1>1, <1>2 DEF Calls, Fits, SetCalls
  <1>4. PICK k \in Keys \ keys : k = rec.key
    BY <1>2, <1>3
  <1>5. rec.doomed \ gone = rec.doomed
    BY <1>3, <1>4
  <1>6. /\ rec.seeded = SeededOn(k)
        /\ pc[c] = "deleted" =>
            rec.doomed = {x \in RowsOf(k) \ Seeded : NameOf(x) \notin rec.wanted}
    BY <1>1, <1>2, <1>4 DEF Fresh
  <1>7. /\ RowsOf(k)' = RowsOf(k)
        /\ \A x \in RowsOf(k) : x \in Seeded <=> x \in Seeded'
        /\ \A x \in RowsOf(k) : NameOf(x)' = NameOf(x)
    BY <1>4 DEF Seeded, RowsOf
  <1>8. SeededOn(k)' = SeededOn(k)
    BY <1>7 DEF SeededOn
  <1>9. {x \in RowsOf(k)' \ Seeded' : NameOf(x)' \notin rec.wanted}
            = {x \in RowsOf(k) \ Seeded : NameOf(x) \notin rec.wanted}
    BY <1>7
  <1>10. call'[c].key = k /\ call'[c].wanted = rec.wanted
    BY <1>2, <1>4
  <1>11. SeededOn(call[c].key)' = SeededOn(k)
    BY <1>8, <1>10 DEF SeededOn, RowsOf
  <1>12. {x \in RowsOf(call[c].key) \ Seeded : NameOf(x) \notin call[c].wanted}'
            = {x \in RowsOf(k) \ Seeded : NameOf(x) \notin rec.wanted}
    BY <1>9, <1>10 DEF RowsOf
  <1> QED
    BY <1>2, <1>5, <1>6, <1>11, <1>12

\* A sync keeps the invariant.
LEMMA SyncKeeps ==
    ASSUME IInv, NEW r \in Releases, Sync(r)
    PROVE  IInv'
  <1> DEFINE new == SeedNames(r) \ Known
  <1>1. /\ tags' = SeedTags(r) /\ rows' = SeedRows(r) /\ pc' = pc
        /\ applied' = r /\ raced' = FALSE
        /\ ids' = ids + Cardinality(new) /\ ids' <= MaxId
        /\ Disturb(Keys, DOMAIN rows \ DOMAIN rows')
    BY DEF Sync
  <1>2. /\ SeedNames(r) \subseteq Names
        /\ IsTagTable(tags')
        /\ DOMAIN tags' = DOMAIN tags \cup Born(new)
        /\ \A i \in DOMAIN tags' : tags'[i].from_catalogue = (tags'[i].name \in SeedNames(r))
        /\ \A n \in SeedNames(r) : \E i \in DOMAIN tags' : tags'[i].name = n
    BY <1>1, SeedTable DEF IInv
  <1>3. /\ Cardinality(new) \in Nat /\ ids \in Nat
        /\ Born(new) = {i \in Nat : ids < i /\ i <= ids + Cardinality(new)}
    BY <1>2, NewKeys DEF IInv
  <1> HIDE DEF new
  <1>4. ids' \in 0..MaxId /\ ids <= ids' /\ ids' \in Nat /\ DOMAIN tags' \subseteq 1..ids'
    BY <1>1, <1>2, <1>3, TagsAssumption DEF IInv, Tables
  <1>5. /\ rows' = [x \in DOMAIN rows' |-> rows'[x]]
        /\ DOMAIN rows' = KeptRows \cup SeedKeys(r)
        /\ \A x \in DOMAIN rows' :
            /\ rows'[x].seeded = (x \in SeedKeys(r))
            /\ rows'[x] \in [seeded : BOOLEAN, assigned_by : Callers \cup {SYSTEM}]
            /\ rows'[x].assigned_by = SYSTEM => rows'[x].seeded
    BY <1>1, SeedRowsAre DEF IInv
  <1>6. /\ SeedKeys(r) \subseteq Keys \X DOMAIN tags'
        /\ {<<x[1], tags'[x[2]].name>> : x \in SeedKeys(r)} = Seeds[r]
    BY <1>1, SeedKeysNameSeeds DEF IInv
  <1>7. KeptRows \subseteq Keys \X DOMAIN tags'
    BY <1>2 DEF KeptRows, IInv, Tables
  <1>8. Tables'
    BY <1>2, <1>4, <1>5, <1>6, <1>7 DEF Tables, IsTagTable
  <1>9. Calls'
    BY <1>1, <1>3, <1>4, Disturbed DEF IInv
  <1>10. Fresh'
    BY <1>1, <1>3, <1>4, FreshStays DEF IInv
  <1>11. Seeded' = SeedKeys(r)
    BY <1>5 DEF Seeded
  <1>12. Assigned' = Seeds[r]
    BY <1>6, <1>11 DEF Assigned
  <1>13. Marked' = SeedNames(r)
    <2>1. Marked' = {tags'[i].name : i \in {j \in DOMAIN tags' : tags'[j].from_catalogue}}
      BY DEF Marked
    <2>2. Marked' \subseteq SeedNames(r)
      BY <1>2, <2>1
    <2>3. SeedNames(r) \subseteq Marked'
      BY <1>2, <2>1
    <2> QED
      BY <2>2, <2>3
  <1>14. SeedNames(applied)' = SeedNames(r) /\ Seeds[applied]' = Seeds[r]
    BY <1>1 DEF SeedNames
  <1> QED
    BY <1>1, <1>8, <1>9, <1>10, <1>12, <1>13, <1>14 DEF IInv, Mirrored, Rest

---------------------------------------------------------------------------
(* The other writes.                                                       *)

MarkedIds == {j \in DOMAIN tags : tags[j].from_catalogue}

\* The marked names change only with marked tags.
LEMMA MarkedStays ==
    ASSUME MarkedIds' = MarkedIds, \A j \in MarkedIds : tags'[j].name = tags[j].name
    PROVE  Marked' = Marked
  <1>1. Marked = {tags[j].name : j \in MarkedIds}
    BY DEF Marked, MarkedIds
  <1>2. Marked' = {tags'[j].name : j \in MarkedIds'}
    BY DEF Marked, MarkedIds
  <1> QED
    BY <1>1, <1>2

\* Tags that a call creates are not marked, and disturb no tag that exists.
LEMMA Grown ==
    ASSUME Tables, NEW new \in SUBSET Names, new \cap Known = {},
           tags' = Insert(new, FALSE), ids' = ids + Cardinality(new), ids' <= MaxId
    PROVE  /\ IsTagTable(tags')
           /\ ids \in Nat /\ ids' \in Nat /\ ids <= ids' /\ ids' \in 0..MaxId
           /\ DOMAIN tags \subseteq DOMAIN tags' /\ DOMAIN tags' \subseteq 1..ids'
           /\ \A i \in DOMAIN tags : tags'[i] = tags[i]
           /\ Marked' = Marked
           /\ \A n \in new \cup Known : \E i \in DOMAIN tags' : tags'[i].name = n
  <1>1. /\ IsTagTable(tags') /\ DOMAIN tags' = DOMAIN tags \cup Born(new)
        /\ \A i \in DOMAIN tags : tags'[i] = tags[i]
        /\ \A i \in Born(new) : tags'[i].from_catalogue = FALSE
        /\ \A n \in new : \E i \in Born(new) : tags'[i].name = n
    <2> DEFINE T == Insert(new, FALSE)
    <2>1. new \in SUBSET Names /\ new \cap Known = {} /\ FALSE \in BOOLEAN
      OBVIOUS
    <2>2. /\ IsTagTable(T) /\ DOMAIN T = DOMAIN tags \cup Born(new)
          /\ \A i \in DOMAIN tags : T[i] = tags[i]
          /\ \A i \in Born(new) : T[i].name \in new /\ T[i].from_catalogue = FALSE
          /\ \A n \in new : \E i \in Born(new) : T[i].name = n
      BY <2>1, Inserted, Zenon
    <2>3. tags' = T
      OBVIOUS
    <2> HIDE DEF T
    <2> QED
      BY <2>2, <2>3
  <1>2. /\ Cardinality(new) \in Nat /\ ids \in Nat
        /\ Born(new) = {i \in Nat : ids < i /\ i <= ids + Cardinality(new)}
    BY NewKeys
  <1>3. ids' \in Nat /\ ids <= ids' /\ ids' \in 0..MaxId /\ DOMAIN tags' \subseteq 1..ids'
    <2>1. DOMAIN tags \subseteq 1..ids
      BY DEF Tables
    <2>2. ids' \in Nat /\ ids <= ids' /\ ids' \in 0..MaxId
      BY <1>2, TagsAssumption
    <2>3. 1..ids \subseteq 1..ids'
      BY <1>2, <2>2
    <2>4. Born(new) \subseteq 1..ids'
      BY <1>2, <2>2
    <2> QED
      BY <1>1, <2>1, <2>2, <2>3, <2>4
  <1>4. MarkedIds' = MarkedIds
    BY <1>1 DEF MarkedIds
  <1>5. \A j \in MarkedIds : tags'[j].name = tags[j].name
    BY <1>1 DEF MarkedIds
  <1>6. Marked' = Marked
    BY <1>4, <1>5, MarkedStays
  <1>7. \A n \in new \cup Known : \E i \in DOMAIN tags' : tags'[i].name = n
    BY <1>1 DEF Known
  <1> QED
    BY <1>1, <1>2, <1>3, <1>6, <1>7

\* Seeds stay as they are while no seeded row and no mark changes.
LEMMA MirrorStays ==
    ASSUME Mirrored, applied' = applied,
           ~ raced' => /\ ~ raced /\ Marked' = Marked
                       /\ Seeded' = Seeded /\ \A x \in Seeded : NameOf(x)' = NameOf(x)
    PROVE  Mirrored'
  <1> SUFFICES ASSUME ~ raced'
               PROVE  Assigned' = Seeds[applied]' /\ Marked' = SeedNames(applied)'
    BY DEF Mirrored
  <1>1. Assigned = {<<x[1], NameOf(x)>> : x \in Seeded}
    BY DEF Assigned, NameOf
  <1>2. Assigned' = {<<x[1], NameOf(x)'>> : x \in Seeded'}
    BY DEF Assigned, NameOf
  <1>3. Assigned' = Assigned
    BY <1>1, <1>2
  <1>4. SeedNames(applied)' = SeedNames(applied) /\ Seeds[applied]' = Seeds[applied]
    BY DEF SeedNames
  <1> QED
    BY <1>3, <1>4 DEF Mirrored

\* A seeded row belongs to a marked tag.
LEMMA SeededAreMarked ==
    ASSUME Tables, Mirrored, ~ raced, NEW x \in Seeded
    PROVE  x[2] \in MarkedIds
  <1>1. x[2] \in DOMAIN tags
    BY DEF Tables, Seeded
  <1>2. <<x[1], tags[x[2]].name>> \in Seeds[applied]
    BY DEF Mirrored, Assigned
  <1>3. tags[x[2]].name \in SeedNames(applied)
    BY <1>2 DEF SeedNames
  <1>4. PICK j \in MarkedIds : tags[j].name = tags[x[2]].name
    BY <1>3 DEF Mirrored, Marked, MarkedIds
  <1>5. j = x[2]
    BY <1>1, <1>4 DEF MarkedIds, Tables, IsTagTable
  <1> QED
    BY <1>4, <1>5

\* A tag created by hand keeps the invariant.
LEMMA CreateKeeps ==
    ASSUME IInv, NEW n \in Names, Create(n)
    PROVE  IInv'
  <1>1. Cardinality({n}) = 1
    BY FS_Singleton
  <1>2. /\ tags' = Insert({n}, FALSE) /\ {n} \cap Known = {} /\ {n} \in SUBSET Names
        /\ rows' = rows /\ pc' = pc /\ call' = call /\ applied' = applied /\ raced' = raced
    BY DEF Create
  <1>3. ids' = ids + Cardinality({n}) /\ ids' <= MaxId
    BY <1>1, TagsAssumption DEF Create, IInv, Tables
  <1>4. /\ IsTagTable(tags')
        /\ ids \in Nat /\ ids' \in Nat /\ ids <= ids' /\ ids' \in 0..MaxId
        /\ DOMAIN tags \subseteq DOMAIN tags' /\ DOMAIN tags' \subseteq 1..ids'
        /\ \A i \in DOMAIN tags : tags'[i] = tags[i]
        /\ Marked' = Marked
    BY <1>2, <1>3, Grown DEF IInv
  <1>5. \A x \in DOMAIN rows : NameOf(x)' = NameOf(x)
    BY <1>4 DEF NameOf, IInv, Tables
  <1>6. Tables'
    BY <1>2, <1>4 DEF IInv, Tables, IsTagTable
  <1>7. Calls'
    <2> SUFFICES ASSUME NEW d \in Callers PROVE Fits(d)'
      BY <1>2 DEF IInv, Calls
    <2>1. Fits(d)
      BY DEF IInv, Calls
    <2>2. /\ SetCalls' = SetCalls /\ SaveCalls' = SaveCalls /\ DeleteCalls' = DeleteCalls
          /\ RowsOf(call[d].key)' = RowsOf(call[d].key)
      BY <1>2 DEF SetCalls, SaveCalls, DeleteCalls, Ids, RowsOf
    <2>3. call[d] \in SaveCalls => call[d].id \in Nat
      BY TagsAssumption DEF SaveCalls, Ids
    <2> QED
      BY <1>2, <1>4, <2>1, <2>2, <2>3 DEF Fits
  <1>8. Seeded' = Seeded
    BY <1>2 DEF Seeded
  <1>9. ASSUME NEW k
        PROVE  /\ RowsOf(k)' = RowsOf(k)
               /\ SeededOn(k)' = SeededOn(k)
               /\ \A x \in RowsOf(k) : NameOf(x)' = NameOf(x)
    BY <1>2, <1>5, <1>8 DEF RowsOf, SeededOn
  <1>10. Fresh'
    <2> SUFFICES ASSUME NEW c \in Callers, pc[c] \in {"set", "deleted"}, call[c].alone
                 PROVE  /\ call[c].seeded = SeededOn(call[c].key)'
                        /\ pc[c] = "deleted" =>
                            call[c].doomed = {x \in RowsOf(call[c].key) \ Seeded :
                                                NameOf(x) \notin call[c].wanted}'
      BY <1>2 DEF Fresh
    <2>1. PICK rec : rec = call[c]
      OBVIOUS
    <2>2. {x \in RowsOf(rec.key)' \ Seeded' : NameOf(x)' \notin rec.wanted}
            = {x \in RowsOf(rec.key) \ Seeded : NameOf(x) \notin rec.wanted}
      BY <1>8, <1>9
    <2>3. {x \in RowsOf(call[c].key) \ Seeded : NameOf(x) \notin call[c].wanted}'
            = {x \in RowsOf(rec.key)' \ Seeded' : NameOf(x)' \notin rec.wanted}
      BY <1>2, <2>1 DEF RowsOf
    <2>4. SeededOn(call[c].key)' = SeededOn(rec.key)
      BY <1>2, <1>9, <2>1 DEF SeededOn, RowsOf
    <2>5. /\ rec.seeded = SeededOn(rec.key)
          /\ pc[c] = "deleted" =>
                rec.doomed = {x \in RowsOf(rec.key) \ Seeded : NameOf(x) \notin rec.wanted}
      BY <2>1 DEF IInv, Fresh
    <2> QED
      BY <2>1, <2>2, <2>3, <2>4, <2>5
  <1>11. Mirrored'
    BY <1>2, <1>4, <1>5, <1>8, MirrorStays DEF IInv, Seeded
  <1> QED
    BY <1>2, <1>6, <1>7, <1>10, <1>11 DEF IInv, Rest

\* So does a delete, with the assignments that go with the tag.
LEMMA DeleteWriteKeeps ==
    ASSUME IInv, NEW c \in Callers, DeleteWrite(c)
    PROVE  IInv'
  <1>1. PICK i : i = call[c].id
    OBVIOUS
  <1>2. PICK gone : gone = {x \in DOMAIN rows : x[2] = i}
    OBVIOUS
  <1>3. /\ pc[c] = "delete" /\ pc' = [pc EXCEPT ![c] = "idle"]
        /\ tags' = Without(tags, {i}) /\ rows' = Without(rows, gone)
        /\ raced' = (raced \/ (i \in DOMAIN tags
                               /\ tags[i].from_catalogue # call[c].loaded.from_catalogue))
        /\ Disturb(Keys, gone) /\ ids' = ids /\ applied' = applied
    BY <1>1, <1>2 DEF DeleteWrite
  <1>4. call[c].loaded.from_catalogue = FALSE
    BY <1>3 DEF IInv, Calls, Fits, DeleteCalls
  <1>5. /\ DOMAIN tags' = DOMAIN tags \ {i} /\ \A j \in DOMAIN tags' : tags'[j] = tags[j]
        /\ tags' = [j \in DOMAIN tags' |-> tags'[j]]
        /\ DOMAIN rows' = DOMAIN rows \ gone /\ \A x \in DOMAIN rows' : rows'[x] = rows[x]
        /\ rows' = [x \in DOMAIN rows' |-> rows'[x]]
    BY <1>3 DEF Without
  <1>6. ids \in Nat
    BY TagsAssumption DEF IInv, Tables
  <1>7. IsTagTable(tags')
    BY <1>5 DEF IInv, Tables, IsTagTable
  <1>8. DOMAIN rows' \subseteq Keys \X DOMAIN tags'
    BY <1>2, <1>5 DEF IInv, Tables
  <1>9. Tables'
    <2>1. DOMAIN tags' \subseteq 1..ids' /\ ids' \in 0..MaxId
      BY <1>3, <1>5 DEF IInv, Tables
    <2>2. \A x \in DOMAIN rows' :
             /\ rows'[x] \in [seeded : BOOLEAN, assigned_by : Callers \cup {SYSTEM}]
             /\ rows'[x].assigned_by = SYSTEM => rows'[x].seeded
      BY <1>5 DEF IInv, Tables
    <2> QED
      BY <1>5, <1>7, <1>8, <2>1, <2>2 DEF Tables
  <1>10. Calls' /\ Fresh'
    <2>0. ids' \in Nat /\ ids <= ids' /\ DOMAIN rows \ gone \subseteq DOMAIN rows'
      BY <1>3, <1>5, <1>6
    <2>1. \E d \in Callers : pc' = [pc EXCEPT ![d] = "idle"]
      BY <1>3, Zenon
    <2>2. Calls /\ Fresh /\ ids \in Nat /\ Disturb(Keys, gone)
      BY <1>3, <1>6 DEF IInv
    <2>3. Calls'
      BY <2>0, <2>1, <2>2, Disturbed, Zenon
    <2>4. \A k \in Keys \ Keys :
            /\ RowsOf(k)' = RowsOf(k) /\ RowsOf(k) \cap gone = {}
            /\ \A x \in RowsOf(k) : /\ rows'[x].seeded = rows[x].seeded
                                    /\ NameOf(x)' = NameOf(x)
      OBVIOUS
    <2>5. Fresh'
      BY <2>0, <2>1, <2>2, <2>4, FreshStays, Zenon
    <2> QED
      BY <2>3, <2>5
  <1>12. ASSUME ~ raced'
         PROVE  /\ ~ raced /\ Marked' = Marked
                /\ Seeded' = Seeded /\ \A x \in Seeded : NameOf(x)' = NameOf(x)
    <2>1. ~ raced /\ i \notin MarkedIds
      BY <1>3, <1>4, <1>12 DEF MarkedIds, IInv, Tables, IsTagTable
    <2>2. Marked' = Marked
      <3>1. MarkedIds' = MarkedIds
        BY <1>5, <2>1 DEF MarkedIds
      <3> QED
        BY <1>5, <3>1, MarkedStays DEF MarkedIds
    <2>3. \A x \in Seeded : x[2] \in MarkedIds
      BY <2>1, SeededAreMarked DEF IInv
    <2>4. Seeded' = Seeded
      BY <1>2, <1>5, <2>1, <2>3 DEF Seeded
    <2>5. \A x \in Seeded : NameOf(x)' = NameOf(x)
      BY <1>5, <2>1, <2>3 DEF NameOf, MarkedIds
    <2> QED
      BY <2>1, <2>2, <2>4, <2>5
  <1>13. Mirrored'
    BY <1>3, <1>12, MirrorStays DEF IInv
  <1>14. Rest'
    BY <1>3 DEF IInv, Rest
  <1> QED
    BY <1>9, <1>10, <1>13, <1>14 DEF IInv

\* So does a save of a tag that was loaded before.
LEMMA SaveWriteKeeps ==
    ASSUME IInv, NEW c \in Callers, SaveWrite(c)
    PROVE  IInv'
  <1>1. PICK i, loaded, tag : /\ i = call[c].id /\ loaded = call[c].loaded
                              /\ tag = [loaded EXCEPT !.name = call[c].name]
    OBVIOUS
  <1>2. /\ pc[c] = "save" /\ pc' = [pc EXCEPT ![c] = "idle"]
        /\ \A j \in DOMAIN tags \ {i} : tags[j].name # tag.name
        /\ tags' = [j \in DOMAIN tags \cup {i} |-> IF j = i THEN tag ELSE tags[j]]
        /\ raced' = (raced \/ IF i \in DOMAIN tags THEN tags[i] # loaded
                                                   ELSE loaded.from_catalogue)
        /\ Disturb(Keys, {}) /\ ids' = ids /\ rows' = rows /\ applied' = applied
    BY <1>1 DEF SaveWrite
  <1>3. /\ call[c] \in SaveCalls /\ call[c].id <= ids
        /\ call[c].loaded.from_catalogue => call[c].name = call[c].loaded.name
    BY <1>2 DEF IInv, Calls, Fits
  <1>4. /\ i \in 1..ids /\ ids \in Nat
        /\ tag \in [name : Names, from_catalogue : BOOLEAN]
        /\ tag.from_catalogue = loaded.from_catalogue /\ loaded.from_catalogue \in BOOLEAN
        /\ tag.from_catalogue => tag.name = loaded.name
    BY <1>1, <1>3, TagsAssumption DEF SaveCalls, Ids, IInv, Tables
  <1>5. /\ DOMAIN tags' = DOMAIN tags \cup {i} /\ tags'[i] = tag
        /\ \A j \in DOMAIN tags \ {i} : tags'[j] = tags[j]
        /\ tags' = [j \in DOMAIN tags' |-> tags'[j]]
    BY <1>2
  <1>6. IsTagTable(tags')
    BY <1>2, <1>4, <1>5 DEF IInv, Tables, IsTagTable
  <1>7. Tables'
    BY <1>2, <1>4, <1>5, <1>6 DEF IInv, Tables, IsTagTable
  <1>8. Calls' /\ Fresh'
    <2>0. ids' \in Nat /\ ids <= ids' /\ DOMAIN rows \ {} \subseteq DOMAIN rows'
      BY <1>2, <1>4
    <2>1. \E d \in Callers : pc' = [pc EXCEPT ![d] = "idle"]
      BY <1>2, Zenon
    <2>2. Calls /\ Fresh /\ ids \in Nat /\ Disturb(Keys, {})
      BY <1>2, <1>4 DEF IInv
    <2>3. Calls'
      BY <2>0, <2>1, <2>2, Disturbed, Zenon
    <2>4. \A k \in Keys \ Keys :
            /\ RowsOf(k)' = RowsOf(k) /\ RowsOf(k) \cap {} = {}
            /\ \A x \in RowsOf(k) : /\ rows'[x].seeded = rows[x].seeded
                                    /\ NameOf(x)' = NameOf(x)
      OBVIOUS
    <2>5. Fresh'
      BY <2>0, <2>1, <2>2, <2>4, FreshStays, Zenon
    <2> QED
      BY <2>3, <2>5
  <1>10. ASSUME ~ raced'
         PROVE  /\ ~ raced /\ Marked' = Marked
                /\ Seeded' = Seeded /\ \A x \in Seeded : NameOf(x)' = NameOf(x)
    <2>1. /\ ~ raced
          /\ i \in DOMAIN tags => tags[i] = loaded
          /\ i \notin DOMAIN tags => ~ loaded.from_catalogue
      BY <1>2, <1>4, <1>10
    <2>2. MarkedIds' = MarkedIds
      BY <1>4, <1>5, <2>1 DEF MarkedIds
    <2>3. \A j \in MarkedIds : tags'[j].name = tags[j].name
      BY <1>4, <1>5, <2>1 DEF MarkedIds
    <2>4. \A x \in Seeded : x[2] \in MarkedIds
      BY <2>1, SeededAreMarked DEF IInv
    <2>5. Seeded' = Seeded
      BY <1>2 DEF Seeded
    <2>6. \A x \in Seeded : NameOf(x)' = NameOf(x)
      BY <2>3, <2>4 DEF NameOf
    <2> QED
      BY <2>1, <2>2, <2>3, <2>5, <2>6, MarkedStays
  <1>11. Mirrored'
    BY <1>2, <1>10, MirrorStays DEF IInv
  <1>12. Rest'
    BY <1>2 DEF IInv, Rest
  <1> QED
    BY <1>7, <1>8, <1>11, <1>12 DEF IInv

---------------------------------------------------------------------------
(* set_manual_tags().                                                      *)

\* The rows that the call of c creates, under the primary keys it finds.
NewRows(c) == {<<call[c].key, IdOf(tags', n)>> : n \in call[c].wanted \ call[c].seeded}

\* What a write of set_manual_tags does to the tables.
LEMMA SetWritten ==
    ASSUME Tables, Calls, NEW c \in Callers, SetWrite(c)
    PROVE  /\ IsTagTable(tags')
           /\ ids \in Nat /\ ids' \in Nat /\ ids <= ids' /\ ids' \in 0..MaxId
           /\ DOMAIN tags \subseteq DOMAIN tags' /\ DOMAIN tags' \subseteq 1..ids'
           /\ \A i \in DOMAIN tags : tags'[i] = tags[i]
           /\ Marked' = Marked
           /\ pc' = [pc EXCEPT ![c] = "idle"] /\ applied' = applied
           /\ call[c] \in SetCalls /\ call[c].doomed \subseteq RowsOf(call[c].key)
           /\ \A n \in call[c].wanted \ call[c].seeded :
                IdOf(tags', n) \in DOMAIN tags' /\ tags'[IdOf(tags', n)].name = n
           /\ \E gone \in {call[c].doomed, call[c].doomed \ Seeded} :
                /\ raced' = (raced \/ gone \cap Seeded # {})
                /\ Disturb({call[c].key}, gone)
                /\ rows' = [x \in DOMAIN rows' |-> rows'[x]]
                /\ DOMAIN rows' = (DOMAIN rows \ gone) \cup NewRows(c)
                /\ \A x \in DOMAIN rows \ gone : rows'[x] = rows[x]
                /\ \A x \in DOMAIN rows' \ (DOMAIN rows \ gone) :
                        rows'[x] = [seeded |-> FALSE, assigned_by |-> c]
  <1> DEFINE names == call[c].wanted \ call[c].seeded
             new == names \ Known
  <1>1. /\ pc[c] = "deleted" /\ pc' = [pc EXCEPT ![c] = "idle"] /\ applied' = applied
        /\ ids' <= MaxId /\ ids' = ids + Cardinality(new) /\ tags' = Insert(new, FALSE)
    BY DEF SetWrite
  <1>2. PICK gone \in {call[c].doomed, call[c].doomed \ Seeded} :
            /\ rows' = [x \in (DOMAIN rows \ gone) \cup NewRows(c) |->
                            IF x \in DOMAIN rows \ gone THEN rows[x]
                            ELSE [seeded |-> FALSE, assigned_by |-> c]]
            /\ raced' = (raced \/ gone \cap Seeded # {})
            /\ Disturb({call[c].key}, gone)
    BY DEF SetWrite, NewRows
  <1>3. call[c] \in SetCalls /\ call[c].doomed \subseteq RowsOf(call[c].key)
    BY <1>1 DEF Calls, Fits
  <1>4. names \subseteq Names
    BY <1>3 DEF SetCalls
  <1>5. new \in SUBSET Names /\ new \cap Known = {} /\ names \subseteq new \cup Known
    BY <1>4
  <1> HIDE DEF names, new
  <1>6. /\ IsTagTable(tags')
        /\ ids \in Nat /\ ids' \in Nat /\ ids <= ids' /\ ids' \in 0..MaxId
        /\ DOMAIN tags \subseteq DOMAIN tags' /\ DOMAIN tags' \subseteq 1..ids'
        /\ \A i \in DOMAIN tags : tags'[i] = tags[i]
        /\ Marked' = Marked
        /\ \A n \in new \cup Known : \E i \in DOMAIN tags' : tags'[i].name = n
    BY <1>1, <1>5, Grown
  <1>7. PICK T : T = tags'
    OBVIOUS
  <1>8. \A n \in names : IdOf(T, n) \in DOMAIN T /\ T[IdOf(T, n)].name = n
    BY <1>5, <1>6, <1>7, FindsName
  <1>9. /\ rows' = [x \in DOMAIN rows' |-> rows'[x]]
        /\ DOMAIN rows' = (DOMAIN rows \ gone) \cup NewRows(c)
        /\ \A x \in DOMAIN rows \ gone : rows'[x] = rows[x]
        /\ \A x \in DOMAIN rows' \ (DOMAIN rows \ gone) :
                rows'[x] = [seeded |-> FALSE, assigned_by |-> c]
    BY <1>2
  <1> QED
    BY <1>1, <1>2, <1>3, <1>6, <1>7, <1>8, <1>9 DEF names

\* So does the last step of set_tags.
LEMMA SetWriteKeeps ==
    ASSUME IInv, NEW c \in Callers, SetWrite(c)
    PROVE  IInv'
  <1>1. /\ IsTagTable(tags')
        /\ ids \in Nat /\ ids' \in Nat /\ ids <= ids' /\ ids' \in 0..MaxId
        /\ DOMAIN tags \subseteq DOMAIN tags' /\ DOMAIN tags' \subseteq 1..ids'
        /\ \A i \in DOMAIN tags : tags'[i] = tags[i]
        /\ Marked' = Marked
        /\ pc' = [pc EXCEPT ![c] = "idle"] /\ applied' = applied
        /\ call[c] \in SetCalls /\ call[c].doomed \subseteq RowsOf(call[c].key)
        /\ \A n \in call[c].wanted \ call[c].seeded : IdOf(tags', n) \in DOMAIN tags'
    BY SetWritten DEF IInv
  <1>2. PICK gone \in {call[c].doomed, call[c].doomed \ Seeded} :
            /\ raced' = (raced \/ gone \cap Seeded # {})
            /\ Disturb({call[c].key}, gone)
            /\ rows' = [x \in DOMAIN rows' |-> rows'[x]]
            /\ DOMAIN rows' = (DOMAIN rows \ gone) \cup NewRows(c)
            /\ \A x \in DOMAIN rows \ gone : rows'[x] = rows[x]
            /\ \A x \in DOMAIN rows' \ (DOMAIN rows \ gone) :
                    rows'[x] = [seeded |-> FALSE, assigned_by |-> c]
    BY SetWritten DEF IInv
  <1>3. gone \subseteq RowsOf(call[c].key)
    BY <1>1
  <1>4. /\ NewRows(c) \subseteq Keys \X DOMAIN tags'
        /\ \A x \in NewRows(c) : x[1] = call[c].key
    BY <1>1 DEF NewRows, SetCalls
  <1>5. ASSUME NEW x \in DOMAIN rows' \ (DOMAIN rows \ gone)
        PROVE  /\ rows'[x] \in [seeded : BOOLEAN, assigned_by : Callers \cup {SYSTEM}]
               /\ rows'[x].assigned_by # SYSTEM /\ ~ rows'[x].seeded
    <2>1. PICK no \in BOOLEAN : no = FALSE
      OBVIOUS
    <2>2. rows'[x] = [seeded |-> no, assigned_by |-> c]
      BY <1>2, <1>5, <2>1
    <2>3. rows'[x].seeded = no /\ rows'[x].assigned_by = c
      BY <2>2
    <2>4. rows'[x] \in [seeded : BOOLEAN, assigned_by : Callers \cup {SYSTEM}]
      BY <2>2
    <2> QED
      BY <2>1, <2>3, <2>4, TagsAssumption
  <1>6. Tables'
    <2>1. DOMAIN rows' \subseteq Keys \X DOMAIN tags'
      BY <1>1, <1>2, <1>4 DEF IInv, Tables
    <2>2. \A x \in DOMAIN rows' :
            /\ rows'[x] \in [seeded : BOOLEAN, assigned_by : Callers \cup {SYSTEM}]
            /\ rows'[x].assigned_by = SYSTEM => rows'[x].seeded
      BY <1>2, <1>5 DEF IInv, Tables
    <2> QED
      BY <1>1, <1>2, <2>1, <2>2 DEF Tables, IsTagTable
  <1>7. \A x \in DOMAIN rows : NameOf(x)' = NameOf(x)
    BY <1>1 DEF NameOf, IInv, Tables
  <1>8. Calls' /\ Fresh'
    <2>1. \E d \in Callers : pc' = [pc EXCEPT ![d] = "idle"]
      BY <1>1, Zenon
    <2>2. DOMAIN rows \ gone \subseteq DOMAIN rows'
      BY <1>2
    <2>3. /\ Calls /\ Fresh /\ ids \in Nat /\ ids' \in Nat /\ ids <= ids'
          /\ Disturb({call[c].key}, gone)
      BY <1>1, <1>2 DEF IInv
    <2>4. Calls'
      BY <2>1, <2>2, <2>3, Disturbed, Zenon
    <2>5. ASSUME NEW k \in Keys \ {call[c].key}
          PROVE  /\ RowsOf(k)' = RowsOf(k) /\ RowsOf(k) \cap gone = {}
                 /\ \A x \in RowsOf(k) : /\ rows'[x].seeded = rows[x].seeded
                                         /\ NameOf(x)' = NameOf(x)
      <3>1. RowsOf(k) \cap gone = {}
        BY <1>3 DEF RowsOf
      <3>2. RowsOf(k)' = RowsOf(k)
        BY <1>2, <1>4, <3>1 DEF RowsOf
      <3>3. \A x \in RowsOf(k) : x \in DOMAIN rows \ gone
        BY <3>1 DEF RowsOf
      <3>4. \A x \in RowsOf(k) : rows'[x] = rows[x] /\ NameOf(x)' = NameOf(x)
        BY <1>2, <1>7, <3>3
      <3> QED
        BY <3>1, <3>2, <3>4
    <2>6. Fresh'
      BY <2>1, <2>2, <2>3, <2>5, FreshStays, Zenon
    <2> QED
      BY <2>4, <2>6
  <1>9. ASSUME ~ raced' PROVE ~ raced /\ Seeded' = Seeded
    <2>1. ~ raced /\ gone \cap Seeded = {}
      BY <1>2, <1>9
    <2>2. Seeded \subseteq Seeded'
      BY <1>2, <2>1 DEF Seeded
    <2>3. Seeded' \subseteq Seeded
      BY <1>2, <1>5 DEF Seeded
    <2> QED
      BY <2>1, <2>2, <2>3
  <1>10. Mirrored'
    BY <1>1, <1>7, <1>9, MirrorStays DEF IInv, Seeded
  <1>11. Rest'
    BY <1>1, <1>2 DEF IInv, Rest
  <1> QED
    BY <1>6, <1>8, <1>10, <1>11 DEF IInv

---------------------------------------------------------------------------
(* Steps that leave the tables alone.                                      *)

\* The call of c agrees with the tables, as Fresh says of a call.
Agrees(c) ==
    pc[c] \in {"set", "deleted"} /\ call[c].alone =>
        /\ call[c].seeded = SeededOn(call[c].key)
        /\ pc[c] = "deleted" =>
            call[c].doomed = {x \in RowsOf(call[c].key) \ Seeded : NameOf(x) \notin call[c].wanted}

\* A step that only moves one caller keeps the invariant.
LEMMA TablesStay ==
    ASSUME IInv, UNCHANGED <<tags, ids, rows, applied, raced>>, Calls',
           NEW c \in Callers, Agrees(c)',
           \A d \in Callers \ {c} : pc'[d] = pc[d] /\ call'[d] = call[d]
    PROVE  IInv'
  <1>1. Tables' /\ Rest'
    BY DEF IInv, Tables, IsTagTable, Rest
  <1>2. Seeded' = Seeded /\ Marked' = Marked /\ \A x : NameOf(x)' = NameOf(x)
    BY DEF Seeded, Marked, NameOf
  <1>3. Mirrored'
    BY <1>2, MirrorStays DEF IInv
  <1>4. ASSUME NEW d \in Callers \ {c} PROVE Agrees(d)'
    <2>1. Agrees(d)
      BY DEF IInv, Fresh, Agrees
    <2>2. PICK rec : rec = call[d]
      OBVIOUS
    <2>3. RowsOf(call[d].key)' = RowsOf(rec.key)
      BY <2>2 DEF RowsOf
    <2>4. SeededOn(call[d].key)' = SeededOn(rec.key)
      BY <1>2, <2>2, <2>3 DEF SeededOn, RowsOf
    <2>5. {x \in RowsOf(call[d].key) \ Seeded : NameOf(x) \notin call[d].wanted}'
            = {x \in RowsOf(rec.key) \ Seeded : NameOf(x) \notin rec.wanted}
      BY <1>2, <2>2, <2>3 DEF RowsOf
    <2> QED
      BY <2>1, <2>2, <2>4, <2>5 DEF Agrees
  <1>5. Fresh'
    BY <1>4 DEF Fresh, Agrees
  <1> QED
    BY <1>1, <1>3, <1>5 DEF IInv

\* So do the reads before a delete and a save.
LEMMA ReadsKeep ==
    ASSUME IInv, NEW c \in Callers, DeleteRead(c) \/ SaveRead(c)
    PROVE  IInv'
  <1>1. \A i \in DOMAIN tags :
            i \in Ids /\ i <= ids /\ tags[i] \in [name : Names, from_catalogue : BOOLEAN]
    BY TagsAssumption DEF IInv, Tables, IsTagTable, Ids
  <1>2. CASE DeleteRead(c)
    <2>1. PICK i \in DOMAIN tags :
            ~ tags[i].from_catalogue /\ Start(c, "delete", [id |-> i, loaded |-> tags[i]])
      BY <1>2 DEF DeleteRead
    <2>2. [id |-> i, loaded |-> tags[i]] \in DeleteCalls
      BY <1>1, <2>1 DEF DeleteCalls
    <2>3. PICK with : with = [id |-> i, loaded |-> tags[i]]
      OBVIOUS
    <2>4. /\ Calls' /\ pc'[c] = "delete"
          /\ \A d \in Callers \ {c} : pc'[d] = pc[d] /\ call'[d] = call[d]
      BY <2>1, <2>2, <2>3, Started DEF IInv
    <2>5. Agrees(c)'
      BY <2>4 DEF Agrees
    <2> QED
      BY <2>1, <2>4, <2>5, TablesStay DEF Start
  <1>3. CASE SaveRead(c)
    <2>1. PICK i \in DOMAIN tags, n \in Names :
            /\ n = tags[i].name \/ (~ tags[i].from_catalogue /\ n \notin Known)
            /\ Start(c, "save", [id |-> i, loaded |-> tags[i], name |-> n])
      BY <1>3 DEF SaveRead
    <2>2. PICK with : with = [id |-> i, loaded |-> tags[i], name |-> n]
      OBVIOUS
    <2>3. /\ with \in SaveCalls /\ with.id <= ids
          /\ with.loaded.from_catalogue => with.name = with.loaded.name
      BY <1>1, <2>1, <2>2 DEF SaveCalls
    <2>4. /\ Calls' /\ pc'[c] = "save"
          /\ \A d \in Callers \ {c} : pc'[d] = pc[d] /\ call'[d] = call[d]
      BY <2>1, <2>2, <2>3, Started DEF IInv
    <2>5. Agrees(c)'
      BY <2>4 DEF Agrees
    <2> QED
      BY <2>1, <2>4, <2>5, TablesStay DEF Start
  <1> QED
    BY <1>2, <1>3

\* So does the first step of set_tags.
LEMMA SetReadKeeps ==
    ASSUME IInv, NEW c \in Callers, SetRead(c)
    PROVE  IInv'
  <1>1. PICK k \in Keys, wanted \in SUBSET Names :
            Start(c, "set", [key |-> k, wanted |-> wanted, doomed |-> {}, alone |-> TRUE,
                             seeded |-> SeededOn(k)])
    BY DEF SetRead, SeededOn
  <1>2. SeededOn(k) \subseteq Names
    BY DEF SeededOn, RowsOf, Seeded, NameOf, IInv, Tables, IsTagTable
  <1>3. PICK with : with = [key |-> k, wanted |-> wanted, doomed |-> {}, alone |-> TRUE,
                            seeded |-> SeededOn(k)]
    OBVIOUS
  <1>4. /\ with \in SetCalls /\ with.doomed = {}
        /\ with.key = k /\ with.seeded = SeededOn(k)
    BY <1>2, <1>3 DEF SetCalls
  <1>5. /\ Calls' /\ pc'[c] = "set" /\ call'[c] = with
        /\ \A d \in Callers \ {c} : pc'[d] = pc[d] /\ call'[d] = call[d]
    BY <1>1, <1>3, <1>4, Started DEF IInv
  <1>6. UNCHANGED <<tags, ids, rows, applied, raced>>
    BY <1>1 DEF Start
  <1>7. Agrees(c)'
    BY <1>4, <1>5, <1>6 DEF Agrees, SeededOn, RowsOf, Seeded, NameOf
  <1> QED
    BY <1>5, <1>6, <1>7, TablesStay

\* So does its second one.
LEMMA SetDeleteKeeps ==
    ASSUME IInv, NEW c \in Callers, SetDelete(c)
    PROVE  IInv'
  <1>1. PICK rec, doomed :
            /\ rec = call[c]
            /\ doomed = {x \in RowsOf(call[c].key) \ Seeded : NameOf(x) \notin call[c].wanted}
    OBVIOUS
  <1>2. /\ pc[c] = "set" /\ pc' = [pc EXCEPT ![c] = "deleted"]
        /\ call' = [call EXCEPT ![c].doomed = doomed]
        /\ UNCHANGED <<tags, ids, rows, applied, raced>>
    BY <1>1 DEF SetDelete
  <1>3. rec \in SetCalls
    BY <1>1, <1>2 DEF IInv, Calls, Fits
  <1>4. /\ pc'[c] = "deleted"
        /\ pc' \in [Callers -> {"idle", "delete", "save", "set", "deleted"}]
        /\ call'[c] = [rec EXCEPT !.doomed = doomed]
        /\ call' = [d \in Callers |-> call'[d]]
        /\ \A d \in Callers \ {c} : pc'[d] = pc[d] /\ call'[d] = call[d]
    BY <1>1, <1>2 DEF IInv, Calls
  <1>5. /\ call'[c].key = rec.key /\ call'[c].wanted = rec.wanted
        /\ call'[c].seeded = rec.seeded /\ call'[c].alone = rec.alone
        /\ call'[c].doomed = doomed
    BY <1>3, <1>4 DEF SetCalls
  <1>6. doomed \subseteq RowsOf(rec.key) /\ doomed \subseteq DOMAIN rows
    BY <1>1 DEF RowsOf
  <1>7. call'[c] \in SetCalls
    BY <1>3, <1>4, <1>6 DEF SetCalls
  <1>8. Calls'
    <2>1. /\ SetCalls' = SetCalls /\ SaveCalls' = SaveCalls /\ DeleteCalls' = DeleteCalls
          /\ \A d \in Callers : RowsOf(call[d].key)' = RowsOf(call'[d].key)
      BY <1>2 DEF SetCalls, SaveCalls, DeleteCalls, Ids, RowsOf
    <2>2. Fits(c)'
      BY <1>4, <1>5, <1>6, <1>7, <2>1 DEF Fits
    <2>3. ASSUME NEW d \in Callers \ {c} PROVE Fits(d)'
      BY <1>2, <1>4, <2>1 DEF IInv, Calls, Fits
    <2> QED
      BY <1>4, <2>2, <2>3 DEF Calls
  <1>9. Agrees(c)'
    <2>1. rec.alone => rec.seeded = SeededOn(rec.key)
      BY <1>1, <1>2 DEF IInv, Fresh
    <2>2. SeededOn(call[c].key)' = SeededOn(rec.key)
      BY <1>2, <1>5 DEF SeededOn, RowsOf, Seeded, NameOf
    <2>3. {x \in RowsOf(call[c].key) \ Seeded : NameOf(x) \notin call[c].wanted}' = doomed
      BY <1>1, <1>2, <1>5 DEF RowsOf, Seeded, NameOf
    <2> QED
      BY <1>5, <2>1, <2>2, <2>3 DEF Agrees
  <1> QED
    BY <1>2, <1>4, <1>8, <1>9, TablesStay

\* So does a caller that gives up.
LEMMA AbandonKeeps ==
    ASSUME IInv, NEW c \in Callers, Abandon(c)
    PROVE  IInv'
  <1>1. /\ pc' = [pc EXCEPT ![c] = "idle"] /\ call' = [call EXCEPT ![c] = NoCall]
        /\ UNCHANGED <<tags, ids, rows, applied, raced>>
    BY DEF Abandon
  <1>2. /\ pc'[c] = "idle" /\ call'[c] = NoCall
        /\ pc' \in [Callers -> {"idle", "delete", "save", "set", "deleted"}]
        /\ call' = [d \in Callers |-> call'[d]]
        /\ \A d \in Callers \ {c} : pc'[d] = pc[d] /\ call'[d] = call[d]
    BY <1>1 DEF IInv, Calls
  <1>3. Calls'
    <2>1. /\ SetCalls' = SetCalls /\ SaveCalls' = SaveCalls /\ DeleteCalls' = DeleteCalls
          /\ \A d \in Callers : RowsOf(call[d].key)' = RowsOf(call'[d].key)
      BY <1>1 DEF SetCalls, SaveCalls, DeleteCalls, Ids, RowsOf
    <2>2. Fits(c)'
      BY <1>2 DEF Fits
    <2>3. ASSUME NEW d \in Callers \ {c} PROVE Fits(d)'
      BY <1>1, <1>2, <2>1 DEF IInv, Calls, Fits
    <2> QED
      BY <1>2, <2>2, <2>3 DEF Calls
  <1>4. Agrees(c)'
    BY <1>2 DEF Agrees
  <1> QED
    BY <1>1, <1>2, <1>3, <1>4, TablesStay

\* So does a step of nobody.
LEMMA StutterKeeps ==
    ASSUME IInv, UNCHANGED vars
    PROVE  IInv'
  <1>1. Tables' /\ Rest'
    BY DEF vars, IInv, Tables, IsTagTable, Rest
  <1>2. Seeded' = Seeded /\ Marked' = Marked /\ \A x : NameOf(x)' = NameOf(x)
    BY DEF vars, Seeded, Marked, NameOf
  <1>3. Mirrored'
    BY <1>2, MirrorStays DEF vars, IInv
  <1>4. Calls'
    BY DEF vars, IInv, Calls, Fits, DeleteCalls, SaveCalls, SetCalls, Ids, RowsOf
  <1>5. Fresh'
    BY DEF vars, IInv, Fresh, SeededOn, RowsOf, Seeded, NameOf
  <1> QED
    BY <1>1, <1>3, <1>4, <1>5 DEF IInv

---------------------------------------------------------------------------
(* The invariant.                                                          *)

\* An empty database satisfies the invariant.
LEMMA InitIInv == Init => IInv
  <1> SUFFICES ASSUME Init PROVE IInv
    OBVIOUS
  <1>1. DOMAIN tags = {} /\ DOMAIN rows = {} /\ ids = 0 /\ raced = FALSE
    BY DEF Init
  <1>2. tags = [i \in DOMAIN tags |-> tags[i]] /\ rows = [x \in DOMAIN rows |-> rows[x]]
    BY DEF Init
  <1>3. Tables
    BY <1>1, <1>2, TagsAssumption DEF Tables, IsTagTable
  <1>4. Calls /\ Fresh /\ Rest
    BY <1>1 DEF Init, Calls, Fits, Fresh, Rest
  <1>5. Seeds[applied] = {}
    BY DEF Init
  <1>6. Assigned = {} /\ Marked = {} /\ SeedNames(applied) = {}
    BY <1>1, <1>5 DEF Assigned, Seeded, Marked, SeedNames
  <1> QED
    BY <1>3, <1>4, <1>5, <1>6 DEF IInv, Mirrored

\* Every step keeps the invariant.
LEMMA NextIInv == IInv /\ [Next]_vars => IInv'
  <1> SUFFICES ASSUME IInv, [Next]_vars PROVE IInv'
    OBVIOUS
  <1>1. ASSUME NEW r \in Releases, Sync(r) PROVE IInv'
    BY <1>1, SyncKeeps
  <1>2. ASSUME NEW n \in Names, Create(n) PROVE IInv'
    BY <1>2, CreateKeeps
  <1>3. ASSUME NEW c \in Callers,
               \/ DeleteRead(c) \/ DeleteWrite(c)
               \/ SaveRead(c) \/ SaveWrite(c)
               \/ SetRead(c) \/ SetDelete(c) \/ SetWrite(c)
               \/ Abandon(c)
        PROVE  IInv'
    BY <1>3, ReadsKeep, DeleteWriteKeeps, SaveWriteKeeps, SetReadKeeps, SetDeleteKeeps,
       SetWriteKeeps, AbandonKeeps
  <1>4. CASE UNCHANGED vars
    BY <1>4, StutterKeeps
  <1> QED
    BY <1>1, <1>2, <1>3, <1>4 DEF Next

\* The invariant holds throughout, however callers and syncs interleave.
THEOREM Invariance == Spec => []IInv
  <1> QED
    BY InitIInv, NextIInv, PTL DEF Spec

\* The invariant gives every variable and every call in hand its type.
LEMMA IInvTypeOK == IInv => TypeOK
  <1> SUFFICES ASSUME IInv PROVE TypeOK
    OBVIOUS
  <1>1. ASSUME NEW c \in Callers
        PROVE  call[c] \in CASE pc[c] = "idle" -> {NoCall}
                             [] pc[c] = "delete" ->
                                   [id : Ids, loaded : [name : Names, from_catalogue : {FALSE}]]
                             [] pc[c] = "save" ->
                                   [id : Ids, loaded : [name : Names, from_catalogue : BOOLEAN],
                                    name : Names]
                             [] OTHER ->
                                   [key : Keys, wanted : SUBSET Names, seeded : SUBSET Names,
                                    doomed : SUBSET DOMAIN rows, alone : BOOLEAN]
    <2>1. pc[c] \in {"idle", "delete", "save", "set", "deleted"} /\ Fits(c)
      BY DEF IInv, Calls
    <2>2. CASE pc[c] = "idle"
      BY <2>1, <2>2 DEF Fits
    <2>3. CASE pc[c] = "delete"
      BY <2>1, <2>3 DEF Fits, DeleteCalls
    <2>4. CASE pc[c] = "save"
      BY <2>1, <2>4 DEF Fits, SaveCalls
    <2>5. CASE pc[c] \in {"set", "deleted"}
      BY <2>1, <2>5 DEF Fits, SetCalls
    <2> QED
      BY <2>1, <2>2, <2>3, <2>4, <2>5
  <1>2. Tables /\ Rest /\ pc \in [Callers -> {"idle", "delete", "save", "set", "deleted"}]
    BY DEF IInv, Calls
  <1> QED
    BY <1>1, <1>2 DEF TypeOK, Tables, IsTagTable, Rest

---------------------------------------------------------------------------
(* What holds of every state.                                              *)

\* Every variable keeps its type and the tables keep their constraints: names
\* are unique, a row belongs to a tag, and a row that nobody attached is a seed.
THEOREM TypeCorrect == Spec => []TypeOK
  <1> QED
    BY Invariance, IInvTypeOK, PTL

\* What the code seeds stays as it is in the code until a call overwrites it
\* with what it read before the sync.
THEOREM DriftIsRaced == Spec => []DriftOnlyByRace
  <1>1. IInv => DriftOnlyByRace
    BY DEF IInv, Mirrored, DriftOnlyByRace, Drift
  <1> QED
    BY <1>1, Invariance, PTL

\* Without drift a sync changes nothing.
LEMMA MirrorIsFixed ==
    ASSUME Tables, NEW r \in Releases,
           Drift(r) = {}, SeedNames(r) \cap Known \subseteq Marked
    PROVE  SeedTags(r) = tags /\ SeedRows(r) = rows
  <1>1. Assigned = Seeds[r] /\ Marked \subseteq SeedNames(r)
    BY DEF Drift
  <1>2. SeedNames(r) \subseteq Known
    <2> SUFFICES ASSUME NEW seed \in Seeds[r] PROVE seed[2] \in Known
      BY DEF SeedNames
    <2>1. PICK x \in Seeded : seed = <<x[1], tags[x[2]].name>>
      BY <1>1 DEF Assigned
    <2>2. x[2] \in DOMAIN tags /\ seed[2] = tags[x[2]].name
      BY <2>1 DEF Seeded, Tables
    <2> QED
      BY <2>2 DEF Known
  <1>3. Born(SeedNames(r) \ Known) = {}
    <2>1. SeedNames(r) \ Known = {} /\ {} \in SUBSET Names
      BY <1>2
    <2>2. Born({}) = {}
      BY <2>1, NewKeys
    <2> QED
      BY <2>1, <2>2
  <1>4. PICK T : T = SeedTags(r)
    OBVIOUS
  <1>5. /\ IsTagTable(T) /\ DOMAIN T = DOMAIN tags
        /\ \A i \in DOMAIN tags : T[i].name = tags[i].name
        /\ \A i \in DOMAIN T : T[i].from_catalogue = (T[i].name \in SeedNames(r))
    BY <1>3, <1>4, SeedTable
  <1>6. ASSUME NEW i \in DOMAIN tags PROVE T[i] = tags[i]
    <2>1. /\ tags[i] \in [name : Names, from_catalogue : BOOLEAN]
          /\ T[i] \in [name : Names, from_catalogue : BOOLEAN]
      BY <1>5 DEF Tables, IsTagTable
    <2>2. tags[i].from_catalogue => tags[i].name \in SeedNames(r)
      BY <1>1 DEF Marked
    <2>3. ASSUME tags[i].name \in SeedNames(r) PROVE tags[i].from_catalogue
      <3>1. PICK j \in MarkedIds : tags[j].name = tags[i].name
        BY <1>2, <2>3 DEF Marked, MarkedIds
      <3>2. j = i
        BY <3>1 DEF MarkedIds, Tables, IsTagTable
      <3> QED
        BY <3>1, <3>2 DEF MarkedIds
    <2>4. T[i].from_catalogue = tags[i].from_catalogue
      BY <1>5, <2>1, <2>2, <2>3
    <2>5. T[i].name = tags[i].name
      BY <1>5
    <2> QED
      BY <2>1, <2>4, <2>5
  <1>7. T = tags
    <2>1. T = [i \in DOMAIN T |-> T[i]] /\ tags = [i \in DOMAIN tags |-> tags[i]]
      BY <1>5 DEF Tables, IsTagTable
    <2> QED
      BY <1>5, <1>6, <2>1
  <1>8. SeedKeys(r) = {<<seed[1], IdOf(tags, seed[2])>> : seed \in Seeds[r]}
    BY <1>4, <1>7 DEF SeedKeys
  <1>9. ASSUME NEW x \in Seeded
        PROVE  x = <<x[1], IdOf(tags, tags[x[2]].name)>>
    <2>1. x = <<x[1], x[2]>> /\ x[2] \in DOMAIN tags
      BY DEF Seeded, Tables
    <2> QED
      BY <2>1, FindsName DEF Tables
  <1>10. SeedKeys(r) = Seeded
    <2>1. SeedKeys(r) \subseteq Seeded
      <3> SUFFICES ASSUME NEW seed \in Seeds[r]
                   PROVE  <<seed[1], IdOf(tags, seed[2])>> \in Seeded
        BY <1>8
      <3>1. PICK x \in Seeded : seed = <<x[1], tags[x[2]].name>>
        BY <1>1 DEF Assigned
      <3>2. seed[1] = x[1] /\ seed[2] = tags[x[2]].name
        BY <3>1
      <3> QED
        BY <1>9, <3>2
    <2>2. Seeded \subseteq SeedKeys(r)
      <3> SUFFICES ASSUME NEW x \in Seeded PROVE x \in SeedKeys(r)
        OBVIOUS
      <3>1. PICK seed \in Seeds[r] : seed = <<x[1], tags[x[2]].name>>
        BY <1>1 DEF Assigned
      <3>2. <<seed[1], IdOf(tags, seed[2])>> \in SeedKeys(r)
        BY <1>8
      <3>3. seed[1] = x[1] /\ seed[2] = tags[x[2]].name
        BY <3>1
      <3> QED
        BY <1>9, <3>2, <3>3
    <2> QED
      BY <2>1, <2>2
  <1>11. PICK R : R = SeedRows(r)
    OBVIOUS
  <1>12. /\ R = [x \in DOMAIN R |-> R[x]]
         /\ DOMAIN R = KeptRows \cup SeedKeys(r)
         /\ \A x \in DOMAIN R :
              /\ R[x].seeded = (x \in SeedKeys(r))
              /\ R[x].assigned_by = IF x \in DOMAIN rows THEN rows[x].assigned_by ELSE SYSTEM
              /\ R[x] \in [seeded : BOOLEAN, assigned_by : Callers \cup {SYSTEM}]
    BY <1>11, SeedRowsAre
  <1>13. DOMAIN R = DOMAIN rows
    BY <1>10, <1>12 DEF KeptRows, Seeded
  <1>14. ASSUME NEW x \in DOMAIN rows PROVE R[x] = rows[x]
    <2>1. /\ rows[x] \in [seeded : BOOLEAN, assigned_by : Callers \cup {SYSTEM}]
          /\ R[x] \in [seeded : BOOLEAN, assigned_by : Callers \cup {SYSTEM}]
      BY <1>12, <1>13 DEF Tables
    <2>2. R[x].seeded = rows[x].seeded
      BY <1>10, <1>12, <1>13, <2>1 DEF Seeded
    <2>3. R[x].assigned_by = rows[x].assigned_by
      BY <1>12, <1>13
    <2> QED
      BY <2>1, <2>2, <2>3
  <1>15. R = rows
    BY <1>12, <1>13, <1>14 DEF Tables
  <1> QED
    BY <1>4, <1>7, <1>11, <1>15

\* If a sync changes nothing, there was no drift.
LEMMA FixedIsMirror ==
    ASSUME Tables, NEW r \in Releases, SeedTags(r) = tags, SeedRows(r) = rows
    PROVE  Drift(r) = {} /\ SeedNames(r) \cap Known \subseteq Marked
  <1>1. \A i \in DOMAIN tags : tags[i].from_catalogue = (tags[i].name \in SeedNames(r))
    BY SeedTable
  <1>2. Marked \subseteq SeedNames(r) /\ SeedNames(r) \cap Known \subseteq Marked
    BY <1>1 DEF Marked, Known
  <1>3. /\ DOMAIN rows = KeptRows \cup SeedKeys(r)
        /\ \A x \in DOMAIN rows : rows[x].seeded = (x \in SeedKeys(r))
    BY SeedRowsAre
  <1>4. Seeded = SeedKeys(r)
    BY <1>3 DEF Seeded
  <1>5. {<<x[1], tags[x[2]].name>> : x \in SeedKeys(r)} = Seeds[r]
    BY SeedKeysNameSeeds
  <1>6. Assigned = Seeds[r]
    BY <1>4, <1>5 DEF Assigned
  <1> QED
    BY <1>2, <1>6 DEF Drift

\* tunables_sync --check reports no drift exactly when a sync would write no tag
\* and no assignment, apart from seeded tags that are not marked.
THEOREM CheckIsComplete == Spec => []CheckFindsAll
  <1>1. IInv => CheckFindsAll
    BY MirrorIsFixed, FixedIsMirror DEF IInv, CheckFindsAll
  <1> QED
    BY <1>1, Invariance, PTL

---------------------------------------------------------------------------
(* What holds of every step.                                               *)

\* An assignment by hand goes with its tag or by a set_tags that read it, never otherwise.
LEMMA HandmadeStep ==
    ASSUME IInv, Next, NEW x \in DOMAIN rows, rows[x].assigned_by # SYSTEM
    PROVE  \/ x \in DOMAIN rows' /\ rows'[x].assigned_by = rows[x].assigned_by
           \/ x[2] \notin DOMAIN tags'
           \/ \E c \in Callers : pc[c] = "deleted" /\ pc'[c] = "idle" /\ x \in call[c].doomed
  <1> DEFINE Goal ==
                \/ x \in DOMAIN rows' /\ rows'[x].assigned_by = rows[x].assigned_by
                \/ x[2] \notin DOMAIN tags'
                \/ \E c \in Callers : pc[c] = "deleted" /\ pc'[c] = "idle" /\ x \in call[c].doomed
  <1>1. ASSUME NEW r \in Releases, Sync(r) PROVE Goal
    <2>1. PICK R : R = SeedRows(r)
      OBVIOUS
    <2>2. /\ DOMAIN R = KeptRows \cup SeedKeys(r)
          /\ \A y \in DOMAIN R :
               R[y].assigned_by = IF y \in DOMAIN rows THEN rows[y].assigned_by ELSE SYSTEM
      BY <2>1, SeedRowsAre DEF IInv
    <2>3. x \in DOMAIN R /\ R[x].assigned_by = rows[x].assigned_by
      BY <2>2 DEF KeptRows
    <2> QED
      BY <1>1, <2>1, <2>3 DEF Sync
  <1>2. ASSUME NEW n \in Names, Create(n) PROVE Goal
    BY <1>2 DEF Create
  <1>3. ASSUME NEW c \in Callers, DeleteWrite(c) PROVE Goal
    BY <1>3 DEF DeleteWrite, Without
  <1>4. ASSUME NEW c \in Callers, SetWrite(c) PROVE Goal
    <2>1. PICK gone \in {call[c].doomed, call[c].doomed \ Seeded} :
            /\ DOMAIN rows' = (DOMAIN rows \ gone) \cup NewRows(c)
            /\ \A y \in DOMAIN rows \ gone : rows'[y] = rows[y]
      BY <1>4, SetWritten DEF IInv
    <2>2. pc[c] = "deleted" /\ pc'[c] = "idle"
      BY <1>4 DEF SetWrite, IInv, Calls
    <2>3. CASE x \in gone
      BY <2>1, <2>2, <2>3
    <2>4. CASE x \notin gone
      BY <2>1, <2>4
    <2> QED
      BY <2>3, <2>4
  <1>5. ASSUME NEW c \in Callers,
               \/ DeleteRead(c) \/ SaveRead(c) \/ SaveWrite(c)
               \/ SetRead(c) \/ SetDelete(c) \/ Abandon(c)
        PROVE  rows' = rows
    BY <1>5 DEF DeleteRead, SaveRead, SaveWrite, SetRead, SetDelete, Abandon, Start
  <1> QED
    BY <1>1, <1>2, <1>3, <1>4, <1>5 DEF Next

\* What a caller attached is lost only with its tag, or to a set_manual_tags
\* that does not want it.
THEOREM HandmadeIsKept == Spec => HandmadeStays
  <1>1. IInv /\ [Next]_vars =>
            [\A x \in DOMAIN rows : rows[x].assigned_by # SYSTEM =>
                \/ x \in DOMAIN rows' /\ rows'[x].assigned_by = rows[x].assigned_by
                \/ x[2] \notin DOMAIN tags'
                \/ \E c \in Callers :
                        pc[c] = "deleted" /\ pc'[c] = "idle" /\ x \in call[c].doomed]_vars
    BY HandmadeStep
  <1> QED
    BY <1>1, Invariance, PTL DEF Spec, HandmadeStays

\* A set_tags that ran alone leaves what was wanted and the seeds.
LEMMA SetStep ==
    ASSUME IInv, NEW c \in Callers, NEW k \in Keys,
           SetWrite(c), call[c].alone, call[c].key = k
    PROVE  /\ NamesOn(k)' = call[c].wanted \cup SeededOn(k)
           /\ SeededOn(k)' = SeededOn(k)
  <1>1. PICK wanted, seeded, doomed :
            wanted = call[c].wanted /\ seeded = call[c].seeded /\ doomed = call[c].doomed
    OBVIOUS
  <1>2. pc[c] = "deleted"
    BY DEF SetWrite
  <1>3. /\ seeded = SeededOn(k)
        /\ doomed = {x \in RowsOf(k) \ Seeded : NameOf(x) \notin wanted}
    BY <1>1, <1>2 DEF IInv, Fresh
  <1>4. /\ \A i \in DOMAIN tags : tags'[i] = tags[i]
        /\ \A n \in wanted \ seeded : tags'[IdOf(tags', n)].name = n
    BY <1>1, SetWritten DEF IInv
  <1>5. doomed \ Seeded = doomed
    BY <1>3
  <1>6. /\ DOMAIN rows' = (DOMAIN rows \ doomed) \cup NewRows(c)
        /\ \A x \in DOMAIN rows \ doomed : rows'[x] = rows[x]
        /\ \A x \in DOMAIN rows' \ (DOMAIN rows \ doomed) :
                rows'[x] = [seeded |-> FALSE, assigned_by |-> c]
    <2>1. PICK gone \in {call[c].doomed, call[c].doomed \ Seeded} :
            /\ DOMAIN rows' = (DOMAIN rows \ gone) \cup NewRows(c)
            /\ \A x \in DOMAIN rows \ gone : rows'[x] = rows[x]
            /\ \A x \in DOMAIN rows' \ (DOMAIN rows \ gone) :
                    rows'[x] = [seeded |-> FALSE, assigned_by |-> c]
      <3>1. Tables /\ Calls
        BY DEF IInv
      <3> QED
        BY <3>1, SetWritten
    <2>2. gone = doomed
      BY <1>1, <1>5, <2>1
    <2> QED
      BY <2>1, <2>2
  <1>7. \A x \in DOMAIN rows : NameOf(x)' = NameOf(x)
    BY <1>4 DEF NameOf, IInv, Tables
  <1>8. /\ \A x \in NewRows(c) : x[1] = k /\ NameOf(x)' \in wanted
        /\ \A n \in wanted \ seeded : \E x \in NewRows(c) : x[1] = k /\ NameOf(x)' = n
    <2>1. PICK T, W : T = tags' /\ W = wanted \ seeded
      OBVIOUS
    <2>2. NewRows(c) = {<<k, IdOf(T, n)>> : n \in W}
      BY <1>1, <2>1 DEF NewRows
    <2>3. \A x : NameOf(x)' = T[x[2]].name
      BY <2>1 DEF NameOf
    <2>4. \A n \in W : T[IdOf(T, n)].name = n
      BY <1>4, <2>1
    <2>5. ASSUME NEW n \in W
          PROVE  /\ <<k, IdOf(T, n)>> \in NewRows(c)
                 /\ <<k, IdOf(T, n)>>[1] = k /\ NameOf(<<k, IdOf(T, n)>>)' = n
      BY <2>2, <2>3, <2>4
    <2>6. \A x \in NewRows(c) : x[1] = k /\ NameOf(x)' \in W
      BY <2>2, <2>3, <2>4
    <2> QED
      BY <2>1, <2>5, <2>6
  <1>9. RowsOf(k)' = (RowsOf(k) \ doomed) \cup NewRows(c)
    BY <1>6, <1>8 DEF RowsOf
  <1>10. Seeded' = Seeded
    <2>1. \A x \in DOMAIN rows' \ (DOMAIN rows \ doomed) : ~ rows'[x].seeded
      <3> SUFFICES ASSUME NEW x \in DOMAIN rows' \ (DOMAIN rows \ doomed)
                   PROVE  ~ rows'[x].seeded
        OBVIOUS
      <3>1. PICK no : no = FALSE
        OBVIOUS
      <3>2. rows'[x] = [seeded |-> no, assigned_by |-> c]
        BY <1>6, <3>1
      <3> QED
        BY <3>1, <3>2
    <2>2. Seeded \subseteq DOMAIN rows \ doomed
      BY <1>3 DEF Seeded
    <2> QED
      BY <1>6, <2>1, <2>2 DEF Seeded
  <1>11. RowsOf(k)' \cap Seeded' = RowsOf(k) \cap Seeded
    BY <1>3, <1>6, <1>9, <1>10 DEF Seeded, RowsOf
  <1>12. SeededOn(k)' = SeededOn(k)
    <2>1. SeededOn(k)' = {NameOf(x)' : x \in RowsOf(k) \cap Seeded}
      BY <1>11 DEF SeededOn, RowsOf
    <2>2. \A x \in RowsOf(k) \cap Seeded : NameOf(x)' = NameOf(x)
      BY <1>7 DEF RowsOf
    <2> QED
      BY <2>1, <2>2 DEF SeededOn
  <1>13. NamesOn(k)' = {NameOf(x)' : x \in RowsOf(k)'}
    BY DEF NamesOn, RowsOf
  <1>14. NamesOn(k)' \subseteq wanted \cup SeededOn(k)
    <2> SUFFICES ASSUME NEW x \in RowsOf(k)' PROVE NameOf(x)' \in wanted \cup SeededOn(k)
      BY <1>13
    <2>1. CASE x \in NewRows(c)
      BY <1>8, <2>1
    <2>2. CASE x \in RowsOf(k) \ doomed
      <3>1. NameOf(x)' = NameOf(x)
        BY <1>7, <2>2 DEF RowsOf
      <3> QED
        BY <1>3, <2>2, <3>1 DEF SeededOn
    <2> QED
      BY <1>9, <2>1, <2>2
  <1>15. wanted \cup SeededOn(k) \subseteq NamesOn(k)'
    <2>1. SeededOn(k)' \subseteq NamesOn(k)'
      BY DEF SeededOn, NamesOn
    <2>2. wanted \ seeded \subseteq NamesOn(k)'
      BY <1>8, <1>9, <1>13
    <2> QED
      BY <1>3, <1>12, <2>1, <2>2
  <1> QED
    BY <1>1, <1>12, <1>14, <1>15

\* set_manual_tags() replaces the manual tags of its definition and leaves its
\* seeded ones, unless somebody else writes to the definition meanwhile.
THEOREM SetsReplace == Spec => SetReplaces
  <1>1. IInv /\ [Next]_vars =>
            [\A c \in Callers, k \in Keys :
                SetWrite(c) /\ call[c].alone /\ call[c].key = k =>
                    /\ NamesOn(k)' = call[c].wanted \cup SeededOn(k)
                    /\ SeededOn(k)' = SeededOn(k)]_vars
    BY SetStep
  <1> QED
    BY <1>1, Invariance, PTL DEF Spec, SetReplaces

=============================================================================
