------------------------- MODULE DeclarationsProofs -------------------------
(***************************************************************************)
(* Proofs about Declarations, for every type that keeps TypesContract, and *)
(* for any catalogues, rules, values and releases: a stored value stays    *)
(* one that the release it was synced with accepts, so readers get values, *)
(* the hash separates what differs, and edits and rollbacks do what they   *)
(* say.  The last two sections prove the contract: of the types of         *)
(* Scalars, from what they are, and of lists and mappings of any depth,    *)
(* by induction on the depth.                                              *)
(***************************************************************************)
EXTENDS BuiltIns, FiniteSetTheorems, SequenceTheorems, WellFoundedInduction, TLAPS

AllKeys == UNION {KeysOf(Declared[r]) : r \in Releases}

\* What was stored for a release has keys of it, and its types accept it.
Accepted(r, values) ==
    \A key \in AllKeys : values[key] # Absent =>
        /\ key \in KeysOf(Declared[r])
        /\ values[key] \in Json
        /\ ~ Failed(Checked(TunableOf(Declared[r], key).type, values[key]))

\* The inductive invariant.
IInv ==
    /\ {code, synced, past.of} \subseteq Releases
    /\ \A r \in {code, synced, past.of} : Builds(Declared[r])
    /\ stored = [key \in AllKeys |-> stored[key]]
    /\ Accepted(synced, stored)
    /\ Accepted(past.of, past.values)
    /\ outcome \in {"answered", "raised"}

---------------------------------------------------------------------------
(* Catalogues that build.                                                  *)

\* Names that are distinct name one element each.
LEMMA ByNameFinds ==
    ASSUME NEW seq, Distinct(seq), NEW i \in DOMAIN seq
    PROVE  ByName(seq, seq[i].name) = seq[i]
<1> DEFINE k == CHOOSE k \in DOMAIN seq : seq[k].name = seq[i].name
<1>1. k \in DOMAIN seq /\ seq[k].name = seq[i].name
  OBVIOUS
<1>2. k = i
  BY <1>1 DEF Distinct
<1> QED
  BY <1>2 DEF ByName

\* A key of a catalogue that builds has a group and a tunable.
LEMMA KeyIsDeclared ==
    ASSUME NEW r \in Releases, Builds(Declared[r]), NEW key \in KeysOf(Declared[r])
    PROVE  \E i \in DOMAIN Declared[r].groups :
            /\ ByName(Declared[r].groups, key[1]) = Declared[r].groups[i]
            /\ \E j \in DOMAIN Declared[r].groups[i].tunables :
                /\ key = <<Declared[r].groups[i].name, Declared[r].groups[i].tunables[j].name>>
                /\ TunableOf(Declared[r], key) = Declared[r].groups[i].tunables[j]
<1> DEFINE c == Declared[r]
<1>1. PICK g \in ToSet(c.groups) : key \in {<<g.name, t>> : t \in Names(g.tunables)}
  BY DEF KeysOf
<1>2. PICK i \in DOMAIN c.groups : g = c.groups[i]
  BY DEF ToSet
<1>3. PICK j \in DOMAIN g.tunables : key = <<g.name, g.tunables[j].name>>
  BY <1>1 DEF Names
<1>4. Distinct(c.groups) /\ Distinct(g.tunables)
  BY DEF Builds
<1>5. ByName(c.groups, key[1]) = c.groups[i]
  BY <1>2, <1>3, <1>4, ByNameFinds
<1>6. ByName(g.tunables, key[2]) = g.tunables[j]
  BY <1>3, <1>4, ByNameFinds
<1> QED
  BY <1>2, <1>3, <1>5, <1>6 DEF TunableOf

\* The type of a key keeps the contract, and its default is accepted.
LEMMA TunableIsSound ==
    ASSUME NEW r \in Releases, Builds(Declared[r]), NEW key \in KeysOf(Declared[r])
    PROVE  /\ TunableOf(Declared[r], key).type \in DeclaredTypes
           /\ TunableOf(Declared[r], key).default \in Json
           /\ ~ Failed(Checked(TunableOf(Declared[r], key).type, TunableOf(Declared[r], key).default))
<1> DEFINE c == Declared[r]
<1>1. PICK i \in DOMAIN c.groups :
        \E j \in DOMAIN c.groups[i].tunables : TunableOf(c, key) = c.groups[i].tunables[j]
  BY KeyIsDeclared
<1>2. PICK j \in DOMAIN c.groups[i].tunables : TunableOf(c, key) = c.groups[i].tunables[j]
  BY <1>1
<1>3. c.groups[i] \in ToSet(c.groups) /\ TunableOf(c, key) \in ToSet(c.groups[i].tunables)
  BY <1>2 DEF ToSet
<1>4. TunableOf(c, key).type \in DeclaredTypes
  BY <1>3 DEF DeclaredTypes
<1>5. TunableOf(c, key).default \in Json
  BY <1>3, DeclaredAssumption
<1>6. ValidDefault(TunableOf(c, key))
  BY <1>3 DEF Builds
<1> QED
  BY <1>4, <1>5, <1>6 DEF ValidDefault

\* Every key of a release is one that the database may hold.
LEMMA KeysAreKnown == ASSUME NEW r \in Releases PROVE KeysOf(Declared[r]) \subseteq AllKeys
  BY DEF AllKeys

\* The tunable at some place of a catalogue that builds is that of its key.
LEMMA DeclaredIsKey ==
    ASSUME NEW r \in Releases, Builds(Declared[r]),
           NEW g \in ToSet(Declared[r].groups), NEW j \in DOMAIN g.tunables
    PROVE  /\ <<g.name, g.tunables[j].name>> \in KeysOf(Declared[r])
           /\ TunableOf(Declared[r], <<g.name, g.tunables[j].name>>) = g.tunables[j]
           /\ ByName(Declared[r].groups, g.name) = g
<1> DEFINE c == Declared[r]
<1>1. Distinct(c.groups) /\ Distinct(g.tunables)
  BY DEF Builds
<1>2. ByName(c.groups, g.name) = g
  BY <1>1, ByNameFinds DEF ToSet
<1>3. ByName(g.tunables, g.tunables[j].name) = g.tunables[j]
  BY <1>1, ByNameFinds
<1>4. <<g.name, g.tunables[j].name>> \in KeysOf(c)
  BY DEF KeysOf, Names
<1> QED
  BY <1>2, <1>3, <1>4 DEF TunableOf

---------------------------------------------------------------------------
(* Types that keep the contract.                                           *)

\* What is accepted coerces and validates, and so does what is stored of it.
LEMMA AcceptedValue ==
    ASSUME NEW type \in DeclaredTypes, NEW raw \in Json, ~ Failed(Checked(type, raw))
    PROVE  /\ ~ Failed(coerce(type, raw)) /\ ~ Failed(validate(type, coerce(type, raw)))
           /\ Checked(type, raw) = coerce(type, raw)
           /\ Canonical(type, raw) \in Json /\ Canonical(type, raw) # Absent
           /\ coerce(type, Canonical(type, raw)) = coerce(type, raw)
           /\ ~ Failed(Checked(type, Canonical(type, raw)))
           /\ exact(raw) => Equal(Canonical(type, raw), raw) /\ admits(type, raw)
           /\ raw[1] \in JsonKinds
           /\ type.name \in {"integer", "float"} => coerce(type, raw) \in {"int", "float"} \X Int
<1>1. ~ Failed(coerce(type, raw)) /\ ~ Failed(validate(type, coerce(type, raw)))
  BY DEF Checked
<1>2. Checked(type, raw) = coerce(type, raw)
  BY <1>1 DEF Checked
<1>3. /\ Canonical(type, raw) \in Json /\ Canonical(type, raw) # Absent
      /\ coerce(type, Canonical(type, raw)) = coerce(type, raw)
      /\ exact(raw) => Equal(Canonical(type, raw), raw) /\ admits(type, raw)
      /\ raw[1] \in JsonKinds
      /\ type.name \in {"integer", "float"} => coerce(type, raw) \in {"int", "float"} \X Int
  BY <1>1, TypesContract DEF KeepContract
<1>4. ~ Failed(Checked(type, Canonical(type, raw)))
  BY <1>1, <1>3 DEF Checked
<1> QED
  BY <1>1, <1>2, <1>3, <1>4

\* The default of a key, as JSON, is accepted too and coerces to the default.
LEMMA DefaultIsSound ==
    ASSUME NEW r \in Releases, Builds(Declared[r]), NEW key \in KeysOf(Declared[r])
    PROVE  LET t == TunableOf(Declared[r], key)
               json == to_json(t.type, DefaultOf(t))
           IN  /\ json \in Json /\ json # Absent
               /\ coerce(t.type, json) = DefaultOf(t)
               /\ ~ Failed(Checked(t.type, json))
               /\ ~ Failed(DefaultOf(t)) /\ ~ Failed(validate(t.type, DefaultOf(t)))
<1> DEFINE t == TunableOf(Declared[r], key)
<1>1. t.type \in DeclaredTypes /\ t.default \in Json /\ ~ Failed(Checked(t.type, t.default))
  BY TunableIsSound
<1>2. to_json(t.type, DefaultOf(t)) = Canonical(t.type, t.default)
  BY DEF DefaultOf, Canonical
<1>3. DefaultOf(t) = coerce(t.type, t.default)
  BY DEF DefaultOf
<1> HIDE DEF t
<1>4. /\ ~ Failed(coerce(t.type, t.default)) /\ ~ Failed(validate(t.type, coerce(t.type, t.default)))
      /\ Canonical(t.type, t.default) \in Json /\ Canonical(t.type, t.default) # Absent
      /\ coerce(t.type, Canonical(t.type, t.default)) = coerce(t.type, t.default)
      /\ ~ Failed(Checked(t.type, Canonical(t.type, t.default)))
  BY <1>1, AcceptedValue
<1>5. /\ to_json(t.type, DefaultOf(t)) \in Json /\ to_json(t.type, DefaultOf(t)) # Absent
      /\ coerce(t.type, to_json(t.type, DefaultOf(t))) = DefaultOf(t)
      /\ ~ Failed(Checked(t.type, to_json(t.type, DefaultOf(t))))
      /\ ~ Failed(DefaultOf(t)) /\ ~ Failed(validate(t.type, DefaultOf(t)))
  BY <1>2, <1>3, <1>4
<1> QED
  BY <1>5 DEF t

\* Releases with one hash declare the same keys and treat JSON alike.
LEMMA OneHash ==
    ASSUME NEW a \in Releases, NEW b \in Releases, Builds(Declared[a]), Builds(Declared[b]),
           Version(Declared[a]) = Version(Declared[b]), NEW key \in KeysOf(Declared[a])
    PROVE  LET t == TunableOf(Declared[a], key)
               u == TunableOf(Declared[b], key)
           IN  /\ key \in KeysOf(Declared[b])
               /\ t.type \in DeclaredTypes /\ u.type \in DeclaredTypes
               /\ describe(t.type) = describe(u.type)
               /\ DefaultOf(t) = DefaultOf(u) /\ to_json(t.type, DefaultOf(t)) = to_json(u.type, DefaultOf(u))
               /\ \A raw \in Json : /\ coerce(t.type, raw) = coerce(u.type, raw)
                                    /\ Checked(t.type, raw) = Checked(u.type, raw)
<1> DEFINE t == TunableOf(Declared[a], key)
           u == TunableOf(Declared[b], key)
           HashedIn(c, g) == [name |-> g.name, place |-> Place(c, g),
                              tunables |-> [i \in DOMAIN g.tunables |-> Hashed(g.tunables[i])]]
<1>1. PICK i \in DOMAIN Declared[a].groups :
        \E j \in DOMAIN Declared[a].groups[i].tunables :
            /\ key = <<Declared[a].groups[i].name, Declared[a].groups[i].tunables[j].name>>
            /\ t = Declared[a].groups[i].tunables[j]
  BY KeyIsDeclared
<1>2. PICK g \in ToSet(Declared[a].groups) : g = Declared[a].groups[i]
  BY DEF ToSet
<1>3. PICK j \in DOMAIN g.tunables : key = <<g.name, g.tunables[j].name>> /\ t = g.tunables[j]
  BY <1>1, <1>2
<1>4. {HashedIn(Declared[a], x) : x \in ToSet(Declared[a].groups)}
        = {HashedIn(Declared[b], x) : x \in ToSet(Declared[b].groups)}
  BY DEF Version
<1>5. PICK h \in ToSet(Declared[b].groups) : HashedIn(Declared[a], g) = HashedIn(Declared[b], h)
  <2>1. HashedIn(Declared[a], g) \in {HashedIn(Declared[b], x) : x \in ToSet(Declared[b].groups)}
    BY <1>4
  <2> QED
    BY <2>1
<1>6. g.name = h.name
  BY <1>5
<1>7. [k \in DOMAIN g.tunables |-> Hashed(g.tunables[k])] = [k \in DOMAIN h.tunables |-> Hashed(h.tunables[k])]
  BY <1>5
<1>8. j \in DOMAIN h.tunables /\ Hashed(g.tunables[j]) = Hashed(h.tunables[j])
  BY <1>7
<1>9. /\ g.tunables[j].name = h.tunables[j].name
      /\ describe(g.tunables[j].type) = describe(h.tunables[j].type)
      /\ to_json(g.tunables[j].type, DefaultOf(g.tunables[j])) = to_json(h.tunables[j].type, DefaultOf(h.tunables[j]))
  BY <1>8 DEF Hashed
<1>10. key \in KeysOf(Declared[b]) /\ u = h.tunables[j]
  BY <1>3, <1>6, <1>8, <1>9, DeclaredIsKey
<1>11. describe(t.type) = describe(u.type) /\ to_json(t.type, DefaultOf(t)) = to_json(u.type, DefaultOf(u))
  BY <1>3, <1>9, <1>10
<1>12. t.type \in DeclaredTypes /\ u.type \in DeclaredTypes
  BY <1>10, TunableIsSound
<1>13. /\ to_json(t.type, DefaultOf(t)) \in Json
       /\ coerce(t.type, to_json(t.type, DefaultOf(t))) = DefaultOf(t)
       /\ coerce(u.type, to_json(u.type, DefaultOf(u))) = DefaultOf(u)
  BY <1>10, DefaultIsSound
<1> HIDE DEF t, u
<1>14. \A raw \in Json : coerce(t.type, raw) = coerce(u.type, raw) /\ Checked(t.type, raw) = Checked(u.type, raw)
  BY <1>11, <1>12, TypesContract DEF KeepContract
<1>15. DefaultOf(t) = DefaultOf(u)
  BY <1>11, <1>13, <1>14
<1> QED
  BY <1>10, <1>11, <1>12, <1>14, <1>15 DEF t, u

---------------------------------------------------------------------------
(* Values that are stored and served while code and database agree.        *)

\* While code and database agree, the running release treats the JSON of every
\* key as the synced one does.
LEMMA InSyncAlike ==
    ASSUME IInv, InSync
    PROVE  /\ KeysOf(Running) = KeysOf(Declared[synced])
           /\ \A key \in KeysOf(Running) :
                LET t == TunableOf(Running, key)
                    u == TunableOf(Declared[synced], key)
                IN  /\ DefaultOf(t) = DefaultOf(u)
                    /\ \A raw \in Json : /\ coerce(t.type, raw) = coerce(u.type, raw)
                                         /\ Checked(t.type, raw) = Checked(u.type, raw)
<1>1. /\ code \in Releases /\ synced \in Releases
      /\ Builds(Declared[code]) /\ Builds(Declared[synced])
  BY DEF IInv
<1>2. Version(Declared[code]) = Version(Declared[synced])
  BY <1>1 DEF InSync, Versions
<1>3. KeysOf(Declared[code]) \subseteq KeysOf(Declared[synced])
  BY <1>1, <1>2, OneHash
<1>4. KeysOf(Declared[synced]) \subseteq KeysOf(Declared[code])
  BY <1>1, <1>2, OneHash
<1>5. ASSUME NEW key \in KeysOf(Declared[code])
      PROVE  /\ DefaultOf(TunableOf(Declared[code], key)) = DefaultOf(TunableOf(Declared[synced], key))
             /\ \A raw \in Json :
                    /\ coerce(TunableOf(Declared[code], key).type, raw)
                            = coerce(TunableOf(Declared[synced], key).type, raw)
                    /\ Checked(TunableOf(Declared[code], key).type, raw)
                            = Checked(TunableOf(Declared[synced], key).type, raw)
  BY <1>1, <1>2, OneHash
<1> QED
  BY <1>3, <1>4, <1>5 DEF Running

\* The running release accepts what is stored.
LEMMA StoredIsAccepted ==
    ASSUME IInv, InSync, NEW key \in KeysOf(Running), stored[key] # Absent
    PROVE  stored[key] \in Json /\ ~ Failed(Checked(TunableOf(Running, key).type, stored[key]))
<1>1. key \in AllKeys
  BY KeysAreKnown DEF Running, IInv
<1>2. stored[key] \in Json /\ ~ Failed(Checked(TunableOf(Declared[synced], key).type, stored[key]))
  BY <1>1 DEF IInv, Accepted
<1> QED
  BY <1>2, InSyncAlike

\* It accepts what it serves, which coerces to what current_values() gives.
LEMMA ServedIsAccepted ==
    ASSUME IInv, InSync, NEW key \in KeysOf(Running)
    PROVE  /\ Served(Running, stored, key) \in Json /\ Served(Running, stored, key) # Absent
           /\ ~ Failed(Checked(TunableOf(Running, key).type, Served(Running, stored, key)))
           /\ coerce(TunableOf(Running, key).type, Served(Running, stored, key)) = Effective(Running, stored, key)
<1> DEFINE t == TunableOf(Running, key)
<1>1. code \in Releases /\ Builds(Declared[code]) /\ key \in KeysOf(Declared[code])
  BY DEF IInv, Running
<1>2. CASE stored[key] = Absent
  <2>1. /\ to_json(t.type, DefaultOf(t)) \in Json /\ to_json(t.type, DefaultOf(t)) # Absent
        /\ coerce(t.type, to_json(t.type, DefaultOf(t))) = DefaultOf(t)
        /\ ~ Failed(Checked(t.type, to_json(t.type, DefaultOf(t))))
    BY <1>1, DefaultIsSound DEF Running
  <2> QED
    BY <1>2, <2>1 DEF Served, Effective
<1>3. CASE stored[key] # Absent
  BY <1>3, StoredIsAccepted DEF Served, Effective
<1> QED
  BY <1>2, <1>3

\* What becomes of one change.
LEMMA Prepared ==
    ASSUME IInv, InSync, NEW key \in KeysOf(Running), NEW value \in Json, value # Absent,
           ~ Failed(Prepare(key, value))
    PROVE  LET t == TunableOf(Running, key)
               json == Canonical(t.type, value)
           IN  /\ json \in Json /\ json # Absent /\ ~ Failed(Checked(t.type, json))
               /\ exact(value) => Equal(json, value)
               /\ Prepare(key, value) = Override(key, json)
<1> DEFINE t == TunableOf(Running, key)
<1>1. t.type \in DeclaredTypes
  BY TunableIsSound DEF IInv, Running
<1> HIDE DEF t
<1>2. ~ Failed(Checked(t.type, value)) /\ Prepare(key, value) = Override(key, to_json(t.type, Checked(t.type, value)))
  BY DEF Prepare, t
<1>3. /\ Checked(t.type, value) = coerce(t.type, value)
      /\ Canonical(t.type, value) \in Json /\ Canonical(t.type, value) # Absent
      /\ ~ Failed(Checked(t.type, Canonical(t.type, value)))
      /\ exact(value) => Equal(Canonical(t.type, value), value)
  BY <1>1, <1>2, AcceptedValue
<1>4. Prepare(key, value) = Override(key, Canonical(t.type, value))
  BY <1>2, <1>3 DEF Canonical
<1> QED
  BY <1>3, <1>4 DEF t

---------------------------------------------------------------------------
(* Change sets.                                                            *)

\* Changes of keys of the running release to JSON, or to nothing.
AreChanges(changes) ==
    /\ DOMAIN changes \subseteq KeysOf(Running)
    /\ \A key \in DOMAIN changes : changes[key] \in Json \cup {Absent}

\* A change set that changes something prepared every change, and every group
\* that it touches obeys its rules.
LEMMA ApplyEffect ==
    ASSUME NEW changes, Apply(changes), stored' # stored
    PROVE  /\ \A key \in DOMAIN changes : ~ Failed(Prepare(key, changes[key]))
           /\ stored' = [key \in DOMAIN stored |->
                            IF key \in DOMAIN changes THEN Prepare(key, changes[key]) ELSE stored[key]]
           /\ \A key \in DOMAIN stored :
                stored'[key] # stored[key] => ~ Failed(GroupResult(Running, stored', key[1]))
           /\ Snapshot(synced, stored')
<1> DEFINE result == [key \in DOMAIN changes |-> Prepare(key, changes[key])]
           failures == {result[key] : key \in DOMAIN changes} \cap {Refused, Raised}
           values == [key \in DOMAIN stored |->
                       IF key \in DOMAIN changes /\ result[key] # Refused THEN result[key] ELSE stored[key]]
           touched == {key[1] : key \in {k \in DOMAIN stored : values[k] # stored[k]}}
           groups == {GroupResult(Running, values, name) : name \in touched} \cap {Refused, Raised}
<1>1. failures = {} /\ groups = {} /\ stored' = values /\ Snapshot(synced, values)
  BY DEF Apply
<1>2. \A key \in DOMAIN changes : ~ Failed(Prepare(key, changes[key]))
  BY <1>1 DEF Failed
<1>3. values = [key \in DOMAIN stored |->
                    IF key \in DOMAIN changes THEN Prepare(key, changes[key]) ELSE stored[key]]
  BY <1>2 DEF Failed
<1>4. ASSUME NEW key \in DOMAIN stored, values[key] # stored[key]
      PROVE  ~ Failed(GroupResult(Running, values, key[1]))
  <2> HIDE DEF values
  <2>1. key[1] \in touched
    BY <1>4
  <2>2. GroupResult(Running, values, key[1]) \notin {Refused, Raised}
    BY <1>1, <2>1
  <2> QED
    BY <2>2 DEF Failed
<1> HIDE DEF values
<1>5. \A key \in DOMAIN stored : stored'[key] # stored[key] => ~ Failed(GroupResult(Running, stored', key[1]))
  BY <1>1, <1>4
<1> QED
  BY <1>1, <1>2, <1>3, <1>5

\* A change set leaves what the running release accepts.
LEMMA ApplyAccepted ==
    ASSUME IInv, InSync, NEW changes, AreChanges(changes),
           \A key \in DOMAIN changes : ~ Failed(Prepare(key, changes[key])),
           NEW values, values = [key \in DOMAIN stored |->
                                    IF key \in DOMAIN changes THEN Prepare(key, changes[key]) ELSE stored[key]]
    PROVE  Accepted(synced, values) /\ values = [key \in AllKeys |-> values[key]]
<1>1. DOMAIN stored = AllKeys
  BY DEF IInv
<1>2. values = [key \in AllKeys |-> values[key]]
  BY <1>1
<1>3. ASSUME NEW key \in AllKeys, values[key] # Absent
      PROVE  /\ key \in KeysOf(Declared[synced])
             /\ values[key] \in Json
             /\ ~ Failed(Checked(TunableOf(Declared[synced], key).type, values[key]))
  <2>1. CASE key \notin DOMAIN changes \/ values[key] = stored[key]
    <3>1. values[key] = stored[key]
      BY <1>1, <2>1
    <3> QED
      BY <1>3, <3>1 DEF IInv, Accepted
  <2>2. CASE key \in DOMAIN changes /\ values[key] # stored[key]
    <3>1. key \in KeysOf(Running) /\ changes[key] \in Json \cup {Absent}
      BY <2>2 DEF AreChanges
    <3>2. values[key] = Prepare(key, changes[key]) /\ ~ Failed(Prepare(key, changes[key]))
      BY <1>1, <2>2
    <3>3. changes[key] # Absent
      BY <1>3, <3>2 DEF Prepare
    <3> DEFINE type == TunableOf(Running, key).type
               json == Canonical(type, changes[key])
    <3>4. json \in Json /\ ~ Failed(Checked(type, json)) /\ values[key] = Override(key, json)
      BY <3>1, <3>2, <3>3, Prepared
    <3>5. values[key] = json
      BY <1>3, <2>2, <3>4 DEF Override
    <3> QED
      BY <3>1, <3>4, <3>5, InSyncAlike
  <2> QED
    BY <2>1, <2>2
<1> QED
  BY <1>2, <1>3 DEF Accepted

\* A change set keeps the invariant.
LEMMA ApplyStep ==
    ASSUME IInv, NEW changes, AreChanges(changes), Apply(changes)
    PROVE  IInv'
<1>1. InSync /\ UNCHANGED <<code, synced>> /\ outcome' \in {"answered", "raised"}
  BY DEF Apply
<1>2. CASE stored' = stored
  <2>1. past' \in {past, [values |-> stored, of |-> synced]}
    BY <1>2 DEF Apply, Snapshot
  <2> QED
    BY <1>1, <1>2, <2>1 DEF IInv, Accepted
<1>3. CASE stored' # stored
  <2>1. /\ \A key \in DOMAIN changes : ~ Failed(Prepare(key, changes[key]))
        /\ stored' = [key \in DOMAIN stored |->
                        IF key \in DOMAIN changes THEN Prepare(key, changes[key]) ELSE stored[key]]
        /\ Snapshot(synced, stored')
    BY <1>3, ApplyEffect
  <2>2. PICK values : values = stored'
    OBVIOUS
  <2>3. Accepted(synced, values) /\ values = [key \in AllKeys |-> values[key]]
    BY <1>1, <2>1, <2>2, ApplyAccepted
  <2>4. past' \in {past, [values |-> values, of |-> synced]}
    BY <2>1, <2>2 DEF Snapshot
  <2> QED
    BY <1>1, <2>2, <2>3, <2>4 DEF IInv, Accepted
<1> QED
  BY <1>2, <1>3

\* The changes that the actions make.
LEMMA ChangesAreChanges ==
    ASSUME IInv
    PROVE  /\ \A key \in KeysOf(Running), value \in Raws[code] \cup {Absent} : AreChanges([k \in {key} |-> value])
           /\ InSync => \A key \in KeysOf(Running) : AreChanges([k \in {key} |-> Served(Running, stored, key)])
           /\ AreChanges([key \in Moved |-> Restore(key)])
<1>1. Raws[code] \subseteq Json
  BY DeclaredAssumption DEF IInv
<1>2. ASSUME NEW key \in KeysOf(Running)
      PROVE  Restore(key) \in Json \cup {Absent}
  <2>1. past.of \in Releases
    BY DEF IInv
  <2>2. KeysOf(Declared[past.of]) \subseteq AllKeys
    BY <2>1, KeysAreKnown
  <2> QED
    BY <2>2 DEF IInv, Accepted, Restore
<1>3. Moved \subseteq KeysOf(Running)
  BY DEF Moved
<1> QED
  BY <1>1, <1>2, <1>3, ServedIsAccepted DEF AreChanges

---------------------------------------------------------------------------
(* The invariant.                                                          *)

\* A fresh database holds no override.
LEMMA InitInv == Init => IInv
<1> SUFFICES ASSUME Init PROVE IInv
  OBVIOUS
<1>1. code \in Releases /\ Builds(Declared[code]) /\ synced = code /\ past.of = code
  BY DEF Init
<1>2. \A key \in AllKeys : Nobody[key] = Absent
  BY DEF Nobody, AllKeys
<1>3. stored = [key \in AllKeys |-> stored[key]]
  BY DEF Init, Nobody, AllKeys
<1>4. Accepted(synced, stored) /\ Accepted(past.of, past.values)
  BY <1>2 DEF Accepted, Init
<1> QED
  BY <1>1, <1>3, <1>4 DEF IInv, Init

\* A sync leaves what the new release accepts.
LEMMA SyncStep ==
    ASSUME IInv, Sync
    PROVE  IInv'
<1>1. UNCHANGED code
  BY DEF Sync
<1>2. CASE \E key \in KeysOf(Running) : stored[key] # Absent /\ Recheck(key, stored[key]) = Raised
  BY <1>1, <1>2 DEF Sync, IInv, Accepted
<1>3. CASE ~ \E key \in KeysOf(Running) : stored[key] # Absent /\ Recheck(key, stored[key]) = Raised
  <2>1. /\ outcome' = "answered" /\ synced' = code /\ stored' = Survivors
        /\ past' \in {past, [values |-> Survivors, of |-> code]}
    BY <1>3 DEF Sync, Snapshot
  <2>2. DOMAIN stored = AllKeys
    BY DEF IInv
  <2>3. PICK values : values = Survivors
    OBVIOUS
  <2>4. values = [key \in AllKeys |-> values[key]]
    BY <2>2, <2>3 DEF Survivors
  <2>5. ASSUME NEW key \in AllKeys, values[key] # Absent
        PROVE  /\ key \in KeysOf(Declared[code])
               /\ values[key] \in Json
               /\ ~ Failed(Checked(TunableOf(Declared[code], key).type, values[key]))
    <3>1. /\ key \in KeysOf(Running) /\ stored[key] # Absent
          /\ Recheck(key, stored[key]) # Refused /\ values[key] = stored[key]
      BY <2>2, <2>3, <2>5 DEF Survivors
    <3>2. stored[key] \in Json
      BY <3>1 DEF IInv, Accepted
    <3>3. ~ Failed(Checked(TunableOf(Running, key).type, stored[key]))
      BY <1>3, <3>1 DEF Recheck, Failed
    <3> QED
      BY <3>1, <3>2, <3>3 DEF Running
  <2>6. Accepted(code, values)
    BY <2>5 DEF Accepted
  <2> QED
    BY <1>1, <2>1, <2>3, <2>4, <2>6 DEF IInv, Accepted
<1> QED
  BY <1>2, <1>3

\* Every step keeps what is stored accepted.
LEMMA NextInv == IInv /\ [Next]_vars => IInv'
<1> SUFFICES ASSUME IInv, [Next]_vars PROVE IInv'
  OBVIOUS
<1>1. ASSUME NEW r \in Releases, Deploy(r) PROVE IInv'
  BY <1>1 DEF Deploy, IInv, Accepted
<1>2. CASE Sync
  BY <1>2, SyncStep
<1>3. ASSUME NEW key \in KeysOf(Running), Resend(key) PROVE IInv'
  <2>1. Apply([k \in {key} |-> Served(Running, stored, key)])
    BY <1>3 DEF Resend, Change
  <2>2. InSync
    BY <2>1 DEF Apply
  <2>3. AreChanges([k \in {key} |-> Served(Running, stored, key)])
    BY <2>2, ChangesAreChanges
  <2> QED
    BY <2>1, <2>3, ApplyStep
<1>4. ASSUME NEW key \in KeysOf(Running), NEW value \in Raws[code] \cup {Absent}, Change(key, value) PROVE IInv'
  <2>1. Apply([k \in {key} |-> value])
    BY <1>4 DEF Change
  <2>2. AreChanges([k \in {key} |-> value])
    BY ChangesAreChanges
  <2> QED
    BY <2>1, <2>2, ApplyStep
<1>5. CASE Rollback
  <2>1. Apply([key \in Moved |-> Restore(key)])
    BY <1>5 DEF Rollback
  <2>2. AreChanges([key \in Moved |-> Restore(key)])
    BY ChangesAreChanges
  <2> QED
    BY <2>1, <2>2, ApplyStep
<1>6. CASE UNCHANGED vars
  BY <1>6 DEF vars, IInv, Accepted
<1> QED
  BY <1>1, <1>2, <1>3, <1>4, <1>5, <1>6 DEF Next

\* Whatever releases came and went, what is stored is what the release that the
\* database was synced with accepts (sync.py:183-190, services.py:286-301).
THEOREM StoredStaysAccepted == Spec => []IInv
BY InitInv, NextInv, PTL DEF Spec

\* Every stored override is JSON, neither a failure nor a number JSON lacks, and
\* has a key of the release that the database was synced with.
THEOREM TypeCorrect == Spec => []TypeOK
<1>1. IInv => TypeOK
  <2> SUFFICES ASSUME IInv PROVE TypeOK
    OBVIOUS
  <2>1. ASSUME NEW key \in AllKeys, stored[key] # Absent
        PROVE  key \in KeysOf(Declared[synced]) /\ stored[key][1] \in JsonKinds
    <3>1. /\ key \in KeysOf(Declared[synced]) /\ stored[key] \in Json
          /\ ~ Failed(Checked(TunableOf(Declared[synced], key).type, stored[key]))
      BY <2>1 DEF IInv, Accepted
    <3>2. TunableOf(Declared[synced], key).type \in DeclaredTypes
      BY <3>1, TunableIsSound DEF IInv
    <3> QED
      BY <3>1, <3>2, AcceptedValue
  <2>2. DOMAIN stored = AllKeys
    BY DEF IInv
  <2> QED
    BY <2>1, <2>2 DEF IInv, TypeOK
<1> QED
  BY <1>1, StoredStaysAccepted, PTL

\* While code and database agree, current_values() raises nothing and gives
\* values that the declared types admit, and each value of the document
\* satisfies the schema of its tunable (services.py:404, document.py:28).
THEOREM ReadersAlwaysGetValues == Spec => []ReadersGetValues
<1>1. IInv => ReadersGetValues
  <2> SUFFICES ASSUME IInv, InSync, NEW key \in KeysOf(Running)
               PROVE  LET type == TunableOf(Running, key).type
                          value == Effective(Running, stored, key)
                          json == Served(Running, stored, key)
                      IN  /\ ~ Failed(value) /\ ~ Failed(validate(type, value))
                          /\ exact(json) => admits(type, json)
    BY DEF ReadersGetValues
  <2> DEFINE type == TunableOf(Running, key).type
             json == Served(Running, stored, key)
  <2>1. type \in DeclaredTypes
    BY TunableIsSound DEF IInv, Running
  <2>2. json \in Json /\ ~ Failed(Checked(type, json)) /\ coerce(type, json) = Effective(Running, stored, key)
    BY ServedIsAccepted
  <2> HIDE DEF type, json
  <2>3. ~ Failed(coerce(type, json)) /\ ~ Failed(validate(type, coerce(type, json)))
    BY <2>1, <2>2, AcceptedValue
  <2>4. exact(json) => admits(type, json)
    BY <2>1, <2>2, AcceptedValue
  <2> QED
    BY <2>2, <2>3, <2>4 DEF type, json
<1> QED
  BY <1>1, StoredStaysAccepted, PTL

---------------------------------------------------------------------------
(* The hash.                                                               *)

\* Catalogues that differ in categories, rules and the order of declaration
\* at most are hashed alike.
LEMMA DataIsHashed ==
    ASSUME NEW a \in Releases, NEW b \in Releases, Data(Declared[a]) = Data(Declared[b])
    PROVE  Version(Declared[a]) = Version(Declared[b])
<1> DEFINE A == ToSet(Declared[a].groups)
           B == ToSet(Declared[b].groups)
           DataOf(g) == [name |-> g.name, order |-> g.order, tunables |-> g.tunables]
           TunablesOf(g) == [i \in DOMAIN g.tunables |-> Hashed(g.tunables[i])]
           HashedIn(c, g) == [name |-> g.name, place |-> Place(c, g), tunables |-> TunablesOf(g)]
<1>1. Declared[a].label = Declared[b].label /\ {DataOf(g) : g \in A} = {DataOf(g) : g \in B}
  BY DEF Data
<1> HIDE DEF A, B
<1>2. /\ \A g \in A : \E h \in B : DataOf(g) = DataOf(h)
      /\ \A h \in B : \E g \in A : DataOf(g) = DataOf(h)
  BY <1>1
<1>3. /\ \A g \in A : \E h \in B : g.name = h.name /\ g.order = h.order /\ g.tunables = h.tunables
      /\ \A h \in B : \E g \in A : g.name = h.name /\ g.order = h.order /\ g.tunables = h.tunables
  BY <1>2
<1>4. ASSUME NEW g \in A, NEW h \in B, g.name = h.name, g.order = h.order, g.tunables = h.tunables
      PROVE  HashedIn(Declared[a], g) = HashedIn(Declared[b], h)
  <2>1. {x.name : x \in {y \in A : Precedes(y, g)}} = {x.name : x \in {y \in B : Precedes(y, h)}}
    BY <1>3, <1>4 DEF Precedes
  <2>2. Place(Declared[a], g) = Place(Declared[b], h)
    BY <2>1 DEF Place, A, B
  <2>3. TunablesOf(g) = TunablesOf(h)
    BY <1>4
  <2> QED
    BY <1>4, <2>2, <2>3
<1> HIDE DEF HashedIn
<1>5. {HashedIn(Declared[a], g) : g \in A} = {HashedIn(Declared[b], h) : h \in B}
  BY <1>3, <1>4
<1> QED
  BY <1>1, <1>5 DEF Version, HashedIn, A, B

\* Releases with one hash read the same JSON as the same values, so no stored
\* value changes its meaning without a sync; and what changes no data puts
\* nothing out of sync (catalogue.py:191-216, docs/catalogue.md:301-309).
THEOREM VersionIsAlwaysExact == Spec => []VersionIsExact
<1>1. IInv => VersionIsExact
  <2> SUFFICES ASSUME IInv PROVE VersionIsExact
    OBVIOUS
  <2>1. code \in Releases /\ synced \in Releases
    BY DEF IInv
  <2>2. ASSUME InSync PROVE Meaning[code] = Meaning[synced]
    <3> DEFINE Of(t) == [default |-> DefaultOf(t), values |-> [raw \in Json |-> Checked(t.type, raw)]]
    <3>1. Running = Declared[code]
      BY DEF Running
    <3>2. KeysOf(Declared[code]) = KeysOf(Declared[synced])
      BY <2>2, <3>1, InSyncAlike
    <3>3. ASSUME NEW key \in KeysOf(Declared[code])
          PROVE  Of(TunableOf(Declared[code], key)) = Of(TunableOf(Declared[synced], key))
      BY <2>2, <3>1, InSyncAlike
    <3>4. /\ Meaning[code] = [key \in KeysOf(Declared[code]) |-> Of(TunableOf(Declared[code], key))]
          /\ Meaning[synced] = [key \in KeysOf(Declared[synced]) |-> Of(TunableOf(Declared[synced], key))]
      BY <2>1 DEF Meaning
    <3> HIDE DEF Of
    <3> QED
      BY <3>2, <3>3, <3>4
  <2>3. ASSUME Data(Running) = Data(Declared[synced]) PROVE InSync
    BY <2>1, <2>3, DataIsHashed DEF InSync, Versions, Running
  <2> QED
    BY <2>2, <2>3 DEF VersionIsExact
<1> QED
  BY <1>1, StoredStaysAccepted, PTL

---------------------------------------------------------------------------
(* Edits and rollbacks.                                                    *)

\* What an override makes of JSON is served as JSON equal to it.
LEMMA OverrideIsServed ==
    ASSUME NEW key \in KeysOf(Running), NEW json, json # Absent,
           NEW values, values[key] = Override(key, json)
    PROVE  Equal(Served(Running, values, key), json)
<1> DEFINE t == TunableOf(Running, key)
           default == to_json(t.type, DefaultOf(t))
<1>1. CASE Equal(json, default)
  BY <1>1 DEF Override, Served, Equal
<1>2. CASE ~ Equal(json, default) /\ Equal(json, Served(Running, stored, key))
  BY <1>2 DEF Override, Served, Equal
<1>3. CASE ~ Equal(json, default) /\ ~ Equal(json, Served(Running, stored, key))
  BY <1>3 DEF Override, Served, Equal
<1> QED
  BY <1>1, <1>2, <1>3

\* What a change of one key makes the document say: of that key what was sent,
\* and of every other what it said.
LEMMA ChangeIsServed ==
    ASSUME IInv, NEW key \in KeysOf(Running), NEW value \in Json, value # Absent, exact(value),
           Change(key, value), stored' # stored, NEW k \in KeysOf(Running)
    PROVE  IF k = key THEN Equal(Served(Running, stored', k), value)
           ELSE Served(Running, stored', k) = Served(Running, stored, k)
<1> DEFINE changes == [x \in {key} |-> value]
<1>1. Apply(changes)
  BY DEF Change
<1>2. InSync
  BY <1>1 DEF Apply
<1>3. /\ ~ Failed(Prepare(key, value))
      /\ stored' = [x \in DOMAIN stored |-> IF x = key THEN Prepare(key, value) ELSE stored[x]]
  <2>1. /\ \A x \in DOMAIN changes : ~ Failed(Prepare(x, changes[x]))
        /\ stored' = [x \in DOMAIN stored |-> IF x \in DOMAIN changes THEN Prepare(x, changes[x]) ELSE stored[x]]
    BY <1>1, ApplyEffect
  <2>2. DOMAIN changes = {key} /\ changes[key] = value
    OBVIOUS
  <2> HIDE DEF changes
  <2> QED
    BY <2>1, <2>2
<1>4. KeysOf(Running) \subseteq DOMAIN stored
  BY KeysAreKnown DEF IInv, Running
<1>5. CASE k = key
  <2> DEFINE json == Canonical(TunableOf(Running, key).type, value)
  <2>1. json # Absent /\ Equal(json, value) /\ Prepare(key, value) = Override(key, json)
    BY <1>2, <1>3, Prepared
  <2>2. PICK values : values = stored'
    OBVIOUS
  <2>3. values[key] = Override(key, json)
    BY <1>3, <1>4, <2>1, <2>2
  <2> HIDE DEF json
  <2>4. Equal(Served(Running, values, key), json)
    BY <2>1, <2>3, OverrideIsServed
  <2> QED
    BY <1>5, <2>1, <2>2, <2>4 DEF Equal
<1>6. CASE k # key
  <2>1. stored'[k] = stored[k]
    BY <1>3, <1>4, <1>6
  <2> QED
    BY <1>6, <2>1 DEF Served
<1> QED
  BY <1>5, <1>6

\* Sending back the value that was served changes no value, whatever type it
\* was stored under (services.py:295-301).
THEOREM EditsChangeNothing == Spec => EditsNothing
<1>1. ASSUME IInv, stored' # stored, NEW key \in KeysOf(Running),
             exact(Served(Running, stored, key)), Resend(key), NEW k \in KeysOf(Running)
      PROVE  Equal(Served(Running, stored', k), Served(Running, stored, k))
  <2>1. PICK value : value = Served(Running, stored, key)
    OBVIOUS
  <2>2. Change(key, value) /\ exact(value)
    BY <1>1, <2>1 DEF Resend
  <2>3. InSync
    BY <2>2 DEF Change, Apply
  <2>4. value \in Json /\ value # Absent
    BY <1>1, <2>1, <2>3, ServedIsAccepted
  <2>5. IF k = key THEN Equal(Served(Running, stored', k), value)
        ELSE Served(Running, stored', k) = Served(Running, stored, k)
    BY <1>1, <2>2, <2>4, ChangeIsServed
  <2> QED
    BY <2>1, <2>5 DEF Equal
<1>2. IInv => (stored' # stored =>
        \A key \in KeysOf(Running) :
            exact(Served(Running, stored, key)) /\ Resend(key) =>
                \A k \in KeysOf(Running) : Equal(Served(Running, stored', k), Served(Running, stored, k)))
  BY <1>1
<1> QED
  BY <1>2, StoredStaysAccepted, PTL DEF EditsNothing

\* A rollback that succeeds restores every override of the earlier version that
\* still has a key and leaves no other (services.py:117-130).
THEOREM RollbacksRestoreValues == Spec => RestoresValues
<1>1. ASSUME IInv, stored' # stored, Rollback, NEW key \in KeysOf(Running)
      PROVE  IF key \in KeysOf(Declared[past.of]) /\ past.values[key] # Absent
             THEN exact(past.values[key]) => Equal(Served(Running, stored', key), past.values[key])
             ELSE stored'[key] = Absent
  <2> DEFINE changes == [k \in Moved |-> Restore(k)]
  <2>1. Apply(changes)
    BY <1>1 DEF Rollback
  <2>2. InSync
    BY <2>1 DEF Apply
  <2>3. key \in DOMAIN stored
    BY <1>1, KeysAreKnown DEF IInv, Running
  <2>4. /\ key \in Moved => ~ Failed(Prepare(key, Restore(key))) /\ stored'[key] = Prepare(key, Restore(key))
        /\ key \notin Moved => stored'[key] = stored[key]
    <3>1. /\ \A x \in DOMAIN changes : ~ Failed(Prepare(x, changes[x]))
          /\ stored' = [x \in DOMAIN stored |-> IF x \in DOMAIN changes THEN Prepare(x, changes[x]) ELSE stored[x]]
      BY <1>1, <2>1, ApplyEffect
    <3>2. DOMAIN changes = Moved /\ \A x \in Moved : changes[x] = Restore(x)
      OBVIOUS
    <3> HIDE DEF changes
    <3> QED
      BY <2>3, <3>1, <3>2
  <2>5. PICK value : value = Restore(key)
    OBVIOUS
  <2>6. CASE value = Absent
    <3>1. CASE key \in Moved
      BY <2>4, <2>5, <2>6, <3>1 DEF Prepare, Restore
    <3>2. CASE key \notin Moved
      BY <1>1, <2>4, <2>5, <2>6, <3>2 DEF Moved, Restore
    <3> QED
      BY <3>1, <3>2
  <2>7. CASE value # Absent
    <3>1. key \in KeysOf(Declared[past.of]) /\ past.values[key] # Absent /\ value = past.values[key]
      BY <2>5, <2>7 DEF Restore
    <3>2. value \in Json
      BY <1>1, <3>1, KeysAreKnown DEF IInv, Accepted
    <3>3. PICK values : values = stored'
      OBVIOUS
    <3>4. CASE key \notin Moved
      <4>1. stored[key] # Absent /\ Equal(stored[key], value)
        BY <1>1, <2>5, <2>7, <3>4 DEF Moved
      <4> QED
        BY <2>4, <3>1, <3>4, <4>1 DEF Served, Equal
    <3>5. CASE key \in Moved
      <4> DEFINE json == Canonical(TunableOf(Running, key).type, value)
      <4>1. /\ json # Absent /\ Prepare(key, value) = Override(key, json)
            /\ exact(value) => Equal(json, value)
        BY <1>1, <2>2, <2>4, <2>5, <2>7, <3>2, <3>5, Prepared
      <4>2. values[key] = Override(key, json)
        BY <2>4, <2>5, <3>3, <3>5, <4>1
      <4> HIDE DEF json
      <4>3. Equal(Served(Running, values, key), json)
        BY <1>1, <4>1, <4>2, OverrideIsServed
      <4> QED
        BY <3>1, <3>3, <4>1, <4>3 DEF Equal
    <3> QED
      BY <3>4, <3>5
  <2> QED
    BY <2>6, <2>7
<1>2. IInv => (stored' # stored /\ Rollback =>
        \A key \in KeysOf(Running) :
            IF key \in KeysOf(Declared[past.of]) /\ past.values[key] # Absent
            THEN exact(past.values[key]) => Equal(Served(Running, stored', key), past.values[key])
            ELSE stored'[key] = Absent)
  BY <1>1
<1> QED
  BY <1>2, StoredStaysAccepted, PTL DEF RestoresValues

---------------------------------------------------------------------------
(* Group validators.                                                       *)

\* A set of numbers that is not empty has a least one.
LEMMA Least ==
    ASSUME NEW S \in SUBSET Nat, S # {}
    PROVE  \E x \in S : \A y \in S : x <= y
<1>1. \E x \in S : \A y \in S : ~ (<<y, x>> \in OpToRel(<, Nat))
  BY NatLessThanWellFounded, WFMin
<1>2. PICK x \in S : \A y \in S : <<y, x>> \notin OpToRel(<, Nat)
  BY <1>1
<1>3. ASSUME NEW y \in S PROVE x <= y
  <2>1. ~ (y < x)
    BY <1>2 DEF OpToRel
  <2> QED
    BY <2>1
<1> QED
  BY <1>3

\* A function on 1..n is a sequence of n elements.
LEMMA FunctionIsSeq ==
    ASSUME NEW n \in Nat, NEW f \in [1..n -> Int]
    PROVE  f \in Seq(Int) /\ Len(f) = n
<1>1. f \in Seq(Int)
  BY SeqDef
<1> QED
  BY <1>1

\* The partial sums of a sequence.
AreSums(u, terms) ==
    /\ u \in [0..Len(terms) -> Int]
    /\ u[0] = 0
    /\ \A i \in 1..Len(terms) : u[i] = u[i - 1] + terms[i]

\* Every sequence has partial sums: each one more term extends them.
LEMMA SumsExist ==
    ASSUME NEW terms \in Seq(Int)
    PROVE  \E u : AreSums(u, terms)
<1> DEFINE n == Len(terms)
           Has(k) == \E u \in [0..k -> Int] : u[0] = 0 /\ \A i \in 1..k : u[i] = u[i - 1] + terms[i]
           Bad == {k \in 0..n : ~ Has(k)}
<1>1. n \in Nat /\ \A i \in 1..n : terms[i] \in Int
  OBVIOUS
<1>2. Has(0)
  <2> DEFINE u == [i \in 0..0 |-> 0]
  <2>1. u \in [0..0 -> Int] /\ u[0] = 0 /\ \A i \in 1..0 : u[i] = u[i - 1] + terms[i]
    OBVIOUS
  <2> QED
    BY <2>1
<1>3. ASSUME NEW k \in 1..n, Has(k - 1) PROVE Has(k)
  <2>1. PICK u \in [0..(k - 1) -> Int] : u[0] = 0 /\ \A i \in 1..(k - 1) : u[i] = u[i - 1] + terms[i]
    BY <1>3
  <2> DEFINE v == [i \in 0..k |-> IF i = k THEN u[k - 1] + terms[k] ELSE u[i]]
  <2>2. v \in [0..k -> Int]
    BY <1>1
  <2>3. v[0] = 0
    BY <1>1, <2>1
  <2>4. ASSUME NEW i \in 1..k PROVE v[i] = v[i - 1] + terms[i]
    <3>1. CASE i = k
      BY <1>1, <3>1
    <3>2. CASE i # k
      BY <1>1, <2>1, <3>2
    <3> QED
      BY <3>1, <3>2
  <2> HIDE DEF v
  <2> QED
    BY <2>2, <2>3, <2>4
<1>4. Bad = {}
  <2> SUFFICES ASSUME Bad # {} PROVE FALSE
    OBVIOUS
  <2>1. Bad \in SUBSET Nat
    BY <1>1
  <2>2. PICK k \in Bad : \A y \in Bad : k <= y
    BY <2>1, Least
  <2> HIDE DEF Has
  <2>3. k # 0 /\ k \in 1..n
    BY <1>1, <1>2, <2>2
  <2>4. k - 1 \in 0..n /\ ~ (k <= k - 1)
    BY <1>1, <2>3
  <2>5. Has(k - 1)
    BY <2>2, <2>4
  <2> QED
    BY <1>3, <2>2, <2>3, <2>5
<1>5. Has(n)
  <2> HIDE DEF Has
  <2> QED
    BY <1>1, <1>4
<1> QED
  BY <1>5 DEF AreSums

\* SumOf, defined by choice of a function, is the last partial sum.
LEMMA SumIsLast ==
    ASSUME NEW terms \in Seq(Int)
    PROVE  \E u : AreSums(u, terms) /\ SumOf(terms) = u[Len(terms)]
<1> DEFINE n == Len(terms)
           Fn(u) == [i \in 0..n |-> IF i = 0 THEN 0 ELSE u[i - 1] + terms[i]]
           f == CHOOSE u : u = Fn(u)
<1>1. n \in Nat
  OBVIOUS
<1>2. PICK u : AreSums(u, terms)
  BY SumsExist
<1>3. u = Fn(u)
  BY <1>1, <1>2 DEF AreSums
<1>4. f = Fn(f)
  BY <1>3
<1>5. SumOf(terms) = f[n]
  BY DEF SumOf
<1>6. DOMAIN f = 0..n /\ \A i \in 0..n : f[i] = IF i = 0 THEN 0 ELSE f[i - 1] + terms[i]
  <2> HIDE DEF f
  <2> QED
    BY <1>4
<1> HIDE DEF f
<1>7. f[0] = 0 /\ \A i \in 1..n : f[i] = f[i - 1] + terms[i]
  BY <1>1, <1>6
<1>8. \A i \in 0..n : f[i] \in Int
  <2> SUFFICES ASSUME {i \in 0..n : f[i] \notin Int} # {} PROVE FALSE
    OBVIOUS
  <2> DEFINE Bad == {i \in 0..n : f[i] \notin Int}
  <2>1. Bad \in SUBSET Nat
    BY <1>1
  <2>2. PICK i \in Bad : \A j \in Bad : i <= j
    BY <2>1, Least
  <2>3. i \in 1..n
    BY <1>1, <1>7, <2>2
  <2>4. f[i - 1] \in Int
    BY <1>1, <2>2, <2>3
  <2> QED
    BY <1>7, <2>2, <2>3, <2>4
<1>9. f = [i \in 0..n |-> f[i]]
  <2>1. Fn(f) = [i \in 0..n |-> Fn(f)[i]]
    OBVIOUS
  <2> HIDE DEF Fn
  <2> QED
    BY <1>4, <2>1
<1>10. f \in [0..n -> Int]
  BY <1>8, <1>9
<1> QED
  BY <1>5, <1>7, <1>10 DEF AreSums

\* The sum of the terms of two sequences is the sum of their sums.
LEMMA SumsAdd ==
    ASSUME NEW a \in Seq(Int), NEW b \in Seq(Int), NEW c \in Seq(Int),
           Len(a) = Len(c), Len(b) = Len(c), \A i \in 1..Len(c) : c[i] = a[i] + b[i]
    PROVE  SumOf(c) = SumOf(a) + SumOf(b) /\ SumOf(a) \in Int /\ SumOf(b) \in Int
<1> DEFINE n == Len(c)
<1>1. PICK u : AreSums(u, a) /\ SumOf(a) = u[n]
  BY SumIsLast
<1>2. PICK v : AreSums(v, b) /\ SumOf(b) = v[n]
  BY SumIsLast
<1>3. PICK w : AreSums(w, c) /\ SumOf(c) = w[n]
  BY SumIsLast
<1>4. /\ n \in Nat /\ \A i \in 0..n : u[i] \in Int /\ v[i] \in Int /\ w[i] \in Int
      /\ \A i \in 1..n : a[i] \in Int /\ b[i] \in Int
  BY <1>1, <1>2, <1>3 DEF AreSums
<1>5. /\ u[0] = 0 /\ v[0] = 0 /\ w[0] = 0
      /\ \A i \in 1..n : u[i] = u[i - 1] + a[i] /\ v[i] = v[i - 1] + b[i] /\ w[i] = w[i - 1] + c[i]
  BY <1>1, <1>2, <1>3 DEF AreSums
<1> DEFINE Bad == {i \in 0..n : w[i] # u[i] + v[i]}
<1>6. Bad = {}
  <2> SUFFICES ASSUME Bad # {} PROVE FALSE
    OBVIOUS
  <2>1. Bad \in SUBSET Nat
    BY <1>4
  <2>2. PICK i \in Bad : \A j \in Bad : i <= j
    BY <2>1, Least
  <2>3. i \in 1..n
    BY <1>4, <1>5, <2>2
  <2>4. PICK k \in 0..n : k = i - 1 /\ ~ (i <= k)
    BY <1>4, <2>3
  <2>5. w[k] = u[k] + v[k]
    BY <2>2, <2>4
  <2>6. c[i] = a[i] + b[i]
    BY <2>3
  <2>7. u[i] = u[k] + a[i] /\ v[i] = v[k] + b[i] /\ w[i] = w[k] + c[i]
    BY <1>5, <2>3, <2>4
  <2>8. PICK p \in Int, q \in Int, x \in Int, y \in Int :
            p = u[k] /\ q = v[k] /\ x = a[i] /\ y = b[i]
    BY <1>4, <2>3, <2>4
  <2>9. w[i] = (p + q) + (x + y) /\ u[i] = p + x /\ v[i] = q + y
    BY <2>5, <2>6, <2>7, <2>8
  <2>10. w[i] = u[i] + v[i]
    BY <2>9
  <2> QED
    BY <2>2, <2>10
<1> QED
  BY <1>1, <1>2, <1>3, <1>4, <1>6

\* Numbers that are ordered from one to the next are ordered throughout.
LEMMA NeighboursSuffice ==
    ASSUME NEW rule \in Rules, rule.kind # "sum",
           NEW n \in Nat, NEW half \in [1..n -> Int],
           \A i \in 1..(n - 1) : InOrder(rule, half[i], half[i + 1])
    PROVE  \A i, j \in 1..n : i < j => InOrder(rule, half[i], half[j])
<1> SUFFICES ASSUME NEW i \in 1..n,
                    {j \in 1..n : i < j /\ ~ InOrder(rule, half[i], half[j])} # {}
             PROVE  FALSE
  OBVIOUS
<1> DEFINE Bad == {j \in 1..n : i < j /\ ~ InOrder(rule, half[i], half[j])}
<1>1. rule.down \in BOOLEAN /\ rule.strict \in BOOLEAN
  BY DEF Rules
<1>2. Bad \in SUBSET Nat
  OBVIOUS
<1>3. PICK j \in Bad : \A k \in Bad : j <= k
  BY <1>2, Least
<1>4. j - 1 \in 1..(n - 1) /\ (j - 1) + 1 = j
  BY <1>3
<1>5. InOrder(rule, half[j - 1], half[j])
  BY <1>4
<1>6. j - 1 # i
  BY <1>3, <1>5
<1>7. InOrder(rule, half[i], half[j - 1])
  BY <1>3, <1>4, <1>6
<1>8. half[i] \in Int /\ half[j - 1] \in Int /\ half[j] \in Int
  BY <1>3, <1>4
<1> QED
  BY <1>1, <1>3, <1>5, <1>7, <1>8 DEF InOrder

\* What is at most every element is the minimum that Min chooses.
LEMMA LeastIsMin == ASSUME NEW S \in SUBSET Int, NEW x \in S, \A y \in S : x <= y PROVE Min(S) = x
<1>1. PICK y : y = Min(S)
  OBVIOUS
<1>2. y \in S /\ y <= x
  BY <1>1 DEF Min
<1>3. y = x
  BY <1>2
<1> QED
  BY <1>1, <1>3

\* What is at least every element is the maximum that Max chooses.
LEMMA GreatestIsMax == ASSUME NEW S \in SUBSET Int, NEW x \in S, \A y \in S : x >= y PROVE Max(S) = x
<1>1. PICK y : y = Max(S)
  OBVIOUS
<1>2. y \in S /\ y >= x
  BY <1>1 DEF Max
<1>3. y = x
  BY <1>2
<1> QED
  BY <1>1, <1>3

\* Then the first and the last of them are the least and the greatest.
LEMMA EndsSuffice ==
    ASSUME NEW rule \in Rules, rule.kind # "sum",
           NEW n \in Nat, n >= 1, NEW half \in [1..n -> Int],
           \A i, j \in 1..n : i < j => InOrder(rule, half[i], half[j])
    PROVE  /\ Min(ToSet(half)) = half[IF rule.down THEN n ELSE 1]
           /\ Max(ToSet(half)) = half[IF rule.down THEN 1 ELSE n]
<1>1. rule.down \in BOOLEAN /\ rule.strict \in BOOLEAN
  BY DEF Rules
<1>2. PICK low \in 1..n : low = IF rule.down THEN n ELSE 1
  OBVIOUS
<1>3. PICK high \in 1..n : high = IF rule.down THEN 1 ELSE n
  OBVIOUS
<1>4. ASSUME NEW i \in 1..n PROVE half[low] <= half[i] /\ half[high] >= half[i]
  <2>1. half[low] \in Int /\ half[high] \in Int /\ half[i] \in Int
    OBVIOUS
  <2>2. i = low \/ (rule.down /\ i < low /\ InOrder(rule, half[i], half[low]))
                \/ (~ rule.down /\ low < i /\ InOrder(rule, half[low], half[i]))
    BY <1>2
  <2>3. i = high \/ (rule.down /\ high < i /\ InOrder(rule, half[high], half[i]))
                 \/ (~ rule.down /\ i < high /\ InOrder(rule, half[i], half[high]))
    BY <1>3
  <2> QED
    BY <1>1, <2>1, <2>2, <2>3 DEF InOrder
<1>5. ToSet(half) \in SUBSET Int /\ half[low] \in ToSet(half) /\ half[high] \in ToSet(half)
  BY DEF ToSet
<1>6. \A y \in ToSet(half) : half[low] <= y /\ half[high] >= y
  BY <1>4 DEF ToSet
<1>7. Min(ToSet(half)) = half[low] /\ Max(ToSet(half)) = half[high]
  BY <1>5, <1>6, LeastIsMin, GreatestIsMax
<1> QED
  BY <1>2, <1>3, <1>7

\* A sum of ints and floats apart is the sum of all.
LEMMA SumIsMeant ==
    ASSUME NEW rule \in Rules, rule.kind = "sum", NEW number,
           \A i \in 1..Len(rule.names) : number[rule.names[i]] \in {"int", "float"} \X Int,
           SumsTo(rule, number)
    PROVE  Meant(rule, number)
<1>1. PICK n \in Nat : n = Len(rule.names)
  BY DEF Rules
<1>2. PICK ints, floats, half :
        /\ ints = TermsOf(rule, number, "int") /\ floats = TermsOf(rule, number, "float")
        /\ half = [i \in 1..n |-> Halves(number[rule.names[i]])]
  OBVIOUS
<1>3. ASSUME NEW i \in 1..n
      PROVE  /\ ints[i] \in Int /\ floats[i] \in Int /\ half[i] \in Int
             /\ half[i] = ints[i] + floats[i]
  <2>1. number[rule.names[i]] \in {"int", "float"} \X Int
    BY <1>1
  <2>2. Halves(number[rule.names[i]]) \in Int
    BY <2>1 DEF Halves
  <2> QED
    BY <1>1, <1>2, <2>1, <2>2 DEF TermsOf
<1>4. ints \in [1..n -> Int] /\ floats \in [1..n -> Int] /\ half \in [1..n -> Int]
  BY <1>1, <1>2, <1>3 DEF TermsOf
<1>5. /\ ints \in Seq(Int) /\ floats \in Seq(Int) /\ half \in Seq(Int)
      /\ Len(ints) = n /\ Len(floats) = n /\ Len(half) = n
  BY <1>4, FunctionIsSeq
<1>6. SumOf(half) = SumOf(ints) + SumOf(floats) /\ SumOf(ints) \in Int /\ SumOf(floats) \in Int
  <2>1. Len(ints) = Len(half) /\ Len(floats) = Len(half)
    BY <1>5
  <2>2. \A i \in 1..Len(half) : half[i] = ints[i] + floats[i]
    BY <1>3, <1>5
  <2>3. half \in Seq(Int)
    BY <1>5
  <2>4. ints \in Seq(Int)
    BY <1>5
  <2>5. floats \in Seq(Int)
    BY <1>5
  <2> QED
    BY <2>1, <2>2, <2>3, <2>4, <2>5, SumsAdd, Zenon
<1>7. SumOf(ints) + SumOf(floats) - rule.total \in -rule.tolerance..rule.tolerance
  BY <1>2 DEF SumsTo
<1>8. PICK sum : sum = SumOf(half)
  OBVIOUS
<1>9. sum - rule.total \in -rule.tolerance..rule.tolerance
  <2>1. rule.total \in Int /\ rule.tolerance \in Nat
    BY DEF Rules
  <2> QED
    BY <1>6, <1>7, <1>8, <2>1
<1> QED
  BY <1>1, <1>2, <1>8, <1>9 DEF Meant

\* An order of neighbours with pinned ends is the order of all, pinned.
LEMMA OrderIsMeant ==
    ASSUME NEW rule \in Rules, rule.kind # "sum", Len(rule.names) >= 2, NEW number,
           \A i \in 1..Len(rule.names) : number[rule.names[i]] \in {"int", "float"} \X Int,
           Ordered(rule, number)
    PROVE  Meant(rule, number)
<1>1. rule.down \in BOOLEAN /\ rule.strict \in BOOLEAN /\ rule.names \in Seq(Int)
  BY DEF Rules
<1>2. PICK n \in Nat : n = Len(rule.names) /\ n >= 2
  BY <1>1
<1>3. PICK half : half = [i \in 1..n |-> Halves(number[rule.names[i]])]
  OBVIOUS
<1>4. half \in [1..n -> Int]
  <2>1. ASSUME NEW i \in 1..n PROVE Halves(number[rule.names[i]]) \in Int
    <3>1. number[rule.names[i]] \in {"int", "float"} \X Int
      BY <1>2
    <3> QED
      BY <3>1 DEF Halves
  <2> QED
    BY <1>3, <2>1
<1>5. \A i \in 1..(n - 1) : InOrder(rule, half[i], half[i + 1])
  BY <1>2, <1>3 DEF Ordered
<1>6. /\ rule.floor # None => half[IF rule.down THEN n ELSE 1] = rule.floor
      /\ rule.ceiling # None => half[IF rule.down THEN 1 ELSE n] = rule.ceiling
  BY <1>1, <1>2, <1>3 DEF Ordered, FloorName, CeilingName, Last
<1>7. \A i, j \in 1..n : i < j => InOrder(rule, half[i], half[j])
  BY <1>4, <1>5, NeighboursSuffice
<1>8. /\ Min(ToSet(half)) = half[IF rule.down THEN n ELSE 1]
      /\ Max(ToSet(half)) = half[IF rule.down THEN 1 ELSE n]
  <2>1. n >= 1
    BY <1>2
  <2> QED
    BY <2>1, <1>4, <1>7, EndsSuffice
<1>9. ASSUME NEW i \in DOMAIN half, NEW j \in DOMAIN half, i < j
      PROVE  IF rule.down THEN IF rule.strict THEN half[j] < half[i] ELSE half[j] <= half[i]
             ELSE IF rule.strict THEN half[i] < half[j] ELSE half[i] <= half[j]
  <2>1. half[i] \in Int /\ half[j] \in Int /\ InOrder(rule, half[i], half[j])
    BY <1>4, <1>7, <1>9
  <2> QED
    BY <1>1, <2>1 DEF InOrder
<1>10. /\ rule.floor # None => rule.floor = Min(ToSet(half))
       /\ rule.ceiling # None => rule.ceiling = Max(ToSet(half))
  BY <1>6, <1>8
<1> QED
  BY <1>2, <1>3, <1>9, <1>10 DEF Meant

\* A check that passes found no failure, and says what was to be said.
LEMMA NoFailure ==
    ASSUME NEW results, DOMAIN results \in SUBSET Nat, NEW otherwise, ~ Failed(FirstFailure(results, otherwise))
    PROVE  (\A i \in DOMAIN results : ~ Failed(results[i])) /\ FirstFailure(results, otherwise) = otherwise
<1> DEFINE failures == {i \in DOMAIN results : Failed(results[i])}
<1>1. failures = {}
  <2> SUFFICES ASSUME failures # {} PROVE FALSE
    OBVIOUS
  <2>1. \E i \in failures : \A j \in failures : i <= j
    BY Least
  <2>2. Failed(FirstFailure(results, otherwise))
    BY <2>1 DEF FirstFailure
  <2> QED
    BY <2>2
<1> QED
  BY <1>1 DEF FirstFailure

\* A rule that holds, of either kind, means what the documentation says.
LEMMA HoldsIsMeant ==
    ASSUME NEW rule \in Rules, Len(rule.names) >= 2, NEW number,
           \A i \in 1..Len(rule.names) : number[rule.names[i]] \in {"int", "float"} \X Int,
           Holds(rule, number)
    PROVE  Meant(rule, number)
<1>1. CASE rule.kind = "sum"
  <2>1. SumsTo(rule, number)
    BY <1>1 DEF Holds
  <2> QED
    BY <1>1, <2>1, SumIsMeant
<1>2. CASE rule.kind # "sum"
  <2>1. Ordered(rule, number)
    BY <1>2 DEF Holds
  <2> QED
    BY <1>2, <2>1, OrderIsMeant
<1> QED
  BY <1>1, <1>2

\* The values that a group validator reads are numbers.
LEMMA NumbersAreRead ==
    ASSUME NEW r \in Releases, Builds(Declared[r]), NEW group \in ToSet(Declared[r].groups),
           NEW rule \in group.rules, NEW i \in DOMAIN rule.names,
           NEW values,
           \A key \in KeysOf(Declared[r]) : values[key] # Absent =>
                values[key] \in Json /\ ~ Failed(Checked(TunableOf(Declared[r], key).type, values[key]))
    PROVE  /\ rule.names[i] \in Names(group.tunables)
           /\ Effective(Declared[r], values, <<group.name, rule.names[i]>>) \in {"int", "float"} \X Int
<1> DEFINE name == rule.names[i]
           key == <<group.name, name>>
           t == TunableOf(Declared[r], key)
<1>1. Fits(rule, group) /\ Distinct(group.tunables)
  BY DEF Builds
<1>2. name \in Names(group.tunables) /\ ByName(group.tunables, name).type.name \in {"integer", "float"}
  BY <1>1 DEF Fits
<1>3. PICK j \in DOMAIN group.tunables : group.tunables[j].name = name
  BY <1>2 DEF Names
<1>4. key \in KeysOf(Declared[r]) /\ t = group.tunables[j]
  BY <1>3, DeclaredIsKey
<1>5. ByName(group.tunables, name) = group.tunables[j]
  BY <1>1, <1>3, ByNameFinds
<1>6. t.type.name \in {"integer", "float"}
  BY <1>2, <1>4, <1>5
<1>7. /\ t.type \in DeclaredTypes /\ t.default \in Json
      /\ ~ Failed(Checked(t.type, t.default))
  BY <1>4, TunableIsSound
<1>8. values[key] # Absent => values[key] \in Json /\ ~ Failed(Checked(t.type, values[key]))
  BY <1>4
<1>9. Effective(Declared[r], values, key) = IF values[key] = Absent THEN coerce(t.type, t.default)
                                           ELSE coerce(t.type, values[key])
  BY DEF Effective, DefaultOf
<1> HIDE DEF t, key, name
<1>10. Effective(Declared[r], values, key) \in {"int", "float"} \X Int
  BY <1>6, <1>7, <1>8, <1>9, AcceptedValue
<1> QED
  BY <1>2, <1>10 DEF key, name

\* A group whose check passes obeys its rules.
LEMMA CheckedGroupObeys ==
    ASSUME NEW r \in Releases, Builds(Declared[r]), NEW group \in ToSet(Declared[r].groups),
           NEW rule \in group.rules,
           NEW values,
           \A key \in KeysOf(Declared[r]) : values[key] # Absent =>
                values[key] \in Json /\ ~ Failed(Checked(TunableOf(Declared[r], key).type, values[key])),
           ~ Failed(GroupResult(Declared[r], values, group.name))
    PROVE  Meant(rule, [t \in Names(group.tunables) |-> Effective(Declared[r], values, <<group.name, t>>)])
<1>1. PICK number : number = [t \in Names(group.tunables) |-> Effective(Declared[r], values, <<group.name, t>>)]
  OBVIOUS
<1>2. PICK results : results = [i \in DOMAIN group.tunables |->
                                    Effective(Declared[r], values, <<group.name, group.tunables[i].name>>)]
  OBVIOUS
<1>3. PICK j \in DOMAIN Declared[r].groups : group = Declared[r].groups[j]
  BY DEF ToSet
<1>4. ByName(Declared[r].groups, group.name) = group
  BY <1>3, ByNameFinds DEF Builds
<1>5. GroupResult(Declared[r], values, group.name)
        = FirstFailure(results, Verdict(\A x \in group.rules : Holds(x, number)))
  BY <1>1, <1>2, <1>4 DEF GroupResult
<1>6. DOMAIN results \in SUBSET Nat
  BY <1>2, DeclaredAssumption
<1>7. ~ Failed(Verdict(\A x \in group.rules : Holds(x, number)))
  BY <1>5, <1>6, NoFailure
<1>8. Holds(rule, number)
  BY <1>7 DEF Verdict, Failed
<1>9. rule \in Rules /\ Len(rule.names) >= 2
  BY DeclaredAssumption
<1>10. ASSUME NEW i \in 1..Len(rule.names)
       PROVE  number[rule.names[i]] \in {"int", "float"} \X Int
  <2>1. i \in DOMAIN rule.names
    BY <1>9 DEF Rules
  <2>2. /\ rule.names[i] \in Names(group.tunables)
        /\ Effective(Declared[r], values, <<group.name, rule.names[i]>>) \in {"int", "float"} \X Int
    BY <2>1, NumbersAreRead
  <2> QED
    BY <1>1, <2>2
<1>11. Meant(rule, number)
  BY <1>8, <1>9, <1>10, HoldsIsMeant
<1> QED
  BY <1>1, <1>11

\* A change set leaves each group that it touches with values that obey its rules.
LEMMA ApplyObeys ==
    ASSUME IInv, NEW changes, AreChanges(changes), Apply(changes),
           NEW group \in ToSet(Running.groups), NEW t \in Names(group.tunables),
           stored'[<<group.name, t>>] # stored[<<group.name, t>>], NEW rule \in group.rules
    PROVE  Meant(rule, [x \in Names(group.tunables) |-> Effective(Running, stored', <<group.name, x>>)])
<1>1. InSync /\ stored' # stored
  BY DEF Apply
<1>2. /\ \A key \in DOMAIN changes : ~ Failed(Prepare(key, changes[key]))
      /\ stored' = [key \in DOMAIN stored |->
                        IF key \in DOMAIN changes THEN Prepare(key, changes[key]) ELSE stored[key]]
      /\ \A key \in DOMAIN stored :
            stored'[key] # stored[key] => ~ Failed(GroupResult(Running, stored', key[1]))
  BY <1>1, ApplyEffect
<1>3. PICK values : values = stored'
  OBVIOUS
<1>4. Accepted(synced, values)
  BY <1>1, <1>2, <1>3, ApplyAccepted
<1>5. code \in Releases /\ Builds(Declared[code]) /\ Running = Declared[code]
  BY DEF IInv, Running
<1>6. \A key \in KeysOf(Declared[code]) : values[key] # Absent =>
        values[key] \in Json /\ ~ Failed(Checked(TunableOf(Declared[code], key).type, values[key]))
  <2> SUFFICES ASSUME NEW key \in KeysOf(Declared[code]), values[key] # Absent
               PROVE  values[key] \in Json /\ ~ Failed(Checked(TunableOf(Declared[code], key).type, values[key]))
    OBVIOUS
  <2>1. key \in AllKeys
    BY <1>5, KeysAreKnown
  <2>2. values[key] \in Json /\ ~ Failed(Checked(TunableOf(Declared[synced], key).type, values[key]))
    BY <1>4, <2>1 DEF Accepted
  <2> QED
    BY <1>1, <1>5, <2>2, InSyncAlike
<1>7. <<group.name, t>> \in DOMAIN stored
  <2>1. <<group.name, t>> \in KeysOf(Declared[code])
    BY <1>5 DEF KeysOf
  <2> QED
    BY <1>5, <2>1, KeysAreKnown DEF IInv
<1>8. ~ Failed(GroupResult(Declared[code], values, group.name))
  BY <1>2, <1>3, <1>5, <1>7
<1>9. Meant(rule, [x \in Names(group.tunables) |-> Effective(Declared[code], values, <<group.name, x>>)])
  BY <1>5, <1>6, <1>8, CheckedGroupObeys
<1> QED
  BY <1>3, <1>5, <1>9

\* A change set or a rollback leaves each group it touches with values that
\* obey what its rules mean (services.py:353, validators.py:127), also when the
\* rules are new since the last one.
THEOREM ChangesAlwaysObeyRules == Spec => ChangesObeyRules
<1> DEFINE Obeyed ==
        UNCHANGED <<code, synced>> =>
            \A group \in ToSet(Running.groups) :
                LET number == [t \in Names(group.tunables) |-> Effective(Running, stored', <<group.name, t>>)]
                IN  (\E t \in Names(group.tunables) : stored'[<<group.name, t>>] # stored[<<group.name, t>>])
                        => \A rule \in group.rules : Meant(rule, number)
<1>1. ASSUME IInv, NEW changes, AreChanges(changes), Apply(changes) PROVE Obeyed
  BY <1>1, ApplyObeys
<1>2. ASSUME stored' = stored PROVE Obeyed
  BY <1>2
<1>3. IInv /\ [Next]_vars => [Obeyed]_vars
  <2> SUFFICES ASSUME IInv, [Next]_vars PROVE Obeyed
    OBVIOUS
  <2> HIDE DEF Obeyed
  <2>1. ASSUME NEW r \in Releases, Deploy(r) PROVE Obeyed
    BY <1>2, <2>1 DEF Deploy
  <2>2. CASE Sync
    <3>1. CASE \E key \in KeysOf(Running) : stored[key] # Absent /\ Recheck(key, stored[key]) = Raised
      BY <1>2, <2>2, <3>1 DEF Sync
    <3>2. CASE ~ \E key \in KeysOf(Running) : stored[key] # Absent /\ Recheck(key, stored[key]) = Raised
      BY <2>2, <3>2 DEF Sync, InSync, Obeyed
    <3> QED
      BY <3>1, <3>2
  <2>3. ASSUME NEW key \in KeysOf(Running), Resend(key) PROVE Obeyed
    <3>1. Apply([k \in {key} |-> Served(Running, stored, key)])
      BY <2>3 DEF Resend, Change
    <3>2. AreChanges([k \in {key} |-> Served(Running, stored, key)])
      BY <3>1, ChangesAreChanges DEF Apply
    <3> QED
      BY <1>1, <3>1, <3>2
  <2>4. ASSUME NEW key \in KeysOf(Running), NEW value \in Raws[code] \cup {Absent}, Change(key, value) PROVE Obeyed
    <3>1. Apply([k \in {key} |-> value])
      BY <2>4 DEF Change
    <3> QED
      BY <1>1, <3>1, ChangesAreChanges
  <2>5. CASE Rollback
    <3>1. Apply([key \in Moved |-> Restore(key)])
      BY <2>5 DEF Rollback
    <3> QED
      BY <1>1, <3>1, ChangesAreChanges
  <2>6. CASE UNCHANGED vars
    BY <1>2, <2>6 DEF vars
  <2> QED
    BY <2>1, <2>2, <2>3, <2>4, <2>5, <2>6 DEF Next
<1> QED
  BY <1>3, StoredStaysAccepted, PTL DEF Spec, ChangesObeyRules

---------------------------------------------------------------------------
(* The releases of Catalogues, which Store and Editing know by constants:  *)
(* what those modules assume of the constants is true of what Declarations *)
(* says of a catalogue that builds.                                        *)

\* DefaultOf[r][k], Canon[r][k][v] and Admitted[r][k].
DefaultIn(r, key) == LET t == TunableOf(Declared[r], key) IN to_json(t.type, DefaultOf(t))

CanonIn(r, key, raw) ==
    LET type == TunableOf(Declared[r], key).type
    IN  IF Failed(coerce(type, raw)) THEN Refused ELSE Canonical(type, raw)

AdmittedIn(r, key) == {raw \in Json : ~ Failed(Checked(TunableOf(Declared[r], key).type, raw))}

\* RoundTripAssumption: to coerce what was coerced changes nothing (types.py:20).
THEOREM ReleasesRoundTrip ==
    ASSUME NEW r \in Releases, Builds(Declared[r]), NEW key \in KeysOf(Declared[r]), NEW raw \in Json,
           CanonIn(r, key, raw) # Refused
    PROVE  /\ CanonIn(r, key, raw) \in Json \ {Absent}
           /\ CanonIn(r, key, CanonIn(r, key, raw)) = CanonIn(r, key, raw)
<1>1. PICK type \in DeclaredTypes : type = TunableOf(Declared[r], key).type
  BY TunableIsSound
<1>2. ~ Failed(coerce(type, raw)) /\ CanonIn(r, key, raw) = Canonical(type, raw)
  BY <1>1 DEF CanonIn
<1>3. Canonical(type, raw) \in Json \ {Absent} /\ coerce(type, Canonical(type, raw)) = coerce(type, raw)
  BY <1>2, TypesContract DEF KeepContract
<1>4. Canonical(type, Canonical(type, raw)) = Canonical(type, raw)
  BY <1>3 DEF Canonical
<1> QED
  BY <1>1, <1>2, <1>3, <1>4 DEF CanonIn

\* DefaultAssumption: a default is its own canonical form and is admitted
\* (catalogue.py:68).
THEOREM DefaultsAreCanonical ==
    ASSUME NEW r \in Releases, Builds(Declared[r]), NEW key \in KeysOf(Declared[r])
    PROVE  /\ CanonIn(r, key, DefaultIn(r, key)) = DefaultIn(r, key)
           /\ DefaultIn(r, key) \in AdmittedIn(r, key) \ {Absent}
<1>1. PICK t : t = TunableOf(Declared[r], key)
  OBVIOUS
<1>2. PICK json : json = to_json(t.type, DefaultOf(t))
  OBVIOUS
<1>3. /\ json \in Json /\ json # Absent
      /\ coerce(t.type, json) = DefaultOf(t)
      /\ ~ Failed(Checked(t.type, json)) /\ ~ Failed(DefaultOf(t))
  BY <1>1, <1>2, DefaultIsSound
<1>4. Canonical(t.type, json) = json
  BY <1>2, <1>3 DEF Canonical
<1> QED
  BY <1>1, <1>2, <1>3, <1>4 DEF DefaultIn, CanonIn, AdmittedIn

\* HashAssumption: releases with one hash agree on keys, defaults, coercion and
\* validation (catalogue.py:191).
THEOREM HashesAgree ==
    ASSUME NEW r \in Releases, NEW s \in Releases, Builds(Declared[r]), Builds(Declared[s]),
           Version(Declared[r]) = Version(Declared[s])
    PROVE  /\ KeysOf(Declared[r]) = KeysOf(Declared[s])
           /\ \A key \in KeysOf(Declared[r]) :
                /\ DefaultIn(r, key) = DefaultIn(s, key)
                /\ \A raw \in Json : CanonIn(r, key, raw) = CanonIn(s, key, raw)
                /\ AdmittedIn(r, key) = AdmittedIn(s, key)
<1>1. KeysOf(Declared[r]) \subseteq KeysOf(Declared[s]) /\ KeysOf(Declared[s]) \subseteq KeysOf(Declared[r])
  BY OneHash
<1>2. ASSUME NEW key \in KeysOf(Declared[r])
      PROVE  /\ DefaultIn(r, key) = DefaultIn(s, key)
             /\ \A raw \in Json : CanonIn(r, key, raw) = CanonIn(s, key, raw)
             /\ AdmittedIn(r, key) = AdmittedIn(s, key)
  <2>1. PICK t, u : t = TunableOf(Declared[r], key) /\ u = TunableOf(Declared[s], key)
    OBVIOUS
  <2>2. /\ DefaultOf(t) = DefaultOf(u) /\ describe(t.type) = describe(u.type)
        /\ to_json(t.type, DefaultOf(t)) = to_json(u.type, DefaultOf(u))
        /\ t.type \in DeclaredTypes /\ u.type \in DeclaredTypes
    BY <2>1, OneHash
  <2>3. \A raw \in Json :
            /\ coerce(t.type, raw) = coerce(u.type, raw) /\ Checked(t.type, raw) = Checked(u.type, raw)
            /\ ~ Failed(coerce(t.type, raw)) => Canonical(t.type, raw) = Canonical(u.type, raw)
    BY <2>2, TypesContract DEF KeepContract
  <2>4. DefaultIn(r, key) = DefaultIn(s, key)
    BY <2>1, <2>2 DEF DefaultIn
  <2>5. \A raw \in Json : CanonIn(r, key, raw) = CanonIn(s, key, raw)
    BY <2>1, <2>3 DEF CanonIn
  <2>6. AdmittedIn(r, key) = AdmittedIn(s, key)
    BY <2>1, <2>3 DEF AdmittedIn
  <2> QED
    BY <2>4, <2>5, <2>6
<1> QED
  BY <1>1, <1>2

---------------------------------------------------------------------------
(* The contract of the built-in types of Scalars: what TypesContract       *)
(* assumes of every type is true of these, for every value.                *)

CheckedScalar(type, raw) ==
    LET value == CoerceScalar(type, raw)
    IN  IF Failed(value) THEN value
        ELSE IF Failed(ValidateScalar(type, value)) THEN ValidateScalar(type, value) ELSE value

AdmitsScalar(type, raw) == SatisfiesScalar(ScalarSchema(type), raw)

\* What an accepted number is coerced to.
LEMMA CoercedScalar ==
    ASSUME NEW type, type.name \in Scalar, NEW raw, IsValue(raw),
           ~ Failed(CoerceScalar(type, raw))
    PROVE  LET value == CoerceScalar(type, raw)
           IN  /\ raw[1] \in KindsOf(type) /\ raw[1] \in JsonKinds
               /\ type.name # "float" => value = raw
               /\ type.name = "integer" => value \in {"int"} \X Int
               /\ type.name = "float" => value \in {"float"} \X Int
               /\ type.name = "float" /\ raw[1] = "float" => value = raw
               /\ type.name = "float" /\ raw[1] = "int" => value = <<"float", 2 * Rounded(raw[2])>>
<1>1. raw[1] \in KindsOf(type)
  BY DEF CoerceScalar, Failed
<1>2. CASE type.name # "float"
  <2>1. CoerceScalar(type, raw) = raw
    BY <1>1, <1>2 DEF CoerceScalar
  <2>2. raw[1] \in JsonKinds
    BY <1>1, <1>2 DEF KindsOf, Scalar, Numeric, JsonKinds
  <2>3. type.name = "integer" => raw \in {"int"} \X Int
    BY <1>1 DEF KindsOf, IsValue
  <2> QED
    BY <1>1, <1>2, <2>1, <2>2, <2>3
<1>3. CASE type.name = "float"
  <2>1. raw[1] \in {"int", "float"} /\ raw \in {"int", "float"} \X Int
    BY <1>1, <1>3 DEF KindsOf, IsValue
  <2>2. CoerceScalar(type, raw) = ToFloat(raw)
    BY <1>1, <1>3 DEF CoerceScalar
  <2>3. CASE raw[1] = "float"
    BY <1>1, <1>3, <2>1, <2>2, <2>3 DEF ToFloat, JsonKinds
  <2>4. CASE raw[1] = "int"
    <3>1. ToFloat(raw) = <<"float", 2 * Rounded(raw[2])>>
      BY <2>2, <2>4 DEF ToFloat, Failed
    <3>2. 2 * Rounded(raw[2]) \in Int
      BY <2>1 DEF Rounded
    <3> QED
      BY <1>1, <1>3, <2>2, <2>4, <3>1, <3>2 DEF JsonKinds
  <2> QED
    BY <2>1, <2>3, <2>4
<1> QED
  BY <1>2, <1>3

\* The built-in types without parts keep the contract for every value.
THEOREM ScalarsKeepContract ==
    ASSUME NEW type, type.name \in Scalar, NEW raw, IsValue(raw), ~ Failed(CoerceScalar(type, raw))
    PROVE  LET json == ScalarToJson(type, CoerceScalar(type, raw))
           IN  /\ raw[1] \in JsonKinds
               /\ IsValue(json) /\ json[1] \in JsonKinds
               /\ CoerceScalar(type, json) = CoerceScalar(type, raw)
               /\ ExactScalar(raw) => PlainScalar(json, TRUE) = PlainScalar(raw, TRUE)
               /\ type.name \in Numeric => CoerceScalar(type, raw) \in {"int", "float"} \X Int
<1>1. PICK value : value = CoerceScalar(type, raw)
  OBVIOUS
<1>3. /\ raw[1] \in KindsOf(type) /\ raw[1] \in JsonKinds
      /\ type.name # "float" => value = raw
      /\ type.name = "integer" => value \in {"int"} \X Int
      /\ type.name = "float" => value \in {"float"} \X Int
      /\ type.name = "float" /\ raw[1] = "float" => value = raw
      /\ type.name = "float" /\ raw[1] = "int" => value = <<"float", 2 * Rounded(raw[2])>>
  BY <1>1, CoercedScalar
<1>4. ScalarToJson(type, value) = value
  BY <1>3 DEF ScalarToJson, ToFloat
<1>5. CoerceScalar(type, value) = value
  <2>1. CASE type.name # "float"
    BY <1>1, <1>3, <2>1
  <2>2. CASE type.name = "float"
    BY <1>3, <2>2 DEF CoerceScalar, KindsOf, ToFloat
  <2> QED
    BY <2>1, <2>2
<1>6. IsValue(value) /\ value[1] \in JsonKinds
  BY <1>3 DEF IsValue, JsonKinds
<1>7. ASSUME ExactScalar(raw) PROVE PlainScalar(value, TRUE) = PlainScalar(raw, TRUE)
  <2>1. CASE value = raw
    BY <2>1
  <2>2. CASE value # raw
    <3>1. type.name = "float" /\ raw[1] = "int" /\ value = <<"float", 2 * Rounded(raw[2])>>
      BY <1>3, <2>2 DEF KindsOf
    <3>2. Rounded(raw[2]) = raw[2]
      BY <1>7, <3>1 DEF ExactScalar, Rounded
    <3> QED
      BY <3>1, <3>2 DEF PlainScalar, Halves
  <2> QED
    BY <2>1, <2>2
<1>8. type.name \in Numeric => value \in {"int", "float"} \X Int
  BY <1>3 DEF Numeric
<1> QED
  BY <1>1, <1>3, <1>4, <1>5, <1>6, <1>7, <1>8

\* Types with one description treat every value alike.
THEOREM DescriptionTellsApart ==
    ASSUME NEW type, type.name \in Scalar, NEW other, other.name \in Scalar,
           DescribeScalar(type) = DescribeScalar(other), NEW raw
    PROVE  /\ CoerceScalar(type, raw) = CoerceScalar(other, raw)
           /\ CheckedScalar(type, raw) = CheckedScalar(other, raw)
           /\ ValidateScalar(type, CoerceScalar(type, raw)) = ValidateScalar(other, CoerceScalar(other, raw))
           /\ ScalarToJson(type, CoerceScalar(type, raw)) = ScalarToJson(other, CoerceScalar(other, raw))
<1>1. type.name = other.name
  BY DEF DescribeScalar
<1>2. CoerceScalar(type, raw) = CoerceScalar(other, raw)
  BY <1>1 DEF CoerceScalar, KindsOf
<1>3. PICK value : value = CoerceScalar(type, raw)
  OBVIOUS
<1>4. ValidateScalar(type, value) = ValidateScalar(other, value)
  <2>1. CASE type.name \in Numeric
    <3>1. [min |-> type.min, max |-> type.max] = [min |-> other.min, max |-> other.max]
      BY <1>1, <2>1 DEF DescribeScalar, Numeric
    <3>2. type.min = other.min /\ type.max = other.max
      BY <3>1
    <3> QED
      BY <1>1, <2>1, <3>2 DEF ValidateScalar, Numeric
  <2>2. CASE type.name = "boolean"
    BY <1>1, <2>2 DEF ValidateScalar, Numeric
  <2>3. CASE type.name = "string"
    <3>1. [min_length |-> type.min_length, max_length |-> type.max_length, pattern |-> type.pattern]
            = [min_length |-> other.min_length, max_length |-> other.max_length, pattern |-> other.pattern]
      BY <1>1, <2>3 DEF DescribeScalar, Numeric
    <3>2. type.min_length = other.min_length /\ type.max_length = other.max_length /\ type.pattern = other.pattern
      BY <3>1
    <3> QED
      BY <1>1, <2>3, <3>2 DEF ValidateScalar, ValidateString, Numeric
  <2>4. CASE type.name = "enum"
    <3>1. [choices |-> type.choices] = [choices |-> other.choices]
      BY <1>1, <2>4 DEF DescribeScalar, Numeric
    <3>2. type.choices = other.choices
      BY <3>1
    <3> QED
      BY <1>1, <2>4, <3>2 DEF ValidateScalar, Numeric
  <2> QED
    BY <2>1, <2>2, <2>3, <2>4 DEF Scalar
<1>5. ScalarToJson(type, CoerceScalar(type, raw)) = ScalarToJson(other, CoerceScalar(other, raw))
  BY <1>1, <1>2 DEF ScalarToJson
<1> QED
  BY <1>2, <1>3, <1>4, <1>5 DEF CheckedScalar

\* A keyword that is not given is as good as none.
LEMMA KeywordsGiven ==
    ASSUME NEW parameters, NEW k
    PROVE  /\ k \in DOMAIN parameters => Given(Keywords(parameters), k) = parameters[k]
           /\ k \notin DOMAIN parameters => Given(Keywords(parameters), k) = None
           /\ k \in DOMAIN Keywords(parameters) <=> k \in DOMAIN parameters /\ parameters[k] # None
           /\ k \in DOMAIN Keywords(parameters) => Keywords(parameters)[k] = parameters[k]
BY DEF Keywords, Given

\* What the schema of a number says.
LEMMA SchemaOfNumber ==
    ASSUME NEW type, type.name \in Numeric
    PROVE  LET schema == ScalarSchema(type)
           IN  /\ schema["type"] = JsonType(type)
               /\ Given(schema, "minimum") = type.min /\ Given(schema, "maximum") = type.max
<1> DEFINE parameters == [type |-> JsonType(type), minimum |-> type.min, maximum |-> type.max]
<1>1. ScalarSchema(type) = Keywords(parameters)
  BY DEF ScalarSchema, NumberSchema, Numeric
<1>2. /\ DOMAIN parameters = {"type", "minimum", "maximum"}
      /\ parameters["type"] = JsonType(type)
      /\ parameters["minimum"] = type.min /\ parameters["maximum"] = type.max
  OBVIOUS
<1>3. JsonType(type) # None
  BY ScalarsAssumption DEF JsonType, Numeric
<1> HIDE DEF parameters
<1> QED
  BY <1>1, <1>2, <1>3, KeywordsGiven


\* What the schema of a string says.
LEMMA SchemaOfString ==
    ASSUME NEW type, type.name = "string"
    PROVE  LET schema == ScalarSchema(type)
           IN  /\ schema["type"] = "string"
               /\ Given(schema, "minLength") = type.min_length
               /\ Given(schema, "maxLength") = type.max_length
               /\ "pattern" \in DOMAIN schema <=> type.pattern # None
               /\ "pattern" \in DOMAIN schema => schema["pattern"] = type.pattern
               /\ "enum" \notin DOMAIN schema
<1> DEFINE parameters == [type |-> "string", minLength |-> type.min_length,
                          maxLength |-> type.max_length, pattern |-> type.pattern]
<1>1. ScalarSchema(type) = Keywords(parameters)
  BY DEF ScalarSchema, StringSchema, Numeric
<1>2. /\ DOMAIN parameters = {"type", "minLength", "maxLength", "pattern"}
      /\ parameters["type"] = "string" /\ parameters["pattern"] = type.pattern
      /\ parameters["minLength"] = type.min_length /\ parameters["maxLength"] = type.max_length
  OBVIOUS
<1>3. None # "string"
  BY ScalarsAssumption
<1> HIDE DEF parameters
<1> QED
  BY <1>1, <1>2, <1>3, KeywordsGiven

\* A client that checks a value against the schema of a type decides as the
\* server does, but for numbers that a float rounds and for 1.0, which is an
\* integer to a schema and none to Integer.coerce (types.py:30, types.py:76).
THEOREM ScalarSchemasAreExact ==
    ASSUME NEW type, type.name \in Scalar, NEW raw, IsValue(raw), ExactScalar(raw)
    PROVE  /\ ~ Failed(CheckedScalar(type, raw)) => AdmitsScalar(type, raw)
           /\ ~ WholeScalar(raw) /\ AdmitsScalar(type, raw) => ~ Failed(CheckedScalar(type, raw))
<1> DEFINE schema == ScalarSchema(type)
<1>1. CheckedScalar(type, raw) = IF raw[1] \notin KindsOf(type) THEN Refused
                                 ELSE CheckedScalar(type, raw)
  BY DEF CheckedScalar, CoerceScalar, Failed
<1>2. CASE type.name \in Numeric
  <2>1. schema["type"] = JsonType(type) /\ Given(schema, "minimum") = type.min /\ Given(schema, "maximum") = type.max
    BY <1>2, SchemaOfNumber
  <2> HIDE DEF schema
  <2>2. JsonType(type) \in {"integer", "number"}
    BY <1>2 DEF JsonType, Numeric
  <2>3. AdmitsScalar(type, raw) <=> JsonType(type) \in Kind(raw) /\ Between(Halves(raw), type.min, type.max)
    BY <2>1, <2>2 DEF AdmitsScalar, SatisfiesScalar, schema
  <2>4. ASSUME raw[1] \in KindsOf(type)
        PROVE  ~ Failed(CheckedScalar(type, raw)) <=> Between(Halves(raw), type.min, type.max)
    <3>1. raw \in {"int", "float"} \X Int /\ raw[1] \in {"int", "float"}
      BY <1>2, <2>4 DEF KindsOf, IsValue, Numeric
    <3>2. PICK value : value = CoerceScalar(type, raw)
      OBVIOUS
    <3>3. Halves(value) = Halves(raw) /\ value[1] \in {"int", "float"}
      <4>1. CASE type.name = "float" /\ raw[1] = "int"
        <5>1. raw[2] \in -Precise..Precise /\ raw[2] \in -Largest..Largest
          BY <3>1, <4>1, ScalarsAssumption, LargestAssumption DEF ExactScalar
        <5>2. value = <<"float", 2 * raw[2]>>
          BY <2>4, <3>2, <4>1, <5>1 DEF CoerceScalar, ToFloat, Rounded
        <5> QED
          BY <4>1, <5>2 DEF Halves
      <4>2. CASE ~ (type.name = "float" /\ raw[1] = "int")
        <5>1. value = raw
          BY <2>4, <3>2, <4>2 DEF CoerceScalar, ToFloat
        <5> QED
          BY <3>1, <5>1
      <4> QED
        BY <4>1, <4>2
    <3>4. ~ Failed(value)
      BY <3>3 DEF Failed, Refused, Raised
    <3>5. ValidateScalar(type, value) = Verdict(Between(Halves(value), type.min, type.max))
      BY <1>2 DEF ValidateScalar, Numeric
    <3>6. Failed(ValidateScalar(type, value)) <=> ~ Between(Halves(value), type.min, type.max)
      BY <3>5 DEF Failed, Verdict, Refused, Raised
    <3> QED
      BY <3>2, <3>3, <3>4, <3>6 DEF CheckedScalar
  <2>5. JsonType(type) \in Kind(raw) /\ ~ WholeScalar(raw) => raw[1] \in KindsOf(type)
    BY <1>2 DEF Kind, WholeScalar, KindsOf, JsonType, Numeric, IsValue, JsonKinds
  <2>6. raw[1] \in KindsOf(type) => JsonType(type) \in Kind(raw)
    BY <1>2 DEF Kind, KindsOf, JsonType, Numeric
  <2>7. raw[1] \notin KindsOf(type) => Failed(CheckedScalar(type, raw))
    BY <1>1 DEF Failed
  <2> QED
    BY <2>3, <2>4, <2>5, <2>6, <2>7
<1>3. CASE type.name = "boolean"
  <2>1. AdmitsScalar(type, raw) <=> raw[1] = "bool"
    BY <1>3 DEF AdmitsScalar, SatisfiesScalar, ScalarSchema, Numeric, Kind, IsValue, JsonKinds
  <2>2. ~ Failed(CheckedScalar(type, raw)) <=> raw[1] = "bool"
    <3>1. raw[1] # "bool" => CoerceScalar(type, raw) = Refused
      BY <1>3 DEF CoerceScalar, KindsOf
    <3>2. raw[1] = "bool" => CoerceScalar(type, raw) = raw
      BY <1>3 DEF CoerceScalar, KindsOf
    <3>3. raw[1] = "bool" => ~ Failed(raw)
      BY DEF Failed, Refused, Raised
    <3>4. ~ Failed(ValidateScalar(type, raw))
      BY <1>3 DEF ValidateScalar, Verdict, Failed, Refused, Raised, Numeric
    <3> QED
      BY <3>1, <3>2, <3>3, <3>4 DEF CheckedScalar, Failed
  <2> QED
    BY <2>1, <2>2
<1>4. CASE type.name \in {"string", "enum"}
  <2> DEFINE Fine == IF type.name = "string" THEN ValidateString(type, raw)
                     ELSE Contains(type.choices, raw[2])
  <2>1. AdmitsScalar(type, raw) <=> raw[1] = "string" /\ Fine
    <3>1. "string" \in Kind(raw) <=> raw[1] = "string"
      BY DEF Kind, IsValue, JsonKinds
    <3>2. CASE type.name = "string"
      <4>1. /\ schema["type"] = "string" /\ "enum" \notin DOMAIN schema
            /\ Given(schema, "minLength") = type.min_length
            /\ Given(schema, "maxLength") = type.max_length
            /\ "pattern" \in DOMAIN schema <=> type.pattern # None
            /\ "pattern" \in DOMAIN schema => schema["pattern"] = type.pattern
        BY <3>2, SchemaOfString
      <4>2. AdmitsScalar(type, raw) <=> SatisfiesScalar(schema, raw)
        BY DEF AdmitsScalar
      <4> HIDE DEF schema
      <4>3. SatisfiesScalar(schema, raw) <=> raw[1] = "string" /\ ValidateString(type, raw)
        BY <3>1, <4>1 DEF SatisfiesScalar, ValidateString
      <4> QED
        BY <3>2, <4>2, <4>3
    <3>3. CASE type.name = "enum"
      <4>1. schema = [type |-> "string", enum |-> type.choices]
        BY <3>3 DEF ScalarSchema, Numeric
      <4>2. /\ schema["type"] = "string" /\ "pattern" \notin DOMAIN schema
            /\ "enum" \in DOMAIN schema /\ schema["enum"] = type.choices
            /\ Given(schema, "minLength") = None /\ Given(schema, "maxLength") = None
        BY <4>1 DEF Given
      <4>3. AdmitsScalar(type, raw) <=> SatisfiesScalar(schema, raw)
        BY DEF AdmitsScalar
      <4> HIDE DEF schema
      <4>4. SatisfiesScalar(schema, raw) <=> raw[1] = "string" /\ Contains(type.choices, raw[2])
        BY <3>1, <4>2 DEF SatisfiesScalar, Between
      <4> QED
        BY <3>3, <4>3, <4>4
    <3> QED
      BY <1>4, <3>2, <3>3
  <2>2. ~ Failed(CheckedScalar(type, raw)) <=> raw[1] = "string" /\ Fine
    <3>1. raw[1] # "string" => CoerceScalar(type, raw) = Refused
      BY <1>4 DEF CoerceScalar, KindsOf
    <3>2. raw[1] = "string" => CoerceScalar(type, raw) = raw
      BY <1>4 DEF CoerceScalar, KindsOf
    <3>3. raw[1] = "string" => ~ Failed(raw)
      BY DEF Failed, Refused, Raised
    <3>4. ValidateScalar(type, raw) = Verdict(Fine)
      BY <1>4 DEF ValidateScalar, Numeric
    <3>5. Failed(ValidateScalar(type, raw)) <=> ~ Fine
      BY <3>4 DEF Failed, Verdict, Refused, Raised
    <3> QED
      BY <3>1, <3>2, <3>3, <3>5 DEF CheckedScalar, Failed
  <2> QED
    BY <2>1, <2>2
<1> QED
  BY <1>2, <1>3, <1>4 DEF Scalar

---------------------------------------------------------------------------
(* The built-in types of any depth: what TypesContract assumes of every    *)
(* type is true of these, and their schemas are exact.                     *)

\* What is true of a type whenever it is true of its parts is true of all types.
LEMMA TypeInduction ==
    ASSUME NEW Good \in SUBSET BuiltInTypes,
           \A type \in BuiltInTypes : PartsOf(type) \subseteq Good => type \in Good
    PROVE  Good = BuiltInTypes
<1> SUFFICES ASSUME NEW bad \in BuiltInTypes \ Good PROVE FALSE
  OBVIOUS
<1> DEFINE depths == {depth[type] : type \in BuiltInTypes \ Good}
<1>1. depths \in SUBSET Nat /\ depths # {}
  BY BuiltInsAssumption DEF TypesHaveParts
<1>2. \E least \in depths : \A other \in depths : least <= other
  <2> HIDE DEF depths
  <2> QED
    BY <1>1, Least
<1>3. PICK type \in BuiltInTypes \ Good : \A other \in BuiltInTypes \ Good : depth[type] <= depth[other]
  BY <1>2
<1>4. ASSUME NEW part \in PartsOf(type) PROVE part \in Good
  <2>1. part \in BuiltInTypes /\ depth[part] < depth[type] /\ depth[part] \in Nat /\ depth[type] \in Nat
    BY BuiltInsAssumption DEF TypesHaveParts
  <2> QED
    BY <1>3, <2>1
<1> QED
  BY <1>3, <1>4

\* A call that fails gives the failure of one of its results.
LEMMA FirstFailureIsOne ==
    ASSUME NEW results, DOMAIN results \in SUBSET Nat, NEW otherwise, NEW i \in DOMAIN results, Failed(results[i])
    PROVE  \E j \in DOMAIN results : Failed(results[j]) /\ FirstFailure(results, otherwise) = results[j]
<1> DEFINE failures == {j \in DOMAIN results : Failed(results[j])}
<1>1. \E j \in failures : \A k \in failures : j <= k
  BY Least
<1> QED
  BY <1>1 DEF FirstFailure

LEMMA SomeFailureIsOne ==
    ASSUME NEW results, NEW otherwise
    PROVE  \/ (\A r \in results : ~ Failed(r)) /\ SomeFailure(results, otherwise) = otherwise
           \/ \E r \in results : Failed(r) /\ SomeFailure(results, otherwise) = r
BY DEF SomeFailure

\* The methods of a type without parts.
LEMMA MethodsOfScalar ==
    ASSUME NEW type \in BuiltInTypes, type.name \in Scalar, NEW raw \in JsonValues
    PROVE  /\ coerce(type, raw) = CoerceScalar(type, raw)
           /\ ~ Failed(coerce(type, raw)) => Canonical(type, raw) = ScalarToJson(type, CoerceScalar(type, raw))
           /\ Checked(type, raw) = CheckedScalar(type, raw)
           /\ admits(type, raw) => AdmitsScalar(type, raw)
           /\ raw[1] \notin {"list", "object"} /\ AdmitsScalar(type, raw) => admits(type, raw)
<1>1. coerce(type, raw) = CoerceScalar(type, raw)
  BY BuiltInsAssumption DEF ValueMethods, Coerce, Scalar, Numeric
<1>2. ~ Failed(coerce(type, raw)) =>
            /\ to_json(type, coerce(type, raw)) = ScalarToJson(type, coerce(type, raw))
            /\ validate(type, coerce(type, raw)) = ValidateScalar(type, coerce(type, raw))
  BY BuiltInsAssumption DEF ValueMethods, ToJson, Validate, Scalar, Numeric
<1>3. json_schema(type) = ScalarSchema(type)
  BY BuiltInsAssumption DEF TypeMethods, JsonSchema, Scalar, Numeric
<1>4. admits(type, raw) <=> Satisfies(ScalarSchema(type), raw)
  BY <1>3, BuiltInsAssumption DEF Clients, Admits
<1>5. AdmitsScalar(type, raw) => ScalarSchema(type)["type"] \in Kind(raw)
  BY DEF AdmitsScalar, SatisfiesScalar
<1>6. raw[1] \notin {"list", "object"} => "array" \notin Kind(raw) /\ "object" \notin Kind(raw)
  <2>1. IsValue(raw)
    BY BuiltInsAssumption DEF ValuesHaveParts
  <2> QED
    BY <2>1 DEF Kind, IsValue, JsonKinds
<1> QED
  BY <1>1, <1>2, <1>4, <1>5, <1>6 DEF Canonical, Checked, CheckedScalar, AdmitsScalar, Satisfies

\* A value without parts.
LEMMA ValueOfScalar ==
    ASSUME NEW raw \in JsonValues, raw[1] \notin {"list", "object"}
    PROVE  /\ plain(raw) = PlainScalar(raw, TRUE) /\ json_value(raw) = PlainScalar(raw, FALSE)
           /\ exact(raw) <=> ExactScalar(raw)
           /\ whole(raw) <=> WholeScalar(raw)
BY BuiltInsAssumption DEF Comparisons, PythonValue, JsonValue, Exact, Whole

\* A type that takes strings takes them as they are.
LEMMA StringsStay ==
    ASSUME NEW type \in BuiltInTypes, NEW k, <<"string", k>> \in JsonValues
    PROVE  coerce(type, <<"string", k>>) \in {Refused, <<"string", k>>} /\ ~ Failed(<<"string", k>>)
<1>1. coerce(type, <<"string", k>>) = Coerce(type, <<"string", k>>)
  BY BuiltInsAssumption DEF ValueMethods
<1>2. type.name \in Scalar \cup {"list", "mapping"}
  BY BuiltInsAssumption DEF TypesHaveParts
<1>3. Coerce(type, <<"string", k>>) \in {Refused, <<"string", k>>}
  BY <1>2 DEF Coerce, CoerceScalar, KindsOf, Scalar, Numeric
<1> QED
  BY <1>1, <1>3 DEF Failed, Refused, Raised

\* A list and its items.
LEMMA PartsOfList ==
    ASSUME NEW raw \in JsonValues, raw[1] = "list"
    PROVE  /\ raw = <<"list", raw[2]>> /\ raw[2] \in Seq(JsonValues)
           /\ DOMAIN raw[2] = 1..Len(raw[2]) /\ Len(raw[2]) \in Nat
           /\ \A i \in DOMAIN raw[2] : raw[2][i] \in JsonValues
           /\ plain(raw) = <<"list", [i \in DOMAIN raw[2] |-> plain(raw[2][i])]>>
           /\ exact(raw) <=> \A i \in DOMAIN raw[2] : exact(raw[2][i])
           /\ whole(raw) <=> \E i \in DOMAIN raw[2] : whole(raw[2][i])
<1>1. raw = <<"list", raw[2]>> /\ raw[2] \in Seq(JsonValues)
  BY BuiltInsAssumption DEF ValuesHaveParts
<1>2. \A i \in DOMAIN raw[2] : raw[2][i] \in JsonValues
  BY <1>1
<1>3. /\ plain(raw) = <<"list", [i \in DOMAIN raw[2] |-> plain(raw[2][i])]>>
      /\ exact(raw) <=> \A i \in DOMAIN raw[2] : exact(raw[2][i])
      /\ whole(raw) <=> \E i \in DOMAIN raw[2] : whole(raw[2][i])
  BY BuiltInsAssumption DEF Comparisons, PythonValue, JsonValue, Exact, Whole
<1> QED
  BY <1>1, <1>2, <1>3

\* An object, its keys and its entries.
LEMMA PartsOfObject ==
    ASSUME NEW raw \in JsonValues, raw[1] = "object"
    PROVE  /\ raw = <<"object", raw[2]>> /\ raw[2] = [k \in DOMAIN raw[2] |-> raw[2][k]]
           /\ \A k \in DOMAIN raw[2] : raw[2][k] \in JsonValues /\ <<"string", k>> \in JsonValues
           /\ plain(raw) = <<"object", [k \in DOMAIN raw[2] |-> plain(raw[2][k])]>>
           /\ exact(raw) <=> \A k \in DOMAIN raw[2] : exact(raw[2][k])
           /\ whole(raw) <=> \E k \in DOMAIN raw[2] : whole(raw[2][k])
<1>1. /\ raw = <<"object", raw[2]>> /\ raw[2] = [k \in DOMAIN raw[2] |-> raw[2][k]]
      /\ \A k \in DOMAIN raw[2] : raw[2][k] \in JsonValues /\ <<"string", k>> \in JsonValues
  BY BuiltInsAssumption DEF ValuesHaveParts
<1>2. /\ plain(raw) = <<"object", [k \in DOMAIN raw[2] |-> plain(raw[2][k])]>>
      /\ exact(raw) <=> \A k \in DOMAIN raw[2] : exact(raw[2][k])
      /\ whole(raw) <=> \E k \in DOMAIN raw[2] : whole(raw[2][k])
  BY BuiltInsAssumption DEF Comparisons, PythonValue, JsonValue, Exact, Whole
<1> QED
  BY <1>1, <1>2

\* coerce of a list type: a list of what its items became, or the failure of one.
LEMMA CoerceOfList ==
    ASSUME NEW type \in BuiltInTypes, type.name = "list", NEW raw \in JsonValues
    PROVE  LET items == [i \in DOMAIN raw[2] |-> coerce(type.item, raw[2][i])]
           IN  \/ raw[1] # "list" /\ coerce(type, raw) = Refused
               \/ /\ raw[1] = "list"
                  /\ \E i \in DOMAIN raw[2] : Failed(items[i]) /\ coerce(type, raw) = items[i]
               \/ /\ raw[1] = "list" /\ ~ Failed(coerce(type, raw))
                  /\ \A i \in DOMAIN raw[2] : ~ Failed(items[i])
                  /\ coerce(type, raw) = <<"list", items>>
                  /\ Canonical(type, raw) = <<"list", [i \in DOMAIN raw[2] |-> Canonical(type.item, raw[2][i])]>>
<1> DEFINE items == [i \in DOMAIN raw[2] |-> coerce(type.item, raw[2][i])]
<1>1. coerce(type, raw) = Coerce(type, raw)
  BY BuiltInsAssumption DEF ValueMethods
<1>2. coerce(type, raw) = IF raw[1] = "list" THEN FirstFailure(items, <<"list", items>>) ELSE Refused
  BY <1>1 DEF Coerce, CoerceList, Scalar, Numeric
<1>3. CASE raw[1] # "list"
  BY <1>2, <1>3
<1>4. CASE raw[1] = "list"
  <2>1. DOMAIN items \in SUBSET Nat
    BY <1>4, PartsOfList
  <2>2. coerce(type, raw) = FirstFailure(items, <<"list", items>>)
    BY <1>2, <1>4
  <2>3. CASE \E i \in DOMAIN raw[2] : Failed(items[i])
    <3> HIDE DEF items
    <3>1. DOMAIN items = DOMAIN raw[2]
      BY DEF items
    <3>2. PICK j \in DOMAIN items : Failed(items[j]) /\ FirstFailure(items, <<"list", items>>) = items[j]
      BY <2>1, <2>3, <3>1, FirstFailureIsOne
    <3>3. \E i \in DOMAIN raw[2] : Failed(items[i]) /\ coerce(type, raw) = items[i]
      BY <2>2, <3>1, <3>2
    <3> QED
      BY <1>4, <3>3 DEF items
  <2>4. CASE \A i \in DOMAIN raw[2] : ~ Failed(items[i])
    <3>1. coerce(type, raw) = <<"list", items>>
      BY <2>2, <2>4 DEF FirstFailure
    <3>2. ~ Failed(coerce(type, raw))
      BY <3>1 DEF Failed, Refused, Raised
    <3>3. to_json(type, coerce(type, raw)) = ToJson(type, coerce(type, raw))
      BY <3>2, BuiltInsAssumption DEF ValueMethods
    <3>4. Canonical(type, raw) = <<"list", [i \in DOMAIN raw[2] |-> Canonical(type.item, raw[2][i])]>>
      BY <3>1, <3>3 DEF ToJson, Canonical, Scalar, Numeric
    <3> QED
      BY <1>4, <2>4, <3>1, <3>2, <3>4
  <2> QED
    BY <2>3, <2>4
<1> QED
  BY <1>3, <1>4

\* coerce of a mapping type: an object of what its entries became, or a failure.
LEMMA CoerceOfMapping ==
    ASSUME NEW type \in BuiltInTypes, type.name = "mapping", NEW raw \in JsonValues
    PROVE  LET entries == [k \in DOMAIN raw[2] |-> coerce(type.value, raw[2][k])]
           IN  \/ raw[1] # "object" /\ coerce(type, raw) = Refused
               \/ /\ raw[1] = "object" /\ coerce(type, raw) = Refused
                  /\ \E k \in DOMAIN raw[2] : coerce(type.key, <<"string", k>>) = Refused
               \/ /\ raw[1] = "object"
                  /\ \E k \in DOMAIN raw[2] : Failed(entries[k]) /\ coerce(type, raw) = entries[k]
               \/ /\ raw[1] = "object" /\ ~ Failed(coerce(type, raw))
                  /\ \A k \in DOMAIN raw[2] :
                        coerce(type.key, <<"string", k>>) # Refused /\ ~ Failed(entries[k])
                  /\ coerce(type, raw) = <<"object", entries>>
                  /\ Canonical(type, raw) = <<"object", [k \in DOMAIN raw[2] |-> Canonical(type.value, raw[2][k])]>>
<1> DEFINE entries == [k \in DOMAIN raw[2] |-> coerce(type.value, raw[2][k])]
           results == {entries[k] : k \in DOMAIN raw[2]}
           Unkeyed == \E k \in DOMAIN raw[2] : coerce(type.key, <<"string", k>>) = Refused
<1>1. coerce(type, raw) = Coerce(type, raw)
  BY BuiltInsAssumption DEF ValueMethods
<1>2. coerce(type, raw) = IF raw[1] # "object" \/ Unkeyed THEN Refused
                          ELSE SomeFailure(results, <<"object", entries>>)
  BY <1>1 DEF Coerce, CoerceMapping, Scalar, Numeric
<1>3. CASE raw[1] # "object" \/ Unkeyed
  BY <1>2, <1>3
<1>4. CASE raw[1] = "object" /\ ~ Unkeyed /\ \E r \in results : Failed(r) /\ SomeFailure(results, <<"object", entries>>) = r
  <2>1. PICK k \in DOMAIN raw[2] : Failed(entries[k]) /\ coerce(type, raw) = entries[k]
    BY <1>2, <1>4
  <2> QED
    BY <1>4, <2>1
<1>5. CASE /\ raw[1] = "object" /\ ~ Unkeyed
           /\ (\A r \in results : ~ Failed(r)) /\ SomeFailure(results, <<"object", entries>>) = <<"object", entries>>
  <2>1. coerce(type, raw) = <<"object", entries>>
    BY <1>2, <1>5
  <2>2. ~ Failed(coerce(type, raw))
    BY <2>1 DEF Failed, Refused, Raised
  <2>3. to_json(type, coerce(type, raw)) = ToJson(type, coerce(type, raw))
    BY <2>2, BuiltInsAssumption DEF ValueMethods
  <2>4. Canonical(type, raw) = <<"object", [k \in DOMAIN raw[2] |-> Canonical(type.value, raw[2][k])]>>
    BY <2>1, <2>3 DEF ToJson, Canonical, Scalar, Numeric
  <2>5. \A k \in DOMAIN raw[2] : coerce(type.key, <<"string", k>>) # Refused /\ ~ Failed(entries[k])
    BY <1>5
  <2> QED
    BY <1>5, <2>1, <2>2, <2>4, <2>5
<1>6. \/ (\A r \in results : ~ Failed(r)) /\ SomeFailure(results, <<"object", entries>>) = <<"object", entries>>
      \/ \E r \in results : Failed(r) /\ SomeFailure(results, <<"object", entries>>) = r
  <2> HIDE DEF results, entries
  <2> QED
    BY SomeFailureIsOne
<1> QED
  BY <1>3, <1>4, <1>5, <1>6

\* The parts of a type are built-in types.
LEMMA PartsOfType ==
    ASSUME NEW type \in BuiltInTypes
    PROVE  /\ type.name \in Scalar \/ type.name = "list" \/ type.name = "mapping"
           /\ type.name \in Scalar => type.name # "list" /\ type.name # "mapping"
           /\ type.name = "list" => PartsOf(type) = {type.item} /\ type.item \in BuiltInTypes
           /\ type.name = "mapping" => /\ PartsOf(type) = {type.key, type.value}
                                       /\ type.key \in BuiltInTypes /\ type.value \in BuiltInTypes
<1>1. type.name \in Scalar \cup {"list", "mapping"} /\ \A part \in PartsOf(type) : part \in BuiltInTypes
  BY BuiltInsAssumption DEF TypesHaveParts
<1> QED
  BY <1>1 DEF PartsOf, Scalar, Numeric

\* What coerce takes is JSON, is stored as what coerce takes for the same value,
\* and is stored unchanged but for numbers that a float rounds (types.py:16-30).
KeepsValues(type) ==
    \A raw \in JsonValues : ~ Failed(coerce(type, raw)) =>
        /\ raw[1] \in JsonKinds
        /\ Canonical(type, raw) \in JsonValues \ {Absent}
        /\ coerce(type, Canonical(type, raw)) = coerce(type, raw)
        /\ exact(raw) => Equal(Canonical(type, raw), raw)
        /\ type.name \in {"integer", "float"} => coerce(type, raw) \in {"int", "float"} \X Int

LEMMA ScalarKeepsValues ==
    ASSUME NEW type \in BuiltInTypes, type.name \in Scalar
    PROVE  KeepsValues(type)
<1> SUFFICES ASSUME NEW raw \in JsonValues, ~ Failed(coerce(type, raw))
             PROVE  /\ raw[1] \in JsonKinds
                    /\ Canonical(type, raw) \in JsonValues \ {Absent}
                    /\ coerce(type, Canonical(type, raw)) = coerce(type, raw)
                    /\ exact(raw) => Equal(Canonical(type, raw), raw)
                    /\ type.name \in {"integer", "float"} => coerce(type, raw) \in {"int", "float"} \X Int
  BY DEF KeepsValues
<1>1. IsValue(raw) /\ Canonical(type, raw) \in JsonValues \ {Absent}
  BY BuiltInsAssumption DEF ValuesHaveParts, ValueMethods, Canonical
<1>2. coerce(type, raw) = CoerceScalar(type, raw) /\ ~ Failed(CoerceScalar(type, raw))
  BY MethodsOfScalar
<1>3. PICK json : json = ScalarToJson(type, CoerceScalar(type, raw))
  OBVIOUS
<1>4. Canonical(type, raw) = json
  BY <1>3, MethodsOfScalar
<1>5. /\ raw[1] \in JsonKinds
      /\ CoerceScalar(type, json) = CoerceScalar(type, raw)
      /\ ExactScalar(raw) => PlainScalar(json, TRUE) = PlainScalar(raw, TRUE)
      /\ type.name \in Numeric => CoerceScalar(type, raw) \in {"int", "float"} \X Int
  BY <1>1, <1>2, <1>3, ScalarsKeepContract
<1>6. coerce(type, json) = CoerceScalar(type, json)
  BY <1>1, <1>4, MethodsOfScalar
<1>7. raw[1] \notin {"list", "object"} /\ json[1] \notin {"list", "object"}
  <2>1. raw[1] \in KindsOf(type)
    BY <1>2 DEF CoerceScalar, Failed
  <2>2. json[1] \in KindsOf(type)
    BY <1>2, <1>5, <1>6 DEF CoerceScalar, Failed
  <2>3. "list" \notin KindsOf(type) /\ "object" \notin KindsOf(type)
    BY DEF KindsOf, Scalar, Numeric
  <2> QED
    BY <2>1, <2>2, <2>3
<1>8. plain(raw) = PlainScalar(raw, TRUE) /\ plain(json) = PlainScalar(json, TRUE) /\ (exact(raw) <=> ExactScalar(raw))
  BY <1>1, <1>4, <1>7, ValueOfScalar
<1>9. exact(raw) => Equal(Canonical(type, raw), raw)
  BY <1>4, <1>5, <1>8 DEF Equal
<1>10. coerce(type, Canonical(type, raw)) = coerce(type, raw)
  BY <1>2, <1>4, <1>5, <1>6
<1> QED
  BY <1>1, <1>2, <1>5, <1>9, <1>10 DEF Numeric

LEMMA ListKeepsValues ==
    ASSUME NEW type \in BuiltInTypes, type.name = "list", KeepsValues(type.item)
    PROVE  KeepsValues(type)
<1> SUFFICES ASSUME NEW raw \in JsonValues, ~ Failed(coerce(type, raw))
             PROVE  /\ raw[1] \in JsonKinds
                    /\ Canonical(type, raw) \in JsonValues \ {Absent}
                    /\ coerce(type, Canonical(type, raw)) = coerce(type, raw)
                    /\ exact(raw) => Equal(Canonical(type, raw), raw)
  BY DEF KeepsValues
<1> DEFINE item == type.item
<1>1. PICK json : json = Canonical(type, raw)
  OBVIOUS
<1>2. json \in JsonValues \ {Absent}
  BY <1>1, BuiltInsAssumption DEF ValueMethods, Canonical
<1>3. /\ raw[1] = "list"
      /\ \A i \in DOMAIN raw[2] : ~ Failed(coerce(item, raw[2][i]))
      /\ coerce(type, raw) = <<"list", [i \in DOMAIN raw[2] |-> coerce(item, raw[2][i])]>>
      /\ json = <<"list", [i \in DOMAIN raw[2] |-> Canonical(item, raw[2][i])]>>
  BY <1>1, CoerceOfList DEF Failed
<1>4. /\ raw = <<"list", raw[2]>> /\ \A i \in DOMAIN raw[2] : raw[2][i] \in JsonValues
      /\ plain(raw) = <<"list", [i \in DOMAIN raw[2] |-> plain(raw[2][i])]>>
      /\ exact(raw) <=> \A i \in DOMAIN raw[2] : exact(raw[2][i])
  BY <1>3, PartsOfList
<1>5. /\ json[1] = "list" /\ DOMAIN json[2] = DOMAIN raw[2]
      /\ \A i \in DOMAIN raw[2] : json[2][i] = Canonical(item, raw[2][i])
  BY <1>3
<1>6. \A i \in DOMAIN raw[2] :
            /\ coerce(item, json[2][i]) = coerce(item, raw[2][i])
            /\ exact(raw[2][i]) => plain(json[2][i]) = plain(raw[2][i])
  BY <1>3, <1>4, <1>5 DEF KeepsValues, Equal
<1>7. coerce(type, json) = coerce(type, raw)
  <2>1. \A i \in DOMAIN json[2] : ~ Failed(coerce(item, json[2][i]))
    BY <1>3, <1>5, <1>6
  <2>2. coerce(type, json) = <<"list", [i \in DOMAIN json[2] |-> coerce(item, json[2][i])]>>
    BY <1>2, <1>5, <2>1, CoerceOfList
  <2>3. [i \in DOMAIN json[2] |-> coerce(item, json[2][i])] = [i \in DOMAIN raw[2] |-> coerce(item, raw[2][i])]
    BY <1>5, <1>6
  <2> QED
    BY <1>3, <2>2, <2>3
<1>8. ASSUME exact(raw) PROVE Equal(json, raw)
  <2>1. plain(json) = <<"list", [i \in DOMAIN json[2] |-> plain(json[2][i])]>>
    BY <1>2, <1>5, PartsOfList
  <2>2. [i \in DOMAIN json[2] |-> plain(json[2][i])] = [i \in DOMAIN raw[2] |-> plain(raw[2][i])]
    BY <1>4, <1>5, <1>6, <1>8
  <2> QED
    BY <1>4, <2>1, <2>2 DEF Equal
<1> QED
  BY <1>1, <1>2, <1>3, <1>7, <1>8 DEF JsonKinds

LEMMA MappingKeepsValues ==
    ASSUME NEW type \in BuiltInTypes, type.name = "mapping", KeepsValues(type.value)
    PROVE  KeepsValues(type)
<1> SUFFICES ASSUME NEW raw \in JsonValues, ~ Failed(coerce(type, raw))
             PROVE  /\ raw[1] \in JsonKinds
                    /\ Canonical(type, raw) \in JsonValues \ {Absent}
                    /\ coerce(type, Canonical(type, raw)) = coerce(type, raw)
                    /\ exact(raw) => Equal(Canonical(type, raw), raw)
  BY DEF KeepsValues
<1> DEFINE value == type.value
<1>1. PICK json : json = Canonical(type, raw)
  OBVIOUS
<1>2. json \in JsonValues \ {Absent}
  BY <1>1, BuiltInsAssumption DEF ValueMethods, Canonical
<1>3. /\ raw[1] = "object"
      /\ \A k \in DOMAIN raw[2] : coerce(type.key, <<"string", k>>) # Refused /\ ~ Failed(coerce(value, raw[2][k]))
      /\ coerce(type, raw) = <<"object", [k \in DOMAIN raw[2] |-> coerce(value, raw[2][k])]>>
      /\ json = <<"object", [k \in DOMAIN raw[2] |-> Canonical(value, raw[2][k])]>>
  BY <1>1, CoerceOfMapping DEF Failed
<1>4. /\ raw = <<"object", raw[2]>> /\ \A k \in DOMAIN raw[2] : raw[2][k] \in JsonValues
      /\ plain(raw) = <<"object", [k \in DOMAIN raw[2] |-> plain(raw[2][k])]>>
      /\ exact(raw) <=> \A k \in DOMAIN raw[2] : exact(raw[2][k])
  BY <1>3, PartsOfObject
<1>5. /\ json[1] = "object" /\ DOMAIN json[2] = DOMAIN raw[2]
      /\ \A k \in DOMAIN raw[2] : json[2][k] = Canonical(value, raw[2][k])
  BY <1>3
<1>6. \A k \in DOMAIN raw[2] :
            /\ coerce(value, json[2][k]) = coerce(value, raw[2][k])
            /\ exact(raw[2][k]) => plain(json[2][k]) = plain(raw[2][k])
  BY <1>3, <1>4, <1>5 DEF KeepsValues, Equal
<1>7. coerce(type, json) = coerce(type, raw)
  <2>1. \A k \in DOMAIN json[2] : coerce(type.key, <<"string", k>>) # Refused /\ ~ Failed(coerce(value, json[2][k]))
    BY <1>3, <1>5, <1>6
  <2>2. coerce(type, json) = <<"object", [k \in DOMAIN json[2] |-> coerce(value, json[2][k])]>>
    BY <1>2, <1>5, <2>1, CoerceOfMapping
  <2>3. [k \in DOMAIN json[2] |-> coerce(value, json[2][k])] = [k \in DOMAIN raw[2] |-> coerce(value, raw[2][k])]
    BY <1>5, <1>6
  <2> QED
    BY <1>3, <2>2, <2>3
<1>8. ASSUME exact(raw) PROVE Equal(json, raw)
  <2>1. plain(json) = <<"object", [k \in DOMAIN json[2] |-> plain(json[2][k])]>>
    BY <1>2, <1>5, PartsOfObject
  <2>2. [k \in DOMAIN json[2] |-> plain(json[2][k])] = [k \in DOMAIN raw[2] |-> plain(raw[2][k])]
    BY <1>4, <1>5, <1>6, <1>8
  <2> QED
    BY <1>4, <2>1, <2>2 DEF Equal
<1> QED
  BY <1>1, <1>2, <1>3, <1>7, <1>8 DEF JsonKinds

\* Types of any depth keep values.
LEMMA TypesKeepValues == \A type \in BuiltInTypes : KeepsValues(type)
<1> DEFINE Good == {type \in BuiltInTypes : KeepsValues(type)}
<1>1. ASSUME NEW type \in BuiltInTypes, PartsOf(type) \subseteq Good PROVE type \in Good
  BY <1>1, PartsOfType, ScalarKeepsValues, ListKeepsValues, MappingKeepsValues
<1>2. Good = BuiltInTypes
  <2> HIDE DEF Good
  <2>1. Good \in SUBSET BuiltInTypes
    BY DEF Good
  <2> QED
    BY <1>1, <2>1, TypeInduction
<1> QED
  BY <1>2

\* What a list type validates: how many items, whether they differ, and each.
LEMMA ValidateOfList ==
    ASSUME NEW type \in BuiltInTypes, type.name = "list", NEW raw \in JsonValues, ~ Failed(coerce(type, raw))
    PROVE  LET items == [i \in DOMAIN raw[2] |-> Canonical(type.item, raw[2][i])]
               verdicts == [i \in DOMAIN raw[2] |-> validate(type.item, coerce(type.item, raw[2][i]))]
           IN  /\ Len(items) = Len(raw[2])
               /\ validate(type, coerce(type, raw)) =
                    IF ~ Between(Len(items), type.min_items, type.max_items) THEN Refused
                    ELSE IF type.unique /\ Unhashable(items) THEN Raised
                    ELSE IF type.unique /\ ~ AllDifferent(items) THEN Refused
                    ELSE FirstFailure(verdicts, Verdict(TRUE))
<1> DEFINE items == [i \in DOMAIN raw[2] |-> Canonical(type.item, raw[2][i])]
           verdicts == [i \in DOMAIN raw[2] |-> validate(type.item, coerce(type.item, raw[2][i]))]
<1>1. /\ raw[1] = "list"
      /\ \A i \in DOMAIN raw[2] : ~ Failed(coerce(type.item, raw[2][i]))
      /\ coerce(type, raw) = <<"list", [i \in DOMAIN raw[2] |-> coerce(type.item, raw[2][i])]>>
  BY CoerceOfList DEF Failed
<1>2. validate(type, coerce(type, raw)) = Validate(type, coerce(type, raw))
  BY BuiltInsAssumption DEF ValueMethods
<1>3. validate(type, coerce(type, raw)) = ValidateList(type, coerce(type, raw))
  BY <1>2 DEF Validate, Scalar, Numeric
<1>4. PICK value : value = coerce(type, raw)
  OBVIOUS
<1>5. DOMAIN value[2] = DOMAIN raw[2] /\ \A i \in DOMAIN raw[2] : value[2][i] = coerce(type.item, raw[2][i])
  BY <1>1, <1>4
<1>6. /\ [i \in DOMAIN value[2] |-> to_json(type.item, value[2][i])] = items
      /\ [i \in DOMAIN items |-> validate(type.item, value[2][i])] = verdicts
  BY <1>5 DEF Canonical
<1>7. validate(type, value) =
            IF ~ Between(Len(items), type.min_items, type.max_items) THEN Refused
            ELSE IF type.unique /\ Unhashable(items) THEN Raised
            ELSE IF type.unique /\ ~ AllDifferent(items) THEN Refused
            ELSE FirstFailure(verdicts, Verdict(TRUE))
  <2> HIDE DEF items, verdicts
  <2> QED
    BY <1>3, <1>4, <1>6 DEF ValidateList
<1>8. Len(items) = Len(raw[2])
  <2>1. DOMAIN raw[2] = 1..Len(raw[2]) /\ Len(raw[2]) \in Nat /\ \A i \in DOMAIN raw[2] : raw[2][i] \in JsonValues
    BY <1>1, PartsOfList
  <2>2. type.item \in BuiltInTypes /\ KeepsValues(type.item)
    BY PartsOfType, TypesKeepValues
  <2>3. \A i \in 1..Len(raw[2]) : items[i] \in JsonValues
    BY <1>1, <2>1, <2>2 DEF KeepsValues
  <2>4. items \in [1..Len(raw[2]) -> JsonValues]
    BY <2>1, <2>3
  <2> HIDE DEF items
  <2>5. items \in Seq(JsonValues)
    BY <2>1, <2>4, SeqDef
  <2> QED
    BY <2>1, <2>4, <2>5
<1> QED
  BY <1>4, <1>7, <1>8

\* What a mapping type validates: how many entries, and each key and value.
LEMMA ValidateOfMapping ==
    ASSUME NEW type \in BuiltInTypes, type.name = "mapping", NEW raw \in JsonValues, ~ Failed(coerce(type, raw))
    PROVE  /\ \A k \in DOMAIN raw[2] : coerce(type.key, <<"string", k>>) = <<"string", k>>
           /\ validate(type, coerce(type, raw)) =
                IF ~ Between(Cardinality(DOMAIN raw[2]), type.min_entries, type.max_entries) THEN Refused
                ELSE SomeFailure(UNION {{validate(type.key, <<"string", k>>),
                                         validate(type.value, coerce(type.value, raw[2][k]))} :
                                            k \in DOMAIN raw[2]}, Verdict(TRUE))
<1>1. /\ raw[1] = "object"
      /\ \A k \in DOMAIN raw[2] :
            coerce(type.key, <<"string", k>>) # Refused /\ ~ Failed(coerce(type.value, raw[2][k]))
      /\ coerce(type, raw) = <<"object", [k \in DOMAIN raw[2] |-> coerce(type.value, raw[2][k])]>>
  BY CoerceOfMapping DEF Failed
<1>2. \A k \in DOMAIN raw[2] : coerce(type.key, <<"string", k>>) = <<"string", k>>
  BY <1>1, PartsOfObject, PartsOfType, StringsStay
<1>3. validate(type, coerce(type, raw)) = Validate(type, coerce(type, raw))
  BY BuiltInsAssumption DEF ValueMethods
<1>4. validate(type, coerce(type, raw)) = ValidateMapping(type, coerce(type, raw))
  BY <1>3 DEF Validate, Scalar, Numeric
<1>5. PICK value : value = coerce(type, raw)
  OBVIOUS
<1>6. DOMAIN value[2] = DOMAIN raw[2] /\ \A k \in DOMAIN raw[2] : value[2][k] = coerce(type.value, raw[2][k])
  BY <1>1, <1>5
<1>7. UNION {{validate(type.key, <<"string", k>>), validate(type.value, value[2][k])} : k \in DOMAIN value[2]}
        = UNION {{validate(type.key, <<"string", k>>), validate(type.value, coerce(type.value, raw[2][k]))} :
                    k \in DOMAIN raw[2]}
  BY <1>6
<1> QED
  BY <1>2, <1>4, <1>5, <1>6, <1>7 DEF ValidateMapping

\* Two types treat every JSON alike.
ActAlike(type, other) ==
    \A raw \in JsonValues :
        /\ coerce(type, raw) = coerce(other, raw)
        /\ ~ Failed(coerce(type, raw)) =>
                /\ Canonical(type, raw) = Canonical(other, raw)
                /\ validate(type, coerce(type, raw)) = validate(other, coerce(other, raw))

\* A description has the name of its type.
LEMMA DescribedByName ==
    ASSUME NEW type \in BuiltInTypes, NEW other \in BuiltInTypes, describe(type) = describe(other)
    PROVE  type.name = other.name
<1>1. ASSUME NEW t \in BuiltInTypes PROVE describe(t).name = t.name
  <2>1. describe(t) = Describe(t)
    BY BuiltInsAssumption DEF TypeMethods
  <2> QED
    BY <2>1, PartsOfType DEF Describe, DescribeScalar, Scalar, Numeric
<1> QED
  BY <1>1

LEMMA ScalarsActAlike ==
    ASSUME NEW type \in BuiltInTypes, NEW other \in BuiltInTypes, describe(type) = describe(other),
           type.name \in Scalar
    PROVE  ActAlike(type, other)
<1>1. type.name = other.name
  BY DescribedByName
<1>2. DescribeScalar(type) = DescribeScalar(other)
  BY <1>1, BuiltInsAssumption DEF TypeMethods, Describe, Scalar, Numeric
<1>3. ASSUME NEW raw \in JsonValues
      PROVE  /\ coerce(type, raw) = coerce(other, raw)
             /\ ~ Failed(coerce(type, raw)) =>
                    /\ Canonical(type, raw) = Canonical(other, raw)
                    /\ validate(type, coerce(type, raw)) = validate(other, coerce(other, raw))
  <2>1. /\ CoerceScalar(type, raw) = CoerceScalar(other, raw)
        /\ ValidateScalar(type, CoerceScalar(type, raw)) = ValidateScalar(other, CoerceScalar(other, raw))
        /\ ScalarToJson(type, CoerceScalar(type, raw)) = ScalarToJson(other, CoerceScalar(other, raw))
    BY <1>1, <1>2, DescriptionTellsApart
  <2>2. ASSUME NEW t \in {type, other}
        PROVE  /\ coerce(t, raw) = CoerceScalar(t, raw)
               /\ ~ Failed(coerce(t, raw)) =>
                    /\ Canonical(t, raw) = ScalarToJson(t, CoerceScalar(t, raw))
                    /\ validate(t, coerce(t, raw)) = ValidateScalar(t, CoerceScalar(t, raw))
    <3>1. t \in BuiltInTypes /\ t.name \in Scalar
      BY <1>1
    <3>2. coerce(t, raw) = CoerceScalar(t, raw)
      BY <3>1, MethodsOfScalar
    <3>3. ASSUME ~ Failed(coerce(t, raw)) PROVE validate(t, coerce(t, raw)) = ValidateScalar(t, coerce(t, raw))
      BY <3>1, <3>3, BuiltInsAssumption DEF ValueMethods, Validate, Scalar, Numeric
    <3> QED
      BY <3>1, <3>2, <3>3, MethodsOfScalar
  <2> QED
    BY <2>1, <2>2
<1> QED
  BY <1>3 DEF ActAlike

LEMMA ListsActAlike ==
    ASSUME NEW type \in BuiltInTypes, NEW other \in BuiltInTypes, describe(type) = describe(other),
           type.name = "list",
           \A part \in BuiltInTypes : describe(type.item) = describe(part) => ActAlike(type.item, part)
    PROVE  ActAlike(type, other)
<1>1. other.name = "list" /\ type.item \in BuiltInTypes /\ other.item \in BuiltInTypes
  BY DescribedByName, PartsOfType
<1>2. ASSUME NEW t \in {type, other}
      PROVE  describe(t).params = [item |-> describe(t.item), min_items |-> t.min_items,
                                   max_items |-> t.max_items, unique |-> t.unique]
  <2>1. describe(t) = Describe(t) /\ t.name = "list"
    BY <1>1, BuiltInsAssumption DEF TypeMethods
  <2> QED
    BY <2>1 DEF Describe, Scalar, Numeric
<1>3. /\ describe(type.item) = describe(other.item) /\ type.min_items = other.min_items
      /\ type.max_items = other.max_items /\ type.unique = other.unique
  BY <1>2
<1>4. ActAlike(type.item, other.item)
  BY <1>1, <1>3
<1>5. ASSUME NEW raw \in JsonValues
      PROVE  /\ coerce(type, raw) = coerce(other, raw)
             /\ ~ Failed(coerce(type, raw)) =>
                    /\ Canonical(type, raw) = Canonical(other, raw)
                    /\ validate(type, coerce(type, raw)) = validate(other, coerce(other, raw))
  <2>1. coerce(type, raw) = coerce(other, raw)
    <3>1. /\ coerce(type, raw) = IF raw[1] = "list" THEN CoerceList(type, raw) ELSE Refused
          /\ coerce(other, raw) = IF raw[1] = "list" THEN CoerceList(other, raw) ELSE Refused
      BY <1>1, BuiltInsAssumption DEF ValueMethods, Coerce, Scalar, Numeric
    <3>2. ASSUME raw[1] = "list"
          PROVE  [i \in DOMAIN raw[2] |-> coerce(type.item, raw[2][i])]
                    = [i \in DOMAIN raw[2] |-> coerce(other.item, raw[2][i])]
      BY <1>4, <3>2, PartsOfList DEF ActAlike
    <3>3. raw[1] = "list" => CoerceList(type, raw) = CoerceList(other, raw)
      BY <3>2 DEF CoerceList
    <3> QED
      BY <3>1, <3>3
  <2>2. ASSUME ~ Failed(coerce(type, raw))
        PROVE  /\ Canonical(type, raw) = Canonical(other, raw)
               /\ validate(type, coerce(type, raw)) = validate(other, coerce(other, raw))
    <3>1. /\ raw[1] = "list"
          /\ \A i \in DOMAIN raw[2] : ~ Failed(coerce(type.item, raw[2][i]))
          /\ Canonical(type, raw) = <<"list", [i \in DOMAIN raw[2] |-> Canonical(type.item, raw[2][i])]>>
      BY <2>2, CoerceOfList DEF Failed
    <3>2. Canonical(other, raw) = <<"list", [i \in DOMAIN raw[2] |-> Canonical(other.item, raw[2][i])]>>
      BY <1>1, <2>1, <2>2, CoerceOfList DEF Failed
    <3>3. \A i \in DOMAIN raw[2] :
                /\ Canonical(type.item, raw[2][i]) = Canonical(other.item, raw[2][i])
                /\ validate(type.item, coerce(type.item, raw[2][i])) = validate(other.item, coerce(other.item, raw[2][i]))
      BY <1>4, <3>1, PartsOfList DEF ActAlike
    <3>4. PICK items, others, verdicts, verdicts2 :
            /\ items = [i \in DOMAIN raw[2] |-> Canonical(type.item, raw[2][i])]
            /\ others = [i \in DOMAIN raw[2] |-> Canonical(other.item, raw[2][i])]
            /\ verdicts = [i \in DOMAIN raw[2] |-> validate(type.item, coerce(type.item, raw[2][i]))]
            /\ verdicts2 = [i \in DOMAIN raw[2] |-> validate(other.item, coerce(other.item, raw[2][i]))]
      OBVIOUS
    <3>5. items = others /\ verdicts = verdicts2
      BY <3>3, <3>4
    <3>6. validate(type, coerce(type, raw)) =
                IF ~ Between(Len(items), type.min_items, type.max_items) THEN Refused
                ELSE IF type.unique /\ Unhashable(items) THEN Raised
                ELSE IF type.unique /\ ~ AllDifferent(items) THEN Refused
                ELSE FirstFailure(verdicts, Verdict(TRUE))
      BY <2>2, <3>4, ValidateOfList
    <3>7. validate(other, coerce(other, raw)) =
                IF ~ Between(Len(others), other.min_items, other.max_items) THEN Refused
                ELSE IF other.unique /\ Unhashable(others) THEN Raised
                ELSE IF other.unique /\ ~ AllDifferent(others) THEN Refused
                ELSE FirstFailure(verdicts2, Verdict(TRUE))
      BY <1>1, <2>1, <2>2, <3>4, ValidateOfList
    <3>8. validate(type, coerce(type, raw)) = validate(other, coerce(other, raw))
      BY <1>3, <3>5, <3>6, <3>7
    <3> QED
      BY <3>1, <3>2, <3>4, <3>5, <3>8
  <2> QED
    BY <2>1, <2>2
<1> QED
  BY <1>5 DEF ActAlike

LEMMA MappingsActAlike ==
    ASSUME NEW type \in BuiltInTypes, NEW other \in BuiltInTypes, describe(type) = describe(other),
           type.name = "mapping",
           \A part \in BuiltInTypes : describe(type.key) = describe(part) => ActAlike(type.key, part),
           \A part \in BuiltInTypes : describe(type.value) = describe(part) => ActAlike(type.value, part)
    PROVE  ActAlike(type, other)
<1>1. /\ other.name = "mapping" /\ {type.key, type.value, other.key, other.value} \subseteq BuiltInTypes
  BY DescribedByName, PartsOfType
<1>2. ASSUME NEW t \in {type, other}
      PROVE  describe(t).params = [key |-> describe(t.key), value |-> describe(t.value),
                                   min_entries |-> t.min_entries, max_entries |-> t.max_entries]
  <2>1. describe(t) = Describe(t) /\ t.name = "mapping"
    BY <1>1, BuiltInsAssumption DEF TypeMethods
  <2> QED
    BY <2>1 DEF Describe, Scalar, Numeric
<1>3. /\ describe(type.key) = describe(other.key) /\ describe(type.value) = describe(other.value)
      /\ type.min_entries = other.min_entries /\ type.max_entries = other.max_entries
  BY <1>2
<1>4. ActAlike(type.key, other.key) /\ ActAlike(type.value, other.value)
  BY <1>1, <1>3
<1>5. ASSUME NEW raw \in JsonValues
      PROVE  /\ coerce(type, raw) = coerce(other, raw)
             /\ ~ Failed(coerce(type, raw)) =>
                    /\ Canonical(type, raw) = Canonical(other, raw)
                    /\ validate(type, coerce(type, raw)) = validate(other, coerce(other, raw))
  <2>1. coerce(type, raw) = coerce(other, raw)
    <3>1. /\ coerce(type, raw) = IF raw[1] = "object" THEN CoerceMapping(type, raw) ELSE Refused
          /\ coerce(other, raw) = IF raw[1] = "object" THEN CoerceMapping(other, raw) ELSE Refused
      BY <1>1, BuiltInsAssumption DEF ValueMethods, Coerce, Scalar, Numeric
    <3>2. ASSUME raw[1] = "object"
          PROVE  \A k \in DOMAIN raw[2] : /\ coerce(type.key, <<"string", k>>) = coerce(other.key, <<"string", k>>)
                                          /\ coerce(type.value, raw[2][k]) = coerce(other.value, raw[2][k])
      BY <1>4, <3>2, PartsOfObject DEF ActAlike
    <3>3. PICK entries, others : /\ entries = [k \in DOMAIN raw[2] |-> coerce(type.value, raw[2][k])]
                                 /\ others = [k \in DOMAIN raw[2] |-> coerce(other.value, raw[2][k])]
      OBVIOUS
    <3>4. raw[1] = "object" => entries = others
      BY <3>2, <3>3
    <3>5. ASSUME raw[1] = "object" PROVE CoerceMapping(type, raw) = CoerceMapping(other, raw)
      <4>1. (\E k \in DOMAIN raw[2] : coerce(type.key, <<"string", k>>) = Refused)
              <=> (\E k \in DOMAIN raw[2] : coerce(other.key, <<"string", k>>) = Refused)
        BY <3>2, <3>5
      <4>2. CoerceMapping(type, raw) =
                IF \E k \in DOMAIN raw[2] : coerce(type.key, <<"string", k>>) = Refused THEN Refused
                ELSE SomeFailure({entries[k] : k \in DOMAIN entries}, <<"object", entries>>)
        BY <3>3 DEF CoerceMapping
      <4>3. CoerceMapping(other, raw) =
                IF \E k \in DOMAIN raw[2] : coerce(other.key, <<"string", k>>) = Refused THEN Refused
                ELSE SomeFailure({others[k] : k \in DOMAIN others}, <<"object", others>>)
        BY <3>3 DEF CoerceMapping
      <4> QED
        BY <3>4, <3>5, <4>1, <4>2, <4>3
    <3> QED
      BY <3>1, <3>5
  <2>2. ASSUME ~ Failed(coerce(type, raw))
        PROVE  /\ Canonical(type, raw) = Canonical(other, raw)
               /\ validate(type, coerce(type, raw)) = validate(other, coerce(other, raw))
    <3>1. /\ raw[1] = "object"
          /\ \A k \in DOMAIN raw[2] : ~ Failed(coerce(type.value, raw[2][k]))
          /\ Canonical(type, raw) = <<"object", [k \in DOMAIN raw[2] |-> Canonical(type.value, raw[2][k])]>>
      BY <2>2, CoerceOfMapping DEF Failed
    <3>2. Canonical(other, raw) = <<"object", [k \in DOMAIN raw[2] |-> Canonical(other.value, raw[2][k])]>>
      BY <1>1, <2>1, <2>2, CoerceOfMapping DEF Failed
    <3>3. /\ \A k \in DOMAIN raw[2] : coerce(type.key, <<"string", k>>) = <<"string", k>>
          /\ \A k \in DOMAIN raw[2] : coerce(other.key, <<"string", k>>) = <<"string", k>>
      BY <1>1, <2>1, <2>2, ValidateOfMapping
    <3>4. \A k \in DOMAIN raw[2] : ~ Failed(<<"string", k>>)
      BY DEF Failed, Refused, Raised
    <3>5. \A k \in DOMAIN raw[2] :
                /\ Canonical(type.value, raw[2][k]) = Canonical(other.value, raw[2][k])
                /\ validate(type.key, <<"string", k>>) = validate(other.key, <<"string", k>>)
                /\ validate(type.value, coerce(type.value, raw[2][k]))
                        = validate(other.value, coerce(other.value, raw[2][k]))
      <4> TAKE k \in DOMAIN raw[2]
      <4>1. raw[2][k] \in JsonValues /\ <<"string", k>> \in JsonValues
        BY <3>1, PartsOfObject
      <4>2. ~ Failed(coerce(type.key, <<"string", k>>))
        BY <3>3, <3>4
      <4>3. validate(type.key, coerce(type.key, <<"string", k>>)) = validate(other.key, coerce(other.key, <<"string", k>>))
        BY <1>4, <4>1, <4>2 DEF ActAlike
      <4>4. validate(type.key, <<"string", k>>) = validate(other.key, <<"string", k>>)
        BY <3>3, <4>3
      <4> QED
        BY <1>4, <3>1, <4>1, <4>4 DEF ActAlike
    <3>6. UNION {{validate(type.key, <<"string", k>>), validate(type.value, coerce(type.value, raw[2][k]))} :
                    k \in DOMAIN raw[2]}
            = UNION {{validate(other.key, <<"string", k>>), validate(other.value, coerce(other.value, raw[2][k]))} :
                    k \in DOMAIN raw[2]}
      BY <3>5
    <3>7. validate(type, coerce(type, raw)) = validate(other, coerce(other, raw))
      <4>1. PICK verdicts : verdicts = UNION {{validate(type.key, <<"string", k>>),
                                validate(type.value, coerce(type.value, raw[2][k]))} : k \in DOMAIN raw[2]}
        OBVIOUS
      <4>2. validate(type, coerce(type, raw)) =
                IF ~ Between(Cardinality(DOMAIN raw[2]), type.min_entries, type.max_entries) THEN Refused
                ELSE SomeFailure(verdicts, Verdict(TRUE))
        BY <2>2, <4>1, ValidateOfMapping
      <4>3. validate(other, coerce(other, raw)) =
                IF ~ Between(Cardinality(DOMAIN raw[2]), other.min_entries, other.max_entries) THEN Refused
                ELSE SomeFailure(verdicts, Verdict(TRUE))
        BY <1>1, <2>1, <2>2, <3>6, <4>1, ValidateOfMapping
      <4> QED
        BY <1>3, <4>2, <4>3
    <3> QED
      BY <3>1, <3>2, <3>5, <3>7
  <2> QED
    BY <2>1, <2>2
<1> QED
  BY <1>5 DEF ActAlike

\* Types of any depth with one description treat every JSON alike: the hash of a
\* catalogue, which holds descriptions, tells all others apart (catalogue.py:191).
THEOREM DescriptionsTellApart ==
    \A type, other \in BuiltInTypes : describe(type) = describe(other) => ActAlike(type, other)
<1> DEFINE Good == {type \in BuiltInTypes :
                        \A other \in BuiltInTypes : describe(type) = describe(other) => ActAlike(type, other)}
<1>1. ASSUME NEW type \in BuiltInTypes, PartsOf(type) \subseteq Good PROVE type \in Good
  <2>1. CASE type.name \in Scalar
    BY <2>1, ScalarsActAlike
  <2>2. CASE type.name = "list"
    <3>1. \A part \in BuiltInTypes : describe(type.item) = describe(part) => ActAlike(type.item, part)
      BY <1>1, <2>2, PartsOfType
    <3> QED
      BY <2>2, <3>1, ListsActAlike
  <2>3. CASE type.name = "mapping"
    <3>1. /\ \A part \in BuiltInTypes : describe(type.key) = describe(part) => ActAlike(type.key, part)
          /\ \A part \in BuiltInTypes : describe(type.value) = describe(part) => ActAlike(type.value, part)
      BY <1>1, <2>3, PartsOfType
    <3> QED
      BY <2>3, <3>1, MappingsActAlike
  <2> QED
    BY <2>1, <2>2, <2>3, PartsOfType
<1>2. Good = BuiltInTypes
  <2> HIDE DEF Good
  <2>1. Good \in SUBSET BuiltInTypes
    BY DEF Good
  <2> QED
    BY <1>1, <2>1, TypeInduction
<1> QED
  BY <1>2

\* How checking a value ends.
LEMMA EndOfCheck ==
    ASSUME NEW type, NEW raw
    PROVE  /\ ~ Failed(Checked(type, raw)) <=> ~ Failed(coerce(type, raw)) /\ ~ Failed(validate(type, coerce(type, raw)))
           /\ Checked(type, raw) = Refused <=>
                \/ coerce(type, raw) = Refused
                \/ ~ Failed(coerce(type, raw)) /\ validate(type, coerce(type, raw)) = Refused
BY DEF Checked, Failed

\* A client that checks JSON with the schema of a type finds what the server
\* finds, but for numbers that a float rounds, for 1.0 and for errors of Python.
ExactSchema(type) ==
    \A raw \in JsonValues : exact(raw) =>
        /\ ~ Failed(Checked(type, raw)) => admits(type, raw)
        /\ ~ whole(raw) /\ Checked(type, raw) = Refused => ~ admits(type, raw)

LEMMA ScalarSchemaIsExact ==
    ASSUME NEW type \in BuiltInTypes, type.name \in Scalar
    PROVE  ExactSchema(type)
<1> SUFFICES ASSUME NEW raw \in JsonValues, exact(raw)
             PROVE  /\ ~ Failed(Checked(type, raw)) => admits(type, raw)
                    /\ ~ whole(raw) /\ Checked(type, raw) = Refused => ~ admits(type, raw)
  BY DEF ExactSchema
<1>1. IsValue(raw)
  BY BuiltInsAssumption DEF ValuesHaveParts
<1>2. ExactScalar(raw) /\ (~ whole(raw) => ~ WholeScalar(raw))
  <2>1. CASE raw[1] \in {"list", "object"}
    BY <2>1 DEF ExactScalar, WholeScalar
  <2>2. CASE raw[1] \notin {"list", "object"}
    BY <2>2, ValueOfScalar
  <2> QED
    BY <2>1, <2>2
<1>3. /\ ~ Failed(CheckedScalar(type, raw)) => AdmitsScalar(type, raw)
      /\ ~ WholeScalar(raw) /\ AdmitsScalar(type, raw) => ~ Failed(CheckedScalar(type, raw))
  BY <1>1, <1>2, ScalarSchemasAreExact
<1>4. Checked(type, raw) = CheckedScalar(type, raw) /\ (admits(type, raw) => AdmitsScalar(type, raw))
  BY MethodsOfScalar
<1>5. ASSUME ~ Failed(Checked(type, raw)) PROVE admits(type, raw)
  <2>1. CoerceScalar(type, raw) # Refused
    BY <1>5, EndOfCheck, MethodsOfScalar DEF Failed
  <2>2. raw[1] \in KindsOf(type)
    BY <2>1 DEF CoerceScalar
  <2>3. raw[1] \notin {"list", "object"}
    BY <2>2 DEF KindsOf, Scalar, Numeric
  <2> QED
    BY <1>3, <1>4, <1>5, <2>3, MethodsOfScalar
<1> QED
  BY <1>2, <1>3, <1>4, <1>5 DEF Failed

\* What the schema of a list type says.
LEMMA SchemaOfList ==
    ASSUME NEW type \in BuiltInTypes, type.name = "list"
    PROVE  LET schema == json_schema(type)
           IN  /\ schema["type"] = "array" /\ schema["items"] = json_schema(type.item)
               /\ Given(schema, "minItems") = type.min_items /\ Given(schema, "maxItems") = type.max_items
               /\ "uniqueItems" \in DOMAIN schema <=> type.unique
<1> DEFINE parameters == [type |-> "array", items |-> json_schema(type.item),
                          minItems |-> type.min_items, maxItems |-> type.max_items,
                          uniqueItems |-> IF type.unique THEN TRUE ELSE None]
<1>1. json_schema(type) = JsonSchema(type) /\ json_schema(type.item) # None
  BY PartsOfType, BuiltInsAssumption DEF TypeMethods
<1>2. json_schema(type) = Keywords(parameters)
  BY <1>1 DEF JsonSchema, ListSchema, Scalar, Numeric
<1>3. /\ DOMAIN parameters = {"type", "items", "minItems", "maxItems", "uniqueItems"}
      /\ parameters["type"] = "array" /\ parameters["items"] = json_schema(type.item)
      /\ parameters["minItems"] = type.min_items /\ parameters["maxItems"] = type.max_items
      /\ parameters["uniqueItems"] = IF type.unique THEN TRUE ELSE None
  OBVIOUS
<1> HIDE DEF parameters
<1>4. parameters["uniqueItems"] # None <=> type.unique
  BY <1>3, TypesAssumption
<1>5. parameters["type"] # None /\ parameters["items"] # None
  BY <1>1, <1>3, TypesAssumption
<1>6. "uniqueItems" \in DOMAIN json_schema(type) <=> type.unique
  BY <1>2, <1>3, <1>4, KeywordsGiven
<1>7. /\ json_schema(type)["type"] = "array" /\ json_schema(type)["items"] = json_schema(type.item)
      /\ Given(json_schema(type), "minItems") = type.min_items
      /\ Given(json_schema(type), "maxItems") = type.max_items
  BY <1>2, <1>3, <1>5, KeywordsGiven
<1> QED
  BY <1>6, <1>7

\* What the schema of a mapping type says.
LEMMA SchemaOfMapping ==
    ASSUME NEW type \in BuiltInTypes, type.name = "mapping"
    PROVE  LET schema == json_schema(type)
           IN  /\ schema["type"] = "object"
               /\ schema["propertyNames"] = json_schema(type.key)
               /\ schema["additionalProperties"] = json_schema(type.value)
               /\ Given(schema, "minProperties") = type.min_entries
               /\ Given(schema, "maxProperties") = type.max_entries
<1> DEFINE parameters == [type |-> "object", propertyNames |-> json_schema(type.key),
                          additionalProperties |-> json_schema(type.value),
                          minProperties |-> type.min_entries, maxProperties |-> type.max_entries]
<1>1. /\ json_schema(type) = JsonSchema(type)
      /\ json_schema(type.key) # None /\ json_schema(type.value) # None
  BY PartsOfType, BuiltInsAssumption DEF TypeMethods
<1>2. json_schema(type) = Keywords(parameters)
  BY <1>1 DEF JsonSchema, MappingSchema, Scalar, Numeric
<1>3. /\ DOMAIN parameters = {"type", "propertyNames", "additionalProperties", "minProperties", "maxProperties"}
      /\ parameters["type"] = "object" /\ parameters["propertyNames"] = json_schema(type.key)
      /\ parameters["additionalProperties"] = json_schema(type.value)
      /\ parameters["minProperties"] = type.min_entries /\ parameters["maxProperties"] = type.max_entries
  OBVIOUS
<1> HIDE DEF parameters
<1>4. parameters["type"] # None /\ parameters["propertyNames"] # None /\ parameters["additionalProperties"] # None
  BY <1>1, <1>3, TypesAssumption
<1> QED
  BY <1>2, <1>3, <1>4, KeywordsGiven

\* What a client finds of a list, in the terms of the type.
LEMMA AdmitsList ==
    ASSUME NEW type \in BuiltInTypes, type.name = "list", NEW raw \in JsonValues
    PROVE  admits(type, raw) <=>
            /\ raw[1] = "list"
            /\ Between(Len(raw[2]), type.min_items, type.max_items)
            /\ \A i \in DOMAIN raw[2] : admits(type.item, raw[2][i])
            /\ type.unique => \A i, j \in DOMAIN raw[2] : i # j => json_value(raw[2][i]) # json_value(raw[2][j])
<1>1. PICK schema : schema = json_schema(type)
  OBVIOUS
<1>2. admits(type, raw) <=> Satisfies(schema, raw)
  BY <1>1, BuiltInsAssumption DEF Clients, Admits
<1>3. /\ schema["type"] = "array" /\ schema["items"] = json_schema(type.item)
      /\ Given(schema, "minItems") = type.min_items /\ Given(schema, "maxItems") = type.max_items
      /\ "uniqueItems" \in DOMAIN schema <=> type.unique
  BY <1>1, SchemaOfList
<1>4. "array" \in Kind(raw) <=> raw[1] = "list"
  <2>1. IsValue(raw)
    BY BuiltInsAssumption DEF ValuesHaveParts
  <2> QED
    BY <2>1 DEF Kind, IsValue, JsonKinds
<1>5. SatisfiesScalar(schema, raw) <=> raw[1] = "list"
  BY <1>3, <1>4 DEF SatisfiesScalar
<1>6. raw[1] = "list" =>
        \A i \in DOMAIN raw[2] : admits(type.item, raw[2][i]) <=> satisfies(json_schema(type.item), raw[2][i])
  BY PartsOfType, PartsOfList, BuiltInsAssumption DEF Clients, Admits
<1> QED
  BY <1>2, <1>3, <1>5, <1>6 DEF Satisfies

\* What a client finds of an object, in the terms of the type.
LEMMA AdmitsMapping ==
    ASSUME NEW type \in BuiltInTypes, type.name = "mapping", NEW raw \in JsonValues
    PROVE  admits(type, raw) <=>
            /\ raw[1] = "object"
            /\ Between(Cardinality(DOMAIN raw[2]), type.min_entries, type.max_entries)
            /\ \A k \in DOMAIN raw[2] : admits(type.key, <<"string", k>>) /\ admits(type.value, raw[2][k])
<1>1. PICK schema : schema = json_schema(type)
  OBVIOUS
<1>2. admits(type, raw) <=> Satisfies(schema, raw)
  BY <1>1, BuiltInsAssumption DEF Clients, Admits
<1>3. /\ schema["type"] = "object" /\ schema["propertyNames"] = json_schema(type.key)
      /\ schema["additionalProperties"] = json_schema(type.value)
      /\ Given(schema, "minProperties") = type.min_entries /\ Given(schema, "maxProperties") = type.max_entries
  BY <1>1, SchemaOfMapping
<1>4. "object" \in Kind(raw) <=> raw[1] = "object"
  <2>1. IsValue(raw)
    BY BuiltInsAssumption DEF ValuesHaveParts
  <2> QED
    BY <2>1 DEF Kind, IsValue, JsonKinds
<1>5. SatisfiesScalar(schema, raw) <=> raw[1] = "object"
  BY <1>3, <1>4 DEF SatisfiesScalar
<1>6. raw[1] = "object" =>
        \A k \in DOMAIN raw[2] :
            /\ admits(type.key, <<"string", k>>) <=> satisfies(json_schema(type.key), <<"string", k>>)
            /\ admits(type.value, raw[2][k]) <=> satisfies(json_schema(type.value), raw[2][k])
  BY PartsOfType, PartsOfObject, BuiltInsAssumption DEF Clients, Admits
<1> QED
  BY <1>2, <1>3, <1>5, <1>6 DEF Satisfies

\* As many images as there are arguments: each is the image of one.
LEMMA AsManyImages ==
    ASSUME NEW n \in Nat, NEW f, DOMAIN f = 1..n
    PROVE  Cardinality({f[i] : i \in DOMAIN f}) = n <=> \A i, j \in DOMAIN f : i # j => f[i] # f[j]
<1> DEFINE images == {f[i] : i \in 1..n}
           g == [i \in 1..n |-> f[i]]
<1>1. IsFiniteSet(1..n) /\ Cardinality(1..n) = n
  BY FS_Interval
<1>2. g \in Surjection(1..n, images)
  BY DEF Surjection
<1>3. Cardinality(images) = n <=> g \in Injection(1..n, images)
  <2> HIDE DEF g, images
  <2> QED
    BY <1>1, <1>2, FS_Surjection
<1>4. g \in Injection(1..n, images) <=> \A i, j \in 1..n : i # j => f[i] # f[j]
  BY DEF Injection, IsInjective
<1> QED
  BY <1>3, <1>4

\* Values that one type takes differ for Python when they differ for JSON Schema.
LEMMA OneEquality ==
    ASSUME NEW type, type.name \in Scalar, NEW v, NEW w, IsValue(v), IsValue(w),
           v[1] \in KindsOf(type), w[1] \in KindsOf(type)
    PROVE  PlainScalar(v, TRUE) = PlainScalar(w, TRUE) <=> PlainScalar(v, FALSE) = PlainScalar(w, FALSE)
<1>1. CASE type.name = "boolean"
  <2>1. v \in {"bool"} \X BOOLEAN /\ w \in {"bool"} \X BOOLEAN /\ v[1] = "bool" /\ w[1] = "bool"
    BY <1>1 DEF KindsOf, IsValue, Scalar, Numeric
  <2> QED
    BY <2>1 DEF PlainScalar
<1>2. CASE type.name # "boolean"
  <2>1. v[1] # "bool" /\ w[1] # "bool"
    BY <1>2 DEF KindsOf, Scalar, Numeric
  <2> QED
    BY <2>1 DEF PlainScalar
<1> QED
  BY <1>1, <1>2

\* The items of a unique list type are different for the server when they are for
\* a client, unless the server cannot tell.
LEMMA UniqueAlike ==
    ASSUME NEW type \in BuiltInTypes, type.name = "list", NEW raw \in JsonValues, exact(raw),
           ~ Failed(coerce(type, raw)),
           ~ Unhashable([i \in DOMAIN raw[2] |-> Canonical(type.item, raw[2][i])])
    PROVE  AllDifferent([i \in DOMAIN raw[2] |-> Canonical(type.item, raw[2][i])])
                <=> \A i, j \in DOMAIN raw[2] : i # j => json_value(raw[2][i]) # json_value(raw[2][j])
<1> DEFINE item == type.item
<1>1. PICK items : items = [i \in DOMAIN raw[2] |-> Canonical(item, raw[2][i])]
  OBVIOUS
<1>2. /\ raw[1] = "list" /\ DOMAIN items = DOMAIN raw[2]
      /\ \A i \in DOMAIN raw[2] : ~ Failed(coerce(item, raw[2][i])) /\ items[i] = Canonical(item, raw[2][i])
  BY <1>1, CoerceOfList DEF Failed
<1>3. /\ DOMAIN raw[2] = 1..Len(raw[2]) /\ Len(raw[2]) \in Nat
      /\ \A i \in DOMAIN raw[2] : raw[2][i] \in JsonValues /\ exact(raw[2][i])
  BY <1>2, PartsOfList
<1>4. ASSUME NEW i \in DOMAIN raw[2]
      PROVE  /\ item.name \in Scalar /\ IsValue(raw[2][i]) /\ raw[2][i][1] \in KindsOf(item)
             /\ PlainScalar(items[i], TRUE) = PlainScalar(raw[2][i], TRUE)
             /\ json_value(raw[2][i]) = PlainScalar(raw[2][i], FALSE)
  <2>1. item \in BuiltInTypes /\ KeepsValues(item)
    BY PartsOfType, TypesKeepValues
  <2>2. /\ items[i] \in JsonValues /\ plain(items[i]) = plain(raw[2][i])
        /\ ~ Failed(coerce(item, raw[2][i])) /\ ~ Failed(coerce(item, items[i]))
    BY <1>2, <1>3, <2>1 DEF KeepsValues, Equal
  <2>3. items[i][1] \notin {"list", "object"}
    BY <1>1, <1>2 DEF Unhashable
  <2>4. item.name # "list" /\ item.name # "mapping"
    <3>1. ASSUME item.name = "list" PROVE FALSE
      BY <1>2, <1>3, <2>1, <2>2, <2>3, <3>1, CoerceOfList DEF Failed
    <3>2. ASSUME item.name = "mapping" PROVE FALSE
      BY <1>2, <1>3, <2>1, <2>2, <2>3, <3>2, CoerceOfMapping DEF Failed
    <3> QED
      BY <3>1, <3>2
  <2>5. item.name \in Scalar
    BY <2>1, <2>4, PartsOfType
  <2>6. CoerceScalar(item, raw[2][i]) # Refused
    BY <1>3, <2>1, <2>2, <2>5, MethodsOfScalar DEF Failed
  <2>7. raw[2][i][1] \in KindsOf(item)
    BY <2>6 DEF CoerceScalar
  <2>8. raw[2][i][1] \notin {"list", "object"}
    BY <2>5, <2>7 DEF KindsOf, Scalar, Numeric
  <2>9. IsValue(raw[2][i])
    BY <1>3, BuiltInsAssumption DEF ValuesHaveParts
  <2>10. /\ plain(raw[2][i]) = PlainScalar(raw[2][i], TRUE) /\ plain(items[i]) = PlainScalar(items[i], TRUE)
         /\ json_value(raw[2][i]) = PlainScalar(raw[2][i], FALSE)
    BY <1>3, <2>2, <2>3, <2>8, ValueOfScalar
  <2> QED
    BY <2>2, <2>5, <2>7, <2>9, <2>10
<1>5. ASSUME NEW i \in DOMAIN raw[2], NEW j \in DOMAIN raw[2]
      PROVE  PlainScalar(items[i], TRUE) = PlainScalar(items[j], TRUE) <=> json_value(raw[2][i]) = json_value(raw[2][j])
  <2>1. PICK v, w : v = raw[2][i] /\ w = raw[2][j]
    OBVIOUS
  <2>2. /\ item.name \in Scalar /\ IsValue(v) /\ IsValue(w) /\ v[1] \in KindsOf(item) /\ w[1] \in KindsOf(item)
        /\ PlainScalar(items[i], TRUE) = PlainScalar(v, TRUE) /\ PlainScalar(items[j], TRUE) = PlainScalar(w, TRUE)
        /\ json_value(v) = PlainScalar(v, FALSE) /\ json_value(w) = PlainScalar(w, FALSE)
    BY <1>4, <2>1
  <2>3. PlainScalar(v, TRUE) = PlainScalar(w, TRUE) <=> PlainScalar(v, FALSE) = PlainScalar(w, FALSE)
    BY <2>2, OneEquality, ZenonT(30)
  <2> QED
    BY <2>1, <2>2, <2>3
<1>6. PICK f : f = [i \in DOMAIN raw[2] |-> PlainScalar(items[i], TRUE)]
  OBVIOUS
<1>7. {PlainScalar(items[i], TRUE) : i \in DOMAIN items} = {f[i] : i \in DOMAIN f}
  BY <1>2, <1>6
<1>8. Len(items) = Len(raw[2])
  BY <1>1, ValidateOfList
<1>9. AllDifferent(items) <=> Cardinality({f[i] : i \in DOMAIN f}) = Len(raw[2])
  BY <1>7, <1>8 DEF AllDifferent
<1>10. AllDifferent(items) <=> \A i, j \in DOMAIN f : i # j => f[i] # f[j]
  <2>1. DOMAIN f = 1..Len(raw[2])
    BY <1>3, <1>6
  <2> QED
    BY <1>3, <1>9, <2>1, AsManyImages
<1>11. \A i, j \in DOMAIN raw[2] : f[i] = f[j] <=> json_value(raw[2][i]) = json_value(raw[2][j])
  BY <1>5, <1>6
<1>12. DOMAIN f = DOMAIN raw[2]
  BY <1>6
<1>13. AllDifferent(items) <=> \A i, j \in DOMAIN raw[2] : i # j => json_value(raw[2][i]) # json_value(raw[2][j])
  BY <1>10, <1>11, <1>12
<1> QED
  BY <1>1, <1>13

LEMMA ListSchemaIsExact ==
    ASSUME NEW type \in BuiltInTypes, type.name = "list", ExactSchema(type.item)
    PROVE  ExactSchema(type)
<1> SUFFICES ASSUME NEW raw \in JsonValues, exact(raw)
             PROVE  /\ ~ Failed(Checked(type, raw)) => admits(type, raw)
                    /\ ~ whole(raw) /\ Checked(type, raw) = Refused => ~ admits(type, raw)
  BY DEF ExactSchema
<1> DEFINE item == type.item
<1>1. raw[1] = "list" =>
        \A i \in DOMAIN raw[2] :
            /\ raw[2][i] \in JsonValues
            /\ ~ Failed(Checked(item, raw[2][i])) => admits(item, raw[2][i])
            /\ ~ whole(raw) /\ Checked(item, raw[2][i]) = Refused => ~ admits(item, raw[2][i])
  BY PartsOfList DEF ExactSchema
<1>2. PICK items, verdicts :
        /\ items = [i \in DOMAIN raw[2] |-> Canonical(item, raw[2][i])]
        /\ verdicts = [i \in DOMAIN raw[2] |-> validate(item, coerce(item, raw[2][i]))]
  OBVIOUS
<1>3. ASSUME ~ Failed(coerce(type, raw))
      PROVE  /\ raw[1] = "list" /\ \A i \in DOMAIN raw[2] : ~ Failed(coerce(item, raw[2][i]))
             /\ Len(items) = Len(raw[2])
             /\ validate(type, coerce(type, raw)) =
                    IF ~ Between(Len(raw[2]), type.min_items, type.max_items) THEN Refused
                    ELSE IF type.unique /\ Unhashable(items) THEN Raised
                    ELSE IF type.unique /\ ~ AllDifferent(items) THEN Refused
                    ELSE FirstFailure(verdicts, Verdict(TRUE))
             /\ ~ Unhashable(items) =>
                    (AllDifferent(items) <=>
                        \A i, j \in DOMAIN raw[2] : i # j => json_value(raw[2][i]) # json_value(raw[2][j]))
             /\ DOMAIN verdicts = DOMAIN raw[2] /\ DOMAIN verdicts \in SUBSET Nat
             /\ \A i \in DOMAIN raw[2] : verdicts[i] = validate(item, coerce(item, raw[2][i]))
  <2>1. raw[1] = "list" /\ \A i \in DOMAIN raw[2] : ~ Failed(coerce(item, raw[2][i]))
    BY <1>3, CoerceOfList DEF Failed
  <2>2. /\ Len(items) = Len(raw[2])
        /\ validate(type, coerce(type, raw)) =
                    IF ~ Between(Len(items), type.min_items, type.max_items) THEN Refused
                    ELSE IF type.unique /\ Unhashable(items) THEN Raised
                    ELSE IF type.unique /\ ~ AllDifferent(items) THEN Refused
                    ELSE FirstFailure(verdicts, Verdict(TRUE))
    BY <1>2, <1>3, ValidateOfList
  <2>3. ~ Unhashable(items) =>
            (AllDifferent(items) <=>
                \A i, j \in DOMAIN raw[2] : i # j => json_value(raw[2][i]) # json_value(raw[2][j]))
    BY <1>2, <1>3, UniqueAlike
  <2>4. /\ DOMAIN verdicts = DOMAIN raw[2] /\ DOMAIN raw[2] \in SUBSET Nat
        /\ \A i \in DOMAIN raw[2] : verdicts[i] = validate(item, coerce(item, raw[2][i]))
    BY <1>2, <2>1, PartsOfList
  <2> QED
    BY <2>1, <2>2, <2>3, <2>4
<1>4. ~ Failed(Verdict(TRUE)) /\ Refused # Raised
  BY DEF Verdict, Failed, Refused, Raised
<1>5. ASSUME ~ Failed(Checked(type, raw)) PROVE admits(type, raw)
  <2>1. ~ Failed(coerce(type, raw)) /\ ~ Failed(validate(type, coerce(type, raw)))
    BY <1>5, EndOfCheck
  <2>2. /\ Between(Len(raw[2]), type.min_items, type.max_items)
        /\ type.unique => ~ Unhashable(items) /\ AllDifferent(items)
        /\ ~ Failed(FirstFailure(verdicts, Verdict(TRUE)))
    BY <1>3, <2>1 DEF Failed
  <2>3. \A i \in DOMAIN verdicts : ~ Failed(verdicts[i])
    BY <1>3, <2>1, <2>2, NoFailure
  <2>4. \A i \in DOMAIN raw[2] : ~ Failed(Checked(item, raw[2][i]))
    BY <1>3, <2>1, <2>3, EndOfCheck
  <2>5. \A i \in DOMAIN raw[2] : admits(item, raw[2][i])
    BY <1>1, <1>3, <2>1, <2>4
  <2> QED
    BY <1>3, <2>1, <2>2, <2>5, AdmitsList
<1>6. ASSUME ~ whole(raw), Checked(type, raw) = Refused PROVE ~ admits(type, raw)
  <2>1. \/ coerce(type, raw) = Refused
        \/ ~ Failed(coerce(type, raw)) /\ validate(type, coerce(type, raw)) = Refused
    BY <1>6, EndOfCheck
  <2>2. CASE coerce(type, raw) = Refused
    <3>1. \/ raw[1] # "list"
          \/ raw[1] = "list" /\ \E i \in DOMAIN raw[2] : coerce(item, raw[2][i]) = Refused
      BY <2>2, CoerceOfList DEF Failed
    <3>2. ASSUME raw[1] = "list", NEW i \in DOMAIN raw[2], coerce(item, raw[2][i]) = Refused
          PROVE  ~ admits(item, raw[2][i])
      BY <1>1, <1>6, <3>2, EndOfCheck
    <3> QED
      BY <3>1, <3>2, AdmitsList
  <2>3. CASE ~ Failed(coerce(type, raw)) /\ validate(type, coerce(type, raw)) = Refused
    <3>1. CASE ~ Between(Len(raw[2]), type.min_items, type.max_items)
      BY <3>1, AdmitsList
    <3>2. CASE type.unique /\ ~ Unhashable(items) /\ ~ AllDifferent(items)
      BY <1>3, <2>3, <3>2, AdmitsList
    <3>3. CASE FirstFailure(verdicts, Verdict(TRUE)) = Refused
      <4>1. \E i \in DOMAIN verdicts : Failed(verdicts[i])
        BY <1>4, <3>3 DEF FirstFailure, Failed
      <4>2. PICK j \in DOMAIN verdicts : FirstFailure(verdicts, Verdict(TRUE)) = verdicts[j]
        BY <1>3, <2>3, <4>1, FirstFailureIsOne
      <4>3. Checked(item, raw[2][j]) = Refused
        BY <1>3, <2>3, <3>3, <4>2, EndOfCheck
      <4>4. ~ admits(item, raw[2][j])
        BY <1>1, <1>3, <1>6, <2>3, <4>3
      <4> QED
        BY <1>3, <2>3, <4>4, AdmitsList
    <3> QED
      BY <1>3, <1>4, <2>3, <3>1, <3>2, <3>3
  <2> QED
    BY <2>1, <2>2, <2>3
<1> QED
  BY <1>5, <1>6

LEMMA MappingSchemaIsExact ==
    ASSUME NEW type \in BuiltInTypes, type.name = "mapping", ExactSchema(type.key), ExactSchema(type.value)
    PROVE  ExactSchema(type)
<1> SUFFICES ASSUME NEW raw \in JsonValues, exact(raw)
             PROVE  /\ ~ Failed(Checked(type, raw)) => admits(type, raw)
                    /\ ~ whole(raw) /\ Checked(type, raw) = Refused => ~ admits(type, raw)
  BY DEF ExactSchema
<1> DEFINE key == type.key
           value == type.value
<1>1. ASSUME raw[1] = "object", NEW k \in DOMAIN raw[2]
      PROVE  /\ ~ Failed(Checked(key, <<"string", k>>)) => admits(key, <<"string", k>>)
             /\ Checked(key, <<"string", k>>) = Refused => ~ admits(key, <<"string", k>>)
             /\ ~ Failed(Checked(value, raw[2][k])) => admits(value, raw[2][k])
             /\ ~ whole(raw) /\ Checked(value, raw[2][k]) = Refused => ~ admits(value, raw[2][k])
  <2>1. /\ raw[2][k] \in JsonValues /\ exact(raw[2][k]) /\ (~ whole(raw) => ~ whole(raw[2][k]))
        /\ <<"string", k>> \in JsonValues
    BY <1>1, PartsOfObject
  <2>2. exact(<<"string", k>>) /\ ~ whole(<<"string", k>>)
    BY <2>1, ValueOfScalar DEF ExactScalar, WholeScalar
  <2> QED
    BY <2>1, <2>2 DEF ExactSchema
<1>2. PICK verdicts :
        verdicts = UNION {{validate(key, <<"string", k>>), validate(value, coerce(value, raw[2][k]))} :
                            k \in DOMAIN raw[2]}
  OBVIOUS
<1>3. ASSUME ~ Failed(coerce(type, raw))
      PROVE  /\ raw[1] = "object" /\ \A k \in DOMAIN raw[2] : ~ Failed(coerce(value, raw[2][k]))
             /\ \A k \in DOMAIN raw[2] : coerce(key, <<"string", k>>) = <<"string", k>>
             /\ \A k \in DOMAIN raw[2] : ~ Failed(coerce(key, <<"string", k>>))
             /\ validate(type, coerce(type, raw)) =
                    IF ~ Between(Cardinality(DOMAIN raw[2]), type.min_entries, type.max_entries) THEN Refused
                    ELSE SomeFailure(verdicts, Verdict(TRUE))
  <2>1. raw[1] = "object" /\ \A k \in DOMAIN raw[2] : ~ Failed(coerce(value, raw[2][k]))
    BY <1>3, CoerceOfMapping DEF Failed
  <2>2. \A k \in DOMAIN raw[2] : coerce(key, <<"string", k>>) = <<"string", k>>
    BY <1>3, ValidateOfMapping
  <2>3. \A k \in DOMAIN raw[2] : ~ Failed(coerce(key, <<"string", k>>))
    <3>1. \A k : ~ Failed(<<"string", k>>)
      BY DEF Failed, Refused, Raised
    <3> QED
      BY <2>2, <3>1
  <2>4. validate(type, coerce(type, raw)) =
            IF ~ Between(Cardinality(DOMAIN raw[2]), type.min_entries, type.max_entries) THEN Refused
            ELSE SomeFailure(verdicts, Verdict(TRUE))
    BY <1>2, <1>3, ValidateOfMapping
  <2> QED
    BY <2>1, <2>2, <2>3, <2>4
<1>4. ~ Failed(Verdict(TRUE))
  BY DEF Verdict, Failed, Refused, Raised
<1>5. ASSUME ~ Failed(Checked(type, raw)) PROVE admits(type, raw)
  <2>1. ~ Failed(coerce(type, raw)) /\ ~ Failed(validate(type, coerce(type, raw)))
    BY <1>5, EndOfCheck
  <2>2. /\ Between(Cardinality(DOMAIN raw[2]), type.min_entries, type.max_entries)
        /\ ~ Failed(SomeFailure(verdicts, Verdict(TRUE)))
    BY <1>3, <2>1 DEF Failed
  <2>3. \A verdict \in verdicts : ~ Failed(verdict)
    BY <2>2, SomeFailureIsOne
  <2>4. ASSUME NEW k \in DOMAIN raw[2] PROVE admits(key, <<"string", k>>) /\ admits(value, raw[2][k])
    <3>1. validate(key, <<"string", k>>) \in verdicts /\ validate(value, coerce(value, raw[2][k])) \in verdicts
      BY <1>2
    <3>2. ~ Failed(Checked(key, <<"string", k>>)) /\ ~ Failed(Checked(value, raw[2][k]))
      BY <1>3, <2>1, <2>3, <3>1, EndOfCheck
    <3> QED
      BY <1>1, <1>3, <2>1, <3>2
  <2> QED
    BY <1>3, <2>1, <2>2, <2>4, AdmitsMapping
<1>6. ASSUME ~ whole(raw), Checked(type, raw) = Refused PROVE ~ admits(type, raw)
  <2>1. \/ coerce(type, raw) = Refused
        \/ ~ Failed(coerce(type, raw)) /\ validate(type, coerce(type, raw)) = Refused
    BY <1>6, EndOfCheck
  <2>2. CASE coerce(type, raw) = Refused
    <3>1. \/ raw[1] # "object"
          \/ /\ raw[1] = "object"
             /\ \E k \in DOMAIN raw[2] : coerce(key, <<"string", k>>) = Refused \/ coerce(value, raw[2][k]) = Refused
      BY <2>2, CoerceOfMapping DEF Failed
    <3>2. ASSUME raw[1] = "object", NEW k \in DOMAIN raw[2],
                 coerce(key, <<"string", k>>) = Refused \/ coerce(value, raw[2][k]) = Refused
          PROVE  ~ (admits(key, <<"string", k>>) /\ admits(value, raw[2][k]))
      BY <1>1, <1>6, <3>2, EndOfCheck
    <3> QED
      BY <3>1, <3>2, AdmitsMapping
  <2>3. CASE ~ Failed(coerce(type, raw)) /\ validate(type, coerce(type, raw)) = Refused
    <3>1. CASE ~ Between(Cardinality(DOMAIN raw[2]), type.min_entries, type.max_entries)
      BY <3>1, AdmitsMapping
    <3>2. CASE SomeFailure(verdicts, Verdict(TRUE)) = Refused
      <4>1. Refused \in verdicts
        BY <1>4, <3>2, SomeFailureIsOne DEF Failed
      <4>2. PICK k \in DOMAIN raw[2] :
                validate(key, <<"string", k>>) = Refused \/ validate(value, coerce(value, raw[2][k])) = Refused
        BY <1>2, <4>1
      <4>3. Checked(key, <<"string", k>>) = Refused \/ Checked(value, raw[2][k]) = Refused
        BY <1>3, <2>3, <4>2, EndOfCheck
      <4>4. ~ (admits(key, <<"string", k>>) /\ admits(value, raw[2][k]))
        BY <1>1, <1>3, <1>6, <2>3, <4>3
      <4> QED
        BY <1>3, <2>3, <4>4, AdmitsMapping
    <3> QED
      BY <1>3, <2>3, <3>1, <3>2
  <2> QED
    BY <2>1, <2>2, <2>3
<1> QED
  BY <1>5, <1>6

\* The schemas of types of any depth are exact.
THEOREM SchemasAreExact == \A type \in BuiltInTypes : ExactSchema(type)
<1> DEFINE Good == {type \in BuiltInTypes : ExactSchema(type)}
<1>1. ASSUME NEW type \in BuiltInTypes, PartsOf(type) \subseteq Good PROVE type \in Good
  BY <1>1, PartsOfType, ScalarSchemaIsExact, ListSchemaIsExact, MappingSchemaIsExact
<1>2. Good = BuiltInTypes
  <2> HIDE DEF Good
  <2>1. Good \in SUBSET BuiltInTypes
    BY DEF Good
  <2> QED
    BY <1>1, <2>1, TypeInduction
<1> QED
  BY <1>2

\* The built-in types of any depth keep what TypesContract assumes of the types
\* that a catalogue declares (docs/catalogue.md:270-277).
THEOREM BuiltInsKeepContract == KeepContract(BuiltInTypes, JsonValues)
<1>1. ASSUME NEW type \in BuiltInTypes, NEW raw \in JsonValues, ~ Failed(coerce(type, raw))
      PROVE  /\ raw[1] \in JsonKinds
             /\ Canonical(type, raw) \in JsonValues \ {Absent}
             /\ coerce(type, Canonical(type, raw)) = coerce(type, raw)
             /\ exact(raw) => Equal(Canonical(type, raw), raw)
             /\ exact(raw) /\ ~ Failed(Checked(type, raw)) => admits(type, raw)
             /\ type.name \in {"integer", "float"} => coerce(type, raw) \in {"int", "float"} \X Int
  <2>1. KeepsValues(type) /\ ExactSchema(type)
    BY TypesKeepValues, SchemasAreExact
  <2> QED
    BY <1>1, <2>1 DEF KeepsValues, ExactSchema
<1>2. ASSUME NEW type \in BuiltInTypes, NEW other \in BuiltInTypes, describe(type) = describe(other),
             NEW raw \in JsonValues
      PROVE  /\ coerce(type, raw) = coerce(other, raw) /\ Checked(type, raw) = Checked(other, raw)
             /\ ~ Failed(coerce(type, raw)) => Canonical(type, raw) = Canonical(other, raw)
  <2>1. ActAlike(type, other)
    BY <1>2, DescriptionsTellApart
  <2> QED
    BY <2>1 DEF ActAlike, Checked
<1> QED
  BY <1>1, <1>2 DEF KeepContract

\* Whichever releases come, of built-in types, what a client may check with the
\* schema of a key is what the server checks (types.py:30, types.py:76).
THEOREM SchemasAreAlwaysExact == Spec => []SchemaIsExact
<1>1. IInv => SchemaIsExact
  <2> SUFFICES ASSUME IInv PROVE SchemaIsExact
    OBVIOUS
  <2>1. code \in Releases /\ Builds(Declared[code])
    BY DEF IInv
  <2>2. ASSUME NEW key \in KeysOf(Declared[code]), NEW raw \in Raws[code]
        PROVE  LET type == TunableOf(Declared[code], key).type
                   checked == Checked(type, raw)
               IN  exact(raw) /\ ~ whole(raw) /\ checked # Raised => (admits(type, raw) <=> ~ Failed(checked))
    <3>1. PICK type \in DeclaredTypes : type = TunableOf(Declared[code], key).type
      BY <2>1, TunableIsSound
    <3>2. type \in BuiltInTypes /\ raw \in JsonValues
      BY <2>1, BuiltInsAssumption, DeclaredAssumption DEF TypesHaveParts, ValuesHaveParts
    <3>3. ExactSchema(type)
      BY <3>2, SchemasAreExact
    <3> QED
      BY <3>1, <3>2, <3>3 DEF ExactSchema, Failed
  <2> QED
    BY <2>1, <2>2 DEF SchemaIsExact, ExactSchemas
<1> QED
  BY <1>1, StoredStaysAccepted, PTL

---------------------------------------------------------------------------
(* When a call ends in an error that is no answer.  There are two ways    *)
(* that it can; no other value and no other type makes it.                 *)

\* No list with unique items has items that are lists or objects.
FlatSets == \A type \in BuiltInTypes : type.name = "list" /\ type.unique => type.item.name \in Scalar

\* No int is too large for a float.
NoLargeInts == \A raw \in JsonValues : raw[1] = "int" => raw[2] \in -Largest..Largest

\* Every call of the methods of a type returns, or refuses.
Answers(type) ==
    \A raw \in JsonValues :
        /\ coerce(type, raw) # Raised
        /\ ~ Failed(coerce(type, raw)) => validate(type, coerce(type, raw)) # Raised

LEMMA VerdictOfScalar ==
    ASSUME NEW type, type.name \in Scalar, NEW value
    PROVE  \E ok \in BOOLEAN : ValidateScalar(type, value) = Verdict(ok)
<1>1. \A ok : Verdict(ok) \in {Verdict(TRUE), Verdict(FALSE)}
  BY DEF Verdict
<1> QED
  BY <1>1 DEF ValidateScalar

LEMMA ScalarAnswers ==
    ASSUME NoLargeInts, NEW type \in BuiltInTypes, type.name \in Scalar
    PROVE  Answers(type)
<1> SUFFICES ASSUME NEW raw \in JsonValues
             PROVE  /\ coerce(type, raw) # Raised
                    /\ ~ Failed(coerce(type, raw)) => validate(type, coerce(type, raw)) # Raised
  BY DEF Answers
<1>1. IsValue(raw) /\ coerce(type, raw) = CoerceScalar(type, raw)
  BY MethodsOfScalar, BuiltInsAssumption DEF ValuesHaveParts
<1>2. ASSUME raw[1] \in KindsOf(type), type.name = "float" PROVE ToFloat(raw) # Raised
  <2>1. raw \in {"int", "float"} \X Int /\ (raw[1] = "int" => raw[2] \in -Largest..Largest)
    BY <1>1, <1>2 DEF KindsOf, IsValue, NoLargeInts
  <2> QED
    BY <2>1 DEF ToFloat, Raised
<1>3. ASSUME raw[1] \in KindsOf(type) PROVE raw # Raised
  BY <1>3 DEF KindsOf, Raised, Scalar, Numeric
<1>4. coerce(type, raw) # Raised
  BY <1>1, <1>2, <1>3 DEF CoerceScalar, Refused, Raised
<1>5. ASSUME ~ Failed(coerce(type, raw)) PROVE validate(type, coerce(type, raw)) # Raised
  <2>1. validate(type, coerce(type, raw)) = ValidateScalar(type, coerce(type, raw))
    BY <1>5, BuiltInsAssumption DEF ValueMethods, Validate, Scalar, Numeric
  <2>2. \A ok \in BOOLEAN : Verdict(ok) # Raised
    BY DEF Verdict, Refused, Raised
  <2>3. PICK ok \in BOOLEAN : validate(type, coerce(type, raw)) = Verdict(ok)
    BY <2>1, VerdictOfScalar
  <2> QED
    BY <2>2, <2>3
<1> QED
  BY <1>4, <1>5

LEMMA ListAnswers ==
    ASSUME FlatSets, NEW type \in BuiltInTypes, type.name = "list", Answers(type.item)
    PROVE  Answers(type)
<1> DEFINE item == type.item
<1> SUFFICES ASSUME NEW raw \in JsonValues
             PROVE  /\ coerce(type, raw) # Raised
                    /\ ~ Failed(coerce(type, raw)) => validate(type, coerce(type, raw)) # Raised
  BY DEF Answers
<1>1. raw[1] = "list" => \A i \in DOMAIN raw[2] : raw[2][i] \in JsonValues
  BY PartsOfList
<1>2. coerce(type, raw) # Raised
  <2>1. raw[1] = "list" => \A i \in DOMAIN raw[2] : coerce(item, raw[2][i]) # Raised
    BY <1>1 DEF Answers
  <2>2. \/ coerce(type, raw) = Refused
        \/ raw[1] = "list" /\ \E i \in DOMAIN raw[2] : coerce(type, raw) = coerce(item, raw[2][i])
        \/ ~ Failed(coerce(type, raw))
    BY CoerceOfList
  <2> QED
    BY <2>1, <2>2 DEF Failed, Refused, Raised
<1>3. ASSUME ~ Failed(coerce(type, raw)) PROVE validate(type, coerce(type, raw)) # Raised
  <2> DEFINE items == [i \in DOMAIN raw[2] |-> Canonical(item, raw[2][i])]
             verdicts == [i \in DOMAIN raw[2] |-> validate(item, coerce(item, raw[2][i]))]
  <2>1. raw[1] = "list" /\ \A i \in DOMAIN raw[2] : ~ Failed(coerce(item, raw[2][i]))
    BY <1>3, CoerceOfList DEF Failed
  <2>2. \/ validate(type, coerce(type, raw)) = Refused
        \/ validate(type, coerce(type, raw)) = FirstFailure(verdicts, Verdict(TRUE))
        \/ type.unique /\ Unhashable(items)
    BY <1>3, ValidateOfList, ZenonT(30)
  <2>3. ~ (type.unique /\ Unhashable(items))
    <3> SUFFICES ASSUME type.unique, NEW i \in DOMAIN raw[2] PROVE items[i][1] \notin {"list", "object"}
      BY DEF Unhashable
    <3>1. item \in BuiltInTypes /\ item.name \in Scalar
      BY PartsOfType DEF FlatSets
    <3>2. KeepsValues(item) /\ raw[2][i] \in JsonValues /\ ~ Failed(coerce(item, raw[2][i]))
      BY <1>1, <2>1, <3>1, TypesKeepValues
    <3>3. PICK json : json = Canonical(item, raw[2][i])
      OBVIOUS
    <3>4. json \in JsonValues /\ coerce(item, json) = coerce(item, raw[2][i])
      BY <3>2, <3>3 DEF KeepsValues
    <3>5. coerce(item, json) = CoerceScalar(item, json)
      BY <3>1, <3>4, MethodsOfScalar
    <3>6. json[1] \in KindsOf(item)
      BY <3>2, <3>4, <3>5 DEF CoerceScalar, Failed
    <3>7. json[1] \notin {"list", "object"}
      BY <3>1, <3>6 DEF KindsOf, Scalar, Numeric
    <3> QED
      BY <3>3, <3>7
  <2>4. \A i \in DOMAIN raw[2] : validate(item, coerce(item, raw[2][i])) # Raised
    BY <1>1, <2>1 DEF Answers
  <2>5. FirstFailure(verdicts, Verdict(TRUE)) # Raised
    <3>1. DOMAIN verdicts \in SUBSET Nat /\ \A i \in DOMAIN verdicts : verdicts[i] # Raised
      BY <2>1, <2>4, PartsOfList
    <3> HIDE DEF verdicts
    <3>2. CASE \E i \in DOMAIN verdicts : Failed(verdicts[i])
      BY <3>1, <3>2, FirstFailureIsOne
    <3>3. CASE \A i \in DOMAIN verdicts : ~ Failed(verdicts[i])
      BY <3>3 DEF FirstFailure, Verdict, Raised
    <3> QED
      BY <3>2, <3>3
  <2>6. Refused # Raised
    BY DEF Refused, Raised
  <2> HIDE DEF items, verdicts
  <2> QED
    BY <2>2, <2>3, <2>5, <2>6, Zenon
<1> QED
  BY <1>2, <1>3

LEMMA MappingAnswers ==
    ASSUME NEW type \in BuiltInTypes, type.name = "mapping", Answers(type.key), Answers(type.value)
    PROVE  Answers(type)
<1> DEFINE value == type.value
<1> SUFFICES ASSUME NEW raw \in JsonValues
             PROVE  /\ coerce(type, raw) # Raised
                    /\ ~ Failed(coerce(type, raw)) => validate(type, coerce(type, raw)) # Raised
  BY DEF Answers
<1>1. raw[1] = "object" => \A k \in DOMAIN raw[2] : raw[2][k] \in JsonValues /\ <<"string", k>> \in JsonValues
  BY PartsOfObject
<1>2. coerce(type, raw) # Raised
  <2>1. raw[1] = "object" => \A k \in DOMAIN raw[2] : coerce(value, raw[2][k]) # Raised
    BY <1>1 DEF Answers
  <2>2. \/ coerce(type, raw) = Refused
        \/ raw[1] = "object" /\ \E k \in DOMAIN raw[2] : coerce(type, raw) = coerce(value, raw[2][k])
        \/ ~ Failed(coerce(type, raw))
    BY CoerceOfMapping
  <2> QED
    BY <2>1, <2>2 DEF Failed, Refused, Raised
<1>3. ASSUME ~ Failed(coerce(type, raw)) PROVE validate(type, coerce(type, raw)) # Raised
  <2> DEFINE verdicts == UNION {{validate(type.key, <<"string", k>>), validate(value, coerce(value, raw[2][k]))} :
                                    k \in DOMAIN raw[2]}
  <2>1. raw[1] = "object" /\ \A k \in DOMAIN raw[2] : ~ Failed(coerce(value, raw[2][k]))
    BY <1>3, CoerceOfMapping DEF Failed
  <2>2. /\ \A k \in DOMAIN raw[2] : coerce(type.key, <<"string", k>>) = <<"string", k>>
        /\ \/ validate(type, coerce(type, raw)) = Refused
           \/ validate(type, coerce(type, raw)) = SomeFailure(verdicts, Verdict(TRUE))
    BY <1>3, ValidateOfMapping
  <2>3. ASSUME NEW k \in DOMAIN raw[2]
        PROVE  validate(type.key, <<"string", k>>) # Raised /\ validate(value, coerce(value, raw[2][k])) # Raised
    <3>1. ~ Failed(coerce(type.key, <<"string", k>>))
      BY <2>2 DEF Failed, Refused, Raised
    <3>2. validate(type.key, coerce(type.key, <<"string", k>>)) # Raised
      BY <1>1, <2>1, <3>1 DEF Answers
    <3> QED
      BY <1>1, <2>1, <2>2, <3>2 DEF Answers
  <2>4. \A verdict \in verdicts : verdict # Raised
    BY <2>3
  <2> HIDE DEF verdicts
  <2>5. SomeFailure(verdicts, Verdict(TRUE)) # Raised
    BY <2>4, SomeFailureIsOne DEF Verdict, Raised
  <2>6. Refused # Raised
    BY DEF Refused, Raised
  <2> QED
    BY <2>2, <2>5, <2>6, Zenon
<1> QED
  BY <1>2, <1>3

\* No method of a built-in type fails with anything but a ConstraintError or a
\* TypeCoercionError (types.py:16-30), unless it meets a list of unique lists or
\* objects (types.py:250) or an int too large for a float (types.py:105).
THEOREM TypesAnswer ==
    ASSUME FlatSets, NoLargeInts
    PROVE  \A type \in BuiltInTypes, raw \in JsonValues : coerce(type, raw) # Raised /\ Checked(type, raw) # Raised
<1> DEFINE Good == {type \in BuiltInTypes : Answers(type)}
<1>1. ASSUME NEW type \in BuiltInTypes, PartsOf(type) \subseteq Good PROVE type \in Good
  BY <1>1, PartsOfType, ScalarAnswers, ListAnswers, MappingAnswers
<1>2. Good = BuiltInTypes
  <2> HIDE DEF Good
  <2>1. Good \in SUBSET BuiltInTypes
    BY DEF Good
  <2> QED
    BY <1>1, <2>1, TypeInduction
<1>3. ASSUME NEW type \in BuiltInTypes, NEW raw \in JsonValues
      PROVE  coerce(type, raw) # Raised /\ Checked(type, raw) # Raised
  <2>1. /\ coerce(type, raw) # Raised
        /\ ~ Failed(coerce(type, raw)) => validate(type, coerce(type, raw)) # Raised
    BY <1>2 DEF Answers
  <2> QED
    BY <2>1 DEF Checked, Failed
<1> QED
  BY <1>3

\* JSON that the types of a release are given.
LEMMA DeclaredAnswer ==
    ASSUME FlatSets, NoLargeInts, NEW type \in DeclaredTypes, NEW raw \in Json
    PROVE  coerce(type, raw) # Raised /\ Checked(type, raw) # Raised
<1>1. type \in BuiltInTypes /\ raw \in JsonValues
  BY BuiltInsAssumption DEF TypesHaveParts, ValuesHaveParts
<1> QED
  BY <1>1, TypesAnswer

\* The rules of a group are broken, or obeyed: nothing else becomes of them.
LEMMA GroupAnswers ==
    ASSUME FlatSets, NoLargeInts, NEW r \in Releases, Builds(Declared[r]), NEW key \in KeysOf(Declared[r]),
           NEW values, \A k \in KeysOf(Declared[r]) : values[k] \in Json \cup {Absent}
    PROVE  GroupResult(Declared[r], values, key[1]) # Raised
<1> DEFINE c == Declared[r]
<1>1. PICK i \in DOMAIN c.groups : ByName(c.groups, key[1]) = c.groups[i] /\ key[1] = c.groups[i].name
  BY KeyIsDeclared
<1>2. PICK group \in ToSet(c.groups) : group = c.groups[i]
  BY DEF ToSet
<1> DEFINE results == [j \in DOMAIN group.tunables |-> Effective(c, values, <<key[1], group.tunables[j].name>>)]
<1>3. ASSUME NEW j \in DOMAIN group.tunables PROVE results[j] # Raised
  <2> DEFINE k == <<group.name, group.tunables[j].name>>
  <2>1. k \in KeysOf(c)
    BY DeclaredIsKey
  <2>2. ~ Failed(DefaultOf(TunableOf(c, k)))
    BY <2>1, DefaultIsSound
  <2>3. TunableOf(c, k).type \in DeclaredTypes /\ values[k] \in Json \cup {Absent}
    BY <2>1, TunableIsSound
  <2>4. results[j] = Effective(c, values, k)
    BY <1>1, <1>2
  <2> HIDE DEF k, results
  <2> QED
    BY <2>2, <2>3, <2>4, DeclaredAnswer DEF Effective, Failed
<1>4. DOMAIN results \in SUBSET Nat
  BY <1>2, DeclaredAssumption
<1>5. \A otherwise : otherwise # Raised => FirstFailure(results, otherwise) # Raised
  <2>1. \A j \in DOMAIN results : results[j] # Raised
    BY <1>3
  <2> HIDE DEF results
  <2>2. CASE \E j \in DOMAIN results : Failed(results[j])
    BY <1>4, <2>1, <2>2, FirstFailureIsOne
  <2>3. CASE \A j \in DOMAIN results : ~ Failed(results[j])
    BY <2>3 DEF FirstFailure
  <2> QED
    BY <2>2, <2>3
<1>6. PICK otherwise : /\ otherwise # Raised
                       /\ GroupResult(c, values, key[1]) = FirstFailure(results, otherwise)
  <2> DEFINE number == [t \in Names(group.tunables) |-> Effective(c, values, <<key[1], t>>)]
  <2>1. PICK otherwise : otherwise = Verdict(\A rule \in group.rules : Holds(rule, number))
    OBVIOUS
  <2>2. otherwise # Raised
    BY <2>1 DEF Verdict, Refused, Raised
  <2>3. ByName(c.groups, key[1]) = group
    BY <1>1, <1>2
  <2>4. GroupResult(c, values, key[1]) = FirstFailure(results, otherwise)
    BY <2>1, <2>3 DEF GroupResult
  <2> QED
    BY <2>2, <2>4
<1> QED
  BY <1>5, <1>6

\* A change that is not refused leaves JSON, or nothing.
LEMMA PrepareAnswers ==
    ASSUME FlatSets, NoLargeInts, IInv, InSync, NEW key \in KeysOf(Running), NEW value \in Json \cup {Absent}
    PROVE  Prepare(key, value) = Refused \/ Prepare(key, value) \in Json \cup {Absent}
<1>1. CASE value = Absent
  BY <1>1 DEF Prepare
<1>2. CASE value # Absent
  <2> DEFINE type == TunableOf(Running, key).type
  <2>1. type \in DeclaredTypes
    BY TunableIsSound DEF IInv, Running
  <2>2. CASE Failed(Checked(type, value))
    <3>1. Checked(type, value) = Refused
      BY <1>2, <2>1, <2>2, DeclaredAnswer DEF Failed
    <3> QED
      BY <1>2, <2>2, <3>1 DEF Prepare
  <2>3. CASE ~ Failed(Checked(type, value))
    <3>1. Canonical(type, value) \in Json /\ Checked(type, value) = coerce(type, value)
      BY <1>2, <2>1, <2>3, AcceptedValue
    <3>2. Prepare(key, value) = Override(key, Canonical(type, value))
      BY <1>2, <2>3, <3>1 DEF Prepare, Canonical
    <3>3. Prepare(key, value) \in {Absent, stored[key], Canonical(type, value)}
      BY <3>2 DEF Override
    <3>4. stored[key] \in Json \cup {Absent}
      BY StoredIsAccepted
    <3> QED
      BY <3>1, <3>3, <3>4
  <2> QED
    BY <2>2, <2>3
<1> QED
  BY <1>1, <1>2

\* A change set is answered.
LEMMA ApplyAnswers ==
    ASSUME FlatSets, NoLargeInts, IInv, NEW changes, AreChanges(changes), Apply(changes)
    PROVE  outcome' = "answered"
<1> DEFINE result == [key \in DOMAIN changes |-> Prepare(key, changes[key])]
           failures == {result[key] : key \in DOMAIN changes} \cap {Refused, Raised}
           values == [key \in DOMAIN stored |->
                       IF key \in DOMAIN changes /\ result[key] # Refused THEN result[key] ELSE stored[key]]
           touched == {key[1] : key \in {k \in DOMAIN stored : values[k] # stored[k]}}
           groups == {GroupResult(Running, values, name) : name \in touched} \cap {Refused, Raised}
<1>1. InSync /\ outcome' = IF Raised \in failures \cup groups THEN "raised" ELSE "answered"
  BY DEF Apply
<1>2. code \in Releases /\ Builds(Declared[code]) /\ Running = Declared[code] /\ DOMAIN stored = AllKeys
  BY DEF IInv, Running
<1>3. ASSUME NEW key \in DOMAIN changes
      PROVE  key \in KeysOf(Running) /\ (result[key] = Refused \/ result[key] \in Json \cup {Absent})
  BY <1>1, PrepareAnswers DEF AreChanges
<1>4. Raised \notin failures
  <2>1. Raised \notin Json
    <3>1. ~ IsValue(Raised)
      BY DEF IsValue, JsonKinds, Raised
    <3> QED
      BY <3>1, BuiltInsAssumption DEF ValuesHaveParts
  <2>2. Raised # Absent /\ Raised # Refused
    BY DeclaredAssumption DEF Failed, Refused, Raised
  <2>3. \A key \in DOMAIN changes : result[key] # Raised
    BY <1>3, <2>1, <2>2
  <2> HIDE DEF result
  <2> QED
    BY <2>3
<1>5. \A key \in KeysOf(Running) : values[key] \in Json \cup {Absent}
  <2> SUFFICES ASSUME NEW key \in KeysOf(Running) PROVE values[key] \in Json \cup {Absent}
    OBVIOUS
  <2>1. key \in DOMAIN stored
    BY <1>2, KeysAreKnown
  <2>2. stored[key] \in Json \cup {Absent}
    <3>1. InSync
      BY <1>1
    <3> HIDE DEF values
    <3> QED
      BY <3>1, StoredIsAccepted
  <2> HIDE DEF result
  <2>3. values[key] = IF key \in DOMAIN changes /\ result[key] # Refused THEN result[key] ELSE stored[key]
    BY <2>1
  <2> HIDE DEF values
  <2> QED
    BY <1>3, <2>2, <2>3
<1>6. ASSUME NEW name \in touched PROVE GroupResult(Running, values, name) # Raised
  <2>1. PICK key \in DOMAIN stored : name = key[1] /\ values[key] # stored[key]
    OBVIOUS
  <2>2. key \in KeysOf(Running)
    BY <1>3, <2>1
  <2> HIDE DEF values
  <2> QED
    BY <1>2, <1>5, <2>1, <2>2, GroupAnswers
<1>7. Raised \notin groups
  <2> HIDE DEF values, touched
  <2> QED
    BY <1>6
<1> HIDE DEF failures, groups
<1> QED
  BY <1>1, <1>4, <1>7

\* As long as no list of lists or objects is unique and no int is too large for a
\* float, every sync, change set and rollback over any releases is answered: no
\* other value that was stored by one of them makes another fail (services.py:276,
\* services.py:346, sync.py:183).
THEOREM EveryCallIsAnswered ==
    ASSUME FlatSets, NoLargeInts
    PROVE  Spec => [](outcome = "answered")
<1> DEFINE Answered == outcome = "answered"
<1>1. IInv /\ Answered /\ [Next]_vars => Answered'
  <2> SUFFICES ASSUME IInv, Answered, [Next]_vars PROVE outcome' = "answered"
    OBVIOUS
  <2>1. ASSUME NEW r \in Releases, Deploy(r) PROVE outcome' = "answered"
    BY <2>1 DEF Deploy
  <2>2. CASE Sync
    <3>1. ASSUME NEW key \in KeysOf(Running), stored[key] # Absent PROVE Recheck(key, stored[key]) # Raised
      <4>1. code \in Releases /\ Builds(Declared[code]) /\ Running = Declared[code]
        BY DEF IInv, Running
      <4>2. TunableOf(Running, key).type \in DeclaredTypes /\ key \in AllKeys
        BY <3>1, <4>1, TunableIsSound, KeysAreKnown
      <4>3. stored[key] \in Json
        BY <3>1, <4>2 DEF IInv, Accepted
      <4> QED
        BY <4>2, <4>3, DeclaredAnswer DEF Recheck
    <3> QED
      BY <2>2, <3>1 DEF Sync
  <2>3. ASSUME NEW key \in KeysOf(Running), Resend(key) PROVE outcome' = "answered"
    <3>1. Apply([k \in {key} |-> Served(Running, stored, key)])
      BY <2>3 DEF Resend, Change
    <3>2. AreChanges([k \in {key} |-> Served(Running, stored, key)])
      BY <3>1, ChangesAreChanges DEF Apply
    <3> QED
      BY <3>1, <3>2, ApplyAnswers
  <2>4. ASSUME NEW key \in KeysOf(Running), NEW value \in Raws[code] \cup {Absent}, Change(key, value)
        PROVE  outcome' = "answered"
    <3>1. Apply([k \in {key} |-> value])
      BY <2>4 DEF Change
    <3>2. AreChanges([k \in {key} |-> value])
      BY ChangesAreChanges
    <3> QED
      BY <3>1, <3>2, ApplyAnswers
  <2>5. CASE Rollback
    <3>1. Apply([key \in Moved |-> Restore(key)])
      BY <2>5 DEF Rollback
    <3>2. AreChanges([key \in Moved |-> Restore(key)])
      BY ChangesAreChanges
    <3> QED
      BY <3>1, <3>2, ApplyAnswers
  <2>6. CASE UNCHANGED vars
    BY <2>6 DEF vars
  <2> QED
    BY <2>1, <2>2, <2>3, <2>4, <2>5, <2>6 DEF Next
<1>2. Init => Answered
  BY DEF Init
<1> HIDE DEF Answered
<1>3. Spec => []Answered
  BY <1>1, <1>2, StoredStaysAccepted, PTL DEF Spec
<1> QED
  BY <1>3 DEF Answered

===========================================================================
