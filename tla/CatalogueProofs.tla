--------------------------- MODULE CatalogueProofs ---------------------------
(***************************************************************************)
(* What the operators of Catalogues return, for every catalogue: the       *)
(* lemmas that the proofs about Store and Editing rest on.                 *)
(***************************************************************************)
EXTENDS Catalogues, TLAPS

\* A list of changes, or a family of them by key.
WellFormed(c) == \A i \in DOMAIN c : c[i] \in Change

\* stored_overrides gives overrides.
LEMMA KnownType ==
    ASSUME NEW r \in Releases, NEW overrides0 \in Content
    PROVE  Known(r, overrides0) \in Content
BY DEF Known, Content

\* A change without a field error asks for a value of its type or for none.
LEMMA WantedType ==
    ASSUME NEW r \in Releases, NEW change \in Change, ~FieldError(r, change)
    PROVE  /\ change.key \in KeysOf[r]
           /\ Wanted(r, change) \in Values \cup {Absent}
           /\ Wanted(r, change) # Absent => Valid(r, change.key, Wanted(r, change))
<1>1. /\ change.key \in KeysOf[r] /\ change.key \in Keys
      /\ change.value # Absent => change.value \in Values /\ Valid(r, change.key, change.value)
  BY DEF FieldError, Change
<1>2. CASE change.value = Absent
  BY <1>1, <1>2 DEF Wanted
<1>3. CASE change.value # Absent
  <2> DEFINE w == Canon[r][change.key][change.value]
  <2>1. w \in Values /\ w # Bad /\ w \in Admitted[r][change.key]
    BY <1>1, <1>3, CatalogueAssumption DEF Valid
  <2>2. Canon[r][change.key][w] = w
    BY <1>1, <1>3, <2>1, RoundTripAssumption
  <2>3. Wanted(r, change) = (IF w = DefaultOf[r][change.key] THEN Absent ELSE w)
    BY <1>3 DEF Wanted
  <2> QED
    BY <1>1, <2>1, <2>2, <2>3 DEF Valid
<1> QED
  BY <1>2, <1>3

\* Each item is a step of one known key, asked for by a change without error.
LEMMA PreparedItem ==
    ASSUME NEW r \in Releases, NEW stored \in Content, NEW changes, WellFormed(changes),
           NEW k \in Keys, Prepared(r, stored, changes)[k] # NoItem
    PROVE  \E i \in DOMAIN changes :
              /\ changes[i].key = k /\ ~FieldError(r, changes[i])
              /\ Prepared(r, stored, changes)[k] = [old |-> stored[k], new |-> Wanted(r, changes[i])]
              /\ Wanted(r, changes[i]) # stored[k]
<1> DEFINE asked == {i \in DOMAIN changes : changes[i].key = k /\ ~FieldError(r, changes[i])}
           w == Wanted(r, changes[CHOOSE i \in asked : TRUE])
<1>1. Prepared(r, stored, changes)[k] =
        IF asked = {} \/ w = stored[k] THEN NoItem ELSE [old |-> stored[k], new |-> w]
  BY DEF Prepared
<1>2. asked # {} /\ w # stored[k]
  BY <1>1
<1>3. (CHOOSE i \in asked : TRUE) \in asked
  BY <1>2
<1> QED
  BY <1>1, <1>2, <1>3

\* _prepare gives items.
LEMMA PreparedType ==
    ASSUME NEW r \in Releases, NEW stored \in Content, NEW changes, WellFormed(changes)
    PROVE  Prepared(r, stored, changes) \in Items
<1> SUFFICES ASSUME NEW k \in Keys
             PROVE  Prepared(r, stored, changes)[k] \in Item \cup {NoItem}
  BY DEF Prepared, Items
<1>1. CASE Prepared(r, stored, changes)[k] = NoItem
  BY <1>1
<1>2. CASE Prepared(r, stored, changes)[k] # NoItem
  <2>1. PICK i \in DOMAIN changes :
          /\ ~FieldError(r, changes[i])
          /\ Prepared(r, stored, changes)[k] = [old |-> stored[k], new |-> Wanted(r, changes[i])]
    BY <1>2, PreparedItem
  <2>2. Wanted(r, changes[i]) \in Values \cup {Absent}
    BY <2>1, WantedType DEF WellFormed
  <2> QED
    BY <2>1, <2>2 DEF Item, Content
<1> QED
  BY <1>1, <1>2

\* Writing items to overrides gives overrides.
LEMMA ProposedType ==
    ASSUME NEW overrides0 \in Content, NEW items \in Items
    PROVE  Proposed(overrides0, items) \in Content
BY DEF Proposed, Content, Items, Item

\* A snapshot's document has the type of one.
LEMMA DocumentType ==
    ASSUME NEW r \in Releases, NEW overrides0 \in Content
    PROVE  BuildDocument(r, overrides0) \in Document
<1>1. Hash[r] \in Hashes /\ KeysOf[r] \subseteq Keys
  BY CatalogueAssumption
<1>2. \A k \in KeysOf[r] : DefaultOf[r][k] \in Values /\ overrides0[k] \in Values \cup {Absent}
  BY <1>1, CatalogueAssumption DEF Content
<1> QED
  BY <1>1, <1>2 DEF BuildDocument, Document, Content

\* What sync resets are items.
LEMMA SyncItemsType ==
    ASSUME NEW r \in Releases, NEW overrides0 \in Content
    PROVE  SyncItems(r, overrides0) \in Items
BY DEF SyncItems, Items, Item, Content

\* The document depends on the catalogue only through its hash, and only on
\* the overrides of its keys.
LEMMA DocumentByHash ==
    ASSUME NEW r \in Releases, NEW s \in Releases, Hash[r] = Hash[s],
           NEW overrides0 \in Content
    PROVE  BuildDocument(r, Known(r, overrides0)) = BuildDocument(s, overrides0)
<1>1. KeysOf[r] = KeysOf[s] /\ KeysOf[r] \subseteq Keys
  BY HashAssumption, CatalogueAssumption
<1>2. \A k \in KeysOf[r] : DefaultOf[r][k] = DefaultOf[s][k]
  BY HashAssumption
<1>3. \A k \in KeysOf[r] : Known(r, overrides0)[k] = overrides0[k]
  BY <1>1 DEF Known
<1> QED
  BY <1>1, <1>2, <1>3 DEF BuildDocument

\* A change set touches only keys the release declares.
LEMMA PreparedKnown ==
    ASSUME NEW r \in Releases, NEW stored \in Content, NEW changes, WellFormed(changes),
           NEW k \in Keys, k \notin KeysOf[r]
    PROVE  Prepared(r, stored, changes)[k] = NoItem
<1>1. ASSUME Prepared(r, stored, changes)[k] # NoItem
      PROVE  FALSE
  <2>1. PICK i \in DOMAIN changes :
            /\ changes[i].key = k /\ ~FieldError(r, changes[i])
            /\ Prepared(r, stored, changes)[k] = [old |-> stored[k], new |-> Wanted(r, changes[i])]
            /\ Wanted(r, changes[i]) # stored[k]
    BY <1>1, PreparedItem
  <2> QED
    BY <2>1 DEF FieldError
<1> QED
  BY <1>1

\* The stored overrides a release sees after its items are written are the
\* ones its rules were asked about.
LEMMA ProposedKnown ==
    ASSUME NEW r \in Releases, NEW overrides0 \in Content, NEW changes, WellFormed(changes)
    PROVE  LET items == Prepared(r, Known(r, overrides0), changes)
           IN  Known(r, Proposed(overrides0, items)) = Proposed(Known(r, overrides0), items)
<1> DEFINE stored == Known(r, overrides0)
           items == Prepared(r, stored, changes)
<1>1. stored \in Content
  BY KnownType
<1>2. \A k \in Keys : k \notin KeysOf[r] => items[k] = NoItem
  BY <1>1, PreparedKnown
<1> HIDE DEF items
<1>3. Known(r, Proposed(overrides0, items)) = Proposed(stored, items)
  BY <1>2 DEF Known, Proposed
<1> QED
  BY <1>3 DEF items

\* A change without error, written, gives its value to a reader.
LEMMA WantedEffective ==
    ASSUME NEW r \in Releases, NEW change \in Change, ~FieldError(r, change),
           NEW stored \in Content, stored[change.key] = Wanted(r, change)
    PROVE  /\ change.value = Absent => stored[change.key] = Absent
           /\ Effective(r, stored)[change.key] =
                 IF change.value = Absent THEN DefaultOf[r][change.key]
                 ELSE Canon[r][change.key][change.value]
<1> DEFINE k == change.key
           w == Canon[r][k][change.value]
<1>1. k \in KeysOf[r] /\ k \in Keys
  BY DEF FieldError, Change
<1>2. Effective(r, stored)[k] = IF stored[k] = Absent THEN DefaultOf[r][k] ELSE Canon[r][k][stored[k]]
  BY <1>1 DEF Effective
<1>3. CASE change.value = Absent
  BY <1>2, <1>3 DEF Wanted
<1>4. CASE change.value # Absent
  <2>1. change.value \in Values /\ w \in Admitted[r][k]
    BY <1>4 DEF FieldError, Valid, Change
  <2>2. w \in Values /\ w # Bad /\ w # Absent
    BY <1>1, <2>1, CatalogueAssumption
  <2>3. Canon[r][k][w] = w
    BY <1>1, <2>1, <2>2, RoundTripAssumption
  <2>4. stored[k] = IF w = DefaultOf[r][k] THEN Absent ELSE w
    BY <1>4 DEF Wanted
  <2> QED
    BY <1>2, <1>4, <2>2, <2>3, <2>4
<1> QED
  BY <1>3, <1>4

===========================================================================
