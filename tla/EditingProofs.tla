--------------------------- MODULE EditingProofs ---------------------------
(***************************************************************************)
(* Proofs about Editing, for every catalogue, form, number of operators    *)
(* and requests of others: a form replaces only what its operator was told *)
(* of, and moves a key that he left alone only after a notice that names   *)
(* the key.                                                                *)
(***************************************************************************)
EXTENDS Editing, CatalogueProofs, TLAPS

\* The newest document is that of the stored overrides.
DocumentIsCurrent == documents[version] = BuildDocument(Release, overrides)

\* No override is the default, and each is valid and its own canonical form.
OverridesAreClean ==
    \A k \in Keys : overrides[k] # Absent =>
        /\ k \in KeysOf[Release]
        /\ Canon[Release][k][overrides[k]] = overrides[k]
        /\ overrides[k] \in Admitted[Release][k]
        /\ overrides[k] # DefaultOf[Release][k]

\* The boxes of a page are those of its version or a newer one, a POST is read
\* against that or a newer one, and only boxes on the page are ticked.
PageIsBehind(e) ==
    /\ page[e].expected <= page[e].from
    /\ page[e].ticked \subseteq Boxes(e, page[e].from) \cap page[e].meant
    /\ pc[e] = "posted" => page[e].from <= basis[e]
    /\ pc[e] \in {"conflict", "noticed"} => page[e].expected = conflict[e].expected
    /\ pc[e] = "rebound" => page[e].expected = conflict[e].actual

PagesBehind == \A e \in Editors : PageIsBehind(e)

\* A key that the operator left alone and no notice named has the text that he
\* was told is its value.
Kept(e) == \A k \in Fields(e) : \/ k \in page[e].typed \cup page[e].named
                                \/ page[e].input[k] = page[e].told[k]

\* What he was told is what is stored at version v.
Told(e, v) == \A k \in Fields(e) : page[e].told[k] = Value(v, k)

\* That is the version of his page, unless a notice could name no key; while a
\* conflict is answered, a notice has gone out before the version or is yet to.
ToldOfPage(e) ==
    \/ page[e].blind
    \/ /\ pc[e] \in {"open", "posted", "conflict"} => Told(e, page[e].expected)
       /\ pc[e] = "noticed" => Told(e, conflict[e].actual)
       /\ pc[e] = "rebound" => Told(e, conflict[e].expected)

LeftAlone(e) == Kept(e) /\ ToldOfPage(e)

UntouchedKept == \A e \in Editors : LeftAlone(e)

\* The inductive invariant.
IInv ==
    /\ TypeOK
    /\ DocumentIsCurrent
    /\ OverridesAreClean
    /\ PagesBehind
    /\ UntouchedKept

---------------------------------------------------------------------------
(* The database.                                                           *)

Keeps == UNCHANGED <<version, overrides, documents>> /\ kept' \subseteq kept

Grows ==
    /\ version' = version + 1 /\ version' \in 0..MaxVersion
    /\ overrides' \in Content
    /\ documents' \in [0..version' -> Document]
    /\ \A v \in 0..version : documents'[v] = documents[v]
    /\ documents'[version'] = BuildDocument(Release, overrides')
    /\ kept' \subseteq 0..version'
    /\ OverridesAreClean'

\* What a change without error asks for is canonical and not the default.
LEMMA WantedClean ==
    ASSUME NEW change \in Change, ~FieldError(Release, change),
           Wanted(Release, change) # Absent
    PROVE  /\ change.key \in KeysOf[Release]
           /\ Canon[Release][change.key][Wanted(Release, change)] = Wanted(Release, change)
           /\ Wanted(Release, change) \in Admitted[Release][change.key]
           /\ Wanted(Release, change) # DefaultOf[Release][change.key]
<1> DEFINE k == change.key
           w == Canon[Release][k][change.value]
<1>1. k \in KeysOf[Release] /\ k \in Keys /\ Release \in Releases
  BY EditingAssumption DEF FieldError, Change
<1>2. change.value # Absent
  BY DEF Wanted
<1>3. change.value \in Values /\ w \in Admitted[Release][k]
  BY <1>2 DEF FieldError, Valid, Change
<1>4. w # Bad
  BY <1>1, <1>3, CatalogueAssumption
<1>5. Canon[Release][k][w] = w
  BY <1>1, <1>3, <1>4, RoundTripAssumption
<1>6. Wanted(Release, change) = IF w = DefaultOf[Release][k] THEN Absent ELSE w
  BY <1>2 DEF Wanted
<1> QED
  BY <1>1, <1>3, <1>5, <1>6

\* A change set adds a version and leaves the older documents alone.
LEMMA WriteGrows ==
    ASSUME TypeOK, OverridesAreClean, NEW changes, WellFormed(changes), Write(changes)
    PROVE  Grows
<1> DEFINE stored == Known(Release, overrides)
           items == Prepared(Release, stored, changes)
<1>1. Release \in Releases /\ overrides \in Content /\ version \in Nat /\ MaxVersion \in Nat
  BY EditingAssumption DEF TypeOK
<1>2. stored \in Content /\ items \in Items
  BY <1>1, KnownType, PreparedType
<1>3. /\ version' = version + 1 /\ version < MaxVersion
      /\ overrides' = Proposed(overrides, items)
      /\ documents' = [v \in 0..version + 1 |-> IF v <= version THEN documents[v]
                                                ELSE BuildDocument(Release, overrides')]
      /\ kept' = kept \cup {version + 1}
  BY DEF Write
<1>4. overrides' \in Content
  BY <1>1, <1>2, <1>3, ProposedType
<1>5. BuildDocument(Release, overrides') \in Document
  BY <1>1, <1>4, DocumentType
<1>6. OverridesAreClean'
  <2> SUFFICES ASSUME NEW k \in Keys, overrides'[k] # Absent
               PROVE  /\ k \in KeysOf[Release]
                      /\ Canon[Release][k][overrides'[k]] = overrides'[k]
                      /\ overrides'[k] \in Admitted[Release][k]
                      /\ overrides'[k] # DefaultOf[Release][k]
    BY DEF OverridesAreClean
  <2>1. CASE items[k] = NoItem
    <3>1. overrides'[k] = overrides[k]
      BY <1>3, <2>1 DEF Proposed
    <3> QED
      BY <3>1 DEF OverridesAreClean
  <2>2. CASE items[k] # NoItem
    <3>1. PICK i \in DOMAIN changes :
            /\ changes[i].key = k /\ ~FieldError(Release, changes[i])
            /\ items[k] = [old |-> stored[k], new |-> Wanted(Release, changes[i])]
      BY <1>1, <1>2, <2>2, PreparedItem
    <3>2. overrides'[k] = Wanted(Release, changes[i])
      BY <1>3, <2>2, <3>1 DEF Proposed
    <3> QED
      BY <3>1, <3>2, WantedClean DEF WellFormed
  <2> QED
    BY <2>1, <2>2
<1>7. /\ documents' \in [0..version' -> Document]
      /\ \A v \in 0..version : documents'[v] = documents[v]
      /\ documents'[version'] = BuildDocument(Release, overrides')
  BY <1>1, <1>3, <1>5 DEF TypeOK, Versions
<1>8. kept' \subseteq 0..version' /\ version' \in 0..MaxVersion
  BY <1>1, <1>3 DEF TypeOK, Versions
<1> QED
  BY <1>3, <1>4, <1>6, <1>7, <1>8 DEF Grows

\* The keys of a form are declared.
LEMMA FormDeclared ==
    ASSUME TypeOK, NEW e \in Editors
    PROVE  Fields(e) \subseteq KeysOf[Release] /\ KeysOf[Release] \subseteq Keys
BY EditingAssumption, CatalogueAssumption DEF TypeOK, Fields

\* The changes of a valid form are changes.
LEMMA FormChanges ==
    ASSUME TypeOK, NEW e \in Editors, FormValid(e)
    PROVE  WellFormed(Changes(e))
<1>1. SUFFICES ASSUME NEW k \in Fields(e) PROVE Changes(e)[k] \in Change
  BY DEF WellFormed, Changes
<1>2. Changes(e)[k] = [key |-> k, value |-> IF k \in Resets(e) THEN Absent
                                           ELSE Clean[k][page[e].input[k]]]
  BY <1>1 DEF Changes
<1>3. k \in Keys /\ k \in KeysOf[Release]
  BY FormDeclared
<1>4. CASE k \in Resets(e)
  BY <1>2, <1>3, <1>4 DEF Change
<1>5. CASE k \notin Resets(e)
  <2>1. page[e].input[k] \in Values
    BY <1>3, <1>5 DEF FormValid, TypeOK, PageType, Content
  <2>2. Clean[k][page[e].input[k]] # Bad
    BY <1>5, <2>1, CatalogueAssumption DEF FormValid
  <2>3. Clean[k][page[e].input[k]] \in Values
    BY <1>3, <2>1, <2>2, EditingAssumption
  <2> QED
    BY <1>2, <1>3, <1>5, <2>3 DEF Change
<1> QED
  BY <1>4, <1>5

---------------------------------------------------------------------------
(* The pages.                                                              *)

PcType == {"closed", "open", "posted", "conflict", "noticed", "rebound"}

ConflictType == [expected : Versions, actual : Versions]

\* Only the page of e moves, and it keeps its type.
Moves(e) ==
    /\ pc' = [pc EXCEPT ![e] = pc'[e]] /\ pc'[e] \in PcType
    /\ site' = [site EXCEPT ![e] = site'[e]] /\ site'[e] \in Sites
    /\ page' = [page EXCEPT ![e] = page'[e]] /\ page'[e] \in PageType'
    /\ basis' = [basis EXCEPT ![e] = basis'[e]] /\ basis'[e] \in Versions'
    /\ conflict' = [conflict EXCEPT ![e] = conflict'[e]] /\ conflict'[e] \in ConflictType'

\* What holds of the page afterwards.
Safe(e) == PageIsBehind(e) /\ LeftAlone(e)

\* What was of its type still is when the database grows.
LEMMA TypesGrow ==
    ASSUME TypeOK, Keeps \/ Grows
    PROVE  /\ Versions \subseteq Versions' /\ version \in Nat /\ Versions \subseteq Nat
           /\ PageType \subseteq PageType' /\ ConflictType \subseteq ConflictType'
           /\ \A v \in Versions : documents'[v] = documents[v]
<1>1. version \in Nat /\ version' \in {version, version + 1}
  BY EditingAssumption DEF TypeOK, Keeps, Grows
<1>2. Versions \subseteq Versions' /\ Versions \subseteq Nat
  BY <1>1 DEF Versions
<1>3. PageType \subseteq PageType' /\ ConflictType \subseteq ConflictType'
  BY <1>2 DEF PageType, ConflictType
<1>4. \A v \in Versions : documents'[v] = documents[v]
  BY DEF Keeps, Grows, Versions
<1> QED
  BY <1>1, <1>2, <1>3, <1>4

\* A page that nobody touches stays safe: what it refers to is in the past.  So
\* does the page of a POST whose answer is lost.
LEMMA Undisturbed ==
    ASSUME IInv, Keeps \/ Grows, NEW e \in Editors,
           site'[e] = site[e], page'[e] = page[e],
           \/ pc'[e] = pc[e] /\ basis'[e] = basis[e] /\ conflict'[e] = conflict[e]
           \/ pc[e] = "posted" /\ pc'[e] = "open"
    PROVE  Safe(e)'
<1>1. TypeOK /\ PageIsBehind(e) /\ LeftAlone(e)
  BY DEF IInv, PagesBehind, UntouchedKept
<1>2. \A v \in Versions : documents'[v] = documents[v]
  BY <1>1, TypesGrow
<1>3. /\ page[e].from \in Versions /\ page[e].expected \in Versions
      /\ conflict[e].expected \in Versions /\ conflict[e].actual \in Versions
  BY <1>1 DEF TypeOK, PageType
<1>4. Fields(e)' = Fields(e)
  BY DEF Fields
<1>5. Boxes(e, page[e].from)' = Boxes(e, page[e].from)
  BY <1>2, <1>3, <1>4 DEF Boxes
<1>6. PageIsBehind(e)'
  BY <1>1, <1>5 DEF PageIsBehind
<1>7. Kept(e)'
  BY <1>1, <1>4 DEF Kept, LeftAlone
<1>8. \A v \in Versions : Told(e, v) => Told(e, v)'
  BY <1>2, <1>4 DEF Told, Value
<1>9. CASE pc'[e] = pc[e] /\ basis'[e] = basis[e] /\ conflict'[e] = conflict[e]
  <2>1. /\ Told(e, page[e].expected) => Told(e, page[e].expected)'
        /\ Told(e, conflict[e].expected) => Told(e, conflict[e].expected)'
        /\ Told(e, conflict[e].actual) => Told(e, conflict[e].actual)'
    BY <1>3, <1>8, <1>9
  <2> QED
    BY <1>1, <1>6, <1>7, <1>9, <2>1 DEF LeftAlone, ToldOfPage, Safe
<1>10. CASE pc[e] = "posted" /\ pc'[e] = "open"
  <2>1. Told(e, page[e].expected) => Told(e, page[e].expected)'
    BY <1>3, <1>8
  <2> QED
    BY <1>1, <1>6, <1>7, <1>10, <2>1 DEF LeftAlone, ToldOfPage, Safe
<1> QED
  BY <1>9, <1>10

\* A fresh page.
LEMMA FreshPage ==
    ASSUME TypeOK, NEW v \in Versions
    PROVE  /\ Page(v, documents[v].values) \in PageType
           /\ NoPage \in PageType /\ NoConflict \in ConflictType /\ 0 \in Versions
<1>1. documents[v].values \in Content
  BY DEF TypeOK, Document
<1>2. 0 \in Versions
  BY EditingAssumption DEF TypeOK, Versions
<1>3. BuildDocument(Release, Empty).values \in Content
  BY DocumentType, EditingAssumption DEF Document, Empty, Content
<1> QED
  BY <1>1, <1>2, <1>3 DEF Page, NoPage, PageType, NoConflict, ConflictType

---------------------------------------------------------------------------
(* One lemma per action of an operator.                                    *)

\* When the database stands still, types and values do.
LEMMA StandsStill ==
    ASSUME UNCHANGED db
    PROVE  /\ Keeps /\ Versions' = Versions
           /\ PageType' = PageType /\ ConflictType' = ConflictType
           /\ \A v, k : Value(v, k)' = Value(v, k)
BY DEF db, Keeps, Versions, PageType, ConflictType, Value

\* A page that is shown is at the newest version.
LEMMA ShowSafe ==
    ASSUME IInv, NEW e \in Editors, Show(e)
    PROVE  Moves(e) /\ Safe(e)'
<1>1. TypeOK /\ UNCHANGED db /\ version \in Versions
  BY EditingAssumption DEF IInv, Show, TypeOK, Versions
<1>2. PICK s \in Sites : site' = [site EXCEPT ![e] = s]
  BY DEF Show
<1>3. /\ pc' = [pc EXCEPT ![e] = "open"]
      /\ page' = [page EXCEPT ![e] = Page(version, documents[version].values)]
      /\ UNCHANGED <<basis, conflict>>
  BY DEF Show
<1>4. /\ pc'[e] = "open" /\ site'[e] = s
      /\ page'[e] = Page(version, documents[version].values)
      /\ page'[e] \in PageType
  BY <1>1, <1>2, <1>3, FreshPage DEF TypeOK
<1>5. Moves(e)
  BY <1>1, <1>2, <1>3, <1>4, StandsStill DEF Moves, TypeOK, PcType, ConflictType
<1>6. PageIsBehind(e)'
  BY <1>1, <1>4, EditingAssumption DEF PageIsBehind, Page, TypeOK
<1>7. LeftAlone(e)'
  BY <1>1, <1>4, StandsStill DEF LeftAlone, Kept, Told, ToldOfPage, Page, Value, db
<1> QED
  BY <1>5, <1>6, <1>7 DEF Safe

\* Filling in a key keeps the page's type.
LEMMA TypedPage ==
    ASSUME NEW p \in PageType, NEW input \in Content, NEW typed \in SUBSET Keys,
           NEW q, q = [p EXCEPT !.input = input, !.typed = typed]
    PROVE  q \in PageType
<1>1. PICK x \in Versions, f \in Versions, i \in Content, b \in SUBSET Keys, w \in Content,
           u \in BOOLEAN, t \in SUBSET Keys, m \in SUBSET Keys, n \in SUBSET Keys :
        p = [expected |-> x, from |-> f, input |-> i, ticked |-> b, told |-> w, blind |-> u,
             typed |-> t, meant |-> m, named |-> n]
  BY Zenon DEF PageType
<1>2. q = [expected |-> x, from |-> f, input |-> input, ticked |-> b, told |-> w, blind |-> u,
           typed |-> typed, meant |-> m, named |-> n]
  BY <1>1
<1> QED
  BY <1>2 DEF PageType

\* A key that is filled in is no longer left alone.
LEMMA TypeSafe ==
    ASSUME IInv, NEW e \in Editors, NEW k \in Fields(e), NEW v \in Values \cup {Absent},
           Type(e, k, v)
    PROVE  Moves(e) /\ Safe(e)'
<1>1. TypeOK /\ UNCHANGED db /\ k \in Keys
  BY FormDeclared DEF IInv, Type
<1>2. /\ pc[e] = "open" /\ pc' = [pc EXCEPT ![e] = "open"]
      /\ page' = [page EXCEPT ![e].input[k] = v, ![e].typed = @ \cup {k}]
      /\ UNCHANGED <<site, basis, conflict>>
  BY DEF Type, Goto
<1>3. page[e] \in PageType /\ page \in [Editors -> PageType] /\ pc \in [Editors -> PcType]
  BY <1>1 DEF TypeOK, PcType
<1>4. /\ pc'[e] = "open" /\ page' = [page EXCEPT ![e] = page'[e]]
      /\ page'[e] = [page[e] EXCEPT !.input[k] = v, !.typed = @ \cup {k}]
  BY <1>2, <1>3
<1>5. [page[e].input EXCEPT ![k] = v] \in Content
  BY <1>3 DEF PageType, Content
<1>6. page'[e] = [page[e] EXCEPT !.input = [page[e].input EXCEPT ![k] = v],
                                 !.typed = page[e].typed \cup {k}]
  BY <1>3, <1>4 DEF PageType
<1>7. page'[e] \in PageType
  <2>1. page[e].typed \cup {k} \in SUBSET Keys
    BY <1>1, <1>3 DEF PageType
  <2> QED
    BY <1>3, <1>5, <1>6, <2>1, TypedPage
<1>8. Moves(e)
  BY <1>1, <1>2, <1>3, <1>4, <1>7, StandsStill DEF Moves, TypeOK, PcType, ConflictType
<1>9. /\ page'[e].expected = page[e].expected /\ page'[e].from = page[e].from
      /\ page'[e].ticked = page[e].ticked /\ page'[e].meant = page[e].meant
      /\ page'[e].blind = page[e].blind /\ page'[e].named = page[e].named
      /\ page'[e].typed = page[e].typed \cup {k} /\ page'[e].told = page[e].told
      /\ \A j \in Fields(e) : j # k => page'[e].input[j] = page[e].input[j]
  <2>1. \A j \in Fields(e) : j \in Keys
    BY <1>1, FormDeclared
  <2> QED
    BY <1>3, <1>6, <2>1 DEF PageType, Content
<1>10. PageIsBehind(e) /\ LeftAlone(e)
  BY DEF IInv, PagesBehind, UntouchedKept
<1>11. PageIsBehind(e)'
  BY <1>1, <1>2, <1>4, <1>9, <1>10 DEF PageIsBehind, Boxes, Fields, db
<1>12. LeftAlone(e)'
  <2>1. Fields(e)' = Fields(e)
    BY <1>2 DEF Fields
  <2>2. Kept(e)'
    BY <1>9, <1>10, <2>1 DEF Kept, LeftAlone
  <2>3. \A x : Told(e, x)' = Told(e, x)
    BY <1>1, <1>9, <2>1, StandsStill DEF Told
  <2> QED
    BY <1>2, <1>4, <1>9, <1>10, <2>2, <2>3 DEF LeftAlone, ToldOfPage
<1> QED
  BY <1>8, <1>11, <1>12 DEF Safe

\* A box is ticked only on the page it belongs to.
LEMMA TickSafe ==
    ASSUME IInv, NEW e \in Editors, NEW k \in Fields(e), Tick(e, k) \/ Untick(e, k)
    PROVE  Moves(e) /\ Safe(e)'
<1>1. TypeOK /\ UNCHANGED db /\ k \in Keys
  BY FormDeclared DEF IInv, Tick, Untick
<1>2. /\ pc[e] = "open" /\ pc' = [pc EXCEPT ![e] = "open"]
      /\ UNCHANGED <<site, basis, conflict>>
  BY DEF Tick, Untick, Goto
<1>3. page[e] \in PageType /\ page \in [Editors -> PageType] /\ pc \in [Editors -> PcType]
  BY <1>1 DEF TypeOK, PcType
<1>4. PICK ticked \in SUBSET Keys, meant \in SUBSET Keys :
        /\ page' = [page EXCEPT ![e].ticked = ticked, ![e].meant = meant]
        /\ \/ /\ k \in Boxes(e, page[e].from)
              /\ ticked = page[e].ticked \cup {k} /\ meant = page[e].meant \cup {k}
           \/ ticked = page[e].ticked \ {k} /\ meant = page[e].meant \ {k}
  <2>1. page[e].ticked \subseteq Keys /\ page[e].meant \subseteq Keys
    BY <1>3 DEF PageType
  <2> QED
    BY <1>1, <1>3, <2>1 DEF Tick, Untick
<1>5. /\ pc'[e] = "open" /\ page' = [page EXCEPT ![e] = page'[e]]
      /\ page'[e] = [page[e] EXCEPT !.ticked = ticked, !.meant = meant]
  BY <1>2, <1>3, <1>4
<1>6. page'[e] \in PageType
  BY <1>3, <1>5 DEF PageType
<1>7. Moves(e)
  BY <1>1, <1>2, <1>3, <1>5, <1>6, StandsStill DEF Moves, TypeOK, PcType, ConflictType
<1>8. /\ page'[e].expected = page[e].expected /\ page'[e].from = page[e].from
      /\ page'[e].ticked = ticked /\ page'[e].meant = meant
      /\ page'[e].blind = page[e].blind /\ page'[e].named = page[e].named
      /\ page'[e].typed = page[e].typed /\ page'[e].input = page[e].input
      /\ page'[e].told = page[e].told
  BY <1>3, <1>5 DEF PageType
<1>9. PageIsBehind(e) /\ LeftAlone(e)
  BY DEF IInv, PagesBehind, UntouchedKept
<1>10. Boxes(e, page[e].from)' = Boxes(e, page[e].from)
  BY <1>1, <1>2, <1>8 DEF Boxes, Fields, db
<1>11. ticked \subseteq Boxes(e, page[e].from) \cap meant
  BY <1>4, <1>9 DEF PageIsBehind
<1>12. PageIsBehind(e)'
  BY <1>5, <1>8, <1>9, <1>10, <1>11 DEF PageIsBehind
<1>13. LeftAlone(e)'
  BY <1>1, <1>2, <1>5, <1>8, <1>9, StandsStill DEF LeftAlone, Kept, Told, ToldOfPage, Fields
<1> QED
  BY <1>7, <1>12, <1>13 DEF Safe

\* The document a POST reads is at least as new as its page.
LEMMA PostSafe ==
    ASSUME IInv, NEW e \in Editors, Post(e)
    PROVE  Moves(e) /\ Safe(e)'
<1>1. /\ TypeOK /\ UNCHANGED db /\ version \in Versions
      /\ PageIsBehind(e) /\ LeftAlone(e)
  BY EditingAssumption DEF IInv, Post, TypeOK, Versions, PagesBehind, UntouchedKept
<1>2. /\ pc[e] = "open" /\ pc' = [pc EXCEPT ![e] = "posted"]
      /\ basis' = [basis EXCEPT ![e] = version]
      /\ UNCHANGED <<site, page, conflict>>
  BY DEF Post, Goto
<1>3. pc'[e] = "posted" /\ basis'[e] = version
  BY <1>1, <1>2 DEF TypeOK
<1>4. Moves(e)
  BY <1>1, <1>2, <1>3, StandsStill DEF Moves, TypeOK, PcType, ConflictType
<1>5. page[e].from <= version
  BY <1>1, EditingAssumption DEF TypeOK, PageType, Versions
<1>6. PageIsBehind(e)'
  BY <1>1, <1>2, <1>3, <1>5 DEF PageIsBehind, Boxes, Fields, db
<1>7. LeftAlone(e)'
  BY <1>1, <1>2, <1>3, StandsStill DEF LeftAlone, Kept, Told, ToldOfPage, Fields
<1> QED
  BY <1>4, <1>6, <1>7 DEF Safe

\* The request is over: the basis and the conflict are reset.
LEMMA AnsweredType ==
    ASSUME TypeOK, NEW e \in Editors, Answered(e)
    PROVE  /\ basis' = [basis EXCEPT ![e] = basis'[e]] /\ basis'[e] \in Versions
           /\ conflict' = [conflict EXCEPT ![e] = conflict'[e]] /\ conflict'[e] \in ConflictType
<1>1. NoConflict \in ConflictType /\ 0 \in Versions
  BY FreshPage, EditingAssumption DEF TypeOK, Versions
<1>2. basis' = [basis EXCEPT ![e] = 0] /\ conflict' = [conflict EXCEPT ![e] = NoConflict]
  BY DEF Answered
<1> QED
  BY <1>1, <1>2 DEF TypeOK

\* A closed page refers to nothing.
LEMMA ClosedSafe ==
    ASSUME TypeOK, NEW e \in Editors, Close(e)
    PROVE  /\ pc' = [pc EXCEPT ![e] = "closed"] /\ pc'[e] = "closed"
           /\ page' = [page EXCEPT ![e] = NoPage] /\ page'[e] = NoPage
           /\ NoPage \in PageType
           /\ Safe(e)'
<1>1. /\ pc' = [pc EXCEPT ![e] = "closed"] /\ pc'[e] = "closed"
      /\ page' = [page EXCEPT ![e] = NoPage] /\ page'[e] = NoPage
  BY DEF Close, TypeOK
<1>2. NoPage \in PageType
  BY FreshPage, EditingAssumption DEF TypeOK, Versions
<1>3. /\ NoPage.expected = 0 /\ NoPage.from = 0 /\ NoPage.ticked = {}
      /\ NoPage.input = NoPage.told
  BY DEF NoPage, Page
<1>4. PageIsBehind(e)'
  BY <1>1, <1>3 DEF PageIsBehind
<1>5. LeftAlone(e)'
  BY <1>1, <1>3 DEF LeftAlone, Kept, ToldOfPage
<1> QED
  BY <1>1, <1>2, <1>4, <1>5 DEF Safe

\* A form with errors comes back as it was posted.
LEMMA RefuseSafe ==
    ASSUME IInv, NEW e \in Editors, Refuse(e)
    PROVE  Moves(e) /\ Safe(e)'
<1>1. TypeOK /\ UNCHANGED db /\ PageIsBehind(e) /\ LeftAlone(e) /\ Answered(e)
  BY DEF IInv, Refuse, PagesBehind, UntouchedKept
<1>2. /\ pc[e] = "posted" /\ pc' = [pc EXCEPT ![e] = "open"]
      /\ page' = [page EXCEPT ![e].from = basis[e], ![e].ticked = Resets(e)]
      /\ UNCHANGED site
  BY DEF Refuse, Goto
<1>3. page[e] \in PageType /\ page \in [Editors -> PageType] /\ pc \in [Editors -> PcType]
  BY <1>1 DEF TypeOK, PcType
<1>4. /\ pc'[e] = "open" /\ page' = [page EXCEPT ![e] = page'[e]]
      /\ page'[e] = [page[e] EXCEPT !.from = basis[e], !.ticked = Resets(e)]
  BY <1>2, <1>3
<1>5. /\ page'[e].expected = page[e].expected /\ page'[e].from = basis[e]
      /\ page'[e].ticked = Resets(e) /\ page'[e].meant = page[e].meant
      /\ page'[e].blind = page[e].blind /\ page'[e].named = page[e].named
      /\ page'[e].typed = page[e].typed /\ page'[e].input = page[e].input
      /\ page'[e].told = page[e].told
  BY <1>3, <1>4 DEF PageType
<1>6. basis[e] \in Versions /\ Resets(e) \subseteq page[e].ticked
  BY <1>1 DEF TypeOK, Resets
<1>7. page'[e] \in PageType
  BY <1>3, <1>4, <1>6 DEF PageType
<1>8. Moves(e)
  BY <1>1, <1>2, <1>4, <1>7, StandsStill, AnsweredType DEF Moves, TypeOK, PcType
<1>9. Boxes(e, page[e].from)' = Boxes(e, basis[e])
  BY <1>1, <1>2, <1>5 DEF Boxes, Fields, db
<1>10. page[e].expected <= basis[e]
  <2>1. page[e].expected \in Nat /\ page[e].from \in Nat /\ basis[e] \in Nat
    BY <1>1, <1>3, <1>6, TypesGrow, StandsStill DEF PageType
  <2> QED
    BY <1>1, <1>2, <2>1 DEF PageIsBehind
<1>11. PageIsBehind(e)'
  BY <1>1, <1>4, <1>5, <1>9, <1>10 DEF PageIsBehind, Resets
<1>12. LeftAlone(e)'
  <2>1. pc[e] = "posted" /\ pc'[e] = "open" /\ Fields(e)' = Fields(e)
    BY <1>2, <1>4 DEF Fields
  <2>2. Kept(e)' /\ \A v : Told(e, v)' = Told(e, v)
    BY <1>1, <1>5, <2>1, StandsStill DEF LeftAlone, Kept, Told
  <2>3. page[e].blind \/ Told(e, page[e].expected)
    BY <1>1, <2>1 DEF LeftAlone, ToldOfPage
  <2> QED
    BY <1>5, <2>1, <2>2, <2>3 DEF LeftAlone, ToldOfPage
<1> QED
  BY <1>8, <1>11, <1>12 DEF Safe

\* The form of a POST that comes too late keeps its version; the conflict has it.
LEMMA ConflictSafe ==
    ASSUME IInv, NEW e \in Editors, Conflict(e)
    PROVE  Moves(e) /\ Safe(e)'
<1>1. /\ TypeOK /\ UNCHANGED db /\ PageIsBehind(e) /\ LeftAlone(e) /\ version \in Versions
  BY EditingAssumption DEF IInv, Conflict, PagesBehind, UntouchedKept, TypeOK, Versions
<1>2. /\ pc[e] = "posted" /\ pc' = [pc EXCEPT ![e] = "conflict"]
      /\ conflict' = [conflict EXCEPT ![e] = [expected |-> page[e].expected, actual |-> version]]
      /\ UNCHANGED <<site, page, basis>>
  BY DEF Conflict, Goto
<1>3. page[e].expected \in Versions
  BY <1>1 DEF TypeOK, PageType
<1>4. /\ pc'[e] = "conflict"
      /\ conflict'[e] = [expected |-> page[e].expected, actual |-> version]
      /\ conflict'[e] \in ConflictType
  BY <1>1, <1>2, <1>3 DEF TypeOK, ConflictType
<1>5. Moves(e)
  BY <1>1, <1>2, <1>4, StandsStill DEF Moves, TypeOK, PcType
<1>6. PageIsBehind(e)'
  BY <1>1, <1>2, <1>4 DEF PageIsBehind, Boxes, Fields, db
<1>7. LeftAlone(e)'
  BY <1>1, <1>2, <1>4, StandsStill DEF LeftAlone, Kept, Told, ToldOfPage, Fields
<1> QED
  BY <1>5, <1>6, <1>7 DEF Safe

\* Whoever goes away leaves nothing behind.
LEMMA LeaveSafe ==
    ASSUME IInv, NEW e \in Editors, Leave(e)
    PROVE  Moves(e) /\ Safe(e)'
<1>1. TypeOK /\ UNCHANGED db /\ Close(e) /\ Answered(e) /\ UNCHANGED site
  BY DEF IInv, Leave
<1>2. Moves(e)
  BY <1>1, ClosedSafe, AnsweredType, StandsStill DEF Moves, TypeOK, PcType
<1> QED
  BY <1>1, <1>2, ClosedSafe

\* A notice names what moved between the two versions of the conflict, or leaves
\* the page blind.
LEMMA NoticeSafe ==
    ASSUME IInv, NEW e \in Editors, Notice(e)
    PROVE  Moves(e) /\ Safe(e)'
<1> DEFINE found == {conflict[e].expected, conflict[e].actual} \subseteq kept
           names == IF found THEN Moved(e) ELSE {}
           named == page[e].named \cup names
           told == [k \in Keys |-> IF k \in names THEN Value(conflict[e].actual, k)
                                  ELSE page[e].told[k]]
           gone == page[e].blind \/ ~ found
<1>1. TypeOK /\ UNCHANGED db /\ PageIsBehind(e) /\ LeftAlone(e)
  BY DEF IInv, Notice, PagesBehind, UntouchedKept
<1>2. /\ page' = [page EXCEPT ![e].named = named, ![e].told = told, ![e].blind = gone]
      /\ UNCHANGED <<site, basis, conflict>>
      /\ \/ Goto(e, "rebound", "open")
         \/ Goto(e, "conflict", "noticed")
  BY DEF Notice
<1>3. page[e] \in PageType /\ page \in [Editors -> PageType] /\ pc \in [Editors -> PcType]
  BY <1>1 DEF TypeOK, PcType
<1>4. PICK to \in PcType : /\ pc' = [pc EXCEPT ![e] = to] /\ pc'[e] = to
                           /\ \/ pc[e] = "rebound" /\ to = "open"
                              \/ pc[e] = "conflict" /\ to = "noticed"
  BY <1>2, <1>3 DEF Goto, PcType
<1>5. Fields(e) \subseteq Keys /\ names \subseteq Fields(e)
  BY <1>1, FormDeclared DEF Moved
<1>6. named \subseteq Keys /\ gone \in BOOLEAN
  BY <1>3, <1>5 DEF PageType
<1>7. told \in Content
  <2>1. documents[conflict[e].actual].values \in Content
    BY <1>1 DEF TypeOK, Document
  <2> QED
    BY <1>3, <2>1 DEF PageType, Content, Value
<1>8. \A k \in Fields(e) : /\ k \in names => told[k] = Value(conflict[e].actual, k)
                           /\ k \notin names => told[k] = page[e].told[k]
  BY <1>5
<1>9. ~ gone => /\ ~ page[e].blind
                /\ \A k \in Fields(e) : k \notin names =>
                        Value(conflict[e].expected, k) = Value(conflict[e].actual, k)
  BY DEF Moved
<1>10. names \subseteq named /\ page[e].named \subseteq named
  OBVIOUS
<1> HIDE DEF names, named, told, gone
<1>11. /\ page' = [page EXCEPT ![e] = page'[e]]
       /\ page'[e] = [page[e] EXCEPT !.named = named, !.told = told, !.blind = gone]
  BY <1>2, <1>3
<1>12. /\ page'[e].expected = page[e].expected /\ page'[e].from = page[e].from
       /\ page'[e].ticked = page[e].ticked /\ page'[e].meant = page[e].meant
       /\ page'[e].blind = gone /\ page'[e].named = named /\ page'[e].told = told
       /\ page'[e].typed = page[e].typed /\ page'[e].input = page[e].input
       /\ page'[e] \in PageType
  BY <1>3, <1>6, <1>7, <1>11 DEF PageType
<1>13. Moves(e)
  BY <1>1, <1>2, <1>4, <1>11, <1>12, StandsStill DEF Moves, TypeOK, ConflictType
<1>14. Fields(e)' = Fields(e) /\ Boxes(e, page[e].from)' = Boxes(e, page[e].from)
  BY <1>1, <1>2, <1>12 DEF Boxes, Fields, db
<1>15. PageIsBehind(e)'
  BY <1>1, <1>2, <1>4, <1>12, <1>14 DEF PageIsBehind
<1>16. Kept(e)'
  BY <1>1, <1>8, <1>10, <1>12, <1>14 DEF Kept, LeftAlone
<1>17. ToldOfPage(e)'
  <2>1. CASE gone
    BY <1>12, <2>1 DEF ToldOfPage
  <2>2. CASE ~ gone
    <3>1. Told(e, conflict[e].expected)
      BY <1>1, <1>4, <1>9, <2>2 DEF LeftAlone, ToldOfPage, PageIsBehind
    <3>2. \A k \in Fields(e) : told[k] = Value(conflict[e].actual, k)
      BY <1>8, <1>9, <2>2, <3>1 DEF Told
    <3>3. Told(e, conflict[e].actual)'
      BY <1>1, <1>2, <1>12, <1>14, <3>2, StandsStill DEF Told
    <3>4. pc[e] = "rebound" => page'[e].expected = conflict'[e].actual
      BY <1>1, <1>2, <1>12 DEF PageIsBehind
    <3> QED
      BY <1>4, <3>3, <3>4 DEF ToldOfPage
  <2> QED
    BY <2>1, <2>2
<1> QED
  BY <1>13, <1>15, <1>16, <1>17 DEF Safe, LeftAlone

\* A form bound again has the version of the conflict and the boxes of its document.
LEMMA RebindSafe ==
    ASSUME IInv, NEW e \in Editors, Rebind(e)
    PROVE  Moves(e) /\ Safe(e)'
<1> DEFINE v == conflict[e].actual
           boxes == page[e].ticked \cap Boxes(e, v)
<1>1. TypeOK /\ UNCHANGED db /\ PageIsBehind(e) /\ LeftAlone(e) /\ v \in Versions
  BY DEF IInv, Rebind, PagesBehind, UntouchedKept, TypeOK
<1>2. /\ page' = [page EXCEPT ![e].expected = v, ![e].from = v, ![e].ticked = boxes]
      /\ UNCHANGED <<site, basis, conflict>>
      /\ \/ Goto(e, "conflict", "rebound")
         \/ Goto(e, "noticed", "open")
  BY DEF Rebind, Again
<1>3. page[e] \in PageType /\ page \in [Editors -> PageType] /\ pc \in [Editors -> PcType]
  BY <1>1 DEF TypeOK, PcType
<1>4. PICK to \in PcType : /\ pc' = [pc EXCEPT ![e] = to] /\ pc'[e] = to
                           /\ \/ pc[e] = "conflict" /\ to = "rebound"
                              \/ pc[e] = "noticed" /\ to = "open"
  BY <1>2, <1>3 DEF Goto, PcType
<1>5. boxes \subseteq page[e].ticked
  OBVIOUS
<1>6. /\ page' = [page EXCEPT ![e] = page'[e]]
      /\ page'[e] = [page[e] EXCEPT !.expected = v, !.from = v, !.ticked = boxes]
  BY <1>2, <1>3
<1>7. /\ page'[e].expected = v /\ page'[e].from = v
      /\ page'[e].ticked = boxes /\ page'[e].meant = page[e].meant
      /\ page'[e].blind = page[e].blind /\ page'[e].named = page[e].named
      /\ page'[e].typed = page[e].typed /\ page'[e].input = page[e].input
      /\ page'[e].told = page[e].told /\ page'[e] \in PageType
  BY <1>1, <1>3, <1>5, <1>6 DEF PageType
<1>8. Moves(e)
  BY <1>1, <1>2, <1>4, <1>6, <1>7, StandsStill DEF Moves, TypeOK, ConflictType
<1>9. Fields(e)' = Fields(e) /\ Boxes(e, page[e].from)' = Boxes(e, v)
  BY <1>1, <1>2, <1>7 DEF Boxes, Fields, db
<1>10. boxes \subseteq Boxes(e, v) \cap page[e].meant
  BY <1>1 DEF PageIsBehind
<1>11. v \in Nat
  BY <1>1, StandsStill, TypesGrow
<1>12. PageIsBehind(e)'
  <2>1. conflict'[e].actual = v /\ pc'[e] \in {"rebound", "open"}
    BY <1>2, <1>4
  <2>2. page'[e].expected <= page'[e].from /\ page'[e].expected = v
    BY <1>7, <1>11
  <2>3. page'[e].ticked \subseteq Boxes(e, page[e].from)' \cap page'[e].meant
    BY <1>7, <1>9, <1>10
  <2> QED
    BY <2>1, <2>2, <2>3 DEF PageIsBehind
<1>13. LeftAlone(e)'
  <2>1. Kept(e)' /\ \A x : Told(e, x)' = Told(e, x)
    BY <1>1, <1>7, <1>9, StandsStill DEF LeftAlone, Kept, Told
  <2>2. CASE page[e].blind
    BY <1>7, <2>1, <2>2 DEF LeftAlone, ToldOfPage
  <2>3. CASE ~ page[e].blind
    <3>1. \/ pc[e] = "conflict" /\ Told(e, conflict[e].expected)
          \/ pc[e] = "noticed" /\ Told(e, v)
      BY <1>1, <1>4, <2>3 DEF LeftAlone, ToldOfPage, PageIsBehind
    <3> QED
      BY <1>2, <1>4, <1>7, <2>1, <3>1 DEF LeftAlone, ToldOfPage
  <2> QED
    BY <2>2, <2>3
<1> QED
  BY <1>8, <1>12, <1>13 DEF Safe

\* After a save the page is closed, fresh at the new version, or as it was.
LEMMA SaveSafe ==
    ASSUME IInv, NEW e \in Editors, Save(e)
    PROVE  Grows /\ Moves(e) /\ Safe(e)'
<1>1. /\ TypeOK /\ OverridesAreClean /\ Write(Changes(e)) /\ Answered(e) /\ UNCHANGED site
      /\ pc[e] = "posted" /\ FormValid(e)
  BY DEF IInv, Save
<1>2. Grows
  BY <1>1, FormChanges, WriteGrows
<1>3. /\ PageType \subseteq PageType' /\ ConflictType \subseteq ConflictType'
      /\ Versions \subseteq Versions' /\ version \in Nat
  BY <1>1, <1>2, TypesGrow
<1>4. /\ basis' = [basis EXCEPT ![e] = basis'[e]] /\ basis'[e] \in Versions'
      /\ conflict' = [conflict EXCEPT ![e] = conflict'[e]] /\ conflict'[e] \in ConflictType'
  BY <1>1, <1>3, AnsweredType
<1>5. site' = [site EXCEPT ![e] = site'[e]] /\ site'[e] \in Sites
  BY <1>1 DEF TypeOK
<1>6. CASE Close(e)
  <2>1. Moves(e)
    BY <1>1, <1>3, <1>4, <1>5, <1>6, ClosedSafe DEF Moves, PcType
  <2> QED
    BY <1>1, <1>2, <1>6, <2>1, ClosedSafe
<1>7. CASE /\ pc' = [pc EXCEPT ![e] = "open"]
           /\ page' = [page EXCEPT ![e] = Page(version', documents'[version'].values)]
  <2>1. version' \in Versions' /\ version' \in Nat /\ documents' \in [Versions' -> Document]
    BY <1>2, <1>3 DEF Grows, Versions
  <2>2. documents'[version'].values \in Content
    BY <2>1 DEF Document
  <2>3. Page(version', documents'[version'].values) \in PageType'
    BY <2>1, <2>2 DEF Page, PageType
  <2>4. pc'[e] = "open" /\ page'[e] = Page(version', documents'[version'].values)
    BY <1>1, <1>7 DEF TypeOK
  <2>5. Moves(e)
    BY <1>4, <1>5, <1>7, <2>3, <2>4 DEF Moves, PcType
  <2>6. PageIsBehind(e)'
    BY <2>1, <2>4 DEF PageIsBehind, Page
  <2>7. LeftAlone(e)'
    BY <2>4 DEF LeftAlone, Kept, Told, ToldOfPage, Page, Value
  <2> QED
    BY <1>2, <2>5, <2>6, <2>7 DEF Safe
<1>8. CASE pc' = [pc EXCEPT ![e] = "open"] /\ UNCHANGED page
  <2>1. pc'[e] = "open" /\ page' = [page EXCEPT ![e] = page'[e]] /\ page'[e] \in PageType'
    BY <1>1, <1>3, <1>8 DEF TypeOK
  <2>2. Moves(e)
    BY <1>4, <1>5, <1>8, <2>1 DEF Moves, PcType
  <2>3. Safe(e)'
    BY <1>1, <1>2, <1>8, <2>1, Undisturbed
  <2> QED
    BY <1>2, <2>2, <2>3
<1> QED
  BY <1>6, <1>7, <1>8 DEF Save

---------------------------------------------------------------------------
(* The invariant.                                                          *)

\* An operator's step, and what it may do to the database.
Acts(e) ==
    \/ Show(e) \/ Post(e) \/ Refuse(e) \/ Save(e) \/ Conflict(e)
    \/ Notice(e) \/ Rebind(e) \/ Leave(e)
    \/ \E k \in Fields(e) : \/ Tick(e, k) \/ Untick(e, k)
                             \/ \E v \in Values \cup {Absent} : Type(e, k, v)

\* Only a save touches the database, and only the operator's own page moves.
LEMMA ActsSafe ==
    ASSUME IInv, NEW e \in Editors, Acts(e)
    PROVE  /\ UNCHANGED db \/ (Save(e) /\ Grows)
           /\ Moves(e) /\ Safe(e)'
<1>1. Show(e) \/ Post(e) \/ Refuse(e) => UNCHANGED db
  BY DEF Show, Post, Refuse
<1>2. Conflict(e) \/ Notice(e) \/ Rebind(e) \/ Leave(e) => UNCHANGED db
  BY DEF Conflict, Notice, Rebind, Leave
<1>3. CASE Show(e)
  BY <1>1, <1>3, ShowSafe
<1>4. CASE Post(e)
  BY <1>1, <1>4, PostSafe
<1>5. CASE Refuse(e)
  BY <1>1, <1>5, RefuseSafe
<1>6. CASE Conflict(e)
  BY <1>2, <1>6, ConflictSafe
<1>7. CASE Notice(e)
  BY <1>2, <1>7, NoticeSafe
<1>8. CASE Rebind(e)
  BY <1>2, <1>8, RebindSafe
<1>9. CASE Leave(e)
  BY <1>2, <1>9, LeaveSafe
<1>10. CASE Save(e)
  BY <1>10, SaveSafe
<1>11. ASSUME NEW k \in Fields(e), Tick(e, k) \/ Untick(e, k)
      PROVE  UNCHANGED db /\ Moves(e) /\ Safe(e)'
  <2>1. UNCHANGED db
    BY <1>11 DEF Tick, Untick
  <2> QED
    BY <1>11, <2>1, TickSafe
<1>12. ASSUME NEW k \in Fields(e), NEW v \in Values \cup {Absent}, Type(e, k, v)
       PROVE  UNCHANGED db /\ Moves(e) /\ Safe(e)'
  <2>1. UNCHANGED db
    BY <1>12 DEF Type
  <2> QED
    BY <1>12, <2>1, TypeSafe
<1> QED
  BY <1>3, <1>4, <1>5, <1>6, <1>7, <1>8, <1>9, <1>10, <1>11, <1>12 DEF Acts

\* A step of anyone else leaves all pages and adds a version, prunes, or stutters.
LEMMA OthersSafe ==
    ASSUME IInv, Overwrite \/ Prune \/ UNCHANGED vars
    PROVE  (Keeps \/ Grows) /\ UNCHANGED forms
<1>1. CASE Overwrite
  <2>1. PICK changes \in Requests : Write(changes)
    BY <1>1 DEF Overwrite
  <2>2. WellFormed(changes)
    BY EditingAssumption DEF WellFormed
  <2> QED
    BY <1>1, <2>1, <2>2, WriteGrows DEF IInv, Overwrite
<1>2. CASE Prune
  BY <1>2 DEF Prune, Keeps
<1>3. CASE UNCHANGED vars
  BY <1>3 DEF vars, db, Keeps
<1> QED
  BY <1>1, <1>2, <1>3

\* The database keeps its part of the invariant.
LEMMA DatabaseSafe ==
    ASSUME IInv, Keeps \/ Grows
    PROVE  /\ DocumentIsCurrent' /\ OverridesAreClean'
           /\ version' \in 0..MaxVersion /\ overrides' \in Content
           /\ documents' \in [Versions' -> Document] /\ kept' \subseteq Versions'
<1>1. CASE Keeps
  BY <1>1 DEF Keeps, IInv, TypeOK, DocumentIsCurrent, OverridesAreClean, Versions
<1>2. CASE Grows
  BY <1>2 DEF Grows, DocumentIsCurrent, Versions
<1> QED
  BY <1>1, <1>2

\* One page moved.
LEMMA OneMoved ==
    ASSUME IInv, Keeps \/ Grows, NEW e \in Editors, Moves(e), Safe(e)'
    PROVE  IInv'
<1>1. TypeOK
  BY DEF IInv
<1>2. /\ PageType \subseteq PageType' /\ ConflictType \subseteq ConflictType'
      /\ Versions \subseteq Versions'
  BY <1>1, TypesGrow
<1>3. ASSUME NEW d \in Editors, d # e
      PROVE  /\ pc'[d] = pc[d] /\ site'[d] = site[d] /\ page'[d] = page[d]
             /\ basis'[d] = basis[d] /\ conflict'[d] = conflict[d]
  BY <1>1, <1>3 DEF Moves, TypeOK
<1>4. \A d \in Editors : Safe(d)'
  BY <1>3, Undisturbed
<1>5. /\ pc' \in [Editors -> PcType] /\ site' \in [Editors -> Sites]
      /\ page' \in [Editors -> PageType'] /\ basis' \in [Editors -> Versions']
      /\ conflict' \in [Editors -> ConflictType']
  BY <1>1, <1>2 DEF Moves, TypeOK, PcType, ConflictType
<1>6. TypeOK'
  BY <1>5, DatabaseSafe DEF TypeOK, PcType, ConflictType
<1> QED
  BY <1>4, <1>6, DatabaseSafe DEF IInv, Safe, PagesBehind, UntouchedKept

\* No page moved.
LEMMA NoneMoved ==
    ASSUME IInv, Keeps \/ Grows, UNCHANGED forms
    PROVE  IInv'
<1>1. TypeOK
  BY DEF IInv
<1>2. /\ PageType \subseteq PageType' /\ ConflictType \subseteq ConflictType'
      /\ Versions \subseteq Versions'
  BY <1>1, TypesGrow
<1>3. \A d \in Editors : Safe(d)'
  BY Undisturbed DEF forms
<1>4. TypeOK'
  BY <1>1, <1>2, DatabaseSafe DEF TypeOK, forms, ConflictType
<1> QED
  BY <1>3, <1>4, DatabaseSafe DEF IInv, Safe, PagesBehind, UntouchedKept

\* A step of an operator or of anyone else.
LEMMA Steps ==
    ASSUME [Next]_vars
    PROVE  (\E e \in Editors : Acts(e)) \/ Overwrite \/ Prune \/ UNCHANGED vars
BY DEF Next, Acts

\* It holds at first.
LEMMA InitInv == Init => IInv
<1> SUFFICES ASSUME Init
             PROVE  IInv
  OBVIOUS
<1>1. Empty \in Content /\ Empty = [k \in Keys |-> Absent]
  BY DEF Empty, Content
<1>2. BuildDocument(Release, Empty) \in Document
  BY <1>1, DocumentType, EditingAssumption
<1>3. version = 0 /\ Versions = {0} /\ MaxVersion \in Nat
  BY EditingAssumption DEF Init, Versions
<1>4. NoPage \in PageType /\ NoConflict \in ConflictType
  <2>1. BuildDocument(Release, Empty).values \in Content
    BY <1>2 DEF Document
  <2> QED
    BY <1>3, <2>1 DEF NoPage, Page, PageType, NoConflict, ConflictType
<1>5. TypeOK
  BY <1>1, <1>2, <1>3, <1>4 DEF Init, TypeOK, ConflictType
<1>6. DocumentIsCurrent /\ OverridesAreClean
  BY <1>1, <1>3 DEF Init, DocumentIsCurrent, OverridesAreClean
<1>7. PagesBehind
  BY <1>3 DEF Init, PagesBehind, PageIsBehind, NoPage, Page
<1>8. UntouchedKept
  BY DEF Init, UntouchedKept, LeftAlone, Kept, ToldOfPage, NoPage, Page
<1> QED
  BY <1>5, <1>6, <1>7, <1>8 DEF IInv

\* Every step keeps it.
LEMMA NextInv == IInv /\ [Next]_vars => IInv'
<1> SUFFICES ASSUME IInv, [Next]_vars
             PROVE  IInv'
  OBVIOUS
<1>1. ASSUME NEW e \in Editors, Acts(e)
      PROVE  IInv'
  <2>1. (UNCHANGED db \/ (Save(e) /\ Grows)) /\ Moves(e) /\ Safe(e)'
    BY <1>1, ActsSafe
  <2>2. Keeps \/ Grows
    BY <2>1, StandsStill
  <2> QED
    BY <2>1, <2>2, OneMoved
<1>2. CASE Overwrite \/ Prune \/ UNCHANGED vars
  BY <1>2, OthersSafe, NoneMoved
<1> QED
  BY <1>1, <1>2, Steps

\* The invariant holds of every behaviour.
THEOREM Invariance == Spec => []IInv
BY InitInv, NextInv, PTL DEF Spec

\* Every variable keeps its type.
THEOREM TypeCorrect == Spec => []TypeOK
<1>1. IInv => TypeOK
  BY DEF IInv
<1> QED
  BY <1>1, Invariance, PTL

---------------------------------------------------------------------------
(* What a save does.                                                       *)

\* Each change of an accepted request leaves the override it wants.
LEMMA WrittenAsWanted ==
    ASSUME TypeOK, NEW changes, WellFormed(changes), Write(changes), NEW i \in DOMAIN changes
    PROVE  /\ ~ FieldError(Release, changes[i]) /\ changes[i].key \in Keys
           /\ overrides'[changes[i].key] = Wanted(Release, changes[i])
<1> DEFINE stored == Known(Release, overrides)
           items == Prepared(Release, stored, changes)
           k == changes[i].key
           w == Wanted(Release, changes[i])
<1>1. Release \in Releases /\ overrides \in Content /\ stored \in Content
  BY EditingAssumption, KnownType DEF TypeOK
<1>2. ~ Rejected(Release, stored, changes) /\ overrides' = Proposed(overrides, items)
  BY DEF Write, Accepted
<1>3. ~ FieldError(Release, changes[i]) /\ k \in Keys /\ k \in KeysOf[Release]
  BY <1>2 DEF Rejected, FieldError, WellFormed, Change
<1>4. \A j \in DOMAIN changes : changes[j].key = k => j = i
  BY <1>2 DEF Rejected, Duplicated
<1>5. {j \in DOMAIN changes : changes[j].key = k /\ ~ FieldError(Release, changes[j])} = {i}
  BY <1>3, <1>4
<1>6. items[k] = IF w = stored[k] THEN NoItem ELSE [old |-> stored[k], new |-> w]
  BY <1>3, <1>5 DEF Prepared
<1>7. stored[k] = overrides[k]
  BY <1>3 DEF Known
<1>8. w \in Values \cup {Absent}
  BY <1>1, <1>3, WantedType DEF WellFormed
<1>9. [old |-> stored[k], new |-> w] # NoItem
  BY <1>1, <1>3, <1>8, CatalogueAssumption DEF Item, Content
<1> HIDE DEF items, stored, k, w
<1>10. overrides'[k] = w
  BY <1>2, <1>3, <1>6, <1>7, <1>9 DEF Proposed
<1> QED
  BY <1>3, <1>10 DEF k, w

\* The version of a POST's conflict, of its page and of the database at a save.
LEMMA SaveFacts ==
    ASSUME IInv, [Next]_vars, NEW e \in Editors, SavesNow(e)
    PROVE  /\ Save(e) /\ Grows /\ pc[e] = "posted" /\ FormValid(e) /\ Write(Changes(e))
           /\ page[e].expected = version /\ page[e].from = version /\ basis[e] = version
<1>1. pc[e] = "posted" /\ pc'[e] # pc[e] /\ version' # version
  BY DEF SavesNow
<1>2. PICK d \in Editors : Acts(d)
  <2>1. CASE Overwrite \/ Prune \/ UNCHANGED vars
    BY <1>1, <2>1, OthersSafe DEF forms
  <2> QED
    BY <2>1, Steps
<1>3. Save(d) /\ Grows /\ Moves(d)
  BY <1>1, <1>2, ActsSafe DEF db
<1>4. d = e
  BY <1>1, <1>3 DEF Moves, IInv, TypeOK
<1>5. FormValid(e) /\ Write(Changes(e)) /\ page[e].expected = version
  BY <1>3, <1>4 DEF Save
<1>6. page[e].expected <= page[e].from /\ page[e].from <= basis[e]
  BY <1>1 DEF IInv, PagesBehind, PageIsBehind
<1>7. page[e].from \in 0..version /\ basis[e] \in 0..version /\ version \in Nat
  BY EditingAssumption DEF IInv, TypeOK, PageType, Versions
<1>8. page[e].from = version /\ basis[e] = version
  BY <1>5, <1>6, <1>7
<1> QED
  BY <1>1, <1>3, <1>4, <1>5, <1>8

\* Unless a notice could name no key, the operator of a page that is saved has been
\* told of the stored value of each of its keys.
LEMMA SavedIsTold ==
    ASSUME IInv, [Next]_vars, NEW e \in Editors, SavesNow(e), ~ page[e].blind
    PROVE  Told(e, version)
<1>1. pc[e] = "posted" /\ page[e].expected = version
  BY SaveFacts
<1> QED
  BY <1>1 DEF IInv, UntouchedKept, LeftAlone, ToldOfPage

\* A save replaces only values that the operator was told of.
THEOREM ReplacedIsTold == Spec => OnlyToldIsReplaced
<1>1. ASSUME IInv, [Next]_vars, NEW e \in Editors, SavesNow(e), ~ page[e].blind,
             NEW k \in Fields(e)
      PROVE  page[e].told[k] = Value(version, k)
  BY <1>1, SavedIsTold DEF Told
<1>2. IInv /\ [Next]_vars =>
        [\A e \in Editors : SavesNow(e) =>
            page[e].blind \/ \A k \in Fields(e) : page[e].told[k] = Value(version, k)]_vars
  BY <1>1
<1> QED
  BY <1>2, Invariance, PTL DEF Spec, OnlyToldIsReplaced

\* A key that the operator left alone changes only when a notice named it, or
\* could name none.
THEOREM UntouchedStays == Spec => UntouchedIsNamed
<1>1. ASSUME IInv, [Next]_vars, NEW e \in Editors, SavesNow(e), NEW k \in Fields(e),
             k \notin page[e].typed \cup page[e].meant \cup page[e].named,
             ~ page[e].blind
      PROVE  overrides'[k] = overrides[k]
  <2> DEFINE d == DefaultOf[Release][k]
             change == Changes(e)[k]
  <2>1. /\ Write(Changes(e)) /\ TypeOK /\ pc[e] = "posted" /\ page[e].expected = version
        /\ DocumentIsCurrent /\ OverridesAreClean /\ PageIsBehind(e) /\ LeftAlone(e)
        /\ FormValid(e)
    BY <1>1, SaveFacts DEF IInv, PagesBehind, UntouchedKept
  <2>2. k \in Keys /\ k \in KeysOf[Release] /\ WellFormed(Changes(e)) /\ Release \in Releases
    BY <1>1, <2>1, FormDeclared, FormChanges, EditingAssumption
  <2>3. page[e].input[k] = Value(version, k)
    BY <1>1, <2>1, SavedIsTold DEF LeftAlone, Kept, Told
  <2>4. Value(version, k) = IF overrides[k] = Absent THEN d ELSE overrides[k]
    BY <2>1, <2>2 DEF Value, DocumentIsCurrent, BuildDocument
  <2>5. k \notin Resets(e)
    BY <1>1, <2>1 DEF Resets, PageIsBehind
  <2>6. change = [key |-> k, value |-> Clean[k][page[e].input[k]]]
    BY <1>1, <2>5 DEF Changes
  <2>7. /\ d \in Values /\ d # Absent /\ Canon[Release][k][d] = d
        /\ d \in Admitted[Release][k] /\ Clean[k][d] = d
    BY <2>2, CatalogueAssumption, DefaultAssumption, FieldAssumption
  <2>8. Wanted(Release, change) = overrides[k]
    <3>1. CASE overrides[k] = Absent
      BY <2>3, <2>4, <2>6, <2>7, <3>1 DEF Wanted
    <3>2. CASE overrides[k] # Absent
      <4>1. /\ Canon[Release][k][overrides[k]] = overrides[k] /\ overrides[k] # d
            /\ overrides[k] \in Admitted[Release][k] /\ overrides[k] \in Values
        BY <2>1, <2>2, <3>2 DEF OverridesAreClean, TypeOK, Content
      <4>2. Clean[k][overrides[k]] = overrides[k]
        BY <2>2, <4>1, FieldAssumption
      <4> QED
        BY <2>3, <2>4, <2>6, <3>2, <4>1, <4>2 DEF Wanted
    <3> QED
      BY <3>1, <3>2
  <2>9. k \in DOMAIN Changes(e) /\ change.key = k
    BY <1>1, <2>6 DEF Changes
  <2>10. overrides'[k] = Wanted(Release, change)
    BY <2>1, <2>2, <2>9, WrittenAsWanted
  <2> QED
    BY <2>8, <2>10
<1>2. IInv /\ [Next]_vars =>
        [\A e \in Editors : SavesNow(e) =>
            \A k \in Fields(e) : overrides'[k] # overrides[k] =>
                \/ k \in page[e].typed \cup page[e].meant \cup page[e].named
                \/ page[e].blind]_vars
  BY <1>1
<1> QED
  BY <1>2, Invariance, PTL DEF Spec, UntouchedIsNamed

\* A save leaves each key of the form as the operator submitted it.
THEOREM SavesWhatIsShown == Spec => SavedAsSubmitted
<1>1. ASSUME IInv, [Next]_vars, NEW e \in Editors, SavesNow(e), NEW k \in Fields(e)
      PROVE  IF k \in page[e].ticked THEN overrides'[k] = Absent
             ELSE documents'[version'].values[k] = Canon[Release][k][Clean[k][page[e].input[k]]]
  <2> DEFINE change == Changes(e)[k]
             c == Canon[Release][k][Clean[k][page[e].input[k]]]
  <2>1. /\ Write(Changes(e)) /\ TypeOK /\ FormValid(e) /\ PageIsBehind(e) /\ Grows
        /\ page[e].from = version /\ basis[e] = version
    BY <1>1, SaveFacts DEF IInv, PagesBehind
  <2>2. k \in Keys /\ k \in KeysOf[Release] /\ WellFormed(Changes(e)) /\ Release \in Releases
    BY <1>1, <2>1, FormDeclared, FormChanges, EditingAssumption
  <2>3. Resets(e) = page[e].ticked
    BY <2>1 DEF Resets, PageIsBehind
  <2>4. /\ k \in DOMAIN Changes(e)
        /\ change = [key |-> k, value |-> IF k \in page[e].ticked THEN Absent ELSE Clean[k][page[e].input[k]]]
    BY <1>1, <2>3 DEF Changes
  <2>5. ~ FieldError(Release, change) /\ overrides'[k] = Wanted(Release, change)
    BY <2>1, <2>2, <2>4, WrittenAsWanted
  <2>6. CASE k \in page[e].ticked
    BY <2>4, <2>5, <2>6 DEF Wanted
  <2>7. CASE k \notin page[e].ticked
    <3> DEFINE v == Clean[k][page[e].input[k]]
    <3>1. page[e].input[k] # Absent
      BY <1>1, <2>1, <2>3, <2>7 DEF FormValid
    <3>2. v \in Values
      <4>1. page[e].input[k] \in Values
        BY <2>1, <2>2, <3>1 DEF TypeOK, PageType, Content
      <4>2. v # Bad
        BY <1>1, <2>1, <2>3, <2>7, <3>1 DEF FormValid
      <4> QED
        BY <2>2, <4>1, <4>2, EditingAssumption
    <3>3. change.key = k /\ change.value = v /\ c = Canon[Release][k][v]
      BY <2>4, <2>7
    <3> HIDE DEF v, c, change
    <3>4. v # Absent
      BY <3>2, CatalogueAssumption
    <3>5. c \in Admitted[Release][k]
      BY <2>5, <3>3, <3>4 DEF FieldError, Valid
    <3>6. c \in Values /\ c # Absent
      BY <2>2, <3>5, CatalogueAssumption
    <3>7. overrides'[k] = IF c = DefaultOf[Release][k] THEN Absent ELSE c
      BY <2>5, <3>3, <3>4 DEF Wanted
    <3>8. documents'[version'].values[k] = IF overrides'[k] = Absent THEN DefaultOf[Release][k]
                                           ELSE overrides'[k]
      BY <2>1, <2>2 DEF Grows, BuildDocument
    <3>9. documents'[version'].values[k] = c
      BY <3>6, <3>7, <3>8
    <3> QED
      BY <2>7, <3>9 DEF c
  <2> QED
    BY <2>6, <2>7
<1>2. IInv /\ [Next]_vars =>
        [\A e \in Editors : SavesNow(e) =>
            \A k \in Fields(e) :
                IF k \in page[e].ticked THEN overrides'[k] = Absent
                ELSE documents'[version'].values[k] = Canon[Release][k][Clean[k][page[e].input[k]]]]_vars
  BY <1>1
<1> QED
  BY <1>2, Invariance, PTL DEF Spec, SavedAsSubmitted

===========================================================================
