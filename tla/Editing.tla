------------------------------ MODULE Editing ------------------------------
(***************************************************************************)
(* Optimistic concurrency as a person meets it: the form of the admin and  *)
(* of an embedded panel, with its hidden expected_version, the conflict,   *)
(* and the form that is bound again with a notice.  Everything happens     *)
(* under one release; the transaction of apply_changeset is one step.      *)
(***************************************************************************)
EXTENDS Catalogues, FiniteSets

CONSTANTS
    Editors,        \* operators, with one page each
    Sites,          \* the pages with a form: groups in the admin, panels
    Panels,         \* the sites that are embedded panels
    Demanding,      \* the sites whose form wants a reason
    FormKeys,       \* FormKeys[s]: the keys on the form of a site
    Clean,          \* Clean[k][v]: to_json of what the field makes of the text of v, or Bad
    Unchecked,      \* Unchecked[k]: what the field of k lets pass without validate()
    Requests,       \* what anyone without a page may write
    Release,        \* the code that runs
    MaxVersion      \* no change set has a higher version

VARIABLES
    version,        \* State.current_version
    overrides,      \* TunableValue rows
    documents,      \* the document of every version so far
    kept,           \* the versions whose Snapshot rows are left
    pc,             \* where the page of an editor is
    site,
    page,
    basis,          \* the version of the document a POST builds its form from
    conflict        \* the VersionConflict of that POST

db == <<version, overrides, documents, kept>>
forms == <<pc, site, page, basis, conflict>>
vars == <<db, forms>>

ASSUME EditingAssumption ==
    /\ Release \in Releases
    /\ Panels \subseteq Sites
    /\ Sites \ Panels \subseteq Demanding /\ Demanding \subseteq Sites
    /\ FormKeys \in [Sites -> SUBSET KeysOf[Release]]
    /\ Clean \in [KeysOf[Release] -> [Values -> Values \cup {Bad}]]
    /\ Unchecked \in [KeysOf[Release] -> SUBSET Values]
    /\ \A changes \in Requests : \A i \in DOMAIN changes : changes[i] \in Change
    /\ MaxVersion \in Nat

\* Defaults are coerced and validated when the catalogue is built.
ASSUME DefaultAssumption ==
    \A k \in KeysOf[Release] : LET d == DefaultOf[Release][k]
                               IN  Canon[Release][k][d] = d /\ d \in Admitted[Release][k]

\* The field of a key returns what it shows when that is a value that can be
\* stored.  (A CharField strips its text: a string that begins or ends with a
\* blank is outside this assumption.)
ASSUME FieldAssumption ==
    \A k \in KeysOf[Release] : \A v \in Values :
        Canon[Release][k][v] = v /\ v \in Admitted[Release][k] => Clean[k][v] = v

Value(v, k) == documents[v].values[k]

\* A form that is not bound: its fields have the values of version v, and there
\* is a reset box for an override.  from is the version that the boxes are of.
\* told, blind, typed, meant and named are history: the stored value of each key
\* that the page or a notice last told the operator of, whether a notice could
\* name no key, the keys that he filled in, those he wanted to reset, and those
\* that a notice named.
Page(v, values) ==
    [expected |-> v, from |-> v, input |-> values, ticked |-> {}, told |-> values,
     blind |-> FALSE, typed |-> {}, meant |-> {}, named |-> {}]

NoPage == Page(0, BuildDocument(Release, Empty).values)

Fields(e) == FormKeys[site[e]]

Boxes(e, v) == Fields(e) \cap documents[v].overridden

NoConflict == [expected |-> 0, actual |-> 0]

Init ==
    /\ version = 0
    /\ overrides = Empty
    /\ documents = [v \in {0} |-> BuildDocument(Release, Empty)]
    /\ kept = {0}
    /\ pc = [e \in Editors |-> "closed"]
    /\ site \in [Editors -> Sites]
    /\ page = [e \in Editors |-> NoPage]
    /\ basis = [e \in Editors |-> 0]
    /\ conflict = [e \in Editors |-> NoConflict]

\* apply_changeset once its expected version has been compared.
Accepted(changes) ==
    /\ ~ Rejected(Release, Known(Release, overrides), changes)
    /\ ~ NothingToChange(Release, Known(Release, overrides), changes)

\* Bug variant: the snapshot is not written.
SkippedWrite(changes) ==
    /\ version < MaxVersion
    /\ Accepted(changes)
    /\ version' = version + 1
    /\ overrides' = Proposed(overrides, Prepared(Release, Known(Release, overrides), changes))
    /\ UNCHANGED <<documents, kept>>

Write(changes) ==
    /\ version < MaxVersion
    /\ Accepted(changes)
    /\ version' = version + 1
    /\ overrides' = Proposed(overrides, Prepared(Release, Known(Release, overrides), changes))
    /\ documents' = [v \in 0..version + 1 |-> IF v <= version THEN documents[v]
                                              ELSE BuildDocument(Release, overrides')]
    /\ kept' = kept \cup {version + 1}

Goto(e, from, to) == pc[e] = from /\ pc' = [pc EXCEPT ![e] = to]

---------------------------------------------------------------------------
(* The operator.                                                           *)

Show(e) ==
    /\ pc[e] = "closed"
    /\ pc' = [pc EXCEPT ![e] = "open"]
    /\ \E s \in Sites : site' = [site EXCEPT ![e] = s]
    /\ page' = [page EXCEPT ![e] = Page(version, documents[version].values)]
    /\ UNCHANGED <<db, basis, conflict>>

\* Absent is an emptied field.
Type(e, k, v) ==
    /\ Goto(e, "open", "open")
    /\ page' = [page EXCEPT ![e].input[k] = v, ![e].typed = @ \cup {k}]
    /\ UNCHANGED <<db, site, basis, conflict>>

Tick(e, k) ==
    /\ Goto(e, "open", "open")
    /\ k \in Boxes(e, page[e].from)
    /\ page' = [page EXCEPT ![e].ticked = @ \cup {k}, ![e].meant = @ \cup {k}]
    /\ UNCHANGED <<db, site, basis, conflict>>

Untick(e, k) ==
    /\ Goto(e, "open", "open")
    /\ k \in page[e].ticked
    /\ page' = [page EXCEPT ![e].ticked = @ \ {k}, ![e].meant = @ \ {k}]
    /\ UNCHANGED <<db, site, basis, conflict>>

---------------------------------------------------------------------------
(* The POST.                                                               *)

\* The form is built from the latest document, whatever the page shows.
Post(e) ==
    /\ Goto(e, "open", "posted")
    /\ basis' = [basis EXCEPT ![e] = version]
    /\ UNCHANGED <<db, site, page, conflict>>

\* Only a box of the posted form is read.
Resets(e) == page[e].ticked \cap Boxes(e, basis[e])

\* Bug variant: the keys whose box is ticked are not in the change set.
UntickedChanges(e) ==
    [k \in Fields(e) \ Resets(e) |-> [key |-> k, value |-> Clean[k][page[e].input[k]]]]

\* changes(): one per key, filled in or not.
Changes(e) ==
    [k \in Fields(e) |->
        [key |-> k, value |-> IF k \in Resets(e) THEN Absent ELSE Clean[k][page[e].input[k]]]]

\* is_valid(): the text of a field must be a value even when the box is ticked;
\* form_field() has the type validate what the field has cleaned, which Django
\* leaves out for "", [] and {} and a custom type may leave out for all.  The
\* reason field is Unexplained.
FormValid(e) ==
    \A k \in Fields(e) :
        IF page[e].input[k] = Absent THEN k \in Resets(e)
        ELSE LET v == Clean[k][page[e].input[k]]
             IN  v # Bad /\ (v \in Unchecked[k] \/ Valid(Release, k, v))

\* The reason is an input of the POST that nothing stored depends on: where the
\* form wants one, the operator may have entered none.
Unexplained(e) == site[e] \in Demanding

\* The request is over, and what it read with it.
Answered(e) ==
    /\ basis' = [basis EXCEPT ![e] = 0]
    /\ conflict' = [conflict EXCEPT ![e] = NoConflict]

Close(e) ==
    /\ pc' = [pc EXCEPT ![e] = "closed"]
    /\ page' = [page EXCEPT ![e] = NoPage]

\* Bug variant: the hidden field gets the version of the document on display.
FreshRefuse(e) ==
    /\ Goto(e, "posted", "open")
    /\ \/ ~ FormValid(e) \/ Unexplained(e)
       \/ FormValid(e) /\ page[e].expected = version /\ ~ Accepted(Changes(e))
    /\ page' = [page EXCEPT ![e].from = basis[e], ![e].expected = basis[e],
                            ![e].ticked = Resets(e)]
    /\ Answered(e)
    /\ UNCHANGED <<db, site>>

\* The posted form comes back with its errors.  Its fields keep what was posted
\* (panel.html:19, form_rows.html:11), and its hidden version is the one it was
\* posted with; only its boxes are those of a newer document.
Refuse(e) ==
    /\ Goto(e, "posted", "open")
    /\ \/ ~ FormValid(e) \/ Unexplained(e)
       \/ FormValid(e) /\ page[e].expected = version /\ ~ Accepted(Changes(e))
    /\ page' = [page EXCEPT ![e].from = basis[e], ![e].ticked = Resets(e)]
    /\ Answered(e)
    /\ UNCHANGED <<db, site>>

\* A redirect; a panel again, at its new version; or an answer that is lost, and
\* the same page can be submitted once more.
Save(e) ==
    /\ pc[e] = "posted"
    /\ FormValid(e) /\ page[e].expected = version
    /\ Write(Changes(e))
    /\ \/ Close(e)
       \/ /\ site[e] \in Panels
          /\ pc' = [pc EXCEPT ![e] = "open"]
          /\ page' = [page EXCEPT ![e] = Page(version', documents'[version'].values)]
       \/ pc' = [pc EXCEPT ![e] = "open"] /\ UNCHANGED page
    /\ Answered(e)
    /\ UNCHANGED site

Conflict(e) ==
    /\ Goto(e, "posted", "conflict")
    /\ FormValid(e) /\ page[e].expected # version
    /\ conflict' = [conflict EXCEPT ![e] = [expected |-> page[e].expected, actual |-> version]]
    /\ UNCHANGED <<db, site, page, basis>>

---------------------------------------------------------------------------
(* After a conflict the admin words the notice and then binds the form     *)
(* again, and a panel the other way round.                                 *)

\* diff_versions, of the keys on the form.
Moved(e) ==
    {k \in Fields(e) : Value(conflict[e].expected, k) # Value(conflict[e].actual, k)}

\* conflict_text(): that a key has moved, not what to; without one of the
\* snapshots it names no key.
Notice(e) ==
    LET found == {conflict[e].expected, conflict[e].actual} \subseteq kept
        names == IF found THEN Moved(e) ELSE {}
    IN  /\ IF site[e] \in Panels THEN Goto(e, "rebound", "open") ELSE Goto(e, "conflict", "noticed")
        /\ page' = [page EXCEPT ![e].named = @ \cup names,
                                ![e].told = [k \in Keys |-> IF k \in names THEN Value(conflict[e].actual, k)
                                                                         ELSE @[k]],
                                ![e].blind = @ \/ ~ found]
        /\ UNCHANGED <<db, site, basis, conflict>>

Again(e) == IF site[e] \in Panels THEN Goto(e, "conflict", "rebound") ELSE Goto(e, "noticed", "open")

\* Bug variant: the hidden version is the newest by now.
LateRebind(e) ==
    /\ Again(e)
    /\ conflict[e].actual \in kept
    /\ page' = [page EXCEPT ![e].expected = version,
                            ![e].from = conflict[e].actual,
                            ![e].ticked = @ \cap Boxes(e, conflict[e].actual)]
    /\ UNCHANGED <<db, site, basis, conflict>>

\* rebound(): the same input, and the boxes of the conflicting version, whose values
\* are not rendered; a ticked box is lost with the override it was for.
Rebind(e) ==
    /\ Again(e)
    /\ conflict[e].actual \in kept
    /\ page' = [page EXCEPT ![e].expected = conflict[e].actual,
                            ![e].from = conflict[e].actual,
                            ![e].ticked = @ \cap Boxes(e, conflict[e].actual)]
    /\ UNCHANGED <<db, site, basis, conflict>>

\* Snapshot.DoesNotExist in rebound(), a request that dies, or an operator who
\* goes away.
Leave(e) ==
    /\ pc[e] # "closed"
    /\ Close(e)
    /\ Answered(e)
    /\ UNCHANGED <<db, site>>

---------------------------------------------------------------------------
(* Everybody else.                                                         *)

\* Writes without a form: they pass their own expected version or none.
Overwrite ==
    /\ \E changes \in Requests : Write(changes)
    /\ UNCHANGED forms

\* prune_snapshots removes an old version.
Prune ==
    /\ \E v \in kept \ {0, version} : kept' = kept \ {v}
    /\ UNCHANGED <<version, overrides, documents, forms>>

Next ==
    \/ \E e \in Editors :
        \/ Show(e) \/ Post(e) \/ Refuse(e) \/ Save(e) \/ Conflict(e)
        \/ Notice(e) \/ Rebind(e) \/ Leave(e)
        \/ \E k \in Fields(e) : Tick(e, k) \/ Untick(e, k) \/ \E v \in Values \cup {Absent} : Type(e, k, v)
    \/ Overwrite
    \/ Prune

Spec == Init /\ [][Next]_vars

---------------------------------------------------------------------------
(* Properties.                                                             *)

Versions == 0..version

PageType == [expected : Versions, from : Versions, input : Content,
             ticked : SUBSET Keys, told : Content, blind : BOOLEAN,
             typed : SUBSET Keys, meant : SUBSET Keys, named : SUBSET Keys]

\* The type of every variable.
TypeOK ==
    /\ version \in 0..MaxVersion
    /\ overrides \in Content
    /\ documents \in [Versions -> Document]
    /\ kept \subseteq Versions
    /\ pc \in [Editors -> {"closed", "open", "posted", "conflict", "noticed", "rebound"}]
    /\ site \in [Editors -> Sites]
    /\ page \in [Editors -> PageType]
    /\ basis \in [Editors -> Versions]
    /\ conflict \in [Editors -> [expected : Versions, actual : Versions]]

SavesNow(e) == pc[e] = "posted" /\ pc'[e] # "posted" /\ version' # version

\* "A value that changed while the page was open is caught ...: the input is kept,
\* the version is bumped, and a notice names the keys that moved"
\* (docs/embedding.md:65-67).  After a conflict the page no longer shows what is
\* stored, so the notices have to make up for it: what a save replaces is the value
\* that the unbound form had shown, or the one that a key had moved to when the last
\* notice named it, unless some notice could name none because a snapshot is gone.
OnlyToldIsReplaced ==
    [][\A e \in Editors : SavesNow(e) =>
        page[e].blind \/ \A k \in Fields(e) : page[e].told[k] = Value(version, k)]_vars

\* The form sends every key it has, with the input of a page that may be many
\* versions old.  A key that the operator left alone still changes only when a
\* notice has named it to him, or could name none (forms.py:59, 108).
UntouchedIsNamed ==
    [][\A e \in Editors : SavesNow(e) =>
        \A k \in Fields(e) : overrides'[k] # overrides[k] =>
            \/ k \in page[e].typed \cup page[e].meant \cup page[e].named
            \/ page[e].blind]_vars

\* A save leaves what was submitted: each key of the form with the value that its
\* field and its type make of the text, or without an override if its box was
\* ticked, although the boxes of a POST are those of a newer document (forms.py:177).
SavedAsSubmitted ==
    [][\A e \in Editors : SavesNow(e) =>
        \A k \in Fields(e) :
            IF k \in page[e].ticked THEN overrides'[k] = Absent
            ELSE documents'[version'].values[k] = Canon[Release][k][Clean[k][page[e].input[k]]]]_vars

===========================================================================
