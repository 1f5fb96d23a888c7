-------------------------------- MODULE Api --------------------------------
(***************************************************************************)
(* The HTTP API over the store: a client reads a document, keeps it with   *)
(* its ETag, asks again with If-None-Match, tries changes in a dry run and *)
(* writes with If-Match; an admin rolls back.  Every query of a request is *)
(* a step of its own, and the transactions are those of Store.             *)
(*                                                                         *)
(* Workers share nothing but the database, so each process serves one      *)
(* client, and a request dies with its process.                            *)
(***************************************************************************)
EXTENDS Store

CONSTANTS
    Shown,          \* Shown[p]: the keys at the URL p's client reads
    ByName,         \* the clients whose URL names keys, not a group or everything
    Editable,       \* Editable[p]: what EDITABLE_GROUPS answers for its requests
    Admins          \* the processes that also serve the admin's rollback

VARIABLES
    stage,          \* where the request a process serves stands
    tag,            \* its If-Match or If-None-Match; NoVersion without one
    target,         \* the version an admin rolls back to
    reply,          \* what has been read and computed for the answer
    copy            \* the client's copy of the document, under its ETag

request == <<stage, tag, target, reply>>
apiVars == <<vars, request, copy>>

ASSUME ApiAssumption ==
    /\ Shown \in [Procs -> SUBSET Keys]
    /\ ByName \subseteq Procs
    /\ Editable \in [Procs -> SUBSET Groups]
    /\ Admins \subseteq Procs

Status == {"none", "ok", "unchanged", "written", "valid", "forbidden", "unknown",
           "conflict", "invalid", "unsynced"}

NoReply == [status |-> "none", version |-> NoVersion, values |-> Empty,
            changes |-> <<>>]

ApiInit ==
    /\ Init
    /\ stage = [p \in Procs |-> "idle"]
    /\ tag = [p \in Procs |-> NoVersion]
    /\ target = [p \in Procs |-> NoVersion]
    /\ reply = [p \in Procs |-> NoReply]
    /\ copy = [p \in Procs |-> [version |-> NoVersion, values |-> Empty]]

To(p, s) == stage' = [stage EXCEPT ![p] = s]

Going(p, s, r) == To(p, s) /\ reply' = [reply EXCEPT ![p] = r]

Answer(p, r) == Going(p, "answering", r) /\ UNCHANGED <<tag, target>>

Fails(p, status) == Answer(p, [reply[p] EXCEPT !.status = status])

\* The request is over.
End(p) ==
    /\ Going(p, "idle", NoReply)
    /\ tag' = [tag EXCEPT ![p] = NoVersion]
    /\ target' = [target EXCEPT ![p] = NoVersion]

\* A request comes in, with the ETag of the client's copy or without.
Ask(p) ==
    /\ stage[p] = "idle" /\ pc[p] = "idle"
    /\ \E t \in {NoVersion, copy[p].version} : tag' = [tag EXCEPT ![p] = t]
    /\ UNCHANGED <<vars, target, copy>>

---------------------------------------------------------------------------
(* GET: latest_snapshot is two queries, the version and then its snapshot. *)
(* It is answered out of sync too.                                         *)

AskGet(p) ==
    /\ Ask(p)
    /\ IF version = NoVersion
       THEN Going(p, "answering", [NoReply EXCEPT !.status = "unsynced"])
       ELSE Going(p, "reading", [NoReply EXCEPT !.version = version])

\* A key by name that the document does not have; a group it does not have.
Unknown(p, document) ==
    IF p \in ByName
    THEN \E k \in Shown[p] : document.values[k] = Absent
    ELSE \A k \in Shown[p] : document.values[k] = Absent

\* Bug variant: the ETag of the current version, not of the document.
FreshEtag(p) == version

Etag(p) == reply[p].version

Page(p, document) ==
    [status  |-> IF Unknown(p, document) THEN "unknown"
                 ELSE IF tag[p] = Etag(p) THEN "unchanged" ELSE "ok",
     version |-> Etag(p),
     values  |-> [k \in Keys |-> IF k \in Shown[p] THEN document.values[k] ELSE Absent],
     changes |-> <<>>]

\* Without its snapshot the request ends in Snapshot.DoesNotExist.
Read(p) ==
    /\ stage[p] = "reading"
    /\ IF reply[p].version \in DOMAIN snapshots
       THEN Answer(p, Page(p, snapshots[reply[p].version]))
       ELSE End(p)
    /\ UNCHANGED <<vars, copy>>

---------------------------------------------------------------------------
(* Writes: initial checks the catalogue, the view computes the changes,    *)
(* write checks the groups and calls apply_changeset.                      *)

AskWrite(p) ==
    /\ Ask(p)
    /\ version < MaxVersion
    /\ IF OutOfSync(p)
       THEN Going(p, "answering", [NoReply EXCEPT !.status = "unsynced"])
       ELSE Going(p, "received", NoReply)

\* check_editable.
MayEdit(p, changes) == \A i \in DOMAIN changes : GroupOf[changes[i].key] \in Editable[p]

BeginWrite(p) == BeginApply(p) \/ BeginRollback(p) \/ BeginImport(p)

\* Bug variant: the groups of a computed rollback are not checked.
TrustingSubmit(p) ==
    /\ stage[p] = "received"
    /\ BeginWrite(p)
    /\ call'[p].expected = tag[p]
    /\ call'[p].source = "rollback" \/ MayEdit(p, call'[p].changes)
    /\ To(p, "calling")
    /\ UNCHANGED <<tag, target, reply, copy>>

Submit(p) ==
    /\ stage[p] = "received"
    /\ BeginWrite(p)
    /\ call'[p].expected = tag[p]
    /\ MayEdit(p, call'[p].changes)
    /\ To(p, "calling")
    /\ UNCHANGED <<tag, target, reply, copy>>

Forbidden(p) ==
    \/ \E changes \in Requests : ~MayEdit(p, changes)
    \/ \E v \in DOMAIN snapshots :
          ~MayEdit(p, RollbackChanges(release[p], overrides, snapshots[v]))
    \/ \E document \in Documents, replace \in BOOLEAN :
          ~MayEdit(p, ImportChanges(release[p], overrides, document, replace))

\* Refused before the service is called: a group the client may not write, a
\* rollback to a version without a snapshot, a document of another format.
Decline(p) ==
    /\ stage[p] = "received"
    /\ \/ Forbidden(p) /\ Fails(p, "forbidden")
       \/ (\E v \in 0..version : v \notin DOMAIN snapshots) /\ Fails(p, "unknown")
       \/ (\E document \in Documents, strict \in BOOLEAN :
              ImportRejected(release[p], document, strict)) /\ Fails(p, "invalid")
    /\ UNCHANGED <<vars, copy>>

\* A dry run compares the versions itself, in a query of its own.
DryRun(p) ==
    /\ stage[p] = "received"
    /\ \E changes \in Requests :
        /\ MayEdit(p, changes)
        /\ IF tag[p] \in {NoVersion, version}
           THEN /\ Going(p, "checking", [reply[p] EXCEPT !.changes = changes])
                /\ UNCHANGED <<tag, target>>
           ELSE Fails(p, "conflict")
    /\ UNCHANGED <<vars, copy>>

\* validate: without the lock, and without a look at the stored catalogue.
DryValidate(p) ==
    LET stored == Known(release[p], overrides) IN
    /\ stage[p] = "checking"
    /\ Fails(p, IF \/ Rejected(release[p], stored, reply[p].changes)
                   \/ NothingToChange(release[p], stored, reply[p].changes)
                THEN "invalid" ELSE "valid")
    /\ UNCHANGED <<vars, copy>>

---------------------------------------------------------------------------
(* The admin's rollback action checks the groups of the changes it would   *)
(* make, then calls rollback(), which computes them again.                 *)

AdminCheck(p) ==
    /\ p \in Admins
    /\ stage[p] = "idle" /\ pc[p] = "idle"
    /\ \E v \in DOMAIN changesets \cap DOMAIN snapshots :
        /\ MayEdit(p, RollbackChanges(release[p], overrides, snapshots[v]))
        /\ target' = [target EXCEPT ![p] = v]
    /\ To(p, "checked")
    /\ UNCHANGED <<vars, tag, reply, copy>>

\* UnknownVersion is not caught; past MaxVersion no call begins.
AdminRollback(p) ==
    /\ stage[p] = "checked"
    /\ IF target[p] \in DOMAIN snapshots /\ version < MaxVersion
       THEN /\ Begin(p, RollbackCall(p, target[p], NoVersion))
            /\ To(p, "calling")
            /\ UNCHANGED <<tag, target, reply>>
       ELSE End(p) /\ UNCHANGED vars
    /\ UNCHANGED copy

---------------------------------------------------------------------------
(* The transaction and the answer.                                         *)

Proceed(p) ==
    /\ stage[p] = "calling"
    /\ Prepare(p)
    /\ UNCHANGED <<request, copy>>

\* The client's copy with the items of the answer's change set; a reset shows
\* the default.
Updated(p) ==
    [k \in Keys |->
        LET item == tx[p].items[k] IN
        IF k \notin Shown[p] \/ item = NoItem THEN copy[p].values[k]
        ELSE IF item.new = Absent THEN DefaultOf[release[p]][k] ELSE item.new]

Succeed(p) ==
    /\ stage[p] = "calling"
    /\ Commit(p)
    /\ IF target[p] # NoVersion
       THEN End(p)
       ELSE Answer(p, [reply[p] EXCEPT !.status = "written", !.version = tx[p].version,
                                       !.values = Updated(p)])
    /\ UNCHANGED copy

\* exception_handler: what apply_changeset raised, in its order.
Reason(p) ==
    IF version = NoVersion \/ OutOfSync(p) THEN "unsynced"
    ELSE IF Conflicts(call[p]) THEN "conflict" ELSE "invalid"

\* Bug variant: an exception of the service that nobody handles.
SilentFail(p) ==
    /\ stage[p] = "calling"
    /\ Refuse(p)
    /\ UNCHANGED <<request, copy>>

Fail(p) ==
    /\ stage[p] = "calling"
    /\ Refuse(p)
    /\ IF target[p] # NoVersion THEN End(p) ELSE Fails(p, Reason(p))
    /\ UNCHANGED copy

\* Bug variant: the State row that initial cached; when a conditional write
\* succeeds that was at the version its client named.
CachedHeader(p) ==
    IF reply[p].status = "written" /\ tag[p] # NoVersion THEN tag[p] ELSE version

\* X-Tunables-Version, were the answer finalized now: State is read again.
Header(p) == version

\* The client takes the document, or what its conditional write made of it.
Finish(p) ==
    /\ stage[p] = "answering"
    /\ copy' = IF \/ reply[p].status = "ok"
                  \/ reply[p].status = "written" /\ tag[p] # NoVersion
               THEN [copy EXCEPT ![p] = [version |-> reply[p].version, values |-> reply[p].values]]
               ELSE copy
    /\ End(p)
    /\ UNCHANGED vars

---------------------------------------------------------------------------

\* Commands run beside the requests; the actions are those of Store.
Maintain(p) ==
    /\ stage[p] = "idle"
    /\ \/ BeginSync(p) \/ SyncCurrent(p) \/ SyncPrepare(p) \/ SyncCommit(p)
       \/ PruneList(p) \/ PruneBatch(p)
    /\ UNCHANGED <<request, copy>>

Crash(p) == Restart(p) /\ End(p) /\ UNCHANGED copy

ApiNext ==
    \E p \in Procs :
        \/ AskGet(p) \/ Read(p)
        \/ AskWrite(p) \/ Submit(p) \/ Decline(p) \/ DryRun(p) \/ DryValidate(p)
        \/ AdminCheck(p) \/ AdminRollback(p)
        \/ Proceed(p) \/ Succeed(p) \/ Fail(p) \/ Finish(p)
        \/ Maintain(p) \/ Crash(p)

ApiSpec == ApiInit /\ [][ApiNext]_apiVars

---------------------------------------------------------------------------
(* Types.                                                                  *)

\* The type of every variable, and how a request and its call go together.
ApiTypeOK ==
    /\ TypeOK
    /\ stage \in [Procs -> {"idle", "reading", "received", "checking", "checked",
                            "calling", "answering"}]
    /\ tag \in [Procs -> Versions]
    /\ target \in [Procs -> Versions]
    /\ reply \in [Procs -> [status : Status, version : Versions, values : Content,
                            changes : Requests \cup {<<>>}]]
    /\ \A p \in Procs : stage[p] = "calling" <=> call[p].source # "system"
    /\ copy \in [Procs -> [version : Versions, values : Content]]

---------------------------------------------------------------------------
(* What a client may rely on.                                              *)

\* The X-Tunables-Version of an answer is never older than its body.
HeaderIsNotOlder ==
    \A p \in Procs : stage[p] = "answering" => reply[p].version <= Header(p)

\* A client's copy is the stored document of its ETag, as far as the URL shows
\* it: after a read, after a 304, and with what its own conditional write said.
CopyIsTheDocument ==
    \A p \in Procs : copy[p].version \in DOMAIN snapshots =>
        \A k \in Shown[p] : copy[p].values[k] = snapshots[copy[p].version].values[k]

\* A GET that finds no snapshot was overtaken by a newer version and a prune.
GoneIsOld ==
    \A p \in Procs : stage[p] = "reading" /\ reply[p].version \notin DOMAIN snapshots
        => reply[p].version < version

\* What a dry run called valid for the version its client named, apply_changeset
\* would take as long as that version is the current one.
DryRunIsRight ==
    \A p \in Procs :
        stage[p] = "answering" /\ reply[p].status = "valid" /\ tag[p] = version =>
            LET stored == Known(release[p], overrides) IN
            /\ ~OutOfSync(p)
            /\ ~Rejected(release[p], stored, reply[p].changes)
            /\ ~NothingToChange(release[p], stored, reply[p].changes)

\* Everything an answer says of a version is true of that version, however many
\* commits and prunes came between the queries of the request: its header, its
\* body under its ETag, a dry run under its If-Match (base.py:59, writes.py:62).
AnswersAreTrue == HeaderIsNotOlder /\ CopyIsTheDocument /\ GoneIsOld /\ DryRunIsRight

\* A write with If-Match is made on the very document its client has seen: when
\* it commits, every key at the client's URL had the value of the client's copy
\* (writes.py:28, services.py:76).
OnlySeenIsReplaced ==
    [][\A p \in Procs : Committing(p) /\ tag[p] # NoVersion /\ stage[p] = "calling" =>
          \A k \in Shown[p] : snapshots[version].values[k] = copy[p].values[k]]_apiVars

\* A commit moves no key of a group that EDITABLE_GROUPS keeps from its request.
StaysWithin(p) == \A k \in Keys : overrides'[k] # overrides[k] => GroupOf[k] \in Editable[p]

\* An API request commits the changes whose groups were checked, however many
\* others commit between the check and the transaction: its view computes them
\* once and hands them over (api/writes.py:60, 68).
RequestsStayWithin ==
    [][\A p \in Procs : Committing(p) /\ target[p] = NoVersion => StaysWithin(p)]_apiVars

\* EDITABLE_GROUPS "is consulted on every write ... on the exact changes the write
\* would make", and "the admin applies the same callable to its ... rollback
\* action" (docs/api.md:87-93): no change set moves a key of a group that was kept
\* from its request.
EditableOnly ==
    [][\A p \in Procs : Committing(p) => StaysWithin(p)]_apiVars

===========================================================================
