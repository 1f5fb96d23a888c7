------------------------------- MODULE Store -------------------------------
(***************************************************************************)
(* The versioned store: the State row, the TunableValue rows, the history  *)
(* (change sets with their items) and the snapshots, and the processes     *)
(* that write them: apply_changeset, rollback, import, sync and            *)
(* prune_snapshots, each process running its own release of the host.      *)
(*                                                                         *)
(* A transaction is two steps: the one that takes the row lock on State    *)
(* and reads under it, and the commit that makes every write visible at    *)
(* once (READ COMMITTED).  Whatever a caller computes before the lock is a *)
(* step of its own, so other processes may move the store in between.      *)
(***************************************************************************)
EXTENDS Catalogues, FiniteSets, Sequences

CONSTANTS
    Procs,          \* processes: web workers, shells, management commands
    Free,           \* nobody holds the row lock
    NoCatalogue,    \* the catalogue of a State row that does not exist yet
    Requests,       \* the change lists callers send
    Documents,      \* the documents callers import
    Keeps,          \* the --keep policies of prune
    BatchSize,      \* versions one DELETE of prune removes
    MaxVersion      \* no new call begins once this version is reached

VARIABLES
    version,        \* State.current_version; NoVersion without the row
    catalogue,      \* State.catalogue_version
    overrides,      \* TunableValue rows
    changesets,     \* ChangeSet rows with their ChangeItems, by version
    snapshots,      \* Snapshot rows, by version
    lock,           \* who holds the row lock on State
    release,        \* the release each process runs
    pc,
    call,           \* the call a process is making
    tx,             \* what it prepared under the lock
    doomed          \* the versions prune listed and has not deleted

db == <<version, catalogue, overrides, changesets, snapshots>>
local == <<release, call, tx, doomed>>
vars == <<db, lock, pc, local>>

NoVersion == -1

ASSUME StoreAssumption ==
    /\ Free \notin Procs
    /\ NoCatalogue \notin Hashes
    /\ Requests \subseteq Seq(Change)
    /\ Documents \subseteq ImportDocument
    /\ Keeps \subseteq Nat
    /\ BatchSize \in Nat \ {0}
    /\ MaxVersion \in Nat

Source == {"api", "rollback", "import", "system"}

ChangeSet == [source : Source, catalogue : Hashes, items : Items]

\* goal and exact are auxiliary: the overrides a rollback or a replacing
\* import was asked to leave behind.  No action reads them.
NoCall == [source |-> "system", changes |-> <<>>, expected |-> NoVersion,
           goal |-> Empty, exact |-> FALSE]

NoTx == [version |-> NoVersion, items |-> Nothing]

Init ==
    /\ version = NoVersion
    /\ catalogue = NoCatalogue
    /\ overrides = Empty
    /\ changesets = <<>>
    /\ snapshots = <<>>
    /\ lock = Free
    /\ release \in [Procs -> Releases]
    /\ pc = [p \in Procs |-> "idle"]
    /\ call = [p \in Procs |-> NoCall]
    /\ tx = [p \in Procs |-> NoTx]
    /\ doomed = [p \in Procs |-> {}]

---------------------------------------------------------------------------
(* Before the transaction.                                                 *)

\* expected_version is one the caller has seen, or none.
Expectations == {NoVersion} \cup 0..version

Begin(p, c) ==
    /\ pc[p] = "idle"
    /\ version < MaxVersion
    /\ pc' = [pc EXCEPT ![p] = "calling"]
    /\ call' = [call EXCEPT ![p] = c]
    /\ UNCHANGED <<db, lock, release, tx, doomed>>

BeginApply(p) ==
    \E changes \in Requests, e \in Expectations :
        Begin(p, [NoCall EXCEPT !.source = "api", !.changes = changes, !.expected = e])

\* rollback_changes reads the target and the overrides without the lock; a
\* version with no snapshot is UnknownVersion and nothing begins.
RollbackCall(p, v, e) ==
    [source   |-> "rollback",
     changes  |-> RollbackChanges(release[p], overrides, snapshots[v]),
     expected |-> e,
     goal     |-> RollbackGoal(release[p], snapshots[v]),
     exact    |-> TRUE]

BeginRollback(p) ==
    \E v \in DOMAIN snapshots, e \in Expectations : Begin(p, RollbackCall(p, v, e))

\* document_changes reads the overrides, without the lock, only to replace.
BeginImport(p) ==
    \E document \in Documents, strict, replace \in BOOLEAN, e \in Expectations :
        /\ ~ImportRejected(release[p], document, strict)
        /\ Begin(p, [source   |-> "import",
                     changes  |-> ImportChanges(release[p], overrides, document, replace),
                     expected |-> e,
                     goal     |-> document.values,
                     exact    |-> replace])

BeginSync(p) == Begin(p, NoCall)

---------------------------------------------------------------------------
(* The transaction of a change set: apply_changeset.                       *)

Return(p) ==
    /\ pc' = [pc EXCEPT ![p] = "idle"]
    /\ call' = [call EXCEPT ![p] = NoCall]
    /\ tx' = [tx EXCEPT ![p] = NoTx]

Enter(p, t) ==
    /\ lock' = p
    /\ pc' = [pc EXCEPT ![p] = "locked"]
    /\ tx' = [tx EXCEPT ![p] = t]
    /\ UNCHANGED <<db, release, call, doomed>>

OutOfSync(p) == catalogue # Hash[release[p]]

\* Bug variant: the comparison written as an order.
LaterConflicts(c) == c.expected # NoVersion /\ c.expected > version

Conflicts(c) == c.expected # NoVersion /\ c.expected # version

\* Under the lock, in the order of the code; every refusal rolls back.
Refuses(p) ==
    LET stored == Known(release[p], overrides)
    IN  \/ OutOfSync(p)
        \/ Conflicts(call[p])
        \/ Rejected(release[p], stored, call[p].changes)
        \/ NothingToChange(release[p], stored, call[p].changes)

\* Without a State row there is nothing to wait for.
Refuse(p) ==
    /\ pc[p] = "calling" /\ call[p].source # "system"
    /\ version = NoVersion \/ (lock = Free /\ Refuses(p))
    /\ Return(p)
    /\ UNCHANGED <<db, lock, release, doomed>>

\* Bug variant: read without select_for_update.
UnlockedPrepare(p) ==
    /\ pc[p] = "calling" /\ call[p].source # "system"
    /\ version # NoVersion
    /\ ~Refuses(p)
    /\ Enter(p, [version |-> version + 1,
                 items   |-> Prepared(release[p], Known(release[p], overrides),
                                      call[p].changes)])

Prepare(p) ==
    /\ pc[p] = "calling" /\ call[p].source # "system"
    /\ version # NoVersion /\ lock = Free
    /\ ~Refuses(p)
    /\ Enter(p, [version |-> version + 1,
                 items   |-> Prepared(release[p], Known(release[p], overrides),
                                      call[p].changes)])

\* A row added to a table.
With(table, v, row) ==
    [w \in DOMAIN table \cup {v} |-> IF w = v THEN row ELSE table[w]]

\* Bug variant: the document built before the rows are written.
EarlyWrite(p, items) ==
    LET v == tx[p].version
    IN  /\ v \notin DOMAIN changesets /\ v \notin DOMAIN snapshots
        /\ overrides' = Proposed(overrides, items)
        /\ snapshots' = With(snapshots, v, BuildDocument(release[p], Known(release[p], overrides)))
        /\ version' = v

\* What both transactions write; the version columns are unique.
Write(p, items) ==
    LET v == tx[p].version
        new == Proposed(overrides, items)
    IN  /\ v \notin DOMAIN changesets /\ v \notin DOMAIN snapshots
        /\ overrides' = new
        /\ snapshots' = With(snapshots, v, BuildDocument(release[p], Known(release[p], new)))
        /\ version' = v

\* Bug variant: stale overrides deleted without an item.
ForgetfulRecord(p, items) ==
    changesets' = With(changesets, tx[p].version,
                       [source |-> call[p].source, catalogue |-> Hash[release[p]],
                        items |-> [k \in Keys |-> IF k \in KeysOf[release[p]]
                                                  THEN items[k] ELSE NoItem]])

Record(p, items) ==
    changesets' = With(changesets, tx[p].version,
                       [source |-> call[p].source, catalogue |-> Hash[release[p]],
                        items |-> items])

\* Bug variant: the lock outlives the transaction.
LeakyCommit(p) ==
    /\ pc[p] = "locked" /\ call[p].source # "system"
    /\ Write(p, tx[p].items)
    /\ Record(p, tx[p].items)
    /\ Return(p)
    /\ UNCHANGED <<catalogue, release, doomed, lock>>

Commit(p) ==
    /\ pc[p] = "locked" /\ call[p].source # "system"
    /\ Write(p, tx[p].items)
    /\ Record(p, tx[p].items)
    /\ lock' = Free
    /\ Return(p)
    /\ UNCHANGED <<catalogue, release, doomed>>

---------------------------------------------------------------------------
(* The transaction of sync.                                                *)

\* The stored hash is the code's: nothing to rebuild.
SyncCurrent(p) ==
    /\ pc[p] = "calling" /\ call[p].source = "system"
    /\ lock = Free
    /\ ~OutOfSync(p)
    /\ Return(p)
    /\ UNCHANGED <<db, lock, release, doomed>>

\* Bug variant: the version of the State row is written again.
UnnumberedSyncPrepare(p) ==
    /\ pc[p] = "calling" /\ call[p].source = "system"
    /\ lock = Free
    /\ OutOfSync(p)
    /\ Enter(p, [version |-> version, items |-> SyncItems(release[p], overrides)])

\* get_or_create with select_for_update: creating the row locks it too.
SyncPrepare(p) ==
    /\ pc[p] = "calling" /\ call[p].source = "system"
    /\ lock = Free
    /\ OutOfSync(p)
    /\ Enter(p, [version |-> version + 1, items |-> SyncItems(release[p], overrides)])

\* Version 0 is the row's creation: a snapshot and no change set.
SyncCommit(p) ==
    /\ pc[p] = "locked" /\ call[p].source = "system"
    /\ Write(p, tx[p].items)
    /\ IF version = NoVersion THEN UNCHANGED changesets ELSE Record(p, tx[p].items)
    /\ catalogue' = Hash[release[p]]
    /\ lock' = Free
    /\ Return(p)
    /\ UNCHANGED <<release, doomed>>

---------------------------------------------------------------------------
(* Retention by count: prune_snapshots(keep), no lock and no transaction.  *)

Newer(v, versions) == {w \in versions : w > v}

\* Bug variant: only version 0 protected.
ZeroOnlyCandidates(stored, keep) ==
    {v \in stored : Cardinality(Newer(v, stored)) >= keep /\ v # 0}

\* Outside the newest keep, and neither version 0 nor the newest listed.
Candidates(stored, keep) ==
    {v \in stored : /\ Cardinality(Newer(v, stored)) >= keep
                    /\ v # 0
                    /\ Newer(v, stored) # {}}

PruneList(p) ==
    /\ pc[p] = "idle"
    /\ \E keep \in Keeps :
        LET found == Candidates(DOMAIN snapshots, keep)
        IN  /\ found # {}
            /\ doomed' = [doomed EXCEPT ![p] = found]
    /\ pc' = [pc EXCEPT ![p] = "pruning"]
    /\ UNCHANGED <<db, lock, release, call, tx>>

Batch(versions) ==
    {v \in versions : Cardinality({w \in versions : w < v}) < BatchSize}

PruneBatch(p) ==
    /\ pc[p] = "pruning"
    /\ LET batch == Batch(doomed[p])
       IN  /\ snapshots' = [v \in DOMAIN snapshots \ batch |-> snapshots[v]]
           /\ doomed' = [doomed EXCEPT ![p] = @ \ batch]
           /\ pc' = [pc EXCEPT ![p] = IF doomed[p] = batch THEN "idle" ELSE "pruning"]
    /\ UNCHANGED <<version, catalogue, overrides, changesets, lock, release, call, tx>>

---------------------------------------------------------------------------
(* A process ends, in whatever it was doing, and comes back with the same  *)
(* or another release; the database rolls its open transaction back.       *)
Restart(p) ==
    /\ \E r \in Releases : release' = [release EXCEPT ![p] = r]
    /\ Return(p)
    /\ lock' = IF lock = p THEN Free ELSE lock
    /\ doomed' = [doomed EXCEPT ![p] = {}]
    /\ UNCHANGED db

Locks(p) == Refuse(p) \/ Prepare(p) \/ SyncCurrent(p) \/ SyncPrepare(p)

Commits(p) == Commit(p) \/ SyncCommit(p)

Next ==
    \E p \in Procs :
        \/ BeginApply(p) \/ BeginRollback(p) \/ BeginImport(p) \/ BeginSync(p)
        \/ Refuse(p) \/ Prepare(p) \/ Commit(p)
        \/ SyncCurrent(p) \/ SyncPrepare(p) \/ SyncCommit(p)
        \/ PruneList(p) \/ PruneBatch(p)
        \/ Restart(p)

Spec == Init /\ [][Next]_vars

\* A started call runs on; the row lock is granted in the order of arrival,
\* so a waiting transaction is not passed over for ever.
Fairness ==
    \A p \in Procs : /\ SF_vars(Locks(p))
                     /\ WF_vars(Commits(p))
                     /\ WF_vars(PruneBatch(p))

FairSpec == Spec /\ Fairness

---------------------------------------------------------------------------
(* Types.                                                                  *)

Versions == Nat \cup {NoVersion}

IsCall(c) ==
    /\ c \in [source : Source, changes : {c.changes}, expected : Versions,
              goal : Content, exact : BOOLEAN]
    /\ \A i \in DOMAIN c.changes : c.changes[i] \in Change

\* The type of every variable.
TypeOK ==
    /\ version \in Versions
    /\ catalogue \in Hashes \cup {NoCatalogue}
    /\ overrides \in Content
    /\ DOMAIN changesets \subseteq Nat
    /\ changesets \in [DOMAIN changesets -> ChangeSet]
    /\ DOMAIN snapshots \subseteq Nat
    /\ snapshots \in [DOMAIN snapshots -> Document]
    /\ lock \in Procs \cup {Free}
    /\ release \in [Procs -> Releases]
    /\ pc \in [Procs -> {"idle", "calling", "locked", "pruning"}]
    /\ DOMAIN call = Procs /\ \A p \in Procs : IsCall(call[p])
    /\ tx \in [Procs -> [version : Versions, items : Items]]
    /\ doomed \in [Procs -> SUBSET Nat]

---------------------------------------------------------------------------
(* Safety.                                                                 *)

\* The overrides that the items of the change sets up to v leave behind: for
\* each key the new value of the last item that names it.
Touching(history, k, v) ==
    {w \in DOMAIN history : w <= v /\ history[w].items[k] # NoItem}

Latest(versions) == CHOOSE w \in versions : \A u \in versions : u <= w

Replayed(history, v) ==
    [k \in Keys |-> IF Touching(history, k, v) = {} THEN Absent
                    ELSE history[Latest(Touching(history, k, v))].items[k].new]

ReplayedAt(v) == Replayed(changesets, v)

\* The audit trail is complete: replaying every change item in version order
\* gives exactly the stored overrides (apply_changeset, sync._reset_override).
HistoryReplays == overrides = ReplayedAt(version)

\* An item starts from the value its predecessors left and changes it, and a
\* change set a caller made has an item ("so every version means something").
ItemsAreSteps ==
    \A v \in DOMAIN changesets :
        /\ \A k \in Keys : LET item == changesets[v].items[k] IN
              item # NoItem => item.old = ReplayedAt(v - 1)[k] /\ item.new # item.old
        /\ changesets[v].source # "system" => changesets[v].items # Nothing

\* The change items alone tell the history: they add up to the overrides, and
\* each is a step from what its predecessors left (services.py:82, sync.py:194).
AuditTrail == HistoryReplays /\ ItemsAreSteps

\* A pruned document can be rebuilt from the change items: every snapshot is
\* the document of the overrides replayed up to its version, under the
\* catalogue that it names (write_snapshot; docs/snapshot-format.md:187).
SnapshotsRebuildable ==
    \A v \in DOMAIN snapshots : \A r \in Releases :
        Hash[r] = snapshots[v].catalogue
            => snapshots[v] = BuildDocument(r, ReplayedAt(v))

\* Change sets are numbered without gaps up to the current version; version 0
\* and the current version keep their snapshot, and no prune --keep has them on
\* its list, whatever commits while it deletes.
VersionsGapless ==
    /\ DOMAIN changesets = 1..version
    /\ DOMAIN snapshots \subseteq 0..version
    /\ version # NoVersion => {0, version} \subseteq DOMAIN snapshots
    /\ \A p \in Procs : doomed[p] \subseteq 1..(version - 1)

\* What is stored fits the catalogue the State row names: only its keys, and
\* only values its types take, so no reader of that catalogue meets a value it
\* cannot coerce, whichever releases write and in whatever order they sync.
OverridesFitCatalogue ==
    \A r \in Releases : Hash[r] = catalogue =>
        \A k \in Keys : overrides[k] # Absent => k \in KeysOf[r] /\ Valid(r, k, overrides[k])

\* Who holds the row lock works on the current state: preparing the change
\* set or the sync again would give the same version and the same items, and
\* would not refuse it.
LockedIsCurrent ==
    \A p \in Procs : pc[p] = "locked" =>
        /\ lock = p
        /\ tx[p].version = version + 1
        /\ IF call[p].source = "system"
           THEN OutOfSync(p) /\ tx[p].items = SyncItems(release[p], overrides)
           ELSE /\ version # NoVersion /\ ~Refuses(p)
                /\ tx[p].items = Prepared(release[p], Known(release[p], overrides),
                                          call[p].changes)

\* As long as the version its caller expects is the current one, a rollback or
\* a replacing import asks, of the overrides as they are now, for exactly its
\* goal: for each known key a change to the goal's value, or no change where
\* the stored override is the goal's already.
RestoresAreCurrent ==
    \A p \in Procs : LET c == call[p] IN
        /\ c.expected <= version
        /\ c.exact /\ c.expected = version => \A k \in KeysOf[release[p]] :
              IF \E i \in DOMAIN c.changes : c.changes[i].key = k
              THEN \A i \in DOMAIN c.changes :
                      c.changes[i].key = k => c.changes[i].value = c.goal[k]
              ELSE overrides[k] = c.goal[k]

\* What a call has computed, under the lock or before it, is what it would
\* compute now, unless its expected version will refuse it (services.py:76, 127).
CallsAreCurrent == LockedIsCurrent /\ RestoresAreCurrent

---------------------------------------------------------------------------
(* Action properties.  A step of p ends its transaction with a commit when *)
(* it leaves "locked" and moves the version.                               *)

Committing(p) == pc[p] = "locked" /\ version' # version /\ call[p].source # "system"

\* Two change sets that are each valid alone never combine into a state that
\* breaks a rule: when one commits, every group it touched and the catalogue
\* rule hold of the stored overrides, for the release that wrote it.
RulesSurviveChangeSets ==
    [][\A p \in Procs : Committing(p) =>
          /\ \A k \in Keys : overrides'[k] # overrides[k] =>
                GroupHolds(release[p], GroupOf[k], Known(release[p], overrides'))
          /\ CatalogueHolds(release[p], Known(release[p], overrides'))]_vars

\* A change set commits on exactly the version its caller expected, and only
\* from a process whose catalogue is the stored one, however long it waited.
CommitsAreConditional ==
    [][\A p \in Procs : Committing(p) =>
          /\ call[p].expected \in {NoVersion, version}
          /\ catalogue = Hash[release[p]]]_vars

\* The stored overrides are goal as far as the release knows the keys: the
\* same effective values, and an override only where goal has one.
Reaches(r, stored, goal) ==
    \A k \in KeysOf[r] :
        /\ Effective(r, stored)[k] = Effective(r, goal)[k]
        /\ goal[k] = Absent => stored[k] = Absent

\* A rollback, or an import that replaces, made against an expected version
\* leaves exactly the overrides of its target although it was computed before
\* the lock was taken.
ConditionalRestoreIsExact ==
    [][\A p \in Procs : Committing(p) /\ call[p].exact /\ call[p].expected # NoVersion
          => Reaches(release[p], overrides', call[p].goal)]_vars

---------------------------------------------------------------------------
(* Refinement.                                                             *)

\* A value the catalogue with this hash can store for the key.
Fits(h, k, v) ==
    v # Absent /\ \E r \in Releases : Hash[r] = h /\ k \in KeysOf[r] /\ Valid(r, k, v)

Versioned == INSTANCE VersionedStore WITH content <- ReplayedAt(version)

\* With all its processes, races and crashes the store is one numbered history
\* of contents; the content is read off the change items, so the audit trail
\* alone carries it.
RefinesVersionedStore == Versioned!Spec

---------------------------------------------------------------------------
(* Liveness.                                                               *)

\* Every call returns: nobody waits for the row lock for ever, and prune ends.
EveryCallReturns == \A p \in Procs : pc[p] # "idle" ~> pc[p] = "idle"

===========================================================================
