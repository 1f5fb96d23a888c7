---------------------------- MODULE StoreProofs ----------------------------
(***************************************************************************)
(* Proofs about Store, and about Api over it in the second half, for every *)
(* catalogue, number of processes, request, batch size and version bound.  *)
(* IInv is the inductive invariant: the safety properties of Store are its *)
(* conjuncts, because each step of one needs the others (what              *)
(* LockedIsCurrent says of the items is what keeps the history and the     *)
(* stored overrides in step).                                              *)
(***************************************************************************)
EXTENDS Api, CatalogueProofs, TLAPS

---------------------------------------------------------------------------
(* Replaying the history.                                                  *)

(* The last conjunct, that a key some change set names is named by a last  *)
(* one, is carried along because it would otherwise need an induction.     *)

History(history, n) ==
    /\ DOMAIN history = 1..n
    /\ \A w \in DOMAIN history : history[w].items \in Items
    /\ \A k \in Keys, v \in Int : Touching(history, k, v) # {} =>
          \E w \in Touching(history, k, v) : \A u \in Touching(history, k, v) : u <= w

\* The greatest of the versions, when there is one.
LEMMA LatestIs ==
    ASSUME NEW versions, versions \subseteq Int,
           NEW n \in versions, \A u \in versions : u <= n
    PROVE  Latest(versions) = n
<1> DEFINE l == CHOOSE w \in versions : \A u \in versions : u <= w
<1>1. l \in versions /\ \A u \in versions : u <= l
  OBVIOUS
<1>2. l \in Int /\ n \in Int /\ n <= l /\ l <= n
  BY <1>1
<1> QED
  BY <1>2 DEF Latest

\* Without change sets nothing is overridden.
LEMMA ReplayedNothing ==
    ASSUME NEW history, DOMAIN history = {}, NEW v
    PROVE  Replayed(history, v) = Empty
BY DEF Replayed, Touching, Empty

\* Replaying gives overrides.
LEMMA ReplayedType ==
    ASSUME NEW n \in Int, NEW history, History(history, n), NEW v \in Int
    PROVE  Replayed(history, v) \in Content
<1> SUFFICES ASSUME NEW k \in Keys, Touching(history, k, v) # {}
             PROVE  history[Latest(Touching(history, k, v))].items[k].new \in Values \cup {Absent}
  BY DEF Replayed, Content
<1>1. Latest(Touching(history, k, v)) \in Touching(history, k, v)
  BY DEF Latest, History
<1> QED
  BY <1>1 DEF Touching, History, Items, Item

\* A new change set leaves the past as it was, and its items are the step
\* from the version before to its own.
LEMMA ReplayedExtends ==
    ASSUME NEW n \in Nat \ {0}, NEW history, History(history, n - 1),
           NEW row, row.items \in Items
    PROVE  LET longer == With(history, n, row)
           IN  /\ History(longer, n)
               /\ \A v \in Int : v < n => Replayed(longer, v) = Replayed(history, v)
               /\ Replayed(longer, n) = Proposed(Replayed(history, n - 1), row.items)
<1> DEFINE longer == With(history, n, row)
<1>1. /\ DOMAIN longer = 1..n /\ DOMAIN history = 1..(n - 1)
      /\ longer[n] = row
      /\ \A w \in 1..(n - 1) : longer[w] = history[w]
  BY DEF History, With
<1> HIDE DEF longer
<1>2. ASSUME NEW v \in Int, v < n, NEW k \in Keys
      PROVE  Touching(longer, k, v) = Touching(history, k, v)
  BY <1>1, <1>2 DEF Touching
<1>3. ASSUME NEW v \in Int, v >= n, NEW k \in Keys
      PROVE  Touching(longer, k, v) =
                Touching(history, k, n - 1) \cup (IF row.items[k] = NoItem THEN {} ELSE {n})
  BY <1>1, <1>3 DEF Touching
<1>4. ASSUME NEW v \in Int, NEW k \in Keys, Touching(history, k, v) # {}
      PROVE  Latest(Touching(history, k, v)) \in 1..(n - 1)
  <2>1. Latest(Touching(history, k, v)) \in Touching(history, k, v)
    BY <1>4 DEF Latest, History
  <2> QED
    BY <1>1, <2>1 DEF Touching
<1>5. ASSUME NEW k \in Keys, row.items[k] # NoItem
      PROVE  /\ n \in Touching(longer, k, n)
             /\ Latest(Touching(longer, k, n)) = n
  <2>1. /\ n \in Touching(longer, k, n) /\ Touching(longer, k, n) \subseteq 1..n
        /\ \A u \in Touching(longer, k, n) : u <= n
    BY <1>1, <1>5 DEF Touching
  <2> QED
    BY <2>1, LatestIs
<1>6. History(longer, n)
  <2>1. \A w \in DOMAIN longer : longer[w].items \in Items
    BY <1>1 DEF History
  <2>2. ASSUME NEW k \in Keys, NEW v \in Int, Touching(longer, k, v) # {}
        PROVE  \E w \in Touching(longer, k, v) : \A u \in Touching(longer, k, v) : u <= w
    <3>1. CASE v < n
      BY <1>2, <2>2, <3>1 DEF History
    <3>2. CASE v >= n /\ row.items[k] = NoItem
      <4>1. Touching(longer, k, v) = Touching(history, k, n - 1)
        BY <1>3, <3>2
      <4> QED
        BY <2>2, <4>1 DEF History
    <3>3. CASE v >= n /\ row.items[k] # NoItem
      <4>1. n \in Touching(longer, k, v) /\ \A u \in Touching(longer, k, v) : u <= n
        BY <1>1, <3>3 DEF Touching
      <4> QED
        BY <4>1
    <3> QED
      BY <3>1, <3>2, <3>3
  <2> QED
    BY <1>1, <2>1, <2>2 DEF History
<1>7. ASSUME NEW v \in Int, v < n
      PROVE  Replayed(longer, v) = Replayed(history, v)
  BY <1>1, <1>2, <1>4, <1>7 DEF Replayed
<1>8. Replayed(longer, n) = Proposed(Replayed(history, n - 1), row.items)
  <2> SUFFICES ASSUME NEW k \in Keys
               PROVE  Replayed(longer, n)[k] = Proposed(Replayed(history, n - 1), row.items)[k]
    BY DEF Replayed, Proposed
  <2>1. CASE row.items[k] = NoItem
    <3>1. n \in Int /\ n >= n
      OBVIOUS
    <3>2. Touching(longer, k, n) = Touching(history, k, n - 1)
      BY ONLY <1>3, <2>1, <3>1
    <3> QED
      BY <1>1, <1>4, <2>1, <3>2 DEF Replayed, Proposed
  <2>2. CASE row.items[k] # NoItem
    BY <1>1, <1>5, <2>2 DEF Replayed, Proposed
  <2> QED
    BY <2>1, <2>2
<1> QED
  BY <1>6, <1>7, <1>8 DEF longer

---------------------------------------------------------------------------
(* The inductive invariant, and its types.                                 *)

IInv ==
    /\ TypeOK
    /\ LockedIsCurrent
    /\ VersionsGapless
    /\ History(changesets, version)
    /\ HistoryReplays
    /\ ItemsAreSteps
    /\ SnapshotsRebuildable
    /\ OverridesFitCatalogue
    /\ RestoresAreCurrent

\* The empty content and the empty items have the types of their kinds.
LEMMA EmptyTypes == Empty \in Content /\ Nothing \in Items
BY DEF Empty, Nothing, Content, Items

\* NoCall is a call and NoTx is what a process without a transaction has.
LEMMA NoneTypes == IsCall(NoCall) /\ NoTx \in [version : Versions, items : Items]
<1>1. DOMAIN NoCall.changes = {}
  BY DEF NoCall
<1> QED
  BY <1>1, EmptyTypes DEF IsCall, NoCall, NoTx, Versions, Source, NoVersion

\* What begins is a call.
LEMMA BeginCalls ==
    ASSUME TypeOK, NEW p \in Procs,
           BeginApply(p) \/ BeginRollback(p) \/ BeginImport(p) \/ BeginSync(p)
    PROVE  \E c : IsCall(c) /\ Begin(p, c)
<1> USE StoreAssumption
<1>0. release[p] \in Releases /\ KeysOf[release[p]] \subseteq Keys /\ Known(release[p], overrides) \in Content
  BY CatalogueAssumption, KnownType DEF TypeOK
<1>1. Expectations \subseteq Versions
  BY DEF Expectations, Versions, NoVersion, TypeOK
<1>2. CASE BeginApply(p)
  <2>1. PICK changes \in Requests, e \in Expectations :
            Begin(p, [NoCall EXCEPT !.source = "api", !.changes = changes, !.expected = e])
    BY <1>2 DEF BeginApply
  <2>2. \A i \in DOMAIN changes : changes[i] \in Change
    <3>1. changes \in Seq(Change)
      OBVIOUS
    <3> QED
      BY <3>1
  <2> DEFINE c == [NoCall EXCEPT !.source = "api", !.changes = changes, !.expected = e]
  <2>3. IsCall(c)
    BY <1>1, <2>2, EmptyTypes DEF IsCall, NoCall, Source
  <2> QED
    BY <2>1, <2>3
<1>3. CASE BeginRollback(p)
  <2>1. PICK v \in DOMAIN snapshots, e \in Expectations :
          Begin(p, [source   |-> "rollback",
                    changes  |-> RollbackChanges(release[p], overrides, snapshots[v]),
                    expected |-> e,
                    goal     |-> RollbackGoal(release[p], snapshots[v]),
                    exact    |-> TRUE])
    BY <1>3 DEF BeginRollback, RollbackCall
  <2> DEFINE goal == RollbackGoal(release[p], snapshots[v])
             changes == RollbackChanges(release[p], overrides, snapshots[v])
  <2>2. goal \in Content
    <3>1. snapshots[v].values \in Content
      BY DEF TypeOK, Document
    <3> QED
      BY <3>1 DEF RollbackGoal, Content
  <2>3. \A i \in DOMAIN changes : changes[i] \in Change
    BY <1>0, <2>2 DEF RollbackChanges, Towards, Change, Content
  <2> HIDE DEF goal, changes
  <2>4. IsCall([source |-> "rollback", changes |-> changes, expected |-> e,
                goal |-> goal, exact |-> TRUE])
    BY <1>1, <2>2, <2>3 DEF IsCall, Source
  <2> QED
    BY <2>1, <2>4 DEF goal, changes
<1>4. CASE BeginImport(p)
  <2>1. PICK document \in Documents, strict \in BOOLEAN, replace \in BOOLEAN, e \in Expectations :
          Begin(p, [source   |-> "import",
                    changes  |-> ImportChanges(release[p], overrides, document, replace),
                    expected |-> e,
                    goal     |-> document.values,
                    exact    |-> replace])
    BY <1>4 DEF BeginImport
  <2> DEFINE changes == ImportChanges(release[p], overrides, document, replace)
  <2>2. document.values \in Content
    BY DEF ImportDocument
  <2>3. \A i \in DOMAIN changes : changes[i] \in Change
    BY <1>0, <2>2 DEF ImportChanges, Change, Content
  <2> HIDE DEF changes
  <2>4. IsCall([source |-> "import", changes |-> changes, expected |-> e,
                goal |-> document.values, exact |-> replace])
    BY <1>1, <2>2, <2>3 DEF IsCall, Source
  <2> QED
    BY <2>1, <2>4 DEF changes
<1>5. CASE BeginSync(p)
  BY <1>5, NoneTypes DEF BeginSync
<1> QED
  BY <1>2, <1>3, <1>4, <1>5

\* The items a process prepares under the lock are items.
LEMMA EnterTypes ==
    ASSUME TypeOK, NEW p \in Procs, Prepare(p) \/ SyncPrepare(p)
    PROVE  \E t \in [version : Versions, items : Items] : Enter(p, t)
<1>1. version + 1 \in Versions /\ version \in Int
  BY DEF TypeOK, Versions, NoVersion
<1>2. CASE Prepare(p)
  <2> DEFINE items == Prepared(release[p], Known(release[p], overrides), call[p].changes)
  <2>1. WellFormed(call[p].changes)
    BY DEF TypeOK, IsCall, WellFormed
  <2>2. items \in Items
    BY <2>1, KnownType, PreparedType DEF TypeOK
  <2> HIDE DEF items
  <2> QED
    BY <1>1, <1>2, <2>2 DEF Prepare, items
<1>3. CASE SyncPrepare(p)
  <2>1. SyncItems(release[p], overrides) \in Items
    BY SyncItemsType DEF TypeOK
  <2> QED
    BY <1>1, <1>3, <2>1 DEF SyncPrepare
<1> QED
  BY <1>2, <1>3

\* Returning leaves a process without a call and without a transaction.
LEMMA ReturnTypes ==
    ASSUME TypeOK, NEW p \in Procs, Return(p)
    PROVE  /\ pc' \in [Procs -> {"idle", "calling", "locked", "pruning"}]
           /\ DOMAIN call' = Procs /\ \A q \in Procs : IsCall(call'[q])
           /\ tx' \in [Procs -> [version : Versions, items : Items]]
BY NoneTypes DEF TypeOK, Return

\* What a transaction writes has the types of the tables.
LEMMA WriteTypes ==
    ASSUME TypeOK, LockedIsCurrent, NEW p \in Procs, pc[p] = "locked",
           Write(p, tx[p].items)
    PROVE  /\ version' = version + 1 /\ version' \in Nat
           /\ tx[p].version = version + 1 /\ tx[p].items \in Items
           /\ overrides' = Proposed(overrides, tx[p].items) /\ overrides' \in Content
           /\ snapshots' = With(snapshots, version + 1,
                                BuildDocument(release[p], Known(release[p], overrides')))
           /\ DOMAIN snapshots' \subseteq Nat
           /\ snapshots' \in [DOMAIN snapshots' -> Document]
<1>1. tx[p].version = version + 1 /\ tx[p].items \in Items /\ release[p] \in Releases
  BY DEF TypeOK, LockedIsCurrent
<1>2. version + 1 \in Nat
  BY DEF TypeOK, Versions, NoVersion
<1>3. /\ version' = version + 1
      /\ overrides' = Proposed(overrides, tx[p].items)
      /\ snapshots' = With(snapshots, version + 1,
                           BuildDocument(release[p], Known(release[p], overrides')))
  BY <1>1 DEF Write
<1>4. overrides' \in Content
  BY <1>1, <1>3, ProposedType DEF TypeOK
<1>5. BuildDocument(release[p], Known(release[p], overrides')) \in Document
  BY <1>1, <1>4, KnownType, DocumentType
<1> QED
  BY <1>1, <1>2, <1>3, <1>4, <1>5 DEF With, TypeOK

\* What a change set or a later sync adds to the history.
LEMMA RecordTypes ==
    ASSUME TypeOK, LockedIsCurrent, NEW p \in Procs, pc[p] = "locked",
           Record(p, tx[p].items)
    PROVE  /\ changesets' = With(changesets, version + 1,
                                 [source |-> call[p].source, catalogue |-> Hash[release[p]],
                                  items |-> tx[p].items])
           /\ DOMAIN changesets' \subseteq Nat
           /\ changesets' \in [DOMAIN changesets' -> ChangeSet]
<1>1. tx[p].version = version + 1 /\ tx[p].items \in Items /\ release[p] \in Releases
  BY DEF TypeOK, LockedIsCurrent
<1>2. version + 1 \in Nat
  BY DEF TypeOK, Versions, NoVersion
<1>3. [source |-> call[p].source, catalogue |-> Hash[release[p]], items |-> tx[p].items]
         \in ChangeSet
  BY <1>1, CatalogueAssumption DEF ChangeSet, TypeOK, IsCall
<1> QED
  BY <1>1, <1>2, <1>3 DEF Record, With, TypeOK

\* Every step preserves the types.
LEMMA TypeStep ==
    ASSUME TypeOK, LockedIsCurrent, [Next]_vars
    PROVE  TypeOK'
<1>1. ASSUME NEW p \in Procs, BeginApply(p) \/ BeginRollback(p) \/ BeginImport(p) \/ BeginSync(p)
      PROVE  TypeOK'
  <2>1. PICK c : IsCall(c) /\ Begin(p, c)
    BY <1>1, BeginCalls
  <2> QED
    BY <2>1 DEF Begin, db, TypeOK
<1>2. ASSUME NEW p \in Procs, Refuse(p) \/ SyncCurrent(p)
      PROVE  TypeOK'
  BY <1>2, ReturnTypes DEF Refuse, SyncCurrent, db, TypeOK
<1>3. ASSUME NEW p \in Procs, Prepare(p) \/ SyncPrepare(p)
      PROVE  TypeOK'
  <2>1. PICK t \in [version : Versions, items : Items] : Enter(p, t)
    BY <1>3, EnterTypes
  <2> QED
    BY <2>1 DEF Enter, db, TypeOK
<1>4. ASSUME NEW p \in Procs, Commit(p)
      PROVE  TypeOK'
  BY <1>4, WriteTypes, RecordTypes, ReturnTypes DEF Commit, TypeOK, Versions
<1>5. ASSUME NEW p \in Procs, SyncCommit(p)
      PROVE  TypeOK'
  <2>1. Hash[release[p]] \in Hashes
    BY CatalogueAssumption DEF TypeOK
  <2>2. DOMAIN changesets' \subseteq Nat /\ changesets' \in [DOMAIN changesets' -> ChangeSet]
    BY <1>5, RecordTypes DEF SyncCommit, TypeOK
  <2> QED
    BY <1>5, <2>1, <2>2, WriteTypes, ReturnTypes DEF SyncCommit, TypeOK, Versions
<1>6. ASSUME NEW p \in Procs, PruneList(p)
      PROVE  TypeOK'
  BY <1>6 DEF PruneList, Candidates, db, TypeOK
<1>7. ASSUME NEW p \in Procs, PruneBatch(p)
      PROVE  TypeOK'
  BY <1>7 DEF PruneBatch, TypeOK
<1>8. ASSUME NEW p \in Procs, Restart(p)
      PROVE  TypeOK'
  BY <1>8, ReturnTypes DEF Restart, db, TypeOK
<1>9. CASE UNCHANGED vars
  BY <1>9 DEF vars, db, local, TypeOK
<1> QED
  BY <1>1, <1>2, <1>3, <1>4, <1>5, <1>6, <1>7, <1>8, <1>9 DEF Next

---------------------------------------------------------------------------
(* The row lock.                                                           *)

Current(q) ==
    /\ lock = q
    /\ tx[q].version = version + 1
    /\ IF call[q].source = "system"
       THEN OutOfSync(q) /\ tx[q].items = SyncItems(release[q], overrides)
       ELSE /\ version # NoVersion /\ ~Refuses(q)
            /\ tx[q].items = Prepared(release[q], Known(release[q], overrides),
                                      call[q].changes)

\* A step that moves neither the store nor what q is doing leaves q current.
LEMMA CurrentFrame ==
    ASSUME NEW q \in Procs, Current(q),
           UNCHANGED <<version, catalogue, overrides, lock>>,
           UNCHANGED <<tx[q], call[q], release[q]>>
    PROVE  Current(q)'
BY DEF Current, OutOfSync, Refuses, Conflicts

\* Every step keeps the holder of the row lock up to date: others cannot
\* write while it holds the lock, and it takes the lock with fresh reads.
LEMMA LockStep ==
    ASSUME TypeOK, LockedIsCurrent, [Next]_vars
    PROVE  LockedIsCurrent'
<1> SUFFICES ASSUME NEW q \in Procs, pc'[q] = "locked"
             PROVE  Current(q)'
  BY DEF LockedIsCurrent, Current
<1> USE StoreAssumption
<1>0. pc[q] = "locked" => Current(q)
  BY DEF LockedIsCurrent, Current
<1>1. ASSUME NEW p \in Procs, BeginApply(p) \/ BeginRollback(p) \/ BeginImport(p) \/ BeginSync(p)
      PROVE  Current(q)'
  <2>1. PICK c : Begin(p, c)
    BY <1>1, BeginCalls
  <2>2. q # p /\ pc[q] = "locked"
    BY <2>1 DEF Begin, TypeOK
  <2> QED
    BY <1>0, <2>1, <2>2, CurrentFrame DEF Begin, db, TypeOK
<1>2. ASSUME NEW p \in Procs, Refuse(p) \/ SyncCurrent(p)
      PROVE  Current(q)'
  <2>1. q # p /\ pc[q] = "locked"
    BY <1>2 DEF Refuse, SyncCurrent, Return, TypeOK
  <2> QED
    BY <1>0, <1>2, <2>1, CurrentFrame DEF Refuse, SyncCurrent, Return, db, TypeOK
<1>3. ASSUME NEW p \in Procs, Prepare(p) \/ SyncPrepare(p)
      PROVE  Current(q)'
  <2>1. lock = Free /\ \E t : Enter(p, t)
    BY <1>3 DEF Prepare, SyncPrepare
  <2>2. q = p
    BY <1>0, <2>1 DEF Enter, Current, TypeOK
  <2>3. CASE Prepare(p)
    <3> DEFINE t == [version |-> version + 1,
                     items   |-> Prepared(release[p], Known(release[p], overrides),
                                          call[p].changes)]
    <3>1. Enter(p, t) /\ version # NoVersion /\ call[p].source # "system" /\ ~Refuses(p)
      BY <2>3 DEF Prepare
    <3>2. lock' = p /\ tx'[p] = t /\ UNCHANGED <<version, catalogue, overrides, call, release>>
      BY <3>1 DEF Enter, db, TypeOK
    <3> QED
      BY <2>2, <3>1, <3>2 DEF Current, OutOfSync, Refuses, Conflicts
  <2>4. CASE SyncPrepare(p)
    <3> DEFINE t == [version |-> version + 1, items |-> SyncItems(release[p], overrides)]
    <3>1. Enter(p, t) /\ call[p].source = "system" /\ OutOfSync(p)
      BY <2>4 DEF SyncPrepare
    <3>2. lock' = p /\ tx'[p] = t /\ UNCHANGED <<version, catalogue, overrides, call, release>>
      BY <3>1 DEF Enter, db, TypeOK
    <3> QED
      BY <2>2, <3>1, <3>2 DEF Current, OutOfSync
  <2> QED
    BY <1>3, <2>3, <2>4
<1>4. ASSUME NEW p \in Procs, Commit(p) \/ SyncCommit(p)
      PROVE  Current(q)'
  <2>1. pc[p] = "locked" /\ lock = p /\ Return(p)
    BY <1>4 DEF Commit, SyncCommit, LockedIsCurrent
  <2>2. q # p /\ pc[q] = "locked"
    BY <2>1 DEF Return, TypeOK
  <2> QED
    BY <1>0, <2>1, <2>2 DEF Current
<1>5. ASSUME NEW p \in Procs, PruneList(p) \/ PruneBatch(p)
      PROVE  Current(q)'
  <2>1. q # p /\ pc[q] = "locked"
    BY <1>5 DEF PruneList, PruneBatch, TypeOK
  <2> QED
    BY <1>0, <1>5, <2>1, CurrentFrame DEF PruneList, PruneBatch, db
<1>6. ASSUME NEW p \in Procs, Restart(p)
      PROVE  Current(q)'
  <2>1. q # p /\ pc[q] = "locked"
    BY <1>6 DEF Restart, Return, TypeOK
  <2>2. lock' = lock
    BY <1>0, <1>6, <2>1 DEF Restart, Current
  <2> QED
    BY <1>0, <1>6, <2>1, <2>2, CurrentFrame DEF Restart, Return, db, TypeOK
<1>7. CASE UNCHANGED vars
  BY <1>0, <1>7, CurrentFrame DEF vars, db, local
<1> QED
  BY <1>1, <1>2, <1>3, <1>4, <1>5, <1>6, <1>7 DEF Next

---------------------------------------------------------------------------
(* What a step may do to the tables: nothing but delete old snapshots,     *)
(* write the next version, or create the State row with version 0.         *)

Quiet ==
    /\ UNCHANGED <<version, catalogue, overrides, changesets>>
    /\ DOMAIN snapshots' \subseteq DOMAIN snapshots
    /\ \A v \in DOMAIN snapshots' : snapshots'[v] = snapshots[v]
    /\ \A v \in DOMAIN snapshots \ DOMAIN snapshots' : \E p \in Procs : v \in doomed[p]

Writes(p) ==
    /\ pc[p] = "locked" /\ tx[p].items \in Items
    /\ version' = version + 1
    /\ overrides' = Proposed(overrides, tx[p].items)
    /\ snapshots' = With(snapshots, version + 1,
                         BuildDocument(release[p], Known(release[p], overrides')))
    /\ catalogue' = Hash[release[p]]

Grows(p) ==
    /\ Writes(p)
    /\ version # NoVersion
    /\ changesets' = With(changesets, version + 1,
                          [source |-> call[p].source, catalogue |-> Hash[release[p]],
                           items |-> tx[p].items])

Begins(p) ==
    /\ Writes(p)
    /\ call[p].source = "system" /\ version = NoVersion
    /\ UNCHANGED changesets

\* Every step is one of the three.
LEMMA StepKinds ==
    ASSUME TypeOK, LockedIsCurrent, [Next]_vars
    PROVE  Quiet \/ \E p \in Procs : Grows(p) \/ Begins(p)
<1>1. ASSUME NEW p \in Procs, Commit(p)
      PROVE  Grows(p)
  <2>1. /\ pc[p] = "locked" /\ call[p].source # "system"
        /\ Write(p, tx[p].items) /\ Record(p, tx[p].items) /\ UNCHANGED catalogue
    BY <1>1 DEF Commit
  <2>2. catalogue = Hash[release[p]] /\ version # NoVersion
    BY <2>1 DEF LockedIsCurrent, Refuses, OutOfSync
  <2> QED
    BY <2>1, <2>2, WriteTypes, RecordTypes DEF Grows, Writes
<1>2. ASSUME NEW p \in Procs, SyncCommit(p)
      PROVE  Grows(p) \/ Begins(p)
  <2>1. /\ pc[p] = "locked" /\ call[p].source = "system"
        /\ Write(p, tx[p].items) /\ catalogue' = Hash[release[p]]
    BY <1>2 DEF SyncCommit
  <2>2. Writes(p)
    BY <2>1, WriteTypes DEF Writes
  <2>3. CASE version = NoVersion
    BY <1>2, <2>1, <2>2, <2>3 DEF SyncCommit, Begins
  <2>4. CASE version # NoVersion
    BY <1>2, <2>1, <2>2, <2>4, RecordTypes DEF SyncCommit, Grows
  <2> QED
    BY <2>3, <2>4
<1>3. UNCHANGED db => Quiet
  BY DEF db, Quiet
<1>4. ASSUME NEW p \in Procs, PruneBatch(p)
      PROVE  Quiet
  BY <1>4 DEF PruneBatch, Batch, Quiet
<1>5. ASSUME NEW p \in Procs, BeginApply(p) \/ BeginRollback(p) \/ BeginImport(p) \/ BeginSync(p)
      PROVE  UNCHANGED db
  BY <1>5, BeginCalls DEF Begin
<1>6. ASSUME NEW p \in Procs, Prepare(p) \/ SyncPrepare(p)
      PROVE  UNCHANGED db
  BY <1>6 DEF Prepare, SyncPrepare, Enter
<1>7. ASSUME NEW p \in Procs, Refuse(p) \/ SyncCurrent(p) \/ PruneList(p) \/ Restart(p)
      PROVE  UNCHANGED db
  BY <1>7 DEF Refuse, SyncCurrent, PruneList, Restart
<1>8. UNCHANGED vars => UNCHANGED db
  BY DEF vars
<1> QED
  BY <1>1, <1>2, <1>3, <1>4, <1>5, <1>6, <1>7, <1>8 DEF Next

\* The items of a transaction are steps from the stored overrides, of one key
\* each, and every value they leave behind fits the catalogue of the writer.
LEMMA LockedItems ==
    ASSUME TypeOK, LockedIsCurrent, NEW p \in Procs, pc[p] = "locked",
           NEW k \in Keys, tx[p].items[k] # NoItem
    PROVE  LET item == tx[p].items[k]
           IN  /\ item.old = overrides[k] /\ item.new # item.old
               /\ item.new # Absent => k \in KeysOf[release[p]] /\ Valid(release[p], k, item.new)
               /\ call[p].source # "system" => k \in KeysOf[release[p]]
<1> DEFINE r == release[p]
           stored == Known(r, overrides)
<1>0. r \in Releases /\ stored \in Content /\ overrides \in Content
  BY KnownType DEF TypeOK
<1>1. CASE call[p].source = "system"
  <2>1. tx[p].items = SyncItems(r, overrides)
    BY <1>1 DEF LockedIsCurrent
  <2>2. tx[p].items[k] = [old |-> overrides[k], new |-> Absent] /\ overrides[k] # Absent
    BY <2>1 DEF SyncItems
  <2> QED
    BY <1>1, <2>2
<1>2. CASE call[p].source # "system"
  <2>1. tx[p].items = Prepared(r, stored, call[p].changes) /\ WellFormed(call[p].changes)
    BY <1>2 DEF LockedIsCurrent, TypeOK, IsCall, WellFormed
  <2>2. PICK i \in DOMAIN call[p].changes :
          LET change == call[p].changes[i]
          IN  /\ change.key = k /\ ~FieldError(r, change)
              /\ tx[p].items[k] = [old |-> stored[k], new |-> Wanted(r, change)]
              /\ Wanted(r, change) # stored[k]
    <3> DEFINE changes == call[p].changes
    <3>1. changes = call[p].changes
      OBVIOUS
    <3> HIDE DEF r, stored, changes
    <3>2. WellFormed(changes) /\ Prepared(r, stored, changes)[k] # NoItem
      BY <2>1, <3>1
    <3>3. \E i \in DOMAIN changes :
              /\ changes[i].key = k /\ ~FieldError(r, changes[i])
              /\ Prepared(r, stored, changes)[k] = [old |-> stored[k], new |-> Wanted(r, changes[i])]
              /\ Wanted(r, changes[i]) # stored[k]
      BY <1>0, <3>2, PreparedItem
    <3> QED
      BY <2>1, <3>1, <3>3
  <2>3. /\ k \in KeysOf[r]
        /\ Wanted(r, call[p].changes[i]) # Absent
              => Valid(r, k, Wanted(r, call[p].changes[i]))
    BY <1>0, <2>1, <2>2, WantedType DEF WellFormed
  <2>4. stored[k] = overrides[k]
    BY <2>3 DEF Known
  <2> QED
    BY <1>2, <2>2, <2>3, <2>4
<1> QED
  BY <1>1, <1>2

---------------------------------------------------------------------------
(* The history, the snapshots and the overrides.                           *)

\* Every step keeps the numbering: the next version is one more, and prune
\* lists only versions strictly between 0 and the current one.
LEMMA GaplessStep ==
    ASSUME TypeOK, LockedIsCurrent, VersionsGapless, [Next]_vars
    PROVE  VersionsGapless'
<1>0. version \in Nat \cup {-1}
  BY DEF TypeOK, Versions, NoVersion
<1>1. version' >= version /\ version' \in Int
  <2>1. Quiet \/ \E p \in Procs : Writes(p)
    BY StepKinds DEF Grows, Begins
  <2>2. version' \in {version, version + 1}
    BY <2>1 DEF Quiet, Writes
  <2> QED
    BY <1>0, <2>2
<1>2. ASSUME NEW p \in Procs PROVE doomed'[p] \subseteq 1..(version - 1)
  <2>1. CASE \E q \in Procs : PruneList(q)
    <3>1. PICK q \in Procs : PruneList(q)
      BY <2>1
    <3>2. CASE p = q
      <4>1. PICK keep \in Keeps : doomed'[p] = Candidates(DOMAIN snapshots, keep)
        BY <3>1, <3>2 DEF PruneList, TypeOK
      <4>2. \A v \in Candidates(DOMAIN snapshots, keep) :
                v \in DOMAIN snapshots /\ v # 0 /\ \E w \in DOMAIN snapshots : w > v
        BY DEF Candidates, Newer
      <4> QED
        BY <1>0, <4>1, <4>2 DEF VersionsGapless
    <3>3. CASE p # q
      BY <3>1, <3>3 DEF PruneList, VersionsGapless, TypeOK
    <3> QED
      BY <3>2, <3>3
  <2>2. CASE ~\E q \in Procs : PruneList(q)
    <3>1. doomed'[p] \subseteq doomed[p]
      <4>1. ASSUME NEW q \in Procs, BeginApply(q) \/ BeginRollback(q) \/ BeginImport(q) \/ BeginSync(q)
            PROVE  UNCHANGED doomed
        BY <4>1, BeginCalls DEF Begin
      <4>2. ASSUME NEW q \in Procs, \/ Refuse(q) \/ SyncCurrent(q) \/ Prepare(q) \/ SyncPrepare(q)
                                    \/ Commit(q) \/ SyncCommit(q)
            PROVE  UNCHANGED doomed
        BY <4>2 DEF Refuse, SyncCurrent, Prepare, SyncPrepare, Enter, Commit, SyncCommit
      <4>3. ASSUME NEW q \in Procs, PruneBatch(q) \/ Restart(q)
            PROVE  doomed'[p] \subseteq doomed[p]
        BY <4>3 DEF PruneBatch, Restart, TypeOK
      <4>4. UNCHANGED vars => UNCHANGED doomed
        BY DEF vars, local
      <4> QED
        BY <2>2, <4>1, <4>2, <4>3, <4>4 DEF Next
    <3> QED
      BY <3>1 DEF VersionsGapless
  <2> QED
    BY <2>1, <2>2
<1>3. \A p \in Procs : doomed'[p] \subseteq 1..(version' - 1)
  BY <1>0, <1>1, <1>2
<1>4. CASE Quiet
  <2>1. \A v \in {0, version} : \A p \in Procs : v \notin doomed[p]
    BY <1>0 DEF VersionsGapless
  <2> QED
    BY <1>3, <1>4, <2>1 DEF Quiet, VersionsGapless
<1>5. ASSUME NEW p \in Procs, Grows(p)
      PROVE  VersionsGapless'
  BY <1>0, <1>3, <1>5 DEF Grows, Writes, With, VersionsGapless, NoVersion
<1>6. ASSUME NEW p \in Procs, Begins(p)
      PROVE  VersionsGapless'
  BY <1>0, <1>3, <1>6 DEF Begins, Writes, With, VersionsGapless, NoVersion
<1> QED
  BY <1>4, <1>5, <1>6, StepKinds

Recorded ==
    /\ History(changesets, version)
    /\ HistoryReplays
    /\ ItemsAreSteps
    /\ SnapshotsRebuildable

\* A step that writes no version keeps the recorded past.
LEMMA RecordedQuiet ==
    ASSUME Recorded, Quiet
    PROVE  Recorded'
BY DEF Recorded, Quiet, HistoryReplays, ItemsAreSteps, SnapshotsRebuildable, ReplayedAt

\* The first sync: version 0 has no change set and nothing is overridden.
LEMMA RecordedBegins ==
    ASSUME TypeOK, LockedIsCurrent, VersionsGapless, Recorded, NEW p \in Procs, Begins(p)
    PROVE  Recorded'
<1>1. /\ DOMAIN changesets = {} /\ changesets' = changesets /\ version' = 0
      /\ DOMAIN snapshots = {}
  <2>1. version = -1 /\ version' = version + 1 /\ changesets' = changesets
    BY DEF Begins, Writes, NoVersion
  <2>2. 1..(-1) = {} /\ 0..(-1) = {} /\ -1 + 1 = 0
    OBVIOUS
  <2> QED
    BY <2>1, <2>2 DEF VersionsGapless
<1>2. \A v : Replayed(changesets, v) = Empty /\ Replayed(changesets', v) = Empty
  BY <1>1, ReplayedNothing
<1>3. overrides = Empty
  BY <1>2 DEF Recorded, HistoryReplays, ReplayedAt
<1>4. tx[p].items = Nothing
  <2>1. tx[p].items = SyncItems(release[p], overrides)
    BY DEF LockedIsCurrent, Begins, Writes
  <2> QED
    BY <1>3, <2>1 DEF SyncItems, Empty, Nothing
<1>5. overrides' = Empty
  BY <1>3, <1>4 DEF Begins, Writes, Proposed, Empty, Nothing
<1>6. History(changesets', version')
  <2>1. \A k \in Keys, v \in Int : Touching(changesets', k, v) = {}
    BY <1>1 DEF Touching
  <2> QED
    BY <1>1, <2>1 DEF History
<1>7. SnapshotsRebuildable'
  <2>1. /\ DOMAIN snapshots' = {0}
        /\ snapshots'[0] = BuildDocument(release[p], Known(release[p], Empty))
    BY <1>1, <1>5 DEF Begins, Writes, With, NoVersion
  <2>2. release[p] \in Releases /\ Empty \in Content
    BY EmptyTypes DEF TypeOK
  <2>3. snapshots'[0].catalogue = Hash[release[p]]
    BY <2>1 DEF BuildDocument
  <2> QED
    BY <1>2, <2>1, <2>2, <2>3, DocumentByHash DEF SnapshotsRebuildable, ReplayedAt
<1>8. HistoryReplays' /\ ItemsAreSteps'
  BY <1>1, <1>2, <1>5 DEF HistoryReplays, ItemsAreSteps, ReplayedAt
<1> QED
  BY <1>6, <1>7, <1>8 DEF Recorded

\* A change set or a later sync: its items lead from the overrides of the
\* version before to its own, and its snapshot is their document.
LEMMA RecordedGrows ==
    ASSUME TypeOK, LockedIsCurrent, VersionsGapless, Recorded, NEW p \in Procs, Grows(p)
    PROVE  Recorded'
<1> DEFINE n == version + 1
           items == tx[p].items
           row == [source |-> call[p].source, catalogue |-> Hash[release[p]], items |-> items]
<1>0. version \in Nat
  BY DEF TypeOK, Versions, Grows
<1>1. /\ pc[p] = "locked" /\ items \in Items /\ n \in Nat \ {0} /\ version' = n /\ n - 1 = version
      /\ overrides' = Proposed(overrides, items)
      /\ changesets' = With(changesets, n, row)
      /\ snapshots' = With(snapshots, n, BuildDocument(release[p], Known(release[p], overrides')))
  <2>1. n \in Nat \ {0} /\ n - 1 = version
    BY <1>0
  <2> HIDE DEF n
  <2>2. /\ pc[p] = "locked" /\ items \in Items /\ version' = n
        /\ overrides' = Proposed(overrides, items)
        /\ snapshots' = With(snapshots, n, BuildDocument(release[p], Known(release[p], overrides')))
    BY DEF Grows, Writes, n
  <2>3. changesets' = With(changesets, n, row)
    BY DEF Grows, n
  <2> QED
    BY <2>1, <2>2, <2>3
<1>2. /\ overrides \in Content /\ overrides' \in Content /\ release[p] \in Releases
      /\ overrides = Replayed(changesets, version)
      /\ History(changesets, version)
      /\ DOMAIN changesets = 1..version /\ DOMAIN snapshots \subseteq 0..version
      /\ version \in Nat
  BY <1>1, ProposedType DEF TypeOK, Recorded, HistoryReplays, ReplayedAt, VersionsGapless, Grows,
     Versions, NoVersion
<1> HIDE DEF items
<1>3. /\ History(changesets', n)
      /\ \A v \in Int : v < n => Replayed(changesets', v) = Replayed(changesets, v)
      /\ Replayed(changesets', n) = Proposed(Replayed(changesets, n - 1), row.items)
  <2>1. History(changesets, n - 1) /\ row.items \in Items
    BY <1>1, <1>2
  <2> HIDE DEF row, n
  <2> QED
    BY <1>1, <2>1, ReplayedExtends
<1>4. overrides' = Replayed(changesets', n)
  BY <1>1, <1>2, <1>3
<1>5. HistoryReplays'
  BY <1>1, <1>4 DEF HistoryReplays, ReplayedAt
<1>6. ItemsAreSteps'
  <2>1. /\ DOMAIN changesets' = 1..n /\ changesets'[n] = row
        /\ \A v \in 1..version : changesets'[v] = changesets[v]
    BY <1>1, <1>2 DEF With
  <2>2. ASSUME NEW v \in 1..version
        PROVE  /\ \A k \in Keys : LET item == changesets'[v].items[k] IN
                    item # NoItem => item.old = Replayed(changesets', v - 1)[k] /\ item.new # item.old
               /\ changesets'[v].source # "system" => changesets'[v].items # Nothing
    <3>1. Replayed(changesets', v - 1) = Replayed(changesets, v - 1)
      BY <1>2, <1>3
    <3>2. v \in DOMAIN changesets
      BY <1>2
    <3> QED
      BY <2>1, <3>1, <3>2 DEF Recorded, ItemsAreSteps, ReplayedAt
  <2>3. ASSUME NEW k \in Keys, items[k] # NoItem
        PROVE  items[k].old = Replayed(changesets', n - 1)[k] /\ items[k].new # items[k].old
    <3>1. Replayed(changesets', n - 1) = overrides
      BY <1>1, <1>2, <1>3
    <3>2. items[k].old = overrides[k] /\ items[k].new # items[k].old
      BY <1>1, <2>3, LockedItems DEF items
    <3> QED
      BY <3>1, <3>2
  <2>4. call[p].source # "system" => items # Nothing
    BY <1>1 DEF LockedIsCurrent, Refuses, NothingToChange, items
  <2>5. ASSUME NEW v \in DOMAIN changesets', v # n
        PROVE  v \in 1..version
    BY <1>1, <1>2, <2>1, <2>5
  <2>6. /\ row.items = items /\ row.source = call[p].source
        /\ n \in 1..n /\ \A v \in 1..version : v # n
    BY <1>1, <1>2
  <2> HIDE DEF row, n
  <2>7. ASSUME NEW v \in DOMAIN changesets'
        PROVE  /\ \A k \in Keys : LET item == changesets'[v].items[k] IN
                    item # NoItem => item.old = Replayed(changesets', v - 1)[k] /\ item.new # item.old
               /\ changesets'[v].source # "system" => changesets'[v].items # Nothing
    <3>1. CASE v = n
      BY <2>1, <2>3, <2>4, <2>6, <3>1
    <3>2. CASE v # n
      BY <2>2, <2>5, <3>2
    <3> QED
      BY <3>1, <3>2
  <2> QED
    BY <2>7 DEF ItemsAreSteps, ReplayedAt
<1>7. SnapshotsRebuildable'
  <2>1. ASSUME NEW v \in DOMAIN snapshots', NEW r \in Releases,
               Hash[r] = snapshots'[v].catalogue
        PROVE  snapshots'[v] = BuildDocument(r, Replayed(changesets', v))
    <3>1. CASE v = n
      <4>1. snapshots'[v] = BuildDocument(release[p], Known(release[p], overrides'))
        BY <1>1, <3>1 DEF With
      <4>2. Hash[r] = Hash[release[p]]
        BY <2>1, <4>1 DEF BuildDocument
      <4> QED
        BY <1>2, <1>4, <3>1, <4>1, <4>2, DocumentByHash
    <3>2. CASE v # n
      <4>1. v \in DOMAIN snapshots /\ snapshots'[v] = snapshots[v] /\ v \in Int /\ v < n
        BY <1>1, <1>2, <3>2 DEF With
      <4> QED
        BY <1>3, <2>1, <4>1 DEF Recorded, SnapshotsRebuildable, ReplayedAt
    <3> QED
      BY <3>1, <3>2
  <2> QED
    BY <2>1 DEF SnapshotsRebuildable, ReplayedAt
<1> QED
  BY <1>1, <1>3, <1>5, <1>6, <1>7 DEF Recorded

\* After a write the stored overrides fit the catalogue of its writer.
LEMMA FitStep ==
    ASSUME TypeOK, LockedIsCurrent, OverridesFitCatalogue, [Next]_vars
    PROVE  OverridesFitCatalogue'
<1>1. CASE Quiet
  BY <1>1 DEF Quiet, OverridesFitCatalogue
<1>2. ASSUME NEW p \in Procs, Writes(p), NEW r \in Releases, Hash[r] = catalogue',
             NEW k \in Keys, overrides'[k] # Absent
      PROVE  k \in KeysOf[r] /\ Valid(r, k, overrides'[k])
  <2> DEFINE s == release[p]
             item == tx[p].items[k]
  <2>1. /\ s \in Releases /\ Hash[r] = Hash[s] /\ pc[p] = "locked"
        /\ overrides'[k] = IF item = NoItem THEN overrides[k] ELSE item.new
    BY <1>2 DEF Writes, Proposed, TypeOK
  <2>2. k \in KeysOf[s] /\ Valid(s, k, overrides'[k])
    <3>1. CASE item # NoItem
      BY <1>2, <2>1, <3>1, LockedItems
    <3>2. CASE item = NoItem /\ call[p].source = "system"
      <4>1. SyncItems(s, overrides)[k] = NoItem /\ overrides'[k] = overrides[k]
        BY <2>1, <3>2 DEF LockedIsCurrent
      <4>2. [old |-> overrides[k], new |-> Absent] # NoItem
        BY CatalogueAssumption DEF Item, TypeOK, Content
      <4> QED
        BY <1>2, <4>1, <4>2 DEF SyncItems
    <3>3. CASE item = NoItem /\ call[p].source # "system"
      <4>1. catalogue = Hash[s]
        BY <2>1, <3>3 DEF LockedIsCurrent, Refuses, OutOfSync
      <4> QED
        BY <1>2, <2>1, <3>3, <4>1 DEF OverridesFitCatalogue
    <3> QED
      BY <3>1, <3>2, <3>3
  <2> QED
    BY <2>1, <2>2, HashAssumption DEF Valid
<1> QED
  BY <1>1, <1>2, StepKinds DEF OverridesFitCatalogue, Grows, Begins

---------------------------------------------------------------------------
(* Requests computed before the lock.                                      *)

Asks(c, r, stored, v) ==
    /\ c.expected <= v
    /\ c.exact /\ c.expected = v => \A k \in KeysOf[r] :
          IF \E i \in DOMAIN c.changes : c.changes[i].key = k
          THEN \A i \in DOMAIN c.changes :
                  c.changes[i].key = k => c.changes[i].value = c.goal[k]
          ELSE stored[k] = c.goal[k]

\* WellFormed indexed by their keys, with a goal for each.
LEMMA AsksByKey ==
    ASSUME NEW c, NEW r, NEW stored, NEW v, c.expected <= v,
           \A k \in DOMAIN c.changes : c.changes[k] = [key |-> k, value |-> c.goal[k]],
           c.exact => \A k \in KeysOf[r] \ DOMAIN c.changes : stored[k] = c.goal[k]
    PROVE  Asks(c, r, stored, v)
<1> SUFFICES ASSUME c.exact, NEW k \in KeysOf[r]
             PROVE  IF \E i \in DOMAIN c.changes : c.changes[i].key = k
                    THEN \A i \in DOMAIN c.changes :
                            c.changes[i].key = k => c.changes[i].value = c.goal[k]
                    ELSE stored[k] = c.goal[k]
  BY DEF Asks
<1>1. ASSUME NEW i \in DOMAIN c.changes
      PROVE  c.changes[i].key = i /\ c.changes[i].value = c.goal[i]
  <2>1. c.changes[i] = [key |-> i, value |-> c.goal[i]]
    OBVIOUS
  <2> QED
    BY ONLY <2>1
<1> QED
  BY <1>1

\* What rollback_changes and document_changes compute from the overrides
\* leads to their goal.
LEMMA BeginAsks ==
    ASSUME TypeOK, NEW p \in Procs, NEW c, Begin(p, c),
           BeginApply(p) \/ BeginRollback(p) \/ BeginImport(p) \/ BeginSync(p)
    PROVE  Asks(c, release[p], overrides, version)
<1>0. /\ version \in Int /\ -1 <= version
      /\ \A e \in Expectations : e <= version
      /\ NoCall.expected <= version
  BY DEF TypeOK, Versions, NoVersion, Expectations, NoCall
<1>1. release[p] \in Releases /\ KeysOf[release[p]] \subseteq Keys /\ overrides \in Content
  BY CatalogueAssumption DEF TypeOK
<1>2. ASSUME NEW d, Begin(p, d)
      PROVE  c = d
  BY <1>2 DEF Begin, TypeOK
<1>3. CASE BeginApply(p)
  <2>1. PICK changes \in Requests, e \in Expectations :
            Begin(p, [NoCall EXCEPT !.source = "api", !.changes = changes, !.expected = e])
    BY <1>3 DEF BeginApply
  <2>2. c = [NoCall EXCEPT !.source = "api", !.changes = changes, !.expected = e]
    BY <1>2, <2>1
  <2>3. c.expected = e /\ c.exact = FALSE
    BY <2>2 DEF NoCall
  <2> QED
    BY <1>0, <2>3 DEF Asks
<1>4. CASE BeginRollback(p)
  <2>1. PICK v \in DOMAIN snapshots, e \in Expectations :
          Begin(p, [source   |-> "rollback",
                    changes  |-> RollbackChanges(release[p], overrides, snapshots[v]),
                    expected |-> e,
                    goal     |-> RollbackGoal(release[p], snapshots[v]),
                    exact    |-> TRUE])
    BY <1>4 DEF BeginRollback, RollbackCall
  <2> DEFINE goal == RollbackGoal(release[p], snapshots[v])
             changes == RollbackChanges(release[p], overrides, snapshots[v])
  <2>2. /\ DOMAIN changes = {k \in KeysOf[release[p]] : overrides[k] # goal[k]}
        /\ \A k \in DOMAIN changes : changes[k] = [key |-> k, value |-> goal[k]]
    BY <1>1 DEF RollbackChanges, Towards, Known
  <2>3. c.expected = e /\ c.changes = changes /\ c.goal = goal
    BY <1>2, <2>1
  <2> HIDE DEF goal, changes
  <2>4. \A k \in KeysOf[release[p]] \ DOMAIN changes : overrides[k] = goal[k]
    BY <2>2
  <2> QED
    BY <1>0, <2>2, <2>3, <2>4, AsksByKey
<1>5. CASE BeginImport(p)
  <2>1. PICK document \in Documents, strict \in BOOLEAN, replace \in BOOLEAN, e \in Expectations :
          Begin(p, [source   |-> "import",
                    changes  |-> ImportChanges(release[p], overrides, document, replace),
                    expected |-> e,
                    goal     |-> document.values,
                    exact    |-> replace])
    BY <1>5 DEF BeginImport
  <2> DEFINE goal == document.values
             changes == ImportChanges(release[p], overrides, document, replace)
  <2>2. \A k \in DOMAIN changes : changes[k] = [key |-> k, value |-> goal[k]]
    BY DEF ImportChanges
  <2>4. ASSUME replace, NEW k \in KeysOf[release[p]] \ DOMAIN changes
        PROVE  overrides[k] = goal[k]
    <3>1. goal[k] = Absent /\ Known(release[p], overrides)[k] = Absent
      BY <2>4 DEF ImportChanges
    <3> QED
      BY <1>1, <3>1 DEF Known
  <2>3. c.expected = e /\ c.changes = changes /\ c.goal = goal /\ c.exact = replace
    BY <1>2, <2>1
  <2> HIDE DEF goal, changes
  <2> QED
    BY <1>0, <2>2, <2>3, <2>4, AsksByKey
<1>6. CASE BeginSync(p)
  BY <1>0, <1>2, <1>6 DEF BeginSync, NoCall, Asks
<1> QED
  BY <1>3, <1>4, <1>5, <1>6

\* What a step does to the call of a process: it ends, begins or stays.
LEMMA CallKinds ==
    ASSUME TypeOK, [Next]_vars, NEW q \in Procs
    PROVE  \/ call'[q] = NoCall
           \/ UNCHANGED <<call[q], release[q]>>
           \/ /\ Begin(q, call'[q])
              /\ BeginApply(q) \/ BeginRollback(q) \/ BeginImport(q) \/ BeginSync(q)
<1>1. ASSUME NEW p \in Procs, BeginApply(p) \/ BeginRollback(p) \/ BeginImport(p) \/ BeginSync(p)
      PROVE  IF p = q THEN Begin(q, call'[q]) ELSE UNCHANGED <<call[q], release[q]>>
  <2>1. PICK c : Begin(p, c)
    BY <1>1, BeginCalls
  <2> QED
    BY <2>1 DEF Begin, TypeOK
<1>2. ASSUME NEW p \in Procs, Return(p), \A s \in Procs \ {p} : release'[s] = release[s]
      PROVE  call'[q] = NoCall \/ UNCHANGED <<call[q], release[q]>>
  BY <1>2 DEF Return, TypeOK
<1>3. ASSUME NEW p \in Procs, Refuse(p) \/ SyncCurrent(p) \/ Commit(p) \/ SyncCommit(p) \/ Restart(p)
      PROVE  Return(p) /\ \A s \in Procs \ {p} : release'[s] = release[s]
  BY <1>3 DEF Refuse, SyncCurrent, Commit, SyncCommit, Restart, TypeOK
<1>4. ASSUME NEW p \in Procs, Prepare(p) \/ SyncPrepare(p) \/ PruneList(p) \/ PruneBatch(p)
      PROVE  UNCHANGED <<call, release>>
  BY <1>4 DEF Prepare, SyncPrepare, Enter, PruneList, PruneBatch
<1>5. UNCHANGED vars => UNCHANGED <<call, release>>
  BY DEF vars, local
<1> QED
  BY <1>1, <1>2, <1>3, <1>4, <1>5 DEF Next

\* Every step keeps the requests of restores current or their version past.
LEMMA RestoresStep ==
    ASSUME TypeOK, LockedIsCurrent, RestoresAreCurrent, [Next]_vars
    PROVE  RestoresAreCurrent'
<1> SUFFICES ASSUME NEW q \in Procs
             PROVE  Asks(call'[q], release'[q], overrides', version')
  BY DEF RestoresAreCurrent, Asks
<1>0. version \in Int /\ -1 <= version
  BY DEF TypeOK, Versions, NoVersion
<1>1. Quiet \/ version' = version + 1
  BY StepKinds DEF Grows, Begins, Writes
<1>2. Quiet => UNCHANGED <<version, overrides>>
  BY DEF Quiet
<1>3. version' \in Int /\ version' >= version
  BY <1>0, <1>1, <1>2
<1>4. CASE call'[q] = NoCall
  BY <1>0, <1>3, <1>4 DEF NoCall, Asks, NoVersion
<1>5. CASE UNCHANGED <<call[q], release[q]>>
  <2>1. Asks(call[q], release[q], overrides, version) /\ call[q].expected \in Int
    BY DEF RestoresAreCurrent, Asks, TypeOK, IsCall, Versions, NoVersion
  <2>2. CASE Quiet
    BY <1>2, <1>5, <2>1, <2>2
  <2>3. CASE version' = version + 1
    BY <1>0, <1>5, <2>1, <2>3 DEF Asks
  <2> QED
    BY <1>1, <2>2, <2>3
<1>6. CASE /\ Begin(q, call'[q])
           /\ BeginApply(q) \/ BeginRollback(q) \/ BeginImport(q) \/ BeginSync(q)
  <2>1. Asks(call'[q], release[q], overrides, version)
    BY <1>6, BeginAsks
  <2> QED
    BY <1>6, <2>1 DEF Begin, db
<1> QED
  BY <1>4, <1>5, <1>6, CallKinds

---------------------------------------------------------------------------
(* The invariants.                                                         *)

\* Before the first sync the store is empty and nobody is at work.
LEMMA InitInv == Init => IInv
<1> SUFFICES ASSUME Init
             PROVE  IInv
  OBVIOUS
<1> USE StoreAssumption, CatalogueAssumption
<1>0. version = -1 /\ DOMAIN changesets = {} /\ DOMAIN snapshots = {} /\ 1..(-1) = {} /\ 0..(-1) = {}
  BY DEF Init, NoVersion
<1>1. TypeOK
  BY <1>0, EmptyTypes, NoneTypes DEF Init, TypeOK, Versions, NoVersion
<1>2. LockedIsCurrent /\ VersionsGapless
  BY <1>0 DEF Init, LockedIsCurrent, VersionsGapless, NoVersion
<1>3. \A v : Replayed(changesets, v) = Empty
  BY <1>0, ReplayedNothing
<1>4. History(changesets, version)
  <2>1. \A k \in Keys, v \in Int : Touching(changesets, k, v) = {}
    BY <1>0 DEF Touching
  <2> QED
    BY <1>0, <2>1 DEF History
<1>5. HistoryReplays /\ ItemsAreSteps /\ SnapshotsRebuildable
  BY <1>0, <1>3 DEF Init, HistoryReplays, ItemsAreSteps, SnapshotsRebuildable, ReplayedAt
<1>6. OverridesFitCatalogue /\ RestoresAreCurrent
  BY <1>0 DEF Init, Empty, OverridesFitCatalogue, RestoresAreCurrent, NoCall, NoVersion
<1> QED
  BY <1>1, <1>2, <1>4, <1>5, <1>6 DEF IInv

\* Every step preserves the inductive invariant.
LEMMA NextInv == IInv /\ [Next]_vars => IInv'
<1> SUFFICES ASSUME IInv, [Next]_vars
             PROVE  IInv'
  OBVIOUS
<1>1. TypeOK /\ LockedIsCurrent /\ VersionsGapless /\ Recorded /\ OverridesFitCatalogue /\ RestoresAreCurrent
  BY DEF IInv, Recorded
<1>2. TypeOK' /\ LockedIsCurrent' /\ VersionsGapless' /\ OverridesFitCatalogue' /\ RestoresAreCurrent'
  BY <1>1, TypeStep, LockStep, GaplessStep, FitStep, RestoresStep
<1>3. Recorded'
  BY <1>1, StepKinds, RecordedQuiet, RecordedBegins, RecordedGrows
<1> QED
  BY <1>2, <1>3 DEF IInv, Recorded

\* The inductive invariant holds of every run of the store.
THEOREM Invariance == Spec => []IInv
BY InitInv, NextInv, PTL DEF Spec

\* Every variable keeps its type: in particular no transaction ever stores a
\* value that failed its coercion.
THEOREM TypeCorrect == Spec => []TypeOK
<1>1. IInv => TypeOK
  BY DEF IInv
<1> QED
  BY <1>1, Invariance, PTL

\* Whoever holds the row lock in apply_changeset or sync works on fresh reads,
\* and so does a rollback or a replacing import that will not be refused.
THEOREM LockProtects == Spec => []CallsAreCurrent
<1>1. IInv => CallsAreCurrent
  BY DEF IInv, CallsAreCurrent
<1> QED
  BY <1>1, Invariance, PTL

\* The change items are a complete audit trail of the stored overrides, and
\* every one of them is a step from what its predecessors left.
THEOREM AuditTrailComplete == Spec => []AuditTrail
<1>1. IInv => AuditTrail
  BY DEF IInv, AuditTrail
<1> QED
  BY <1>1, Invariance, PTL

\* A snapshot that prune_snapshots deletes can be rebuilt from the items.
THEOREM PrunedCanBeRebuilt == Spec => []SnapshotsRebuildable
<1>1. IInv => SnapshotsRebuildable
  BY DEF IInv
<1> QED
  BY <1>1, Invariance, PTL

\* prune --keep never deletes version 0 or the current version, and versions
\* have no gaps.
THEOREM CurrentNeverPruned == Spec => []VersionsGapless
<1>1. IInv => VersionsGapless
  BY DEF IInv
<1> QED
  BY <1>1, Invariance, PTL

\* No mix of releases leaves an override that the stored catalogue's readers
\* cannot coerce.
THEOREM OverridesAlwaysFit == Spec => []OverridesFitCatalogue
<1>1. IInv => OverridesFitCatalogue
  BY DEF IInv
<1> QED
  BY <1>1, Invariance, PTL

---------------------------------------------------------------------------
(* The action properties.                                                  *)

\* A change set commits on the version its caller expected (If-Match, the
\* form's version) and from a process in sync, whatever happened while it
\* waited for the lock.
THEOREM ExpectedVersionHonoured == Spec => CommitsAreConditional
<1>1. IInv /\ [Next]_vars =>
        [\A p \in Procs : Committing(p) =>
            /\ call[p].expected \in {NoVersion, version}
            /\ catalogue = Hash[release[p]]]_vars
  BY DEF IInv, LockedIsCurrent, Refuses, Conflicts, OutOfSync, Committing
<1> QED
  BY <1>1, Invariance, PTL DEF Spec, CommitsAreConditional

\* The version moves only in the transaction of the process that holds the lock.
LEMMA CommitterWrites ==
    ASSUME IInv, [Next]_vars, NEW p \in Procs, Committing(p)
    PROVE  /\ Writes(p) /\ release[p] \in Releases /\ overrides \in Content
           /\ tx[p].items = Prepared(release[p], Known(release[p], overrides), call[p].changes)
           /\ ~Rejected(release[p], Known(release[p], overrides), call[p].changes)
           /\ WellFormed(call[p].changes)
<1>1. pc[p] = "locked" /\ call[p].source # "system" /\ version' # version
  BY DEF Committing
<1>2. TypeOK /\ LockedIsCurrent
  BY DEF IInv
<1>3. PICK q \in Procs : Writes(q)
  BY <1>1, <1>2, StepKinds DEF Quiet, Grows, Begins
<1>4. q = p
  BY <1>1, <1>2, <1>3 DEF Writes, LockedIsCurrent
<1> QED
  BY <1>1, <1>2, <1>3, <1>4 DEF LockedIsCurrent, Refuses, TypeOK, IsCall, WellFormed

\* Two change sets that are valid one by one never add up to a state that
\* breaks a rule of the release that wrote last.
THEOREM RulesSurvive == Spec => RulesSurviveChangeSets
<1>1. ASSUME IInv, [Next]_vars, NEW p \in Procs, Committing(p)
      PROVE  /\ \A k \in Keys : overrides'[k] # overrides[k] =>
                   GroupHolds(release[p], GroupOf[k], Known(release[p], overrides'))
             /\ CatalogueHolds(release[p], Known(release[p], overrides'))
  <2> DEFINE r == release[p]
             stored == Known(r, overrides)
             items == Prepared(r, stored, call[p].changes)
  <2>1. /\ r \in Releases /\ overrides \in Content /\ WellFormed(call[p].changes)
        /\ overrides' = Proposed(overrides, items)
        /\ ~Rejected(r, stored, call[p].changes)
    BY <1>1, CommitterWrites DEF Writes
  <2>2. Known(r, overrides') = Proposed(stored, items)
    BY <2>1, ProposedKnown
  <2>3. /\ CatalogueHolds(r, Known(r, overrides'))
        /\ \A g \in Touched(items) : GroupHolds(r, g, Known(r, overrides'))
    BY <2>1, <2>2 DEF Rejected
  <2>4. ASSUME NEW k \in Keys, overrides'[k] # overrides[k]
        PROVE  GroupOf[k] \in Touched(items)
    <3>1. items[k] # NoItem
      BY <2>1, <2>4 DEF Proposed
    <3> QED
      BY <3>1 DEF Touched
  <2> QED
    BY <2>3, <2>4
<1>2. IInv /\ [Next]_vars =>
        [\A p \in Procs : Committing(p) =>
          /\ \A k \in Keys : overrides'[k] # overrides[k] =>
                GroupHolds(release[p], GroupOf[k], Known(release[p], overrides'))
          /\ CatalogueHolds(release[p], Known(release[p], overrides'))]_vars
  BY <1>1
<1> QED
  BY <1>2, Invariance, PTL DEF Spec, RulesSurviveChangeSets

\* A conditional rollback or replacing import ends at its goal.
THEOREM RestoresAreExact == Spec => ConditionalRestoreIsExact
<1>1. ASSUME IInv, [Next]_vars, NEW p \in Procs, Committing(p),
             call[p].exact, call[p].expected # NoVersion
      PROVE  Reaches(release[p], overrides', call[p].goal)
  <2> DEFINE r == release[p]
             stored == Known(r, overrides)
             changes == call[p].changes
             items == Prepared(r, stored, changes)
             goal == call[p].goal
  <2>1. /\ r \in Releases /\ overrides \in Content /\ stored \in Content /\ WellFormed(changes)
        /\ items \in Items
        /\ overrides' = Proposed(overrides, items)
        /\ ~Rejected(r, stored, changes)
    BY <1>1, CommitterWrites, KnownType, PreparedType DEF Writes
  <2>2. overrides' \in Content /\ KeysOf[r] \subseteq Keys
    BY <2>1, ProposedType, CatalogueAssumption
  <2>3. \A i \in DOMAIN changes : ~FieldError(r, changes[i])
    BY <2>1 DEF Rejected
  <2>4. call[p].expected = version
    BY <1>1 DEF IInv, LockedIsCurrent, Refuses, Conflicts, Committing
  <2>5. ASSUME NEW k \in KeysOf[r]
        PROVE  /\ Effective(r, overrides')[k] = Effective(r, goal)[k]
               /\ goal[k] = Absent => overrides'[k] = Absent
    <3>1. Effective(r, goal)[k] = IF goal[k] = Absent THEN DefaultOf[r][k] ELSE Canon[r][k][goal[k]]
      BY DEF Effective
    <3>2. CASE \E i \in DOMAIN changes : changes[i].key = k
      <4>1. PICK i \in DOMAIN changes : changes[i].key = k
        BY <3>2
      <4>2. changes[i].value = goal[k]
        BY <1>1, <2>4, <4>1 DEF IInv, RestoresAreCurrent
      <4>3. overrides'[k] = Wanted(r, changes[i])
        <5>1. \A j \in DOMAIN changes : changes[j].key = k => j = i
          BY <2>1, <4>1 DEF Rejected, Duplicated
        <5>2. {j \in DOMAIN changes : changes[j].key = k /\ ~FieldError(r, changes[j])} = {i}
          BY <2>3, <4>1, <5>1
        <5>3. items[k] = IF Wanted(r, changes[i]) = stored[k] THEN NoItem
                         ELSE [old |-> stored[k], new |-> Wanted(r, changes[i])]
          BY <2>2, <5>2 DEF Prepared
        <5>4. stored[k] = overrides[k]
          BY <2>2 DEF Known
        <5>5. [old |-> stored[k], new |-> Wanted(r, changes[i])] # NoItem
          BY <2>1, <2>2, <2>3, WantedType, CatalogueAssumption DEF Item, Content, WellFormed
        <5> HIDE DEF items, stored, changes, r
        <5> QED
          BY <2>1, <2>2, <5>3, <5>4, <5>5 DEF Proposed
      <4>4. changes[i] \in Change
        BY <2>1 DEF WellFormed
      <4> QED
        BY <2>1, <2>2, <2>3, <3>1, <4>1, <4>2, <4>3, <4>4, WantedEffective
    <3>3. CASE ~\E i \in DOMAIN changes : changes[i].key = k
      <4>1. overrides[k] = goal[k]
        BY <1>1, <2>4, <3>3 DEF IInv, RestoresAreCurrent
      <4>2. items[k] = NoItem
        BY <2>2, <3>3 DEF Prepared
      <4>3. overrides'[k] = goal[k]
        BY <2>1, <2>2, <4>1, <4>2 DEF Proposed
      <4> QED
        BY <3>1, <4>3 DEF Effective
    <3> QED
      BY <3>2, <3>3
  <2> QED
    BY <2>5 DEF Reaches
<1>2. IInv /\ [Next]_vars =>
        [\A p \in Procs : Committing(p) /\ call[p].exact /\ call[p].expected # NoVersion
            => Reaches(release[p], overrides', call[p].goal)]_vars
  BY <1>1
<1> QED
  BY <1>2, Invariance, PTL DEF Spec, ConditionalRestoreIsExact

---------------------------------------------------------------------------
(* The refinement.                                                         *)

\* The releases of one hash agree on what fits.
LEMMA FitsByHash ==
    ASSUME NEW r \in Releases, NEW k \in Keys, NEW v \in Values \cup {Absent}, v # Absent
    PROVE  Fits(Hash[r], k, v) <=> k \in KeysOf[r] /\ Valid(r, k, v)
BY HashAssumption DEF Fits, Valid

\* A change set is a change of the content that fits its catalogue.
LEMMA ChangeSetStep ==
    ASSUME IInv, IInv', NEW p \in Procs, Grows(p), call[p].source # "system"
    PROVE  Versioned!ChangeSet
<1> DEFINE old == ReplayedAt(version)
           new == Replayed(changesets', version')
<1>1. old = overrides /\ new = overrides'
  BY DEF IInv, HistoryReplays, ReplayedAt
<1>2. overrides \in Content /\ overrides' \in Content
  BY DEF IInv, TypeOK
<1>3. overrides' # overrides
  <2>1. PICK k \in Keys : tx[p].items[k] # NoItem
    <3>1. tx[p].items # Nothing /\ tx[p].items \in Items
      BY DEF Grows, Writes, IInv, LockedIsCurrent, Refuses, NothingToChange
    <3> QED
      BY <3>1 DEF Nothing, Items
  <2>2. overrides'[k] = tx[p].items[k].new /\ tx[p].items[k].new # overrides[k]
    BY <2>1, LockedItems DEF Grows, Writes, IInv, Proposed
  <2> QED
    BY <2>2
<1>4. catalogue' = catalogue /\ catalogue = Hash[release[p]] /\ release[p] \in Releases
  BY DEF Grows, Writes, IInv, TypeOK, LockedIsCurrent, Refuses, OutOfSync
<1>5. \A k \in Keys : overrides'[k] # Absent => Fits(catalogue, k, overrides'[k])
  BY <1>2, <1>4, FitsByHash DEF IInv, OverridesFitCatalogue, Content
<1>6. version # NoVersion /\ version' = version + 1
  BY DEF Grows, Writes
<1> QED
  BY <1>1, <1>2, <1>3, <1>4, <1>5, <1>6
     DEF Versioned!ChangeSet, Versioned!AllFits, Versioned!Unborn, NoVersion, ReplayedAt, Content

\* A later sync keeps what fits the new catalogue and drops the rest.
LEMMA MigrateStep ==
    ASSUME IInv, IInv', NEW p \in Procs, Grows(p), call[p].source = "system"
    PROVE  Versioned!Migrate
<1> DEFINE r == release[p]
<1>1. ReplayedAt(version) = overrides /\ Replayed(changesets', version') = overrides'
  BY DEF IInv, HistoryReplays, ReplayedAt
<1>2. overrides \in Content /\ r \in Releases /\ Hash[r] \in Hashes
  BY CatalogueAssumption DEF IInv, TypeOK
<1>3. /\ version # NoVersion /\ version' = version + 1
      /\ catalogue' = Hash[r] /\ catalogue # Hash[r]
      /\ overrides' = Proposed(overrides, SyncItems(r, overrides))
  BY DEF Grows, Writes, IInv, LockedIsCurrent, OutOfSync
<1>4. ASSUME NEW k \in Keys
      PROVE  overrides'[k] = IF Fits(Hash[r], k, overrides[k]) THEN overrides[k] ELSE Absent
  <2>1. overrides[k] \in Values \cup {Absent}
    BY <1>2 DEF Content
  <2>2. CASE overrides[k] = Absent
    BY <1>3, <2>2 DEF Proposed, SyncItems
  <2>3. CASE overrides[k] # Absent /\ Fits(Hash[r], k, overrides[k])
    <3>1. SyncItems(r, overrides)[k] = NoItem
      BY <1>2, <2>1, <2>3, FitsByHash DEF SyncItems
    <3> QED
      BY <1>3, <2>3, <3>1 DEF Proposed
  <2>4. CASE overrides[k] # Absent /\ ~Fits(Hash[r], k, overrides[k])
    <3>1. SyncItems(r, overrides)[k] = [old |-> overrides[k], new |-> Absent]
      BY <1>2, <2>1, <2>4, FitsByHash DEF SyncItems
    <3>2. [old |-> overrides[k], new |-> Absent] # NoItem
      BY <2>1, CatalogueAssumption DEF Item
    <3> QED
      BY <1>3, <2>4, <3>1, <3>2 DEF Proposed
  <2> QED
    BY <2>2, <2>3, <2>4
<1>5. overrides' = [k \in Keys |-> IF Fits(Hash[r], k, overrides[k]) THEN overrides[k] ELSE Absent]
  BY <1>3, <1>4 DEF Proposed
<1> HIDE DEF r
<1> QED
  BY <1>1, <1>2, <1>3, <1>5 DEF Versioned!Migrate, Versioned!Unborn, NoVersion, ReplayedAt

\* The first sync creates version 0 and overrides nothing.
LEMMA BootstrapStep ==
    ASSUME IInv, IInv', NEW p \in Procs, Begins(p)
    PROVE  Versioned!Bootstrap
<1>1. version = -1 /\ version' = 0 /\ changesets' = changesets /\ DOMAIN changesets = {}
  <2>1. version = -1 /\ version' = version + 1 /\ changesets' = changesets
    BY DEF Begins, Writes, NoVersion
  <2> QED
    BY <2>1 DEF IInv, VersionsGapless
<1>2. Replayed(changesets, version) = Empty /\ Replayed(changesets', version') = Empty
  BY <1>1, ReplayedNothing
<1>3. catalogue' \in Hashes
  BY CatalogueAssumption DEF Begins, Writes, IInv, TypeOK
<1> QED
  BY <1>1, <1>2, <1>3 DEF Versioned!Bootstrap, Versioned!Unborn, ReplayedAt

\* The store, with its processes, locks, crashes and pruning, implements one
\* numbered history of contents.
THEOREM Implements == Spec => RefinesVersionedStore
<1>1. Init => Versioned!Init
  <2> SUFFICES ASSUME Init
               PROVE  Versioned!Init
    OBVIOUS
  <2>1. Replayed(changesets, version) = Empty
    BY ReplayedNothing DEF Init
  <2> QED
    BY <2>1 DEF Init, Versioned!Init, Versioned!Unborn, NoVersion, ReplayedAt, Empty
<1>2. IInv /\ IInv' /\ [Next]_vars => [Versioned!Next]_(Versioned!vars)
  <2> SUFFICES ASSUME IInv, IInv', [Next]_vars
               PROVE  [Versioned!Next]_(Versioned!vars)
    OBVIOUS
  <2>1. CASE Quiet
    BY <2>1 DEF Quiet, Versioned!vars, ReplayedAt
  <2>2. ASSUME NEW p \in Procs, Grows(p) \/ Begins(p)
        PROVE  Versioned!Next
    BY <2>2, ChangeSetStep, MigrateStep, BootstrapStep DEF Versioned!Next
  <2> QED
    BY <2>1, <2>2, StepKinds DEF IInv
<1> QED
  BY <1>1, <1>2, Invariance, PTL DEF Spec, RefinesVersionedStore, Versioned!Spec

---------------------------------------------------------------------------
(* The HTTP API over the store.  Requests change the store only by the     *)
(* actions of Store, so IInv and every theorem above carry over; AInv adds *)
(* what a request knows of the store it read from.                         *)

---------------------------------------------------------------------------
(* The requests implement the store.                                       *)

\* A step of a request is one of the store's, or leaves the store alone.
LEMMA StoreStep == [ApiNext]_apiVars => [Next]_vars
<1> SUFFICES ASSUME [ApiNext]_apiVars
             PROVE  [Next]_vars
  OBVIOUS
<1>1. ASSUME NEW p \in Procs, AskGet(p) \/ AskWrite(p)
      PROVE  UNCHANGED vars
  BY <1>1 DEF AskGet, AskWrite, Ask
<1>2. ASSUME NEW p \in Procs,
             \/ Read(p) \/ Decline(p) \/ DryRun(p) \/ DryValidate(p)
             \/ AdminCheck(p) \/ Finish(p)
      PROVE  UNCHANGED vars
  BY <1>2 DEF Read, Decline, DryRun, DryValidate, AdminCheck, Finish
<1>3. ASSUME NEW p \in Procs, Submit(p)
      PROVE  Next
  BY <1>3 DEF Submit, BeginWrite, Next
<1>4. ASSUME NEW p \in Procs, AdminRollback(p)
      PROVE  Next \/ UNCHANGED vars
  BY <1>4 DEF AdminRollback, BeginRollback, Expectations, Next
<1>5. ASSUME NEW p \in Procs, Proceed(p) \/ Succeed(p) \/ Fail(p) \/ Maintain(p) \/ Crash(p)
      PROVE  Next
  BY <1>5 DEF Proceed, Succeed, Fail, Maintain, Crash, Next
<1>6. CASE UNCHANGED apiVars
  BY <1>6 DEF apiVars
<1> QED
  BY <1>1, <1>2, <1>3, <1>4, <1>5, <1>6 DEF ApiNext

\* Behind the requests and their queries the store is that of Store: no
\* request writes in any other way.
THEOREM ApiImplementsStore == ApiSpec => Spec
<1>1. ApiInit => Init
  BY DEF ApiInit
<1> QED
  BY <1>1, StoreStep, PTL DEF ApiSpec, Spec

\* Behind the requests the store is the abstract history of contents, too.
THEOREM ApiImplementsHistory == ApiSpec => RefinesVersionedStore
BY ApiImplementsStore, Implements

---------------------------------------------------------------------------
(* What steps leave alone.                                                 *)

\* The version grows, a version is written once, and nothing else moves
\* without it.
LEMMA StoreMoves ==
    ASSUME IInv, [Next]_vars
    PROVE  /\ version \in Versions /\ version' \in Versions /\ version <= version'
           /\ version' = version => UNCHANGED <<catalogue, overrides>>
           /\ \A v \in DOMAIN snapshots' : v <= version =>
                 v \in DOMAIN snapshots /\ snapshots'[v] = snapshots[v]
<1>1. TypeOK /\ LockedIsCurrent /\ TypeOK'
  BY NextInv DEF IInv
<1>2. version \in Versions /\ version' \in Versions /\ version \in Int
  BY <1>1 DEF TypeOK, Versions, NoVersion
<1>3. CASE Quiet
  BY <1>2, <1>3 DEF Quiet
<1>4. ASSUME NEW p \in Procs, Writes(p)
      PROVE  /\ version <= version' /\ version' # version
             /\ \A v \in DOMAIN snapshots' : v <= version =>
                   v \in DOMAIN snapshots /\ snapshots'[v] = snapshots[v]
  BY <1>2, <1>4 DEF Writes, With
<1>5. Quiet \/ \E p \in Procs : Writes(p)
  BY <1>1, StepKinds DEF Grows, Begins
<1> QED
  BY <1>2, <1>3, <1>4, <1>5

\* A step of p in the store is about no other call.
Elsewhere(p) ==
    \A q \in Procs \ {p} : call'[q] = call[q] /\ release'[q] = release[q]

\* The store's actions of one process.
Acts(p) ==
    \/ BeginApply(p) \/ BeginRollback(p) \/ BeginImport(p) \/ BeginSync(p)
    \/ Refuse(p) \/ Prepare(p) \/ Commit(p)
    \/ SyncCurrent(p) \/ SyncPrepare(p) \/ SyncCommit(p)
    \/ PruneList(p) \/ PruneBatch(p)
    \/ Restart(p)

\* What one process does leaves the calls and the releases of the others alone.
LEMMA ActsElsewhere ==
    ASSUME TypeOK, NEW p \in Procs, Acts(p)
    PROVE  Elsewhere(p)
<1>1. CASE BeginApply(p) \/ BeginRollback(p) \/ BeginImport(p) \/ BeginSync(p)
  <2>1. PICK c : Begin(p, c)
    BY <1>1, BeginCalls
  <2> QED
    BY <2>1 DEF Begin, Elsewhere, TypeOK
<1>2. CASE Refuse(p) \/ Commit(p) \/ SyncCurrent(p) \/ SyncCommit(p)
  BY <1>2 DEF Refuse, Commit, SyncCurrent, SyncCommit, Return, Elsewhere, TypeOK
<1>3. CASE Prepare(p) \/ SyncPrepare(p) \/ PruneList(p) \/ PruneBatch(p)
  BY <1>3 DEF Prepare, SyncPrepare, Enter, PruneList, PruneBatch, Elsewhere
<1>4. CASE Restart(p)
  BY <1>4 DEF Restart, Return, Elsewhere, TypeOK
<1> QED
  BY <1>1, <1>2, <1>3, <1>4 DEF Acts

---------------------------------------------------------------------------
(* The inductive invariant of the requests.                                *)

\* The document of the current version is of the stored catalogue.
Stamped ==
    IF version = NoVersion THEN catalogue = NoCatalogue
    ELSE snapshots[version].catalogue = catalogue

\* r shows, at p's URL, the document of its version, as long as there is one.
Shows(p, r) ==
    r.version \in DOMAIN snapshots =>
        \A k \in Shown[p] : r.values[k] = snapshots[r.version].values[k]

\* The reply is one that the client will keep.
Kept(p) ==
    \/ reply[p].status = "ok"
    \/ reply[p].status = "written" /\ tag[p] # NoVersion

\* A request names the version of its client's copy or none, and its call
\* carries it; copy and reply are of versions that were written.
Linked(p) ==
    /\ tag[p] \in {NoVersion, copy[p].version}
    /\ copy[p].version <= version /\ reply[p].version <= version
    /\ stage[p] \in {"idle", "checked"} => tag[p] = NoVersion
    /\ target[p] # NoVersion => stage[p] \in {"checked", "calling"} /\ tag[p] = NoVersion
    /\ stage[p] = "calling" => call[p].expected = tag[p]

\* What the answer will say is true of the version that it names.
Honest(p) ==
    /\ Shows(p, copy[p])
    /\ stage[p] = "answering" /\ Kept(p) => Shows(p, reply[p])
    /\ stage[p] = "reading" => reply[p].version # NoVersion

\* Until it answers, a write is of a client whose release is in sync at the
\* version the client named, and a dry run's verdict stands at that version.
Checks(p) ==
    LET stored == Known(release[p], overrides) IN
    /\ stage[p] \in {"received", "checking"} => version # NoVersion
    /\ stage[p] \in {"received", "checking"} /\ tag[p] = version => ~OutOfSync(p)
    /\ stage[p] = "answering" /\ reply[p].status = "valid" =>
        /\ version # NoVersion
        /\ tag[p] = version =>
            /\ ~OutOfSync(p)
            /\ ~Rejected(release[p], stored, reply[p].changes)
            /\ ~NothingToChange(release[p], stored, reply[p].changes)

Sound(p) == Linked(p) /\ Honest(p) /\ Checks(p)

AInv ==
    /\ IInv
    /\ ApiTypeOK
    /\ Stamped
    /\ \A p \in Procs : Sound(p)

\* What steps of other processes leave of a request.
Untouched(q) ==
    UNCHANGED <<stage[q], tag[q], target[q], reply[q], copy[q], call[q], release[q]>>

\* A document that was shown is shown after any step of the store.
LEMMA ShowsFrame ==
    ASSUME IInv, [Next]_vars, NEW p \in Procs, NEW r, r.version <= version, Shows(p, r)
    PROVE  Shows(p, r)'
BY StoreMoves DEF Shows

\* Whatever another process does, what a request knows stays true.
LEMMA SoundFrame ==
    ASSUME IInv, [Next]_vars, ApiTypeOK, NEW q \in Procs, Sound(q), Untouched(q)
    PROVE  Sound(q)'
<1>1. /\ version \in Int /\ version' \in Int /\ version <= version'
      /\ version' = version => UNCHANGED <<catalogue, overrides>>
  BY StoreMoves DEF Versions, NoVersion
<1>2. /\ tag[q] \in Versions /\ copy[q].version \in Versions /\ reply[q].version \in Versions
  BY DEF ApiTypeOK
<1>3. Linked(q)'
  BY <1>1, <1>2 DEF Sound, Linked, Untouched, Versions, NoVersion
<1>4. Honest(q)'
  BY <1>1, <1>2, ShowsFrame DEF Sound, Linked, Honest, Untouched, Kept, Shows
<1>5. Checks(q)'
  BY <1>1, <1>2 DEF Sound, Linked, Checks, Untouched, OutOfSync, Versions, NoVersion
<1> QED
  BY <1>3, <1>4, <1>5 DEF Sound

---------------------------------------------------------------------------
(* Types.                                                                  *)

Replies == [status : Status, version : Versions, values : Content,
            changes : Requests \cup {<<>>}]

\* The reply of a request that has read nothing is a reply.
LEMMA NoReplyType == NoReply \in Replies
BY EmptyTypes DEF NoReply, Replies, Status, Versions

\* Replies are made from replies.
LEMMA ReplyTypes ==
    \A r \in Replies :
        /\ \A s \in Status : [r EXCEPT !.status = s] \in Replies
        /\ \A v \in Versions : [r EXCEPT !.version = v] \in Replies
        /\ \A changes \in Requests : [r EXCEPT !.changes = changes] \in Replies
        /\ \A s \in Status, v \in Versions, c \in Content :
              [r EXCEPT !.status = s, !.version = v, !.values = c] \in Replies
BY DEF Replies

\* What the client makes of a change set is content.
LEMMA UpdatedType ==
    ASSUME TypeOK, NEW p \in Procs, copy[p].values \in Content
    PROVE  Updated(p) \in Content
<1>1. tx[p].items \in Items /\ release[p] \in Releases
  BY DEF TypeOK
<1> QED
  BY <1>1, CatalogueAssumption DEF Updated, Items, Item, Content

\* The steps of one process.
Serves(p) ==
    \/ AskGet(p) \/ Read(p)
    \/ AskWrite(p) \/ Submit(p) \/ Decline(p) \/ DryRun(p) \/ DryValidate(p)
    \/ AdminCheck(p) \/ AdminRollback(p)
    \/ Proceed(p) \/ Succeed(p) \/ Fail(p) \/ Finish(p)
    \/ Maintain(p) \/ Crash(p)

\* The request of p, while the others stay as they are.
Own(p) ==
    /\ stage'[p] \in {"idle", "reading", "received", "checking", "checked",
                      "calling", "answering"}
    /\ stage' = [stage EXCEPT ![p] = stage'[p]]
    /\ tag'[p] \in Versions /\ tag' = [tag EXCEPT ![p] = tag'[p]]
    /\ target'[p] \in Versions /\ target' = [target EXCEPT ![p] = target'[p]]
    /\ reply'[p] \in Replies /\ reply' = [reply EXCEPT ![p] = reply'[p]]
    /\ copy'[p] \in [version : Versions, values : Content]
    /\ copy' = [copy EXCEPT ![p] = copy'[p]]

\* A step of a request touches no other one and keeps the types of its own.
LEMMA OwnStep ==
    ASSUME IInv, ApiTypeOK, NEW p \in Procs, Serves(p)
    PROVE  Own(p)
<1>1. /\ TypeOK /\ version \in Versions /\ NoVersion \in Versions
      /\ \A v \in DOMAIN snapshots : v \in Versions /\ snapshots[v] \in Document
  BY DEF IInv, TypeOK, Versions
<1>2. /\ stage \in [Procs -> {"idle", "reading", "received", "checking", "checked",
                              "calling", "answering"}]
      /\ tag \in [Procs -> Versions] /\ target \in [Procs -> Versions]
      /\ reply \in [Procs -> Replies]
      /\ copy \in [Procs -> [version : Versions, values : Content]]
  BY DEF ApiTypeOK, Replies
<1> USE <1>2 DEF Own, To, Going, request
<1>3. CASE AskGet(p)
  <2>1. /\ [NoReply EXCEPT !.status = "unsynced"] \in Replies
        /\ [NoReply EXCEPT !.version = version] \in Replies
    BY <1>1, NoReplyType, ReplyTypes, EmptyTypes DEF Status
  <2>2. copy[p].version \in Versions
    OBVIOUS
  <2>3. CASE version = NoVersion
    BY <1>1, <1>3, <2>1, <2>2, <2>3 DEF AskGet, Ask
  <2>4. CASE version # NoVersion
    BY <1>1, <1>3, <2>1, <2>2, <2>4 DEF AskGet, Ask
  <2> QED
    BY <2>3, <2>4
<1>4. CASE Read(p)
  <2>1. CASE reply[p].version \in DOMAIN snapshots
    <3> DEFINE document == snapshots[reply[p].version]
               values == [k \in Keys |-> IF k \in Shown[p] THEN document.values[k] ELSE Absent]
               status == IF Unknown(p, document) THEN "unknown"
                         ELSE IF tag[p] = Etag(p) THEN "unchanged" ELSE "ok"
    <3>1. document.values \in Content
      BY <1>1, <2>1 DEF Document
    <3>2. values \in Content /\ status \in Status /\ Etag(p) \in Versions
      BY <1>2, <3>1 DEF Content, Status, Etag, Replies
    <3>3. Page(p, document) = [status |-> status, version |-> Etag(p), values |-> values,
                               changes |-> <<>>]
      BY DEF Page
    <3> HIDE DEF status, values, document
    <3>4. Page(p, document) \in Replies
      BY <3>2, <3>3 DEF Replies
    <3> QED
      BY <1>4, <2>1, <3>4 DEF Read, Answer, document
  <2>2. CASE reply[p].version \notin DOMAIN snapshots
    BY <1>1, <1>4, <2>2, NoReplyType DEF Read, End
  <2> QED
    BY <2>1, <2>2
<1>5. CASE AskWrite(p)
  <2>1. [NoReply EXCEPT !.status = "unsynced"] \in Replies
    BY NoReplyType, ReplyTypes DEF Status
  <2> QED
    BY <1>1, <1>5, <2>1, NoReplyType DEF AskWrite, Ask
<1>6. CASE Submit(p)
  BY <1>6 DEF Submit
<1> DEFINE Said(status) == [reply[p] EXCEPT !.status = status]
<1>17. \A status \in Status : Said(status) \in Replies
  BY <1>2, ReplyTypes
<1> HIDE DEF Said
<1>18. ASSUME NEW status \in Status, Fails(p, status), UNCHANGED copy
       PROVE  Own(p)
  BY <1>17, <1>18 DEF Fails, Answer, Said
<1>19. ASSUME End(p)
       PROVE  /\ stage' = [stage EXCEPT ![p] = "idle"]
              /\ tag' = [tag EXCEPT ![p] = NoVersion]
              /\ target' = [target EXCEPT ![p] = NoVersion]
              /\ reply' = [reply EXCEPT ![p] = NoReply]
  BY <1>19 DEF End
<1>7. CASE Decline(p)
  BY <1>7, <1>18 DEF Decline, Status
<1>8. CASE DryRun(p)
  <2>1. PICK changes \in Requests :
            IF tag[p] \in {NoVersion, version}
            THEN /\ Going(p, "checking", [reply[p] EXCEPT !.changes = changes])
                 /\ UNCHANGED <<tag, target, copy>>
            ELSE Fails(p, "conflict") /\ UNCHANGED copy
    BY <1>8 DEF DryRun
  <2>2. [reply[p] EXCEPT !.changes = changes] \in Replies
    BY <1>2, ReplyTypes
  <2>3. CASE tag[p] \in {NoVersion, version}
    BY <2>1, <2>2, <2>3
  <2>4. CASE tag[p] \notin {NoVersion, version}
    BY <1>18, <2>1, <2>4 DEF Status
  <2> QED
    BY <2>3, <2>4
<1>9. CASE DryValidate(p)
  BY <1>9, <1>18 DEF DryValidate, Status
<1>10. CASE AdminCheck(p)
  BY <1>1, <1>10 DEF AdminCheck
<1>11. CASE AdminRollback(p)
  BY <1>1, <1>11, <1>19, NoReplyType DEF AdminRollback
<1>12. CASE Proceed(p) \/ Maintain(p)
  BY <1>12 DEF Proceed, Maintain
<1>13. CASE Succeed(p)
  <2>1. [reply[p] EXCEPT !.status = "written", !.version = tx[p].version,
                         !.values = Updated(p)] \in Replies
    BY <1>1, <1>2, UpdatedType, ReplyTypes DEF TypeOK, Status
  <2>2. CASE target[p] # NoVersion
    BY <1>1, <1>13, <1>19, <2>2, NoReplyType DEF Succeed
  <2>3. CASE target[p] = NoVersion
    BY <1>1, <1>13, <2>1, <2>3 DEF Succeed, Answer
  <2> QED
    BY <2>2, <2>3
<1>14. CASE Fail(p)
  <2>1. CASE target[p] # NoVersion
    BY <1>1, <1>14, <1>19, <2>1, NoReplyType DEF Fail
  <2>2. CASE target[p] = NoVersion
    BY <1>14, <1>18, <2>2 DEF Fail, Reason, Status
  <2> QED
    BY <2>1, <2>2
<1>15. CASE Finish(p)
  <2>1. [version |-> reply[p].version, values |-> reply[p].values]
            \in [version : Versions, values : Content]
    BY <1>2 DEF Replies
  <2> QED
    BY <1>1, <1>15, <1>19, <2>1, NoReplyType DEF Finish
<1>16. CASE Crash(p)
  BY <1>1, <1>16, <1>19, NoReplyType DEF Crash
<1> QED
  BY <1>3, <1>4, <1>5, <1>6, <1>7, <1>8, <1>9, <1>10, <1>11, <1>12, <1>13, <1>14,
     <1>15, <1>16 DEF Serves

\* What a step of p does to the calls: it touches no other one, and a request
\* has a call exactly while it is calling.
LEMMA CallStep ==
    ASSUME IInv, ApiTypeOK, NEW p \in Procs, Serves(p)
    PROVE  /\ Elsewhere(p)
           /\ stage'[p] = "calling" <=> call'[p].source # "system"
<1>1. /\ TypeOK /\ stage \in [Procs -> {"idle", "reading", "received", "checking", "checked",
                                        "calling", "answering"}]
      /\ stage[p] = "calling" <=> call[p].source # "system"
  BY DEF IInv, ApiTypeOK
<1> USE <1>1 DEF To, Going, request
<1>2. CASE \/ AskGet(p) \/ Read(p) \/ AskWrite(p) \/ Decline(p) \/ DryRun(p)
           \/ DryValidate(p) \/ AdminCheck(p) \/ Finish(p)
  <2>1. UNCHANGED <<call, release>>
    BY <1>2 DEF AskGet, AskWrite, Ask, Read, Decline, DryRun, DryValidate, AdminCheck,
                Finish, vars, local
  <2>2. stage[p] # "calling" /\ stage'[p] # "calling"
    BY <1>2 DEF AskGet, AskWrite, Ask, Read, Decline, DryRun, DryValidate, AdminCheck,
                Finish, Fails, Answer, End
  <2> QED
    BY <2>1, <2>2 DEF Elsewhere
<1>3. CASE Submit(p)
  <2>1. Elsewhere(p)
    BY <1>3, ActsElsewhere DEF Submit, BeginWrite, Acts
  <2>2. call'[p].source # "system"
    <3>1. CASE BeginApply(p)
      BY <3>1 DEF BeginApply, Begin, NoCall, TypeOK
    <3>2. CASE BeginRollback(p)
      BY <3>2 DEF BeginRollback, RollbackCall, Begin, TypeOK
    <3>3. CASE BeginImport(p)
      BY <3>3 DEF BeginImport, Begin, TypeOK
    <3> QED
      BY <1>3, <3>1, <3>2, <3>3 DEF Submit, BeginWrite
  <2> QED
    BY <1>3, <2>1, <2>2 DEF Submit
<1>4. CASE AdminRollback(p)
  <2>1. CASE target[p] \in DOMAIN snapshots /\ version < MaxVersion
    BY <1>4, <2>1 DEF AdminRollback, RollbackCall, Begin, Elsewhere, TypeOK
  <2>2. CASE ~(target[p] \in DOMAIN snapshots /\ version < MaxVersion)
    BY <1>4, <2>2 DEF AdminRollback, End, vars, local, Elsewhere
  <2> QED
    BY <2>1, <2>2
<1>5. CASE Proceed(p)
  BY <1>5 DEF Proceed, Prepare, Enter, Elsewhere
<1>6. CASE Succeed(p) \/ Fail(p) \/ Crash(p)
  <2>1. Elsewhere(p)
    BY <1>6, ActsElsewhere DEF Succeed, Fail, Crash, Acts
  <2>2. call'[p] = NoCall
    BY <1>6 DEF Succeed, Commit, Fail, Refuse, Crash, Restart, Return, TypeOK
  <2>3. stage'[p] # "calling"
    BY <1>6 DEF Succeed, Fail, Fails, Crash, End, Answer
  <2> QED
    BY <2>1, <2>2, <2>3 DEF NoCall
<1>7. CASE Maintain(p)
  <2>1. Elsewhere(p)
    BY <1>7, ActsElsewhere DEF Maintain, Acts
  <2>2. call'[p] = call[p] \/ call'[p] = NoCall
    BY <1>7 DEF Maintain, BeginSync, Begin, SyncCurrent, SyncPrepare, SyncCommit, Enter,
                Return, PruneList, PruneBatch, TypeOK
  <2> QED
    BY <1>7, <2>1, <2>2 DEF Maintain, NoCall
<1> QED
  BY <1>2, <1>3, <1>4, <1>5, <1>6, <1>7 DEF Serves

\* Every step of a request keeps the types.
LEMMA ApiTypeStep ==
    ASSUME IInv, ApiTypeOK, [ApiNext]_apiVars
    PROVE  ApiTypeOK'
<1>1. TypeOK'
  BY StoreStep, NextInv DEF IInv
<1>2. ASSUME NEW p \in Procs, Serves(p)
      PROVE  ApiTypeOK'
  <2>1. Own(p) /\ Elsewhere(p) /\ (stage'[p] = "calling" <=> call'[p].source # "system")
    BY <1>2, OwnStep, CallStep
  <2>2. /\ stage' \in [Procs -> {"idle", "reading", "received", "checking", "checked",
                                 "calling", "answering"}]
        /\ tag' \in [Procs -> Versions] /\ target' \in [Procs -> Versions]
    BY <2>1 DEF Own, ApiTypeOK
  <2>3. reply' \in [Procs -> Replies]
    BY <2>1 DEF Own, ApiTypeOK, Replies
  <2>4. copy' \in [Procs -> [version : Versions, values : Content]]
    BY <2>1 DEF Own, ApiTypeOK
  <2>5. ASSUME NEW q \in Procs
        PROVE  stage'[q] = "calling" <=> call'[q].source # "system"
    BY <2>1 DEF Own, Elsewhere, ApiTypeOK
  <2> QED
    BY <1>1, <2>2, <2>3, <2>4, <2>5 DEF ApiTypeOK, Replies
<1>3. CASE UNCHANGED apiVars
  BY <1>1, <1>3 DEF apiVars, request, vars, local, ApiTypeOK
<1> QED
  BY <1>2, <1>3 DEF ApiNext, Serves

---------------------------------------------------------------------------
(* What a request knows stays true.                                        *)

\* A snapshot is written under the catalogue that the same commit stores.
LEMMA StampedStep ==
    ASSUME IInv, Stamped, [Next]_vars
    PROVE  Stamped'
<1>1. /\ TypeOK /\ LockedIsCurrent /\ VersionsGapless' /\ version \in Int
      /\ version + 1 # NoVersion
  BY NextInv DEF IInv, TypeOK, Versions, NoVersion
<1>2. CASE Quiet
  BY <1>1, <1>2 DEF Quiet, Stamped, VersionsGapless
<1>3. ASSUME NEW p \in Procs, Writes(p)
      PROVE  Stamped'
  BY <1>1, <1>3 DEF Writes, With, BuildDocument, Stamped
<1> QED
  BY <1>1, <1>2, <1>3, StepKinds DEF Grows, Begins

\* The current snapshot is the document of the overrides, for every release
\* in sync.
LEMMA CurrentDocument ==
    ASSUME IInv, Stamped, version # NoVersion, NEW r \in Releases, Hash[r] = catalogue
    PROVE  version \in DOMAIN snapshots /\ snapshots[version] = BuildDocument(r, overrides)
BY DEF IInv, VersionsGapless, Stamped, SnapshotsRebuildable, HistoryReplays

\* A client that wrote on the document it has, and applies the items of the
\* answer to it, has the new document.
LEMMA UpdatedShows ==
    ASSUME AInv, [Next]_vars, NEW p \in Procs, Commit(p), stage[p] = "calling",
           tag[p] # NoVersion
    PROVE  /\ version' = tx[p].version
           /\ \A k \in Shown[p] : Updated(p)[k] = snapshots'[version'].values[k]
<1> DEFINE r == release[p]
<1>1. /\ IInv /\ Stamped /\ TypeOK /\ LockedIsCurrent /\ TypeOK' /\ r \in Releases
      /\ overrides \in Content /\ Shown[p] \subseteq Keys /\ version \in Int
  BY NextInv, ApiAssumption DEF AInv, IInv, TypeOK, Versions, NoVersion
<1>2. /\ Committing(p) /\ Writes(p) /\ version' = tx[p].version
      /\ catalogue = Hash[r] /\ version # NoVersion
      /\ call[p].expected = version
      /\ call[p].source # "system" /\ pc[p] = "locked"
  <2>1. pc[p] = "locked" /\ call[p].source # "system" /\ version' = tx[p].version
    BY DEF Commit, Write
  <2>2. /\ tx[p].version = version + 1 /\ ~Refuses(p) /\ version # NoVersion
    BY <1>1, <2>1 DEF LockedIsCurrent
  <2>3. Committing(p)
    BY <1>1, <2>1, <2>2 DEF Committing
  <2>4. call[p].expected = tag[p]
    BY DEF AInv, Sound, Linked
  <2> QED
    BY <1>1, <2>1, <2>2, <2>3, <2>4, CommitterWrites DEF Refuses, OutOfSync, Conflicts
<1>3. /\ snapshots'[version'] = BuildDocument(r, Known(r, overrides'))
      /\ overrides' = Proposed(overrides, tx[p].items) /\ tx[p].items \in Items
  BY <1>1, <1>2 DEF Writes, With
<1>4. /\ snapshots[version] = BuildDocument(r, overrides) /\ version \in DOMAIN snapshots
      /\ copy[p].version = version
  BY <1>1, <1>2, CurrentDocument DEF AInv, Sound, Linked
<1>5. ASSUME NEW k \in Shown[p]
      PROVE  Updated(p)[k] = snapshots'[version'].values[k]
  <2>1. copy[p].values[k] = snapshots[version].values[k] /\ k \in Keys
    BY <1>1, <1>4, <1>5 DEF AInv, Sound, Honest, Shows
  <2>2. CASE tx[p].items[k] = NoItem
    <3>1. overrides'[k] = overrides[k]
      BY <1>3, <2>1, <2>2 DEF Proposed
    <3>2. Updated(p)[k] = snapshots[version].values[k]
      BY <2>1, <2>2 DEF Updated
    <3> QED
      BY <1>3, <1>4, <2>1, <3>1, <3>2 DEF BuildDocument, Known
  <2>3. CASE tx[p].items[k] # NoItem
    <3>1. k \in KeysOf[r] /\ overrides'[k] = tx[p].items[k].new
      BY <1>1, <1>2, <1>3, <2>1, <2>3, LockedItems DEF Proposed
    <3>2. Updated(p)[k] = IF tx[p].items[k].new = Absent THEN DefaultOf[r][k]
                          ELSE tx[p].items[k].new
      BY <1>5, <2>1, <2>3 DEF Updated
    <3> QED
      BY <1>3, <2>1, <3>1, <3>2 DEF BuildDocument, Known
  <2> QED
    BY <2>2, <2>3
<1> QED
  BY <1>2, <1>5

\* A request that ends leaves nothing but the client's copy.
LEMMA EndSound ==
    ASSUME IInv, ApiTypeOK, [Next]_vars, NEW p \in Procs, End(p),
           copy'[p].version <= version', Shows(p, copy[p])'
    PROVE  Sound(p)'
<1>1. /\ stage'[p] = "idle" /\ reply'[p] = NoReply
      /\ tag'[p] = NoVersion /\ target'[p] = NoVersion
  BY DEF End, Going, To, ApiTypeOK
<1>2. version' \in Versions
  BY StoreMoves
<1> QED
  BY <1>1, <1>2 DEF Sound, Linked, Honest, Checks, NoReply, Versions, NoVersion

\* The queries of a request and its own checks.
LEMMA QuerySound ==
    ASSUME AInv, NEW p \in Procs,
           \/ AskGet(p) \/ Read(p) \/ AskWrite(p) \/ Decline(p) \/ DryRun(p)
           \/ DryValidate(p) \/ AdminCheck(p)
    PROVE  Sound(p)'
<1>1. IInv /\ ApiTypeOK /\ Sound(p) /\ [ApiNext]_apiVars
  BY DEF AInv, ApiNext
<1>2. UNCHANGED <<vars, copy>>
  BY DEF AskGet, AskWrite, Ask, Read, Decline, DryRun, DryValidate, AdminCheck
<1>3. UNCHANGED <<version, catalogue, overrides, snapshots, release, call>>
  BY <1>2 DEF vars, db, local
<1>4. /\ stage \in [Procs -> {"idle", "reading", "received", "checking", "checked",
                              "calling", "answering"}]
      /\ tag \in [Procs -> Versions] /\ target \in [Procs -> Versions]
      /\ reply \in [Procs -> Replies] /\ reply[p].version \in Versions
      /\ version \in Versions /\ version \in Int /\ NoVersion <= version
      /\ TypeOK
  BY <1>1 DEF ApiTypeOK, IInv, TypeOK, Versions, NoVersion, Replies
<1>5. Shows(p, copy[p])' /\ copy'[p].version <= version'
  BY <1>1, <1>2, <1>3 DEF Sound, Honest, Linked, Shows
<1> USE <1>4 DEF To, Going
<1>6. ASSUME NEW status \in {"forbidden", "unknown", "invalid", "conflict", "unsynced"},
             Fails(p, status), stage[p] \in {"received", "checking"}
      PROVE  Sound(p)'
  BY <1>1, <1>2, <1>3, <1>5, <1>6
     DEF Fails, Answer, Sound, Linked, Honest, Kept, Checks, Replies
<1>7. CASE AskGet(p)
  BY <1>1, <1>2, <1>3, <1>5, <1>7
     DEF AskGet, Ask, NoReply, Sound, Linked, Honest, Kept, Checks
<1>8. CASE Read(p)
  <2>1. CASE reply[p].version \in DOMAIN snapshots
    <3> DEFINE document == snapshots[reply[p].version]
    <3>1. /\ Answer(p, Page(p, document)) /\ stage[p] = "reading"
      BY <1>8, <2>1 DEF Read
    <3>2. /\ Page(p, document).status \in {"unknown", "unchanged", "ok"}
          /\ Page(p, document).version = reply[p].version
          /\ \A k \in Shown[p] : Page(p, document).values[k] = document.values[k]
      BY ApiAssumption DEF Page, Etag
    <3>3. /\ stage'[p] = "answering" /\ reply'[p] = Page(p, document)
          /\ UNCHANGED <<tag, target>>
      BY <3>1 DEF Answer
    <3>4. Linked(p)'
      BY <1>1, <1>2, <1>3, <3>1, <3>2, <3>3 DEF Sound, Linked
    <3>5. Honest(p)'
      BY <1>3, <1>5, <3>2, <3>3 DEF Honest, Shows
    <3>6. Checks(p)'
      BY <3>2, <3>3 DEF Checks
    <3> QED
      BY <3>4, <3>5, <3>6 DEF Sound
  <2>2. CASE reply[p].version \notin DOMAIN snapshots
    BY <1>1, <1>5, <1>8, <2>2, EndSound, StoreStep DEF Read
  <2> QED
    BY <2>1, <2>2
<1>9. CASE AskWrite(p)
  <2>1. version = NoVersion => OutOfSync(p)
    BY StoreAssumption, CatalogueAssumption DEF AInv, Stamped, OutOfSync, TypeOK
  <2> QED
    BY <1>1, <1>2, <1>3, <1>5, <1>9, <2>1
       DEF AskWrite, Ask, NoReply, OutOfSync, Sound, Linked, Honest, Kept, Checks
<1>10. CASE Decline(p)
  BY <1>6, <1>10 DEF Decline
<1>11. CASE DryRun(p)
  BY <1>1, <1>2, <1>3, <1>5, <1>6, <1>11
     DEF DryRun, OutOfSync, Sound, Linked, Honest, Kept, Checks, Replies
<1>12. CASE DryValidate(p)
  BY <1>1, <1>2, <1>3, <1>5, <1>6, <1>12
     DEF DryValidate, Fails, Answer, OutOfSync, Sound, Linked, Honest, Kept, Checks, Replies
<1>13. CASE AdminCheck(p)
  BY <1>1, <1>2, <1>3, <1>5, <1>13 DEF AdminCheck, Sound, Linked, Honest, Checks
<1> QED
  BY <1>7, <1>8, <1>9, <1>10, <1>11, <1>12, <1>13

\* Writes, their answers, and what runs beside the requests.
LEMMA CallSound ==
    ASSUME AInv, NEW p \in Procs,
           \/ Submit(p) \/ AdminRollback(p) \/ Proceed(p) \/ Succeed(p) \/ Fail(p)
           \/ Finish(p) \/ Maintain(p) \/ Crash(p)
    PROVE  Sound(p)'
<1>1. IInv /\ ApiTypeOK /\ ApiTypeOK' /\ Sound(p) /\ [ApiNext]_apiVars /\ [Next]_vars /\ TypeOK
  BY StoreStep, ApiTypeStep DEF AInv, ApiNext, IInv
<1>2. /\ version \in Int /\ version' \in Int /\ version <= version' /\ NoVersion <= version
      /\ version' = version => UNCHANGED <<catalogue, overrides>>
  BY <1>1, StoreMoves DEF Versions, NoVersion
<1>3. /\ stage \in [Procs -> {"idle", "reading", "received", "checking", "checked",
                              "calling", "answering"}]
      /\ tag \in [Procs -> Versions] /\ target \in [Procs -> Versions]
      /\ reply \in [Procs -> Replies] /\ reply[p].version \in Int
      /\ copy \in [Procs -> [version : Versions, values : Content]] /\ copy[p].version \in Int
  BY <1>1 DEF ApiTypeOK, Versions, NoVersion, Replies
<1>4. Shows(p, copy[p]) /\ copy[p].version <= version
  BY <1>1 DEF Sound, Honest, Linked
<1>5. copy' = copy => Shows(p, copy[p])' /\ copy'[p].version <= version'
  BY <1>1, <1>2, <1>3, <1>4, ShowsFrame DEF Shows
<1> USE <1>3 DEF To, Going, request
<1>6. CASE Submit(p)
  <2>1. stage'[p] = "calling" /\ UNCHANGED <<tag, target, reply, copy>> /\ stage[p] = "received"
    BY <1>6 DEF Submit
  <2>2. call'[p].expected = tag[p]
    BY <1>6 DEF Submit
  <2> QED
    BY <1>1, <1>2, <1>5, <2>1, <2>2 DEF Sound, Linked, Honest, Checks
<1>7. CASE AdminRollback(p)
  <2>1. CASE target[p] \in DOMAIN snapshots /\ version < MaxVersion
    <3>1. /\ stage'[p] = "calling" /\ UNCHANGED <<tag, target, reply, copy>>
          /\ stage[p] = "checked"
      BY <1>7, <2>1 DEF AdminRollback
    <3>2. call'[p].expected = NoVersion
      BY <1>1, <1>7, <2>1 DEF AdminRollback, RollbackCall, Begin, TypeOK
    <3> QED
      BY <1>1, <1>2, <1>5, <3>1, <3>2 DEF Sound, Linked, Honest, Checks
  <2>2. CASE ~(target[p] \in DOMAIN snapshots /\ version < MaxVersion)
    BY <1>1, <1>5, <1>7, <2>2, EndSound DEF AdminRollback
  <2> QED
    BY <2>1, <2>2
<1>8. CASE Proceed(p)
  <2>1. UNCHANGED <<stage, tag, target, reply, copy, call, release>>
    BY <1>8 DEF Proceed, Prepare, Enter
  <2> QED
    BY <1>1, <2>1, SoundFrame DEF Untouched
<1>9. CASE Succeed(p)
  <2>1. CASE target[p] # NoVersion
    BY <1>1, <1>5, <1>9, <2>1, EndSound DEF Succeed
  <2>2. CASE target[p] = NoVersion
    <3> DEFINE r == [reply[p] EXCEPT !.status = "written", !.version = tx[p].version,
                                     !.values = Updated(p)]
    <3>1. /\ stage[p] = "calling" /\ Commit(p) /\ UNCHANGED <<tag, target, copy>>
          /\ stage'[p] = "answering" /\ reply'[p] = r
      BY <1>9, <2>2 DEF Succeed, Answer
    <3>2. r.status = "written" /\ r.version = tx[p].version /\ r.values = Updated(p)
      BY DEF Replies
    <3>3. version' = tx[p].version
      BY <3>1 DEF Commit, Write
    <3> HIDE DEF r
    <3>4. Linked(p)'
      BY <1>1, <1>2, <1>5, <2>2, <3>1, <3>2, <3>3 DEF Sound, Linked
    <3>5. tag[p] # NoVersion => \A k \in Shown[p] : r.values[k] = snapshots'[version'].values[k]
      BY <1>1, <3>1, <3>2, UpdatedShows
    <3>6. Honest(p)'
      BY <1>5, <3>1, <3>2, <3>3, <3>5 DEF Honest, Kept, Shows
    <3>7. Checks(p)'
      BY <3>1, <3>2 DEF Checks
    <3> QED
      BY <3>4, <3>6, <3>7 DEF Sound
  <2> QED
    BY <2>1, <2>2
<1>10. CASE Fail(p)
  <2>1. CASE target[p] # NoVersion
    BY <1>1, <1>5, <1>10, <2>1, EndSound DEF Fail
  <2>2. CASE target[p] = NoVersion
    <3>1. /\ stage[p] = "calling" /\ UNCHANGED <<tag, target, copy>>
          /\ stage'[p] = "answering" /\ reply'[p] = [reply[p] EXCEPT !.status = Reason(p)]
      BY <1>10, <2>2 DEF Fail, Fails, Answer
    <3>2. /\ reply'[p].status \in {"unsynced", "conflict", "invalid"}
          /\ reply'[p].version = reply[p].version
      BY <3>1 DEF Reason, Replies
    <3> QED
      BY <1>1, <1>2, <1>5, <2>2, <3>1, <3>2 DEF Sound, Linked, Honest, Kept, Checks
  <2> QED
    BY <2>1, <2>2
<1>11. CASE Finish(p)
  <2>1. /\ stage[p] = "answering" /\ End(p) /\ UNCHANGED vars
        /\ copy'[p] = IF Kept(p)
                      THEN [version |-> reply[p].version, values |-> reply[p].values]
                      ELSE copy[p]
    BY <1>11 DEF Finish, Kept
  <2>2. UNCHANGED <<version, snapshots>>
    BY <2>1 DEF vars, db
  <2>3. CASE Kept(p)
    <3>1. /\ copy'[p].version = reply[p].version /\ copy'[p].values = reply[p].values
          /\ Shows(p, reply[p]) /\ reply[p].version <= version
      BY <1>1, <2>1, <2>3 DEF Sound, Honest, Linked
    <3>2. Shows(p, copy[p])' /\ copy'[p].version <= version'
      BY <2>2, <3>1 DEF Shows
    <3> QED
      BY <1>1, <2>1, <3>2, EndSound
  <2>4. CASE ~Kept(p)
    <3>1. Shows(p, copy[p])' /\ copy'[p].version <= version'
      BY <1>4, <2>1, <2>2, <2>4 DEF Shows
    <3> QED
      BY <1>1, <2>1, <3>1, EndSound
  <2> QED
    BY <2>3, <2>4
<1>12. CASE Maintain(p)
  <2>1. stage[p] = "idle" /\ UNCHANGED <<stage, tag, target, reply, copy>>
    BY <1>12 DEF Maintain
  <2> QED
    BY <1>1, <1>2, <1>5, <2>1 DEF Sound, Linked, Honest, Checks
<1>13. CASE Crash(p)
  BY <1>1, <1>5, <1>13, EndSound DEF Crash
<1> QED
  BY <1>6, <1>7, <1>8, <1>9, <1>10, <1>11, <1>12, <1>13

---------------------------------------------------------------------------
(* The theorems.                                                           *)

\* At first no request is served.
LEMMA ApiInitInv == ApiInit => AInv
<1> SUFFICES ASSUME ApiInit
             PROVE  AInv
  OBVIOUS
<1>1. Init /\ version = NoVersion /\ catalogue = NoCatalogue /\ DOMAIN snapshots = {}
  BY DEF ApiInit, Init
<1>2. IInv /\ TypeOK
  BY <1>1, InitInv DEF IInv
<1>3. ApiTypeOK
  BY <1>1, <1>2, NoReplyType, EmptyTypes
     DEF ApiInit, Init, ApiTypeOK, Versions, Replies, NoCall
<1>4. Stamped
  BY <1>1 DEF Stamped
<1>5. ASSUME NEW p \in Procs
      PROVE  Sound(p)
  BY <1>1 DEF ApiInit, Sound, Linked, Honest, Checks, Shows, NoReply, NoVersion
<1> QED
  BY <1>2, <1>3, <1>4, <1>5 DEF AInv

\* Every step of a request keeps what requests know of the store.
LEMMA ApiNextInv == AInv /\ [ApiNext]_apiVars => AInv'
<1> SUFFICES ASSUME AInv, [ApiNext]_apiVars
             PROVE  AInv'
  OBVIOUS
<1>1. IInv /\ ApiTypeOK /\ Stamped /\ [Next]_vars
  BY StoreStep DEF AInv
<1>2. IInv' /\ ApiTypeOK' /\ Stamped'
  BY <1>1, NextInv, ApiTypeStep, StampedStep
<1>3. ASSUME NEW p \in Procs, Serves(p), NEW q \in Procs
      PROVE  Sound(q)'
  <2>1. CASE q = p
    BY <1>3, <2>1, QuerySound, CallSound DEF Serves
  <2>2. CASE q # p
    <3>1. Own(p) /\ Elsewhere(p)
      BY <1>1, <1>3, OwnStep, CallStep
    <3>2. Untouched(q)
      BY <1>1, <2>2, <3>1 DEF Own, Elsewhere, Untouched, ApiTypeOK
    <3> QED
      BY <1>1, <3>2, SoundFrame DEF AInv
  <2> QED
    BY <2>1, <2>2
<1>4. ASSUME UNCHANGED apiVars, NEW q \in Procs
      PROVE  Sound(q)'
  BY <1>1, <1>4, SoundFrame DEF AInv, Untouched, apiVars, request, vars, local
<1> QED
  BY <1>2, <1>3, <1>4 DEF AInv, ApiNext, Serves

\* What requests know of the store holds throughout.
THEOREM ApiInvariance == ApiSpec => []AInv
BY ApiInitInv, ApiNextInv, PTL DEF ApiSpec

\* Requests and answers keep their types, and a request has a call of the
\* service exactly while it is calling.
THEOREM ApiTypeCorrect == ApiSpec => []ApiTypeOK
<1>1. AInv => ApiTypeOK
  BY DEF AInv
<1> QED
  BY <1>1, ApiInvariance, PTL

\* What an answer says of a version is true of it: its header is not older
\* than its body, a client's copy is the document of its ETag, a snapshot goes
\* missing only behind a newer version, and a dry run's verdict stands at the
\* version that its client named.
THEOREM AnswersTrue == ApiSpec => []AnswersAreTrue
<1>1. AInv => AnswersAreTrue
  <2> SUFFICES ASSUME AInv
               PROVE  AnswersAreTrue
    OBVIOUS
  <2>1. HeaderIsNotOlder
    BY DEF AInv, Sound, Linked, HeaderIsNotOlder, Header
  <2>2. CopyIsTheDocument
    BY DEF AInv, Sound, Honest, Shows, CopyIsTheDocument
  <2>3. GoneIsOld
    <3> SUFFICES ASSUME NEW p \in Procs, stage[p] = "reading",
                        reply[p].version \notin DOMAIN snapshots
                 PROVE  reply[p].version < version
      BY DEF GoneIsOld
    <3>1. /\ reply[p].version \in Versions /\ version \in Versions
          /\ reply[p].version <= version /\ reply[p].version # NoVersion
          /\ version # NoVersion => version \in DOMAIN snapshots
      BY DEF AInv, Sound, Linked, Honest, IInv, TypeOK, ApiTypeOK, VersionsGapless
    <3> QED
      BY <3>1 DEF Versions, NoVersion
  <2>4. DryRunIsRight
    BY DEF AInv, Sound, Checks, DryRunIsRight
  <2> QED
    BY <2>1, <2>2, <2>3, <2>4 DEF AnswersAreTrue
<1> QED
  BY <1>1, ApiInvariance, PTL

\* A write with If-Match commits on the very document that its client has.
THEOREM SeenIsReplaced == ApiSpec => OnlySeenIsReplaced
<1>1. ASSUME AInv, [ApiNext]_apiVars, NEW p \in Procs, Committing(p),
             tag[p] # NoVersion, stage[p] = "calling"
      PROVE  \A k \in Shown[p] : snapshots[version].values[k] = copy[p].values[k]
  <2>1. pc[p] = "locked" /\ call[p].source # "system" /\ version # NoVersion
    BY <1>1 DEF Committing, AInv, IInv, LockedIsCurrent
  <2>2. call[p].expected = version /\ copy[p].version = version
    BY <1>1, <2>1 DEF AInv, IInv, LockedIsCurrent, Refuses, Conflicts, Sound, Linked
  <2>3. version \in DOMAIN snapshots
    BY <1>1, <2>1 DEF AInv, IInv, VersionsGapless
  <2> QED
    BY <1>1, <2>2, <2>3 DEF AInv, Sound, Honest, Shows
<1>2. AInv /\ [ApiNext]_apiVars =>
        [\A p \in Procs : Committing(p) /\ tag[p] # NoVersion /\ stage[p] = "calling" =>
            \A k \in Shown[p] : snapshots[version].values[k] = copy[p].values[k]]_apiVars
  BY <1>1
<1> QED
  BY <1>2, ApiInvariance, PTL DEF ApiSpec, OnlySeenIsReplaced

---------------------------------------------------------------------------
(* The groups a request may write.                                         *)

\* A rollback of the admin has its target; every other call has changes whose
\* groups were checked.
Allowed ==
    \A p \in Procs :
        /\ stage[p] = "checked" => target[p] # NoVersion
        /\ stage[p] = "calling" /\ target[p] = NoVersion => MayEdit(p, call[p].changes)

\* Nobody's call changes after its groups were checked.
LEMMA AllowedStep ==
    ASSUME AInv, Allowed, [ApiNext]_apiVars
    PROVE  Allowed'
<1>1. IInv /\ ApiTypeOK /\ TypeOK' /\ TypeOK
  BY StoreStep, NextInv DEF AInv, IInv
<1>2. stage \in [Procs -> {"idle", "reading", "received", "checking", "checked",
                           "calling", "answering"}]
  BY <1>1 DEF ApiTypeOK
<1>3. ASSUME NEW p \in Procs, Serves(p), stage'[p] = "calling", target'[p] = NoVersion
      PROVE  MayEdit(p, call'[p].changes)
  <2>1. CASE Submit(p)
    BY <2>1 DEF Submit, MayEdit
  <2>2. CASE Proceed(p)
    BY <1>3, <2>2 DEF Proceed, Prepare, Enter, Allowed, request
  <2>3. ~ AdminRollback(p)
    BY <1>2, <1>3 DEF Allowed, AdminRollback, End, Going, To
  <2>4. stage[p] = "calling" \/ Submit(p)
    BY <1>2, <1>3, <2>3 DEF Serves, AskGet, AskWrite, Ask, Read, Decline, DryRun, DryValidate,
       AdminCheck, Proceed, Succeed, Fail, Fails, Finish, Maintain, Crash, End, Answer,
       Going, To, request
  <2>5. CASE stage[p] = "calling"
    BY <1>2, <1>3, <2>5, <2>1, <2>2, <2>3 DEF Serves, AskGet, AskWrite, Ask, Read, Decline,
       DryRun, DryValidate, AdminCheck, Succeed, Fail, Fails, Finish, Maintain, Crash, End,
       Answer, Going, To, request
  <2> QED
    BY <2>1, <2>4, <2>5
<1>6. ASSUME NEW p \in Procs, Serves(p), stage'[p] = "checked"
      PROVE  target'[p] # NoVersion
  <2>1. AdminCheck(p)
    BY <1>2, <1>6 DEF Serves, AskGet, AskWrite, Ask, Read, Decline, DryRun, DryValidate,
       Submit, AdminRollback, Proceed, Succeed, Fail, Fails, Finish, Maintain, Crash, End, Answer,
       Going, To, request
  <2>2. PICK v \in DOMAIN changesets : target' = [target EXCEPT ![p] = v]
    BY <2>1 DEF AdminCheck
  <2>3. v # NoVersion
    BY <1>1 DEF TypeOK, NoVersion
  <2> QED
    BY <1>1, <2>2, <2>3 DEF ApiTypeOK
<1>4. ASSUME NEW p \in Procs, Serves(p)
      PROVE  Allowed'
  <2>1. Own(p) /\ Elsewhere(p)
    BY <1>1, <1>4, OwnStep, CallStep
  <2> QED
    BY <1>1, <1>2, <1>3, <1>4, <1>6, <2>1 DEF Own, Elsewhere, Allowed, MayEdit, ApiTypeOK
<1>5. CASE UNCHANGED apiVars
  BY <1>5 DEF apiVars, request, vars, local, Allowed, MayEdit
<1> QED
  BY <1>4, <1>5 DEF ApiNext, Serves

\* No API request moves a key of a group that it may not write, whoever commits
\* between the check and the transaction.
THEOREM CheckedIsWritten == ApiSpec => RequestsStayWithin
<1>1. AInv /\ Allowed /\ [ApiNext]_apiVars => Allowed'
  BY AllowedStep
<1>2. ApiInit => Allowed
  BY DEF ApiInit, Allowed
<1>3. ApiSpec => []Allowed
  BY <1>1, <1>2, ApiInvariance, PTL DEF ApiSpec
<1>4. ASSUME AInv, Allowed, [ApiNext]_apiVars, NEW p \in Procs, Committing(p),
             target[p] = NoVersion, NEW k \in Keys, overrides'[k] # overrides[k]
      PROVE  GroupOf[k] \in Editable[p]
  <2> DEFINE stored == Known(release[p], overrides)
             changes == call[p].changes
  <2>1. /\ IInv /\ [Next]_vars /\ call[p].source # "system" /\ stored \in Content
        /\ release[p] \in Releases
    BY <1>4, StoreStep, KnownType DEF AInv, IInv, TypeOK, Committing
  <2>2. /\ overrides' = Proposed(overrides, tx[p].items)
        /\ tx[p].items = Prepared(release[p], stored, changes)
        /\ WellFormed(changes)
    BY <1>4, <2>1, CommitterWrites DEF Writes
  <2>3. Prepared(release[p], stored, changes)[k] # NoItem
    BY <1>4, <2>2 DEF Proposed
  <2>4. \E i \in DOMAIN changes : changes[i].key = k
    <3> DEFINE r == release[p]
    <3>1. /\ r \in Releases /\ stored \in Content /\ WellFormed(changes)
          /\ Prepared(r, stored, changes)[k] # NoItem
      BY <2>1, <2>2, <2>3
    <3> HIDE DEF r, stored, changes
    <3>2. \E i \in DOMAIN changes :
            /\ changes[i].key = k /\ ~FieldError(r, changes[i])
            /\ Prepared(r, stored, changes)[k] = [old |-> stored[k], new |-> Wanted(r, changes[i])]
            /\ Wanted(r, changes[i]) # stored[k]
      BY <3>1, PreparedItem
    <3> QED
      BY <3>2
  <2>5. stage[p] = "calling"
    BY <1>4, <2>1 DEF AInv, ApiTypeOK
  <2> QED
    BY <1>4, <2>4, <2>5 DEF Allowed, MayEdit
<1>5. AInv /\ Allowed /\ [ApiNext]_apiVars =>
        [\A p \in Procs : Committing(p) /\ target[p] = NoVersion => StaysWithin(p)]_apiVars
  BY <1>4 DEF StaysWithin
<1> QED
  BY <1>3, <1>5, ApiInvariance, PTL DEF ApiSpec, RequestsStayWithin

=============================================================================
