----------------------------- MODULE Retention -----------------------------
(***************************************************************************)
(* Snapshot retention by count and by age against writers.                 *)
(* prune_snapshots runs without a lock: it lists versions in one query,    *)
(* with --before a second query looks at creation times, and each batch is *)
(* a DELETE of its own.  Contents do not appear; time does.                *)
(***************************************************************************)
EXTENDS Integers, FiniteSetsExt

CONSTANTS
    Procs,
    Free,           \* nobody holds the row lock
    NoInstant,      \* a prune by count
    Keeps,          \* the --keep policies
    Instants,       \* the --before policies
    BatchSize,      \* versions one DELETE removes
    MaxVersion,     \* no writer starts at this version
    MaxTime         \* the clock stops here

VARIABLES
    clock,
    version,        \* State.current_version
    created,        \* created_at of the Snapshot rows, by version
    lock,
    pc,
    started,        \* the now of a writer
    stored,         \* the versions the first query of a prune found
    before,         \* the instant of a prune by age
    doomed,         \* the versions a prune deletes
    aged            \* history: the versions that prunes by age removed

vars == <<clock, version, created, lock, pc, started, stored, before, doomed, aged>>

ASSUME RetentionAssumption ==
    /\ Free \notin Procs
    /\ NoInstant \notin Nat
    /\ Keeps \subseteq Nat /\ Instants \subseteq Nat
    /\ BatchSize \in Nat \ {0}
    /\ MaxVersion \in Nat /\ MaxTime \in Nat

\* After the first sync.
Init ==
    /\ clock = 0
    /\ version = 0
    /\ created = [v \in {0} |-> 0]
    /\ lock = Free
    /\ pc = [p \in Procs |-> "idle"]
    /\ started = [p \in Procs |-> 0]
    /\ stored = [p \in Procs |-> {}]
    /\ before = [p \in Procs |-> NoInstant]
    /\ doomed = [p \in Procs |-> {}]
    /\ aged = {}

rows == <<version, created>>
prune == <<stored, before, doomed>>

Goto(p, from, to) == pc[p] = from /\ pc' = [pc EXCEPT ![p] = to]

\* The list of a prune, its instant and what it found go with the call.
EndPrune(p) ==
    /\ stored' = [stored EXCEPT ![p] = {}]
    /\ before' = [before EXCEPT ![p] = NoInstant]
    /\ doomed' = [doomed EXCEPT ![p] = {}]

Tick ==
    /\ clock < MaxTime
    /\ clock' = clock + 1
    /\ UNCHANGED <<rows, lock, pc, started, prune, aged>>

---------------------------------------------------------------------------
(* Writers.                                                                *)

\* sync reads the clock before it waits for the row lock.
SyncStart(p) ==
    /\ version < MaxVersion
    /\ Goto(p, "idle", "syncing")
    /\ started' = [started EXCEPT ![p] = clock]
    /\ UNCHANGED <<clock, rows, lock, prune, aged>>

ApplyStart(p) ==
    /\ version < MaxVersion
    /\ Goto(p, "idle", "applying")
    /\ UNCHANGED <<clock, rows, lock, started, prune, aged>>

SyncLock(p) ==
    /\ lock = Free
    /\ Goto(p, "syncing", "writing")
    /\ lock' = p
    /\ UNCHANGED <<clock, rows, started, prune, aged>>

\* apply_changeset reads the clock under the lock.
ApplyLock(p) ==
    /\ lock = Free
    /\ Goto(p, "applying", "writing")
    /\ lock' = p
    /\ started' = [started EXCEPT ![p] = clock]
    /\ UNCHANGED <<clock, rows, prune, aged>>

\* Bug variant: the snapshot is written and the state row is not saved.
UnsavedCommit(p) ==
    /\ Goto(p, "writing", "idle")
    /\ created' = [v \in DOMAIN created \cup {version + 1} |->
                      IF v = version + 1 THEN started[p] ELSE created[v]]
    /\ lock' = Free
    /\ started' = [started EXCEPT ![p] = 0]
    /\ UNCHANGED <<clock, version, prune, aged>>

\* write_snapshot and the new State.current_version become visible together.
Commit(p) ==
    /\ Goto(p, "writing", "idle")
    /\ version' = version + 1
    /\ created' = [v \in DOMAIN created \cup {version + 1} |->
                      IF v = version + 1 THEN started[p] ELSE created[v]]
    /\ lock' = Free
    /\ started' = [started EXCEPT ![p] = 0]
    /\ UNCHANGED <<clock, prune, aged>>

---------------------------------------------------------------------------
(* prune_snapshots.                                                        *)

\* Version 0 and the newest stay, of what the first query found.  Bug variant:
\* only version 0 stays.
ProtectZero(versions) == {0}

Protected(versions) == {0, Max(versions)}

\* Bug variant: one version too many.
OneTooMany(versions, keep) ==
    {v \in versions : Cardinality({w \in versions : w >= v}) >= keep}

\* All but the newest keep versions.
Oldest(versions, keep) ==
    {v \in versions : Cardinality({w \in versions : w > v}) >= keep}

\* With --keep the list is complete after one query.
KeepList(p) ==
    /\ stored' = [stored EXCEPT ![p] = DOMAIN created]
    /\ \E keep \in Keeps :
        LET found == Oldest(stored'[p], keep) \ Protected(stored'[p])
        IN  /\ found # {}
            /\ doomed' = [doomed EXCEPT ![p] = found]
    /\ Goto(p, "idle", "deleting")
    /\ UNCHANGED <<clock, rows, lock, started, before, aged>>

\* An instant in the past; the command would take one in the future too.
AgeList(p) ==
    /\ \E instant \in Instants : /\ instant <= clock
                                /\ before' = [before EXCEPT ![p] = instant]
    /\ stored' = [stored EXCEPT ![p] = DOMAIN created]
    /\ Goto(p, "idle", "aging")
    /\ UNCHANGED <<clock, rows, lock, started, doomed, aged>>

\* The second query selects by creation time, from what is stored by then.
AgeSelect(p) ==
    LET found == {v \in DOMAIN created : created[v] < before[p]} \ Protected(stored[p])
    IN  /\ Goto(p, "aging", IF found = {} THEN "idle" ELSE "deleting")
        /\ IF found = {} THEN EndPrune(p)
           ELSE doomed' = [doomed EXCEPT ![p] = found] /\ UNCHANGED <<stored, before>>
        /\ UNCHANGED <<clock, rows, lock, started, aged>>

\* The smallest members of the list, as many as a batch holds.
Batch(versions) ==
    {v \in versions : Cardinality({w \in versions : w < v}) < BatchSize}

DeleteBatch(p) ==
    LET rest == doomed[p] \ Batch(doomed[p])
    IN  /\ Goto(p, "deleting", IF rest = {} THEN "idle" ELSE "deleting")
        /\ created' = [v \in DOMAIN created \ Batch(doomed[p]) |-> created[v]]
        /\ aged' = IF before[p] = NoInstant THEN aged ELSE aged \cup Batch(doomed[p])
        /\ IF rest = {} THEN EndPrune(p)
           ELSE doomed' = [doomed EXCEPT ![p] = rest] /\ UNCHANGED <<stored, before>>
        /\ UNCHANGED <<clock, version, lock, started>>

\* A refused change set, a sync with nothing to do, an unknown policy, or a
\* process that dies: the open transaction is rolled back, and a prune stays
\* as far as it came.
Abandon(p) ==
    /\ pc[p] # "idle"
    /\ pc' = [pc EXCEPT ![p] = "idle"]
    /\ lock' = IF lock = p THEN Free ELSE lock
    /\ started' = [started EXCEPT ![p] = 0]
    /\ EndPrune(p)
    /\ UNCHANGED <<clock, rows, aged>>

Next ==
    \/ Tick
    \/ \E p \in Procs :
        \/ SyncStart(p) \/ ApplyStart(p) \/ SyncLock(p) \/ ApplyLock(p)
        \/ Commit(p) \/ Abandon(p)
        \/ KeepList(p) \/ AgeList(p) \/ AgeSelect(p) \/ DeleteBatch(p)

Spec == Init /\ [][Next]_vars

---------------------------------------------------------------------------
(* Properties.                                                             *)

\* The type of every variable.
TypeOK ==
    /\ clock \in 0..MaxTime
    /\ version \in Nat
    /\ DOMAIN created \subseteq 0..version
    /\ created \in [DOMAIN created -> 0..clock]
    /\ lock \in Procs \cup {Free}
    /\ pc \in [Procs -> {"idle", "syncing", "applying", "writing", "aging", "deleting"}]
    /\ started \in [Procs -> 0..clock]
    /\ stored \in [Procs -> SUBSET Nat]
    /\ before \in [Procs -> Instants \cup {NoInstant}]
    /\ doomed \in [Procs -> SUBSET (0..version)]
    /\ aged \subseteq 0..version

\* A prune, by count or by age, never lists version 0, and lists the current
\* version only when that was written after its first query (prune_snapshots
\* protects what was newest at that moment).
OnlyARaceDoomsCurrent ==
    \A p \in Procs :
        /\ 0 \notin doomed[p]
        /\ version \in doomed[p] => version \notin stored[p]

\* What prunes by age leave, the newest versions keep their snapshots, as many
\* as every --keep asks for, however many prunes and writers run.
NewestKept ==
    \A v \in 0..version :
        (\A keep \in Keeps : v > version - keep) => v \in DOMAIN created \cup aged

===========================================================================
