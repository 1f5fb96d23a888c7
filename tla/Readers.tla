------------------------------ MODULE Readers ------------------------------
(***************************************************************************)
(* The in-process reader of effective values (tunables.values) in several  *)
(* processes with several threads each, over one database that change sets *)
(* move from version to version.  What a change set writes is only told    *)
(* apart by the number of the attempt that wrote it.                       *)
(***************************************************************************)
EXTENDS Integers, Sequences

CONSTANTS
    Processes, Threads,
    ProcessOf,      \* the process of each thread
    Window,         \* READ_CACHE_TTL by process: "none", "zero" or "finite"
    Outer,          \* threads whose change sets are part of a larger transaction
    Free,           \* nobody holds a lock
    Dropped,        \* an empty cache
    MaxAttempts     \* no more attempts at a change set than this

\* What an attempt left, and the version it is to have.
Content == [version : Nat, attempt : Nat]

ASSUME ReadersAssumption ==
    /\ ProcessOf \in [Threads -> Processes]
    /\ Window \in [Processes -> {"none", "zero", "finite"}]
    /\ Outer \subseteq Threads
    /\ Free \notin Threads
    /\ MaxAttempts \in Nat
    /\ Dropped \notin Content

VARIABLES
    history,        \* the attempts that committed, in the order of their versions
    attempts,       \* the number of attempts so far
    lock,           \* the State row
    phase,          \* where the change set of a thread is
    own,            \* the attempt of a thread
    cache,          \* Values._values by process
    label,          \* Values._version
    checked,        \* Values._checked_at is less than a finite window ago
    mutex,          \* Values._lock, while its holder is between two queries
    seen,           \* the version the last check of a process found
    returned        \* the newest version a call in this process has returned

database == <<history, attempts, lock>>
reader == <<cache, label, checked, mutex, seen>>
writer == <<phase, own>>
vars == <<database, writer, reader, returned>>

\* Before the first change set: the defaults at version 0.
Init ==
    /\ history = <<>>
    /\ attempts = 0
    /\ lock = Free
    /\ phase = [t \in Threads |-> "idle"]
    /\ own = [t \in Threads |-> 0]
    /\ cache = [p \in Processes |-> Dropped]
    /\ label = [p \in Processes |-> 0]
    /\ checked = [p \in Processes |-> FALSE]
    /\ mutex = [p \in Processes |-> Free]
    /\ seen = [p \in Processes |-> 0]
    /\ returned = [p \in Processes |-> 0]

\* State.current_version of what is committed.
Current == Len(history)

\* What was stored at a version.
At(v) == [version |-> v, attempt |-> IF v = 0 THEN 0 ELSE history[v]]

\* What a query of a thread finds: its own open transaction or what is committed.
View(t) ==
    IF phase[t] = "written" THEN [version |-> Current + 1, attempt |-> own[t]]
    ELSE At(Current)

Loading(t) == mutex[ProcessOf[t]] = t

\* Values.invalidate() takes Values._lock.
Invalidate(p) ==
    /\ mutex[p] = Free
    /\ cache' = [cache EXCEPT ![p] = Dropped]

---------------------------------------------------------------------------
(* Change sets.                                                            *)

Lock(t) ==
    /\ ~ Loading(t)
    /\ phase[t] = "idle" /\ lock = Free
    /\ attempts < MaxAttempts
    /\ attempts' = attempts + 1
    /\ lock' = t
    /\ phase' = [phase EXCEPT ![t] = "locked"]
    /\ own' = [own EXCEPT ![t] = attempts + 1]
    /\ UNCHANGED <<history, reader, returned>>

\* The overrides, write_snapshot with its invalidate(), and state.save().
Write(t) ==
    /\ phase[t] = "locked"
    /\ Invalidate(ProcessOf[t])
    /\ phase' = [phase EXCEPT ![t] = "written"]
    /\ UNCHANGED <<database, own, label, checked, mutex, seen, returned>>

\* The end of the outermost transaction.
Commit(t) ==
    /\ ~ Loading(t)
    /\ phase[t] = "written"
    /\ history' = Append(history, own[t])
    /\ lock' = Free
    /\ phase' = [phase EXCEPT ![t] = "committed"]
    /\ UNCHANGED <<attempts, own, reader, returned>>

\* Bug variant: the row lock outlives the transaction.
LeakyRollback(t) ==
    /\ ~ Loading(t)
    /\ phase[t] \in {"locked", "written"}
    /\ phase' = [phase EXCEPT ![t] = "idle"]
    /\ own' = [own EXCEPT ![t] = 0]
    /\ UNCHANGED <<database, reader, returned>>

\* A refused change set, or an error later in the transaction.
Rollback(t) ==
    /\ ~ Loading(t)
    /\ phase[t] \in {"locked", "written"}
    /\ lock' = Free
    /\ phase' = [phase EXCEPT ![t] = "idle"]
    /\ own' = [own EXCEPT ![t] = 0]
    /\ UNCHANGED <<history, attempts, reader, returned>>

\* The call returns its version to the caller.
Return(t) ==
    /\ phase[t] = "committed"
    /\ phase' = [phase EXCEPT ![t] = "idle"]
    /\ own' = [own EXCEPT ![t] = 0]
    /\ \E v \in 1..Current :
        /\ history[v] = own[t]
        /\ returned' = [returned EXCEPT ![ProcessOf[t]] = IF v > @ THEN v ELSE @]
    /\ UNCHANGED <<database, label, checked, mutex, seen>>

\* Bug variant: the cache is dropped inside the transaction only.
SilentNotify(t) == Return(t) /\ UNCHANGED cache

\* on_commit: snapshot_published drops the cache again.
Notify(t) == Return(t) /\ Invalidate(ProcessOf[t])

\* A receiver of the signal that comes before the reader's raises: the version
\* stays committed and the caller gets an error.
FailToNotify(t) ==
    /\ phase[t] = "committed"
    /\ phase' = [phase EXCEPT ![t] = "idle"]
    /\ own' = [own EXCEPT ![t] = 0]
    /\ UNCHANGED <<database, reader, returned>>

---------------------------------------------------------------------------
(* Reads.                                                                  *)

\* Within a transaction a thread reads after its own write.
MayRead(t) ==
    \/ phase[t] = "idle"
    \/ phase[t] = "written" /\ t \in Outer

WithinWindow(p) ==
    \/ Window[p] = "none"
    \/ Window[p] = "finite" /\ checked[p]

MustLoad(p, v) == cache[p] = Dropped \/ v # label[p]

\* Outside the window: the version first.  A read within it changes nothing.
Check(t) ==
    LET p == ProcessOf[t]
    IN  /\ MayRead(t) /\ mutex[p] = Free
        /\ cache[p] = Dropped \/ ~ WithinWindow(p)
        /\ checked' = [checked EXCEPT ![p] = TRUE]
        /\ seen' = [seen EXCEPT ![p] = View(t).version]
        /\ mutex' = IF MustLoad(p, seen'[p]) THEN [mutex EXCEPT ![p] = t] ELSE mutex
        /\ UNCHANGED <<database, writer, cache, label, returned>>

\* current_values(), in a query of its own.
Load(t) ==
    LET p == ProcessOf[t]
    IN  /\ Loading(t)
        /\ cache' = [cache EXCEPT ![p] = View(t)]
        /\ label' = [label EXCEPT ![p] = seen[p]]
        /\ mutex' = [mutex EXCEPT ![p] = Free]
        /\ UNCHANGED <<database, writer, checked, seen, returned>>

\* Bug variant: the version is kept although the values did not load.
EagerFailToLoad(t) ==
    /\ Loading(t)
    /\ mutex' = [mutex EXCEPT ![ProcessOf[t]] = Free]
    /\ label' = [label EXCEPT ![ProcessOf[t]] = seen[ProcessOf[t]]]
    /\ UNCHANGED <<database, writer, cache, checked, seen, returned>>

\* A stored value that this code cannot coerce, or a failing query: the read
\* raises, and the time of the check stays.
FailToLoad(t) ==
    /\ Loading(t)
    /\ mutex' = [mutex EXCEPT ![ProcessOf[t]] = Free]
    /\ UNCHANGED <<database, writer, cache, label, checked, seen, returned>>

\* The window of a process passes.
Expire(p) ==
    /\ Window[p] = "finite" /\ checked[p]
    /\ checked' = [checked EXCEPT ![p] = FALSE]
    /\ UNCHANGED <<database, writer, cache, label, mutex, seen, returned>>

\* values.invalidate() by hand, or on a changed setting.
InvalidateByHand(p) ==
    /\ Invalidate(p)
    /\ UNCHANGED <<database, writer, label, checked, mutex, seen, returned>>

\* A process dies and starts again.
Restart(p) ==
    LET mine == {t \in Threads : ProcessOf[t] = p}
    IN  /\ lock' = IF lock \in mine THEN Free ELSE lock
        /\ phase' = [t \in Threads |-> IF t \in mine THEN "idle" ELSE phase[t]]
        /\ own' = [t \in Threads |-> IF t \in mine THEN 0 ELSE own[t]]
        /\ cache' = [cache EXCEPT ![p] = Dropped]
        /\ label' = [label EXCEPT ![p] = 0]
        /\ checked' = [checked EXCEPT ![p] = FALSE]
        /\ mutex' = [mutex EXCEPT ![p] = Free]
        /\ seen' = [seen EXCEPT ![p] = 0]
        /\ UNCHANGED <<history, attempts, returned>>

Next ==
    \/ \E t \in Threads :
        \/ Lock(t) \/ Write(t) \/ Commit(t) \/ Rollback(t) \/ Notify(t) \/ FailToNotify(t)
        \/ Check(t) \/ Load(t) \/ FailToLoad(t)
    \/ \E p \in Processes : Expire(p) \/ InvalidateByHand(p) \/ Restart(p)

Spec == Init /\ [][Next]_vars

\* Threads go on reading and finish what they began, windows pass, and the
\* values do not fail to load for ever.
FairSpec ==
    /\ Spec
    /\ \A t \in Threads : /\ WF_vars(Check(t)) /\ SF_vars(Load(t))
                          /\ WF_vars(Commit(t)) /\ SF_vars(Notify(t))
    /\ \A p \in Processes : WF_vars(Expire(p))

---------------------------------------------------------------------------
(* Properties.                                                             *)

\* The type of every variable; a lock has the holder its phase says, who has
\* an attempt of his own.
TypeOK ==
    /\ history \in Seq(1..attempts)
    /\ attempts \in 0..MaxAttempts
    /\ lock \in Threads \cup {Free}
    /\ phase \in [Threads -> {"idle", "locked", "written", "committed"}]
    /\ own \in [Threads -> 0..attempts]
    /\ cache \in [Processes -> Content \cup {Dropped}]
    /\ label \in [Processes -> Nat]
    /\ checked \in [Processes -> BOOLEAN]
    /\ mutex \in [Processes -> Threads \cup {Free}]
    /\ seen \in [Processes -> Nat]
    /\ returned \in [Processes -> Nat]
    /\ \A t \in Threads : /\ phase[t] \in {"locked", "written"} <=> lock = t
                          /\ phase[t] # "idle" => own[t] # 0

Cached(p) == cache[p] # Dropped

Committed(content) ==
    content.version \in 0..Current /\ content = At(content.version)

\* No change set of the process is part of a larger transaction, in which a
\* thread could read what is not committed.
Alone(p) == \A t \in Outer : ProcessOf[t] # p

\* In a process that writes in no larger transaction the cache holds what was
\* committed at some version, and values.version is never newer than that
\* (_current reads the version first and the values second, and a load that fails
\* leaves both): the next check finds out.
LabelNeverAhead ==
    \A p \in Processes : Alone(p) /\ Cached(p) =>
        /\ Committed(cache[p])
        /\ label[p] <= cache[p].version

\* "A view that changes a value and reads it back gets the new one": once a
\* call has returned in a process, no thread of it is served anything older,
\* whatever the window (write_snapshot and snapshot_published drop the cache).
OwnWritesAreRead ==
    \A p \in Processes : Cached(p) => cache[p].version >= returned[p]

\* A version that is committed anywhere comes to be served in p, if p reads.
Reaches(p) ==
    \A v \in 1..MaxAttempts :
        (Current >= v) ~> (Cached(p) => /\ cache[p].version >= v
                                        /\ Committed(cache[p]))

\* Under a window, a version committed anywhere reaches every process that reads
\* and whose own change sets are in no larger transaction: no label that a load
\* left behind, failed or overtaken, hides it from the checks (reader.py:64).
CatchesUp == \A p \in Processes : Window[p] # "none" /\ Alone(p) => Reaches(p)

\* "Writes made elsewhere ... reach a process through the version check, which puts
\* the worst-case staleness at the length of the window" (docs/reading.md:33-35):
\* that is said of every process with a window.
StalenessIsAWindow == \A p \in Processes : Window[p] # "none" => Reaches(p)

===========================================================================
