----------------------------- MODULE Publishing -----------------------------
(***************************************************************************)
(* What happens to a snapshot after its transaction: the signal, the       *)
(* configured publishers one after the other, and the PublisherState row   *)
(* of each.  Processes do this at the same time and at their own speed,    *)
(* and an operator sends stored snapshots again.                           *)
(* Snapshots are known by their versions, counted from 1.                  *)
(***************************************************************************)
EXTENDS Integers, Sequences, SequencesExt

CONSTANTS
    Procs,
    Publishers,         \* TUNABLES["PUBLISHERS"], in order
    Events,             \* what may go wrong or be asked for in this instance
    Free,               \* nobody holds the row lock
    None,               \* nothing recorded or written yet
    MaxVersion,         \* no snapshot has a higher version
    MaxSnapshots        \* snapshots of one transaction

Paths == ToSet(Publishers)

ASSUME PublishingAssumption ==
    /\ Publishers \in Seq(Paths) \ {<<>>}
    /\ Events \subseteq {"receiver", "publisher", "crash", "republish"}
    /\ Free \notin Procs /\ None \notin Int
    /\ MaxVersion \in Nat /\ MaxSnapshots \in Nat \ {0}

VARIABLES
    version,        \* State.current_version
    lock,           \* the State row
    pc,
    pending,        \* the snapshots a process has to send
    todo,           \* the publishers its first one still has to go to
    failed,         \* the publisher just called raised
    received,       \* history: the versions each publisher took
    tried,          \* history: the versions each publisher was called with
    held,           \* what the destination of each got last
    last,           \* PublisherState.last_version
    error,          \* PublisherState.last_error is set
    lost            \* history: the versions whose sending an error or a crash ended

store == <<version, lock>>
call == <<pc, pending, todo, failed>>
outside == <<received, tried, held>>
state == <<last, error>>
vars == <<store, call, outside, state, lost>>

Init ==
    /\ version = 0 /\ lock = Free
    /\ pc = [p \in Procs |-> "idle"]
    /\ pending = [p \in Procs |-> <<>>]
    /\ todo = [p \in Procs |-> <<>>]
    /\ failed = [p \in Procs |-> FALSE]
    /\ received = [path \in Paths |-> {}]
    /\ tried = [path \in Paths |-> {}]
    /\ held = [path \in Paths |-> None]
    /\ last = [path \in Paths |-> None]
    /\ error = [path \in Paths |-> FALSE]
    /\ lost = {}

---------------------------------------------------------------------------
(* The transaction.                                                        *)

Begin(p) ==
    /\ pc[p] = "idle" /\ lock = Free /\ version < MaxVersion
    /\ lock' = p
    /\ pc' = [pc EXCEPT ![p] = "writing"]
    /\ UNCHANGED <<version, pending, todo, failed, outside, state, lost>>

Unsent(p) == Len(pending[p])

\* write_snapshot registers publish with on_commit.  A transaction around
\* several change sets writes several snapshots.
WriteSnapshot(p) ==
    /\ pc[p] = "writing" /\ Unsent(p) < MaxSnapshots /\ version + Unsent(p) < MaxVersion
    /\ pending' = [pending EXCEPT ![p] = Append(@, version + Unsent(p) + 1)]
    /\ UNCHANGED <<store, pc, todo, failed, outside, state, lost>>

Commit(p) ==
    /\ pc[p] = "writing" /\ Unsent(p) > 0
    /\ version' = version + Unsent(p)
    /\ lock' = Free
    /\ pc' = [pc EXCEPT ![p] = "signalling"]
    /\ UNCHANGED <<pending, todo, failed, outside, state, lost>>

\* Bug variant: the callbacks of a transaction outlive it.
ForgetfulEnd(p) ==
    /\ lock' = IF lock = p THEN Free ELSE lock
    /\ pc' = [pc EXCEPT ![p] = "idle"]
    /\ todo' = [todo EXCEPT ![p] = <<>>]
    /\ failed' = [failed EXCEPT ![p] = FALSE]
    /\ UNCHANGED pending

\* Nothing stays of a call: what it had to send is not sent.
End(p) ==
    /\ lock' = IF lock = p THEN Free ELSE lock
    /\ pc' = [pc EXCEPT ![p] = "idle"]
    /\ pending' = [pending EXCEPT ![p] = <<>>]
    /\ todo' = [todo EXCEPT ![p] = <<>>]
    /\ failed' = [failed EXCEPT ![p] = FALSE]

Rollback(p) ==
    /\ pc[p] = "writing"
    /\ End(p)
    /\ UNCHANGED <<version, outside, state, lost>>

---------------------------------------------------------------------------
(* publish, one snapshot after the other.                                  *)

Signal(p) ==
    /\ pc[p] = "signalling"
    /\ pc' = [pc EXCEPT ![p] = "sending"]
    /\ todo' = [todo EXCEPT ![p] = Publishers]
    /\ UNCHANGED <<store, pending, failed, outside, state, lost>>

\* Signal.send passes on what a receiver raises: no publisher gets this snapshot
\* or the later ones of the transaction.
ReceiverRaises(p) ==
    /\ "receiver" \in Events
    /\ pc[p] = "signalling"
    /\ lost' = lost \cup ToSet(pending[p])
    /\ End(p)
    /\ UNCHANGED <<version, outside, state>>

Path(p) == Head(todo[p])
Sent(p) == Head(pending[p])

Add(sets, path, v) == [sets EXCEPT ![path] = @ \cup {v}]

\* publisher.publish: a queue takes the version, a file is replaced as a whole.
Deliver(p) ==
    /\ pc[p] = "sending"
    /\ pc' = [pc EXCEPT ![p] = "recording"]
    /\ received' = Add(received, Path(p), Sent(p))
    /\ tried' = Add(tried, Path(p), Sent(p))
    /\ held' = [held EXCEPT ![Path(p)] = Sent(p)]
    /\ UNCHANGED <<store, pending, todo, failed, state, lost>>

\* Bug variant: the error is swallowed.
SwallowedError(p) ==
    /\ "publisher" \in Events
    /\ pc[p] = "sending"
    /\ pc' = [pc EXCEPT ![p] = "recording"]
    /\ tried' = Add(tried, Path(p), Sent(p))
    /\ UNCHANGED <<store, pending, todo, failed, received, held, state, lost>>

PublisherRaises(p) ==
    /\ "publisher" \in Events
    /\ pc[p] = "sending"
    /\ pc' = [pc EXCEPT ![p] = "recording"]
    /\ failed' = [failed EXCEPT ![p] = TRUE]
    /\ tried' = Add(tried, Path(p), Sent(p))
    /\ UNCHANGED <<store, pending, todo, received, held, state, lost>>

\* The row of a publisher: an error leaves the last version as it was.
SaveState(p) ==
    IF failed[p]
    THEN error' = [error EXCEPT ![Path(p)] = TRUE] /\ UNCHANGED last
    ELSE /\ last' = [last EXCEPT ![Path(p)] = Sent(p)]
         /\ error' = [error EXCEPT ![Path(p)] = FALSE]

\* Bug variant: a publisher that fails ends the round.
BreakingAdvance(p) ==
    IF Len(todo[p]) > 1 /\ ~ failed[p]
    THEN /\ pc' = [pc EXCEPT ![p] = "sending"]
         /\ todo' = [todo EXCEPT ![p] = Tail(@)]
         /\ UNCHANGED pending
    ELSE /\ pc' = [pc EXCEPT ![p] = IF Unsent(p) > 1 THEN "signalling" ELSE "idle"]
         /\ todo' = [todo EXCEPT ![p] = <<>>]
         /\ pending' = [pending EXCEPT ![p] = Tail(@)]

\* The next publisher, else the next snapshot, else the call returns.
Advance(p) ==
    IF Len(todo[p]) > 1
    THEN /\ pc' = [pc EXCEPT ![p] = "sending"]
         /\ todo' = [todo EXCEPT ![p] = Tail(@)]
         /\ UNCHANGED pending
    ELSE /\ pc' = [pc EXCEPT ![p] = IF Unsent(p) > 1 THEN "signalling" ELSE "idle"]
         /\ todo' = [todo EXCEPT ![p] = <<>>]
         /\ pending' = [pending EXCEPT ![p] = Tail(@)]

Record(p) ==
    /\ pc[p] = "recording"
    /\ SaveState(p)
    /\ Advance(p)
    /\ failed' = [failed EXCEPT ![p] = FALSE]
    /\ UNCHANGED <<store, outside, lost>>

---------------------------------------------------------------------------
(* Sending again.                                                          *)

Send(p, v, targets) ==
    /\ pc[p] = "idle"
    /\ pc' = [pc EXCEPT ![p] = "sending"]
    /\ pending' = [pending EXCEPT ![p] = <<v>>]
    /\ todo' = [todo EXCEPT ![p] = targets]

\* tunables_publish: one stored version, to every publisher or to one.
Republish(p) ==
    /\ "republish" \in Events
    /\ \E v \in 1..version, path \in Paths :
        \/ Send(p, v, Publishers)
        \/ Send(p, v, <<path>>)
    /\ UNCHANGED <<store, failed, outside, state, lost>>

\* A process dies, or a query on PublisherState fails.
Crash(p) ==
    /\ "crash" \in Events
    /\ pc[p] # "idle"
    /\ lost' = lost \cup (ToSet(pending[p]) \cap 1..version)
    /\ End(p)
    /\ UNCHANGED <<version, outside, state>>

Next ==
    \E p \in Procs :
        \/ Begin(p) \/ WriteSnapshot(p) \/ Commit(p) \/ Rollback(p)
        \/ Signal(p) \/ ReceiverRaises(p)
        \/ Deliver(p) \/ PublisherRaises(p) \/ Record(p)
        \/ Republish(p) \/ Crash(p)

Spec == Init /\ [][Next]_vars

---------------------------------------------------------------------------
(* Properties.                                                             *)

Recorded == 1..version \cup {None}

\* The type of every variable; a process that sends has something to send.
TypeOK ==
    /\ version \in 0..MaxVersion
    /\ lock \in Procs \cup {Free}
    /\ pc \in [Procs -> {"idle", "writing", "signalling", "sending", "recording"}]
    /\ pending \in [Procs -> Seq(1..MaxVersion)]
    /\ todo \in [Procs -> Seq(Paths)]
    /\ failed \in [Procs -> BOOLEAN]
    /\ received \in [Paths -> SUBSET (1..MaxVersion)]
    /\ tried \in [Paths -> SUBSET (1..MaxVersion)]
    /\ held \in [Paths -> Recorded]
    /\ last \in [Paths -> Recorded]
    /\ error \in [Paths -> BOOLEAN]
    /\ lost \subseteq 1..version
    /\ \A p \in Procs : /\ (pc[p] = "writing") <=> (lock = p)
                        /\ pc[p] \in {"sending", "recording"} <=> todo[p] # <<>>
                        /\ pc[p] = "idle" <=> pending[p] = <<>> /\ lock # p

StillToSend(path, v) ==
    \E p \in Procs :
        /\ v \in ToSet(pending[p])
        /\ \/ pc[p] = "signalling"
           \/ v # Sent(p)
           \/ path \in ToSet(todo[p])

\* Every committed snapshot goes to each publisher, whatever the other publishers
\* raise (_send logs it).  Only a crash takes the rest away, or a receiver of the
\* signal: README.md:170 knows neither.
EverySnapshotTried ==
    \A path \in Paths, v \in 1..version :
        v \in tried[path] \cup lost \/ StillToSend(path, v)

\* The version on record is one that the publisher took, and no publisher gets a
\* snapshot whose transaction may still be rolled back ("both run after the
\* transaction commits"), through crashes and failures in any process.
RecordedWasReceived ==
    \A path \in Paths :
        received[path] \subseteq 1..version /\ last[path] \in received[path] \cup {None}

Idle(path) == \A p \in Procs : path \notin ToSet(todo[p]) /\ pc[p] # "signalling"

\* "A gap between the current version and a publisher's last version is
\* visible" (README.md:194): a destination that did not get the current
\* version last, with nobody about to send it anything, shows in its row.
GapIsVisible ==
    \A path \in Paths :
        Idle(path) /\ version > 0 /\ held[path] # version =>
            last[path] # version \/ error[path]

===========================================================================
