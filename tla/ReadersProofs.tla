--------------------------- MODULE ReadersProofs ---------------------------
(***************************************************************************)
(* Proofs about Readers, for any number of processes and threads and any   *)
(* windows: caches hold what was committed, under a label that is never    *)
(* ahead, and nothing older than a write of their own process.             *)
(***************************************************************************)
EXTENDS Readers, TLAPS

\* A thread that loads is in no change set of its own, or inside a larger
\* transaction.
LoadersMayRead == \A t \in Threads : Loading(t) => MayRead(t)

\* What a check finds has been committed.
SeenIsPast == \A p \in Processes : Alone(p) => seen[p] <= Current

ReturnedIsPast == \A p \in Processes : returned[p] <= Current

\* The inductive invariant.
IInv ==
    /\ TypeOK
    /\ LoadersMayRead
    /\ SeenIsPast
    /\ ReturnedIsPast
    /\ LabelNeverAhead
    /\ OwnWritesAreRead

\* A thread sees a state of the database, at the committed version or the next.
LEMMA Views ==
    ASSUME TypeOK, NEW t \in Threads
    PROVE  /\ Current \in Nat
           /\ \A v \in 0..Current : At(v) \in Content
           /\ View(t) \in Content
           /\ View(t).version \in {Current, Current + 1}
           /\ phase[t] # "written" => View(t) = At(Current)
  <1>1. /\ history \in Seq(1..attempts) /\ attempts \in Nat
        /\ own[t] \in Nat
    BY ReadersAssumption DEF TypeOK
  <1>2. Current \in Nat /\ \A v \in 1..Current : history[v] \in Nat
    BY <1>1 DEF Current
  <1>3. \A v \in 0..Current : At(v) \in Content
    BY <1>2 DEF At, Content
  <1>4. View(t) = At(Current) \/ View(t) = [version |-> Current + 1, attempt |-> own[t]]
    BY DEF View
  <1>5. At(Current).version = Current
    BY DEF At
  <1> QED
    BY <1>1, <1>2, <1>3, <1>4, <1>5 DEF View, Content

\* What is committed stays committed.
LEMMA HistoryGrows ==
    ASSUME TypeOK, NEW t \in Threads, history' = Append(history, own[t])
    PROVE  /\ Current' = Current + 1
           /\ \A v \in 0..Current : At(v)' = At(v)
  <1>1. history \in Seq(1..attempts)
    BY DEF TypeOK
  <1>2. history \in Seq(Nat)
    BY <1>1, ReadersAssumption DEF TypeOK
  <1>3. /\ Len(history') = Len(history) + 1
        /\ \A v \in 1..Len(history) : history'[v] = history[v]
    BY <1>1
  <1> QED
    BY <1>3 DEF Current, At

\* The invariant holds at first.
LEMMA InitInv == Init => IInv
  BY ReadersAssumption
  DEF Init, IInv, TypeOK, LoadersMayRead, SeenIsPast, ReturnedIsPast,
      LabelNeverAhead, OwnWritesAreRead, Cached, Current, Loading, MayRead

---------------------------------------------------------------------------
(* One step.                                                               *)

\* Types and locks.
LEMMA TypeStep == TypeOK /\ LoadersMayRead /\ [Next]_vars => TypeOK'
  <1> SUFFICES ASSUME TypeOK, LoadersMayRead, [Next]_vars PROVE TypeOK'
    OBVIOUS
  <1> USE ReadersAssumption
  <1>1. ASSUME NEW t \in Threads, Lock(t) PROVE TypeOK'
    <2>1. history' \in Seq(1..attempts')
      BY <1>1 DEF Lock, TypeOK
    <2> QED
      BY <1>1, <2>1 DEF Lock, TypeOK, reader
  <1>2. ASSUME NEW t \in Threads, Write(t) PROVE TypeOK'
    BY <1>2 DEF Write, Invalidate, TypeOK, database
  <1>3. ASSUME NEW t \in Threads, Commit(t) PROVE TypeOK'
    <2>1. own[t] \in 1..attempts
      BY <1>3 DEF Commit, TypeOK
    <2>2. history' \in Seq(1..attempts')
      BY <1>3, <2>1 DEF Commit, TypeOK
    <2> QED
      BY <1>3, <2>2 DEF Commit, TypeOK, reader
  <1>4. ASSUME NEW t \in Threads, Rollback(t) PROVE TypeOK'
    BY <1>4 DEF Rollback, TypeOK, reader
  <1>5. ASSUME NEW t \in Threads, Notify(t) PROVE TypeOK'
    <2>1. Current \in Nat
      BY DEF TypeOK, Current
    <2> QED
      BY <1>5, <2>1 DEF Notify, Return, Invalidate, TypeOK, database
  <1>6. ASSUME NEW t \in Threads, FailToNotify(t) PROVE TypeOK'
    BY <1>6 DEF FailToNotify, TypeOK, database, reader
  <1>7. ASSUME NEW t \in Threads, Check(t) PROVE TypeOK'
    BY <1>7, Views DEF Check, TypeOK, database, writer, Content
  <1>8. ASSUME NEW t \in Threads, Load(t) PROVE TypeOK'
    BY <1>8, Views DEF Load, TypeOK, database, writer
  <1>9. ASSUME NEW t \in Threads, FailToLoad(t) PROVE TypeOK'
    BY <1>9 DEF FailToLoad, TypeOK, database, writer
  <1>10. ASSUME NEW p \in Processes, Expire(p) PROVE TypeOK'
    BY <1>10 DEF Expire, TypeOK, database, writer
  <1>11. ASSUME NEW p \in Processes, InvalidateByHand(p) PROVE TypeOK'
    BY <1>11 DEF InvalidateByHand, Invalidate, TypeOK, database, writer
  <1>12. ASSUME NEW p \in Processes, Restart(p) PROVE TypeOK'
    BY <1>12 DEF Restart, TypeOK
  <1>13. CASE UNCHANGED vars
    BY <1>13 DEF vars, TypeOK, database, writer, reader
  <1> QED
    BY <1>1, <1>2, <1>3, <1>4, <1>5, <1>6, <1>7, <1>8, <1>9, <1>10, <1>11, <1>12,
       <1>13 DEF Next

\* Only Check takes the mutex of a process, and nobody moves his change set on
\* while he holds it.
LEMMA LoadersStep == TypeOK /\ LoadersMayRead /\ [Next]_vars => LoadersMayRead'
  <1> SUFFICES ASSUME TypeOK, LoadersMayRead, [Next]_vars, NEW s \in Threads, Loading(s)'
               PROVE  MayRead(s)'
    BY DEF LoadersMayRead
  <1> USE ReadersAssumption
  <1>0. Loading(s) => MayRead(s)
    BY DEF LoadersMayRead
  <1>1. ASSUME NEW t \in Threads, Lock(t) PROVE MayRead(s)'
    BY <1>0, <1>1 DEF Lock, TypeOK, reader, Loading, MayRead
  <1>2. ASSUME NEW t \in Threads, Write(t) PROVE MayRead(s)'
    BY <1>0, <1>2 DEF Write, Invalidate, TypeOK, Loading, MayRead
  <1>3. ASSUME NEW t \in Threads, Commit(t) PROVE MayRead(s)'
    BY <1>0, <1>3 DEF Commit, TypeOK, reader, Loading, MayRead
  <1>4. ASSUME NEW t \in Threads, Rollback(t) PROVE MayRead(s)'
    BY <1>0, <1>4 DEF Rollback, TypeOK, reader, Loading, MayRead
  <1>5. ASSUME NEW t \in Threads, Notify(t) PROVE MayRead(s)'
    BY <1>0, <1>5 DEF Notify, Return, TypeOK, Loading, MayRead
  <1>6. ASSUME NEW t \in Threads, FailToNotify(t) PROVE MayRead(s)'
    BY <1>0, <1>6 DEF FailToNotify, TypeOK, reader, Loading, MayRead
  <1>7. ASSUME NEW t \in Threads, Check(t) PROVE MayRead(s)'
    BY <1>0, <1>7 DEF Check, TypeOK, writer, Loading, MayRead
  <1>8. ASSUME NEW t \in Threads, Load(t) \/ FailToLoad(t) PROVE MayRead(s)'
    BY <1>0, <1>8 DEF Load, FailToLoad, TypeOK, writer, Loading, MayRead
  <1>9. ASSUME NEW p \in Processes, Expire(p) \/ InvalidateByHand(p) PROVE MayRead(s)'
    BY <1>0, <1>9 DEF Expire, InvalidateByHand, writer, Loading, MayRead
  <1>10. ASSUME NEW p \in Processes, Restart(p) PROVE MayRead(s)'
    BY <1>0, <1>10 DEF Restart, TypeOK, Loading, MayRead
  <1>11. CASE UNCHANGED vars
    BY <1>0, <1>11 DEF vars, writer, reader, Loading, MayRead
  <1> QED
    BY <1>1, <1>2, <1>3, <1>4, <1>5, <1>6, <1>7, <1>8, <1>9, <1>10, <1>11 DEF Next

\* The kinds of steps, as far as caches go.
Extends(t) ==
    /\ history' = Append(history, own[t])
    /\ UNCHANGED <<cache, label, seen, returned>>

Fills(t) ==
    /\ Loading(t)
    /\ cache' = [cache EXCEPT ![ProcessOf[t]] = View(t)]
    /\ label' = [label EXCEPT ![ProcessOf[t]] = seen[ProcessOf[t]]]
    /\ UNCHANGED <<history, seen, returned>>

Sees(t) ==
    /\ MayRead(t)
    /\ seen' = [seen EXCEPT ![ProcessOf[t]] = View(t).version]
    /\ UNCHANGED <<history, cache, label, returned>>

Drops(p) ==
    /\ UNCHANGED history
    /\ cache' = [cache EXCEPT ![p] = Dropped]
    /\ \A q \in Processes :
        /\ label'[q] \in {label[q], 0} /\ seen'[q] \in {seen[q], 0}
        /\ q # p => returned'[q] = returned[q]
        /\ returned'[q] = returned[q] \/ returned'[q] <= Current

Keeps == UNCHANGED <<history, cache, label, seen, returned>>

\* What a step can do: extend the history, fill a cache, serve, drop, or none of these.
LEMMA StepKinds ==
    ASSUME TypeOK, [Next]_vars
    PROVE  \/ \E t \in Threads : Extends(t) \/ Fills(t) \/ Sees(t)
           \/ \E p \in Processes : Drops(p)
           \/ Keeps
  <1> DEFINE Kind == \/ \E t \in Threads : Extends(t) \/ Fills(t) \/ Sees(t)
                     \/ \E p \in Processes : Drops(p)
                     \/ Keeps
  <1> USE ReadersAssumption
  <1>1. ASSUME NEW t \in Threads, Lock(t) \/ Rollback(t) \/ FailToNotify(t) \/ FailToLoad(t)
        PROVE  Kind
    BY <1>1 DEF Lock, Rollback, FailToNotify, FailToLoad, Keeps, reader, database
  <1>2. ASSUME NEW t \in Threads, Write(t) PROVE Kind
    BY <1>2 DEF Write, Invalidate, Drops, database
  <1>3. ASSUME NEW t \in Threads, Commit(t) PROVE Kind
    BY <1>3 DEF Commit, Extends, reader
  <1>4. ASSUME NEW t \in Threads, Notify(t) PROVE Kind
    <2>1. PICK v \in 1..Current :
            returned' = [returned EXCEPT ![ProcessOf[t]] = IF v > @ THEN v ELSE @]
      BY <1>4 DEF Notify, Return
    <2>2. Current \in Nat
      BY DEF Current, TypeOK
    <2>3. Drops(ProcessOf[t])
      BY <1>4, <2>1, <2>2 DEF Notify, Return, Invalidate, Drops, database, TypeOK
    <2> QED
      BY <2>3
  <1>5. ASSUME NEW t \in Threads, Check(t) PROVE Kind
    BY <1>5 DEF Check, Sees, database
  <1>6. ASSUME NEW t \in Threads, Load(t) PROVE Kind
    BY <1>6 DEF Load, Fills, database
  <1>7. ASSUME NEW p \in Processes, Expire(p) PROVE Kind
    BY <1>7 DEF Expire, Keeps, database
  <1>8. ASSUME NEW p \in Processes, InvalidateByHand(p) PROVE Kind
    BY <1>8 DEF InvalidateByHand, Invalidate, Drops, database
  <1>9. ASSUME NEW p \in Processes, Restart(p) PROVE Kind
    BY <1>9 DEF Restart, Drops, TypeOK
  <1>10. CASE UNCHANGED vars
    BY <1>10 DEF vars, Keeps, database, reader
  <1> QED
    BY <1>1, <1>2, <1>3, <1>4, <1>5, <1>6, <1>7, <1>8, <1>9, <1>10 DEF Next

\* Checks find the committed version, or one version more in a larger transaction.
LEMMA PastStep ==
    TypeOK /\ SeenIsPast /\ ReturnedIsPast /\ [Next]_vars => SeenIsPast' /\ ReturnedIsPast'
  <1> SUFFICES ASSUME TypeOK, SeenIsPast, ReturnedIsPast, [Next]_vars
               PROVE  SeenIsPast' /\ ReturnedIsPast'
    OBVIOUS
  <1> USE ReadersAssumption
  <1>0. Current \in Nat /\ seen \in [Processes -> Nat] /\ returned \in [Processes -> Nat]
    BY DEF TypeOK, Current
  <1>1. ASSUME NEW t \in Threads, Extends(t) PROVE SeenIsPast' /\ ReturnedIsPast'
    <2>1. Current' = Current + 1
      BY <1>1, HistoryGrows DEF Extends
    <2>2. \A p \in Processes : seen[p] \in Nat /\ returned[p] \in Nat
      BY <1>0
    <2>3. \A p \in Processes : Alone(p) => seen[p]' <= Current'
      BY <1>0, <1>1, <2>1, <2>2 DEF Extends, SeenIsPast
    <2>4. \A p \in Processes : returned[p]' <= Current'
      BY <1>0, <1>1, <2>1, <2>2 DEF Extends, ReturnedIsPast
    <2> QED
      BY <2>3, <2>4 DEF SeenIsPast, ReturnedIsPast, Alone
  <1>2. ASSUME NEW t \in Threads, Fills(t) PROVE SeenIsPast' /\ ReturnedIsPast'
    BY <1>2 DEF Fills, SeenIsPast, ReturnedIsPast, Alone, Current
  <1>3. ASSUME NEW t \in Threads, Sees(t) PROVE SeenIsPast' /\ ReturnedIsPast'
    <2>1. Alone(ProcessOf[t]) => View(t).version = Current
      BY <1>3, Views DEF Sees, MayRead, Alone, At
    <2>2. SeenIsPast'
      BY <1>0, <1>3, <2>1 DEF Sees, SeenIsPast, Alone, Current
    <2> QED
      BY <1>3, <2>2 DEF Sees, ReturnedIsPast, Current
  <1>4. ASSUME NEW p \in Processes, Drops(p) PROVE SeenIsPast' /\ ReturnedIsPast'
    <2>1. Current' = Current
      BY <1>4 DEF Drops, Current
    <2> QED
      BY <1>0, <1>4, <2>1 DEF Drops, SeenIsPast, ReturnedIsPast, Alone
  <1>5. CASE Keeps
    BY <1>5 DEF Keeps, SeenIsPast, ReturnedIsPast, Alone, Current
  <1> QED
    BY <1>1, <1>2, <1>3, <1>4, <1>5, StepKinds

\* A cache is filled with the committed version, under a label that was read
\* before it.
LEMMA LabelStep ==
    TypeOK /\ LoadersMayRead /\ SeenIsPast /\ LabelNeverAhead /\ [Next]_vars => LabelNeverAhead'
  <1> SUFFICES ASSUME TypeOK, LoadersMayRead, SeenIsPast, LabelNeverAhead, [Next]_vars,
                      NEW q \in Processes, Alone(q), Cached(q)'
               PROVE  Committed(cache[q])' /\ label'[q] <= cache'[q].version
    BY DEF LabelNeverAhead, Alone
  <1> USE ReadersAssumption
  <1>0. /\ Cached(q) => Committed(cache[q]) /\ label[q] <= cache[q].version
        /\ seen[q] <= Current /\ Current \in Nat
        /\ cache[q] \in Content \cup {Dropped} /\ label[q] \in Nat
        /\ DOMAIN cache = Processes /\ DOMAIN label = Processes
    BY DEF LabelNeverAhead, Alone, SeenIsPast, TypeOK, Current
  <1>1. ASSUME NEW t \in Threads, Extends(t)
        PROVE  Committed(cache[q])' /\ label'[q] <= cache'[q].version
    <2>1. /\ Current' = Current + 1
          /\ \A v \in 0..Current : At(v)' = At(v)
      BY <1>1, HistoryGrows DEF Extends
    <2> QED
      BY <1>0, <1>1, <2>1 DEF Extends, Committed, Cached
  <1>2. ASSUME NEW t \in Threads, Fills(t)
        PROVE  Committed(cache[q])' /\ label'[q] <= cache'[q].version
    <2>1. CASE q = ProcessOf[t]
      <3>1. View(t) = At(Current)
        BY <1>2, <2>1, Views DEF Fills, LoadersMayRead, MayRead, Alone
      <3>2. cache'[q] = At(Current) /\ label'[q] = seen[q] /\ UNCHANGED history
        BY <1>0, <1>2, <2>1, <3>1 DEF Fills
      <3> QED
        BY <1>0, <3>2 DEF Committed, At, Current
    <2>2. CASE q # ProcessOf[t]
      BY <1>0, <1>2, <2>2 DEF Fills, Committed, Cached, At, Current
    <2> QED
      BY <2>1, <2>2
  <1>3. ASSUME NEW t \in Threads, Sees(t)
        PROVE  Committed(cache[q])' /\ label'[q] <= cache'[q].version
    BY <1>0, <1>3 DEF Sees, Committed, Cached, At, Current
  <1>4. ASSUME NEW p \in Processes, Drops(p)
        PROVE  Committed(cache[q])' /\ label'[q] <= cache'[q].version
    <2>1. q # p
      BY <1>0, <1>4 DEF Drops, Cached
    <2>2. cache'[q] = cache[q] /\ label'[q] \in {label[q], 0} /\ UNCHANGED history
      BY <1>0, <1>4, <2>1 DEF Drops
    <2> QED
      BY <1>0, <2>2 DEF Committed, Cached, At, Current, Content
  <1>5. CASE Keeps
    BY <1>0, <1>5 DEF Keeps, Committed, Cached, At, Current
  <1> QED
    BY <1>1, <1>2, <1>3, <1>4, <1>5, StepKinds

\* A call that returns leaves its cache empty; a cache is filled with no less
\* than the committed version.
LEMMA OwnWritesStep ==
    TypeOK /\ ReturnedIsPast /\ OwnWritesAreRead /\ [Next]_vars => OwnWritesAreRead'
  <1> SUFFICES ASSUME TypeOK, ReturnedIsPast, OwnWritesAreRead, [Next]_vars,
                      NEW q \in Processes, Cached(q)'
               PROVE  cache'[q].version >= returned'[q]
    BY DEF OwnWritesAreRead
  <1> USE ReadersAssumption
  <1>0. /\ Cached(q) => cache[q].version >= returned[q]
        /\ returned[q] <= Current /\ Current \in Nat /\ returned[q] \in Nat
        /\ DOMAIN cache = Processes
    BY DEF OwnWritesAreRead, ReturnedIsPast, TypeOK, Current
  <1>1. ASSUME NEW t \in Threads, Extends(t) \/ Sees(t) PROVE cache'[q].version >= returned'[q]
    BY <1>0, <1>1 DEF Extends, Sees, Cached
  <1>2. ASSUME NEW t \in Threads, Fills(t) PROVE cache'[q].version >= returned'[q]
    <2>1. View(t).version >= Current
      BY <1>0, Views
    <2> QED
      BY <1>0, <1>2, <2>1, Views DEF Fills, Cached, Content
  <1>3. ASSUME NEW p \in Processes, Drops(p) PROVE cache'[q].version >= returned'[q]
    BY <1>0, <1>3 DEF Drops, Cached
  <1>4. CASE Keeps
    BY <1>0, <1>4 DEF Keeps, Cached
  <1> QED
    BY <1>1, <1>2, <1>3, <1>4, StepKinds

---------------------------------------------------------------------------
(* The theorems.                                                           *)

\* The inductive invariant holds in every run.
THEOREM Invariance == Spec => []IInv
  <1>1. Init => IInv
    BY InitInv
  <1>2. IInv /\ [Next]_vars => IInv'
    BY TypeStep, LoadersStep, PastStep, LabelStep, OwnWritesStep DEF IInv
  <1> QED
    BY <1>1, <1>2, PTL DEF Spec

\* Types hold, and the holder of the row lock is inside a change set.
THEOREM TypeCorrect == Spec => []TypeOK
  BY Invariance, PTL DEF IInv

\* Without change sets in larger transactions a process serves what was
\* committed, and values.version is never ahead of it.
THEOREM LabelsNeverAhead == Spec => []LabelNeverAhead
  BY Invariance, PTL DEF IInv

\* What a process wrote and returned, its threads read, whatever the windows,
\* failures to load, and restarts.
THEOREM OwnWritesRead == Spec => []OwnWritesAreRead
  BY Invariance, PTL DEF IInv

===========================================================================
