--------------------------- MODULE RetentionProofs ---------------------------
(***************************************************************************)
(* Proofs about Retention, for any processes, policies, batches, clocks    *)
(* and bounds.  A prune by count deletes what was old when it listed it,   *)
(* and versions only get older; a prune by age may delete the current      *)
(* version, but only one that its first query did not see.                 *)
(***************************************************************************)
EXTENDS Retention, FiniteSetTheorems, TLAPS

\* A version that some --keep policy lets go.
Spare(v) == \E keep \in Keeps : v <= version - keep

\* A call of prune has a list only while it deletes, and an instant only if
\* it prunes by age.
CallsOfPrune ==
    \A p \in Procs :
        /\ stored[p] \subseteq 0..version
        /\ pc[p] # "deleting" => doomed[p] = {}
        /\ pc[p] \notin {"aging", "deleting"} => before[p] = NoInstant
        /\ pc[p] = "aging" => before[p] # NoInstant

\* What a prune by count lists, and what is gone but for prunes by age.
CountsAreRight ==
    /\ \A p \in Procs : before[p] = NoInstant => \A v \in doomed[p] : Spare(v)
    /\ \A v \in 0..version : v \in DOMAIN created \cup aged \/ Spare(v)

\* The inductive invariant.
IInv == TypeOK /\ CallsOfPrune /\ OnlyARaceDoomsCurrent /\ CountsAreRight

---------------------------------------------------------------------------
(* Lists of versions.                                                      *)

\* The greatest version is the maximum, and protected.
LEMMA GreatestIsProtected ==
    ASSUME NEW versions, NEW n \in Nat, versions \subseteq 0..n, n \in versions
    PROVE  n \in Protected(versions)
<1>1. \A w \in versions : n >= w
  OBVIOUS
<1>2. Max(versions) \in versions /\ \A w \in versions : Max(versions) >= w
  BY <1>1 DEF Max
<1>3. Max(versions) \in 0..n /\ Max(versions) >= n
  BY <1>2
<1> QED
  BY <1>3 DEF Protected

\* Every version that --keep lists has at least so many newer ones.
LEMMA OldestAreSpare ==
    ASSUME NEW versions, NEW n \in Nat, versions \subseteq 0..n, NEW keep \in Nat,
           NEW v \in Oldest(versions, keep)
    PROVE  v \in versions /\ v <= n - keep
<1> DEFINE newer == {w \in versions : w > v}
<1>1. v \in versions /\ v \in 0..n /\ Cardinality(newer) >= keep
  BY DEF Oldest
<1>2. newer \subseteq (v + 1)..n
  <2> SUFFICES ASSUME NEW w \in versions, w > v
               PROVE  w \in (v + 1)..n
    OBVIOUS
  <2>1. w \in 0..n /\ v \in 0..n
    BY <1>1
  <2> QED
    BY <2>1
<1>3. IsFiniteSet((v + 1)..n) /\ Cardinality((v + 1)..n) = IF v + 1 > n THEN 0 ELSE n - (v + 1) + 1
  BY <1>1, FS_Interval
<1>4. IsFiniteSet(newer) /\ Cardinality(newer) <= Cardinality((v + 1)..n)
  BY <1>2, <1>3, FS_Subset
<1>5. Cardinality(newer) \in Nat
  BY <1>4, FS_CardinalityType
<1> HIDE DEF newer
<1> QED
  BY <1>1, <1>3, <1>4, <1>5

\* A batch of a prune is part of what it listed.
LEMMA BatchIsPart == ASSUME NEW versions PROVE Batch(versions) \subseteq versions
BY DEF Batch

---------------------------------------------------------------------------
(* The invariant.                                                          *)

\* At first there is nothing to prune.
LEMMA InitInv == Init => IInv
<1> SUFFICES ASSUME Init
             PROVE  IInv
  OBVIOUS
<1> USE RetentionAssumption
<1>1. TypeOK
  BY DEF Init, TypeOK
<1>2. CallsOfPrune /\ OnlyARaceDoomsCurrent
  BY DEF Init, CallsOfPrune, OnlyARaceDoomsCurrent
<1>3. CountsAreRight
  BY DEF Init, CountsAreRight
<1> QED
  BY <1>1, <1>2, <1>3 DEF IInv

\* Every version stays spare while versions are written.
LEMMA SpareGrows ==
    ASSUME version \in Nat, version' \in {version, version + 1}, NEW v \in Nat, Spare(v)
    PROVE  Spare(v)'
<1>1. PICK keep \in Keeps : v <= version - keep
  BY DEF Spare
<1>2. keep \in Nat /\ version' \in Nat
  BY RetentionAssumption
<1>3. v <= version' - keep
  <2>1. CASE version' = version
    BY <1>1, <2>1
  <2>2. CASE version' = version + 1
    <3>1. v <= (version + 1) - keep
      BY <1>1, <1>2
    <3>2. (version + 1) - keep = version' - keep
      BY <2>2
    <3> QED
      BY <3>1, <3>2
  <2> QED
    BY <2>1, <2>2
<1> QED
  BY <1>3 DEF Spare

\* Steps that are not about prunes: the clock, starts and locks of writers.
LEMMA FrameStep ==
    ASSUME IInv, TypeOK',
           UNCHANGED <<version, DOMAIN created, prune, aged>>,
           \A p \in Procs : pc'[p] # pc[p] =>
              pc[p] \notin {"aging", "deleting"} /\ pc'[p] \notin {"aging", "deleting"}
    PROVE  IInv'
<1>1. CallsOfPrune'
  BY DEF IInv, CallsOfPrune, prune
<1>2. OnlyARaceDoomsCurrent'
  BY DEF IInv, OnlyARaceDoomsCurrent, prune
<1>3. CountsAreRight'
  BY DEF IInv, CountsAreRight, prune, Spare
<1> QED
  BY <1>1, <1>2, <1>3 DEF IInv

\* Time and the writers before they write keep the invariant.
LEMMA WriterStep ==
    ASSUME IInv,
           \/ Tick
           \/ \E p \in Procs : SyncStart(p) \/ ApplyStart(p) \/ SyncLock(p) \/ ApplyLock(p)
    PROVE  IInv'
<1>1. TypeOK
  BY DEF IInv
<1>2. CASE Tick
  <2>1. TypeOK'
    BY <1>1, <1>2, RetentionAssumption DEF Tick, TypeOK, rows, prune
  <2> QED
    BY <1>2, <2>1, FrameStep DEF Tick, rows
<1>3. ASSUME NEW p \in Procs, SyncStart(p) \/ ApplyStart(p) \/ SyncLock(p) \/ ApplyLock(p)
      PROVE  IInv'
  <2>1. TypeOK'
    BY <1>1, <1>3 DEF SyncStart, ApplyStart, SyncLock, ApplyLock, Goto, TypeOK, rows, prune
  <2> QED
    BY <1>1, <1>3, <2>1, FrameStep
       DEF SyncStart, ApplyStart, SyncLock, ApplyLock, Goto, rows, TypeOK
<1> QED
  BY <1>2, <1>3

\* A commit adds a version that is on nobody's list.
LEMMA CommitStep ==
    ASSUME IInv, NEW p \in Procs, Commit(p)
    PROVE  IInv'
<1>1. /\ TypeOK /\ CallsOfPrune /\ OnlyARaceDoomsCurrent /\ CountsAreRight
      /\ version \in Nat /\ version' = version + 1 /\ UNCHANGED <<stored, before, doomed, aged>>
      /\ DOMAIN created' = DOMAIN created \cup {version + 1}
  BY DEF IInv, TypeOK, Commit, prune
<1>2. TypeOK'
  <2>1. /\ created' \in [DOMAIN created' -> 0..clock]
    BY <1>1 DEF Commit, TypeOK
  <2>2. DOMAIN created' \subseteq 0..version' /\ aged' \subseteq 0..version'
    BY <1>1 DEF TypeOK
  <2>3. doomed' \in [Procs -> SUBSET (0..version')]
    BY <1>1 DEF TypeOK
  <2> QED
    BY <1>1, <2>1, <2>2, <2>3 DEF Commit, Goto, TypeOK
<1>3. CallsOfPrune'
  BY <1>1 DEF Commit, Goto, CallsOfPrune, TypeOK
<1>4. OnlyARaceDoomsCurrent'
  <2>1. \A q \in Procs : version + 1 \notin doomed[q]
    BY <1>1 DEF TypeOK
  <2> QED
    BY <1>1, <2>1 DEF OnlyARaceDoomsCurrent
<1>5. CountsAreRight'
  <2>1. ASSUME NEW q \in Procs, before[q] = NoInstant, NEW v \in doomed[q]
        PROVE  Spare(v)'
    BY <1>1, <2>1, SpareGrows DEF CountsAreRight, TypeOK
  <2>2. ASSUME NEW v \in 0..version', v \notin DOMAIN created' \cup aged'
        PROVE  Spare(v)'
    BY <1>1, <2>2, SpareGrows DEF CountsAreRight
  <2> QED
    BY <1>1, <2>1, <2>2 DEF CountsAreRight
<1> QED
  BY <1>2, <1>3, <1>4, <1>5 DEF IInv

\* The queries of a prune.
LEMMA ListStep ==
    ASSUME IInv, NEW p \in Procs, KeepList(p) \/ AgeList(p) \/ AgeSelect(p)
    PROVE  IInv'
<1>1. /\ TypeOK /\ CallsOfPrune /\ OnlyARaceDoomsCurrent /\ CountsAreRight
      /\ version \in Nat /\ DOMAIN created \subseteq 0..version
      /\ stored \in [Procs -> SUBSET Nat] /\ before \in [Procs -> Instants \cup {NoInstant}]
      /\ doomed \in [Procs -> SUBSET (0..version)]
      /\ pc \in [Procs -> {"idle", "syncing", "applying", "writing", "aging", "deleting"}]
      /\ NoInstant \notin Instants
  BY RetentionAssumption DEF IInv, TypeOK
<1>2. /\ UNCHANGED <<clock, version, created, lock, started, aged>>
  BY DEF KeepList, AgeList, AgeSelect, rows
<1>3. CASE KeepList(p)
  <2>1. PICK keep \in Keeps :
            doomed' = [doomed EXCEPT ![p] =
                          Oldest(DOMAIN created, keep) \ Protected(DOMAIN created)]
    BY <1>1, <1>3 DEF KeepList
  <2>2. /\ stored' = [stored EXCEPT ![p] = DOMAIN created]
        /\ pc[p] = "idle" /\ pc' = [pc EXCEPT ![p] = "deleting"] /\ before' = before
    BY <1>3 DEF KeepList, Goto
  <2>3. ASSUME NEW v \in doomed'[p]
        PROVE  v \in DOMAIN created /\ v # 0 /\ v # version /\ Spare(v)'
    <3>1. v \in Oldest(DOMAIN created, keep) /\ v \notin Protected(DOMAIN created)
      BY <1>1, <2>1, <2>3
    <3>2. v \in DOMAIN created /\ v <= version - keep
      BY <1>1, <3>1, OldestAreSpare, RetentionAssumption
    <3>3. v # 0 /\ v # version
      BY <1>1, <3>1, <3>2, GreatestIsProtected DEF Protected
    <3> QED
      BY <1>2, <3>2, <3>3 DEF Spare
  <2>4. TypeOK'
    BY <1>1, <1>2, <2>1, <2>2, <2>3 DEF TypeOK
  <2>5. CallsOfPrune'
    BY <1>1, <1>2, <2>1, <2>2 DEF CallsOfPrune
  <2>6. OnlyARaceDoomsCurrent'
    BY <1>1, <1>2, <2>1, <2>2, <2>3 DEF OnlyARaceDoomsCurrent
  <2>7. CountsAreRight'
    BY <1>1, <1>2, <2>1, <2>2, <2>3 DEF CountsAreRight, Spare
  <2> QED
    BY <2>4, <2>5, <2>6, <2>7 DEF IInv
<1>4. CASE AgeList(p)
  <2>1. PICK instant \in Instants : before' = [before EXCEPT ![p] = instant]
    BY <1>4 DEF AgeList
  <2>2. /\ stored' = [stored EXCEPT ![p] = DOMAIN created] /\ doomed' = doomed
        /\ pc[p] = "idle" /\ pc' = [pc EXCEPT ![p] = "aging"]
    BY <1>4 DEF AgeList, Goto
  <2>3. doomed[p] = {}
    BY <1>1, <2>2 DEF CallsOfPrune
  <2>4. TypeOK'
    BY <1>1, <1>2, <2>1, <2>2 DEF TypeOK
  <2>5. CallsOfPrune'
    BY <1>1, <1>2, <2>1, <2>2 DEF CallsOfPrune
  <2>6. OnlyARaceDoomsCurrent'
    BY <1>1, <1>2, <2>2, <2>3 DEF OnlyARaceDoomsCurrent
  <2>7. CountsAreRight'
    BY <1>1, <1>2, <2>1, <2>2, <2>3 DEF CountsAreRight, Spare
  <2> QED
    BY <2>4, <2>5, <2>6, <2>7 DEF IInv
<1>5. CASE AgeSelect(p)
  <2> DEFINE found == {v \in DOMAIN created : created[v] < before[p]} \ Protected(stored[p])
  <2>1. pc[p] = "aging" /\ before[p] # NoInstant /\ stored[p] \subseteq 0..version
    BY <1>1, <1>5 DEF AgeSelect, Goto, CallsOfPrune
  <2>2. found \subseteq 0..version /\ 0 \notin found /\ (version \in found => version \notin stored[p])
    BY <1>1, <2>1, GreatestIsProtected DEF Protected
  <2>3. CASE found = {}
    <3>1. /\ pc' = [pc EXCEPT ![p] = "idle"] /\ EndPrune(p)
      BY <1>5, <2>3 DEF AgeSelect, Goto
    <3>2. TypeOK'
      BY <1>1, <1>2, <3>1 DEF TypeOK, EndPrune
    <3>3. CallsOfPrune' /\ OnlyARaceDoomsCurrent' /\ CountsAreRight'
      BY <1>1, <1>2, <3>1
         DEF EndPrune, CallsOfPrune, OnlyARaceDoomsCurrent, CountsAreRight, Spare
    <3> QED
      BY <3>2, <3>3 DEF IInv
  <2>4. CASE found # {}
    <3>1. /\ pc' = [pc EXCEPT ![p] = "deleting"] /\ doomed' = [doomed EXCEPT ![p] = found]
          /\ UNCHANGED <<stored, before>>
      BY <1>5, <2>4 DEF AgeSelect, Goto
    <3> HIDE DEF found
    <3>2. TypeOK'
      BY <1>1, <1>2, <2>2, <3>1 DEF TypeOK
    <3>3. CallsOfPrune'
      BY <1>1, <1>2, <2>1, <3>1 DEF CallsOfPrune
    <3>4. OnlyARaceDoomsCurrent'
      BY <1>1, <1>2, <2>2, <3>1 DEF OnlyARaceDoomsCurrent
    <3>5. CountsAreRight'
      BY <1>1, <1>2, <2>1, <3>1 DEF CountsAreRight, Spare
    <3> QED
      BY <3>2, <3>3, <3>4, <3>5 DEF IInv
  <2> QED
    BY <2>3, <2>4
<1> QED
  BY <1>3, <1>4, <1>5

\* A batch, and a call that ends in whatever it was doing.
LEMMA DeleteStep ==
    ASSUME IInv, NEW p \in Procs, DeleteBatch(p) \/ Abandon(p)
    PROVE  IInv'
<1>1. /\ TypeOK /\ CallsOfPrune /\ OnlyARaceDoomsCurrent /\ CountsAreRight
      /\ version \in Nat /\ DOMAIN created \subseteq 0..version
      /\ created \in [DOMAIN created -> 0..clock]
      /\ stored \in [Procs -> SUBSET Nat] /\ before \in [Procs -> Instants \cup {NoInstant}]
      /\ doomed \in [Procs -> SUBSET (0..version)]
      /\ pc \in [Procs -> {"idle", "syncing", "applying", "writing", "aging", "deleting"}]
  BY DEF IInv, TypeOK
<1>2. UNCHANGED <<clock, version>>
  BY DEF DeleteBatch, Abandon, rows
<1>3. CASE DeleteBatch(p)
  <2> DEFINE batch == Batch(doomed[p])
             rest == doomed[p] \ batch
  <2>1. /\ batch \subseteq doomed[p] /\ pc[p] = "deleting"
        /\ pc' = [pc EXCEPT ![p] = IF rest = {} THEN "idle" ELSE "deleting"]
        /\ created' = [v \in DOMAIN created \ batch |-> created[v]]
        /\ aged' = IF before[p] = NoInstant THEN aged ELSE aged \cup batch
        /\ UNCHANGED <<lock, started>>
    BY <1>3, BatchIsPart DEF DeleteBatch, Goto
  <2>2. /\ doomed' = [doomed EXCEPT ![p] = rest]
        /\ \/ UNCHANGED <<stored, before>>
           \/ /\ rest = {}
              /\ stored' = [stored EXCEPT ![p] = {}]
              /\ before' = [before EXCEPT ![p] = NoInstant]
    BY <1>3 DEF DeleteBatch, EndPrune
  <2>3. rest = {} => /\ stored' = [stored EXCEPT ![p] = {}]
                     /\ before' = [before EXCEPT ![p] = NoInstant]
    BY <1>3 DEF DeleteBatch, EndPrune
  <2> HIDE DEF batch
  <2>4. TypeOK'
    BY <1>1, <1>2, <2>1, <2>2 DEF TypeOK
  <2>5. CallsOfPrune'
    BY <1>1, <1>2, <2>1, <2>2, <2>3 DEF CallsOfPrune
  <2>6. OnlyARaceDoomsCurrent'
    BY <1>1, <1>2, <2>1, <2>2 DEF OnlyARaceDoomsCurrent
  <2>7. CountsAreRight'
    <3>1. ASSUME NEW q \in Procs, before'[q] = NoInstant, NEW v \in doomed'[q]
          PROVE  Spare(v)'
      <4>1. before[q] = NoInstant /\ v \in doomed[q]
        BY <1>1, <2>1, <2>2, <3>1
      <4> QED
        BY <1>1, <1>2, <4>1 DEF CountsAreRight, Spare
    <3>2. ASSUME NEW v \in 0..version', v \notin DOMAIN created' \cup aged'
          PROVE  Spare(v)'
      <4>1. \/ v \notin DOMAIN created \cup aged
            \/ v \in batch /\ before[p] = NoInstant
        BY <2>1, <3>2
      <4> QED
        BY <1>1, <1>2, <2>1, <3>2, <4>1 DEF CountsAreRight, Spare
    <3> QED
      BY <3>1, <3>2 DEF CountsAreRight
  <2> QED
    BY <2>4, <2>5, <2>6, <2>7 DEF IInv
<1>4. CASE Abandon(p)
  <2>1. /\ pc' = [pc EXCEPT ![p] = "idle"]
        /\ stored' = [stored EXCEPT ![p] = {}]
        /\ before' = [before EXCEPT ![p] = NoInstant]
        /\ doomed' = [doomed EXCEPT ![p] = {}]
        /\ UNCHANGED <<created, aged>>
    BY <1>4 DEF Abandon, EndPrune, rows
  <2>2. TypeOK'
    BY <1>1, <1>2, <1>4, <2>1 DEF TypeOK, Abandon
  <2>3. CallsOfPrune' /\ OnlyARaceDoomsCurrent' /\ CountsAreRight'
    BY <1>1, <1>2, <2>1 DEF CallsOfPrune, OnlyARaceDoomsCurrent, CountsAreRight, Spare
  <2> QED
    BY <2>2, <2>3 DEF IInv
<1> QED
  BY <1>3, <1>4

\* Every step keeps the invariant.
LEMMA NextInv == IInv /\ [Next]_vars => IInv'
<1> SUFFICES ASSUME IInv, [Next]_vars
             PROVE  IInv'
  OBVIOUS
<1>1. CASE UNCHANGED vars
  <2>1. TypeOK'
    BY <1>1 DEF IInv, TypeOK, vars
  <2> QED
    BY <1>1, <2>1, FrameStep DEF vars, prune
<1> QED
  BY <1>1, WriterStep, CommitStep, ListStep, DeleteStep DEF Next

---------------------------------------------------------------------------
(* The theorems.                                                           *)

\* The invariant holds throughout, whatever prunes run beside writers.
THEOREM Invariance == Spec => []IInv
BY InitInv, NextInv, PTL DEF Spec

\* Every variable of writers and prunes keeps its type: no snapshot is newer
\* than the current version, and none carries a time to come.
THEOREM TypeCorrect == Spec => []TypeOK
<1>1. IInv => TypeOK
  BY DEF IInv
<1> QED
  BY <1>1, Invariance, PTL

\* No prune lists version 0, and one lists the current version only if its
\* first query ran before that version was written.
THEOREM CurrentIsLost == Spec => []OnlyARaceDoomsCurrent
<1>1. IInv => OnlyARaceDoomsCurrent
  BY DEF IInv
<1> QED
  BY <1>1, Invariance, PTL

\* The newest versions keep their snapshots but for prunes by age, as many as
\* every --keep asks for, however many prunes and writers run.
THEOREM NewestStay == Spec => []NewestKept
<1>1. IInv => NewestKept
  <2> SUFFICES ASSUME IInv, NEW v \in 0..version,
                      \A keep \in Keeps : v > version - keep
               PROVE  v \in DOMAIN created \cup aged
    BY DEF NewestKept
  <2>1. v \in Nat /\ version \in Nat
    BY DEF IInv, TypeOK
  <2>2. ~Spare(v)
    BY <2>1, RetentionAssumption DEF Spare
  <2> QED
    BY <2>2 DEF IInv, CountsAreRight
<1> QED
  BY <1>1, Invariance, PTL

=============================================================================
