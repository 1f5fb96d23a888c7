-------------------------- MODULE PublishingProofs --------------------------
(***************************************************************************)
(* Proofs about Publishing, for any processes, publishers and transactions *)
(* and whatever raises or dies.                                            *)
(***************************************************************************)
EXTENDS Publishing, TLAPS

\* What a transaction will have committed, and what a process sends: the
\* versions after the current one, and committed ones.
SendsCommitted ==
    \A p \in Procs :
        /\ pc[p] = "writing" => \A i \in 1..Len(pending[p]) : pending[p][i] = version + i
        /\ pc[p] # "writing" => ToSet(pending[p]) \subseteq 1..version

\* The publisher whose row is to be saved was called, and took the snapshot
\* unless it raised.
RecordsCalls ==
    \A p \in Procs : pc[p] = "recording" =>
        /\ Sent(p) \in tried[Path(p)]
        /\ ~ failed[p] => Sent(p) \in received[Path(p)]

\* The inductive invariant.
IInv ==
    TypeOK /\ SendsCommitted /\ RecordsCalls /\ EverySnapshotTried /\ RecordedWasReceived

---------------------------------------------------------------------------
(* Sequences.                                                              *)

\* What appending one element makes of a sequence.
LEMMA Append1 ==
    ASSUME NEW S, NEW s \in Seq(S), NEW x \in S
    PROVE  /\ Append(s, x) \in Seq(S) /\ Append(s, x) # <<>>
           /\ ToSet(Append(s, x)) = ToSet(s) \cup {x}
  <1> DEFINE n == Len(s)
             t == Append(s, x)
  <1>1. /\ t \in Seq(S) /\ n \in Nat /\ Len(t) = n + 1 /\ t[n + 1] = x
        /\ \A i \in 1..n : t[i] = s[i]
    OBVIOUS
  <1>2. DOMAIN s = 1..n /\ DOMAIN t = 1..n + 1
    BY <1>1
  <1>3. t # <<>>
    BY <1>1
  <1> HIDE DEF n, t
  <1>4. ToSet(t) \subseteq ToSet(s) \cup {x}
    BY <1>1, <1>2 DEF ToSet
  <1>5. ToSet(s) \cup {x} \subseteq ToSet(t)
    BY <1>1, <1>2 DEF ToSet
  <1> QED
    BY <1>1, <1>3, <1>4, <1>5 DEF t

\* A sequence that is not empty is its head and its tail.
LEMMA HeadAndTail ==
    ASSUME NEW S, NEW s \in Seq(S), s # <<>>
    PROVE  /\ Head(s) \in S /\ Tail(s) \in Seq(S)
           /\ Len(s) \in Nat /\ Len(s) > 0
           /\ ToSet(s) = {Head(s)} \cup ToSet(Tail(s))
           /\ Len(s) > 1 <=> Tail(s) # <<>>
  <1>1. /\ Head(s) \in S /\ Tail(s) \in Seq(S) /\ Len(s) \in Nat /\ Len(s) > 0
        /\ Head(s) = s[1] /\ Len(Tail(s)) = Len(s) - 1
        /\ \A i \in 1..Len(s) - 1 : Tail(s)[i] = s[i + 1]
    OBVIOUS
  <1>2. DOMAIN s = 1..Len(s) /\ DOMAIN Tail(s) = 1..Len(s) - 1
    BY <1>1
  <1>3. ToSet(s) \subseteq {Head(s)} \cup ToSet(Tail(s))
    <2> SUFFICES ASSUME NEW i \in 1..Len(s)
                 PROVE  s[i] \in {Head(s)} \cup ToSet(Tail(s))
      BY <1>2 DEF ToSet
    <2>1. i = 1 \/ (i - 1 \in 1..Len(s) - 1 /\ s[i] = Tail(s)[i - 1])
      BY <1>1
    <2> QED
      BY <1>1, <1>2, <2>1 DEF ToSet
  <1>4. {Head(s)} \cup ToSet(Tail(s)) \subseteq ToSet(s)
    BY <1>1, <1>2 DEF ToSet
  <1>5. Len(s) > 1 <=> Tail(s) # <<>>
    BY <1>1
  <1>6. ToSet(s) = {Head(s)} \cup ToSet(Tail(s))
    BY <1>3, <1>4
  <1> QED
    BY <1>1, <1>5, <1>6

\* Nothing is in the empty sequence.
LEMMA NoneInEmpty == ToSet(<<>>) = {}
  BY DEF ToSet

\* The elements of a sequence, and its length.
LEMMA SetOfSeq ==
    ASSUME NEW S, NEW s \in Seq(S)
    PROVE  ToSet(s) \subseteq S /\ Len(s) \in Nat /\ (Len(s) = 0 <=> s = <<>>)
  BY DEF ToSet

---------------------------------------------------------------------------
(* One process.                                                            *)

\* What a process that sends has in its hands.
LEMMA Sending ==
    ASSUME TypeOK, SendsCommitted, NEW p \in Procs,
           pc[p] \in {"signalling", "sending", "recording"}
    PROVE  /\ pending[p] \in Seq(1..MaxVersion) /\ pending[p] # <<>>
           /\ Sent(p) \in 1..version
           /\ ToSet(pending[p]) = {Sent(p)} \cup ToSet(Tail(pending[p]))
           /\ pc[p] # "signalling" =>
                /\ todo[p] \in Seq(Paths) /\ todo[p] # <<>>
                /\ Path(p) \in Paths
                /\ ToSet(todo[p]) = {Path(p)} \cup ToSet(Tail(todo[p]))
  <1>1. pending[p] \in Seq(1..MaxVersion) /\ pending[p] # <<>>
    BY DEF TypeOK
  <1>2. ToSet(pending[p]) = {Sent(p)} \cup ToSet(Tail(pending[p]))
    BY <1>1, HeadAndTail DEF Sent
  <1>3. ToSet(pending[p]) \subseteq 1..version
    BY DEF SendsCommitted
  <1>4. ASSUME pc[p] # "signalling"
        PROVE  todo[p] \in Seq(Paths) /\ todo[p] # <<>>
    BY <1>4 DEF TypeOK
  <1>5. ASSUME pc[p] # "signalling"
        PROVE  Path(p) \in Paths /\ ToSet(todo[p]) = {Path(p)} \cup ToSet(Tail(todo[p]))
    BY <1>4, <1>5, HeadAndTail DEF Path
  <1> QED
    BY <1>1, <1>2, <1>3, <1>4, <1>5

\* One process still has to send a version to a publisher.
Owes(p, path, v) ==
    /\ v \in ToSet(pending[p])
    /\ \/ pc[p] = "signalling"
       \/ v # Sent(p)
       \/ path \in ToSet(todo[p])

\* The step of one process that commits nothing keeps every snapshot accounted
\* for if it accounts for those that the process owes.
LEMMA OneSends ==
    ASSUME EverySnapshotTried, NEW p \in Procs,
           UNCHANGED version,
           lost \subseteq lost', \A path \in Paths : tried[path] \subseteq tried'[path],
           \A q \in Procs \ {p} : UNCHANGED <<pc[q], pending[q], todo[q]>>,
           \A path \in Paths, v \in 1..version :
              Owes(p, path, v) => Owes(p, path, v)' \/ v \in tried'[path] \cup lost'
    PROVE  EverySnapshotTried'
  <1> SUFFICES ASSUME NEW path \in Paths, NEW v \in 1..version,
                      v \notin tried'[path] \cup lost'
               PROVE  StillToSend(path, v)'
    BY DEF EverySnapshotTried
  <1>1. PICK q \in Procs : Owes(q, path, v)
    BY DEF EverySnapshotTried, StillToSend, Owes
  <1>2. Owes(q, path, v)'
    <2>1. CASE q = p
      BY <1>1, <2>1
    <2>2. CASE q # p
      <3>1. pc'[q] = pc[q] /\ pending'[q] = pending[q] /\ todo'[q] = todo[q]
        BY <2>2
      <3> QED
        BY <1>1, <3>1 DEF Owes, Sent
    <2> QED
      BY <2>1, <2>2
  <1> QED
    BY <1>2 DEF StillToSend, Owes

\* Nothing committed is waiting in a transaction.
LEMMA WritersOwe ==
    ASSUME TypeOK, SendsCommitted, NEW p \in Procs, pc[p] = "writing",
           NEW v \in 1..version
    PROVE  v \notin ToSet(pending[p])
  <1>1. pending[p] \in Seq(1..MaxVersion) /\ version \in Nat
    BY PublishingAssumption DEF TypeOK
  <1>2. \A i \in DOMAIN pending[p] : pending[p][i] = version + i /\ i \in Nat \ {0}
    BY <1>1 DEF SendsCommitted
  <1> QED
    BY <1>1, <1>2 DEF ToSet

---------------------------------------------------------------------------
(* The transaction.                                                        *)

\* At first nothing is written, sent or recorded.
LEMMA InitInv == Init => IInv
  <1> SUFFICES ASSUME Init PROVE IInv
    OBVIOUS
  <1>1. TypeOK
    BY PublishingAssumption DEF Init, TypeOK, Recorded
  <1>2. SendsCommitted
    BY NoneInEmpty DEF Init, SendsCommitted
  <1>3. RecordsCalls /\ EverySnapshotTried /\ RecordedWasReceived
    BY DEF Init, RecordsCalls, EverySnapshotTried, RecordedWasReceived
  <1> QED
    BY <1>1, <1>2, <1>3 DEF IInv

\* A transaction that begins keeps the invariant.
LEMMA BeginStep ==
    ASSUME IInv, NEW p \in Procs, Begin(p) PROVE IInv'
  <1> USE PublishingAssumption DEF Begin, outside, state, IInv
  <1>1. TypeOK'
    BY DEF TypeOK, Recorded
  <1>2. pending[p] = <<>>
    BY DEF TypeOK
  <1>3. SendsCommitted'
    BY <1>2 DEF SendsCommitted, TypeOK
  <1>4. RecordsCalls'
    BY DEF RecordsCalls, Sent, Path, TypeOK
  <1>5. EverySnapshotTried'
    <2>1. \A path, v : ~ Owes(p, path, v)
      BY <1>2, NoneInEmpty DEF Owes
    <2> QED
      BY <2>1, OneSends DEF TypeOK
  <1>6. RecordedWasReceived'
    BY DEF RecordedWasReceived
  <1> QED
    BY <1>1, <1>3, <1>4, <1>5, <1>6

\* A snapshot that is written before the commit keeps it.
LEMMA WriteStep ==
    ASSUME IInv, NEW p \in Procs, WriteSnapshot(p) PROVE IInv'
  <1> USE PublishingAssumption DEF WriteSnapshot, outside, state, store, IInv
  <1>1. /\ pending[p] \in Seq(1..MaxVersion) /\ Unsent(p) \in Nat /\ version \in Nat
        /\ version + Unsent(p) + 1 \in 1..MaxVersion
    BY DEF TypeOK, Unsent
  <1>2. /\ pending'[p] \in Seq(1..MaxVersion) /\ pending'[p] # <<>>
        /\ \A q \in Procs \ {p} : pending'[q] = pending[q]
    <2> DEFINE x == version + Unsent(p) + 1
    <2>1. pending'[p] = Append(pending[p], x) /\ \A q \in Procs \ {p} : pending'[q] = pending[q]
      BY DEF TypeOK
    <2>2. x \in 1..MaxVersion
      BY <1>1
    <2> HIDE DEF x
    <2>3. Append(pending[p], x) \in Seq(1..MaxVersion) /\ Append(pending[p], x) # <<>>
      BY <1>1, <2>2, Append1
    <2> QED
      BY <2>1, <2>3
  <1>3. TypeOK'
    <2>1. pending' \in [Procs -> Seq(1..MaxVersion)]
      BY <1>2 DEF TypeOK
    <2>2. \A q \in Procs : pc'[q] = "idle" <=> pending'[q] = <<>> /\ lock' # q
      BY <1>2 DEF TypeOK
    <2> QED
      BY <2>1, <2>2 DEF TypeOK, Recorded
  <1>4. SendsCommitted'
    <2>1. \A i \in 1..Len(pending'[p]) : pending'[p][i] = version + i
      BY <1>1 DEF SendsCommitted, Unsent, TypeOK
    <2> QED
      BY <1>2, <2>1 DEF SendsCommitted
  <1>5. RecordsCalls'
    BY <1>2 DEF RecordsCalls, Sent, Path
  <1>6. EverySnapshotTried'
    <2>1. \A path \in Paths, v \in 1..version : ~ Owes(p, path, v)
      BY WritersOwe DEF Owes
    <2> QED
      BY <1>2, <2>1, OneSends DEF TypeOK
  <1>7. RecordedWasReceived'
    BY DEF RecordedWasReceived
  <1> QED
    BY <1>3, <1>4, <1>5, <1>6, <1>7

\* So does a commit, which hands every snapshot it wrote to on_commit.
LEMMA CommitStep ==
    ASSUME IInv, NEW p \in Procs, Commit(p) PROVE IInv'
  <1> USE PublishingAssumption DEF Commit, outside, state, IInv
  <1> DEFINE n == Unsent(p)
  <1>1. /\ pending[p] \in Seq(1..MaxVersion) /\ n \in Nat \ {0} /\ version \in Nat
        /\ DOMAIN pending[p] = 1..n
        /\ version' = version + n
    BY DEF TypeOK, Unsent
  <1>2. \A i \in 1..n : pending[p][i] = version + i
    BY DEF SendsCommitted, Unsent
  <1>3. version' \in 0..MaxVersion /\ version' \in Nat /\ version \in 0..version'
    <2>1. n \in 1..n
      BY <1>1
    <2>2. pending[p][n] \in 1..MaxVersion /\ pending[p][n] = version + n
      BY <1>1, <1>2, <2>1
    <2> QED
      BY <1>1, <2>2
  <1> HIDE DEF n
  <1>4. \A q \in Procs \ {p} : pc[q] # "writing" /\ pc'[q] = pc[q]
    BY DEF TypeOK
  <1>5. TypeOK'
    <2>1. \A path \in Paths : held[path] \in Recorded' /\ last[path] \in Recorded'
      BY <1>1, <1>3 DEF TypeOK, Recorded
    <2>2. lost \subseteq 1..version'
      BY <1>1, <1>3 DEF TypeOK
    <2>3. pc' \in [Procs -> {"idle", "writing", "signalling", "sending", "recording"}]
      BY DEF TypeOK
    <2>4. \A q \in Procs : /\ (pc'[q] = "writing") <=> (lock' = q)
                           /\ pc'[q] \in {"sending", "recording"} <=> todo'[q] # <<>>
                           /\ pc'[q] = "idle" <=> pending'[q] = <<>> /\ lock' # q
      <3> SUFFICES ASSUME NEW q \in Procs
                   PROVE  /\ (pc'[q] = "writing") <=> (lock' = q)
                          /\ pc'[q] \in {"sending", "recording"} <=> todo'[q] # <<>>
                          /\ pc'[q] = "idle" <=> pending'[q] = <<>> /\ lock' # q
        OBVIOUS
      <3>1. /\ (pc[q] = "writing") <=> (lock = q)
            /\ pc[q] \in {"sending", "recording"} <=> todo[q] # <<>>
            /\ pc[q] = "idle" <=> pending[q] = <<>> /\ lock # q
        BY DEF TypeOK
      <3>2. lock' # q
        BY DEF TypeOK
      <3>3. CASE q = p
        <4>1. pc'[q] = "signalling" /\ pending[q] # <<>>
          BY <1>1, <3>3 DEF TypeOK, Unsent
        <4> QED
          BY <3>1, <3>2, <3>3, <4>1
      <3>4. CASE q # p
        <4>1. pc'[q] = pc[q] /\ pc[q] # "writing"
          BY <1>4, <3>4
        <4>2. todo'[q] = todo[q] /\ pending'[q] = pending[q]
          OBVIOUS
        <4> QED
          BY <3>1, <3>2, <4>1, <4>2
      <3> QED
        BY <3>3, <3>4
    <2> QED
      BY <1>3, <2>1, <2>2, <2>3, <2>4 DEF TypeOK
  <1>6. ToSet(pending[p]) = version + 1 .. version'
    <2> HIDE DEF Commit, outside, state, IInv
    <2>1. ToSet(pending[p]) \subseteq version + 1 .. version'
      <3>1. \A i \in 1..n : pending[p][i] \in version + 1 .. version'
        BY <1>1, <1>2
      <3> QED
        BY <1>1, <3>1 DEF ToSet
    <2>2. ASSUME NEW v \in version + 1 .. version' PROVE v \in ToSet(pending[p])
      <3>1. v - version \in 1..n /\ version + (v - version) = v
        BY <1>1
      <3>2. pending[p][v - version] = v
        BY <1>2, <3>1
      <3> QED
        BY <1>1, <3>1, <3>2 DEF ToSet
    <2> QED
      BY <2>1, <2>2
  <1>7. SendsCommitted'
    <2> SUFFICES ASSUME NEW q \in Procs
                 PROVE  pc'[q] # "writing" /\ ToSet(pending[q]) \subseteq 1..version'
      BY DEF SendsCommitted
    <2>1. CASE q = p
      <3>1. pc'[q] = "signalling"
        BY <2>1 DEF TypeOK
      <3>2. version + 1 .. version' \subseteq 1..version'
        BY <1>1
      <3> QED
        BY <1>6, <2>1, <3>1, <3>2
    <2>2. CASE q # p
      <3>1. ToSet(pending[q]) \subseteq 1..version
        BY <1>4, <2>2 DEF SendsCommitted
      <3>2. 1..version \subseteq 1..version'
        BY <1>1, <1>3
      <3> QED
        BY <1>4, <2>2, <3>1, <3>2
    <2> QED
      BY <2>1, <2>2
  <1>8. RecordsCalls'
    BY <1>4 DEF RecordsCalls, Sent, Path, TypeOK
  <1>9. EverySnapshotTried'
    <2> SUFFICES ASSUME NEW path \in Paths, NEW v \in 1..version',
                        v \notin tried[path] \cup lost
                 PROVE  StillToSend(path, v)'
      BY DEF EverySnapshotTried
    <2>1. CASE v \in 1..version
      <3>1. PICK q \in Procs : Owes(q, path, v)
        BY <2>1 DEF EverySnapshotTried, StillToSend, Owes
      <3>2. q # p
        BY <2>1, <3>1, WritersOwe DEF Owes
      <3> QED
        BY <1>4, <3>1, <3>2 DEF StillToSend, Owes, Sent
    <2>2. CASE v \notin 1..version
      <3>1. v \in ToSet(pending[p])
        BY <1>1, <1>6, <2>2
      <3>2. pc'[p] = "signalling"
        BY DEF TypeOK
      <3> QED
        BY <3>1, <3>2 DEF StillToSend
    <2> QED
      BY <2>1, <2>2
  <1>10. RecordedWasReceived'
    BY <1>1, <1>3 DEF RecordedWasReceived
  <1> QED
    BY <1>5, <1>7, <1>8, <1>9, <1>10

\* A call that ends has nothing left to send.
LEMMA EndStep ==
    ASSUME IInv, NEW p \in Procs, pc[p] # "idle", End(p),
           UNCHANGED <<version, outside, state>>,
           lost' \subseteq 1..version,
           lost \cup (ToSet(pending[p]) \cap 1..version) \subseteq lost'
    PROVE  IInv'
  <1> USE PublishingAssumption DEF End, outside, state, IInv
  <1>1. \A q \in Procs \ {p} : /\ pc'[q] = pc[q] /\ pending'[q] = pending[q]
                               /\ todo'[q] = todo[q] /\ failed'[q] = failed[q]
    BY DEF TypeOK
  <1>2. pc'[p] = "idle" /\ pending'[p] = <<>> /\ todo'[p] = <<>>
    BY DEF TypeOK
  <1>3. \A q \in Procs \ {p} : lock' = q <=> lock = q
    BY DEF TypeOK
  <1>4. lock' # p /\ lock' \in Procs \cup {Free}
    BY DEF TypeOK
  <1>5. TypeOK'
    <2>1. \A q \in Procs : /\ (pc'[q] = "writing") <=> (lock' = q)
                           /\ pc'[q] \in {"sending", "recording"} <=> todo'[q] # <<>>
                           /\ pc'[q] = "idle" <=> pending'[q] = <<>> /\ lock' # q
      <3> SUFFICES ASSUME NEW q \in Procs
                   PROVE  /\ (pc'[q] = "writing") <=> (lock' = q)
                          /\ pc'[q] \in {"sending", "recording"} <=> todo'[q] # <<>>
                          /\ pc'[q] = "idle" <=> pending'[q] = <<>> /\ lock' # q
        OBVIOUS
      <3>1. /\ (pc[q] = "writing") <=> (lock = q)
            /\ pc[q] \in {"sending", "recording"} <=> todo[q] # <<>>
            /\ pc[q] = "idle" <=> pending[q] = <<>> /\ lock # q
        BY DEF TypeOK
      <3>2. CASE q = p
        BY <1>2, <1>4, <3>2
      <3>3. CASE q # p
        <4>1. /\ pc'[q] = pc[q] /\ pending'[q] = pending[q] /\ todo'[q] = todo[q]
              /\ lock' = q <=> lock = q
          BY <1>1, <1>3, <3>3
        <4> QED
          BY <3>1, <4>1
      <3> QED
        BY <3>2, <3>3
    <2>2. /\ pc' \in [Procs -> {"idle", "writing", "signalling", "sending", "recording"}]
          /\ failed' \in [Procs -> BOOLEAN]
      BY DEF TypeOK
    <2>3. pending' \in [Procs -> Seq(1..MaxVersion)] /\ todo' \in [Procs -> Seq(Paths)]
      BY DEF TypeOK
    <2> QED
      BY <1>4, <2>1, <2>2, <2>3 DEF TypeOK, Recorded
  <1>6. SendsCommitted'
    BY <1>1, <1>2, NoneInEmpty DEF SendsCommitted
  <1>7. RecordsCalls'
    BY <1>1, <1>2 DEF RecordsCalls, Sent, Path
  <1>8. EverySnapshotTried'
    <2>1. \A path \in Paths, v \in 1..version : Owes(p, path, v) => v \in lost'
      BY DEF Owes
    <2> QED
      BY <1>1, <2>1, OneSends
  <1>9. RecordedWasReceived'
    BY DEF RecordedWasReceived
  <1> QED
    BY <1>5, <1>6, <1>7, <1>8, <1>9

\* Whatever ends a call, it accounts for what is committed and unsent.
LEMMA EndSteps ==
    ASSUME IInv, NEW p \in Procs, Rollback(p) \/ ReceiverRaises(p) \/ Crash(p)
    PROVE  IInv'
  <1> USE DEF IInv, outside, state
  <1>1. lost \subseteq 1..version
    BY DEF TypeOK
  <1>2. CASE Rollback(p)
    <2>1. ToSet(pending[p]) \cap 1..version = {}
      BY <1>2, WritersOwe DEF Rollback
    <2> QED
      BY <1>1, <1>2, <2>1, EndStep DEF Rollback
  <1>3. CASE ReceiverRaises(p)
    <2>1. ToSet(pending[p]) \subseteq 1..version
      BY <1>3 DEF ReceiverRaises, SendsCommitted
    <2> QED
      BY <1>1, <1>3, <2>1, EndStep DEF ReceiverRaises
  <1>4. CASE Crash(p)
    BY <1>1, <1>4, EndStep DEF Crash
  <1> QED
    BY <1>2, <1>3, <1>4

---------------------------------------------------------------------------
(* Sending.                                                                *)

\* A process goes on with a call outside its transaction: the types of what it
\* keeps, and what it may send, are all that is to be shown of the call.
LEMMA CallStep ==
    ASSUME IInv, NEW p \in Procs, UNCHANGED <<store, lost>>,
           pc[p] # "writing",
           pc' \in [Procs -> {"idle", "writing", "signalling", "sending", "recording"}],
           pending' \in [Procs -> Seq(1..MaxVersion)],
           todo' \in [Procs -> Seq(Paths)],
           failed' \in [Procs -> BOOLEAN],
           \A q \in Procs \ {p} : UNCHANGED <<pc[q], pending[q], todo[q], failed[q]>>,
           pc'[p] # "writing",
           pc'[p] \in {"sending", "recording"} <=> todo'[p] # <<>>,
           pc'[p] = "idle" <=> pending'[p] = <<>>,
           ToSet(pending'[p]) \subseteq 1..version,
           received' \in [Paths -> SUBSET (1..MaxVersion)],
           tried' \in [Paths -> SUBSET (1..MaxVersion)],
           held' \in [Paths -> Recorded],
           last' \in [Paths -> Recorded],
           error' \in [Paths -> BOOLEAN],
           \A path \in Paths : tried[path] \subseteq tried'[path],
           \A path \in Paths : received[path] \subseteq received'[path],
           pc'[p] = "recording" =>
              /\ Sent(p)' \in tried'[Path(p)']
              /\ ~ failed'[p] => Sent(p)' \in received'[Path(p)'],
           \A path \in Paths, v \in 1..version :
              Owes(p, path, v) => Owes(p, path, v)' \/ v \in tried'[path] \cup lost',
           \A path \in Paths :
              received'[path] \subseteq 1..version /\ last'[path] \in received'[path] \cup {None}
    PROVE  IInv'
  <1> USE DEF IInv, store
  <1>1. lock # p /\ lock' # p
    BY DEF TypeOK
  <1>2. \A q \in Procs \ {p} : /\ pc'[q] = pc[q] /\ pending'[q] = pending[q]
                               /\ todo'[q] = todo[q] /\ failed'[q] = failed[q]
    OBVIOUS
  <1>3. TypeOK'
    <2>1. \A q \in Procs : /\ (pc'[q] = "writing") <=> (lock' = q)
                           /\ pc'[q] \in {"sending", "recording"} <=> todo'[q] # <<>>
                           /\ pc'[q] = "idle" <=> pending'[q] = <<>> /\ lock' # q
      BY <1>1, <1>2 DEF TypeOK
    <2>2. Recorded' = Recorded
      BY DEF Recorded
    <2> QED
      BY <2>1, <2>2 DEF TypeOK
  <1>4. SendsCommitted'
    <2> SUFFICES ASSUME NEW q \in Procs
                 PROVE  /\ pc'[q] = "writing" =>
                             \A i \in 1..Len(pending'[q]) : pending'[q][i] = version + i
                        /\ pc'[q] # "writing" => ToSet(pending'[q]) \subseteq 1..version
      BY DEF SendsCommitted
    <2>1. CASE q = p
      BY <2>1
    <2>2. CASE q # p
      <3>1. pc'[q] = pc[q] /\ pending'[q] = pending[q]
        BY <1>2, <2>2
      <3> QED
        BY <3>1 DEF SendsCommitted
    <2> QED
      BY <2>1, <2>2
  <1>5. RecordsCalls'
    <2> SUFFICES ASSUME NEW q \in Procs, pc'[q] = "recording"
                 PROVE  /\ Sent(q)' \in tried'[Path(q)']
                        /\ ~ failed'[q] => Sent(q)' \in received'[Path(q)']
      BY DEF RecordsCalls
    <2>1. CASE q = p
      BY <2>1
    <2>2. CASE q # p
      <3>1. Sent(q)' = Sent(q) /\ Path(q)' = Path(q) /\ pc[q] = "recording"
        BY <1>2, <2>2 DEF Sent, Path
      <3>2. Path(q) \in Paths
        BY <3>1, Sending
      <3>3. Sent(q) \in tried[Path(q)] /\ (~ failed[q] => Sent(q) \in received[Path(q)])
        BY <3>1 DEF RecordsCalls
      <3> QED
        BY <1>2, <2>2, <3>1, <3>2, <3>3
    <2> QED
      BY <2>1, <2>2
  <1>6. EverySnapshotTried'
    BY <1>2, OneSends
  <1>7. RecordedWasReceived'
    BY DEF RecordedWasReceived
  <1> QED
    BY <1>3, <1>4, <1>5, <1>6, <1>7

\* So does a signal whose receivers raise nothing: the publishers come next.
LEMMA SignalStep ==
    ASSUME IInv, NEW p \in Procs, Signal(p) PROVE IInv'
  <1> USE PublishingAssumption DEF Signal, store, outside, state, IInv
  <1>1. /\ pc'[p] = "sending" /\ todo'[p] = Publishers /\ pc[p] = "signalling"
        /\ \A q \in Procs \ {p} : pc'[q] = pc[q] /\ todo'[q] = todo[q]
        /\ todo' \in [Procs -> Seq(Paths)]
        /\ pc' \in [Procs -> {"idle", "writing", "signalling", "sending", "recording"}]
    BY DEF TypeOK
  <1>2. pending[p] # <<>> /\ ToSet(pending[p]) \subseteq 1..version
    BY <1>1 DEF TypeOK, SendsCommitted
  <1>3. \A path \in Paths, v \in 1..version : Owes(p, path, v) => Owes(p, path, v)'
    BY <1>1 DEF Owes, Sent, Paths
  <1>4. \A path \in Paths :
            received[path] \subseteq 1..version /\ last[path] \in received[path] \cup {None}
    BY DEF RecordedWasReceived
  <1>5. /\ pending \in [Procs -> Seq(1..MaxVersion)] /\ failed \in [Procs -> BOOLEAN]
        /\ received \in [Paths -> SUBSET (1..MaxVersion)]
        /\ tried \in [Paths -> SUBSET (1..MaxVersion)]
        /\ held \in [Paths -> Recorded] /\ last \in [Paths -> Recorded]
        /\ error \in [Paths -> BOOLEAN]
    BY DEF TypeOK
  <1> QED
    BY <1>1, <1>2, <1>3, <1>4, <1>5, CallStep

\* The publisher takes the snapshot or raises.
LEMMA DeliverStep ==
    ASSUME IInv, NEW p \in Procs, Deliver(p) \/ PublisherRaises(p) PROVE IInv'
  <1> USE PublishingAssumption DEF Deliver, PublisherRaises, store, outside, state, IInv
  <1> DEFINE path0 == Path(p)
             v0 == Sent(p)
  <1>1. /\ pc'[p] = "recording" /\ pc[p] = "sending"
        /\ \A q \in Procs \ {p} : pc'[q] = pc[q] /\ failed'[q] = failed[q]
        /\ pc' \in [Procs -> {"idle", "writing", "signalling", "sending", "recording"}]
        /\ failed' \in [Procs -> BOOLEAN]
        /\ UNCHANGED <<store, lost, pending, todo, last, error>>
    BY DEF TypeOK
  <1>2. /\ pending[p] # <<>> /\ ToSet(pending[p]) \subseteq 1..version /\ todo[p] # <<>>
        /\ path0 \in Paths /\ v0 \in 1..version
    BY <1>1, Sending DEF TypeOK, SendsCommitted
  <1>3. v0 \in 1..MaxVersion /\ v0 \in Recorded
    BY <1>2 DEF TypeOK, Recorded
  <1>4. Path(p)' = path0 /\ Sent(p)' = v0
    BY <1>1 DEF Path, Sent
  <1>5. tried' = Add(tried, path0, v0)
    OBVIOUS
  <1>6. \/ failed'[p] = TRUE /\ received' = received /\ held' = held
        \/ received' = Add(received, path0, v0) /\ held' = [held EXCEPT ![path0] = v0]
    BY DEF TypeOK
  <1> HIDE DEF path0, v0, Deliver, PublisherRaises
  <1>7. /\ tried' \in [Paths -> SUBSET (1..MaxVersion)] /\ v0 \in tried'[path0]
        /\ \A path \in Paths : tried[path] \subseteq tried'[path]
    BY <1>2, <1>3, <1>5 DEF TypeOK, Add
  <1>8. /\ received' \in [Paths -> SUBSET (1..MaxVersion)]
        /\ held' \in [Paths -> Recorded]
        /\ \A path \in Paths : received[path] \subseteq received'[path]
        /\ ~ failed'[p] => v0 \in received'[path0]
    <2>1. CASE failed'[p] = TRUE /\ received' = received /\ held' = held
      BY <2>1 DEF TypeOK
    <2>2. CASE received' = Add(received, path0, v0) /\ held' = [held EXCEPT ![path0] = v0]
      BY <1>2, <1>3, <2>2 DEF TypeOK, Add
    <2> QED
      BY <1>6, <2>1, <2>2
  <1>9. \A path \in Paths :
            received'[path] \subseteq 1..version /\ last[path] \in received'[path] \cup {None}
    <2>1. CASE received' = received
      BY <2>1 DEF RecordedWasReceived
    <2>2. CASE received' = Add(received, path0, v0)
      <3>1. received \in [Paths -> SUBSET (1..MaxVersion)]
        BY DEF TypeOK
      <3>2. \A path \in Paths : received'[path] \in {received[path], received[path] \cup {v0}}
        BY <2>2, <3>1 DEF Add
      <3> QED
        BY <1>2, <3>2 DEF RecordedWasReceived
    <2> QED
      BY <1>6, <2>1, <2>2
  <1>10. \A path \in Paths, v \in 1..version : Owes(p, path, v) => Owes(p, path, v)'
    BY <1>1 DEF Owes, Sent
  <1>11. /\ pending \in [Procs -> Seq(1..MaxVersion)] /\ todo \in [Procs -> Seq(Paths)]
         /\ last \in [Paths -> Recorded] /\ error \in [Paths -> BOOLEAN]
    BY DEF TypeOK
  <1> QED
    BY <1>1, <1>2, <1>4, <1>7, <1>8, <1>9, <1>10, <1>11, CallStep

\* So does sending a snapshot again by hand.
LEMMA SendStep ==
    ASSUME IInv, NEW p \in Procs, Republish(p) PROVE IInv'
  <1> USE PublishingAssumption DEF store, outside, state, IInv
  <1>1. PICK v \in 1..version, targets \in Seq(Paths) \ {<<>>} : Send(p, v, targets)
    <2>1. PICK v \in 1..version, path \in Paths :
             Send(p, v, Publishers) \/ Send(p, v, <<path>>)
      BY DEF Republish
    <2>2. <<path>> \in Seq(Paths) \ {<<>>}
      OBVIOUS
    <2> QED
      BY <2>1, <2>2
  <1> USE DEF Send
  <1>2. /\ pc'[p] = "sending" /\ pc[p] = "idle" /\ pending'[p] = <<v>> /\ todo'[p] = targets
        /\ \A q \in Procs \ {p} :
              pc'[q] = pc[q] /\ pending'[q] = pending[q] /\ todo'[q] = todo[q]
        /\ pc' \in [Procs -> {"idle", "writing", "signalling", "sending", "recording"}]
        /\ todo' \in [Procs -> Seq(Paths)]
        /\ UNCHANGED <<store, failed, outside, state, lost>>
    BY <1>1 DEF TypeOK, Republish
  <1>3. v \in 1..MaxVersion
    BY DEF TypeOK
  <1>4. pending' \in [Procs -> Seq(1..MaxVersion)]
    BY <1>1, <1>3 DEF TypeOK
  <1>5. ToSet(pending'[p]) \subseteq 1..version /\ pending'[p] # <<>>
    BY <1>2 DEF ToSet
  <1>6. \A path \in Paths, w \in 1..version : ~ Owes(p, path, w)
    BY <1>2, NoneInEmpty DEF TypeOK, Owes
  <1>7. \A path \in Paths :
            received[path] \subseteq 1..version /\ last[path] \in received[path] \cup {None}
    BY DEF RecordedWasReceived
  <1>8. /\ failed \in [Procs -> BOOLEAN]
        /\ received \in [Paths -> SUBSET (1..MaxVersion)]
        /\ tried \in [Paths -> SUBSET (1..MaxVersion)]
        /\ held \in [Paths -> Recorded] /\ last \in [Paths -> Recorded]
        /\ error \in [Paths -> BOOLEAN]
    BY DEF TypeOK
  <1> QED
    BY <1>2, <1>4, <1>5, <1>6, <1>7, <1>8, CallStep

\* Saving the row: it names the snapshot only if the publisher took it.
LEMMA SaveStep ==
    ASSUME IInv, NEW p \in Procs, pc[p] = "recording", SaveState(p)
    PROVE  /\ last' \in [Paths -> Recorded] /\ error' \in [Paths -> BOOLEAN]
           /\ \A path \in Paths :
                received[path] \subseteq 1..version /\ last'[path] \in received[path] \cup {None}
  <1> USE DEF IInv
  <1> DEFINE path0 == Path(p)
             v0 == Sent(p)
  <1>1. path0 \in Paths /\ v0 \in 1..version
    BY Sending
  <1>2. ~ failed[p] => v0 \in received[path0]
    BY DEF RecordsCalls
  <1>3. /\ last \in [Paths -> Recorded] /\ error \in [Paths -> BOOLEAN]
        /\ v0 \in Recorded
        /\ \A path \in Paths :
            received[path] \subseteq 1..version /\ last[path] \in received[path] \cup {None}
    BY <1>1 DEF TypeOK, Recorded, RecordedWasReceived
  <1>4. \/ UNCHANGED last /\ error' = [error EXCEPT ![path0] = TRUE]
        \/ /\ ~ failed[p] /\ last' = [last EXCEPT ![path0] = v0]
           /\ error' = [error EXCEPT ![path0] = FALSE]
    BY DEF SaveState
  <1> HIDE DEF path0, v0, IInv
  <1>5. CASE UNCHANGED last /\ error' = [error EXCEPT ![path0] = TRUE]
    BY <1>1, <1>3, <1>5
  <1>6. CASE /\ ~ failed[p] /\ last' = [last EXCEPT ![path0] = v0]
             /\ error' = [error EXCEPT ![path0] = FALSE]
    BY <1>1, <1>2, <1>3, <1>6
  <1> QED
    BY <1>4, <1>5, <1>6

\* So does recording what a publisher answered.
LEMMA RecordStep ==
    ASSUME IInv, NEW p \in Procs, Record(p) PROVE IInv'
  <1> USE PublishingAssumption DEF IInv, store, outside
  <1>1. pc[p] = "recording" /\ SaveState(p) /\ UNCHANGED <<store, outside, lost>>
    BY DEF Record
  <1>2. /\ failed' \in [Procs -> BOOLEAN]
        /\ \A q \in Procs \ {p} : failed'[q] = failed[q]
    BY DEF Record, TypeOK
  <1>3. /\ pending[p] \in Seq(1..MaxVersion) /\ pending[p] # <<>>
        /\ ToSet(pending[p]) = {Sent(p)} \cup ToSet(Tail(pending[p]))
        /\ Tail(pending[p]) \in Seq(1..MaxVersion)
        /\ Unsent(p) > 1 <=> Tail(pending[p]) # <<>>
        /\ ToSet(pending[p]) \subseteq 1..version
    BY <1>1, Sending, HeadAndTail DEF Sent, Unsent, SendsCommitted
  <1>4. /\ todo[p] \in Seq(Paths) /\ todo[p] # <<>>
        /\ Path(p) \in Paths
        /\ ToSet(todo[p]) = {Path(p)} \cup ToSet(Tail(todo[p]))
        /\ Tail(todo[p]) \in Seq(Paths)
        /\ Len(todo[p]) > 1 <=> Tail(todo[p]) # <<>>
    BY <1>1, Sending, HeadAndTail DEF Path
  <1>5. Sent(p) \in tried[Path(p)]
    BY <1>1 DEF RecordsCalls
  <1>6. \A path \in Paths, v \in 1..version :
           Owes(p, path, v) => \/ v \in ToSet(Tail(pending[p]))
                               \/ v = Sent(p) /\ path \in ToSet(Tail(todo[p]))
                               \/ v \in tried[path]
    BY <1>1, <1>3, <1>4, <1>5 DEF Owes
  <1>7. /\ pc \in [Procs -> {"idle", "writing", "signalling", "sending", "recording"}]
        /\ pending \in [Procs -> Seq(1..MaxVersion)] /\ todo \in [Procs -> Seq(Paths)]
        /\ received \in [Paths -> SUBSET (1..MaxVersion)]
        /\ tried \in [Paths -> SUBSET (1..MaxVersion)]
        /\ held \in [Paths -> Recorded]
    BY DEF TypeOK
  <1>8. /\ last' \in [Paths -> Recorded] /\ error' \in [Paths -> BOOLEAN]
        /\ \A path \in Paths :
             received[path] \subseteq 1..version /\ last'[path] \in received[path] \cup {None}
    BY <1>1, SaveStep
  <1>9. CASE Len(todo[p]) > 1
    <2>1. /\ pc' = [pc EXCEPT ![p] = "sending"]
          /\ todo' = [todo EXCEPT ![p] = Tail(todo[p])]
          /\ UNCHANGED pending
      BY <1>9 DEF Record, Advance
    <2>2. /\ pc'[p] = "sending" /\ todo'[p] = Tail(todo[p])
          /\ \A q \in Procs \ {p} : pc'[q] = pc[q] /\ todo'[q] = todo[q]
          /\ pc' \in [Procs -> {"idle", "writing", "signalling", "sending", "recording"}]
          /\ todo' \in [Procs -> Seq(Paths)]
      BY <1>4, <1>7, <2>1
    <2>3. \A path \in Paths, v \in 1..version :
             Owes(p, path, v) => Owes(p, path, v)' \/ v \in tried[path]
      <3> SUFFICES ASSUME NEW path \in Paths, NEW v \in 1..version,
                          Owes(p, path, v), v \notin tried[path]
                   PROVE  Owes(p, path, v)'
        OBVIOUS
      <3>1. v \in ToSet(pending[p]) /\ (v # Sent(p) \/ path \in ToSet(Tail(todo[p])))
        BY <1>1, <1>4, <1>5 DEF Owes
      <3> QED
        BY <2>1, <2>2, <3>1 DEF Owes, Sent
    <2> HIDE DEF IInv
    <2> QED
      BY <1>1, <1>2, <1>3, <1>4, <1>7, <1>8, <1>9, <2>1, <2>2, <2>3, CallStep
  <1>10. CASE ~ (Len(todo[p]) > 1)
    <2>1. /\ pc' = [pc EXCEPT ![p] = IF Unsent(p) > 1 THEN "signalling" ELSE "idle"]
          /\ todo' = [todo EXCEPT ![p] = <<>>]
          /\ pending' = [pending EXCEPT ![p] = Tail(pending[p])]
      BY <1>10 DEF Record, Advance
    <2>2. /\ pc'[p] = IF Tail(pending[p]) # <<>> THEN "signalling" ELSE "idle"
          /\ todo'[p] = <<>> /\ pending'[p] = Tail(pending[p])
          /\ \A q \in Procs \ {p} :
                pc'[q] = pc[q] /\ todo'[q] = todo[q] /\ pending'[q] = pending[q]
      BY <1>3, <1>7, <2>1
    <2>3. /\ pc' \in [Procs -> {"idle", "writing", "signalling", "sending", "recording"}]
          /\ todo' \in [Procs -> Seq(Paths)]
          /\ pending' \in [Procs -> Seq(1..MaxVersion)]
      BY <1>3, <1>7, <2>1
    <2>4. ToSet(Tail(todo[p])) = {}
      BY <1>4, <1>10, NoneInEmpty
    <2>5. \A path \in Paths, v \in 1..version :
             Owes(p, path, v) => Owes(p, path, v)' \/ v \in tried[path]
      <3> SUFFICES ASSUME NEW path \in Paths, NEW v \in 1..version,
                          v \in ToSet(Tail(pending[p]))
                   PROVE  Owes(p, path, v)'
        BY <1>6, <2>4
      <3>1. Tail(pending[p]) # <<>>
        BY NoneInEmpty
      <3> QED
        BY <2>2, <3>1 DEF Owes
    <2>6. /\ pc'[p] \notin {"writing", "sending", "recording"}
          /\ pc'[p] = "idle" <=> pending'[p] = <<>>
      BY <2>2
    <2>7. ToSet(pending'[p]) \subseteq 1..version
      BY <1>3, <2>2
    <2>8. /\ UNCHANGED <<store, lost>>
          /\ \A q \in Procs \ {p} : UNCHANGED <<pc[q], pending[q], todo[q], failed[q]>>
          /\ received' = received /\ tried' = tried /\ held' = held
      BY <1>1, <1>2, <2>2
    <2>9. /\ received' \in [Paths -> SUBSET (1..MaxVersion)]
          /\ tried' \in [Paths -> SUBSET (1..MaxVersion)]
          /\ held' \in [Paths -> Recorded]
          /\ \A path \in Paths : tried[path] \subseteq tried'[path] /\ received[path] \subseteq received'[path]
      BY <1>7, <2>8
    <2>10. \A path \in Paths, v \in 1..version :
              Owes(p, path, v) => Owes(p, path, v)' \/ v \in tried'[path] \cup lost'
      BY <2>5, <2>8
    <2>11. \A path \in Paths :
              received'[path] \subseteq 1..version /\ last'[path] \in received'[path] \cup {None}
      BY <1>8, <2>8
    <2>12. pc[p] # "writing" /\ failed' \in [Procs -> BOOLEAN]
           /\ (pc'[p] \in {"sending", "recording"} <=> todo'[p] # <<>>)
      BY <1>1, <1>2, <2>2, <2>6
    <2>13. /\ pc' \in [Procs -> {"idle", "writing", "signalling", "sending", "recording"}]
           /\ pending' \in [Procs -> Seq(1..MaxVersion)] /\ todo' \in [Procs -> Seq(Paths)]
           /\ last' \in [Paths -> Recorded] /\ error' \in [Paths -> BOOLEAN]
      BY <1>8, <2>3
    <2> HIDE DEF IInv, store
    <2> QED
      BY <2>6, <2>7, <2>8, <2>9, <2>10, <2>11, <2>12, <2>13, CallStep
  <1> QED
    BY <1>9, <1>10

\* Every step keeps the invariant.
LEMMA NextInv == IInv /\ [Next]_vars => IInv'
  <1> SUFFICES ASSUME IInv, [Next]_vars PROVE IInv'
    OBVIOUS
  <1>1. CASE UNCHANGED vars
    <2> USE <1>1 DEF vars, store, call, outside, state, IInv
    <2>1. TypeOK'
      BY DEF TypeOK, Recorded
    <2>2. SendsCommitted' /\ RecordsCalls'
      BY DEF SendsCommitted, RecordsCalls, Sent, Path
    <2>3. EverySnapshotTried' /\ RecordedWasReceived'
      BY DEF EverySnapshotTried, StillToSend, Sent, RecordedWasReceived
    <2> QED
      BY <2>1, <2>2, <2>3
  <1> QED
    BY <1>1, BeginStep, WriteStep, CommitStep, EndSteps, SignalStep, DeliverStep,
       RecordStep, SendStep
    DEF Next

---------------------------------------------------------------------------
(* The theorems.                                                           *)

\* The invariant holds throughout, however sending and writing interleave.
THEOREM Invariance == Spec => []IInv
BY InitInv, NextInv, PTL DEF Spec

\* Every variable keeps its type: the writer is the one with the lock, and a
\* process that sends has something to send and somebody to send it to.
THEOREM TypeCorrect == Spec => []TypeOK
<1>1. IInv => TypeOK
  BY DEF IInv
<1> QED
  BY <1>1, Invariance, PTL

\* Each committed snapshot is tried with each publisher, whatever the others
\* raise, unless a receiver that raised or a crash took it away.
THEOREM SnapshotsAreTried == Spec => []EverySnapshotTried
<1>1. IInv => EverySnapshotTried
  BY DEF IInv
<1> QED
  BY <1>1, Invariance, PTL

\* What a publisher gets is committed, and what its row records it took.
THEOREM RecordsAreTrue == Spec => []RecordedWasReceived
<1>1. IInv => RecordedWasReceived
  BY DEF IInv
<1> QED
  BY <1>1, Invariance, PTL

=============================================================================
