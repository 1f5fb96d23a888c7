-------------------------- MODULE VersionedStore --------------------------
(***************************************************************************)
(* What the store promises its readers: one current content under one      *)
(* catalogue, moved through numbered versions one at a time.  It starts    *)
(* empty at version 0; a change set replaces it by another content that    *)
(* fits the catalogue; a new catalogue keeps what fits it and drops the    *)
(* rest.  Processes, locks, transactions and pruning do not appear.        *)
(***************************************************************************)
EXTENDS Integers

CONSTANTS Keys, Values, Hashes, Absent, NoCatalogue,
          Fits(_, _, _)         \* hash, key, value: the value may be stored

VARIABLES version, catalogue, content

vars == <<version, catalogue, content>>

Unborn == -1

Init ==
    /\ version = Unborn
    /\ catalogue = NoCatalogue
    /\ content = [k \in Keys |-> Absent]

AllFits(h, stored) == \A k \in Keys : stored[k] # Absent => Fits(h, k, stored[k])

\* The first sync.
Bootstrap ==
    /\ version = Unborn
    /\ version' = 0
    /\ catalogue' \in Hashes
    /\ UNCHANGED content

ChangeSet ==
    /\ version # Unborn
    /\ version' = version + 1
    /\ content' \in [Keys -> Values \cup {Absent}]
    /\ content' # content
    /\ AllFits(catalogue, content')
    /\ UNCHANGED catalogue

\* A sync under another catalogue.
Migrate ==
    /\ version # Unborn
    /\ version' = version + 1
    /\ catalogue' \in Hashes \ {catalogue}
    /\ content' = [k \in Keys |-> IF Fits(catalogue', k, content[k])
                                  THEN content[k] ELSE Absent]

Next == Bootstrap \/ ChangeSet \/ Migrate

Spec == Init /\ [][Next]_vars

===========================================================================
