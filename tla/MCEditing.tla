----------------------------- MODULE MCEditing -----------------------------
(***************************************************************************)
(* Small instances of Editing for TLC: a group of two keys, of which a     *)
(* panel shows one and the admin both, and a rule over the group.          *)
(***************************************************************************)
EXTENDS Editing, Sequences, TLC

CONSTANTS k1, k2, group, low, high, raw, junk, code, hash, admin, panel

MCHash == [r \in Releases |-> hash]
MCKeysOf == [r \in Releases |-> Keys]
MCGroupOf == [k \in Keys |-> group]
MCDefaultOf == [r \in Releases |-> [k \in Keys |-> low]]
\* raw: for k1 text that its type coerces to another, as upper case; for k2 text
\* that its type refuses and its field strips to high.  junk is no value at all.
MCCanon ==
    [r \in Releases |-> [k \in Keys |-> [v \in Values |->
        IF v = junk THEN Bad ELSE IF k = k1 /\ v = raw THEN high ELSE v]]]
MCClean ==
    [k \in Keys |-> [v \in Values |->
        IF k = k1 THEN v ELSE IF v = junk THEN Bad ELSE IF v = raw THEN high ELSE v]]
MCUnchecked == [k \in Keys |-> IF k = k1 THEN {junk} ELSE {}]
MCAdmitted == [r \in Releases |-> [k \in Keys |-> {low, high}]]

\* The second key is high only with the first.
MCGroupRule(r, g, values) == values[k2] = high => values[k1] = high
MCCatalogueRule(r, values) == TRUE

MCFormKeys == [s \in Sites |-> IF s = panel THEN {k1} ELSE {k1, k2}]

Set(k, v) == [key |-> k, value |-> v]
MCRequests == {<<Set(k1, high)>>, <<Set(k1, Absent)>>, <<Set(k1, raw), Set(k2, high)>>, <<Set(k1, low), Set(k2, low)>>}

===========================================================================
