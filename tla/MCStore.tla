------------------------------ MODULE MCStore ------------------------------
(***************************************************************************)
(* Small instances of Store for TLC: two keys in one group, values low and *)
(* high, another spelling of high and one of the wrong JSON type, and      *)
(* releases that differ from plain in one respect each:                    *)
(*   withDefault   high is the default of k1 and no longer a value of k2   *)
(*   withoutKey    does not declare k2                                     *)
(*   lax           the hash of plain, but another rule, on the catalogue   *)
(***************************************************************************)
EXTENDS Store, TLC

CONSTANTS
    k1, k2, group, low, high, raw, odd, plain, withDefault, withoutKey, lax, h1, h2, h3

MCHash ==
    [r \in Releases |-> CASE r = withDefault -> h2 [] r = withoutKey -> h3 [] OTHER -> h1]

MCKeysOf == [r \in Releases |-> IF r = withoutKey THEN {k1} ELSE {k1, k2}]

MCGroupOf == [k \in Keys |-> group]

MCDefaultOf ==
    [r \in Releases |-> [k \in Keys |-> IF r = withDefault /\ k = k1 THEN high ELSE low]]

MCAdmitted ==
    [r \in Releases |-> [k \in Keys |-> IF r = withDefault /\ k = k2 THEN {low} ELSE {low, high}]]

MCCanon ==
    [r \in Releases |-> [k \in Keys |-> [v \in Values |->
        CASE v = raw -> high [] v = odd -> Bad [] OTHER -> v]]]

\* Not both high; only plain has the rule.
MCGroupRule(r, g, values) == r = plain => ~(values[k1] = high /\ values[k2] = high)

\* k2 is high only when k1 is.
MCCatalogueRule(r, values) == values[k2] = high => values[k1] = high

Want(k, v) == [key |-> k, value |-> v]

\* One key, both, a reset, a value of the wrong type, a key named twice.
RolloutRequests ==
    {<<Want(k1, raw)>>, <<Want(k1, low), Want(k2, high)>>, <<Want(k2, Absent)>>,
     <<Want(k1, odd), Want(k2, high)>>}

RuleRequests ==
    {<<Want(k1, high)>>, <<Want(k2, high)>>, <<Want(k1, Absent)>>, <<Want(k2, low)>>,
     <<Want(k1, low), Want(k2, low)>>, <<Want(k1, low), Want(k1, high)>>}

ImportOf(values) == {[supported |-> TRUE, values |-> values]}

\* One that sets k1, and one that sets k2, which withoutKey does not declare.
MCDocuments ==
    UNION {ImportOf([k \in Keys |-> IF k = named THEN high ELSE Absent]) : named \in Keys}

RefusedDocument == {[supported |-> FALSE, values |-> Empty]}

Symmetry == Permutations(Procs)

===========================================================================
