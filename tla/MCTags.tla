------------------------------ MODULE MCTags ------------------------------
(***************************************************************************)
(* Two callers, two tags, and releases that seed one, the other or none.   *)
(***************************************************************************)
EXTENDS Tags, TLC

CONSTANTS pricing, review, beta, alice, bob, system

MCSeeds == << {}, {<<pricing, review>>}, {<<pricing, beta>>} >>

MCCallers == Permutations(Callers)

===========================================================================
