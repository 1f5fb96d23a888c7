---------------------------- MODULE MCRetention ----------------------------
(***************************************************************************)
(* Small instances of Retention for TLC; processes are interchangeable.    *)
(***************************************************************************)
EXTENDS Retention, TLC

Symmetry == Permutations(Procs)

===========================================================================
