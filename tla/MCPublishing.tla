--------------------------- MODULE MCPublishing ---------------------------
(***************************************************************************)
(* Small instances of Publishing for TLC: a file and a queue.              *)
(***************************************************************************)
EXTENDS Publishing, TLC

CONSTANTS file, webhook

QueueThenFile == <<webhook, file>>
FileOnly == <<file>>

Symmetry == Permutations(Procs)

===========================================================================
