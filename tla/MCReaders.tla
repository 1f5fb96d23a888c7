----------------------------- MODULE MCReaders -----------------------------
(***************************************************************************)
(* Small instances of Readers for TLC: a worker with two threads and a     *)
(* process with one.                                                       *)
(***************************************************************************)
EXTENDS Readers

CONSTANTS web, cli, a, b, c

MCProcessOf == [t \in Threads |-> IF t = c THEN cli ELSE web]

\* A finite window in the worker, none at all in the other process.
MixedWindow == [p \in Processes |-> IF p = web THEN "finite" ELSE "none"]

===========================================================================
