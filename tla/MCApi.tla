------------------------------- MODULE MCApi -------------------------------
(***************************************************************************)
(* The instance of MCStore with its keys in two groups.  The client of the *)
(* admin's process reads everything, the other one k2 by name; it may not  *)
(* write the group of k1.                                                  *)
(***************************************************************************)
EXTENDS Api, MCStore

CONSTANTS admin, web, other

ApiGroupOf == [k \in Keys |-> IF k = k1 THEN group ELSE other]

ApiShown == [p \in Procs |-> IF p = web THEN {k2} ELSE Keys]

ApiEditable == [p \in Procs |-> IF p = web THEN {other} ELSE Groups]

\* The admin may write the one group, and the other client the other.
OneGroupEach == [p \in Procs |-> IF p = web THEN {other} ELSE {group}]

ApiRequests == {<<Want(k1, high)>>, <<Want(k2, high)>>, <<Want(k2, Absent)>>}

===========================================================================
