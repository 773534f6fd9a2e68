--------------------------- MODULE MCWorkerManager ---------------------------
(* WorkerManager for TLC: two runners without a group, which Balance can move *)
(* apart; one with a group; and one that is removed, with a sub-runner that   *)
(* is not schedulable.                                                        *)
EXTENDS WorkerManager

CONSTANTS a, b, c, d, e
MCCasts == {{a, c}, {b}, {d, e}}
MCGroup == [r \in Runners |-> IF r = b THEN 1 ELSE 0]
=============================================================================
