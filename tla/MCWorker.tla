------------------------------ MODULE MCWorker ------------------------------
(* Worker for TLC, with runners of equal and of different priorities.        *)
EXTENDS Worker

CONSTANTS r1, r2
MCEqual == [r \in Runners |-> 1]
MCUnequal == [r \in Runners |-> IF r = r1 THEN 1 ELSE 2]
=============================================================================
