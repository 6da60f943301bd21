---------------------------- MODULE MCProspective ----------------------------
(* Days of five ticks; the second day reaches its decision window.         *)
EXTENDS Prospective, TLC

CONSTANTS snapshot1, snapshot2

(* One tick ahead of the clock, on time, one behind *)
Lags == {-1, 0, 1}

(* Research of both days, one chain of the other commands at a time *)
TwoResearches == [c \in Command |-> IF c = "research-collect" THEN 2 ELSE 1]

Interchangeable == Permutations(Snapshot)
=============================================================================
