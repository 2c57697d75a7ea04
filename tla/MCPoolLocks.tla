---------------------------- MODULE MCPoolLocks -----------------------------
(* Blocks are numbers: odd ones are of class 1, even ones of class 2.        *)
EXTENDS PoolLocks

MCClassOf(b) == IF b % 2 = 1 THEN 1 ELSE 2
=============================================================================
