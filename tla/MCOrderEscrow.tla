---------------------------- MODULE MCOrderEscrow ----------------------------
(* OrderEscrow on a small instance.  Request slots are interchangeable, so   *)
(* the safety runs identify states that differ by a permutation of them.     *)
EXTENDS OrderEscrow, TLC

RequestSymmetry == Permutations(Requests)
=============================================================================
