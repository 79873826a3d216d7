--------------------------- MODULE MCAdminBootstrap ---------------------------
(* Slots are interchangeable. *)
EXTENDS AdminBootstrap, TLC

RequestSymmetry == Permutations(Requests)
=============================================================================
