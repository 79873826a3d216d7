---------------------------- MODULE MCTrustEngine ----------------------------
\* Instances of TrustEngine for TLC: slots are interchangeable.
EXTENDS TrustEngine, TLC

CallSymmetry == Permutations(Calls)
=============================================================================
