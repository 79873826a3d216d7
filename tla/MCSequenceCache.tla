--------------------------- MODULE MCSequenceCache ---------------------------
\* Instances of SequenceCache for TLC: slots are interchangeable.
EXTENDS SequenceCache, TLC

CallSymmetry == Permutations(Calls)
=============================================================================
