--------------------------- MODULE MCOrderPlacement ---------------------------
\* Small instances of OrderPlacement for TLC: buyers are interchangeable.
EXTENDS OrderHandover, TLC

BuyerSymmetry == Permutations(Buyers)
=============================================================================
