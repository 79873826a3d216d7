--------------------------- MODULE MCProductCatalog ---------------------------
\* Instances of ProductCatalog for TLC: slots are interchangeable.
EXTENDS ProductCatalog, TLC

RequestSymmetry == Permutations(Requests)
=============================================================================
