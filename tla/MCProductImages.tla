---------------------------- MODULE MCProductImages ----------------------------
\* Instances of ProductImages for TLC: images and slots are interchangeable.
EXTENDS ProductImages, TLC

ImageRequestSymmetry == Permutations(Images) \cup Permutations(Requests)
=============================================================================
