--------------------------- MODULE MCSellerRecord ---------------------------
\* Instances of SellerRecord for TLC.  The run checks a liveness property, so
\* no symmetry is declared.
EXTENDS SellerRecord
=============================================================================
