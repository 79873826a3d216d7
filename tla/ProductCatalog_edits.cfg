SPECIFICATION Spec

CONSTANTS
  r1 = r1
  r2 = r2
  Requests = {r1, r2}
  Names = {"n1"}
  Categories = {"FURNITURE"}
  MaxFaults = 1

INVARIANTS
  CategoryMatches
  VerdictBacked
  ListedOnceApproved
SYMMETRY RequestSymmetry
