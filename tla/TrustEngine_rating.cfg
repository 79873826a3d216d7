SPECIFICATION Spec

CONSTANTS
  c1 = c1
  c2 = c2
  c3 = c3
  Calls = {c1, c2, c3}
  StartCounts = {0, 3, 4, 9, 14, 24, 28, 29, 38, 48, 49}
  MaxCalls = 12
  MaxFaults = 2

INVARIANTS
  NeverInflated
  HistoryPromotesByOne
  ExactWhenAlone
SYMMETRY CallSymmetry
CHECK_DEADLOCK FALSE
