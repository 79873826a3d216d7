SPECIFICATION FairSpec

CONSTANTS
  c1 = c1
  c2 = c2
  Calls = {c1, c2}
  FirstSeq = 2
  Fallback = 0
  MaxSeq = 5
  MaxGlitches = 3

INVARIANTS
  NeverDesynced
PROPERTIES
  RecoversAlone
  CallsGetThrough
CHECK_DEADLOCK FALSE
