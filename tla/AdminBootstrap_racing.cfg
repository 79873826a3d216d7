SPECIFICATION Spec
CONSTANTS
  Requests = {r1, r2, r3}
  MaxFaults = 2
SYMMETRY RequestSymmetry
INVARIANTS
  AdminByBootstrap
  AnswersTrue
  TokensEarned
PROPERTIES
  ImplementsAdminAccount
