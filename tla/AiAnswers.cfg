CONSTANTS
  r1 = r1
  r2 = r2
  e1 = e1
  a1 = a1
  a2 = a2
  g1 = g1
  g2 = g2
  Recs = {r1, r2}
  Eligs = {}
  Answers = {a1, a2}
  Reads = {}
  About <- Racing
  MaxFaults = 1
  MaxCrashes = 1
SPECIFICATION Spec
INVARIANTS
  TypeOK
  AnswerFindsQuestion
  StuckHasCause
PROPERTIES
  PromiseSpec
SYMMETRY CallSymmetry
CHECK_DEADLOCK FALSE
