CONSTANTS
  r1 = r1
  r2 = r2
  e1 = e1
  a1 = a1
  a2 = a2
  g1 = g1
  g2 = g2
  Recs = {r1}
  Eligs = {e1}
  Answers = {}
  Reads = {g1, g2}
  About <- Racing
  MaxFaults = 0
  MaxCrashes = 1
SPECIFICATION FairSpec
INVARIANTS
  PostedOnce
  CallsNeverDeadlock
PROPERTIES
  ComesToRest
CHECK_DEADLOCK FALSE
