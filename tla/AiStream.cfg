CONSTANTS
  r1 = r1
  r2 = r2
  e1 = e1
  a1 = a1
  a2 = a2
  g1 = g1
  g2 = g2
  Recs = {r1}
  Eligs = {}
  Answers = {}
  Reads = {}
  About <- Racing
  MaxFaults = 1
  MaxCrashes = 0
SPECIFICATION Spec
INVARIANTS
  ProcessingIsRunning
CHECK_DEADLOCK FALSE
