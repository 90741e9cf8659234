CONSTANTS
  g1 = g1
  g2 = g2
  g3 = g3
  p1 = p1
  Gets = {g1, g2, g3}
  Policies = {p1}
  PolicyOf <- OnePolicy
  MaxVersion = 3
  MaxFaults = 1
  MaxCrashes = 1
SPECIFICATION FairSpec
INVARIANTS
  TypeOK
  DoneIsFresh
  TagIsHonest
  LoadingIsBusy
PROPERTIES
  EveryCallEnds
  AbandonedIsSettled
  FreshIsKept
  PromiseSpec
CHECK_DEADLOCK FALSE
