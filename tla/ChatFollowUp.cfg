CONSTANTS
  h1 = h1
  h2 = h2
  s1 = s1
  s2 = s2
  d1 = d1
  d2 = d2
  k1 = k1
  NoKey = NoKey
  Keys = {k1}
  Handlers = {h1}
  Sessions = {s1}
  SessionOf <- RetrySessionOf
  KeyOf <- PlainKeyOf
  Deletes = {d1}
  TargetsOf <- SingleTargets
  MaxFaults = 0
  MaxCrashes = 0
SPECIFICATION Spec
PROPERTIES
  SaveFailsOnlyByFault
CHECK_DEADLOCK FALSE
