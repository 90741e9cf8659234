CONSTANTS
  h1 = h1
  h2 = h2
  s1 = s1
  s2 = s2
  d1 = d1
  d2 = d2
  k1 = k1
  NoKey = NoKey
  Keys = {k1}
  Handlers = {h1, h2}
  Sessions = {s1, s2}
  SessionOf <- RetrySessionOf
  KeyOf <- RetryKeyOf
  Deletes = {d1, d2}
  TargetsOf <- PairTargets
  MaxFaults = 1
  MaxCrashes = 1
SPECIFICATION Spec
INVARIANTS
  TypeOK
  OneRunPerKey
  AnswerIffCompleted
  AnsweredOnce
  EventMatchesRow
  CancelledOnlyByEvent
  NothingOutlivesSession
  OrphanHasCause
  NoVainCancel
PROPERTIES
  LifecycleSpec
SYMMETRY PostSymmetry
CHECK_DEADLOCK FALSE
