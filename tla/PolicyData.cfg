CONSTANTS
  Policies = {1, 2}
  Numeral <- MCNumeral
  Worded <- MCWorded
  Lists <- MCLists
  Details <- MCDetails
  Editions <- MCEditions
  Extractions <- MCExtractions
  Readings <- MCReadings
  Answers <- MCAnswers
  Contents <- MCContents
  Downloads <- MCDownloads
  Scenarios <- MCScenarios
  CallIds <- MCCallIds
SPECIFICATION Spec
INVARIANTS
  TypeOK
  OneSource
  RefusalHasCause
  VectorsHaveTheirChunk
  RecordsAreUnique
CHECK_DEADLOCK FALSE
