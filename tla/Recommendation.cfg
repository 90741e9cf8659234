CONSTANTS
  Policies = {1, 2, 3}
  Numeral <- MCNumeral
  Text <- MCText
  RuleChoices <- MCRuleChoices
  Profiles <- MCProfiles
  Selections <- MCSelections
  Parses <- MCParses
  Searches <- MCSearches
  Judgements <- MCJudgements
  Rankings <- MCRankings
  ResultLimit = 2
  JudgeLimit = 2
  HalvesUp <- MCHalvesUp
  ShortBounds = {2, 5}
SPECIFICATION Spec
INVARIANTS
  TypeOK
  BucketsAreSound
  ShownIsEligible
  DeniedIsNotShown
  RanksAgree
  ScoresMatchRun
  RefusedIsExcluded
  SettledStaysSettled
CHECK_DEADLOCK FALSE
