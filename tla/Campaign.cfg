SPECIFICATION CampaignSpec
CONSTANTS
  Workers <- MCWorkers
  Runs = 2
  BaselineRuns = 2
  Durations <- MCDurations
  Failing = {0}
INVARIANTS
  CampaignTypeOK
  KillsOnlySlow
  SummaryAddsUp
  CorruptionSeen
PROPERTIES
  LoggedRunsSettled
  CampaignEnds
