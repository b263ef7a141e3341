SPECIFICATION CampaignSafe
CONSTANTS
  Workers <- MCWorkers
  Runs = 2
  BaselineRuns = 2
  Durations <- MCDurations
  Failing = {}
INVARIANT WarmUpExcluded
