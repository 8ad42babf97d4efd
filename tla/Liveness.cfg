CONSTANTS
  c1 = c1
  c2 = c2
  smtp = smtp
  webhook = webhook
  Callers <- OneCaller
  Channels <- TwoChannels
  Configs <- OneConfig
  InitialConfig <- Both
  Outcomes <- LowOrPlanOutcomes
  DryRunBodies <- TimerOnly
  MaxTime = 1
  MaxEvents = 2
  MaxFailures = 0
  MaxFaults = 1
SPECIFICATION FairSpec
PROPERTIES
  EventuallyDelivered
  EventuallyReleased
