CONSTANTS
  c1 = c1
  c2 = c2
  smtp = smtp
  webhook = webhook
  Callers <- OneCaller
  Channels <- OneChannel
  Configs <- OnlySmtp
  InitialConfig <- SmtpOnly
  Outcomes <- LowOutcomes
  DryRunBodies <- TimerOnly
  MaxTime = 4
  MaxEvents = 4
  MaxFailures = 0
  MaxFaults = 0
SPECIFICATION Spec
PROPERTIES
  RemindersAsDocumented
