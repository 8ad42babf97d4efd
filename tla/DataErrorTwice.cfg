CONSTANTS
  c1 = c1
  c2 = c2
  smtp = smtp
  webhook = webhook
  Callers <- OneCaller
  Channels <- OneChannel
  Configs <- OnlySmtp
  InitialConfig <- SmtpOnly
  Outcomes <- NeverComplete
  DryRunBodies <- TimerOnly
  MaxTime = 1
  MaxEvents = 3
  MaxFailures = 2
  MaxFaults = 0
SPECIFICATION Spec
INVARIANTS
  OneDataErrorPerOutage
