CONSTANTS
  c1 = c1
  c2 = c2
  smtp = smtp
  webhook = webhook
  Callers <- OneCaller
  Channels <- OneChannel
  Configs <- OnlyOften
  InitialConfig <- Often
  Outcomes <- AlertOutcomes
  DryRunBodies <- TimerOnly
  MaxTime = 3
  MaxEvents = 5
  MaxFailures = 3
  MaxFaults = 0
SPECIFICATION Spec
CONSTRAINT AlertBound
INVARIANTS
  LowAlertsAlternate
  RemindersAreSpaced
  ErrorAlertTracksOutage
PROPERTIES
  ErrorAlertsComeOnce
