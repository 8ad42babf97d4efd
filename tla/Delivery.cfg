CONSTANTS
  c1 = c1
  c2 = c2
  smtp = smtp
  webhook = webhook
  Callers <- TwoCallers
  Channels <- TwoChannels
  Configs <- SomeConfigs
  InitialConfig <- Both
  Outcomes <- LowOutcomes
  DryRunBodies <- AnyRequest
  MaxTime = 1
  MaxEvents = 2
  MaxFailures = 0
  MaxFaults = 2
SPECIFICATION Spec
SYMMETRY Symmetric
INVARIANTS
  ChecksExclude
  NoLostUpdate
  NoAlertLost
  RecordedIsReceived
  InboxIsJustified
  SuccessIsComplete
PROPERTIES
  HistoryIsSound
  ImplementsOutbox
