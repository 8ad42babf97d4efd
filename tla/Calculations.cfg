SPECIFICATION CalculationsSpec
CONSTANTS
  Candidates <- MCCandidates
  IgnoredLists <- MCIgnoredLists
  Plans <- PlainTexts
  Upstream <- MCUpstream
  MaxRules = 3
  Inputs <- MCInputs
  Rules <- MCRules
  Ignored <- MCIgnored
  TerminalCodes <- MCTerminal
  MaxAccounts = 3
  Subjects <- MCSubjects
  Bodies <- MCBodies
  Kinds <- MCKinds
\* Each calculation ends with its result.
CHECK_DEADLOCK FALSE
INVARIANTS
  RulesAreSound
  RulesAreUnambiguous
  SpellingsAreHonoured
  SnapshotAddsUp
  FullTotalIsComplete
  PartialIsALowerBound
  AcceptedIsSent
