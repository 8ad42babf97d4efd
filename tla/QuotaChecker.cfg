CONSTANTS
  MaxEntries = 4
  Lists <- SomeLists
  Replies <- SomeReplies
  Concurrency = 2
  RetryAttempts = 1
SPECIFICATION FairSpec
INVARIANTS
  ResultsAreSound
PROPERTIES
  NoCallOnceCancelled
  ImplementsRound
  RoundEnds
