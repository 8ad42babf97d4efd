SPECIFICATION FairSpec
CONSTANTS
  p1 = p1
  p2 = p2
  Pages <- MCPages
  NoPage = NoPage
  Forms <- MCForms
  BaseEnv <- MCEnv
  MaxPolls = 1
  MaxSaves = 2
  MaxFaults = 1
INVARIANTS
  StoreIsSound
PROPERTIES
  SavedIsInForce
  PendingIsForeseen
  SavesEnd
