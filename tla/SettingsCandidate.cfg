SPECIFICATION Spec
CONSTANTS
  p1 = p1
  p2 = p2
  Pages <- MCOnePage
  NoPage = NoPage
  Forms <- MCAllForms
  BaseEnv <- MCEnv
  MaxPolls = 1
  MaxSaves = 1
  MaxFaults = 0
PROPERTIES
  CandidateIsValidated
