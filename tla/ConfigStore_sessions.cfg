SPECIFICATION Spec
CONSTANTS
  Tokens <- TheirTokens
  Elements <- TwoElements
  Default <- TheirDefaults
  UserFiles <- WellFormedFiles
  NewValues = {7, 60}
  MaxLosses = 1
INVARIANTS TypeOK Survives NeverTorn Settled UserLinesKept NeverStuck
