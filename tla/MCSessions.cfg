SPECIFICATION Spec
CONSTANTS
  Accounts = {a1}
  Requests = {r1, r2}
  NoAccount = NoAccount
  MaxTokens = 3
  MaxWrites = 1
  MaxFaults = 1
SYMMETRY Symmetry
INVARIANTS
  UsedTokensDie
  OneTokenPerAccount
  
  ColumnFollows
CHECK_DEADLOCK FALSE
