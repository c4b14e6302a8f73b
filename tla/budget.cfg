CONSTANTS
  c1 = c1
  c2 = c2
  c3 = c3
  b1 = b1
  Budgets = {b1}
  Calls = {c1, c2, c3}
  BudgetOf <- OneReview
  Verification = {c3}
  Want <- WantOf
  Need <- NeedOf
  Context = 2
  Usages = {1}
  Ceiling <- Five
  FinalReserve = 1
  Slots = 2
  MaxFaults = 1
SPECIFICATION FairSpec
INVARIANTS
  CeilingKept
  ProtectedKept
PROPERTIES
  EveryCallEnds
CHECK_DEADLOCK FALSE
