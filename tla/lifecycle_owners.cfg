CONSTANTS
  e1 = e1
  e2 = e2
  e3 = e3
  u1 = u1
  h1 = h1
  h2 = h2
  NoOwner = NoOwner
  Hooks = {}
  Commands = {e2}
  Cancels = {e3}
  Manuals = {e1}
  Users = {u1}
  OwnerOf <- OneAccount
  Heads = {h1, h2}
  InitHead = h1
  Mode = "gating"
  Level = 7
  MaxReviews = 2
  MaxPushes = 1
  MaxToggles = 1
  MaxRedeliveries = 1
  MaxFaults = 0
SPECIFICATION Spec
INVARIANTS
  OneReviewPerEvent
PROPERTIES
  FinalRowsStay
  OwnersIsolated
