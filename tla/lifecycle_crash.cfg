CONSTANTS
  e1 = e1
  e2 = e2
  e3 = e3
  u1 = u1
  h1 = h1
  h2 = h2
  NoOwner = NoOwner
  Hooks = {e1, e2}
  Commands = {}
  Cancels = {}
  Manuals = {}
  Users = {u1}
  OwnerOf <- OneAccount
  Heads = {h1, h2}
  InitHead = h1
  Mode = "gating"
  Level = 7
  MaxReviews = 4
  MaxPushes = 1
  MaxToggles = 0
  MaxRedeliveries = 0
  MaxFaults = 1
SPECIFICATION Spec
INVARIANTS
  OneActive
  PublishedStatusAgrees
  FailedReviewPasses
PROPERTIES
  ImplementsLedger
