CONSTANTS
  e1 = e1
  e2 = e2
  e3 = e3
  u1 = u1
  h1 = h1
  h2 = h2
  NoOwner = NoOwner
  Hooks = {}
  Commands = {}
  Cancels = {}
  Manuals = {e1}
  Users = {u1}
  OwnerOf <- OneAccount
  Heads = {h1, h2}
  InitHead = h1
  Mode = "gating"
  Level = 3
  MaxReviews = 2
  MaxPushes = 1
  MaxToggles = 0
  MaxRedeliveries = 0
  MaxFaults = 2
SPECIFICATION FairSpec
PROPERTIES
  EveryReviewEnds
  SystemStatusDelivered
  TriggersAnswered
