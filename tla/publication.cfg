CONSTANTS
  k1 = k1
  k2 = k2
  Summary = Summary
  Inline = {k1, k2}
  Modes = {"applied", "draft", "none"}
  Cap = 1
  LatePosts = {"act"}
  MaxNotes = 5
  MaxHands = 1
  MaxRequests = 2
  MaxCrashes = 1
SPECIFICATION Spec
SYMMETRY Symmetry
PROPERTIES
  NoDuplicate
  CeilingKept
  RemovedMeansGone
  RemovedStaysRemoved
CHECK_DEADLOCK FALSE
