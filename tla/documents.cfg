CONSTANTS
  f1 = f1
  f2 = f2
  o1 = o1
  o2 = o2
  Summary = summary
  Owners = {o1, o2}
  Findings = {f1, f2}
  Modes = {"applied", "draft"}
  Askers <- AskersMC
  Cap = 1
  MaxRequests = 2
  MaxVersion = 2
  MaxTroubles = 1
  MaxHands = 1
SPECIFICATION FairSpec
INVARIANTS
  OnceOnPage
  CommentCap
PROPERTIES
  ReportReachesPage
  RequestSettles
CHECK_DEADLOCK FALSE
