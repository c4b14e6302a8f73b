CONSTANTS
  Claims <- SomeClaims
  Diagnostics <- Compiler
  Attributed <- Blamed
  Earlier <- Before1
  MaxProposals = 2
  MaxOthers = 1
  Judgements = {"keep", "NIT"}
  StaticCats = {"security"}
  Distance = 4
  Tolerance = 1
  Existing = 1
  MaxInline = 2
  MaxPerFile = 1
SPECIFICATION Spec
INVARIANTS
  NoneTwice
  ShownIsSound
  BlocksOnProof
  TriageKeepsGate
CHECK_DEADLOCK FALSE
