CONSTANTS
  a = a
  b = b
  w1 = w1
  w2 = w2
  h1 = h1
  h2 = h2
  NoFile = NoFile
  N = 2
  Files = {a, b}
  Paths <- TwoFiles
  Omitted = {}
  Workers = {w1, w2}
  Rounds = 2
  Attempts = 2
  Answers <- SomeAnswers
  Hashes = {h1, h2}
  MaxCrashes = 1
SPECIFICATION FairSpec
INVARIANTS
  CoverageExact
  CoverageSurvives
  ProgressAdds
  StreamAgrees
PROPERTIES
  StageEnds
CHECK_DEADLOCK FALSE
