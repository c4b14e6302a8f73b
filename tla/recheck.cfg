CONSTANTS
  Review = review
  Threads = {1, 2}
  Asks = {ask, note}
  Commands = {note}
  Dismissals = {1}
  Modes = {"applied", "draft"}
  Changes = {"gone", "same", "changed"}
  Judgements = {"fixed", "partially_fixed"}
  MaxHeads = 2
  MaxJudgements = 1
  MaxTroubles = 1
  MaxHands = 2
SPECIFICATION FairSpec
INVARIANTS
  AnsweredOnce
  SettledForAReason
  ActionedIsAnswered
PROPERTIES
  RequestEnds
CHECK_DEADLOCK FALSE
