SPECIFICATION Spec
CONSTANTS
  t1 = t1
  t2 = t2
  NoConv = NoConv
  Turn = {t1, t2}
  Conv = {1, 2}
  MaxBranches = 1
  MaxRounds = 2
  MaxContext = 2
  Chunks = 2
  Serves <- MCServes
INVARIANTS
  TypeOK
  OneAnswerInPlace
  PartsAreMarked
  AgentChatAnswers
PROPERTIES
  KeepsChatContract
CHECK_DEADLOCK FALSE
