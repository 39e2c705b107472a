CONSTANTS
  r1 = r1
  r2 = r2
  r3 = r3
  Requests = {r1, r2, r3}
  NoId = NoId
  Asked <- Anything
SPECIFICATION FairSpec
INVARIANTS TypeOK AnswersTell
PROPERTIES HandlersReturn
CHECK_DEADLOCK FALSE
