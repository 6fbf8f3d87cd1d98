SPECIFICATION FairSpec
CONSTANTS
  r1 = r1
  r2 = r2
  f1 = f1
  f2 = f2
  f3 = f3
  f4 = f4
  None = None
  Requests = {r1, r2}
  Files = {f1, f2, f3, f4}
INVARIANTS
  AnswerNamesStored
PROPERTIES
  EveryUploadAnswered
