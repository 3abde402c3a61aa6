SPECIFICATION Spec

CONSTANTS
  e1 = e1  e2 = e2
  a = a  b = b  c = c
  None = None
  Engines = {e1, e2}
  Models = {a, b, c}
  Answers <- MCAnswers
  Saved <- MCSaved
  MaxSends = 3

INVARIANTS
  TypeOK
  SpinnerMeansWaiting
  OneAtATime
  AnswerFollowsQuestion
  RequestNamesOfferedModel

PROPERTY
  SendComesBack
