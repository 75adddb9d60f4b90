SPECIFICATION Spec
CONSTANTS
  Sessions = {s1, s2}
  Replies <- MCAlike
  NoId = NoId
  NoRef = NoRef
  p1 = p1
  p2 = p2
  t1 = t1
  t2 = t2
  t3 = t3
  r1 = r1
  r2 = r2
  r3 = r3
  DirectResponse = TRUE
  CorrectionLimit = 1
  RotateUnusable = TRUE
  Warning = 9
  Saturation = 9
  Budget = 9
  MaxRotations = 0
  MaxReplies = 2
  MaxTurns = 1
CHECK_DEADLOCK FALSE
PROPERTIES
  RecordsKept
