SPECIFICATION PartSpec
CONSTANTS
  Tasks = {1, 2}
  Outputs <- MCTexts
  Declared = {0, 3}
  DefaultMax = 7
  HardMax = 5
  MaxMessage = 14
  Metadata = {1, 14}
  Envelope = 3
  Plans <- MCLedger
  MaxPlans = 4
  Outputs_ <- MCStored
  OutputTasks = {1, 2}
  Goals = {1, 4, 9}
  PlanBytes = 2
  PendingBytes = 2
  SummaryBudget = 10
  Preference <- MCPreference
  ExpectedSets <- MCExpected
  Attempts = {"none", "answer", "ack"}
  Excerpts = {0, 2, 5}
  Details <- MCDetails
  RejectedIds = {0, 1}
  Fixed = 2
  HintBytes = 1
  DigestBytes <- MCDigests
  ContentBytes <- MCContents
  ShortExcerpt = 3
  ShortReminder = 3
  MaxCorrection = 10
  Prose <- MCProse
  Braces <- MCBraces
  Parsed <- MCParsed
  MaxCandidates = 2
  Sessions = {s1}
  Replies <- MCReplies
  NoId = NoId
  NoRef = NoRef
  p1 = p1
  p2 = p2
  t1 = t1
  t2 = t2
  t3 = t3
  r1 = r1
  r2 = r2
  r3 = r3
  DirectResponse = TRUE
  CorrectionLimit = 1
  RotateUnusable = TRUE
  Warning = 4
  Saturation = 6
  Budget = 7
  MaxRotations = 1
  MaxReplies = 4
  MaxTurns = 2
  PlanKeys = {pa, pb}
  TaskKeys = {ta, tb}
  Indexes = {1, 2}
  Events = {ea, eb}
  MaxDepth = 2
  MaxEvents = 2
  MaxWrites = 4
INVARIANTS
  ResultIsTruthful
  NothingLost
  SummaryCarriesOn
  CorrectionFits
  DocumentFound
  AnswersWhatWasAsked
  NothingSkipped
  PlansRunnable
  SameAnswers
CHECK_DEADLOCK FALSE
