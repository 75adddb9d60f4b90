SPECIFICATION DocSpec
CONSTANTS
  Tasks = {1, 2}
  Outputs <- MCTexts
  Declared = {0, 3}
  DefaultMax = 7
  HardMax = 5
  MaxMessage = 14
  Metadata = {1, 14}
  Envelope = 3
  Plans <- MCLedger
  MaxPlans = 4
  Outputs_ <- MCStored
  OutputTasks = {1, 2}
  Goals = {1, 4, 9}
  PlanBytes = 2
  PendingBytes = 2
  SummaryBudget = 10
  Preference <- MCPreference
  ExpectedSets <- MCExpected
  Attempts = {"none", "answer", "ack"}
  Excerpts = {0, 2, 5}
  Details <- MCDetails
  RejectedIds = {0, 1, 9}
  Fixed = 2
  HintBytes = 1
  DigestBytes <- MCDigests
  ContentBytes <- MCContents
  ShortExcerpt = 3
  ShortReminder = 3
  MaxCorrection = 10
  Prose <- MCProse
  Braces <- MCBraces
  Parsed <- MCParsed
  MaxCandidates = 2
INVARIANTS
  NeverOverTheCap
CHECK_DEADLOCK FALSE
