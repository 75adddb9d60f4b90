SPECIFICATION PayloadFairSpec
CONSTANTS
  Tasks = {1, 2}
  Outputs <- MCAccented
  Declared = {0, 3}
  DefaultMax = 4
  HardMax = 5
  MaxMessage = 6
  Metadata = {1, 7}
  Envelope = 2
PROPERTIES
  FitEnds
CHECK_DEADLOCK FALSE
