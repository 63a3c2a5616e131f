SPECIFICATION MCSpec
CONSTANTS
  BestOf = 3
  MaxMishaps = 1
  Workers = {w1, w2}
  NoWorker = none
  LastMap = 2
  MaxLooks = 3
  MaxFaults = 1
  WaitPolls = 1
  HalfLength = 1
  Threshold = 2
  MaxRounds = 4
  MaxResets = 1
  MaxProcesses = 1
INVARIANTS
  MCTypeOK
  OneResultPerMap
  ResultsAreTold
  EndIsNotEarly
  StartIsToldFirst
  EndIsTold
  OneWorkerPerMatch
  ShutdownLeavesNobody
  HeldStartIsKept
  StoryIsTrue
CHECK_DEADLOCK FALSE
