SPECIFICATION WatchdogSpec
CONSTANTS
  Subsystems = {"outbox"}
  Configured = 3
  Urgent = 1
  MaxAlert = 4
  StartGrace = 2
  RegulationRounds = 12
  OvertimeRounds = 3
  Rounds = {4, 12}
  MatchStart = 3
  LastMinute = 5
  MaxKills = 0
PROPERTIES
  StuckQueueIsReported
CHECK_DEADLOCK FALSE
