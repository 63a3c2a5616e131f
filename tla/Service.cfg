SPECIFICATION ServiceSpec
CONSTANTS
  Formats <- SomeFormats
  MaxSections = 2
  MaxChanges = 1
  Subsystems = {"schedule", "live_feed", "outbox"}
  Configured = 3
  Urgent = 1
  MaxAlert = 4
  StartGrace = 2
  RegulationRounds = 12
  OvertimeRounds = 3
  Rounds = {4, 12}
  MatchStart = 3
  LastMinute = 5
  MaxKills = 1
  Players = {p1, p2}
  Opponents = 2
  LastRound = 2
  Multikill = 2
  Clutch = 1
  MaxRestarts = 1
  Chats = {c1, c2}
  TeamIds = {t1, t2}
  Canonical = t1
  TeamLimit = 1
  Types = {"E6"}
  Multikills = {0}
  Clutches = {2}
  DefaultMultikill = 3
  DefaultClutch = 0
  MaxEdits = 2
  MaxStarts = 1
  Stale = 3
  BreakFactor = 2
  LiveEvery = 1
  FeedEvery = 2
  LastMinuteSeen = 9
  MaxScore = 1
  MaxFailures = 1
  DayLength = 6
  CatchUp = 2
  Slots = {0, 5}
  Zones = {0, 3}
  Season = 1
  LastTurn = 13
  MaxTurnings = 2
SYMMETRY ChatSymmetry
INVARIANTS
  ServiceTypeOK
  ScoreTellsAll
  MessagesAreRight
  RecoveryFollowsAlarm
  HighlightsAreReal
  NobodyIsLeftOut
  OnlyLeftoversForTheSilent
PROPERTIES
  OutageIsReported
  StallIsBlindness
  DigestComesOnce
CHECK_DEADLOCK FALSE
