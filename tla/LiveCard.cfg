SPECIFICATION FairSpec
CONSTANTS
  Chats = {c1}
  Draws = {d1, d2}
  LastMap = 1
  MaxFrames = 3
  MaxBanners = 1
  MaxTrouble = 1
INVARIANTS
  TypeOK
  OneCard
  RowTellsTheTruth
  StartReachesAll
PROPERTIES
  FrozenStays
  FeedGoesOn
CHECK_DEADLOCK FALSE
