SPECIFICATION FairSpec
CONSTANTS
  Chats = {c1, c2}
  Draws = {d1, d2, d3}
  LastMap = 1
  MaxFrames = 2
  MaxBanners = 1
  MaxTrouble = 0
PROPERTY LastFrameReachesAll
CHECK_DEADLOCK FALSE
