SPECIFICATION Spec
CONSTANTS
  Chats = {c1}
  Draws = {d1, d2}
  LastMap = 1
  MaxFrames = 3
  MaxBanners = 1
  MaxTrouble = 0
INVARIANT NeverGoesBack
CHECK_DEADLOCK FALSE
