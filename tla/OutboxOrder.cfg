SPECIFICATION Spec
CONSTANTS
  Chats = {c1}
  Events = {e4, e7}
  CardEvents = {}
  BatchSize = 2
  MaxRowsPerPass = 2
  MaxAttempts = 2
  MaxTrouble = 1
INVARIANT NothingOvertakes
