SPECIFICATION FairSpec
CONSTANTS
  Chats = {c1}
  Events = {e4, e11}
  CardEvents = {e11}
  BatchSize = 1
  MaxRowsPerPass = 2
  MaxAttempts = 2
  MaxTrouble = 3
PROPERTY SettlesPromise
