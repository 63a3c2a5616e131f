SPECIFICATION Spec
CONSTANTS
  Chats = {c1, c2}
  Events = {e4, e11}
  CardEvents = {e11}
  BatchSize = 2
  MaxRowsPerPass = 2
  MaxAttempts = 2
  MaxTrouble = 1
SYMMETRY ChatSymmetry
INVARIANTS
  TypeOK
  NoUnexcusedCopy
  NothingDropped
  JournalAndQueueAgree
  OvertakesOnlyRefused
  NoLostWakeup
PROPERTY KeepsPromise
