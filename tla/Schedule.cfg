SPECIFICATION ScheduleSpec
CONSTANTS
  Teams = {1, 2}
  Matches = {m1}
  Starts = {5, 6, 10, 12}
  Horizon = 7
  LastEdit = 1
  MaxMishaps = 2
  MinShift = 2
  Debounce = 2
  Prematch = 3
  Grace = 3
  Lookbehind = 4
  DueLead = 1
  IdleEvery = 2
  PrematchEvery = 1
  Duration = 1
  Leads = {2}
INVARIANTS
  ScheduleTypeOK
  NoRequestSleeps
  RemindedOfTheRightTime
PROPERTIES
  MoveWasHeld
  AgreedTimeIsStored
CHECK_DEADLOCK FALSE
