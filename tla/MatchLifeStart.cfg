SPECIFICATION Spec
CONSTANTS
  BestOf = 3
  MaxMishaps = 0
PROPERTY StartWaitsForTheFeed
CHECK_DEADLOCK FALSE
