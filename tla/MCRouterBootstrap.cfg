SPECIFICATION FairBootSpec
CONSTANTS
  StableSamples = 2
  MaxSamples = 4
  MaxKills = 1
  MaxUser = 2
INVARIANTS
  OneUnprovenAttempt
  ReportsAreTrue
PROPERTIES
  CameraReturns
  StockReturns
CHECK_DEADLOCK FALSE
