SPECIFICATION FairSpec
CONSTANTS
  Client = {c1}
  MaxRunners <- MCMaxRunners
INVARIANTS
  StopIsComplete
  StreamHasMarker
  UpdateIsConsistent
PROPERTIES
  FirstFrameIsNew
  CommandsReturn
