SPECIFICATION Installation
CONSTANTS
  MaxCreated = 5
  InitialThreads = 3
  Caller = 2
  MaximumThreads = 4
  MaximumPasses = 2
  Transaction = {generated, precompiled}
  generated = generated
  precompiled = precompiled
  Precompiled = {precompiled}
  NoOne = NoOne
INVARIANTS
  WindowIsQuiescent
  NoForgottenPark
  PatchHasTrampoline
  ReportedStateIsTrue
  StuckWindowIsReported
PROPERTIES
  NoParkAfterEnd
  CallsReturn
  OverwritesOnlyOwn
CHECK_DEADLOCK FALSE
