SPECIFICATION Spec
CONSTANTS
  Peer = {p, q}
  NoPeer = NoPeer
  p = p
  q = q
  Epoch = {1}
  MaximumThreads = 2
  MaxRounds = 1
INVARIANTS
  ResumeWakesAllHandlers
CHECK_DEADLOCK FALSE
