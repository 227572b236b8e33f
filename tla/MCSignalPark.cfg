SPECIFICATION Spec
CONSTANTS
  Peer = {p, q}
  NoPeer = NoPeer
  p = p
  q = q
  Epoch = {1, 2}
  MaximumThreads = 2
  MaxRounds = 2
SYMMETRY PeerSymmetry
INVARIANTS
  SnapshotIsTrue
  ResumeReleasesAll
  NoStaleMark
  NoSignalAfterRestore
CHECK_DEADLOCK FALSE
