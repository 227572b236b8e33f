SPECIFICATION FairSpec
CONSTANTS
  Publisher = {w}
  Streamer = {w}
  Frame = {"a", "b", "c", "d"}
  Size <- MCSize
  Sequence <- MCSequence
  MaxSize = 3
  Inode = {i1, i2, i3}
  None = None
  Idle = Idle
  Torn = Torn
PROPERTIES
  ReplacesAtomically
  ShowsCurrent
