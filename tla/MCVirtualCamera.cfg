SPECIFICATION FairSpec
CONSTANTS
  Stream = {"preview", "still", "raw"}
  Format <- MCFormat
  Size <- MCSize
  MaxStreamDimension = 8
  Provider = {"slow", "wild"}
  Fps <- MCFps
  Second = 2
  DefaultFps = 2
  MaxFps = 2
  MaxOutputPixelRate = 24
  MaxBuffers = 2
  None = None
INVARIANTS
  CallbacksMatchAnswer
  BuffersSettled
  ServedFromThisSession
PROPERTIES
  Paced
  RequestAnswered
