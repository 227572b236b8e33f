SPECIFICATION Spec
CONSTANTS
  Client = {t1, t2}
  Camera = {c0, c1}
  Handle = {h1, h2, h3}
  Device = {d1, d2}
  None = None
SYMMETRY Symmetry
INVARIANTS
  OwnedOnce
  PointerIsOpen
  RequestsReachConfigured
CHECK_DEADLOCK FALSE
