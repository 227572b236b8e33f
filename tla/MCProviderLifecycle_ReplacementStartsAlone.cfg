SPECIFICATION Spec
CONSTANTS
  Client = {c1}
  MaxRunners <- MCStagedOnly
INVARIANTS
  ReplacementStartsAlone
