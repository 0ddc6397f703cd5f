SPECIFICATION Spec
CONSTANTS
  Bytes = {0, 1}
  Cap = 2
  Refused = Refused
INVARIANTS
  FullRingOverwrites
