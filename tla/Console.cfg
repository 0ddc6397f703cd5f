SPECIFICATION Spec
CONSTANTS
  Threads = {t1, t2}
  Writer = Writer
  NL = NL
  MaxCalls = 3
INVARIANTS
  LinesAreWhole
  TextIsKept
PROPERTY StatementsEnd
CHECK_DEADLOCK FALSE
