SPECIFICATION Spec
CONSTANTS
  empty = empty
  short = short
  long = long
  Msgs = {empty, long}
  Size <- Sizes
  Actions <- Counts
  MaxConns = 2
  MaxThrows = 1
INVARIANTS
  WholeAndInOrder
  ShownOnce
PROPERTY SentIsShown
