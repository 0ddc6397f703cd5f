SPECIFICATION SafeSpec
CONSTANTS
  empty = empty
  short = short
  long = long
  Msgs = {short, long}
  Size <- Sizes
  Actions <- Counts
  MaxConns = 2
  MaxThrows = 0
INVARIANT OnlyGenuineShown
