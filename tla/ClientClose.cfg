SPECIFICATION SafeSpec
CONSTANTS
  empty = empty
  short = short
  long = long
  Msgs = {short}
  Size <- Sizes
  Actions <- Counts
  MaxConns = 1
  MaxThrows = 0
INVARIANT ReceivedIsParsed
