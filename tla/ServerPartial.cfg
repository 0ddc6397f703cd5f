SPECIFICATION SafeSpec
CONSTANTS
  m1 = m1
  m2 = m2
  Msgs = {m1}
  _tasks = {m1}
  Size <- Sizes
  Peers = {p1}
  Fds = {3, 4, 5}
  NB_CONNECTION = 2
  MaxStarts = 1
  MaxThrows = 0
INVARIANT PartialMessagesAreKept
