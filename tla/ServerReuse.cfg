SPECIFICATION SafeSpec
CONSTANTS
  m1 = m1
  m2 = m2
  Msgs = {m2}
  _tasks = {m2}
  Size <- Sizes
  Peers = {p1, p2}
  Fds = {3, 4, 5}
  NB_CONNECTION = 1
  MaxStarts = 1
  MaxThrows = 0
INVARIANT CallbackKnowsItsClient
