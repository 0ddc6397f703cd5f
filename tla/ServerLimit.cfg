SPECIFICATION Spec
CONSTANTS
  m1 = m1
  m2 = m2
  Msgs = {m2, m3}
  _tasks = {m2, m3}
  Size <- Sizes
  Peers = {p1, p2}
  Fds = {3, 4, 5}
  NB_CONNECTION = 1
  MaxStarts = 1
  MaxThrows = 1
INVARIANTS
  BooksAgree
  UncutStreamIsWhole
PROPERTY SentIsDispatched
