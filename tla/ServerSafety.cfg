SPECIFICATION SafeSpec
CONSTANTS
  m1 = m1
  m2 = m2
  Msgs = {m1, m2}
  _tasks = {m1}
  Size <- Sizes
  Peers = {p1, p2}
  Fds = {3, 4, 5}
  NB_CONNECTION = 2
  MaxStarts = 2
  MaxThrows = 1
SYMMETRY Symmetry
INVARIANTS
  TypeOK
  BooksAgree
  RepliesReachTheirClient
  ConnectedSenderIsNamed
  UncutStreamIsWhole
