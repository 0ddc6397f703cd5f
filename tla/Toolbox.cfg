SPECIFICATION ToolboxSpec
CONSTANTS
  Bytes = {0, 1, 2}
  Cap = 3
  Refused = Refused
  Holders = {a, b}
  MaxSize = 3
  MaxStack = 3
  Data = {1, 2}
  MaxNodes = 5
  LogThreads = {t1, t2}
  Names = {day, night}
  Levels = {0, 1}
  Closed = Closed
  Observers = {1, 2, 3}
  Contents = {a, b}
  MaxNesting = 3
  Events = {e1, e2}
  MaxSubscriptions = 5
  TState = {s1, s2, s3}
  MaxLambdas = 2
  MaxEntries = 4
  MaxTimestamps = 6
  Width = 8
  Cells = {1, 7}
  MaxBytes = 5
  Strings <- SmallStrings
  Layout <- FourMembers
  Objects <- SmallObjects
  Users = {u1, u2}
  MaxObjects = 3
INVARIANTS
  IndicesAgree
  PoolIsSound
  TraversalsAgree
  FileIsNamed
  SubscribersAreCurrent
  NewcomersWait
  ElapsedIsPaired
  ReadsBackWhatWasWritten
  LoadRestores
  OneInstanceHandedOut
PROPERTIES
  ImplementsFifo
  MovesFollowTransitions
CHECK_DEADLOCK FALSE
