\* Four threads that lock, an array that grows from 2 to 4 slots, two timers, three packages, two services that are called, two readers
\* of an object, two slots for three ids of sockets.
SPECIFICATION PartsSpec
CONSTANTS
  t1 = t1
  t2 = t2
  t3 = t3
  t4 = t4
  Thread = {t1, t2, t3, t4}
  m1 = m1
  m2 = m2
  Nothing = Nothing
  Msg = {m1, m2}
  DEFAULT_QUEUE_SIZE = 2
  MQ_OVERLOAD = 1
  MaxCap = 4
  a = a
  b = b
  h1 = h1
  h2 = h2
  none = none
  Timer = {a, b}
  TIME_NEAR = 2
  TIME_LEVEL = 2
  MaxDelay <- DelayOf
  MaxDiff = 1
  Ctx = {h1, h2}
  None = none
  MaxCalls = 3
  r1 = r1
  r2 = r2
  Reader = {r1, r2}
  MaxCopy = 3
  s1 = s1
  s2 = s2
  Svc = {s1, s2}
  MAX_SOCKET = 2
  MaxId = 3
  MaxOps = 3
  Quiet = TRUE
CHECK_DEADLOCK FALSE
INVARIANTS
  LockSound
  CopiesShared
  
  TimersInPlace
PROPERTIES
  ImplementsFifo
  ImplementsDeadlines
  SentInOrder
  
  NobodyIsForgotten
