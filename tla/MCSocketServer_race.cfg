\* As it is: a slot may be taken at any moment at which it is free.
SPECIFICATION SocketSpec
CONSTANTS
  s1 = s1
  s2 = s2
  Svc = {s1, s2}
  MAX_SOCKET = 2
  MaxId = 3
  MaxOps = 3
  Quiet = FALSE
CHECK_DEADLOCK FALSE
INVARIANT NoAssertionFails
