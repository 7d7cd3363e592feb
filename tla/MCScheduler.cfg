\* One service that asks once and is called and goes down; three coroutines, two errors;
\* a user with three connections and two sessions; shared data with two clients, three objects;
\* three requests of two nodes, of which one is in two parts; three
\* clients of a gate server for two.
SPECIFICATION PartsSpec
CONSTANTS
  c1 = c1
  c2 = c2
  c3 = c3
  x = x
  r1 = r1
  l1 = l1
  l2 = l2
  l3 = l3
  n1 = n1
  n2 = n2
  NULL = NULL
  BREAK = BREAK
  Co = {c1, c2, c3}
  Service = {x}
  Request = {r1}
  From <- Asker
  MaxSession = 2
  MaxThrow = 2
  Client = {d1, d2}
  MaxObj = 3
  MaxDelete = 1
  Fds = {1, 2, 3}
  ClientSession = {s1, s2}
  expired_number = 1
  MaxRun = 2
CHECK_DEADLOCK FALSE
INVARIANTS
  SessionsAgree
  CallersTold
  
  ClientsServed
PROPERTIES
  AllResume
  RequestsAnswered
  CallsAnswered
