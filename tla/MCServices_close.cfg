\* A socket that is closed while another coroutine reads it.
SPECIFICATION Spec
CONSTANTS
  h1 = h1
  h2 = h2
  h3 = h3
  n1 = n1
  n2 = n2
  t1 = t1
  t2 = t2
  t3 = t3
  q1 = q1
  q2 = q2
  q3 = q3
  q4 = q4
  m1 = m1
  SERVICE = SERVICE
  Thread = {t1, t2, t3}
  Nobody = Nobody
  MaxRef = 2
  MaxWaits = 4
  Client = {q1, q2, q3, q4}
  Remote = {m1}
  Manager <- ManagerOf
  Slave = {h1, h2, h3}
  MaxDead = 1
  Near = {near}
  Far = {far1, far2}
  MaxOps = 4
  MaxPub = 1
  Harbor = {h1, h2, h3}
  Self = h1
  Name = {n1, n2}
  Home <- HomeOf
  MaxMsg = 3
  r1 = r1
  r2 = r2
  r3 = r3
  outsider = outsider
  a1 = a1
  NULL = NULL
CHECK_DEADLOCK FALSE
INVARIANT ReadersFirst
