\* Handles wrap at 4, the table grows from 2 to 4 slots; services are launched one
\* at a time, retired and named, also while mtask_handle_retireall goes on.
SPECIFICATION Spec
CONSTANTS
  c1 = c1
  c2 = c2
  c3 = c3
  t1 = t1
  t2 = t2
  t3 = t3
  NULL = NULL
  Ctx = {c1, c2, c3}
  Launcher = {t1}
  Name = {1, 2}
  HANDLE_MASK = 3
  DEFAULT_SLOT_SIZE = 2
  Harbor = 4
  Aborts = TRUE
SYMMETRY Contexts
CONSTRAINT OneNameAtAbort
INVARIANTS
  TableSound
PROPERTIES
  ImplementsHandleMap
  AbortRetiresAll
