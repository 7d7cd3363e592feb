\* A node without a harbor whose handles wrap.
SPECIFICATION Spec
CONSTANTS
  c1 = c1
  c2 = c2
  c3 = c3
  t1 = t1
  t2 = t2
  t3 = t3
  NULL = NULL
  Ctx = {c1, c2, c3}
  Launcher = {t1}
  Name = {}
  HANDLE_MASK = 3
  DEFAULT_SLOT_SIZE = 2
  Harbor = 0
  Aborts = FALSE
INVARIANT ZeroReserved
