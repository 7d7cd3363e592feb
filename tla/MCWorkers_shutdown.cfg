\* Callbacks return; s1 is the harbor service, which outlives the others.
SPECIFICATION Spec
CONSTANTS
  w1 = w1
  w2 = w2
  s1 = s1
  s2 = s2
  NULL = NULL
  Worker = {w1, w2}
  Weight <- MixedWeights
  Service = {s1, s2}
  Boot = {s2}
  Endless = {}
  Reserved = {s1}
  MaxLen = 1
PROPERTIES
  ShutdownCompletes
