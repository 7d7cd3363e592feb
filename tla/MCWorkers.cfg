\* Two workers of different weights, a callback of s1 may never return.
SPECIFICATION Spec
CONSTANTS
  w1 = w1
  w2 = w2
  s1 = s1
  s2 = s2
  NULL = NULL
  Worker = {w1, w2}
  Weight <- MixedWeights
  Service = {s1, s2}
  Boot = {s1}
  Endless = {s1}
  Reserved = {}
  MaxLen = 1
INVARIANTS
  SleepSound
  ShutdownIsFinal
PROPERTIES
  ListedIsTaken
