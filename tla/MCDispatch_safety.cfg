\* Two services to begin with and one to launch, two workers of different
\* weight, one outside thread.
SPECIFICATION Spec
CONSTANTS
  s1 = s1
  s2 = s2
  s3 = s3
  w1 = w1
  w2 = w2
  o1 = o1
  NULL = NULL
  Service = {s1, s2, s3}
  Boot = {s1, s2}
  Worker = {w1, w2}
  Outside = {o1}
  Weight <- MixedWeights
  MaxSend = 3
  MaxOps = 1
CHECK_DEADLOCK FALSE
INVARIANTS
  LifeCycle
  HandlerAlone
  QueueInOnePlace
  RefCountExact
  NoUseAfterFree
PROPERTIES
  OutcomeIsFinal
