\* One service to begin with and one to launch; the properties about what
\* must happen, and the refinement of Mailbox.
SPECIFICATION Spec
CONSTANTS
  s1 = s1
  s2 = s2
  s3 = s3
  w1 = w1
  w2 = w2
  o1 = o1
  NULL = NULL
  Service = {s1, s2}
  Boot = {s1}
  Worker = {w1, w2}
  Outside = {o1}
  Weight <- EqualWeights
  MaxSend = 3
  MaxOps = 1
CHECK_DEADLOCK FALSE
PROPERTIES
  AllSettles
  ImplementsMailbox
