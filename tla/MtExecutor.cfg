CONSTANTS
  a1 = a1
  a2 = a2
  w1 = w1
  w2 = w2
  w3 = w3
  Actors = {a1, a2}
  Root = root
  Workers = {w1, w2, w3}
  Ctl = ctl
  Width = 1
  MaxMail = 1
  None = none
SPECIFICATION Spec
INVARIANTS
  RunnableInOnePlace
  CountersExact
  BoundForGood
PROPERTIES
  RunCompletesQuiet
  DeadlockIsReal
SYMMETRY MCSymmetry
CHECK_DEADLOCK FALSE
