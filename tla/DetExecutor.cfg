SPECIFICATION Spec
CONSTANTS
  Boot = 1
  MaxActors = 3
  MaxSteps = 3
  MaxCalls = 2
  Ops <- AllOps
  Args = {p}
  Results = {r1, r2}
  None = None
SYMMETRY Symmetry
INVARIANTS RunQueueSound ReplayReproduces
PROPERTIES HandlesNeverRetarget DeadlockIsReal
CHECK_DEADLOCK FALSE
