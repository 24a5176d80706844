CONSTANTS
  a1 = a1
  a2 = a2
  w1 = w1
  w2 = w2
  w3 = w3
  Actors = {}
  Root = root
  Workers = {w1, w2}
  Ctl = ctl
  Width = 2
  MaxMail = 1
  None = none
SPECIFICATION Spec
INVARIANT FetchHasPump
CHECK_DEADLOCK FALSE
