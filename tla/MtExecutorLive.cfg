CONSTANTS
  a1 = a1
  a2 = a2
  w1 = w1
  w2 = w2
  w3 = w3
  Actors = {a1}
  Root = root
  Workers = {w1, w2}
  Ctl = ctl
  Width = 1
  MaxMail = 1
  None = none
SPECIFICATION FairSpec
PROPERTIES
  
  QuietCallReturns
  CallReturns
CHECK_DEADLOCK FALSE
