SPECIFICATION Spec
CONSTANTS
  c1 = c1
  c2 = c2
  p1 = p1
  p2 = p2
  p3 = p3
  p4 = p4
  Channels = {c1, c2}
  Payments = {p1, p2, p4}
  Hops <- MCHops
  Amount <- MCAmount
  Opening <- MCOpening
  Local = {p2}
  Coordinated = {}
  Participated = {p1, p4}
  MaxCrashes = 1
INVARIANTS
  RestartServes
CHECK_DEADLOCK FALSE
