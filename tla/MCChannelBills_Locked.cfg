SPECIFICATION Spec
CONSTANTS
  ch = ch
  pay = pay
  back = back
  Channels = {ch}
  Payments = {pay}
  Hops <- MCHops
  Amount <- MCAmount
  Opening <- MCOpening
  MaxSequence = 1
  MaxBalance = 1
  MaxProposals = 1
  MaxRegistrations = 0
INVARIANTS
  ReservedStaysLocked
CHECK_DEADLOCK FALSE
