SPECIFICATION Spec
CONSTANTS
  ch = ch
  pay = pay
  back = back
  Channels = {ch}
  Payments = {pay, back}
  Hops <- MCHops
  Amount <- MCAmount
  Opening <- MCOpening
  MaxSequence = 3
  MaxBalance = 1
  MaxProposals = 2
  MaxRegistrations = 1
INVARIANTS
  SumKept
  InductiveInv
PROPERTIES
  BillChain
CHECK_DEADLOCK FALSE
