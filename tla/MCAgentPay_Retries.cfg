SPECIFICATION Spec
CONSTANTS
  None = None
  inv = inv
  plain = plain
  bill = bill
  owner = owner
  Payments = {p1, p2}
  Keys = {k1, k2}
  Principals = {owner}
  PrincipalOf <- MCPrincipalOf
  Contents = {plain, bill}
  Invoices = {inv}
  InvoiceOf <- MCInvoiceOf
  Calls = {c1, c2}
  MaxSessions = 2
  EvictBatch = 1
  MaxOpen = 1
  MaxRecords = 2
  KeptRecords = 1
  KeptSettled = 1
  MaxCrashes = 1
SYMMETRY MCSymmetry
INVARIANTS
  SessionsReserve
  AnswersKept
  InvoiceExplained
CHECK_DEADLOCK FALSE
