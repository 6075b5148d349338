SPECIFICATION Spec
CONSTANTS
  None = None
  Parties = {left, right}
  s1 = s1
  s2 = s2
  t2 = t2
  r1 = r1
  f1 = f1
  f2 = f2
  terms = terms
  States = {s1, s2, t2, r1}
  Fundings = {f1, f2}
  Terms = {terms}
  Sequence <- MCSequence
  Previous <- MCPrevious
  FundingOf <- MCFundingOf
  TermsOf <- MCTermsOf
  Life <- MCLife
  MaxProofs = 1
  Calls = {c1, c2}
  MaxRequests = 5
  MCOverlapping = 2
  MaxRegisters = 1
  MaxSaves = 1
  MaxCrashes = 1
SYMMETRY MCSymmetry
CONSTRAINT Overlap
INVARIANTS
  EvidenceAgrees
  AckedStands
  RefusalExplained
CHECK_DEADLOCK FALSE
