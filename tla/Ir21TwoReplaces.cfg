SPECIFICATION Spec
CONSTANTS
  m1 = m1  m2 = m2  p1 = p1  p2 = p2  r1 = r1  r2 = r2  a1 = a1
  Null = Null  Unmapped = Unmapped  Undeclared = Undeclared
  Provider <- TwoProviders  Admin <- OneAdmin
  Mno <- OneMno  Upload <- TwoUploads  NumService = 1
  Overlap = "any"
  MaxUploads = 2  MaxFiles = 1  MaxEdits = 0  MaxResets = 0  MaxFaults = 0  MaxMoved = 0
INVARIANTS AtMostOneActiveBaseline
CHECK_DEADLOCK FALSE
