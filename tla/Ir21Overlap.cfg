SPECIFICATION Spec
CONSTANTS
  m1 = m1  m2 = m2  p1 = p1  p2 = p2  r1 = r1  r2 = r2  a1 = a1
  Null = Null  Unmapped = Unmapped  Undeclared = Undeclared
  Provider <- TwoProviders  Admin <- OneAdmin
  Mno <- OneMno  Upload <- TwoUploads  NumService = 1
  Overlap = "oneReplace"
  MaxUploads = 2  MaxFiles = 1  MaxEdits = 1  MaxResets = 1  MaxFaults = 1  MaxMoved = 1
VIEW OverlapView
SYMMETRY OverlapSymmetry
INVARIANTS TypeOK AtMostOneActiveBaseline PinnedOnlyByRule
CHECK_DEADLOCK FALSE
