SPECIFICATION Spec
CONSTANTS
  m1 = m1  m2 = m2  p1 = p1  p2 = p2  r1 = r1  r2 = r2  a1 = a1
  Null = Null  Unmapped = Unmapped  Undeclared = Undeclared
  Provider <- TwoProviders  Admin <- OneAdmin
  Mno <- TwoMnos  Upload <- OneUpload  NumService = 1
  Overlap = "none"
  MaxUploads = 3  MaxFiles = 2  MaxEdits = 1  MaxResets = 0  MaxFaults = 1  MaxMoved = 1
VIEW SerialView
SYMMETRY SerialSymmetry
INVARIANTS GridFollowsDeclaration LogEndsAtGrid
PROPERTIES RedeclaredIsSilent ReplaceLeavesOnlyItsBatch ImplementsGridTruth
CHECK_DEADLOCK FALSE
