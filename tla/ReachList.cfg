SPECIFICATION Spec
CONSTANTS
  c1 = c1  c2 = c2  z1 = z1  n1 = n1  n2 = n2  n3 = n3  p1 = p1  p2 = p2
  f1 = f1  f2 = f2  r1 = r1  r2 = r2  a1 = a1
  Null = Null
  Code <- Codes  Pool = {z1}  Name <- Names  Similar <- SimilarNames
  Provider = {p1, p2}  Seeded = {p1}  Service = {"SCCP", "IPX"}  File = {f1, f2}
  Row <- Rows  Rosters <- RosterSet  Ir21 <- Ir21Files  Selection <- Selections
  Upload = {r1, r2}  Admin = {a1}
  MaxInFlight = 2  MaxUploads = 2  MaxRows = 2  MaxFiles = 1  MaxEdits = 1  MaxFaults = 1
SYMMETRY RequestSymmetry
INVARIANTS TypeOK OtherFilesKeepTheirRows OverriddenIsApplied
PROPERTIES ReplaceIsExact NothingUnplacedVanishes DecisionsOutliveUploads
CHECK_DEADLOCK FALSE
