SPECIFICATION Spec
CONSTANTS
  m1 = m1  m2 = m2  t1 = t1  t2 = t2  g = g  others = others  p1 = p1  p2 = p2
  i1 = i1  i2 = i2  a1 = a1  a2 = a2
  Null = Null  Junk = Junk  Dsx = "DSX"  Others = others
  Mno <- Mnos  Service <- Services  Text <- Texts  Generic <- Generics
  Similar <- SimilarTexts  Provider <- Providers  Seeded <- Seeds  File <- Files
  Ingest <- Ingests  Admin <- Admins  ReachLists <- Reaches
  MaxRequests = 3  MaxFaults = 1
SYMMETRY RequestSymmetry
INVARIANTS TypeOK CacheFollowsTable TriageIsComplete ResolvedSightingsAreFilled
  PagesAgree ExclusiveIsAlone ChartsCountTheTable
PROPERTIES UnforcedDeleteKeepsOldRows
CHECK_DEADLOCK FALSE
