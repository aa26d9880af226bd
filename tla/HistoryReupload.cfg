SPECIFICATION Spec
CONSTANTS
  a = a  b = b  c = c
  Null = Null  Unmapped = Unmapped  Undeclared = Undeclared
  Provider <- ThreeProviders  Text <- ChainTexts  Day <- TwoDays  BatchSize = 1
  MaxUploads = 2  MaxItems = 4  MaxPasses = 0  MaxEdits = 0  MaxFaults = 0
INVARIANT OneRowPerEntry
CHECK_DEADLOCK FALSE
