SPECIFICATION Spec
CONSTANTS
  a = a  b = b  c = c
  Null = Null  Unmapped = Unmapped  Undeclared = Undeclared
  Provider <- TwoProviders  Text <- AdditionTexts  Day <- TwoDays  BatchSize = 4
  MaxUploads = 1  MaxItems = 2  MaxPasses = 1  MaxEdits = 0  MaxFaults = 0
PROPERTY PassCountsGainOnce
CHECK_DEADLOCK FALSE
