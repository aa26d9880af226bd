SPECIFICATION Spec
CONSTANTS
  a = a  b = b  c = c
  Null = Null  Unmapped = Unmapped  Undeclared = Undeclared
  Provider <- TwoProviders  Text <- MixedTexts  Day <- TwoDays  BatchSize = 1
  MaxUploads = 2  MaxItems = 2  MaxPasses = 2  MaxEdits = 1  MaxFaults = 1
INVARIANTS TypeOK SwapIsCredited PassCreditsEveryWin SecondPassIsSilent FreshHistoryIsStable
  MarketFiguresAgree
PROPERTIES InsertsAreNew NamedGainOnce
CHECK_DEADLOCK FALSE
