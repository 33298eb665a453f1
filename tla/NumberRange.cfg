SPECIFICATION Spec
CONSTANTS
  MaxUint = 1048575
  Unset = Unset
  None = None
  NaN = NaN
  PosInfinity = PosInfinity
  NegInfinity = NegInfinity
  OptionBags <- MCOptionBags
  Affixes <- MCAffixes
  Values <- MCValues
  BidiMarks <- MCBidiMarks
  Space = "_"
  CurrencyDigits = 2
  CompactEntries <- MCCompactEntries
  Grouping <- MCGrouping
INVARIANTS
  TakenApart
  WrappersPaired
  SignsSetOff
