SPECIFICATION RelativeSpec
CONSTANTS
  MaxUint = 1048575
  Unset = Unset
  NaN = NaN
  PosInfinity = PosInfinity
  NegInfinity = NegInfinity
  None = None
  CompactEntries <- MCCompactEntries
  RuleOptions <- MCRuleOptions
  Values <- MCValues
  CurrencyDigits = 2
  Grouping <- MCGrouping
  RelativeOptions <- MCRelativeOptions
  FieldsFor <- MCFieldsFor
  UnitNames = {"day", "days", "hour", "fortnight"}
  Offsets <- MCOffsets
INVARIANTS
  IntegerPathAgrees
  EqualTextsSelectAlike
  OperandsExact
  PhrasesTold
