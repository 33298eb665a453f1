SPECIFICATION Spec
CONSTANTS
  Unset = Unset
  None = None
  NaN = NaN
  PosInfinity = PosInfinity
  NegInfinity = NegInfinity
  OptionBags <- MCOptionBags
  Values <- MCValues
  Literals <- MCLiterals
  ErrInvalidDecimal = ErrInvalidDecimal
  Overflow <- MCOverflow
  Underflow <- MCUnderflow
  MaxMagnitude = 3
  MinMagnitude <- MCMinMagnitude
  MinExponent <- MCMinExponent
  MaxExponent = 4
  CurrencyDigits = 2
  CompactEntries <- MCCompactEntries
  Grouping <- MCGrouping
CHECK_DEADLOCK FALSE
INVARIANTS
  CorrectlyRounded
  TextShowsRounded
  RoundingSettles
  GroupsCoverDigits
  CallerIsObeyed
  NumeralsExact
PROPERTIES
  OrderPreserved
  ResolvedOptionsRoundTrip
