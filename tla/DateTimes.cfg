SPECIFICATION Spec
CONSTANTS
  None = None
  NarrowSpace = "_"
  Spaces = {" ", "~", "="}
  Gregorian <- MCGregorian
  UtcOffset <- MCUtcOffset
  OptionBags <- MCOptionBags
  Moments <- MCMoments
  Ranges <- MCRanges
INVARIANTS
  FieldsShown
  ClockShown
  RangeTold
  InstantTruncated
CHECK_DEADLOCK FALSE
