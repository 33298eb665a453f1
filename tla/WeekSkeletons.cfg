SPECIFICATION Spec
CONSTANTS
  None = None
  NarrowSpace = "_"
  Spaces = {" ", "~", "="}
  Gregorian <- MCGregorianOfWeeks
  UtcOffset <- MCUtcOffset
  OptionBags <- MCOptionBags
  Moments <- MCMoments
  Ranges <- MCRanges
INVARIANT
  WeeksNeverSelected
CHECK_DEADLOCK FALSE
