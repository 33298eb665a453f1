SPECIFICATION Spec
CONSTANTS
  Unset = Unset
  NotIntegral = NotIntegral
  Rejected = Rejected
  None = None
  NanosecondsPerUnit <- MCNanoseconds
  CalendarLimit = 3
  NormalizedLimit = 2000000
  Requests <- MCRequests
  Durations <- MCDurations
  Characters <- MCCharacters
  HebrewLetters = {"vav"}
  UnitListPatterns <- MCUnitListPatterns
  ListPatterns <- MCListPatterns
  Lists <- MCLists
CHECK_DEADLOCK FALSE
INVARIANTS
  NothingLost
  SignShownOnce
  ClockIsContiguous
  RefusedForABrokenClock
  ListsNested
PROPERTIES
  RebuildKeepsFormatter
