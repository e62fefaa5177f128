SPECIFICATION Spec
CONSTANTS
  MaxLines = 5
  SizeOf <- MCSizeOf
  TargetChars = 6
  MaxChars = 10
  MaxRetries = 2
  InitialDelay = 1
  RetryAfters <- MCRetryAfters
  Durations = {2}
  Deadline = 8
INVARIANTS NothingIsLost FencesStayWhole SectionsAreNamed TextIsPacked EachPointIsItsRow
