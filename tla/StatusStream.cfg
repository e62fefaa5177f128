\* One client of a source that is indexed three times, with a channel that overflows.
SPECIFICATION FairSpec
CONSTANTS
  Source = src
  Streams = {c1}
  MaxRuns = 3
  Files = 2
  SubBufSize = 2
  WriteFails = TRUE
INVARIANTS BusMatchesStreams WaitingIsServed NoGaps
PROPERTIES LifecycleSteps WaitingEnds
CHECK_DEADLOCK FALSE
