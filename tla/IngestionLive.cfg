\* Two sources compete for the one slot of the semaphore; stores, pipeline
\* calls and the claim fail and the process may die, but no status write fails.
SPECIFICATION FairSpec
CONSTANTS
  p1 = p1
  p2 = p2
  p3 = p3
  a = a
  b = b
  c = c
  t1 = t1
  t2 = t2
  Sources = {s1, s2}
  Parts = {p1}
  Names = {a}
  NameOf <- NameOfOne
  Spans <- SpansOne
  Targets = {t1}
  NoTarget = NoTarget
  Runs = {r1, r2}
  Requests = {q1}
  MaxConcurrent = 1
  Failing <- RunCalls
  Lossy <- NoCalls
  None = None
INVARIANT IndexingIsOwned
PROPERTIES IndexingSettles EveryRunEnds
CHECK_DEADLOCK FALSE
