\* An upload of three files, of two chunks, one and none, indexed and re-indexed once
\* while a run's calls fail or lose their reply, the process dies and the settings change.
SPECIFICATION Spec
CONSTANTS
  p1 = p1
  p2 = p2
  p3 = p3
  a = a
  b = b
  c = c
  t1 = t1
  t2 = t2
  Sources = {s1}
  Parts = {p1, p2, p3}
  Names = {a, b, c}
  NameOf <- NameOfDistinct
  Spans <- SpansTwoOneZero
  Targets = {t1, t2}
  NoTarget = NoTarget
  Runs = {r1, r2}
  Requests = {q1}
  MaxConcurrent = 1
  Failing <- RunFaults
  Lossy <- RunFaults
  None = None
SYMMETRY Symmetry
INVARIANTS NoIndexCollision OneModelPerSource IndexedIsSearchable
CHECK_DEADLOCK FALSE
