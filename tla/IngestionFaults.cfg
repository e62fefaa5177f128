\* One source of one file, every call may fail or lose its reply, the process
\* may die, and the settings change.
SPECIFICATION Spec
CONSTANTS
  p1 = p1
  p2 = p2
  p3 = p3
  a = a
  b = b
  c = c
  t1 = t1
  t2 = t2
  Sources = {s1}
  Parts = {p1}
  Names = {a}
  NameOf <- NameOfOne
  Spans <- SpansOne
  Targets = {t1, t2}
  NoTarget = NoTarget
  Runs = {r1, r2}
  Requests = {q1, q2}
  MaxConcurrent = 1
  Failing <- AllCalls
  Lossy <- AllCalls
  None = None
SYMMETRY Symmetry
INVARIANTS TypeOK OneWorkerPerSource RowGoesLast SlotsAreHeld
PROPERTIES EmptiedOnlyAfterResolve LifecycleSpec
CHECK_DEADLOCK FALSE
