\* Two chunks of a source that a run replaces by one, a chunk of another source,
\* an orphan point and another workspace's chunk; the service's constants
\* scaled down so that the pool and top_k both cut.
SPECIFICATION Spec
CONSTANTS
  Chunks = {o1, n1, t1, t2, g1, x1}
  Former = {o1}
  Fresh = {n1}
  Foreign = {x1}
  Orphans = {g1}
  Queries = {{}, {o1, n1, t1, x1}}
  TopKs = {0, 1, 2, 3}
  DefaultTopK = 1
  MaxTopK = 2
  PoolMultiplier = 2
  MinPool = 3
  RRFK = 60
  Scores = {1, 2}
INVARIANTS FusionRespectsBoth NoGhosts BestAreAnswered QuietQueryFinds
