SPECIFICATION MCSpec
CONSTANTS
  v1 = v1
  v2 = v2
  h1 = h1
  h2 = h2
  j1 = j1
  j2 = j2
  t1 = t1
  t2 = t2
  t3 = t3
  root = root
  w1 = w1
  w2 = w2
  Parts = {"processes", "interrupts", "threads", "jobs"}
  Vms = {v1}
  Handles = {h1, h2}
  Pids = {1, 2}
  Fds = {3, 4}
  SpawnEnds = {{"stdin", "stdout"}}
  Nobody = Nobody
  Supervised = {v1, v2}
  Jobs = {j1, j2}
  Threads = {t1, t2, t3}
  Root = root
  None = None
  ResolverLimit = 1
  NoJob = NoJob
  Limit = 2
  Workers = {w1, w2}
  Rows = {1, 2}
  Handled = {1}
  max_attempts = 2
  lock_timeout_seconds = 2
  FirstBackoff = 2
  MaxBackoff = 3
  every_seconds = 2
  Late = 1
  MaxLag = 2
  MaxCrashes = 1
CONSTRAINTS
  FewOwners
  OneInterrupted
  StallsAlone
INVARIANTS
  ChildAwaitsItsOwner
  DescriptorIsItsOwners
  InterruptMeetsCall
  JobsAreHeld
  ThreadsWithinLimit
  ThreadJoinedOnce
  JobRunsAlone
  AttemptsCounted
PROPERTIES
  FiresOncePerInterval
  JobSettles
