SPECIFICATION Spec

CONSTANTS
  s1 = s1  s2 = s2
  t1 = t1  t2 = t2  t3 = t3  u1 = u1  u2 = u2
  d1 = d1  d2 = d2  d3 = d3
  None = None
  Schedulers = {s1, s2}
  Tasks = {t1, t2, t3, u1, u2}
  Threads = {d1, d2, d3}
  Limit <- MCLimit
  SchedulerOf <- MCSchedulerOf
  Awaits <- MCAwaits
  Runs <- MCRuns

INVARIANTS
  TypeOK
  ConcurrencyLimited
  ListIsServed
  OnePlace

PROPERTY
  EveryTaskEnds

CHECK_DEADLOCK FALSE
