CONSTANTS
  p1 = p1
  j1 = j1
  j2 = j2
  c1 = c1
  c2 = c2
  Jobs = {p1, j1, j2}
  PriorityJobs = {p1}
  Consumers = {c1, c2}
  NULL = NULL
SPECIFICATION FairLinkedSpec
INVARIANTS
  ListIntact
PROPERTIES
  ImplementsQueue
  EveryJobFreed
  ShutdownReachesAll
