\* Leases and locks of the mall, one part after the other.
SPECIFICATION LeasesSpec
SYMMETRY Alike
CONSTANTS
  Parts = {"slow", "prompt", "outbox", "uploads", "promotions"}
  Attempts = {a1, a2}
  Tries = {t1, t2, t3}
  Subjects = {s1, s2}
  Sources = {i1}
  Nobody = Nobody
  Max = 2
  Slow = TRUE
  MaxWindows = 1
  PromptMax = 1
  Appended = 2
  Lasting = {2}
  Failing = {1}
  Dispatchers = {"w1", "w2"}
  Mishaps = 2
  Pictures = {"f1", "f2"}
  Codes = {"f2"}
  Completions = {"r1", "r2"}
  Cleaners = {"w1", "w2"}
  Slips = 2
  Batch = 2
  Retries = 2
  StagingRetries = 1
INVARIANTS
  AttemptsAgree
  LeasesHold
PROPERTIES
  SlowIsHarmless
\* Every event published or given up, every file settled, is an end.
CHECK_DEADLOCK FALSE
