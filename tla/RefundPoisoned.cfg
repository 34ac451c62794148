\* A worker dies between the inbox and the outbox; the attempt fails and is retried.
SPECIFICATION FairSpec
CONSTANTS
  Workers = {w1, w2}
  MaxAttempts = 2
  MaxFaults = 1
PROPERTIES
  GivenBackIsRecorded
\* A refund that has succeeded and whose events are published is at rest.
CHECK_DEADLOCK FALSE
