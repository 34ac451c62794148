\* The workers of the mall, one part after the other.
SPECIFICATION WorkersSpec
CONSTANTS
  Parts = {"retry", "outbox", "uploads", "queue", "starved", "pages"}
  Workers = {w1, w2}
  MaxAttempts = 3
  MaxFaults = 2
INVARIANTS
  BooksAgree
PROPERTIES
  KeepsPromise
  GivenBackIsBooked
  WorkEnds
  QueueMovesOn
\* A refund that is paid, a queue that is empty, is an end.
CHECK_DEADLOCK FALSE
