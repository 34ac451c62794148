\* One order: workers that may be killed, calls that may be lost.
SPECIFICATION FairSpec
CONSTANTS
  Orders = {o1}
  Slots = {s1}
  Qty = 1
  InitialStock = 1
  MaxRetries = 2
  Payers = {payer}
  Cancellers = {}
  TimeoutWorkers = {timeout}
  Admins = {}
  CallbackWorkers = {w1}
  SettlementMayFail = TRUE
  CallsMayBeLost = TRUE
PROPERTIES
  OpenOrdersEnd
  PromptMoneyIsRecorded
  LateMoneyIsAnswered
\* Settled and closed orders with nothing left to do are the normal end.
CHECK_DEADLOCK FALSE
