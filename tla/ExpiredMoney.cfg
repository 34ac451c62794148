\* Paid after the expiry, before the shop closed the order.
SPECIFICATION FairSpec
CONSTANTS
  Orders = {o1}
  Slots = {s1}
  Qty = 1
  InitialStock = 1
  MaxRetries = 2
  Payers = {payer}
  Cancellers = {}
  TimeoutWorkers = {timeout}
  Admins = {}
  CallbackWorkers = {w1}
  SettlementMayFail = FALSE
  CallsMayBeLost = FALSE
PROPERTIES
  ExpiredMoneyIsRecorded
\* Settled and closed orders with nothing left to do are the normal end.
CHECK_DEADLOCK FALSE
