\* One order whose settlement may lack a fact: an administrator reconciles
\* while the workers go on, with crashes and lost calls.
SPECIFICATION Spec
CONSTANTS
  Orders = {o1}
  Slots = {s1}
  Qty = 1
  InitialStock = 1
  MaxRetries = 2
  Payers = {payer}
  Cancellers = {}
  TimeoutWorkers = {timeout}
  Admins = {admin}
  CallbackWorkers = {w1}
  SettlementMayFail = TRUE
  CallsMayBeLost = TRUE
INVARIANTS
  LateMoneyTracked
PROPERTIES
  PromiseKept
\* Settled and closed orders with nothing left to do are the normal end.
CHECK_DEADLOCK FALSE
