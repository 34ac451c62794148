\* Two orders over stock for one and a half.
SPECIFICATION MCSpec
SYMMETRY Symmetry
CONSTANTS
  Parts = {"calm"}
  Orders = {o1, o2}
  Slots = {s1}
  Qty = 2
  InitialStock = 3
  MaxRetries = 2
  Payers = {payer}
  Cancellers = {canceller}
  TimeoutWorkers = {}
  Admins = {}
  CallbackWorkers = {w1}
  SettlementMayFail = FALSE
  CallsMayBeLost = FALSE
INVARIANTS
  StockConserved
\* Settled and closed orders with nothing left to do are the normal end.
CHECK_DEADLOCK FALSE
