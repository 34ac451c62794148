\* One order: two successive intents, or one intent and every fault.
SPECIFICATION MCSpec
SYMMETRY Symmetry
CONSTANTS
  Parts = {"calm", "rough"}
  Orders = {o1}
  Slots = {s1, s2}
  Qty = 1
  InitialStock = 1
  MaxRetries = 2
  Payers = {payer}
  Cancellers = {canceller}
  TimeoutWorkers = {timeout}
  Admins = {}
  CallbackWorkers = {w1, w2}
  SettlementMayFail = FALSE
  CallsMayBeLost = TRUE
INVARIANTS
  OneActiveIntent
  PaidExactlyOnce
  NeverGoodsAndRefund
  GoodsOnlyForMoney
  GivenUpIsNotPayable
PROPERTIES
  OutcomeIsFinal
  SeenMoneyKeepsOrder
\* Settled and closed orders with nothing left to do are the normal end.
CHECK_DEADLOCK FALSE
