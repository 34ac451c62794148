---------------------------- MODULE OrderPayment ----------------------------
(***************************************************************************)
(* Orders, payment intents, the provider, the callback worker and the      *)
(* administrator, composed: every interleaving of their transactions and   *)
(* provider calls, with crashes, lost answers and redelivery.              *)
(***************************************************************************)
EXTENDS PaymentProvider, StorePayments, LateRefunds, PaymentReconciliation

\* A process dies, or its request fails, between any two steps.
Crash(p) ==
  /\ CallsMayBeLost
  /\ proc[p].pc # "idle"
  /\ Return(p)
  /\ UNCHANGED <<order, expired, stock, intent, inbox, refund, outside>>

PaymentResults == {"SUCCEEDED", "FAILED", "CANCELLED"}

\* The steps of the outside world: customers, the clock, the provider.
World ==
  \/ \E o \in Orders : CreateOrder(o) \/ ExpiryPasses(o)
  \/ \E i \in Intents, result \in PaymentResults : SubmitResult(i, result)
  \/ \E i \in Intents : DeliverResult(i)
  \/ AbandonedCommandRuns

Pay(p) == \E o \in Orders : PreparePaymentIntent(p, o)
Cancel(p) == \E o \in Orders : CancelOrder(p, o)
Timeout(p, o) == ClaimNextOrderClose(p, o) \/ ExpireNextOrder(p, o)
Reconcile(p) == \E i \in Intents : StartReconciliation(p, i)

\* A step of a request or job that is under way.
Continue(p) ==
  \/ QueryProvider(p) \/ CreateAtProvider(p) \/ CloseAtProvider(p) \/ RefundAtProvider(p)
  \/ RevalidateProviderCreate(p) \/ RecordProviderOutcome(p)
  \/ FinalizeOrderClose(p)
  \/ ApplyPaymentCallback(p) \/ MarkProcessed(p)
  \/ ClaimLateRefund(p) \/ FinalizeLateRefund(p) \/ RetryLateRefund(p)
  \/ ReceiveForReconciliation(p) \/ RequeueCallback(p) \/ RepairTerminalClose(p)

Next ==
  \/ World
  \/ \E p \in Payers : Pay(p)
  \/ \E p \in Cancellers : Cancel(p)
  \/ \E p \in TimeoutWorkers, o \in Orders : Timeout(p, o)
  \/ \E p \in Admins : Reconcile(p)
  \/ \E p \in CallbackWorkers, i \in Intents : TakeCallback(p, i)
  \/ \E p \in Procs : Continue(p) \/ CallTimesOut(p) \/ Crash(p)

Spec == Init /\ [][Next]_vars

--------------------------------
\* Safety.

Holding(status) == {o \in Orders : order[o].reservation = status}

\* Stock is conserved: what is locked is exactly what open orders hold,
\* what is gone is exactly what was sold, and no piece is promised twice.
\* Creation, the three ways to close and settlement race to change it.
StockConserved ==
  /\ locked = Qty * Cardinality(Holding("ACTIVE"))
  /\ physical = InitialStock - Qty * Cardinality(Holding("CONSUMED"))
  /\ locked <= physical

\* An order has at most one intent a customer could still be paying.
OneActiveIntent ==
  \A o \in Orders : \A i, j \in ActiveOf(o) : i = j

PaidOf(o) == {i \in IntentsOf(o) : Paid(i)}

\* An order is PAID exactly when one of its intents, and only one, has a
\* successful attempt, and the provider really holds that money: however
\* often callbacks are redelivered, crossed or replayed.
PaidExactlyOnce ==
  \A o \in Orders :
    /\ order[o].payment = "PAID" <=> PaidOf(o) # {}
    /\ \A i, j \in PaidOf(o) : i = j
    /\ \A i \in PaidOf(o) : provider[i].state = "SUCCEEDED" /\ intent[i].status = "SUCCEEDED"

\* Goods leave the stock only for money paid before the order expired, and
\* an order that gave its stock back is never the one that is shipped.
GoodsOnlyForMoney ==
  \A o \in Orders :
    /\ order[o].reservation = "CONSUMED" <=> order[o].status = "PENDING_SHIPMENT"
    /\ order[o].reservation = "CONSUMED" =>
         \E i \in PaidOf(o) : intent[i].attempt = "SUCCEEDED" /\ ~provider[i].late
    /\ order[o].reservation \in {"RELEASED", "EXPIRED"} <=> order[o].status = "CLOSED"

\* Money is sent back only for a closed order whose stock was given back,
\* whether the provider has run the refund or still may.
NeverGoodsAndRefund ==
  \A o \in Orders :
    (returned[o] \/ \E i \in IntentsOf(o) : <<"REFUND", i>> \in wire) =>
      /\ order[o].status = "CLOSED"
      /\ \E i \in PaidOf(o) : intent[i].attempt = "SUCCEEDED_LATE"

\* A closed order with money in it has exactly one refund under way, done,
\* or waiting for a person, and says which; a refund called done was done.
LateMoneyTracked ==
  \A o \in Orders :
    /\ refund[o] # "NONE" <=> \E i \in IntentsOf(o) : intent[i].attempt = "SUCCEEDED_LATE"
    /\ refund[o] # "NONE" =>
         /\ order[o].status = "CLOSED"
         /\ order[o].resolution =
              CASE refund[o] \in {"PENDING", "PROCESSING"} -> "LATE_SUCCESS_REFUND_PENDING"
                [] refund[o] = "SUCCEEDED" -> "LATE_SUCCESS_REFUNDED"
                [] OTHER -> "MANUAL_REQUIRED"
    /\ refund[o] = "SUCCEEDED" => returned[o]

\* An intent the shop knows at the provider and has given up cannot be
\* paid in the ordinary way any more.
GivenUpIsNotPayable ==
  \A i \in Intents :
    intent[i].located /\ intent[i].status \in Terminal => provider[i].state # "OPEN"

--------------------------------
\* What a step may never do.

\* An order that was closed or sold stays so, with its reason, and the
\* money of a settled order is never taken out of it again.
OutcomeIsFinal ==
  [][\A o \in Orders :
       order[o].status \in {"CLOSED", "PENDING_SHIPMENT"} =>
         /\ order'[o].status = order[o].status
         /\ order'[o].closeReason = order[o].closeReason
         /\ order'[o].reservation = order[o].reservation
         /\ order[o].payment = "PAID" => order'[o].payment = "PAID"]_vars

\* While money was seen on an intent that is still active, its order is
\* not closed under it; closing takes a fresh, definitive answer.
SeenMoneyKeepsOrder ==
  [][\A i \in Intents :
       /\ intent[i].status \in Active
       /\ intent[i].sawSuccess
       /\ order[OrderOf(i)].status = "PENDING_PAYMENT"
       => order'[OrderOf(i)].status # "CLOSED"]_vars
=============================================================================
