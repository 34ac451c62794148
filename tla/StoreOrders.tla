----------------------------- MODULE StoreOrders -----------------------------
(***************************************************************************)
(* Orders: creation with its stock reservation, and the close protocol of  *)
(* customer cancellation and of the timeout worker: claim the order, ask   *)
(* the provider outside the transaction, finalize.                         *)
(***************************************************************************)
EXTENDS MallState

\* Mutant: the stock check reads the balance before the order's own pieces.
CreateOrderOversold(o) ==
  /\ order[o].status = "NONE"
  /\ locked <= physical
  /\ order' = [order EXCEPT ![o].status = "PENDING_PAYMENT", ![o].reservation = "ACTIVE"]
  /\ locked' = locked + Qty
  /\ UNCHANGED <<expired, physical, intent, inbox, refund, outside, proc>>

CreateOrder(o) ==
  /\ order[o].status = "NONE"
  /\ locked + Qty <= physical
  /\ order' = [order EXCEPT ![o].status = "PENDING_PAYMENT", ![o].reservation = "ACTIVE"]
  /\ locked' = locked + Qty
  /\ UNCHANGED <<expired, physical, intent, inbox, refund, outside, proc>>

\* The clock reaches pay_expires_at of an order.
ExpiryPasses(o) ==
  /\ order[o].status # "NONE"
  /\ ~expired[o]
  /\ expired' = [expired EXCEPT ![o] = TRUE]
  /\ UNCHANGED <<order, stock, intent, inbox, refund, outside, proc>>

--------------------------------
ClosedRow(row, mode) ==
  [row EXCEPT !.status = "CLOSED", !.payment = "UNPAID", !.closeReason = mode,
              !.reservation = IF mode = "PAYMENT_TIMEOUT" THEN "EXPIRED" ELSE "RELEASED"]

\* closeLockedOrder: the order closes and gives its stock back, at once.
CloseLockedOrder(o, mode) ==
  /\ order' = [order EXCEPT ![o] = ClosedRow(@, mode)]
  /\ locked' = locked - Qty
  /\ UNCHANGED physical

\* A close without provider work: nothing of the order can be paid any more.
Closable(o, others) ==
  /\ OpenForPayment(o)
  /\ ~SomePaid(o)
  /\ OnlyTerminal(others)

TimeAllows(o, mode) == IF mode = "USER_CANCELLED" THEN ~expired[o] ELSE expired[o]

\* A request already recorded keeps its mode, whoever asks later.
ClaimTimeAllows(i, mode) ==
  \/ intent[i].closeRequest = "NONE" /\ TimeAllows(OrderOf(i), mode)
  \/ intent[i].closeRequest = "USER_CANCELLED"
  \/ intent[i].closeRequest = "PAYMENT_TIMEOUT" /\ mode = "PAYMENT_TIMEOUT"

ClaimRow(row, mode) ==
  IF row.status = "CLOSE_PENDING" THEN row
  ELSE [row EXCEPT !.status = "CLOSE_PENDING", !.closeRequest = mode]

\* claimOrderClose.  With an active intent the claimant goes to the
\* provider; without one the order closes here.
ClaimOrderClose(p, o, mode) ==
  /\ proc[p] = Idle
  /\ OpenForPayment(o)
  /\ order[o].payment \in {"UNPAID", "PROCESSING"}
  /\ ~SomePaid(o)
  /\ \/ \E i \in ActiveOf(o) :
          /\ ClaimTimeAllows(i, mode)
          /\ intent' = [intent EXCEPT ![i] = ClaimRow(@, mode)]
          /\ proc' = [(IF intent[i].status = "CLOSE_PENDING" THEN proc ELSE IntentBumped(i))
                        EXCEPT ![p] = Doing(i, IF intent[i].located THEN "close" ELSE "query", "CLOSE")]
          /\ UNCHANGED <<order, stock>>
     \/ /\ ActiveOf(o) = {}
        /\ order[o].payment = "UNPAID"
        /\ TimeAllows(o, mode)
        /\ Closable(o, IntentsOf(o))
        /\ CloseLockedOrder(o, mode)
        /\ UNCHANGED <<intent, proc>>
  /\ UNCHANGED <<expired, inbox, refund, outside>>

CancelOrder(p, o) == ClaimOrderClose(p, o, "USER_CANCELLED")

\* Mutant: the worker only looks for orders with an active intent.
CloseCandidateWithIntent(o) ==
  \E i \in ActiveOf(o) : ~intent[i].sawSuccess /\ (intent[i].status = "CLOSE_PENDING" \/ expired[o])

\* What the worker's query picks: the delay of next_reconcile_at is left open.
CloseCandidate(o) ==
  \/ expired[o] /\ order[o].payment = "UNPAID" /\ ActiveOf(o) = {}
  \/ \E i \in ActiveOf(o) :
       /\ ~intent[i].sawSuccess
       /\ intent[i].status = "CLOSE_PENDING" \/ expired[o]

ClaimNextOrderClose(p, o) ==
  /\ CloseCandidate(o)
  /\ ClaimOrderClose(p, o, "PAYMENT_TIMEOUT")

\* expireBatch: an expired order that never had an intent.
ExpireNextOrder(p, o) ==
  /\ proc[p] = Idle
  /\ expired[o]
  /\ order[o].payment = "UNPAID"
  /\ \A i \in IntentsOf(o) : intent[i].status = "NONE"
  /\ Closable(o, IntentsOf(o))
  /\ CloseLockedOrder(o, "PAYMENT_TIMEOUT")
  /\ UNCHANGED <<expired, intent, inbox, refund, outside, proc>>

--------------------------------
\* The terminal status finalizeOrderClose writes for a non-payable outcome.
CloseTarget(seen, mode) ==
  IF seen # "NOT_FOUND" THEN seen
  ELSE IF mode = "PAYMENT_TIMEOUT" THEN "EXPIRED" ELSE "CANCELLED"

\* Mutant: a success seen while closing no longer keeps the order open.
StillOpenUnlessPaid == {"UNKNOWN", "OPEN"}

\* Outcomes that leave the order open: the intent may be, or was, paid.
StillOpen == {"UNKNOWN", "OPEN", "SUCCEEDED"}

FinalizeFacts(row, seen) ==
  [row EXCEPT !.sawSuccess = (seen = "SUCCEEDED"),
              !.located = @ \/ seen \notin {"UNKNOWN", "NOT_FOUND"}]

\* Mutant: the close is finalized without looking at what happened meanwhile.
CanFinalizeBlindly(p, i) == TRUE

CanFinalize(p, i) ==
  /\ intent[i].status = "CLOSE_PENDING"
  /\ proc[p].view = "current"
  /\ \/ proc[p].seen \in StillOpen
     \/ Closable(OrderOf(i), IntentsOf(OrderOf(i)) \ {i})

\* The close stays pending: nothing definitive was seen, or money was.  An
\* observed success goes into the inbox in the same transaction; an
\* administrator then also requeues the row it may already have there.
KeepPending(p, i) ==
  LET seen == proc[p].seen
      next == IF seen = "SUCCEEDED" /\ p \in Admins
              THEN Doing(i, "requeue", "CLOSE") ELSE Idle
  IN  /\ seen \in StillOpen
      /\ intent' = [intent EXCEPT ![i] = FinalizeFacts(@, seen)]
      /\ inbox' = IF seen = "SUCCEEDED" THEN [inbox EXCEPT ![i] = Received(@)] ELSE inbox
      /\ proc' = [IntentBumped(i) EXCEPT ![p] = next]
      /\ UNCHANGED <<order, stock>>

\* The provider cannot be paid any more: intent and order close together.
FinishClose(p, i) ==
  LET seen == proc[p].seen
      mode == intent[i].closeRequest
  IN  /\ seen \notin StillOpen
      /\ intent' = [intent EXCEPT ![i] = [FinalizeFacts(@, seen) EXCEPT !.status = CloseTarget(seen, mode)]]
      /\ CloseLockedOrder(OrderOf(i), mode)
      /\ proc' = [IntentBumped(i) EXCEPT ![p] = Idle]
      /\ UNCHANGED inbox

FinalizeOrderClose(p) ==
  /\ proc[p].pc = "finalize_close"
  /\ LET i == proc[p].intent IN
     IF CanFinalize(p, i) THEN KeepPending(p, i) \/ FinishClose(p, i)
     ELSE Return(p) /\ UNCHANGED <<order, stock, intent, inbox>>
  /\ UNCHANGED <<expired, refund, outside>>
=============================================================================
