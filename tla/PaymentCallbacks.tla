-------------------------- MODULE PaymentCallbacks --------------------------
(***************************************************************************)
(* The worker that consumes the callback inbox: it applies the provider's  *)
(* event to intent, order and stock in one transaction, and, when the      *)
(* money came for a closed order, refunds it in three further steps.  The  *)
(* row is marked PROCESSED only afterwards, by an update of its own, so a  *)
(* crash leaves it to be delivered again.                                  *)
(***************************************************************************)
EXTENDS MallState

Busy(i) == \E q \in Procs : proc[q].pc # "idle" /\ proc[q].intent = i /\ proc[q].task = "CALLBACK"

\* findDue and processOne: take a due row under its advisory lock.
TakeCallback(p, i) ==
  /\ proc[p] = Idle
  /\ inbox[i].status = "RECEIVED"
  /\ ~Busy(i)
  /\ proc' = [proc EXCEPT ![p] = Doing(i, "apply", "CALLBACK")]
  /\ UNCHANGED <<order, expired, stock, intent, inbox, refund, outside>>

\* A throwing handler counts a retry; the last one leaves the row FAILED.
FailedRow(row) ==
  [status |-> IF row.retries + 1 >= MaxRetries THEN "FAILED" ELSE "RECEIVED",
   retries |-> IF row.retries < MaxRetries THEN row.retries + 1 ELSE row.retries]

HandlerFails(p) ==
  /\ inbox' = [inbox EXCEPT ![proc[p].intent] =
                 IF proc[p].task = "CALLBACK" /\ @.status # "PROCESSED" THEN FailedRow(@) ELSE @]
  /\ Return(p)

MarkProcessed(p) ==
  /\ proc[p].pc = "mark"
  /\ inbox' = [inbox EXCEPT ![proc[p].intent].status = "PROCESSED"]
  /\ Return(p)
  /\ UNCHANGED <<order, expired, stock, intent, refund, outside>>

--------------------------------
\* Mutant: a callback no longer reaches an intent that is being closed.
UndecidedUnlessClosing(i) ==
  /\ intent[i].attempt = "NONE"
  /\ intent[i].status \in {"CREATING", "OPEN"}
  /\ order[OrderOf(i)].status = "PENDING_PAYMENT"

\* An open order that no event has paid yet, on an intent not yet given up.
Undecided(i) ==
  LET o == OrderOf(i) IN
  /\ intent[i].attempt = "NONE"
  /\ intent[i].status \in Active
  /\ order[o].status = "PENDING_PAYMENT"
  /\ order[o].payment # "PAID"
  /\ order[o].resolution = "NORMAL"

\* A FAILED or CANCELLED event.
FailureEvent(p, i, result) ==
  LET o == OrderOf(i) IN
  \/ \* replay, or the intent got there first: at most the attempt is recorded
     /\ intent[i].status = result
     /\ intent' = [intent EXCEPT ![i].attempt = result]
     /\ Goto(p, "mark")
     /\ UNCHANGED <<order, stock, inbox, refund>>
  \/ /\ Undecided(i)
     /\ intent' = [intent EXCEPT ![i].status = result, ![i].attempt = result,
                                 ![i].sawSuccess = FALSE]
     /\ order' = [order EXCEPT ![o].payment = "UNPAID"]
     /\ proc' = [IntentBumped(i) EXCEPT ![p].pc = "mark"]
     /\ UNCHANGED <<stock, inbox, refund>>

PaidRow(row, attempt) ==
  [row EXCEPT !.status = "SUCCEEDED", !.sawSuccess = TRUE, !.attempt = attempt]

\* Mutant: money for an intent the shop gave up is late, the order still open.
ForGivenUpIntent(i) == intent[i].status \in Terminal

\* Money is late when the shop closed the order first, whatever its own time.
ForClosedOrder(i) == order[OrderOf(i)].status = "CLOSED"

\* Mutant: another intent's money for the same closed order is not looked at.
RefundableAgain(i) == intent[i].attempt = "NONE" /\ intent[i].status \in Terminal

Refundable(i) ==
  LET o == OrderOf(i) IN
  /\ intent[i].attempt = "NONE"
  /\ intent[i].status \in Terminal
  /\ order[o].payment = "UNPAID"
  /\ order[o].resolution = "NORMAL"
  /\ refund[o] = "NONE"

\* Success for a closed order: PAID, and a full refund is due.
LateSuccess(p, i) ==
  LET o == OrderOf(i) IN
  /\ ForClosedOrder(i)
  /\ Refundable(i)
  /\ intent' = [intent EXCEPT ![i] = PaidRow(@, "SUCCEEDED_LATE")]
  /\ order' = [order EXCEPT ![o].payment = "PAID",
                            ![o].resolution = "LATE_SUCCESS_REFUND_PENDING"]
  /\ refund' = [refund EXCEPT ![o] = "PENDING"]
  /\ proc' = [IntentBumped(i) EXCEPT ![p] = Doing(i, "claim_refund", "CALLBACK")]
  /\ UNCHANGED <<stock, inbox>>

\* Mutant: a redelivered late success counts as done.
LateReplayEnds(p, i) ==
  /\ ForClosedOrder(i)
  /\ Paid(i)
  /\ Goto(p, "mark")
  /\ UNCHANGED <<order, stock, intent, inbox, refund>>

\* The same event again, while the refund is under way or after it.
LateReplay(p, i) ==
  LET o == OrderOf(i) IN
  /\ ForClosedOrder(i)
  /\ Paid(i)
  /\ IF intent[i].attempt = "SUCCEEDED_LATE" /\ refund[o] \in {"PENDING", "PROCESSING"}
     THEN proc' = [proc EXCEPT ![p] = Doing(i, "claim_refund", "CALLBACK")]
     ELSE Goto(p, "mark")
  /\ UNCHANGED <<order, stock, intent, inbox, refund>>

--------------------------------
\* Success for an open order: it settles, or waits for a person when a fact
\* the settlement needs is missing.
\* Mutant: the time of the payment is not compared with the expiry.
PayableAfterExpiry(i) == Undecided(i)

Payable(i) == Undecided(i) /\ ~provider[i].late

Compensable(i) ==
  /\ intent[i].attempt = "SUCCEEDED"
  /\ order[OrderOf(i)].status = "PENDING_PAYMENT"
  /\ order[OrderOf(i)].resolution = "MANUAL_REQUIRED"

Settle(p, i) ==
  LET o == OrderOf(i) IN
  /\ Payable(i) \/ Compensable(i)
  /\ order[o].reservation = "ACTIVE"
  /\ physical >= locked
  /\ locked >= Qty
  /\ order' = [order EXCEPT ![o].status = "PENDING_SHIPMENT", ![o].payment = "PAID",
                            ![o].resolution = "NORMAL", ![o].reservation = "CONSUMED"]
  /\ physical' = physical - Qty
  /\ locked' = locked - Qty
  /\ intent' = [intent EXCEPT ![i] = PaidRow(@, "SUCCEEDED")]
  /\ proc' = [(IF Payable(i) THEN IntentBumped(i) ELSE proc) EXCEPT ![p].pc = "mark"]
  /\ UNCHANGED <<inbox, refund>>

WaitForManual(p, i) ==
  /\ SettlementMayFail
  /\ Payable(i)
  /\ order' = [order EXCEPT ![OrderOf(i)].payment = "PAID",
                            ![OrderOf(i)].resolution = "MANUAL_REQUIRED"]
  /\ intent' = [intent EXCEPT ![i] = PaidRow(@, "SUCCEEDED")]
  /\ proc' = [IntentBumped(i) EXCEPT ![p].pc = "mark"]
  /\ UNCHANGED <<stock, inbox, refund>>

\* A success already settled, or one that still cannot be.
SettledReplay(p, i) ==
  /\ ~ForClosedOrder(i)
  /\ intent[i].attempt = "SUCCEEDED"
  /\ Compensable(i) => SettlementMayFail
  /\ Goto(p, "mark")
  /\ UNCHANGED <<order, stock, intent, inbox, refund>>

SuccessEvent(p, i) ==
  \/ LateSuccess(p, i)
  \/ LateReplay(p, i)
  \/ Settle(p, i)
  \/ WaitForManual(p, i)
  \/ SettledReplay(p, i)

\* The callback cannot be applied: the intent cannot be located by the
\* provider's identifier, or its facts conflict with the event.
CallbackConflicts(i) ==
  \/ ~intent[i].located
  \/ IF provider[i].state # "SUCCEEDED"
     THEN intent[i].status # provider[i].state /\ ~Undecided(i)
     ELSE /\ intent[i].attempt = "NONE"
          /\ IF ForClosedOrder(i) THEN ~Refundable(i) ELSE ~Payable(i)

\* applyPaymentCallback: the whole first transaction of the handler.
ApplyPaymentCallback(p) ==
  /\ proc[p].pc = "apply"
  /\ LET i == proc[p].intent IN
     IF CallbackConflicts(i)
     THEN HandlerFails(p) /\ UNCHANGED <<order, stock, intent, refund>>
     ELSE IF provider[i].state = "SUCCEEDED" THEN SuccessEvent(p, i)
     ELSE FailureEvent(p, i, provider[i].state)
  /\ UNCHANGED <<expired, outside>>
=============================================================================
