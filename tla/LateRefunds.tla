---------------------------- MODULE LateRefunds ----------------------------
(***************************************************************************)
(* The refund of money that arrived for a closed order: claim the refund   *)
(* row, ask the provider outside the transaction, finalize.  The callback  *)
(* worker and an administrator run the same steps, possibly at once.       *)
(***************************************************************************)
EXTENDS PaymentCallbacks

\* The handler is through with the refund.
AfterRefund(p) ==
  IF proc[p].task = "CALLBACK" THEN Doing(proc[p].intent, "mark", "CALLBACK") ELSE Idle
Done(p) == proc' = [proc EXCEPT ![p] = AfterRefund(p)]

\* claimLatePaymentRefund.
ClaimLateRefund(p) ==
  /\ proc[p].pc = "claim_refund"
  /\ LET o == OrderOf(proc[p].intent) IN
     \/ /\ proc[p].view # "superseded"
        /\ refund[o] \in {"SUCCEEDED", "FAILED"}
        /\ Done(p)
        /\ UNCHANGED <<inbox, refund>>
     \/ /\ proc[p].view = "current"
        /\ refund[o] = "PENDING"
        /\ refund' = [refund EXCEPT ![o] = "PROCESSING"]
        /\ proc' = [RefundBumped(o) EXCEPT ![p] = [proc[p] EXCEPT !.pc = "refund"]]
        /\ UNCHANGED inbox
     \/ /\ proc[p].view = "current"
        /\ refund[o] = "PROCESSING"
        /\ Goto(p, "refund")
        /\ UNCHANGED <<inbox, refund>>
     \/ /\ \/ proc[p].view = "superseded"
           \/ proc[p].view = "stale" /\ refund[o] \notin {"SUCCEEDED", "FAILED"}
        /\ HandlerFails(p)
        /\ UNCHANGED refund
  /\ UNCHANGED <<order, expired, stock, intent, outside>>

\* Mutant: an unanswered refund is taken for a refund.
RefundOutcomeAssumed(seen) == "SUCCEEDED"

\* normalizeRefundResult: whatever is not a success is recorded as a failure.
RefundOutcome(seen) == IF seen = "SUCCEEDED" THEN "SUCCEEDED" ELSE "FAILED"

\* finalizeLatePaymentRefund.
FinalizeLateRefund(p) ==
  /\ proc[p].pc = "finalize_refund"
  /\ LET o == OrderOf(proc[p].intent)
         outcome == RefundOutcome(proc[p].seen)
     IN
     \/ /\ proc[p].view # "superseded"
        /\ refund[o] \in {"SUCCEEDED", "FAILED"}
        /\ Done(p)
        /\ UNCHANGED <<order, inbox, refund>>
     \/ /\ proc[p].view = "current"
        /\ refund[o] = "PROCESSING"
        /\ refund' = [refund EXCEPT ![o] = outcome]
        /\ order' = [order EXCEPT ![o].resolution =
                       IF outcome = "SUCCEEDED" THEN "LATE_SUCCESS_REFUNDED" ELSE "MANUAL_REQUIRED"]
        /\ proc' = [RefundBumped(o) EXCEPT ![p] = AfterRefund(p)]
        /\ UNCHANGED inbox
     \/ /\ \/ proc[p].view = "superseded"
           \/ refund[o] = "PENDING"
           \/ proc[p].view = "stale" /\ refund[o] = "PROCESSING"
        /\ HandlerFails(p)
        /\ UNCHANGED <<order, refund>>
  /\ UNCHANGED <<expired, stock, intent, outside>>

\* prepareLatePaymentRefundRetry: a new attempt for a failed refund.
RetryLateRefund(p) ==
  /\ proc[p].pc = "retry_refund"
  /\ LET i == proc[p].intent
         o == OrderOf(i)
     IN  IF refund[o] = "FAILED"
         THEN /\ refund' = [refund EXCEPT ![o] = "PENDING"]
              /\ order' = [order EXCEPT ![o].resolution = "LATE_SUCCESS_REFUND_PENDING"]
              /\ proc' = [q \in Procs |->
                   IF q = p THEN Doing(i, "claim_refund", "LATE_REFUND")
                   ELSE IF proc[q].pc \in RefundPc /\ OrderOf(proc[q].intent) = o
                   THEN [proc[q] EXCEPT !.view = "superseded"] ELSE proc[q]]
         ELSE Return(p) /\ UNCHANGED <<order, refund>>
  /\ UNCHANGED <<expired, stock, intent, inbox, outside>>
=============================================================================
