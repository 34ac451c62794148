----------------------- MODULE PaymentReconciliation -----------------------
(***************************************************************************)
(* An administrator reconciles one payment intent: readActionFacts decides *)
(* what is wrong with it, and the provider is asked again, a half-finished *)
(* close is repaired, or a late refund is pushed on.                       *)
(***************************************************************************)
EXTENDS StoreOrders

\* One administrator at a time owns an intent (session advisory lock).
Reconciling(i) ==
  \E q \in Admins : proc[q].pc # "idle" /\ proc[q].intent = i

\* The intent ended under a close request that never closed its order.
CloseIncomplete(i) ==
  /\ intent[i].status \in Terminal
  /\ intent[i].closeRequest # "NONE"
  /\ order[OrderOf(i)].resolution = "NORMAL"
  /\ order[OrderOf(i)].status # "CLOSED" \/ order[OrderOf(i)].reservation = "ACTIVE"

\* readActionFacts: the kind of work, and the first step it leads to.
StartReconciliation(p, i) ==
  LET o == OrderOf(i) IN
  /\ proc[p] = Idle
  /\ ~Reconciling(i)
  /\ \/ /\ intent[i].attempt = "SUCCEEDED_LATE"
        /\ refund[o] \in {"PENDING", "PROCESSING"}
        /\ proc' = [proc EXCEPT ![p] = Doing(i, "claim_refund", "LATE_REFUND")]
     \/ /\ intent[i].attempt = "SUCCEEDED_LATE"
        /\ refund[o] = "FAILED"
        /\ proc' = [proc EXCEPT ![p] = Doing(i, "retry_refund", "LATE_REFUND")]
     \/ /\ intent[i].status = "CLOSE_PENDING"
        /\ proc' = [proc EXCEPT ![p] = Doing(i, "query", "CLOSE")]
     \/ /\ intent[i].status \in {"CREATING", "OPEN"}
        /\ proc' = [proc EXCEPT ![p] = Doing(i, "query", "INTENT")]
     \/ /\ CloseIncomplete(i)
        /\ proc' = [proc EXCEPT ![p] = Doing(i, "repair", "CLOSE")]
     \/ /\ intent[i].attempt = "SUCCEEDED"
        /\ order[o].resolution = "MANUAL_REQUIRED"
        /\ proc' = [proc EXCEPT ![p] = Doing(i, "query", "SETTLEMENT")]
  /\ UNCHANGED <<order, expired, stock, intent, inbox, refund, outside>>

\* receiveForReconciliation, its two transactions: insert the row if it is
\* missing, then put it back to RECEIVED, waiting for a worker that has it.
ReceiveForReconciliation(p) ==
  /\ proc[p].pc = "receive"
  /\ inbox' = [inbox EXCEPT ![proc[p].intent] = Received(@)]
  /\ Goto(p, "requeue")
  /\ UNCHANGED <<order, expired, stock, intent, refund, outside>>

RequeueCallback(p) ==
  /\ proc[p].pc = "requeue"
  /\ LET i == proc[p].intent IN
     /\ \A q \in CallbackWorkers : proc[q].pc # "idle" => proc[q].intent # i
     /\ inbox' = [inbox EXCEPT ![i] =
                    IF @.status = "RECEIVED" THEN @ ELSE [status |-> "RECEIVED", retries |-> 0]]
  /\ Return(p)
  /\ UNCHANGED <<order, expired, stock, intent, refund, outside>>

\* repairTerminalOrderClose: the local half of a close whose intent ended.
RepairTerminalClose(p) ==
  /\ proc[p].pc = "repair"
  /\ LET i == proc[p].intent
         o == OrderOf(i)
         possible == /\ proc[p].view = "current"
                     /\ intent[i].status \in Terminal
                     /\ intent[i].closeRequest # "NONE"
                     /\ order[o].payment # "PAID"
                     /\ Closable(o, IntentsOf(o))
     IN  IF possible THEN CloseLockedOrder(o, intent[i].closeRequest)
         ELSE UNCHANGED <<order, stock>>
  /\ Return(p)
  /\ UNCHANGED <<expired, intent, inbox, refund, outside>>
=============================================================================
