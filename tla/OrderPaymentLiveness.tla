------------------------ MODULE OrderPaymentLiveness ------------------------
(***************************************************************************)
(* What must happen in the end.  Customers and administrators owe nothing: *)
(* their requests may never come or may die anywhere.  The workers poll    *)
(* for ever, so what they are able to do again and again they do at last:  *)
(* they may be killed and their calls may be lost any number of times, but *)
(* not at the same step every time.                                        *)
(***************************************************************************)
EXTENDS OrderPayment

TimeoutWorkerFairness ==
  \A t \in TimeoutWorkers :
    /\ \A o \in Orders : SF_vars(Timeout(t, o))
    /\ SF_vars(QueryProvider(t))
    /\ SF_vars(CloseAtProvider(t))
    /\ WF_vars(FinalizeOrderClose(t))
    /\ SF_vars(proc[t].pc = "finalize_close" /\ proc[t].seen \notin StillOpen
                 /\ FinalizeOrderClose(t))

CallbackWorkerFairness ==
  \A w \in CallbackWorkers :
    /\ \A i \in Intents : SF_vars(TakeCallback(w, i))
    /\ SF_vars(ApplyPaymentCallback(w))
    /\ SF_vars(ClaimLateRefund(w))
    /\ SF_vars(RefundAtProvider(w))
    /\ SF_vars(FinalizeLateRefund(w))
    /\ SF_vars(MarkProcessed(w))

FairSpec ==
  /\ Spec
  /\ \A o \in Orders : WF_vars(ExpiryPasses(o))
  /\ TimeoutWorkerFairness
  /\ CallbackWorkerFairness

\* No order holds stock for ever: it is closed or sold, unless the
\* customer's money has reached the provider.
OpenOrdersEnd ==
  \A o \in Orders :
    order[o].status = "PENDING_PAYMENT" ~>
      \/ order[o].status # "PENDING_PAYMENT"
      \/ \E i \in IntentsOf(o) : provider[i].state = "SUCCEEDED"

Delivered(i) ==
  inbox[i].status = "RECEIVED" /\ intent[i].located /\ provider[i].state = "SUCCEEDED"

\* Money paid before the order expired, on an intent nobody had asked to
\* close, is recorded once its callback is in the inbox, even if a close
\* is asked for while it waits there.
PromptMoneyIsRecorded ==
  \A i \in Intents :
    Delivered(i) /\ ~provider[i].late /\ intent[i].closeRequest = "NONE" ~> Paid(i)

\* Money recorded for a closed order is refunded or handed to a person.
LateMoneyIsAnswered ==
  \A i \in Intents :
    intent[i].attempt = "SUCCEEDED_LATE" ~>
      order[OrderOf(i)].resolution \in {"LATE_SUCCESS_REFUNDED", "MANUAL_REQUIRED"}
=============================================================================
