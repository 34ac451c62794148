-------------------------- MODULE PaymentProvider --------------------------
(***************************************************************************)
(* The mock payment provider and the calls the processes make to it.  Each *)
(* call is one Redis script, so it is atomic at the provider, but it is    *)
(* made outside any database transaction and its caller waits for it only  *)
(* until a deadline.  A caller that gives up sees UNKNOWN, and its command *)
(* stays on the wire: the script may still run, any time later or never.   *)
(***************************************************************************)
EXTENDS MallState

\* The state a command leaves the provider's record in.
AfterCreate(state) == IF state = "NOT_FOUND" THEN "OPEN" ELSE state
AfterClose(state) == IF state = "OPEN" THEN "CLOSED" ELSE state

\* What each caller does with the outcome of a query of the intent.
AfterQuery(task, seen) ==
  CASE task = "CREATE"     -> IF seen = "NOT_FOUND" THEN "revalidate" ELSE "record"
    [] task = "CLOSE"      -> IF seen = "OPEN" THEN "close" ELSE "finalize_close"
    [] task = "INTENT"     -> IF seen = "SUCCEEDED" THEN "receive" ELSE "record"
    [] task = "SETTLEMENT" -> IF seen = "SUCCEEDED" THEN "receive" ELSE "idle"

\* The outcome travels only to the transaction that records it.
Learn(p, pc, seen) ==
  proc' = [proc EXCEPT ![p] =
             IF pc = "idle" THEN Idle
             ELSE IF pc \in {"record", "finalize_close", "finalize_refund"}
             THEN [@ EXCEPT !.pc = pc, !.seen = seen]
             ELSE [@ EXCEPT !.pc = pc]]

QueryProvider(p) ==
  /\ proc[p].pc = "query"
  /\ LET seen == provider[proc[p].intent].state
     IN  Learn(p, AfterQuery(proc[p].task, seen), seen)
  /\ UNCHANGED <<order, expired, stock, intent, inbox, refund, outside>>

CreateAtProvider(p) ==
  /\ proc[p].pc = "create"
  /\ LET i == proc[p].intent
         state == AfterCreate(provider[i].state)
     IN  /\ provider' = [provider EXCEPT ![i].state = state]
         /\ Learn(p, "record", state)
  /\ UNCHANGED <<order, expired, stock, intent, inbox, refund, returned, wire>>

CloseAtProvider(p) ==
  /\ proc[p].pc = "close"
  /\ LET i == proc[p].intent
         state == AfterClose(provider[i].state)
     IN  /\ provider' = [provider EXCEPT ![i].state = state]
         /\ Learn(p, "finalize_close", state)
  /\ UNCHANGED <<order, expired, stock, intent, inbox, refund, returned, wire>>

\* provider.refund is idempotent per refund number and always succeeds once run.
RefundAtProvider(p) ==
  /\ proc[p].pc = "refund"
  /\ returned' = [returned EXCEPT ![OrderOf(proc[p].intent)] = TRUE]
  /\ Learn(p, "finalize_refund", "SUCCEEDED")
  /\ UNCHANGED <<order, expired, stock, intent, inbox, refund, provider, wire>>

\* The deadline passes, or the connection fails: the outcome is UNKNOWN.
CallTimesOut(p) ==
  /\ CallsMayBeLost
  /\ \/ /\ proc[p].pc = "query"
        /\ Learn(p, AfterQuery(proc[p].task, "UNKNOWN"), "UNKNOWN")
        /\ UNCHANGED wire
     \/ /\ proc[p].pc = "create"
        /\ Learn(p, "record", "UNKNOWN")
        /\ wire' = wire \cup {<<"CREATE", proc[p].intent>>}
     \/ /\ proc[p].pc = "close"
        /\ Learn(p, "finalize_close", "UNKNOWN")
        /\ wire' = wire \cup {<<"CLOSE", proc[p].intent>>}
     \/ /\ proc[p].pc = "refund"
        /\ Learn(p, "finalize_refund", "UNKNOWN")
        /\ wire' = wire \cup {<<"REFUND", proc[p].intent>>}
  /\ UNCHANGED <<order, expired, stock, intent, inbox, refund, provider, returned>>

\* A command nobody waits for any more runs after all.
AbandonedCommandRuns ==
  \E c \in wire :
    LET i == c[2] IN
    /\ wire' = wire \ {c}
    /\ \/ /\ c[1] = "CREATE"
          /\ provider' = [provider EXCEPT ![i].state = AfterCreate(@)]
          /\ UNCHANGED returned
       \/ /\ c[1] = "CLOSE"
          /\ provider' = [provider EXCEPT ![i].state = AfterClose(@)]
          /\ UNCHANGED returned
       \/ /\ c[1] = "REFUND"
          /\ returned' = [returned EXCEPT ![OrderOf(i)] = TRUE]
          /\ UNCHANGED provider
    /\ UNCHANGED <<order, expired, stock, intent, inbox, refund, proc>>

\* The customer settles the intent at the provider: submitMockResult, first
\* half.  The provider does not look at the expiry of the order, and lets a
\* closed intent succeed late.
SubmitResult(i, result) ==
  /\ intent[i].status # "NONE"
  /\ \/ provider[i].state = "OPEN"
     \/ provider[i].state = "CLOSED" /\ result = "SUCCEEDED"
  /\ provider' = [provider EXCEPT ![i] = [state |-> result, late |-> expired[OrderOf(i)]]]
  /\ UNCHANGED <<order, expired, stock, intent, inbox, refund, returned, wire, proc>>

\* Second half: the signed callback is put into the inbox in a transaction
\* of its own, now, on a later resubmission, or never.
DeliverResult(i) ==
  /\ provider[i].state \in {"SUCCEEDED", "FAILED", "CANCELLED"}
  /\ inbox[i].status = "NONE"
  /\ inbox' = [inbox EXCEPT ![i] = Received(@)]
  /\ UNCHANGED <<order, expired, stock, intent, refund, outside, proc>>
=============================================================================
