--------------------------- MODULE StorePayments ---------------------------
(***************************************************************************)
(* Payment intents: a customer request prepares or reuses the one active   *)
(* intent of an order, creates or queries it at the provider, and records  *)
(* the outcome.  The same record step serves an administrator's query.     *)
(***************************************************************************)
EXTENDS MallState

\* Mutant: an intent of the order that is still active is not looked for.
NewIntentBesideActive(o) ==
  /\ order[o].payment = "UNPAID"
  /\ \A i \in IntentsOf(o) : intent[i].status # "SUCCEEDED"

NewIntentAllowed(o) ==
  /\ ActiveOf(o) = {}
  /\ order[o].payment = "UNPAID"
  /\ \A i \in IntentsOf(o) : intent[i].status # "SUCCEEDED"

\* prepareOwnedPaymentIntent: reuse the active intent, or insert a new one.
PreparePaymentIntent(p, o) ==
  /\ proc[p] = Idle
  /\ ~expired[o]
  /\ OpenForPayment(o)
  /\ \/ \E i \in ActiveOf(o) :
          /\ \/ order[o].payment = "PROCESSING"
             \/ order[o].payment = "UNPAID" /\ intent[i].status = "CREATING"
          /\ proc' = [proc EXCEPT ![p] = Doing(i, "query", "CREATE")]
          /\ UNCHANGED intent
     \/ /\ NewIntentAllowed(o)
        /\ \E i \in IntentsOf(o) :
             /\ intent[i].status = "NONE"
             /\ intent' = [intent EXCEPT ![i].status = "CREATING"]
             /\ proc' = [proc EXCEPT ![p] = Doing(i, "create", "CREATE")]
  /\ UNCHANGED <<order, expired, stock, inbox, refund, outside>>

\* The provider does not know the intent: is it still right to create it?
RevalidateProviderCreate(p) ==
  /\ proc[p].pc = "revalidate"
  /\ LET i == proc[p].intent
         o == OrderOf(i)
         valid == /\ proc[p].view = "current"
                  /\ intent[i].status = "CREATING"
                  /\ ~intent[i].located
                  /\ ~expired[o]
                  /\ OpenForPayment(o)
                  /\ order[o].payment = "UNPAID"
     IN  IF valid THEN Goto(p, "create") ELSE Return(p)
  /\ UNCHANGED <<order, expired, stock, intent, inbox, refund, outside>>

--------------------------------
\* What providerFinalization, recordUncertainProviderResult and the
\* administrator's paymentFinalization make of an outcome.
OutcomeKind(p, seen) ==
  CASE seen = "OPEN" -> "OPEN"
    [] seen \in {"FAILED", "CANCELLED", "CLOSED"} -> "TERMINAL"
    [] seen = "NOT_FOUND" /\ p \in Admins -> "TERMINAL"
    [] OTHER -> "UNKNOWN"

FinalStatus(seen) == IF seen = "NOT_FOUND" THEN "CLOSED" ELSE seen

AlreadyApplied(i, kind, seen) ==
  \/ /\ kind = "OPEN"
     /\ intent[i].status = "OPEN"
     /\ intent[i].located
     /\ order[OrderOf(i)].payment = "PROCESSING"
  \/ /\ kind = "TERMINAL"
     /\ intent[i].status = FinalStatus(seen)
     /\ seen = "NOT_FOUND" \/ intent[i].located
     /\ order[OrderOf(i)].payment = "UNPAID"

CanRecord(p, i, kind, seen) ==
  /\ ~AlreadyApplied(i, kind, seen)
  /\ proc[p].view = "current"
  /\ intent[i].status \in Active
  /\ OpenForPayment(OrderOf(i))
  /\ order[OrderOf(i)].payment \in {"UNPAID", "PROCESSING"}

\* Mutant: an unanswered query ends the intent.
RecordedRowGivingUp(row, kind, seen) ==
  CASE kind = "OPEN" ->
         [row EXCEPT !.status = IF @ = "CLOSE_PENDING" THEN @ ELSE "OPEN", !.located = TRUE]
    [] kind = "TERMINAL" -> [row EXCEPT !.status = FinalStatus(seen)]
    [] OTHER -> [row EXCEPT !.status = "FAILED"]

RecordedRow(row, kind, seen) ==
  CASE kind = "OPEN" ->
         [row EXCEPT !.status = IF @ = "CLOSE_PENDING" THEN @ ELSE "OPEN",
                     !.located = TRUE, !.sawSuccess = FALSE]
    [] kind = "TERMINAL" ->
         [row EXCEPT !.status = FinalStatus(seen),
                     !.located = @ \/ seen # "NOT_FOUND", !.sawSuccess = FALSE]
    [] OTHER -> [row EXCEPT !.sawSuccess = (seen = "SUCCEEDED")]

RecordedPayment(payment, kind) ==
  CASE kind = "OPEN" -> "PROCESSING" [] kind = "TERMINAL" -> "UNPAID" [] OTHER -> payment

\* finalizeProviderOutcome: one transaction, refused unless the intent is
\* still at the version the request read.
RecordProviderOutcome(p) ==
  /\ proc[p].pc = "record"
  /\ LET i == proc[p].intent
         seen == proc[p].seen
         kind == OutcomeKind(p, seen)
     IN  IF CanRecord(p, i, kind, seen)
         THEN /\ intent' = [intent EXCEPT ![i] = RecordedRow(@, kind, seen)]
              /\ order' = [order EXCEPT ![OrderOf(i)].payment = RecordedPayment(@, kind)]
              /\ proc' = [IntentBumped(i) EXCEPT ![p] = Idle]
         ELSE Return(p) /\ UNCHANGED <<order, intent>>
  /\ UNCHANGED <<expired, stock, inbox, refund, outside>>
=============================================================================
