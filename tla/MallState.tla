----------------------------- MODULE MallState -----------------------------
(***************************************************************************)
(* The rows the order and payment code shares, and the helpers every       *)
(* transaction is built from.                                              *)
(*                                                                         *)
(* A repository method `...InTransaction` runs inside                      *)
(* runSerializableTransaction, so it is one atomic action here; what lies  *)
(* between two transactions (provider calls, crashes, other processes) is  *)
(* interleaved.  One SKU stands for the catalogue and every order takes    *)
(* Qty pieces of it.  Row versions are not counted: a process remembers    *)
(* the version it read as its `view`, and a write turns the view of every  *)
(* other holder of that row stale.                                         *)
(***************************************************************************)
EXTENDS Integers, FiniteSets

CONSTANTS
  Orders,            \* identities of the customer orders
  Slots,             \* payment intents one order may get over time
  Qty,               \* pieces every order takes
  InitialStock,      \* physical stock at the start
  MaxRetries,        \* config.worker maxRetries of the callback inbox
  Payers,            \* concurrent createOrReuseIntent requests
  Cancellers,        \* concurrent customer cancellations
  TimeoutWorkers,    \* order-timeout workers
  Admins,            \* administrators reconciling payments
  CallbackWorkers,   \* outbox-dispatcher processes polling the inbox
  SettlementMayFail, \* TRUE: wallet, rule or attribution facts may be missing
  CallsMayBeLost     \* TRUE: a provider call may time out, a process may die

Procs == Payers \cup Cancellers \cup TimeoutWorkers \cup Admins \cup CallbackWorkers

Intents == Orders \X Slots

ASSUME ConstantsAssumption ==
  /\ IsFiniteSet(Orders)
  /\ Qty \in Nat \ {0}
  /\ InitialStock \in Nat
  /\ MaxRetries \in Nat \ {0}
  /\ SettlementMayFail \in BOOLEAN
  /\ CallsMayBeLost \in BOOLEAN
  /\ Payers \cap (Cancellers \cup TimeoutWorkers \cup Admins \cup CallbackWorkers) = {}
  /\ Cancellers \cap (TimeoutWorkers \cup Admins \cup CallbackWorkers) = {}
  /\ TimeoutWorkers \cap (Admins \cup CallbackWorkers) = {}
  /\ Admins \cap CallbackWorkers = {}

VARIABLES
  order,     \* order[o]: the sales_order row with its inventory_reservation
  expired,   \* expired[o]: the clock has passed pay_expires_at
  physical,  \* inventory_balance.physical_qty
  locked,    \* inventory_balance.locked_qty
  intent,    \* intent[i]: the payment_intent row and its payment_attempt
  inbox,     \* inbox[i]: the callback_inbox row of the one event of i
  refund,    \* refund[o]: status of the LATE_PAYMENT refund row
  provider,  \* provider[i]: what the payment provider holds for i
  returned,  \* returned[o]: the provider has executed the refund
  wire,      \* provider commands whose caller gave up, still executable
  proc       \* proc[p]: where process p is, and what it remembers

vars == <<order, expired, physical, locked, intent, inbox, refund,
          provider, returned, wire, proc>>
stock == <<physical, locked>>
outside == <<provider, returned, wire>>

--------------------------------
\* Row types.

OrderStatus == {"NONE", "PENDING_PAYMENT", "PENDING_SHIPMENT", "CLOSED"}
PaymentStatus == {"UNPAID", "PROCESSING", "PAID"}
Resolution == {"NORMAL", "MANUAL_REQUIRED", "LATE_SUCCESS_REFUND_PENDING",
               "LATE_SUCCESS_REFUNDED"}
CloseMode == {"USER_CANCELLED", "PAYMENT_TIMEOUT"}
ReservationStatus == {"NONE", "ACTIVE", "CONSUMED", "RELEASED", "EXPIRED"}

OrderRow == [status: OrderStatus, payment: PaymentStatus, resolution: Resolution,
             closeReason: CloseMode \cup {"NONE"}, reservation: ReservationStatus]

NoOrder == [status |-> "NONE", payment |-> "UNPAID", resolution |-> "NORMAL",
            closeReason |-> "NONE", reservation |-> "NONE"]

Active == {"CREATING", "OPEN", "CLOSE_PENDING"}
Terminal == {"CANCELLED", "CLOSED", "EXPIRED", "FAILED"}
IntentStatus == {"NONE", "SUCCEEDED"} \cup Active \cup Terminal

\* located: provider_intent_id is recorded.  sawSuccess: provider_state is
\* 'SUCCEEDED'.  closeRequest: the mode closeModeForTimestamp gives for
\* close_requested_at.  attempt: status of the one payment_attempt row.
IntentRow == [status: IntentStatus, located: BOOLEAN, sawSuccess: BOOLEAN,
              closeRequest: CloseMode \cup {"NONE"},
              attempt: {"NONE", "SUCCEEDED", "SUCCEEDED_LATE", "FAILED", "CANCELLED"}]

NoIntentRow == [status |-> "NONE", located |-> FALSE, sawSuccess |-> FALSE,
                closeRequest |-> "NONE", attempt |-> "NONE"]

InboxRow == [status: {"NONE", "RECEIVED", "PROCESSED", "FAILED"}, retries: 0..MaxRetries]
NoInboxRow == [status |-> "NONE", retries |-> 0]

RefundStatus == {"NONE", "PENDING", "PROCESSING", "SUCCEEDED", "FAILED"}

\* The provider's own record; late: its event happened at or after pay_expires_at.
ProviderState == {"NOT_FOUND", "OPEN", "CLOSED", "SUCCEEDED", "FAILED", "CANCELLED"}
ProviderRow == [state: ProviderState, late: BOOLEAN]

Command == {"CREATE", "CLOSE", "REFUND"} \X Intents

\* Processes.  pc is the next transaction or provider call.
IntentPc == {"query", "revalidate", "create", "record", "close", "finalize_close", "repair"}
RefundPc == {"claim_refund", "refund", "finalize_refund"}
Pc == {"receive", "requeue", "retry_refund", "apply", "mark"} \cup IntentPc \cup RefundPc

\* view: is the row version the process holds current, stale, or of a refund
\* attempt that a retry superseded.  task: what readActionFacts or the claim
\* decided.  seen: the provider outcome it carries.
Task == {"NONE", "CREATE", "CLOSE", "INTENT", "SETTLEMENT", "CALLBACK", "LATE_REFUND"}
ProcRow == [pc: Pc, intent: Intents, task: Task,
            view: {"current", "stale", "superseded"}, seen: ProviderState \cup {"UNKNOWN"}]
             \cup [pc: {"idle"}]
Idle == [pc |-> "idle"]

Doing(i, pc, task) ==
  [pc |-> pc, intent |-> i, task |-> task, view |-> "current", seen |-> "UNKNOWN"]

TypeOK ==
  /\ order \in [Orders -> OrderRow]
  /\ expired \in [Orders -> BOOLEAN]
  /\ physical \in Nat
  /\ locked \in Nat
  /\ intent \in [Intents -> IntentRow]
  /\ inbox \in [Intents -> InboxRow]
  /\ refund \in [Orders -> RefundStatus]
  /\ provider \in [Intents -> ProviderRow]
  /\ returned \in [Orders -> BOOLEAN]
  /\ wire \subseteq Command
  /\ proc \in [Procs -> ProcRow]

Init ==
  /\ order = [o \in Orders |-> NoOrder]
  /\ expired = [o \in Orders |-> FALSE]
  /\ physical = InitialStock
  /\ locked = 0
  /\ intent = [i \in Intents |-> NoIntentRow]
  /\ inbox = [i \in Intents |-> NoInboxRow]
  /\ refund = [o \in Orders |-> "NONE"]
  /\ provider = [i \in Intents |-> [state |-> "NOT_FOUND", late |-> FALSE]]
  /\ returned = [o \in Orders |-> FALSE]
  /\ wire = {}
  /\ proc = [p \in Procs |-> Idle]

--------------------------------
\* Reads that several transactions share.

OrderOf(i) == i[1]
IntentsOf(o) == {o} \X Slots
ActiveOf(o) == {i \in IntentsOf(o) : intent[i].status \in Active}
Paid(i) == intent[i].attempt \in {"SUCCEEDED", "SUCCEEDED_LATE"}
SomePaid(o) == \E i \in IntentsOf(o) : Paid(i) \/ intent[i].status = "SUCCEEDED"
OnlyTerminal(S) == \A i \in S : intent[i].status \in Terminal \cup {"NONE"}

\* The facts orderPaymentBaseEligible and the close paths require of an order.
OpenForPayment(o) ==
  /\ order[o].status = "PENDING_PAYMENT"
  /\ order[o].resolution = "NORMAL"
  /\ order[o].closeReason = "NONE"
  /\ order[o].reservation = "ACTIVE"

\* A write turns the view every holder of the written row has of it stale.
IntentHolders(i) == {q \in Procs : proc[q].pc \in IntentPc /\ proc[q].intent = i}
RefundHolders(o) == {q \in Procs : proc[q].pc \in RefundPc /\ OrderOf(proc[q].intent) = o}
StaleViews(holders) ==
  [q \in Procs |-> IF q \in holders /\ proc[q].view = "current"
                   THEN [proc[q] EXCEPT !.view = "stale"] ELSE proc[q]]
IntentBumped(i) == StaleViews(IntentHolders(i))
RefundBumped(o) == StaleViews(RefundHolders(o))

\* Process p returns: its request is answered, or its transaction threw.
Return(p) == proc' = [proc EXCEPT ![p] = Idle]
Goto(p, pc) == proc' = [proc EXCEPT ![p].pc = pc]

\* CallbackInbox.receive: createMany with skipDuplicates.
Received(row) == IF row.status = "NONE" THEN [status |-> "RECEIVED", retries |-> 0] ELSE row
=============================================================================
