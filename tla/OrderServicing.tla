--------------------------- MODULE OrderServicing ---------------------------
(***************************************************************************)
(* One paid order until nothing can happen to it any more: aftersales with *)
(* their reviews, returns and inspections; refunds and compensations with  *)
(* their retries; the single shipment; completion; and what the refunds do *)
(* to stock and to the agent's commission.                                 *)
(*                                                                         *)
(* Every command is one serializable transaction under the row locks of    *)
(* the order envelope, so it is one action; a command that presents a      *)
(* stale version changes nothing and is left out.  The CHECK constraints   *)
(* of order_item are part of every transaction that writes it: a violated  *)
(* one rolls the transaction back.  Amounts are whole cents.               *)
(***************************************************************************)
EXTENDS Integers, FiniteSets, Functions

CONSTANTS
  Items,          \* lines of the order
  Quantity,       \* Quantity[i], Price[i]: units bought and their price
  Price,
  Rate,           \* effective commission rate of every line, in percent
  Aftersales,     \* customer aftersales that may be opened
  Compensations,  \* manual compensations that may be created
  Amounts         \* amounts an administrator may type in for one

ServicingAssumption ==
  /\ Items # {} /\ IsFiniteSet(Items) /\ IsFiniteSet(Aftersales \cup Compensations)
  /\ Quantity \in [Items -> Nat \ {0}] /\ Price \in [Items -> Nat \ {0}]
  /\ Rate \in 0..100 /\ Amounts \subseteq Nat \ {0}
  /\ Aftersales \cap Compensations = {}

VARIABLES
  order,      \* sales_order: status, fulfilment, refund status, window, refunded
  item,       \* order_item: counters of refunds, reservations and shipment
  aftersale,  \* aftersale with aftersale_item and return_inspection
  refund,     \* refund of an aftersale or a compensation, with refund_item
  executed,   \* what the provider answered to the current attempt of the refund
  position,   \* order_item_commission_position of each line
  wallet,     \* the agent's available balance, and what was withdrawn
  restocked   \* units the refunds put back into physical stock

vars == <<order, item, aftersale, refund, executed, position, wallet, restocked>>

Sources == Aftersales \cup Compensations
Zero == [i \in Items |-> 0]
LinePaid(i) == Price[i] * Quantity[i]
Paid == SumFunction([i \in Items |-> LinePaid(i)])
Lesser(a, b) == IF a <= b THEN a ELSE b
HalfUp(amount) == (2 * amount * Rate + 100) \div 200
Original(i) == HalfUp(LinePaid(i))

Init ==
  /\ order = [status |-> "PENDING_SHIPMENT", fulfilment |-> "READY_TO_SHIP",
              refunding |-> "IDLE", progress |-> "NONE", window |-> "NONE", refunded |-> 0]
  /\ item = [i \in Items |-> [refQty |-> 0, preQty |-> 0, resQty |-> 0,
                              refAmt |-> 0, resAmt |-> 0, shipped |-> 0]]
  /\ aftersale = [a \in Aftersales |-> [status |-> "NONE", type |-> "NONE", qty |-> Zero,
                     amt |-> Zero, approved |-> Zero, restock |-> Zero]]
  /\ refund = [s \in Sources |-> [status |-> "NONE", qty |-> Zero, amt |-> Zero, reversal |-> Zero]]
  /\ executed = [s \in Sources |-> "NOT_FOUND"]
  /\ position = [i \in Items |-> [state |-> IF Original(i) = 0 THEN "NONE" ELSE "EXPECTED",
                                  expected |-> Original(i), reversed |-> 0]]
  /\ wallet = [available |-> 0, withdrawn |-> 0]
  /\ restocked = Zero

--------------------------------
\* What the tables refuse and what the commands read.

\* chk_order_item_refund_counters.
ItemCheck(i, row) ==
  /\ row.refQty + row.resQty <= Quantity[i]
  /\ row.resQty >= 0 /\ row.resAmt >= 0
  /\ row.refAmt + row.resAmt <= LinePaid(i)
  /\ row.refAmt >= Price[i] * row.refQty
  /\ row.resAmt >= Price[i] * row.resQty
  /\ row.preQty <= row.refQty
  /\ row.shipped + row.preQty <= Quantity[i]

Store(rows) == item' = rows /\ \A i \in Items : ItemCheck(i, rows[i])

ActiveAftersale == {"PENDING_REVIEW", "REFUNDING", "WAITING_RETURN", "WAITING_RECEIPT",
                    "RETURN_EXCEPTION", "REFUNDING_AFTER_RETURN", "REFUND_FAILED"}
ActiveRefund == {"PENDING", "PROCESSING", "FAILED"}
OpenAftersales == {a \in Aftersales : aftersale[a].status \in ActiveAftersale}
OpenRefunds == {s \in Sources : refund[s].status \in ActiveRefund}

RemainingQty(i) == Quantity[i] - item[i].refQty - item[i].resQty
RemainingAmt(i) == LinePaid(i) - item[i].refAmt - item[i].resAmt
Reserve(i, qty, amt) == [item[i] EXCEPT !.resQty = @ + qty, !.resAmt = @ + amt]
Release(qty, amt) == [i \in Items |-> Reserve(i, -qty[i], -amt[i])]

Eligible ==
  \/ order.status \in {"PENDING_SHIPMENT", "SHIPPING"}
  \/ order.status = "COMPLETED" /\ order.window = "OPEN"

--------------------------------
\* Aftersales: the customer's side.

\* The whole remainder for the last units, else the price of the units.
Allocated(i, qty) == IF qty = RemainingQty(i) THEN RemainingAmt(i) ELSE Price[i] * qty

CanSubmit(req) ==
  /\ Eligible
  /\ \A i \in Items : req[i] > 0 =>
       req[i] <= RemainingQty(i) /\ Allocated(i, req[i]) <= RemainingAmt(i)

\* Either type, before shipment and after it: PRD 10 tells the customer which
\* one to apply for, the code does not check it.
ApplyAftersale(a, type, req) ==
  /\ aftersale[a].status = "NONE"
  /\ SumFunction(req) > 0
  /\ CanSubmit(req)
  /\ LET amt == [i \in Items |-> IF req[i] > 0 THEN Allocated(i, req[i]) ELSE 0]
     IN  /\ \A i \in Items : req[i] > 0 => amt[i] > 0
         /\ Store([i \in Items |-> Reserve(i, req[i], amt[i])])
         /\ aftersale' = [aftersale EXCEPT ![a].status = "PENDING_REVIEW", ![a].type = type,
                                           ![a].qty = req, ![a].amt = amt]
  /\ UNCHANGED <<order, refund, executed, position, wallet, restocked>>

CancelAftersale(a) ==
  /\ aftersale[a].status \in {"PENDING_REVIEW", "WAITING_RETURN"}
  /\ Store(Release(aftersale[a].qty, aftersale[a].amt))
  /\ aftersale' = [aftersale EXCEPT ![a].status = "CANCELLED"]
  /\ UNCHANGED <<order, refund, executed, position, wallet, restocked>>

Move(a, from, to) ==
  /\ aftersale[a].status = from
  /\ aftersale' = [aftersale EXCEPT ![a].status = to]

SubmitReturnShipment(a) ==
  /\ Move(a, "WAITING_RETURN", "WAITING_RECEIPT")
  /\ UNCHANGED <<order, item, refund, executed, position, wallet, restocked>>

--------------------------------
\* Aftersales: headquarters.

ApproveAftersale(a) ==
  /\ Move(a, "PENDING_REVIEW",
          IF aftersale[a].type = "REFUND_ONLY" THEN "REFUNDING" ELSE "WAITING_RETURN")
  /\ UNCHANGED <<order, item, refund, executed, position, wallet, restocked>>

RejectAftersale(a) ==
  /\ Move(a, "PENDING_REVIEW", "REJECTED")
  /\ Store(Release(aftersale[a].qty, aftersale[a].amt))
  /\ UNCHANGED <<order, refund, executed, position, wallet, restocked>>

\* PASS approves everything, ABNORMAL less; what is approved and not put back
\* into stock is damaged or scrap, what is not approved goes to the customer.
RecordInspection(a, approved, restock) ==
  /\ aftersale[a].status = "WAITING_RECEIPT"
  /\ \A i \in Items : approved[i] <= aftersale[a].qty[i] /\ restock[i] <= approved[i]
  /\ aftersale' = [aftersale EXCEPT
       ![a].status = IF approved = aftersale[a].qty THEN "REFUNDING_AFTER_RETURN" ELSE "RETURN_EXCEPTION",
       ![a].approved = approved, ![a].restock = restock]
  /\ UNCHANGED <<order, item, refund, executed, position, wallet, restocked>>

\* The part of the reservation of a that its inspection approves.
KeptAmount(a, i) ==
  IF aftersale[a].approved[i] = aftersale[a].qty[i] THEN aftersale[a].amt[i]
  ELSE Price[i] * aftersale[a].approved[i]

ContinueRefund(a) ==
  /\ Move(a, "RETURN_EXCEPTION", "REFUNDING_AFTER_RETURN")
  /\ SumFunction(aftersale[a].approved) > 0
  /\ LET back == [i \in Items |-> aftersale[a].qty[i] - aftersale[a].approved[i]]
         money == [i \in Items |-> aftersale[a].amt[i] - KeptAmount(a, i)]
     IN  /\ \A i \in Items : money[i] >= 0 /\ (back[i] = 0 <=> money[i] = 0)
         /\ Store(Release(back, money))
  /\ UNCHANGED <<order, refund, executed, position, wallet, restocked>>

RejectAfterReturn(a) ==
  /\ Move(a, "RETURN_EXCEPTION", "REJECTED_AFTER_RETURN")
  /\ Store(Release(aftersale[a].qty, aftersale[a].amt))
  /\ UNCHANGED <<order, refund, executed, position, wallet, restocked>>

--------------------------------
\* Refunds: created by an administrator.

\* What the refunds under way will give back and take back on a line.
OpenAmt(s, i) == IF s \in OpenRefunds THEN refund[s].amt[i] ELSE 0
OpenReversal(s, i) == IF s \in OpenRefunds THEN refund[s].reversal[i] ELSE 0
CommittedAmt(i) == SumFunction([s \in Sources |-> OpenAmt(s, i)])
CommittedReversal(i) == SumFunction([s \in Sources |-> OpenReversal(s, i)])

\* Mutant: rounds every refund on its own, with no tail.
CommissionReversalNoTail(i, amount) ==
  LET left == Original(i) - position[i].reversed - CommittedReversal(i)
  IN  Lesser(HalfUp(amount), left)

\* The commission taken back with amount; all that is left of it with the tail.
CommissionReversal(i, amount) ==
  LET left == Original(i) - position[i].reversed - CommittedReversal(i)
      gone == item[i].refAmt + CommittedAmt(i) + amount
  IN  IF gone >= LinePaid(i) THEN left ELSE Lesser(HalfUp(amount), left)

\* What buildAftersalePreview finds refundable for aftersale a.
ReadyToRefund(a) ==
  \/ aftersale[a].type = "REFUND_ONLY" /\ aftersale[a].status = "REFUNDING"
  \/ aftersale[a].type = "RETURN_REFUND" /\ aftersale[a].status = "REFUNDING_AFTER_RETURN"

RefundQty(a, i) ==
  IF aftersale[a].type = "REFUND_ONLY" THEN aftersale[a].qty[i] ELSE aftersale[a].approved[i]
RefundAmt(a, i) ==
  IF aftersale[a].type = "REFUND_ONLY" THEN aftersale[a].amt[i] ELSE KeptAmount(a, i)

AftersaleRefundable(a) ==
  /\ order.status # "CLOSED"
  /\ ReadyToRefund(a)
  /\ \A i \in Items :
       /\ RefundQty(a, i) > 0 => RefundAmt(a, i) > 0
       /\ aftersale[a].type = "REFUND_ONLY" /\ RefundQty(a, i) > 0 => item[i].shipped = 0
       /\ aftersale[a].type = "RETURN_REFUND" =>
            /\ RefundAmt(a, i) <= aftersale[a].amt[i]
            /\ item[i].resQty >= RefundQty(a, i) /\ item[i].resAmt >= RefundAmt(a, i)
  /\ LET amount == SumFunction([i \in Items |-> RefundAmt(a, i)])
     IN  0 < amount /\ amount <= Paid - order.refunded

CreateAftersaleRefund(a) ==
  /\ refund[a].status = "NONE"
  /\ AftersaleRefundable(a)
  /\ refund' = [refund EXCEPT ![a] =
       [status |-> "PENDING",
        qty |-> [i \in Items |-> RefundQty(a, i)],
        amt |-> [i \in Items |-> RefundAmt(a, i)],
        reversal |-> [i \in Items |-> IF RefundQty(a, i) > 0
                                      THEN CommissionReversal(i, RefundAmt(a, i)) ELSE 0]]]
  /\ order' = [order EXCEPT !.refunding = "REFUNDING"]
  /\ UNCHANGED <<item, aftersale, executed, position, wallet, restocked>>

CreateCompensation(c, i, amount) ==
  /\ refund[c].status = "NONE"
  /\ order.status # "CLOSED"
  /\ amount <= RemainingAmt(i)
  /\ Store([item EXCEPT ![i] = Reserve(i, 0, amount)])
  /\ refund' = [refund EXCEPT ![c] =
       [status |-> "PENDING", qty |-> Zero, amt |-> [Zero EXCEPT ![i] = amount],
        reversal |-> [Zero EXCEPT ![i] = CommissionReversal(i, amount)]]]
  /\ order' = [order EXCEPT !.refunding = "REFUNDING"]
  /\ UNCHANGED <<aftersale, executed, position, wallet, restocked>>

\* The same refund goes on with a new attempt.
RetryRefund(s) ==
  /\ refund[s].status = "FAILED"
  /\ refund' = [refund EXCEPT ![s].status = "PENDING"]
  /\ order' = [order EXCEPT !.refunding = "REFUNDING"]
  /\ UNCHANGED <<item, aftersale, executed, position, wallet, restocked>>

--------------------------------
\* Refunds: executed by the worker and the provider.

ClaimRefund(s) ==
  /\ refund[s].status = "PENDING"
  /\ refund' = [refund EXCEPT ![s].status = "PROCESSING"]
  /\ UNCHANGED <<order, item, aftersale, executed, position, wallet, restocked>>

ExecuteRefund(s, outcome) ==
  /\ refund[s].status = "PROCESSING"
  /\ executed[s] = "NOT_FOUND"
  /\ executed' = [executed EXCEPT ![s] = outcome]
  /\ UNCHANGED <<order, item, aftersale, refund, position, wallet, restocked>>

\* aggregateRefundProcessingStatus, with refund s already in its new state.
Aggregate(s, status) ==
  LET after(t) == IF t = s THEN status ELSE refund[t].status
  IN  IF \E t \in Sources : after(t) = "FAILED" THEN "FAILED"
      ELSE IF \E t \in Sources : after(t) \in {"PENDING", "PROCESSING"} THEN "REFUNDING"
      ELSE "IDLE"

RecordFailure(s) ==
  /\ refund[s].status = "PROCESSING"
  /\ executed[s] = "FAILED"
  /\ executed' = [executed EXCEPT ![s] = "NOT_FOUND"]
  /\ refund' = [refund EXCEPT ![s].status = "FAILED"]
  /\ IF s \in Aftersales THEN aftersale' = [aftersale EXCEPT ![s].status = "REFUND_FAILED"]
                         ELSE UNCHANGED aftersale
  /\ order' = [order EXCEPT !.refunding = Aggregate(s, "FAILED")]
  /\ UNCHANGED <<item, position, wallet, restocked>>

\* Mutant: only an inspection gives goods back.
NeverRestocked(s) == FALSE

AutoRestock(s) == s \in Aftersales /\ aftersale[s].type = "REFUND_ONLY"

RefundedRows(s) ==
  LET r == refund[s] IN
  [i \in Items |->
    [item[i] EXCEPT !.resQty = @ - r.qty[i], !.resAmt = @ - r.amt[i],
                    !.refQty = @ + r.qty[i], !.refAmt = @ + r.amt[i],
                    !.preQty = @ + (IF AutoRestock(s) THEN r.qty[i] ELSE 0)]]

\* applyCommissionReversals: an expected commission shrinks, an available one
\* is debited from the wallet, whose balance may become negative.
Reverse(s) ==
  LET r == refund[s].reversal
  IN  /\ \A i \in Items : r[i] > 0 =>
           /\ position[i].state \in {"EXPECTED", "AVAILABLE"}
           /\ position[i].reversed + r[i] <= Original(i)
           /\ position[i].state = "EXPECTED" => r[i] <= position[i].expected
      /\ position' = [i \in Items |->
           IF r[i] = 0 THEN position[i]
           ELSE IF position[i].state = "AVAILABLE" THEN [position[i] EXCEPT !.reversed = @ + r[i]]
           ELSE [state |-> IF r[i] = position[i].expected THEN "CANCELLED" ELSE "EXPECTED",
                 expected |-> position[i].expected - r[i],
                 reversed |-> position[i].reversed + r[i]]]
      /\ wallet' = [wallet EXCEPT !.available = @ -
           SumFunction([i \in Items |-> IF position[i].state = "AVAILABLE" THEN r[i] ELSE 0])]

RecordedOrder(s) ==
  LET rows == RefundedRows(s)
      refunded == order.refunded + SumFunction(refund[s].amt)
      unitsFull == \A i \in Items : rows[i].refQty = Quantity[i]
      neverLeft == unitsFull /\ \A i \in Items : rows[i].shipped = 0 /\ rows[i].preQty = Quantity[i]
      full == refunded = Paid
  IN  [order EXCEPT
        !.refunding = Aggregate(s, "SUCCEEDED"),
        !.progress = IF full THEN "FULL" ELSE "PARTIAL",
        !.refunded = refunded,
        !.status = IF full /\ neverLeft THEN "CLOSED"
                   ELSE IF full /\ unitsFull THEN "COMPLETED" ELSE @,
        !.fulfilment = IF full /\ neverLeft THEN "CANCELLED" ELSE @]

Restock(s) ==
  restocked' = [i \in Items |-> restocked[i] +
    (IF s \in Compensations THEN 0
     ELSE IF AutoRestock(s) THEN refund[s].qty[i]
     ELSE IF refund[s].qty[i] > 0 THEN aftersale[s].restock[i] ELSE 0)]

RecordSuccess(s) ==
  /\ refund[s].status = "PROCESSING"
  /\ executed[s] = "SUCCEEDED"
  /\ order.refunded + SumFunction(refund[s].amt) <= Paid
  /\ Store(RefundedRows(s))
  /\ Reverse(s)
  /\ Restock(s)
  /\ order' = RecordedOrder(s)
  /\ refund' = [refund EXCEPT ![s].status = "SUCCEEDED"]
  /\ IF s \in Aftersales THEN aftersale' = [aftersale EXCEPT ![s].status = "COMPLETED"]
                         ELSE UNCHANGED aftersale
  /\ UNCHANGED executed

--------------------------------
\* Fulfilment.

Shippable(i) == Quantity[i] - item[i].preQty - item[i].shipped

\* One parcel with every unit not refunded before; no partial shipment.
CreateShipment ==
  /\ order.status = "PENDING_SHIPMENT" /\ order.fulfilment = "READY_TO_SHIP"
  /\ OpenAftersales = {}
  /\ \E i \in Items : Shippable(i) > 0
  /\ Store([i \in Items |-> [item[i] EXCEPT !.shipped = @ + Shippable(i)]])
  /\ order' = [order EXCEPT !.status = "SHIPPING", !.fulfilment = "SHIPPED"]
  /\ UNCHANGED <<aftersale, refund, executed, position, wallet, restocked>>

AppendLogisticsEvent ==
  /\ order.status = "SHIPPING"
  /\ \/ order.fulfilment = "SHIPPED" /\ order' = [order EXCEPT !.fulfilment = "IN_TRANSIT"]
     \/ order.fulfilment = "IN_TRANSIT" /\ order' = [order EXCEPT !.fulfilment = "DELIVERED"]
  /\ UNCHANGED <<item, aftersale, refund, executed, position, wallet, restocked>>

\* By the customer or an administrator: what is still expected becomes available.
CompleteOrder ==
  LET due == [i \in Items |-> IF position[i].state = "EXPECTED" THEN position[i].expected ELSE 0] IN
  /\ order.status = "SHIPPING"
  /\ order.refunding = "IDLE" /\ OpenAftersales = {} /\ OpenRefunds = {}
  /\ position' = [i \in Items |->
       IF position[i].state = "EXPECTED" THEN [position[i] EXCEPT !.state = "AVAILABLE", !.expected = 0] ELSE position[i]]
  /\ wallet' = [wallet EXCEPT !.available = @ + SumFunction(due)]
  /\ order' = [order EXCEPT !.status = "COMPLETED", !.fulfilment = "DELIVERED", !.window = "OPEN"]
  /\ UNCHANGED <<item, aftersale, refund, executed, restocked>>

WindowExpires ==
  /\ order.window = "OPEN"
  /\ order' = [order EXCEPT !.window = "EXPIRED"]
  /\ UNCHANGED <<item, aftersale, refund, executed, position, wallet, restocked>>

\* The agent applies for all that is available: it leaves the balance at once.
Withdraw ==
  /\ wallet.available > 0
  /\ wallet' = [available |-> 0, withdrawn |-> wallet.withdrawn + wallet.available]
  /\ UNCHANGED <<order, item, aftersale, refund, executed, position, restocked>>

--------------------------------
Upto(f) == {g \in [Items -> UNION {0..f[i] : i \in Items}] : \A i \in Items : g[i] <= f[i]}

CustomerStep(a) ==
  \/ \E type \in {"REFUND_ONLY", "RETURN_REFUND"}, req \in Upto(Quantity) :
       ApplyAftersale(a, type, req)
  \/ CancelAftersale(a) \/ SubmitReturnShipment(a)

AdminStep(a) ==
  \/ ApproveAftersale(a) \/ RejectAftersale(a)
  \/ \E approved \in Upto(aftersale[a].qty) : \E restock \in Upto(approved) :
       RecordInspection(a, approved, restock)
  \/ ContinueRefund(a) \/ RejectAfterReturn(a)
  \/ CreateAftersaleRefund(a)

RefundStep(s) ==
  \/ ClaimRefund(s) \/ RetryRefund(s)
  \/ \E outcome \in {"SUCCEEDED", "FAILED"} : ExecuteRefund(s, outcome)
  \/ RecordFailure(s) \/ RecordSuccess(s)

Next ==
  \/ \E a \in Aftersales : CustomerStep(a) \/ AdminStep(a)
  \/ \E c \in Compensations, i \in Items, amount \in Amounts : CreateCompensation(c, i, amount)
  \/ \E s \in Sources : RefundStep(s)
  \/ CreateShipment \/ AppendLogisticsEvent \/ CompleteOrder \/ WindowExpires \/ Withdraw

Spec == Init /\ [][Next]_vars

\* The workers and the callback inbox retry their steps without end; nobody
\* has to apply, review, ship, complete or retry.
FairSpec ==
  /\ Spec
  /\ \A s \in Sources : /\ WF_vars(ClaimRefund(s))
                        /\ WF_vars(\E outcome \in {"SUCCEEDED", "FAILED"} : ExecuteRefund(s, outcome))
                        /\ WF_vars(RecordFailure(s) \/ RecordSuccess(s))

--------------------------------
\* Every row has a value its columns allow.
TypeOK ==
  /\ order \in [status : {"PENDING_SHIPMENT", "SHIPPING", "COMPLETED", "CLOSED"},
                fulfilment : {"READY_TO_SHIP", "SHIPPED", "IN_TRANSIT", "DELIVERED", "CANCELLED"},
                refunding : {"IDLE", "REFUNDING", "FAILED"}, progress : {"NONE", "PARTIAL", "FULL"},
                window : {"NONE", "OPEN", "EXPIRED"}, refunded : 0..Paid]
  /\ \A i \in Items : ItemCheck(i, item[i]) /\ restocked[i] \in Nat
  /\ \A a \in Aftersales :
       /\ aftersale[a].status \in ActiveAftersale \cup
            {"NONE", "CANCELLED", "REJECTED", "REJECTED_AFTER_RETURN", "COMPLETED"}
       /\ aftersale[a].type \in {"NONE", "REFUND_ONLY", "RETURN_REFUND"}
  /\ \A s \in Sources :
       /\ refund[s].status \in ActiveRefund \cup {"NONE", "SUCCEEDED"}
       /\ executed[s] \in {"NOT_FOUND", "SUCCEEDED", "FAILED"}
  /\ \A i \in Items :
       /\ position[i].state \in {"NONE", "EXPECTED", "AVAILABLE", "CANCELLED"}
       /\ position[i].expected \in 0..Original(i) /\ position[i].reversed \in 0..Original(i)
  /\ wallet.available \in Int /\ wallet.withdrawn \in Nat

\* The reservation of a line is exactly what its open aftersales and
\* compensations still hold: no quota leaks when an aftersale is cancelled,
\* rejected, partly approved or refunded, and none is released twice.
Inspected(a) ==
  aftersale[a].type = "RETURN_REFUND" /\ aftersale[a].status \in {"REFUNDING_AFTER_RETURN", "REFUND_FAILED"}
HeldQty(a, i) ==
  IF a \notin OpenAftersales THEN 0
  ELSE IF Inspected(a) THEN aftersale[a].approved[i] ELSE aftersale[a].qty[i]
HeldAmt(s, i) ==
  IF s \in Compensations THEN OpenAmt(s, i)
  ELSE IF s \notin OpenAftersales THEN 0
  ELSE IF Inspected(s) THEN KeptAmount(s, i) ELSE aftersale[s].amt[i]
ReservationsAreHeld ==
  \A i \in Items :
    /\ item[i].resQty = SumFunction([a \in Aftersales |-> HeldQty(a, i)])
    /\ item[i].resAmt = SumFunction([s \in Sources |-> HeldAmt(s, i)])

\* Whatever the order of completion, refunds and withdrawals, the agent has
\* what the lines earned less what the refunds took back, and the rest of
\* the commission is still expected (PRD 8.6, AC-COM-032).
Earned(i) == IF position[i].state = "AVAILABLE" THEN Original(i) - position[i].reversed ELSE 0
CommissionAddsUp ==
  /\ \A i \in Items :
       position[i].state # "AVAILABLE" => position[i].expected + position[i].reversed = Original(i)
  /\ wallet.available + wallet.withdrawn = SumFunction([i \in Items |-> Earned(i)])

\* A line whose money has gone back completely has earned no commission:
\* the last refund takes what the rounding of the others left
\* (AC-COM-018), in whatever order the refunds were created and succeeded.
NoCommissionOnReturnedMoney ==
  \A i \in Items : item[i].refAmt = LinePaid(i) => position[i].reversed = Original(i)

\* A closed order is settled on every side: all its money is back, nothing
\* is reserved or being refunded, all its goods are in stock, none of its
\* commission is left.
ClosedOrderOwesNothing ==
  order.status = "CLOSED" =>
    /\ order.refunded = Paid /\ OpenRefunds = {} /\ OpenAftersales = {}
    /\ \A i \in Items : /\ item[i].resAmt = 0 /\ item[i].shipped = 0
                         /\ restocked[i] = Quantity[i]
                         /\ position[i].state \in {"NONE", "CANCELLED"}

\* A success of the provider can always be recorded: no other command may
\* have put the order into a state in which the tables or the commission
\* refuse what the refund, once executed, has to write.
SuccessCanBeRecorded ==
  \A s \in Sources :
    refund[s].status = "PROCESSING" /\ executed[s] = "SUCCEEDED" =>
      /\ order.refunded + SumFunction(refund[s].amt) <= Paid
      /\ \A i \in Items :
           /\ ItemCheck(i, RefundedRows(s)[i])
           /\ refund[s].reversal[i] > 0 =>
                /\ position[i].state \in {"EXPECTED", "AVAILABLE"}
                /\ position[i].reversed + refund[s].reversal[i] <= Original(i)

\* Physical stock gets back the units refunded before shipment and the
\* returned units an inspection found fit for sale, each once: never the
\* damaged, the scrapped or the compensated ones, and never more than was
\* refunded.
PutBack(a, i) == IF aftersale[a].status = "COMPLETED" THEN aftersale[a].restock[i] ELSE 0
StockReturnsOnce ==
  \A i \in Items :
    /\ restocked[i] <= item[i].refQty
    /\ restocked[i] = item[i].preQty + SumFunction([a \in Aftersales |-> PutBack(a, i)])

\* An approved aftersale can be refunded, whatever happened to the order since
\* it was opened: the review and the creation of the refund disagree on one
\* kind only, the refund without return of goods that had been shipped, which
\* may be opened and approved and never refunded.
ClaimsShipped(a) ==
  aftersale[a].type = "REFUND_ONLY" /\ \E i \in Items : aftersale[a].qty[i] > 0 /\ item[i].shipped > 0
ApprovedIsRefundable ==
  \A a \in Aftersales :
    ReadyToRefund(a) /\ refund[a].status = "NONE" => AftersaleRefundable(a) \/ ClaimsShipped(a)

\* What the preview lets the customer submit can be reserved.
PreviewCanBeConfirmed ==
  \A i \in Items :
    CanSubmit([Zero EXCEPT ![i] = RemainingQty(i)]) /\ RemainingQty(i) > 0 /\ RemainingAmt(i) > 0 =>
      ItemCheck(i, Reserve(i, RemainingQty(i), RemainingAmt(i)))

\* No unit both leaves the warehouse and is paid back without coming back,
\* whichever of the two is first and while the refund is still under way.
\* A refund after return does not count: its units have been inspected.
Unreturned(a, i) ==
  IF aftersale[a].type = "REFUND_ONLY" /\ refund[a].status # "NONE" THEN refund[a].qty[i] ELSE 0
ShippedOrRefunded ==
  \A i \in Items : item[i].shipped + SumFunction([a \in Aftersales |-> Unreturned(a, i)]) <= Quantity[i]

\* The customer's refund never comes to rest unrecorded: what is being
\* executed succeeds on the books or fails, and money the provider has
\* given back is eventually recorded.
ExecutionIsRecorded ==
  \A s \in Sources : executed[s] = "SUCCEEDED" ~> refund[s].status = "SUCCEEDED"

\* With compensations beside the aftersales, reservations and commission agree.
CompensationsAddUp ==
  TypeOK /\ ReservationsAreHeld /\ CommissionAddsUp /\ NoCommissionOnReturnedMoney

\* Returns, refunds, shipment and commission agree on the order's lines at
\* every moment.
ReturnsAddUp ==
  /\ TypeOK
  /\ ReservationsAreHeld /\ CommissionAddsUp /\ NoCommissionOnReturnedMoney
  /\ ClosedOrderOwesNothing /\ SuccessCanBeRecorded /\ StockReturnsOnce /\ ApprovedIsRefundable
=============================================================================
