----------------------- MODULE OrderPaymentRefinement -----------------------
(***************************************************************************)
(* Orders, intents, callbacks and refunds together keep the promise of     *)
(* SalePromise: every transaction and provider call is one of its steps or *)
(* changes nothing it can see.                                             *)
(***************************************************************************)
EXTENDS OrderPayment

Goods(o) ==
  CASE order[o].reservation = "NONE"     -> "none"
    [] order[o].reservation = "ACTIVE"   -> "reserved"
    [] order[o].reservation = "CONSUMED" -> "sold"
    [] OTHER                             -> "released"

\* Money is back when the provider has sent it, not when the shop says so.
Money(o) ==
  IF returned[o] THEN "returned"
  ELSE IF \E i \in IntentsOf(o) : intent[i].attempt = "SUCCEEDED_LATE" THEN "owed"
  ELSE IF order[o].payment = "PAID" THEN "kept"
  ELSE "none"

Promise == INSTANCE SalePromise WITH
  goods <- [o \in Orders |-> Goods(o)],
  money <- [o \in Orders |-> Money(o)],
  free  <- physical - locked

\* The order, payment and refund code implements the promise: goods go
\* only for money that is kept, are put back only unpaid, and money that
\* came too late is only ever owed or given back.
PromiseKept == Promise!Spec
=============================================================================
