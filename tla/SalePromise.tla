----------------------------- MODULE SalePromise -----------------------------
(***************************************************************************)
(* What the mall promises about one order, whatever happens on the way:    *)
(* goods are reserved once, then either handed over for money that is kept *)
(* or put back; money that comes after the goods were put back is owed to  *)
(* the customer and given back.  Nothing here knows of intents, callbacks, *)
(* workers or failures.                                                    *)
(***************************************************************************)
EXTENDS Integers

CONSTANTS Orders, Qty, InitialStock

VARIABLES
  goods,  \* goods[o]: where the pieces of order o are
  money,  \* money[o]: what happened to the customer's money
  free    \* pieces neither promised to an order nor gone

promise == <<goods, money, free>>

Init ==
  /\ goods = [o \in Orders |-> "none"]
  /\ money = [o \in Orders |-> "none"]
  /\ free = InitialStock

Reserve(o) ==
  /\ goods[o] = "none"
  /\ free >= Qty
  /\ goods' = [goods EXCEPT ![o] = "reserved"]
  /\ free' = free - Qty
  /\ UNCHANGED money

\* The goods may go at once, or after a person has looked at the order.
TakeMoney(o) ==
  /\ goods[o] = "reserved"
  /\ money[o] = "none"
  /\ money' = [money EXCEPT ![o] = "kept"]
  /\ \/ goods' = [goods EXCEPT ![o] = "sold"]
     \/ UNCHANGED goods
  /\ UNCHANGED free

HandOver(o) ==
  /\ goods[o] = "reserved"
  /\ money[o] = "kept"
  /\ goods' = [goods EXCEPT ![o] = "sold"]
  /\ UNCHANGED <<money, free>>

Release(o) ==
  /\ goods[o] = "reserved"
  /\ money[o] = "none"
  /\ goods' = [goods EXCEPT ![o] = "released"]
  /\ free' = free + Qty
  /\ UNCHANGED money

TakeLateMoney(o) ==
  /\ goods[o] = "released"
  /\ money[o] = "none"
  /\ money' = [money EXCEPT ![o] = "owed"]
  /\ UNCHANGED <<goods, free>>

GiveBack(o) ==
  /\ money[o] = "owed"
  /\ money' = [money EXCEPT ![o] = "returned"]
  /\ UNCHANGED <<goods, free>>

Next ==
  \E o \in Orders :
    Reserve(o) \/ TakeMoney(o) \/ HandOver(o) \/ Release(o) \/ TakeLateMoney(o) \/ GiveBack(o)

Spec == Init /\ [][Next]_promise
=============================================================================
