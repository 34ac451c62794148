---------------------------- MODULE StoreCheckout ----------------------------
(***************************************************************************)
(* From a cart to an order, over the stock of the SKUs: carts and their    *)
(* merge (store-cart.repository.ts), quotes (store-checkout.repository.ts, *)
(* store-checkout-quote-credential.ts), the creation of the order and of   *)
(* its reservation (store-order.repository.ts), and the stock with its     *)
(* ledger as orders, refunds and administrators move it                    *)
(* (inventory.repository.ts).                                              *)
(*                                                                         *)
(* A quote is not stored: it is a signed copy of the facts it was made     *)
(* from, which the customer sends back.  The order is created when the     *)
(* facts, read again in its transaction, are the same.  Nothing marks a    *)
(* quote as used.                                                          *)
(***************************************************************************)
EXTENDS Integers, FiniteSets, Functions

CONSTANTS Customers, Skus,
          Sources,        \* ways to order: "CART", "BUY_NOW"
          MaxQuantity,    \* CART_QUANTITY_LIMIT, CHECKOUT_QUANTITY_LIMIT
          CartLimit,      \* CART_ITEM_LIMIT: different SKUs in a cart
          MaxPhysical,    \* the largest stock the integer column holds
          \* bounds of the exploration
          MaxQuotes, MaxRevisions, MaxVersion

CheckoutAssumption ==
    /\ Sources \subseteq {"CART", "BUY_NOW"}
    /\ {MaxQuantity, MaxPhysical, MaxVersion} \subseteq Nat \ {0}
    /\ {CartLimit, MaxQuotes, MaxRevisions} \subseteq Nat

NoLine == [quantity |-> 0, selected |-> FALSE]
Quantity == 1 .. MaxQuantity
Line == [quantity: Quantity, selected: BOOLEAN]
\* What a customer asks for: a quantity of some SKUs.
Requests == {r \in [Skus -> 0 .. MaxQuantity] : \E s \in Skus : r[s] > 0}
Asked(r) == {s \in Skus : r[s] > 0}

VARIABLES
    cart,      \* of each customer: the line of each SKU, or NoLine
    address,   \* version of the customer's address
    revision,  \* version of the SKU with its price, product, brand, category
    onSale,    \* the SKU is publicly available
    balance,   \* [physical, locked, version] of each SKU
    ledger,    \* sums and last values of the stock ledger of each SKU
    quotes,    \* the quotes issued so far, in order; each with its facts
    lapsed,    \* numbers of the quotes that have expired
    orders,    \* the orders created
    shown      \* the adjustment preview an administrator holds, if any

vars == <<cart, address, revision, onSale, balance, ledger, quotes, lapsed, orders, shown>>
store == <<cart, address, revision, onSale>>

Available(s) == balance[s].physical - balance[s].locked
Selected(c) == [s \in Skus |-> IF cart[c][s].selected THEN cart[c][s].quantity ELSE 0]

Init ==
    /\ cart = [c \in Customers |-> [s \in Skus |-> NoLine]]
    /\ address = [c \in Customers |-> 1]
    /\ revision = [s \in Skus |-> 1]
    /\ onSale = [s \in Skus |-> TRUE]
    /\ balance = [s \in Skus |-> [physical |-> 0, locked |-> 0, version |-> 1]]
    /\ ledger = [s \in Skus |-> [physical |-> 0, locked |-> 0,
                                 physicalAfter |-> 0, lockedAfter |-> 0]]
    /\ quotes = {} /\ lapsed = {} /\ orders = {}
    /\ shown = {}

--------------------------------
\* Carts.

LinesOf(c) == {s \in Skus : cart[c][s] # NoLine}

PutItem(c, s, line) ==
    /\ cart[c][s] # line
    /\ cart[c][s] = NoLine => Cardinality(LinesOf(c)) < CartLimit
    /\ cart' = [cart EXCEPT ![c][s] = line]
    /\ UNCHANGED <<address, revision, onSale, balance, ledger, quotes, lapsed, orders, shown>>

DeleteItem(c, s) ==
    /\ cart[c][s] # NoLine
    /\ cart' = [cart EXCEPT ![c][s] = NoLine]
    /\ UNCHANGED <<address, revision, onSale, balance, ledger, quotes, lapsed, orders, shown>>

Smaller(a, b) == IF a < b THEN a ELSE b

Merged(old, line) ==
    IF old = NoLine THEN line
    ELSE [quantity |-> Smaller(MaxQuantity, old.quantity + line.quantity),
          selected |-> old.selected \/ line.selected]

\* The cart kept by the device is added to the stored one.
MergeCart(c, s, line) ==
    /\ Cardinality(LinesOf(c) \union {s}) <= CartLimit
    /\ cart' = [cart EXCEPT ![c][s] = Merged(@, line)]
    /\ UNCHANGED <<address, revision, onSale, balance, ledger, quotes, lapsed, orders, shown>>

--------------------------------
\* Changes of what a quote is made from.

ReviseAddress(c) ==
    /\ address[c] <= MaxRevisions
    /\ address' = [address EXCEPT ![c] = @ + 1]
    /\ UNCHANGED <<cart, revision, onSale, balance, ledger, quotes, lapsed, orders, shown>>

ReviseSku(s, sale) ==
    /\ revision[s] <= MaxRevisions
    /\ revision' = [revision EXCEPT ![s] = @ + 1]
    /\ onSale' = [onSale EXCEPT ![s] = sale]
    /\ UNCHANGED <<cart, address, balance, ledger, quotes, lapsed, orders, shown>>

--------------------------------
\* The stock: every movement changes the balance under its version and adds
\* a ledger entry with the changes and the values after them.

Move(s, physical, locked) ==
    /\ balance[s].version < MaxVersion
    /\ balance' = [balance EXCEPT ![s] =
          [physical |-> @.physical + physical, locked |-> @.locked + locked,
           version |-> @.version + 1]]
    /\ ledger' = [ledger EXCEPT ![s] =
          [physical |-> @.physical + physical, locked |-> @.locked + locked,
           physicalAfter |-> balance[s].physical + physical,
           lockedAfter |-> balance[s].locked + locked]]

\* The movement of all lines of an order at once.
MoveAll(change) ==
    /\ \A s \in Skus : change[s] # <<0, 0>> => balance[s].version < MaxVersion
    /\ balance' = [s \in Skus |-> IF change[s] = <<0, 0>> THEN balance[s] ELSE
          [physical |-> balance[s].physical + change[s][1],
           locked |-> balance[s].locked + change[s][2],
           version |-> balance[s].version + 1]]
    /\ ledger' = [s \in Skus |-> IF change[s] = <<0, 0>> THEN ledger[s] ELSE
          [physical |-> ledger[s].physical + change[s][1],
           locked |-> ledger[s].locked + change[s][2],
           physicalAfter |-> balance[s].physical + change[s][1],
           lockedAfter |-> balance[s].locked + change[s][2]]]

PreviewAdjustment(s, delta) ==
    /\ shown = {}
    /\ balance[s].physical + delta \in 0 .. MaxPhysical
    /\ shown' = {[sku |-> s, delta |-> delta, version |-> balance[s].version,
                  before |-> balance[s].physical, locked |-> balance[s].locked]}
    /\ UNCHANGED <<store, balance, ledger, quotes, lapsed, orders>>

AbandonAdjustment ==
    /\ shown # {}
    /\ shown' = {}
    /\ UNCHANGED <<store, balance, ledger, quotes, lapsed, orders>>

ConfirmAdjustment(v) ==
    /\ balance[v.sku].version = v.version
    /\ balance[v.sku].physical + v.delta \in balance[v.sku].locked .. MaxPhysical
    /\ Move(v.sku, v.delta, 0)
    /\ shown' = {}
    /\ UNCHANGED <<store, quotes, lapsed, orders>>

--------------------------------
\* Quotes and orders.

\* Mutant: the quote binds the price but not the stock it was made from.
FactsOfPrice(c, source, request) ==
    [address |-> address[c],
     cart |-> IF source = "CART" THEN Selected(c) ELSE [s \in Skus |-> 0],
     items |-> [s \in Asked(request) |-> <<revision[s]>>]]

\* What the quote signs and the order reads again.
Facts(c, source, request) ==
    [address |-> address[c],
     cart |-> IF source = "CART" THEN Selected(c) ELSE [s \in Skus |-> 0],
     items |-> [s \in Asked(request) |-> <<revision[s], balance[s]>>]]

CanSubmit(c, source, request) ==
    /\ source = "CART" => Selected(c) = request
    /\ \A s \in Asked(request) : onSale[s] /\ Available(s) >= request[s]

\* Each quote has a number of its own.  The terms are what the customer sees.
Quote(c, source, request) ==
    /\ Cardinality(quotes) < MaxQuotes
    /\ CanSubmit(c, source, request)
    /\ quotes' = quotes \union
          {[id |-> Cardinality(quotes) + 1, customer |-> c, source |-> source,
            request |-> request, facts |-> Facts(c, source, request),
            terms |-> <<address[c], [s \in Asked(request) |-> revision[s]]>>]}
    /\ UNCHANGED <<store, balance, ledger, lapsed, orders, shown>>

ExpireQuote(q) ==
    /\ q.id \notin lapsed
    /\ lapsed' = lapsed \union {q.id}
    /\ UNCHANGED <<store, balance, ledger, quotes, orders, shown>>

\* The lines of the cart that the order takes.
Without(lines, request) == [s \in Skus |-> IF request[s] > 0 THEN NoLine ELSE lines[s]]

PlaceOrder(q) ==
    /\ q.id \notin lapsed
    /\ CanSubmit(q.customer, q.source, q.request)
    /\ q.facts = Facts(q.customer, q.source, q.request)
    /\ MoveAll([s \in Skus |-> <<0, q.request[s]>>])
    /\ orders' = orders \union
          {[number |-> Cardinality(orders) + 1, quote |-> q.id, request |-> q.request,
            status |-> "OPEN",
            terms |-> <<address[q.customer], [s \in Asked(q.request) |-> revision[s]]>>]}
    /\ cart' = IF q.source = "CART"
               THEN [cart EXCEPT ![q.customer] = Without(@, q.request)] ELSE cart
    /\ UNCHANGED <<address, revision, onSale, quotes, lapsed, shown>>

Becomes(o, status) == (orders \ {o}) \union {[o EXCEPT !.status = status]}

\* Paid: the units leave the stock.
ConsumeReservation(o) ==
    /\ o.status = "OPEN"
    /\ MoveAll([s \in Skus |-> <<-o.request[s], -o.request[s]>>])
    /\ orders' = Becomes(o, "PAID")
    /\ UNCHANGED <<store, quotes, lapsed, shown>>

\* Cancelled or expired: the units are free again.
ReleaseReservation(o) ==
    /\ o.status = "OPEN"
    /\ MoveAll([s \in Skus |-> <<0, -o.request[s]>>])
    /\ orders' = Becomes(o, "CLOSED")
    /\ UNCHANGED <<store, quotes, lapsed, shown>>

\* Refunded with its units put back.
Restock(o) ==
    /\ o.status = "PAID"
    /\ \A s \in Skus : balance[s].physical + o.request[s] <= MaxPhysical
    /\ MoveAll([s \in Skus |-> <<o.request[s], 0>>])
    /\ orders' = Becomes(o, "REFUNDED")
    /\ UNCHANGED <<store, quotes, lapsed, shown>>

Next ==
    \/ \E c \in Customers, s \in Skus, line \in Line : PutItem(c, s, line) \/ MergeCart(c, s, line)
    \/ \E c \in Customers, s \in Skus : DeleteItem(c, s)
    \/ \E c \in Customers : ReviseAddress(c)
    \/ \E s \in Skus, sale \in BOOLEAN : ReviseSku(s, sale)
    \/ \E s \in Skus, delta \in (-MaxPhysical .. MaxPhysical) \ {0} : PreviewAdjustment(s, delta)
    \/ AbandonAdjustment
    \/ \E v \in shown : ConfirmAdjustment(v)
    \/ \E c \in Customers, source \in Sources, request \in Requests : Quote(c, source, request)
    \/ \E q \in quotes : ExpireQuote(q) \/ PlaceOrder(q)
    \/ \E o \in orders : ConsumeReservation(o) \/ ReleaseReservation(o) \/ Restock(o)

Spec == Init /\ [][Next]_vars

--------------------------------
\* The type of the state, with the limits the code promises to keep.
TypeOK ==
    /\ cart \in [Customers -> [Skus -> Line \union {NoLine}]]
    /\ \A c \in Customers : Cardinality(LinesOf(c)) <= CartLimit
    /\ address \in [Customers -> 1 .. MaxRevisions + 1]
    /\ revision \in [Skus -> 1 .. MaxRevisions + 1]
    /\ onSale \in [Skus -> BOOLEAN]
    /\ balance \in [Skus -> [physical: 0 .. MaxPhysical, locked: 0 .. MaxPhysical,
                             version: 1 .. MaxVersion]]
    /\ \A q \in quotes : q.customer \in Customers /\ q.request \in Requests
    /\ lapsed \subseteq {q.id : q \in quotes}
    /\ \A o \in orders : o.status \in {"OPEN", "PAID", "CLOSED", "REFUNDED"}

\* A quote buys once.  The token carries no mark of use and can be sent
\* again under another idempotency key; it is the reservation, which
\* changes the version of the stock it was quoted from, that makes every
\* later use ask for a new quote, even after the units are free again.
QuoteBuysOnce ==
    \A o1, o2 \in orders : o1.quote = o2.quote => o1 = o2

\* The order is what the customer confirmed: the same address and, for
\* every line, the same price and description, although administrators
\* edit them while the quote is out.
OrderedAsQuoted ==
    \A o \in orders : \E q \in quotes :
        q.id = o.quote /\ q.request = o.request /\ q.terms = o.terms

\* Open orders are covered: the units they hold are exactly the locked
\* ones and are physically there, whatever quantities administrators take
\* out between the order and its payment.
NeverOversold ==
    \A s \in Skus :
        /\ balance[s].locked =
              LET open == {o \in orders : o.status = "OPEN"} IN SumFunction([o \in open |-> o.request[s]])
        /\ balance[s].locked <= balance[s].physical

\* The ledger explains the stock: its changes add up to the balance and
\* its last entry ends at it, so an inventory page can be reconciled.
LedgerExplainsStock ==
    \A s \in Skus :
        /\ ledger[s].physical = balance[s].physical /\ ledger[s].locked = balance[s].locked
        /\ ledger[s].physicalAfter = balance[s].physical
        /\ ledger[s].lockedAfter = balance[s].locked

\* An administrator adjusts the stock that was shown: no order, payment or
\* refund came between the preview and its confirmation.
AdjustsAsShown ==
    \A v \in shown : shown' = {} /\ balance' # balance =>
        /\ balance[v.sku].physical = v.before /\ balance[v.sku].locked = v.locked
        /\ balance'[v.sku].physical = v.before + v.delta

\* A cart loses only what its customer took out or bought: a step that
\* creates an order removes no line that is not in the order, in exactly
\* the quantity bought.
KeepsTheRest ==
    orders' # orders =>
        \A c \in Customers, s \in Skus : cart[c][s] # cart'[c][s] =>
            \E o \in orders' \ orders : o.request[s] = cart[c][s].quantity

\* What customers ordered, what they were quoted and what the shop has in
\* stock agree at every moment.
OrdersAreCovered ==
    TypeOK /\ QuoteBuysOnce /\ OrderedAsQuoted /\ NeverOversold /\ LedgerExplainsStock
=============================================================================
