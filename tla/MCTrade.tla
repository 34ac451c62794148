------------------------------ MODULE MCTrade ------------------------------
(***************************************************************************)
(* The trade of the mall on small instances, for TLC: rules and their      *)
(* versions, the agent's wallet, aftersales and shipment of an order, the  *)
(* checkout and the catalogue.                                             *)
(*                                                                         *)
(* These components share no variable.  A property of one of them depends  *)
(* on the order of its own steps only, so a behaviour moves one part, the  *)
(* one chosen in the initial state: TLC explores the sum of the            *)
(* components' states and not their product.                               *)
(***************************************************************************)
EXTENDS ConfigVersions, TLC

CONSTANTS
  Parts,                                               \* the parts to explore
  Commissions, CommissionOf, Withdrawals, Accounts, Files, Uploader, Admins, Minimum, MaxReviews,  \* AgentWallet
  Items, Ordered, Price, Rate, Aftersales, Compensations, Refundable,                          \* OrderServicing
  Customers, Channels, MaxQuantity, CartLimit, MaxPhysical, MaxQuotes, MaxRevisions, MaxVersion, \* StoreCheckout
  Brands, Categories, Products, ProductOf, MaxHeld,    \* Catalogue
  Skus                                                 \* StoreCheckout and Catalogue

VARIABLES
  part,                                                                         \* the part that moves
  wallet, ledger, position, withdrawal, bank, agent, impact, previews,          \* AgentWallet
  order, item, aftersale, refund, executed, earned, paidOut, restocked,         \* OrderServicing
  cart, address, revision, onSale, balance, stockLedger, quotes, lapsed, orders, shown,  \* StoreCheckout
  status, brand, category, gallery, reserved, sold, held                        \* Catalogue

\* The first version of all, and readers that take the version in force when
\* they begin.
First == INSTANCE ConfigVersions WITH Bootstrapped <- FALSE, MaxVersions <- 2

\* Two commissions and two withdrawals, with one proof of payment.
Wallet == INSTANCE AgentWallet WITH
  Original <- CommissionOf, MaxPreviews <- MaxReviews, preview <- impact
TwoAndOne == "c1" :> 2 @@ "c2" :> 1
OneUploader == "f1" :> "a1"

\* A line of two units and one of one, and two aftersales over both of them;
\* the commission of a unit rounds down, that of the line up.
Servicing == INSTANCE OrderServicing WITH
  Quantity <- Ordered, Amounts <- Refundable, position <- earned, wallet <- paidOut
TwoAndOneUnits == "i1" :> 2 @@ "i2" :> 1
ThreeCents == [i \in Items |-> 3]

\* Two customers, two SKUs.
Checkout == INSTANCE StoreCheckout WITH Sources <- Channels, ledger <- stockLedger

\* One brand that can be replaced by another, two SKUs of one product.
Goods == INSTANCE Catalogue WITH MaxPreviews <- MaxHeld
OneProduct == [s \in Skus |-> "p1"]

ASSUME TradeAssumption ==
  /\ Wallet!WalletAssumption /\ Servicing!ServicingAssumption
  /\ Checkout!CheckoutAssumption /\ Goods!CatalogueAssumption

\* In the instances of the cfg, customers, SKUs, publishers and aftersales have
\* the same names, so that one permutation renames them all.
Symmetry == {f @@ g : f \in Permutations(Skus), g \in Permutations(Brands)}

--------------------------------
walletVars == <<wallet, ledger, position, withdrawal, bank, agent, impact, previews>>
servicingVars == <<order, item, aftersale, refund, executed, earned, paidOut, restocked>>
checkoutVars == <<cart, address, revision, onSale, balance, stockLedger, quotes, lapsed, orders, shown>>
goodsVars == <<status, brand, category, gallery, reserved, sold, held>>
tradeVars == <<part, vars, walletVars, servicingVars, checkoutVars, goodsVars>>

TradeInit ==
  /\ part \in Parts
  /\ CASE part = "rules" -> Init /\ \A r \in Readers : reader[r].kind \in {"settle", "complete"}
       [] part = "first" -> First!Init /\ \A r \in Readers : reader[r].kind \in {"withdraw", "approve"}
       [] OTHER -> Init /\ \A r \in Readers : reader[r].kind = "settle"
  /\ Wallet!Init /\ Servicing!Init /\ Checkout!Init /\ Goods!Init

RulesStep ==
  part = "rules" /\ Next /\ UNCHANGED <<part, walletVars, servicingVars, checkoutVars, goodsVars>>
FirstStep ==
  part = "first" /\ First!Next /\ UNCHANGED <<part, walletVars, servicingVars, checkoutVars, goodsVars>>
WalletStep ==
  part = "wallet" /\ Wallet!Next /\ UNCHANGED <<part, vars, servicingVars, checkoutVars, goodsVars>>
ServicingStep ==
  /\ part = "servicing" /\ Servicing!Next /\ UNCHANGED <<part, vars, walletVars, checkoutVars, goodsVars>>
  /\ \A c \in Compensations : refund'[c].status = "NONE"
\* One aftersale beside the compensations, all on one line.
CompensationStep ==
  /\ part = "compensation" /\ Servicing!Next /\ UNCHANGED <<part, vars, walletVars, checkoutVars, goodsVars>>
  /\ Cardinality({a \in Aftersales : aftersale'[a].status # "NONE"}) <= 1
  /\ Cardinality({i \in Items : item'[i].refAmt + item'[i].resAmt > 0}) <= 1
\* Customers compete for the units of one SKU, without carts.
CheckoutStep ==
  /\ part = "checkout" /\ Checkout!Next /\ UNCHANGED <<part, vars, walletVars, servicingVars, goodsVars>>
  /\ UNCHANGED Checkout!store
  /\ Cardinality({s \in Skus : balance'[s].version > 1 \/ \E p \in shown' : p.sku = s}) <= 1
\* One customer buys part of a cart while an administrator edits what is in it.
CartsStep ==
  /\ part = "carts" /\ Checkout!Next /\ UNCHANGED <<part, vars, walletVars, servicingVars, goodsVars>>
  /\ Cardinality({c \in Customers : Checkout!LinesOf(c)' # {} \/ address'[c] > 1}) <= 1
  /\ Cardinality(quotes') <= 1 /\ \A q \in quotes' : q.source = "CART"
  /\ \A s \in Skus : balance'[s].physical <= 1 /\ balance'[s].version <= 3
  /\ Cardinality({s \in Skus : revision'[s] > 1 \/ ~onSale'[s]}) <= 1
GoodsStep ==
  part = "goods" /\ Goods!Next /\ UNCHANGED <<part, vars, walletVars, servicingVars, checkoutVars>>

\* Versions, orders and wallets end; the catalogue always goes on.
Rest == part # "goods" /\ UNCHANGED tradeVars

TradeNext ==
  RulesStep \/ FirstStep \/ WalletStep \/ ServicingStep \/ CompensationStep \/ CheckoutStep \/ CartsStep \/ GoodsStep \/ Rest

TradeSpec == TradeInit /\ [][TradeNext]_tradeVars

--------------------------------
\* AgentWallet: the agent's money adds up in wallet, ledger, commissions
\* and withdrawals, whatever order reviews, refunds and settlements take.
MoneyAddsUp == part = "wallet" => Wallet!MoneyAddsUp

\* OrderServicing: aftersales, refunds, shipment, stock and commission
\* agree on every line of the order.
ReturnsAddUp ==
  /\ part = "servicing" => Servicing!ReturnsAddUp
  /\ part = "compensation" => Servicing!CompensationsAddUp

\* OrderServicing: no unit is both shipped and refunded without a return, with
\* compensations beside the aftersales or not.
ShippedOrRefunded == Servicing!ShippedOrRefunded

\* StoreCheckout: orders, quotes and stock agree.
OrdersAreCovered == part \in {"checkout", "carts"} => Checkout!OrdersAreCovered

\* Catalogue: what is on sale can be sold.
OfferIsSound == part = "goods" => Goods!OfferIsSound

\* AgentWallet, StoreCheckout, Catalogue: a command that was previewed does
\* what its administrator was shown, to what was shown; an order takes no
\* more out of a cart than it bought; goods change along their lifecycle.
ActedAsShown ==
  /\ Wallet!ReviewsStand
  /\ [][part = "checkout" => Checkout!AdjustsAsShown]_tradeVars
  /\ [][part = "carts" => Checkout!KeepsTheRest]_tradeVars
  /\ Goods!LifecycleKept
=============================================================================
