----------------------------- MODULE Catalogue -----------------------------
(***************************************************************************)
(* Brands, categories, products and SKUs as administrators change them     *)
(* (master-data.repository.ts, product-catalog.repository.ts) while        *)
(* customers order: statuses, the references between the levels, the       *)
(* gallery, and the reservations that hold a SKU.                          *)
(*                                                                         *)
(* Every command is one serializable transaction that takes the advisory   *)
(* locks of the levels it touches, top level first, so a command is one    *)
(* action.  A lifecycle command is two: an administrator is shown a        *)
(* preview with the version of the resource, and confirms it later; `held' *)
(* is the set of previews still in somebody's hands.  Versions are kept as *)
(* "fresh": TRUE while the version shown is still the stored one, because  *)
(* every change of a row increments its version.                           *)
(***************************************************************************)
EXTENDS Naturals, FiniteSets

CONSTANTS Brands, Categories, Products, Skus,
          ProductOf,      \* the product of each SKU
          MaxPreviews     \* bound: previews held at one time

Masters == Brands \union Categories

CatalogueAssumption ==
    /\ ProductOf \in [Skus -> Products]
    /\ Products \intersect Masters = {} /\ Skus \intersect (Masters \union Products) = {}
    /\ MaxPreviews \in Nat

Resources == Masters \union Products \union Skus
Absent == "NONE"
Status == {Absent, "DRAFT", "ACTIVE", "INACTIVE", "ARCHIVED"}
LifecycleAction == {"ACTIVATE", "DEACTIVATE", "SOFT_DELETE"}

VARIABLES
    status,    \* the row's status, Absent before it is created
    brand,     \* of each product
    category,  \* of each product
    gallery,   \* the product has at least one public image
    reserved,  \* an ACTIVE inventory reservation holds the SKU
    sold,      \* products with a paid order
    held       \* lifecycle previews not yet confirmed

vars == <<status, brand, category, gallery, reserved, sold, held>>

Preview == [target: Resources, action: LifecycleAction,
            status: Status, fresh: BOOLEAN]

SkusOf(p) == {s \in Skus : ProductOf[s] = p}
Alive(r) == status[r] \notin {Absent, "ARCHIVED"}
RefersTo(p, m) == brand[p] = m \/ category[p] = m
ActiveProductsOf(m) == {p \in Products : status[p] = "ACTIVE" /\ RefersTo(p, m)}
Init ==
    /\ status = [r \in Resources |-> Absent]
    /\ brand \in [Products -> Brands]
    /\ category \in [Products -> Categories]
    /\ gallery = [p \in Products |-> FALSE]
    /\ reserved = [s \in Skus |-> FALSE]
    /\ sold = {}
    /\ held = {}

\* A command that changes row r increments its version: what was shown of r
\* is no longer fresh.
Stale(previews, r) ==
    {IF v.target = r THEN [v EXCEPT !.fresh = FALSE] ELSE v : v \in previews}

--------------------------------
\* Creation and edits.

CreateMaster(m) ==
    /\ status[m] = Absent
    /\ status' = [status EXCEPT ![m] = "DRAFT"]
    /\ UNCHANGED <<brand, category, gallery, reserved, held, sold>>

UpdateMaster(m) ==
    /\ Alive(m)
    /\ held' = Stale(held, m)
    /\ UNCHANGED <<status, brand, category, gallery, reserved, sold>>

CreateProduct(p, b, c) ==
    /\ status[p] = Absent
    /\ Alive(b) /\ Alive(c)
    /\ status' = [status EXCEPT ![p] = "DRAFT"]
    /\ brand' = [brand EXCEPT ![p] = b]
    /\ category' = [category EXCEPT ![p] = c]
    /\ gallery' \in {[gallery EXCEPT ![p] = shown] : shown \in BOOLEAN}
    /\ UNCHANGED <<reserved, held, sold>>

UpdateProduct(p, b, c, images) ==
    /\ Alive(p) /\ Alive(b) /\ Alive(c)
    /\ status[p] = "ACTIVE" =>
          /\ b # brand[p] => status[b] = "ACTIVE"
          /\ c # category[p] => status[c] = "ACTIVE"
          /\ images
    /\ brand' = [brand EXCEPT ![p] = b]
    /\ category' = [category EXCEPT ![p] = c]
    /\ gallery' = [gallery EXCEPT ![p] = images]
    /\ held' = Stale(held, p)
    /\ UNCHANGED <<status, reserved, sold>>

CreateSku(s) ==
    /\ status[s] = Absent
    /\ Alive(ProductOf[s])
    /\ status' = [status EXCEPT ![s] = "INACTIVE"]
    /\ UNCHANGED <<brand, category, gallery, reserved, held, sold>>

UpdateSku(s) ==
    /\ Alive(s) /\ Alive(ProductOf[s])
    /\ held' = Stale(held, s)
    /\ UNCHANGED <<status, brand, category, gallery, reserved, sold>>

--------------------------------
\* Lifecycle: a preview of the impact, then its confirmation.

TransitionAllowed(r, action) ==
    CASE action = "ACTIVATE" -> status[r] \in {"DRAFT", "INACTIVE"}
      [] action = "DEACTIVATE" -> status[r] = "ACTIVE"
      [] action = "SOFT_DELETE" -> status[r] \in {"DRAFT", "INACTIVE"}

NextStatus(action) ==
    CASE action = "ACTIVATE" -> "ACTIVE"
      [] action = "DEACTIVATE" -> "INACTIVE"
      [] action = "SOFT_DELETE" -> "ARCHIVED"

ShowImpact(r, action) ==
    /\ Cardinality(held) < MaxPreviews
    /\ TransitionAllowed(r, action)
    /\ held' = held \union
          {[target |-> r, action |-> action, status |-> status[r], fresh |-> TRUE]}
    /\ UNCHANGED <<status, brand, category, gallery, reserved, sold>>

\* A preview expires, or its administrator walks away.
Abandon(v) ==
    /\ held' = held \ {v}
    /\ UNCHANGED <<status, brand, category, gallery, reserved, sold>>

\* Mutant: a brand or category with products on sale may still be switched off.
MasterUsableAlways(m, action) == TRUE

MasterUsable(m, action) ==
    action # "ACTIVATE" => ActiveProductsOf(m) = {}

ProductUsable(p, action) ==
    /\ action = "ACTIVATE" =>
          /\ status[brand[p]] = "ACTIVE" /\ status[category[p]] = "ACTIVE"
          /\ gallery[p]
          /\ \E s \in SkusOf(p) : status[s] = "ACTIVE"
    /\ action = "SOFT_DELETE" =>
          \A s \in SkusOf(p) : status[s] # "ACTIVE" /\ ~reserved[s]

SkuUsable(s, action) ==
    /\ action = "ACTIVATE" => Alive(ProductOf[s])
    /\ action = "SOFT_DELETE" => ~reserved[s]

ApplyLifecycle(v) ==
    /\ v.fresh
    /\ TransitionAllowed(v.target, v.action)
    /\ status' = [status EXCEPT ![v.target] = NextStatus(v.action)]
    /\ held' = Stale(held \ {v}, v.target)
    /\ UNCHANGED <<brand, category, gallery, reserved, sold>>

ConfirmMaster(v) ==
    v.target \in Masters /\ MasterUsable(v.target, v.action) /\ ApplyLifecycle(v)
ConfirmProduct(v) ==
    v.target \in Products /\ ProductUsable(v.target, v.action) /\ ApplyLifecycle(v)
ConfirmSku(v) ==
    v.target \in Skus /\ SkuUsable(v.target, v.action) /\ ApplyLifecycle(v)

Restore(r) ==
    /\ status[r] = "ARCHIVED"
    /\ status' = [status EXCEPT ![r] = IF r \in Skus THEN "INACTIVE" ELSE "DRAFT"]
    /\ held' = Stale(held, r)
    /\ UNCHANGED <<brand, category, gallery, reserved, sold>>

--------------------------------
\* What customers see and hold.

\* A line the checkout accepts, stock aside.
PubliclyAvailable(s) ==
    LET p == ProductOf[s] IN
    /\ status[s] = "ACTIVE" /\ status[p] = "ACTIVE"
    /\ status[brand[p]] = "ACTIVE" /\ status[category[p]] = "ACTIVE"
    /\ gallery[p]

\* The products the storefront lists.
Listed(p) ==
    /\ status[p] = "ACTIVE"
    /\ status[brand[p]] = "ACTIVE" /\ status[category[p]] = "ACTIVE"
    /\ \E s \in SkusOf(p) : status[s] = "ACTIVE"

ReserveSku(s) ==
    /\ ~reserved[s] /\ PubliclyAvailable(s)
    /\ reserved' = [reserved EXCEPT ![s] = TRUE]
    /\ UNCHANGED <<status, brand, category, gallery, held, sold>>

\* The order was paid, which counts as a sale, or it was closed.
EndReservation(s, paid) ==
    /\ reserved[s]
    /\ reserved' = [reserved EXCEPT ![s] = FALSE]
    /\ sold' = IF paid THEN sold \union {ProductOf[s]} ELSE sold
    /\ UNCHANGED <<status, brand, category, gallery, held>>

\* A refund takes the sale back and, unlike the payment, counts as an edit of
\* the product.
RefundSale(p) ==
    /\ p \in sold
    /\ held' = Stale(held, p)
    /\ UNCHANGED <<status, brand, category, gallery, reserved, sold>>

Next ==
    \/ \E m \in Masters : CreateMaster(m) \/ UpdateMaster(m)
    \/ \E p \in Products, b \in Brands, c \in Categories :
          \/ CreateProduct(p, b, c)
          \/ \E images \in BOOLEAN : UpdateProduct(p, b, c, images)
    \/ \E s \in Skus : CreateSku(s) \/ UpdateSku(s) \/ ReserveSku(s)
    \/ \E s \in Skus, paid \in BOOLEAN : EndReservation(s, paid)
    \/ \E p \in Products : RefundSale(p)
    \/ \E r \in Resources : Restore(r) \/ \E a \in LifecycleAction : ShowImpact(r, a)
    \/ \E v \in held : ConfirmMaster(v) \/ ConfirmProduct(v) \/ ConfirmSku(v) \/ Abandon(v)

Spec == Init /\ [][Next]_vars

--------------------------------
\* The type of the state: SKUs have no draft, and no more previews than the
\* bound are held.
TypeOK ==
    /\ status \in [Resources -> Status]
    /\ \A s \in Skus : status[s] # "DRAFT"
    /\ brand \in [Products -> Brands]
    /\ category \in [Products -> Categories]
    /\ gallery \in [Products -> BOOLEAN]
    /\ reserved \in [Skus -> BOOLEAN]
    /\ sold \subseteq Products
    /\ held \subseteq Preview /\ Cardinality(held) <= MaxPreviews

\* A product on sale always has a brand and a category that are on sale
\* and at least one picture, whatever administrators do on either level:
\* the conditions of activation keep holding until it is deactivated.
ActiveProductIsOffered ==
    \A p \in Products : status[p] = "ACTIVE" =>
        status[brand[p]] = "ACTIVE" /\ status[category[p]] = "ACTIVE" /\ gallery[p]

\* An archived product has no SKU on sale: neither archiving the product,
\* nor activating or restoring a SKU, leaves one behind.
ArchivedProductSellsNothing ==
    \A s \in Skus : status[ProductOf[s]] = "ARCHIVED" => status[s] # "ACTIVE"

\* Goods that an open order holds are never archived under it, neither the
\* SKU nor its product: the order can still be paid, shipped or released.
HeldGoodsStay ==
    \A s \in Skus : reserved[s] =>
        status[s] # "ARCHIVED" /\ status[ProductOf[s]] # "ARCHIVED"

\* Two queries decide what can be bought: the storefront lists a product
\* when it has a SKU on sale, the checkout also asks for a public picture.
\* They agree: whatever is listed can be ordered.
ListedCanBeOrdered ==
    \A p \in Products : Listed(p) => \E s \in SkusOf(p) : PubliclyAvailable(s)

\* A lifecycle command acts on the status its administrator was shown, not
\* on one that another administrator made of it in between.
ActedOnAsShown ==
    [][\A v \in held : (v \notin held' /\ status'[v.target] # status[v.target])
          => v.status = status[v.target]]_vars

\* Master data that has been in use leaves and returns in order: nothing
\* goes from archived to being sold in one step, and nothing on sale is
\* archived without having been taken off sale first.
NoShortcut ==
    [][\A r \in Resources :
          /\ status[r] = "ARCHIVED" => status'[r] # "ACTIVE"
          /\ status[r] = "ACTIVE" => status'[r] # "ARCHIVED"]_vars

\* What is on sale can be sold, at every moment.
OfferIsSound ==
    /\ TypeOK
    /\ ActiveProductIsOffered /\ ArchivedProductSellsNothing
    /\ HeldGoodsStay /\ ListedCanBeOrdered

\* Every command acts on what its administrator saw, along the lifecycle.
LifecycleKept == ActedOnAsShown /\ NoShortcut
=============================================================================
