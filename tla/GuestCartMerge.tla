--------------------------- MODULE GuestCartMerge ---------------------------
(***************************************************************************)
(* Moving what a guest put into the local cart (guest-cart.ts) into the    *)
(* customer's cart on the server after signing in                          *)
(* (guest-cart-merge-journal.ts; store-cart.repository.ts).  The journal   *)
(* fixes the idempotency key and the exact items until the server confirms *)
(* them; answers get lost, requests arrive late, the app is killed between *)
(* two writes to its storage, the cart page starts a second merge while    *)
(* the first is under way.                                                 *)
(*                                                                         *)
(* An item is its quantity: sameItem compares every field of it.  The      *)
(* limit of 99 of the server's cart is StoreCheckout's; no quantity here   *)
(* comes near it.                                                          *)
(***************************************************************************)
EXTENDS Integers, FiniteSets, FiniteSetsExt

CONSTANTS Customers, NoCustomer, Skus,
          MaxQuantity, MaxKeys, MaxCalls, MaxLogins, MaxRestarts,  \* bounds
          MaxLapses       \* bound: lapses of one key's idempotency record

GuestCartMergeAssumption ==
    /\ NoCustomer \notin Customers
    /\ {MaxQuantity, MaxKeys, MaxCalls, MaxLogins, MaxRestarts, MaxLapses} \subseteq Nat

Keys == 1 .. MaxKeys
CallIds == 1 .. MaxCalls
Carts == [Skus -> 0 .. MaxQuantity]
NoItems == [s \in Skus |-> 0]

VARIABLES
    signedIn,  \* the customer whose session the app has, or NoCustomer
    login,     \* the generation of that session
    guest,     \* storage: the guest cart
    journal,   \* storage: the merge journal, if there is one
    call,      \* mergeStoreCart under way, and the steps after its answer
    late,      \* merge requests the client no longer waits for
    record,    \* server: idempotency records, per key and customer
    merged,    \* history: how often a key's items were added, and for whom
    added,     \* history: what merges added to the server's carts, in all
    wanted,    \* history: what the guest put into the cart, less what was taken out
    edited,    \* history: SKUs of a journal that the guest changed while it was there
    risked,    \* history: synchronisations overlapped, or a pending merge's record lapsed
    bounds     \* keys used, restarts, lapses of each key's record

vars == <<signedIn, login, guest, journal, call, late, record, merged, added, wanted, edited,
          risked, bounds>>
device == <<signedIn, login, guest, journal>>
server == <<record, merged, added>>
intent == <<wanted, edited, risked>>

NoCall == [phase |-> "IDLE", login |-> 0, customer |-> NoCustomer, key |-> 0, items |-> NoItems]

Init ==
    /\ signedIn = NoCustomer /\ login = 0
    /\ guest = NoItems /\ journal = {}
    /\ call = [c \in CallIds |-> NoCall] /\ late = {}
    /\ record = {} /\ merged = [k \in Keys |-> [x \in Customers |-> 0]]
    /\ added = NoItems /\ wanted = NoItems /\ edited = {} /\ risked = FALSE
    /\ bounds = [keys |-> 0, restarts |-> 0, lapses |-> [k \in Keys |-> 0]]

--------------------------------
\* The guest.

\* addOrMergeGuestCartItem, setGuestCartQuantity, removeGuestCartItem: only
\* while nobody is signed in.
Put(s, quantity) ==
    /\ signedIn = NoCustomer /\ quantity # guest[s]
    /\ wanted[s] + quantity - guest[s] \in 0 .. MaxQuantity
    /\ guest' = [guest EXCEPT ![s] = quantity]
    /\ wanted' = [wanted EXCEPT ![s] = @ + quantity - guest[s]]
    /\ edited' = edited \union {x \in {s} : \E j \in journal : j.items[x] > 0}
    /\ UNCHANGED <<signedIn, login, journal, call, late, server, risked, bounds>>

SignIn(cust) ==
    /\ signedIn = NoCustomer /\ login < MaxLogins
    /\ signedIn' = cust /\ login' = login + 1
    /\ UNCHANGED <<guest, journal, call, late, server, intent, bounds>>

SignOut ==
    /\ signedIn # NoCustomer
    /\ signedIn' = NoCustomer
    /\ UNCHANGED <<login, guest, journal, call, late, server, intent, bounds>>

--------------------------------
\* The merge.

\* requireCustomer
OwnJournal(j) == j.customer = signedIn

\* authenticatedRequest: the login is still the one that asked.
SameSession(c) == signedIn # NoCustomer /\ call[c].login = login

\* prepareGuestCartMergeJournal: a journal that is there wins over the cart.
Prepared(cart) ==
    \/ /\ journal # {} /\ (\A j \in journal : OwnJournal(j))
       /\ UNCHANGED <<journal, bounds>>
    \/ /\ journal = {} /\ bounds.keys < MaxKeys
       /\ journal' = {[customer |-> signedIn, key |-> bounds.keys + 1, items |-> cart]}
       /\ bounds' = [bounds EXCEPT !.keys = @ + 1]

\* synchronizeGuestCartAfterAuthentication, from the login page and from the
\* cart page's onShow: journal and cart are read, then the profile is awaited.
\* Nothing keeps a second one from starting meanwhile.
Synchronize(c) ==
    /\ signedIn # NoCustomer /\ call[c] = NoCall
    /\ \/ journal # {} /\ call' = [call EXCEPT ![c] = [NoCall EXCEPT !.phase = "RESUMES", !.login = login]]
       \/ /\ journal = {} /\ guest # NoItems
          /\ call' = [call EXCEPT ![c] = [NoCall EXCEPT !.phase = "PREPARES", !.login = login, !.items = guest]]
    /\ risked' = (risked \/ \E d \in CallIds : call[d] # NoCall /\ call[d].login = login)
    /\ UNCHANGED <<device, late, server, wanted, edited, bounds>>

Sent(c, j) == call' = [call EXCEPT ![c] = [@ EXCEPT !.phase = "SENT", !.customer = signedIn,
                                                    !.key = j.key, !.items = j.items]]

\* The profile came: prepareAndExecuteGuestCartMerge, resumeGuestCartMergeJournal.
Execute(c) ==
    /\ SameSession(c)
    /\ \/ call[c].phase = "PREPARES" /\ Prepared(call[c].items) /\ (\E j \in journal' : Sent(c, j))
       \/ /\ call[c].phase = "RESUMES" /\ (\E j \in journal : OwnJournal(j) /\ Sent(c, j))
          /\ UNCHANGED <<journal, bounds>>
    /\ UNCHANGED <<signedIn, login, guest, late, server, intent>>

\* The server confirms; the items that are still as they were leave the cart.
Trimmed(items) == [s \in Skus |-> IF guest[s] = items[s] THEN 0 ELSE guest[s]]

RemoveConfirmed(c) ==
    /\ call[c].phase = "CONFIRMED" /\ SameSession(c)
    /\ guest' = Trimmed(call[c].items)
    /\ call' = [call EXCEPT ![c].phase = "TRIMMED"]
    /\ UNCHANGED <<signedIn, login, journal, late, server, intent, bounds>>

\* The second write of removeConfirmedItems; nothing but the app's end comes
\* between the two.
RemoveJournal(c) ==
    /\ call[c].phase = "TRIMMED"
    /\ journal' = {}
    /\ call' = [call EXCEPT ![c] = NoCall]
    /\ UNCHANGED <<signedIn, login, guest, late, server, intent, bounds>>

\* Mutant: without an answer the merge is begun anew.
GiveUpJournal(c) ==
    /\ call[c].phase = "SENT"
    /\ late' = late \union {[customer |-> call[c].customer, key |-> call[c].key, items |-> call[c].items]}
    /\ call' = [call EXCEPT ![c] = NoCall]
    /\ journal' = {}
    /\ UNCHANGED <<signedIn, login, guest, server, intent, bounds>>

\* SESSION_CHANGED, no answer, somebody else's journal: the journal stays.
GiveUp(c) ==
    /\ \/ call[c].phase \in {"PREPARES", "RESUMES"} /\ UNCHANGED late
       \/ call[c].phase = "CONFIRMED" /\ ~SameSession(c) /\ UNCHANGED late
       \/ call[c].phase = "SENT"
          /\ late' = late \union {[customer |-> call[c].customer, key |-> call[c].key, items |-> call[c].items]}
    /\ call' = [call EXCEPT ![c] = NoCall]
    /\ UNCHANGED <<device, server, intent, bounds>>

Restart ==
    /\ bounds.restarts < MaxRestarts
    /\ bounds' = [bounds EXCEPT !.restarts = @ + 1]
    /\ late' = late \union {[customer |-> call[c].customer, key |-> call[c].key, items |-> call[c].items] :
                               c \in {d \in CallIds : call[d].phase = "SENT"}}
    /\ call' = [c \in CallIds |-> NoCall]
    /\ UNCHANGED <<device, server, intent>>

--------------------------------
\* The server.

\* mergeCart, executeCommand: the record and the items in one transaction.
Merge(request) ==
    IF [key |-> request.key, customer |-> request.customer] \in record THEN UNCHANGED server
    ELSE /\ record' = record \union {[key |-> request.key, customer |-> request.customer]}
         /\ merged' = [merged EXCEPT ![request.key][request.customer] = @ + 1]
         /\ added' = [s \in Skus |-> added[s] + request.items[s]]

Arrives(c) ==
    /\ call[c].phase = "SENT"
    /\ Merge(call[c])
    /\ call' = [call EXCEPT ![c].phase = "CONFIRMED"]
    /\ UNCHANGED <<device, late, intent, bounds>>

ArrivesLate(request) ==
    /\ request \in late
    /\ Merge(request)
    /\ late' = late \ {request}
    /\ UNCHANGED <<device, call, intent, bounds>>

\* Twenty-four hours after the merge, whatever the journal still holds; no
\* request is under way that long.
RecordLapses(r) ==
    /\ r \in record /\ bounds.lapses[r.key] < MaxLapses
    /\ late = {} /\ (\A c \in CallIds : call[c] = NoCall)
    /\ record' = record \ {r}
    /\ risked' = (risked \/ \E j \in journal : j.key = r.key)
    /\ bounds' = [bounds EXCEPT !.lapses[r.key] = @ + 1]
    /\ UNCHANGED <<device, call, late, merged, added, wanted, edited>>

--------------------------------
Trimming == \E c \in CallIds : call[c].phase = "TRIMMED"

Next ==
    \/ \E c \in CallIds : RemoveJournal(c)
    \/ Restart
    \/ /\ ~Trimming
       /\ \/ \E s \in Skus, quantity \in 0 .. MaxQuantity : Put(s, quantity)
          \/ \E cust \in Customers : SignIn(cust)
          \/ SignOut
          \/ \E c \in CallIds : Synchronize(c) \/ Execute(c) \/ RemoveConfirmed(c) \/ GiveUp(c) \/ Arrives(c)
          \/ \E request \in late : ArrivesLate(request)
          \/ \E r \in record : RecordLapses(r)

Spec == Init /\ [][Next]_vars

--------------------------------
Requests == [customer : Customers, key : Keys, items : Carts]

\* Every variable stays in its range; a call under way is somebody's.
TypeOK ==
    /\ signedIn \in Customers \union {NoCustomer} /\ login \in 0 .. MaxLogins
    /\ guest \in Carts /\ wanted \in Carts /\ edited \subseteq Skus /\ risked \in BOOLEAN
    /\ journal \subseteq Requests /\ Cardinality(journal) <= 1
    /\ late \subseteq Requests
    /\ \A c \in CallIds : call[c] # NoCall =>
          \/ call[c].phase \in {"PREPARES", "RESUMES"} /\ call[c].customer = NoCustomer
          \/ call[c].phase \in {"SENT", "CONFIRMED", "TRIMMED"} /\ call[c].customer \in Customers
    /\ record \subseteq [key : Keys, customer : Customers]
    /\ merged \in [Keys -> [Customers -> Nat]] /\ added \in [Skus -> Nat]

\* The items of a journal enter a cart once, however often the merge is
\* sent, and once more only after the server's record of it lapsed
\* (executeGuestCartMergeJournal, executeCommand).
MergedOnce == \A k \in Keys, x \in Customers : merged[k][x] <= 1 + bounds.lapses[k]

\* What a guest put into the cart is merged for one customer only
\* (requireCustomer).
MergedForOne == \A k \in Keys : Cardinality({x \in Customers : merged[k][x] > 0}) <= 1

\* At every moment, with any number of merges under way, what the guest
\* wanted is in the guest cart or in a customer's cart.  What the guest
\* changed while a merge of it was pending is not the journal's item any
\* more and is left out (removeConfirmedItems).
NothingLost == \A s \in Skus \ edited : guest[s] + added[s] >= wanted[s]

\* When no merge is pending it is there only once, but for two causes:
\* two synchronisations of one login overlapped
\* (synchronizeGuestCartAfterAuthentication), or the server's record of
\* a merge lapsed while the journal still held its key.
NothingDoubled ==
    journal = {} /\ ~risked => \A s \in Skus \ edited : guest[s] + added[s] <= wanted[s]

\* A change the guest made while the merge was pending is not undone by
\* its confirmation (removeConfirmedItems).
ChangesStay ==
    [][\A c \in CallIds, s \in Skus : RemoveConfirmed(c) /\ guest[s] # call[c].items[s]
         => guest'[s] = guest[s]]_vars

\* The guest's cart reaches one customer with nothing lost, and once unless
\* synchronisations overlap or the record of a pending merge lapses.
CartArrives == TypeOK /\ MergedOnce /\ MergedForOne /\ NothingLost /\ NothingDoubled
=============================================================================
