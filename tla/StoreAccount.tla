---------------------------- MODULE StoreAccount ----------------------------
(***************************************************************************)
(* The account of a customer of the shop: the identity it signs in with    *)
(* and its sessions (store-auth.service.ts, store-auth.repository.ts), the *)
(* things it keeps (store-profile, store-favorites, store-address) and its *)
(* deletion (store-privacy.repository.ts).                                 *)
(*                                                                         *)
(* A request is authenticated by the guard first and executed in a         *)
(* serializable transaction later; in between other requests of the same   *)
(* customer, or of somebody who copied a refresh token, may run.           *)
(***************************************************************************)
EXTENDS Integers, FiniteSets, FiniteSetsExt

CONSTANTS OpenIds,      \* identities of the provider (wechat_open_id)
          Holders,      \* devices that may hold refresh tokens
          Requests,     \* requests that may be under way at a time
          Belongings,   \* kinds of rows a customer keeps besides addresses
          Blockers,     \* what can stand in the way of a deletion (BLOCKER_ORDER)
          \* bounds of the exploration
          MaxAccounts, MaxSessions, MaxAddresses, MaxVersion

AccountAssumption ==
    /\ Belongings \subseteq {"FAVORITE", "PHONE", "CART", "BINDING"}
    /\ Blockers \subseteq {"ORDER", "AFTERSALE", "REFUND"}
    /\ {MaxAccounts, MaxSessions, MaxVersion} \subseteq Nat \ {0}
    /\ MaxAddresses \in Nat

Accounts == 1 .. MaxAccounts
Sessions == 1 .. MaxSessions
Places == 1 .. MaxAddresses     \* address rows, in the order of creation

NoAccount == [status |-> "NONE", openId |-> {}, version |-> 0]
NoSession == [account |-> 0, family |-> 0, revoked |-> FALSE, expired |-> FALSE, hashed |-> FALSE]
NoAddress == [status |-> "NONE", isDefault |-> FALSE, version |-> 0]
Idle == [session |-> 0, shown |-> <<>>]

VARIABLES
    account,    \* account with its profile: [status, openId, version]
    session,    \* auth_session rows; hashed: the refresh token hash is stored
    held,       \* sessions whose refresh token each device holds
    owned,      \* belongings of each account
    address,    \* address rows of each account
    underway,   \* orders, aftersales and refunds of each account
    preview,    \* the deletion preview of each account: sets of [session, version]
    request,    \* authenticated requests, with the addresses the client saw
    presented,  \* history: how often the token of a session was presented
    ended       \* history: families that were logged out, replayed or erased

vars == <<account, session, held, owned, address, underway, preview, request, presented, ended>>
data == <<owned, address, underway, preview>>

Init ==
    /\ account = [a \in Accounts |-> NoAccount]
    /\ session = [s \in Sessions |-> NoSession]
    /\ held = [h \in Holders |-> {}]
    /\ owned = [a \in Accounts |-> {}]
    /\ address = [a \in Accounts |-> [p \in Places |-> NoAddress]]
    /\ underway = [a \in Accounts |-> {}]
    /\ preview = [a \in Accounts |-> {}]
    /\ request = [r \in Requests |-> Idle]
    /\ presented = [s \in Sessions |-> 0]
    /\ ended = {}

--------------------------------
\* Sessions.

Active(a) == account[a].status = "ACTIVE"
Live(s) == session[s].account # 0 /\ ~session[s].revoked
FamilyOf(f) == {s \in Sessions : session[s].account # 0 /\ session[s].family = f}
FreeSessions == {s \in Sessions : session[s] = NoSession}

NewSession(a, f) == [account |-> a, family |-> f, revoked |-> FALSE, expired |-> FALSE, hashed |-> TRUE]
RevokedIn(f) == [s \in Sessions |->
    IF s \in FamilyOf(f) THEN [session[s] EXCEPT !.revoked = TRUE] ELSE session[s]]

\* Mutant: two sign-ins of one identity do not see each other.
ResolvedUnlocked(o) ==
    LET fresh == {a \in Accounts : account[a] = NoAccount} IN
    IF fresh = {} THEN {} ELSE {Min(fresh)}

\* The account of the identity, or a new one.
Resolved(o) ==
    LET known == {a \in Accounts : o \in account[a].openId} IN
    IF known # {} THEN known
    ELSE LET fresh == {a \in Accounts : account[a] = NoAccount} IN
         IF fresh = {} THEN {} ELSE {Min(fresh)}

Login(h, o) ==
    \E a \in Resolved(o) :
       /\ account[a] = NoAccount \/ Active(a)
       /\ FreeSessions # {}
       /\ LET s == Min(FreeSessions) IN
          /\ account' = [account EXCEPT ![a] =
                IF @ = NoAccount THEN [status |-> "ACTIVE", openId |-> {o}, version |-> 1] ELSE @]
          /\ session' = [session EXCEPT ![s] = NewSession(a, s)]
          /\ held' = [held EXCEPT ![h] = @ \union {s}]
       /\ UNCHANGED <<data, request, presented, ended>>

\* A token is copied: a restored backup, a stolen phone.
CopyToken(h, s) ==
    /\ \E other \in Holders : s \in held[other]
    /\ s \notin held[h]
    /\ held' = [held EXCEPT ![h] = @ \union {s}]
    /\ UNCHANGED <<account, session, data, request, presented, ended>>

Expire(s) ==
    /\ Live(s) /\ ~session[s].expired
    /\ session' = [session EXCEPT ![s].expired = TRUE]
    /\ UNCHANGED <<account, held, data, request, presented, ended>>

Acceptable(s) == ~session[s].expired /\ Active(session[s].account)

Rotate(h, s) ==
    /\ s \in held[h] /\ session[s].hashed
    /\ Live(s) /\ Acceptable(s)
    /\ FreeSessions # {}
    /\ LET n == Min(FreeSessions) IN
       /\ session' = [session EXCEPT ![s].revoked = TRUE,
                                     ![n] = NewSession(session[s].account, session[s].family)]
       /\ held' = [held EXCEPT ![h] = @ \union {n}]
    /\ presented' = [presented EXCEPT ![s] = Min({@ + 1, 2})]
    /\ UNCHANGED <<account, data, request, ended>>

\* A revoked token (replay_detected), or one that may not be used any more
\* (invalid): the whole family is revoked, and the refusal is committed.
RefuseRotation(h, s) ==
    /\ s \in held[h] /\ session[s].hashed
    /\ ~Live(s) \/ ~Acceptable(s)
    /\ session' = RevokedIn(session[s].family)
    /\ presented' = [presented EXCEPT ![s] = Min({@ + 1, 2})]
    /\ ended' = ended \union {session[s].family}
    /\ UNCHANGED <<account, held, data, request>>

--------------------------------
\* Requests: the guard, then the transaction.

Authentic(s) == Live(s) /\ Acceptable(s)

Authenticate(r, s) ==
    /\ request[r] = Idle
    /\ Authentic(s)
    /\ request' = [request EXCEPT ![r] = [session |-> s, shown |-> address[session[s].account]]]
    /\ UNCHANGED <<account, session, held, data, presented, ended>>

Caller(r) == session[request[r].session].account
\* The transaction reads the account again: it must still be active.
Admitted(r) == request[r] # Idle /\ Active(Caller(r))

Answered(r) == request' = [request EXCEPT ![r] = Idle]

Refuse(r) ==
    /\ request[r] # Idle
    /\ Answered(r)
    /\ UNCHANGED <<account, session, held, data, presented, ended>>

\* The guard's session may have been rotated since: its family ends all the same.
\* After a deletion its assurance is PASSWORD and nothing is left to revoke.
Logout(r) ==
    /\ request[r] # Idle
    /\ Active(Caller(r))
    /\ session' = RevokedIn(session[request[r].session].family)
    /\ ended' = ended \union {session[request[r].session].family}
    /\ Answered(r)
    /\ UNCHANGED <<account, held, data, presented>>

--------------------------------
\* What a customer keeps.

PutFavorite(r) ==
    /\ Admitted(r) /\ "FAVORITE" \in Belongings
    /\ owned' = [owned EXCEPT ![Caller(r)] = @ \union {"FAVORITE"}]
    /\ Answered(r)
    /\ UNCHANGED <<account, session, held, address, underway, preview, presented, ended>>

DeleteFavorite(r) ==
    /\ Admitted(r) /\ "FAVORITE" \in owned[Caller(r)]
    /\ owned' = [owned EXCEPT ![Caller(r)] = @ \ {"FAVORITE"}]
    /\ Answered(r)
    /\ UNCHANGED <<account, session, held, address, underway, preview, presented, ended>>

ReplacePhone(r) ==
    /\ Admitted(r) /\ "PHONE" \in Belongings
    /\ owned' = [owned EXCEPT ![Caller(r)] = @ \union {"PHONE"}]
    /\ Answered(r)
    /\ UNCHANGED <<account, session, held, address, underway, preview, presented, ended>>

RevokePhone(r) ==
    /\ Admitted(r) /\ "PHONE" \in owned[Caller(r)]
    /\ owned' = [owned EXCEPT ![Caller(r)] = @ \ {"PHONE"}]
    /\ Answered(r)
    /\ UNCHANGED <<account, session, held, address, underway, preview, presented, ended>>

PutCartItem(r) ==
    /\ Admitted(r) /\ "CART" \in Belongings
    /\ owned' = [owned EXCEPT ![Caller(r)] = @ \union {"CART"}]
    /\ Answered(r)
    /\ UNCHANGED <<account, session, held, address, underway, preview, presented, ended>>

ConfirmAgent(r) ==
    /\ Admitted(r) /\ "BINDING" \in Belongings
    /\ owned' = [owned EXCEPT ![Caller(r)] = @ \union {"BINDING"}]
    /\ Answered(r)
    /\ UNCHANGED <<account, session, held, address, underway, preview, presented, ended>>

PlaceOrder(r) ==
    /\ Admitted(r) /\ "ORDER" \in Blockers
    /\ underway' = [underway EXCEPT ![Caller(r)] = @ \union {"ORDER"}]
    /\ Answered(r)
    /\ UNCHANGED <<account, session, held, owned, address, preview, presented, ended>>

ApplyForAftersale(r) ==
    /\ Admitted(r) /\ "AFTERSALE" \in Blockers
    /\ underway' = [underway EXCEPT ![Caller(r)] = @ \union {"AFTERSALE"}]
    /\ Answered(r)
    /\ UNCHANGED <<account, session, held, owned, address, preview, presented, ended>>

\* Orders and aftersales end; a late payment of a closed order is refunded,
\* whether or not its customer is still there.
Settle(a, b) ==
    /\ b \in underway[a]
    /\ underway' = [underway EXCEPT ![a] = @ \ {b}]
    /\ UNCHANGED <<account, session, held, owned, address, preview, request, presented, ended>>

LatePayment(a) ==
    /\ "REFUND" \in Blockers /\ account[a] # NoAccount /\ underway[a] = {}
    /\ underway' = [underway EXCEPT ![a] = {"REFUND"}]
    /\ UNCHANGED <<account, session, held, owned, address, preview, request, presented, ended>>

--------------------------------
\* The address book: at most one default, and one if there are several.

Book(a) == {p \in Places : address[a][p].status = "ACTIVE"}
Default(a) == {p \in Book(a) : address[a][p].isDefault}
\* assertDefaultAddressShape
WellShaped(a) == Cardinality(Default(a)) <= 1 /\ (Cardinality(Book(a)) > 1 => Default(a) # {})

Bumped(row, default) == [row EXCEPT !.isDefault = default, !.version = @ + 1]
\* The book with the present default cleared.
Cleared(a, ps) == [p \in Places |->
    IF p \in ps THEN Bumped(address[a][p], FALSE) ELSE address[a][p]]

CreateAddress(r, default) ==
    LET a == Caller(r)
        free == {p \in Places : address[a][p] = NoAddress}
        asDefault == Default(a) = {} \/ default
    IN
    /\ Admitted(r) /\ WellShaped(a) /\ free # {}
    /\ address' = [address EXCEPT ![a] =
          [Cleared(a, IF asDefault THEN Default(a) ELSE {}) EXCEPT
             ![Min(free)] = [status |-> "ACTIVE", isDefault |-> asDefault, version |-> 1]]]
    /\ Answered(r)
    /\ UNCHANGED <<account, session, held, owned, underway, preview, presented, ended>>

UpdateAddress(r, p, default) ==
    LET a == Caller(r)
        row == address[a][p]
    IN
    /\ Admitted(r) /\ WellShaped(a) /\ p \in Book(a)
    /\ row.version = request[r].shown[p].version /\ row.version < MaxVersion
    /\ ~(row.isDefault /\ ~default /\ Book(a) # {p})
    /\ address' = [address EXCEPT ![a] =
          [Cleared(a, IF default THEN Default(a) \ {p} ELSE {}) EXCEPT ![p] = Bumped(@, default)]]
    /\ Answered(r)
    /\ UNCHANGED <<account, session, held, owned, underway, preview, presented, ended>>

\* The oldest of the other addresses takes over from a deleted default.
Heir(a, p) ==
    IF address[a][p].isDefault /\ Book(a) # {p} THEN {Min(Book(a) \ {p})} ELSE {}

DeleteAddress(r, p) ==
    LET a == Caller(r) IN
    /\ Admitted(r) /\ WellShaped(a) /\ p \in Book(a)
    /\ address[a][p].version = request[r].shown[p].version
    /\ \A q \in Heir(a, p) \union {p} : address[a][q].version < MaxVersion
    /\ address' = [address EXCEPT ![a] = [q \in Places |->
          IF q = p THEN [Bumped(@[q], FALSE) EXCEPT !.status = "DELETED"]
          ELSE IF q \in Heir(a, p) THEN Bumped(@[q], TRUE)
          ELSE @[q]]]
    /\ Answered(r)
    /\ UNCHANGED <<account, session, held, owned, underway, preview, presented, ended>>

--------------------------------
\* Deletion of the account.

\* lockAndReadCustomer with a session: the session is read again as well.
AdmittedInSession(r) == Admitted(r) /\ Authentic(request[r].session)

PreviewDeletion(r) ==
    /\ AdmittedInSession(r)
    /\ underway[Caller(r)] = {}
    /\ preview' = [preview EXCEPT ![Caller(r)] =
          @ \union {[session |-> request[r].session, version |-> account[Caller(r)].version]}]
    /\ Answered(r)
    /\ UNCHANGED <<account, session, held, owned, address, underway, presented, ended>>

\* The preview is for this session and for the version of the account.
Confirmable(r) ==
    [session |-> request[r].session, version |-> account[Caller(r)].version] \in preview[Caller(r)]

Unblocked(a) == underway[a] = {}

\* What every session of the account becomes.
Erased(a) == [s \in Sessions |->
    IF session[s].account = a
    THEN [session[s] EXCEPT !.revoked = TRUE, !.hashed = FALSE] ELSE session[s]]
ConfirmDeletion(r) ==
    LET a == Caller(r) IN
    /\ AdmittedInSession(r) /\ Confirmable(r) /\ Unblocked(a)
    /\ account' = [account EXCEPT ![a] =
          [status |-> "ANONYMIZED", openId |-> {}, version |-> @.version + 1]]
    /\ session' = Erased(a)
    /\ owned' = [owned EXCEPT ![a] = {}]
    /\ address' = [address EXCEPT ![a] = [p \in Places |-> NoAddress]]
    /\ preview' = [preview EXCEPT ![a] = @ \ {[session |-> request[r].session,
                                               version |-> account[a].version]}]
    /\ ended' = ended \union {session[s].family : s \in {t \in Sessions : session[t].account = a}}
    /\ Answered(r)
    /\ UNCHANGED <<held, underway, presented>>

Next ==
    \/ \E h \in Holders :
          \/ \E o \in OpenIds : Login(h, o)
          \/ \E s \in Sessions : CopyToken(h, s) \/ Rotate(h, s) \/ RefuseRotation(h, s)
    \/ \E s \in Sessions : Expire(s)
    \/ \E r \in Requests :
          \/ \E s \in Sessions : Authenticate(r, s)
          \/ Refuse(r) \/ Logout(r)
          \/ PutFavorite(r) \/ DeleteFavorite(r) \/ ReplacePhone(r) \/ RevokePhone(r)
          \/ PutCartItem(r) \/ ConfirmAgent(r) \/ PlaceOrder(r) \/ ApplyForAftersale(r)
          \/ \E d \in BOOLEAN : CreateAddress(r, d)
          \/ \E p \in Places : DeleteAddress(r, p) \/ \E d \in BOOLEAN : UpdateAddress(r, p, d)
          \/ PreviewDeletion(r) \/ ConfirmDeletion(r)
    \/ \E a \in Accounts : LatePayment(a) \/ \E b \in Blockers : Settle(a, b)

Spec == Init /\ [][Next]_vars

--------------------------------
\* Types.
TypeOK ==
    /\ account \in [Accounts -> [status: {"NONE", "ACTIVE", "ANONYMIZED"},
                                 openId: SUBSET OpenIds, version: 0 .. 2]]
    /\ session \in [Sessions -> [account: 0 .. MaxAccounts, family: 0 .. MaxSessions,
                                 revoked: BOOLEAN, expired: BOOLEAN, hashed: BOOLEAN]]
    /\ held \in [Holders -> SUBSET Sessions]
    /\ owned \in [Accounts -> SUBSET Belongings]
    /\ address \in [Accounts -> [Places -> [status: {"NONE", "ACTIVE", "DELETED"},
                                            isDefault: BOOLEAN, version: Nat]]]
    /\ underway \in [Accounts -> SUBSET Blockers]
    /\ presented \in [Sessions -> 0 .. 2]
    /\ ended \subseteq Sessions

\* A family of sessions that was logged out, in which a replaced token was
\* presented again, or whose account was deleted, never has a live session
\* again, whatever requests were under way (rotateRefreshInTransaction,
\* revokeCurrentSessionInTransaction, confirmDeletionInTransaction).
EndedFamilyStaysEnded == \A f \in ended : \A s \in FamilyOf(f) : ~Live(s)

\* Of a family at most one session is live, so that a copied token cannot
\* be used beside the original without being noticed.
OneLiveSession ==
    \A f \in Sessions : Cardinality({s \in FamilyOf(f) : Live(s)}) <= 1

\* A refresh token that was presented twice, by whoever holds a copy, ends
\* the family.
ReuseEndsFamily ==
    \A s \in Sessions : presented[s] = 2 => session[s].family \in ended

\* A deleted account keeps nothing: no identity, no belongings, no
\* addresses and no session or token that could be used, although requests
\* were authenticated before it was deleted.
AnonymizedKeepsNothing ==
    \A a \in Accounts : account[a].status = "ANONYMIZED" =>
        /\ account[a].openId = {} /\ owned[a] = {}
        /\ \A p \in Places : address[a][p] = NoAddress
        /\ \A s \in Sessions : session[s].account = a => ~Live(s) /\ ~session[s].hashed

\* No order or aftersale of a deleted account is under way: none was when
\* it was deleted and none begins later.  A late payment may still be
\* refunded to it.
NothingLeftUnderway ==
    \A a \in Accounts : account[a].status = "ANONYMIZED" => underway[a] \subseteq {"REFUND"}

\* An identity never opens two accounts, whatever was deleted in between.
IdentityIsOfOneAccount ==
    \A o \in OpenIds : Cardinality({a \in Accounts : o \in account[a].openId}) <= 1

\* The address book of an active account always has the shape the
\* repository asserts before every change of it, so that the customer is
\* never locked out of it.
BookIsWellShaped == \A a \in Accounts : WellShaped(a)

\* An address changes only under a request that saw its present version,
\* or as the default that another address takes over or inherits.
ChangesAsShown ==
    \A a \in Accounts, p \in Places :
        address[a][p].status = "ACTIVE" /\ address'[a][p] # address[a][p]
        => \/ account'[a].status = "ANONYMIZED"
           \/ \E r \in Requests : request[r] # Idle /\ Caller(r) = a /\ request'[r] = Idle
                                  /\ request[r].shown[p] = address[a][p]
           \/ /\ address'[a][p].status = "ACTIVE"
              /\ address'[a][p].isDefault # address[a][p].isDefault
              /\ WellShaped(a)'

\* Accounts, sessions and addresses are sound, also of who has left.
AccountsAreSound ==
    /\ TypeOK
    /\ EndedFamilyStaysEnded /\ OneLiveSession /\ ReuseEndsFamily /\ IdentityIsOfOneAccount
    /\ AnonymizedKeepsNothing /\ NothingLeftUnderway /\ BookIsWellShaped
=============================================================================
