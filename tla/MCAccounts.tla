---------------------------- MODULE MCAccounts ----------------------------
(***************************************************************************)
(* The people of the mall on small instances, for TLC: agents' sessions,   *)
(* attribution of customers to agents, customers' accounts, and the        *)
(* storefront client with its guest cart.                                  *)
(*                                                                         *)
(* As in MCTrade the components share no variable, and a behaviour moves   *)
(* the one part chosen in its initial state.  The parts of a component     *)
(* share its instance, and each bounds what its steps may reach.           *)
(***************************************************************************)
EXTENDS AgentSessions, TLC

CONSTANTS
  Parts,  \* the parts to explore
  Alike,  \* interchangeable customers, devices or requests
  Agents, Customers, Targets, MaxInvites, MaxCandidates, MaxBindings,     \* Attribution
  OpenIds, Holders, HttpRequests, Belongings, Blockers,                   \* StoreAccount
  MaxAccounts, SignInCount, MaxAddresses, AddressVersions,
  NoCustomer, Calls, MaxTokens, MaxKeys, MaxRestarts,                     \* StorefrontClient
  Skus, MaxQuantity, CartKeys, Merges, MaxLogins, CartRestarts, MaxLapses \* GuestCartMerge

VARIABLES
  part,                                                                       \* the part that moves
  enabled, authorized, invite, draft, material, candidate, binding, deleted, order, cut,  \* Attribution
  customer, signIn, held, owned, address, underway, preview, request, presented, ended,   \* StoreAccount
  app, stored, journal, refreshes, call, token, placed, late, seen, let, restarts,        \* StorefrontClient
  signedIn, login, guest, merge, mergeCall, lateMerge, record, merged, added, wanted, edited, risked, bounds
                                                                      \* GuestCartMerge

Agency == INSTANCE Attribution

Account == INSTANCE StoreAccount WITH
  Requests <- HttpRequests, MaxSessions <- SignInCount, MaxVersion <- AddressVersions,
  account <- customer, session <- signIn

Client == INSTANCE StorefrontClient WITH
  Customers <- Alike, Journal <- "AFTERSALE", session <- token

Guest == INSTANCE GuestCartMerge WITH
  Customers <- Alike, MaxKeys <- CartKeys, MaxCalls <- Merges, MaxRestarts <- CartRestarts,
  journal <- merge, call <- mergeCall, late <- lateMerge

ASSUME AccountsAssumption ==
  /\ Agency!AttributionAssumption
  /\ Account!AccountAssumption
  /\ Client!StorefrontClientAssumption
  /\ Guest!GuestCartMergeAssumption

Symmetry == Permutations(Alike)

--------------------------------
bindingVars == <<enabled, authorized, invite, draft, material, candidate, binding, deleted, order, cut>>
customerVars == <<customer, signIn, held, owned, address, underway, preview, request, presented, ended>>
clientVars == <<app, stored, journal, refreshes, call, token, placed, late, seen, let, restarts>>
guestVars == <<signedIn, login, guest, merge, mergeCall, lateMerge,
               record, merged, added, wanted, edited, risked, bounds>>
accountsVars == <<part, vars, bindingVars, customerVars, clientVars, guestVars>>

AccountsInit ==
  /\ part \in Parts
  /\ Init
  /\ Agency!Init /\ Account!Init
  /\ Client!Init /\ Guest!Init

AgentStep == part = "agents" /\ Next /\ UNCHANGED <<part, bindingVars, customerVars, clientVars, guestVars>>

\* These agents promote these targets to these customers, with so many rows.
Serves(agents, targets, customers, candidates, bindings) ==
  /\ \A i \in Agency!Invites : invite'[i].agent \subseteq agents
  /\ Agents \ agents \subseteq authorized'
  /\ \A a \in Agents : draft'[a] \subseteq Agency!Invites \X targets
  /\ \A k \in Agency!Candidates :
       candidate'[k].customer \subseteq customers /\ (k > candidates => candidate'[k] = Agency!NoCandidate)
  /\ \A b \in Agency!Bindings :
       binding'[b].customer \subseteq customers /\ (b > bindings => binding'[b] = Agency!NoBinding)
  /\ deleted' \subseteq customers /\ \A c \in Customers \ customers : order'[c] = Agency!NoOrder

\* Codes are rotated, disabled and expire while two customers hold candidates;
\* material of two targets is made while the code of its agent changes; and an
\* order is placed and paid while its customer is transferred or leaves.
BindingStep ==
  /\ \/ /\ part \in {"codes", "drawn"}
        /\ Agency!Visit \/ Agency!Withdraw
        /\ IF part = "codes" THEN Serves({"a"}, {"PRODUCT"}, Alike, 2, 1) ELSE Serves({"a"}, Targets, {}, 0, 0)
     \/ /\ part = "transfers"
        /\ Agency!Visit \/ Agency!Serve
        /\ Serves(Agents, {"STOREFRONT"}, Customers \ Alike, 1, 2)
  /\ UNCHANGED <<part, vars, customerVars, clientVars, guestVars>>

\* These devices and requests, and so many accounts and sessions.
Uses(devices, callers, accounts, sessions) ==
  /\ \A h \in Holders \ devices : held'[h] = {}
  /\ \A r \in HttpRequests \ callers : request'[r] = Account!Idle
  /\ \A a \in Account!Accounts : a > accounts => customer'[a] = Account!NoAccount
  /\ \A s \in Account!Sessions : s > sessions => signIn'[s] = Account!NoSession

\* One identity has two accounts one after the other, with refresh tokens on two
\* devices; an account is deleted while another of its requests is under way; and
\* two requests edit one address book.
CustomerStep ==
  /\ part \in {"signIns", "leaving", "addresses"} /\ Account!Next
  /\ \/ part = "signIns" /\ Uses(Alike, HttpRequests \ Alike, 2, 3) /\ UNCHANGED <<owned, address, underway>>
     \/ part = "leaving" /\ Uses(Holders \ Alike, Alike, 1, 2) /\ UNCHANGED address
     \/ part = "addresses" /\ Uses(Holders \ Alike, Alike, 1, 1) /\ UNCHANGED <<owned, underway>>
  /\ UNCHANGED <<part, vars, bindingVars, clientVars, guestVars>>

\* Two calls on one device while its customer signs out and another one in; and a
\* command with its journal, with the app closed and opened again.
ClientStep ==
  /\ part \in {"calling", "commanding"} /\ Client!Next
  /\ \/ part = "calling" /\ call'["COMMAND"] = Client!Idle
     \/ /\ part = "commanding" /\ \A c \in Calls \ {"COMMAND"} : call'[c] = Client!Idle
        /\ \A t \in Client!Tokens : t > 2 => token'[t] = Client!NoSession
  /\ UNCHANGED <<part, vars, bindingVars, customerVars, guestVars>>

\* One unit of each of two SKUs, or more of one, that two customers sign in
\* with, while synchronisations may overlap.
GuestStep ==
  /\ part \in {"guest", "quantities"} /\ Guest!Next
  /\ \/ part = "guest" /\ \A s \in Skus : wanted'[s] <= 1
     \/ part = "quantities" /\ \A s \in Skus \ {"s"} : wanted'[s] = 0
  /\ UNCHANGED <<part, vars, bindingVars, customerVars, clientVars>>

AccountsNext == AgentStep \/ BindingStep \/ CustomerStep \/ ClientStep \/ GuestStep

AccountsSpec == AccountsInit /\ [][AccountsNext]_accountsVars

--------------------------------
\* Attribution: candidates, bindings and orders agree on whose customer
\* somebody is.
BindingsAgree == Agency!BindingsAgree

\* StoreAccount: sessions, deleted accounts and address books are sound.
AccountsAreSound == Account!AccountsAreSound

\* StorefrontClient: no command is forgotten before its end was seen, and
\* the client never looks like a thief of its own token.
ClientKeepsTrack == Client!ClientKeepsTrack

\* GuestCartMerge: the guest's cart reaches one customer with nothing lost,
\* and once unless synchronisations overlap or the record of a pending
\* merge lapses.
CartArrives == Guest!CartArrives

\* Attribution, StoreAccount, StorefrontClient, GuestCartMerge: a step that
\* comes late does no harm.  Orders and materials bind by what is in force
\* when they are made, a call keeps to the login it began in, an address
\* changes as its editor saw it, a change of the guest cart outlives the
\* merge.
LateIsHarmless ==
  /\ [][/\ Agency!CandidateKeepsCustomer /\ Agency!UpdatesLegally /\ Agency!BindsInForce
        /\ Agency!MakesMaterialOfCurrentCode
        /\ Account!ChangesAsShown
        /\ Client!AnswersThisLogin /\ Client!KeepsLogin /\ Client!LateRefreshDoesNoHarm]_accountsVars
  /\ Guest!ChangesStay
=============================================================================
