----------------------------- MODULE Attribution -----------------------------
(***************************************************************************)
(* How a customer comes to be served by an agent, and an order by it:      *)
(* agents with their invite codes (admin-agent.repository.ts), promotion   *)
(* material made from them (agent-commerce.repository.ts), candidates of   *)
(* visitors and customers and the binding a customer confirms              *)
(* (store-attribution.repository.ts), transfers by headquarters            *)
(* (admin-customer.repository.ts), and the agent an order is submitted     *)
(* and settled with (store-order, store-payment).                          *)
(*                                                                         *)
(* Each transaction locks agent, invite, material and customer and is one  *)
(* action; material is prepared in a transaction of its own first.  The    *)
(* triggers of the 0006 migration are the action property UpdatesLegally.    *)
(***************************************************************************)
EXTENDS Integers, FiniteSets, FiniteSetsExt

CONSTANTS Agents, Customers,
          Targets,  \* targets of promotion material: "STOREFRONT", "PRODUCT"
          MaxInvites, MaxCandidates, MaxBindings  \* bounds: rows of each table

AttributionAssumption ==
    /\ Targets \subseteq {"STOREFRONT", "PRODUCT"}
    /\ {MaxInvites, MaxCandidates, MaxBindings} \subseteq Nat

Invites == 1 .. MaxInvites
Candidates == 1 .. MaxCandidates
Bindings == 1 .. MaxBindings
Materials == Invites \X Targets

NoInvite == [agent |-> {}, status |-> "NONE", expired |-> FALSE]
NoCandidate == [material |-> {}, status |-> "NONE", customer |-> {}, expired |-> FALSE]
NoBinding == [customer |-> {}, agent |-> {}, ended |-> FALSE]
NoOrder == [status |-> "NONE", agent |-> {}, binding |-> 0, final |-> {}]

VARIABLES
    enabled,     \* agents whose profile and account are ACTIVE
    authorized,  \* agents whose promoted product is public and allowed to them
    invite,      \* agent_invite_code rows
    draft,       \* of each agent: the material it is preparing, {} or one
    material,    \* status of the promotion_asset of each invite and target
    candidate,   \* attribution_candidate rows; anonymous while customer = {}
    binding,     \* customer_agent_binding rows
    deleted,     \* customers whose account was deleted
    order,       \* the order of each customer, with its attribution
    cut          \* history: candidates that an invite or an agent lost

vars == <<enabled, authorized, invite, draft, material, candidate, binding, deleted, order, cut>>
agents == <<enabled, authorized, invite, draft, material>>

Init ==
    /\ enabled = {} /\ authorized = Agents
    /\ invite = [i \in Invites |-> NoInvite]
    /\ draft = [a \in Agents |-> {}]
    /\ material = [m \in Materials |-> "NONE"]
    /\ candidate = [k \in Candidates |-> NoCandidate]
    /\ binding = [b \in Bindings |-> NoBinding]
    /\ deleted = {}
    /\ order = [c \in Customers |-> NoOrder]
    /\ cut = {}

--------------------------------
\* Agents and their invite codes.

InvitesOf(a) == {i \in Invites : invite[i].agent = {a}}
Mutable(a) == {i \in InvitesOf(a) : invite[i].status \in {"ACTIVE", "DISABLED"}}
\* findInvite: the mutable code, or the last one if none is.
Manageable(a) == IF Mutable(a) # {} THEN Mutable(a) ELSE {Max(InvitesOf(a))}
FreeInvites == {i \in Invites : invite[i] = NoInvite}

Current(k) == candidate[k].status = "ACTIVE" /\ ~candidate[k].expired
CandidatesOf(Is(_)) == {k \in Candidates : Current(k) /\ \E m \in candidate[k].material : Is(m[1])}
\* The candidates ks with the reason they end.
Ended(ks, status) == [k \in Candidates |->
    IF k \in ks THEN [candidate[k] EXCEPT !.status = status] ELSE candidate[k]]

CreateAgent(a) ==
    /\ InvitesOf(a) = {} /\ FreeInvites # {}
    /\ enabled' = enabled \union {a}
    /\ invite' = [invite EXCEPT ![Min(FreeInvites)] =
                    [agent |-> {a}, status |-> "ACTIVE", expired |-> FALSE]]
    /\ UNCHANGED <<authorized, draft, material, candidate, binding, deleted, order, cut>>

\* The candidates a lost invite takes with it.
CandidatesOfInvite(i) == CandidatesOf(LAMBDA j : j = i)

RotateInvite(a) ==
    /\ InvitesOf(a) # {} /\ FreeInvites # {}
    /\ \E i \in Manageable(a) :
          /\ invite' = [invite EXCEPT
                ![i].status = IF @ \in {"ACTIVE", "DISABLED"} THEN "ROTATED" ELSE @,
                ![Min(FreeInvites)] = [agent |-> {a}, status |-> "ACTIVE", expired |-> FALSE]]
          /\ candidate' = Ended(CandidatesOfInvite(i), "INVALIDATED")
          /\ cut' = cut \union CandidatesOfInvite(i)
    /\ UNCHANGED <<enabled, authorized, draft, material, binding, deleted, order>>

DisableInvite(a) ==
    \E i \in Mutable(a) :
       /\ invite' = [invite EXCEPT ![i].status = "DISABLED"]
       /\ candidate' = Ended(CandidatesOfInvite(i), "INVALIDATED")
       /\ cut' = cut \union CandidatesOf(LAMBDA j : j = i)
       /\ UNCHANGED <<enabled, authorized, draft, material, binding, deleted, order>>

\* Enabled, or only given a new time: the new expiry lies ahead.
EnableInvite(a) ==
    \E i \in Mutable(a) :
       /\ invite' = [invite EXCEPT ![i].status = "ACTIVE", ![i].expired = FALSE]
       /\ UNCHANGED <<enabled, authorized, draft, material, candidate, binding, deleted, order, cut>>

ExpireInvite(i) ==
    /\ invite[i].status = "ACTIVE" /\ ~invite[i].expired
    /\ invite' = [invite EXCEPT ![i].expired = TRUE]
    /\ UNCHANGED <<enabled, authorized, draft, material, candidate, binding, deleted, order, cut>>

\* Mutant: the candidates wait for the agent to come back.
CandidatesLeft(a) == {}

CandidatesOfAgent(a) == CandidatesOf(LAMBDA j : j \in InvitesOf(a))

DisableAgent(a) ==
    /\ a \in enabled
    /\ enabled' = enabled \ {a}
    /\ candidate' = Ended(CandidatesOfAgent(a), "INVALIDATED")
    /\ cut' = cut \union CandidatesOf(LAMBDA j : invite[j].agent = {a})
    /\ UNCHANGED <<authorized, invite, draft, material, binding, deleted, order>>

ReactivateAgent(a) ==
    /\ InvitesOf(a) # {} /\ a \notin enabled
    /\ enabled' = enabled \union {a}
    /\ UNCHANGED <<authorized, invite, draft, material, candidate, binding, deleted, order, cut>>

\* The product is archived or published, or the agent's whitelist changes.
ChangeAuthorization(a) ==
    /\ authorized' = IF a \in authorized THEN authorized \ {a} ELSE authorized \union {a}
    /\ UNCHANGED <<enabled, invite, draft, material, candidate, binding, deleted, order, cut>>

--------------------------------
\* Promotion material.

\* currentInvite: the one code that is active and in time.
CurrentInvite(a) == {i \in InvitesOf(a) : invite[i].status = "ACTIVE" /\ ~invite[i].expired}
MayPromote(a, t) == a \in enabled /\ (t = "PRODUCT" => a \in authorized)

PrepareMaterial(a, t) ==
    /\ MayPromote(a, t)
    /\ draft[a] = {}
    /\ \E i \in CurrentInvite(a) : draft' = [draft EXCEPT ![a] = {<<i, t>>}]
    /\ UNCHANGED <<enabled, authorized, invite, material, candidate, binding, deleted, order, cut>>

\* Mutant: the code that was read before the QR code was made is trusted.
CommitPrepared(a, m) ==
    /\ draft[a] = {m} /\ MayPromote(a, m[2])
    /\ material' = [material EXCEPT ![m] = "ACTIVE"]
    /\ draft' = [draft EXCEPT ![a] = {}]
    /\ UNCHANGED <<enabled, authorized, invite, candidate, binding, deleted, order, cut>>

CommitMaterial(a, m) ==
    /\ draft[a] = {m}
    /\ MayPromote(a, m[2]) /\ CurrentInvite(a) = {m[1]}
    /\ material' = [material EXCEPT ![m] = "ACTIVE"]
    /\ draft' = [draft EXCEPT ![a] = {}]
    /\ UNCHANGED <<enabled, authorized, invite, candidate, binding, deleted, order, cut>>

AbandonMaterial(a) ==
    /\ draft[a] # {}
    /\ draft' = [draft EXCEPT ![a] = {}]
    /\ UNCHANGED <<enabled, authorized, invite, material, candidate, binding, deleted, order, cut>>

\* The material was made with the expiry its code had then.
ExpireMaterial(m) ==
    /\ material[m] = "ACTIVE"
    /\ material' = [material EXCEPT ![m] = "EXPIRED"]
    /\ UNCHANGED <<enabled, authorized, invite, draft, candidate, binding, deleted, order, cut>>

--------------------------------
\* Candidates.

AgentOf(m) == invite[m[1]].agent
\* readPromotionResolution
Eligible(m) ==
    /\ material[m] = "ACTIVE"
    /\ \E a \in AgentOf(m) : m[1] \in CurrentInvite(a) /\ MayPromote(a, m[2])
\* readCandidateResolution
Resolves(k) == \A m \in candidate[k].material : Eligible(m)

FreeCandidates == {k \in Candidates : candidate[k] = NoCandidate}
NewCandidate(m, c) == [material |-> {m}, status |-> "ACTIVE", customer |-> c, expired |-> FALSE]
ActiveOf(c) == {k \in Candidates : candidate[k].status = "ACTIVE" /\ candidate[k].customer = {c}}
Anonymous(k) == candidate[k].status = "ACTIVE" /\ candidate[k].customer = {}
CurrentBindings(c) == {b \in Bindings : binding[b].customer = {c} /\ ~binding[b].ended}
EndOf(k) == IF candidate[k].expired THEN "EXPIRED" ELSE "INVALIDATED"

ExpireCandidate(k) ==
    /\ Current(k)
    /\ candidate' = [candidate EXCEPT ![k].expired = TRUE]
    /\ UNCHANGED <<agents, binding, deleted, order, cut>>

\* A visitor without a candidate, or with the token of candidate k.
CreateAnonymous(m, replaced) ==
    /\ FreeCandidates # {} /\ Eligible(m)
    /\ \A k \in replaced : Anonymous(k) /\ ~candidate[k].expired /\ Resolves(k)
    /\ candidate' = [Ended(replaced, "INVALIDATED") EXCEPT ![Min(FreeCandidates)] = NewCandidate(m, {})]
    /\ UNCHANGED <<agents, binding, deleted, order, cut>>

CreateForCustomer(c, m) ==
    /\ c \notin deleted /\ CurrentBindings(c) = {}
    /\ FreeCandidates # {} /\ Eligible(m)
    /\ candidate' = [k \in Candidates |->
          IF k = Min(FreeCandidates) THEN NewCandidate(m, {c})
          ELSE IF k \in ActiveOf(c) THEN [candidate[k] EXCEPT !.status = EndOf(k)]
          ELSE candidate[k]]
    /\ UNCHANGED <<agents, binding, deleted, order, cut>>

MayMigrate(k) == Anonymous(k)

\* A sign-in with a candidate's token, in the order of the checks.
Migrate(c, k) ==
    LET other == ActiveOf(c)
        kept == {o \in other : Current(o) /\ Resolves(o)}
    IN
    /\ c \notin deleted /\ MayMigrate(k)
    /\ candidate' =
         IF CurrentBindings(c) # {} \/ kept # {} THEN Ended({k}, "INVALIDATED")
         ELSE [j \in Candidates |->
             IF j = k
             THEN IF candidate[k].expired THEN [candidate[k] EXCEPT !.status = "EXPIRED"]
                  ELSE IF ~Resolves(k) THEN [candidate[k] EXCEPT !.status = "INVALIDATED"]
                  ELSE [candidate[k] EXCEPT !.customer = {c}]
             ELSE IF j \in other THEN [candidate[j] EXCEPT !.status = EndOf(j)]
             ELSE candidate[j]]
    /\ UNCHANGED <<agents, binding, deleted, order, cut>>

--------------------------------
\* Bindings.

FreeBindings == {b \in Bindings : binding[b] = NoBinding}
Bindable(c) == c \notin deleted /\ CurrentBindings(c) = {}

Confirm(c) ==
    /\ Bindable(c) /\ FreeBindings # {}
    /\ \E k \in ActiveOf(c) :
          /\ ~candidate[k].expired /\ Resolves(k)
          /\ binding' = [binding EXCEPT ![Min(FreeBindings)] = [customer |-> {c}, ended |-> FALSE,
                agent |-> UNION {AgentOf(m) : m \in candidate[k].material}]]
          /\ candidate' = Ended({k}, "CONFIRMED")
    /\ UNCHANGED <<agents, deleted, order, cut>>

Reject(c) ==
    /\ c \notin deleted
    /\ \E k \in ActiveOf(c) :
          /\ ~candidate[k].expired /\ Resolves(k)
          /\ candidate' = Ended({k}, "REJECTED")
    /\ UNCHANGED <<agents, binding, deleted, order, cut>>

\* Headquarters give the customer another agent, or none (to = {}).
Transfer(c, to) ==
    /\ c \notin deleted /\ to \subseteq enabled
    /\ to # UNION {binding[b].agent : b \in CurrentBindings(c)}
    /\ to # {} => FreeBindings # {}
    /\ binding' = [b \in Bindings |->
          IF b \in CurrentBindings(c) THEN [binding[b] EXCEPT !.ended = TRUE]
          ELSE IF to # {} /\ b = Min(FreeBindings)
               THEN [customer |-> {c}, agent |-> to, ended |-> FALSE]
          ELSE binding[b]]
    /\ candidate' = Ended(ActiveOf(c), "INVALIDATED")
    /\ UNCHANGED <<agents, deleted, order, cut>>

\* The part of confirmDeletionInTransaction that concerns agents.
DeleteCustomer(c) ==
    /\ c \notin deleted /\ order[c].status # "SUBMITTED"
    /\ deleted' = deleted \union {c}
    /\ candidate' = Ended(ActiveOf(c), "INVALIDATED")
    /\ binding' = [b \in Bindings |->
          IF b \in CurrentBindings(c) THEN [binding[b] EXCEPT !.ended = TRUE] ELSE binding[b]]
    /\ UNCHANGED <<agents, order, cut>>

--------------------------------
\* The agent of an order.

FinalAgent(c) == order[c].agent \intersect enabled

\* readAttribution
SubmitOrder(c) ==
    LET served == {b \in CurrentBindings(c) : binding[b].agent \subseteq enabled} IN
    /\ c \notin deleted /\ order[c] = NoOrder
    /\ order' = [order EXCEPT ![c] =
          [status |-> "SUBMITTED", final |-> {},
           agent |-> UNION {binding[b].agent : b \in served},
           binding |-> IF served = {} THEN 0 ELSE Max(served)]]
    /\ UNCHANGED <<agents, candidate, binding, deleted, cut>>

PayOrder(c) ==
    /\ order[c].status = "SUBMITTED"
    /\ order' = [order EXCEPT ![c].status = "PAID", ![c].final = FinalAgent(c)]
    /\ UNCHANGED <<agents, candidate, binding, deleted, cut>>

\* Agents come and go, visits lead to candidates and candidates to bindings.
Visit ==
    \/ \E a \in Agents :
          \/ CreateAgent(a) \/ DisableAgent(a) \/ ReactivateAgent(a) \/ AbandonMaterial(a)
          \/ \E t \in Targets : PrepareMaterial(a, t)
          \/ \E m \in Materials : CommitMaterial(a, m)
    \/ \E m \in Materials :
          \/ CreateAnonymous(m, {})
          \/ \E k \in Candidates : CreateAnonymous(m, {k})
          \/ \E c \in Customers : CreateForCustomer(c, m)
    \/ \E c \in Customers : Confirm(c) \/ Reject(c) \/ \E k \in Candidates : Migrate(c, k)

\* Codes change, products are withdrawn, and what has an expiry expires.
Withdraw ==
    \/ \E a \in Agents :
          RotateInvite(a) \/ DisableInvite(a) \/ EnableInvite(a) \/ ChangeAuthorization(a)
    \/ \E i \in Invites : ExpireInvite(i)
    \/ \E m \in Materials : ExpireMaterial(m)
    \/ \E k \in Candidates : ExpireCandidate(k)

\* Customers order, are transferred and leave.
Serve ==
    \E c \in Customers :
       \/ SubmitOrder(c) \/ PayOrder(c) \/ DeleteCustomer(c)
       \/ Transfer(c, {}) \/ \E a \in Agents : Transfer(c, {a})

Next == Visit \/ Withdraw \/ Serve

Spec == Init /\ [][Next]_vars

--------------------------------
\* Types.
TypeOK ==
    /\ enabled \subseteq Agents /\ authorized \subseteq Agents
    /\ invite \in [Invites -> [agent: SUBSET Agents, expired: BOOLEAN,
                               status: {"NONE", "ACTIVE", "DISABLED", "ROTATED"}]]
    /\ draft \in [Agents -> SUBSET Materials]
    /\ material \in [Materials -> {"NONE", "ACTIVE", "EXPIRED"}]
    /\ candidate \in [Candidates -> [material: SUBSET Materials, customer: SUBSET Customers,
          expired: BOOLEAN,
          status: {"NONE", "ACTIVE", "CONFIRMED", "REJECTED", "EXPIRED", "INVALIDATED"}]]
    /\ binding \in [Bindings -> [customer: SUBSET Customers, agent: SUBSET Agents, ended: BOOLEAN]]
    /\ \A b \in Bindings : Cardinality(binding[b].agent) <= 1
    /\ deleted \subseteq Customers
    /\ cut \subseteq Candidates

\* A candidate whose invite code was rotated or disabled, or whose agent
\* was disabled, while it was waiting, is never confirmed, even after the
\* code or the agent is enabled again (rotateInviteCodeInTransaction,
\* updateInviteCodeStatusInTransaction, disableAgentInTransaction).
CutIsNeverConfirmed == \A k \in cut : candidate[k].status # "CONFIRMED"

\* A customer has at most one agent and at most one candidate to decide
\* on, and an agent at most one code that could be used, whichever of
\* visits, sign-ins, confirmations, transfers and rotations meet
\* (uq_customer_one_current_agent, uq_active_candidate_customer,
\* uq_agent_one_active_invite never refuse).
OneOfEach ==
    /\ \A c \in Customers : Cardinality(CurrentBindings(c)) <= 1 /\ Cardinality(ActiveOf(c)) <= 1
    /\ \A a \in Agents : Cardinality(Mutable(a)) <= 1

\* A candidate becomes one customer's at most once: a token that two
\* customers sign in with, on one device, brings the candidate to one.
CandidateKeepsCustomer ==
    \A k \in Candidates :
        candidate[k].customer # {} => candidate'[k].customer = candidate[k].customer

\* No update ever meets a trigger of the database: a decided candidate, a
\* rotated code and expired material are not touched again
\* (enforce_b13_attribution_candidate, enforce_b13_invite_code_update,
\* enforce_b13_promotion_asset).
UpdatesLegally ==
    /\ \A k \in Candidates : candidate[k].status \notin {"NONE", "ACTIVE"} => candidate'[k] = candidate[k]
    /\ \A i \in Invites : invite[i].status = "ROTATED" => invite'[i] = invite[i]

\* Material is only made for the code its agent has at that moment,
\* whatever happened to the code while the QR code was drawn and stored.
MakesMaterialOfCurrentCode ==
    \A m \in Materials :
        material[m] # "ACTIVE" /\ material'[m] = "ACTIVE"
        => invite[m[1]].status = "ACTIVE" /\ \E a \in enabled : invite[m[1]].agent = {a}

\* A customer gets an agent by confirming only through a code, an agent
\* and material that are in force at that moment; a binding made by
\* somebody else is never replaced by a candidate.
BindsInForce ==
    \A c \in Customers :
        \A k \in ActiveOf(c) : candidate'[k].status = "CONFIRMED"
        => CurrentBindings(c) = {} /\ \A m \in candidate[k].material : Eligible(m)

\* The commission of an order goes to the agent it was submitted with, or
\* to nobody: a transfer between order and payment does not move it.
SettledWithSubmitter == \A c \in Customers :
    order[c].final \subseteq order[c].agent
    /\ (order[c].binding # 0 => /\ binding[order[c].binding].agent = order[c].agent
                                /\ binding[order[c].binding].customer = {c})

\* A deleted customer has neither an agent nor a candidate, although its
\* orders keep theirs.
DeletedIsUnbound == \A c \in deleted : CurrentBindings(c) = {} /\ ActiveOf(c) = {}

\* Candidates, bindings and orders agree on whose customer somebody is.
BindingsAgree ==
    TypeOK /\ CutIsNeverConfirmed /\ OneOfEach /\ SettledWithSubmitter /\ DeletedIsUnbound
=============================================================================
