-------------------------- MODULE StorefrontClient --------------------------
(***************************************************************************)
(* The mini-program's side of a command that must happen at most once:     *)
(* the session it keeps (customer-session.ts), the authenticated requests  *)
(* that share one refresh of it (store-identity.ts) and the journal that   *)
(* remembers a command until its outcome is known (order-submit-journal.ts,*)
(* aftersale-confirm-journal.ts).  Answers get lost, requests arrive after *)
(* the client gave up, the app is killed, customers sign in and out.       *)
(*                                                                         *)
(* Calls under way: the journal's command, and other requests.             *)
(* The code between two awaits is one action.  The server is what the      *)
(* client relies on: a key is placed once, and a request it refused for a  *)
(* business reason it goes on refusing.                                    *)
(***************************************************************************)
EXTENDS Integers, FiniteSets, FiniteSetsExt

CONSTANTS Customers, NoCustomer,
          Calls,                           \* callers; "COMMAND" sends the journal's
          Journal,                         \* "ORDER" or "AFTERSALE"
          MaxTokens, MaxKeys, MaxRestarts  \* bounds

StorefrontClientAssumption ==
    /\ NoCustomer \notin Customers
    /\ Journal \in {"ORDER", "AFTERSALE"}
    /\ {MaxTokens, MaxKeys, MaxRestarts} \subseteq Nat

Tokens == 1 .. MaxTokens
Keys == 1 .. MaxKeys

VARIABLES
    app,       \* memory: refresh token or 0, session generation and revision
    stored,    \* app sandbox: the persisted refresh token, or 0
    journal,   \* app sandbox: commands whose outcome is not known
    refreshes, \* refreshInFlight, with the answer under way
    call,      \* the authenticated request of each caller
    session,   \* server: the auth_session behind each refresh token
    placed,    \* server: what became of each key
    late,      \* requests that may arrive after the client gave up on them
    seen,      \* history: keys whose success was shown
    let,       \* history: keys let go at a logout or after their 24 hours
    restarts   \* history: how often the app was started again

vars == <<app, stored, journal, refreshes, call, session, placed, late, seen, let, restarts>>
server == <<session, placed, late>>
history == <<seen, let, restarts>>

NoSession == [customer |-> NoCustomer, family |-> 0, status |-> "NONE"]
Idle == [phase |-> "IDLE", gen |-> 0, token |-> 0, try |-> 0, key |-> 0, answer |-> "NONE"]

Init ==
    /\ app = [token |-> 0, gen |-> 0, rev |-> 0] /\ stored = 0
    /\ journal = {} /\ refreshes = {}
    /\ call = [c \in Calls |-> Idle]
    /\ session = [t \in Tokens |-> NoSession]
    /\ placed = [k \in Keys |-> "NONE"] /\ late = {}
    /\ seen = {} /\ let = {} /\ restarts = 0

--------------------------------
\* The session the app keeps.

FreeTokens == {t \in Tokens : session[t] = NoSession}
Customer(t) == session[t].customer

\* saveCustomerSession: another login.
Saved(t) == /\ app' = [token |-> t, gen |-> app.gen + 1, rev |-> app.rev + 1]
            /\ stored' = t

\* acceptRotatedCustomerSession: the same login goes on.
Rotated(t) == /\ app' = [app EXCEPT !.token = t, !.rev = @ + 1]
              /\ stored' = t

\* clearCustomerSession
Cleared == /\ app' = [token |-> 0, gen |-> app.gen + 1, rev |-> app.rev + 1]
           /\ stored' = 0
Kept == UNCHANGED <<app, stored>>

\* loadCustomerRefreshCredential
Credential == IF app.token # 0 THEN app.token ELSE stored

\* sessionGenerationIsCurrent
Current(gen) == app.gen = gen /\ app.token # 0

--------------------------------
\* The journal.

\* Mutant: an expired session is taken for the outcome of the command.
WithUnauthorized(answer) == answer \in {"REFUSED", "UNAUTHORIZED"}

\* isCertainAftersaleConfirmFailure
CertainAftersale(answer) == answer = "REFUSED"

\* isCertainOrderSubmitFailure
CertainOrder(answer) == answer \in {"REFUSED", "UNAUTHORIZED", "CHANGED"}

Certain(answer) == IF Journal = "ORDER" THEN CertainOrder(answer) ELSE CertainAftersale(answer)

Pending(cust) == {j \in journal : j.customer = cust}
UsedKeys == {k \in Keys : \E j \in journal : j.key = k} \union seen \union let
FreeKeys == {k \in Keys : placed[k] = "NONE" /\ k \notin UsedKeys
                            /\ (\A c \in Calls : call[c].key # k) /\ (\A r \in late : r.key # k)}

\* prepareOrderSubmitJournal, loadCheckout: one command, of one customer.
\* The journal of somebody else is dropped.
PrepareOrder(cust) ==
    IF Pending(cust) # {} THEN UNCHANGED <<journal, let>>
    ELSE /\ FreeKeys # {}
         /\ journal' = {[customer |-> cust, key |-> Min(FreeKeys)]}
         /\ let' = let \union {j.key : j \in journal}

\* prepareAftersaleConfirmJournal: one command of each customer.
PrepareAftersale(cust) ==
    /\ IF Pending(cust) # {} THEN UNCHANGED journal
       ELSE /\ FreeKeys # {}
            /\ journal' = journal \union {[customer |-> cust, key |-> Min(FreeKeys)]}
    /\ UNCHANGED let

Prepare(cust) == IF Journal = "ORDER" THEN PrepareOrder(cust) ELSE PrepareAftersale(cust)
Without(key) == {j \in journal : j.key # key}

--------------------------------
\* Authenticated requests.

\* What the caller is told.
Told(c, answer) ==
    /\ call' = [call EXCEPT ![c] = Idle]
    /\ seen' = IF c = "COMMAND" /\ answer = "OK" THEN seen \union {call[c].key} ELSE seen
    /\ journal' = IF c = "COMMAND" /\ (answer = "OK" \/ Certain(answer))
                  THEN Without(call[c].key) ELSE journal

\* The refresh that is under way is joined.
RefreshOf(t) == {r \in refreshes : r.token = t}

\* refreshCustomerSession
Begun(t) == IF RefreshOf(t) # {} THEN refreshes
            ELSE refreshes \union {[token |-> t, gen |-> app.gen, rev |-> app.rev,
                                    answer |-> "SENT", next |-> 0]}

\* authenticatedRequest, up to its first await.
Start(c, key) ==
    LET begun == [Idle EXCEPT !.gen = app.gen, !.token = Credential, !.key = key] IN
    IF app.token # 0
    THEN /\ call' = [call EXCEPT ![c] = [begun EXCEPT !.phase = "SENT", !.try = 1]]
         /\ UNCHANGED refreshes
    ELSE /\ call' = [call EXCEPT ![c] = [begun EXCEPT !.phase = "REFRESHES"]]
         /\ refreshes' = Begun(stored)

\* confirmSubmit, retryPendingSubmission: the page knows its customer from the
\* session that is there.
Command ==
    /\ "COMMAND" \in Calls /\ call["COMMAND"] = Idle /\ Credential # 0
    /\ LET cust == Customer(Credential) IN
       /\ Prepare(cust)
       /\ \E j \in journal' : j.customer = cust /\ Start("COMMAND", j.key)
    /\ UNCHANGED <<app, stored, server, seen, restarts>>

\* Any other page that needs the customer.
Other(c) ==
    /\ c # "COMMAND" /\ call[c] = Idle /\ Credential # 0
    /\ Start(c, 0)
    /\ UNCHANGED <<app, stored, journal, server, history>>

\* The answer to a request comes in.
ReceiveOk(c) ==
    /\ call[c].phase = "BACK" /\ call[c].answer = "OK"
    /\ Told(c, IF Current(call[c].gen) THEN "OK" ELSE "CHANGED")
    /\ UNCHANGED <<app, stored, refreshes, server, let, restarts>>

ReceiveError(c) ==
    /\ call[c].phase = "BACK" /\ call[c].answer \in {"REFUSED", "LOST"}
    /\ Told(c, IF call[c].try = 1 \/ Current(call[c].gen) THEN call[c].answer ELSE "CHANGED")
    /\ UNCHANGED <<app, stored, refreshes, server, let, restarts>>

\* The first 401: by now somebody may have refreshed, or signed in anew.
ReceiveUnauthorized(c) ==
    /\ call[c].phase = "BACK" /\ call[c].answer = "UNAUTHORIZED" /\ call[c].try = 1
    /\ \/ ~Current(call[c].gen) /\ Told(c, "CHANGED") /\ UNCHANGED refreshes
       \/ /\ Current(call[c].gen) /\ app.token # call[c].token
          /\ call' = [call EXCEPT ![c] = [@ EXCEPT !.phase = "SENT", !.try = 2,
                                                   !.token = app.token, !.answer = "NONE"]]
          /\ UNCHANGED <<journal, seen, refreshes>>
       \/ /\ Current(call[c].gen) /\ app.token = call[c].token
          /\ refreshes' = Begun(call[c].token)
          /\ call' = [call EXCEPT ![c] = [@ EXCEPT !.phase = "REFRESHES", !.answer = "NONE"]]
          /\ UNCHANGED <<journal, seen>>
    /\ UNCHANGED <<app, stored, server, let, restarts>>

\* The second 401 ends the session, unless it is another one by now.
ReceiveUnauthorizedAgain(c) ==
    /\ call[c].phase = "BACK" /\ call[c].answer = "UNAUTHORIZED" /\ call[c].try = 2
    /\ IF ~Current(call[c].gen) THEN Kept /\ Told(c, "CHANGED")
       ELSE /\ IF app.token = call[c].token THEN Cleared ELSE Kept
            /\ Told(c, "UNAUTHORIZED")
    /\ UNCHANGED <<refreshes, server, let, restarts>>

--------------------------------
\* Refreshing.

Waiting(t) == {c \in Calls : call[c].phase = "REFRESHES" /\ call[c].token = t}

\* Everybody who waits goes on with token t.
GoOn(waiting, t) ==
    /\ call' = [c \in Calls |-> IF c \notin waiting THEN call[c]
         ELSE [call[c] EXCEPT !.phase = "SENT", !.try = @ + 1, !.token = t]]
    /\ UNCHANGED <<journal, seen>>

\* Everybody who waits is told.
AllTold(waiting, answer) ==
    /\ call' = [c \in Calls |-> IF c \in waiting THEN Idle ELSE call[c]]
    /\ journal' = IF "COMMAND" \in waiting /\ Certain(answer)
                  THEN Without(call["COMMAND"].key) ELSE journal
    /\ UNCHANGED seen

\* The session is the one the refresh set out from.
Fresh(r) == app.gen = r.gen /\ app.rev = r.rev

RefreshAnswered(r) ==
    LET waiting == Waiting(r.token) IN
    /\ r.answer # "SENT"
    /\ refreshes' = refreshes \ {r}
    /\ \/ ~Fresh(r) /\ app.gen # r.gen /\ Kept /\ AllTold(waiting, "CHANGED")
       \/ ~Fresh(r) /\ app.gen = r.gen /\ Kept /\ GoOn(waiting, app.token)
       \/ Fresh(r) /\ r.answer = "OK" /\ Rotated(r.next) /\ GoOn(waiting, r.next)
       \/ Fresh(r) /\ r.answer # "OK" /\ Cleared /\ AllTold(waiting, r.answer)
    /\ UNCHANGED <<server, let, restarts>>

--------------------------------
\* Signing in and out, and the end of the app's life.

\* loginWithWechat: the login page is shown when there is no session.
Login(cust) ==
    /\ Credential = 0 /\ FreeTokens # {}
    /\ LET t == Min(FreeTokens) IN
       /\ session' = [session EXCEPT ![t] = [customer |-> cust, family |-> t, status |-> "GOOD"]]
       /\ Saved(t)
    /\ UNCHANGED <<journal, refreshes, call, placed, late, history>>

\* logoutCustomer, confirmLogout: the server may not hear of it.
Logout ==
    /\ app.token # 0
    /\ Cleared
    /\ \/ UNCHANGED session
       \/ session' = [session EXCEPT ![app.token].status = "ENDED"]
    /\ IF Journal = "ORDER"
       THEN journal' = {} /\ let' = let \union {j.key : j \in journal}
       ELSE UNCHANGED <<journal, let>>
    /\ UNCHANGED <<refreshes, call, placed, late, seen, restarts>>

\* loadOrderSubmitJournal, loadCollection: a journal of 24 hours is no more.
JournalLapses(j) ==
    /\ j \in journal
    /\ journal' = journal \ {j} /\ let' = let \union {j.key}
    /\ UNCHANGED <<app, stored, refreshes, call, server, seen, restarts>>

InFlight == {[key |-> call[c].key, token |-> call[c].token] :
               c \in {d \in Calls : d = "COMMAND" /\ call[d].phase = "SENT"}}

\* The app is killed and started again; its sandbox stays.
Restart ==
    /\ restarts < MaxRestarts
    /\ restarts' = restarts + 1
    /\ app' = [token |-> 0, gen |-> 0, rev |-> 0]
    /\ refreshes' = {} /\ call' = [c \in Calls |-> Idle]
    /\ late' = late \union InFlight
    /\ UNCHANGED <<stored, journal, session, placed, seen, let>>

--------------------------------
\* The server and the network.

\* What the server does with a command: one key is placed once.
Handled(key, token, answer) ==
    IF session[token].status # "GOOD" THEN answer = "UNAUTHORIZED" /\ UNCHANGED placed
    ELSE IF key = 0 THEN answer = "OK" /\ UNCHANGED placed
    ELSE \/ placed[key] \in {"NONE", "PLACED"} /\ answer = "OK"
            /\ placed' = [placed EXCEPT ![key] = "PLACED"]
         \/ placed[key] \in {"NONE", "REFUSED"} /\ answer = "REFUSED"
            /\ placed' = [placed EXCEPT ![key] = "REFUSED"]

Answer(c) ==
    /\ call[c].phase = "SENT"
    /\ \E answer \in {"OK", "REFUSED", "UNAUTHORIZED"} :
          /\ Handled(call[c].key, call[c].token, answer)
          /\ call' = [call EXCEPT ![c] = [@ EXCEPT !.phase = "BACK", !.answer = answer]]
    /\ UNCHANGED <<app, stored, journal, refreshes, session, late, history>>

\* The client gives up; the request, or its answer, is still under way.
TimesOut(c) ==
    /\ call[c].phase = "SENT"
    /\ late' = late \union {f \in InFlight : f.key = call[c].key}
    /\ call' = [call EXCEPT ![c] = [@ EXCEPT !.phase = "BACK", !.answer = "LOST"]]
    /\ UNCHANGED <<app, stored, journal, refreshes, session, placed, history>>

ArrivesLate(f) ==
    /\ f \in late
    /\ late' = late \ {f}
    /\ \E answer \in {"OK", "REFUSED", "UNAUTHORIZED"} : Handled(f.key, f.token, answer)
    /\ UNCHANGED <<app, stored, journal, refreshes, call, session, history>>

\* The access token behind t expires; a refresh gives another.
AccessExpires(t) ==
    /\ session[t].status = "GOOD"
    /\ session' = [session EXCEPT ![t].status = "STALE"]
    /\ UNCHANGED <<app, stored, journal, refreshes, call, placed, late, history>>

\* refresh: a token that was rotated before ends its family.
AnswerRefresh(r) ==
    LET s == session[r.token]
        answered(a, n) == refreshes' = (refreshes \ {r}) \union {[r EXCEPT !.answer = a, !.next = n]} IN
    /\ r.answer = "SENT"
    /\ \/ /\ s.status \in {"GOOD", "STALE"} /\ FreeTokens # {}
          /\ session' = [session EXCEPT ![r.token].status = "ROTATED",
                                        ![Min(FreeTokens)] = [s EXCEPT !.status = "GOOD"]]
          /\ answered("OK", Min(FreeTokens))
       \/ /\ s.status = "ROTATED" /\ answered("UNAUTHORIZED", 0)
          /\ session' = [t \in Tokens |-> IF session[t].family = s.family
                         THEN [session[t] EXCEPT !.status = "REPLAYED"] ELSE session[t]]
       \/ /\ s.status \in {"ENDED", "REPLAYED"} /\ answered("UNAUTHORIZED", 0)
          /\ UNCHANGED session
    /\ UNCHANGED <<app, stored, journal, call, placed, late, history>>

\* The answer to a refresh, or the request itself, is lost.
RefreshTimesOut(r) ==
    /\ r.answer # "LOST"
    /\ refreshes' = (refreshes \ {r}) \union {[r EXCEPT !.answer = "LOST", !.next = 0]}
    /\ UNCHANGED <<app, stored, journal, call, server, history>>

--------------------------------
Received(c) == \/ ReceiveOk(c) \/ ReceiveError(c)
               \/ ReceiveUnauthorized(c) \/ ReceiveUnauthorizedAgain(c)

Next ==
    \/ Command \/ (\E c \in Calls : Other(c) \/ Received(c))
    \/ \E r \in refreshes : RefreshAnswered(r) \/ AnswerRefresh(r) \/ RefreshTimesOut(r)
    \/ \E cust \in Customers : Login(cust)
    \/ Logout \/ Restart
    \/ \E j \in journal : JournalLapses(j)
    \/ \E c \in Calls : Answer(c) \/ TimesOut(c)
    \/ \E f \in late : ArrivesLate(f)
    \/ \E t \in Tokens : AccessExpires(t)

\* A request ends, with an answer or a timeout, and the app's event loop runs
\* the continuation.
Fairness ==
    /\ \A c \in Calls : WF_vars(TimesOut(c)) /\ WF_vars(Received(c))
    /\ WF_vars(\E r \in refreshes : RefreshTimesOut(r))
    /\ WF_vars(\E r \in refreshes : RefreshAnswered(r))

Spec == Init /\ [][Next]_vars
FairSpec == Spec /\ Fairness

--------------------------------
Phases == {"IDLE", "SENT", "REFRESHES", "BACK"}
Answers == {"NONE", "OK", "REFUSED", "UNAUTHORIZED", "LOST"}

\* Every variable stays in its range, and a call under way has a token.
TypeOK ==
    /\ app \in [token : 0 .. MaxTokens, gen : Nat, rev : Nat] /\ stored \in 0 .. MaxTokens
    /\ journal \subseteq [customer : Customers, key : Keys]
    /\ refreshes \subseteq [token : Tokens, gen : Nat, rev : Nat,
                            answer : Answers \union {"SENT"}, next : 0 .. MaxTokens]
    /\ call \in [Calls -> [phase : Phases, gen : Nat, token : 0 .. MaxTokens, try : 0 .. 2,
                           key : 0 .. MaxKeys, answer : Answers]]
    /\ \A c \in Calls : call[c] # Idle => call[c].token \in Tokens
    /\ session \in [Tokens -> [customer : Customers \union {NoCustomer}, family : 0 .. MaxTokens,
                      status : {"NONE", "GOOD", "STALE", "ROTATED", "ENDED", "REPLAYED"}]]
    /\ placed \in [Keys -> {"NONE", "PLACED", "REFUSED"}]
    /\ late \subseteq [key : Keys, token : Tokens]
    /\ seen \subseteq Keys /\ let \subseteq Keys /\ restarts \in 0 .. MaxRestarts

\* A command that took effect was seen to, or its journal is still there
\* for the same request to be sent again under the same key: lost answers,
\* killed apps, expired sessions and other logins do not make the customer
\* give the same command twice (executeOrderSubmitJournal,
\* executeAftersaleConfirmJournal).
NothingForgotten ==
    \A k \in Keys : placed[k] = "PLACED" => k \in seen \union let \/ \E j \in journal : j.key = k

\* What a page is shown was answered for the customer who is signed in
\* when it is shown, whoever signed in and out while the request was under
\* way (authenticatedRequest).
AnswersThisLogin ==
    \A c \in Calls : ReceiveOk(c) /\ Current(call[c].gen)
        => session[call[c].token].family = session[app.token].family

\* A request keeps to the login it was started in: it is never sent again
\* with the token of somebody who signed in meanwhile
\* (authenticatedRequest, refreshCustomerSession).
KeepsLogin ==
    \A c \in Calls : call[c] # Idle /\ call'[c] # Idle /\ call'[c].token # call[c].token
        => session'[call'[c].token].family = session[call[c].token].family

\* A refresh that is answered late does not sign the former customer in
\* again, nor the present one out (refreshCustomerSession).
LateRefreshDoesNoHarm ==
    \A r \in refreshes : RefreshAnswered(r) /\ app' # app
        => Credential # 0 /\ session[r.token].family = session[Credential].family

\* The app does not end its own session by presenting a refresh token
\* twice; only an app that was killed while it refreshed may
\* (refreshInFlight).
NeverReplaysItself ==
    (\E t \in Tokens : session[t].status = "REPLAYED") => restarts > 0

\* No request hangs: also one that waits for the refresh somebody else
\* began is answered in the end (authenticatedRequest).
EveryCallEnds == \A c \in Calls : (call[c] # Idle) ~> (call[c] = Idle)

\* The client remembers every command until it saw how it ended, and never
\* makes the server take its own refresh for a theft.
ClientKeepsTrack == TypeOK /\ NothingForgotten /\ NeverReplaysItself
=============================================================================
