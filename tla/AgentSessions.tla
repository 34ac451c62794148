---------------------------- MODULE AgentSessions ----------------------------
(***************************************************************************)
(* Signing in as an agent (agent-auth.repository.ts, agent-auth.service.ts)*)
(* while an administrator disables, reactivates or resets the account      *)
(* (admin-agent.repository.ts).  A temporary password opens sessions that  *)
(* may do nothing but replace it.                                          *)
(*                                                                         *)
(* One account.  A password is verified, or a request authenticated, in    *)
(* one step and acts in a later transaction with what it saw then; the     *)
(* transactions lock the account and its sessions and are one action each. *)
(***************************************************************************)
EXTENDS Integers, FiniteSets, FiniteSetsExt

CONSTANTS MaxVersion, MaxSessions    \* bounds: account versions, session rows

ASSUME AgentSessionsAssumption == MaxVersion \in Nat \ {0} /\ MaxSessions \in Nat

Versions == 1 .. MaxVersion
Sessions == 1 .. MaxSessions
NoSession == [status |-> "NONE", restricted |-> FALSE, family |-> 0, password |-> 0]

VARIABLES
    account,   \* the account: version, password, must_change_password, status
    session,   \* its auth_session rows; history: the password behind each
    logins,    \* accounts as logins saw them when their password was right
    requests,  \* sessions with the version at which they were authenticated
    replayed   \* history: families of which a used refresh token came again

vars == <<account, session, logins, requests, replayed>>

\* An agent is created with a temporary password, numbered 1.
Init ==
    /\ account = [version |-> 1, password |-> 1, must |-> TRUE, active |-> TRUE]
    /\ session = [s \in Sessions |-> NoSession]
    /\ logins = {} /\ requests = {} /\ replayed = {}

--------------------------------
Unrevoked == {s \in Sessions : session[s].status \in {"LIVE", "LAPSED"}}
Live == {s \in Sessions : session[s].status = "LIVE"}
FreeRows == {s \in Sessions : session[s] = NoSession}

\* getCurrentSession
Usable(s) == s \in Live /\ account.active /\ session[s].restricted = account.must

\* updateMany ... revoked_at: null -> now
Revoke(gone) == [s \in Sessions |->
    IF s \in gone /\ s \in Unrevoked THEN [session[s] EXCEPT !.status = "REVOKED"] ELSE session[s]]
Family(s) == {q \in Sessions : session[q].family = session[s].family}
Opened(rows, restricted, family, password) == [rows EXCEPT ![Min(FreeRows)] =
    [status |-> "LIVE", restricted |-> restricted, password |-> password,
     family |-> IF family = 0 THEN Min(FreeRows) ELSE family]]

\* The account moves on to its next version.
Changed(new) == [new EXCEPT !.version = account.version + 1]
MayChange == account.version < MaxVersion

\* Mutant: the login is fenced by its password only where it is verified.
SawStatus(l) == l.must = account.must /\ account.active

\* What a login or a request saw is still so.
SawThis(l) == l = account /\ account.active

--------------------------------
\* findLoginSubject, then the password is verified.
VerifyLogin ==
    /\ account.active
    /\ logins' = logins \union {account}
    /\ UNCHANGED <<account, session, requests, replayed>>

Login(l) ==
    /\ SawThis(l) /\ FreeRows # {}
    /\ session' = Opened(session, l.must, 0, l.password)
    /\ logins' = logins \ {l}
    /\ UNCHANGED <<account, requests, replayed>>

Authenticate(s) ==
    /\ Usable(s)
    /\ requests' = requests \union {<<s, account.version>>}
    /\ UNCHANGED <<account, session, logins, replayed>>

HasToken(s) == session[s].status # "NONE" /\ ~session[s].restricted

Refresh(s) ==
    /\ HasToken(s) /\ s \in Live /\ account.active /\ ~account.must /\ FreeRows # {}
    /\ session' = Opened(Revoke({s}), FALSE, session[s].family, session[s].password)
    /\ UNCHANGED <<account, logins, requests, replayed>>

\* A token that was used before ends its family.
ReplayRefresh(s) ==
    /\ HasToken(s) /\ session[s].status = "REVOKED"
    /\ session' = Revoke(Family(s))
    /\ replayed' = replayed \union {session[s].family}
    /\ UNCHANGED <<account, logins, requests>>

\* So does a token that expired or whose account may not be used.
RefuseRefresh(s) ==
    /\ HasToken(s) /\ s \in Unrevoked
    /\ s \notin Live \/ ~account.active \/ account.must
    /\ session' = Revoke(Family(s))
    /\ UNCHANGED <<account, logins, requests, replayed>>

Logout(r) ==
    /\ session' = Revoke(Family(r[1]))
    /\ requests' = requests \ {r}
    /\ UNCHANGED <<account, logins, replayed>>

LogoutAll(r) ==
    /\ ~session[r[1]].restricted /\ account.active /\ r[2] = account.version /\ MayChange
    /\ account' = Changed(account)
    /\ session' = Revoke(Sessions)
    /\ requests' = requests \ {r}
    /\ UNCHANGED <<logins, replayed>>

\* The current session ends with the others.
ChangePassword(r) ==
    /\ HasToken(r[1]) /\ Usable(r[1]) /\ r[2] = account.version /\ MayChange
    /\ account' = Changed([account EXCEPT !.password = account.version + 1])
    /\ session' = Revoke(Sessions)
    /\ requests' = requests \ {r}
    /\ UNCHANGED <<logins, replayed>>

ChangeTemporaryPassword(r) ==
    /\ session[r[1]].restricted /\ Usable(r[1]) /\ r[2] = account.version
    /\ MayChange /\ FreeRows # {}
    /\ account' = Changed([account EXCEPT !.password = account.version + 1, !.must = FALSE])
    /\ session' = Opened(Revoke(Sessions), FALSE, 0, account'.password)
    /\ requests' = requests \ {r}
    /\ UNCHANGED <<logins, replayed>>

DisableAgent ==
    /\ account.active /\ MayChange
    /\ account' = Changed([account EXCEPT !.active = FALSE])
    /\ session' = Revoke(Sessions)
    /\ UNCHANGED <<logins, requests, replayed>>

ReactivateAgent ==
    /\ ~account.active /\ MayChange
    /\ account' = Changed([account EXCEPT !.active = TRUE])
    /\ UNCHANGED <<session, logins, requests, replayed>>

\* Disabled or not, the account gets another temporary password.
ResetAgentPassword ==
    /\ MayChange
    /\ account' = Changed([account EXCEPT !.password = account.version + 1, !.must = TRUE])
    /\ session' = Revoke(Sessions)
    /\ UNCHANGED <<logins, requests, replayed>>

SessionLapses(s) ==
    /\ s \in Live
    /\ session' = [session EXCEPT ![s].status = "LAPSED"]
    /\ UNCHANGED <<account, logins, requests, replayed>>

Next ==
    \/ VerifyLogin \/ \E l \in logins : Login(l)
    \/ \E s \in Sessions :
          \/ Authenticate(s) \/ SessionLapses(s)
          \/ Refresh(s) \/ ReplayRefresh(s) \/ RefuseRefresh(s)
    \/ \E r \in requests :
          Logout(r) \/ LogoutAll(r) \/ ChangePassword(r) \/ ChangeTemporaryPassword(r)
    \/ DisableAgent \/ ReactivateAgent \/ ResetAgentPassword

Spec == Init /\ [][Next]_vars

--------------------------------
Accounts == [version: Versions, password: Versions, must: BOOLEAN, active: BOOLEAN]

\* Types.
TypeOK ==
    /\ account \in Accounts
    /\ session \in [Sessions -> [status: {"NONE", "LIVE", "LAPSED", "REVOKED"},
          restricted: BOOLEAN, family: 0 .. MaxSessions, password: 0 .. MaxVersion]]
    /\ logins \subseteq Accounts
    /\ requests \subseteq Sessions \X Versions
    /\ replayed \subseteq Sessions

\* Whoever is signed in proved the password the account has now, however
\* logins, refreshes, password changes and resets overtook each other.
SessionsOfCurrentPassword == \A s \in Live : session[s].password = account.password

\* A temporary password never gives more than its own replacement: while
\* it is to be replaced every live row is restricted, and none afterwards,
\* on any device.
TemporaryOnlyChanges == \A s \in Live : session[s].restricted = account.must

\* Disabling signs the agent out for good: nothing live waits in the
\* database for the account to be reactivated.
DisabledIsSignedOut == ~account.active => Live = {}

\* A refresh token is exchanged once: a family has one live session.
OneSessionOfFamily == \A s, q \in Live : session[s].family = session[q].family => s = q

\* Once a used refresh token was presented, nobody holding a token of its
\* family stays signed in, though the request itself was refused.
ReplayEndsFamily == \A s \in Live : session[s].family \notin replayed

\* Every live session of the agent is one that its last login, password
\* change, disabling and refresh allow.
SessionsAreSound ==
    /\ TypeOK
    /\ SessionsOfCurrentPassword /\ TemporaryOnlyChanges /\ DisabledIsSignedOut
    /\ OneSessionOfFamily /\ ReplayEndsFamily
=============================================================================
