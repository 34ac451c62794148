--------------------------- MODULE AccountsProofs ---------------------------
(***************************************************************************)
(* Theorems about the people of the mall: agents' sessions, attribution,   *)
(* customers' accounts, the storefront client and its guest cart.  Each    *)
(* component moves by its own steps only, so its inductive invariant holds *)
(* of the suite.                                                           *)
(***************************************************************************)
EXTENDS MCAccounts, FiniteSetTheorems, WellFoundedInduction, TLAPS

--------------------------------
\* Agents' sessions, for every number of sessions and versions.  The five
\* properties of the runs are proved as one inductive invariant; it needs
\* one fact more, Born: a row is blank until it is opened, and the family
\* of a row is the number of a row that was opened.

Row == [status: {"NONE", "LIVE", "LAPSED", "REVOKED"}, restricted: BOOLEAN,
        family: 0 .. MaxSessions, password: 0 .. MaxVersion]

Blank(s) == session[s].status = "NONE"

Born ==
  /\ \A s \in Sessions : Blank(s) => session[s] = NoSession
  /\ \A s \in Sessions : ~Blank(s) =>
       session[s].family \in Sessions /\ ~Blank(session[s].family)
  /\ \A f \in replayed : ~Blank(f)

IInv ==
  /\ TypeOK /\ Born
  /\ SessionsOfCurrentPassword /\ TemporaryOnlyChanges /\ DisabledIsSignedOut
  /\ OneSessionOfFamily /\ ReplayEndsFamily

USE AgentSessionsAssumption

--------------------------------
\* A nonempty set of row numbers has a least one: the row that is opened.
LEMMA LeastRow ==
  ASSUME NEW T \in SUBSET Sessions, T # {}
  PROVE  Min(T) \in T
<1> DEFINE R == OpToRel(<, Nat)
<1>1. IsWellFoundedOn(R, Nat) BY NatLessThanWellFounded
<1>2. T \subseteq Nat BY DEF Sessions
<1> HIDE DEF R
<1>3. \E x \in T : \A y \in T : ~(<<y, x>> \in R) BY <1>1, <1>2, WFMin
<1>4. R = {ss \in Nat \X Nat : ss[1] < ss[2]} BY Zenon DEF R, OpToRel
<1>5. \E x \in T : \A y \in T : x =< y
  <2>1. PICK x \in T : \A y \in T : ~(<<y, x>> \in R) BY <1>3
  <2>2. ASSUME NEW y \in T PROVE x =< y
    <3>1. x \in Nat /\ y \in Nat BY <1>2
    <3>2. <<y, x>> \notin R BY <2>1
    <3>3. ~(y < x) BY <1>4, <3>1, <3>2
    <3> QED BY <3>1, <3>3
  <2> QED BY <2>2
<1> QED BY <1>5 DEF Min

\* Revoking keeps every row what it was, but for the unrevoked ones among
\* those that go.
LEMMA Revoking ==
  ASSUME TypeOK, NEW gone
  PROVE  /\ Revoke(gone) \in [Sessions -> Row]
         /\ \A s \in Sessions :
              /\ Revoke(gone)[s].status = "NONE" <=> session[s].status = "NONE"
              /\ Revoke(gone)[s].status = "LIVE" <=> s \in Live /\ s \notin gone
              /\ Revoke(gone)[s].family = session[s].family
              /\ Revoke(gone)[s].restricted = session[s].restricted
              /\ Revoke(gone)[s].password = session[s].password
              /\ Blank(s) => Revoke(gone)[s] = session[s]
BY DEF TypeOK, Revoke, Unrevoked, Live, Row, Blank

\* A session is opened in a row that was blank.
LEMMA Opening ==
  ASSUME TypeOK, FreeRows # {}, NEW rows \in [Sessions -> Row],
         NEW restricted \in BOOLEAN, NEW family \in 0 .. MaxSessions,
         NEW password \in 0 .. MaxVersion
  PROVE  \E n \in FreeRows :
           /\ Opened(rows, restricted, family, password) =
                [rows EXCEPT ![n] = [status |-> "LIVE", restricted |-> restricted,
                   password |-> password, family |-> IF family = 0 THEN n ELSE family]]
           /\ Opened(rows, restricted, family, password) \in [Sessions -> Row]
<1>1. Min(FreeRows) \in FreeRows BY LeastRow DEF FreeRows
<1>2. Min(FreeRows) \in Sessions BY <1>1 DEF FreeRows
<1>3. [status |-> "LIVE", restricted |-> restricted, password |-> password,
       family |-> IF family = 0 THEN Min(FreeRows) ELSE family] \in Row
  BY <1>2 DEF Row, Sessions
<1> QED BY <1>1, <1>2, <1>3 DEF Opened

--------------------------------
LEMMA InitIInv == Init => IInv
BY DEF Init, IInv, TypeOK, Born, Blank, SessionsOfCurrentPassword, TemporaryOnlyChanges,
   DisabledIsSignedOut, OneSessionOfFamily, ReplayEndsFamily, Live, NoSession, Accounts, Versions, Sessions

\* Steps that change neither the account nor the sessions.
LEMMA Seen ==
  ASSUME IInv, UNCHANGED <<account, session, replayed>>,
         logins' \subseteq logins \union {account},
         requests' \subseteq Sessions \X Versions
  PROVE  IInv'
BY DEF IInv, TypeOK, Born, Blank, SessionsOfCurrentPassword, TemporaryOnlyChanges, DisabledIsSignedOut,
   OneSessionOfFamily, ReplayEndsFamily, Live, Accounts

\* Steps that only end sessions, of the account as it is.
LEMMA Ended ==
  ASSUME IInv, NEW gone, session' = Revoke(gone), UNCHANGED <<account, logins>>,
         requests' \subseteq requests,
         \/ replayed' = replayed
         \/ \E s \in Sessions : /\ ~Blank(s) /\ gone = Family(s)
                                /\ replayed' = replayed \union {session[s].family}
  PROVE  IInv'
<1>1. TypeOK /\ Born BY DEF IInv
<1>2. /\ Live' = Live \ gone
      /\ \A s \in Sessions :
           /\ session'[s].family = session[s].family
           /\ session'[s].restricted = session[s].restricted
           /\ session'[s].password = session[s].password
           /\ Blank(s)' <=> Blank(s)
  BY <1>1, Revoking DEF Live, Blank
<1>3. replayed' \subseteq Sessions /\ \A f \in replayed' : ~Blank(f) BY <1>1 DEF TypeOK, Born
<1>4. TypeOK' BY <1>1, <1>3, Revoking DEF TypeOK, Row
<1>5. Born'
  <2>1. \A s \in Sessions : Blank(s)' => session'[s] = NoSession BY <1>1, Revoking DEF Born, Blank
  <2>2. \A s \in Sessions : ~Blank(s)' =>
          session'[s].family \in Sessions /\ ~Blank(session[s].family)
    BY <1>1, <1>2 DEF Born
  <2>3. \A s \in Sessions : ~Blank(s)' => ~Blank(session[s].family)'  BY <1>1, <1>2, <2>2 DEF Born, Blank
  <2>4. \A f \in replayed' : ~Blank(f)' BY <1>2, <1>3 DEF Blank
  <2> QED BY <1>2, <2>1, <2>2, <2>3, <2>4 DEF Born, Blank
<1>6. SessionsOfCurrentPassword' /\ TemporaryOnlyChanges' /\ DisabledIsSignedOut'
  BY <1>2 DEF IInv, SessionsOfCurrentPassword, TemporaryOnlyChanges, DisabledIsSignedOut, Live
<1>7. OneSessionOfFamily' /\ ReplayEndsFamily'
  BY <1>2 DEF IInv, OneSessionOfFamily, ReplayEndsFamily, Live, Family
<1> QED BY <1>4, <1>5, <1>6, <1>7 DEF IInv

\* The account changes and every session ends with what it was.
LEMMA SignedOut ==
  ASSUME IInv, account' \in Accounts, session' = Revoke(Sessions),
         UNCHANGED <<logins, replayed>>, requests' \subseteq requests
  PROVE  IInv'
<1>1. TypeOK /\ Born BY DEF IInv
<1>2. \A s \in Sessions : /\ session'[s].family = session[s].family
                          /\ Blank(s)' <=> Blank(s)
                          /\ Blank(s) => session'[s] = session[s]
  BY <1>1, Revoking DEF Blank
<1>3. Live' = {} BY <1>1, Revoking DEF Live
<1>4. TypeOK' BY <1>1, Revoking DEF TypeOK, Row
<1>5. Born'
  <2>1. \A s \in Sessions : ~Blank(s)' => session[s].family \in Sessions
                                            /\ ~Blank(session[s].family)'
    BY <1>1, <1>2 DEF Born, Blank
  <2>2. \A f \in replayed : ~Blank(f)' BY <1>1, <1>2 DEF Born, Blank, TypeOK
  <2> QED BY <1>1, <1>2, <2>1, <2>2 DEF Born, Blank
<1> QED BY <1>3, <1>4, <1>5 DEF IInv, SessionsOfCurrentPassword, TemporaryOnlyChanges, DisabledIsSignedOut,
   OneSessionOfFamily, ReplayEndsFamily

\* A session is opened after those of gone ended; whatever still lives is
\* of the account as it is now, and of another family.
LEMMA OpenedAfter ==
  ASSUME IInv, FreeRows # {}, NEW gone \in SUBSET Sessions, NEW family \in 0 .. MaxSessions,
         account' \in Accounts, account'.active,
         session' = Opened(Revoke(gone), account'.must, family, account'.password),
         gone = Sessions \/ UNCHANGED account,
         family # 0 => /\ family \in Sessions \ replayed /\ ~Blank(family)
                       /\ \A s \in Live \ gone : session[s].family # family,
         logins' \subseteq logins, requests' \subseteq requests, UNCHANGED replayed
  PROVE  IInv'
<1> DEFINE rows == Revoke(gone)
<1>1. TypeOK /\ Born BY DEF IInv
<1>2. rows \in [Sessions -> Row] /\ account'.must \in BOOLEAN
        /\ account'.password \in 0 .. MaxVersion
  BY <1>1, Revoking DEF Accounts, Versions
<1> HIDE DEF rows
<1>3. PICK n \in FreeRows :
        /\ session' = [rows EXCEPT ![n] = [status |-> "LIVE", restricted |-> account'.must,
             password |-> account'.password, family |-> IF family = 0 THEN n ELSE family]]
        /\ session' \in [Sessions -> Row]
  <2>1. PICK m \in BOOLEAN, p \in 0 .. MaxVersion : m = account'.must /\ p = account'.password  BY <1>2
  <2>2. session' = Opened(rows, m, family, p) BY <2>1 DEF rows
  <2>3. PICK n \in FreeRows :
          /\ Opened(rows, m, family, p) =
               [rows EXCEPT ![n] = [status |-> "LIVE", restricted |-> m, password |-> p,
                  family |-> IF family = 0 THEN n ELSE family]]
          /\ Opened(rows, m, family, p) \in [Sessions -> Row]
    BY <1>1, <1>2, Opening
  <2> QED BY <2>1, <2>2, <2>3
<1>4. n \in Sessions /\ Blank(n) BY DEF FreeRows, Blank, NoSession
<1>5. \A s \in Sessions \ {n} :
        /\ s \in Live' <=> s \in Live /\ s \notin gone
        /\ session'[s].family = session[s].family
        /\ session'[s].restricted = session[s].restricted
        /\ session'[s].password = session[s].password
        /\ Blank(s)' <=> Blank(s)
        /\ Blank(s) => session'[s] = session[s]
  BY <1>1, <1>2, <1>3, <1>4, Revoking DEF Live, Blank, rows
<1>6. /\ session'[n].family = IF family = 0 THEN n ELSE family
      /\ session'[n].restricted = account'.must
      /\ session'[n].password = account'.password
      /\ ~Blank(n)'
  BY <1>2, <1>3, <1>4 DEF Blank
<1>7. \A s \in Live : ~Blank(s) BY DEF Live, Blank
<1>8. TypeOK' BY <1>1, <1>3 DEF TypeOK, Row
<1>9. Born'
  <2>1. \A s \in Sessions : ~Blank(s)' => session'[s].family \in Sessions
                                            /\ ~Blank(session[s].family)'
    BY <1>1, <1>4, <1>5, <1>6 DEF Born, Blank
  <2>2. \A s \in Sessions : Blank(s)' => session'[s] = NoSession BY <1>1, <1>5, <1>6 DEF Born
  <2>3. \A f \in replayed : ~Blank(f)' BY <1>1, <1>5, <1>6 DEF Born, Blank, TypeOK
  <2> QED BY <2>1, <2>2, <2>3 DEF Born, Blank
<1>10. SessionsOfCurrentPassword' /\ TemporaryOnlyChanges' /\ DisabledIsSignedOut'
  <2>1. \A s \in Live' : s \in Sessions BY DEF Live
  <2>2. \A s \in Live' \ {n} : s \in Live /\ UNCHANGED account BY <1>5, <2>1
  <2> QED BY <1>5, <1>6, <2>1, <2>2 DEF IInv, SessionsOfCurrentPassword, TemporaryOnlyChanges,
     DisabledIsSignedOut
<1>11. \A s \in Live' \ {n} : /\ s \in Sessions /\ s \in Live \ gone
                              /\ session'[s].family = session[s].family
                              /\ session[s].family # session'[n].family
  <2>1. SUFFICES ASSUME NEW s \in Live' \ {n}
                 PROVE  /\ s \in Sessions /\ s \in Live \ gone
                        /\ session'[s].family = session[s].family
                        /\ session[s].family # session'[n].family
    OBVIOUS
  <2>2. s \in Sessions /\ s \in Live \ gone /\ session'[s].family = session[s].family  BY <1>5 DEF Live
  <2>3. ~Blank(session[s].family) BY <1>1, <1>7, <2>2 DEF Born
  <2> QED BY <1>4, <1>6, <2>2, <2>3
<1>12. OneSessionOfFamily' BY <1>11 DEF IInv, OneSessionOfFamily
<1>13. ReplayEndsFamily'
  <2>1. \A s \in Live' \ {n} : session'[s].family \notin replayed  BY <1>11 DEF IInv, ReplayEndsFamily
  <2>2. session'[n].family \notin replayed BY <1>1, <1>4, <1>6 DEF Born
  <2> QED BY <2>1, <2>2 DEF ReplayEndsFamily
<1> QED BY <1>8, <1>9, <1>10, <1>12, <1>13 DEF IInv

--------------------------------
\* Every step preserves the invariant.
LEMMA NextIInv == IInv /\ [Next]_vars => IInv'
<1> SUFFICES ASSUME IInv, [Next]_vars PROVE IInv'
  OBVIOUS
<1> USE DEF MayChange, Changed
<1>0. /\ TypeOK /\ Born
      /\ account \in Accounts
      /\ logins \subseteq Accounts /\ requests \subseteq Sessions \X Versions
      /\ account.version \in Versions
      /\ account.version < MaxVersion => account.version + 1 \in Versions
  BY DEF IInv, TypeOK, Accounts, Versions
<1>1. CASE UNCHANGED vars
  <2>1. /\ UNCHANGED <<account, session, replayed>>
        /\ logins' \subseteq logins \union {account}
        /\ requests' \subseteq Sessions \X Versions
    BY <1>0, <1>1 DEF vars
  <2> QED BY <2>1, Seen
<1>2. CASE VerifyLogin BY <1>0, <1>2, Seen DEF VerifyLogin
<1>3. ASSUME NEW l \in logins, Login(l) PROVE IInv'
  <2>1. session' = Opened(Revoke({}), account'.must, 0, account'.password)
    <3>1. Revoke({}) = session BY <1>0 DEF TypeOK, Revoke
    <3>2. session' = Opened(session, account'.must, 0, account'.password)  BY <1>3 DEF Login, SawThis
    <3> QED BY <3>1, <3>2
  <2>2. /\ FreeRows # {} /\ account' \in Accounts /\ account'.active
        /\ UNCHANGED <<account, requests, replayed>> /\ logins' \subseteq logins
    BY <1>0, <1>3 DEF Login, SawThis
  <2>3. {} \in SUBSET Sessions /\ 0 \in 0 .. MaxSessions
    OBVIOUS
  <2> QED BY <2>1, <2>2, <2>3, OpenedAfter
<1>4. ASSUME NEW s \in Sessions, Authenticate(s) PROVE IInv'
  BY <1>0, <1>4, Seen DEF Authenticate
<1>5. ASSUME NEW s \in Sessions, SessionLapses(s) PROVE IInv'
  <2>1. /\ session' \in [Sessions -> Row] /\ Live' = Live \ {s}
        /\ \A q \in Sessions : /\ session'[q].family = session[q].family
                               /\ session'[q].restricted = session[q].restricted
                               /\ session'[q].password = session[q].password
                               /\ Blank(q)' <=> Blank(q)
                               /\ Blank(q) => session'[q] = session[q]
    BY <1>0, <1>5 DEF SessionLapses, TypeOK, Row, Live, Blank
  <2>2. UNCHANGED <<account, logins, requests, replayed>> BY <1>5 DEF SessionLapses
  <2>3. TypeOK' BY <1>0, <2>1, <2>2 DEF TypeOK, Row
  <2>4. Born'
    <3>1. \A q \in Sessions : ~Blank(q)' => session[q].family \in Sessions
                                              /\ ~Blank(session[q].family)'
      BY <1>0, <2>1 DEF Born, Blank
    <3>2. \A f \in replayed : ~Blank(f)' BY <1>0, <2>1 DEF Born, Blank, TypeOK
    <3> QED BY <1>0, <2>1, <2>2, <3>1, <3>2 DEF Born, Blank
  <2>5. SessionsOfCurrentPassword' /\ TemporaryOnlyChanges' /\ DisabledIsSignedOut'
    BY <2>1, <2>2 DEF IInv, SessionsOfCurrentPassword, TemporaryOnlyChanges, DisabledIsSignedOut, Live
  <2>6. OneSessionOfFamily' /\ ReplayEndsFamily'
    BY <2>1, <2>2 DEF IInv, OneSessionOfFamily, ReplayEndsFamily, Live
  <2> QED BY <2>3, <2>4, <2>5, <2>6 DEF IInv
<1>6. ASSUME NEW s \in Sessions, Refresh(s) PROVE IInv'
  <2>1. s \in Live /\ ~Blank(s) /\ account' = account /\ account.must = FALSE
    BY <1>0, <1>6 DEF Refresh, Live, Blank, Accounts
  <2>2. session[s].password = account.password BY <2>1 DEF IInv, SessionsOfCurrentPassword
  <2>3. session' = Opened(Revoke({s}), account'.must, session[s].family, account'.password)
    BY <1>6, <2>1, <2>2 DEF Refresh
  <2>4. session[s].family \in Sessions \ replayed /\ ~Blank(session[s].family)
    BY <1>0, <2>1 DEF IInv, Born, ReplayEndsFamily
  <2>5. \A q \in Live \ {s} : session[q].family # session[s].family  BY <2>1 DEF IInv, OneSessionOfFamily
  <2>6. /\ FreeRows # {} /\ account' \in Accounts /\ account'.active
        /\ UNCHANGED <<account, logins, requests, replayed>>
    BY <1>0, <1>6 DEF Refresh
  <2>7. {s} \in SUBSET Sessions /\ session[s].family \in 0 .. MaxSessions BY <2>4 DEF Sessions
  <2> QED BY <2>3, <2>4, <2>5, <2>6, <2>7, OpenedAfter
<1>7. ASSUME NEW s \in Sessions, ReplayRefresh(s) PROVE IInv'
  BY <1>7, Ended DEF ReplayRefresh, HasToken, Blank
<1>8. ASSUME NEW s \in Sessions, RefuseRefresh(s) PROVE IInv'
  BY <1>8, Ended DEF RefuseRefresh
<1>9. ASSUME NEW r \in requests, Logout(r) PROVE IInv'
  BY <1>9, Ended DEF Logout
<1>10. ASSUME NEW r \in requests, LogoutAll(r) PROVE IInv'
  BY <1>0, <1>10, SignedOut DEF LogoutAll, Accounts
<1>11. ASSUME NEW r \in requests, ChangePassword(r) PROVE IInv'
  BY <1>0, <1>11, SignedOut DEF ChangePassword, Accounts
<1>12. ASSUME NEW r \in requests, ChangeTemporaryPassword(r) PROVE IInv'
  <2>1. /\ account' \in Accounts /\ account'.active /\ account'.must = FALSE
    BY <1>0, <1>12 DEF ChangeTemporaryPassword, Usable, Accounts
  <2>2. session' = Opened(Revoke(Sessions), account'.must, 0, account'.password)
    BY <1>12, <2>1 DEF ChangeTemporaryPassword
  <2>3. /\ FreeRows # {} /\ UNCHANGED <<logins, replayed>> /\ requests' \subseteq requests
        /\ Sessions \in SUBSET Sessions /\ 0 \in 0 .. MaxSessions
    BY <1>12 DEF ChangeTemporaryPassword
  <2> QED BY <2>1, <2>2, <2>3, OpenedAfter
<1>13. CASE DisableAgent BY <1>0, <1>13, SignedOut DEF DisableAgent, Accounts
<1>14. CASE ReactivateAgent
  <2>1. Live = {} BY <1>14 DEF ReactivateAgent, IInv, DisabledIsSignedOut
  <2>2. account' \in Accounts /\ UNCHANGED <<session, logins, requests, replayed>>
    BY <1>0, <1>14 DEF ReactivateAgent, Accounts
  <2>3. Live' = {} BY <2>1, <2>2 DEF Live
  <2>4. TypeOK' /\ Born' BY <1>0, <2>2 DEF TypeOK, Born, Blank
  <2> QED BY <2>3, <2>4 DEF IInv, SessionsOfCurrentPassword, TemporaryOnlyChanges, DisabledIsSignedOut,
     OneSessionOfFamily, ReplayEndsFamily
<1>15. CASE ResetAgentPassword BY <1>0, <1>15, SignedOut DEF ResetAgentPassword, Accounts
<1> QED BY <1>1, <1>2, <1>3, <1>4, <1>5, <1>6, <1>7, <1>8, <1>9, <1>10, <1>11, <1>12, <1>13, <1>14, <1>15
   DEF Next

THEOREM Inductive == Spec => []IInv
BY InitIInv, NextIInv, PTL DEF Spec

\* Every reachable state of every size is well typed.
THEOREM Typed == Spec => []TypeOK
BY Inductive, PTL DEF IInv

\* Whoever is signed in proved the password the account has now
\* (agent-auth.repository.ts fences logins and changes by the version).
THEOREM CurrentPassword == Spec => []SessionsOfCurrentPassword
BY Inductive, PTL DEF IInv

\* A temporary password opens sessions that only replace it, and none of
\* them outlives the replacement.
THEOREM TemporaryReplaced == Spec => []TemporaryOnlyChanges
BY Inductive, PTL DEF IInv

\* A disabled agent is signed out in the database itself.
THEOREM SignedOutWhenDisabled == Spec => []DisabledIsSignedOut
BY Inductive, PTL DEF IInv

\* A family of refresh tokens has one live session.
THEOREM FamilyHasOneSession == Spec => []OneSessionOfFamily
BY Inductive, PTL DEF IInv

\* A refresh token that is presented twice ends its family for good.
THEOREM ReplayEnds == Spec => []ReplayEndsFamily
BY Inductive, PTL DEF IInv

\* All of it together: every session of an agent is one the account
\* stands for now.
THEOREM Sound == Spec => []SessionsAreSound
BY Inductive, PTL DEF IInv, SessionsAreSound

HIDE AgentSessionsAssumption

--------------------------------
\* Whose customer somebody is, for any number of agents, customers, codes,
\* candidates and bindings.  A decided candidate and a rotated code are
\* never touched again (CandidatesRight, InvitesRight), which keeps what
\* was cut from being confirmed; what a customer has at most one of is
\* ended by the step that gives another.

\* The operators of the libraries, as the instance names them.
LEMMA AgencyPlain ==
  /\ \A S : Agency!IsFiniteSet(S) = IsFiniteSet(S)
  /\ \A S : Agency!Cardinality(S) = Cardinality(S)
<1>1. \A S : Agency!IsFiniteSet(S) = IsFiniteSet(S) BY DEF Agency!IsFiniteSet, IsFiniteSet
<1>2. \A S : Agency!Cardinality(S) = Cardinality(S) BY DEF Agency!Cardinality, Cardinality
<1> QED BY <1>1, <1>2

LEMMA AgencyFS_EmptySet ==
  /\ Agency!IsFiniteSet({}) /\ Agency!Cardinality({}) = 0
  /\ \A S : Agency!IsFiniteSet(S) => (Agency!Cardinality(S) = 0 <=> S = {})
BY FS_EmptySet, AgencyPlain

LEMMA AgencyFS_Singleton ==
  /\ \A e : Agency!IsFiniteSet({e}) /\ Agency!Cardinality({e}) = 1
  /\ \A S : Agency!IsFiniteSet(S) => (Agency!Cardinality(S) = 1 <=> \E e : S = {e})
BY FS_Singleton, AgencyPlain

AgencyGiven == Agency!AttributionAssumption

AgencyInviteRow == [agent: SUBSET Agents, expired: BOOLEAN, status: {"NONE", "ACTIVE", "DISABLED", "ROTATED"}]
AgencyEnds == {"CONFIRMED", "REJECTED", "EXPIRED", "INVALIDATED"}
AgencyCandidateRow == [material: SUBSET Agency!Materials, customer: SUBSET Customers, expired: BOOLEAN,
                 status: {"NONE", "ACTIVE"} \union AgencyEnds]
AgencyBindingRow == [customer: SUBSET Customers, agent: SUBSET Agents, ended: BOOLEAN]
AgencyOrderRow == [status: {"NONE", "SUBMITTED", "PAID"}, agent: SUBSET Agents,
             binding: 0 .. MaxBindings, final: SUBSET Agents]

\* An agent has at most one code that is not rotated; a code keeps its agent.
AgencyInvitesRight ==
    /\ invite \in [Agency!Invites -> AgencyInviteRow]
    /\ \A i \in Agency!Invites :
          /\ \A a, b \in invite[i].agent : a = b
          /\ invite[i].status = "NONE" => invite[i] = Agency!NoInvite
    /\ \A a \in Agents : \A i, j \in Agency!Mutable(a) : i = j

AgencyMaterialsRight ==
    /\ enabled \subseteq Agents /\ authorized \subseteq Agents
    /\ draft \in [Agents -> SUBSET Agency!Materials]
    /\ material \in [Agency!Materials -> {"NONE", "ACTIVE", "EXPIRED"}]

\* A candidate is of one material; what was cut is invalidated for good.
AgencyCandidatesRight ==
    /\ candidate \in [Agency!Candidates -> AgencyCandidateRow]
    /\ \A k \in Agency!Candidates : \A m, n \in candidate[k].material : m = n
    /\ \A c \in Customers : \A k, l \in Agency!ActiveOf(c) : k = l
    /\ cut \subseteq Agency!Candidates
    /\ \A k \in cut : candidate[k].status = "INVALIDATED"

\* A binding is of one agent, and of one customer until it ends.
AgencyBindingsRight ==
    /\ binding \in [Agency!Bindings -> AgencyBindingRow]
    /\ \A b \in Agency!Bindings : \A a, d \in binding[b].agent : a = d
    /\ \A c \in Customers : \A b, d \in Agency!CurrentBindings(c) : b = d

AgencyDeletedRight ==
    /\ deleted \subseteq Customers
    /\ \A c \in deleted : Agency!CurrentBindings(c) = {} /\ Agency!ActiveOf(c) = {}

\* An order was submitted under the binding it names.
AgencyOrdersRight ==
    /\ order \in [Customers -> AgencyOrderRow]
    /\ Agency!SettledWithSubmitter

AgencyInv == AgencyInvitesRight /\ AgencyMaterialsRight /\ AgencyCandidatesRight /\ AgencyBindingsRight
   /\ AgencyDeletedRight /\ AgencyOrdersRight

LEMMA AgencyNumbers ==
  ASSUME AgencyGiven
  PROVE  /\ MaxInvites \in Nat /\ MaxCandidates \in Nat /\ MaxBindings \in Nat
         /\ Agency!Invites \subseteq Nat \ {0} /\ Agency!Candidates \subseteq Nat \ {0}
             /\ Agency!Bindings \subseteq Nat \ {0}
BY DEF AgencyGiven, Agency!AttributionAssumption, Agency!Invites, Agency!Candidates, Agency!Bindings

\* A nonempty set of numbers has a least member.
LEMMA AgencyHasLeast ==
  ASSUME NEW T \in SUBSET Nat, T # {}
  PROVE  \E m \in T : \A n \in T : m <= n
<1> DEFINE R == OpToRel(<, Nat)
<1>1. IsWellFoundedOn(R, Nat) BY NatLessThanWellFounded
<1> HIDE DEF R
<1>2. PICK m \in T : \A n \in T : ~(<<n, m>> \in R) BY <1>1, WFMin
<1>3. R = {pair \in Nat \X Nat : pair[1] < pair[2]} BY Zenon DEF R, OpToRel
<1>4. ASSUME NEW n \in T PROVE m <= n
  <2>1. m \in Nat /\ n \in Nat
    OBVIOUS
  <2>2. <<n, m>> \notin R BY <1>2
  <2>3. ~(n < m) BY <1>3, <2>1, <2>2
  <2> QED BY <2>1, <2>3
<1> QED BY <1>4

LEMMA AgencyLeast ==
  ASSUME NEW T \in SUBSET Nat, T # {}
  PROVE  Agency!Min(T) \in T
BY AgencyHasLeast DEF Agency!Min

\* A nonempty set of numbers with a bound has a greatest member.
LEMMA AgencyGreatest ==
  ASSUME NEW n \in Nat, NEW T \in SUBSET (1 .. n), T # {}
  PROVE  Agency!Max(T) \in T
<1> DEFINE D == {n - t : t \in T}
<1>1. D \in SUBSET Nat /\ D # {}
  <2>1. ASSUME NEW t \in T PROVE n - t \in Nat
    OBVIOUS
  <2>2. D \in SUBSET Nat BY <2>1
  <2> QED BY <2>2
<1>2. \A d \in D : \E t \in T : d = n - t
  OBVIOUS
<1>3. \A t \in T : n - t \in D
  OBVIOUS
<1> HIDE DEF D
<1>4. PICK d \in D : \A e \in D : d <= e BY <1>1, AgencyHasLeast
<1>5. PICK t \in T : d = n - t BY <1>2
<1>6. \A u \in T : t >= u BY <1>3, <1>4, <1>5
<1> QED BY <1>5, <1>6 DEF Agency!Max

\* The first free row of each table.
LEMMA AgencyFreeRow ==
  ASSUME AgencyGiven
  PROVE  /\ Agency!FreeInvites # {} => Agency!Min(Agency!FreeInvites) \in Agency!Invites
             /\ invite[Agency!Min(Agency!FreeInvites)] = Agency!NoInvite
         /\ Agency!FreeCandidates # {} => Agency!Min(Agency!FreeCandidates) \in Agency!Candidates
                                   /\ candidate[Agency!Min(Agency!FreeCandidates)] = Agency!NoCandidate
         /\ Agency!FreeBindings # {} => Agency!Min(Agency!FreeBindings) \in Agency!Bindings
             /\ binding[Agency!Min(Agency!FreeBindings)] = Agency!NoBinding
<1>1. Agency!FreeInvites \in SUBSET Nat /\ Agency!FreeCandidates \in SUBSET Nat
   /\ Agency!FreeBindings \in SUBSET Nat
  BY AgencyNumbers DEF Agency!FreeInvites, Agency!FreeCandidates, Agency!FreeBindings
<1>2. Agency!FreeInvites # {} => Agency!Min(Agency!FreeInvites) \in Agency!FreeInvites  BY <1>1, AgencyLeast
<1>3. Agency!FreeCandidates # {} => Agency!Min(Agency!FreeCandidates) \in Agency!FreeCandidates
  BY <1>1, AgencyLeast
<1>4. Agency!FreeBindings # {} => Agency!Min(Agency!FreeBindings) \in Agency!FreeBindings
  BY <1>1, AgencyLeast
<1> QED BY <1>2, <1>3, <1>4 DEF Agency!FreeInvites, Agency!FreeCandidates, Agency!FreeBindings

LEMMA AgencyInitially ==
  ASSUME AgencyGiven, Agency!Init
  PROVE  AgencyInv
<1>1. Agency!NoInvite \in AgencyInviteRow /\ Agency!NoCandidate \in AgencyCandidateRow
   /\ Agency!NoBinding \in AgencyBindingRow
  BY DEF Agency!NoInvite, AgencyInviteRow, Agency!NoCandidate, AgencyCandidateRow, Agency!NoBinding,
     AgencyBindingRow
<1>2. Agency!NoOrder \in AgencyOrderRow BY AgencyNumbers DEF Agency!NoOrder, AgencyOrderRow
<1>3. AgencyInvitesRight /\ AgencyMaterialsRight
  BY <1>1 DEF Agency!Init, AgencyInvitesRight, AgencyMaterialsRight, Agency!Mutable, Agency!InvitesOf,
     Agency!NoInvite
<1>4. AgencyCandidatesRight
  BY <1>1 DEF Agency!Init, AgencyCandidatesRight, Agency!ActiveOf, Agency!NoCandidate
<1>5. AgencyBindingsRight
  BY <1>1 DEF Agency!Init, AgencyBindingsRight, Agency!CurrentBindings, Agency!NoBinding
<1>6. AgencyDeletedRight /\ AgencyOrdersRight
  BY <1>2 DEF Agency!Init, AgencyDeletedRight, AgencyOrdersRight, Agency!SettledWithSubmitter, Agency!NoOrder
<1> QED BY <1>3, <1>4, <1>5, <1>6 DEF AgencyInv

--------------------------------
\* The parts that a step does not touch.

LEMMA AgencyAgentsStay ==
  ASSUME AgencyGiven, AgencyInv, UNCHANGED Agency!agents
  PROVE  AgencyInvitesRight' /\ AgencyMaterialsRight'
<1>1. UNCHANGED <<enabled, authorized, invite, draft, material>> BY DEF Agency!agents
<1>2. \A a : Agency!Mutable(a)' = Agency!Mutable(a) BY <1>1 DEF Agency!Mutable, Agency!InvitesOf
<1> QED BY <1>1, <1>2 DEF AgencyInv, AgencyInvitesRight, AgencyMaterialsRight

LEMMA AgencyBindingsStay ==
  ASSUME AgencyGiven, AgencyInv, UNCHANGED <<binding, order>>
  PROVE  AgencyBindingsRight' /\ AgencyOrdersRight'
<1>1. \A c : Agency!CurrentBindings(c)' = Agency!CurrentBindings(c) BY DEF Agency!CurrentBindings
<1> QED BY <1>1 DEF AgencyInv, AgencyBindingsRight, AgencyOrdersRight, Agency!SettledWithSubmitter

\* Nothing becomes a candidate of anybody, and nothing is bound.
LEMMA AgencyDeletedStay ==
  ASSUME AgencyGiven, AgencyInv, UNCHANGED <<binding, deleted>>,
         \A c \in Customers : Agency!ActiveOf(c)' \subseteq Agency!ActiveOf(c)
  PROVE  AgencyDeletedRight'
<1>1. \A c : Agency!CurrentBindings(c)' = Agency!CurrentBindings(c) BY DEF Agency!CurrentBindings
<1> QED BY <1>1 DEF AgencyInv, AgencyDeletedRight

LEMMA AgencyCandidatesStay ==
  ASSUME AgencyGiven, AgencyInv, UNCHANGED <<candidate, cut>>
  PROVE  AgencyCandidatesRight' /\ \A c : Agency!ActiveOf(c)' = Agency!ActiveOf(c)
<1>1. \A c : Agency!ActiveOf(c)' = Agency!ActiveOf(c) BY DEF Agency!ActiveOf
<1> QED BY <1>1 DEF AgencyInv, AgencyCandidatesRight

\* Candidates that wait end.
LEMMA AgencyCandidatesEnd ==
  ASSUME AgencyGiven, AgencyInv, NEW ks \in SUBSET Agency!Candidates, NEW status \in AgencyEnds,
         \A k \in ks : candidate[k].status = "ACTIVE",
         candidate' = Agency!Ended(ks, status),
         cut' = cut \/ (cut' = cut \union ks /\ status = "INVALIDATED")
  PROVE  /\ AgencyCandidatesRight'
         /\ \A c \in Customers : Agency!ActiveOf(c)' = Agency!ActiveOf(c) \ ks
<1>1. candidate \in [Agency!Candidates -> AgencyCandidateRow]  BY DEF AgencyInv, AgencyCandidatesRight
<1>2. ASSUME NEW k \in ks
      PROVE  /\ candidate'[k] = [candidate[k] EXCEPT !.status = status]
             /\ candidate'[k] \in AgencyCandidateRow /\ candidate'[k].status = status
             /\ candidate'[k].material = candidate[k].material
  BY <1>1 DEF Agency!Ended, AgencyCandidateRow
<1>3. \A k \in Agency!Candidates \ ks : candidate'[k] = candidate[k] BY DEF Agency!Ended
<1>4. candidate' \in [Agency!Candidates -> AgencyCandidateRow] BY <1>1, <1>2, <1>3 DEF Agency!Ended
<1>5. \A k \in Agency!Candidates : candidate'[k].material = candidate[k].material BY <1>2, <1>3
<1>6. ASSUME NEW c \in Customers PROVE Agency!ActiveOf(c)' = Agency!ActiveOf(c) \ ks
  <2>1. \A k \in ks : k \notin Agency!ActiveOf(c)' BY <1>2 DEF Agency!ActiveOf, AgencyEnds
  <2>2. \A k \in Agency!Candidates \ ks : k \in Agency!ActiveOf(c)' <=> k \in Agency!ActiveOf(c)
    BY <1>3 DEF Agency!ActiveOf
  <2> QED BY <2>1, <2>2 DEF Agency!ActiveOf
<1>7. cut' \subseteq Agency!Candidates /\ \A k \in cut' : candidate'[k].status = "INVALIDATED"
  BY <1>2, <1>3 DEF AgencyInv, AgencyCandidatesRight
<1> QED BY <1>4, <1>5, <1>6, <1>7 DEF AgencyInv, AgencyCandidatesRight

--------------------------------
\* Agents and their codes.

LEMMA AgencyCutOf ==
  ASSUME NEW a, NEW i
  PROVE  /\ Agency!CandidatesOfInvite(i) \subseteq Agency!Candidates
         /\ \A k \in Agency!CandidatesOfInvite(i) : candidate[k].status = "ACTIVE"
         /\ Agency!CandidatesOf(LAMBDA j : j = i) = Agency!CandidatesOfInvite(i)
BY DEF Agency!CandidatesOfInvite, Agency!CandidatesOf, Agency!Current

LEMMA AgencyCutOfAgent ==
  ASSUME NEW a, candidate \in [Agency!Candidates -> AgencyCandidateRow]
  PROVE  /\ Agency!CandidatesOfAgent(a) \subseteq Agency!Candidates
         /\ \A k \in Agency!CandidatesOfAgent(a) : candidate[k].status = "ACTIVE"
         /\ Agency!CandidatesOf(LAMBDA j : invite[j].agent = {a}) = Agency!CandidatesOfAgent(a)
<1>1. \A k \in Agency!Candidates : \A m \in candidate[k].material : m[1] \in Agency!Invites
  BY DEF AgencyCandidateRow, Agency!Materials
<1> QED BY <1>1 DEF Agency!CandidatesOfAgent, Agency!CandidatesOf, Agency!Current, Agency!InvitesOf

LEMMA AgencyCreateAgentInv == ASSUME AgencyGiven, AgencyInv, NEW a \in Agents, Agency!CreateAgent(a) PROVE AgencyInv'
<1>1. PICK f \in Agency!Invites : f = Agency!Min(Agency!FreeInvites) /\ invite[f] = Agency!NoInvite
  BY AgencyFreeRow DEF Agency!CreateAgent
<1>2. /\ Agency!InvitesOf(a) = {} /\ enabled' = enabled \union {a}
      /\ invite' = [invite EXCEPT ![f] = [agent |-> {a}, status |-> "ACTIVE", expired |-> FALSE]]
      /\ UNCHANGED <<authorized, draft, material, candidate, binding, deleted, order, cut>>
  BY <1>1 DEF Agency!CreateAgent
<1>3. AgencyInvitesRight'
  <2>1. invite \in [Agency!Invites -> AgencyInviteRow] BY DEF AgencyInv, AgencyInvitesRight
  <2>2. invite' \in [Agency!Invites -> AgencyInviteRow] BY <1>2, <2>1 DEF AgencyInviteRow
  <2>3. \A i \in Agency!Invites : invite'[i] = IF i = f THEN [agent |-> {a}, status |-> "ACTIVE", expired |-> FALSE] ELSE invite[i]
    BY <1>2, <2>1
  <2>4. ASSUME NEW d \in Agents, NEW i \in Agency!Mutable(d)', NEW j \in Agency!Mutable(d)' PROVE i = j
    BY <1>2, <2>3 DEF AgencyInv, AgencyInvitesRight, Agency!Mutable, Agency!InvitesOf
  <2> QED BY <2>2, <2>3, <2>4 DEF AgencyInv, AgencyInvitesRight
<1>4. AgencyMaterialsRight' BY <1>2 DEF AgencyInv, AgencyMaterialsRight
<1> QED BY <1>2, <1>3, <1>4, AgencyCandidatesStay, AgencyBindingsStay, AgencyDeletedStay DEF AgencyInv

LEMMA AgencyRotateInviteInv == ASSUME AgencyGiven, AgencyInv, NEW a \in Agents, Agency!RotateInvite(a) PROVE AgencyInv'
<1>1. PICK f \in Agency!Invites : f = Agency!Min(Agency!FreeInvites) /\ invite[f] = Agency!NoInvite
  BY AgencyFreeRow DEF Agency!RotateInvite
<1>2. PICK i \in Agency!Manageable(a) :
        /\ Agency!InvitesOf(a) # {}
        /\ invite' = [invite EXCEPT
                ![i].status = IF @ \in {"ACTIVE", "DISABLED"} THEN "ROTATED" ELSE @,
                ![f] = [agent |-> {a}, status |-> "ACTIVE", expired |-> FALSE]]
        /\ candidate' = Agency!Ended(Agency!CandidatesOfInvite(i), "INVALIDATED")
        /\ cut' = cut \union Agency!CandidatesOfInvite(i)
        /\ UNCHANGED <<enabled, authorized, draft, material, binding, deleted, order>>
  BY <1>1 DEF Agency!RotateInvite
<1>3. i \in Agency!InvitesOf(a) /\ (Agency!Mutable(a) # {} => i \in Agency!Mutable(a)) /\ i \in Agency!Invites
   /\ invite[i].agent = {a} /\ i # f
  <2>1. Agency!Max(Agency!InvitesOf(a)) \in Agency!InvitesOf(a)
    BY <1>2, AgencyNumbers, AgencyGreatest DEF Agency!InvitesOf, Agency!Invites
  <2>2. i \in Agency!InvitesOf(a) /\ (Agency!Mutable(a) # {} => i \in Agency!Mutable(a))
    BY <1>2, <2>1 DEF Agency!Manageable, Agency!Mutable
  <2> QED BY <1>1, <2>2 DEF Agency!InvitesOf, Agency!NoInvite
<1>4. AgencyInvitesRight'
  <2>1. invite \in [Agency!Invites -> AgencyInviteRow] BY DEF AgencyInv, AgencyInvitesRight
  <2>2. PICK row \in AgencyInviteRow : /\ row = [invite[i] EXCEPT !.status = IF @ \in {"ACTIVE", "DISABLED"} THEN "ROTATED" ELSE @]
                                       /\ row.agent = {a} /\ row.status = IF invite[i].status \in {"ACTIVE", "DISABLED"} THEN "ROTATED" ELSE invite[i].status
    <3>1. invite[i] \in AgencyInviteRow BY <1>3, <2>1
    <3>2. PICK row : row = [invite[i] EXCEPT !.status = IF @ \in {"ACTIVE", "DISABLED"} THEN "ROTATED" ELSE @]
      OBVIOUS
    <3>3. /\ row.agent = {a} /\ row.expired \in BOOLEAN
          /\ row.status = IF invite[i].status \in {"ACTIVE", "DISABLED"} THEN "ROTATED" ELSE invite[i].status
      BY <1>3, <3>1, <3>2 DEF AgencyInviteRow
    <3>4. row \in AgencyInviteRow BY <3>1, <3>2 DEF AgencyInviteRow
    <3> QED BY <3>2, <3>3, <3>4
  <2>3. \A j \in Agency!Invites : invite'[j] = IF j = f THEN [agent |-> {a}, status |-> "ACTIVE", expired |-> FALSE]
                                        ELSE IF j = i THEN row ELSE invite[j]
    BY <1>2, <1>3, <2>1, <2>2
  <2>4. invite' \in [Agency!Invites -> AgencyInviteRow]  BY <1>2, <2>1, <2>2, <2>3 DEF AgencyInviteRow
  <2>5. invite[i].status # "NONE" BY <1>3 DEF AgencyInv, AgencyInvitesRight, Agency!NoInvite
  <2>6. row.status \notin {"NONE", "ACTIVE", "DISABLED"}  BY <1>3, <2>1, <2>2, <2>5 DEF AgencyInviteRow
  <2>7. ASSUME NEW d \in Agents, NEW j \in Agency!Mutable(d)', NEW k \in Agency!Mutable(d)' PROVE j = k
    <3>1. j # i /\ k # i BY <1>3, <2>3, <2>6 DEF Agency!Mutable, Agency!InvitesOf
    <3>2. CASE d # a  BY <2>3, <3>1, <3>2 DEF AgencyInv, AgencyInvitesRight, Agency!Mutable, Agency!InvitesOf
    <3>3. CASE d = a
      <4>1. \A l \in Agency!Mutable(a) : l = i BY <1>3 DEF AgencyInv, AgencyInvitesRight
      <4> QED BY <2>3, <3>1, <3>3, <4>1 DEF Agency!Mutable, Agency!InvitesOf
    <3> QED BY <3>2, <3>3
  <2>8. ASSUME NEW j \in Agency!Invites
        PROVE  (\A b, d \in invite'[j].agent : b = d)
           /\ (invite'[j].status = "NONE" => invite'[j] = Agency!NoInvite)
    <3>1. CASE j = f BY <2>3, <3>1
    <3>2. CASE j = i /\ j # f
      <4>1. invite'[j] = row BY <2>3, <3>2
      <4>2. row.agent = {a} /\ row.status # "NONE" BY <2>2, <2>6
      <4> QED BY <4>1, <4>2
    <3>3. CASE j # i /\ j # f BY <2>3, <3>3 DEF AgencyInv, AgencyInvitesRight
    <3> QED BY <3>1, <3>2, <3>3
  <2> QED BY <2>4, <2>7, <2>8 DEF AgencyInvitesRight
<1>5. AgencyMaterialsRight' BY <1>2 DEF AgencyInv, AgencyMaterialsRight
<1>6. AgencyCandidatesRight' /\ \A c \in Customers : Agency!ActiveOf(c)' \subseteq Agency!ActiveOf(c)
  BY <1>2, AgencyCutOf, AgencyCandidatesEnd DEF AgencyEnds
<1> QED BY <1>2, <1>4, <1>5, <1>6, AgencyBindingsStay, AgencyDeletedStay DEF AgencyInv

LEMMA AgencyStatusInv ==
  ASSUME AgencyGiven, AgencyInv, NEW i \in Agency!Invites, NEW row \in AgencyInviteRow,
         invite[i].status \in {"ACTIVE", "DISABLED"}, row.status \in {"ACTIVE", "DISABLED"},
         row.agent = invite[i].agent, invite' = [invite EXCEPT ![i] = row],
         UNCHANGED <<enabled, authorized, draft, material>>
  PROVE  AgencyInvitesRight' /\ AgencyMaterialsRight'
<1>1. invite \in [Agency!Invites -> AgencyInviteRow] BY DEF AgencyInv, AgencyInvitesRight
<1>2. \A j \in Agency!Invites : invite'[j] = IF j = i THEN row ELSE invite[j] BY <1>1
<1>3. \A c \in Agents : Agency!Mutable(c)' = Agency!Mutable(c)  BY <1>2 DEF Agency!Mutable, Agency!InvitesOf
<1>4. ASSUME NEW j \in Agency!Invites
      PROVE  (\A c, d \in invite'[j].agent : c = d)
         /\ (invite'[j].status = "NONE" => invite'[j] = Agency!NoInvite)
  BY <1>2 DEF AgencyInv, AgencyInvitesRight
<1>5. AgencyInvitesRight' BY <1>1, <1>3, <1>4 DEF AgencyInv, AgencyInvitesRight
<1> QED BY <1>5 DEF AgencyInv, AgencyMaterialsRight

LEMMA AgencyDisableInviteInv == ASSUME AgencyGiven, AgencyInv, NEW a \in Agents, Agency!DisableInvite(a) PROVE AgencyInv'
<1>1. PICK i \in Agency!Mutable(a) :
        /\ invite' = [invite EXCEPT ![i].status = "DISABLED"]
        /\ candidate' = Agency!Ended(Agency!CandidatesOfInvite(i), "INVALIDATED")
        /\ cut' = cut \union Agency!CandidatesOf(LAMBDA j : j = i)
        /\ UNCHANGED <<enabled, authorized, draft, material, binding, deleted, order>>
  BY DEF Agency!DisableInvite
<1>2. i \in Agency!Invites /\ invite[i].status \in {"ACTIVE", "DISABLED"} /\ invite[i] \in AgencyInviteRow
  BY DEF Agency!Mutable, Agency!InvitesOf, AgencyInv, AgencyInvitesRight
<1>3. PICK row : row = [invite[i] EXCEPT !.status = "DISABLED"]
  OBVIOUS
<1>4. row \in AgencyInviteRow /\ row.status = "DISABLED" /\ row.agent = invite[i].agent
  BY <1>2, <1>3 DEF AgencyInviteRow
<1>5. invite' = [invite EXCEPT ![i] = row] BY <1>1, <1>3
<1>6. AgencyInvitesRight' /\ AgencyMaterialsRight' BY <1>1, <1>2, <1>4, <1>5, AgencyStatusInv
<1>7. AgencyCandidatesRight' /\ \A c \in Customers : Agency!ActiveOf(c)' \subseteq Agency!ActiveOf(c)
  BY <1>1, AgencyCutOf, AgencyCandidatesEnd DEF AgencyEnds
<1> QED BY <1>1, <1>6, <1>7, AgencyBindingsStay, AgencyDeletedStay DEF AgencyInv

LEMMA AgencyEnableInviteInv == ASSUME AgencyGiven, AgencyInv, NEW a \in Agents, Agency!EnableInvite(a) PROVE AgencyInv'
<1>1. PICK i \in Agency!Mutable(a) :
        /\ invite' = [invite EXCEPT ![i].status = "ACTIVE", ![i].expired = FALSE]
        /\ UNCHANGED <<enabled, authorized, draft, material, candidate, binding, deleted, order, cut>>
  BY DEF Agency!EnableInvite
<1>2. PICK row : row = [invite[i] EXCEPT !.status = "ACTIVE", !.expired = FALSE]
  OBVIOUS
<1>3. i \in Agency!Invites /\ invite[i].status \in {"ACTIVE", "DISABLED"}
  BY DEF Agency!Mutable, Agency!InvitesOf
<1>4. invite' = [invite EXCEPT ![i] = row] BY <1>1, <1>2, <1>3 DEF AgencyInv, AgencyInvitesRight
<1>5. invite[i] \in AgencyInviteRow BY <1>3 DEF AgencyInv, AgencyInvitesRight
<1>6. row \in AgencyInviteRow /\ row.status \in {"ACTIVE", "DISABLED"} /\ row.agent = invite[i].agent
  BY <1>2, <1>3, <1>5 DEF AgencyInviteRow
<1>7. AgencyInvitesRight' /\ AgencyMaterialsRight' BY <1>1, <1>3, <1>4, <1>6, AgencyStatusInv
<1> QED BY <1>1, <1>7, AgencyCandidatesStay, AgencyBindingsStay, AgencyDeletedStay DEF AgencyInv

LEMMA AgencyExpireInviteInv == ASSUME AgencyGiven, AgencyInv, NEW i \in Agency!Invites, Agency!ExpireInvite(i) PROVE AgencyInv'
<1>1. PICK row : row = [invite[i] EXCEPT !.expired = TRUE]
  OBVIOUS
<1>2. invite' = [invite EXCEPT ![i] = row] BY <1>1 DEF Agency!ExpireInvite
<1>3. /\ invite[i].status \in {"ACTIVE", "DISABLED"}
      /\ UNCHANGED <<enabled, authorized, draft, material, candidate, binding, deleted, order, cut>>
  BY DEF Agency!ExpireInvite
<1>4. invite[i] \in AgencyInviteRow BY <1>3 DEF AgencyInv, AgencyInvitesRight
<1>5. row \in AgencyInviteRow /\ row.status \in {"ACTIVE", "DISABLED"} /\ row.agent = invite[i].agent
  BY <1>1, <1>3, <1>4 DEF AgencyInviteRow
<1>6. AgencyInvitesRight' /\ AgencyMaterialsRight' BY <1>3, <1>3, <1>2, <1>5, AgencyStatusInv
<1> QED BY <1>3, <1>6, AgencyCandidatesStay, AgencyBindingsStay, AgencyDeletedStay DEF AgencyInv

LEMMA AgencyDisableAgentInv == ASSUME AgencyGiven, AgencyInv, NEW a \in Agents, Agency!DisableAgent(a) PROVE AgencyInv'
<1>1. /\ enabled' = enabled \ {a}
      /\ candidate' = Agency!Ended(Agency!CandidatesOfAgent(a), "INVALIDATED")
      /\ cut' = cut \union Agency!CandidatesOf(LAMBDA j : invite[j].agent = {a})
      /\ UNCHANGED <<authorized, invite, draft, material, binding, deleted, order>>
  BY DEF Agency!DisableAgent
<1>2. \A c : Agency!Mutable(c)' = Agency!Mutable(c) BY <1>1 DEF Agency!Mutable, Agency!InvitesOf
<1>3. AgencyInvitesRight' /\ AgencyMaterialsRight'
  BY <1>1, <1>2 DEF AgencyInv, AgencyInvitesRight, AgencyMaterialsRight
<1>4. candidate \in [Agency!Candidates -> AgencyCandidateRow]  BY DEF AgencyInv, AgencyCandidatesRight
<1>5. AgencyCandidatesRight' /\ \A c \in Customers : Agency!ActiveOf(c)' \subseteq Agency!ActiveOf(c)
  BY <1>1, <1>4, AgencyCutOfAgent, AgencyCandidatesEnd DEF AgencyEnds
<1> QED BY <1>1, <1>3, <1>5, AgencyBindingsStay, AgencyDeletedStay DEF AgencyInv

\* Agents, products and material change, and no code and no candidate.
LEMMA AgencyMaterialsOnly ==
  ASSUME AgencyGiven, AgencyInv, UNCHANGED <<invite, candidate, binding, deleted, order, cut>>,
         AgencyMaterialsRight'
  PROVE  AgencyInv'
<1>1. \A c : Agency!Mutable(c)' = Agency!Mutable(c) BY DEF Agency!Mutable, Agency!InvitesOf
<1>2. AgencyInvitesRight' BY <1>1 DEF AgencyInv, AgencyInvitesRight
<1> QED BY <1>2, AgencyCandidatesStay, AgencyBindingsStay, AgencyDeletedStay DEF AgencyInv

LEMMA AgencyPromoteInv ==
  ASSUME AgencyGiven, AgencyInv, NEW a \in Agents,
         Agency!ReactivateAgent(a) \/ Agency!ChangeAuthorization(a) \/ Agency!AbandonMaterial(a)
  PROVE  AgencyInv'
<1>1. UNCHANGED <<invite, candidate, binding, deleted, order, cut>>
  BY DEF Agency!ReactivateAgent, Agency!ChangeAuthorization, Agency!AbandonMaterial
<1>2. AgencyMaterialsRight'
  BY DEF AgencyInv, AgencyMaterialsRight, Agency!ReactivateAgent, Agency!ChangeAuthorization,
     Agency!AbandonMaterial
<1> QED BY <1>1, <1>2, AgencyMaterialsOnly

LEMMA AgencyPrepareMaterialInv ==
  ASSUME AgencyGiven, AgencyInv, NEW a \in Agents, NEW t \in Targets, Agency!PrepareMaterial(a, t)
  PROVE  AgencyInv'
<1>1. UNCHANGED <<invite, candidate, binding, deleted, order, cut>> BY DEF Agency!PrepareMaterial
<1>2. AgencyMaterialsRight'
  BY DEF AgencyInv, AgencyMaterialsRight, Agency!PrepareMaterial, Agency!CurrentInvite, Agency!InvitesOf,
     Agency!Materials
<1> QED BY <1>1, <1>2, AgencyMaterialsOnly

LEMMA AgencyCommitMaterialInv ==
  ASSUME AgencyGiven, AgencyInv, NEW m \in Agency!Materials,
         Agency!ExpireMaterial(m) \/ \E a \in Agents : Agency!CommitMaterial(a, m)
  PROVE  AgencyInv'
<1>1. UNCHANGED <<invite, candidate, binding, deleted, order, cut>>
  BY DEF Agency!CommitMaterial, Agency!ExpireMaterial
<1>2. AgencyMaterialsRight'
  BY DEF AgencyInv, AgencyMaterialsRight, Agency!CommitMaterial, Agency!ExpireMaterial
<1> QED BY <1>1, <1>2, AgencyMaterialsOnly

--------------------------------
\* Candidates.

\* A candidate is made, or changes while it waits.
AgencyMoved(k) ==
    \/ candidate'[k] = candidate[k]
    \/ /\ candidate[k] = Agency!NoCandidate
       /\ \E m \in Agency!Materials, cs \in SUBSET Customers : candidate'[k] = Agency!NewCandidate(m, cs)
    \/ /\ candidate[k].status = "ACTIVE"
       /\ candidate'[k] \in AgencyCandidateRow /\ candidate'[k].material = candidate[k].material
       /\ candidate'[k].status # "CONFIRMED"
       /\ candidate[k].customer # {} => candidate'[k].customer = candidate[k].customer

LEMMA AgencyCandidatesMove ==
  ASSUME AgencyGiven, AgencyInv, cut' = cut, DOMAIN candidate' = Agency!Candidates,
         candidate' = [k \in Agency!Candidates |-> candidate'[k]],
         \A k \in Agency!Candidates : AgencyMoved(k),
         \A c \in Customers : \A k, l \in Agency!ActiveOf(c)' : k = l
  PROVE  AgencyCandidatesRight'
<1>1. candidate \in [Agency!Candidates -> AgencyCandidateRow]  BY DEF AgencyInv, AgencyCandidatesRight
<1>2. ASSUME NEW k \in Agency!Candidates
      PROVE  candidate'[k] \in AgencyCandidateRow /\ \A m, n \in candidate'[k].material : m = n
  <2>1. CASE candidate'[k] = candidate[k] BY <1>1, <2>1 DEF AgencyInv, AgencyCandidatesRight
  <2>2. ASSUME NEW m \in Agency!Materials, NEW cs \in SUBSET Customers, candidate'[k] = Agency!NewCandidate(m, cs)
        PROVE  candidate'[k] \in AgencyCandidateRow /\ \A i, n \in candidate'[k].material : i = n
    BY <2>2 DEF Agency!NewCandidate, AgencyCandidateRow
  <2>3. CASE candidate'[k] \in AgencyCandidateRow /\ candidate'[k].material = candidate[k].material
    BY <2>3 DEF AgencyInv, AgencyCandidatesRight
  <2> QED BY <2>1, <2>2, <2>3 DEF AgencyMoved
<1>3. candidate' \in [Agency!Candidates -> AgencyCandidateRow] BY <1>2
<1>4. ASSUME NEW k \in cut PROVE k \in Agency!Candidates /\ candidate'[k].status = "INVALIDATED"
  <2>1. k \in Agency!Candidates /\ candidate[k].status = "INVALIDATED"
    BY DEF AgencyInv, AgencyCandidatesRight
  <2>2. candidate[k] # Agency!NoCandidate BY <2>1 DEF Agency!NoCandidate
  <2> QED BY <2>1, <2>2 DEF AgencyMoved
<1> QED BY <1>2, <1>3, <1>4 DEF AgencyCandidatesRight

\* Candidates that wait end, and nobody decides on them.
LEMMA AgencyEndedMoved ==
  ASSUME AgencyGiven, AgencyInv, NEW ks \in SUBSET Agency!Candidates, NEW status \in AgencyEnds \ {"CONFIRMED"},
         \A k \in ks : candidate[k].status = "ACTIVE", candidate' = Agency!Ended(ks, status)
  PROVE  \A j \in Agency!Candidates : AgencyMoved(j)
<1>1. candidate \in [Agency!Candidates -> AgencyCandidateRow]  BY DEF AgencyInv, AgencyCandidatesRight
<1>2. ASSUME NEW k \in ks
      PROVE  /\ candidate'[k] \in AgencyCandidateRow /\ candidate'[k].material = candidate[k].material
             /\ candidate'[k].customer = candidate[k].customer /\ candidate'[k].status = status
  BY <1>1 DEF Agency!Ended, AgencyCandidateRow
<1>3. \A k \in Agency!Candidates \ ks : candidate'[k] = candidate[k] BY DEF Agency!Ended
<1> QED BY <1>2, <1>3 DEF AgencyMoved

LEMMA AgencyExpireCandidateInv == ASSUME AgencyGiven, AgencyInv, NEW k \in Agency!Candidates, Agency!ExpireCandidate(k) PROVE AgencyInv' /\ \A j \in Agency!Candidates : AgencyMoved(j)
<1>1. candidate \in [Agency!Candidates -> AgencyCandidateRow] /\ candidate[k] \in AgencyCandidateRow
  BY DEF AgencyInv, AgencyCandidatesRight
<1>2. PICK row : row = [candidate[k] EXCEPT !.expired = TRUE]
  OBVIOUS
<1>3. row \in AgencyCandidateRow /\ row.status = candidate[k].status /\ row.customer = candidate[k].customer
      /\ row.material = candidate[k].material
  BY <1>1, <1>2 DEF AgencyCandidateRow
<1>4. candidate' = [candidate EXCEPT ![k] = row] /\ candidate[k].status = "ACTIVE"
      /\ UNCHANGED <<Agency!agents, binding, deleted, order, cut>>
  BY <1>2 DEF Agency!ExpireCandidate, Agency!Current
<1>5. \A j \in Agency!Candidates : candidate'[j] = IF j = k THEN row ELSE candidate[j]  BY <1>1, <1>4
<1>6. \A c : Agency!ActiveOf(c)' = Agency!ActiveOf(c) BY <1>3, <1>5 DEF Agency!ActiveOf
<1>7. \A j \in Agency!Candidates : AgencyMoved(j) BY <1>3, <1>4, <1>5 DEF AgencyMoved
<1>8. DOMAIN candidate' = Agency!Candidates /\ candidate' = [j \in Agency!Candidates |-> candidate'[j]]
  BY <1>1, <1>4
<1>9. \A c \in Customers : \A j, l \in Agency!ActiveOf(c)' : j = l
  BY <1>6 DEF AgencyInv, AgencyCandidatesRight
<1>10. AgencyCandidatesRight' BY <1>4, <1>7, <1>8, <1>9, AgencyCandidatesMove
<1> QED BY <1>4, <1>6, <1>7, <1>10, AgencyAgentsStay, AgencyBindingsStay, AgencyDeletedStay DEF AgencyInv

LEMMA AgencyCreateAnonymousInv ==
  ASSUME AgencyGiven, AgencyInv, NEW m \in Agency!Materials, NEW replaced \in SUBSET Agency!Candidates,
         Agency!CreateAnonymous(m, replaced)
  PROVE  AgencyInv' /\ \A j \in Agency!Candidates : AgencyMoved(j)
<1>1. PICK f \in Agency!Candidates : f = Agency!Min(Agency!FreeCandidates) /\ candidate[f] = Agency!NoCandidate
  BY AgencyFreeRow DEF Agency!CreateAnonymous
<1>2. /\ candidate' = [Agency!Ended(replaced, "INVALIDATED") EXCEPT ![f] = Agency!NewCandidate(m, {})]
      /\ UNCHANGED <<Agency!agents, binding, deleted, order, cut>>
      /\ \A k \in replaced : candidate[k].status = "ACTIVE"
  BY <1>1 DEF Agency!CreateAnonymous, Agency!Anonymous
<1>3. candidate \in [Agency!Candidates -> AgencyCandidateRow]  BY DEF AgencyInv, AgencyCandidatesRight
<1>4. \A k \in Agency!Candidates : candidate'[k] =
        IF k = f THEN Agency!NewCandidate(m, {})
        ELSE IF k \in replaced THEN [candidate[k] EXCEPT !.status = "INVALIDATED"] ELSE candidate[k]
  BY <1>2 DEF Agency!Ended
<1>5. ASSUME NEW k \in Agency!Candidates
      PROVE  /\ AgencyMoved(k)
             /\ \A c \in Customers : candidate'[k].status = "ACTIVE" /\ candidate'[k].customer = {c}
                 => candidate'[k] = candidate[k]
  <2>1. CASE k = f
    <3>1. candidate'[k] = Agency!NewCandidate(m, {}) BY <1>4, <2>1
    <3>2. AgencyMoved(k) BY <1>1, <2>1, <3>1 DEF AgencyMoved
    <3> QED BY <3>1, <3>2 DEF Agency!NewCandidate
  <2>2. CASE k # f /\ k \in replaced
    <3>1. candidate[k] \in AgencyCandidateRow BY <1>3
    <3>2. candidate'[k] = [candidate[k] EXCEPT !.status = "INVALIDATED"] BY <1>4, <2>2
    <3>3. candidate'[k] \in AgencyCandidateRow /\ candidate'[k].material = candidate[k].material
          /\ candidate'[k].status = "INVALIDATED" /\ candidate'[k].customer = candidate[k].customer
      BY <3>1, <3>2 DEF AgencyCandidateRow, AgencyEnds
    <3> QED BY <1>2, <2>2, <3>3 DEF AgencyMoved
  <2>3. CASE k # f /\ k \notin replaced BY <1>4, <2>3 DEF AgencyMoved
  <2> QED BY <2>1, <2>2, <2>3
<1>6. \A c \in Customers : Agency!ActiveOf(c)' \subseteq Agency!ActiveOf(c)  BY <1>5 DEF Agency!ActiveOf
<1>7. DOMAIN candidate' = Agency!Candidates /\ candidate' = [j \in Agency!Candidates |-> candidate'[j]]
  BY <1>2 DEF Agency!Ended
<1>8. \A c \in Customers : \A j, l \in Agency!ActiveOf(c)' : j = l
  BY <1>6 DEF AgencyInv, AgencyCandidatesRight
<1>9. AgencyCandidatesRight' BY <1>2, <1>5, <1>7, <1>8, AgencyCandidatesMove
<1> QED BY <1>2, <1>5, <1>6, <1>9, AgencyAgentsStay, AgencyBindingsStay, AgencyDeletedStay DEF AgencyInv

\* Customer c gets candidate f, and no other that it waits on.
LEMMA AgencyGivenTo ==
  ASSUME AgencyGiven, AgencyInv, NEW c \in Customers, c \notin deleted, NEW f \in Agency!Candidates,
         UNCHANGED <<Agency!agents, binding, deleted, order, cut>>,
         DOMAIN candidate' = Agency!Candidates, candidate' = [k \in Agency!Candidates |-> candidate'[k]],
         \A k \in Agency!Candidates : AgencyMoved(k),
         \A k \in Agency!Candidates : k # f /\ candidate'[k].status = "ACTIVE"
                               => candidate'[k] = candidate[k] /\ candidate'[k].customer # {c},
         \A d \in Customers : candidate'[f].customer = {d} => d = c
  PROVE  AgencyInv' /\ \A j \in Agency!Candidates : AgencyMoved(j)
<1>1. \A k \in Agency!ActiveOf(c)' : k = f BY DEF Agency!ActiveOf
<1>2. \A d \in Customers : d # c => Agency!ActiveOf(d)' \subseteq Agency!ActiveOf(d)  BY DEF Agency!ActiveOf
<1>3. \A d \in Customers : \A j, l \in Agency!ActiveOf(d)' : j = l
  BY <1>1, <1>2 DEF AgencyInv, AgencyCandidatesRight
<1>4. AgencyCandidatesRight' BY <1>3, AgencyCandidatesMove
<1>5. \A d : Agency!CurrentBindings(d)' = Agency!CurrentBindings(d) BY DEF Agency!CurrentBindings
<1>6. AgencyDeletedRight' BY <1>2, <1>5 DEF AgencyInv, AgencyDeletedRight
<1> QED BY <1>4, <1>6, AgencyAgentsStay, AgencyBindingsStay DEF AgencyInv

\* What becomes of a candidate that somebody else's place is taken by.
LEMMA AgencySuperseded ==
  ASSUME AgencyGiven, AgencyInv, NEW c \in Customers, NEW k \in Agency!Candidates, candidate[k].status = "ACTIVE",
         candidate'[k] = [candidate[k] EXCEPT !.status = Agency!EndOf(k)]
  PROVE  AgencyMoved(k) /\ candidate'[k].status \in {"EXPIRED", "INVALIDATED"}
<1>1. candidate[k] \in AgencyCandidateRow BY DEF AgencyInv, AgencyCandidatesRight
<1>2. PICK e \in {"EXPIRED", "INVALIDATED"} : e = Agency!EndOf(k) BY DEF Agency!EndOf
<1>3. candidate'[k] = [candidate[k] EXCEPT !.status = e] BY <1>2
<1>4. candidate'[k] \in AgencyCandidateRow /\ candidate'[k].status = e
   /\ candidate'[k].material = candidate[k].material
  BY <1>1, <1>3 DEF AgencyCandidateRow, AgencyEnds
<1> QED BY <1>4 DEF AgencyMoved

LEMMA AgencyCreateForCustomerInv ==
  ASSUME AgencyGiven, AgencyInv, NEW c \in Customers, NEW m \in Agency!Materials, Agency!CreateForCustomer(c, m)
  PROVE  AgencyInv' /\ \A j \in Agency!Candidates : AgencyMoved(j)
<1>1. PICK f \in Agency!Candidates : f = Agency!Min(Agency!FreeCandidates) /\ candidate[f] = Agency!NoCandidate
  BY AgencyFreeRow DEF Agency!CreateForCustomer
<1>2. /\ c \notin deleted
      /\ candidate' = [k \in Agency!Candidates |->
          IF k = f THEN Agency!NewCandidate(m, {c})
          ELSE IF k \in Agency!ActiveOf(c) THEN [candidate[k] EXCEPT !.status = Agency!EndOf(k)]
          ELSE candidate[k]]
      /\ UNCHANGED <<Agency!agents, binding, deleted, order, cut>>
  BY <1>1 DEF Agency!CreateForCustomer
<1>3. ASSUME NEW k \in Agency!Candidates
      PROVE  /\ AgencyMoved(k)
             /\ k # f /\ candidate'[k].status = "ACTIVE"
                 => candidate'[k] = candidate[k] /\ candidate'[k].customer # {c}
  <2>1. CASE k = f BY <1>1, <1>2, <2>1 DEF AgencyMoved
  <2>2. CASE k # f /\ k \in Agency!ActiveOf(c) BY <1>2, <2>2, AgencySuperseded DEF Agency!ActiveOf
  <2>3. CASE k # f /\ k \notin Agency!ActiveOf(c) BY <1>2, <2>3 DEF AgencyMoved, Agency!ActiveOf
  <2> QED BY <2>1, <2>2, <2>3
<1>4. candidate'[f].customer = {c} BY <1>2 DEF Agency!NewCandidate
<1>5. DOMAIN candidate' = Agency!Candidates /\ candidate' = [j \in Agency!Candidates |-> candidate'[j]]
  BY <1>2
<1> QED BY <1>2, <1>3, <1>4, <1>5, AgencyGivenTo

LEMMA AgencyMigrateInv ==
  ASSUME AgencyGiven, AgencyInv, NEW c \in Customers, NEW k \in Agency!Candidates, Agency!Migrate(c, k)
  PROVE  AgencyInv' /\ \A j \in Agency!Candidates : AgencyMoved(j)
<1>1. PICK other, kept :
        /\ other = Agency!ActiveOf(c)
        /\ c \notin deleted /\ candidate[k].status = "ACTIVE" /\ candidate[k].customer = {}
        /\ candidate' =
             IF Agency!CurrentBindings(c) # {} \/ kept # {} THEN Agency!Ended({k}, "INVALIDATED")
             ELSE [j \in Agency!Candidates |->
                 IF j = k
                 THEN IF candidate[k].expired THEN [candidate[k] EXCEPT !.status = "EXPIRED"]
                      ELSE IF ~Agency!Resolves(k) THEN [candidate[k] EXCEPT !.status = "INVALIDATED"]
                      ELSE [candidate[k] EXCEPT !.customer = {c}]
                 ELSE IF j \in other THEN [candidate[j] EXCEPT !.status = Agency!EndOf(j)]
                 ELSE candidate[j]]
        /\ UNCHANGED <<Agency!agents, binding, deleted, order, cut>>
  BY DEF Agency!Migrate, Agency!MayMigrate, Agency!Anonymous
<1>2. CASE Agency!CurrentBindings(c) # {} \/ kept # {}
  <2>1. candidate' = Agency!Ended({k}, "INVALIDATED") BY <1>1, <1>2
  <2>2. AgencyCandidatesRight' /\ \A d \in Customers : Agency!ActiveOf(d)' \subseteq Agency!ActiveOf(d)
    <3>1. {k} \in SUBSET Agency!Candidates /\ (\A j \in {k} : candidate[j].status = "ACTIVE")
       /\ "INVALIDATED" \in AgencyEnds
      BY <1>1 DEF AgencyEnds
    <3>2. cut' = cut \/ (cut' = cut \union {k} /\ "INVALIDATED" = "INVALIDATED") BY <1>1
    <3>3. \A d \in Customers : Agency!ActiveOf(d) \ {k} \subseteq Agency!ActiveOf(d)
      OBVIOUS
    <3>4. AgencyCandidatesRight' /\ \A d \in Customers : Agency!ActiveOf(d)' = Agency!ActiveOf(d) \ {k}
      BY <2>1, <3>1, <3>2, AgencyCandidatesEnd, Zenon
    <3> QED BY <3>3, <3>4
  <2>3. \A j \in Agency!Candidates : AgencyMoved(j)
    <3>1. {k} \in SUBSET Agency!Candidates /\ (\A j \in {k} : candidate[j].status = "ACTIVE")
          /\ "INVALIDATED" \in AgencyEnds \ {"CONFIRMED"}
      BY <1>1 DEF AgencyEnds
    <3> QED BY <2>1, <3>1, AgencyEndedMoved
  <2> QED BY <1>1, <2>2, <2>3, AgencyAgentsStay, AgencyBindingsStay, AgencyDeletedStay DEF AgencyInv
<1>3. CASE ~(Agency!CurrentBindings(c) # {} \/ kept # {})
  <2>1. PICK row : row = IF candidate[k].expired THEN [candidate[k] EXCEPT !.status = "EXPIRED"]
                      ELSE IF ~Agency!Resolves(k) THEN [candidate[k] EXCEPT !.status = "INVALIDATED"]
                      ELSE [candidate[k] EXCEPT !.customer = {c}]
    OBVIOUS
  <2>2. row \in AgencyCandidateRow /\ row.material = candidate[k].material /\ row.customer \in {{}, {c}}
     /\ row.status # "CONFIRMED"
    <3>1. candidate[k] \in AgencyCandidateRow BY DEF AgencyInv, AgencyCandidatesRight
    <3>2. \/ row = [candidate[k] EXCEPT !.status = "EXPIRED"]
          \/ row = [candidate[k] EXCEPT !.status = "INVALIDATED"]
          \/ row = [candidate[k] EXCEPT !.customer = {c}]
      BY <2>1, Zenon
    <3> QED BY <1>1, <3>1, <3>2 DEF AgencyCandidateRow, AgencyEnds
  <2>3. candidate' = [j \in Agency!Candidates |-> IF j = k THEN row
                       ELSE IF j \in other THEN [candidate[j] EXCEPT !.status = Agency!EndOf(j)] ELSE candidate[j]]
    BY <1>1, <1>3, <2>1
  <2>4. ASSUME NEW j \in Agency!Candidates
        PROVE  /\ AgencyMoved(j)
               /\ j # k /\ candidate'[j].status = "ACTIVE"
                   => candidate'[j] = candidate[j] /\ candidate'[j].customer # {c}
    <3>1. CASE j = k BY <1>1, <2>2, <2>3, <3>1 DEF AgencyMoved
    <3>2. CASE j # k /\ j \in other BY <1>1, <2>3, <3>2, AgencySuperseded DEF Agency!ActiveOf
    <3>3. CASE j # k /\ j \notin other BY <1>1, <2>3, <3>3 DEF AgencyMoved, Agency!ActiveOf
    <3> QED BY <3>1, <3>2, <3>3
  <2>5. DOMAIN candidate' = Agency!Candidates /\ candidate' = [j \in Agency!Candidates |-> candidate'[j]]
    BY <2>3
  <2>6. \A d \in Customers : candidate'[k].customer = {d} => d = c BY <2>2, <2>3
  <2> QED BY <1>1, <2>4, <2>5, <2>6, AgencyGivenTo
<1> QED BY <1>2, <1>3

--------------------------------
\* Bindings.

\* The candidate a customer decides on.
LEMMA AgencyDecided ==
  ASSUME AgencyGiven, AgencyInv, NEW c \in Customers, NEW k \in Agency!ActiveOf(c),
         NEW status \in AgencyEnds \ {"INVALIDATED"},
         candidate' = Agency!Ended({k}, status), cut' = cut
  PROVE  /\ AgencyCandidatesRight' /\ Agency!ActiveOf(c)' = {}
         /\ \A d \in Customers : Agency!ActiveOf(d)' \subseteq Agency!ActiveOf(d)
<1>1. k \in Agency!Candidates /\ candidate[k].status = "ACTIVE" BY DEF Agency!ActiveOf
<1>2. AgencyCandidatesRight' /\ \A d \in Customers : Agency!ActiveOf(d)' = Agency!ActiveOf(d) \ {k}
  <2>1. {k} \in SUBSET Agency!Candidates /\ (\A j \in {k} : candidate[j].status = "ACTIVE") BY <1>1
  <2>2. status \in AgencyEnds
    OBVIOUS
  <2>3. cut' = cut \/ (cut' = cut \union {k} /\ status = "INVALIDATED")
    OBVIOUS
  <2> QED BY <2>1, <2>2, <2>3, AgencyCandidatesEnd, Zenon
<1>3. Agency!ActiveOf(c) = {k} BY DEF AgencyInv, AgencyCandidatesRight
<1> QED BY <1>2, <1>3

LEMMA AgencyWaiting ==
  ASSUME NEW c
  PROVE  Agency!ActiveOf(c) \in SUBSET Agency!Candidates
     /\ \A k \in Agency!ActiveOf(c) : candidate[k].status = "ACTIVE"
BY DEF Agency!ActiveOf

\* Binding rows end, and at most one of c is added in a free row.
LEMMA AgencyBindingsChange ==
  ASSUME AgencyGiven, AgencyInv, NEW c \in Customers, UNCHANGED order,
         binding' = [b \in Agency!Bindings |-> binding'[b]],
         NEW new \in SUBSET Agency!Bindings, \A b, d \in new : b = d,
         \A b \in new : binding[b] = Agency!NoBinding /\ c \notin deleted /\ \E ag \in SUBSET Agents :
             (\A a, d \in ag : a = d) /\ binding'[b] = [customer |-> {c}, agent |-> ag, ended |-> FALSE],
         \A b \in Agency!Bindings \ new : \/ binding'[b] = binding[b]
                                              /\ (new # {} => b \notin Agency!CurrentBindings(c))
                                          \/ binding'[b] = [binding[b] EXCEPT !.ended = TRUE]
  PROVE  /\ AgencyBindingsRight' /\ AgencyOrdersRight'
         /\ \A d \in Customers : d # c => Agency!CurrentBindings(d)' \subseteq Agency!CurrentBindings(d)
         /\ new = {} => Agency!CurrentBindings(c)' \subseteq Agency!CurrentBindings(c)
<1>1. binding \in [Agency!Bindings -> AgencyBindingRow] BY DEF AgencyInv, AgencyBindingsRight
<1>2. ASSUME NEW b \in Agency!Bindings \ new
      PROVE  /\ binding'[b] \in AgencyBindingRow /\ binding'[b].agent = binding[b].agent
             /\ binding'[b].customer = binding[b].customer
             /\ ~binding'[b].ended => ~binding[b].ended
             /\ ~binding'[b].ended /\ new # {} => b \notin Agency!CurrentBindings(c)
  <2>1. binding[b] \in AgencyBindingRow BY <1>1
  <2>2. CASE binding'[b] = binding[b] /\ (new # {} => b \notin Agency!CurrentBindings(c))  BY <2>1, <2>2
  <2>3. CASE binding'[b] = [binding[b] EXCEPT !.ended = TRUE] BY <2>1, <2>3 DEF AgencyBindingRow
  <2> QED BY <2>2, <2>3
<1>3. ASSUME NEW b \in new
      PROVE  /\ binding'[b] \in AgencyBindingRow /\ (\A a, d \in binding'[b].agent : a = d)
             /\ binding'[b].customer = {c}
  <2>1. PICK ag \in SUBSET Agents : (\A a, d \in ag : a = d)
                                    /\ binding'[b] = [customer |-> {c}, agent |-> ag, ended |-> FALSE]
    OBVIOUS
  <2> QED BY <2>1 DEF AgencyBindingRow
<1>4. binding' \in [Agency!Bindings -> AgencyBindingRow] BY <1>2, <1>3
<1>5. \A b \in Agency!Bindings : \A a, d \in binding'[b].agent : a = d
  BY <1>2, <1>3 DEF AgencyInv, AgencyBindingsRight
<1>6. \A d \in Customers : d # c => Agency!CurrentBindings(d)' \subseteq Agency!CurrentBindings(d)
  BY <1>2, <1>3 DEF Agency!CurrentBindings
<1>7. new = {} => Agency!CurrentBindings(c)' \subseteq Agency!CurrentBindings(c)
  BY <1>2 DEF Agency!CurrentBindings
<1>8. new # {} => Agency!CurrentBindings(c)' \subseteq new BY <1>2 DEF Agency!CurrentBindings
<1>9. \A d \in Customers : \A b, e \in Agency!CurrentBindings(d)' : b = e
  BY <1>6, <1>7, <1>8 DEF AgencyInv, AgencyBindingsRight
<1>10. AgencyOrdersRight'
  <2>1. ASSUME NEW d \in Customers, order[d].binding # 0
        PROVE  /\ binding'[order[d].binding].agent = order[d].agent
               /\ binding'[order[d].binding].customer = {d}
    <3>1. order[d].binding \in Agency!Bindings
      BY <2>1, AgencyNumbers DEF AgencyInv, AgencyOrdersRight, AgencyOrderRow, Agency!Bindings
    <3>2. binding[order[d].binding].agent = order[d].agent /\ binding[order[d].binding].customer = {d}
      BY <2>1 DEF AgencyInv, AgencyOrdersRight, Agency!SettledWithSubmitter
    <3>3. order[d].binding \notin new
      <4>1. order[d].binding \in new => binding[order[d].binding].customer = {}  BY <1>2 DEF Agency!NoBinding
      <4> QED BY <3>2, <4>1
    <3> QED BY <1>2, <3>1, <3>2, <3>3
  <2> QED BY <2>1 DEF AgencyInv, AgencyOrdersRight, Agency!SettledWithSubmitter
<1> QED BY <1>4, <1>5, <1>6, <1>7, <1>9, <1>10 DEF AgencyBindingsRight

LEMMA AgencyConfirmInv == ASSUME AgencyGiven, AgencyInv, NEW c \in Customers, Agency!Confirm(c) PROVE AgencyInv'
<1>1. PICK f \in Agency!Bindings : f = Agency!Min(Agency!FreeBindings) /\ binding[f] = Agency!NoBinding
  BY AgencyFreeRow DEF Agency!Confirm
<1>2. PICK k, ag :
        /\ k \in Agency!ActiveOf(c)
        /\ ag = UNION {Agency!AgentOf(m) : m \in candidate[k].material}
        /\ binding' = [binding EXCEPT ![f] = [customer |-> {c}, ended |-> FALSE, agent |-> ag]]
        /\ candidate' = Agency!Ended({k}, "CONFIRMED")
        /\ UNCHANGED <<Agency!agents, deleted, order, cut>>
        /\ c \notin deleted /\ Agency!CurrentBindings(c) = {}
  BY <1>1 DEF Agency!Confirm, Agency!Bindable
<1>3. ag \in SUBSET Agents /\ \A a, d \in ag : a = d
  <2>1. k \in Agency!Candidates /\ candidate[k] \in AgencyCandidateRow
     /\ \A m, n \in candidate[k].material : m = n
    BY <1>2 DEF Agency!ActiveOf, AgencyInv, AgencyCandidatesRight
  <2>2. \A m \in candidate[k].material : m[1] \in Agency!Invites
    BY <2>1 DEF AgencyCandidateRow, Agency!Materials
  <2>3. \A i \in Agency!Invites : invite[i].agent \subseteq Agents /\ \A a, d \in invite[i].agent : a = d
    BY DEF AgencyInv, AgencyInvitesRight, AgencyInviteRow
  <2>4. \A m \in candidate[k].material : Agency!AgentOf(m) \subseteq Agents
     /\ \A a, d \in Agency!AgentOf(m) : a = d
    BY <2>2, <2>3 DEF Agency!AgentOf
  <2>5. ASSUME NEW a \in ag, NEW d \in ag PROVE a = d
    <3>1. PICK m \in candidate[k].material : a \in Agency!AgentOf(m) BY <1>2
    <3>2. PICK n \in candidate[k].material : d \in Agency!AgentOf(n) BY <1>2
    <3> QED BY <2>1, <2>4, <3>1, <3>2
  <2> QED BY <1>2, <2>4, <2>5
<1>4. AgencyCandidatesRight' /\ Agency!ActiveOf(c)' = {}
   /\ \A d \in Customers : Agency!ActiveOf(d)' \subseteq Agency!ActiveOf(d)
  BY <1>2, AgencyDecided DEF AgencyEnds
<1>5. AgencyBindingsRight' /\ AgencyOrdersRight' /\ \A d \in Customers : d # c
   => Agency!CurrentBindings(d)' \subseteq Agency!CurrentBindings(d)
  <2>1. binding \in [Agency!Bindings -> AgencyBindingRow] BY DEF AgencyInv, AgencyBindingsRight
  <2>2. binding' = [b \in Agency!Bindings |-> binding'[b]] BY <1>2, <2>1
  <2>3. binding'[f] = [customer |-> {c}, agent |-> ag, ended |-> FALSE] BY <1>2, <2>1
  <2>4. \A b \in Agency!Bindings \ {f} : binding'[b] = binding[b] BY <1>2, <2>1
  <2>5. \A b \in {f} : binding[b] = Agency!NoBinding /\ c \notin deleted /\ \E as \in SUBSET Agents :
             (\A a, d \in as : a = d) /\ binding'[b] = [customer |-> {c}, agent |-> as, ended |-> FALSE]
    BY <1>1, <1>2, <1>3, <2>3
  <2>6. \A b \in Agency!Bindings \ {f} : \/ binding'[b] = binding[b]
                                             /\ ({f} # {} => b \notin Agency!CurrentBindings(c))
                                         \/ binding'[b] = [binding[b] EXCEPT !.ended = TRUE]
    BY <1>2, <2>4
  <2>7. {f} \in SUBSET Agency!Bindings /\ (\A b, d \in {f} : b = d) /\ UNCHANGED order BY <1>2
  <2> QED BY <2>2, <2>5, <2>6, <2>7, AgencyBindingsChange
<1>6. AgencyDeletedRight' BY <1>2, <1>4, <1>5 DEF AgencyInv, AgencyDeletedRight
<1> QED BY <1>2, <1>4, <1>5, <1>6, AgencyAgentsStay DEF AgencyInv

LEMMA AgencyRejectInv == ASSUME AgencyGiven, AgencyInv, NEW c \in Customers, Agency!Reject(c) PROVE AgencyInv'
<1>1. PICK k \in Agency!ActiveOf(c) : candidate' = Agency!Ended({k}, "REJECTED")
   /\ UNCHANGED <<Agency!agents, binding, deleted, order, cut>>
  BY DEF Agency!Reject
<1>2. AgencyCandidatesRight' /\ \A d \in Customers : Agency!ActiveOf(d)' \subseteq Agency!ActiveOf(d)
  BY <1>1, AgencyDecided DEF AgencyEnds
<1> QED BY <1>1, <1>2, AgencyAgentsStay, AgencyBindingsStay, AgencyDeletedStay DEF AgencyInv

LEMMA AgencyTransferInv ==
  ASSUME AgencyGiven, AgencyInv, NEW c \in Customers, NEW to, to = {} \/ (\E a \in Agents : to = {a}),
         Agency!Transfer(c, to)
  PROVE  AgencyInv'
<1>1. PICK new \in SUBSET Agency!Bindings :
        /\ (\A b, d \in new : b = d) /\ (\A b \in new : binding[b] = Agency!NoBinding /\ to # {})
        /\ binding' = [b \in Agency!Bindings |->
             IF b \in Agency!CurrentBindings(c) THEN [binding[b] EXCEPT !.ended = TRUE]
             ELSE IF b \in new THEN [customer |-> {c}, agent |-> to, ended |-> FALSE]
             ELSE binding[b]]
  <2>1. CASE to = {} BY <2>1 DEF Agency!Transfer
  <2>2. CASE to # {}
    <3>1. PICK f \in Agency!Bindings : f = Agency!Min(Agency!FreeBindings) /\ binding[f] = Agency!NoBinding
      BY <2>2, AgencyFreeRow DEF Agency!Transfer
    <3>2. binding' = [b \in Agency!Bindings |->
             IF b \in Agency!CurrentBindings(c) THEN [binding[b] EXCEPT !.ended = TRUE]
             ELSE IF b \in {f} THEN [customer |-> {c}, agent |-> to, ended |-> FALSE]
             ELSE binding[b]]
      BY <2>2, <3>1 DEF Agency!Transfer
    <3> QED BY <2>2, <3>1, <3>2
  <2> QED BY <2>1, <2>2
<1>2. /\ c \notin deleted /\ candidate' = Agency!Ended(Agency!ActiveOf(c), "INVALIDATED")
      /\ UNCHANGED <<Agency!agents, deleted, order, cut>>
  BY DEF Agency!Transfer
<1>3. AgencyCandidatesRight' /\ \A d \in Customers : Agency!ActiveOf(d)' \subseteq Agency!ActiveOf(d)
  BY <1>2, AgencyWaiting, AgencyCandidatesEnd DEF AgencyEnds
<1>4. AgencyBindingsRight' /\ AgencyOrdersRight' /\ \A d \in Customers : d # c
   => Agency!CurrentBindings(d)' \subseteq Agency!CurrentBindings(d)
  <2>1. \A b \in new : b \notin Agency!CurrentBindings(c)
    BY <1>1 DEF Agency!CurrentBindings, Agency!NoBinding
  <2>2. \A b \in new : binding'[b] = [customer |-> {c}, agent |-> to, ended |-> FALSE]  BY <1>1, <2>1
  <2>3. to \in SUBSET Agents /\ \A a, d \in to : a = d
    OBVIOUS
  <2>4. \A b \in new : binding[b] = Agency!NoBinding /\ c \notin deleted /\ \E as \in SUBSET Agents :
             (\A a, d \in as : a = d) /\ binding'[b] = [customer |-> {c}, agent |-> as, ended |-> FALSE]
    BY <1>1, <1>2, <2>2, <2>3
  <2>5. \A b \in Agency!Bindings \ new : \/ binding'[b] = binding[b]
                                             /\ (new # {} => b \notin Agency!CurrentBindings(c))
                                         \/ binding'[b] = [binding[b] EXCEPT !.ended = TRUE]
    BY <1>1
  <2>6. binding' = [b \in Agency!Bindings |-> binding'[b]] BY <1>1
  <2> QED BY <1>1, <1>2, <2>4, <2>5, <2>6, AgencyBindingsChange
<1>5. AgencyDeletedRight' BY <1>2, <1>3, <1>4 DEF AgencyInv, AgencyDeletedRight
<1> QED BY <1>2, <1>3, <1>4, <1>5, AgencyAgentsStay DEF AgencyInv

LEMMA AgencyDeleteCustomerInv == ASSUME AgencyGiven, AgencyInv, NEW c \in Customers, Agency!DeleteCustomer(c) PROVE AgencyInv'
<1>1. /\ deleted' = deleted \union {c} /\ candidate' = Agency!Ended(Agency!ActiveOf(c), "INVALIDATED")
      /\ binding' = [b \in Agency!Bindings |->
           IF b \in Agency!CurrentBindings(c) THEN [binding[b] EXCEPT !.ended = TRUE] ELSE binding[b]]
      /\ UNCHANGED <<Agency!agents, order, cut>>
  BY DEF Agency!DeleteCustomer
<1>2. AgencyCandidatesRight' /\ \A d \in Customers : Agency!ActiveOf(d)' = Agency!ActiveOf(d) \ Agency!ActiveOf(c)
  BY <1>1, AgencyWaiting, AgencyCandidatesEnd DEF AgencyEnds
<1>3. /\ AgencyBindingsRight' /\ AgencyOrdersRight'
      /\ \A d \in Customers : d # c => Agency!CurrentBindings(d)' \subseteq Agency!CurrentBindings(d)
      /\ Agency!CurrentBindings(c)' \subseteq Agency!CurrentBindings(c)
  <2>1. \A b \in Agency!Bindings \ {} : \/ binding'[b] = binding[b]
                                            /\ ({} # {} => b \notin Agency!CurrentBindings(c))
                                        \/ binding'[b] = [binding[b] EXCEPT !.ended = TRUE]
    BY <1>1
  <2>2. binding' = [b \in Agency!Bindings |-> binding'[b]] BY <1>1
  <2>3. /\ {} \in SUBSET Agency!Bindings /\ \A b, d \in {} : b = d
        /\ \A b \in {} : binding[b] = Agency!NoBinding /\ c \notin deleted /\ \E as \in SUBSET Agents :
             (\A a, d \in as : a = d) /\ binding'[b] = [customer |-> {c}, agent |-> as, ended |-> FALSE]
        /\ UNCHANGED order
    BY <1>1
  <2> QED BY <2>1, <2>2, <2>3, AgencyBindingsChange
<1>4. Agency!CurrentBindings(c)' = {}
  <2>1. binding \in [Agency!Bindings -> AgencyBindingRow] BY DEF AgencyInv, AgencyBindingsRight
  <2>2. \A b \in Agency!CurrentBindings(c) : binding'[b].ended
    BY <1>1, <2>1 DEF Agency!CurrentBindings, AgencyBindingRow
  <2> QED BY <1>3, <2>2 DEF Agency!CurrentBindings
<1>5. AgencyDeletedRight' BY <1>1, <1>2, <1>3, <1>4 DEF AgencyInv, AgencyDeletedRight
<1> QED BY <1>1, <1>2, <1>3, <1>5, AgencyAgentsStay DEF AgencyInv

--------------------------------
\* Orders.

LEMMA AgencyOrderInv ==
  ASSUME AgencyGiven, AgencyInv, NEW c \in Customers, NEW row \in AgencyOrderRow,
         order' = [order EXCEPT ![c] = row],
         row.final \subseteq row.agent,
         row.binding # 0 => binding[row.binding].agent = row.agent /\ binding[row.binding].customer = {c},
         UNCHANGED <<Agency!agents, candidate, binding, deleted, cut>>
  PROVE  AgencyInv'
<1>1. order \in [Customers -> AgencyOrderRow] BY DEF AgencyInv, AgencyOrdersRight
<1>2. \A d \in Customers : order'[d] = IF d = c THEN row ELSE order[d] BY <1>1
<1>3. AgencyOrdersRight'  BY <1>1, <1>2 DEF AgencyInv, AgencyOrdersRight, Agency!SettledWithSubmitter
<1>4. \A d : Agency!CurrentBindings(d)' = Agency!CurrentBindings(d) BY DEF Agency!CurrentBindings
<1>5. AgencyBindingsRight' BY <1>4 DEF AgencyInv, AgencyBindingsRight
<1> QED BY <1>3, <1>5, AgencyAgentsStay, AgencyCandidatesStay, AgencyDeletedStay DEF AgencyInv

LEMMA AgencySubmitOrderInv == ASSUME AgencyGiven, AgencyInv, NEW c \in Customers, Agency!SubmitOrder(c) PROVE AgencyInv'
<1>1. PICK served, row :
        /\ served = {b \in Agency!CurrentBindings(c) : binding[b].agent \subseteq enabled}
        /\ row = [status |-> "SUBMITTED", final |-> {}, agent |-> UNION {binding[b].agent : b \in served},
                  binding |-> IF served = {} THEN 0 ELSE Agency!Max(served)]
        /\ order' = [order EXCEPT ![c] = row]
        /\ UNCHANGED <<Agency!agents, candidate, binding, deleted, cut>>
  BY DEF Agency!SubmitOrder
<1>2. served \in SUBSET (1 .. MaxBindings) /\ \A b, d \in served : b = d
  BY <1>1 DEF Agency!CurrentBindings, Agency!Bindings, AgencyInv, AgencyBindingsRight
<1>3. \A b \in served : binding[b].agent \subseteq Agents /\ binding[b].customer = {c}
  BY <1>1 DEF Agency!CurrentBindings, AgencyInv, AgencyBindingsRight, AgencyBindingRow
<1>4. CASE served = {}
  <2>1. row = [status |-> "SUBMITTED", final |-> {}, agent |-> {}, binding |-> 0] BY <1>1, <1>4
  <2>2. row \in AgencyOrderRow /\ row.final \subseteq row.agent /\ row.binding = 0
    BY <2>1, AgencyNumbers DEF AgencyOrderRow
  <2> QED BY <1>1, <2>2, AgencyOrderInv
<1>5. CASE served # {}
  <2>1. PICK b \in served : b = Agency!Max(served) BY <1>2, <1>5, AgencyNumbers, AgencyGreatest
  <2>2. served = {b} BY <1>2
  <2>3. UNION {binding[d].agent : d \in served} = binding[b].agent BY <2>2
  <2>4. row = [status |-> "SUBMITTED", final |-> {}, agent |-> binding[b].agent, binding |-> b]
    BY <1>1, <1>5, <2>1, <2>3
  <2>5. row \in AgencyOrderRow /\ row.final \subseteq row.agent /\ row.binding = b /\ row.agent = binding[b].agent
    BY <1>2, <1>3, <2>4, AgencyNumbers DEF AgencyOrderRow
  <2> QED BY <1>1, <1>3, <2>5, AgencyOrderInv
<1> QED BY <1>4, <1>5

LEMMA AgencyPayOrderInv == ASSUME AgencyGiven, AgencyInv, NEW c \in Customers, Agency!PayOrder(c) PROVE AgencyInv'
<1>1. order \in [Customers -> AgencyOrderRow] /\ order[c] \in AgencyOrderRow
  BY DEF AgencyInv, AgencyOrdersRight
<1>2. PICK row : row = [order[c] EXCEPT !.status = "PAID", !.final = Agency!FinalAgent(c)]
  OBVIOUS
<1>3. order' = [order EXCEPT ![c] = row] /\ UNCHANGED <<Agency!agents, candidate, binding, deleted, cut>>
  BY <1>1, <1>2 DEF Agency!PayOrder
<1>4. Agency!FinalAgent(c) \subseteq order[c].agent BY DEF Agency!FinalAgent
<1>5. row \in AgencyOrderRow /\ row.final \subseteq row.agent /\ row.agent = order[c].agent
   /\ row.binding = order[c].binding
  BY <1>1, <1>2, <1>4 DEF AgencyOrderRow
<1>6. order[c].binding # 0 => binding[order[c].binding].agent = order[c].agent
                              /\ binding[order[c].binding].customer = {c}
  BY DEF AgencyInv, AgencyOrdersRight, Agency!SettledWithSubmitter
<1> QED BY <1>3, <1>5, <1>6, AgencyOrderInv

--------------------------------
LEMMA AgencyStepwise == ASSUME AgencyGiven, AgencyInv, Agency!Next PROVE AgencyInv'
<1>1. CASE Agency!Visit
  <2>1. ASSUME NEW a \in Agents, Agency!CreateAgent(a) \/ Agency!DisableAgent(a) PROVE AgencyInv'
    BY <2>1, AgencyCreateAgentInv, AgencyDisableAgentInv
  <2>2. ASSUME NEW a \in Agents, NEW t \in Targets, Agency!PrepareMaterial(a, t) PROVE AgencyInv'
    BY <2>2, AgencyPrepareMaterialInv
  <2>3. ASSUME NEW a \in Agents, NEW m \in Agency!Materials, Agency!CommitMaterial(a, m) PROVE AgencyInv'
    BY <2>3, AgencyCommitMaterialInv
  <2>4. ASSUME NEW a \in Agents, Agency!ReactivateAgent(a) \/ Agency!AbandonMaterial(a) PROVE AgencyInv'
    BY <2>4, AgencyPromoteInv
  <2>5. ASSUME NEW m \in Agency!Materials,
               Agency!CreateAnonymous(m, {}) \/ (\E k \in Agency!Candidates : Agency!CreateAnonymous(m, {k}))
                 \/ (\E c \in Customers : Agency!CreateForCustomer(c, m))
        PROVE  AgencyInv'
    BY <2>5, AgencyCreateAnonymousInv, AgencyCreateForCustomerInv
  <2>6. ASSUME NEW c \in Customers,
               Agency!Confirm(c) \/ Agency!Reject(c)
                  \/ (\E k \in Agency!Candidates : Agency!Migrate(c, k)) PROVE AgencyInv'
    BY <2>6, AgencyConfirmInv, AgencyRejectInv, AgencyMigrateInv
  <2> QED BY <1>1, <2>1, <2>2, <2>3, <2>4, <2>5, <2>6 DEF Agency!Visit
<1>2. CASE Agency!Withdraw
  BY <1>2, AgencyRotateInviteInv, AgencyDisableInviteInv, AgencyEnableInviteInv, AgencyExpireInviteInv,
     AgencyExpireCandidateInv, AgencyPromoteInv, AgencyCommitMaterialInv DEF Agency!Withdraw
<1>3. CASE Agency!Serve
  BY <1>3, AgencySubmitOrderInv, AgencyPayOrderInv, AgencyDeleteCustomerInv, AgencyTransferInv DEF Agency!Serve
<1> QED BY <1>1, <1>2, <1>3 DEF Agency!Next

LEMMA AgencyStutters == ASSUME AgencyGiven, AgencyInv, UNCHANGED Agency!vars PROVE AgencyInv'
<1>1. UNCHANGED <<Agency!agents, candidate, binding, deleted, order, cut>>  BY DEF Agency!vars, Agency!agents
<1> QED BY <1>1, AgencyAgentsStay, AgencyCandidatesStay, AgencyBindingsStay, AgencyDeletedStay DEF AgencyInv

LEMMA AgencyAgrees == ASSUME AgencyGiven, AgencyInv PROVE Agency!BindingsAgree
<1>1. \A S : (\A m, n \in S : m = n) => Agency!Cardinality(S) <= 1
  <2> SUFFICES ASSUME NEW S, \A m, n \in S : m = n PROVE Agency!Cardinality(S) <= 1
    OBVIOUS
  <2>1. CASE S = {} BY <2>1, AgencyFS_EmptySet
  <2>2. CASE S # {}
    <3>1. PICK m \in S : S = {m} BY <2>2
    <3>2. Agency!Cardinality({m}) = 1 BY AgencyFS_Singleton, Zenon
    <3> QED BY <3>1, <3>2
  <2> QED BY <2>1, <2>2
<1>2. Agency!TypeOK
  <2>1. /\ enabled \subseteq Agents /\ authorized \subseteq Agents
        /\ draft \in [Agents -> SUBSET Agency!Materials]
        /\ material \in [Agency!Materials -> {"NONE", "ACTIVE", "EXPIRED"}]
        /\ deleted \subseteq Customers /\ cut \subseteq Agency!Candidates
    BY DEF AgencyInv, AgencyMaterialsRight, AgencyDeletedRight, AgencyCandidatesRight
  <2>2. invite \in [Agency!Invites -> [agent: SUBSET Agents, expired: BOOLEAN,
                                status: {"NONE", "ACTIVE", "DISABLED", "ROTATED"}]]
    BY DEF AgencyInv, AgencyInvitesRight, AgencyInviteRow
  <2>3. candidate \in [Agency!Candidates -> [material: SUBSET Agency!Materials, customer: SUBSET Customers,
          expired: BOOLEAN,
          status: {"NONE", "ACTIVE", "CONFIRMED", "REJECTED", "EXPIRED", "INVALIDATED"}]]
    <3>1. {"NONE", "ACTIVE"} \union AgencyEnds = {"NONE", "ACTIVE", "CONFIRMED", "REJECTED", "EXPIRED", "INVALIDATED"}
      BY DEF AgencyEnds
    <3> QED BY <3>1 DEF AgencyInv, AgencyCandidatesRight, AgencyCandidateRow
  <2>4. binding \in [Agency!Bindings -> [customer: SUBSET Customers, agent: SUBSET Agents, ended: BOOLEAN]]
    BY DEF AgencyInv, AgencyBindingsRight, AgencyBindingRow
  <2>5. \A b \in Agency!Bindings : Agency!Cardinality(binding[b].agent) <= 1
    BY <1>1 DEF AgencyInv, AgencyBindingsRight
  <2> QED BY <2>1, <2>2, <2>3, <2>4, <2>5 DEF Agency!TypeOK
<1>3. Agency!CutIsNeverConfirmed  BY DEF AgencyInv, AgencyCandidatesRight, Agency!CutIsNeverConfirmed
<1>4. Agency!OneOfEach
  <2>1. \A c \in Customers : Agency!Cardinality(Agency!CurrentBindings(c)) <= 1
    BY <1>1 DEF AgencyInv, AgencyBindingsRight
  <2>2. \A c \in Customers : Agency!Cardinality(Agency!ActiveOf(c)) <= 1
    BY <1>1 DEF AgencyInv, AgencyCandidatesRight
  <2>3. \A a \in Agents : Agency!Cardinality(Agency!Mutable(a)) <= 1
    BY <1>1 DEF AgencyInv, AgencyInvitesRight
  <2> QED BY <2>1, <2>2, <2>3 DEF Agency!OneOfEach
<1>5. Agency!SettledWithSubmitter /\ Agency!DeletedIsUnbound
  BY DEF AgencyInv, AgencyOrdersRight, AgencyDeletedRight, Agency!DeletedIsUnbound
<1> QED BY <1>2, <1>3, <1>4, <1>5 DEF Agency!BindingsAgree

--------------------------------
\* What a step may do to candidates, codes and material.

\* Candidates that wait end, and nobody decides on them.

--------------------------------
\* What a step may do to candidates, codes and material.

LEMMA AgencyMovedLegally ==
  ASSUME AgencyGiven, AgencyInv, \A k \in Agency!Candidates : AgencyMoved(k)
  PROVE  /\ Agency!CandidateKeepsCustomer /\ Agency!BindsInForce
         /\ \A k \in Agency!Candidates : candidate[k].status \notin {"NONE", "ACTIVE"}
             => candidate'[k] = candidate[k]
<1>1. Agency!NoCandidate.customer = {} /\ Agency!NoCandidate.status = "NONE"  BY DEF Agency!NoCandidate
<1>2. Agency!CandidateKeepsCustomer BY <1>1 DEF Agency!CandidateKeepsCustomer, AgencyMoved
<1>3. \A k \in Agency!Candidates : candidate[k].status = "ACTIVE" => candidate'[k].status # "CONFIRMED"
  BY <1>1 DEF AgencyMoved
<1>4. Agency!BindsInForce BY <1>3 DEF Agency!BindsInForce, Agency!ActiveOf
<1>5. \A k \in Agency!Candidates : candidate[k].status \notin {"NONE", "ACTIVE"} => candidate'[k] = candidate[k]
  BY <1>1 DEF AgencyMoved
<1> QED BY <1>2, <1>4, <1>5

LEMMA AgencyConfirmLegally ==
  ASSUME AgencyGiven, AgencyInv, NEW c \in Customers, Agency!Confirm(c)
  PROVE  /\ Agency!CandidateKeepsCustomer /\ Agency!BindsInForce
         /\ \A k \in Agency!Candidates : candidate[k].status \notin {"NONE", "ACTIVE"}
             => candidate'[k] = candidate[k]
<1>1. PICK k \in Agency!ActiveOf(c) : /\ candidate' = Agency!Ended({k}, "CONFIRMED") /\ Agency!Resolves(k)
                                      /\ Agency!CurrentBindings(c) = {}
  BY DEF Agency!Confirm, Agency!Bindable
<1>2. candidate \in [Agency!Candidates -> AgencyCandidateRow]  BY DEF AgencyInv, AgencyCandidatesRight
<1>3. k \in Agency!Candidates /\ candidate[k].status = "ACTIVE" /\ candidate[k].customer = {c}
  BY DEF Agency!ActiveOf
<1>4. \A j \in Agency!Candidates : j # k => candidate'[j] = candidate[j] BY <1>1 DEF Agency!Ended
<1>5. candidate'[k].customer = candidate[k].customer  BY <1>1, <1>2, <1>3 DEF Agency!Ended, AgencyCandidateRow
<1>6. Agency!CandidateKeepsCustomer BY <1>4, <1>5 DEF Agency!CandidateKeepsCustomer
<1>7. Agency!BindsInForce
  <2>1. ASSUME NEW d \in Customers, NEW j \in Agency!ActiveOf(d), candidate'[j].status = "CONFIRMED"
        PROVE  Agency!CurrentBindings(d) = {} /\ \A m \in candidate[j].material : Agency!Eligible(m)
    <3>1. j \in Agency!Candidates /\ candidate[j].status = "ACTIVE" /\ candidate[j].customer = {d}
      BY DEF Agency!ActiveOf
    <3>2. j = k BY <1>4, <2>1, <3>1
    <3>3. d = c BY <1>3, <3>1, <3>2
    <3> QED BY <1>1, <3>2, <3>3 DEF Agency!Resolves
  <2> QED BY <2>1 DEF Agency!BindsInForce
<1> QED BY <1>3, <1>4, <1>6, <1>7

LEMMA AgencyEndedLegally ==
  ASSUME AgencyGiven, AgencyInv, NEW ks \in SUBSET Agency!Candidates,
         \A k \in ks : candidate[k].status = "ACTIVE",
         candidate' = Agency!Ended(ks, "INVALIDATED") \/ candidate' = Agency!Ended(ks, "REJECTED")
            \/ candidate' = candidate
  PROVE  /\ Agency!CandidateKeepsCustomer /\ Agency!BindsInForce
         /\ \A k \in Agency!Candidates : candidate[k].status \notin {"NONE", "ACTIVE"}
             => candidate'[k] = candidate[k]
<1>1. \A k \in Agency!Candidates : AgencyMoved(k)
  <2>1. CASE candidate' = candidate BY <2>1 DEF AgencyMoved
  <2>2. CASE candidate' = Agency!Ended(ks, "INVALIDATED")
    <3>1. "INVALIDATED" \in AgencyEnds \ {"CONFIRMED"} BY DEF AgencyEnds
    <3> QED BY <2>2, <3>1, AgencyEndedMoved
  <2>3. CASE candidate' = Agency!Ended(ks, "REJECTED")
    <3>1. "REJECTED" \in AgencyEnds \ {"CONFIRMED"} BY DEF AgencyEnds
    <3> QED BY <2>3, <3>1, AgencyEndedMoved
  <2> QED BY <2>1, <2>2, <2>3
<1> QED BY <1>1, AgencyMovedLegally

LEMMA AgencyCandidatesStep ==
  ASSUME AgencyGiven, AgencyInv, Agency!Next
  PROVE  /\ Agency!CandidateKeepsCustomer /\ Agency!BindsInForce
         /\ \A k \in Agency!Candidates : candidate[k].status \notin {"NONE", "ACTIVE"}
             => candidate'[k] = candidate[k]
<1> DEFINE Legal ==
      /\ Agency!CandidateKeepsCustomer /\ Agency!BindsInForce
      /\ \A k \in Agency!Candidates : candidate[k].status \notin {"NONE", "ACTIVE"}
          => candidate'[k] = candidate[k]
<1>1. CASE candidate' = candidate
  <2>1. {} \in SUBSET Agency!Candidates /\ \A k \in {} : candidate[k].status = "ACTIVE"
    OBVIOUS
  <2> QED BY <1>1, <2>1, AgencyEndedLegally
<1>2. ASSUME NEW a \in Agents, Agency!RotateInvite(a) \/ Agency!DisableInvite(a) PROVE Legal
  <2>1. PICK i : candidate' = Agency!Ended(Agency!CandidatesOfInvite(i), "INVALIDATED")
    BY <1>2 DEF Agency!RotateInvite, Agency!DisableInvite
  <2> QED BY <2>1, AgencyCutOf, AgencyEndedLegally
<1>3. ASSUME NEW a \in Agents, Agency!DisableAgent(a) PROVE Legal
  <2>1. candidate' = Agency!Ended(Agency!CandidatesOfAgent(a), "INVALIDATED")
     /\ candidate \in [Agency!Candidates -> AgencyCandidateRow]
    BY <1>3 DEF Agency!DisableAgent, AgencyInv, AgencyCandidatesRight
  <2> QED BY <2>1, AgencyCutOfAgent, AgencyEndedLegally
<1>4. ASSUME NEW c \in Customers, Agency!DeleteCustomer(c) \/ (\E to : Agency!Transfer(c, to)) PROVE Legal
  <2>1. candidate' = Agency!Ended(Agency!ActiveOf(c), "INVALIDATED")
    BY <1>4 DEF Agency!DeleteCustomer, Agency!Transfer
  <2> QED BY <2>1, AgencyWaiting, AgencyEndedLegally
<1>5. ASSUME NEW c \in Customers, Agency!Reject(c) PROVE Legal
  <2>1. PICK k \in Agency!ActiveOf(c) : candidate' = Agency!Ended({k}, "REJECTED")  BY <1>5 DEF Agency!Reject
  <2>2. {k} \in SUBSET Agency!Candidates /\ \A j \in {k} : candidate[j].status = "ACTIVE"
    BY DEF Agency!ActiveOf
  <2> QED BY <2>1, <2>2, AgencyEndedLegally
<1>6. ASSUME NEW c \in Customers, Agency!Confirm(c) PROVE Legal
  BY <1>6, AgencyConfirmLegally
<1>7. ASSUME NEW k \in Agency!Candidates,
             Agency!ExpireCandidate(k) \/ (\E c \in Customers : Agency!Migrate(c, k)) PROVE Legal
  BY <1>7, AgencyExpireCandidateInv, AgencyMigrateInv, AgencyMovedLegally
<1>8. ASSUME NEW m \in Agency!Materials,
             Agency!CreateAnonymous(m, {}) \/ (\E k \in Agency!Candidates : Agency!CreateAnonymous(m, {k}))
               \/ (\E c \in Customers : Agency!CreateForCustomer(c, m))
      PROVE  Legal
  BY <1>8, AgencyCreateAnonymousInv, AgencyCreateForCustomerInv, AgencyMovedLegally
<1> HIDE DEF Legal
<1>9. CASE Agency!Visit
  <2>1. ASSUME NEW a \in Agents,
               \/ Agency!CreateAgent(a) \/ Agency!ReactivateAgent(a) \/ Agency!AbandonMaterial(a)
                                 \/ (\E t \in Targets : Agency!PrepareMaterial(a, t))
                                     \/ (\E m \in Agency!Materials : Agency!CommitMaterial(a, m))
        PROVE  candidate' = candidate
    BY <2>1 DEF Agency!CreateAgent, Agency!ReactivateAgent, Agency!AbandonMaterial, Agency!PrepareMaterial,
       Agency!CommitMaterial
  <2>2. Legal \/ candidate' = candidate  BY <1>9, <2>1, <1>3, <1>5, <1>6, <1>7, <1>8 DEF Agency!Visit
  <2> QED BY <1>1, <2>2 DEF Legal
<1>10. CASE Agency!Withdraw
  <2>1. ASSUME NEW a \in Agents,
               Agency!EnableInvite(a) \/ Agency!ChangeAuthorization(a) PROVE candidate' = candidate
    BY <2>1 DEF Agency!EnableInvite, Agency!ChangeAuthorization
  <2>2. ASSUME (\E i \in Agency!Invites : Agency!ExpireInvite(i))
     \/ (\E m \in Agency!Materials : Agency!ExpireMaterial(m)) PROVE candidate' = candidate
    BY <2>2 DEF Agency!ExpireInvite, Agency!ExpireMaterial
  <2>3. Legal \/ candidate' = candidate BY <1>10, <2>1, <2>2, <1>2, <1>7 DEF Agency!Withdraw
  <2> QED BY <1>1, <2>3 DEF Legal
<1>11. CASE Agency!Serve
  <2>1. ASSUME NEW c \in Customers, Agency!SubmitOrder(c) \/ Agency!PayOrder(c) PROVE candidate' = candidate
    BY <2>1 DEF Agency!SubmitOrder, Agency!PayOrder, Agency!agents
  <2>2. Legal \/ candidate' = candidate BY <1>11, <2>1, <1>4 DEF Agency!Serve
  <2> QED BY <1>1, <2>2 DEF Legal
<1> QED BY <1>9, <1>10, <1>11 DEF Agency!Next, Legal

\* A rotated code is not touched any more.
LEMMA AgencyInvitesStep ==
  ASSUME AgencyGiven, AgencyInv, Agency!Next
  PROVE  \A i \in Agency!Invites : invite[i].status = "ROTATED" => invite'[i] = invite[i]
<1> SUFFICES ASSUME NEW i \in Agency!Invites, invite[i].status = "ROTATED" PROVE invite'[i] = invite[i]
  OBVIOUS
<1>1. invite \in [Agency!Invites -> AgencyInviteRow] BY DEF AgencyInv, AgencyInvitesRight
<1>2. ASSUME NEW a \in Agents, Agency!CreateAgent(a) PROVE invite'[i] = invite[i]
  <2>1. invite[Agency!Min(Agency!FreeInvites)] = Agency!NoInvite
    BY <1>2, AgencyFreeRow DEF Agency!CreateAgent
  <2>2. Agency!Min(Agency!FreeInvites) # i BY <2>1 DEF Agency!NoInvite
  <2> QED BY <1>1, <1>2, <2>2 DEF Agency!CreateAgent
<1>3. ASSUME NEW a \in Agents, Agency!RotateInvite(a) PROVE invite'[i] = invite[i]
  <2>1. PICK f : f = Agency!Min(Agency!FreeInvites) /\ invite[f] = Agency!NoInvite
    BY <1>3, AgencyFreeRow DEF Agency!RotateInvite
  <2>2. PICK j \in Agency!Manageable(a) :
          invite' = [invite EXCEPT
                ![j].status = IF @ \in {"ACTIVE", "DISABLED"} THEN "ROTATED" ELSE @,
                ![f] = [agent |-> {a}, status |-> "ACTIVE", expired |-> FALSE]]
    BY <1>3, <2>1 DEF Agency!RotateInvite
  <2>3. f # i BY <2>1 DEF Agency!NoInvite
  <2>4. CASE j # i BY <1>1, <2>2, <2>3, <2>4
  <2>5. CASE j = i
    <3>1. invite'[i] = [invite[i] EXCEPT !.status = "ROTATED"] BY <1>1, <2>2, <2>3, <2>5
    <3>2. invite[i] \in AgencyInviteRow BY <1>1
    <3> QED BY <3>1, <3>2 DEF AgencyInviteRow
  <2> QED BY <2>4, <2>5
<1>4. ASSUME NEW a \in Agents, Agency!DisableInvite(a) \/ Agency!EnableInvite(a) PROVE invite'[i] = invite[i]
  BY <1>1, <1>4 DEF Agency!DisableInvite, Agency!EnableInvite, Agency!Mutable, Agency!InvitesOf
<1>5. ASSUME NEW j \in Agency!Invites, Agency!ExpireInvite(j) PROVE invite'[i] = invite[i]
  BY <1>1, <1>5 DEF Agency!ExpireInvite
<1>6. CASE Agency!Visit
  <2>1. ASSUME NEW a \in Agents,
               \/ Agency!DisableAgent(a) \/ Agency!ReactivateAgent(a) \/ Agency!AbandonMaterial(a)
                                 \/ (\E t \in Targets : Agency!PrepareMaterial(a, t))
                                     \/ (\E m \in Agency!Materials : Agency!CommitMaterial(a, m))
        PROVE  invite' = invite
    BY <2>1 DEF Agency!DisableAgent, Agency!ReactivateAgent, Agency!AbandonMaterial, Agency!PrepareMaterial,
       Agency!CommitMaterial
  <2>2. ASSUME NEW m \in Agency!Materials,
               Agency!CreateAnonymous(m, {}) \/ (\E k \in Agency!Candidates : Agency!CreateAnonymous(m, {k}))
                 \/ (\E c \in Customers : Agency!CreateForCustomer(c, m))
        PROVE  invite' = invite
    BY <2>2 DEF Agency!CreateAnonymous, Agency!CreateForCustomer, Agency!agents
  <2>3. ASSUME NEW c \in Customers,
               Agency!Confirm(c) \/ Agency!Reject(c)
                  \/ (\E k \in Agency!Candidates : Agency!Migrate(c, k)) PROVE invite' = invite
    BY <2>3 DEF Agency!Confirm, Agency!Reject, Agency!Migrate, Agency!agents
  <2> QED BY <1>2, <1>6, <2>1, <2>2, <2>3 DEF Agency!Visit
<1>7. CASE Agency!Withdraw
  <2>1. ASSUME NEW a \in Agents, Agency!ChangeAuthorization(a) PROVE invite' = invite
    BY <2>1 DEF Agency!ChangeAuthorization
  <2>2. ASSUME (\E m \in Agency!Materials : Agency!ExpireMaterial(m))
     \/ (\E k \in Agency!Candidates : Agency!ExpireCandidate(k)) PROVE invite' = invite
    BY <2>2 DEF Agency!ExpireMaterial, Agency!ExpireCandidate, Agency!agents
  <2> QED BY <1>3, <1>4, <1>5, <1>7, <2>1, <2>2 DEF Agency!Withdraw
<1>8. CASE Agency!Serve
  BY <1>8 DEF Agency!Serve, Agency!SubmitOrder, Agency!PayOrder, Agency!DeleteCustomer, Agency!Transfer,
     Agency!agents
<1> QED BY <1>6, <1>7, <1>8 DEF Agency!Next

\* Only CommitMaterial makes material usable.
LEMMA AgencyMaterialsStep ==
  ASSUME AgencyGiven, AgencyInv, Agency!Next
  PROVE  Agency!MakesMaterialOfCurrentCode
<1> SUFFICES ASSUME NEW m \in Agency!Materials, material[m] # "ACTIVE", material'[m] = "ACTIVE"
             PROVE  invite[m[1]].status = "ACTIVE" /\ \E a \in enabled : invite[m[1]].agent = {a}
  BY DEF Agency!MakesMaterialOfCurrentCode
<1>1. material \in [Agency!Materials -> {"NONE", "ACTIVE", "EXPIRED"}]  BY DEF AgencyInv, AgencyMaterialsRight
<1>2. PICK a \in Agents : Agency!CommitMaterial(a, m)
  <2>1. CASE Agency!Visit
    <3>1. ASSUME NEW a \in Agents,
                 \/ Agency!CreateAgent(a) \/ Agency!DisableAgent(a) \/ Agency!ReactivateAgent(a)
                     \/ Agency!AbandonMaterial(a)
                                   \/ (\E t \in Targets : Agency!PrepareMaterial(a, t))
          PROVE  material' = material
      BY <3>1 DEF Agency!CreateAgent, Agency!DisableAgent, Agency!ReactivateAgent, Agency!AbandonMaterial,
         Agency!PrepareMaterial
    <3>2. ASSUME NEW n \in Agency!Materials,
                 Agency!CreateAnonymous(n, {}) \/ (\E k \in Agency!Candidates : Agency!CreateAnonymous(n, {k}))
                   \/ (\E c \in Customers : Agency!CreateForCustomer(c, n))
          PROVE  material' = material
      BY <3>2 DEF Agency!CreateAnonymous, Agency!CreateForCustomer, Agency!agents
    <3>3. ASSUME NEW c \in Customers,
                 Agency!Confirm(c) \/ Agency!Reject(c) \/ (\E k \in Agency!Candidates : Agency!Migrate(c, k))
          PROVE  material' = material
      BY <3>3 DEF Agency!Confirm, Agency!Reject, Agency!Migrate, Agency!agents
    <3>4. PICK a \in Agents, n \in Agency!Materials : Agency!CommitMaterial(a, n)
      BY <2>1, <3>1, <3>2, <3>3 DEF Agency!Visit
    <3>5. n = m BY <1>1, <3>4 DEF Agency!CommitMaterial
    <3> QED BY <3>4, <3>5
  <2>2. CASE Agency!Withdraw
    <3>1. ASSUME NEW a \in Agents,
                 Agency!RotateInvite(a) \/ Agency!DisableInvite(a) \/ Agency!EnableInvite(a)
                    \/ Agency!ChangeAuthorization(a)
          PROVE  material' = material
      BY <3>1 DEF Agency!RotateInvite, Agency!DisableInvite, Agency!EnableInvite, Agency!ChangeAuthorization
    <3>2. ASSUME (\E i \in Agency!Invites : Agency!ExpireInvite(i))
       \/ (\E k \in Agency!Candidates : Agency!ExpireCandidate(k))
          PROVE  material' = material
      BY <3>2 DEF Agency!ExpireInvite, Agency!ExpireCandidate, Agency!agents
    <3>3. ASSUME NEW n \in Agency!Materials, Agency!ExpireMaterial(n) PROVE FALSE
      BY <1>1, <3>3 DEF Agency!ExpireMaterial
    <3> QED BY <2>2, <3>1, <3>2, <3>3 DEF Agency!Withdraw
  <2>3. CASE Agency!Serve
    BY <2>3 DEF Agency!Serve, Agency!SubmitOrder, Agency!PayOrder, Agency!DeleteCustomer, Agency!Transfer,
       Agency!agents
  <2> QED BY <2>1, <2>2, <2>3 DEF Agency!Next
<1>3. Agency!CurrentInvite(a) = {m[1]} /\ a \in enabled  BY <1>2 DEF Agency!CommitMaterial, Agency!MayPromote
<1> QED BY <1>3 DEF Agency!CurrentInvite, Agency!InvitesOf

--------------------------------
\* Customers' accounts, for any number of identities, devices, requests,
\* accounts, sessions and addresses.  The tokens of a family are presented
\* once each (SessionsRight), a request knows the addresses of its account
\* as they are or as they were (RequestsRight), and who has left keeps
\* nothing, whatever was under way (DeletedRight).

\* The operators of the libraries, as the instance names them.
LEMMA AccountPlain ==
  /\ \A S : Account!IsFiniteSet(S) = IsFiniteSet(S)
  /\ \A S : Account!Cardinality(S) = Cardinality(S)
<1>1. \A S : Account!IsFiniteSet(S) = IsFiniteSet(S) BY DEF Account!IsFiniteSet, IsFiniteSet
<1>2. \A S : Account!Cardinality(S) = Cardinality(S) BY DEF Account!Cardinality, Cardinality
<1> QED BY <1>1, <1>2

LEMMA AccountFS_EmptySet ==
  /\ Account!IsFiniteSet({}) /\ Account!Cardinality({}) = 0
  /\ \A S : Account!IsFiniteSet(S) => (Account!Cardinality(S) = 0 <=> S = {})
BY FS_EmptySet, AccountPlain

LEMMA AccountFS_Singleton ==
  /\ \A e : Account!IsFiniteSet({e}) /\ Account!Cardinality({e}) = 1
  /\ \A S : Account!IsFiniteSet(S) => (Account!Cardinality(S) = 1 <=> \E e : S = {e})
BY FS_Singleton, AccountPlain

AccountGiven == Account!AccountAssumption

AccountRow == [status: {"NONE", "ACTIVE", "ANONYMIZED"}, openId: SUBSET OpenIds, version: 0 .. 2]
AccountSessionRow == [account: 0 .. MaxAccounts, family: 0 .. SignInCount,
               revoked: BOOLEAN, expired: BOOLEAN, hashed: BOOLEAN]
AccountAddressRow == [status: {"NONE", "ACTIVE", "DELETED"}, isDefault: BOOLEAN, version: Nat]
AccountRequestRow == [session: Account!Sessions, shown: [Account!Places -> AccountAddressRow]]

AccountsRight ==
    /\ customer \in [Account!Accounts -> AccountRow]
    /\ \A a \in Account!Accounts : /\ customer[a].status = "NONE" => customer[a] = Account!NoAccount
                                   /\ customer[a].status = "ACTIVE" => customer[a].version = 1
    /\ \A o \in OpenIds : \A a, b \in Account!Accounts :
          o \in customer[a].openId /\ o \in customer[b].openId => a = b

\* A token that was presented is no longer good, and its family is at an end
\* when it is presented again.
AccountSessionsRight ==
    /\ signIn \in [Account!Sessions -> AccountSessionRow]
    /\ held \in [Holders -> SUBSET Account!Sessions]
    /\ presented \in [Account!Sessions -> 0 .. 2]
    /\ ended \subseteq Account!Sessions
    /\ \A s \in Account!Sessions :
          IF signIn[s].account = 0 THEN signIn[s] = Account!NoSession /\ presented[s] = 0 /\ s \notin ended
          ELSE /\ signIn[s].family \in Account!Sessions /\ signIn[signIn[s].family].account = signIn[s].account
               /\ customer[signIn[s].account].status # "NONE"
    /\ \A s \in Account!Sessions : presented[s] > 0 => signIn[s].revoked
    /\ \A s, t \in Account!Sessions : Account!Live(s) /\ Account!Live(t) /\ signIn[s].family = signIn[t].family
        => s = t
    /\ Account!EndedFamilyStaysEnded /\ Account!ReuseEndsFamily

AccountAddressesRight ==
    /\ address \in [Account!Accounts -> [Account!Places -> AccountAddressRow]]
    /\ \A a \in Account!Accounts : \A p \in Account!Places : address[a][p].status = "NONE"
        => address[a][p] = Account!NoAddress
    /\ \A a \in Account!Accounts :
          /\ \A p, q \in Account!Default(a) : p = q
          /\ \A p, q \in Account!Book(a) : p # q => Account!Default(a) # {}

\* What a request was shown is not newer than what is there, and of one
\* version there is one address.
AccountAsShown(r, p) ==
    LET row == address[Account!Caller(r)][p] IN
    /\ request[r].shown[p].version <= row.version
    /\ request[r].shown[p].version = row.version => request[r].shown[p] = row

AccountRequestsRight ==
    /\ request \in [HttpRequests -> AccountRequestRow \union {Account!Idle}]
    /\ \A r \in HttpRequests : request[r] # Account!Idle =>
          /\ Account!Caller(r) # 0
          /\ Account!Active(Account!Caller(r)) => \A p \in Account!Places : AccountAsShown(r, p)

AccountDeletedRight ==
    /\ owned \in [Account!Accounts -> SUBSET Belongings]
    /\ underway \in [Account!Accounts -> SUBSET Blockers]
    /\ Account!AnonymizedKeepsNothing /\ Account!NothingLeftUnderway

AccountInv == AccountsRight /\ AccountSessionsRight /\ AccountAddressesRight /\ AccountRequestsRight
   /\ AccountDeletedRight

LEMMA AccountNumbers ==
  ASSUME AccountGiven
  PROVE  /\ MaxAccounts \in Nat \ {0} /\ SignInCount \in Nat \ {0} /\ MaxAddresses \in Nat
             /\ AddressVersions \in Nat
         /\ Account!Accounts \subseteq Nat \ {0} /\ Account!Sessions \subseteq Nat \ {0}
             /\ Account!Places \subseteq Nat \ {0}
         /\ 0 \notin Account!Accounts /\ 0 \notin Account!Sessions
BY DEF AccountGiven, Account!AccountAssumption, Account!Accounts, Account!Sessions, Account!Places

\* A nonempty set of numbers has a least member.
LEMMA AccountLeast ==
  ASSUME NEW T \in SUBSET Nat, T # {}
  PROVE  Account!Min(T) \in T
<1> DEFINE R == OpToRel(<, Nat)
<1>1. IsWellFoundedOn(R, Nat) BY NatLessThanWellFounded
<1> HIDE DEF R
<1>2. PICK m \in T : \A n \in T : ~(<<n, m>> \in R) BY <1>1, WFMin
<1>3. R = {pair \in Nat \X Nat : pair[1] < pair[2]} BY Zenon DEF R, OpToRel
<1>4. ASSUME NEW n \in T PROVE m <= n
  <2>1. m \in Nat /\ n \in Nat
    OBVIOUS
  <2>2. <<n, m>> \notin R BY <1>2
  <2>3. ~(n < m) BY <1>3, <2>1, <2>2
  <2> QED BY <2>1, <2>3
<1>5. \E m1 \in T : \A n \in T : m1 <= n BY <1>4
<1> QED BY <1>5 DEF Account!Min

\* How often a token was presented is counted to two.
LEMMA AccountCounted ==
  ASSUME NEW n \in 0 .. 2
  PROVE  Account!Min({n + 1, 2}) = IF n = 0 THEN 1 ELSE 2
<1>1. {n + 1, 2} \in SUBSET Nat /\ {n + 1, 2} # {}
  OBVIOUS
<1>2. Account!Min({n + 1, 2}) \in {n + 1, 2} BY <1>1, AccountLeast
<1>3. \E m \in {n + 1, 2} : \A k \in {n + 1, 2} : m <= k
  <2>1. CASE n = 0 BY <2>1
  <2>2. CASE n # 0 BY <2>2
  <2> QED BY <2>1, <2>2
<1>4. Account!Min({n + 1, 2}) = CHOOSE m \in {n + 1, 2} : \A k \in {n + 1, 2} : m <= k  BY DEF Account!Min
<1>5. \A k \in {n + 1, 2} : Account!Min({n + 1, 2}) <= k BY <1>3, <1>4
<1> QED BY <1>2, <1>5

LEMMA AccountFreeSession ==
  ASSUME AccountGiven, Account!FreeSessions # {}
  PROVE  Account!Min(Account!FreeSessions) \in Account!Sessions
     /\ signIn[Account!Min(Account!FreeSessions)] = Account!NoSession
<1>1. Account!FreeSessions \in SUBSET Nat BY AccountNumbers DEF Account!FreeSessions
<1>2. Account!Min(Account!FreeSessions) \in Account!FreeSessions BY <1>1, AccountLeast
<1> QED BY <1>2 DEF Account!FreeSessions

LEMMA AccountInitially ==
  ASSUME AccountGiven, Account!Init
  PROVE  AccountInv
<1>1. Account!NoAccount \in AccountRow /\ Account!NoSession \in AccountSessionRow
   /\ Account!NoAddress \in AccountAddressRow
  BY AccountNumbers DEF Account!NoAccount, AccountRow, Account!NoSession, AccountSessionRow,
     Account!NoAddress, AccountAddressRow
<1>2. AccountsRight BY <1>1 DEF Account!Init, AccountsRight, Account!NoAccount
<1>3. AccountSessionsRight
  BY <1>1 DEF Account!Init, AccountSessionsRight, Account!NoSession, Account!Live,
     Account!EndedFamilyStaysEnded, Account!ReuseEndsFamily
<1>4. AccountAddressesRight
  BY <1>1 DEF Account!Init, AccountAddressesRight, Account!Default, Account!Book, Account!NoAddress
<1>5. AccountRequestsRight BY DEF Account!Init, AccountRequestsRight
<1>6. AccountDeletedRight
  BY DEF Account!Init, AccountDeletedRight, Account!AnonymizedKeepsNothing, Account!NothingLeftUnderway,
     Account!NoAccount
<1> QED BY <1>2, <1>3, <1>4, <1>5, <1>6 DEF AccountInv

--------------------------------
\* The parts that a step does not touch.

LEMMA AccountSessionsStay ==
  ASSUME AccountGiven, AccountInv, UNCHANGED <<customer, signIn, held, presented, ended>>
  PROVE  AccountsRight' /\ AccountSessionsRight'
BY DEF AccountInv, AccountsRight, AccountSessionsRight, Account!Live, Account!EndedFamilyStaysEnded,
   Account!ReuseEndsFamily, Account!FamilyOf

LEMMA AccountAddressesStay ==
  ASSUME AccountGiven, AccountInv, UNCHANGED address
  PROVE  AccountAddressesRight'
BY DEF AccountInv, AccountAddressesRight, Account!Default, Account!Book

\* Sessions keep their account, and requests end.
LEMMA AccountRequestsStay ==
  ASSUME AccountGiven, AccountInv, UNCHANGED address,
         \A s \in Account!Sessions : signIn[s].account # 0 => signIn'[s].account = signIn[s].account,
         \A a \in Account!Accounts : customer'[a].status = "ACTIVE" /\ customer[a].status # "ACTIVE"
            => customer[a].status = "NONE",
         request' = request \/ (\E r \in HttpRequests : Account!Answered(r))
  PROVE  AccountRequestsRight'
<1>1. request' \in [HttpRequests -> AccountRequestRow \union {Account!Idle}]
  BY DEF AccountInv, AccountRequestsRight, Account!Answered
<1>2. ASSUME NEW r \in HttpRequests, request'[r] # Account!Idle
      PROVE  request'[r] = request[r] /\ request[r] # Account!Idle
  BY <1>2 DEF AccountInv, AccountRequestsRight, Account!Answered
<1>3. ASSUME NEW r \in HttpRequests, request'[r] # Account!Idle
      PROVE  /\ Account!Caller(r)' = Account!Caller(r) /\ Account!Caller(r) # 0
                 /\ Account!Caller(r) \in Account!Accounts
             /\ customer[Account!Caller(r)].status # "NONE"
  <2>1. request'[r] = request[r] /\ request[r] # Account!Idle BY <1>2, <1>3
  <2>2. request[r].session \in Account!Sessions
    BY <2>1 DEF AccountInv, AccountRequestsRight, AccountRequestRow
  <2>3. signIn[request[r].session].account # 0  BY <2>1 DEF AccountInv, AccountRequestsRight, Account!Caller
  <2>4. signIn[request[r].session].account \in Account!Accounts
     /\ customer[signIn[request[r].session].account].status # "NONE"
    BY <2>2, <2>3, AccountNumbers DEF AccountInv, AccountSessionsRight, AccountSessionRow, Account!Accounts
  <2> QED BY <2>1, <2>2, <2>3, <2>4 DEF Account!Caller
<1>4. ASSUME NEW r \in HttpRequests, request'[r] # Account!Idle, Account!Active(Account!Caller(r))',
             NEW p \in Account!Places
      PROVE  AccountAsShown(r, p)'
  <2>1. Account!Active(Account!Caller(r)) BY <1>3, <1>4 DEF Account!Active
  <2>2. AccountAsShown(r, p) BY <1>2, <1>4, <2>1 DEF AccountInv, AccountRequestsRight
  <2> QED BY <1>2, <1>3, <1>4, <2>2 DEF AccountAsShown
<1> QED BY <1>1, <1>3, <1>4 DEF AccountRequestsRight

\* Nothing of an account but its sessions, and those only as they were or worse.
LEMMA AccountDeletedStay ==
  ASSUME AccountGiven, AccountInv, UNCHANGED <<owned, address, underway>>,
         \A a \in Account!Accounts : customer'[a].status = "ANONYMIZED" => customer'[a] = customer[a],
         \A t \in Account!Sessions : signIn'[t].account \in Account!Accounts
            /\ customer[signIn'[t].account].status = "ANONYMIZED"
            => \/ signIn'[t] = signIn[t]
               \/ signIn[t].account = signIn'[t].account /\ signIn'[t].revoked
                   /\ signIn'[t].hashed = signIn[t].hashed
  PROVE  AccountDeletedRight'
<1>1. ASSUME NEW a \in Account!Accounts, customer'[a].status = "ANONYMIZED", NEW t \in Account!Sessions,
             signIn'[t].account = a
      PROVE  ~(signIn'[t].account # 0 /\ ~signIn'[t].revoked) /\ ~signIn'[t].hashed
  <2>1. customer[a].status = "ANONYMIZED" BY <1>1
  <2>2. signIn[t].account = a BY <1>1, <2>1
  <2>3. ~Account!Live(t) /\ ~signIn[t].hashed
    BY <2>1, <2>2 DEF AccountInv, AccountDeletedRight, Account!AnonymizedKeepsNothing
  <2> QED BY <1>1, <2>1, <2>2, <2>3 DEF Account!Live
<1>2. Account!AnonymizedKeepsNothing'
  BY <1>1 DEF AccountInv, AccountDeletedRight, Account!AnonymizedKeepsNothing, Account!Live
<1>3. Account!NothingLeftUnderway'  BY DEF AccountInv, AccountDeletedRight, Account!NothingLeftUnderway
<1> QED BY <1>2, <1>3 DEF AccountInv, AccountDeletedRight

--------------------------------
\* Sessions.

\* The account an identity signs in to is its own, or a new one.
LEMMA AccountResolvedAccount ==
  ASSUME AccountGiven, AccountInv, NEW o \in OpenIds, NEW a \in Account!Resolved(o)
  PROVE  /\ a \in Account!Accounts
         /\ \/ o \in customer[a].openId
            \/ customer[a] = Account!NoAccount /\ \A b \in Account!Accounts : o \notin customer[b].openId
<1> DEFINE known == {b \in Account!Accounts : o \in customer[b].openId}
           fresh == {b \in Account!Accounts : customer[b] = Account!NoAccount}
<1>1. CASE known # {} BY <1>1 DEF Account!Resolved
<1>2. CASE known = {}
  <2>1. fresh # {} /\ a = Account!Min(fresh) BY <1>2 DEF Account!Resolved
  <2>2. fresh \in SUBSET Nat BY AccountNumbers
  <2>3. Account!Min(fresh) \in fresh BY <2>1, <2>2, AccountLeast
  <2> QED BY <1>2, <2>1, <2>3
<1> QED BY <1>1, <1>2

LEMMA AccountLoginInv ==
  ASSUME AccountGiven, AccountInv, NEW h \in Holders, NEW o \in OpenIds, Account!Login(h, o)
  PROVE  AccountInv'
<1>1. PICK a \in Account!Resolved(o), s \in Account!Sessions :
        /\ signIn[s] = Account!NoSession /\ (customer[a] = Account!NoAccount \/ Account!Active(a))
        /\ customer' = [customer EXCEPT ![a] =
              IF customer[a] = Account!NoAccount THEN [status |-> "ACTIVE", openId |-> {o}, version |-> 1] ELSE customer[a]]
        /\ signIn' = [signIn EXCEPT ![s] = Account!NewSession(a, s)]
        /\ held' = [held EXCEPT ![h] = held[h] \union {s}]
        /\ UNCHANGED <<owned, address, underway, preview, request, presented, ended>>
  <2>1. PICK a \in Account!Resolved(o) :
        /\ customer[a] = Account!NoAccount \/ Account!Active(a)
        /\ Account!FreeSessions # {}
        /\ customer' = [customer EXCEPT ![a] =
              IF customer[a] = Account!NoAccount THEN [status |-> "ACTIVE", openId |-> {o}, version |-> 1] ELSE customer[a]]
        /\ signIn' = [signIn EXCEPT ![Account!Min(Account!FreeSessions)] = Account!NewSession(a, Account!Min(Account!FreeSessions))]
        /\ held' = [held EXCEPT ![h] = held[h] \union {Account!Min(Account!FreeSessions)}]
        /\ UNCHANGED <<owned, address, underway, preview, request, presented, ended>>
    BY DEF Account!Login, Account!data
  <2> QED BY <2>1, AccountFreeSession
<1>2. /\ a \in Account!Accounts
      /\ \/ o \in customer[a].openId
         \/ customer[a] = Account!NoAccount /\ \A b \in Account!Accounts : o \notin customer[b].openId
  BY AccountResolvedAccount
<1>3. /\ customer \in [Account!Accounts -> AccountRow] /\ signIn \in [Account!Sessions -> AccountSessionRow]
      /\ held \in [Holders -> SUBSET Account!Sessions]
  BY DEF AccountInv, AccountsRight, AccountSessionsRight
<1>4. /\ Account!NoAccount.status = "NONE" /\ Account!NoAccount.openId = {} /\ Account!NoSession.account = 0
      /\ Account!NewSession(a, s) \in AccountSessionRow /\ Account!NewSession(a, s).account = a
          /\ Account!NewSession(a, s).family = s
      /\ ~Account!NewSession(a, s).revoked
      /\ [status |-> "ACTIVE", openId |-> {o}, version |-> 1] \in AccountRow
  BY <1>2, AccountNumbers DEF Account!NoAccount, Account!NoSession, Account!NewSession, AccountSessionRow,
     AccountRow, Account!Accounts, Account!Sessions
<1>5. /\ \A t \in Account!Sessions : signIn'[t] = IF t = s THEN Account!NewSession(a, s) ELSE signIn[t]
      /\ \A b \in Account!Accounts : b # a => customer'[b] = customer[b]
      /\ customer[a] = Account!NoAccount => customer'[a] = [status |-> "ACTIVE", openId |-> {o}, version |-> 1]
      /\ customer[a] # Account!NoAccount => customer'[a] = customer[a]
      /\ customer' \in [Account!Accounts -> AccountRow] /\ signIn' \in [Account!Sessions -> AccountSessionRow]
      /\ held' \in [Holders -> SUBSET Account!Sessions]
  BY <1>1, <1>2, <1>3, <1>4
<1>6. AccountsRight'
  <2>1. ASSUME NEW b \in Account!Accounts
        PROVE  /\ customer'[b].status = "NONE" => customer'[b] = Account!NoAccount
               /\ customer'[b].status = "ACTIVE" => customer'[b].version = 1
    BY <1>5 DEF AccountInv, AccountsRight
  <2>2. ASSUME NEW i \in OpenIds, NEW b \in Account!Accounts, NEW c \in Account!Accounts,
               i \in customer'[b].openId, i \in customer'[c].openId
        PROVE  b = c
    <3>1. CASE customer[a] # Account!NoAccount BY <1>5, <2>2, <3>1 DEF AccountInv, AccountsRight
    <3>2. CASE customer[a] = Account!NoAccount
      <4>1. customer'[a].openId = {o} /\ \A d \in Account!Accounts : o \notin customer[d].openId
        BY <1>2, <1>4, <1>5, <3>2
      <4> QED BY <1>5, <2>2, <4>1 DEF AccountInv, AccountsRight
    <3> QED BY <3>1, <3>2
  <2> QED BY <1>5, <2>1, <2>2 DEF AccountsRight
<1>7. \A t \in Account!Sessions : t # s => /\ (Account!Live(t)' <=> Account!Live(t)) /\ signIn'[t] = signIn[t]
                                           /\ (signIn[t].account # 0 => signIn[t].family # s)
  <2>1. signIn[s].account = 0 BY <1>1, <1>4
  <2>2. \A t \in Account!Sessions : signIn[t].account # 0 => signIn[signIn[t].family].account = signIn[t].account
    BY DEF AccountInv, AccountSessionsRight
  <2> QED BY <1>5, <2>1, <2>2 DEF Account!Live
<1>8. presented[s] = 0 /\ s \notin ended /\ signIn[s].account = 0
  BY <1>1, <1>4 DEF AccountInv, AccountSessionsRight
<1>9. AccountSessionsRight'
  <2>1. ASSUME NEW t \in Account!Sessions
        PROVE  IF signIn'[t].account = 0 THEN signIn'[t] = Account!NoSession /\ presented'[t] = 0
           /\ t \notin ended'
               ELSE /\ signIn'[t].family \in Account!Sessions
                        /\ signIn'[signIn'[t].family].account = signIn'[t].account
                    /\ customer'[signIn'[t].account].status # "NONE"
    <3>1. CASE t = s
      <4>1. signIn'[t].account = a /\ signIn'[t].family = s /\ a # 0
        BY <1>2, <1>4, <1>5, <3>1, AccountNumbers
      <4>2. customer'[a].status # "NONE" BY <1>1, <1>5 DEF Account!Active
      <4> QED BY <4>1, <4>2, <3>1
    <3>2. CASE t # s
      <4>1. CASE signIn[t].account = 0  BY <1>1, <1>5, <3>2, <4>1 DEF AccountInv, AccountSessionsRight
      <4>2. CASE signIn[t].account # 0
        <5>1. /\ signIn[t].family \in Account!Sessions /\ signIn[signIn[t].family].account = signIn[t].account
              /\ customer[signIn[t].account].status # "NONE" /\ signIn[t].account \in Account!Accounts
          BY <1>3, <4>2, AccountNumbers DEF AccountInv, AccountSessionsRight, AccountSessionRow, Account!Accounts
        <5>2. customer'[signIn[t].account].status # "NONE" BY <1>4, <1>5, <5>1
        <5> QED BY <1>5, <1>7, <3>2, <4>2, <5>1, <5>2
      <4> QED BY <4>1, <4>2
    <3> QED BY <3>1, <3>2
  <2>2. ASSUME NEW t \in Account!Sessions, presented'[t] > 0 PROVE signIn'[t].revoked
    <3>1. presented[t] > 0 /\ t # s BY <1>1, <1>8, <2>2
    <3> QED BY <1>5, <3>1 DEF AccountInv, AccountSessionsRight
  <2>3. ASSUME NEW t \in Account!Sessions, NEW u \in Account!Sessions, Account!Live(t)', Account!Live(u)',
               signIn'[t].family = signIn'[u].family
        PROVE  t = u
    <3>1. CASE t = s \/ u = s
      <4>1. \A v \in Account!Sessions : v # s /\ signIn'[v].account # 0 => signIn'[v].family # s  BY <1>7
      <4>2. signIn'[s].family = s BY <1>4, <1>5
      <4> QED BY <2>3, <3>1, <4>1, <4>2 DEF Account!Live
    <3>2. CASE t # s /\ u # s BY <1>7, <2>3, <3>2 DEF AccountInv, AccountSessionsRight
    <3> QED BY <3>1, <3>2
  <2>4. Account!EndedFamilyStaysEnded'
    <3>1. ASSUME NEW f \in ended, NEW t \in Account!Sessions, signIn'[t].account # 0,
                 signIn'[t].family = f PROVE ~Account!Live(t)'
      <4>1. t # s BY <1>4, <1>5, <1>8, <3>1
      <4> QED BY <1>7, <3>1, <4>1 DEF AccountInv, AccountSessionsRight, Account!EndedFamilyStaysEnded,
         Account!FamilyOf
    <3> QED BY <1>1, <3>1 DEF Account!EndedFamilyStaysEnded, Account!FamilyOf
  <2>5. Account!ReuseEndsFamily'
    BY <1>1, <1>5, <1>8 DEF AccountInv, AccountSessionsRight, Account!ReuseEndsFamily
  <2> QED BY <1>1, <1>5, <2>1, <2>2, <2>3, <2>4, <2>5 DEF AccountInv, AccountSessionsRight
<1>10. AccountRequestsRight'
  <2>1. \A t \in Account!Sessions : signIn[t].account # 0 => signIn'[t].account = signIn[t].account
    BY <1>5, <1>8
  <2>2. \A b \in Account!Accounts : customer'[b].status = "ACTIVE" /\ customer[b].status # "ACTIVE"
     => customer[b].status = "NONE"
    BY <1>4, <1>5
  <2> QED BY <1>1, <2>1, <2>2, AccountRequestsStay
<1>11. AccountDeletedRight'
  <2>1. \A b \in Account!Accounts : customer'[b].status = "ANONYMIZED" => customer'[b] = customer[b]  BY <1>5
  <2>2. customer[a].status # "ANONYMIZED" BY <1>1, <1>4 DEF Account!Active
  <2>3. \A t \in Account!Sessions : signIn'[t].account \in Account!Accounts
     /\ customer[signIn'[t].account].status = "ANONYMIZED"
            => signIn'[t] = signIn[t]
    BY <1>4, <1>5, <2>2
  <2> QED BY <1>1, <2>1, <2>3, AccountDeletedStay
<1> QED BY <1>1, <1>6, <1>9, <1>10, <1>11, AccountAddressesStay DEF AccountInv

\* A family is revoked as a whole, and is at an end.
LEMMA AccountRevoking ==
  ASSUME AccountGiven, AccountInv, NEW s \in Account!Sessions, signIn[s].account # 0,
         signIn' = Account!RevokedIn(signIn[s].family), ended' = ended \union {signIn[s].family},
         UNCHANGED <<customer, held, owned, address, underway>>,
         \/ presented' = presented
         \/ presented' = [presented EXCEPT ![s] = Account!Min({presented[s] + 1, 2})],
         request' = request \/ (\E r \in HttpRequests : Account!Answered(r))
  PROVE  AccountInv'
<1> DEFINE f == signIn[s].family
<1>1. /\ signIn \in [Account!Sessions -> AccountSessionRow] /\ f \in Account!Sessions /\ signIn[f].account # 0
      /\ presented \in [Account!Sessions -> 0 .. 2]
  BY DEF AccountInv, AccountSessionsRight
<1> HIDE DEF f
<1>2. ASSUME NEW t \in Account!FamilyOf(f)
      PROVE  /\ signIn'[t] \in AccountSessionRow /\ signIn'[t].revoked /\ signIn'[t].account = signIn[t].account
             /\ signIn'[t].family = signIn[t].family /\ signIn'[t].hashed = signIn[t].hashed
             /\ signIn[t].account # 0
  BY <1>1 DEF f, Account!RevokedIn, Account!FamilyOf, AccountSessionRow
<1>3. \A t \in Account!Sessions \ Account!FamilyOf(f) : signIn'[t] = signIn[t]  BY DEF f, Account!RevokedIn
<1>4. /\ signIn' \in [Account!Sessions -> AccountSessionRow]
      /\ \A t \in Account!Sessions : /\ signIn'[t].account = signIn[t].account
                                     /\ signIn'[t].family = signIn[t].family
                                     /\ signIn[t].revoked => signIn'[t].revoked
  BY <1>1, <1>2, <1>3 DEF Account!RevokedIn, f
<1>5. presented' \in [Account!Sessions -> 0 .. 2] /\ \A t \in Account!Sessions : t # s
   => presented'[t] = presented[t]
  <2>1. presented[s] \in 0 .. 2 BY <1>1
  <2>2. Account!Min({presented[s] + 1, 2}) \in 0 .. 2 BY <2>1, AccountCounted
  <2> QED BY <1>1, <2>2
<1>6. s \in Account!FamilyOf(f) BY DEF f, Account!FamilyOf
<1>7. AccountSessionsRight'
  <2>1. ASSUME NEW t \in Account!Sessions
        PROVE  IF signIn'[t].account = 0 THEN signIn'[t] = Account!NoSession /\ presented'[t] = 0
           /\ t \notin ended'
               ELSE /\ signIn'[t].family \in Account!Sessions
                        /\ signIn'[signIn'[t].family].account = signIn'[t].account
                    /\ customer'[signIn'[t].account].status # "NONE"
    <3>1. CASE signIn[t].account = 0
      <4>1. t # s /\ t # f /\ t \notin Account!FamilyOf(f) BY <1>1, <1>2, <3>1
      <4>2. signIn[t] = Account!NoSession /\ presented[t] = 0 /\ t \notin ended
        BY <3>1 DEF AccountInv, AccountSessionsRight
      <4> QED BY <1>3, <1>5, <3>1, <4>1, <4>2 DEF f
    <3>2. CASE signIn[t].account # 0
      <4>1. /\ signIn[t].family \in Account!Sessions /\ signIn[signIn[t].family].account = signIn[t].account
            /\ customer[signIn[t].account].status # "NONE"
        BY <3>2 DEF AccountInv, AccountSessionsRight
      <4> QED BY <1>4, <3>2, <4>1
    <3> QED BY <3>1, <3>2
  <2>2. ASSUME NEW t \in Account!Sessions, presented'[t] > 0 PROVE signIn'[t].revoked
    <3>1. CASE t = s BY <1>2, <1>6, <3>1
    <3>2. CASE t # s BY <1>4, <1>5, <2>2, <3>2 DEF AccountInv, AccountSessionsRight
    <3> QED BY <3>1, <3>2
  <2>3. \A t \in Account!Sessions : Account!Live(t)' => Account!Live(t) BY <1>4 DEF Account!Live
  <2>4. ASSUME NEW t \in Account!Sessions, NEW u \in Account!Sessions, Account!Live(t)', Account!Live(u)',
               signIn'[t].family = signIn'[u].family
        PROVE  t = u
    BY <1>4, <2>3, <2>4 DEF AccountInv, AccountSessionsRight
  <2>5. Account!EndedFamilyStaysEnded'
    <3>1. ASSUME NEW g \in ended', NEW t \in Account!Sessions, signIn'[t].account # 0,
                 signIn'[t].family = g PROVE ~Account!Live(t)'
      <4>1. CASE g = f BY <1>2, <1>4, <3>1, <4>1 DEF Account!Live, Account!FamilyOf
      <4>2. CASE g # f
        <5>1. g \in ended /\ t \in Account!FamilyOf(g) BY <1>4, <3>1, <4>2 DEF f, Account!FamilyOf
        <5> QED BY <2>3, <5>1 DEF AccountInv, AccountSessionsRight, Account!EndedFamilyStaysEnded
      <4> QED BY <4>1, <4>2
    <3> QED BY <3>1 DEF Account!EndedFamilyStaysEnded, Account!FamilyOf
  <2>6. Account!ReuseEndsFamily'
    <3>1. ASSUME NEW t \in Account!Sessions, presented'[t] = 2 PROVE signIn'[t].family \in ended'
      <4>1. CASE t = s BY <1>4, <4>1
      <4>2. CASE t # s
        BY <1>4, <1>5, <3>1, <4>2 DEF AccountInv, AccountSessionsRight, Account!ReuseEndsFamily
      <4> QED BY <4>1, <4>2
    <3> QED BY <3>1 DEF Account!ReuseEndsFamily
  <2>7. ended' \subseteq Account!Sessions BY <1>1 DEF f, AccountInv, AccountSessionsRight
  <2> QED BY <1>4, <1>5, <2>1, <2>2, <2>4, <2>5, <2>6, <2>7 DEF AccountInv, AccountSessionsRight
<1>8. AccountsRight' BY DEF AccountInv, AccountsRight
<1>9. AccountRequestsRight' BY <1>4, AccountRequestsStay
<1>10. AccountDeletedRight'
  <2>1. \A t \in Account!Sessions : signIn'[t] = signIn[t]
            \/ (signIn[t].account = signIn'[t].account /\ signIn'[t].revoked
                /\ signIn'[t].hashed = signIn[t].hashed)
    BY <1>2, <1>3
  <2> QED BY <2>1, AccountDeletedStay
<1> QED BY <1>7, <1>8, <1>9, <1>10, AccountAddressesStay DEF AccountInv

LEMMA AccountRefuseRotationInv ==
  ASSUME AccountGiven, AccountInv, NEW h \in Holders, NEW s \in Account!Sessions, Account!RefuseRotation(h, s)
  PROVE  AccountInv'
<1>1. signIn[s].account # 0
  <2>1. signIn[s].hashed /\ ~Account!NoSession.hashed  BY DEF Account!RefuseRotation, Account!NoSession
  <2> QED BY <2>1 DEF AccountInv, AccountSessionsRight
<1>2. /\ signIn' = Account!RevokedIn(signIn[s].family) /\ ended' = ended \union {signIn[s].family}
      /\ presented' = [presented EXCEPT ![s] = Account!Min({presented[s] + 1, 2})]
      /\ UNCHANGED <<customer, held, owned, address, underway>> /\ request' = request
  BY DEF Account!RefuseRotation, Account!data
<1> QED BY <1>1, <1>2, AccountRevoking

\* Whose session a request is of.
LEMMA AccountCallers ==
  ASSUME AccountGiven, AccountInv, NEW r \in HttpRequests, request[r] # Account!Idle
  PROVE  /\ request[r].session \in Account!Sessions /\ signIn[request[r].session].account = Account!Caller(r)
         /\ Account!Caller(r) # 0 /\ Account!Caller(r) \in Account!Accounts
             /\ customer[Account!Caller(r)].status # "NONE"
<1>1. request[r].session \in Account!Sessions /\ Account!Caller(r) # 0
  BY DEF AccountInv, AccountRequestsRight, AccountRequestRow
<1>2. Account!Caller(r) \in 0 .. MaxAccounts /\ customer[Account!Caller(r)].status # "NONE"
  BY <1>1 DEF Account!Caller, AccountInv, AccountSessionsRight, AccountSessionRow
<1> QED BY <1>1, <1>2, AccountNumbers DEF Account!Caller, Account!Accounts

LEMMA AccountLogoutInv == ASSUME AccountGiven, AccountInv, NEW r \in HttpRequests, Account!Logout(r) PROVE AccountInv'
<1>1. request[r] # Account!Idle BY DEF Account!Logout
<1>2. PICK s \in Account!Sessions : s = request[r].session /\ signIn[s].account # 0  BY <1>1, AccountCallers
<1>3. /\ signIn' = Account!RevokedIn(signIn[s].family) /\ ended' = ended \union {signIn[s].family}
      /\ presented' = presented /\ Account!Answered(r)
      /\ UNCHANGED <<customer, held, owned, address, underway>>
  BY <1>2 DEF Account!Logout, Account!data
<1> QED BY <1>2, <1>3, AccountRevoking

LEMMA AccountCopyTokenInv ==
  ASSUME AccountGiven, AccountInv, NEW h \in Holders, NEW s \in Account!Sessions, Account!CopyToken(h, s)
  PROVE  AccountInv'
<1>1. held' \in [Holders -> SUBSET Account!Sessions]
      /\ UNCHANGED <<customer, signIn, owned, address, underway, request, presented, ended>>
  BY DEF Account!CopyToken, Account!data, AccountInv, AccountSessionsRight
<1>2. AccountsRight' /\ AccountSessionsRight'
  BY <1>1 DEF AccountInv, AccountsRight, AccountSessionsRight, Account!Live, Account!EndedFamilyStaysEnded,
     Account!ReuseEndsFamily, Account!FamilyOf
<1>3. AccountRequestsRight' BY <1>1, AccountRequestsStay
<1>4. AccountDeletedRight' BY <1>1, AccountDeletedStay
<1> QED BY <1>1, <1>2, <1>3, <1>4, AccountAddressesStay DEF AccountInv

LEMMA AccountExpireInv == ASSUME AccountGiven, AccountInv, NEW s \in Account!Sessions, Account!Expire(s) PROVE AccountInv'
<1>1. signIn \in [Account!Sessions -> AccountSessionRow] /\ signIn[s] \in AccountSessionRow
   /\ signIn[s].account # 0
  BY DEF Account!Expire, Account!Live, AccountInv, AccountSessionsRight
<1>2. PICK row : row = [signIn[s] EXCEPT !.expired = TRUE]
  OBVIOUS
<1>3. /\ row \in AccountSessionRow /\ row.account = signIn[s].account /\ row.family = signIn[s].family
      /\ row.revoked = signIn[s].revoked /\ row.hashed = signIn[s].hashed
  BY <1>1, <1>2 DEF AccountSessionRow
<1>4. /\ signIn' = [signIn EXCEPT ![s] = row] /\ ~signIn[s].revoked
      /\ UNCHANGED <<customer, held, owned, address, underway, request, presented, ended>>
  BY <1>2 DEF Account!Expire, Account!data, Account!Live
<1>5. /\ signIn' \in [Account!Sessions -> AccountSessionRow]
      /\ \A t \in Account!Sessions : /\ signIn'[t].account = signIn[t].account
                                     /\ signIn'[t].family = signIn[t].family
                                     /\ signIn'[t].revoked = signIn[t].revoked
                                     /\ t # s => signIn'[t] = signIn[t]
  BY <1>1, <1>3, <1>4
<1>6. \A t \in Account!Sessions : Account!Live(t)' <=> Account!Live(t) BY <1>5 DEF Account!Live
<1>7. \A f : Account!FamilyOf(f)' = Account!FamilyOf(f) BY <1>5 DEF Account!FamilyOf
<1>8. AccountSessionsRight'
  <2>1. ASSUME NEW t \in Account!Sessions
        PROVE  IF signIn'[t].account = 0 THEN signIn'[t] = Account!NoSession /\ presented'[t] = 0
           /\ t \notin ended'
               ELSE /\ signIn'[t].family \in Account!Sessions
                        /\ signIn'[signIn'[t].family].account = signIn'[t].account
                    /\ customer'[signIn'[t].account].status # "NONE"
    <3>1. CASE signIn[t].account = 0 BY <1>1, <1>4, <1>5, <3>1 DEF AccountInv, AccountSessionsRight
    <3>2. CASE signIn[t].account # 0 BY <1>4, <1>5, <3>2 DEF AccountInv, AccountSessionsRight
    <3> QED BY <3>1, <3>2
  <2>2. \A t \in Account!Sessions : presented'[t] > 0 => signIn'[t].revoked
    BY <1>4, <1>5 DEF AccountInv, AccountSessionsRight
  <2>3. \A t, u \in Account!Sessions : Account!Live(t)' /\ Account!Live(u)'
     /\ signIn'[t].family = signIn'[u].family => t = u
    BY <1>5, <1>6 DEF AccountInv, AccountSessionsRight
  <2>4. Account!EndedFamilyStaysEnded'
    <3>1. ended' = ended BY <1>4
    <3> QED BY <1>6, <1>7, <3>1 DEF AccountInv, AccountSessionsRight, Account!EndedFamilyStaysEnded,
       Account!FamilyOf
  <2>5. Account!ReuseEndsFamily'  BY <1>4, <1>5 DEF AccountInv, AccountSessionsRight, Account!ReuseEndsFamily
  <2> QED BY <1>4, <1>5, <2>1, <2>2, <2>3, <2>4, <2>5 DEF AccountInv, AccountSessionsRight
<1>9. AccountsRight' BY <1>4 DEF AccountInv, AccountsRight
<1>10. AccountRequestsRight' BY <1>4, <1>5, AccountRequestsStay
<1>11. AccountDeletedRight'
  <2>1. ASSUME NEW t \in Account!Sessions, signIn'[t].account \in Account!Accounts,
               customer[signIn'[t].account].status = "ANONYMIZED"
        PROVE  signIn'[t] = signIn[t]
    <3>1. t # s
      <4>1. ~Account!Live(t)
        BY <1>5, <2>1 DEF AccountInv, AccountDeletedRight, Account!AnonymizedKeepsNothing
      <4> QED BY <1>1, <1>4, <4>1 DEF Account!Live
    <3> QED BY <1>5, <3>1
  <2> QED BY <1>4, <2>1, AccountDeletedStay
<1> QED BY <1>4, <1>8, <1>9, <1>10, <1>11, AccountAddressesStay DEF AccountInv

\* A token that is good is replaced by one of the same family.
LEMMA AccountRotateInv ==
  ASSUME AccountGiven, AccountInv, NEW h \in Holders, NEW s \in Account!Sessions, Account!Rotate(h, s)
  PROVE  AccountInv'
<1>1. PICK n \in Account!Sessions : n = Account!Min(Account!FreeSessions) /\ signIn[n] = Account!NoSession
  BY AccountFreeSession DEF Account!Rotate
<1>2. PICK row, new :
        /\ row = [signIn[s] EXCEPT !.revoked = TRUE]
            /\ new = Account!NewSession(signIn[s].account, signIn[s].family)
  OBVIOUS
<1>3. /\ signIn[s].account # 0 /\ ~signIn[s].revoked /\ customer[signIn[s].account].status = "ACTIVE"
      /\ signIn' = [signIn EXCEPT ![s] = row, ![n] = new]
      /\ held' = [held EXCEPT ![h] = held[h] \union {n}]
      /\ presented' = [presented EXCEPT ![s] = Account!Min({presented[s] + 1, 2})]
      /\ UNCHANGED <<customer, owned, address, underway, request, ended>>
  BY <1>1, <1>2 DEF Account!Rotate, Account!Live, Account!Acceptable, Account!Active, Account!data
<1>4. /\ signIn \in [Account!Sessions -> AccountSessionRow] /\ held \in [Holders -> SUBSET Account!Sessions]
      /\ presented \in [Account!Sessions -> 0 .. 2] /\ ended \subseteq Account!Sessions
      /\ signIn[s].family \in Account!Sessions /\ signIn[signIn[s].family].account = signIn[s].account
  BY <1>3 DEF AccountInv, AccountSessionsRight
<1>5. /\ row \in AccountSessionRow /\ row.account = signIn[s].account /\ row.family = signIn[s].family
      /\ row.revoked /\ row.hashed = signIn[s].hashed
      /\ new \in AccountSessionRow /\ new.account = signIn[s].account /\ new.family = signIn[s].family
          /\ ~new.revoked
  <2>1. signIn[s] \in AccountSessionRow BY <1>4
  <2> QED BY <1>2, <2>1 DEF AccountSessionRow, Account!NewSession
<1>6. n # s /\ signIn[n].account = 0 /\ presented[n] = 0 /\ n \notin ended
  <2>1. signIn[n].account = 0 BY <1>1 DEF Account!NoSession
  <2> QED BY <1>3, <2>1 DEF AccountInv, AccountSessionsRight
<1>7. /\ signIn' \in [Account!Sessions -> AccountSessionRow]
      /\ \A t \in Account!Sessions : signIn'[t] = IF t = n THEN new ELSE IF t = s THEN row ELSE signIn[t]
      /\ held' \in [Holders -> SUBSET Account!Sessions]
  BY <1>3, <1>4, <1>5, <1>6
<1>8. presented[s] = 0 /\ presented' \in [Account!Sessions -> 0 .. 2]
      /\ \A t \in Account!Sessions : presented'[t] = IF t = s THEN 1 ELSE presented[t]
  <2>1. presented[s] \in 0 .. 2 BY <1>4
  <2>2. ~(presented[s] > 0) BY <1>3 DEF AccountInv, AccountSessionsRight
  <2>3. presented[s] = 0 BY <2>1, <2>2
  <2>4. Account!Min({presented[s] + 1, 2}) = 1 BY <2>1, <2>3, AccountCounted
  <2> QED BY <1>3, <1>4, <2>3, <2>4
<1>9. signIn[s].family \notin ended
  BY <1>3 DEF AccountInv, AccountSessionsRight, Account!EndedFamilyStaysEnded, Account!FamilyOf, Account!Live
<1>10. \A t \in Account!Sessions : t # n => /\ (Account!Live(t)' => Account!Live(t) /\ t # s)
                                   /\ signIn'[t].account = signIn[t].account
                                   /\ signIn'[t].family = signIn[t].family
                                   /\ (signIn[t].revoked => signIn'[t].revoked)
  BY <1>5, <1>7 DEF Account!Live
<1>11. AccountSessionsRight'
  <2>1. ASSUME NEW t \in Account!Sessions
        PROVE  IF signIn'[t].account = 0 THEN signIn'[t] = Account!NoSession /\ presented'[t] = 0
           /\ t \notin ended'
               ELSE /\ signIn'[t].family \in Account!Sessions
                        /\ signIn'[signIn'[t].family].account = signIn'[t].account
                    /\ customer'[signIn'[t].account].status # "NONE"
    <3>1. CASE t = n
      <4>1. signIn'[t] = new BY <1>7, <3>1
      <4>2. signIn'[signIn[s].family].account = signIn[s].account BY <1>3, <1>4, <1>5, <1>6, <1>7
      <4> QED BY <1>3, <1>4, <1>5, <4>1, <4>2
    <3>2. CASE t # n /\ signIn[t].account = 0
      <4>1. signIn[t] = Account!NoSession /\ presented[t] = 0 /\ t \notin ended /\ t # s
        BY <1>3, <3>2 DEF AccountInv, AccountSessionsRight
      <4> QED BY <1>3, <1>7, <1>8, <3>2, <4>1
    <3>3. CASE t # n /\ signIn[t].account # 0
      <4>1. /\ signIn[t].family \in Account!Sessions /\ signIn[signIn[t].family].account = signIn[t].account
            /\ customer[signIn[t].account].status # "NONE"
        BY <3>3 DEF AccountInv, AccountSessionsRight
      <4>2. signIn[t].family # n BY <1>6, <3>3, <4>1
      <4> QED BY <1>3, <1>10, <3>3, <4>1, <4>2
    <3> QED BY <3>1, <3>2, <3>3
  <2>2. ASSUME NEW t \in Account!Sessions, presented'[t] > 0 PROVE signIn'[t].revoked
    <3>1. CASE t = s BY <1>5, <1>6, <1>7, <3>1
    <3>2. CASE t # s
      <4>1. presented[t] > 0 /\ t # n BY <1>6, <1>8, <2>2, <3>2
      <4> QED BY <1>10, <4>1 DEF AccountInv, AccountSessionsRight
    <3> QED BY <3>1, <3>2
  <2>3. ASSUME NEW t \in Account!Sessions, NEW u \in Account!Sessions, Account!Live(t)', Account!Live(u)',
               signIn'[t].family = signIn'[u].family
        PROVE  t = u
    <3>1. ASSUME NEW v \in Account!Sessions, v # n, Account!Live(v)' PROVE signIn'[v].family # signIn[s].family
      <4>1. Account!Live(v) /\ v # s /\ signIn'[v].family = signIn[v].family BY <1>10, <3>1
      <4> QED BY <1>3, <4>1 DEF AccountInv, AccountSessionsRight, Account!Live
    <3>2. signIn'[n].family = signIn[s].family BY <1>5, <1>7
    <3>3. CASE t = n \/ u = n BY <2>3, <3>1, <3>2, <3>3
    <3>4. CASE t # n /\ u # n BY <1>10, <2>3, <3>4 DEF AccountInv, AccountSessionsRight
    <3> QED BY <3>3, <3>4
  <2>4. Account!EndedFamilyStaysEnded'
    <3>1. ASSUME NEW f \in ended, NEW t \in Account!Sessions, signIn'[t].account # 0,
                 signIn'[t].family = f PROVE ~Account!Live(t)'
      <4>1. t # n BY <1>5, <1>7, <1>9, <3>1
      <4>2. t \in Account!FamilyOf(f) BY <1>10, <3>1, <4>1 DEF Account!FamilyOf
      <4> QED BY <1>10, <4>1, <4>2 DEF AccountInv, AccountSessionsRight, Account!EndedFamilyStaysEnded
    <3> QED BY <1>3, <3>1 DEF Account!EndedFamilyStaysEnded, Account!FamilyOf
  <2>5. Account!ReuseEndsFamily'
    <3>1. ASSUME NEW t \in Account!Sessions, presented'[t] = 2 PROVE signIn'[t].family \in ended'
      <4>1. presented[t] = 2 /\ t # n BY <1>6, <1>8, <3>1
      <4> QED BY <1>3, <1>10, <4>1 DEF AccountInv, AccountSessionsRight, Account!ReuseEndsFamily
    <3> QED BY <3>1 DEF Account!ReuseEndsFamily
  <2> QED BY <1>3, <1>4, <1>7, <1>8, <2>1, <2>2, <2>3, <2>4, <2>5 DEF AccountSessionsRight
<1>12. AccountsRight' BY <1>3 DEF AccountInv, AccountsRight
<1>13. AccountRequestsRight'
  <2>1. \A t \in Account!Sessions : signIn[t].account # 0 => signIn'[t].account = signIn[t].account
    BY <1>6, <1>10
  <2> QED BY <1>3, <2>1, AccountRequestsStay
<1>14. AccountDeletedRight'
  <2>1. \A t \in Account!Sessions : signIn'[t].account \in Account!Accounts
     /\ customer[signIn'[t].account].status = "ANONYMIZED"
            => signIn'[t] = signIn[t]
    BY <1>3, <1>5, <1>7
  <2> QED BY <1>3, <2>1, AccountDeletedStay
<1> QED BY <1>3, <1>11, <1>12, <1>13, <1>14, AccountAddressesStay DEF AccountInv

--------------------------------
\* Requests.

LEMMA AccountAuthenticateInv ==
  ASSUME AccountGiven, AccountInv, NEW r \in HttpRequests, NEW s \in Account!Sessions, Account!Authenticate(r, s)
  PROVE  AccountInv'
<1>1. PICK row : row = [session |-> s, shown |-> address[signIn[s].account]]
  OBVIOUS
<1>2. /\ signIn[s].account # 0 /\ customer[signIn[s].account].status = "ACTIVE"
      /\ request' = [request EXCEPT ![r] = row]
      /\ UNCHANGED <<customer, signIn, held, owned, address, underway, presented, ended>>
  BY <1>1 DEF Account!Authenticate, Account!Authentic, Account!Acceptable, Account!Live, Account!Active,
     Account!data
<1>3. signIn[s].account \in Account!Accounts
  BY <1>2, AccountNumbers DEF AccountInv, AccountSessionsRight, AccountSessionRow, Account!Accounts
<1>4. row \in AccountRequestRow  BY <1>1, <1>3 DEF AccountRequestRow, AccountInv, AccountAddressesRight
<1>5. request \in [HttpRequests -> AccountRequestRow \union {Account!Idle}]
   /\ request' \in [HttpRequests -> AccountRequestRow \union {Account!Idle}]
  BY <1>2, <1>4 DEF AccountInv, AccountRequestsRight
<1>6. ASSUME NEW q \in HttpRequests, request'[q] # Account!Idle
      PROVE  /\ Account!Caller(q)' # 0
             /\ Account!Active(Account!Caller(q))' => \A p \in Account!Places : AccountAsShown(q, p)'
  <2>1. CASE q = r
    <3>1. request'[q] = row BY <1>2, <1>5, <2>1
    <3>2. Account!Caller(q)' = signIn[s].account BY <1>1, <1>2, <3>1 DEF Account!Caller
    <3>3. ASSUME NEW p \in Account!Places PROVE AccountAsShown(q, p)'
      <4>1. address[signIn[s].account][p].version \in Nat
        BY <1>3 DEF AccountInv, AccountAddressesRight, AccountAddressRow
      <4> QED BY <1>1, <1>2, <3>1, <3>2, <4>1 DEF AccountAsShown
    <3> QED BY <1>2, <3>2, <3>3
  <2>2. CASE q # r
    <3>1. request'[q] = request[q] /\ Account!Caller(q)' = Account!Caller(q)
      BY <1>2, <1>5, <2>2 DEF Account!Caller
    <3> QED BY <1>2, <1>6, <3>1 DEF AccountInv, AccountRequestsRight, Account!Active, AccountAsShown
  <2> QED BY <2>1, <2>2
<1>7. AccountRequestsRight' BY <1>5, <1>6 DEF AccountRequestsRight
<1>8. AccountDeletedRight' BY <1>2, AccountDeletedStay
<1> QED BY <1>2, <1>7, <1>8, AccountSessionsStay, AccountAddressesStay DEF AccountInv

\* What a customer keeps changes while it is there, and not its addresses.
LEMMA AccountKeepingInv ==
  ASSUME AccountGiven, AccountInv,
         UNCHANGED <<customer, signIn, held, address, presented, ended>>,
         request' = request \/ (\E r \in HttpRequests : Account!Answered(r)),
         owned' \in [Account!Accounts -> SUBSET Belongings], underway' \in [Account!Accounts -> SUBSET Blockers],
         \A a \in Account!Accounts : customer[a].status = "ANONYMIZED"
            => owned'[a] \subseteq owned[a] /\ underway'[a] \subseteq underway[a] \union {"REFUND"}
  PROVE  AccountInv'
<1>1. Account!AnonymizedKeepsNothing'
  BY DEF AccountInv, AccountDeletedRight, Account!AnonymizedKeepsNothing, Account!Live
<1>2. Account!NothingLeftUnderway'  BY DEF AccountInv, AccountDeletedRight, Account!NothingLeftUnderway
<1>3. AccountRequestsRight' BY AccountRequestsStay
<1> QED BY <1>1, <1>2, <1>3, AccountSessionsStay, AccountAddressesStay DEF AccountInv, AccountDeletedRight

LEMMA AccountRefuseInv ==
  ASSUME AccountGiven, AccountInv, NEW r \in HttpRequests, Account!Refuse(r) \/ Account!PreviewDeletion(r)
  PROVE  AccountInv'
<1>1. /\ UNCHANGED <<customer, signIn, held, owned, address, underway, presented, ended>> /\ Account!Answered(r)
  BY DEF Account!Refuse, Account!PreviewDeletion, Account!data
<1>2. owned' \in [Account!Accounts -> SUBSET Belongings] /\ underway' \in [Account!Accounts -> SUBSET Blockers]
      /\ \A a \in Account!Accounts : owned'[a] \subseteq owned[a]
          /\ underway'[a] \subseteq underway[a] \union {"REFUND"}
  BY <1>1 DEF AccountInv, AccountDeletedRight
<1> QED BY <1>1, <1>2, AccountKeepingInv

LEMMA AccountOwnedInv ==
  ASSUME AccountGiven, AccountInv, NEW r \in HttpRequests,
         \/ Account!PutFavorite(r) \/ Account!DeleteFavorite(r) \/ Account!ReplacePhone(r)
             \/ Account!RevokePhone(r)
         \/ Account!PutCartItem(r) \/ Account!ConfirmAgent(r)
  PROVE  AccountInv'
<1>1. Account!Admitted(r) /\ Account!Answered(r)
   /\ UNCHANGED <<customer, signIn, held, address, underway, presented, ended>>
  BY DEF Account!PutFavorite, Account!DeleteFavorite, Account!ReplacePhone, Account!RevokePhone,
     Account!PutCartItem, Account!ConfirmAgent
<1>2. customer[Account!Caller(r)].status = "ACTIVE" /\ Account!Caller(r) \in Account!Accounts
  BY <1>1, AccountCallers DEF Account!Admitted, Account!Active
<1>3. PICK kept \in SUBSET Belongings : owned' = [owned EXCEPT ![Account!Caller(r)] = kept]
  <2>1. owned[Account!Caller(r)] \subseteq Belongings BY <1>2 DEF AccountInv, AccountDeletedRight
  <2>2. owned[Account!Caller(r)] \ {"FAVORITE"} \in SUBSET Belongings
     /\ owned[Account!Caller(r)] \ {"PHONE"} \in SUBSET Belongings
    BY <2>1
  <2>3. \A b \in Belongings : owned[Account!Caller(r)] \union {b} \in SUBSET Belongings BY <2>1
  <2> QED BY <2>2, <2>3 DEF Account!PutFavorite, Account!DeleteFavorite, Account!ReplacePhone,
     Account!RevokePhone, Account!PutCartItem, Account!ConfirmAgent
<1>4. owned' \in [Account!Accounts -> SUBSET Belongings] /\ underway' \in [Account!Accounts -> SUBSET Blockers]
  BY <1>1, <1>3 DEF AccountInv, AccountDeletedRight
<1>5. \A a \in Account!Accounts : customer[a].status = "ANONYMIZED"
            => owned'[a] \subseteq owned[a] /\ underway'[a] \subseteq underway[a] \union {"REFUND"}
  BY <1>1, <1>2, <1>3 DEF AccountInv, AccountDeletedRight
<1> QED BY <1>1, <1>4, <1>5, AccountKeepingInv

LEMMA AccountUnderwayInv ==
  ASSUME AccountGiven, AccountInv, NEW r \in HttpRequests, Account!PlaceOrder(r) \/ Account!ApplyForAftersale(r)
  PROVE  AccountInv'
<1>1. Account!Admitted(r) /\ Account!Answered(r)
   /\ UNCHANGED <<customer, signIn, held, owned, address, presented, ended>>
  BY DEF Account!PlaceOrder, Account!ApplyForAftersale
<1>2. customer[Account!Caller(r)].status = "ACTIVE" /\ Account!Caller(r) \in Account!Accounts
  BY <1>1, AccountCallers DEF Account!Admitted, Account!Active
<1>3. PICK kept \in SUBSET Blockers : underway' = [underway EXCEPT ![Account!Caller(r)] = kept]
  <2>1. underway[Account!Caller(r)] \subseteq Blockers BY <1>2 DEF AccountInv, AccountDeletedRight
  <2>2. \A b \in Blockers : underway[Account!Caller(r)] \union {b} \in SUBSET Blockers BY <2>1
  <2> QED BY <2>2 DEF Account!PlaceOrder, Account!ApplyForAftersale
<1>4. owned' \in [Account!Accounts -> SUBSET Belongings] /\ underway' \in [Account!Accounts -> SUBSET Blockers]
  BY <1>1, <1>3 DEF AccountInv, AccountDeletedRight
<1>5. \A a \in Account!Accounts : customer[a].status = "ANONYMIZED"
            => owned'[a] \subseteq owned[a] /\ underway'[a] \subseteq underway[a] \union {"REFUND"}
  BY <1>1, <1>2, <1>3 DEF AccountInv, AccountDeletedRight
<1> QED BY <1>1, <1>4, <1>5, AccountKeepingInv

LEMMA AccountSettleInv ==
  ASSUME AccountGiven, AccountInv, NEW a \in Account!Accounts,
         Account!LatePayment(a) \/ (\E b \in Blockers : Account!Settle(a, b))
  PROVE  AccountInv'
<1>1. UNCHANGED <<customer, signIn, held, owned, address, request, presented, ended>>
  BY DEF Account!LatePayment, Account!Settle
<1>2. /\ underway' \in [Account!Accounts -> SUBSET Blockers]
      /\ \A c \in Account!Accounts : underway'[c] \subseteq underway[c] \union {"REFUND"}
  BY DEF Account!LatePayment, Account!Settle, AccountInv, AccountDeletedRight
<1>3. owned' \in [Account!Accounts -> SUBSET Belongings]
   /\ \A c \in Account!Accounts : owned'[c] \subseteq owned[c]
  BY <1>1 DEF AccountInv, AccountDeletedRight
<1> QED BY <1>1, <1>2, <1>3, AccountKeepingInv

--------------------------------
\* The address book.

\* A row stays as it is, or a later version of it takes its place: of a row
\* the request saw, or with the default passed from one to another.
AccountFollows(r, row, old, p) ==
    \/ row = old
    \/ /\ row.version > old.version /\ row.status # "NONE"
       /\ \/ old.status # "ACTIVE" \/ request[r].shown[p].version = old.version
          \/ row.status = "ACTIVE" /\ row.isDefault # old.isDefault

AccountOneDefault(book) ==
    /\ \A p, q \in Account!Places : book[p].status = "ACTIVE" /\ book[p].isDefault
                            /\ book[q].status = "ACTIVE" /\ book[q].isDefault => p = q
    /\ \A p, q \in Account!Places : book[p].status = "ACTIVE" /\ book[q].status = "ACTIVE" /\ p # q
          => \E d \in Account!Places : book[d].status = "ACTIVE" /\ book[d].isDefault

\* The shape in terms of cardinalities.
LEMMA AccountFew ==
  ASSUME NEW D, NEW S, \A p, q \in D : p = q, \A p, q \in S : p # q => D # {}
  PROVE  Account!Cardinality(D) <= 1 /\ (Account!Cardinality(S) > 1 => D # {})
<1>1. Account!Cardinality({}) = 0 /\ \A p : Account!Cardinality({p}) = 1
  BY AccountFS_EmptySet, AccountFS_Singleton, Zenon
<1>2. D = {} \/ \E p : D = {p}
  <2>1. ASSUME D # {} PROVE \E p : D = {p}
    <3>1. PICK p \in D : TRUE BY <2>1
    <3>2. D = {p} BY <3>1
    <3> QED BY <3>2
  <2> QED BY <2>1
<1>3. ASSUME D = {} PROVE S = {} \/ \E p : S = {p}
  <2>1. ASSUME S # {} PROVE \E p : S = {p}
    <3>1. PICK p \in S : TRUE BY <2>1
    <3>2. S = {p} BY <1>3, <3>1
    <3> QED BY <3>2
  <2> QED BY <2>1
<1>4. Account!Cardinality(D) = 0 \/ Account!Cardinality(D) = 1 BY <1>1, <1>2, Zenon
<1>5. ASSUME D = {} PROVE Account!Cardinality(S) = 0 \/ Account!Cardinality(S) = 1
  BY <1>1, <1>3, <1>5, Zenon
<1> QED BY <1>4, <1>5

LEMMA AccountShape ==
  ASSUME AccountAddressesRight
  PROVE  \A a \in Account!Accounts : Account!WellShaped(a)
BY AccountFew DEF AccountAddressesRight, Account!WellShaped

LEMMA AccountShapeNext ==
  ASSUME AccountAddressesRight'
  PROVE  \A a \in Account!Accounts : Account!WellShaped(a)'
BY AccountFew DEF AccountAddressesRight, Account!WellShaped

LEMMA AccountBookInv ==
  ASSUME AccountGiven, AccountInv, NEW r \in HttpRequests, NEW book \in [Account!Places -> AccountAddressRow],
         Account!Admitted(r), Account!Answered(r), address' = [address EXCEPT ![Account!Caller(r)] = book],
         UNCHANGED <<customer, signIn, held, owned, underway, presented, ended>>,
         \A p \in Account!Places : AccountFollows(r, book[p], address[Account!Caller(r)][p], p),
         AccountOneDefault(book)
  PROVE  AccountInv' /\ Account!ChangesAsShown
<1>1. PICK a \in Account!Accounts : a = Account!Caller(r) /\ customer[a].status = "ACTIVE"
  BY AccountCallers DEF Account!Admitted, Account!Active
<1>2. /\ address \in [Account!Accounts -> [Account!Places -> AccountAddressRow]]
          /\ address' \in [Account!Accounts -> [Account!Places -> AccountAddressRow]]
      /\ \A b \in Account!Accounts : address'[b] = IF b = a THEN book ELSE address[b]
  BY <1>1 DEF AccountInv, AccountAddressesRight
<1>3. \A b \in Account!Accounts : \A p \in Account!Places : address[b][p] \in AccountAddressRow
   /\ address[b][p].version \in Nat
  BY <1>2 DEF AccountAddressRow
<1>4. AccountAddressesRight'
  <2>1. \A b \in Account!Accounts : \A p \in Account!Places : address'[b][p].status = "NONE"
     => address'[b][p] = Account!NoAddress
    BY <1>1, <1>2 DEF AccountInv, AccountAddressesRight, AccountFollows
  <2>2. \A b \in Account!Accounts : b # a => Account!Default(b)' = Account!Default(b)
     /\ Account!Book(b)' = Account!Book(b)
    BY <1>2 DEF Account!Default, Account!Book
  <2>3. /\ \A p, q \in Account!Default(a)' : p = q
        /\ \A p, q \in Account!Book(a)' : p # q => Account!Default(a)' # {}
    <3>1. /\ Account!Book(a)' = {p \in Account!Places : book[p].status = "ACTIVE"}
          /\ Account!Default(a)' = {p \in Account!Places : book[p].status = "ACTIVE" /\ book[p].isDefault}
      BY <1>2 DEF Account!Default, Account!Book
    <3> QED BY <3>1 DEF AccountOneDefault
  <2>4. ASSUME NEW b \in Account!Accounts
        PROVE  /\ \A p, q \in Account!Default(b)' : p = q
               /\ \A p, q \in Account!Book(b)' : p # q => Account!Default(b)' # {}
    <3>1. CASE b = a BY <2>3, <3>1
    <3>2. CASE b # a BY <2>2, <3>2 DEF AccountInv, AccountAddressesRight
    <3> QED BY <3>1, <3>2
  <2> QED BY <1>2, <2>1, <2>4 DEF AccountAddressesRight
<1>5. /\ request' \in [HttpRequests -> AccountRequestRow \union {Account!Idle}]
      /\ \A q \in HttpRequests : request'[q] # Account!Idle => request'[q] = request[q] /\ request[q] # Account!Idle
      /\ request[r] \in AccountRequestRow /\ request[r] # Account!Idle /\ request'[r] = Account!Idle
  BY DEF AccountInv, AccountRequestsRight, Account!Answered, Account!Admitted
<1>6. AccountRequestsRight'
  <2>1. ASSUME NEW q \in HttpRequests, request'[q] # Account!Idle
        PROVE  /\ Account!Caller(q)' # 0
               /\ Account!Active(Account!Caller(q))' => \A p \in Account!Places : AccountAsShown(q, p)'
    <3>1. request'[q] = request[q] /\ request[q] # Account!Idle /\ Account!Caller(q)' = Account!Caller(q)
          /\ Account!Caller(q) \in Account!Accounts /\ request[q] \in AccountRequestRow
      BY <1>5, <2>1, AccountCallers DEF Account!Caller, AccountInv, AccountRequestsRight
    <3>2. ASSUME Account!Active(Account!Caller(q)), NEW p \in Account!Places PROVE AccountAsShown(q, p)'
      <4>1. AccountAsShown(q, p) BY <3>1, <3>2 DEF AccountInv, AccountRequestsRight
      <4>2. request[q].shown[p].version \in Nat BY <3>1 DEF AccountRequestRow, AccountAddressRow
      <4>3. CASE Account!Caller(q) # a BY <1>2, <3>1, <4>1, <4>3 DEF AccountAsShown
      <4>4. CASE Account!Caller(q) = a
        <5>1. address'[a][p] = book[p] /\ book[p].version \in Nat /\ address[a][p].version \in Nat
          BY <1>2, <1>3 DEF AccountAddressRow
        <5>2. book[p] = address[a][p] \/ book[p].version > address[a][p].version  BY <1>1 DEF AccountFollows
        <5>3. /\ request[q].shown[p].version <= address[a][p].version
              /\ request[q].shown[p].version = address[a][p].version => request[q].shown[p] = address[a][p]
          BY <4>1, <4>4 DEF AccountAsShown
        <5>4. /\ request[q].shown[p].version <= book[p].version
              /\ request[q].shown[p].version = book[p].version => request[q].shown[p] = book[p]
          <6>1. CASE book[p] = address[a][p] BY <5>3, <6>1
          <6>2. CASE book[p].version > address[a][p].version BY <4>2, <5>1, <5>3, <6>2
          <6> QED BY <5>2, <6>1, <6>2
        <5> QED BY <3>1, <4>4, <5>1, <5>4 DEF AccountAsShown
      <4> QED BY <4>3, <4>4
    <3> QED BY <3>1, <3>2, AccountCallers DEF Account!Active
  <2> QED BY <1>5, <2>1 DEF AccountRequestsRight
<1>7. AccountDeletedRight'
  <2>1. Account!AnonymizedKeepsNothing'
    BY <1>1, <1>2 DEF AccountInv, AccountDeletedRight, Account!AnonymizedKeepsNothing, Account!Live
  <2> QED BY <2>1 DEF AccountInv, AccountDeletedRight, Account!NothingLeftUnderway
<1>8. Account!ChangesAsShown
  <2>1. ASSUME NEW b \in Account!Accounts, NEW p \in Account!Places,
               address[b][p].status = "ACTIVE", address'[b][p] # address[b][p]
        PROVE  \/ \E q \in HttpRequests : request[q] # Account!Idle /\ Account!Caller(q) = b
                   /\ request'[q] = Account!Idle
                                      /\ request[q].shown[p] = address[b][p]
               \/ /\ address'[b][p].status = "ACTIVE"
                  /\ address'[b][p].isDefault # address[b][p].isDefault
                  /\ Account!WellShaped(b)'
    <3>1. b = a /\ address'[b][p] = book[p] BY <1>2, <2>1
    <3>2. \/ request[r].shown[p].version = address[a][p].version
          \/ book[p].status = "ACTIVE" /\ book[p].isDefault # address[a][p].isDefault
      BY <1>1, <2>1, <3>1 DEF AccountFollows
    <3>3. AccountAsShown(r, p)
      <4>1. Account!Active(Account!Caller(r)) BY <1>1 DEF Account!Active
      <4> QED BY <1>5, <4>1 DEF AccountInv, AccountRequestsRight
    <3>4. CASE request[r].shown[p].version = address[a][p].version
      <4>1. request[r].shown[p] = address[a][p] BY <1>1, <3>3, <3>4 DEF AccountAsShown
      <4> QED BY <1>1, <1>5, <3>1, <4>1
    <3>5. CASE book[p].status = "ACTIVE" /\ book[p].isDefault # address[a][p].isDefault
      <4>1. Account!WellShaped(b)'
        <5>1. \A c \in Account!Accounts : Account!WellShaped(c)' BY <1>4, AccountShapeNext
        <5> QED BY <5>1
      <4> QED BY <3>1, <3>5, <4>1
    <3> QED BY <3>2, <3>4, <3>5
  <2> QED BY <2>1 DEF Account!ChangesAsShown
<1> QED BY <1>4, <1>6, <1>7, <1>8, AccountSessionsStay DEF AccountInv

\* The rows of an account's book, and what changing the default makes of them.
LEMMA AccountRows ==
  ASSUME AccountGiven, AccountInv, NEW a \in Account!Accounts
  PROVE  /\ address[a] \in [Account!Places -> AccountAddressRow]
         /\ \A p \in Account!Places : /\ address[a][p].version \in Nat
                                      /\ address[a][p].status = "NONE" <=> address[a][p] = Account!NoAddress
         /\ \A p, q \in Account!Default(a) : p = q
         /\ \A p, q \in Account!Book(a) : p # q => Account!Default(a) # {}
<1>1. address[a] \in [Account!Places -> AccountAddressRow] BY DEF AccountInv, AccountAddressesRight
<1>2. Account!NoAddress.status = "NONE" BY DEF Account!NoAddress
<1> QED BY <1>1, <1>2 DEF AccountInv, AccountAddressesRight, AccountAddressRow

LEMMA AccountBumpedRow ==
  ASSUME NEW row \in AccountAddressRow, NEW d \in BOOLEAN
  PROVE  /\ Account!Bumped(row, d) \in AccountAddressRow /\ Account!Bumped(row, d).status = row.status
         /\ Account!Bumped(row, d).isDefault = d /\ Account!Bumped(row, d).version = row.version + 1
         /\ row.version \in Nat /\ Account!Bumped(row, d).version > row.version
<1>1. row.version \in Nat /\ row.version + 1 \in Nat /\ row.version + 1 > row.version
  BY DEF AccountAddressRow
<1>2. PICK n : n = row.version + 1
  OBVIOUS
<1>3. Account!Bumped(row, d) = [row EXCEPT !.isDefault = d, !.version = n]  BY <1>2 DEF Account!Bumped
<1>4. /\ Account!Bumped(row, d) \in AccountAddressRow /\ Account!Bumped(row, d).status = row.status
      /\ Account!Bumped(row, d).isDefault = d /\ Account!Bumped(row, d).version = n
  BY <1>1, <1>2, <1>3 DEF AccountAddressRow
<1> QED BY <1>1, <1>2, <1>4

LEMMA AccountCreateAddressInv ==
  ASSUME AccountGiven, AccountInv, NEW r \in HttpRequests, NEW default \in BOOLEAN, Account!CreateAddress(r, default)
  PROVE  AccountInv' /\ Account!ChangesAsShown
<1>1. PICK a \in Account!Accounts : a = Account!Caller(r)
  BY AccountCallers DEF Account!CreateAddress, Account!Admitted
<1>2. PICK n \in Account!Places : n = Account!Min({p \in Account!Places : address[a][p] = Account!NoAddress})
   /\ address[a][n] = Account!NoAddress
  <2>1. {p \in Account!Places : address[a][p] = Account!NoAddress} \in SUBSET Nat BY AccountNumbers
  <2>2. {p \in Account!Places : address[a][p] = Account!NoAddress} # {}  BY <1>1 DEF Account!CreateAddress
  <2> QED BY <2>1, <2>2, AccountLeast
<1>3. PICK asDefault \in BOOLEAN : asDefault <=> Account!Default(a) = {} \/ default
  OBVIOUS
<1>4. PICK new : new = [status |-> "ACTIVE", isDefault |-> asDefault, version |-> 1]
  OBVIOUS
<1>5. new \in AccountAddressRow /\ new.status = "ACTIVE" /\ (new.isDefault <=> asDefault) /\ new.version = 1
  BY <1>4 DEF AccountAddressRow
<1>6. PICK book : book = [Account!Cleared(a, IF asDefault THEN Account!Default(a) ELSE {}) EXCEPT ![n] = new]
  OBVIOUS
<1>7. /\ Account!Admitted(r) /\ Account!Answered(r) /\ address' = [address EXCEPT ![a] = book]
      /\ UNCHANGED <<customer, signIn, held, owned, underway, presented, ended>>
  <2>1. asDefault = (Account!Default(a) = {} \/ default) BY <1>3
  <2> QED BY <1>1, <1>2, <1>4, <1>6, <2>1 DEF Account!CreateAddress
<1>8. /\ address[a] \in [Account!Places -> AccountAddressRow] /\ Account!NoAddress.version = 0
          /\ Account!NoAddress.status = "NONE"
      /\ \A p, q \in Account!Default(a) : p = q
      /\ \A p, q \in Account!Book(a) : p # q => Account!Default(a) # {}
  BY AccountRows DEF Account!NoAddress
<1>9. /\ book \in [Account!Places -> AccountAddressRow] /\ book[n] = new
      /\ \A p \in Account!Places \ {n} : book[p] = IF asDefault
          /\ p \in Account!Default(a) THEN Account!Bumped(address[a][p], FALSE)
                                           ELSE address[a][p]
  BY <1>5, <1>6, <1>8, AccountBumpedRow DEF Account!Cleared
<1>10. ASSUME NEW p \in Account!Places PROVE AccountFollows(r, book[p], address[a][p], p)
  <2>1. CASE p = n BY <1>2, <1>5, <1>8, <1>9, <2>1 DEF AccountFollows
  <2>2. CASE p # n /\ asDefault /\ p \in Account!Default(a)
    <3>1. book[p] = Account!Bumped(address[a][p], FALSE) /\ address[a][p] \in AccountAddressRow
          /\ address[a][p].status = "ACTIVE" /\ address[a][p].isDefault
      BY <1>8, <1>9, <2>2 DEF Account!Default, Account!Book
    <3> QED BY <3>1, AccountBumpedRow DEF AccountFollows
  <2>3. CASE p # n /\ ~(asDefault /\ p \in Account!Default(a)) BY <1>9, <2>3 DEF AccountFollows
  <2> QED BY <2>1, <2>2, <2>3
<1>11. AccountOneDefault(book)
  <2>2. CASE asDefault
    <3>1. ASSUME NEW p \in Account!Places \ {n} PROVE ~(book[p].status = "ACTIVE" /\ book[p].isDefault)
      <4>1. CASE p \in Account!Default(a)
        <5>1. book[p] = Account!Bumped(address[a][p], FALSE) /\ address[a][p] \in AccountAddressRow
          BY <1>8, <1>9, <2>2, <4>1
        <5> QED BY <5>1, AccountBumpedRow
      <4>2. CASE p \notin Account!Default(a) BY <1>9, <4>2 DEF Account!Default, Account!Book
      <4> QED BY <4>1, <4>2
    <3> QED BY <1>5, <1>9, <2>2, <3>1 DEF AccountOneDefault
  <2>3. CASE ~asDefault
    <3>1. PICK d \in Account!Default(a) : TRUE BY <1>3, <2>3
    <3>2. d \in Account!Places /\ d # n /\ address[a][d].status = "ACTIVE" /\ address[a][d].isDefault
      BY <1>2, <1>8, <3>1 DEF Account!Default, Account!Book
    <3>3. \A p \in Account!Places \ {n} : book[p] = address[a][p] BY <1>9, <2>3
    <3>4. \A p \in Account!Places : book[p].status = "ACTIVE" /\ book[p].isDefault => p \in Account!Default(a)
      BY <1>5, <1>9, <2>3, <3>3 DEF Account!Default, Account!Book
    <3> QED BY <1>8, <3>2, <3>3, <3>4 DEF AccountOneDefault
  <2> QED BY <2>2, <2>3
<1> QED BY <1>1, <1>7, <1>9, <1>10, <1>11, AccountBookInv

LEMMA AccountUpdateAddressInv ==
  ASSUME AccountGiven, AccountInv, NEW r \in HttpRequests, NEW n \in Account!Places, NEW default \in BOOLEAN,
         Account!UpdateAddress(r, n, default)
  PROVE  AccountInv' /\ Account!ChangesAsShown
<1>1. PICK a \in Account!Accounts : a = Account!Caller(r)
  BY AccountCallers DEF Account!UpdateAddress, Account!Admitted
<1>2. PICK cleared : cleared = IF default THEN Account!Default(a) \ {n} ELSE {}
  OBVIOUS
<1>3. PICK book : book = [Account!Cleared(a, cleared) EXCEPT ![n] = Account!Bumped(Account!Cleared(a, cleared)[n], default)]
  OBVIOUS
<1>4. /\ Account!Admitted(r) /\ Account!Answered(r) /\ address' = [address EXCEPT ![a] = book]
      /\ UNCHANGED <<customer, signIn, held, owned, underway, presented, ended>>
      /\ n \in Account!Book(a) /\ request[r].shown[n].version = address[a][n].version
      /\ ~(address[a][n].isDefault /\ ~default /\ Account!Book(a) # {n})
  BY <1>1, <1>2, <1>3 DEF Account!UpdateAddress
<1>5. /\ address[a] \in [Account!Places -> AccountAddressRow]
      /\ \A p, q \in Account!Default(a) : p = q
      /\ \A p, q \in Account!Book(a) : p # q => Account!Default(a) # {}
  BY AccountRows
<1>6. /\ book \in [Account!Places -> AccountAddressRow] /\ book[n] = Account!Bumped(address[a][n], default)
      /\ \A p \in Account!Places \ {n} : book[p] = IF p \in cleared THEN Account!Bumped(address[a][p], FALSE) ELSE address[a][p]
  <2>1. n \notin cleared BY <1>2
  <2>2. Account!Cleared(a, cleared) \in [Account!Places -> AccountAddressRow]
     /\ Account!Cleared(a, cleared)[n] = address[a][n]
        /\ \A p \in Account!Places : Account!Cleared(a, cleared)[p] = IF p \in cleared THEN Account!Bumped(address[a][p], FALSE) ELSE address[a][p]
    BY <1>5, <2>1, AccountBumpedRow DEF Account!Cleared
  <2> QED BY <1>3, <1>5, <2>2, AccountBumpedRow
<1>7. ASSUME NEW p \in Account!Places PROVE AccountFollows(r, book[p], address[a][p], p)
  <2>1. CASE p = n
    <3>1. address[a][p].status = "ACTIVE" /\ address[a][p] \in AccountAddressRow
      BY <1>4, <1>5, <2>1 DEF Account!Book
    <3> QED BY <1>4, <1>6, <2>1, <3>1, AccountBumpedRow DEF AccountFollows
  <2>2. CASE p # n /\ p \in cleared
    <3>1. book[p] = Account!Bumped(address[a][p], FALSE) /\ address[a][p] \in AccountAddressRow
          /\ address[a][p].status = "ACTIVE" /\ address[a][p].isDefault
      BY <1>2, <1>5, <1>6, <2>2 DEF Account!Default, Account!Book
    <3> QED BY <3>1, AccountBumpedRow DEF AccountFollows
  <2>3. CASE p # n /\ p \notin cleared BY <1>6, <2>3 DEF AccountFollows
  <2> QED BY <2>1, <2>2, <2>3
<1>8. AccountOneDefault(book)
  <2>1. ASSUME NEW p \in Account!Places PROVE book[p].status = address[a][p].status
    <3>1. address[a][p] \in AccountAddressRow BY <1>5
    <3>2. \A d \in BOOLEAN : Account!Bumped(address[a][p], d).status = address[a][p].status
      BY <3>1, AccountBumpedRow
    <3> QED BY <1>6, <3>2
  <2>2. address[a][n] \in AccountAddressRow /\ (book[n].isDefault <=> default)
    BY <1>5, <1>6, AccountBumpedRow
  <2>3. CASE default
    <3>1. ASSUME NEW p \in Account!Places \ {n} PROVE ~(book[p].status = "ACTIVE" /\ book[p].isDefault)
      <4>1. CASE p \in Account!Default(a)
        <5>1. book[p] = Account!Bumped(address[a][p], FALSE) /\ address[a][p] \in AccountAddressRow
          BY <1>2, <1>5, <1>6, <2>3, <4>1
        <5> QED BY <5>1, AccountBumpedRow
      <4>2. CASE p \notin Account!Default(a) BY <1>2, <1>6, <4>2 DEF Account!Default, Account!Book
      <4> QED BY <4>1, <4>2
    <3>2. book[n].status = "ACTIVE" BY <1>4, <2>1 DEF Account!Book
    <3> QED BY <2>2, <2>3, <3>1, <3>2 DEF AccountOneDefault
  <2>4. CASE ~default
    <3>1. \A p \in Account!Places \ {n} : book[p] = address[a][p] BY <1>2, <1>6, <2>4
    <3>2. \A p \in Account!Places : book[p].status = "ACTIVE" /\ book[p].isDefault
       => p \in Account!Default(a) /\ p # n
      BY <2>2, <2>4, <3>1 DEF Account!Default, Account!Book
    <3>3. ASSUME NEW p \in Account!Places, NEW q \in Account!Places, p # q, book[p].status = "ACTIVE",
                 book[q].status = "ACTIVE"
          PROVE  \E d \in Account!Places : book[d].status = "ACTIVE" /\ book[d].isDefault
      <4>1. p \in Account!Book(a) /\ q \in Account!Book(a) BY <2>1, <3>3 DEF Account!Book
      <4>2. PICK d \in Account!Default(a) : TRUE BY <1>5, <3>3, <4>1
      <4>3. ~address[a][n].isDefault BY <1>4, <2>4, <3>3, <4>1
      <4>4. d \in Account!Places /\ d # n /\ address[a][d].status = "ACTIVE" /\ address[a][d].isDefault
        BY <4>2, <4>3 DEF Account!Default, Account!Book
      <4> QED BY <3>1, <4>4
    <3> QED BY <1>5, <3>2, <3>3 DEF AccountOneDefault
  <2> QED BY <2>3, <2>4
<1> QED BY <1>1, <1>4, <1>6, <1>7, <1>8, AccountBookInv

\* A deleted default passes on to the oldest of the others.
LEMMA AccountHeirOf ==
  ASSUME AccountGiven, AccountInv, NEW a \in Account!Accounts, NEW n \in Account!Book(a)
  PROVE  \/ /\ Account!Heir(a, n) = {}
            /\ ~(address[a][n].isDefault /\ Account!Book(a) # {n})
         \/ /\ address[a][n].isDefault
            /\ \E q \in Account!Book(a) : Account!Heir(a, n) = {q} /\ q # n
<1>1. CASE address[a][n].isDefault /\ Account!Book(a) # {n}
  <2>1. Account!Book(a) \ {n} \in SUBSET Nat /\ Account!Book(a) \ {n} # {}
    BY <1>1, AccountNumbers DEF Account!Book
  <2>2. Account!Min(Account!Book(a) \ {n}) \in Account!Book(a) \ {n} BY <2>1, AccountLeast
  <2> QED BY <1>1, <2>2 DEF Account!Heir
<1>2. CASE ~(address[a][n].isDefault /\ Account!Book(a) # {n}) BY <1>2 DEF Account!Heir
<1> QED BY <1>1, <1>2

LEMMA AccountDeleteAddressInv ==
  ASSUME AccountGiven, AccountInv, NEW r \in HttpRequests, NEW n \in Account!Places, Account!DeleteAddress(r, n)
  PROVE  AccountInv' /\ Account!ChangesAsShown
<1>1. PICK a \in Account!Accounts : a = Account!Caller(r)
  BY AccountCallers DEF Account!DeleteAddress, Account!Admitted
<1>2. PICK gone : gone = [Account!Bumped(address[a][n], FALSE) EXCEPT !.status = "DELETED"]
  OBVIOUS
<1>3. PICK book : book = [q \in Account!Places |-> IF q = n THEN gone
                                           ELSE IF q \in Account!Heir(a, n) THEN Account!Bumped(address[a][q], TRUE)
                                           ELSE address[a][q]]
  OBVIOUS
<1>4. /\ Account!Admitted(r) /\ Account!Answered(r) /\ n \in Account!Book(a)
      /\ request[r].shown[n].version = address[a][n].version
      /\ UNCHANGED <<customer, signIn, held, owned, underway, presented, ended>>
  BY <1>1 DEF Account!DeleteAddress
<1>5. /\ address \in [Account!Accounts -> [Account!Places -> AccountAddressRow]]
          /\ address[a] \in [Account!Places -> AccountAddressRow]
      /\ \A p, q \in Account!Default(a) : p = q
      /\ \A p, q \in Account!Book(a) : p # q => Account!Default(a) # {}
  BY AccountRows DEF AccountInv, AccountAddressesRight
<1>6. address' = [address EXCEPT ![a] = book]
  <2>1. address' = [address EXCEPT ![a] = [q \in Account!Places |->
          IF q = n THEN [Account!Bumped(address[a][q], FALSE) EXCEPT !.status = "DELETED"]
          ELSE IF q \in Account!Heir(a, n) THEN Account!Bumped(address[a][q], TRUE)
          ELSE address[a][q]]]
    BY <1>1 DEF Account!DeleteAddress
  <2>2. book = [q \in Account!Places |->
          IF q = n THEN [Account!Bumped(address[a][q], FALSE) EXCEPT !.status = "DELETED"]
          ELSE IF q \in Account!Heir(a, n) THEN Account!Bumped(address[a][q], TRUE)
          ELSE address[a][q]]
    BY <1>2, <1>3
  <2> QED BY <2>1, <2>2
<1>7. gone \in AccountAddressRow /\ gone.status = "DELETED" /\ gone.version > address[a][n].version
  <2>1. PICK row \in AccountAddressRow : row = Account!Bumped(address[a][n], FALSE)
     /\ row.version > address[a][n].version
    BY <1>5, AccountBumpedRow
  <2> QED BY <1>2, <2>1 DEF AccountAddressRow
<1>8. /\ book \in [Account!Places -> AccountAddressRow] /\ book[n] = gone
      /\ \A q \in Account!Places \ {n} : book[q] = IF q \in Account!Heir(a, n) THEN Account!Bumped(address[a][q], TRUE) ELSE address[a][q]
  BY <1>3, <1>5, <1>7, AccountBumpedRow
<1>9. \/ Account!Heir(a, n) = {} /\ ~(address[a][n].isDefault /\ Account!Book(a) # {n})
      \/ address[a][n].isDefault /\ \E q \in Account!Book(a) : Account!Heir(a, n) = {q} /\ q # n
  BY <1>4, AccountHeirOf
<1>10. ASSUME NEW p \in Account!Places PROVE AccountFollows(r, book[p], address[a][p], p)
  <2>1. CASE p = n BY <1>4, <1>7, <1>8, <2>1 DEF AccountFollows
  <2>2. CASE p # n /\ p \in Account!Heir(a, n)
    <3>1. p \in Account!Book(a) /\ n \in Account!Default(a) BY <1>4, <1>9, <2>2 DEF Account!Default
    <3>2. p \notin Account!Default(a) BY <1>5, <2>2, <3>1
    <3>3. address[a][p].status = "ACTIVE" /\ ~address[a][p].isDefault
      BY <3>1, <3>2 DEF Account!Default, Account!Book
    <3>4. book[p] = Account!Bumped(address[a][p], TRUE) /\ address[a][p] \in AccountAddressRow
      BY <1>5, <1>8, <2>2
    <3> QED BY <3>3, <3>4, AccountBumpedRow DEF AccountFollows
  <2>3. CASE p # n /\ p \notin Account!Heir(a, n) BY <1>8, <2>3 DEF AccountFollows
  <2> QED BY <2>1, <2>2, <2>3
<1>11. AccountOneDefault(book)
  <2>1. ASSUME NEW p \in Account!Places
        PROVE  book[p].status = "ACTIVE" <=> p \in Account!Book(a) \ {n}
    <3>1. CASE p = n BY <1>7, <1>8, <3>1
    <3>2. CASE p # n
      <4>1. address[a][p] \in AccountAddressRow BY <1>5
      <4>2. Account!Bumped(address[a][p], TRUE).status = address[a][p].status  BY <4>1, AccountBumpedRow
      <4> QED BY <1>8, <3>2, <4>2 DEF Account!Book
    <3> QED BY <3>1, <3>2
  <2>2. CASE Account!Heir(a, n) = {} /\ ~(address[a][n].isDefault /\ Account!Book(a) # {n})
    <3>1. \A p \in Account!Places \ {n} : book[p] = address[a][p] BY <1>8, <2>2
    <3>2. ASSUME NEW p \in Account!Places, book[p].status = "ACTIVE", book[p].isDefault
          PROVE  p \in Account!Default(a)
      BY <2>1, <3>1, <3>2 DEF Account!Default
    <3>3. ASSUME NEW p \in Account!Places, NEW q \in Account!Places, p # q, book[p].status = "ACTIVE",
                 book[q].status = "ACTIVE"
          PROVE  \E d \in Account!Places : book[d].status = "ACTIVE" /\ book[d].isDefault
      <4>1. p \in Account!Book(a) /\ q \in Account!Book(a) /\ p # n /\ q # n BY <2>1, <3>3
      <4>2. PICK d \in Account!Default(a) : TRUE BY <1>5, <3>3, <4>1
      <4>3. d # n BY <2>2, <4>1, <4>2 DEF Account!Default
      <4>4. d \in Account!Places /\ d \in Account!Book(a) /\ address[a][d].isDefault
        BY <4>2 DEF Account!Default, Account!Book
      <4> QED BY <2>1, <3>1, <4>3, <4>4
    <3> QED BY <1>5, <3>2, <3>3 DEF AccountOneDefault
  <2>3. CASE address[a][n].isDefault /\ \E q \in Account!Book(a) : Account!Heir(a, n) = {q} /\ q # n
    <3>1. PICK q \in Account!Book(a) : Account!Heir(a, n) = {q} /\ q # n BY <2>3
    <3>2. q \in Account!Places /\ address[a][q] \in AccountAddressRow
       /\ book[q] = Account!Bumped(address[a][q], TRUE)
      BY <1>5, <1>8, <3>1 DEF Account!Book
    <3>3. book[q].isDefault /\ book[q].status = "ACTIVE" BY <2>1, <3>1, <3>2, AccountBumpedRow
    <3>4. ASSUME NEW p \in Account!Places, book[p].status = "ACTIVE", book[p].isDefault
          PROVE  p = q
      <4>1. SUFFICES ASSUME p # q PROVE FALSE
        OBVIOUS
      <4>2. p # n /\ p \in Account!Book(a) BY <2>1, <3>4
      <4>3. book[p] = address[a][p] BY <1>8, <3>1, <4>1, <4>2
      <4>4. p \in Account!Default(a) /\ n \in Account!Default(a)
        BY <1>4, <2>3, <3>4, <4>2, <4>3 DEF Account!Default
      <4> QED BY <1>5, <4>2, <4>4
    <3> QED BY <3>2, <3>3, <3>4 DEF AccountOneDefault
  <2> QED BY <1>9, <2>2, <2>3
<1> QED BY <1>1, <1>4, <1>6, <1>8, <1>10, <1>11, AccountBookInv

--------------------------------
\* Deletion.

LEMMA AccountConfirmDeletionInv ==
  ASSUME AccountGiven, AccountInv, NEW r \in HttpRequests, Account!ConfirmDeletion(r)
  PROVE  AccountInv' /\ Account!ChangesAsShown
<1>1. PICK a \in Account!Accounts : a = Account!Caller(r) /\ customer[a].status = "ACTIVE"
  BY AccountCallers DEF Account!ConfirmDeletion, Account!AdmittedInSession, Account!Admitted, Account!Active
<1>2. PICK row, empty :
        /\ row = [status |-> "ANONYMIZED", openId |-> {}, version |-> customer[a].version + 1]
        /\ empty = [p \in Account!Places |-> Account!NoAddress]
  OBVIOUS
<1>3. /\ underway[a] = {} /\ customer' = [customer EXCEPT ![a] = row] /\ signIn' = Account!Erased(a)
      /\ owned' = [owned EXCEPT ![a] = {}] /\ address' = [address EXCEPT ![a] = empty]
      /\ ended' = ended \union {signIn[s].family : s \in {t \in Account!Sessions : signIn[t].account = a}}
      /\ Account!Answered(r) /\ UNCHANGED <<held, underway, presented>>
  BY <1>1, <1>2 DEF Account!ConfirmDeletion, Account!Unblocked
<1>4. /\ customer \in [Account!Accounts -> AccountRow] /\ signIn \in [Account!Sessions -> AccountSessionRow]
          /\ ended \subseteq Account!Sessions
      /\ address \in [Account!Accounts -> [Account!Places -> AccountAddressRow]]
          /\ owned \in [Account!Accounts -> SUBSET Belongings]
  BY DEF AccountInv, AccountsRight, AccountSessionsRight, AccountAddressesRight, AccountDeletedRight
<1>5. row \in AccountRow /\ row.status = "ANONYMIZED" /\ row.openId = {}
  <2>1. customer[a].version = 1 BY <1>1 DEF AccountInv, AccountsRight
  <2> QED BY <1>2, <2>1 DEF AccountRow
<1>6. empty \in [Account!Places -> AccountAddressRow] /\ \A p \in Account!Places : empty[p] = Account!NoAddress
  BY <1>2 DEF AccountAddressRow, Account!NoAddress
<1>7. ASSUME NEW t \in Account!Sessions, signIn[t].account = a
      PROVE  /\ signIn'[t] \in AccountSessionRow /\ signIn'[t].account = a /\ signIn'[t].family = signIn[t].family
             /\ signIn'[t].revoked /\ ~signIn'[t].hashed
  BY <1>3, <1>4, <1>7 DEF Account!Erased, AccountSessionRow
<1>8. \A t \in Account!Sessions : signIn[t].account # a => signIn'[t] = signIn[t]  BY <1>3 DEF Account!Erased
<1>9. /\ signIn' \in [Account!Sessions -> AccountSessionRow]
      /\ \A t \in Account!Sessions : /\ signIn'[t].account = signIn[t].account
                                     /\ signIn'[t].family = signIn[t].family
                                     /\ (signIn[t].revoked => signIn'[t].revoked)
                                     /\ (Account!Live(t)' => Account!Live(t) /\ signIn[t].account # a)
  <2>1. signIn' \in [Account!Sessions -> AccountSessionRow]  BY <1>3, <1>4, <1>7, <1>8 DEF Account!Erased
  <2> QED BY <1>7, <1>8, <2>1 DEF Account!Live
<1>10. \A b \in Account!Accounts : /\ customer'[b] = IF b = a THEN row ELSE customer[b]
                                   /\ address'[b] = IF b = a THEN empty ELSE address[b]
                                   /\ owned'[b] = IF b = a THEN {} ELSE owned[b]
  BY <1>3, <1>4
<1>11. AccountsRight'
  <2>1. customer' \in [Account!Accounts -> AccountRow] BY <1>3, <1>4, <1>5
  <2>2. ASSUME NEW b \in Account!Accounts
        PROVE  /\ (customer'[b].status = "NONE" => customer'[b] = Account!NoAccount)
               /\ (customer'[b].status = "ACTIVE" => customer'[b].version = 1)
    BY <1>5, <1>10 DEF AccountInv, AccountsRight
  <2>3. ASSUME NEW o \in OpenIds, NEW b \in Account!Accounts, NEW c \in Account!Accounts,
               o \in customer'[b].openId, o \in customer'[c].openId
        PROVE  b = c
    BY <1>5, <1>10, <2>3 DEF AccountInv, AccountsRight
  <2> QED BY <2>1, <2>2, <2>3 DEF AccountsRight
<1>12. \A f \in ended' : f \in ended \/ \E u \in Account!Sessions : signIn[u].account = a /\ signIn[u].family = f
  BY <1>3
<1>13. ended' \subseteq Account!Sessions /\ a # 0
  <2>1. \A u \in Account!Sessions : signIn[u].account = a => signIn[u].family \in Account!Sessions
    BY AccountNumbers DEF AccountInv, AccountSessionsRight
  <2> QED BY <1>4, <1>12, <2>1, AccountNumbers
<1>14. AccountSessionsRight'
  <2>1. ASSUME NEW t \in Account!Sessions
        PROVE  IF signIn'[t].account = 0 THEN signIn'[t] = Account!NoSession /\ presented'[t] = 0
           /\ t \notin ended'
               ELSE /\ signIn'[t].family \in Account!Sessions
                        /\ signIn'[signIn'[t].family].account = signIn'[t].account
                    /\ customer'[signIn'[t].account].status # "NONE"
    <3>1. CASE signIn[t].account = 0
      <4>1. signIn[t] = Account!NoSession /\ presented[t] = 0 /\ t \notin ended
        BY <3>1 DEF AccountInv, AccountSessionsRight
      <4>2. ASSUME NEW u \in Account!Sessions, signIn[u].account = a, signIn[u].family = t PROVE FALSE
        BY <1>13, <3>1, <4>2 DEF AccountInv, AccountSessionsRight
      <4> QED BY <1>3, <1>8, <1>12, <1>13, <3>1, <4>1, <4>2
    <3>2. CASE signIn[t].account # 0
      <4>1. /\ signIn[t].family \in Account!Sessions /\ signIn[signIn[t].family].account = signIn[t].account
            /\ customer[signIn[t].account].status # "NONE" /\ signIn[t].account \in Account!Accounts
        BY <1>4, <3>2, AccountNumbers DEF AccountInv, AccountSessionsRight, AccountSessionRow, Account!Accounts
      <4>2. customer'[signIn[t].account].status # "NONE" BY <1>5, <1>10, <4>1
      <4> QED BY <1>9, <3>2, <4>1, <4>2
    <3> QED BY <3>1, <3>2
  <2>2. \A t \in Account!Sessions : presented'[t] > 0 => signIn'[t].revoked
    BY <1>3, <1>9 DEF AccountInv, AccountSessionsRight
  <2>3. \A t, u \in Account!Sessions : Account!Live(t)' /\ Account!Live(u)'
     /\ signIn'[t].family = signIn'[u].family => t = u
    BY <1>9 DEF AccountInv, AccountSessionsRight
  <2>4. Account!EndedFamilyStaysEnded'
    <3>1. ASSUME NEW f \in ended', NEW t \in Account!Sessions, signIn'[t].account # 0,
                 signIn'[t].family = f PROVE ~Account!Live(t)'
      <4>1. signIn[t].account # 0 /\ signIn[t].family = f BY <1>9, <3>1
      <4>2. CASE f \in ended
        BY <1>9, <4>1, <4>2 DEF AccountInv, AccountSessionsRight, Account!EndedFamilyStaysEnded, Account!FamilyOf
      <4>3. CASE \E u \in Account!Sessions : signIn[u].account = a /\ signIn[u].family = f
        <5>1. signIn[f].account = a BY <1>13, <4>3 DEF AccountInv, AccountSessionsRight
        <5>2. signIn[t].account = a BY <4>1, <5>1 DEF AccountInv, AccountSessionsRight
        <5> QED BY <1>9, <5>2
      <4> QED BY <1>12, <3>1, <4>2, <4>3
    <3> QED BY <3>1 DEF Account!EndedFamilyStaysEnded, Account!FamilyOf
  <2>5. Account!ReuseEndsFamily'  BY <1>3, <1>9 DEF AccountInv, AccountSessionsRight, Account!ReuseEndsFamily
  <2>6. held' \in [Holders -> SUBSET Account!Sessions] /\ presented' \in [Account!Sessions -> 0 .. 2]
    BY <1>3 DEF AccountInv, AccountSessionsRight
  <2> QED BY <1>9, <1>13, <2>1, <2>2, <2>3, <2>4, <2>5, <2>6 DEF AccountSessionsRight
<1>15. AccountAddressesRight'
  <2>1. address' \in [Account!Accounts -> [Account!Places -> AccountAddressRow]]  BY <1>3, <1>4, <1>6
  <2>2. Account!NoAddress.status = "NONE" BY DEF Account!NoAddress
  <2>3. \A b \in Account!Accounts : \A p \in Account!Places : address'[b][p].status = "NONE"
     => address'[b][p] = Account!NoAddress
    BY <1>6, <1>10 DEF AccountInv, AccountAddressesRight
  <2>4. ASSUME NEW b \in Account!Accounts
        PROVE  /\ \A p, q \in Account!Default(b)' : p = q
               /\ \A p, q \in Account!Book(b)' : p # q => Account!Default(b)' # {}
    <3>1. CASE b = a BY <1>6, <1>10, <2>2, <3>1 DEF Account!Default, Account!Book
    <3>2. CASE b # a
      <4>1. Account!Default(b)' = Account!Default(b) /\ Account!Book(b)' = Account!Book(b)
        BY <1>10, <3>2 DEF Account!Default, Account!Book
      <4> QED BY <4>1 DEF AccountInv, AccountAddressesRight
    <3> QED BY <3>1, <3>2
  <2> QED BY <2>1, <2>3, <2>4 DEF AccountAddressesRight
<1>16. AccountRequestsRight'
  <2>1. /\ request' \in [HttpRequests -> AccountRequestRow \union {Account!Idle}]
        /\ \A q \in HttpRequests : request'[q] # Account!Idle => request'[q] = request[q] /\ request[q] # Account!Idle
    BY <1>3 DEF AccountInv, AccountRequestsRight, Account!Answered
  <2>2. ASSUME NEW q \in HttpRequests, request'[q] # Account!Idle
        PROVE  /\ Account!Caller(q)' # 0
               /\ (Account!Active(Account!Caller(q))' => \A p \in Account!Places : AccountAsShown(q, p)')
    <3>1. /\ request'[q] = request[q] /\ request[q] # Account!Idle /\ Account!Caller(q) \in Account!Accounts
              /\ Account!Caller(q) # 0
          /\ request[q].session \in Account!Sessions
      BY <2>1, <2>2, AccountCallers
    <3>2. Account!Caller(q)' = Account!Caller(q) BY <1>9, <3>1 DEF Account!Caller
    <3>3. ASSUME Account!Active(Account!Caller(q))', NEW p \in Account!Places PROVE AccountAsShown(q, p)'
      <4>1. customer'[Account!Caller(q)].status = "ACTIVE" BY <3>2, <3>3 DEF Account!Active
      <4>2. Account!Caller(q) # a /\ Account!Active(Account!Caller(q))
        BY <1>5, <1>10, <3>1, <4>1 DEF Account!Active
      <4>3. AccountAsShown(q, p) BY <3>1, <4>2 DEF AccountInv, AccountRequestsRight
      <4> QED BY <1>10, <3>1, <3>2, <4>2, <4>3 DEF AccountAsShown
    <3> QED BY <3>1, <3>2, <3>3
  <2> QED BY <2>1, <2>2 DEF AccountRequestsRight
<1>17. AccountDeletedRight'
  <2>1. owned' \in [Account!Accounts -> SUBSET Belongings] /\ underway' \in [Account!Accounts -> SUBSET Blockers]
    BY <1>3, <1>4 DEF AccountInv, AccountDeletedRight
  <2>2. ASSUME NEW b \in Account!Accounts, customer'[b].status = "ANONYMIZED"
        PROVE  /\ customer'[b].openId = {} /\ owned'[b] = {}
               /\ \A p \in Account!Places : address'[b][p] = Account!NoAddress
               /\ \A s \in Account!Sessions : signIn'[s].account = b => ~Account!Live(s)' /\ ~signIn'[s].hashed
               /\ underway'[b] \subseteq {"REFUND"}
    <3>1. CASE b = a BY <1>3, <1>5, <1>6, <1>7, <1>9, <1>10, <3>1 DEF Account!Live
    <3>2. CASE b # a
      <4>1. customer'[b] = customer[b] /\ address'[b] = address[b] /\ owned'[b] = owned[b]  BY <1>10, <3>2
      <4>2. \A s \in Account!Sessions : signIn'[s].account = b => signIn'[s] = signIn[s]  BY <1>8, <1>9, <3>2
      <4> QED BY <1>3, <2>2, <4>1, <4>2 DEF AccountInv, AccountDeletedRight, Account!AnonymizedKeepsNothing,
         Account!NothingLeftUnderway, Account!Live
    <3> QED BY <3>1, <3>2
  <2> QED BY <2>1, <2>2 DEF AccountDeletedRight, Account!AnonymizedKeepsNothing, Account!NothingLeftUnderway
<1>18. Account!ChangesAsShown BY <1>5, <1>10 DEF Account!ChangesAsShown
<1> QED BY <1>11, <1>14, <1>15, <1>16, <1>17, <1>18 DEF AccountInv

--------------------------------
\* Steps that leave the addresses alone.
LEMMA AccountNoChange == ASSUME UNCHANGED address PROVE Account!ChangesAsShown
BY DEF Account!ChangesAsShown

LEMMA AccountStepwise ==
  ASSUME AccountGiven, AccountInv, Account!Next
  PROVE  AccountInv' /\ Account!ChangesAsShown
<1>1. ASSUME NEW h \in Holders, NEW o \in OpenIds, Account!Login(h, o) PROVE AccountInv' /\ UNCHANGED address
  BY <1>1, AccountLoginInv DEF Account!Login, Account!data
<1>2. ASSUME NEW h \in Holders, NEW s \in Account!Sessions,
             Account!CopyToken(h, s) PROVE AccountInv' /\ UNCHANGED address
  BY <1>2, AccountCopyTokenInv DEF Account!CopyToken, Account!data
<1>3. ASSUME NEW h \in Holders, NEW s \in Account!Sessions,
             Account!Rotate(h, s) PROVE AccountInv' /\ UNCHANGED address
  BY <1>3, AccountRotateInv DEF Account!Rotate, Account!data
<1>4. ASSUME NEW h \in Holders, NEW s \in Account!Sessions,
             Account!RefuseRotation(h, s) PROVE AccountInv' /\ UNCHANGED address
  BY <1>4, AccountRefuseRotationInv DEF Account!RefuseRotation, Account!data
<1>5. ASSUME NEW s \in Account!Sessions, Account!Expire(s) PROVE AccountInv' /\ UNCHANGED address
  BY <1>5, AccountExpireInv DEF Account!Expire, Account!data
<1>6. ASSUME NEW r \in HttpRequests, NEW s \in Account!Sessions,
             Account!Authenticate(r, s) PROVE AccountInv' /\ UNCHANGED address
  BY <1>6, AccountAuthenticateInv DEF Account!Authenticate, Account!data
<1>7. ASSUME NEW r \in HttpRequests,
             Account!Refuse(r) \/ Account!PreviewDeletion(r) PROVE AccountInv' /\ UNCHANGED address
  BY <1>7, AccountRefuseInv DEF Account!Refuse, Account!PreviewDeletion, Account!data
<1>8. ASSUME NEW r \in HttpRequests, Account!Logout(r) PROVE AccountInv' /\ UNCHANGED address
  BY <1>8, AccountLogoutInv DEF Account!Logout, Account!data
<1>9. ASSUME NEW r \in HttpRequests,
             \/ Account!PutFavorite(r) \/ Account!DeleteFavorite(r) \/ Account!ReplacePhone(r)
                 \/ Account!RevokePhone(r)
             \/ Account!PutCartItem(r) \/ Account!ConfirmAgent(r)
      PROVE  AccountInv' /\ UNCHANGED address
  <2>1. UNCHANGED address
    BY <1>9 DEF Account!PutFavorite, Account!DeleteFavorite, Account!ReplacePhone, Account!RevokePhone,
       Account!PutCartItem, Account!ConfirmAgent
  <2> QED BY <1>9, <2>1, AccountOwnedInv
<1>10. ASSUME NEW r \in HttpRequests,
              Account!PlaceOrder(r) \/ Account!ApplyForAftersale(r) PROVE AccountInv' /\ UNCHANGED address
  BY <1>10, AccountUnderwayInv DEF Account!PlaceOrder, Account!ApplyForAftersale
<1>11. ASSUME NEW a \in Account!Accounts, Account!LatePayment(a) \/ (\E b \in Blockers : Account!Settle(a, b))
       PROVE  AccountInv' /\ UNCHANGED address
  BY <1>11, AccountSettleInv DEF Account!LatePayment, Account!Settle
<1>12. ASSUME NEW r \in HttpRequests, NEW d \in BOOLEAN,
              Account!CreateAddress(r, d) PROVE AccountInv' /\ Account!ChangesAsShown
  BY <1>12, AccountCreateAddressInv
<1>13. ASSUME NEW r \in HttpRequests, NEW p \in Account!Places,
              Account!DeleteAddress(r, p) PROVE AccountInv' /\ Account!ChangesAsShown
  BY <1>13, AccountDeleteAddressInv
<1>14. ASSUME NEW r \in HttpRequests, NEW p \in Account!Places, NEW d \in BOOLEAN, Account!UpdateAddress(r, p, d)
       PROVE  AccountInv' /\ Account!ChangesAsShown
  BY <1>14, AccountUpdateAddressInv
<1>15. ASSUME NEW r \in HttpRequests, Account!ConfirmDeletion(r) PROVE AccountInv' /\ Account!ChangesAsShown
  BY <1>15, AccountConfirmDeletionInv
<1> QED
  BY <1>1, <1>2, <1>3, <1>4, <1>5, <1>6, <1>7, <1>8, <1>9, <1>10, <1>11, <1>12, <1>13, <1>14, <1>15,
     AccountNoChange DEF Account!Next

LEMMA AccountStutters ==
  ASSUME AccountGiven, AccountInv, UNCHANGED Account!vars
  PROVE  AccountInv' /\ Account!ChangesAsShown
<1>1. UNCHANGED <<customer, signIn, held, owned, address, underway, request, presented, ended>>
  BY DEF Account!vars
<1>2. owned' \in [Account!Accounts -> SUBSET Belongings] /\ underway' \in [Account!Accounts -> SUBSET Blockers]
      /\ \A a \in Account!Accounts : owned'[a] \subseteq owned[a]
          /\ underway'[a] \subseteq underway[a] \union {"REFUND"}
  BY <1>1 DEF AccountInv, AccountDeletedRight
<1> QED BY <1>1, <1>2, AccountKeepingInv, AccountNoChange

LEMMA AccountIsSound ==
  ASSUME AccountGiven, AccountInv
  PROVE  Account!AccountsAreSound
<1>1. Account!TypeOK
  BY DEF AccountInv, AccountsRight, AccountSessionsRight, AccountAddressesRight, AccountDeletedRight,
     Account!TypeOK, AccountRow, AccountSessionRow, AccountAddressRow
<1>2. Account!OneLiveSession
  <2>1. ASSUME NEW f \in Account!Sessions
        PROVE  Account!Cardinality({s \in Account!FamilyOf(f) : Account!Live(s)}) <= 1
    <3>1. \A s, t \in {u \in Account!FamilyOf(f) : Account!Live(u)} : s = t
      BY DEF AccountInv, AccountSessionsRight, Account!FamilyOf
    <3>2. \A s, t \in {} : s # t => {u \in Account!FamilyOf(f) : Account!Live(u)} # {}
      OBVIOUS
    <3> QED BY <3>1, <3>2, AccountFew
  <2> QED BY <2>1 DEF Account!OneLiveSession
<1>3. Account!IdentityIsOfOneAccount
  <2>1. ASSUME NEW o \in OpenIds
        PROVE  Account!Cardinality({a \in Account!Accounts : o \in customer[a].openId}) <= 1
    <3>1. \A s, t \in {a \in Account!Accounts : o \in customer[a].openId} : s = t
      BY DEF AccountInv, AccountsRight
    <3>2. \A s, t \in {} : s # t => {a \in Account!Accounts : o \in customer[a].openId} # {}
      OBVIOUS
    <3> QED BY <3>1, <3>2, AccountFew
  <2> QED BY <2>1 DEF Account!IdentityIsOfOneAccount
<1>4. Account!BookIsWellShaped BY AccountShape DEF AccountInv, Account!BookIsWellShaped
<1>5. Account!EndedFamilyStaysEnded /\ Account!ReuseEndsFamily /\ Account!AnonymizedKeepsNothing
   /\ Account!NothingLeftUnderway
  BY DEF AccountInv, AccountSessionsRight, AccountDeletedRight
<1> QED BY <1>1, <1>2, <1>3, <1>4, <1>5 DEF Account!AccountsAreSound

--------------------------------
\* The client of a customer, with the journal of aftersale confirmations,
\* for any number of customers, callers, tokens, keys and restarts.  What
\* is under way in the generation of the app's session is of the family of
\* the token that is stored (CallRight, RefreshRight), a key that was sent
\* is tracked (KeysRight), and the stored token is not a used one unless
\* its refresh is under way or the app was killed (OwnRight).
ClientGiven == Client!StorefrontClientAssumption

ClientCallRow == [phase : Client!Phases, gen : Nat, token : 0 .. MaxTokens, try : 0 .. 2,
            key : 0 .. MaxKeys, answer : Client!Answers]
ClientRefreshRow == [token : Client!Tokens, gen : Nat, rev : Nat,
               answer : {"SENT", "OK", "UNAUTHORIZED", "LOST"}, next : 0 .. MaxTokens]
ClientSessionRow == [customer : Alike \union {NoCustomer}, family : 0 .. MaxTokens,
               status : {"NONE", "GOOD", "STALE", "ROTATED", "ENDED", "REPLAYED"}]

ClientUsed(t) == token[t].status # "NONE"
\* A key whose end was seen, or is still to be seen, or that was refused.
ClientTracked(k) == k \in seen \union let \/ (\E j \in journal : j.key = k) \/ placed[k] = "REFUSED"

ClientAppRight ==
    /\ app \in [token : 0 .. MaxTokens, gen : Nat, rev : Nat] /\ stored \in 0 .. MaxTokens
    /\ app.token # 0 => stored = app.token
    /\ stored # 0 => ClientUsed(stored)

ClientSessionsRight ==
    /\ token \in [Client!Tokens -> ClientSessionRow]
    /\ \A t \in Client!Tokens : IF ClientUsed(t) THEN token[t].family \in Client!Tokens
        /\ token[t].customer \in Alike
                         ELSE token[t] = Client!NoSession

\* Of the login that goes on: the family of the token that is stored.
ClientOfLogin(gen, t) ==
    /\ t \in Client!Tokens /\ ClientUsed(t) /\ gen <= app.gen
    /\ gen = app.gen => stored # 0 /\ token[t].family = token[stored].family

ClientCallRight(c) ==
    /\ call[c] \in ClientCallRow
    /\ call[c].phase = "IDLE" => call[c] = Client!Idle
    /\ call[c].phase # "IDLE" => ClientOfLogin(call[c].gen, call[c].token)
    /\ call[c].phase = "REFRESHES" => call[c].try < 2
    /\ call[c].phase \in {"SENT", "BACK"} => call[c].try > 0
    /\ c = "COMMAND" /\ call[c].phase # "IDLE" => call[c].key \in Client!Keys /\ ClientTracked(call[c].key)
    /\ c # "COMMAND" => call[c].key = 0
    /\ c = "COMMAND" /\ call[c].phase = "BACK" /\ call[c].answer = "REFUSED" => placed[call[c].key] = "REFUSED"

ClientCallsRight == call \in [Calls -> ClientCallRow] /\ \A c \in Calls : ClientCallRight(c)

ClientRefreshRight(r) ==
    /\ r \in ClientRefreshRow
    /\ ClientOfLogin(r.gen, r.token)
    /\ r.gen = app.gen /\ r.rev # app.rev => app.token # 0
    /\ r.token = stored => Client!Fresh(r)
    /\ r.answer = "OK" => /\ r.next \in Client!Tokens /\ ClientUsed(r.next) /\ r.next # stored
                          /\ token[r.next].family = token[r.token].family
                          /\ token[r.next].status # "ROTATED"

\* Tokens are presented once at a time, and given out once.
ClientApart(q, r) ==
    /\ q.token = r.token => q = r
    /\ r.answer = "OK" => q.token # r.next /\ (q.answer = "OK" /\ q.next = r.next => q = r)

ClientRefreshesRight ==
    /\ \A r \in refreshes : ClientRefreshRight(r)
    /\ \A q, r \in refreshes : ClientApart(q, r)

ClientKeysRight ==
    /\ journal \subseteq [customer : Alike, key : Client!Keys]
    /\ placed \in [Client!Keys -> {"NONE", "PLACED", "REFUSED"}]
    /\ late \subseteq [key : Client!Keys, token : Client!Tokens]
    /\ seen \subseteq Client!Keys /\ let \subseteq Client!Keys /\ restarts \in 0 .. MaxRestarts
    /\ \A f \in late : ClientTracked(f.key)
    /\ \A k \in Client!Keys : placed[k] = "PLACED" => ClientTracked(k)

ClientOwnRight ==
    restarts = 0 =>
        /\ stored = app.token
        /\ \A t \in Client!Tokens : token[t].status # "REPLAYED"
        /\ \A r \in refreshes : r.answer = "SENT" => token[r.token].status # "ROTATED"
        /\ stored # 0 /\ token[stored].status = "ROTATED" => \E r \in refreshes : r.token = stored

ClientInv == ClientAppRight /\ ClientSessionsRight /\ ClientCallsRight /\ ClientRefreshesRight /\ ClientKeysRight
   /\ ClientOwnRight

LEMMA ClientNumbers ==
  ASSUME ClientGiven
  PROVE  /\ MaxTokens \in Nat /\ MaxKeys \in Nat /\ MaxRestarts \in Nat
         /\ Client!Tokens \subseteq Nat \ {0} /\ Client!Keys \subseteq Nat \ {0} /\ NoCustomer \notin Alike
         /\ Client!Tokens \subseteq 0 .. MaxTokens /\ Client!Keys \subseteq 0 .. MaxKeys
         /\ 0 \notin Client!Tokens /\ 0 \notin Client!Keys
         /\ \A n \in 0 .. MaxTokens : n # 0 => n \in Client!Tokens
BY DEF ClientGiven, Client!StorefrontClientAssumption, Client!Tokens, Client!Keys

\* A nonempty set of numbers has a least member.
LEMMA ClientLeast ==
  ASSUME NEW T \in SUBSET Nat, T # {}
  PROVE  Client!Min(T) \in T
<1> DEFINE R == OpToRel(<, Nat)
<1>1. IsWellFoundedOn(R, Nat) BY NatLessThanWellFounded
<1> HIDE DEF R
<1>2. PICK m \in T : \A n \in T : ~(<<n, m>> \in R) BY <1>1, WFMin
<1>3. R = {pair \in Nat \X Nat : pair[1] < pair[2]} BY Zenon DEF R, OpToRel
<1>4. ASSUME NEW n \in T PROVE m <= n
  <2>1. m \in Nat /\ n \in Nat
    OBVIOUS
  <2>2. <<n, m>> \notin R BY <1>2
  <2>3. ~(n < m) BY <1>3, <2>1, <2>2
  <2> QED BY <2>1, <2>3
<1>5. \E m1 \in T : \A n \in T : m1 <= n BY <1>4
<1> QED BY <1>5 DEF Client!Min

LEMMA ClientFreeToken ==
  ASSUME ClientGiven, ClientInv, Client!FreeTokens # {}
  PROVE  Client!Min(Client!FreeTokens) \in Client!Tokens
     /\ token[Client!Min(Client!FreeTokens)] = Client!NoSession /\ ~ClientUsed(Client!Min(Client!FreeTokens))
<1>1. Client!FreeTokens \in SUBSET Nat BY ClientNumbers DEF Client!FreeTokens
<1>2. Client!Min(Client!FreeTokens) \in Client!FreeTokens BY <1>1, ClientLeast
<1> QED BY <1>2 DEF Client!FreeTokens, ClientUsed, Client!NoSession

LEMMA ClientFreeKey ==
  ASSUME ClientGiven, Client!FreeKeys # {}
  PROVE  Client!Min(Client!FreeKeys) \in Client!Keys
<1>1. Client!FreeKeys \in SUBSET Nat BY ClientNumbers DEF Client!FreeKeys
<1>2. Client!Min(Client!FreeKeys) \in Client!FreeKeys BY <1>1, ClientLeast
<1> QED BY <1>2 DEF Client!FreeKeys

LEMMA ClientInitially ==
  ASSUME ClientGiven, Client!Init
  PROVE  ClientInv
<1>1. /\ Client!Idle \in ClientCallRow /\ Client!Idle.phase = "IDLE" /\ Client!Idle.key = 0
      /\ Client!NoSession \in ClientSessionRow /\ Client!NoSession.status = "NONE"
  BY ClientNumbers DEF Client!Idle, ClientCallRow, Client!Phases, Client!Answers, Client!NoSession,
     ClientSessionRow
<1>2. ClientAppRight BY ClientNumbers DEF Client!Init, ClientAppRight
<1>3. ClientSessionsRight BY <1>1 DEF Client!Init, ClientSessionsRight, ClientUsed
<1>4. ClientCallsRight BY <1>1 DEF Client!Init, ClientCallsRight, ClientCallRight
<1>5. ClientRefreshesRight /\ ClientKeysRight
  BY ClientNumbers DEF Client!Init, ClientRefreshesRight, ClientKeysRight
<1>6. ClientOwnRight BY <1>1 DEF Client!Init, ClientOwnRight
<1> QED BY <1>2, <1>3, <1>4, <1>5, <1>6 DEF ClientInv

\* What is persisted is the app's credential.
LEMMA ClientTheCredential ==
  ASSUME ClientGiven, ClientInv
  PROVE  Client!Credential = stored
BY DEF ClientInv, ClientAppRight, Client!Credential

--------------------------------
\* How a step changes sessions, logins and keys.

ClientSessionsKept == \A t \in Client!Tokens : ClientUsed(t)
   => ClientUsed(t)' /\ token'[t].family = token[t].family
ClientSameLogin ==
    /\ app'.gen = app.gen
    /\ stored # 0 => stored' # 0 /\ token'[stored'].family = token[stored].family
ClientLaterLogin == app'.gen > app.gen
ClientKeysKept ==
    \A k \in Client!Keys : /\ ClientTracked(k) => ClientTracked(k)'
                           /\ placed[k] = "REFUSED" => placed'[k] = "REFUSED"

LEMMA ClientOfLoginStays ==
  ASSUME ClientGiven, ClientInv, ClientSessionsKept, ClientSameLogin \/ ClientLaterLogin,
         app' \in [token : 0 .. MaxTokens, gen : Nat, rev : Nat],
         NEW gen \in Nat, NEW t, ClientOfLogin(gen, t)
  PROVE  ClientOfLogin(gen, t)'
<1>1. app.gen \in Nat /\ app'.gen \in Nat BY DEF ClientInv, ClientAppRight
<1>2. t \in Client!Tokens /\ ClientUsed(t) /\ ClientUsed(t)' /\ token'[t].family = token[t].family
   /\ gen <= app.gen
  BY DEF ClientOfLogin, ClientSessionsKept
<1>3. CASE ClientSameLogin BY <1>1, <1>2, <1>3 DEF ClientOfLogin, ClientSameLogin
<1>4. CASE ClientLaterLogin BY <1>1, <1>2, <1>4 DEF ClientOfLogin, ClientLaterLogin
<1> QED BY <1>3, <1>4

LEMMA ClientCallStays ==
  ASSUME ClientGiven, ClientInv, ClientSessionsKept, ClientSameLogin \/ ClientLaterLogin, ClientKeysKept,
         app' \in [token : 0 .. MaxTokens, gen : Nat, rev : Nat],
         NEW c \in Calls, call'[c] = call[c]
  PROVE  ClientCallRight(c)'
<1>1. PICK old \in ClientCallRow : old = call[c] /\ old = call'[c]
  BY DEF ClientInv, ClientCallsRight, ClientCallRight
<1>2. ClientCallRight(c) BY DEF ClientInv, ClientCallsRight
<1>3. old.gen \in Nat BY DEF ClientCallRow
<1>4. old.phase # "IDLE" => ClientOfLogin(old.gen, old.token) BY <1>1, <1>2 DEF ClientCallRight
<1>5. old.phase # "IDLE" => ClientOfLogin(old.gen, old.token)' BY <1>3, <1>4, ClientOfLoginStays
<1>6. /\ c = "COMMAND" /\ old.phase # "IDLE" => old.key \in Client!Keys /\ ClientTracked(old.key)'
      /\ c = "COMMAND" /\ old.phase = "BACK" /\ old.answer = "REFUSED" => placed'[old.key] = "REFUSED"
  BY <1>1, <1>2 DEF ClientCallRight, ClientKeysKept
<1> QED BY <1>1, <1>2, <1>5, <1>6 DEF ClientCallRight, ClientOfLogin, ClientTracked

LEMMA ClientSessionsStay ==
  ASSUME ClientGiven, ClientInv, UNCHANGED token
  PROVE  ClientSessionsKept /\ ClientSessionsRight'
BY DEF ClientInv, ClientSessionsRight, ClientSessionsKept, ClientUsed

LEMMA ClientAppStays ==
  ASSUME ClientGiven, ClientInv, ClientSessionsKept, UNCHANGED <<app, stored>>
  PROVE  ClientSameLogin /\ ClientAppRight' /\ app' \in [token : 0 .. MaxTokens, gen : Nat, rev : Nat]
<1>1. stored # 0 => stored \in Client!Tokens /\ ClientUsed(stored)
  BY ClientNumbers DEF ClientInv, ClientAppRight
<1>2. stored # 0 => ClientUsed(stored)' /\ token'[stored].family = token[stored].family
  BY <1>1 DEF ClientSessionsKept
<1> QED BY <1>2 DEF ClientInv, ClientAppRight, ClientSameLogin, ClientUsed

LEMMA ClientKeysStay ==
  ASSUME ClientGiven, ClientInv, UNCHANGED <<journal, placed, late, seen, let, restarts>>
  PROVE  ClientKeysKept /\ ClientKeysRight'
BY DEF ClientInv, ClientKeysRight, ClientKeysKept, ClientTracked

\* The keys, when some of them end.
LEMMA ClientKeysNext ==
  ASSUME ClientGiven, ClientInv, ClientKeysKept,
         journal' \subseteq [customer : Alike, key : Client!Keys],
         seen' \subseteq Client!Keys, let' \subseteq Client!Keys, restarts' \in 0 .. MaxRestarts,
         UNCHANGED <<placed, late>>
  PROVE  ClientKeysRight'
<1>1. \A f \in late : f.key \in Client!Keys /\ ClientTracked(f.key)'
  BY DEF ClientInv, ClientKeysRight, ClientKeysKept
<1>2. \A k \in Client!Keys : placed[k] = "PLACED" => ClientTracked(k)'
  BY DEF ClientInv, ClientKeysRight, ClientKeysKept
<1> QED BY <1>1, <1>2 DEF ClientInv, ClientKeysRight, ClientTracked

\* A refresh that is under way, while the app's session stays, is rotated or
\* becomes another.
LEMMA ClientRefreshStays ==
  ASSUME ClientGiven, ClientInv, ClientSessionsKept, app' \in [token : 0 .. MaxTokens, gen : Nat, rev : Nat],
         NEW r \in refreshes,
         r.answer = "OK" => token'[r.next].status # "ROTATED",
         \/ UNCHANGED <<app, stored>>
         \/ /\ ClientSameLogin \/ ClientLaterLogin
            /\ ClientSameLogin => app'.token # 0
            /\ stored' # r.token
            /\ r.answer = "OK" => stored' # r.next
  PROVE  ClientRefreshRight(r)'
<1>1. ClientRefreshRight(r) BY DEF ClientInv, ClientRefreshesRight
<1>2. r \in ClientRefreshRow /\ r.gen \in Nat /\ ClientOfLogin(r.gen, r.token)
  BY <1>1 DEF ClientRefreshRight, ClientRefreshRow
<1>3. ClientSameLogin \/ ClientLaterLogin BY ClientAppStays
<1>4. ClientOfLogin(r.gen, r.token)'
  <2>1. PICK gen \in Nat, t \in Client!Tokens : gen = r.gen /\ t = r.token /\ ClientOfLogin(gen, t)
    BY <1>2 DEF ClientOfLogin
  <2>2. ClientOfLogin(gen, t)' BY <1>3, <2>1, ClientOfLoginStays
  <2> QED BY <2>1, <2>2
<1>5. r.answer = "OK" => /\ r.next \in Client!Tokens /\ ClientUsed(r.next)'
                         /\ token'[r.next].family = token'[r.token].family
  <2>1. r.token \in Client!Tokens /\ ClientUsed(r.token) BY <1>2 DEF ClientOfLogin
  <2> QED BY <1>1, <2>1 DEF ClientRefreshRight, ClientSessionsKept
<1>6. CASE UNCHANGED <<app, stored>>  BY <1>1, <1>2, <1>4, <1>5, <1>6 DEF ClientRefreshRight, Client!Fresh
<1>7. CASE /\ ClientSameLogin => app'.token # 0
           /\ stored' # r.token
           /\ r.answer = "OK" => stored' # r.next
  <2>1. r.gen = app'.gen => app'.token # 0
    <3>1. CASE ClientSameLogin BY <1>7, <3>1
    <3>2. CASE ClientLaterLogin
      <4>1. app.gen \in Nat /\ app'.gen \in Nat /\ r.gen <= app.gen
        BY <1>2 DEF ClientInv, ClientAppRight, ClientOfLogin
      <4> QED BY <1>2, <3>2, <4>1 DEF ClientLaterLogin
    <3> QED BY <1>3, <3>1, <3>2
  <2> QED BY <1>2, <1>4, <1>5, <1>7, <2>1 DEF ClientRefreshRight
<1> QED BY <1>6, <1>7

LEMMA ClientRefreshesStay ==
  ASSUME ClientGiven, ClientInv, UNCHANGED <<app, stored, token, refreshes, restarts>>
  PROVE  ClientRefreshesRight' /\ ClientOwnRight'
<1>1. ClientSessionsKept /\ app' \in [token : 0 .. MaxTokens, gen : Nat, rev : Nat]
  BY ClientSessionsStay, ClientAppStays
<1>2. ASSUME NEW r \in refreshes PROVE ClientRefreshRight(r)'
  <2>1. r.answer = "OK" => token'[r.next].status # "ROTATED"
    BY DEF ClientInv, ClientRefreshesRight, ClientRefreshRight
  <2> QED BY <1>1, <2>1, ClientRefreshStays
<1>3. ClientRefreshesRight' BY <1>2 DEF ClientInv, ClientRefreshesRight, ClientApart
<1> QED BY <1>3 DEF ClientInv, ClientOwnRight

\* Calls of which some end and others stay.
LEMMA ClientCallsStay ==
  ASSUME ClientGiven, ClientInv, ClientSessionsKept, ClientSameLogin \/ ClientLaterLogin, ClientKeysKept,
         app' \in [token : 0 .. MaxTokens, gen : Nat, rev : Nat],
         call' \in [Calls -> ClientCallRow],
         \A c \in Calls : call'[c] = call[c] \/ call'[c] = Client!Idle
  PROVE  ClientCallsRight'
<1>1. ASSUME NEW c \in Calls PROVE ClientCallRight(c)'
  <2>1. CASE call'[c] = call[c] BY <2>1, ClientCallStays
  <2>2. CASE call'[c] = Client!Idle
    <3>1. Client!Idle.phase = "IDLE" /\ Client!Idle.key = 0 /\ call'[c] \in ClientCallRow  BY DEF Client!Idle
    <3> QED BY <2>2, <3>1 DEF ClientCallRight
  <2> QED BY <2>1, <2>2
<1> QED BY <1>1 DEF ClientCallsRight

LEMMA ClientIdleRow == ASSUME ClientGiven PROVE Client!Idle \in ClientCallRow /\ Client!Idle.phase = "IDLE"
   /\ Client!Idle.key = 0
BY ClientNumbers DEF Client!Idle, ClientCallRow, Client!Phases, Client!Answers

\* A refresh is begun, or the one under way is joined.
LEMMA ClientBegunRight ==
  ASSUME ClientGiven, ClientInv, stored # 0, refreshes' = Client!Begun(stored), UNCHANGED <<app, stored, token,
         restarts>>
  PROVE  ClientRefreshesRight' /\ ClientOwnRight'
<1>1. ClientSessionsKept /\ app' \in [token : 0 .. MaxTokens, gen : Nat, rev : Nat]
  BY ClientSessionsStay, ClientAppStays
<1>2. CASE Client!RefreshOf(stored) # {} BY <1>2, ClientRefreshesStay DEF Client!Begun
<1>3. CASE Client!RefreshOf(stored) = {}
  <2>1. PICK new : new = [token |-> stored, gen |-> app.gen, rev |-> app.rev, answer |-> "SENT", next |-> 0]
    OBVIOUS
  <2>2. refreshes' = refreshes \union {new} /\ \A r \in refreshes : r.token # stored
    BY <1>3, <2>1 DEF Client!Begun, Client!RefreshOf
  <2>3. stored \in Client!Tokens /\ ClientUsed(stored) /\ app \in [token : 0 .. MaxTokens, gen : Nat, rev : Nat]
    BY ClientNumbers DEF ClientInv, ClientAppRight
  <2>4. /\ new \in ClientRefreshRow /\ new.token = stored /\ new.gen = app.gen /\ new.rev = app.rev
        /\ new.answer = "SENT"
    BY <2>1, <2>3, ClientNumbers DEF ClientRefreshRow
  <2>5. ClientRefreshRight(new)'
    <3>2. ClientOfLogin(new.gen, new.token)' BY <2>3, <2>4 DEF ClientOfLogin, ClientUsed
    <3> QED BY <2>4, <3>2 DEF ClientRefreshRight, Client!Fresh
  <2>6. ASSUME NEW r \in refreshes PROVE ClientRefreshRight(r)'
    <3>1. r.answer = "OK" => token'[r.next].status # "ROTATED"
      BY DEF ClientInv, ClientRefreshesRight, ClientRefreshRight
    <3> QED BY <1>1, <3>1, ClientRefreshStays
  <2>7. ASSUME NEW r \in refreshes PROVE ClientApart(new, r) /\ ClientApart(r, new)
    BY <2>2, <2>4 DEF ClientApart, ClientInv, ClientRefreshesRight, ClientRefreshRight
  <2>8. ClientApart(new, new) BY <2>4 DEF ClientApart
  <2>9. ClientRefreshesRight'
    BY <2>2, <2>5, <2>6, <2>7, <2>8 DEF ClientInv, ClientRefreshesRight, ClientApart
  <2>10. ClientOwnRight' BY <2>2, <2>3, <2>4 DEF ClientInv, ClientOwnRight
  <2> QED BY <2>9, <2>10
<1> QED BY <1>2, <1>3

--------------------------------
\* Authenticated requests.

LEMMA ClientStartCall ==
  ASSUME ClientGiven, ClientInv, NEW c \in Calls, NEW key \in 0 .. MaxKeys, Client!Start(c, key), stored # 0,
         c = "COMMAND" => key \in Client!Keys /\ ClientTracked(key)', c # "COMMAND" => key = 0,
         ClientKeysKept, UNCHANGED <<app, stored, token, restarts>>
  PROVE  ClientCallsRight' /\ ClientRefreshesRight' /\ ClientOwnRight'
<1>1. ClientSessionsKept /\ ClientSameLogin /\ app' \in [token : 0 .. MaxTokens, gen : Nat, rev : Nat]
  BY ClientSessionsStay, ClientAppStays
<1>2. /\ stored \in Client!Tokens /\ ClientUsed(stored) /\ app \in [token : 0 .. MaxTokens, gen : Nat, rev : Nat]
      /\ app.token # 0 => app.token = stored
  BY ClientNumbers DEF ClientInv, ClientAppRight
<1>3. PICK sent, waits :
        /\ sent = [Client!Idle EXCEPT !.gen = app.gen, !.token = stored, !.key = key, !.phase = "SENT", !.try = 1]
        /\ waits = [Client!Idle EXCEPT !.gen = app.gen, !.token = stored, !.key = key, !.phase = "REFRESHES"]
  OBVIOUS
<1>4. \/ call' = [call EXCEPT ![c] = sent] /\ UNCHANGED refreshes
      \/ call' = [call EXCEPT ![c] = waits] /\ refreshes' = Client!Begun(stored)
  <2>1. Client!Credential = stored BY ClientTheCredential
  <2>2. CASE app.token # 0 BY <1>3, <2>1, <2>2 DEF Client!Start, Client!Idle
  <2>3. CASE app.token = 0 BY <1>3, <2>1, <2>3 DEF Client!Start, Client!Idle
  <2> QED BY <2>2, <2>3
<1>5. /\ sent \in ClientCallRow /\ sent.phase = "SENT" /\ sent.try = 1
      /\ waits \in ClientCallRow /\ waits.phase = "REFRESHES" /\ waits.try = 0
      /\ \A row \in {sent, waits} : row.gen = app.gen /\ row.token = stored /\ row.key = key
  <2>1. /\ sent = [phase |-> "SENT", gen |-> app.gen, token |-> stored, try |-> 1, key |-> key, answer |-> "NONE"]
        /\ waits = [phase |-> "REFRESHES", gen |-> app.gen, token |-> stored, try |-> 0, key |-> key, answer |-> "NONE"]
    BY <1>3 DEF Client!Idle
  <2>2. app.gen \in Nat /\ stored \in 0 .. MaxTokens BY <1>2, ClientNumbers
  <2>3. sent \in ClientCallRow /\ waits \in ClientCallRow
    BY <2>1, <2>2 DEF ClientCallRow, Client!Phases, Client!Answers
  <2> QED BY <2>1, <2>3
<1>6. PICK row \in {sent, waits} : call' = [call EXCEPT ![c] = row] BY <1>4
<1>7. /\ call \in [Calls -> ClientCallRow] /\ call' \in [Calls -> ClientCallRow] /\ call'[c] = row
      /\ \A d \in Calls : d # c => call'[d] = call[d]
  BY <1>5, <1>6 DEF ClientInv, ClientCallsRight
<1>8. ClientCallRight(c)'
  <2>1. app'.gen \in Nat /\ stored' = stored /\ ClientUsed(stored)' /\ app'.gen = app.gen
    BY <1>1, <1>2 DEF ClientSessionsKept
  <2>2. ClientOfLogin(call[c].gen, call[c].token)' BY <1>2, <1>5, <1>7, <2>1 DEF ClientOfLogin
  <2> QED BY <1>5, <1>7, <2>2 DEF ClientCallRight
<1>9. ASSUME NEW d \in Calls, d # c PROVE ClientCallRight(d)'
  BY <1>1, <1>7, <1>9, ClientCallStays
<1>10. ClientCallsRight' BY <1>7, <1>8, <1>9 DEF ClientCallsRight
<1> QED BY <1>4, <1>10, ClientBegunRight, ClientRefreshesStay

LEMMA ClientCommandInv ==
  ASSUME ClientGiven, ClientInv, Client!Command
  PROVE  ClientInv'
<1>1. PICK cust : cust = token[stored].customer
  OBVIOUS
<1>2. /\ "COMMAND" \in Calls /\ stored # 0 /\ Client!PrepareAftersale(cust)
      /\ \E j \in journal' : j.customer = cust /\ Client!Start("COMMAND", j.key)
      /\ UNCHANGED <<app, stored, token, placed, late, seen, restarts>>
  BY <1>1, ClientTheCredential DEF Client!Command, Client!Prepare, Client!Customer, ClientGiven, Client!server
<1>3. cust \in Alike  BY <1>1, <1>2, ClientNumbers DEF ClientInv, ClientAppRight, ClientSessionsRight
<1>4. journal \subseteq journal' /\ journal' \subseteq [customer : Alike, key : Client!Keys] /\ let' = let
  <2>1. CASE Client!Pending(cust) # {}  BY <1>2, <2>1 DEF Client!PrepareAftersale, ClientInv, ClientKeysRight
  <2>2. CASE Client!Pending(cust) = {}
    <3>1. PICK k \in Client!Keys : journal' = journal \union {[customer |-> cust, key |-> k]}
      BY <1>2, <2>2, ClientFreeKey DEF Client!PrepareAftersale
    <3> QED BY <1>2, <1>3, <3>1 DEF Client!PrepareAftersale, ClientInv, ClientKeysRight
  <2> QED BY <2>1, <2>2
<1>5. ClientKeysKept BY <1>2, <1>4 DEF ClientKeysKept, ClientTracked
<1>6. ClientKeysRight' BY <1>2, <1>4, <1>5, ClientKeysNext DEF ClientInv, ClientKeysRight
<1>7. PICK key \in Client!Keys : Client!Start("COMMAND", key) /\ ClientTracked(key)'
  <2>1. PICK j \in journal' : Client!Start("COMMAND", j.key) BY <1>2
  <2>2. PICK k \in Client!Keys : k = j.key BY <1>4, <2>1
  <2>3. ClientTracked(k)' BY <2>1, <2>2 DEF ClientTracked
  <2> QED BY <2>1, <2>2, <2>3
<1>8. key \in 0 .. MaxKeys BY ClientNumbers
<1>9. ClientCallsRight' /\ ClientRefreshesRight' /\ ClientOwnRight'
  BY <1>2, <1>5, <1>7, <1>8, ClientStartCall
<1> QED BY <1>2, <1>6, <1>9, ClientSessionsStay, ClientAppStays DEF ClientInv

LEMMA ClientOtherInv ==
  ASSUME ClientGiven, ClientInv, NEW c \in Calls, Client!Other(c)
  PROVE  ClientInv'
<1>1. /\ c # "COMMAND" /\ Client!Start(c, 0) /\ stored # 0
      /\ UNCHANGED <<app, stored, token, journal, placed, late, seen, let, restarts>>
  BY ClientTheCredential DEF Client!Other, Client!server, Client!history
<1>2. 0 \in 0 .. MaxKeys BY ClientNumbers
<1>3. ClientKeysKept /\ ClientKeysRight' BY <1>1, ClientKeysStay
<1>4. ClientCallsRight' /\ ClientRefreshesRight' /\ ClientOwnRight'  BY <1>1, <1>2, <1>3, ClientStartCall
<1> QED BY <1>1, <1>3, <1>4, ClientSessionsStay, ClientAppStays DEF ClientInv

\* A caller is told; of a command that ended, the key is no longer needed.
LEMMA ClientToldRight ==
  ASSUME ClientGiven, ClientInv, NEW c \in Calls, NEW answer, Client!Told(c, answer), call[c].phase # "IDLE",
         c = "COMMAND" /\ answer = "REFUSED" => placed[call[c].key] = "REFUSED",
         UNCHANGED <<placed, late, let, restarts>>
  PROVE  /\ ClientKeysKept /\ ClientKeysRight'
         /\ call' \in [Calls -> ClientCallRow] /\ \A d \in Calls : call'[d] = call[d] \/ call'[d] = Client!Idle
<1>1. call \in [Calls -> ClientCallRow] /\ call' = [call EXCEPT ![c] = Client!Idle]
  BY DEF Client!Told, ClientInv, ClientCallsRight
<1>2. call' \in [Calls -> ClientCallRow] /\ \A d \in Calls : call'[d] = call[d] \/ call'[d] = Client!Idle
  BY <1>1, ClientIdleRow
<1>3. c = "COMMAND" => call[c].key \in Client!Keys  BY DEF ClientInv, ClientCallsRight, ClientCallRight
<1>4. seen' \subseteq Client!Keys /\ seen \subseteq seen' /\ journal' \subseteq journal
  BY <1>3 DEF Client!Told, Client!Without, ClientInv, ClientKeysRight
<1>5. ASSUME NEW k \in Client!Keys, ClientTracked(k) PROVE ClientTracked(k)'
  <2>1. CASE c = "COMMAND" /\ k = call[c].key /\ answer = "OK"
    <3>1. k \in seen' BY <2>1 DEF Client!Told
    <3> QED BY <3>1 DEF ClientTracked
  <2>2. CASE c = "COMMAND" /\ k = call[c].key /\ answer = "REFUSED"
    <3>1. placed'[k] = "REFUSED" BY <2>2
    <3> QED BY <3>1 DEF ClientTracked
  <2>3. CASE ~(c = "COMMAND" /\ (answer = "OK" \/ answer = "REFUSED"))
    <3>1. ~(c = "COMMAND" /\ (answer = "OK" \/ Client!Certain(answer)))
      BY <2>3 DEF Client!Certain, Client!CertainAftersale, ClientGiven
    <3>2. journal' = journal BY <3>1 DEF Client!Told
    <3> QED BY <1>4, <1>5, <3>2 DEF ClientTracked
  <2>4. CASE ~(c = "COMMAND" /\ k = call[c].key)
    <3>1. \A j \in journal : j.key = k => j \in journal' BY <2>4 DEF Client!Told, Client!Without
    <3> QED BY <1>4, <1>5, <3>1 DEF ClientTracked
  <2> QED BY <2>1, <2>2, <2>3, <2>4
<1>6. ClientKeysKept BY <1>5 DEF ClientKeysKept
<1>7. ClientKeysRight' BY <1>4, <1>6, ClientKeysNext DEF ClientInv, ClientKeysRight
<1> QED BY <1>2, <1>6, <1>7

LEMMA ClientReceivedInv ==
  ASSUME ClientGiven, ClientInv, NEW c \in Calls, Client!ReceiveOk(c) \/ Client!ReceiveError(c)
  PROVE  ClientInv'
<1>1. PICK answer :
        /\ Client!Told(c, answer) /\ call[c].phase = "BACK" /\ (answer = "REFUSED" => call[c].answer = "REFUSED")
        /\ UNCHANGED <<app, stored, refreshes, token, placed, late, let, restarts>>
  <2>1. CASE Client!ReceiveOk(c) BY <2>1 DEF Client!ReceiveOk, Client!server
  <2>2. CASE Client!ReceiveError(c) BY <2>2 DEF Client!ReceiveError, Client!server
  <2> QED BY <2>1, <2>2
<1>2. c = "COMMAND" /\ answer = "REFUSED" => placed[call[c].key] = "REFUSED"
  BY <1>1 DEF ClientInv, ClientCallsRight, ClientCallRight
<1>3. /\ ClientKeysKept /\ ClientKeysRight'
      /\ call' \in [Calls -> ClientCallRow] /\ \A d \in Calls : call'[d] = call[d] \/ call'[d] = Client!Idle
  BY <1>1, <1>2, ClientToldRight
<1>4. ClientSessionsKept /\ ClientSessionsRight' /\ ClientSameLogin /\ ClientAppRight'
      /\ app' \in [token : 0 .. MaxTokens, gen : Nat, rev : Nat]
  BY <1>1, ClientSessionsStay, ClientAppStays
<1>5. ClientCallsRight' BY <1>3, <1>4, ClientCallsStay
<1> QED BY <1>1, <1>3, <1>4, <1>5, ClientRefreshesStay DEF ClientInv

\* A call goes on, in its login.
LEMMA ClientCallGoesOn ==
  ASSUME ClientGiven, ClientInv, NEW c \in Calls, NEW row \in ClientCallRow, ClientKeysKept, ClientSessionsKept,
         ClientSameLogin, app' \in [token : 0 .. MaxTokens, gen : Nat, rev : Nat],
         call[c].phase # "IDLE", call'[c] = row, row.gen = call[c].gen, row.key = call[c].key,
         row.phase # "IDLE", ClientOfLogin(row.gen, row.token)',
         row.phase = "REFRESHES" => row.try < 2,
         row.phase \in {"SENT", "BACK"} => row.try > 0,
         c = "COMMAND" /\ row.phase = "BACK" /\ row.answer = "REFUSED" => placed'[row.key] = "REFUSED"
  PROVE  ClientCallRight(c)'
<1>1. /\ c = "COMMAND" => row.key \in Client!Keys /\ ClientTracked(row.key)'
      /\ c # "COMMAND" => row.key = 0
  <2>1. /\ c = "COMMAND" => row.key \in Client!Keys /\ ClientTracked(row.key)
        /\ c # "COMMAND" => row.key = 0
    BY DEF ClientInv, ClientCallsRight, ClientCallRight
  <2> QED BY <2>1 DEF ClientKeysKept
<1> QED BY <1>1 DEF ClientCallRight, ClientOfLogin, ClientTracked

LEMMA ClientReceiveUnauthorizedInv ==
  ASSUME ClientGiven, ClientInv, NEW c \in Calls, Client!ReceiveUnauthorized(c)
  PROVE  ClientInv'
<1>1. /\ call[c].phase = "BACK" /\ call[c].try = 1
      /\ UNCHANGED <<app, stored, token, placed, late, let, restarts>>
  BY DEF Client!ReceiveUnauthorized, Client!server
<1>2. /\ ClientSessionsKept /\ ClientSessionsRight' /\ ClientSameLogin /\ ClientAppRight'
      /\ app' \in [token : 0 .. MaxTokens, gen : Nat, rev : Nat]
  BY <1>1, ClientSessionsStay, ClientAppStays
<1>3. CASE Client!Told(c, "CHANGED") /\ UNCHANGED refreshes
  <2>1. /\ ClientKeysKept /\ ClientKeysRight'
        /\ call' \in [Calls -> ClientCallRow] /\ \A d \in Calls : call'[d] = call[d] \/ call'[d] = Client!Idle
    BY <1>1, <1>3, ClientToldRight
  <2> QED BY <1>1, <1>2, <1>3, <2>1, ClientCallsStay, ClientRefreshesStay DEF ClientInv
<1>4. PICK again, waits :
        /\ again = [call[c] EXCEPT !.phase = "SENT", !.try = 2, !.token = app.token, !.answer = "NONE"]
        /\ waits = [call[c] EXCEPT !.phase = "REFRESHES", !.answer = "NONE"]
  OBVIOUS
<1>5. ASSUME Client!Current(call[c].gen), UNCHANGED <<journal, seen>>,
             \/ call' = [call EXCEPT ![c] = again] /\ UNCHANGED refreshes
             \/ call' = [call EXCEPT ![c] = waits] /\ refreshes' = Client!Begun(call[c].token)
                 /\ app.token = call[c].token
      PROVE  ClientInv'
  <2>1. /\ app.token # 0 /\ stored = app.token /\ stored \in Client!Tokens /\ ClientUsed(stored)
            /\ stored' = stored
        /\ call[c].gen = app.gen /\ app.gen \in Nat
    BY <1>1, <1>5, ClientNumbers DEF Client!Current, ClientInv, ClientAppRight
  <2>2. call[c] \in ClientCallRow /\ call \in [Calls -> ClientCallRow]
     /\ ClientOfLogin(call[c].gen, call[c].token)
    BY <1>1 DEF ClientInv, ClientCallsRight, ClientCallRight
  <2>3. /\ again \in ClientCallRow /\ again.phase = "SENT" /\ again.try = 2 /\ again.token = stored
        /\ again.gen = app.gen /\ again.key = call[c].key
        /\ waits \in ClientCallRow /\ waits.phase = "REFRESHES" /\ waits.try = 1 /\ waits.token = call[c].token
        /\ waits.gen = app.gen /\ waits.key = call[c].key
    <3>1. PICK old \in ClientCallRow : old = call[c] BY <2>2
    <3>2. PICK t \in 0 .. MaxTokens : t = app.token BY <2>1, ClientNumbers
    <3>3. again = [old EXCEPT !.phase = "SENT", !.try = 2, !.token = t, !.answer = "NONE"]
      BY <1>4, <3>1, <3>2
    <3>4. again = [phase |-> "SENT", gen |-> old.gen, token |-> t, try |-> 2, key |-> old.key, answer |-> "NONE"]
      BY <3>3 DEF ClientCallRow
    <3>5. /\ again \in ClientCallRow /\ again.phase = "SENT" /\ again.try = 2 /\ again.token = stored
          /\ again.gen = old.gen /\ again.key = old.key
      BY <2>1, <3>2, <3>4 DEF ClientCallRow, Client!Phases, Client!Answers
    <3>6. /\ waits \in ClientCallRow /\ waits.phase = "REFRESHES" /\ waits.try = old.try
              /\ waits.token = old.token
          /\ waits.gen = old.gen /\ waits.key = old.key
      BY <1>4, <3>1 DEF ClientCallRow, Client!Phases, Client!Answers
    <3> QED BY <1>1, <2>1, <3>1, <3>5, <3>6
  <2>4. PICK row \in {again, waits} : call' = [call EXCEPT ![c] = row] BY <1>5
  <2>5. call' \in [Calls -> ClientCallRow] /\ call'[c] = row /\ \A d \in Calls : d # c => call'[d] = call[d]
    BY <2>2, <2>3, <2>4
  <2>6. ClientKeysKept /\ ClientKeysRight' BY <1>1, <1>5, ClientKeysStay
  <2>7. ClientOfLogin(row.gen, row.token)'
    <3>1. ClientOfLogin(app.gen, stored) BY <2>1 DEF ClientOfLogin
    <3>2. ClientOfLogin(row.gen, row.token) BY <2>2, <2>1, <2>3, <3>1
    <3>5. row.gen \in Nat BY <2>1, <2>3
    <3> QED BY <1>2, <3>2, <3>5, ClientOfLoginStays
  <2>8. ClientCallRight(c)' BY <1>1, <1>2, <2>1, <2>3, <2>5, <2>6, <2>7, ClientCallGoesOn
  <2>9. ASSUME NEW d \in Calls, d # c PROVE ClientCallRight(d)'
    BY <1>2, <2>5, <2>6, <2>9, ClientCallStays
  <2>10. ClientCallsRight' BY <2>5, <2>8, <2>9 DEF ClientCallsRight
  <2>11. ClientRefreshesRight' /\ ClientOwnRight'  BY <1>1, <1>5, <2>1, ClientRefreshesStay, ClientBegunRight
  <2> QED BY <1>2, <2>6, <2>10, <2>11 DEF ClientInv
<1>6. \/ Client!Told(c, "CHANGED") /\ UNCHANGED refreshes
      \/ /\ Client!Current(call[c].gen) /\ UNCHANGED <<journal, seen>>
         /\ \/ call' = [call EXCEPT ![c] = again] /\ UNCHANGED refreshes
            \/ call' = [call EXCEPT ![c] = waits] /\ refreshes' = Client!Begun(call[c].token)
                /\ app.token = call[c].token
  BY <1>4 DEF Client!ReceiveUnauthorized
<1> QED BY <1>3, <1>5, <1>6

\* The app's session is cleared.
LEMMA ClientClearedRight ==
  ASSUME ClientGiven, ClientInv, Client!Cleared, ClientSessionsKept,
         \A r \in refreshes : r.answer = "OK" => token'[r.next].status # "ROTATED"
  PROVE  /\ ClientLaterLogin /\ app' \in [token : 0 .. MaxTokens, gen : Nat, rev : Nat]
         /\ ClientAppRight' /\ app'.token = 0 /\ stored' = 0 /\ \A r \in refreshes : ClientRefreshRight(r)'
<1>1. app.gen \in Nat /\ app.rev \in Nat BY DEF ClientInv, ClientAppRight
<1>2. /\ app' \in [token : 0 .. MaxTokens, gen : Nat, rev : Nat]
      /\ app'.token = 0 /\ stored' = 0 /\ app'.gen = app.gen + 1
  BY <1>1, ClientNumbers DEF Client!Cleared
<1>3. ClientLaterLogin /\ ~ClientSameLogin BY <1>1, <1>2 DEF ClientLaterLogin, ClientSameLogin
<1>4. ClientAppRight' BY <1>2, ClientNumbers DEF ClientAppRight
<1>5. ASSUME NEW r \in refreshes PROVE ClientRefreshRight(r)'
  <2>1. r.token # 0 /\ (r.answer = "OK" => r.next # 0)
    BY ClientNumbers DEF ClientInv, ClientRefreshesRight, ClientRefreshRight, ClientOfLogin
  <2> QED BY <1>2, <1>3, <2>1, ClientRefreshStays
<1> QED BY <1>2, <1>3, <1>4, <1>5

LEMMA ClientReceiveUnauthorizedAgainInv ==
  ASSUME ClientGiven, ClientInv, NEW c \in Calls, Client!ReceiveUnauthorizedAgain(c)
  PROVE  ClientInv'
<1>1. PICK answer : /\ Client!Told(c, answer) /\ answer # "REFUSED" /\ call[c].phase = "BACK"
                    /\ (Client!Cleared \/ Client!Kept)
                    /\ UNCHANGED <<refreshes, token, placed, late, let, restarts>>
  BY DEF Client!ReceiveUnauthorizedAgain, Client!server
<1>2. /\ ClientKeysKept /\ ClientKeysRight'
      /\ call' \in [Calls -> ClientCallRow] /\ \A d \in Calls : call'[d] = call[d] \/ call'[d] = Client!Idle
  BY <1>1, ClientToldRight
<1>3. ClientSessionsKept /\ ClientSessionsRight' BY <1>1, ClientSessionsStay
<1>4. CASE Client!Kept
  BY <1>1, <1>2, <1>3, <1>4, ClientAppStays, ClientCallsStay, ClientRefreshesStay DEF ClientInv, Client!Kept
<1>5. CASE Client!Cleared
  <2>1. \A r \in refreshes : r.answer = "OK" => token'[r.next].status # "ROTATED"
    BY <1>1 DEF ClientInv, ClientRefreshesRight, ClientRefreshRight
  <2>2. /\ ClientLaterLogin /\ app' \in [token : 0 .. MaxTokens, gen : Nat, rev : Nat]
        /\ ClientAppRight' /\ app'.token = 0 /\ stored' = 0 /\ \A r \in refreshes : ClientRefreshRight(r)'
    BY <1>3, <1>5, <2>1, ClientClearedRight
  <2>3. ClientRefreshesRight' BY <1>1, <2>2 DEF ClientInv, ClientRefreshesRight, ClientApart
  <2>4. ClientOwnRight' BY <1>1, <2>2 DEF ClientInv, ClientOwnRight
  <2>5. ClientCallsRight' BY <1>2, <1>3, <2>2, ClientCallsStay
  <2> QED BY <1>2, <1>3, <2>2, <2>3, <2>4, <2>5 DEF ClientInv
<1> QED BY <1>1, <1>4, <1>5

--------------------------------
\* Refreshing.

\* Everybody who waited is told, but nobody that a command was refused.
LEMMA ClientAllToldRight ==
  ASSUME ClientGiven, ClientInv, NEW waiting, NEW answer, Client!AllTold(waiting, answer), answer # "REFUSED",
         UNCHANGED <<placed, late, let, restarts>>
  PROVE  /\ ClientKeysKept /\ ClientKeysRight'
         /\ call' \in [Calls -> ClientCallRow] /\ \A d \in Calls : call'[d] = call[d] \/ call'[d] = Client!Idle
<1>1. ~Client!Certain(answer) BY DEF Client!Certain, Client!CertainAftersale, ClientGiven
<1>2. UNCHANGED <<journal, seen>> BY <1>1 DEF Client!AllTold
<1>3. call \in [Calls -> ClientCallRow]
   /\ call' = [c \in Calls |-> IF c \in waiting THEN Client!Idle ELSE call[c]]
  BY DEF Client!AllTold, ClientInv, ClientCallsRight
<1>4. call' \in [Calls -> ClientCallRow] /\ \A d \in Calls : call'[d] = call[d] \/ call'[d] = Client!Idle
  BY <1>3, ClientIdleRow
<1> QED BY <1>2, <1>4, ClientKeysStay

\* Everybody who waited goes on, with the token that is stored by now.
LEMMA ClientGoOnRight ==
  ASSUME ClientGiven, ClientInv, NEW t \in Client!Tokens, NEW its \in Client!Tokens,
         Client!GoOn(Client!Waiting(its), t),
         ClientSessionsKept, ClientSameLogin, app' \in [token : 0 .. MaxTokens, gen : Nat, rev : Nat],
         stored' = t, ClientUsed(t)', UNCHANGED <<placed, late, let, restarts>>
  PROVE  /\ ClientKeysKept /\ ClientKeysRight' /\ ClientCallsRight'
<1>1. UNCHANGED <<journal, seen>> /\ ClientKeysKept /\ ClientKeysRight'  BY ClientKeysStay DEF Client!GoOn
<1>2. call \in [Calls -> ClientCallRow] BY DEF ClientInv, ClientCallsRight
<1>3. ASSUME NEW c \in Calls
      PROVE  call'[c] \in ClientCallRow /\ ClientCallRight(c)'
  <2>1. CASE c \notin Client!Waiting(its)
    <3>1. call'[c] = call[c] BY <2>1 DEF Client!GoOn
    <3> QED BY <1>1, <1>2, <3>1, ClientCallStays
  <2>2. CASE c \in Client!Waiting(its)
    <3>1. PICK old \in ClientCallRow : old = call[c] /\ old.phase = "REFRESHES" /\ old.try < 2
       /\ ClientOfLogin(old.gen, old.token)
      BY <1>2, <2>2 DEF Client!Waiting, ClientInv, ClientCallsRight, ClientCallRight
    <3>2. PICK row : row = [old EXCEPT !.phase = "SENT", !.try = old.try + 1, !.token = t]
      OBVIOUS
    <3>3. call'[c] = row BY <2>2, <3>1, <3>2 DEF Client!GoOn
    <3>4. PICK tries \in 0 .. 2 : tries = old.try + 1 /\ tries > 0 BY <3>1 DEF ClientCallRow
    <3>5. row = [phase |-> "SENT", gen |-> old.gen, token |-> t, try |-> tries, key |-> old.key, answer |-> old.answer]
      BY <3>2, <3>4 DEF ClientCallRow
    <3>6. row \in ClientCallRow /\ row.phase = "SENT" /\ row.try > 0 /\ row.token = t /\ row.gen = old.gen
       /\ row.key = old.key
      BY <3>4, <3>5, ClientNumbers DEF ClientCallRow, Client!Phases
    <3>7. ClientOfLogin(row.gen, row.token)'
      <4>1. old.gen <= app'.gen BY <3>1 DEF ClientOfLogin, ClientSameLogin
      <4>2. t # 0 /\ stored' = t BY ClientNumbers
      <4> QED BY <3>6, <4>1, <4>2 DEF ClientOfLogin
    <3>8. ClientCallRight(c)' BY <1>1, <3>1, <3>3, <3>6, <3>7, ClientCallGoesOn
    <3> QED BY <3>3, <3>6, <3>8
  <2> QED BY <2>1, <2>2
<1>4. call' \in [Calls -> ClientCallRow] BY <1>3 DEF Client!GoOn
<1> QED BY <1>1, <1>3, <1>4 DEF ClientCallsRight

LEMMA ClientRefreshAnsweredInv ==
  ASSUME ClientGiven, ClientInv, NEW r \in refreshes, Client!RefreshAnswered(r)
  PROVE  ClientInv'
<1>1. /\ refreshes' = refreshes \ {r} /\ r.answer # "SENT"
      /\ UNCHANGED <<token, placed, late, let, restarts>>
  BY DEF Client!RefreshAnswered, Client!server
<1>2. ClientSessionsKept /\ ClientSessionsRight' BY <1>1, ClientSessionsStay
<1>3. /\ ClientRefreshRight(r) /\ r.token \in Client!Tokens /\ r.answer \in {"OK", "UNAUTHORIZED", "LOST"}
      /\ ClientOfLogin(r.gen, r.token)
  BY <1>1 DEF ClientInv, ClientRefreshesRight, ClientRefreshRight, ClientRefreshRow
<1>4. /\ \A q \in refreshes : q.answer = "OK" => token'[q.next].status # "ROTATED"
      /\ \A q \in refreshes : ClientRefreshRight(q)
  BY <1>1 DEF ClientInv, ClientRefreshesRight, ClientRefreshRight
<1>5. ASSUME \A q \in refreshes \ {r} : ClientRefreshRight(q)' PROVE ClientRefreshesRight'
  BY <1>1, <1>5 DEF ClientInv, ClientRefreshesRight, ClientApart
<1>6. ASSUME Client!Kept
      PROVE  /\ ClientSameLogin /\ ClientAppRight' /\ app' \in [token : 0 .. MaxTokens, gen : Nat, rev : Nat]
             /\ ClientRefreshesRight'
  <2>1. ClientSameLogin /\ ClientAppRight' /\ app' \in [token : 0 .. MaxTokens, gen : Nat, rev : Nat]
    BY <1>2, <1>6, ClientAppStays DEF Client!Kept
  <2>2. ASSUME NEW q \in refreshes PROVE ClientRefreshRight(q)'
    BY <1>2, <1>4, <1>6, <2>1, ClientRefreshStays DEF Client!Kept
  <2> QED BY <1>5, <2>1, <2>2
<1>7. ASSUME Client!Kept, ~Client!Fresh(r) PROVE ClientOwnRight'
  <2>1. r.token # stored BY <1>3, <1>7 DEF ClientRefreshRight
  <2> QED BY <1>1, <1>7, <2>1 DEF ClientInv, ClientOwnRight, Client!Kept
<1>8. CASE ~Client!Fresh(r) /\ Client!Kept /\ Client!AllTold(Client!Waiting(r.token), "CHANGED")
  <2>1. /\ ClientKeysKept /\ ClientKeysRight'
        /\ call' \in [Calls -> ClientCallRow] /\ \A d \in Calls : call'[d] = call[d] \/ call'[d] = Client!Idle
    BY <1>1, <1>8, ClientAllToldRight
  <2> QED BY <1>2, <1>6, <1>7, <1>8, <2>1, ClientCallsStay DEF ClientInv
<1>9. CASE ~Client!Fresh(r) /\ app.gen = r.gen /\ Client!Kept /\ Client!GoOn(Client!Waiting(r.token), app.token)
  <2>1. app.token # 0 BY <1>3, <1>9 DEF ClientRefreshRight, Client!Fresh
  <2>2. PICK t \in Client!Tokens : t = app.token /\ t = stored /\ ClientUsed(t)
    BY <2>1, ClientNumbers DEF ClientInv, ClientAppRight
  <2>3. stored' = t /\ ClientUsed(t)' BY <1>2, <1>9, <2>2 DEF Client!Kept, ClientSessionsKept
  <2>4. ClientKeysRight' /\ ClientCallsRight'  BY <1>1, <1>2, <1>3, <1>6, <1>9, <2>2, <2>3, ClientGoOnRight
  <2> QED BY <1>2, <1>6, <1>7, <1>9, <2>4 DEF ClientInv
<1>10. CASE Client!Fresh(r) /\ r.answer = "OK" /\ Client!Rotated(r.next)
   /\ Client!GoOn(Client!Waiting(r.token), r.next)
  <2>1. PICK t \in Client!Tokens : /\ t = r.next /\ ClientUsed(t) /\ t # stored /\ t # 0
                                       /\ token[t].status # "ROTATED"
                                   /\ token[t].family = token[r.token].family
    BY <1>3, <1>10, ClientNumbers DEF ClientRefreshRight
  <2>2. app.gen \in Nat /\ app.rev \in Nat /\ app \in [token : 0 .. MaxTokens, gen : Nat, rev : Nat]
    BY DEF ClientInv, ClientAppRight
  <2>3. /\ app' \in [token : 0 .. MaxTokens, gen : Nat, rev : Nat] /\ app'.gen = app.gen
        /\ app'.token = t /\ stored' = t
    <3>1. PICK rev \in Nat : rev = app.rev + 1 BY <2>2
    <3>2. app' = [token |-> t, gen |-> app.gen, rev |-> rev]  BY <1>10, <2>1, <2>2, <3>1 DEF Client!Rotated
    <3>3. stored' = t BY <1>10, <2>1 DEF Client!Rotated
    <3> QED BY <2>2, <3>2, <3>3, ClientNumbers
  <2>4. ClientUsed(t)' BY <1>2, <2>1 DEF ClientSessionsKept
  <2>5. ClientSameLogin
    <3>1. token[r.token].family = token[stored].family  BY <1>3, <1>10 DEF ClientOfLogin, Client!Fresh
    <3> QED BY <1>1, <2>1, <2>3, <3>1 DEF ClientSameLogin
  <2>6. ClientAppRight' BY <2>1, <2>3, <2>4, ClientNumbers DEF ClientAppRight, ClientUsed
  <2>7. ASSUME NEW q \in refreshes \ {r} PROVE ClientRefreshRight(q)'
    <3>1. q.token # t /\ (q.answer = "OK" => q.next # t)
      BY <1>10, <2>1 DEF ClientInv, ClientRefreshesRight, ClientApart
    <3>2. stored' # q.token /\ (q.answer = "OK" => stored' # q.next) /\ app'.token # 0  BY <2>1, <2>3, <3>1
    <3> QED BY <1>2, <1>4, <2>3, <2>5, <3>2, ClientRefreshStays
  <2>8. ClientRefreshesRight' BY <1>5, <2>7
  <2>9. ClientKeysRight' /\ ClientCallsRight'
    BY <1>1, <1>2, <1>3, <1>10, <2>1, <2>3, <2>4, <2>5, ClientGoOnRight
  <2>10. ClientOwnRight' BY <1>1, <2>1, <2>3 DEF ClientInv, ClientOwnRight
  <2> QED BY <1>2, <2>6, <2>8, <2>9, <2>10 DEF ClientInv
<1>11. CASE r.answer # "OK" /\ Client!Cleared /\ Client!AllTold(Client!Waiting(r.token), r.answer)
  <2>1. /\ ClientLaterLogin /\ app' \in [token : 0 .. MaxTokens, gen : Nat, rev : Nat]
        /\ ClientAppRight' /\ app'.token = 0 /\ stored' = 0 /\ \A q \in refreshes : ClientRefreshRight(q)'
    BY <1>2, <1>4, <1>11, ClientClearedRight
  <2>2. /\ ClientKeysKept /\ ClientKeysRight'
        /\ call' \in [Calls -> ClientCallRow] /\ \A d \in Calls : call'[d] = call[d] \/ call'[d] = Client!Idle
    BY <1>1, <1>3, <1>11, ClientAllToldRight
  <2>3. ClientCallsRight' BY <1>2, <2>1, <2>2, ClientCallsStay
  <2>4. ClientRefreshesRight' BY <1>5, <2>1
  <2>5. ClientOwnRight' BY <1>1, <2>1 DEF ClientInv, ClientOwnRight
  <2> QED BY <1>2, <2>1, <2>2, <2>3, <2>4, <2>5 DEF ClientInv
<1> QED BY <1>8, <1>9, <1>10, <1>11 DEF Client!RefreshAnswered

--------------------------------
\* Signing in and out, and the end of the app's life.

LEMMA ClientLoginInv ==
  ASSUME ClientGiven, ClientInv, NEW cust \in Alike, Client!Login(cust)
  PROVE  ClientInv'
<1>1. PICK t \in Client!Tokens : t = Client!Min(Client!FreeTokens) /\ token[t] = Client!NoSession
   /\ ~ClientUsed(t)
  BY ClientFreeToken DEF Client!Login
<1>2. PICK new : new = [customer |-> cust, family |-> t, status |-> "GOOD"]
  OBVIOUS
<1>3. /\ stored = 0 /\ token' = [token EXCEPT ![t] = new] /\ Client!Saved(t)
      /\ UNCHANGED <<journal, refreshes, call, placed, late, seen, let, restarts>>
  BY <1>1, <1>2, ClientTheCredential DEF Client!Login, Client!history
<1>4. /\ token \in [Client!Tokens -> ClientSessionRow] /\ new \in ClientSessionRow /\ t # 0
          /\ t \in 0 .. MaxTokens
      /\ app \in [token : 0 .. MaxTokens, gen : Nat, rev : Nat] /\ app.gen \in Nat /\ app.rev \in Nat
  BY <1>2, ClientNumbers DEF ClientInv, ClientSessionsRight, ClientSessionRow, ClientAppRight
<1>5. /\ token' \in [Client!Tokens -> ClientSessionRow] /\ token'[t] = new
      /\ \A u \in Client!Tokens : u # t => token'[u] = token[u]
  BY <1>3, <1>4
<1>6. ClientSessionsKept BY <1>1, <1>5 DEF ClientSessionsKept, ClientUsed
<1>7. ClientSessionsRight' BY <1>2, <1>5 DEF ClientInv, ClientSessionsRight, ClientUsed
<1>8. /\ app' \in [token : 0 .. MaxTokens, gen : Nat, rev : Nat] /\ app'.token = t /\ stored' = t
      /\ app'.gen = app.gen + 1
  BY <1>3, <1>4 DEF Client!Saved
<1>9. ClientLaterLogin /\ ~ClientSameLogin BY <1>4, <1>8 DEF ClientLaterLogin, ClientSameLogin
<1>10. ClientAppRight' BY <1>2, <1>4, <1>5, <1>8 DEF ClientAppRight, ClientUsed
<1>11. ClientKeysKept /\ ClientKeysRight' BY <1>3, ClientKeysStay
<1>12. ClientCallsRight'  BY <1>3, <1>6, <1>8, <1>9, <1>11, ClientCallsStay DEF ClientInv, ClientCallsRight
<1>13. ASSUME NEW r \in refreshes
       PROVE  ClientRefreshRight(r)' /\ r.token # t /\ token'[r.token] = token[r.token]
  <2>1. /\ r.token \in Client!Tokens /\ r.token # t
        /\ r.answer = "OK" => r.next \in Client!Tokens /\ r.next # t /\ token[r.next].status # "ROTATED"
    BY <1>1 DEF ClientInv, ClientRefreshesRight, ClientRefreshRight, ClientOfLogin
  <2>2. r.answer = "OK" => token'[r.next].status # "ROTATED" BY <1>5, <2>1
  <2>3. stored' # r.token /\ (r.answer = "OK" => stored' # r.next) BY <1>8, <2>1
  <2>4. ClientRefreshRight(r)' BY <1>6, <1>8, <1>9, <2>2, <2>3, ClientRefreshStays
  <2> QED BY <1>5, <2>1, <2>4
<1>14. ClientRefreshesRight' BY <1>3, <1>13 DEF ClientInv, ClientRefreshesRight, ClientApart
<1>15. ClientOwnRight'
  <2>1. \A u \in Client!Tokens : token[u].status # "REPLAYED" => token'[u].status # "REPLAYED"  BY <1>2, <1>5
  <2>2. token'[t].status = "GOOD" BY <1>2, <1>5
  <2> QED BY <1>3, <1>8, <1>13, <2>1, <2>2 DEF ClientInv, ClientOwnRight
<1> QED BY <1>7, <1>10, <1>11, <1>12, <1>14, <1>15 DEF ClientInv

\* A session changes its status, and not back to rotated.
LEMMA ClientStatusChanges ==
  ASSUME ClientGiven, ClientInv, NEW t \in Client!Tokens, ClientUsed(t), NEW status \in {"ENDED", "STALE"},
         token' = [token EXCEPT ![t].status = status]
  PROVE  /\ ClientSessionsKept /\ ClientSessionsRight'
         /\ \A u \in Client!Tokens : /\ token'[u].status = "ROTATED" => token[u].status = "ROTATED"
                                     /\ token'[u].status = "REPLAYED" => token[u].status = "REPLAYED"
<1>1. token \in [Client!Tokens -> ClientSessionRow] /\ token[t] \in ClientSessionRow
  BY DEF ClientInv, ClientSessionsRight
<1>2. PICK row : row = [token[t] EXCEPT !.status = status]
  OBVIOUS
<1>3. /\ row \in ClientSessionRow /\ row.status = status
      /\ row.family = token[t].family /\ row.customer = token[t].customer
  BY <1>1, <1>2 DEF ClientSessionRow
<1>4. token' = [token EXCEPT ![t] = row] BY <1>2
<1>5. /\ token' \in [Client!Tokens -> ClientSessionRow] /\ token'[t] = row
      /\ \A u \in Client!Tokens : u # t => token'[u] = token[u]
  BY <1>1, <1>3, <1>4
<1>6. ClientSessionsRight'
  <2>1. token[t].family \in Client!Tokens /\ token[t].customer \in Alike
    BY DEF ClientInv, ClientSessionsRight
  <2> QED BY <1>3, <1>5, <2>1 DEF ClientInv, ClientSessionsRight, ClientUsed
<1> QED BY <1>3, <1>5, <1>6 DEF ClientSessionsKept, ClientUsed

LEMMA ClientLogoutInv ==
  ASSUME ClientGiven, ClientInv, Client!Logout
  PROVE  ClientInv'
<1>1. /\ app.token # 0 /\ Client!Cleared
          /\ UNCHANGED <<journal, refreshes, call, placed, late, seen, let, restarts>>
      /\ \/ UNCHANGED token
         \/ token' = [token EXCEPT ![app.token].status = "ENDED"]
  BY DEF Client!Logout, ClientGiven
<1>2. PICK t \in Client!Tokens : t = app.token /\ ClientUsed(t)
  BY <1>1, ClientNumbers DEF ClientInv, ClientAppRight
<1>3. /\ ClientSessionsKept /\ ClientSessionsRight'
      /\ \A u \in Client!Tokens : /\ token'[u].status = "ROTATED" => token[u].status = "ROTATED"
                                  /\ token'[u].status = "REPLAYED" => token[u].status = "REPLAYED"
  <2>1. CASE UNCHANGED token BY <2>1, ClientSessionsStay
  <2>2. CASE token' = [token EXCEPT ![t].status = "ENDED"] BY <1>2, <2>2, ClientStatusChanges
  <2> QED BY <1>1, <1>2, <2>1, <2>2
<1>4. \A r \in refreshes : r.answer = "OK" => token'[r.next].status # "ROTATED"
  BY <1>3 DEF ClientInv, ClientRefreshesRight, ClientRefreshRight
<1>5. /\ ClientLaterLogin /\ app' \in [token : 0 .. MaxTokens, gen : Nat, rev : Nat]
      /\ ClientAppRight' /\ app'.token = 0 /\ stored' = 0 /\ \A r \in refreshes : ClientRefreshRight(r)'
  BY <1>1, <1>3, <1>4, ClientClearedRight
<1>6. ClientKeysKept /\ ClientKeysRight' BY <1>1, ClientKeysStay
<1>7. ClientCallsRight' BY <1>1, <1>3, <1>5, <1>6, ClientCallsStay DEF ClientInv, ClientCallsRight
<1>8. ClientRefreshesRight' BY <1>1, <1>5 DEF ClientInv, ClientRefreshesRight, ClientApart
<1>9. ClientOwnRight'
  <2>1. \A r \in refreshes : r.token \in Client!Tokens
    BY DEF ClientInv, ClientRefreshesRight, ClientRefreshRight, ClientOfLogin
  <2> QED BY <1>1, <1>3, <1>5, <2>1 DEF ClientInv, ClientOwnRight
<1> QED BY <1>3, <1>5, <1>6, <1>7, <1>8, <1>9 DEF ClientInv

LEMMA ClientAccessExpiresInv ==
  ASSUME ClientGiven, ClientInv, NEW t \in Client!Tokens, Client!AccessExpires(t)
  PROVE  ClientInv'
<1>1. /\ ClientUsed(t) /\ token' = [token EXCEPT ![t].status = "STALE"]
      /\ UNCHANGED <<app, stored, journal, refreshes, call, placed, late, seen, let, restarts>>
  BY DEF Client!AccessExpires, ClientUsed, Client!history
<1>2. /\ ClientSessionsKept /\ ClientSessionsRight'
      /\ \A u \in Client!Tokens : /\ token'[u].status = "ROTATED" => token[u].status = "ROTATED"
                                  /\ token'[u].status = "REPLAYED" => token[u].status = "REPLAYED"
  BY <1>1, ClientStatusChanges
<1>3. /\ ClientSameLogin /\ ClientAppRight' /\ app' \in [token : 0 .. MaxTokens, gen : Nat, rev : Nat]
  BY <1>1, <1>2, ClientAppStays
<1>4. ClientKeysKept /\ ClientKeysRight' BY <1>1, ClientKeysStay
<1>5. ClientCallsRight' BY <1>1, <1>2, <1>3, <1>4, ClientCallsStay DEF ClientInv, ClientCallsRight
<1>6. ASSUME NEW r \in refreshes PROVE ClientRefreshRight(r)'
  <2>1. r.answer = "OK" => token'[r.next].status # "ROTATED"
    BY <1>2 DEF ClientInv, ClientRefreshesRight, ClientRefreshRight
  <2> QED BY <1>1, <1>2, <1>3, <2>1, ClientRefreshStays
<1>7. ClientRefreshesRight' BY <1>1, <1>6 DEF ClientInv, ClientRefreshesRight, ClientApart
<1>8. ClientOwnRight'
  <2>1. /\ \A r \in refreshes : r.token \in Client!Tokens
        /\ stored # 0 => stored \in Client!Tokens
    BY ClientNumbers DEF ClientInv, ClientRefreshesRight, ClientRefreshRight, ClientOfLogin, ClientAppRight
  <2> QED BY <1>1, <1>2, <2>1 DEF ClientInv, ClientOwnRight
<1> QED BY <1>2, <1>3, <1>4, <1>5, <1>7, <1>8 DEF ClientInv

LEMMA ClientJournalLapsesInv ==
  ASSUME ClientGiven, ClientInv, NEW j \in journal, Client!JournalLapses(j)
  PROVE  ClientInv'
<1>1. /\ journal' = journal \ {j} /\ let' = let \union {j.key} /\ j.key \in Client!Keys
      /\ UNCHANGED <<app, stored, refreshes, call, token, placed, late, seen, restarts>>
  BY DEF Client!JournalLapses, Client!server, ClientInv, ClientKeysRight
<1>2. ClientKeysKept BY <1>1 DEF ClientKeysKept, ClientTracked
<1>3. ClientKeysRight' BY <1>1, <1>2, ClientKeysNext DEF ClientInv, ClientKeysRight
<1>4. ClientSessionsKept /\ ClientSessionsRight' /\ ClientSameLogin /\ ClientAppRight'
      /\ app' \in [token : 0 .. MaxTokens, gen : Nat, rev : Nat]
  BY <1>1, ClientSessionsStay, ClientAppStays
<1>5. ClientCallsRight' BY <1>1, <1>2, <1>4, ClientCallsStay DEF ClientInv, ClientCallsRight
<1> QED BY <1>1, <1>3, <1>4, <1>5, ClientRefreshesStay DEF ClientInv

\* What is in flight is a command that is tracked.
LEMMA ClientFlight ==
  ASSUME ClientGiven, ClientInv, NEW f \in Client!InFlight
  PROVE  f \in [key : Client!Keys, token : Client!Tokens] /\ ClientTracked(f.key)
<1>1. PICK c \in Calls : /\ c = "COMMAND" /\ call[c].phase = "SENT"
                         /\ f = [key |-> call[c].key, token |-> call[c].token]
  BY DEF Client!InFlight
<1>2. call[c].key \in Client!Keys /\ call[c].token \in Client!Tokens /\ ClientTracked(call[c].key)
  BY <1>1 DEF ClientInv, ClientCallsRight, ClientCallRight, ClientOfLogin
<1> QED BY <1>1, <1>2

LEMMA ClientRestartInv ==
  ASSUME ClientGiven, ClientInv, Client!Restart
  PROVE  ClientInv'
<1>1. /\ restarts < MaxRestarts /\ restarts' = restarts + 1
      /\ app' = [token |-> 0, gen |-> 0, rev |-> 0]
      /\ refreshes' = {} /\ call' = [c \in Calls |-> Client!Idle] /\ late' = late \union Client!InFlight
      /\ UNCHANGED <<stored, journal, token, placed, seen, let>>
  BY DEF Client!Restart
<1>2. restarts' \in 0 .. MaxRestarts /\ restarts' # 0  BY <1>1, ClientNumbers DEF ClientInv, ClientKeysRight
<1>3. ClientAppRight' BY <1>1, ClientNumbers DEF ClientInv, ClientAppRight, ClientUsed
<1>4. ClientSessionsRight' BY <1>1, ClientSessionsStay
<1>5. ClientCallsRight' BY <1>1, ClientIdleRow DEF ClientCallsRight, ClientCallRight
<1>6. ClientRefreshesRight' /\ ClientOwnRight'  BY <1>1, <1>2 DEF ClientRefreshesRight, ClientOwnRight
<1>7. ClientKeysRight'
  <2>1. \A f \in late' : f \in [key : Client!Keys, token : Client!Tokens] /\ ClientTracked(f.key)
    BY <1>1, ClientFlight DEF ClientInv, ClientKeysRight
  <2>2. \A k \in Client!Keys : ClientTracked(k) => ClientTracked(k)' BY <1>1 DEF ClientTracked
  <2>3. \A f \in late' : ClientTracked(f.key)' BY <2>1, <2>2
  <2> QED BY <1>1, <1>2, <2>1, <2>2, <2>3 DEF ClientInv, ClientKeysRight
<1> QED BY <1>3, <1>4, <1>5, <1>6, <1>7 DEF ClientInv

--------------------------------
\* The server and the network.

\* A key that was refused is never placed, and one that is placed is tracked.
LEMMA ClientHandledRight ==
  ASSUME ClientGiven, ClientInv, NEW key, NEW its, NEW answer, Client!Handled(key, its, answer),
         key \in Client!Keys => ClientTracked(key), key \in Client!Keys \/ key = 0
  PROVE  /\ placed' \in [Client!Keys -> {"NONE", "PLACED", "REFUSED"}]
         /\ \A k \in Client!Keys : /\ placed[k] = "REFUSED" => placed'[k] = "REFUSED"
                                   /\ placed'[k] = "PLACED" => ClientTracked(k)
         /\ key \in Client!Keys /\ answer = "REFUSED" => placed'[key] = "REFUSED"
<1>1. placed \in [Client!Keys -> {"NONE", "PLACED", "REFUSED"}] /\ \A k \in Client!Keys : placed[k] = "PLACED"
   => ClientTracked(k)
  BY DEF ClientInv, ClientKeysRight
<1>2. CASE UNCHANGED placed /\ answer # "REFUSED" BY <1>1, <1>2
<1>3. CASE key # 0 /\ placed[key] \in {"NONE", "PLACED"} /\ answer = "OK"
   /\ placed' = [placed EXCEPT ![key] = "PLACED"]
  BY <1>1, <1>3
<1>4. CASE key # 0 /\ placed' = [placed EXCEPT ![key] = "REFUSED"] BY <1>1, <1>4
<1>5. \/ UNCHANGED placed /\ answer # "REFUSED"
      \/ key # 0 /\ placed[key] \in {"NONE", "PLACED"} /\ answer = "OK"
          /\ placed' = [placed EXCEPT ![key] = "PLACED"]
      \/ key # 0 /\ placed' = [placed EXCEPT ![key] = "REFUSED"]
  BY DEF Client!Handled
<1> QED BY <1>2, <1>3, <1>4, <1>5

\* The keys after the server did something, or a call was given up.
LEMMA ClientPlacedRight ==
  ASSUME ClientGiven, ClientInv, UNCHANGED <<journal, seen, let, restarts>>,
         placed' \in [Client!Keys -> {"NONE", "PLACED", "REFUSED"}],
         \A k \in Client!Keys : /\ placed[k] = "REFUSED" => placed'[k] = "REFUSED"
                                /\ placed'[k] = "PLACED" => ClientTracked(k),
         late' \subseteq late \union Client!InFlight
  PROVE  ClientKeysKept /\ ClientKeysRight'
<1>1. \A k \in Client!Keys : ClientTracked(k) => ClientTracked(k)' BY DEF ClientTracked
<1>2. \A f \in late' : f \in [key : Client!Keys, token : Client!Tokens] /\ ClientTracked(f.key)
  BY ClientFlight DEF ClientInv, ClientKeysRight
<1>3. \A f \in late' : ClientTracked(f.key)' BY <1>1, <1>2
<1>4. late' \subseteq [key : Client!Keys, token : Client!Tokens] BY <1>2
<1> QED BY <1>1, <1>3, <1>4 DEF ClientKeysKept, ClientInv, ClientKeysRight

\* The answer to a call comes back.
LEMMA ClientBackRight ==
  ASSUME ClientGiven, ClientInv, NEW c \in Calls, call[c].phase = "SENT", NEW answer \in Client!Answers,
         call' = [call EXCEPT ![c] = [call[c] EXCEPT !.phase = "BACK", !.answer = answer]],
         c = "COMMAND" /\ answer = "REFUSED" => placed'[call[c].key] = "REFUSED",
         ClientKeysKept, UNCHANGED <<app, stored, token>>
  PROVE  ClientCallsRight'
<1>1. /\ ClientSessionsKept /\ ClientSameLogin /\ app' \in [token : 0 .. MaxTokens, gen : Nat, rev : Nat]
  BY ClientSessionsStay, ClientAppStays
<1>2. PICK old \in ClientCallRow : old = call[c] /\ old.try > 0 /\ ClientOfLogin(old.gen, old.token)
   /\ old.phase = "SENT"
  BY DEF ClientInv, ClientCallsRight, ClientCallRight
<1>3. PICK row : row = [old EXCEPT !.phase = "BACK", !.answer = answer]
  OBVIOUS
<1>4. /\ row \in ClientCallRow /\ row.phase = "BACK" /\ row.answer = answer /\ row.try = old.try
      /\ row.gen = old.gen /\ row.token = old.token /\ row.key = old.key
  BY <1>3 DEF ClientCallRow, Client!Phases
<1>5. /\ call \in [Calls -> ClientCallRow] /\ call' = [call EXCEPT ![c] = row]
  BY <1>2, <1>3 DEF ClientInv, ClientCallsRight
<1>6. call' \in [Calls -> ClientCallRow] /\ call'[c] = row /\ \A d \in Calls : d # c => call'[d] = call[d]
  BY <1>4, <1>5
<1>7. ClientOfLogin(row.gen, row.token)'
  <2>1. row.gen \in Nat /\ ClientOfLogin(row.gen, row.token) BY <1>2, <1>4 DEF ClientCallRow
  <2> QED BY <1>1, <2>1, ClientOfLoginStays
<1>8. ClientCallRight(c)' BY <1>1, <1>2, <1>4, <1>6, <1>7, ClientCallGoesOn
<1>9. ASSUME NEW d \in Calls, d # c PROVE ClientCallRight(d)'
  BY <1>1, <1>6, <1>9, ClientCallStays
<1> QED BY <1>6, <1>8, <1>9 DEF ClientCallsRight

LEMMA ClientAnswerInv ==
  ASSUME ClientGiven, ClientInv, NEW c \in Calls, Client!Answer(c)
  PROVE  ClientInv'
<1>1. PICK answer \in {"OK", "REFUSED", "UNAUTHORIZED"} :
        /\ Client!Handled(call[c].key, call[c].token, answer)
        /\ call' = [call EXCEPT ![c] = [call[c] EXCEPT !.phase = "BACK", !.answer = answer]]
  BY DEF Client!Answer
<1>2. /\ call[c].phase = "SENT" /\ UNCHANGED <<app, stored, token, refreshes, journal, late, seen, let, restarts>>
  BY DEF Client!Answer, Client!history
<1>3. PICK key : /\ key = call[c].key /\ (key \in Client!Keys \/ key = 0)
                     /\ (c = "COMMAND" => key \in Client!Keys)
                 /\ (key \in Client!Keys => ClientTracked(key))
  <2>1. call[c].phase # "IDLE" /\ ClientCallRight(c) BY <1>2 DEF ClientInv, ClientCallsRight
  <2>2. CASE c = "COMMAND" BY <2>1, <2>2 DEF ClientCallRight
  <2>3. CASE c # "COMMAND" BY <2>1, <2>3, ClientNumbers DEF ClientCallRight
  <2> QED BY <2>2, <2>3
<1>4. /\ placed' \in [Client!Keys -> {"NONE", "PLACED", "REFUSED"}]
      /\ \A k \in Client!Keys : /\ placed[k] = "REFUSED" => placed'[k] = "REFUSED"
                                /\ placed'[k] = "PLACED" => ClientTracked(k)
      /\ key \in Client!Keys /\ answer = "REFUSED" => placed'[key] = "REFUSED"
  BY <1>1, <1>3, ClientHandledRight
<1>5. ClientKeysKept /\ ClientKeysRight' BY <1>2, <1>4, ClientPlacedRight
<1>6. answer \in Client!Answers BY DEF Client!Answers
<1>7. c = "COMMAND" /\ answer = "REFUSED" => placed'[call[c].key] = "REFUSED" BY <1>3, <1>4
<1>8. ClientCallsRight' BY <1>1, <1>2, <1>5, <1>6, <1>7, ClientBackRight
<1> QED BY <1>2, <1>5, <1>8, ClientSessionsStay, ClientAppStays, ClientRefreshesStay DEF ClientInv

LEMMA ClientTimesOutInv ==
  ASSUME ClientGiven, ClientInv, NEW c \in Calls, Client!TimesOut(c)
  PROVE  ClientInv'
<1>1. /\ call[c].phase = "SENT" /\ late' \subseteq late \union Client!InFlight
      /\ call' = [call EXCEPT ![c] = [call[c] EXCEPT !.phase = "BACK", !.answer = "LOST"]]
      /\ UNCHANGED <<app, stored, token, refreshes, journal, placed, seen, let, restarts>>
  BY DEF Client!TimesOut, Client!history
<1>2. ClientKeysKept /\ ClientKeysRight'
  <2>1. placed' \in [Client!Keys -> {"NONE", "PLACED", "REFUSED"}]
        /\ \A k \in Client!Keys : /\ placed[k] = "REFUSED" => placed'[k] = "REFUSED"
                                  /\ placed'[k] = "PLACED" => ClientTracked(k)
    BY <1>1 DEF ClientInv, ClientKeysRight
  <2> QED BY <1>1, <2>1, ClientPlacedRight
<1>3. "LOST" \in Client!Answers /\ "LOST" # "REFUSED" BY DEF Client!Answers
<1>4. ClientCallsRight' BY <1>1, <1>2, <1>3, ClientBackRight
<1> QED BY <1>1, <1>2, <1>4, ClientSessionsStay, ClientAppStays, ClientRefreshesStay DEF ClientInv

LEMMA ClientArrivesLateInv ==
  ASSUME ClientGiven, ClientInv, NEW f \in late, Client!ArrivesLate(f)
  PROVE  ClientInv'
<1>1. PICK answer : Client!Handled(f.key, f.token, answer) BY DEF Client!ArrivesLate
<1>2. /\ late' \subseteq late \union Client!InFlight
      /\ UNCHANGED <<app, stored, token, refreshes, journal, call, seen, let, restarts>>
  BY DEF Client!ArrivesLate, Client!history
<1>3. PICK key \in Client!Keys : key = f.key /\ ClientTracked(key)  BY DEF ClientInv, ClientKeysRight
<1>4. /\ placed' \in [Client!Keys -> {"NONE", "PLACED", "REFUSED"}]
      /\ \A k \in Client!Keys : /\ placed[k] = "REFUSED" => placed'[k] = "REFUSED"
                                /\ placed'[k] = "PLACED" => ClientTracked(k)
  BY <1>1, <1>3, ClientHandledRight
<1>5. ClientKeysKept /\ ClientKeysRight' BY <1>2, <1>4, ClientPlacedRight
<1>6. ClientSessionsKept /\ ClientSessionsRight' /\ ClientSameLogin /\ ClientAppRight'
      /\ app' \in [token : 0 .. MaxTokens, gen : Nat, rev : Nat]
  BY <1>2, ClientSessionsStay, ClientAppStays
<1>7. ClientCallsRight' BY <1>2, <1>5, <1>6, ClientCallsStay DEF ClientInv, ClientCallsRight
<1> QED BY <1>2, <1>5, <1>6, <1>7, ClientRefreshesStay DEF ClientInv

\* A refresh whose answer comes, or is lost.
LEMMA ClientRefreshBecomes ==
  ASSUME ClientGiven, ClientInv, ClientSessionsKept, NEW r \in refreshes, NEW new \in ClientRefreshRow,
         refreshes' = (refreshes \ {r}) \union {new},
         new.token = r.token, new.gen = r.gen, new.rev = r.rev,
         \A q \in refreshes : q.answer = "OK" => token'[q.next].status # "ROTATED",
         new.answer = "OK" => /\ new.next \in Client!Tokens /\ ~ClientUsed(new.next) /\ ClientUsed(new.next)'
                              /\ token'[new.next].family = token[r.token].family
                              /\ token'[new.next].status # "ROTATED",
         UNCHANGED <<app, stored>>
  PROVE  ClientRefreshesRight'
<1>1. ClientSameLogin /\ app' \in [token : 0 .. MaxTokens, gen : Nat, rev : Nat] BY ClientAppStays
<1>2. /\ ClientRefreshRight(r) /\ r.gen \in Nat /\ ClientOfLogin(r.gen, r.token) /\ r.token \in Client!Tokens
          /\ ClientUsed(r.token)
  BY DEF ClientInv, ClientRefreshesRight, ClientRefreshRight, ClientRefreshRow, ClientOfLogin
<1>3. ClientOfLogin(r.gen, r.token)' BY <1>1, <1>2, ClientOfLoginStays
<1>4. stored # 0 => stored \in Client!Tokens /\ ClientUsed(stored)
  BY ClientNumbers DEF ClientInv, ClientAppRight
<1>5. ClientRefreshRight(new)'
  <2>1. new.gen = app'.gen /\ new.rev # app'.rev => app'.token # 0 BY <1>2 DEF ClientRefreshRight
  <2>2. new.token = stored' => Client!Fresh(new)' BY <1>2 DEF ClientRefreshRight, Client!Fresh
  <2>3. new.answer = "OK" => /\ new.next \in Client!Tokens /\ ClientUsed(new.next)' /\ new.next # stored'
                             /\ token'[new.next].family = token'[new.token].family
                             /\ token'[new.next].status # "ROTATED"
    <3>1. token'[r.token].family = token[r.token].family BY <1>2 DEF ClientSessionsKept
    <3> QED BY <1>4, <3>1, ClientNumbers
  <2> QED BY <1>3, <2>1, <2>2, <2>3 DEF ClientRefreshRight
<1>6. ASSUME NEW q \in refreshes PROVE ClientRefreshRight(q)'
  BY <1>1, ClientRefreshStays
<1>7. ASSUME NEW q \in refreshes, q # r
      PROVE  ClientApart(new, q) /\ ClientApart(q, new)
  <2>1. ClientApart(r, q) /\ ClientApart(q, r) BY DEF ClientInv, ClientRefreshesRight
  <2>2. ClientUsed(q.token) /\ (q.answer = "OK" => ClientUsed(q.next))
    BY DEF ClientInv, ClientRefreshesRight, ClientRefreshRight, ClientOfLogin
  <2>3. q.token # r.token BY <1>7, <2>1 DEF ClientApart
  <2> QED BY <2>1, <2>2, <2>3 DEF ClientApart
<1>8. ClientApart(new, new) BY <1>2 DEF ClientApart
<1> QED BY <1>5, <1>6, <1>7, <1>8 DEF ClientInv, ClientRefreshesRight, ClientApart

LEMMA ClientAnswerRefreshInv ==
  ASSUME ClientGiven, ClientInv, NEW r \in refreshes, Client!AnswerRefresh(r)
  PROVE  ClientInv'
<1>1. /\ r.answer = "SENT" /\ UNCHANGED <<app, stored, journal, call, placed, late, seen, let, restarts>>
  BY DEF Client!AnswerRefresh, Client!history
<1>2. /\ r \in ClientRefreshRow /\ r.token \in Client!Tokens /\ ClientUsed(r.token)
          /\ token \in [Client!Tokens -> ClientSessionRow]
      /\ token[r.token].family \in Client!Tokens /\ token[r.token].customer \in Alike
  BY DEF ClientInv, ClientRefreshesRight, ClientRefreshRight, ClientOfLogin, ClientSessionsRight
<1>3. /\ \A q \in refreshes : /\ q.token \in Client!Tokens /\ (q.token = r.token => q = r)
                              /\ (q.answer = "OK" => /\ q.next \in Client!Tokens /\ ClientUsed(q.next)
                                                         /\ q.next # r.token
                                                     /\ token[q.next].status # "ROTATED")
      /\ stored # 0 => stored \in Client!Tokens
  BY ClientNumbers DEF ClientInv, ClientRefreshesRight, ClientRefreshRight, ClientOfLogin, ClientApart,
     ClientAppRight
<1>4. ClientKeysKept /\ ClientKeysRight' BY <1>1, ClientKeysStay
<1>5. ASSUME ClientSessionsKept PROVE ClientAppRight' /\ ClientCallsRight'
  <2>1. /\ ClientSameLogin /\ ClientAppRight' /\ app' \in [token : 0 .. MaxTokens, gen : Nat, rev : Nat]
    BY <1>1, <1>5, ClientAppStays
  <2> QED BY <1>1, <1>4, <1>5, <2>1, ClientCallsStay DEF ClientInv, ClientCallsRight
<1>6. CASE /\ Client!FreeTokens # {}
           /\ token' = [token EXCEPT ![r.token].status = "ROTATED",
                                         ![Client!Min(Client!FreeTokens)] = [token[r.token] EXCEPT !.status = "GOOD"]]
           /\ refreshes' = (refreshes \ {r}) \union {[r EXCEPT !.answer = "OK", !.next = Client!Min(Client!FreeTokens)]}
  <2>1. PICK n \in Client!Tokens : n = Client!Min(Client!FreeTokens) /\ token[n] = Client!NoSession
     /\ ~ClientUsed(n)
    BY <1>6, ClientFreeToken
  <2>2. PICK old, good, new :
          /\ old = [token[r.token] EXCEPT !.status = "ROTATED"]
          /\ good = [token[r.token] EXCEPT !.status = "GOOD"]
          /\ new = [r EXCEPT !.answer = "OK", !.next = n]
    OBVIOUS
  <2>3. /\ old \in ClientSessionRow /\ old.status = "ROTATED"
        /\ good \in ClientSessionRow /\ good.status = "GOOD"
        /\ \A row \in {old, good} : row.family = token[r.token].family /\ row.customer = token[r.token].customer
    <3>1. token[r.token] \in ClientSessionRow BY <1>2
    <3> QED BY <2>2, <3>1 DEF ClientSessionRow
  <2>4. /\ new \in ClientRefreshRow /\ new.answer = "OK" /\ new.next = n
        /\ new.token = r.token /\ new.gen = r.gen /\ new.rev = r.rev
    BY <1>2, <2>1, <2>2, ClientNumbers DEF ClientRefreshRow
  <2>5. n # r.token BY <1>2, <2>1
  <2>6. /\ token' \in [Client!Tokens -> ClientSessionRow] /\ token'[n] = good /\ token'[r.token] = old
        /\ \A t \in Client!Tokens : t # n /\ t # r.token => token'[t] = token[t]
    BY <1>2, <1>6, <2>1, <2>2, <2>3, <2>5
  <2>7. ClientSessionsKept BY <1>2, <2>1, <2>3, <2>5, <2>6 DEF ClientSessionsKept, ClientUsed
  <2>8. ClientSessionsRight' BY <1>2, <2>3, <2>6 DEF ClientInv, ClientSessionsRight, ClientUsed
  <2>9. refreshes' = (refreshes \ {r}) \union {new} BY <1>6, <2>1, <2>2
  <2>10. ClientRefreshesRight'
    <3>1. \A q \in refreshes : q.answer = "OK" => token'[q.next].status # "ROTATED"  BY <1>3, <2>1, <2>6
    <3>2. new.answer = "OK" => /\ new.next \in Client!Tokens /\ ~ClientUsed(new.next) /\ ClientUsed(new.next)'
                               /\ token'[new.next].family = token[r.token].family
                               /\ token'[new.next].status # "ROTATED"
      BY <2>1, <2>3, <2>4, <2>6 DEF ClientUsed
    <3> QED BY <1>1, <2>4, <2>7, <2>9, <3>1, <3>2, ClientRefreshBecomes
  <2>11. ClientOwnRight'
    <3>1. ASSUME restarts = 0
          PROVE  /\ stored = app.token
                 /\ \A t \in Client!Tokens : token'[t].status # "REPLAYED"
                 /\ \A q \in refreshes' : q.answer = "SENT" => token'[q.token].status # "ROTATED"
                 /\ stored # 0 /\ token'[stored].status = "ROTATED" => \E q \in refreshes' : q.token = stored
      <4>1. /\ stored = app.token
            /\ \A t \in Client!Tokens : token[t].status # "REPLAYED"
            /\ \A q \in refreshes : q.answer = "SENT" => token[q.token].status # "ROTATED"
            /\ stored # 0 /\ token[stored].status = "ROTATED" => \E q \in refreshes : q.token = stored
        BY <3>1 DEF ClientInv, ClientOwnRight
      <4>2. \A t \in Client!Tokens : token'[t].status # "REPLAYED" BY <2>3, <2>6, <4>1
      <4>3. ASSUME NEW q \in refreshes', q.answer = "SENT" PROVE token'[q.token].status # "ROTATED"
        <5>1. q \in refreshes /\ q # r /\ q.token \in Client!Tokens /\ q.token # r.token
          BY <1>3, <2>4, <2>9, <4>3
        <5>2. token[q.token].status # "ROTATED" BY <4>1, <4>3, <5>1
        <5> QED BY <2>3, <2>6, <5>1, <5>2
      <4>4. ASSUME stored # 0, token'[stored].status = "ROTATED" PROVE \E q \in refreshes' : q.token = stored
        <5>1. CASE stored = r.token BY <2>4, <2>9, <5>1
        <5>2. CASE stored # r.token
          <6>1. stored # n BY <2>3, <2>6, <4>4
          <6>2. token[stored].status = "ROTATED" BY <1>3, <2>6, <4>4, <5>2, <6>1
          <6>3. PICK q \in refreshes : q.token = stored BY <4>1, <4>4, <6>2
          <6> QED BY <2>9, <5>2, <6>3
        <5> QED BY <5>1, <5>2
      <4> QED BY <4>1, <4>2, <4>3, <4>4
    <3> QED BY <1>1, <3>1 DEF ClientOwnRight
  <2> QED BY <1>4, <1>5, <2>7, <2>8, <2>10, <2>11 DEF ClientInv
<1>7. CASE /\ \/ UNCHANGED token
              \/ /\ token[r.token].status = "ROTATED"
                 /\ token' = [t \in Client!Tokens |-> IF token[t].family = token[r.token].family
                               THEN [token[t] EXCEPT !.status = "REPLAYED"] ELSE token[t]]
           /\ refreshes' = (refreshes \ {r}) \union {[r EXCEPT !.answer = "UNAUTHORIZED", !.next = 0]}
  <2>1. PICK new : new = [r EXCEPT !.answer = "UNAUTHORIZED", !.next = 0]
    OBVIOUS
  <2>2. /\ new \in ClientRefreshRow /\ new.answer = "UNAUTHORIZED"
        /\ new.token = r.token /\ new.gen = r.gen /\ new.rev = r.rev
        /\ refreshes' = (refreshes \ {r}) \union {new}
    <3>1. 0 \in 0 .. MaxTokens BY ClientNumbers
    <3> QED BY <1>2, <1>7, <2>1, <3>1 DEF ClientRefreshRow
  <2>3. /\ token' \in [Client!Tokens -> ClientSessionRow]
        /\ \A t \in Client!Tokens : /\ token'[t].family = token[t].family
                                        /\ token'[t].customer = token[t].customer
                                    /\ ClientUsed(t) => ClientUsed(t)'
                                    /\ token'[t].status # token[t].status
                                         => token'[t].status = "REPLAYED" /\ token[t].family \in Client!Tokens
                                    /\ ~ClientUsed(t) => token'[t] = token[t]
    <3>1. CASE UNCHANGED token BY <1>2, <3>1 DEF ClientUsed
    <3>2. CASE token' = [t \in Client!Tokens |-> IF token[t].family = token[r.token].family
                             THEN [token[t] EXCEPT !.status = "REPLAYED"] ELSE token[t]]
      <4>1. ASSUME NEW t \in Client!Tokens
            PROVE  /\ token'[t] \in ClientSessionRow
                   /\ token'[t].family = token[t].family /\ token'[t].customer = token[t].customer
                   /\ (ClientUsed(t) => ClientUsed(t)')
                   /\ (token'[t].status # token[t].status
                        => token'[t].status = "REPLAYED" /\ token[t].family \in Client!Tokens)
                   /\ (~ClientUsed(t) => token'[t] = token[t])
        <5>1. token[t] \in ClientSessionRow BY <1>2
        <5>2. CASE token[t].family = token[r.token].family
          <6>1. token'[t] = [token[t] EXCEPT !.status = "REPLAYED"] BY <3>2, <5>2
          <6>2. /\ token'[t] \in ClientSessionRow /\ token'[t].status = "REPLAYED"
                /\ token'[t].family = token[t].family /\ token'[t].customer = token[t].customer
            BY <5>1, <6>1 DEF ClientSessionRow
          <6>3. ClientUsed(t)
            <7>1. Client!NoSession.family = 0 BY DEF Client!NoSession
            <7> QED BY <1>2, <5>2, <7>1, ClientNumbers DEF ClientInv, ClientSessionsRight
          <6> QED BY <1>2, <5>2, <6>2, <6>3 DEF ClientUsed
        <5>3. CASE token[t].family # token[r.token].family BY <3>2, <5>1, <5>3 DEF ClientUsed
        <5> QED BY <5>2, <5>3
      <4> QED BY <3>2, <4>1
    <3> QED BY <1>7, <3>1, <3>2
  <2>4. ClientSessionsKept BY <2>3 DEF ClientSessionsKept
  <2>5. ClientSessionsRight' BY <2>3 DEF ClientInv, ClientSessionsRight, ClientUsed
  <2>6. ClientRefreshesRight'
    <3>1. \A q \in refreshes : q.answer = "OK" => token'[q.next].status # "ROTATED" BY <1>3, <2>3
    <3> QED BY <1>1, <2>2, <2>4, <3>1, ClientRefreshBecomes
  <2>7. ClientOwnRight'
    <3>1. ASSUME restarts = 0
          PROVE  /\ stored = app.token
                 /\ \A t \in Client!Tokens : token'[t].status # "REPLAYED"
                 /\ \A q \in refreshes' : q.answer = "SENT" => token'[q.token].status # "ROTATED"
                 /\ stored # 0 /\ token'[stored].status = "ROTATED" => \E q \in refreshes' : q.token = stored
      <4>1. /\ stored = app.token
            /\ \A t \in Client!Tokens : token[t].status # "REPLAYED"
            /\ \A q \in refreshes : q.answer = "SENT" => token[q.token].status # "ROTATED"
            /\ stored # 0 /\ token[stored].status = "ROTATED" => \E q \in refreshes : q.token = stored
        BY <3>1 DEF ClientInv, ClientOwnRight
      <4>2. UNCHANGED token BY <1>1, <1>7, <4>1
      <4> QED BY <1>1, <2>2, <4>1, <4>2
    <3> QED BY <1>1, <3>1 DEF ClientOwnRight
  <2> QED BY <1>4, <1>5, <2>4, <2>5, <2>6, <2>7 DEF ClientInv
<1> QED BY <1>6, <1>7 DEF Client!AnswerRefresh

LEMMA ClientRefreshTimesOutInv ==
  ASSUME ClientGiven, ClientInv, NEW r \in refreshes, Client!RefreshTimesOut(r)
  PROVE  ClientInv'
<1>1. PICK new : new = [r EXCEPT !.answer = "LOST", !.next = 0]
  OBVIOUS
<1>2. /\ refreshes' = (refreshes \ {r}) \union {new}
      /\ UNCHANGED <<app, stored, token, journal, call, placed, late, seen, let, restarts>>
  BY <1>1 DEF Client!RefreshTimesOut, Client!server, Client!history
<1>3. /\ new \in ClientRefreshRow /\ new.answer = "LOST"
      /\ new.token = r.token /\ new.gen = r.gen /\ new.rev = r.rev
  <2>1. 0 \in 0 .. MaxTokens /\ r \in ClientRefreshRow
    BY ClientNumbers DEF ClientInv, ClientRefreshesRight, ClientRefreshRight
  <2> QED BY <1>1, <2>1 DEF ClientRefreshRow
<1>4. ClientSessionsKept /\ ClientSessionsRight' /\ ClientSameLogin /\ ClientAppRight'
      /\ app' \in [token : 0 .. MaxTokens, gen : Nat, rev : Nat]
  BY <1>2, ClientSessionsStay, ClientAppStays
<1>5. ClientKeysKept /\ ClientKeysRight' BY <1>2, ClientKeysStay
<1>6. ClientCallsRight' BY <1>2, <1>4, <1>5, ClientCallsStay DEF ClientInv, ClientCallsRight
<1>7. ClientRefreshesRight'
  <2>1. \A q \in refreshes : q.answer = "OK" => token'[q.next].status # "ROTATED"
    BY <1>2 DEF ClientInv, ClientRefreshesRight, ClientRefreshRight
  <2> QED BY <1>2, <1>3, <1>4, <2>1, ClientRefreshBecomes
<1>8. ClientOwnRight' BY <1>2, <1>3 DEF ClientInv, ClientOwnRight
<1> QED BY <1>4, <1>5, <1>6, <1>7, <1>8 DEF ClientInv

--------------------------------
LEMMA ClientStepwise ==
  ASSUME ClientGiven, ClientInv, Client!Next
  PROVE  ClientInv'
BY ClientCommandInv, ClientOtherInv, ClientReceivedInv, ClientReceiveUnauthorizedInv,
   ClientReceiveUnauthorizedAgainInv, ClientRefreshAnsweredInv, ClientAnswerRefreshInv,
   ClientRefreshTimesOutInv, ClientLoginInv, ClientLogoutInv, ClientRestartInv, ClientJournalLapsesInv,
   ClientAnswerInv, ClientTimesOutInv, ClientArrivesLateInv, ClientAccessExpiresInv
DEF Client!Next, Client!Received

LEMMA ClientStutters ==
  ASSUME ClientGiven, ClientInv, UNCHANGED Client!vars
  PROVE  ClientInv'
<1>1. UNCHANGED <<app, stored, journal, refreshes, call, token, placed, late, seen, let, restarts>>
  BY DEF Client!vars
<1>2. ClientSessionsKept /\ ClientSessionsRight' /\ ClientSameLogin /\ ClientAppRight'
      /\ app' \in [token : 0 .. MaxTokens, gen : Nat, rev : Nat]
  BY <1>1, ClientSessionsStay, ClientAppStays
<1>3. ClientKeysKept /\ ClientKeysRight' BY <1>1, ClientKeysStay
<1>4. ClientCallsRight' BY <1>1, <1>2, <1>3, ClientCallsStay DEF ClientInv, ClientCallsRight
<1> QED BY <1>1, <1>2, <1>3, <1>4, ClientRefreshesStay DEF ClientInv

LEMMA ClientIsOnTrack ==
  ASSUME ClientGiven, ClientInv
  PROVE  Client!ClientKeepsTrack
<1>1. Client!TypeOK
  <2>1. refreshes \subseteq [token : Client!Tokens, gen : Nat, rev : Nat,
                             answer : Client!Answers \union {"SENT"}, next : 0 .. MaxTokens]
    BY DEF ClientInv, ClientRefreshesRight, ClientRefreshRight, ClientRefreshRow, Client!Answers
  <2>2. \A c \in Calls : call[c] # Client!Idle => call[c].token \in Client!Tokens
    BY DEF ClientInv, ClientCallsRight, ClientCallRight, ClientOfLogin
  <2> QED BY <2>1, <2>2 DEF ClientInv, ClientAppRight, ClientSessionsRight, ClientSessionRow,
     ClientCallsRight, ClientCallRow, ClientKeysRight, Client!TypeOK
<1>2. Client!NothingForgotten  BY DEF ClientInv, ClientKeysRight, ClientTracked, Client!NothingForgotten
<1>3. Client!NeverReplaysItself
  BY ClientNumbers DEF ClientInv, ClientKeysRight, ClientOwnRight, Client!NeverReplaysItself
<1> QED BY <1>1, <1>2, <1>3 DEF Client!ClientKeepsTrack

LEMMA ClientAnswersStep ==
  ASSUME ClientGiven, ClientInv
  PROVE  Client!AnswersThisLogin /\ Client!LateRefreshDoesNoHarm
<1>1. ASSUME NEW c \in Calls, Client!ReceiveOk(c), Client!Current(call[c].gen)
      PROVE  token[call[c].token].family = token[app.token].family
  <2>1. call[c].phase # "IDLE" /\ call[c].gen = app.gen /\ app.token # 0
    BY <1>1 DEF Client!ReceiveOk, Client!Current
  <2> QED BY <2>1 DEF ClientInv, ClientCallsRight, ClientCallRight, ClientOfLogin, ClientAppRight
<1>2. ASSUME NEW r \in refreshes, Client!RefreshAnswered(r), app' # app
      PROVE  Client!Credential # 0 /\ token[r.token].family = token[Client!Credential].family
  <2>1. r.gen = app.gen BY <1>2 DEF Client!RefreshAnswered, Client!Kept, Client!Fresh
  <2> QED BY <2>1, ClientTheCredential DEF ClientInv, ClientRefreshesRight, ClientRefreshRight, ClientOfLogin
<1> QED BY <1>1, <1>2 DEF Client!AnswersThisLogin, Client!LateRefreshDoesNoHarm

LEMMA ClientKeepsStep ==
  ASSUME ClientGiven, ClientInv, Client!Next \/ UNCHANGED Client!vars
  PROVE  Client!KeepsLogin
<1> SUFFICES ASSUME NEW c \in Calls, call[c] # Client!Idle, call'[c] # Client!Idle, call'[c].token # call[c].token
             PROVE  token'[call'[c].token].family = token[call[c].token].family
  BY DEF Client!KeepsLogin
<1>1. call \in [Calls -> ClientCallRow] BY DEF ClientInv, ClientCallsRight
<1>2. call'[c] # call[c]
  OBVIOUS
<1>3. ASSUME NEW d \in Calls, NEW answer, Client!Told(d, answer) PROVE FALSE
  BY <1>1, <1>2, <1>3 DEF Client!Told
<1>4. ASSUME NEW waiting, NEW answer, Client!AllTold(waiting, answer) PROVE FALSE
  BY <1>2, <1>4 DEF Client!AllTold
<1>5. ASSUME NEW d \in Calls, NEW key, Client!Start(d, key), call[d] = Client!Idle PROVE FALSE
  BY <1>1, <1>2, <1>5 DEF Client!Start
<1>6. ASSUME NEW d \in Calls, Client!ReceiveUnauthorized(d)
      PROVE  token'[call'[c].token].family = token[call[c].token].family
  <2>1. /\ d = c /\ Client!Current(call[c].gen) /\ call'[c].token = app.token /\ UNCHANGED token
    <3>1. ~Client!Told(d, "CHANGED") BY <1>3
    <3>2. CASE call' = [call EXCEPT ![d] = [call[d] EXCEPT !.phase = "REFRESHES", !.answer = "NONE"]]
      BY <1>1, <1>2, <3>2 DEF ClientCallRow
    <3>3. CASE /\ Client!Current(call[d].gen)
               /\ call' = [call EXCEPT ![d] = [call[d] EXCEPT !.phase = "SENT", !.try = 2,
                                                              !.token = app.token, !.answer = "NONE"]]
      <4>1. d = c BY <1>1, <1>2, <3>3
      <4>2. call'[c].token = app.token BY <1>1, <3>3, <4>1 DEF ClientCallRow
      <4> QED BY <1>6, <3>3, <4>1, <4>2 DEF Client!ReceiveUnauthorized, Client!server
    <3> QED BY <1>6, <3>1, <3>2, <3>3 DEF Client!ReceiveUnauthorized
  <2>2. call[c].phase # "IDLE" /\ call[c].gen = app.gen /\ app.token # 0
    BY <1>6, <2>1 DEF Client!ReceiveUnauthorized, Client!Current
  <2> QED BY <2>1, <2>2 DEF ClientInv, ClientCallsRight, ClientCallRight, ClientOfLogin, ClientAppRight
<1>7. ASSUME NEW r \in refreshes, Client!RefreshAnswered(r)
      PROVE  token'[call'[c].token].family = token[call[c].token].family
  <2>1. PICK t : /\ Client!GoOn(Client!Waiting(r.token), t) /\ UNCHANGED token
                 /\ \/ ~Client!Fresh(r) /\ app.gen = r.gen /\ t = app.token
                    \/ Client!Fresh(r) /\ r.answer = "OK" /\ t = r.next
    BY <1>4, <1>7 DEF Client!RefreshAnswered, Client!server
  <2>2. c \in Client!Waiting(r.token) BY <1>2, <2>1 DEF Client!GoOn
  <2>3. call[c].token = r.token /\ call[c] \in ClientCallRow BY <1>1, <2>2 DEF Client!Waiting
  <2>4. call'[c].token = t BY <2>1, <2>2, <2>3 DEF Client!GoOn, ClientCallRow
  <2>5. ClientRefreshRight(r) BY DEF ClientInv, ClientRefreshesRight
  <2>6. token[t].family = token[r.token].family
    <3>1. CASE ~Client!Fresh(r) /\ app.gen = r.gen /\ t = app.token
      <4>1. app.token # 0 /\ app.token = stored
        BY <2>5, <3>1 DEF ClientRefreshRight, Client!Fresh, ClientInv, ClientAppRight
      <4> QED BY <2>5, <3>1, <4>1 DEF ClientRefreshRight, ClientOfLogin
    <3>2. CASE Client!Fresh(r) /\ r.answer = "OK" /\ t = r.next  BY <2>5, <3>2 DEF ClientRefreshRight
    <3> QED BY <2>1, <3>1, <3>2
  <2> QED BY <2>1, <2>3, <2>4, <2>6
<1>8. ASSUME NEW d \in Calls, Client!Answer(d) \/ Client!TimesOut(d) PROVE FALSE
  <2>1. PICK answer : call' = [call EXCEPT ![d] = [call[d] EXCEPT !.phase = "BACK", !.answer = answer]]
    BY <1>8 DEF Client!Answer, Client!TimesOut
  <2> QED BY <1>1, <1>2, <2>1 DEF ClientCallRow
<1>9. ~UNCHANGED call BY <1>2
<1>10. CASE UNCHANGED Client!vars BY <1>9, <1>10 DEF Client!vars
<1>11. ~Client!Restart BY DEF Client!Restart
<1>12. ~Client!Command /\ \A d \in Calls : ~Client!Other(d)  BY <1>5 DEF Client!Command, Client!Other
<1>13. \A d \in Calls : ~Client!ReceiveOk(d) /\ ~Client!ReceiveError(d) /\ ~Client!ReceiveUnauthorizedAgain(d)
  BY <1>3 DEF Client!ReceiveOk, Client!ReceiveError, Client!ReceiveUnauthorizedAgain
<1>14. /\ \A r \in refreshes : ~Client!AnswerRefresh(r) /\ ~Client!RefreshTimesOut(r)
       /\ \A cust \in Alike : ~Client!Login(cust)
       /\ ~Client!Logout /\ (\A j \in journal : ~Client!JournalLapses(j))
           /\ (\A f \in late : ~Client!ArrivesLate(f))
       /\ \A t \in Client!Tokens : ~Client!AccessExpires(t)
  BY <1>9 DEF Client!AnswerRefresh, Client!RefreshTimesOut, Client!Login, Client!Logout,
     Client!JournalLapses, Client!ArrivesLate, Client!AccessExpires
<1> QED BY <1>6, <1>7, <1>8, <1>10, <1>11, <1>12, <1>13, <1>14 DEF Client!Next, Client!Received

--------------------------------
\* The guest's cart, with any number of synchronisations under way.

\* The operators of the libraries, as the instance names them.
LEMMA GuestPlain ==
  /\ \A S : Guest!IsFiniteSet(S) = IsFiniteSet(S)
  /\ \A S : Guest!Cardinality(S) = Cardinality(S)
<1>1. \A S : Guest!IsFiniteSet(S) = IsFiniteSet(S) BY DEF Guest!IsFiniteSet, IsFiniteSet
<1>2. \A S : Guest!Cardinality(S) = Cardinality(S) BY DEF Guest!Cardinality, Cardinality
<1> QED BY <1>1, <1>2

LEMMA GuestFS_EmptySet ==
  /\ Guest!IsFiniteSet({}) /\ Guest!Cardinality({}) = 0
  /\ \A S : Guest!IsFiniteSet(S) => (Guest!Cardinality(S) = 0 <=> S = {})
BY FS_EmptySet, GuestPlain

LEMMA GuestFS_Singleton ==
  /\ \A e : Guest!IsFiniteSet({e}) /\ Guest!Cardinality({e}) = 1
  /\ \A S : Guest!IsFiniteSet(S) => (Guest!Cardinality(S) = 1 <=> \E e : S = {e})
BY FS_Singleton, GuestPlain

GuestGiven == Guest!GuestCartMergeAssumption

GuestCallRow == [phase : {"IDLE", "PREPARES", "RESUMES", "SENT", "CONFIRMED", "TRIMMED"}, login : Nat,
            customer : Alike \union {NoCustomer}, key : 0 .. CartKeys, items : Guest!Carts]
GuestMergeOf(c) == [customer |-> mergeCall[c].customer, key |-> mergeCall[c].key, items |-> mergeCall[c].items]
GuestAtWork(c) == mergeCall[c].phase \in {"SENT", "CONFIRMED", "TRIMMED"}
GuestDone(q) == merged[q.key][q.customer] > 0

\* Request q may still reach the server, or come back from it.
GuestPends(q) ==
    q \in merge \/ q \in lateMerge \/ \E c \in Guest!CallIds : GuestAtWork(c) /\ q = GuestMergeOf(c)

\* The confirmation of request q may still trim the cart.
GuestLive(q) ==
    q \in merge \/ \E c \in Guest!CallIds : GuestAtWork(c) /\ Guest!SameSession(c) /\ q = GuestMergeOf(c)

GuestTyped ==
    /\ signedIn \in Alike \union {NoCustomer} /\ login \in 0 .. MaxLogins
    /\ guest \in Guest!Carts /\ wanted \in Guest!Carts /\ edited \subseteq Skus /\ risked \in BOOLEAN
    /\ merge \subseteq Guest!Requests /\ \A i, j \in merge : i = j
    /\ lateMerge \subseteq Guest!Requests
    /\ mergeCall \in [Guest!CallIds -> GuestCallRow]
    /\ record \subseteq [key : Guest!Keys, customer : Alike]
    /\ merged \in [Guest!Keys -> [Alike -> Nat]] /\ added \in [Skus -> Nat]
    /\ bounds \in [keys : 0 .. CartKeys, restarts : Nat, lapses : [Guest!Keys -> Nat]]

\* What is confirmed was merged, and between the two writes to the storage
\* its session is the one that is signed in.
GuestCallRight(c) ==
    /\ mergeCall[c].login <= login
    /\ mergeCall[c].phase = "IDLE" => mergeCall[c] = Guest!NoCall
    /\ mergeCall[c].phase \in {"PREPARES", "RESUMES"} => mergeCall[c].customer = NoCustomer
    /\ GuestAtWork(c) => mergeCall[c].customer \in Alike /\ mergeCall[c].key \in Guest!Keys
    /\ mergeCall[c].phase \in {"CONFIRMED", "TRIMMED"} => GuestDone(GuestMergeOf(c))
    /\ mergeCall[c].phase = "TRIMMED" =>
          Guest!SameSession(c) /\ \A s \in Skus : mergeCall[c].items[s] > 0 => guest[s] # mergeCall[c].items[s]

GuestCallsRight == \A c \in Guest!CallIds : GuestCallRight(c)

\* Requests of one key are one request of one customer.
GuestRequestsRight ==
    /\ \A q : GuestPends(q) => (q.key <= bounds.keys) /\ \A m \in Alike : merged[q.key][m] > 0 => m = q.customer
    /\ \A q, r : GuestPends(q) /\ GuestPends(r) /\ q.key = r.key => q = r

\* A key is merged once for its record and once for each of its lapses.
GuestBooksRight ==
    /\ \A k \in Guest!Keys : \A m \in Alike :
          /\ merged[k][m] <= bounds.lapses[k] + (IF [key |-> k, customer |-> m] \in record THEN 1 ELSE 0)
          /\ merged[k][m] > 0 => k <= bounds.keys
          /\ \A n \in Alike : merged[k][m] > 0 /\ merged[k][n] > 0 => m = n
    /\ \A r \in record : GuestDone(r)

\* Nothing is lost, and what a confirmation may still take out of the cart
\* is in the server's.
GuestNothingLost ==
    \A s \in Skus \ edited :
        /\ guest[s] + added[s] >= wanted[s]
        /\ \A q : GuestLive(q) /\ GuestDone(q) /\ q.items[s] > 0 /\ guest[s] = q.items[s] => added[s] >= wanted[s]

\* As long as nothing was risked, a login has one call; it has read the cart
\* as it is, and what it sends is in the journal.
GuestAlone ==
    ~risked =>
        /\ \A c, d \in Guest!CallIds :
              mergeCall[c] # Guest!NoCall /\ mergeCall[d] # Guest!NoCall /\ mergeCall[c].login = mergeCall[d].login
                => c = d
        /\ \A c \in Guest!CallIds : Guest!SameSession(c) =>
              /\ mergeCall[c].phase = "PREPARES" => merge = {} /\ mergeCall[c].items = guest
              /\ GuestAtWork(c) => GuestMergeOf(c) \in merge

\* Where the units of SKU s are while journal j is there.
GuestUnderway(j, s) ==
    IF j.items[s] = 0 THEN guest[s] + added[s] = wanted[s]
    ELSE IF GuestDone(j) THEN guest[s] \in {0, j.items[s]} /\ added[s] = wanted[s]
    ELSE guest[s] = j.items[s] /\ guest[s] + added[s] = wanted[s]

\* As long as nothing was risked, the records tell what was merged, all that
\* is pending without a journal was, and the units are where they should be.
GuestExact ==
    ~risked =>
        /\ \A q : GuestPends(q) =>
              /\ GuestDone(q) => [key |-> q.key, customer |-> q.customer] \in record
              /\ GuestDone(q) \/ q \in merge
        /\ \A s \in Skus \ edited :
              /\ merge = {} => guest[s] + added[s] = wanted[s]
              /\ \A j \in merge : GuestUnderway(j, s)

GuestInv == GuestTyped /\ GuestCallsRight /\ GuestRequestsRight /\ GuestBooksRight
   /\ GuestNothingLost /\ GuestAlone /\ GuestExact

LEMMA GuestBounds ==
  ASSUME GuestGiven
  PROVE  /\ CartKeys \in Nat /\ MaxQuantity \in Nat /\ MaxLogins \in Nat /\ Guest!Keys \subseteq Nat
         /\ NoCustomer \notin Alike
BY DEF GuestGiven, Guest!Keys, Guest!GuestCartMergeAssumption

LEMMA GuestNoCallRow ==
  ASSUME GuestGiven
  PROVE  /\ Guest!NoCall \in GuestCallRow /\ Guest!NoItems \in Guest!Carts
         /\ Guest!NoCall.phase = "IDLE" /\ Guest!NoCall.login = 0
BY DEF GuestGiven, Guest!GuestCartMergeAssumption, Guest!NoCall, GuestCallRow, Guest!NoItems, Guest!Carts

LEMMA GuestPendsType ==
  ASSUME GuestGiven, GuestTyped, GuestCallsRight, NEW q, GuestPends(q)
  PROVE  q \in Guest!Requests
<1>1. ASSUME NEW c \in Guest!CallIds, GuestAtWork(c) PROVE GuestMergeOf(c) \in Guest!Requests
  <2>1. mergeCall[c] \in GuestCallRow /\ mergeCall[c].customer \in Alike /\ mergeCall[c].key \in Guest!Keys
    BY <1>1 DEF GuestTyped, GuestCallsRight, GuestCallRight
  <2> QED BY <2>1 DEF GuestMergeOf, Guest!Requests, GuestCallRow
<1> QED BY <1>1 DEF GuestPends, GuestTyped

LEMMA GuestLivePends == ASSUME NEW q, GuestLive(q) PROVE GuestPends(q)
BY DEF GuestLive, GuestPends

LEMMA GuestInitially == ASSUME GuestGiven, Guest!Init PROVE GuestInv
<1>1. GuestTyped
  <2>1. signedIn \in Alike \union {NoCustomer} /\ login \in 0 .. MaxLogins /\ edited \subseteq Skus
        /\ merge \subseteq Guest!Requests /\ (\A i, j \in merge : i = j) /\ lateMerge \subseteq Guest!Requests
        /\ record \subseteq [key : Guest!Keys, customer : Alike]
    BY GuestBounds DEF Guest!Init
  <2>2. guest \in Guest!Carts /\ wanted \in Guest!Carts /\ mergeCall \in [Guest!CallIds -> GuestCallRow]
    BY GuestNoCallRow DEF Guest!Init
  <2>3. merged \in [Guest!Keys -> [Alike -> Nat]] /\ added \in [Skus -> Nat]  BY DEF Guest!Init, Guest!NoItems
  <2>4. bounds \in [keys : 0 .. CartKeys, restarts : Nat, lapses : [Guest!Keys -> Nat]] /\ risked \in BOOLEAN
    <3>1. risked = FALSE /\ bounds = [keys |-> 0, restarts |-> 0, lapses |-> [k \in Guest!Keys |-> 0]]
      BY DEF Guest!Init
    <3>2. [k \in Guest!Keys |-> 0] \in [Guest!Keys -> Nat] /\ 0 \in 0 .. CartKeys /\ 0 \in Nat BY GuestBounds
    <3> QED BY <3>1, <3>2
  <2> QED BY <2>1, <2>2, <2>3, <2>4 DEF GuestTyped
<1>2. \A c \in Guest!CallIds : mergeCall[c] = Guest!NoCall BY DEF Guest!Init
<1>3. GuestCallsRight /\ \A c \in Guest!CallIds : ~GuestAtWork(c)
  BY <1>2, GuestNoCallRow, GuestBounds DEF Guest!Init, GuestCallsRight, GuestCallRight, GuestAtWork
<1>4. \A q : ~GuestPends(q) BY <1>3 DEF Guest!Init, GuestPends
<1>5. GuestRequestsRight BY <1>4 DEF GuestRequestsRight
<1>6. GuestBooksRight BY GuestBounds DEF Guest!Init, GuestBooksRight
<1>7. GuestNothingLost BY <1>4, GuestLivePends DEF Guest!Init, GuestNothingLost, Guest!NoItems
<1>8. GuestAlone BY <1>2, <1>3, GuestNoCallRow DEF GuestAlone
<1>9. GuestExact BY <1>4 DEF Guest!Init, GuestExact, Guest!NoItems
<1> QED BY <1>1, <1>3, <1>5, <1>6, <1>7, <1>8, <1>9 DEF GuestInv

\* A step that changes no cart and no book, and adds no request.
LEMMA GuestQuiet ==
  ASSUME GuestInv, UNCHANGED <<merge, Guest!server, guest, wanted, edited>>,
         bounds'.keys = bounds.keys, bounds'.lapses = bounds.lapses, ~risked' => ~risked,
         \A q : GuestPends(q)' => GuestPends(q), \A q : GuestLive(q)' => GuestLive(q)
  PROVE  GuestRequestsRight' /\ GuestBooksRight' /\ GuestNothingLost' /\ GuestExact'
<1>1. UNCHANGED <<merge, record, merged, added, guest, wanted, edited>> BY DEF Guest!server
<1>2. \A q : GuestDone(q)' <=> GuestDone(q) BY <1>1 DEF GuestDone
<1>3. GuestRequestsRight' BY <1>1 DEF GuestInv, GuestRequestsRight
<1>4. GuestBooksRight' BY <1>1, <1>2 DEF GuestInv, GuestBooksRight
<1>5. GuestNothingLost' BY <1>1, <1>2 DEF GuestInv, GuestNothingLost
<1>6. GuestExact' BY <1>1, <1>2 DEF GuestInv, GuestExact, GuestUnderway
<1> QED BY <1>3, <1>4, <1>5, <1>6

LEMMA GuestPutInv ==
  ASSUME GuestGiven, GuestInv, NEW s \in Skus, NEW quantity \in 0 .. MaxQuantity, ~Guest!Trimming,
         Guest!Put(s, quantity)
  PROVE  GuestInv'
<1>1. /\ signedIn = NoCustomer /\ guest' = [guest EXCEPT ![s] = quantity]
      /\ wanted[s] + quantity - guest[s] \in 0 .. MaxQuantity
      /\ UNCHANGED <<signedIn, login, merge, mergeCall, lateMerge, record, merged, added, risked, bounds>>
  BY DEF Guest!Put, Guest!server
<1>2. wanted' = [wanted EXCEPT ![s] = wanted[s] + quantity - guest[s]] BY DEF Guest!Put
<1>3. edited' = edited \union {e \in {s} : \E j \in merge : j.items[e] > 0} BY DEF Guest!Put
<1>4. guest \in [Skus -> 0 .. MaxQuantity] /\ wanted \in [Skus -> 0 .. MaxQuantity] /\ added \in [Skus -> Nat]
  BY DEF GuestInv, GuestTyped, Guest!Carts
<1>5. GuestTyped' BY <1>1, <1>2, <1>3, <1>4 DEF GuestInv, GuestTyped, Guest!Carts
<1>6. \A c \in Guest!CallIds :
        ~Guest!SameSession(c)' /\ (GuestMergeOf(c)' = GuestMergeOf(c)) /\ (GuestAtWork(c)' <=> GuestAtWork(c))
  BY <1>1 DEF Guest!SameSession, GuestMergeOf, GuestAtWork
<1>7. \A q : GuestDone(q)' <=> GuestDone(q) BY <1>1 DEF GuestDone
<1>8. GuestCallsRight'  BY <1>1, <1>6, <1>7 DEF GuestInv, GuestCallsRight, GuestCallRight, Guest!Trimming
<1>9. \A q : (GuestPends(q)' <=> GuestPends(q)) /\ (GuestLive(q)' => q \in merge)
  BY <1>1, <1>6 DEF GuestPends, GuestLive
<1>10. GuestRequestsRight' BY <1>1, <1>9 DEF GuestInv, GuestRequestsRight
<1>11. GuestBooksRight' BY <1>1, <1>7 DEF GuestInv, GuestBooksRight
<1>12. GuestAlone' BY <1>1, <1>6 DEF GuestInv, GuestAlone
<1>13. ASSUME NEW e \in Skus, e # s
       PROVE  guest'[e] = guest[e] /\ wanted'[e] = wanted[e] /\ added'[e] = added[e] /\ (e \notin edited' => e \notin edited)
  BY <1>1, <1>2, <1>3, <1>4, <1>13
<1>14. ASSUME s \notin edited'
       PROVE  /\ guest'[s] + added'[s] - wanted'[s] = guest[s] + added[s] - wanted[s] /\ s \notin edited
              /\ \A j \in merge : j.items[s] = 0
  <2>1. guest'[s] = quantity /\ wanted'[s] = wanted[s] + quantity - guest[s] /\ added'[s] = added[s]
    BY <1>1, <1>2, <1>4
  <2>2. ASSUME NEW j \in merge PROVE j.items[s] = 0
    <3>1. j.items \in [Skus -> 0 .. MaxQuantity]  BY DEF GuestInv, GuestTyped, Guest!Requests, Guest!Carts
    <3>2. ~(j.items[s] > 0) BY <1>3, <1>14
    <3> QED BY <3>1, <3>2, GuestBounds
  <2> QED BY <1>3, <1>4, <1>14, <2>1, <2>2, GuestBounds
<1>15. GuestNothingLost'
  <2> SUFFICES ASSUME NEW e \in Skus, e \notin edited'
               PROVE  /\ guest'[e] + added'[e] >= wanted'[e]
                      /\ \A q : GuestLive(q)' /\ GuestDone(q)' /\ q.items[e] > 0 /\ guest'[e] = q.items[e]
                                  => added'[e] >= wanted'[e]
    BY DEF GuestNothingLost
  <2>1. CASE e # s BY <1>7, <1>9, <1>13, <2>1 DEF GuestInv, GuestNothingLost, GuestLive
  <2>2. CASE e = s
    <3>1. \A q : GuestLive(q)' => ~(q.items[e] > 0) BY <1>9, <1>14, <2>2
    <3>2. guest[e] + added[e] >= wanted[e] BY <1>14, <2>2 DEF GuestInv, GuestNothingLost
    <3>3. guest'[e] \in Int /\ added'[e] \in Int /\ wanted'[e] \in Int /\ guest[e] \in Int /\ added[e] \in Int
       /\ wanted[e] \in Int
      BY <1>1, <1>2, <1>4, <2>2, GuestBounds
    <3> QED BY <1>14, <2>2, <3>1, <3>2, <3>3
  <2> QED BY <2>1, <2>2
<1>16. GuestExact'
  <2> SUFFICES ASSUME ~risked' PROVE GuestExact'
    BY DEF GuestExact
  <2>1. ASSUME NEW e \in Skus, e \notin edited'
        PROVE  /\ merge' = {} => guest'[e] + added'[e] = wanted'[e]
               /\ \A j \in merge' : GuestUnderway(j, e)'
    <3>1. CASE e # s BY <1>1, <1>7, <1>13, <2>1, <3>1 DEF GuestInv, GuestExact, GuestUnderway
    <3>2. CASE e = s
      <4>1. guest[e] + added[e] = wanted[e]
        BY <1>1, <1>14, <2>1, <3>2 DEF GuestInv, GuestExact, GuestUnderway
      <4>2. guest'[e] + added'[e] = wanted'[e]  BY <1>1, <1>2, <1>4, <1>14, <2>1, <3>2, <4>1, GuestBounds
      <4> QED BY <1>1, <1>14, <2>1, <3>2, <4>2 DEF GuestUnderway
    <3> QED BY <3>1, <3>2
  <2> QED BY <1>1, <1>7, <1>9, <2>1 DEF GuestInv, GuestExact
<1> QED BY <1>5, <1>8, <1>10, <1>11, <1>12, <1>15, <1>16 DEF GuestInv

LEMMA GuestSignInInv ==
  ASSUME GuestGiven, GuestInv, ~Guest!Trimming, Guest!SignOut \/ \E cust \in Alike : Guest!SignIn(cust)
  PROVE  GuestInv'
<1>1. UNCHANGED <<guest, merge, mergeCall, lateMerge, Guest!server, wanted, edited, risked, bounds>>
  BY DEF Guest!SignIn, Guest!SignOut, Guest!intent
<1>2. /\ signedIn' \in Alike \union {NoCustomer} /\ login' \in 0 .. MaxLogins
      /\ \/ login' = login + 1
         \/ login' = login /\ signedIn' = NoCustomer
  BY GuestBounds DEF Guest!SignIn, Guest!SignOut, GuestInv, GuestTyped
<1>3. GuestTyped' BY <1>1, <1>2 DEF GuestInv, GuestTyped, Guest!server
<1>4. ASSUME NEW c \in Guest!CallIds
      PROVE  /\ ~Guest!SameSession(c)' /\ mergeCall'[c].login <= login'
             /\ GuestMergeOf(c)' = GuestMergeOf(c) /\ (GuestAtWork(c)' <=> GuestAtWork(c))
             /\ (GuestDone(GuestMergeOf(c))' <=> GuestDone(GuestMergeOf(c)))
  <2>1. mergeCall[c].login <= login /\ mergeCall[c].login \in Nat /\ login \in Nat
    BY DEF GuestInv, GuestCallsRight, GuestCallRight, GuestTyped, GuestCallRow
  <2>2. ~Guest!SameSession(c)' /\ mergeCall'[c].login <= login'  BY <1>1, <1>2, <2>1 DEF Guest!SameSession
  <2> QED BY <1>1, <2>2 DEF GuestMergeOf, GuestAtWork, GuestDone, Guest!server
<1>5. GuestCallsRight'  BY <1>1, <1>4 DEF GuestInv, GuestCallsRight, GuestCallRight, Guest!Trimming
<1>6. \A q : (GuestPends(q)' => GuestPends(q)) /\ (GuestLive(q)' => GuestLive(q))
  BY <1>1, <1>4 DEF GuestPends, GuestLive
<1>7. GuestAlone' BY <1>1, <1>4 DEF GuestInv, GuestAlone
<1> QED BY <1>1, <1>3, <1>5, <1>6, <1>7, GuestQuiet DEF GuestInv

\* A call that begins, or ends without a merge.
LEMMA GuestCallOnlyInv ==
  ASSUME GuestGiven, GuestInv, NEW c \in Guest!CallIds, NEW row \in GuestCallRow,
         UNCHANGED <<Guest!device, Guest!server, wanted, edited, bounds>>, risked' \in BOOLEAN, ~risked' => ~risked,
         \A q \in lateMerge' : q \in lateMerge \/ (GuestAtWork(c) /\ q = GuestMergeOf(c)),
         mergeCall' = [mergeCall EXCEPT ![c] = row],
         row.login <= login, row.phase = "IDLE" => row = Guest!NoCall,
         row.phase \in {"IDLE", "PREPARES", "RESUMES"}, row.customer = NoCustomer,
         row.phase = "PREPARES" => merge = {} /\ row.items = guest,
         ~risked' /\ row # Guest!NoCall =>
            \A d \in Guest!CallIds \ {c} : mergeCall[d] # Guest!NoCall => mergeCall[d].login # row.login
  PROVE  GuestInv'
<1>1. UNCHANGED <<signedIn, login, guest, merge, record, merged, added, wanted, edited, bounds>>
  BY DEF Guest!device, Guest!server
<1>2. /\ mergeCall' \in [Guest!CallIds -> GuestCallRow] /\ mergeCall'[c] = row
      /\ \A d \in Guest!CallIds \ {c} : mergeCall'[d] = mergeCall[d]
  BY DEF GuestInv, GuestTyped
<1>3. \A q \in lateMerge' : q \in Guest!Requests
  <2>1. \A q \in lateMerge' : GuestPends(q) BY DEF GuestPends
  <2> QED BY <2>1, GuestPendsType DEF GuestInv
<1>4. GuestTyped' BY <1>1, <1>2, <1>3 DEF GuestInv, GuestTyped
<1>5. ~GuestAtWork(c)' /\ mergeCall'[c].phase \in {"IDLE", "PREPARES", "RESUMES"} BY <1>2 DEF GuestAtWork
<1>6. \A d \in Guest!CallIds \ {c} :
        /\ GuestMergeOf(d)' = GuestMergeOf(d) /\ (GuestAtWork(d)' <=> GuestAtWork(d))
        /\ (Guest!SameSession(d)' <=> Guest!SameSession(d)) /\ (GuestDone(GuestMergeOf(d))' <=> GuestDone(GuestMergeOf(d)))
  BY <1>1, <1>2 DEF GuestMergeOf, GuestAtWork, Guest!SameSession, GuestDone
<1>7. GuestCallsRight'
  <2>1. GuestCallRight(c)' BY <1>1, <1>2, <1>5 DEF GuestCallRight, GuestAtWork
  <2>2. \A d \in Guest!CallIds \ {c} : GuestCallRight(d)'
    BY <1>1, <1>2, <1>6 DEF GuestInv, GuestCallsRight, GuestCallRight
  <2> QED BY <2>1, <2>2 DEF GuestCallsRight
<1>8. \A q : (GuestPends(q)' => GuestPends(q)) /\ (GuestLive(q)' => GuestLive(q))
  BY <1>1, <1>5, <1>6 DEF GuestPends, GuestLive
<1>9. GuestAlone'
  <2> SUFFICES ASSUME ~risked' PROVE GuestAlone'
    BY DEF GuestAlone
  <2>1. \A d, e \in Guest!CallIds :
          mergeCall'[d] # Guest!NoCall /\ mergeCall'[e] # Guest!NoCall /\ mergeCall'[d].login = mergeCall'[e].login
            => d = e
    BY <1>2 DEF GuestInv, GuestAlone
  <2>2. \A d \in Guest!CallIds : Guest!SameSession(d)' =>
          /\ mergeCall'[d].phase = "PREPARES" => merge' = {} /\ mergeCall'[d].items = guest'
          /\ GuestAtWork(d)' => GuestMergeOf(d)' \in merge'
    BY <1>1, <1>2, <1>5, <1>6 DEF GuestInv, GuestAlone
  <2> QED BY <2>1, <2>2 DEF GuestAlone
<1> QED BY <1>1, <1>4, <1>7, <1>8, <1>9, GuestQuiet DEF GuestInv

LEMMA GuestSynchronizeInv ==
  ASSUME GuestGiven, GuestInv, NEW c \in Guest!CallIds, Guest!Synchronize(c)
  PROVE  GuestInv'
<1>1. /\ guest \in Guest!Carts /\ login \in Nat /\ lateMerge' = lateMerge
      /\ UNCHANGED <<Guest!device, Guest!server, wanted, edited, bounds>>
      /\ risked' = (risked \/ \E d \in Guest!CallIds : mergeCall[d] # Guest!NoCall /\ mergeCall[d].login = login)
      /\ risked' \in BOOLEAN /\ (~risked' => ~risked)
  BY DEF GuestInv, GuestTyped, Guest!Synchronize
<1>2. PICK row : /\ \/ row = [Guest!NoCall EXCEPT !.phase = "RESUMES", !.login = login]
                    \/ row = [Guest!NoCall EXCEPT !.phase = "PREPARES", !.login = login, !.items = guest] /\ merge = {}
                 /\ mergeCall' = [mergeCall EXCEPT ![c] = row]
  BY DEF Guest!Synchronize
<1>3. /\ row \in GuestCallRow /\ row.phase \in {"PREPARES", "RESUMES"} /\ row.login = login
      /\ row.customer = NoCustomer /\ (row.phase = "PREPARES" => merge = {} /\ row.items = guest)
  BY <1>1, <1>2, GuestNoCallRow DEF GuestCallRow, Guest!NoCall
<1>4. /\ row.phase \in {"IDLE", "PREPARES", "RESUMES"} /\ (row.phase = "IDLE" => row = Guest!NoCall)
      /\ row.login <= login
      /\ (\A q \in lateMerge' : q \in lateMerge \/ (GuestAtWork(c) /\ q = GuestMergeOf(c)))
      /\ (~risked' /\ row # Guest!NoCall =>
            \A d \in Guest!CallIds \ {c} : mergeCall[d] # Guest!NoCall => mergeCall[d].login # row.login)
  <2>1. \A d \in Guest!CallIds : ~risked' /\ mergeCall[d] # Guest!NoCall => mergeCall[d].login # row.login
    BY <1>1, <1>3
  <2>2. row.phase # "IDLE" /\ row.login <= login /\ row.phase \in {"IDLE", "PREPARES", "RESUMES"} BY <1>1, <1>3
  <2> QED BY <1>1, <2>1, <2>2
<1> QED BY <1>1, <1>2, <1>3, <1>4, GuestCallOnlyInv

LEMMA GuestGiveUpInv ==
  ASSUME GuestGiven, GuestInv, NEW c \in Guest!CallIds, Guest!GiveUp(c)
  PROVE  GuestInv'
<1>1. /\ mergeCall' = [mergeCall EXCEPT ![c] = Guest!NoCall] /\ login \in Nat
      /\ UNCHANGED <<Guest!device, Guest!server, wanted, edited, bounds>>
      /\ risked' = risked /\ risked' \in BOOLEAN /\ (~risked' => ~risked)
  BY DEF GuestInv, GuestTyped, Guest!GiveUp, Guest!intent
<1>2. \A q \in lateMerge' : q \in lateMerge \/ (GuestAtWork(c) /\ q = GuestMergeOf(c))
  BY DEF Guest!GiveUp, GuestAtWork, GuestMergeOf
<1>3. PICK row : row = Guest!NoCall
  OBVIOUS
<1>4. /\ row \in GuestCallRow /\ row.login <= login /\ row.phase \in {"IDLE", "PREPARES", "RESUMES"}
      /\ (row.phase = "IDLE" => row = Guest!NoCall) /\ row.customer = NoCustomer
      /\ (row.phase = "PREPARES" => merge = {} /\ row.items = guest)
      /\ (~risked' /\ row # Guest!NoCall =>
            \A d \in Guest!CallIds \ {c} : mergeCall[d] # Guest!NoCall => mergeCall[d].login # row.login)
  BY <1>1, <1>3, GuestNoCallRow DEF Guest!NoCall
<1>5. mergeCall' = [mergeCall EXCEPT ![c] = row] BY <1>1, <1>3
<1> QED BY <1>1, <1>2, <1>4, <1>5, GuestCallOnlyInv

LEMMA GuestRestartInv ==
  ASSUME GuestGiven, GuestInv, Guest!Restart
  PROVE  GuestInv'
<1>1. /\ UNCHANGED <<signedIn, login, guest, merge, Guest!server, wanted, edited, risked>>
      /\ mergeCall' = [c \in Guest!CallIds |-> Guest!NoCall]
      /\ bounds' = [bounds EXCEPT !.restarts = bounds.restarts + 1]
  BY DEF Guest!Restart, Guest!device, Guest!intent
<1>2. \A q \in lateMerge' : q \in lateMerge \/ \E c \in Guest!CallIds : GuestAtWork(c) /\ q = GuestMergeOf(c)
  BY DEF Guest!Restart, GuestAtWork, GuestMergeOf
<1>3. \A q \in lateMerge' : GuestPends(q) /\ q \in Guest!Requests
  BY <1>2, GuestPendsType DEF GuestPends, GuestInv
<1>4. bounds' \in [keys : 0 .. CartKeys, restarts : Nat, lapses : [Guest!Keys -> Nat]]
      /\ bounds'.keys = bounds.keys /\ bounds'.lapses = bounds.lapses
  BY <1>1 DEF GuestInv, GuestTyped
<1>5. mergeCall' \in [Guest!CallIds -> GuestCallRow] BY <1>1, GuestNoCallRow
<1>6. GuestTyped' BY <1>1, <1>3, <1>4, <1>5 DEF GuestInv, GuestTyped, Guest!server
<1>7. \A c \in Guest!CallIds : mergeCall'[c] = Guest!NoCall /\ ~GuestAtWork(c)' /\ 0 <= login
  BY <1>1, GuestNoCallRow, GuestBounds DEF GuestAtWork, GuestInv, GuestTyped
<1>8. GuestCallsRight' BY <1>1, <1>7, GuestNoCallRow DEF GuestCallsRight, GuestCallRight
<1>9. \A q : (GuestPends(q)' => GuestPends(q)) /\ (GuestLive(q)' => GuestLive(q))
  BY <1>1, <1>3, <1>7 DEF GuestPends, GuestLive
<1>10. GuestAlone' BY <1>7, GuestNoCallRow DEF GuestAlone
<1> QED BY <1>1, <1>4, <1>6, <1>8, <1>9, <1>10, GuestQuiet DEF GuestInv

LEMMA GuestExecuteInv ==
  ASSUME GuestGiven, GuestInv, NEW c \in Guest!CallIds, Guest!Execute(c)
  PROVE  GuestInv'
<1>1. /\ UNCHANGED <<signedIn, login, guest, lateMerge, record, merged, added, wanted, edited, risked>>
      /\ Guest!SameSession(c) /\ mergeCall[c].phase \in {"PREPARES", "RESUMES"}
  BY DEF Guest!Execute, Guest!server, Guest!intent
<1>2. PICK j : /\ j \in merge' /\ Guest!Sent(c, j)
               /\ \/ merge' = merge /\ bounds' = bounds /\ j.customer = signedIn
                  \/ /\ merge = {} /\ merge' = {j} /\ mergeCall[c].phase = "PREPARES" /\ bounds.keys < CartKeys
                     /\ j = [customer |-> signedIn, key |-> bounds.keys + 1, items |-> mergeCall[c].items]
                     /\ bounds' = [bounds EXCEPT !.keys = bounds.keys + 1]
  BY DEF Guest!Execute, Guest!Prepared, Guest!OwnJournal
<1>3. signedIn \in Alike /\ mergeCall[c] \in GuestCallRow /\ mergeCall[c] # Guest!NoCall
      /\ mergeCall[c].login = login
  BY <1>1, GuestNoCallRow DEF Guest!SameSession, GuestInv, GuestTyped
<1>4. j \in Guest!Requests /\ j.customer = signedIn /\ merge' \subseteq Guest!Requests /\ \A p, q \in merge' : p = q
  <2>1. CASE merge' = merge /\ j.customer = signedIn BY <1>2, <2>1 DEF GuestInv, GuestTyped
  <2>2. CASE /\ merge' = {j} /\ bounds.keys < CartKeys
             /\ j = [customer |-> signedIn, key |-> bounds.keys + 1, items |-> mergeCall[c].items]
    <3>1. bounds.keys + 1 \in Guest!Keys BY <2>2, GuestBounds DEF GuestInv, GuestTyped, Guest!Keys
    <3> QED BY <1>3, <2>2, <3>1 DEF Guest!Requests, GuestCallRow
  <2> QED BY <1>2, <2>1, <2>2
<1>5. bounds' \in [keys : 0 .. CartKeys, restarts : Nat, lapses : [Guest!Keys -> Nat]]
      /\ bounds'.lapses = bounds.lapses
  BY <1>2, GuestBounds DEF GuestInv, GuestTyped
<1>6. PICK row : row = [mergeCall[c] EXCEPT !.phase = "SENT", !.customer = signedIn, !.key = j.key, !.items = j.items]
  OBVIOUS
<1>7. /\ row \in GuestCallRow /\ row.phase = "SENT" /\ row.customer = signedIn /\ row.key = j.key
      /\ row.items = j.items /\ row.login = login
  <2>1. j.key \in 0 .. CartKeys /\ j.items \in Guest!Carts
    BY <1>4, GuestBounds DEF Guest!Requests, Guest!Keys
  <2> QED BY <1>3, <1>4, <1>6, <2>1 DEF GuestCallRow
<1>8. /\ mergeCall' = [mergeCall EXCEPT ![c] = row] /\ mergeCall' \in [Guest!CallIds -> GuestCallRow]
      /\ mergeCall'[c] = row /\ \A d \in Guest!CallIds \ {c} : mergeCall'[d] = mergeCall[d]
  BY <1>2, <1>6, <1>7 DEF Guest!Sent, GuestInv, GuestTyped
<1>9. GuestTyped' BY <1>1, <1>4, <1>5, <1>8 DEF GuestInv, GuestTyped
<1>10. GuestMergeOf(c)' = j /\ GuestAtWork(c)' /\ ~GuestAtWork(c)
  BY <1>1, <1>4, <1>7, <1>8 DEF GuestMergeOf, GuestAtWork, Guest!Requests
<1>11. \A q : GuestDone(q)' <=> GuestDone(q) BY <1>1 DEF GuestDone
<1>12. \A d \in Guest!CallIds \ {c} :
        /\ GuestMergeOf(d)' = GuestMergeOf(d) /\ (GuestAtWork(d)' <=> GuestAtWork(d))
        /\ (Guest!SameSession(d)' <=> Guest!SameSession(d))
  BY <1>1, <1>8 DEF GuestMergeOf, GuestAtWork, Guest!SameSession
<1>13. GuestCallsRight'
  <2>1. GuestCallRight(c)'
    BY <1>1, <1>3, <1>4, <1>7, <1>8, GuestBounds DEF GuestCallRight, Guest!Requests, GuestInv, GuestTyped
  <2>2. \A d \in Guest!CallIds \ {c} : GuestCallRight(d)'
    BY <1>1, <1>8, <1>11, <1>12 DEF GuestInv, GuestCallsRight, GuestCallRight
  <2> QED BY <2>1, <2>2 DEF GuestCallsRight
<1>14. \A q : (GuestPends(q)' => GuestPends(q) \/ q = j) /\ (GuestLive(q)' => GuestLive(q) \/ q = j)
  BY <1>1, <1>2, <1>10, <1>12 DEF GuestPends, GuestLive
<1>15. \A d, e \in Guest!CallIds :
         mergeCall'[d] # Guest!NoCall /\ mergeCall'[e] # Guest!NoCall /\ mergeCall'[d].login = mergeCall'[e].login
           => (~risked' => d = e)
  BY <1>1, <1>3, <1>7, <1>8 DEF GuestInv, GuestAlone
<1>16. CASE merge' = merge /\ bounds' = bounds
  <2>1. \A q : (GuestPends(q)' => GuestPends(q)) /\ (GuestLive(q)' => GuestLive(q))
    BY <1>2, <1>14, <1>16 DEF GuestPends, GuestLive
  <2>2. GuestAlone'  BY <1>1, <1>2, <1>7, <1>8, <1>10, <1>12, <1>15, <1>16 DEF GuestInv, GuestAlone
  <2>3. UNCHANGED <<merge, Guest!server, guest, wanted, edited>> BY <1>1, <1>16 DEF Guest!server
  <2> QED BY <1>1, <1>5, <1>9, <1>13, <1>16, <2>1, <2>2, <2>3, GuestQuiet DEF GuestInv
<1>17. CASE /\ merge = {} /\ merge' = {j} /\ mergeCall[c].phase = "PREPARES"
            /\ j = [customer |-> signedIn, key |-> bounds.keys + 1, items |-> mergeCall[c].items]
            /\ bounds' = [bounds EXCEPT !.keys = bounds.keys + 1]
  <2>1. bounds.keys \in Nat /\ bounds'.keys = bounds.keys + 1 /\ j.key = bounds.keys + 1 /\ j.items = mergeCall[c].items
    <3>1. bounds \in [keys : 0 .. CartKeys, restarts : Nat, lapses : [Guest!Keys -> Nat]]
      BY DEF GuestInv, GuestTyped
    <3>2. bounds.keys \in Nat /\ bounds'.keys = bounds.keys + 1 BY <1>17, <3>1, GuestBounds
    <3>3. j.key = bounds.keys + 1 /\ j.items = mergeCall[c].items BY <1>17
    <3> QED BY <3>2, <3>3
  <2>2. \A m \in Alike : ~(merged[j.key][m] > 0)
    <3>1. j.key \in Guest!Keys BY <1>4 DEF Guest!Requests
    <3>2. \A m \in Alike : merged[j.key][m] > 0 => j.key <= bounds.keys  BY <3>1 DEF GuestInv, GuestBooksRight
    <3> QED BY <2>1, <3>2
  <2>3. ~GuestDone(j) BY <1>4, <2>2 DEF GuestDone, Guest!Requests
  <2>4. \A q : GuestPends(q) => q.key \in Nat /\ q.key <= bounds.keys
    BY GuestPendsType, GuestBounds DEF GuestInv, GuestRequestsRight, Guest!Requests
  <2>5. GuestRequestsRight'  BY <1>1, <1>14, <2>1, <2>2, <2>4 DEF GuestInv, GuestRequestsRight
  <2>6. GuestBooksRight'  BY <1>1, <1>5, <1>11, <2>1, GuestBounds DEF GuestInv, GuestBooksRight
  <2>7. GuestNothingLost'  BY <1>1, <1>11, <1>14, <2>3 DEF GuestInv, GuestNothingLost
  <2>8. GuestAlone'
    <3>1. \A d \in Guest!CallIds \ {c} : ~risked /\ Guest!SameSession(d) => mergeCall[d] = Guest!NoCall
      BY <1>3 DEF GuestInv, GuestAlone, Guest!SameSession
    <3>2. \A d \in Guest!CallIds \ {c} : ~risked /\ Guest!SameSession(d)' =>
            ~GuestAtWork(d)' /\ mergeCall'[d].phase = "IDLE"
      BY <1>8, <1>12, <3>1, GuestNoCallRow DEF GuestAtWork
    <3> QED BY <1>1, <1>2, <1>7, <1>8, <1>10, <1>15, <3>2 DEF GuestAlone
  <2>9. GuestExact'
    <3> SUFFICES ASSUME ~risked' PROVE GuestExact'
      BY DEF GuestExact
    <3>1. \A q : GuestPends(q)' =>
            /\ GuestDone(q)' => [key |-> q.key, customer |-> q.customer] \in record'
            /\ GuestDone(q)' \/ q \in merge'
      BY <1>1, <1>11, <1>14, <1>17, <2>3 DEF GuestInv, GuestExact
    <3>2. ASSUME NEW s \in Skus \ edited' PROVE GuestUnderway(j, s)'
      BY <1>1, <1>11, <1>17, <2>1, <2>3, <3>2 DEF GuestInv, GuestExact, GuestAlone, GuestUnderway
    <3> QED BY <1>17, <3>1, <3>2 DEF GuestExact
  <2> QED BY <1>9, <1>13, <2>5, <2>6, <2>7, <2>8, <2>9 DEF GuestInv
<1> QED BY <1>2, <1>16, <1>17

\* The server merges a request that is pending.
LEMMA GuestMerges ==
  ASSUME GuestGiven, GuestInv, NEW q, GuestPends(q), NEW asked,
         asked.key = q.key, asked.customer = q.customer, asked.items = q.items, Guest!Merge(asked),
         UNCHANGED <<merge, guest, wanted, edited, risked, bounds>>,
         \A p : GuestPends(p)' => GuestPends(p), \A p : GuestLive(p)' => GuestLive(p)
  PROVE  /\ GuestRequestsRight' /\ GuestBooksRight' /\ GuestNothingLost' /\ GuestExact'
         /\ record' \subseteq [key : Guest!Keys, customer : Alike]
         /\ merged' \in [Guest!Keys -> [Alike -> Nat]] /\ added' \in [Skus -> Nat]
         /\ GuestDone(q)' /\ \A p : p \in Guest!Requests /\ GuestDone(p) => GuestDone(p)'
<1>1. q \in Guest!Requests /\ q.key \in Guest!Keys /\ q.customer \in Alike /\ q.items \in [Skus -> 0 .. MaxQuantity]
  BY GuestPendsType DEF GuestInv, Guest!Requests, Guest!Carts
<1>2. /\ guest \in [Skus -> Nat] /\ wanted \in [Skus -> Nat] /\ added \in [Skus -> Nat]
      /\ merged \in [Guest!Keys -> [Alike -> Nat]] /\ record \subseteq [key : Guest!Keys, customer : Alike]
      /\ q.items \in [Skus -> Nat] /\ bounds.lapses \in [Guest!Keys -> Nat]
  BY <1>1, GuestBounds DEF GuestInv, GuestTyped, Guest!Carts
<1>3. CASE [key |-> q.key, customer |-> q.customer] \in record
  <2>1. UNCHANGED Guest!server BY <1>3 DEF Guest!Merge
  <2>2. UNCHANGED <<record, merged, added>> BY <2>1 DEF Guest!server
  <2>3. GuestDone(q)
    <3>1. [key |-> q.key, customer |-> q.customer].key = q.key
       /\ [key |-> q.key, customer |-> q.customer].customer = q.customer
      OBVIOUS
    <3> QED BY <1>3, <3>1 DEF GuestInv, GuestBooksRight, GuestDone
  <2> QED BY <1>2, <2>1, <2>2, <2>3, GuestQuiet DEF GuestDone
<1>4. CASE [key |-> q.key, customer |-> q.customer] \notin record
  <2>1. /\ record' = record \union {[key |-> q.key, customer |-> q.customer]}
        /\ merged' = [merged EXCEPT ![q.key][q.customer] = merged[q.key][q.customer] + 1]
        /\ added' = [s \in Skus |-> added[s] + q.items[s]]
    BY <1>4 DEF Guest!Merge
  <2>2. /\ record' \subseteq [key : Guest!Keys, customer : Alike] /\ added' \in [Skus -> Nat]
        /\ merged' \in [Guest!Keys -> [Alike -> Nat]]
    BY <1>1, <1>2, <2>1
  <2>3. \A k \in Guest!Keys, m \in Alike :
          merged'[k][m] = IF k = q.key /\ m = q.customer THEN merged[k][m] + 1 ELSE merged[k][m]
    BY <1>1, <1>2, <2>1
  <2>4. \A p \in Guest!Requests :
          /\ GuestDone(p) => GuestDone(p)'
          /\ GuestDone(p)' => GuestDone(p) \/ (p.key = q.key /\ p.customer = q.customer)
    BY <1>2, <2>3 DEF GuestDone, Guest!Requests
  <2>5. GuestDone(q)' BY <1>1, <1>2, <2>3 DEF GuestDone
  <2>6. \A p : GuestPends(p) => p \in Guest!Requests BY GuestPendsType DEF GuestInv
  <2>7. \A p : GuestPends(p) /\ p.key = q.key => p = q BY DEF GuestInv, GuestRequestsRight
  <2>8. \A m \in Alike : merged[q.key][m] > 0 => m = q.customer BY DEF GuestInv, GuestRequestsRight
  <2>9. GuestRequestsRight'
    <3>1. ASSUME NEW p, GuestPends(p), NEW m \in Alike, merged'[p.key][m] > 0 PROVE m = p.customer
      <4>1. p.key \in Guest!Keys /\ (merged[p.key][m] > 0 => m = p.customer)
        BY <2>6, <3>1 DEF Guest!Requests, GuestInv, GuestRequestsRight
      <4> QED BY <2>3, <2>7, <3>1, <4>1
    <3> QED BY <3>1 DEF GuestInv, GuestRequestsRight
  <2>10. GuestBooksRight'
    <3>1. ASSUME NEW k \in Guest!Keys, NEW m \in Alike
          PROVE  /\ merged'[k][m] <= bounds'.lapses[k] + (IF [key |-> k, customer |-> m] \in record' THEN 1 ELSE 0)
                 /\ merged'[k][m] > 0 => k <= bounds'.keys
      <4>1. /\ merged[k][m] <= bounds.lapses[k] + (IF [key |-> k, customer |-> m] \in record THEN 1 ELSE 0)
            /\ merged[k][m] > 0 => k <= bounds.keys
        BY DEF GuestInv, GuestBooksRight
      <4>2. CASE k = q.key /\ m = q.customer
        <5>1. [key |-> k, customer |-> m] \in record' /\ [key |-> k, customer |-> m] \notin record
          BY <1>4, <2>1, <4>2
        <5>2. q.key <= bounds.keys BY DEF GuestInv, GuestRequestsRight
        <5> QED BY <1>2, <2>3, <4>1, <4>2, <5>1, <5>2
      <4>3. CASE ~(k = q.key /\ m = q.customer)
        <5>1. merged'[k][m] = merged[k][m] /\ ([key |-> k, customer |-> m] \in record' <=> [key |-> k, customer |-> m] \in record)
          BY <2>1, <2>3, <4>3
        <5> QED BY <4>1, <5>1
      <4> QED BY <4>2, <4>3
    <3>2. ASSUME NEW k \in Guest!Keys, NEW m \in Alike, NEW n \in Alike, merged'[k][m] > 0, merged'[k][n] > 0
          PROVE  m = n
      <4>1. CASE k = q.key
        <5>1. (m = q.customer \/ merged[q.key][m] > 0) /\ (n = q.customer \/ merged[q.key][n] > 0)
          BY <2>3, <3>2, <4>1
        <5> QED BY <2>8, <5>1
      <4>2. CASE k # q.key
        <5>1. merged[k][m] > 0 /\ merged[k][n] > 0 BY <2>3, <3>2, <4>2
        <5> QED BY <5>1 DEF GuestInv, GuestBooksRight
      <4> QED BY <4>1, <4>2
    <3>3. ASSUME NEW r \in record' PROVE GuestDone(r)'
      <4>1. CASE r \in record  BY <1>2, <2>3, <4>1 DEF GuestInv, GuestBooksRight, GuestDone
      <4>2. CASE r = [key |-> q.key, customer |-> q.customer] BY <2>5, <4>2 DEF GuestDone
      <4> QED BY <2>1, <3>3, <4>1, <4>2
    <3> QED BY <3>1, <3>2, <3>3 DEF GuestBooksRight
  <2>11. \A s \in Skus : added'[s] = added[s] + q.items[s] /\ guest[s] \in Nat /\ wanted[s] \in Nat
            /\ added[s] \in Nat /\ q.items[s] \in Nat
    BY <1>2, <2>1
  <2>12. GuestNothingLost'
    <3> SUFFICES ASSUME NEW s \in Skus, s \notin edited
                 PROVE  /\ guest[s] + added'[s] >= wanted[s]
                        /\ \A p : GuestLive(p)' /\ GuestDone(p)' /\ p.items[s] > 0 /\ guest[s] = p.items[s]
                                    => added'[s] >= wanted[s]
      BY DEF GuestNothingLost
    <3>1. guest[s] + added[s] >= wanted[s] BY DEF GuestInv, GuestNothingLost
    <3>2. ASSUME NEW p, GuestLive(p)', GuestDone(p)', p.items[s] > 0, guest[s] = p.items[s]
          PROVE  added'[s] >= wanted[s]
      <4>1. GuestLive(p) /\ GuestPends(p) /\ p \in Guest!Requests BY <2>6, <3>2, GuestLivePends
      <4>2. CASE GuestDone(p)
        <5>1. added[s] >= wanted[s] BY <3>2, <4>1, <4>2 DEF GuestInv, GuestNothingLost
        <5> QED BY <2>11, <5>1
      <4>3. CASE ~GuestDone(p)
        <5>1. p = q BY <2>4, <2>7, <3>2, <4>1, <4>3
        <5> QED BY <2>11, <3>1, <3>2, <5>1
      <4> QED BY <4>2, <4>3
    <3> QED BY <2>11, <3>1, <3>2
  <2>13. GuestExact'
    <3> SUFFICES ASSUME ~risked PROVE GuestExact'
      BY DEF GuestExact
    <3>1. ~GuestDone(q) /\ q \in merge BY <1>4 DEF GuestInv, GuestExact
    <3>2. merge = {q} BY <3>1 DEF GuestInv, GuestTyped
    <3>3. ASSUME NEW p, GuestPends(p)'
          PROVE  /\ GuestDone(p)' => [key |-> p.key, customer |-> p.customer] \in record'
                 /\ GuestDone(p)' \/ p \in merge'
      <4>1. GuestPends(p) /\ p \in Guest!Requests BY <2>6, <3>3
      <4>2. CASE p = q BY <2>1, <2>5, <4>2
      <4>3. CASE p # q
        <5>1. GuestDone(p)' <=> GuestDone(p) BY <2>4, <2>7, <4>1, <4>3
        <5> QED BY <2>1, <4>1, <5>1 DEF GuestInv, GuestExact
      <4> QED BY <4>2, <4>3
    <3>4. ASSUME NEW s \in Skus \ edited PROVE GuestUnderway(q, s)'
      <4>1. GuestUnderway(q, s) BY <3>1 DEF GuestInv, GuestExact
      <4> QED BY <2>5, <2>11, <3>1, <4>1 DEF GuestUnderway
    <3> QED BY <3>2, <3>3, <3>4 DEF GuestExact
  <2> QED BY <2>2, <2>4, <2>5, <2>9, <2>10, <2>12, <2>13
<1> QED BY <1>3, <1>4

LEMMA GuestArrivesInv ==
  ASSUME GuestGiven, GuestInv, NEW c \in Guest!CallIds, Guest!Arrives(c)
  PROVE  GuestInv'
<1>1. /\ UNCHANGED <<signedIn, login, guest, merge, lateMerge, wanted, edited, risked, bounds>>
      /\ mergeCall[c].phase = "SENT" /\ Guest!Merge(mergeCall[c])
      /\ mergeCall' = [mergeCall EXCEPT ![c].phase = "CONFIRMED"]
  BY DEF Guest!Arrives, Guest!device, Guest!intent
<1>2. /\ mergeCall' \in [Guest!CallIds -> GuestCallRow] /\ mergeCall'[c] = [mergeCall[c] EXCEPT !.phase = "CONFIRMED"]
      /\ \A d \in Guest!CallIds \ {c} : mergeCall'[d] = mergeCall[d]
      /\ mergeCall[c] \in GuestCallRow
  BY <1>1 DEF GuestInv, GuestTyped, GuestCallRow
<1>3. /\ mergeCall'[c].phase = "CONFIRMED" /\ mergeCall'[c].login = mergeCall[c].login
      /\ mergeCall'[c].customer = mergeCall[c].customer /\ mergeCall'[c].key = mergeCall[c].key
      /\ mergeCall'[c].items = mergeCall[c].items
  BY <1>2 DEF GuestCallRow
<1>4. \A d \in Guest!CallIds :
        /\ GuestMergeOf(d)' = GuestMergeOf(d) /\ (GuestAtWork(d)' <=> GuestAtWork(d))
        /\ (Guest!SameSession(d)' <=> Guest!SameSession(d)) /\ mergeCall'[d].login = mergeCall[d].login
        /\ mergeCall'[d].items = mergeCall[d].items
        /\ (mergeCall'[d] # Guest!NoCall => mergeCall[d] # Guest!NoCall)
        /\ (mergeCall'[d].phase = "PREPARES" => mergeCall[d].phase = "PREPARES")
  BY <1>1, <1>2, <1>3, GuestNoCallRow DEF GuestMergeOf, GuestAtWork, Guest!SameSession
<1>5. \A q : (GuestPends(q)' => GuestPends(q)) /\ (GuestLive(q)' => GuestLive(q))
  BY <1>1, <1>4 DEF GuestPends, GuestLive
<1>6. PICK q : q = GuestMergeOf(c)
  OBVIOUS
<1>7. GuestPends(q) /\ mergeCall[c].key = q.key /\ mergeCall[c].customer = q.customer /\ mergeCall[c].items = q.items
  BY <1>1, <1>6 DEF GuestPends, GuestAtWork, GuestMergeOf
<1>8. PICK asked : asked = mergeCall[c]
  OBVIOUS
<1>9. /\ GuestRequestsRight' /\ GuestBooksRight' /\ GuestNothingLost' /\ GuestExact'
      /\ record' \subseteq [key : Guest!Keys, customer : Alike]
      /\ merged' \in [Guest!Keys -> [Alike -> Nat]] /\ added' \in [Skus -> Nat]
      /\ GuestDone(q)' /\ \A p : p \in Guest!Requests /\ GuestDone(p) => GuestDone(p)'
  <2>1. UNCHANGED <<merge, guest, wanted, edited, risked, bounds>> BY <1>1
  <2>2. asked.key = q.key /\ asked.customer = q.customer /\ asked.items = q.items /\ Guest!Merge(asked)
    BY <1>1, <1>7, <1>8
  <2> QED BY <1>5, <1>7, <2>1, <2>2, GuestMerges
<1>10. GuestTyped' BY <1>1, <1>2, <1>9 DEF GuestInv, GuestTyped
<1>11. GuestCallsRight'
  <2>1. GuestCallRight(c)'
    BY <1>1, <1>3, <1>4, <1>6, <1>9 DEF GuestInv, GuestCallsRight, GuestCallRight, GuestAtWork
  <2>2. ASSUME NEW d \in Guest!CallIds \ {c} PROVE GuestCallRight(d)'
    <3>1. GuestAtWork(d) => GuestMergeOf(d) \in Guest!Requests  BY GuestPendsType DEF GuestPends, GuestInv
    <3>2. GuestAtWork(d) /\ GuestDone(GuestMergeOf(d)) => GuestDone(GuestMergeOf(d))'
      BY <1>4, <1>9, <3>1 DEF GuestDone
    <3> QED BY <1>1, <1>2, <1>4, <3>2 DEF GuestInv, GuestCallsRight, GuestCallRight, GuestAtWork
  <2> QED BY <2>1, <2>2 DEF GuestCallsRight
<1>12. GuestAlone' BY <1>1, <1>4 DEF GuestInv, GuestAlone
<1> QED BY <1>9, <1>10, <1>11, <1>12 DEF GuestInv

LEMMA GuestArrivesLateInv ==
  ASSUME GuestGiven, GuestInv, NEW q \in lateMerge, Guest!ArrivesLate(q)
  PROVE  GuestInv'
<1>1. /\ UNCHANGED <<signedIn, login, guest, merge, mergeCall, wanted, edited, risked, bounds>>
      /\ Guest!Merge(q) /\ lateMerge' = lateMerge \ {q}
  BY DEF Guest!ArrivesLate, Guest!device, Guest!intent
<1>2. \A c \in Guest!CallIds :
        /\ GuestMergeOf(c)' = GuestMergeOf(c) /\ (GuestAtWork(c)' <=> GuestAtWork(c))
        /\ (Guest!SameSession(c)' <=> Guest!SameSession(c))
  BY <1>1 DEF GuestMergeOf, GuestAtWork, Guest!SameSession
<1>3. \A p : (GuestPends(p)' => GuestPends(p)) /\ (GuestLive(p)' => GuestLive(p))
  BY <1>1, <1>2 DEF GuestPends, GuestLive
<1>4. GuestPends(q) BY DEF GuestPends
<1>5. /\ GuestRequestsRight' /\ GuestBooksRight' /\ GuestNothingLost' /\ GuestExact'
      /\ record' \subseteq [key : Guest!Keys, customer : Alike]
      /\ merged' \in [Guest!Keys -> [Alike -> Nat]] /\ added' \in [Skus -> Nat]
      /\ GuestDone(q)' /\ \A p : p \in Guest!Requests /\ GuestDone(p) => GuestDone(p)'
  <2>1. UNCHANGED <<merge, guest, wanted, edited, risked, bounds>> BY <1>1
  <2> QED BY <1>1, <1>3, <1>4, <2>1, GuestMerges
<1>6. GuestTyped' BY <1>1, <1>5 DEF GuestInv, GuestTyped
<1>7. GuestCallsRight'
  <2>1. ASSUME NEW d \in Guest!CallIds PROVE GuestCallRight(d)'
    <3>1. GuestAtWork(d) => GuestMergeOf(d) \in Guest!Requests  BY GuestPendsType DEF GuestPends, GuestInv
    <3>2. GuestAtWork(d) /\ GuestDone(GuestMergeOf(d)) => GuestDone(GuestMergeOf(d))'
      BY <1>2, <1>5, <3>1 DEF GuestDone
    <3> QED BY <1>1, <1>2, <3>2 DEF GuestInv, GuestCallsRight, GuestCallRight, GuestAtWork
  <2> QED BY <2>1 DEF GuestCallsRight
<1>8. GuestAlone' BY <1>1, <1>2 DEF GuestInv, GuestAlone
<1> QED BY <1>5, <1>6, <1>7, <1>8 DEF GuestInv

LEMMA GuestRemoveConfirmedInv ==
  ASSUME GuestGiven, GuestInv, NEW c \in Guest!CallIds, ~Guest!Trimming, Guest!RemoveConfirmed(c)
  PROVE  GuestInv'
<1>1. /\ mergeCall[c].phase = "CONFIRMED" /\ Guest!SameSession(c) /\ guest' = Guest!Trimmed(mergeCall[c].items)
      /\ mergeCall' = [mergeCall EXCEPT ![c].phase = "TRIMMED"]
      /\ UNCHANGED <<signedIn, login, merge, lateMerge, record, merged, added, wanted, edited, risked, bounds>>
  BY DEF Guest!RemoveConfirmed, Guest!server, Guest!intent
<1>2. /\ mergeCall' \in [Guest!CallIds -> GuestCallRow] /\ mergeCall'[c] = [mergeCall[c] EXCEPT !.phase = "TRIMMED"]
      /\ \A d \in Guest!CallIds \ {c} : mergeCall'[d] = mergeCall[d]
      /\ mergeCall[c] \in GuestCallRow
  BY <1>1 DEF GuestInv, GuestTyped, GuestCallRow
<1>3. /\ mergeCall'[c].phase = "TRIMMED" /\ mergeCall'[c].login = mergeCall[c].login
      /\ mergeCall'[c].customer = mergeCall[c].customer /\ mergeCall'[c].key = mergeCall[c].key
      /\ mergeCall'[c].items = mergeCall[c].items
  BY <1>2 DEF GuestCallRow
<1>4. \A d \in Guest!CallIds :
        /\ GuestMergeOf(d)' = GuestMergeOf(d) /\ (GuestAtWork(d)' <=> GuestAtWork(d))
        /\ (Guest!SameSession(d)' <=> Guest!SameSession(d)) /\ mergeCall'[d].login = mergeCall[d].login
        /\ (mergeCall'[d] # Guest!NoCall => mergeCall[d] # Guest!NoCall)
        /\ (mergeCall'[d].phase = "PREPARES" => d # c)
  BY <1>1, <1>2, <1>3, GuestNoCallRow DEF GuestMergeOf, GuestAtWork, Guest!SameSession
<1>5. \A q : (GuestPends(q)' => GuestPends(q)) /\ (GuestLive(q)' => GuestLive(q)) /\ (GuestDone(q)' <=> GuestDone(q))
  BY <1>1, <1>4 DEF GuestPends, GuestLive, GuestDone
<1>6. PICK q : q = GuestMergeOf(c)
  OBVIOUS
<1>7. GuestLive(q) /\ GuestDone(q) /\ mergeCall[c].items = q.items
  BY <1>1, <1>6 DEF GuestLive, GuestAtWork, GuestMergeOf, GuestInv, GuestCallsRight, GuestCallRight
<1>8. /\ guest \in [Skus -> Nat] /\ wanted \in [Skus -> Nat] /\ added \in [Skus -> Nat] /\ q.items \in [Skus -> Nat]
      /\ guest \in Guest!Carts
  BY <1>2, <1>7, GuestBounds DEF GuestInv, GuestTyped, Guest!Carts, GuestCallRow
<1>9. /\ guest' \in Guest!Carts
      /\ \A s \in Skus : guest'[s] = IF guest[s] = q.items[s] THEN 0 ELSE guest[s]
  BY <1>1, <1>7, <1>8, GuestBounds DEF Guest!Trimmed, Guest!Carts
<1>10. GuestTyped' BY <1>1, <1>2, <1>9 DEF GuestInv, GuestTyped
<1>11. GuestCallsRight'
  <2>1. GuestCallRight(c)'
    <3>1. \A s \in Skus : mergeCall'[c].items[s] > 0 => guest'[s] # mergeCall'[c].items[s]
      BY <1>3, <1>7, <1>8, <1>9
    <3>2. GuestDone(GuestMergeOf(c))' BY <1>1, <1>4, <1>6, <1>7 DEF GuestDone
    <3> QED BY <1>1, <1>3, <1>4, <3>1, <3>2 DEF GuestInv, GuestCallsRight, GuestCallRight, GuestAtWork
  <2>2. ASSUME NEW d \in Guest!CallIds \ {c} PROVE GuestCallRight(d)'
    <3>1. mergeCall[d].phase # "TRIMMED" /\ (GuestDone(GuestMergeOf(d))' <=> GuestDone(GuestMergeOf(d)))
      BY <1>1, <1>4 DEF Guest!Trimming, GuestDone
    <3> QED BY <1>1, <1>2, <1>4, <3>1 DEF GuestInv, GuestCallsRight, GuestCallRight
  <2> QED BY <2>1, <2>2 DEF GuestCallsRight
<1>12. GuestRequestsRight' BY <1>1, <1>5 DEF GuestInv, GuestRequestsRight
<1>13. GuestBooksRight' BY <1>1, <1>5 DEF GuestInv, GuestBooksRight
<1>14. GuestNothingLost'
  <2> SUFFICES ASSUME NEW s \in Skus, s \notin edited
               PROVE  /\ guest'[s] + added[s] >= wanted[s]
                      /\ \A p : GuestLive(p)' /\ GuestDone(p)' /\ p.items[s] > 0 /\ guest'[s] = p.items[s]
                                  => added[s] >= wanted[s]
    BY <1>1 DEF GuestNothingLost
  <2>1. /\ guest[s] + added[s] >= wanted[s]
        /\ \A p : GuestLive(p) /\ GuestDone(p) /\ p.items[s] > 0 /\ guest[s] = p.items[s] => added[s] >= wanted[s]
    BY DEF GuestInv, GuestNothingLost
  <2>2. /\ guest'[s] = IF guest[s] = q.items[s] THEN 0 ELSE guest[s]
        /\ guest[s] \in Nat /\ added[s] \in Nat /\ wanted[s] \in Nat /\ q.items[s] \in Nat
    BY <1>8, <1>9
  <2>3. guest'[s] + added[s] >= wanted[s]
    <3>1. CASE guest[s] # q.items[s] \/ q.items[s] = 0 BY <2>1, <2>2, <3>1
    <3>2. CASE guest[s] = q.items[s] /\ q.items[s] > 0
      <4>1. added[s] >= wanted[s] BY <1>7, <2>1, <3>2
      <4> QED BY <2>2, <3>2, <4>1
    <3> QED BY <2>2, <3>1, <3>2
  <2>4. \A p : p.items[s] > 0 /\ guest'[s] = p.items[s] => guest[s] = p.items[s] BY <2>2
  <2> QED BY <1>5, <2>1, <2>3, <2>4
<1>15. GuestAlone'
  <2> SUFFICES ASSUME ~risked PROVE GuestAlone'
    BY <1>1 DEF GuestAlone
  <2>1. \A d \in Guest!CallIds \ {c} : Guest!SameSession(d) => mergeCall[d] = Guest!NoCall
    BY <1>1, GuestNoCallRow DEF GuestInv, GuestAlone, Guest!SameSession
  <2>2. \A d \in Guest!CallIds : Guest!SameSession(d)' => mergeCall'[d].phase # "PREPARES"
    BY <1>2, <1>3, <1>4, <2>1, GuestNoCallRow
  <2> QED BY <1>1, <1>4, <2>2 DEF GuestInv, GuestAlone
<1>16. GuestExact'
  <2> SUFFICES ASSUME ~risked PROVE GuestExact'
    BY <1>1 DEF GuestExact
  <2>1. q \in merge BY <1>1, <1>6 DEF GuestInv, GuestAlone, GuestAtWork
  <2>2. merge = {q} BY <2>1 DEF GuestInv, GuestTyped
  <2>3. ASSUME NEW s \in Skus \ edited PROVE GuestUnderway(q, s)'
    <3>1. GuestUnderway(q, s) BY <2>1 DEF GuestInv, GuestExact
    <3> QED BY <1>1, <1>5, <1>7, <1>8, <1>9, <3>1 DEF GuestUnderway
  <2>4. \A p : GuestPends(p)' =>
          /\ GuestDone(p)' => [key |-> p.key, customer |-> p.customer] \in record'
          /\ GuestDone(p)' \/ p \in merge'
    BY <1>1, <1>5 DEF GuestInv, GuestExact
  <2> QED BY <1>1, <2>2, <2>3, <2>4 DEF GuestExact
<1> QED BY <1>10, <1>11, <1>12, <1>13, <1>14, <1>15, <1>16 DEF GuestInv

LEMMA GuestRemoveJournalInv ==
  ASSUME GuestGiven, GuestInv, NEW c \in Guest!CallIds, Guest!RemoveJournal(c)
  PROVE  GuestInv'
<1>1. /\ mergeCall[c].phase = "TRIMMED" /\ merge' = {} /\ mergeCall' = [mergeCall EXCEPT ![c] = Guest!NoCall]
      /\ UNCHANGED <<signedIn, login, guest, lateMerge, record, merged, added, wanted, edited, risked, bounds>>
  BY DEF Guest!RemoveJournal, Guest!server, Guest!intent
<1>2. /\ mergeCall' \in [Guest!CallIds -> GuestCallRow] /\ mergeCall'[c] = Guest!NoCall
      /\ \A d \in Guest!CallIds \ {c} : mergeCall'[d] = mergeCall[d]
  BY <1>1, GuestNoCallRow DEF GuestInv, GuestTyped
<1>3. GuestTyped' BY <1>1, <1>2 DEF GuestInv, GuestTyped
<1>4. PICK q : q = GuestMergeOf(c)
  OBVIOUS
<1>5. /\ GuestDone(q) /\ mergeCall[c].items = q.items /\ Guest!SameSession(c) /\ GuestAtWork(c)
      /\ \A s \in Skus : q.items[s] > 0 => guest[s] # q.items[s]
  BY <1>1, <1>4 DEF GuestAtWork, GuestMergeOf, GuestInv, GuestCallsRight, GuestCallRight
<1>6. \A d \in Guest!CallIds \ {c} :
        /\ GuestMergeOf(d)' = GuestMergeOf(d) /\ (GuestAtWork(d)' <=> GuestAtWork(d))
        /\ (Guest!SameSession(d)' <=> Guest!SameSession(d))
  BY <1>1, <1>2 DEF GuestMergeOf, GuestAtWork, Guest!SameSession
<1>7. ~GuestAtWork(c)' /\ mergeCall'[c].phase = "IDLE" /\ mergeCall'[c].login = 0
  BY <1>2, GuestNoCallRow DEF GuestAtWork
<1>8. \A p : GuestDone(p)' <=> GuestDone(p) BY <1>1 DEF GuestDone
<1>9. \A p : (GuestPends(p)' => GuestPends(p)) /\ (GuestLive(p)' => GuestLive(p))
  BY <1>1, <1>6, <1>7 DEF GuestPends, GuestLive
<1>10. GuestCallsRight'
  <2>1. GuestCallRight(c)' BY <1>1, <1>2, <1>7, GuestBounds DEF GuestCallRight, GuestInv, GuestTyped
  <2>2. \A d \in Guest!CallIds \ {c} : GuestCallRight(d)'
    BY <1>1, <1>2, <1>6, <1>8 DEF GuestInv, GuestCallsRight, GuestCallRight
  <2> QED BY <2>1, <2>2 DEF GuestCallsRight
<1>11. GuestRequestsRight' BY <1>1, <1>9 DEF GuestInv, GuestRequestsRight
<1>12. GuestBooksRight' BY <1>1, <1>8 DEF GuestInv, GuestBooksRight
<1>13. GuestNothingLost' BY <1>1, <1>8, <1>9 DEF GuestInv, GuestNothingLost
<1>14. GuestAlone'
  <2> SUFFICES ASSUME ~risked PROVE GuestAlone'
    BY <1>1 DEF GuestAlone
  <2>1. \A d \in Guest!CallIds \ {c} : Guest!SameSession(d) => mergeCall[d] = Guest!NoCall
    BY <1>1, <1>5, GuestNoCallRow DEF GuestInv, GuestAlone, Guest!SameSession
  <2>2. \A d \in Guest!CallIds : Guest!SameSession(d)' => mergeCall'[d].phase = "IDLE" /\ ~GuestAtWork(d)'
    BY <1>2, <1>6, <1>7, <2>1, GuestNoCallRow DEF GuestAtWork
  <2>3. \A d, e \in Guest!CallIds :
          mergeCall'[d] # Guest!NoCall /\ mergeCall'[e] # Guest!NoCall /\ mergeCall'[d].login = mergeCall'[e].login
            => d = e
    BY <1>2 DEF GuestInv, GuestAlone
  <2> QED BY <2>2, <2>3 DEF GuestAlone
<1>15. GuestExact'
  <2> SUFFICES ASSUME ~risked PROVE GuestExact'
    BY <1>1 DEF GuestExact
  <2>1. q \in merge BY <1>4, <1>5 DEF GuestInv, GuestAlone
  <2>2. merge = {q} BY <2>1 DEF GuestInv, GuestTyped
  <2>3. ASSUME NEW s \in Skus \ edited PROVE guest[s] + added[s] = wanted[s]
    <3>1. GuestUnderway(q, s) BY <2>1 DEF GuestInv, GuestExact
    <3>2. q.items[s] \in Nat /\ guest[s] \in Nat /\ added[s] \in Nat
      BY <2>1, GuestBounds DEF GuestInv, GuestTyped, Guest!Requests, Guest!Carts
    <3> QED BY <1>5, <3>1, <3>2 DEF GuestUnderway
  <2>4. \A p : GuestPends(p)' =>
          (GuestDone(p)' => [key |-> p.key, customer |-> p.customer] \in record') /\ GuestDone(p)'
    BY <1>1, <1>5, <1>8, <1>9, <2>2 DEF GuestInv, GuestExact
  <2> QED BY <1>1, <2>3, <2>4 DEF GuestExact
<1> QED BY <1>3, <1>10, <1>11, <1>12, <1>13, <1>14, <1>15 DEF GuestInv

LEMMA GuestRecordLapsesInv ==
  ASSUME GuestGiven, GuestInv, NEW r \in record, Guest!RecordLapses(r)
  PROVE  GuestInv'
<1>1. /\ lateMerge = {} /\ (\A c \in Guest!CallIds : mergeCall[c] = Guest!NoCall)
      /\ record' = record \ {r} /\ risked' = (risked \/ \E j \in merge : j.key = r.key)
      /\ bounds' = [bounds EXCEPT !.lapses[r.key] = bounds.lapses[r.key] + 1]
      /\ UNCHANGED <<signedIn, login, guest, merge, mergeCall, lateMerge, merged, added, wanted, edited>>
  BY DEF Guest!RecordLapses, Guest!device
<1>2. r.key \in Guest!Keys /\ r.customer \in Alike /\ r = [key |-> r.key, customer |-> r.customer]
  BY DEF GuestInv, GuestTyped
<1>3. /\ bounds' \in [keys : 0 .. CartKeys, restarts : Nat, lapses : [Guest!Keys -> Nat]] /\ bounds'.keys = bounds.keys
      /\ bounds'.lapses = [bounds.lapses EXCEPT ![r.key] = bounds.lapses[r.key] + 1]
      /\ bounds.lapses \in [Guest!Keys -> Nat] /\ merged \in [Guest!Keys -> [Alike -> Nat]]
  <2>1. /\ bounds \in [keys : 0 .. CartKeys, restarts : Nat, lapses : [Guest!Keys -> Nat]]
        /\ merged \in [Guest!Keys -> [Alike -> Nat]]
    BY DEF GuestInv, GuestTyped
  <2>2. bounds' = [bounds EXCEPT !.lapses = [bounds.lapses EXCEPT ![r.key] = bounds.lapses[r.key] + 1]]
    BY <1>1, <1>2, <2>1
  <2>3. [bounds.lapses EXCEPT ![r.key] = bounds.lapses[r.key] + 1] \in [Guest!Keys -> Nat] BY <1>2, <2>1
  <2> QED BY <2>1, <2>2, <2>3
<1>4. GuestTyped' BY <1>1, <1>3 DEF GuestInv, GuestTyped
<1>5. \A c \in Guest!CallIds :
        /\ GuestMergeOf(c)' = GuestMergeOf(c) /\ (GuestAtWork(c)' <=> GuestAtWork(c)) /\ ~GuestAtWork(c)
        /\ (Guest!SameSession(c)' <=> Guest!SameSession(c))
  BY <1>1, GuestNoCallRow DEF GuestMergeOf, GuestAtWork, Guest!SameSession
<1>6. \A q : /\ (GuestPends(q)' => GuestPends(q)) /\ (GuestLive(q)' => GuestLive(q))
             /\ (GuestDone(q)' <=> GuestDone(q)) /\ (GuestPends(q) => q \in merge)
  BY <1>1, <1>5 DEF GuestPends, GuestLive, GuestDone
<1>7. GuestCallsRight'
  BY <1>1, <1>5, <1>6 DEF GuestInv, GuestCallsRight, GuestCallRight, GuestDone, GuestMergeOf
<1>8. GuestRequestsRight' BY <1>1, <1>3, <1>6 DEF GuestInv, GuestRequestsRight
<1>9. GuestBooksRight'
  <2>1. ASSUME NEW k \in Guest!Keys, NEW m \in Alike
        PROVE  merged[k][m] <= bounds'.lapses[k] + (IF [key |-> k, customer |-> m] \in record' THEN 1 ELSE 0)
    <3>1. /\ merged[k][m] <= bounds.lapses[k] + (IF [key |-> k, customer |-> m] \in record THEN 1 ELSE 0)
          /\ merged[k][m] \in Nat /\ bounds.lapses[k] \in Nat
      BY <1>3 DEF GuestInv, GuestBooksRight
    <3>2. CASE k = r.key
      <4>1. bounds'.lapses[k] = bounds.lapses[k] + 1 BY <1>3, <3>2
      <4> QED BY <3>1, <4>1
    <3>3. CASE k # r.key
      <4>1. bounds'.lapses[k] = bounds.lapses[k]
         /\ ([key |-> k, customer |-> m] \in record' <=> [key |-> k, customer |-> m] \in record)
        BY <1>1, <1>2, <1>3, <3>3
      <4> QED BY <3>1, <4>1
    <3> QED BY <3>2, <3>3
  <2> QED BY <1>1, <1>3, <1>6, <2>1 DEF GuestInv, GuestBooksRight
<1>10. GuestNothingLost' BY <1>1, <1>6 DEF GuestInv, GuestNothingLost
<1>11. GuestAlone' BY <1>1, <1>5 DEF GuestInv, GuestAlone
<1>12. GuestExact'
  <2> SUFFICES ASSUME ~risked, \A j \in merge : j.key # r.key PROVE GuestExact'
    BY <1>1 DEF GuestExact
  <2>1. \A q \in merge : [key |-> q.key, customer |-> q.customer] # r BY <1>2
  <2>2. \A q : GuestPends(q)' =>
          /\ GuestDone(q)' => [key |-> q.key, customer |-> q.customer] \in record'
          /\ GuestDone(q)' \/ q \in merge'
    BY <1>1, <1>6, <2>1 DEF GuestInv, GuestExact
  <2> QED BY <1>1, <1>6, <2>2 DEF GuestInv, GuestExact, GuestUnderway
<1> QED BY <1>4, <1>7, <1>8, <1>9, <1>10, <1>11, <1>12 DEF GuestInv

LEMMA GuestStepwise == ASSUME GuestGiven, GuestInv, Guest!Next PROVE GuestInv'
<1>1. CASE Guest!Restart \/ \E c \in Guest!CallIds : Guest!RemoveJournal(c)
  BY <1>1, GuestRestartInv, GuestRemoveJournalInv
<1>2. ASSUME ~Guest!Trimming, NEW s \in Skus, NEW quantity \in 0 .. MaxQuantity,
             Guest!Put(s, quantity) PROVE GuestInv'
  BY <1>2, GuestPutInv
<1>3. CASE ~Guest!Trimming /\ (Guest!SignOut \/ \E cust \in Alike : Guest!SignIn(cust)) BY <1>3, GuestSignInInv
<1>4. ASSUME ~Guest!Trimming, NEW c \in Guest!CallIds,
             Guest!Synchronize(c) \/ Guest!Execute(c) \/ Guest!RemoveConfirmed(c) \/ Guest!GiveUp(c)
                \/ Guest!Arrives(c) PROVE GuestInv'
  BY <1>4, GuestSynchronizeInv, GuestExecuteInv, GuestRemoveConfirmedInv, GuestGiveUpInv, GuestArrivesInv
<1>5. CASE (\E q \in lateMerge : Guest!ArrivesLate(q)) \/ \E r \in record : Guest!RecordLapses(r)
  BY <1>5, GuestArrivesLateInv, GuestRecordLapsesInv
<1> QED BY <1>1, <1>2, <1>3, <1>4, <1>5 DEF Guest!Next

LEMMA GuestStutters == ASSUME GuestGiven, GuestInv, UNCHANGED Guest!vars PROVE GuestInv'
<1>1. UNCHANGED <<signedIn, login, guest, merge, mergeCall, lateMerge, record, merged, added, wanted, edited, risked, bounds>>
  BY DEF Guest!vars
<1>2. \A c : /\ GuestMergeOf(c)' = GuestMergeOf(c) /\ (GuestAtWork(c)' <=> GuestAtWork(c))
             /\ (Guest!SameSession(c)' <=> Guest!SameSession(c))
  BY <1>1 DEF GuestMergeOf, GuestAtWork, Guest!SameSession
<1>3. \A q : (GuestPends(q)' => GuestPends(q)) /\ (GuestLive(q)' => GuestLive(q)) /\ (GuestDone(q)' <=> GuestDone(q))
  BY <1>1, <1>2 DEF GuestPends, GuestLive, GuestDone
<1>4. GuestRequestsRight' /\ GuestBooksRight' /\ GuestNothingLost' /\ GuestExact'
  BY <1>1, <1>3, GuestQuiet DEF Guest!server
<1>5. GuestTyped' /\ GuestAlone' BY <1>1, <1>2 DEF GuestInv, GuestTyped, GuestAlone
<1>6. GuestCallsRight' BY <1>1, <1>2, <1>3 DEF GuestInv, GuestCallsRight, GuestCallRight, GuestDone
<1> QED BY <1>4, <1>5, <1>6 DEF GuestInv

LEMMA GuestArrives == ASSUME GuestGiven, GuestInv PROVE Guest!CartArrives
<1>1. \A S : (\A m, n \in S : m = n) => Guest!Cardinality(S) <= 1
  <2> SUFFICES ASSUME NEW S, \A m, n \in S : m = n PROVE Guest!Cardinality(S) <= 1
    OBVIOUS
  <2>1. CASE S = {} BY <2>1, GuestFS_EmptySet
  <2>2. CASE S # {}
    <3>1. PICK m \in S : S = {m} BY <2>2
    <3>2. Guest!Cardinality({m}) = 1 BY GuestFS_Singleton, Zenon
    <3> QED BY <3>1, <3>2
  <2> QED BY <2>1, <2>2
<1>2. Guest!TypeOK
  <2>1. ASSUME NEW c \in Guest!CallIds, mergeCall[c] # Guest!NoCall
        PROVE  \/ mergeCall[c].phase \in {"PREPARES", "RESUMES"} /\ mergeCall[c].customer = NoCustomer
               \/ mergeCall[c].phase \in {"SENT", "CONFIRMED", "TRIMMED"} /\ mergeCall[c].customer \in Alike
    BY <2>1 DEF GuestInv, GuestTyped, GuestCallsRight, GuestCallRight, GuestAtWork, GuestCallRow
  <2> QED BY <1>1, <2>1 DEF GuestInv, GuestTyped, Guest!TypeOK
<1>3. Guest!MergedOnce
  <2>1. ASSUME NEW k \in Guest!Keys, NEW m \in Alike PROVE merged[k][m] <= 1 + bounds.lapses[k]
    <3>1. merged[k][m] <= bounds.lapses[k] + (IF [key |-> k, customer |-> m] \in record THEN 1 ELSE 0)
      BY DEF GuestInv, GuestBooksRight
    <3>2. merged[k][m] \in Nat /\ bounds.lapses[k] \in Nat BY DEF GuestInv, GuestTyped
    <3> QED BY <3>1, <3>2
  <2> QED BY <2>1 DEF Guest!MergedOnce
<1>4. Guest!MergedForOne
  <2>1. ASSUME NEW k \in Guest!Keys PROVE \A m, n \in {u \in Alike : merged[k][u] > 0} : m = n
    BY DEF GuestInv, GuestBooksRight
  <2> QED BY <1>1, <2>1 DEF Guest!MergedForOne
<1>5. Guest!NothingLost BY DEF GuestInv, GuestNothingLost, Guest!NothingLost
<1>6. Guest!NothingDoubled
  <2>1. ASSUME merge = {}, ~risked, NEW s \in Skus \ edited PROVE guest[s] + added[s] <= wanted[s]
    <3>1. guest[s] + added[s] = wanted[s] BY <2>1 DEF GuestInv, GuestExact
    <3>2. wanted[s] \in Nat BY GuestBounds DEF GuestInv, GuestTyped, Guest!Carts
    <3> QED BY <3>1, <3>2
  <2> QED BY <2>1 DEF Guest!NothingDoubled
<1> QED BY <1>2, <1>3, <1>4, <1>5, <1>6 DEF Guest!CartArrives

\* A step of the cart keeps what the guest has changed.
LEMMA GuestChangesKept ==
  ASSUME GuestGiven, GuestInv, NEW c \in Guest!CallIds, NEW s \in Skus, Guest!RemoveConfirmed(c),
         guest[s] # mergeCall[c].items[s]
  PROVE  guest'[s] = guest[s]
BY DEF Guest!RemoveConfirmed, Guest!Trimmed

--------------------------------
\* The suite.  A step moves one of its components.
AccountsInv ==
  /\ IInv
  /\ AgencyInv /\ AccountInv /\ ClientInv /\ GuestInv

LEMMA AccountsMoving ==
  ASSUME [AccountsNext]_accountsVars
  PROVE  /\ [Next]_vars
         /\ [Agency!Next]_Agency!vars /\ [Account!Next]_Account!vars
         /\ [Client!Next]_Client!vars /\ [Guest!Next]_Guest!vars
<1>1. CASE AgentStep
  BY <1>1 DEF AgentStep, bindingVars, customerVars, clientVars, guestVars, Agency!vars, Account!vars,
     Client!vars, Guest!vars
<1>2. CASE BindingStep
  BY <1>2 DEF BindingStep, customerVars, clientVars, guestVars, Agency!Next, Account!vars, Client!vars, Guest!vars
<1>3. CASE CustomerStep
  BY <1>3 DEF CustomerStep, bindingVars, clientVars, guestVars, Agency!vars, Client!vars, Guest!vars
<1>4. CASE ClientStep
  BY <1>4 DEF ClientStep, bindingVars, customerVars, guestVars, Agency!vars, Account!vars, Guest!vars
<1>5. CASE GuestStep
  BY <1>5 DEF GuestStep, bindingVars, customerVars, clientVars, Agency!vars, Account!vars, Client!vars
<1>6. CASE UNCHANGED accountsVars
  BY <1>6 DEF accountsVars, bindingVars, customerVars, clientVars, guestVars, Agency!vars, Account!vars,
     Client!vars, Guest!vars
<1> QED BY <1>1, <1>2, <1>3, <1>4, <1>5, <1>6 DEF AccountsNext

LEMMA AccountsGiven == AgencyGiven /\ AccountGiven /\ ClientGiven /\ GuestGiven
BY AccountsAssumption DEF AgencyGiven, AccountGiven, ClientGiven, GuestGiven

LEMMA AccountsInitially == AccountsInit => AccountsInv
<1> SUFFICES ASSUME AccountsInit PROVE AccountsInv
  OBVIOUS
<1>1. IInv BY InitIInv DEF AccountsInit
<1>2. AgencyInv /\ AccountInv /\ ClientInv /\ GuestInv
  BY AccountsGiven, AgencyInitially, AccountInitially, ClientInitially, GuestInitially DEF AccountsInit
<1> QED BY <1>1, <1>2 DEF AccountsInv

LEMMA AccountsStepwise == AccountsInv /\ [AccountsNext]_accountsVars => AccountsInv'
<1> SUFFICES ASSUME AccountsInv, [AccountsNext]_accountsVars PROVE AccountsInv'
  OBVIOUS
<1>1. IInv' BY AccountsMoving, NextIInv DEF AccountsInv
<1>2. AgencyInv' BY AccountsMoving, AccountsGiven, AgencyStepwise, AgencyStutters DEF AccountsInv
<1>3. AccountInv'  BY AccountsMoving, AccountsGiven, AccountStepwise, AccountStutters DEF AccountsInv
<1>4. ClientInv' BY AccountsMoving, AccountsGiven, ClientStepwise, ClientStutters DEF AccountsInv
<1>5. GuestInv' BY AccountsMoving, AccountsGiven, GuestStepwise, GuestStutters DEF AccountsInv
<1> QED BY <1>1, <1>2, <1>3, <1>4, <1>5 DEF AccountsInv

LEMMA AccountsInvariant == AccountsSpec => []AccountsInv
BY AccountsInitially, AccountsStepwise, PTL DEF AccountsSpec

\* A customer has one agent and one candidate to decide on, a candidate
\* that lost its code is never confirmed, and an order is settled with the
\* agent it was submitted with, for any number of agents, customers,
\* codes, candidates and bindings (BindingsAgree).
THEOREM BindingsAlwaysAgree == AccountsSpec => []BindingsAgree
<1>1. AccountsInv => BindingsAgree BY AccountsGiven, AgencyAgrees DEF AccountsInv, BindingsAgree
<1> QED BY <1>1, AccountsInvariant, PTL

\* A family of refresh tokens has one live session and ends for good, an
\* identity opens one account, who has left keeps nothing, and an address
\* book keeps its shape, for any number of identities, devices, requests,
\* accounts, sessions and addresses (AccountsAreSound).
THEOREM AccountsAlwaysSound == AccountsSpec => []AccountsAreSound
<1>1. AccountsInv => AccountsAreSound  BY AccountsGiven, AccountIsSound DEF AccountsInv, AccountsAreSound
<1> QED BY <1>1, AccountsInvariant, PTL

\* A command that took effect was seen to or is still in the journal, and
\* the app never replays its own token, for any number of customers,
\* callers, tokens, keys and restarts (ClientKeepsTrack).
THEOREM ClientAlwaysKeepsTrack == AccountsSpec => []ClientKeepsTrack
<1>1. AccountsInv => ClientKeepsTrack  BY AccountsGiven, ClientIsOnTrack DEF AccountsInv, ClientKeepsTrack
<1> QED BY <1>1, AccountsInvariant, PTL

\* What the guest wanted reaches the cart of one customer with nothing
\* lost, and once unless synchronisations overlapped or the record of a
\* pending merge lapsed, for any number of customers, SKUs, quantities,
\* keys, synchronisations, logins, restarts and lapses (CartArrives).
THEOREM CartAlwaysArrives == AccountsSpec => []CartArrives
<1>1. AccountsInv => CartArrives BY AccountsGiven, GuestArrives DEF AccountsInv, CartArrives
<1> QED BY <1>1, AccountsInvariant, PTL

\* A step that comes late finds what is in force now: candidates, codes,
\* materials, addresses, calls and the guest's changes, for all constants
\* (LateIsHarmless).
THEOREM LateIsAlwaysHarmless == AccountsSpec => LateIsHarmless
<1>1. AccountsInv /\ [AccountsNext]_accountsVars =>
        [/\ Agency!CandidateKeepsCustomer /\ Agency!UpdatesLegally /\ Agency!BindsInForce
         /\ Agency!MakesMaterialOfCurrentCode
         /\ Account!ChangesAsShown
         /\ Client!AnswersThisLogin /\ Client!KeepsLogin /\ Client!LateRefreshDoesNoHarm]_accountsVars
  <2> SUFFICES ASSUME AccountsInv, AccountsNext
               PROVE  /\ Agency!CandidateKeepsCustomer /\ Agency!UpdatesLegally /\ Agency!BindsInForce
                      /\ Agency!MakesMaterialOfCurrentCode
                      /\ Account!ChangesAsShown
                      /\ Client!AnswersThisLogin /\ Client!KeepsLogin /\ Client!LateRefreshDoesNoHarm
    OBVIOUS
  <2>1. AgencyInv /\ AccountInv /\ ClientInv BY DEF AccountsInv
  <2>2. Agency!CandidateKeepsCustomer /\ Agency!UpdatesLegally /\ Agency!BindsInForce
        /\ Agency!MakesMaterialOfCurrentCode
    <3>1. CASE Agency!Next
      <4>1. /\ Agency!CandidateKeepsCustomer /\ Agency!BindsInForce
            /\ \A k \in Agency!Candidates :
                 candidate[k].status \notin {"NONE", "ACTIVE"} => candidate'[k] = candidate[k]
        BY <2>1, <3>1, AccountsGiven, AgencyCandidatesStep
      <4>2. \A i \in Agency!Invites : invite[i].status = "ROTATED" => invite'[i] = invite[i]
        BY <2>1, <3>1, AccountsGiven, AgencyInvitesStep
      <4>3. Agency!MakesMaterialOfCurrentCode BY <2>1, <3>1, AccountsGiven, AgencyMaterialsStep
      <4> QED BY <4>1, <4>2, <4>3 DEF Agency!UpdatesLegally
    <3>2. CASE UNCHANGED Agency!vars
      BY <3>2 DEF Agency!vars, Agency!CandidateKeepsCustomer, Agency!UpdatesLegally, Agency!BindsInForce,
         Agency!MakesMaterialOfCurrentCode, Agency!ActiveOf
    <3> QED BY <3>1, <3>2, AccountsMoving
  <2>3. Account!ChangesAsShown  BY <2>1, AccountsGiven, AccountsMoving, AccountStepwise, AccountStutters
  <2>4. Client!AnswersThisLogin /\ Client!LateRefreshDoesNoHarm  BY <2>1, AccountsGiven, ClientAnswersStep
  <2>5. Client!KeepsLogin BY <2>1, AccountsGiven, AccountsMoving, ClientKeepsStep
  <2> QED BY <2>2, <2>3, <2>4, <2>5
<1>2. AccountsInv => [\A c \in Guest!CallIds, s \in Skus :
                        Guest!RemoveConfirmed(c) /\ guest[s] # mergeCall[c].items[s]
                        => guest'[s] = guest[s]]_Guest!vars
  BY AccountsGiven, GuestChangesKept DEF AccountsInv
<1>3. AccountsSpec => Guest!ChangesStay BY <1>2, AccountsInvariant, PTL DEF Guest!ChangesStay
<1> QED BY <1>1, <1>3, AccountsInvariant, PTL DEF AccountsSpec, LateIsHarmless

\* The sessions of the suite's agents are those of AgentSessions, whose
\* theorems above hold of them.
THEOREM AgentsOfAccounts == AccountsSpec => Spec
<1>1. AccountsInit => Init BY DEF AccountsInit
<1>2. [AccountsNext]_accountsVars => [Next]_vars BY AccountsMoving
<1> QED BY <1>1, <1>2, PTL DEF AccountsSpec, Spec
=============================================================================
