---------------------------- MODULE AdminSessions ----------------------------
(***************************************************************************)
(* Signing in as an administrator and staying signed in                    *)
(* (admin-auth.repository.ts, admin-auth.service.ts): a password, then a   *)
(* TOTP or a recovery code for a challenge; refresh tokens that rotate in  *)
(* families; reauthentication, the one-time grant that reveals a payout    *)
(* account, and the reset of one's own security.                           *)
(*                                                                         *)
(* One account.  A request is authenticated, or a password verified, in    *)
(* one step and acts in a later transaction: it carries the version the    *)
(* account had.  A transaction locks account, sessions, challenge and      *)
(* factor and is one action.  TOTP codes are time steps, verified before   *)
(* the transaction, so that they reach it in any order.                    *)
(***************************************************************************)
EXTENDS Integers, FiniteSets, FiniteSetsExt

CONSTANTS MaxFailures,    \* MAX_FAILED_ATTEMPTS
          \* bounds of the exploration: versions, proofs, and rows of each table
          MaxVersion, MaxStep, MaxCodes, MaxFactors, MaxChallenges, MaxSessions, MaxGrants

AdminSessionsAssumption ==
    /\ MaxFailures \in Nat \ {0} /\ MaxVersion \in Nat \ {0}
    /\ {MaxStep, MaxCodes, MaxFactors, MaxChallenges, MaxSessions, MaxGrants} \subseteq Nat

Versions == 1 .. MaxVersion
Steps == 1 .. MaxStep
Codes == MaxStep + 1 .. MaxStep + MaxCodes    \* recovery codes, apart from the steps
Factors == 1 .. MaxFactors
Challenges == 1 .. MaxChallenges
Sessions == 1 .. MaxSessions
Grants == 1 .. MaxGrants
Purposes == {"LOGIN", "ENROLL", "REAUTH", "RECOVERY"}

NoFactor == [status |-> "NONE", last |-> 0]
NoChallenge == [purpose |-> "NONE", status |-> "NONE", factor |-> 0, session |-> 0, version |-> 0]
NoSession == [status |-> "NONE", family |-> 0, factor |-> 0, first |-> 0, since |-> 0]
NoGrant == [status |-> "NONE", session |-> 0]
Free == [failed |-> 0, locked |-> FALSE]

VARIABLES
    version,    \* account.version
    factor,     \* totp_factor rows with last_used_timestep (0: null)
    unused,     \* of each factor: its recovery codes that can still be used
    limit,      \* mfa_rate_limit of each purpose
    challenge,  \* mfa_challenge rows, with the version their token was made for
    session,    \* auth_session rows; history: versions it was authenticated at
    grant,      \* admin_reauth_grant rows
    approved,   \* the withdrawal to be paid out is APPROVED
    uses        \* history: how often each TOTP and recovery code was accepted

vars == <<version, factor, unused, limit, challenge, session, grant, approved, uses>>

Init ==
    /\ version = 1
    /\ factor = [f \in Factors |-> NoFactor]
    /\ unused = [f \in Factors |-> {}]
    /\ limit = [p \in Purposes |-> Free]
    /\ challenge = [k \in Challenges |-> NoChallenge]
    /\ session = [s \in Sessions |-> NoSession]
    /\ grant = [g \in Grants |-> NoGrant]
    /\ approved = TRUE
    /\ uses = [f \in Factors |-> [p \in Steps \union Codes |-> 0]]

--------------------------------
FreeRows(table, none) == {r \in DOMAIN table : table[r] = none}
ActiveFactors == {f \in Factors : factor[f].status = "ACTIVE"}

\* requireAdminVersion
Fresh(v) == v = version

Available(p) == ~limit[p].locked
\* requireCurrentMfaSession, for a request that session s was good for once.
Authenticated(s, v) == session[s].status # "NONE" /\ v \in session[s].first .. session[s].since
Current(s, v) == Authenticated(s, v) /\ Fresh(v) /\ session[s].status = "LIVE"

\* Mutant: the time step of the last code is accepted once more.
AcceptsAgain(f, p) == p \in Steps /\ factor[f].last <= p

\* A TOTP code later than the last one, or a recovery code of the factor.
Accepts(f, p) == IF p \in Steps THEN factor[f].last < p ELSE p \in unused[f]

\* Accepting it, in a transaction that leaves the factor and its codes alone.
Accept(f, p) ==
    /\ factor' = IF p \in Steps THEN [factor EXCEPT ![f].last = p] ELSE factor
    /\ unused' = [unused EXCEPT ![f] = @ \ {p}]
    /\ uses' = [uses EXCEPT ![f][p] = @ + 1]

Unlocked(ps) == [p \in Purposes |-> IF p \in ps THEN Free ELSE limit[p]]

\* A session in a family of its own, by the password of version v.
Opened(f, v) == LET s == Min(FreeRows(session, NoSession)) IN
    [session EXCEPT ![s] = [status |-> "LIVE", family |-> s, factor |-> f,
                            first |-> version, since |-> v]]
CanOpen == FreeRows(session, NoSession) # {}

Unrevoked(s) == session[s].status \in {"LIVE", "LAPSED"}
Revoked(ss) == [s \in Sessions |->
    IF s \in ss /\ Unrevoked(s) THEN [session[s] EXCEPT !.status = "REVOKED"] ELSE session[s]]
Family(s) == {o \in Sessions : session[o].family = session[s].family}

\* The challenges that are Which lose their use.
Settled(Which(_), status) == [k \in Challenges |->
    IF Which(challenge[k]) THEN [challenge[k] EXCEPT !.status = status] ELSE challenge[k]]
Pending(c, p) == c.purpose = p /\ c.status = "PENDING"

\* Challenge c takes the place of the pending ones that are Stale.
Issued(c, Stale(_)) ==
    [Settled(Stale, "EXPIRED") EXCEPT ![Min(FreeRows(challenge, NoChallenge))] = c]
CanIssue == FreeRows(challenge, NoChallenge) # {}

--------------------------------
\* recordAuthenticationFailureInTransaction, for challenge k or none (0).
Fail(p, k) ==
    LET failed == limit[p].failed + 1 IN
    /\ Available(p)
    /\ limit' = [limit EXCEPT ![p] = [failed |-> failed, locked |-> failed >= MaxFailures]]
    /\ challenge' = IF failed >= MaxFailures THEN Settled(LAMBDA c : Pending(c, p), "LOCKED") ELSE challenge
    /\ UNCHANGED <<version, factor, unused, session, grant, approved, uses>>

WrongPassword(v) == Fresh(v) /\ Fail("LOGIN", 0)

WrongCode(k) ==
    /\ challenge[k].status = "PENDING"
    /\ IF challenge[k].purpose = "REAUTH"
       THEN \E v \in Versions : Current(challenge[k].session, v)
       ELSE Fresh(challenge[k].version)
    /\ Fail(challenge[k].purpose, k)

\* A wrong code for a payout, or to rotate recovery codes or reset security.
WrongProof(s, v, p) == Current(s, v) /\ (p = "REAUTH" => approved) /\ Fail(p, 0)

LockLapses(p) ==
    /\ limit[p].locked
    /\ limit' = [limit EXCEPT ![p] = Free]
    /\ UNCHANGED <<version, factor, unused, challenge, session, grant, approved, uses>>

--------------------------------
\* Enrolment and login, after the password was verified at version v.

CreateEnrollment(v) ==
    LET stale == {f \in Factors : factor[f].status = "PENDING"}
        f == Min(FreeRows(factor, NoFactor))
    IN
    /\ Fresh(v) /\ Available("ENROLL") /\ Available("LOGIN") /\ ActiveFactors = {}
    /\ CanIssue /\ FreeRows(factor, NoFactor) # {}
    /\ factor' = [g \in Factors |-> IF g = f THEN [status |-> "PENDING", last |-> 0]
                     ELSE IF g \in stale THEN [factor[g] EXCEPT !.status = "REVOKED"] ELSE factor[g]]
    /\ challenge' = Issued([purpose |-> "ENROLL", status |-> "PENDING", factor |-> f,
                            session |-> 0, version |-> v],
                           LAMBDA c : c.factor \in stale /\ c.status = "PENDING")
    /\ UNCHANGED <<version, unused, limit, session, grant, approved, uses>>

CompleteEnrollment(k, t, code) ==
    LET f == challenge[k].factor IN
    /\ Pending(challenge[k], "ENROLL") /\ Fresh(challenge[k].version)
    /\ Available("ENROLL") /\ Available("LOGIN") /\ CanOpen
    /\ factor[f].status = "PENDING" /\ factor[f].last < t
    /\ factor' = [factor EXCEPT ![f] = [status |-> "ACTIVE", last |-> t]]
    /\ unused' = [unused EXCEPT ![f] = {code}]
    /\ uses' = [uses EXCEPT ![f][t] = @ + 1]
    /\ session' = Opened(f, challenge[k].version)
    /\ challenge' = [challenge EXCEPT ![k].status = "CONSUMED"]
    /\ limit' = Unlocked({"ENROLL", "LOGIN"})
    /\ UNCHANGED <<version, grant, approved>>

CreateLoginChallenge(v) ==
    /\ Fresh(v) /\ Available("LOGIN") /\ CanIssue
    /\ \E f \in ActiveFactors :
          challenge' = Issued([purpose |-> "LOGIN", status |-> "PENDING", factor |-> f,
                               session |-> 0, version |-> v],
                              LAMBDA c : Pending(c, "LOGIN"))
    /\ UNCHANGED <<version, factor, unused, limit, session, grant, approved, uses>>

CompleteLogin(k, t) ==
    LET f == challenge[k].factor IN
    /\ Pending(challenge[k], "LOGIN") /\ Fresh(challenge[k].version)
    /\ Available("LOGIN") /\ CanOpen
    /\ factor[f].status = "ACTIVE" /\ Accepts(f, t) /\ Accept(f, t)
    /\ session' = Opened(f, challenge[k].version)
    /\ challenge' = [challenge EXCEPT ![k].status = "CONSUMED"]
    /\ limit' = Unlocked({"LOGIN"})
    /\ UNCHANGED <<version, grant, approved>>

\* A recovery code in place of the TOTP.
CompleteLoginRecovery(k, code) == CompleteLogin(k, code)

--------------------------------
\* Sessions.

\* rotateRefreshInTransaction: a token that was revoked ends its family.
Refresh(s) ==
    /\ session[s].status # "NONE"
    /\ IF session[s].status = "LIVE" /\ factor[session[s].factor].status = "ACTIVE"
       THEN /\ CanOpen
            /\ session' = [Revoked({s}) EXCEPT ![Min(FreeRows(session, NoSession))] =
                  [session[s] EXCEPT !.first = session[s].since]]
       ELSE session' = Revoked(Family(s))
    /\ UNCHANGED <<version, factor, unused, limit, challenge, grant, approved, uses>>

Logout(s) ==
    /\ session[s].status # "NONE"
    /\ session' = Revoked(Family(s))
    /\ UNCHANGED <<version, factor, unused, limit, challenge, grant, approved, uses>>

LogoutAll(s, v) ==
    /\ Authenticated(s, v) /\ Fresh(v) /\ version < MaxVersion
    /\ session' = Revoked(Sessions)
    /\ version' = version + 1
    /\ UNCHANGED <<factor, unused, limit, challenge, grant, approved, uses>>

ChangePassword(s, v) ==
    /\ Current(s, v) /\ factor[session[s].factor].status = "ACTIVE"
    /\ version < MaxVersion
    /\ session' = [Revoked(Sessions \ {s}) EXCEPT ![s].since = version + 1]
    /\ version' = version + 1
    /\ UNCHANGED <<factor, unused, limit, challenge, grant, approved, uses>>

SessionLapses(s) ==
    /\ session[s].status = "LIVE"
    /\ session' = [session EXCEPT ![s].status = "LAPSED"]
    /\ UNCHANGED <<version, factor, unused, limit, challenge, grant, approved, uses>>

ChallengeLapses(k) ==
    /\ challenge[k].status = "PENDING"
    /\ challenge' = [challenge EXCEPT ![k].status = "EXPIRED"]
    /\ UNCHANGED <<version, factor, unused, limit, session, grant, approved, uses>>

--------------------------------
\* Reauthentication.

CreateReauthChallenge(s, v) ==
    /\ Current(s, v) /\ Available("REAUTH") /\ CanIssue
    /\ factor[session[s].factor].status = "ACTIVE"
    /\ challenge' = Issued([purpose |-> "REAUTH", status |-> "PENDING",
                            factor |-> session[s].factor, session |-> s, version |-> v],
                           LAMBDA c : Pending(c, "REAUTH") /\ c.session = s)
    /\ UNCHANGED <<version, factor, unused, limit, session, grant, approved, uses>>

CompleteReauthChallenge(k, t, v) ==
    LET f == challenge[k].factor IN
    /\ Pending(challenge[k], "REAUTH") /\ Current(challenge[k].session, v)
    /\ Available("REAUTH") /\ factor[f].status = "ACTIVE" /\ Accepts(f, t) /\ Accept(f, t)
    /\ challenge' = [challenge EXCEPT ![k].status = "VERIFIED"]
    /\ limit' = Unlocked({"REAUTH"})
    /\ UNCHANGED <<version, session, grant, approved>>

CreatePayoutGrant(s, v, t) ==
    LET f == session[s].factor IN
    /\ Current(s, v) /\ Available("REAUTH") /\ approved
    /\ factor[f].status = "ACTIVE" /\ Accepts(f, t) /\ Accept(f, t)
    /\ FreeRows(grant, NoGrant) # {}
    /\ grant' = [grant EXCEPT ![Min(FreeRows(grant, NoGrant))] = [status |-> "ACTIVE", session |-> s]]
    /\ limit' = Unlocked({"REAUTH"})
    /\ UNCHANGED <<version, challenge, session, approved>>

\* By a request of session s that may have been authenticated at any time.
ConsumePayoutGrant(g, s) ==
    /\ session[s].status = "LIVE"
    /\ grant[g] = [status |-> "ACTIVE", session |-> s] /\ approved
    /\ grant' = [grant EXCEPT ![g].status = "CONSUMED"]
    /\ UNCHANGED <<version, factor, unused, limit, challenge, session, approved, uses>>

GrantLapses(g) ==
    /\ grant[g].status = "ACTIVE"
    /\ grant' = [grant EXCEPT ![g].status = "EXPIRED"]
    /\ UNCHANGED <<version, factor, unused, limit, challenge, session, approved, uses>>

WithdrawalPaid ==
    /\ approved
    /\ approved' = FALSE
    /\ UNCHANGED <<version, factor, unused, limit, challenge, session, grant, uses>>

--------------------------------
\* Recovery codes and the reset of one's own security.

RotateRecoveryCodes(s, v, t, code) ==
    LET f == session[s].factor IN
    /\ Current(s, v) /\ Available("RECOVERY") /\ factor[f].status = "ACTIVE" /\ factor[f].last < t
    /\ factor' = [factor EXCEPT ![f].last = t]
    /\ uses' = [uses EXCEPT ![f][t] = @ + 1]
    /\ unused' = [unused EXCEPT ![f] = {code}]
    /\ limit' = Unlocked({"RECOVERY"})
    /\ UNCHANGED <<version, challenge, session, grant, approved>>

ResetEnds(s) == Sessions

\* resetSecurityInTransaction, of the password alone or with the TOTP factor.
ResetSecurity(s, v, p, totp) ==
    LET f == session[s].factor IN
    /\ Current(s, v) /\ Available("RECOVERY")
    /\ factor[f].status = "ACTIVE" /\ Accepts(f, p) /\ version < MaxVersion
    /\ uses' = [uses EXCEPT ![f][p] = @ + 1]
    /\ factor' = [g \in Factors |->
          [status |-> IF totp /\ factor[g].status \in {"ACTIVE", "PENDING"}
                      THEN "REVOKED" ELSE factor[g].status,
           last |-> IF g = f /\ p \in Steps THEN p ELSE factor[g].last]]
    /\ unused' = [g \in Factors |-> IF totp THEN {} ELSE unused[g] \ {p}]
    /\ session' = Revoked(ResetEnds(s))
    /\ challenge' = Settled(LAMBDA c : c.status \in {"PENDING", "LOCKED", "VERIFIED"}, "EXPIRED")
    /\ grant' = [g \in Grants |-> IF grant[g].status = "ACTIVE"
                    THEN [grant[g] EXCEPT !.status = "REVOKED"] ELSE grant[g]]
    /\ limit' = Unlocked({"RECOVERY"})
    /\ version' = version + 1
    /\ UNCHANGED approved

\* Codes that were never printed.
NewCodes == {c \in Codes : \A f \in Factors : c \notin unused[f] /\ uses[f][c] = 0}

\* Proving who one is, until a session is opened; everything lapses.
SignIn ==
    \/ \E v \in 1 .. version : WrongPassword(v) \/ CreateEnrollment(v) \/ CreateLoginChallenge(v)
    \/ \E k \in Challenges :
          \/ WrongCode(k) \/ ChallengeLapses(k)
          \/ \E t \in Steps :
                \/ CompleteLogin(k, t)
                \/ \E code \in NewCodes : CompleteEnrollment(k, t, code)
    \/ \E p \in Purposes : LockLapses(p)
    \/ \E s \in Sessions : SessionLapses(s)

Recover ==
    \/ \E k \in Challenges, code \in Codes : CompleteLoginRecovery(k, code)
    \/ \E s \in Sessions, v \in Versions, t \in Steps, code \in NewCodes :
          RotateRecoveryCodes(s, v, t, code)

Leave == \E s \in Sessions : Refresh(s) \/ Logout(s) \/ \E v \in Versions : LogoutAll(s, v)

Change == \E s \in Sessions, v \in Versions : ChangePassword(s, v)

Reset == \E s \in Sessions, v \in Versions :
    \/ WrongProof(s, v, "RECOVERY")
    \/ \E p \in Steps \union Codes, totp \in BOOLEAN : ResetSecurity(s, v, p, totp)

Reauthenticate == \E v \in Versions :
    \/ \E s \in Sessions : CreateReauthChallenge(s, v)
    \/ \E k \in Challenges, t \in Steps : CompleteReauthChallenge(k, t, v)

Payout ==
    \/ \E s \in Sessions, v \in Versions :
          WrongProof(s, v, "REAUTH") \/ \E t \in Steps : CreatePayoutGrant(s, v, t)
    \/ \E g \in Grants : GrantLapses(g) \/ \E s \in Sessions : ConsumePayoutGrant(g, s)
    \/ WithdrawalPaid

Next == SignIn \/ Recover \/ Leave \/ Change \/ Reset \/ Reauthenticate \/ Payout

Spec == Init /\ [][Next]_vars

--------------------------------
\* Types; a purpose is locked exactly from the last failure that is allowed.
TypeOK ==
    /\ version \in Versions
    /\ factor \in [Factors -> [status: {"NONE", "PENDING", "ACTIVE", "REVOKED"}, last: 0 .. MaxStep]]
    /\ unused \in [Factors -> SUBSET Codes]
    /\ limit \in [Purposes -> [failed: 0 .. MaxFailures - 1, locked: {FALSE}]
                              \union [failed: {MaxFailures}, locked: {TRUE}]]
    /\ challenge \in [Challenges -> [purpose: Purposes \union {"NONE"}, factor: 0 .. MaxFactors,
          session: 0 .. MaxSessions, version: 0 .. MaxVersion,
          status: {"NONE", "PENDING", "VERIFIED", "CONSUMED", "EXPIRED", "LOCKED"}]]
    /\ session \in [Sessions -> [status: {"NONE", "LIVE", "LAPSED", "REVOKED"}, factor: 0 .. MaxFactors,
          family: 0 .. MaxSessions, first: 0 .. MaxVersion, since: 0 .. MaxVersion]]
    /\ grant \in [Grants -> [status: {"NONE", "ACTIVE", "CONSUMED", "EXPIRED", "REVOKED"},
                             session: 0 .. MaxSessions]]
    /\ approved \in BOOLEAN

\* A session that can still be used was opened after the last change of
\* password, reset or logout everywhere, or is the one that made it: no
\* login, refresh or challenge that was under way at the time survives.
LiveSessionsOfToday == \A s \in Sessions : Unrevoked(s) => session[s].since = version

\* A TOTP code is accepted once for its factor, and a recovery code once,
\* whichever of login, reauthentication, payout, rotation and reset it is
\* presented to, and however late.
ProofUsedOnce == \A f \in Factors : \A p \in Steps \union Codes : uses[f][p] <= 1

\* While a purpose is locked none of its challenges can be answered, so
\* that a lock is not waited out on a challenge that was issued before.
LockedMeansNoChallenge == \A k \in Challenges :
    challenge[k].status = "PENDING" => ~limit[challenge[k].purpose].locked

\* The account has one active factor, and every session that is not
\* revoked was verified with it (uq_totp_factor_one_active_per_account and
\* enforce_auth_session_assurance never refuse).
SessionsOfActiveFactor ==
    /\ Cardinality(ActiveFactors) <= 1
    /\ \A s \in Sessions : Unrevoked(s) => factor[session[s].factor].status = "ACTIVE"

\* A family has one session at a time.
OneSessionOfFamily == \A s, o \in Sessions :
    Unrevoked(s) /\ Unrevoked(o) /\ session[s].family = session[o].family => s = o

\* A family that was ended, by logout or because a refresh token was used
\* twice, never has a session again.
KeepsFamilyEnded ==
    \A s \in Sessions :
        session[s].status # "NONE" /\ (\A o \in Family(s) : ~Unrevoked(o))
        => \A o \in Sessions : session'[o].family = session[s].family => session'[o].status = "REVOKED"
EndedFamilyStaysEnded == [][KeepsFamilyEnded]_vars

\* A payout account is revealed only to the session that reauthenticated
\* for it, while that session belongs to the account as it is now and the
\* withdrawal is still to be paid.
RevealsToTheAsker ==
    \A g \in Grants :
        grant[g].status # "CONSUMED" /\ grant'[g].status = "CONSUMED"
        => /\ \E s \in Sessions : grant[g].session = s /\ session[s].status = "LIVE"
                                  /\ session[s].since = version
           /\ approved

\* Only the latest recovery codes of a factor work, and none after a
\* reset: the codes of a factor are never more than one print of them.
OnePrintOfCodes == \A f \in Factors :
    Cardinality(unused[f]) <= 1 /\ (factor[f].status = "REVOKED" => unused[f] = {})

\* What an administrator can sign in and act with is what the account
\* allows now.
SignInsAreSound ==
    /\ TypeOK
    /\ LiveSessionsOfToday /\ ProofUsedOnce /\ LockedMeansNoChallenge
    /\ SessionsOfActiveFactor /\ OneSessionOfFamily /\ OnePrintOfCodes
=============================================================================
