--------------------------- MODULE OfflineRecovery ---------------------------
(***************************************************************************)
(* How administrators give back access to one of them who lost password or *)
(* factor: one requests, two others approve, somebody executes             *)
(* (runOfflineRecoveryInTransaction, called by a command line tool).  Each *)
(* command is one transaction: it first closes a recovery that was         *)
(* overtaken, and commits that even when the command itself is refused.    *)
(* The operator's own proof is AdminSessions' business, except that it     *)
(* names the version the operator's account had.                           *)
(***************************************************************************)
EXTENDS Integers, FiniteSets, FiniteSetsExt

CONSTANTS Admins,
          \* bounds of the exploration: versions of an account, recoveries,
          \* and how many administrators may be inactive at a time
          MaxVersion, MaxRecoveries, MaxInactive

OfflineRecoveryAssumption ==
    /\ IsFiniteSet(Admins)
    /\ MaxVersion \in Nat \ {0} /\ MaxRecoveries \in Nat /\ MaxInactive \in Nat

Recoveries == 1 .. MaxRecoveries
Closed == {"REJECTED", "EXPIRED", "EXECUTED"}
NoRecovery == [status |-> "NONE", target |-> {}, by |-> {}, frozen |-> 0,
               for |-> {}, against |-> {}, late |-> FALSE]

VARIABLES
    version,   \* account.version of each administrator
    active,    \* administrators whose account is ACTIVE
    recovery   \* admin_offline_recovery rows with their approvals

vars == <<version, active, recovery>>

Init ==
    /\ version = [a \in Admins |-> 1]
    /\ active = Admins
    /\ recovery = [r \in Recoveries |-> NoRecovery]

--------------------------------
Open(r) == recovery[r].status \in {"PENDING_APPROVAL", "APPROVED"}

\* Too old, the target changed or left, or an approver is no longer one.
Overtaken(r) ==
    \/ recovery[r].late
    \/ \E t \in recovery[r].target : t \notin active \/ version[t] # recovery[r].frozen
    \/ ~ recovery[r].for \subseteq active

Became(r, status) == [recovery EXCEPT ![r].status = status]

\* The operator's proof was checked against version v of its account.
Operates(o, v) == o \in active /\ v = version[o]

\* Mutant: the requester may be one of the two.
MayDecideBoth(o, r) == o \notin recovery[r].target

MayDecide(o, r) == o \notin recovery[r].target \union recovery[r].by

\* A command that finds recovery r overtaken only closes it.
Close(o, v, r) ==
    /\ Operates(o, v) /\ o \notin recovery[r].target /\ Open(r) /\ Overtaken(r)
    /\ recovery' = Became(r, "EXPIRED")
    /\ UNCHANGED <<version, active>>

Request(o, v, t) ==
    LET free == {r \in Recoveries : recovery[r] = NoRecovery}
        open == {r \in Recoveries : Open(r) /\ recovery[r].target = {t}}
    IN
    /\ Operates(o, v) /\ o # t /\ t \in active /\ free # {}
    /\ \A r \in open : Overtaken(r)
    /\ recovery' = [r \in Recoveries |->
          IF r = Min(free) THEN [NoRecovery EXCEPT !.status = "PENDING_APPROVAL",
                                    !.target = {t}, !.by = {o}, !.frozen = version[t]]
          ELSE IF r \in open THEN [recovery[r] EXCEPT !.status = "EXPIRED"]
          ELSE recovery[r]]
    /\ UNCHANGED <<version, active>>

Approve(o, v, r) ==
    /\ Operates(o, v) /\ MayDecide(o, r) /\ Open(r) /\ ~Overtaken(r)
    /\ o \notin recovery[r].for \union recovery[r].against
    /\ recovery[r].status = "PENDING_APPROVAL"
    /\ recovery' = [recovery EXCEPT
          ![r].for = @ \union {o},
          ![r].status = IF Cardinality(recovery[r].for) + 1 >= 2 THEN "APPROVED" ELSE @]
    /\ UNCHANGED <<version, active>>

Reject(o, v, r) ==
    /\ Operates(o, v) /\ MayDecide(o, r) /\ Open(r) /\ ~Overtaken(r)
    /\ o \notin recovery[r].for \union recovery[r].against
    /\ recovery' = [recovery EXCEPT ![r].against = @ \union {o}, ![r].status = "REJECTED"]
    /\ UNCHANGED <<version, active>>

\* New password, no factor, no session: the account starts a new version.
Execute(o, v, r) ==
    /\ Operates(o, v) /\ o \notin recovery[r].target /\ Open(r) /\ ~Overtaken(r)
    /\ recovery[r].status = "APPROVED" /\ Cardinality(recovery[r].for) >= 2
    /\ recovery' = Became(r, "EXECUTED")
    /\ version' = [a \in Admins |-> IF a \in recovery[r].target THEN version[a] + 1 ELSE version[a]]
    /\ UNCHANGED active

\* An administrator changes its password, resets its security or logs out
\* everywhere (AdminSessions).
ChangeOwn(a) ==
    /\ version[a] < MaxVersion
    /\ version' = [version EXCEPT ![a] = @ + 1]
    /\ UNCHANGED <<active, recovery>>

TimePasses(r) ==
    /\ Open(r) /\ ~recovery[r].late
    /\ recovery' = [recovery EXCEPT ![r].late = TRUE]
    /\ UNCHANGED <<version, active>>

\* Accounts are disabled and enabled outside this protocol.
ChangeStatus(a) ==
    /\ active' = IF a \in active THEN active \ {a} ELSE active \union {a}
    /\ Cardinality(Admins \ active') <= MaxInactive
    /\ UNCHANGED <<version, recovery>>

Next ==
    \/ \E o \in Admins, v \in 1 .. MaxVersion + 1 :
          \/ \E t \in Admins : Request(o, v, t)
          \/ \E r \in Recoveries :
                Close(o, v, r) \/ Approve(o, v, r) \/ Reject(o, v, r) \/ Execute(o, v, r)
    \/ \E a \in Admins : ChangeOwn(a) \/ ChangeStatus(a)
    \/ \E r \in Recoveries : TimePasses(r)

Spec == Init /\ [][Next]_vars

--------------------------------
\* Types.
TypeOK ==
    /\ version \in [Admins -> 1 .. MaxVersion + MaxRecoveries]
    /\ active \subseteq Admins
    /\ recovery \in [Recoveries -> [
          status: {"NONE", "PENDING_APPROVAL", "APPROVED"} \union Closed,
          target: SUBSET Admins, by: SUBSET Admins, frozen: 0 .. MaxVersion + MaxRecoveries,
          for: SUBSET Admins, against: SUBSET Admins, late: BOOLEAN]]

\* Nobody's credentials are replaced unless two administrators, neither
\* the target nor the requester and both still active, approved, and
\* nobody rejected; the executor is not the target.
ExecutesByTwoOthers ==
    \A r \in Recoveries :
        recovery[r].status # "EXECUTED" /\ recovery'[r].status = "EXECUTED"
        => LET others == active \ (recovery[r].target \union recovery[r].by) IN
           /\ Cardinality(recovery[r].for \intersect others) >= 2
           /\ recovery[r].against = {}

\* A target that signs in and changes anything stops its own recovery: the
\* account that is replaced is the one that the request was about.
ExecutesUnstopped ==
    \A r \in Recoveries :
        recovery[r].status # "EXECUTED" /\ recovery'[r].status = "EXECUTED"
        => \A t \in recovery[r].target : version[t] = recovery[r].frozen /\ t \in active

\* An administrator is the target of one open recovery at a time
\* (uq_offline_recovery_one_active_per_target never refuses).
OneOpenPerTarget == \A r, q \in Recoveries :
    Open(r) /\ Open(q) /\ recovery[r].target = recovery[q].target => r = q

\* The triggers of the database never refuse: a recovery is approved with
\* two approvals and no rejection, and what is closed stays as it is
\* (enforce_offline_recovery_approval, enforce_offline_recovery_state).
MovesLegally ==
    \A r \in Recoveries :
        /\ recovery[r].status \in Closed => recovery'[r] = recovery[r]
        /\ recovery[r].status # "APPROVED" /\ recovery'[r].status = "APPROVED"
           => Cardinality(recovery'[r].for) >= 2 /\ recovery'[r].against = {}
        /\ recovery'[r].for # recovery[r].for => Open(r) /\ ~recovery[r].late

\* Recoveries are executed by those who may, on the account they name.
RecoversRightly == ExecutesByTwoOthers /\ ExecutesUnstopped /\ MovesLegally
=============================================================================
