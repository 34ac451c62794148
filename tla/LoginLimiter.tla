---------------------------- MODULE LoginLimiter ----------------------------
(***************************************************************************)
(* How logins of agents are counted and limited (agent-auth.service.ts     *)
(* login, agent-login-rate-limiter.ts).  An attempt has an idempotency key;*)
(* the client may send it several times.  Each try takes a lease on the    *)
(* key, on the login name and on the source in Redis, looks whether one of *)
(* the two counters is full, verifies the password, counts a failure once  *)
(* for the attempt and records the outcome in the database.                *)
(*                                                                         *)
(* A Redis script and a database transaction are one action each.  Sessions*)
(* and what the account does meanwhile are in AgentSessions.               *)
(***************************************************************************)
EXTENDS Integers, FiniteSets, TLC

CONSTANTS Attempts, Tries,
          Subjects, Sources,    \* login names and addresses
          Max,                  \* loginRateLimitMax
          Nobody,
          Slow,                 \* a try may run longer than its lease lives
          MaxWindows            \* bound: how often a counter may lapse

ASSUME LoginLimiterAssumption ==
    /\ Max \in Nat \ {0} /\ MaxWindows \in Nat /\ Slow \in BOOLEAN
    /\ Nobody \notin Tries \union Attempts
    /\ Subjects \intersect Sources = {} /\ Attempts \intersect (Subjects \union Sources) = {}

Counters == Subjects \union Sources
Keys == Attempts \union Counters
Outcomes == {200, 401, 429}
\* 409: in progress elsewhere, 208: done but its session is not shown again.
Answers == Outcomes \union {208, 409, 500}

VARIABLES
    request,   \* of each attempt: login name, source, is the password right
    try,       \* of each try: its attempt, where it stands, verdict or answer
    lease,     \* the try that holds an inflight key
    count,     \* failures in the counters
    marked,    \* attempts with a marker: their failure was counted
    recorded,  \* the idempotency record of each attempt (0: none)
    counted,   \* history: how often a failure of an attempt was counted
    windows    \* bound: counters that lapsed

vars == <<request, try, lease, count, marked, recorded, counted, windows>>

Idle == [phase |-> "IDLE", attempt |-> Nobody, code |-> 0]

Init ==
    /\ request \in [Attempts -> [subject : Subjects, source : Sources, right : BOOLEAN]]
    /\ try = [t \in Tries |-> Idle]
    /\ lease = [k \in Keys |-> Nobody]
    /\ count = [k \in Counters |-> 0]
    /\ marked = {}
    /\ recorded = [a \in Attempts |-> 0]
    /\ counted = [a \in Attempts |-> 0]
    /\ windows = 0

--------------------------------
CountersOf(a) == {request[a].subject, request[a].source}

\* inflightKeys
InflightKeys(a) == {a} \union CountersOf(a)

\* CHECK_SCRIPT
Full(a) == \E k \in CountersOf(a) : count[k] >= Max

\* loginOutcome
Outcome(status) == IF status = 200 THEN 208 ELSE status

At(t, phase) == try[t].phase = phase
To(t, phase, code) ==
    try' = [try EXCEPT ![t] = [phase |-> phase, attempt |-> @.attempt, code |-> code]]
Leased(t) == try[t].phase \in {"CHECK", "VERIFY", "COMPLETE", "RELEASE"}
InFlight(t) == At(t, "CLAIM") \/ Leased(t)

\* A try arrives; what is already recorded is answered at once.
Send(t, a) ==
    /\ At(t, "IDLE")
    /\ try' = [try EXCEPT ![t] =
           IF recorded[a] # 0
             THEN [phase |-> "DONE", attempt |-> a, code |-> Outcome(recorded[a])]
             ELSE [phase |-> "CLAIM", attempt |-> a, code |-> 0]]
    /\ UNCHANGED <<request, lease, count, marked, recorded, counted, windows>>

\* CLAIM_SCRIPT: all three keys or none.
Claim(t) ==
    LET keys == InflightKeys(try[t].attempt)
        free == \A k \in keys : lease[k] = Nobody
    IN  /\ At(t, "CLAIM")
        /\ IF free THEN To(t, "CHECK", 0) ELSE To(t, "DONE", 409)
        /\ lease' = [k \in Keys |-> IF free /\ k \in keys THEN t ELSE lease[k]]
        /\ UNCHANGED <<request, count, marked, recorded, counted, windows>>

Check(t) ==
    /\ At(t, "CHECK")
    /\ IF Full(try[t].attempt) THEN To(t, "COMPLETE", 429) ELSE To(t, "VERIFY", 0)
    /\ UNCHANGED <<request, lease, count, marked, recorded, counted, windows>>

VerifyRight(t) ==
    /\ At(t, "VERIFY") /\ request[try[t].attempt].right
    /\ To(t, "COMPLETE", 200)
    /\ UNCHANGED <<request, lease, count, marked, recorded, counted, windows>>

\* SET marker NX
FirstFailure(a) == a \notin marked

\* RECORD_SCRIPT
VerifyWrong(t) ==
    LET a == try[t].attempt
        added == IF FirstFailure(a) THEN 1 ELSE 0
    IN  /\ At(t, "VERIFY") /\ ~request[a].right
        /\ marked' = marked \union {a}
        /\ count' = [k \in Counters |-> IF k \in CountersOf(a) THEN count[k] + added ELSE count[k]]
        /\ counted' = [counted EXCEPT ![a] = @ + added]
        /\ To(t, "COMPLETE", IF \E k \in CountersOf(a) : count'[k] >= Max THEN 429 ELSE 401)
        /\ UNCHANGED <<request, lease, recorded, windows>>

\* Mutant: the verdict is recorded over what another try recorded.
CompleteOver(t) ==
    /\ At(t, "COMPLETE")
    /\ recorded' = [recorded EXCEPT ![try[t].attempt] = try[t].code]
    /\ To(t, "RELEASE", try[t].code)
    /\ UNCHANGED <<request, lease, count, marked, counted, windows>>

\* completeOpaqueLoginFailure and the transactions of login: claim, then
\* replay or record.
Complete(t) ==
    LET a == try[t].attempt IN
    /\ At(t, "COMPLETE")
    /\ IF recorded[a] # 0
         THEN To(t, "RELEASE", Outcome(recorded[a])) /\ UNCHANGED recorded
         ELSE To(t, "RELEASE", try[t].code) /\ recorded' = [recorded EXCEPT ![a] = try[t].code]
    /\ UNCHANGED <<request, lease, count, marked, counted, windows>>

\* Redis or the database fails the step: an error, then finally.
Fail(t) ==
    /\ Leased(t) /\ ~At(t, "RELEASE")
    /\ To(t, "RELEASE", 500)
    /\ UNCHANGED <<request, lease, count, marked, recorded, counted, windows>>

\* Mutant: the keys are deleted whoever holds them.
ReleaseAny(t) ==
    /\ At(t, "RELEASE")
    /\ To(t, "DONE", try[t].code)
    /\ lease' = [k \in Keys |-> IF k \in InflightKeys(try[t].attempt) THEN Nobody ELSE lease[k]]
    /\ UNCHANGED <<request, count, marked, recorded, counted, windows>>

\* RELEASE_CLAIM_SCRIPT: the keys it still owns.
Release(t) ==
    /\ At(t, "RELEASE")
    /\ To(t, "DONE", try[t].code)
    /\ lease' = [k \in Keys |-> IF lease[k] = t THEN Nobody ELSE lease[k]]
    /\ UNCHANGED <<request, count, marked, recorded, counted, windows>>

\* The release fails, which is only logged.
ReleaseFails(t) ==
    /\ At(t, "RELEASE")
    /\ To(t, "DONE", try[t].code)
    /\ UNCHANGED <<request, lease, count, marked, recorded, counted, windows>>

\* The server dies; nobody is answered.
Die(t) ==
    /\ InFlight(t)
    /\ To(t, "DONE", 0)
    /\ UNCHANGED <<request, lease, count, marked, recorded, counted, windows>>

\* INFLIGHT_ATTEMPT_TTL_MILLISECONDS, the same for the keys of one script.
LeaseLapses(t) ==
    /\ \E k \in Keys : lease[k] = t
    /\ Slow \/ ~InFlight(t)
    /\ lease' = [k \in Keys |-> IF lease[k] = t THEN Nobody ELSE lease[k]]
    /\ UNCHANGED <<request, try, count, marked, recorded, counted, windows>>

\* loginRateLimitWindowSeconds after the first failure in it.
WindowEnds(k) ==
    /\ count[k] > 0 /\ windows < MaxWindows
    /\ count' = [count EXCEPT ![k] = 0]
    /\ windows' = windows + 1
    /\ UNCHANGED <<request, try, lease, marked, recorded, counted>>

Finished == (\A t \in Tries : At(t, "DONE")) /\ UNCHANGED vars

Serve(t) ==
    \/ Claim(t) \/ Check(t) \/ VerifyRight(t) \/ VerifyWrong(t) \/ Complete(t)
    \/ Release(t)

Next ==
    \/ \E t \in Tries, a \in Attempts : Send(t, a)
    \/ \E t \in Tries : Serve(t) \/ Fail(t) \/ ReleaseFails(t) \/ Die(t) \/ LeaseLapses(t)
    \/ \E k \in Counters : WindowEnds(k)
    \/ Finished

Spec == Init /\ [][Next]_vars

\* Requests are served to their end and Redis expires keys; nothing makes a
\* client send, a window end or a step fail.
FairSpec ==
    /\ Spec
    /\ \A t \in Tries : WF_vars(Serve(t)) /\ WF_vars(LeaseLapses(t))

--------------------------------
\* Tries, attempts, names and sources are alike in every safety property.
Symmetry == Permutations(Tries) \union Permutations(Attempts)
            \union Permutations(Subjects) \union Permutations(Sources)

\* Types, and that an answer is given to an attempt.
TypeOK ==
    /\ request \in [Attempts -> [subject : Subjects, source : Sources, right : BOOLEAN]]
    /\ \A t \in Tries :
           /\ try[t].phase \in {"IDLE", "CLAIM", "CHECK", "VERIFY", "COMPLETE", "RELEASE", "DONE"}
           /\ try[t].code \in Answers \union {0}
           /\ try[t].attempt \in Attempts <=> ~At(t, "IDLE")
    /\ lease \in [Keys -> Tries \union {Nobody}]
    /\ count \in [Counters -> Nat]
    /\ marked \subseteq Attempts
    /\ recorded \in [Attempts -> Outcomes \union {0}]
    /\ counted \in [Attempts -> Nat]
    /\ windows \in 0 .. MaxWindows

\* A counter never counts past the limit: the look at it and the failure
\* counted in it, two scripts, are not parted by another login of the same name
\* or source (claimAttempt).
NeverOverLimit == \A k \in Counters : count[k] <= Max

\* A session is opened only while both counters are below the limit, though
\* they were looked at before the password was verified.
OpensBelowLimit == \A a \in Attempts :
    recorded[a] = 0 /\ recorded'[a] = 200 => \A k \in CountersOf(a) : count[k] < Max
OpenedBelowLimit == [][OpensBelowLimit]_vars

\* A wrong password is answered 401 only once it counts: a login that dies may
\* have counted and not answered, never the reverse.
AnsweredIsCounted == \A a \in Attempts : recorded[a] = 401 => counted[a] > 0

\* The failure of an attempt counts once however often the client repeats it,
\* after errors, deaths and lapsed leases too (the marker of recordFailure).
CountedOnce == \A a \in Attempts : counted[a] <= 1

\* All tries of an attempt are told the same outcome, and one of them at most
\* is given a session.
AnswersAgree ==
    LET told(t) == IF try[t].phase \in {"RELEASE", "DONE"} THEN try[t].code ELSE 0 IN
    /\ \A t \in Tries : told(t) \in Outcomes \union {208} =>
           told(t) \in {recorded[try[t].attempt], Outcome(recorded[try[t].attempt])}
    /\ \A t, u \in Tries : told(t) = 200 /\ told(u) = 200 /\ try[t].attempt = try[u].attempt => t = u

\* No try takes away or overwrites the lease of another, not even one whose own
\* lease lapsed and was taken by the other (RELEASE_CLAIM_SCRIPT).
LeaseOfOwner == [][\A k \in Keys : lease[k] # Nobody /\ lease'[k] # lease[k] =>
    \A t \in Tries \ {lease[k]} : try'[t] = try[t]]_vars

\* A login that dies or cannot release its keys does not keep its account out
\* for good.
LeaseEnds == \A k \in Keys : lease[k] # Nobody ~> lease[k] = Nobody

\* Whatever servers die and leases lapse, the tries of an attempt agree on its
\* outcome, and its failure counts once, and before it is told.
AttemptsAgree == TypeOK /\ AnsweredIsCounted /\ CountedOnce /\ AnswersAgree
=============================================================================
