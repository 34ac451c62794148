---------------------------- MODULE TimeoutWorker ----------------------------
(***************************************************************************)
(* The polling loop of OrderTimeoutService over many orders.  A poll       *)
(* reconciles a batch (each with a call to the provider), reports damaged  *)
(* orders by pages, and closes orders without a payment intent.  Every     *)
(* query takes the orders by when they expire, so what this module asks is *)
(* whether the first ones can keep the others waiting.  What closing one   *)
(* order means is the business of StoreOrders.                             *)
(*                                                                         *)
(* Orders are numbered in order of expiry.  A unit of time is one call     *)
(* that the provider does not answer; the sleep between two polls takes at *)
(* most one.                                                               *)
(***************************************************************************)
EXTENDS Integers, FiniteSets, FiniteSetsExt

CONSTANTS Silent,     \* orders with an intent the provider never answers for
          Answering,  \* orders with an intent it answers for
          Plain,      \* orders without an intent
          Damaged,    \* orders whose items and reservation disagree
          Batch,      \* config.worker.batchSize, also of a page
          Delay,      \* ORDER_CLOSE_RECONCILE_DELAY_MS
          \* bounds of the exploration
          MaxFailures, MaxRestarts

Orders == UNION {Silent, Answering, Plain, Damaged}

TimeoutWorkerAssumption ==
    /\ Orders = 1 .. Max(Orders)
    /\ {Batch, Delay} \subseteq Nat \ {0}
    /\ {MaxFailures, MaxRestarts} \subseteq Nat

VARIABLES
    open,      \* orders in PENDING_PAYMENT
    pending,   \* of these, those whose intent is CLOSE_PENDING
    due,       \* how many orders have expired
    wait,      \* time until next_reconcile_at; 0 also when there is none
    phase,     \* where the poll is
    done,      \* processed in the loop of this phase
    calling,   \* the order claimed for a provider call, 0 when none
    cursor,    \* integrityCursor, 0 when undefined
    found,     \* integrityCycleIssueKeys
    known,     \* reportedIntegrityIssueKeys
    said,      \* how often this process has reported each order
    failures, restarts

scan == <<cursor, found, known, said>>
vars == <<open, pending, due, wait, phase, done, calling, scan, failures, restarts>>

Init ==
    /\ open = Orders /\ pending = {}
    /\ due = 0
    /\ wait = [o \in Orders |-> 0]
    /\ phase = "reconcile" /\ done = 0 /\ calling = 0
    /\ cursor = 0 /\ found = {} /\ known = {}
    /\ said = [o \in Orders |-> 0]
    /\ failures = 0 /\ restarts = 0

Expire ==
    /\ due < Max(Orders)
    /\ due' = due + 1
    /\ UNCHANGED <<open, pending, wait, phase, done, calling, scan, failures, restarts>>

Later(w) == [o \in Orders |-> Max({0, w[o] - 1})]

--------------------------------
\* reconcileBatch

Reconcilable == {o \in open \ Damaged : o <= due /\ wait[o] = 0}

\* The claim of an order without an intent closes it at once.
ClaimPlain ==
    /\ phase = "reconcile" /\ calling = 0 /\ done < Batch
    /\ Reconcilable # {}
    /\ LET o == Min(Reconcilable) IN
          /\ o \in Plain
          /\ open' = open \ {o}
    /\ done' = done + 1
    /\ UNCHANGED <<pending, due, wait, phase, calling, scan, failures, restarts>>

\* The first claim makes the intent CLOSE_PENDING and postpones it; a later
\* one (PENDING) leaves next_reconcile_at, which has come.
Claim ==
    /\ phase = "reconcile" /\ calling = 0 /\ done < Batch
    /\ Reconcilable # {}
    /\ LET o == Min(Reconcilable) IN
          /\ o \notin Plain
          /\ calling' = o
          /\ pending' = pending \union {o}
          /\ wait' = IF o \in pending THEN wait ELSE [wait EXCEPT ![o] = Delay]
    /\ UNCHANGED <<open, due, phase, done, scan, failures, restarts>>

\* Mutant: what the provider leaves open stays due.
StaysDue(w, o) == w

\* UNKNOWN: finalizeOrderCloseInTransaction postpones the intent.
Postponed(w, o) == [w EXCEPT ![o] = Delay]

\* The provider is silent until the timeout.
CallUnanswered ==
    /\ calling \in Silent
    /\ wait' = Postponed(Later(wait), calling)
    /\ calling' = 0
    /\ done' = done + 1
    /\ UNCHANGED <<open, pending, due, phase, scan, failures, restarts>>

CallAnswered ==
    /\ calling \in Answering
    /\ open' = open \ {calling}
    /\ calling' = 0
    /\ done' = done + 1
    /\ UNCHANGED <<pending, due, wait, phase, scan, failures, restarts>>

\* The finalization is refused (a customer was faster, the database is away).
FinalizeFails ==
    /\ calling # 0
    /\ failures < MaxFailures
    /\ failures' = failures + 1
    /\ calling' = 0
    /\ done' = done + 1
    /\ UNCHANGED <<open, pending, due, wait, phase, scan, restarts>>

ReconcileEnds ==
    /\ phase = "reconcile" /\ calling = 0
    /\ done = Batch \/ Reconcilable = {}
    /\ phase' = "report" /\ done' = 0
    /\ UNCHANGED <<open, pending, due, wait, calling, scan, failures, restarts>>

\* A claim that fails ends the batch.
ClaimFails ==
    /\ phase = "reconcile" /\ calling = 0 /\ done < Batch
    /\ failures < MaxFailures
    /\ failures' = failures + 1
    /\ phase' = "report" /\ done' = 0
    /\ UNCHANGED <<open, pending, due, wait, calling, scan, restarts>>

--------------------------------
\* reportIntegrityIssues

Candidates == {o \in open : o <= due /\ o > cursor}

Page == {o \in Candidates : Cardinality({q \in Candidates : q < o}) < Batch}

\* What the next cycle need not report again.
KnownAfter == found \union (Page \intersect Damaged)

\* Healthy orders move the cursor too; the cycle ends with the last page.
Report ==
    /\ phase = "report"
    /\ LET issues == Page \intersect Damaged
           more == Cardinality(Candidates) > Batch
       IN /\ said' = [o \in Orders |-> IF o \in issues \ known THEN said[o] + 1 ELSE said[o]]
          /\ cursor' = IF more THEN Max(Page) ELSE 0
          /\ found' = IF more THEN found \union issues ELSE {}
          /\ known' = IF more THEN known ELSE KnownAfter
    /\ phase' = "expire" /\ done' = 0
    /\ UNCHANGED <<open, pending, due, wait, calling, failures, restarts>>

ReportFails ==
    /\ phase = "report"
    /\ failures < MaxFailures
    /\ failures' = failures + 1
    /\ phase' = "expire" /\ done' = 0
    /\ UNCHANGED <<open, pending, due, wait, calling, scan, restarts>>

--------------------------------
\* expireBatch

Expired == {o \in open \intersect Plain : o <= due}

ExpireNext ==
    /\ phase = "expire" /\ done < Batch
    /\ Expired # {}
    /\ open' = open \ {Min(Expired)}
    /\ done' = done + 1
    /\ UNCHANGED <<pending, due, wait, phase, calling, scan, failures, restarts>>

\* The poll ends and the next one is scheduled.
Sleep(w) ==
    /\ phase = "expire"
    /\ done = Batch \/ Expired = {}
    /\ wait' = w
    /\ phase' = "reconcile" /\ done' = 0
    /\ UNCHANGED <<open, pending, due, calling, scan, failures, restarts>>

\* The process ends anywhere and another one starts with an empty memory.
Restart ==
    /\ restarts < MaxRestarts
    /\ restarts' = restarts + 1
    /\ phase' = "reconcile" /\ done' = 0 /\ calling' = 0
    /\ cursor' = 0 /\ found' = {} /\ known' = {}
    /\ said' = [o \in Orders |-> 0]
    /\ UNCHANGED <<open, pending, due, wait, failures>>

Worker ==
    \/ ClaimPlain \/ Claim
    \/ CallUnanswered \/ CallAnswered \/ ReconcileEnds
    \/ Report \/ ExpireNext \/ Sleep(wait) \/ Sleep(Later(wait))

Next == Worker \/ Expire \/ FinalizeFails \/ ClaimFails \/ ReportFails \/ Restart

\* One process that polls again whatever happens (schedule in the finally),
\* and a clock that goes on: not every sleep is too short to count.
LongSleep == Sleep(Later(wait))

Spec == Init /\ [][Next]_vars /\ WF_vars(Worker) /\ SF_vars(LongSleep)

--------------------------------
\* Loop counters, waits and the cursor in their ranges.
TypeOK ==
    /\ open \subseteq Orders /\ pending \subseteq Orders /\ Damaged \subseteq open
    /\ due \in 0 .. Max(Orders)
    /\ wait \in [Orders -> 0 .. Delay]
    /\ phase \in {"reconcile", "report", "expire"}
    /\ done \in 0 .. Batch
    /\ calling \in UNION {Silent, Answering, {0}}
    /\ calling # 0 => phase = "reconcile" /\ calling \in open
    /\ cursor \in 0 .. due
    /\ found \subseteq Damaged /\ known \subseteq Damaged

\* An unchanged damage is reported once by a process and not on every poll,
\* over all pages and cycles of the scan.
ReportedOnce == \A o \in Orders : said[o] <= 1

\* Every damaged order is reported at last, however many healthy ones
\* expire before it and fill the pages.
DamageIsReported == \A o \in Damaged : o <= due ~> said[o] > 0

\* An order whose payment the provider answers for is closed at last,
\* although older ones whose payments it is silent about come back first.
\* It takes a Delay longer than one round of those.
AnsweredIsClosed == \A o \in Answering : o <= due ~> o \notin open

\* An order that was never being paid is closed at last even when so many
\* older ones wait for a silent provider that the reconciliation never gets
\* to it: the last part of a poll does not look at them.
PlainIsClosed == \A o \in Plain : o <= due ~> o \notin open
=============================================================================
