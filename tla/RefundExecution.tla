-------------------------- MODULE RefundExecution --------------------------
(***************************************************************************)
(* One ordinary refund between the database, the worker processes and the  *)
(* payment provider.  Each attempt of the refund appends an outbox event;  *)
(* a worker that holds the event's session lock claims the attempt, asks   *)
(* the provider outside any transaction, and puts the provider's answer    *)
(* into the callback inbox as a callback it signs itself; the inbox        *)
(* handler records it.  A failed attempt may be retried by an              *)
(* administrator as a new attempt of the same refund.                      *)
(*                                                                         *)
(* Attempt n is created at version 3n-2 of the refund, claimed at 3n-1 and *)
(* failed at 3n.  An event is identified by its attempt.                   *)
(***************************************************************************)
EXTENDS Naturals, Sequences

CONSTANTS
  Workers,      \* worker processes
  MaxAttempts,  \* attempts an administrator makes of one refund
  MaxFaults     \* calls to the provider that are lost, crashes, lost sessions

ASSUME ExecutionAssumption == MaxAttempts \in Nat \ {0} /\ MaxFaults \in Nat

VARIABLES
  refund,    \* refund: status, version, whether provider_refund_id is known
  attempts,  \* refund_attempt in order: status and recorded provider event
  event,     \* outbox event of each attempt: NONE, WAITING, PUBLISHED
  worker,    \* each worker: what it does, for which event, whether its session
             \* still holds the event's lock, what it observed
  provider,  \* the provider's state of this refund: the attempt and its outcome
  inbox,     \* callback rows by provider event: attempt, outcome, status
  faults,    \* faults so far
  history    \* for the properties: whether a worker died between inbox and outbox
             \* or lost its session, and whether an attempt has been overtaken

vars == <<refund, attempts, event, worker, provider, inbox, faults, history>>

Attempt == 1..MaxAttempts
Latest == Len(attempts)
NoState == [attempt |-> 0, outcome |-> "NOT_FOUND"]
NoRow == [attempt |-> 0, outcome |-> "NOT_FOUND", status |-> "NONE"]
Resting == [at |-> "REST", event |-> 0, held |-> FALSE, observed |-> NoState]

Init ==
  /\ refund = [status |-> "PENDING", version |-> 1, known |-> FALSE]
  /\ attempts = <<[status |-> "INITIATED", event |-> 0]>>
  /\ event = [n \in Attempt |-> IF n = 1 THEN "WAITING" ELSE "NONE"]
  /\ worker = [w \in Workers |-> Resting]
  /\ provider = NoState
  /\ inbox = [n \in Attempt |-> NoRow]
  /\ faults = 0
  /\ history = [cut |-> FALSE, overtaken |-> FALSE]

CreatedAt(n) == 3 * n - 2
Locked(n) == \E w \in Workers : worker[w].held /\ worker[w].event = n

Become(w, at) == worker' = [worker EXCEPT ![w].at = at]
Rest(w) == worker' = [worker EXCEPT ![w] = Resting]

--------------------------------
\* The outbox handler of a worker.

TakeEvent(w, n) ==
  /\ worker[w].at = "REST"
  /\ event[n] = "WAITING"
  /\ ~Locked(n)
  /\ worker' = [worker EXCEPT ![w] = [at |-> "CLAIM", event |-> n, held |-> TRUE, observed |-> NoState]]
  /\ UNCHANGED <<refund, attempts, event, provider, inbox, faults, history>>

\* claimRefundAttemptCore, for the latest attempt.
ClaimLatest ==
  IF refund.status = "PENDING"
  THEN /\ refund' = [refund EXCEPT !.status = "PROCESSING", !.version = @ + 1]
       /\ attempts' = [attempts EXCEPT ![Latest].status = "PROCESSING"]
  ELSE UNCHANGED <<refund, attempts>>

\* Mutant: an event whose attempt is claimed already has been dealt with.
ClaimOnce(w) ==
  /\ worker[w].at = "CLAIM"
  /\ IF refund.status = "PENDING" /\ refund.version = CreatedAt(worker[w].event)
     THEN ClaimLatest /\ Become(w, "QUERY")
     ELSE UNCHANGED <<refund, attempts>> /\ Become(w, "PUBLISH")
  /\ UNCHANGED <<event, provider, inbox, faults, history>>

\* The event's own attempt, not claimed or claimed before; else the event is
\* of the past and there is nothing to do.
Claim(w) ==
  LET created == CreatedAt(worker[w].event)
      initial == refund.status = "PENDING" /\ refund.version = created
      recovery == refund.status = "PROCESSING" /\ refund.version = created + 1
  IN  /\ worker[w].at = "CLAIM"
      /\ IF initial \/ recovery
         THEN ClaimLatest /\ Become(w, "QUERY")
         ELSE refund.version > created /\ UNCHANGED <<refund, attempts>> /\ Become(w, "PUBLISH")
      /\ UNCHANGED <<event, provider, inbox, faults, history>>

Query(w) ==
  /\ worker[w].at = "QUERY"
  /\ worker' = [worker EXCEPT ![w].observed = provider,
                              ![w].at = IF provider.outcome = "SUCCEEDED" THEN "RECEIVE" ELSE "REFUND"]
  /\ UNCHANGED <<refund, attempts, event, provider, inbox, faults, history>>

\* The provider executes an attempt it has not seen, unless another one has
\* succeeded or is the latest it knows of.
Executed(n, outcome) ==
  IF provider.attempt = n \/ provider.outcome = "SUCCEEDED" THEN provider
  ELSE [attempt |-> n, outcome |-> outcome]

\* Mutant: a call that is not answered in time counts as a failed one.
RefundGuessing(w, outcome) ==
  LET n == worker[w].event IN
  /\ worker[w].at = "REFUND"
  /\ provider' = Executed(n, outcome)
  /\ \E seen \in {provider', [attempt |-> n, outcome |-> "FAILED"]} :
       worker' = [worker EXCEPT ![w].observed = seen, ![w].at = "RECEIVE"]
  /\ UNCHANGED <<refund, attempts, event, inbox, faults, history>>

Refund(w, outcome) ==
  LET n == worker[w].event IN
  /\ worker[w].at = "REFUND"
  /\ provider' = Executed(n, outcome)
  /\ worker' = IF provider'.attempt = n
               THEN [worker EXCEPT ![w].observed = provider', ![w].at = "RECEIVE"]
               ELSE [worker EXCEPT ![w] = Resting]   \* CONFLICT: the handler fails
  /\ UNCHANGED <<refund, attempts, event, inbox, faults, history>>

\* receiveForReconciliation of the callback the worker signs for its event's
\* attempt with the provider's event; other facts under the same event fail it.
Receive(w) ==
  LET n == worker[w].observed.attempt
      row == [attempt |-> worker[w].event, outcome |-> worker[w].observed.outcome, status |-> "RECEIVED"]
  IN  /\ worker[w].at = "RECEIVE"
      /\ IF inbox[n] = NoRow \/ [inbox[n] EXCEPT !.status = "RECEIVED"] = row
         THEN inbox' = [inbox EXCEPT ![n] = row] /\ Become(w, "PUBLISH")
         ELSE Rest(w) /\ UNCHANGED inbox
      /\ UNCHANGED <<refund, attempts, event, provider, faults, history>>

\* Without its session the worker cannot publish the event it has handled.
Publish(w) ==
  /\ worker[w].at = "PUBLISH"
  /\ event' = IF worker[w].held THEN [event EXCEPT ![worker[w].event] = "PUBLISHED"] ELSE event
  /\ Rest(w)
  /\ UNCHANGED <<refund, attempts, provider, inbox, faults, history>>

\* The provider does not answer, before or after it has executed the refund:
\* the handler fails and the event waits for its next turn.
ProviderSilent(w) ==
  /\ faults < MaxFaults
  /\ faults' = faults + 1
  /\ \/ worker[w].at = "QUERY" /\ UNCHANGED provider
     \/ /\ worker[w].at = "REFUND"
        /\ \/ UNCHANGED provider
           \/ \E outcome \in {"SUCCEEDED", "FAILED"} :
                provider' = Executed(worker[w].event, outcome)
  /\ Rest(w)
  /\ UNCHANGED <<refund, attempts, event, inbox, history>>

\* The connection that holds the lock breaks, and the handler goes on.
LoseSession(w) ==
  /\ worker[w].held
  /\ faults < MaxFaults
  /\ faults' = faults + 1
  /\ worker' = [worker EXCEPT ![w].held = FALSE]
  /\ history' = [history EXCEPT !.cut = TRUE]
  /\ UNCHANGED <<refund, attempts, event, provider, inbox>>

Crash(w) ==
  /\ worker[w].at # "REST"
  /\ faults < MaxFaults
  /\ faults' = faults + 1
  /\ Rest(w)
  /\ history' = [history EXCEPT !.cut = @ \/ worker[w].at = "PUBLISH"]
  /\ UNCHANGED <<refund, attempts, event, provider, inbox>>

--------------------------------
\* The inbox handler, and the administrator.

\* isHistoricalRefundAttemptReplay: an older attempt that ended just so.
Historical(n) ==
  LET a == inbox[n].attempt IN
  a < Latest /\ attempts[a].status = inbox[n].outcome /\ attempts[a].event = n /\ refund.known

\* The same result of the latest attempt once more.
Replay(n) ==
  /\ inbox[n].attempt = Latest
  /\ refund.status = inbox[n].outcome /\ attempts[Latest].status = inbox[n].outcome
  /\ attempts[Latest].event = n

\* finalizeRefundAttempt; the claim comes first where no worker has made it.
Finalize(n) ==
  LET claimed == IF refund.status = "PENDING" THEN refund.version + 1 ELSE refund.version IN
  /\ inbox[n].attempt = Latest
  /\ refund.status \in {"PENDING", "PROCESSING"}
  /\ refund' = [status |-> inbox[n].outcome, version |-> claimed + 1, known |-> TRUE]
  /\ attempts' = [attempts EXCEPT ![Latest] = [status |-> inbox[n].outcome, event |-> n]]

\* The row is marked in a step of its own, which may be lost.
HandleCallback(n) ==
  /\ inbox[n].status = "RECEIVED"
  /\ \/ Historical(n) /\ UNCHANGED <<refund, attempts>>
     \/ Replay(n) /\ UNCHANGED <<refund, attempts>>
     \/ Finalize(n)
  /\ \/ inbox' = [inbox EXCEPT ![n].status = "PROCESSED"] /\ UNCHANGED faults
     \/ faults < MaxFaults /\ faults' = faults + 1 /\ UNCHANGED inbox
  /\ UNCHANGED <<event, worker, provider, history>>

\* Whether a worker is between its claim and the inbox for an event.
Asking == \E w \in Workers : worker[w].at \in {"QUERY", "REFUND", "RECEIVE"}

\* Mutant: a refund in progress can be tried again too.
RetryInProgress ==
  /\ refund.status \in {"FAILED", "PROCESSING"}
  /\ Latest < MaxAttempts
  /\ refund' = [refund EXCEPT !.status = "PENDING", !.version = CreatedAt(Latest + 1)]
  /\ attempts' = Append(attempts, [status |-> "INITIATED", event |-> 0])
  /\ event' = [event EXCEPT ![Latest + 1] = "WAITING"]
  /\ history' = [history EXCEPT !.overtaken = @ \/ Asking]
  /\ UNCHANGED <<worker, provider, inbox, faults>>

Retry ==
  /\ refund.status = "FAILED"
  /\ Latest < MaxAttempts
  /\ refund' = [refund EXCEPT !.status = "PENDING", !.version = @ + 1]
  /\ attempts' = Append(attempts, [status |-> "INITIATED", event |-> 0])
  /\ event' = [event EXCEPT ![Latest + 1] = "WAITING"]
  /\ history' = [history EXCEPT !.overtaken = @ \/ Asking]
  /\ UNCHANGED <<worker, provider, inbox, faults>>

--------------------------------
Step(w) ==
  \/ \E n \in Attempt : TakeEvent(w, n)
  \/ Claim(w) \/ Query(w) \/ Receive(w) \/ Publish(w)
  \/ \E outcome \in {"SUCCEEDED", "FAILED"} : Refund(w, outcome)

Next ==
  \/ \E w \in Workers : Step(w) \/ ProviderSilent(w) \/ LoseSession(w) \/ Crash(w)
  \/ \E n \in Attempt : HandleCallback(n)
  \/ Retry

Spec == Init /\ [][Next]_vars

\* Workers and inbox keep working; faults come to an end (MaxFaults).
FairSpec ==
  /\ Spec
  /\ \A w \in Workers : WF_vars(Step(w))
  /\ \A n \in Attempt : WF_vars(HandleCallback(n))

--------------------------------
\* Every row has a value its columns allow, and the version tells the status.
TypeOK ==
  /\ refund \in [status : {"PENDING", "PROCESSING", "FAILED", "SUCCEEDED"},
                 version : 1..(3 * MaxAttempts), known : BOOLEAN]
  /\ refund.version = CreatedAt(Latest) + (CASE refund.status = "PENDING" -> 0
                                             [] refund.status = "PROCESSING" -> 1
                                             [] OTHER -> 2)
  /\ Latest \in Attempt
  /\ event \in [Attempt -> {"NONE", "WAITING", "PUBLISHED"}]
  /\ \A w \in Workers : worker[w].at \in {"REST", "CLAIM", "QUERY", "REFUND", "RECEIVE", "PUBLISH"}
  /\ provider \in [attempt : 0..MaxAttempts, outcome : {"NOT_FOUND", "SUCCEEDED", "FAILED"}]
  /\ inbox \in [Attempt -> [attempt : 0..MaxAttempts, outcome : {"NOT_FOUND", "SUCCEEDED", "FAILED"},
                            status : {"NONE", "RECEIVED", "PROCESSED"}]]

\* The books never say other than the provider: an attempt recorded as
\* failed has not been executed with success, and a refund recorded as
\* successful has.
BooksMatchProvider ==
  /\ refund.status = "SUCCEEDED" => provider.outcome = "SUCCEEDED"
  /\ \A a \in 1..Latest : attempts[a].status = "FAILED" =>
       ~(provider.outcome = "SUCCEEDED" /\ provider.attempt = a)

\* A callback in the inbox names the attempt the provider executed under
\* that event: one that names another attempt can never be handled, and
\* keeps the right one out.
CallbackNamesExecution ==
  \A n \in Attempt : inbox[n] # NoRow => inbox[n].attempt = n

\* An outbox event is published only when its attempt's answer is in the
\* inbox: nothing else would ever ask the provider again.
PublishedIsAnswered ==
  \A n \in Attempt : event[n] = "PUBLISHED" => \E m \in Attempt : inbox[m].attempt = n

\* Only a worker that died between the inbox and the outbox, or lost its
\* session, lets an attempt be retried under a worker that asks about it.
OvertakenAfterCut == history.overtaken => history.cut

\* Together, whatever calls are lost, sessions break and workers die: no
\* published event is without an answer, and the books and the inbox say
\* what the provider did, unless an attempt was overtaken.
BooksAgree ==
  /\ TypeOK /\ PublishedIsAnswered /\ OvertakenAfterCut
  /\ history.overtaken \/ (BooksMatchProvider /\ CallbackNamesExecution)

\* Money the provider has given back is eventually on the books, whatever
\* calls are lost and processes die on the way.
GivenBackIsRecorded == provider.outcome = "SUCCEEDED" ~> refund.status = "SUCCEEDED"

\* What holds of it: unless an attempt is overtaken.
GivenBackIsBooked ==
  provider.outcome = "SUCCEEDED" ~> refund.status = "SUCCEEDED" \/ history.overtaken

\* For the order the whole protocol is one refund that is answered once
\* for each attempt, as long as no attempt has been overtaken.
ItsAnswer ==
  IF refund.status \in {"PROCESSING", "SUCCEEDED"} /\ provider.attempt = Latest
  THEN provider.outcome ELSE "NOT_FOUND"
Promise == INSTANCE RefundPromise WITH status <- refund.status, answer <- ItsAnswer
KeepsPromise ==
  Promise!Init /\ [][Promise!Next \/ history.overtaken]_<<refund.status, ItsAnswer>>
=============================================================================
