----------------------- MODULE RefundExecutionProofs -----------------------
(***************************************************************************)
(* Theorems about RefundExecution for any number of workers, attempts,     *)
(* lost calls, crashes and lost sessions.  No event is published           *)
(* unanswered, whatever happens (Always).  Until an attempt is overtaken   *)
(* only the latest one is in doubt (Past, Present), the workers that ask   *)
(* about it hold its event, and the provider is never asked for an attempt *)
(* of the past (Handled, Provided).  An event whose answer is in the inbox *)
(* is handled again only after its worker died, or lost its session,       *)
(* before the event was published, and only then can an attempt be         *)
(* overtaken.                                                              *)
(***************************************************************************)
EXTENDS RefundExecution, SequenceTheorems, TLAPS

Statuses == {"PENDING", "PROCESSING", "FAILED", "SUCCEEDED"}
Outcomes == {"SUCCEEDED", "FAILED"}
RefundRow == [status : Statuses, version : 1..(3 * MaxAttempts), known : BOOLEAN]
AttemptRow == [status : {"INITIATED"} \cup Statuses, event : 0..MaxAttempts]
ProviderState == {NoState} \cup [attempt : Attempt, outcome : Outcomes]
WorkerRow == [at : {"REST", "CLAIM", "QUERY", "REFUND", "RECEIVE", "PUBLISH"},
              event : 0..MaxAttempts, held : BOOLEAN, observed : ProviderState]
InboxRow == {NoRow} \cup [attempt : Attempt, outcome : Outcomes, status : {"RECEIVED", "PROCESSED"}]

Shapes ==
  /\ refund \in RefundRow
  /\ attempts \in Seq(AttemptRow) /\ Latest \in Attempt
  /\ event \in [Attempt -> {"NONE", "WAITING", "PUBLISHED"}]
  /\ worker \in [Workers -> WorkerRow]
  /\ \A w \in Workers : worker[w].at = "RECEIVE" => worker[w].observed # NoState
  /\ provider \in ProviderState
  /\ inbox \in [Attempt -> InboxRow]
  /\ history \in [cut : BOOLEAN, overtaken : BOOLEAN]

\* What the version of the refund says.
Versioned ==
  refund.version = CreatedAt(Latest) + (CASE refund.status = "PENDING" -> 0
                                          [] refund.status = "PROCESSING" -> 1
                                          [] OTHER -> 2)

\* Events exist for the attempts made; a waiting one is held by one worker
\* at most, and a worker handles an event it does not hold only after a cut.
Events ==
  /\ \A n \in Attempt : event[n] = "NONE" <=> n > Latest
  /\ \A w \in Workers :
       /\ worker[w].at # "REST" => /\ worker[w].event \in Attempt /\ event[worker[w].event] # "NONE"
                                  /\ (worker[w].held \/ history.cut)
       /\ worker[w].held => worker[w].at # "REST" /\ event[worker[w].event] = "WAITING"
  /\ \A v, w \in Workers :
       worker[v].held /\ worker[w].held /\ worker[v].event = worker[w].event => v = w

\* An attempt that is decided or whose event is or is about to be published
\* has an answer in the inbox.
Answered(n) == \E m \in Attempt : inbox[m].attempt = n
AnsweredNext(n) == \E m \in Attempt : inbox'[m].attempt = n
Answers ==
  /\ \A n \in Attempt :
       n < Latest \/ (n = Latest /\ refund.status \in Outcomes) \/ event[n] = "PUBLISHED" => Answered(n)
  /\ \A w \in Workers : worker[w].at = "PUBLISH" => Answered(worker[w].event)

Always == Shapes /\ Versioned /\ Events /\ Answers

\* An attempt before the latest has failed, and its answer is in the inbox.
Past ==
  \A n \in 1..(Latest - 1) : /\ attempts[n] = [status |-> "FAILED", event |-> n]
                             /\ inbox[n] # NoRow

\* The latest attempt is where its refund is.
Present ==
  /\ attempts[Latest].status = (IF refund.status = "PENDING" THEN "INITIATED" ELSE refund.status)
  /\ refund.status \in Outcomes =>
       attempts[Latest].event = Latest /\ inbox[Latest].outcome = refund.status

\* An event is published, or about to be, exactly when its answer is in the
\* inbox, or after a cut; a worker that asks does so for the
\* latest attempt, and one with an answer has the provider's present state.
Handled ==
  /\ \A n \in Attempt : event[n] = "PUBLISHED" => inbox[n] # NoRow
  /\ \A n \in Attempt : inbox[n] # NoRow =>
       \/ event[n] = "PUBLISHED" \/ history.cut
       \/ \E w \in Workers : worker[w].at = "PUBLISH" /\ worker[w].event = n
  /\ \A w \in Workers :
       /\ worker[w].at = "PUBLISH" => inbox[worker[w].event] # NoRow
       /\ worker[w].at \in {"QUERY", "REFUND", "RECEIVE"} =>
            worker[w].event = Latest /\ refund.status # "PENDING"
       /\ worker[w].at = "RECEIVE" =>
            worker[w].observed = provider /\ provider.attempt = worker[w].event

\* The provider is at the latest attempt or still at the one before, failed;
\* the inbox says of an attempt what the provider says or said of it.
Provided ==
  /\ provider.attempt <= Latest /\ provider.attempt >= Latest - 1
  /\ provider.attempt = Latest => refund.status # "PENDING" /\ provider.outcome \in Outcomes
  /\ provider.attempt # Latest => provider.outcome # "SUCCEEDED"
  /\ \A n \in Attempt : inbox[n] # NoRow =>
       /\ inbox[n].attempt = n /\ n <= provider.attempt
       /\ n = provider.attempt => inbox[n].outcome = provider.outcome

Orderly == Past /\ Present /\ Handled /\ Provided

IInv ==
  /\ Always
  /\ history.overtaken => history.cut
  /\ ~history.overtaken => Orderly


USE ExecutionAssumption

--------------------------------
LEMMA InitIInv == Init => IInv
<1> SUFFICES ASSUME Init PROVE IInv
  OBVIOUS
<1> DEFINE first == [status |-> "INITIATED", event |-> 0]
<1>1. first \in AttemptRow BY DEF AttemptRow, Statuses
<1>2. attempts = <<first>> BY DEF Init
<1> HIDE DEF first
<1>3. attempts \in Seq(AttemptRow) /\ Latest = 1 /\ attempts[1] = first BY <1>1, <1>2 DEF Latest
<1>4. Shapes
  BY <1>3 DEF Init, Shapes, RefundRow, WorkerRow, InboxRow, ProviderState, Statuses, Attempt, Resting
<1>5. Versioned /\ Past /\ Present  BY <1>3 DEF Init, Versioned, Past, Present, CreatedAt, Outcomes, first
<1>6. Events /\ Answers BY <1>3 DEF Init, Events, Answers, Attempt, Resting, Outcomes
<1>7. Handled /\ Provided BY <1>3 DEF Init, Handled, Provided, Attempt, Resting, NoState, NoRow
<1> QED BY <1>4, <1>5, <1>6, <1>7 DEF IInv, Always, Orderly, Init

--------------------------------
\* What always holds.

\* A step of the worker that handles an event, short of publishing it.
LEMMA HandlerAlways ==
  ASSUME Always, NEW w \in Workers, NEW row \in WorkerRow,
         refund' \in RefundRow, attempts' \in Seq(AttemptRow), Latest' = Latest, Versioned',
         refund'.status \in Outcomes => refund.status \in Outcomes,
         UNCHANGED event, worker' = [worker EXCEPT ![w] = row],
         provider' \in ProviderState, inbox' \in [Attempt -> InboxRow],
         history' \in [cut : BOOLEAN, overtaken : BOOLEAN],
         \A n \in Attempt : Answered(n) => AnsweredNext(n),
         history.cut => history'.cut,
         row.at # "REST" => /\ row.event \in Attempt /\ event[row.event] # "NONE"
                            /\ (row.held \/ history'.cut),
         row.held => /\ row.at # "REST" /\ event[row.event] = "WAITING"
                     /\ \A v \in Workers \ {w} : worker[v].held => worker[v].event # row.event,
         row.at = "RECEIVE" => row.observed # NoState,
         row.at = "PUBLISH" => AnsweredNext(row.event)
  PROVE  Always'
<1>1. \A v \in Workers : worker'[v] = (IF v = w THEN row ELSE worker[v]) BY DEF Always, Shapes
<1>2. Shapes' BY <1>1 DEF Always, Shapes
<1>3. Events' BY <1>1 DEF Always, Events
<1>4. Answers'
  <2>1. \A n \in Attempt :
          n < Latest \/ (n = Latest /\ refund'.status \in Outcomes) \/ event[n] = "PUBLISHED" => AnsweredNext(n)
    BY DEF Always, Answers
  <2>2. ASSUME NEW v \in Workers, worker'[v].at = "PUBLISH" PROVE AnsweredNext(worker'[v].event)
    <3>1. CASE v = w BY <1>1, <2>2, <3>1
    <3>2. CASE v # w
      <4>1. worker'[v] = worker[v] BY <1>1, <3>2
      <4>2. Answered(worker[v].event) /\ worker[v].event \in Attempt
        BY <2>2, <4>1 DEF Always, Answers, Events
      <4>3. AnsweredNext(worker[v].event) BY <4>2
      <4> QED BY <4>1, <4>3 DEF Answered, AnsweredNext
    <3> QED BY <3>1, <3>2
  <2> QED BY <2>1, <2>2 DEF Answers, Answered, AnsweredNext
<1> QED BY <1>2, <1>3, <1>4 DEF Always

\* The same where the refund's rows do not change.
LEMMA HandlerKeeps ==
  ASSUME Always, NEW w \in Workers, NEW row \in WorkerRow, UNCHANGED <<refund, attempts, event>>,
         worker' = [worker EXCEPT ![w] = row], provider' \in ProviderState,
         \/ UNCHANGED inbox
         \/ inbox' \in [Attempt -> InboxRow] /\ \A n \in Attempt : Answered(n) => AnsweredNext(n),
         history' \in [cut : BOOLEAN, overtaken : BOOLEAN],
         history.cut => history'.cut,
         row.at # "REST" => /\ worker[w].at # "REST" /\ row.event = worker[w].event
                            /\ (row.held = worker[w].held \/ history'.cut),
         row.held => row.at # "REST" /\ worker[w].held,
         row.at = "RECEIVE" => row.observed # NoState,
         row.at = "PUBLISH" => AnsweredNext(row.event)
  PROVE  Always'
<1>1. refund' \in RefundRow /\ attempts' \in Seq(AttemptRow) /\ Latest' = Latest /\ Versioned'
  BY DEF Always, Shapes, Versioned, Latest
<1>2. inbox' \in [Attempt -> InboxRow] /\ \A n \in Attempt : Answered(n) => AnsweredNext(n)
  BY DEF Always, Shapes, Answered, AnsweredNext
<1>3. row.at # "REST" => /\ row.event \in Attempt /\ event[row.event] # "NONE"
                         /\ (row.held \/ history'.cut)
  BY DEF Always, Events
<1>4. row.held => /\ row.at # "REST" /\ event[row.event] = "WAITING"
                  /\ \A v \in Workers \ {w} : worker[v].held => worker[v].event # row.event
  BY DEF Always, Events
<1> QED BY <1>1, <1>2, <1>3, <1>4, HandlerAlways

LEMMA RestingFacts == Resting \in WorkerRow /\ Resting.at = "REST" /\ ~Resting.held
BY DEF Resting, WorkerRow, ProviderState

LEMMA TakeEventAlways ==
  ASSUME Always, NEW w \in Workers, NEW n \in Attempt, TakeEvent(w, n)
  PROVE  Always'
<1> DEFINE row == [at |-> "CLAIM", event |-> n, held |-> TRUE, observed |-> NoState]
<1>1. row \in WorkerRow BY DEF WorkerRow, ProviderState, Attempt
<1>2. /\ worker' = [worker EXCEPT ![w] = row]
      /\ UNCHANGED <<refund, attempts, event, provider, inbox, history>>
  BY DEF TakeEvent
<1>3. row.at = "CLAIM" /\ row.event = n /\ row.held OBVIOUS
<1> HIDE DEF row
<1>4. /\ refund' \in RefundRow /\ attempts' \in Seq(AttemptRow) /\ Latest' = Latest /\ Versioned'
      /\ provider' \in ProviderState /\ inbox' \in [Attempt -> InboxRow]
      /\ history' \in [cut : BOOLEAN, overtaken : BOOLEAN]
  BY <1>2 DEF Always, Shapes, Versioned, Latest
<1>5. \A m \in Attempt : Answered(m) => AnsweredNext(m) BY <1>2 DEF Answered, AnsweredNext
<1>6. /\ event[n] = "WAITING"
      /\ \A v \in Workers \ {w} : worker[v].held => worker[v].event # n
  BY DEF TakeEvent, Locked
<1> QED BY <1>1, <1>2, <1>3, <1>4, <1>5, <1>6, HandlerAlways

\* A claim of the latest attempt changes its rows only where it is waiting.
LEMMA ClaimFacts ==
  ASSUME Always, ClaimLatest
  PROVE  /\ refund' \in RefundRow /\ attempts' \in Seq(AttemptRow) /\ Latest' = Latest /\ Versioned'
         /\ refund.status # "PENDING" => UNCHANGED <<refund, attempts>>
         /\ refund.status = "PENDING" =>
              /\ refund'.status = "PROCESSING" /\ attempts'[Latest].status = "PROCESSING"
              /\ \A n \in 1..(Latest - 1) : attempts'[n] = attempts[n]
<1>1. CASE refund.status # "PENDING"  BY <1>1 DEF ClaimLatest, Always, Shapes, Versioned, Latest
<1>2. CASE refund.status = "PENDING"
  <2>1. /\ refund' = [refund EXCEPT !.status = "PROCESSING", !.version = @ + 1]
        /\ attempts' = [attempts EXCEPT ![Latest].status = "PROCESSING"]
    BY <1>2 DEF ClaimLatest
  <2>2. /\ attempts \in Seq(AttemptRow) /\ Latest \in 1..Len(attempts)
        /\ attempts[Latest] \in AttemptRow /\ Latest \in Attempt /\ Latest \in Nat
    BY ElementOfSeq DEF Always, Shapes, Latest, Attempt
  <2>3. [attempts[Latest] EXCEPT !.status = "PROCESSING"] \in AttemptRow  BY <2>2 DEF AttemptRow, Statuses
  <2>4. /\ attempts' \in Seq(AttemptRow) /\ Latest' = Latest
        /\ attempts'[Latest].status = "PROCESSING"
        /\ \A n \in 1..(Latest - 1) : attempts'[n] = attempts[n]
    BY <2>1, <2>2, <2>3, ExceptSeq DEF Latest
  <2>5. CreatedAt(Latest) + 1 \in 1..(3 * MaxAttempts) BY <2>2 DEF CreatedAt, Attempt
  <2>6. refund.version = CreatedAt(Latest) BY <1>2, <2>2 DEF Always, Versioned, CreatedAt
  <2>7. /\ refund' \in RefundRow
        /\ refund'.status = "PROCESSING" /\ refund'.version = CreatedAt(Latest) + 1
    BY <2>1, <2>5, <2>6 DEF Always, Shapes, RefundRow, Statuses
  <2>8. Versioned' BY <2>4, <2>7 DEF Versioned, CreatedAt
  <2> QED BY <1>2, <2>4, <2>7, <2>8
<1> QED BY <1>1, <1>2

\* A claim is of the latest attempt, or of one that is decided.
LEMMA ClaimCases ==
  ASSUME Always, NEW w \in Workers, Claim(w)
  PROVE  /\ worker[w].at = "CLAIM" /\ UNCHANGED <<event, provider, inbox, history>>
         /\ worker[w].event \in Attempt /\ worker[w] \in WorkerRow
         /\ \/ /\ worker[w].event = Latest /\ refund.status \in {"PENDING", "PROCESSING"}
               /\ ClaimLatest /\ worker' = [worker EXCEPT ![w] = [worker[w] EXCEPT !.at = "QUERY"]]
            \/ /\ worker[w].event < Latest \/ (worker[w].event = Latest /\ refund.status \in Outcomes)
               /\ UNCHANGED <<refund, attempts>>
               /\ worker' = [worker EXCEPT ![w] = [worker[w] EXCEPT !.at = "PUBLISH"]]
<1> DEFINE n == worker[w].event
           initial == refund.status = "PENDING" /\ refund.version = CreatedAt(n)
           recovery == refund.status = "PROCESSING" /\ refund.version = CreatedAt(n) + 1
<1>1. /\ worker[w].at = "CLAIM" /\ UNCHANGED <<event, provider, inbox, history>>
      /\ worker \in [Workers -> WorkerRow] /\ refund.status \in Statuses
      /\ Latest \in Attempt /\ n \in Attempt /\ n <= Latest
  BY DEF Claim, Always, Shapes, Events, RefundRow, Attempt
<1>2. n \in Nat /\ Latest \in Nat /\ Versioned BY <1>1 DEF Attempt, Always
<1>3. CASE initial \/ recovery
  <2>1. n = Latest BY <1>2, <1>3 DEF Versioned, CreatedAt
  <2>2. ClaimLatest /\ Become(w, "QUERY") BY <1>3 DEF Claim
  <2> QED BY <1>1, <1>3, <2>1, <2>2 DEF Become
<1>4. CASE ~(initial \/ recovery)
  <2>1. UNCHANGED <<refund, attempts>> /\ Become(w, "PUBLISH") /\ refund.version > CreatedAt(n)
    BY <1>4 DEF Claim
  <2>2. n = Latest => refund.status \in Outcomes
    BY <1>1, <1>2, <1>4, <2>1 DEF Versioned, CreatedAt, Statuses, Outcomes
  <2> QED BY <1>1, <1>2, <2>1, <2>2 DEF Become
<1> QED BY <1>3, <1>4

LEMMA ClaimAlways ==
  ASSUME Always, NEW w \in Workers, Claim(w)
  PROVE  Always'
<1> DEFINE n == worker[w].event
           query == [worker[w] EXCEPT !.at = "QUERY"]
           publish == [worker[w] EXCEPT !.at = "PUBLISH"]
<1>1. /\ worker[w].at = "CLAIM" /\ UNCHANGED <<event, provider, inbox, history>>
      /\ n \in Attempt /\ worker[w] \in WorkerRow
  BY ClaimCases
<1>2. /\ query \in WorkerRow /\ query.at = "QUERY" /\ query.event = n
      /\ publish \in WorkerRow /\ publish.at = "PUBLISH" /\ publish.event = n
      /\ query.held = worker[w].held /\ publish.held = worker[w].held
  BY <1>1 DEF WorkerRow
<1>3. /\ provider' \in ProviderState /\ inbox' \in [Attempt -> InboxRow]
      /\ history' \in [cut : BOOLEAN, overtaken : BOOLEAN]
      /\ \A m \in Attempt : Answered(m) => AnsweredNext(m)
  BY <1>1 DEF Always, Shapes, Answered, AnsweredNext
<1> HIDE DEF query, publish
<1>4. CASE ClaimLatest /\ worker' = [worker EXCEPT ![w] = query]
  <2>1. /\ refund' \in RefundRow /\ attempts' \in Seq(AttemptRow) /\ Latest' = Latest /\ Versioned'
        /\ refund'.status \in Outcomes => refund.status \in Outcomes
    BY <1>4, ClaimFacts DEF Outcomes
  <2>2. /\ event[n] # "NONE" /\ (worker[w].held \/ history.cut)
        /\ worker[w].held => /\ event[n] = "WAITING"
                             /\ \A v \in Workers \ {w} : worker[v].held => worker[v].event # n
    BY <1>1 DEF Always, Events
  <2> QED BY <1>1, <1>2, <1>3, <1>4, <2>1, <2>2, HandlerAlways
<1>5. CASE /\ n < Latest \/ (n = Latest /\ refund.status \in Outcomes)
           /\ UNCHANGED <<refund, attempts>> /\ worker' = [worker EXCEPT ![w] = publish]
  <2>1. Answered(n) BY <1>1, <1>5 DEF Always, Answers
  <2>2. AnsweredNext(publish.event) BY <1>1, <1>2, <2>1 DEF Answered, AnsweredNext
  <2> QED BY <1>1, <1>2, <1>3, <1>5, <2>2, HandlerKeeps
<1> QED BY <1>4, <1>5, ClaimCases DEF query, publish

LEMMA QueryAlways ==
  ASSUME Always, NEW w \in Workers, Query(w)
  PROVE  Always'
<1> DEFINE row == [worker[w] EXCEPT !.observed = provider,
                     !.at = IF provider.outcome = "SUCCEEDED" THEN "RECEIVE" ELSE "REFUND"]
<1>1. /\ worker[w] \in WorkerRow /\ provider \in ProviderState /\ worker \in [Workers -> WorkerRow]
      /\ history \in [cut : BOOLEAN, overtaken : BOOLEAN]
  BY DEF Always, Shapes
<1>2. /\ UNCHANGED <<refund, attempts, event, provider, inbox, history>>
      /\ worker[w].at = "QUERY" /\ worker' = [worker EXCEPT ![w] = row]
  BY <1>1 DEF Query, WorkerRow
<1>3. /\ row \in WorkerRow /\ row.event = worker[w].event /\ row.observed = provider
      /\ row.held = worker[w].held
      /\ row.at = (IF provider.outcome = "SUCCEEDED" THEN "RECEIVE" ELSE "REFUND")
  BY <1>1 DEF WorkerRow
<1>4. provider.outcome = "SUCCEEDED" => provider # NoState BY DEF NoState
<1> HIDE DEF row
<1> QED BY <1>1, <1>2, <1>3, <1>4, HandlerKeeps

\* What the provider may be after it was asked.
LEMMA ExecutedState ==
  ASSUME Always, NEW n \in Attempt, NEW outcome \in Outcomes
  PROVE  Executed(n, outcome) \in ProviderState
BY DEF Executed, Always, Shapes, ProviderState

LEMMA RefundAlways ==
  ASSUME Always, NEW w \in Workers, NEW outcome \in Outcomes, Refund(w, outcome)
  PROVE  Always'
<1> DEFINE row == IF provider'.attempt = worker[w].event
                  THEN [worker[w] EXCEPT !.observed = provider', !.at = "RECEIVE"] ELSE Resting
<1>1. /\ worker[w] \in WorkerRow /\ worker \in [Workers -> WorkerRow] /\ worker[w].at = "REFUND"
      /\ worker[w].event \in Attempt /\ history' \in [cut : BOOLEAN, overtaken : BOOLEAN]
  BY DEF Refund, Always, Shapes, Events
<1>2. provider' \in ProviderState BY <1>1, ExecutedState DEF Refund
<1>3. /\ UNCHANGED <<refund, attempts, event, inbox, history>>
      /\ worker' = [worker EXCEPT ![w] = row]
  BY <1>1 DEF Refund, WorkerRow
<1>4. /\ row \in WorkerRow /\ row.at \in {"RECEIVE", "REST"} /\ (row.held => row.at = "RECEIVE")
      /\ row.at = "RECEIVE" => /\ row.event = worker[w].event /\ row.held = worker[w].held
                               /\ row.observed # NoState
  <2>1. CASE provider'.attempt = worker[w].event
    <3>1. provider' # NoState BY <1>1, <2>1 DEF NoState, Attempt
    <3>2. row = [worker[w] EXCEPT !.observed = provider', !.at = "RECEIVE"] BY <2>1
    <3> HIDE DEF row
    <3> QED BY <1>1, <1>2, <3>1, <3>2 DEF WorkerRow
  <2>2. CASE provider'.attempt # worker[w].event
    <3>1. row = Resting BY <2>2
    <3> HIDE DEF row
    <3>2. row \in WorkerRow BY <3>1, RestingFacts
    <3>3. row.at = "REST" /\ ~row.held BY <3>1, RestingFacts, Zenon
    <3>4. row.at # "RECEIVE" BY <3>3
    <3> QED BY <3>2, <3>3, <3>4
  <2> QED BY <2>1, <2>2
<1> HIDE DEF row
<1> QED BY <1>1, <1>2, <1>3, <1>4, HandlerKeeps

LEMMA SilentAlways ==
  ASSUME Always, NEW w \in Workers, ProviderSilent(w) \/ Crash(w)
  PROVE  Always'
<1>1. /\ worker' = [worker EXCEPT ![w] = Resting]
      /\ UNCHANGED <<refund, attempts, event, inbox>>
      /\ history' \in [cut : BOOLEAN, overtaken : BOOLEAN] /\ (history.cut => history'.cut)
  BY DEF ProviderSilent, Crash, Rest, Always, Shapes
<1>2. provider' \in ProviderState
  <2>1. CASE provider' = provider BY <2>1 DEF Always, Shapes
  <2>2. CASE provider' # provider
    <3>1. PICK outcome \in Outcomes :
            provider' = Executed(worker[w].event, outcome) /\ worker[w].at = "REFUND"
      BY <2>2 DEF ProviderSilent, Crash, Outcomes
    <3>2. worker[w].event \in Attempt BY <3>1 DEF Always, Events
    <3> QED BY <3>1, <3>2, ExecutedState
  <2> QED BY <2>1, <2>2
<1> QED BY <1>1, <1>2, RestingFacts, HandlerKeeps

\* What a worker puts into the inbox.
LEMMA ReceiveFacts ==
  ASSUME Always, NEW w \in Workers, Receive(w)
  PROVE  LET n == worker[w].observed.attempt
             row == [attempt |-> worker[w].event, outcome |-> worker[w].observed.outcome,
                     status |-> "RECEIVED"] IN
         /\ worker[w].at = "RECEIVE" /\ worker[w].event \in Attempt
         /\ n \in Attempt /\ row \in InboxRow /\ row # NoRow
         /\ UNCHANGED <<refund, attempts, event, provider, history>>
         /\ \/ /\ inbox[n] = NoRow \/ [inbox[n] EXCEPT !.status = "RECEIVED"] = row
               /\ inbox' = [inbox EXCEPT ![n] = row]
               /\ worker' = [worker EXCEPT ![w] = [worker[w] EXCEPT !.at = "PUBLISH"]]
            \/ /\ inbox[n] # NoRow /\ [inbox[n] EXCEPT !.status = "RECEIVED"] # row
               /\ inbox' = inbox /\ worker' = [worker EXCEPT ![w] = Resting]
<1>1. worker[w].at = "RECEIVE" BY DEF Receive
<1>2. /\ worker[w].event \in Attempt /\ worker \in [Workers -> WorkerRow]
      /\ worker[w].observed \in [attempt : Attempt, outcome : Outcomes]
  BY <1>1 DEF Always, Shapes, Events, WorkerRow, ProviderState
<1>3. UNCHANGED <<refund, attempts, event, provider, history>> BY DEF Receive
<1> QED BY <1>1, <1>2, <1>3 DEF Receive, Become, Rest, InboxRow, NoRow, Attempt

LEMMA ReceiveAlways ==
  ASSUME Always, NEW w \in Workers, Receive(w)
  PROVE  Always'
<1> DEFINE n == worker[w].observed.attempt
           row == [attempt |-> worker[w].event, outcome |-> worker[w].observed.outcome,
                   status |-> "RECEIVED"]
           next == [worker[w] EXCEPT !.at = "PUBLISH"]
<1>1. /\ worker[w].at = "RECEIVE" /\ worker[w].event \in Attempt /\ n \in Attempt /\ row \in InboxRow
      /\ UNCHANGED <<refund, attempts, event, provider, history>>
      /\ \/ /\ inbox[n] = NoRow \/ [inbox[n] EXCEPT !.status = "RECEIVED"] = row
            /\ inbox' = [inbox EXCEPT ![n] = row]
            /\ worker' = [worker EXCEPT ![w] = next]
         \/ inbox' = inbox /\ worker' = [worker EXCEPT ![w] = Resting]
  BY ReceiveFacts
<1>2. /\ worker[w] \in WorkerRow /\ provider' \in ProviderState
      /\ history' \in [cut : BOOLEAN, overtaken : BOOLEAN] /\ inbox \in [Attempt -> InboxRow]
  BY <1>1 DEF Always, Shapes
<1>3. /\ next \in WorkerRow /\ next.at = "PUBLISH"
      /\ next.event = worker[w].event /\ next.held = worker[w].held
  BY <1>2 DEF WorkerRow
<1>4. row.attempt = worker[w].event OBVIOUS
<1> HIDE DEF next, row, n
<1>5. CASE inbox' = inbox /\ worker' = [worker EXCEPT ![w] = Resting]
  BY <1>1, <1>2, <1>5, RestingFacts, HandlerKeeps
<1>6. CASE /\ inbox[n] = NoRow \/ [inbox[n] EXCEPT !.status = "RECEIVED"] = row
           /\ inbox' = [inbox EXCEPT ![n] = row]
           /\ worker' = [worker EXCEPT ![w] = next]
  <2>1. inbox' \in [Attempt -> InboxRow] BY <1>1, <1>2, <1>6
  <2>2. \A m \in Attempt : inbox'[m] = (IF m = n THEN row ELSE inbox[m]) BY <1>2, <1>6
  <2>3. inbox[n] # NoRow => inbox[n].attempt = row.attempt
    <3>1. inbox[n] \in InboxRow BY <1>1, <1>2
    <3> QED BY <1>6, <3>1 DEF InboxRow
  <2>4. ASSUME NEW k \in Attempt, Answered(k) PROVE AnsweredNext(k)
    <3>1. PICK m \in Attempt : inbox[m].attempt = k BY <2>4 DEF Answered, AnsweredNext
    <3>2. inbox[m] # NoRow BY <3>1 DEF NoRow, Attempt
    <3>3. inbox'[m].attempt = k BY <2>2, <2>3, <3>1, <3>2
    <3> QED BY <3>3 DEF Answered, AnsweredNext
  <2>5. AnsweredNext(next.event) BY <1>1, <1>3, <1>4, <2>2 DEF Answered, AnsweredNext
  <2> QED BY <1>1, <1>2, <1>3, <1>6, <2>1, <2>4, <2>5, HandlerKeeps
<1> QED BY <1>1, <1>5, <1>6

LEMMA PublishAlways ==
  ASSUME Always, NEW w \in Workers, Publish(w)
  PROVE  Always'
<1> DEFINE n == worker[w].event
<1>1. /\ worker[w].at = "PUBLISH" /\ worker' = [worker EXCEPT ![w] = Resting]
      /\ event' = IF worker[w].held THEN [event EXCEPT ![n] = "PUBLISHED"] ELSE event
      /\ UNCHANGED <<refund, attempts, provider, inbox, history>> /\ Latest' = Latest
  BY DEF Publish, Rest, Latest
<1>2. /\ n \in Attempt /\ Answered(n) /\ event[n] # "NONE"
      /\ worker[w].held => \A v \in Workers \ {w} : worker[v].held => worker[v].event # n
  BY <1>1 DEF Always, Events, Answers
<1>3. /\ \A v \in Workers : worker'[v] = (IF v = w THEN Resting ELSE worker[v])
      /\ event' \in [Attempt -> {"NONE", "WAITING", "PUBLISHED"}]
      /\ \A m \in Attempt : event'[m] = (IF m = n /\ worker[w].held THEN "PUBLISHED" ELSE event[m])
  BY <1>1 DEF Always, Shapes
<1> HIDE DEF n
<1>4. Shapes' /\ Versioned' BY <1>1, <1>3, RestingFacts DEF Always, Shapes, Versioned
<1>5. Events' BY <1>1, <1>2, <1>3, RestingFacts DEF Always, Events
<1>6. Answers' BY <1>1, <1>2, <1>3, RestingFacts DEF Always, Answers, Answered
<1> QED BY <1>4, <1>5, <1>6 DEF Always

LEMMA LoseSessionAlways ==
  ASSUME Always, NEW w \in Workers, LoseSession(w)
  PROVE  Always'
<1> DEFINE row == [worker[w] EXCEPT !.held = FALSE]
<1>1. /\ worker[w] \in WorkerRow /\ worker[w].at # "REST" /\ worker[w].held
      /\ provider \in ProviderState
      /\ worker[w].at = "RECEIVE" => worker[w].observed # NoState
      /\ worker[w].at = "PUBLISH" => Answered(worker[w].event)
  BY DEF LoseSession, Always, Shapes, Events, Answers
<1>2. /\ UNCHANGED <<refund, attempts, event, provider, inbox>>
      /\ worker' = [worker EXCEPT ![w] = row]
      /\ history' \in [cut : BOOLEAN, overtaken : BOOLEAN] /\ history'.cut
  BY DEF LoseSession, Always, Shapes
<1>3. /\ row \in WorkerRow /\ row.at = worker[w].at /\ row.event = worker[w].event
      /\ ~row.held /\ row.observed = worker[w].observed
  BY <1>1 DEF WorkerRow
<1> HIDE DEF row
<1>4. row.at = "PUBLISH" => AnsweredNext(row.event) BY <1>1, <1>2, <1>3 DEF Answered, AnsweredNext
<1> QED BY <1>1, <1>2, <1>3, <1>4, HandlerKeeps

\* What the handling of a callback changes.
LEMMA HandleFacts ==
  ASSUME Always, NEW n \in Attempt, HandleCallback(n)
  PROVE  /\ inbox[n].status = "RECEIVED" /\ inbox[n] # NoRow /\ inbox[n].outcome \in Outcomes
         /\ UNCHANGED <<event, worker, provider, history>>
         /\ inbox' \in [Attempt -> InboxRow]
         /\ \A m \in Attempt : /\ inbox'[m].attempt = inbox[m].attempt
                               /\ inbox'[m].outcome = inbox[m].outcome
                               /\ inbox'[m] = NoRow <=> inbox[m] = NoRow
         /\ \/ UNCHANGED <<refund, attempts>>
            \/ /\ inbox[n].attempt = Latest /\ refund.status \in {"PENDING", "PROCESSING"}
               /\ refund' \in RefundRow /\ refund'.status = inbox[n].outcome
               /\ Versioned' /\ Latest' = Latest /\ attempts' \in Seq(AttemptRow)
               /\ attempts'[Latest] = [status |-> inbox[n].outcome, event |-> n]
               /\ \A m \in 1..(Latest - 1) : attempts'[m] = attempts[m]
<1> DEFINE row == [status |-> inbox[n].outcome, event |-> n]
<1>1. /\ inbox[n].status = "RECEIVED" /\ UNCHANGED <<event, worker, provider, history>>
      /\ UNCHANGED <<refund, attempts>> \/ Finalize(n)
      /\ inbox' = [inbox EXCEPT ![n].status = "PROCESSED"] \/ inbox' = inbox
  BY DEF HandleCallback
<1>2. inbox \in [Attempt -> InboxRow] /\ inbox[n] \in InboxRow /\ inbox[n] # NoRow
  BY <1>1 DEF Always, Shapes, NoRow
<1>3. inbox[n] \in [attempt : Attempt, outcome : Outcomes, status : {"RECEIVED", "PROCESSED"}]
  BY <1>2 DEF InboxRow
<1>4. /\ inbox' \in [Attempt -> InboxRow]
      /\ \A m \in Attempt : /\ inbox'[m].attempt = inbox[m].attempt
                            /\ inbox'[m].outcome = inbox[m].outcome
                            /\ inbox'[m] = NoRow <=> inbox[m] = NoRow
  <2>1. CASE inbox' = inbox BY <1>2, <2>1
  <2>2. CASE inbox' = [inbox EXCEPT ![n].status = "PROCESSED"]
    <3>1. \A m \in Attempt :
            inbox'[m] = (IF m = n THEN [inbox[n] EXCEPT !.status = "PROCESSED"] ELSE inbox[m])
      BY <1>2, <2>2
    <3>2. [inbox[n] EXCEPT !.status = "PROCESSED"] \in InboxRow BY <1>3 DEF InboxRow
    <3>3. [inbox[n] EXCEPT !.status = "PROCESSED"] # NoRow BY <1>3 DEF NoRow
    <3>4. /\ [inbox[n] EXCEPT !.status = "PROCESSED"].attempt = inbox[n].attempt
          /\ [inbox[n] EXCEPT !.status = "PROCESSED"].outcome = inbox[n].outcome
      BY <1>3
    <3> QED BY <1>2, <2>2, <3>1, <3>2, <3>3, <3>4
  <2> QED BY <1>1, <2>1, <2>2
<1>5. CASE Finalize(n)
  <2>1. /\ inbox[n].attempt = Latest /\ refund.status \in {"PENDING", "PROCESSING"}
        /\ attempts' = [attempts EXCEPT ![Latest] = row]
    BY <1>5 DEF Finalize
  <2>2. /\ Latest \in Attempt /\ Latest \in Nat /\ attempts \in Seq(AttemptRow)
        /\ Latest \in 1..Len(attempts) /\ refund \in RefundRow
    BY DEF Always, Shapes, Latest, Attempt
  <2>3. row \in AttemptRow BY <1>3 DEF AttemptRow, Statuses, Outcomes, Attempt
  <2>4. attempts'[Latest] = row BY <2>1, <2>2
  <2> HIDE DEF row
  <2>5. /\ attempts' \in Seq(AttemptRow) /\ Latest' = Latest
        /\ \A m \in 1..(Latest - 1) : attempts'[m] = attempts[m]
    BY <2>1, <2>2, <2>3, ExceptSeq DEF Latest
  <2>6. /\ refund' = [status |-> inbox[n].outcome, version |-> CreatedAt(Latest) + 2, known |-> TRUE]
        /\ CreatedAt(Latest) + 2 \in 1..(3 * MaxAttempts)
    <3>1. refund.status = "PENDING" => refund.version + 1 + 1 = CreatedAt(Latest) + 2
      BY <2>2 DEF Always, Versioned, CreatedAt
    <3>2. refund.status = "PROCESSING" => refund.version + 1 = CreatedAt(Latest) + 2
      BY <2>2 DEF Always, Versioned, CreatedAt
    <3>3. refund' = [status |-> inbox[n].outcome, known |-> TRUE,
                     version |-> (IF refund.status = "PENDING" THEN refund.version + 1 ELSE refund.version) + 1]
      BY <1>5 DEF Finalize
    <3>4. CreatedAt(Latest) + 2 \in 1..(3 * MaxAttempts) BY <2>2 DEF CreatedAt, Attempt
    <3> QED BY <2>1, <3>1, <3>2, <3>3, <3>4
  <2>7. refund' \in RefundRow /\ refund'.status = inbox[n].outcome
    BY <1>3, <2>6 DEF RefundRow, Statuses, Outcomes
  <2>8. Versioned' BY <1>3, <2>5, <2>6 DEF Versioned, CreatedAt, Outcomes
  <2> QED BY <1>1, <1>2, <1>3, <1>4, <2>1, <2>4, <2>5, <2>7, <2>8 DEF row
<1> QED BY <1>1, <1>2, <1>3, <1>4, <1>5

LEMMA HandleCallbackAlways ==
  ASSUME Always, NEW n \in Attempt, HandleCallback(n)
  PROVE  Always'
<1>1. /\ UNCHANGED <<event, worker, provider, history>> /\ inbox' \in [Attempt -> InboxRow]
      /\ \A m \in Attempt : inbox'[m].attempt = inbox[m].attempt
  BY HandleFacts
<1>2. /\ refund' \in RefundRow /\ attempts' \in Seq(AttemptRow) /\ Latest' = Latest /\ Versioned'
      /\ refund'.status \in Outcomes => refund.status \in Outcomes \/ Answered(Latest)
  <2>1. CASE UNCHANGED <<refund, attempts>>  BY <2>1 DEF Always, Shapes, Versioned, Latest
  <2>2. CASE ~UNCHANGED <<refund, attempts>> BY <2>2, HandleFacts DEF Answered
  <2> QED BY <2>1, <2>2
<1>3. Shapes' /\ Events' BY <1>1, <1>2 DEF Always, Shapes, Events
<1>4. Answers' BY <1>1, <1>2 DEF Always, Answers, Answered
<1> QED BY <1>2, <1>3, <1>4 DEF Always

\* What a retry changes.
LEMMA RetryFacts ==
  ASSUME Always, Retry
  PROVE  /\ refund.status = "FAILED" /\ Latest \in Attempt /\ Latest + 1 \in Attempt /\ Latest \in Nat
         /\ refund' \in RefundRow /\ refund'.status = "PENDING" /\ Versioned'
         /\ attempts' \in Seq(AttemptRow) /\ Latest' = Latest + 1
         /\ attempts'[Latest + 1] = [status |-> "INITIATED", event |-> 0]
         /\ \A m \in 1..Latest : attempts'[m] = attempts[m]
         /\ \A m \in Attempt : event'[m] = (IF m = Latest + 1 THEN "WAITING" ELSE event[m])
         /\ history' = [cut |-> history.cut, overtaken |-> history.overtaken \/ Asking]
         /\ UNCHANGED <<worker, provider, inbox>>
<1> DEFINE row == [status |-> "INITIATED", event |-> 0]
<1>1. /\ refund.status = "FAILED" /\ Latest < MaxAttempts
      /\ refund' = [refund EXCEPT !.status = "PENDING", !.version = @ + 1]
      /\ attempts' = Append(attempts, row)
      /\ event' = [event EXCEPT ![Latest + 1] = "WAITING"]
      /\ UNCHANGED <<worker, provider, inbox>>
  BY DEF Retry
<1>2. /\ attempts \in Seq(AttemptRow) /\ Latest \in Attempt /\ Latest \in Nat
      /\ Latest = Len(attempts) /\ Latest + 1 \in Attempt
  BY <1>1 DEF Always, Shapes, Attempt, Latest
<1>3. row \in AttemptRow BY DEF AttemptRow, Statuses
<1> HIDE DEF row
<1>4. /\ attempts' \in Seq(AttemptRow) /\ Latest' = Latest + 1 /\ attempts'[Latest + 1] = row
      /\ \A m \in 1..Latest : attempts'[m] = attempts[m]
  BY <1>1, <1>2, <1>3 DEF Latest
<1>5. /\ CreatedAt(Latest) + 3 = CreatedAt(Latest + 1) /\ CreatedAt(Latest + 1) \in 1..(3 * MaxAttempts)
  BY <1>1, <1>2 DEF CreatedAt, Attempt
<1>6. refund.version + 1 = CreatedAt(Latest + 1)  BY <1>1, <1>2, <1>5 DEF Always, Versioned, CreatedAt
<1>7. refund' \in RefundRow /\ refund'.status = "PENDING" /\ refund'.version = CreatedAt(Latest + 1)
  BY <1>1, <1>5, <1>6 DEF Always, Shapes, RefundRow, Statuses
<1>8. Versioned' BY <1>2, <1>4, <1>7 DEF Versioned, CreatedAt
<1>9. \A m \in Attempt : event'[m] = (IF m = Latest + 1 THEN "WAITING" ELSE event[m])
  BY <1>1 DEF Always, Shapes
<1>10. history' = [cut |-> history.cut, overtaken |-> history.overtaken \/ Asking]
  <2>1. history \in [cut : BOOLEAN, overtaken : BOOLEAN] BY DEF Always, Shapes
  <2> QED BY <2>1 DEF Retry
<1> QED BY <1>1, <1>2, <1>4, <1>7, <1>8, <1>9, <1>10 DEF row

LEMMA RetryAlways ==
  ASSUME Always, Retry
  PROVE  Always'
<1>1. /\ refund.status = "FAILED" /\ Latest \in Nat /\ Latest + 1 \in Attempt
      /\ refund' \in RefundRow /\ refund'.status = "PENDING" /\ Versioned'
      /\ attempts' \in Seq(AttemptRow) /\ Latest' = Latest + 1
      /\ \A m \in Attempt : event'[m] = (IF m = Latest + 1 THEN "WAITING" ELSE event[m])
      /\ UNCHANGED <<worker, provider, inbox>>
  BY RetryFacts
<1>2. history' \in [cut : BOOLEAN, overtaken : BOOLEAN]
  <2>1. history' = [cut |-> history.cut, overtaken |-> history.overtaken \/ Asking] BY RetryFacts
  <2>2. history.cut \in BOOLEAN /\ (history.overtaken \/ Asking) \in BOOLEAN BY DEF Always, Shapes
  <2> QED BY <2>1, <2>2
<1>3. event' \in [Attempt -> {"NONE", "WAITING", "PUBLISHED"}] BY DEF Retry, Always, Shapes
<1>4. Shapes' BY <1>1, <1>2, <1>3 DEF Always, Shapes
<1>5. Events'
  <2>1. \A m \in Attempt : event'[m] = "NONE" <=> m > Latest + 1  BY <1>1 DEF Always, Events, Attempt
  <2>2. \A w \in Workers :
          /\ worker[w].at # "REST" => event'[worker[w].event] # "NONE"
          /\ worker[w].held => event'[worker[w].event] = "WAITING"
    BY <1>1 DEF Always, Events
  <2>3. history'.cut = history.cut BY RetryFacts
  <2> QED BY <1>1, <2>1, <2>2, <2>3 DEF Always, Events
<1>6. Answers'
  <2>1. \A n \in Attempt : Answered(n) => AnsweredNext(n) BY <1>1 DEF Answered, AnsweredNext
  <2>2. \A n \in Attempt : n < Latest + 1 => n < Latest \/ n = Latest BY <1>1 DEF Attempt
  <2>3. \A n \in Attempt : n < Latest' \/ event'[n] = "PUBLISHED" => Answered(n)
    BY <1>1, <2>2 DEF Always, Answers, Outcomes
  <2>4. \A w \in Workers : worker[w].at = "PUBLISH" => AnsweredNext(worker[w].event)
    BY <1>1, <2>1 DEF Always, Answers, Events
  <2> QED BY <1>1, <2>1, <2>3, <2>4 DEF Answers, Answered, AnsweredNext, Outcomes
<1> QED BY <1>1, <1>4, <1>5, <1>6 DEF Always

LEMMA NextAlways == Always /\ [Next]_vars => Always'
<1> SUFFICES ASSUME Always, [Next]_vars PROVE Always'
  OBVIOUS
<1>1. CASE UNCHANGED vars  BY <1>1 DEF vars, Latest, Always, Shapes, Versioned, Events, Answers, Answered
<1>2. ASSUME NEW w \in Workers, Step(w) \/ ProviderSilent(w) \/ LoseSession(w) \/ Crash(w) PROVE Always'
  BY <1>2, TakeEventAlways, ClaimAlways, QueryAlways, ReceiveAlways, PublishAlways, RefundAlways,
     SilentAlways, LoseSessionAlways DEF Step, Outcomes
<1>3. ASSUME NEW n \in Attempt, HandleCallback(n) PROVE Always' BY <1>3, HandleCallbackAlways
<1>4. CASE Retry BY <1>4, RetryAlways
<1> QED BY <1>1, <1>2, <1>3, <1>4 DEF Next

--------------------------------
\* What holds until an attempt is overtaken.

LEMMA Basics ==
  ASSUME Always
  PROVE  /\ Latest \in Attempt /\ Latest \in Nat /\ provider.attempt \in Nat
         /\ \A n \in Attempt : n \in Nat
         /\ \A n \in 1..(Latest - 1) : n \in Attempt
         /\ \A w \in Workers : worker[w] \in WorkerRow
         /\ \A n \in Attempt : inbox[n] \in InboxRow
BY DEF Always, Shapes, Attempt, ProviderState, NoState

\* A worker that asks does so for the latest attempt; if that one is decided
\* already, or its answer is in the inbox, a worker was cut off before.
LEMMA AskingFacts ==
  ASSUME Always, Orderly, NEW w \in Workers, worker[w].at \in {"QUERY", "REFUND", "RECEIVE"}
  PROVE  /\ worker[w].event = Latest /\ refund.status # "PENDING"
         /\ inbox[Latest] # NoRow => history.cut /\ provider.attempt = Latest
         /\ refund.status \in Outcomes => inbox[Latest] # NoRow
<1>1. worker[w].event = Latest /\ refund.status # "PENDING" BY DEF Orderly, Handled
<1>2. \/ history.cut
      \/ /\ worker[w].held /\ event[Latest] = "WAITING"
         /\ \A v \in Workers \ {w} : worker[v].held => worker[v].event # Latest
  BY <1>1 DEF Always, Events
<1>3. ASSUME inbox[Latest] # NoRow PROVE history.cut /\ provider.attempt = Latest
  <2>1. Latest <= provider.attempt /\ provider.attempt <= Latest  BY <1>3, Basics DEF Orderly, Provided
  <2>2. ASSUME ~history.cut PROVE FALSE
    <3>1. PICK v \in Workers : worker[v].at = "PUBLISH" /\ worker[v].event = Latest
      BY <1>2, <1>3, <2>2, Basics DEF Orderly, Handled
    <3> QED BY <1>2, <2>2, <3>1 DEF Always, Events
  <2> QED BY <2>1, <2>2, Basics
<1>4. refund.status \in Outcomes => inbox[Latest] # NoRow  BY DEF Orderly, Present, NoRow, Outcomes
<1> QED BY <1>1, <1>2, <1>3, <1>4

\* Steps of a worker that change nothing but the worker.
LEMMA WorkerOnly ==
  ASSUME Always, Orderly, NEW w \in Workers, NEW row,
         UNCHANGED <<refund, attempts, event, provider, inbox>>,
         worker' = [worker EXCEPT ![w] = row],
         history.cut \/ worker[w].at = "PUBLISH" => history'.cut,
         row.at = "PUBLISH" => inbox[row.event] # NoRow,
         row.at \in {"QUERY", "REFUND", "RECEIVE"} =>
           row.event = Latest /\ refund.status # "PENDING",
         row.at = "RECEIVE" => row.observed = provider /\ provider.attempt = row.event
  PROVE  Orderly'
<1>1. \A v \in Workers : worker'[v] = (IF v = w THEN row ELSE worker[v]) BY DEF Always, Shapes
<1>2. Latest' = Latest BY DEF Latest
<1>3. Past' /\ Present' /\ Provided' BY <1>2 DEF Orderly, Past, Present, Provided
<1>4. \A n \in Attempt : inbox[n] # NoRow =>
        \/ event[n] = "PUBLISHED" \/ history'.cut
        \/ \E v \in Workers : worker'[v].at = "PUBLISH" /\ worker'[v].event = n
  BY <1>1 DEF Orderly, Handled
<1>5. \A v \in Workers :
        /\ worker'[v].at = "PUBLISH" => inbox[worker'[v].event] # NoRow
        /\ worker'[v].at \in {"QUERY", "REFUND", "RECEIVE"} =>
             worker'[v].event = Latest /\ refund.status # "PENDING"
        /\ worker'[v].at = "RECEIVE" =>
             worker'[v].observed = provider /\ provider.attempt = worker'[v].event
  BY <1>1 DEF Orderly, Handled
<1>6. Handled' BY <1>2, <1>4, <1>5 DEF Orderly, Handled
<1> QED BY <1>3, <1>6 DEF Orderly

LEMMA TakeEventOrderly ==
  ASSUME Always, Orderly, NEW w \in Workers, NEW n \in Attempt, TakeEvent(w, n)
  PROVE  Orderly'
<1> DEFINE row == [at |-> "CLAIM", event |-> n, held |-> TRUE, observed |-> NoState]
<1>1. /\ UNCHANGED <<refund, attempts, event, provider, inbox, history>>
      /\ worker' = [worker EXCEPT ![w] = row] /\ worker[w].at = "REST"
  BY DEF TakeEvent
<1>2. row.at = "CLAIM" OBVIOUS
<1> HIDE DEF row
<1> QED BY <1>1, <1>2, WorkerOnly

LEMMA QueryOrderly ==
  ASSUME Always, Orderly, NEW w \in Workers, Query(w)
  PROVE  Orderly'
<1> DEFINE row == [worker[w] EXCEPT !.observed = provider,
                     !.at = IF provider.outcome = "SUCCEEDED" THEN "RECEIVE" ELSE "REFUND"]
<1>1. worker[w] \in WorkerRow /\ worker \in [Workers -> WorkerRow] BY DEF Always, Shapes
<1>2. /\ UNCHANGED <<refund, attempts, event, provider, inbox, history>>
      /\ worker[w].at = "QUERY" /\ worker' = [worker EXCEPT ![w] = row]
  BY <1>1 DEF Query, WorkerRow
<1>3. /\ row.event = worker[w].event /\ row.observed = provider
      /\ row.at = (IF provider.outcome = "SUCCEEDED" THEN "RECEIVE" ELSE "REFUND")
  BY <1>1 DEF WorkerRow
<1>4. worker[w].event = Latest /\ refund.status # "PENDING" BY <1>2, AskingFacts
<1>5. provider.outcome = "SUCCEEDED" => provider.attempt = Latest BY DEF Orderly, Provided
<1> HIDE DEF row
<1> QED BY <1>2, <1>3, <1>4, <1>5, WorkerOnly

LEMMA ClaimOrderly ==
  ASSUME Always, Orderly, NEW w \in Workers, Claim(w)
  PROVE  Orderly'
<1> DEFINE n == worker[w].event
           query == [worker[w] EXCEPT !.at = "QUERY"]
           publish == [worker[w] EXCEPT !.at = "PUBLISH"]
<1>1. /\ worker[w].at = "CLAIM" /\ UNCHANGED <<event, provider, inbox, history>>
      /\ n \in Attempt /\ worker[w] \in WorkerRow
  BY ClaimCases
<1>2. /\ query.at = "QUERY" /\ query.event = n /\ publish.at = "PUBLISH" /\ publish.event = n
  BY <1>1 DEF WorkerRow
<1> HIDE DEF query, publish
<1>3. CASE /\ n < Latest \/ (n = Latest /\ refund.status \in Outcomes)
           /\ UNCHANGED <<refund, attempts>> /\ worker' = [worker EXCEPT ![w] = publish]
  <2>1. inbox[n] # NoRow
    <3>1. CASE n < Latest
      <4>1. n \in 1..(Latest - 1) BY <1>1, <3>1, Basics DEF Attempt
      <4> QED BY <4>1 DEF Orderly, Past
    <3>2. CASE n = Latest /\ refund.status \in Outcomes  BY <3>2 DEF Orderly, Present, Outcomes, NoRow
    <3> QED BY <1>3, <3>1, <3>2
  <2> QED BY <1>1, <1>2, <1>3, <2>1, WorkerOnly
<1>4. CASE /\ n = Latest /\ refund.status \in {"PENDING", "PROCESSING"} /\ ClaimLatest
           /\ worker' = [worker EXCEPT ![w] = query]
  <2>1. CASE refund.status # "PENDING"
    <3>1. UNCHANGED <<refund, attempts>> BY <1>4, <2>1, ClaimFacts
    <3> QED BY <1>1, <1>2, <1>4, <2>1, <3>1, WorkerOnly
  <2>2. CASE refund.status = "PENDING"
    <3>1. /\ refund'.status = "PROCESSING" /\ Latest' = Latest
          /\ attempts'[Latest].status = "PROCESSING"
          /\ \A m \in 1..(Latest - 1) : attempts'[m] = attempts[m]
      BY <1>4, <2>2, ClaimFacts
    <3>2. \A v \in Workers : worker'[v] = (IF v = w THEN query ELSE worker[v])  BY <1>4 DEF Always, Shapes
    <3>3. Past' /\ Present' BY <1>1, <3>1 DEF Orderly, Past, Present, Outcomes
    <3>4. \A m \in Attempt : inbox[m] # NoRow =>
            \/ event[m] = "PUBLISHED" \/ history.cut
            \/ \E v \in Workers : worker'[v].at = "PUBLISH" /\ worker'[v].event = m
      BY <1>1, <3>2 DEF Orderly, Handled
    <3>5. Handled' BY <1>1, <1>2, <1>4, <3>1, <3>2, <3>4 DEF Orderly, Handled
    <3>6. Provided' BY <1>1, <2>2, <3>1 DEF Orderly, Provided
    <3> QED BY <3>3, <3>5, <3>6 DEF Orderly
  <2> QED BY <2>1, <2>2
<1> QED BY <1>3, <1>4, ClaimCases DEF query, publish

\* Steps in which a worker at REFUND makes the provider execute its
\* attempt, or not, and comes back with the answer, or not.
LEMMA ExecutedFacts ==
  ASSUME Always, Orderly, NEW w \in Workers, worker[w].at = "REFUND", NEW outcome \in Outcomes
  PROVE  LET new == Executed(worker[w].event, outcome) IN
         /\ new.attempt = Latest /\ new.outcome \in Outcomes
         /\ provider.attempt = Latest => new = provider
<1>1. worker[w].event = Latest BY AskingFacts
<1>2. /\ provider.attempt = Latest => provider.outcome \in Outcomes
      /\ provider.outcome = "SUCCEEDED" => provider.attempt = Latest
  BY DEF Orderly, Provided
<1> QED BY <1>1, <1>2 DEF Executed

LEMMA AskedOrderly ==
  ASSUME Always, Orderly, NEW w \in Workers, NEW row, worker[w].at = "REFUND",
         UNCHANGED <<refund, attempts, event, inbox>>, history'.cut = history.cut,
         \/ provider' = provider
         \/ \E outcome \in Outcomes : provider' = Executed(worker[w].event, outcome),
         worker' = [worker EXCEPT ![w] = row], row.at \in {"REST", "RECEIVE"},
         row.at = "RECEIVE" => /\ row.event = worker[w].event
                               /\ row.observed = provider' /\ provider'.attempt = row.event
  PROVE  Orderly'
<1>1. CASE provider' = provider
  <2>1. row.at = "RECEIVE" => row.event = Latest /\ refund.status # "PENDING" BY AskingFacts
  <2> QED BY <1>1, <2>1, WorkerOnly
<1>2. CASE provider' # provider
  <2>1. provider'.attempt = Latest /\ provider'.outcome \in Outcomes /\ provider.attempt # Latest
    BY <1>2, ExecutedFacts
  <2>2. /\ worker[w].event = Latest /\ inbox[Latest] = NoRow
        /\ refund.status \notin Outcomes /\ refund.status # "PENDING" /\ Latest' = Latest
    BY <2>1, AskingFacts DEF Latest
  <2>3. \A v \in Workers : worker'[v] = (IF v = w THEN row ELSE worker[v]) BY DEF Always, Shapes
  <2>4. \A v \in Workers \ {w} : worker[v].at # "RECEIVE" BY <2>1 DEF Orderly, Handled
  <2>5. Past' /\ Present' BY <2>2 DEF Orderly, Past, Present
  <2>6. Handled'
    <3>1. \A n \in Attempt : inbox[n] # NoRow =>
            \/ event[n] = "PUBLISHED" \/ history'.cut
            \/ \E v \in Workers : worker'[v].at = "PUBLISH" /\ worker'[v].event = n
      BY <2>3 DEF Orderly, Handled
    <3>2. \A v \in Workers :
            /\ worker'[v].at = "PUBLISH" => inbox[worker'[v].event] # NoRow
            /\ worker'[v].at \in {"QUERY", "REFUND", "RECEIVE"} =>
                 worker'[v].event = Latest /\ refund.status # "PENDING"
            /\ worker'[v].at = "RECEIVE" =>
                 worker'[v].observed = provider' /\ provider'.attempt = worker'[v].event
      BY <2>2, <2>3, <2>4 DEF Orderly, Handled
    <3> QED BY <2>2, <3>1, <3>2 DEF Orderly, Handled
  <2>7. Provided'
    <3>1. ASSUME NEW n \in Attempt, inbox[n] # NoRow
          PROVE  inbox[n].attempt = n /\ n <= Latest /\ n # Latest
      <4>1. inbox[n].attempt = n /\ n <= provider.attempt /\ provider.attempt <= Latest
        BY <3>1 DEF Orderly, Provided
      <4> QED BY <2>1, <4>1, Basics
    <3> QED BY <2>1, <2>2, <3>1, Basics DEF Provided, Outcomes
  <2> QED BY <2>5, <2>6, <2>7 DEF Orderly
<1> QED BY <1>1, <1>2

LEMMA RefundOrderly ==
  ASSUME Always, Orderly, NEW w \in Workers, NEW outcome \in Outcomes, Refund(w, outcome)
  PROVE  Orderly'
<1> DEFINE row == [worker[w] EXCEPT !.observed = provider', !.at = "RECEIVE"]
<1>1. /\ worker[w].at = "REFUND" /\ provider' = Executed(worker[w].event, outcome)
      /\ UNCHANGED <<refund, attempts, event, inbox, history>>
  BY DEF Refund
<1>2. provider'.attempt = worker[w].event BY <1>1, ExecutedFacts, AskingFacts
<1>3. worker[w] \in WorkerRow BY Basics
<1>4. worker' = [worker EXCEPT ![w] = row] BY <1>1, <1>2 DEF Refund, Always, Shapes
<1>5. row.at = "RECEIVE" /\ row.event = worker[w].event /\ row.observed = provider'  BY <1>3 DEF WorkerRow
<1> HIDE DEF row
<1> QED BY <1>1, <1>2, <1>4, <1>5, AskedOrderly

LEMMA SilentOrderly ==
  ASSUME Always, Orderly, NEW w \in Workers, ProviderSilent(w) \/ Crash(w)
  PROVE  Orderly'
<1>1. /\ worker' = [worker EXCEPT ![w] = Resting] /\ UNCHANGED <<refund, attempts, event, inbox>>
  BY DEF ProviderSilent, Crash, Rest
<1>2. CASE provider' = provider
  <2>1. history.cut \/ worker[w].at = "PUBLISH" => history'.cut  BY DEF ProviderSilent, Crash, Always, Shapes
  <2> QED BY <1>1, <1>2, <2>1, RestingFacts, WorkerOnly
<1>3. CASE provider' # provider
  <2>1. /\ worker[w].at = "REFUND" /\ history' = history
        /\ \E outcome \in Outcomes : provider' = Executed(worker[w].event, outcome)
    BY <1>3 DEF ProviderSilent, Crash, Outcomes
  <2> QED BY <1>1, <2>1, RestingFacts, AskedOrderly
<1> QED BY <1>2, <1>3

LEMMA ReceiveOrderly ==
  ASSUME Always, Orderly, NEW w \in Workers, Receive(w)
  PROVE  Orderly'
<1> DEFINE n == worker[w].observed.attempt
           row == [attempt |-> worker[w].event, outcome |-> worker[w].observed.outcome,
                   status |-> "RECEIVED"]
           next == [worker[w] EXCEPT !.at = "PUBLISH"]
<1>1. /\ worker[w].at = "RECEIVE" /\ row # NoRow
      /\ UNCHANGED <<refund, attempts, event, provider, history>> /\ Latest' = Latest
  BY ReceiveFacts DEF Latest
<1>2. /\ n = Latest /\ worker[w].event = Latest
      /\ row.attempt = Latest /\ row.outcome = provider.outcome /\ provider.attempt = Latest
  BY <1>1, AskingFacts DEF Orderly, Handled
<1>3. inbox[n] # NoRow => [inbox[n] EXCEPT !.status = "RECEIVED"] = row
  <2>1. inbox[n] # NoRow => inbox[n].attempt = n /\ inbox[n].outcome = provider.outcome
    BY <1>2, Basics DEF Orderly, Provided
  <2>2. inbox[n] # NoRow => inbox[n] \in [attempt : Attempt, outcome : Outcomes,
                                            status : {"RECEIVED", "PROCESSED"}]
    BY <1>2, Basics DEF InboxRow
  <2> QED BY <1>2, <2>1, <2>2
<1>4. inbox' = [inbox EXCEPT ![n] = row] /\ worker' = [worker EXCEPT ![w] = next]  BY <1>3, ReceiveFacts
<1>5. next.at = "PUBLISH" /\ next.event = Latest BY <1>2, Basics DEF WorkerRow
<1> HIDE DEF n, row, next
<1>6. /\ \A v \in Workers : worker'[v] = (IF v = w THEN next ELSE worker[v])
      /\ \A m \in Attempt : inbox'[m] = (IF m = Latest THEN row ELSE inbox[m])
  BY <1>2, <1>4 DEF Always, Shapes
<1>7. Past' /\ Present'
  <2>1. refund.status \in Outcomes => provider.outcome = refund.status
    BY <1>1, <1>2, AskingFacts, Basics DEF Orderly, Present, Provided
  <2>2. Past' BY <1>1, <1>6, Basics DEF Orderly, Past
  <2> QED BY <1>1, <1>2, <1>6, <2>1, <2>2, Basics DEF Orderly, Present
<1>8. Handled'
  <2>1. \A m \in Attempt : inbox'[m] # NoRow =>
          \/ event[m] = "PUBLISHED" \/ history.cut
          \/ \E v \in Workers : worker'[v].at = "PUBLISH" /\ worker'[v].event = m
    <3>1. SUFFICES ASSUME NEW m \in Attempt, inbox[m] # NoRow, m # Latest
                   PROVE  \/ event[m] = "PUBLISHED" \/ history.cut
                          \/ \E v \in Workers : worker'[v].at = "PUBLISH" /\ worker'[v].event = m
      BY <1>5, <1>6
    <3>2. \A v \in Workers : worker[v].event = m => v # w BY <1>2, <3>1
    <3> QED BY <1>6, <3>1, <3>2 DEF Orderly, Handled
  <2>2. \A m \in Attempt : event[m] = "PUBLISHED" => inbox'[m] # NoRow  BY <1>1, <1>6 DEF Orderly, Handled
  <2>3. \A v \in Workers : worker'[v].at = "PUBLISH" => inbox'[worker'[v].event] # NoRow
    <3>1. ASSUME NEW v \in Workers \ {w}, worker[v].at = "PUBLISH"
          PROVE  inbox'[worker[v].event] # NoRow
      BY <1>1, <1>6, <3>1 DEF Orderly, Handled, Always, Events
    <3> QED BY <1>1, <1>5, <1>6, <3>1, Basics
  <2> QED BY <1>1, <1>5, <1>6, <2>1, <2>2, <2>3 DEF Orderly, Handled
<1>9. Provided'
  <2>1. \A m \in Attempt : inbox'[m] # NoRow =>
          /\ inbox'[m].attempt = m /\ m <= provider.attempt
          /\ m = provider.attempt => inbox'[m].outcome = provider.outcome
    BY <1>2, <1>6, Basics DEF Orderly, Provided
  <2> QED BY <1>1, <2>1 DEF Orderly, Provided
<1> QED BY <1>7, <1>8, <1>9 DEF Orderly

LEMMA PublishOrderly ==
  ASSUME Always, Orderly, NEW w \in Workers, Publish(w)
  PROVE  Orderly'
<1> DEFINE n == worker[w].event
<1>1. /\ worker[w].at = "PUBLISH" /\ worker' = [worker EXCEPT ![w] = Resting]
      /\ event' = IF worker[w].held THEN [event EXCEPT ![n] = "PUBLISHED"] ELSE event
      /\ UNCHANGED <<refund, attempts, provider, inbox, history>> /\ Latest' = Latest
  BY DEF Publish, Rest, Latest
<1>2. n \in Attempt /\ inbox[n] # NoRow /\ (worker[w].held \/ history.cut)
  BY <1>1 DEF Always, Events, Orderly, Handled
<1>3. /\ \A v \in Workers : worker'[v] = (IF v = w THEN Resting ELSE worker[v])
      /\ \A m \in Attempt : event'[m] = (IF m = n /\ worker[w].held THEN "PUBLISHED" ELSE event[m])
  BY <1>1 DEF Always, Shapes
<1> HIDE DEF n
<1>4. Past' /\ Present' /\ Provided' BY <1>1 DEF Orderly, Past, Present, Provided
<1>5. \A m \in Attempt : inbox[m] # NoRow =>
        \/ event'[m] = "PUBLISHED" \/ history.cut
        \/ \E v \in Workers : worker'[v].at = "PUBLISH" /\ worker'[v].event = m
  <2>1. SUFFICES ASSUME NEW m \in Attempt, inbox[m] # NoRow, m # n
                 PROVE  \/ event'[m] = "PUBLISHED" \/ history.cut
                        \/ \E v \in Workers : worker'[v].at = "PUBLISH" /\ worker'[v].event = m
    BY <1>2, <1>3
  <2>2. \A v \in Workers : worker[v].event = m => v # w BY <2>1 DEF n
  <2> QED BY <1>3, <2>1, <2>2 DEF Orderly, Handled
<1>6. \A m \in Attempt : event'[m] = "PUBLISHED" => inbox[m] # NoRow  BY <1>2, <1>3 DEF Orderly, Handled
<1>7. Handled' BY <1>1, <1>3, <1>5, <1>6, RestingFacts DEF Orderly, Handled
<1> QED BY <1>4, <1>7 DEF Orderly

LEMMA LoseSessionOrderly ==
  ASSUME Always, Orderly, NEW w \in Workers, LoseSession(w)
  PROVE  Orderly'
<1> DEFINE row == [worker[w] EXCEPT !.held = FALSE]
<1>1. worker[w] \in WorkerRow BY Basics
<1>2. /\ UNCHANGED <<refund, attempts, event, provider, inbox>>
      /\ worker' = [worker EXCEPT ![w] = row] /\ history'.cut
  BY DEF LoseSession, Always, Shapes
<1>3. row.at = worker[w].at /\ row.event = worker[w].event /\ row.observed = worker[w].observed
  BY <1>1 DEF WorkerRow
<1> HIDE DEF row
<1>4. /\ row.at = "PUBLISH" => inbox[row.event] # NoRow
      /\ row.at \in {"QUERY", "REFUND", "RECEIVE"} => row.event = Latest /\ refund.status # "PENDING"
      /\ row.at = "RECEIVE" => row.observed = provider /\ provider.attempt = row.event
  BY <1>3 DEF Orderly, Handled
<1> QED BY <1>2, <1>4, WorkerOnly

\* A callback that is handled is of the latest attempt, still in progress,
\* or changes nothing.
LEMMA CallbackFacts ==
  ASSUME Always, Orderly, NEW n \in Attempt, inbox[n] # NoRow
  PROVE  /\ inbox[n].attempt = n
         /\ n = Latest => /\ provider.attempt = Latest /\ inbox[n].outcome = provider.outcome
                          /\ provider.outcome \in Outcomes /\ refund.status # "PENDING"
<1>1. /\ inbox[n].attempt = n /\ n <= provider.attempt /\ provider.attempt <= Latest
      /\ n = provider.attempt => inbox[n].outcome = provider.outcome
  BY DEF Orderly, Provided
<1>2. n = Latest => provider.attempt = Latest BY <1>1, Basics
<1> QED BY <1>1, <1>2 DEF Orderly, Provided

LEMMA HandleCallbackOrderly ==
  ASSUME Always, Orderly, NEW n \in Attempt, HandleCallback(n)
  PROVE  Orderly'
<1>1. /\ UNCHANGED <<event, worker, provider, history>> /\ inbox[n] # NoRow
      /\ \A m \in Attempt : /\ inbox'[m].attempt = inbox[m].attempt
                            /\ inbox'[m].outcome = inbox[m].outcome
                            /\ inbox'[m] = NoRow <=> inbox[m] = NoRow
  BY HandleFacts
<1>2. /\ Latest' = Latest /\ \A m \in 1..(Latest - 1) : attempts'[m] = attempts[m]
      /\ refund.status # "PENDING" => refund'.status # "PENDING"
      /\ provider.attempt = Latest => refund'.status # "PENDING"
      /\ attempts'[Latest].status = (IF refund'.status = "PENDING" THEN "INITIATED" ELSE refund'.status)
      /\ refund'.status \in Outcomes =>
           attempts'[Latest].event = Latest /\ inbox[Latest].outcome = refund'.status
  <2>1. CASE UNCHANGED <<refund, attempts>>
    <3>1. Latest' = Latest BY <2>1 DEF Latest
    <3> QED BY <2>1, <3>1 DEF Orderly, Present, Provided
  <2>2. CASE ~UNCHANGED <<refund, attempts>>
    <3>1. /\ inbox[n].attempt = Latest /\ refund'.status = inbox[n].outcome
          /\ inbox[n].outcome \in Outcomes /\ Latest' = Latest
          /\ attempts'[Latest] = [status |-> inbox[n].outcome, event |-> n]
          /\ \A m \in 1..(Latest - 1) : attempts'[m] = attempts[m]
      BY <2>2, HandleFacts
    <3>2. n = Latest BY <1>1, <3>1, CallbackFacts
    <3> QED BY <3>1, <3>2 DEF Outcomes
  <2> QED BY <2>1, <2>2
<1>3. Past' BY <1>1, <1>2, Basics DEF Orderly, Past
<1>4. Present' BY <1>1, <1>2, Basics DEF Present
<1>5. Handled'
  <2>1. \A v \in Workers : worker[v].at = "PUBLISH" => inbox'[worker[v].event] # NoRow
    BY <1>1 DEF Orderly, Handled, Always, Events
  <2> QED BY <1>1, <1>2, <2>1 DEF Orderly, Handled
<1>6. Provided' BY <1>1, <1>2 DEF Orderly, Provided
<1> QED BY <1>3, <1>4, <1>5, <1>6 DEF Orderly

LEMMA RetryOrderly ==
  ASSUME Always, Orderly, Retry, ~Asking
  PROVE  Orderly'
<1>1. /\ refund.status = "FAILED" /\ Latest \in Nat /\ Latest \in Attempt /\ Latest + 1 \in Attempt
      /\ refund'.status = "PENDING" /\ Latest' = Latest + 1
      /\ attempts' \in Seq(AttemptRow)
      /\ attempts'[Latest + 1] = [status |-> "INITIATED", event |-> 0]
      /\ \A m \in 1..Latest : attempts'[m] = attempts[m]
      /\ \A m \in Attempt : event'[m] = (IF m = Latest + 1 THEN "WAITING" ELSE event[m])
      /\ UNCHANGED <<worker, provider, inbox>> /\ history'.cut = history.cut
  BY RetryFacts
<1>2. /\ inbox[Latest] # NoRow /\ inbox[Latest].outcome = "FAILED"
      /\ attempts[Latest].status = "FAILED" /\ attempts[Latest].event = Latest
  BY <1>1 DEF Orderly, Present, Outcomes, NoRow
<1>3. provider.attempt = Latest /\ provider.outcome = "FAILED"  BY <1>1, <1>2, CallbackFacts
<1>4. \A w \in Workers : worker[w].at \notin {"QUERY", "REFUND", "RECEIVE"} BY DEF Asking
<1>5. Past'
  <2>1. \A m \in 1..(Latest' - 1) : m \in 1..Latest /\ (m \in 1..(Latest - 1) \/ m = Latest)  BY <1>1
  <2>2. attempts \in Seq(AttemptRow) /\ Latest \in 1..Len(attempts)
    BY <1>1 DEF Always, Shapes, Latest, Attempt
  <2>3. attempts[Latest] \in AttemptRow BY <2>2, ElementOfSeq
  <2>4. attempts[Latest] = [status |-> "FAILED", event |-> Latest] BY <1>2, <2>3 DEF AttemptRow
  <2> QED BY <1>1, <1>2, <2>1, <2>4 DEF Orderly, Past
<1>6. Present' BY <1>1 DEF Present, Outcomes
<1>7. Handled'
  <2>1. event[Latest + 1] = "NONE" BY <1>1 DEF Always, Events
  <2>2. \A m \in Attempt : event'[m] = "PUBLISHED" <=> event[m] = "PUBLISHED" BY <1>1, <2>1
  <2> QED BY <1>1, <1>4, <2>2 DEF Orderly, Handled
<1>8. Provided' BY <1>1, <1>3 DEF Orderly, Provided
<1> QED BY <1>5, <1>6, <1>7, <1>8 DEF Orderly

\* A worker is asking about the attempt that is retried only after a cut.
LEMMA RetryOvertakes ==
  ASSUME Always, Orderly, Retry, Asking
  PROVE  history.cut
<1>1. PICK w \in Workers : worker[w].at \in {"QUERY", "REFUND", "RECEIVE"} BY DEF Asking
<1> QED BY <1>1, AskingFacts DEF Retry, Outcomes

--------------------------------
LEMMA NextIInv == IInv /\ [Next]_vars => IInv'
<1> SUFFICES ASSUME IInv, [Next]_vars PROVE IInv'
  OBVIOUS
<1>1. Always /\ Always' BY NextAlways DEF IInv
<1>2. CASE UNCHANGED vars
  <2>1. UNCHANGED <<refund, attempts, event, worker, provider, inbox, history>> /\ Latest' = Latest
    BY <1>2 DEF vars, Latest
  <2> QED BY <1>1, <2>1 DEF IInv, Orderly, Past, Present, Handled, Provided
<1>3. ASSUME NEW w \in Workers, Step(w) \/ ProviderSilent(w) \/ LoseSession(w) \/ Crash(w) PROVE IInv'
  <2>1. Orderly => Orderly'
    BY <1>1, <1>3, TakeEventOrderly, ClaimOrderly, QueryOrderly, ReceiveOrderly, PublishOrderly,
       RefundOrderly, SilentOrderly, LoseSessionOrderly DEF Step, Outcomes
  <2>2. history'.overtaken = history.overtaken /\ (history.cut => history'.cut)
    BY <1>1, <1>3 DEF Step, TakeEvent, Claim, Query, Receive, Publish, Refund, ProviderSilent,
       LoseSession, Crash, Always, Shapes
  <2> QED BY <1>1, <2>1, <2>2 DEF IInv
<1>4. ASSUME NEW n \in Attempt, HandleCallback(n) PROVE IInv'
  BY <1>1, <1>4, HandleCallbackOrderly DEF HandleCallback, IInv
<1>5. CASE Retry
  <2>1. history' = [cut |-> history.cut, overtaken |-> history.overtaken \/ Asking]  BY <1>1, <1>5, RetryFacts
  <2> QED BY <1>1, <1>5, <2>1, RetryOrderly, RetryOvertakes DEF IInv
<1> QED BY <1>2, <1>3, <1>4, <1>5 DEF Next

THEOREM Inductive == Spec => []IInv
<1>1. IInv /\ [Next]_vars => IInv' BY NextIInv
<1> QED BY <1>1, InitIInv, PTL DEF Spec

\* Every row has a value its columns allow, and the version of the refund
\* tells its attempt and status, which is what events are held against
\* (handleExecution).
THEOREM Typed == Spec => []TypeOK
<1>1. IInv => TypeOK
  BY DEF IInv, Always, Shapes, Versioned, TypeOK, RefundRow, WorkerRow, InboxRow, ProviderState,
     Statuses, Outcomes, Attempt, NoState, NoRow
<1> QED BY <1>1, Inductive, PTL

\* An event is published only when its attempt's answer is in the inbox,
\* whatever calls are lost, sessions end and processes die.
THEOREM PublishedAnswered == Spec => []PublishedIsAnswered
<1>1. IInv => PublishedIsAnswered BY DEF IInv, Always, Answers, Answered, PublishedIsAnswered
<1> QED BY <1>1, Inductive, PTL

\* The books never say other than the provider, until an attempt has been
\* overtaken: a failed attempt was not executed, a successful refund was.
THEOREM BooksMatch == Spec => [](history.overtaken \/ BooksMatchProvider)
<1>1. IInv => history.overtaken \/ BooksMatchProvider
  <2> SUFFICES ASSUME Always, Orderly PROVE BooksMatchProvider
    BY DEF IInv
  <2>1. refund.status \in Outcomes => provider.outcome = refund.status
    <3>1. refund.status \in Outcomes => inbox[Latest] # NoRow /\ inbox[Latest].outcome = refund.status
      BY DEF Orderly, Present, Outcomes, NoRow
    <3> QED BY <3>1, Basics, CallbackFacts
  <2>2. ASSUME NEW a \in 1..Latest, attempts[a].status = "FAILED"
        PROVE  ~(provider.outcome = "SUCCEEDED" /\ provider.attempt = a)
    <3>1. CASE a = Latest
      <4>1. refund.status = "FAILED" BY <2>2, <3>1 DEF Orderly, Present
      <4> QED BY <2>1, <4>1 DEF Outcomes
    <3>2. CASE a # Latest BY <3>2 DEF Orderly, Provided
    <3> QED BY <3>1, <3>2
  <2> QED BY <2>1, <2>2 DEF BooksMatchProvider, Outcomes
<1> QED BY <1>1, Inductive, PTL

\* A callback in the inbox names the attempt the provider executed, until
\* an attempt has been overtaken.
THEOREM CallbacksNameExecutions == Spec => [](history.overtaken \/ CallbackNamesExecution)
<1>1. IInv => history.overtaken \/ CallbackNamesExecution
  BY DEF IInv, Orderly, Provided, CallbackNamesExecution
<1> QED BY <1>1, Inductive, PTL

--------------------------------
\* The refinement.

LEMMA InitPromise == Init => Promise!Init
BY DEF Init, Promise!Init, ItsAnswer

\* A step of one worker is a claim, an answer or nothing to the order.
LEMMA WorkerPromise ==
  ASSUME Always, Orderly, NEW w \in Workers, Step(w) \/ ProviderSilent(w) \/ LoseSession(w) \/ Crash(w)
  PROVE  Promise!Claim \/ Promise!Answer \/ UNCHANGED <<refund.status, ItsAnswer>>
<1>1. CASE UNCHANGED <<refund, attempts, provider>> BY <1>1 DEF ItsAnswer, Latest
<1>2. CASE Claim(w)
  <2>1. CASE ClaimLatest /\ refund.status = "PENDING"
    <3>1. refund'.status = "PROCESSING" /\ Latest' = Latest BY <2>1, ClaimFacts
    <3>2. provider.attempt # Latest BY <2>1 DEF Orderly, Provided
    <3>3. provider' = provider BY <1>2 DEF Claim
    <3> QED BY <2>1, <3>1, <3>2, <3>3 DEF Promise!Claim, ItsAnswer
  <2> QED BY <1>1, <1>2, <2>1, ClaimCases DEF ClaimLatest
<1>3. ASSUME NEW outcome \in Outcomes, worker[w].at = "REFUND", UNCHANGED <<refund, attempts>>,
             provider' = Executed(worker[w].event, outcome), provider' # provider
      PROVE  Promise!Answer
  <2>1. /\ provider'.attempt = Latest /\ provider'.outcome \in Outcomes
        /\ provider.attempt # Latest /\ Latest' = Latest
    BY <1>3, ExecutedFacts DEF Latest
  <2>2. refund.status = "PROCESSING"
    BY <1>3, <2>1, AskingFacts DEF Always, Shapes, RefundRow, Statuses, Outcomes
  <2> QED BY <1>3, <2>1, <2>2 DEF Promise!Answer, ItsAnswer, Outcomes
<1>4. \/ UNCHANGED <<refund, attempts, provider>> \/ Claim(w)
      \/ \E outcome \in Outcomes :
           /\ worker[w].at = "REFUND" /\ UNCHANGED <<refund, attempts>>
           /\ provider' = Executed(worker[w].event, outcome)
  BY DEF Step, TakeEvent, Query, Receive, Publish, Refund, ProviderSilent, LoseSession, Crash, Outcomes
<1> QED BY <1>1, <1>2, <1>3, <1>4

LEMMA NextPromise ==
  IInv /\ [Next]_vars => [Promise!Next \/ history.overtaken]_<<refund.status, ItsAnswer>>
<1> SUFFICES ASSUME Always, Orderly, [Next]_vars
             PROVE  Promise!Next \/ UNCHANGED <<refund.status, ItsAnswer>>
  BY DEF IInv
<1>1. CASE UNCHANGED vars BY <1>1 DEF vars, ItsAnswer, Latest
<1>2. ASSUME NEW w \in Workers, Step(w) \/ ProviderSilent(w) \/ LoseSession(w) \/ Crash(w)
      PROVE  Promise!Next \/ UNCHANGED <<refund.status, ItsAnswer>>
  BY <1>2, WorkerPromise DEF Promise!Next
<1>3. ASSUME NEW n \in Attempt, HandleCallback(n)
      PROVE  Promise!Next \/ UNCHANGED <<refund.status, ItsAnswer>>
  <2>1. provider' = provider /\ inbox[n] # NoRow BY <1>3, HandleFacts
  <2>2. CASE UNCHANGED <<refund, attempts>> BY <2>1, <2>2 DEF ItsAnswer, Latest
  <2>3. CASE ~UNCHANGED <<refund, attempts>>
    <3>1. /\ inbox[n].attempt = Latest /\ refund'.status = inbox[n].outcome /\ Latest' = Latest
          /\ refund.status \in {"PENDING", "PROCESSING"}
      BY <1>3, <2>3, HandleFacts
    <3>2. /\ provider.attempt = Latest /\ refund'.status = provider.outcome
          /\ provider.outcome \in Outcomes /\ refund.status = "PROCESSING"
      BY <2>1, <3>1, CallbackFacts
    <3> QED BY <2>1, <3>1, <3>2 DEF Promise!Next, Promise!Record, ItsAnswer, Outcomes
  <2> QED BY <2>2, <2>3
<1>4. CASE Retry
  <2>1. refund.status = "FAILED" /\ refund'.status = "PENDING" BY <1>4, RetryFacts
  <2> QED BY <2>1 DEF Promise!Next, Promise!Retry, ItsAnswer
<1> QED BY <1>1, <1>2, <1>3, <1>4 DEF Next

\* For the order the workers, the inbox, the outbox and the provider are
\* one refund that is answered once for each attempt, whatever calls are
\* lost, sessions end and processes die, until an attempt has been overtaken.
THEOREM KeepsItsPromise == Spec => KeepsPromise
<1>1. IInv /\ [Next]_vars => [Promise!Next \/ history.overtaken]_<<refund.status, ItsAnswer>>  BY NextPromise
<1> QED BY <1>1, InitPromise, Inductive, PTL DEF Spec, KeepsPromise

\* Together, with processes that die and sessions that end at any step: no
\* published event is without an answer, and the books and the inbox say
\* what the provider did, until an attempt has been overtaken, which takes
\* a worker cut off between inbox and outbox.
THEOREM BooksDoAgree == Spec => []BooksAgree
<1>1. IInv => OvertakenAfterCut BY DEF IInv, OvertakenAfterCut
<1> QED
  BY <1>1, Inductive, Typed, PublishedAnswered, BooksMatch, CallbacksNameExecutions, PTL DEF BooksAgree
=============================================================================
