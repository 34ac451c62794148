----------------------------- MODULE FileAssets -----------------------------
(***************************************************************************)
(* File assets: an upload intent, the upload to staging/, the completion   *)
(* that copies the object to its final key and makes the row READY, the    *)
(* attachment to a banner, an image or a proof, and the three phases of    *)
(* the cleanup worker.  Rows live in the database, objects in the store,   *)
(* leases in Redis: no transaction spans two of them.                      *)
(*                                                                         *)
(* Renewing a lease and the effect it allows are one step: the TTL is      *)
(* longer than the store's request timeout, so a lease that was just       *)
(* renewed outlives the request.  Between such steps a lease may lapse.    *)
(* Time is whether a file is older than the PUT window plus the cleanup    *)
(* age (aged) and whether it has been READY for seven days (ripe).         *)
(***************************************************************************)
EXTENDS Integers, Sequences, SequencesExt, FiniteSetsExt

CONSTANTS
  Files,      \* the uploads
  QrFiles,    \* those the API makes itself: QR codes of promotion assets
  Requests,   \* API requests that complete uploads
  Workers,    \* cleanup processes
  BatchSize,  \* config.worker.batchSize
  MaxRetries, \* STAGING_CLEANUP_MAX_RETRIES
  Faults,     \* crashes, store failures and lapsed leases in a behaviour
  Nobody      \* no file, no owner

FilesAssumption ==
  /\ IsFiniteSet(Files) /\ QrFiles \subseteq Files /\ Requests \cap Workers = {}
  /\ BatchSize \in Nat \ {0} /\ MaxRetries \in Nat \ {0} /\ Faults \in Nat
  /\ Nobody \notin Files \cup Requests \cup Workers

VARIABLES
  row,      \* row[f]: status, object_key and whether a business row refers to it
  object,   \* object[f]: what the store holds under the staging and final keys
  age,      \* age[f]: "fresh" (PUT window), "aged" or "ripe"
  event,    \* event[f]: the staging cleanup event: state and retries
  ready,    \* the completed files, by the created_at of their event
  lease,    \* lease[f]: who holds the Redis lease of the file
  request,  \* request[r]: where the completion is
  worker,   \* worker[w]: where the cleanup is
  faults    \* faults left

vars == <<row, object, age, event, ready, lease, request, worker, faults>>

Statuses == {"NONE", "PENDING", "READY", "REJECTED", "DELETED"}
Row == [status : Statuses, key : {"staging", "final"}, attached : BOOLEAN]
Object == [staging : {"none", "declared", "other"}, final : {"none", "declared"}]
Event == [state : {"none", "later", "due", "published", "terminal"}, retries : 0..MaxRetries]
Request == [pc : {"idle", "asked", "leased", "inspected", "copied", "committed", "replayed", "done"},
            file : Files \cup {Nobody}]
Phases == {"idle", "pending", "staging", "orphan"}
Worker == [phase : Phases, batch : Seq(Files),
           pc : {"next", "leased", "checked", "half", "bare"}]

IdleRequest == [pc |-> "idle", file |-> Nobody]
IdleWorker == [phase |-> "idle", batch |-> <<>>, pc |-> "next"]

Init ==
  /\ row = [f \in Files |-> [status |-> "NONE", key |-> "staging", attached |-> FALSE]]
  /\ object = [f \in Files |-> [staging |-> "none", final |-> "none"]]
  /\ age = [f \in Files |-> "fresh"]
  /\ event = [f \in Files |-> [state |-> "none", retries |-> 0]]
  /\ ready = <<>>
  /\ lease = [f \in Files |-> Nobody]
  /\ request = [r \in Requests |-> IdleRequest]
  /\ worker = [w \in Workers |-> IdleWorker]
  /\ faults = Faults

Freed(f, a) == [lease EXCEPT ![f] = IF @ = a THEN Nobody ELSE @]

--------------------------------
\* The uploader and the clock.

CreateIntent(f) ==
  /\ row[f].status = "NONE" /\ f \notin QrFiles
  /\ row' = [row EXCEPT ![f].status = "PENDING"]
  /\ UNCHANGED <<object, age, event, ready, lease, request, worker, faults>>

\* The signed URL admits any number of uploads until it expires.
PutObject(f) ==
  /\ row[f].status # "NONE" /\ age[f] = "fresh" /\ f \notin QrFiles
  /\ \E content \in {"declared", "other"} : object' = [object EXCEPT ![f].staging = content]
  /\ UNCHANGED <<row, age, event, ready, lease, request, worker, faults>>

GrowOld(f) ==
  /\ row[f].status # "NONE"
  /\ \/ age[f] = "fresh" /\ age' = [age EXCEPT ![f] = "aged"]
     \/ /\ age[f] = "aged" /\ f \in ToSet(ready)
        /\ \A i \in 1..Len(ready) :       \* the files completed earlier are older
             ready[i] = f => \A j \in 1..(i - 1) : age[ready[j]] = "ripe"
        /\ age' = [age EXCEPT ![f] = "ripe"]
  /\ UNCHANGED <<row, object, event, ready, lease, request, worker, faults>>

\* available_at is a minute past the cleanup age; a retry backs off.
EventComesDue(f) ==
  /\ event[f].state = "later" /\ age[f] # "fresh"
  /\ event' = [event EXCEPT ![f].state = "due"]
  /\ UNCHANGED <<row, object, age, ready, lease, request, worker, faults>>

\* The trigger reads the file FOR SHARE in the business row's transaction.
Attach(f) ==
  /\ row[f].status = "READY" /\ f \notin QrFiles
  /\ row' = [row EXCEPT ![f].attached = TRUE]
  /\ UNCHANGED <<object, age, event, ready, lease, request, worker, faults>>

\* A logo, icon or banner image is replaced.
Detach(f) ==
  /\ row[f].attached /\ f \notin QrFiles
  /\ row' = [row EXCEPT ![f].attached = FALSE]
  /\ UNCHANGED <<object, age, event, ready, lease, request, worker, faults>>

--------------------------------
\* Completing an upload.

EndRequest(r) ==
  /\ request' = [request EXCEPT ![r].pc = "done"]
  /\ lease' = Freed(request[r].file, r)

AskCompletion(r, f) ==
  /\ request[r].pc = "idle" /\ row[f].status = "PENDING" /\ f \notin QrFiles
  /\ request' = [request EXCEPT ![r] = [pc |-> "asked", file |-> f]]
  /\ UNCHANGED <<row, object, age, event, ready, lease, worker, faults>>

\* createPromotionAsset creates the row of its QR code and completes it.
AskPromotion(r, f) ==
  /\ request[r].pc = "idle" /\ row[f].status = "NONE" /\ f \in QrFiles
  /\ row' = [row EXCEPT ![f].status = "PENDING"]
  /\ request' = [request EXCEPT ![r] = [pc |-> "asked", file |-> f]]
  /\ UNCHANGED <<object, age, event, ready, lease, worker, faults>>

AcquireLease(r) ==
  LET f == request[r].file IN
  /\ request[r].pc = "asked"
  /\ \/ /\ lease[f] = Nobody
        /\ lease' = [lease EXCEPT ![f] = r]
        /\ request' = [request EXCEPT ![r].pc = "leased"]
     \/ lease[f] # Nobody /\ EndRequest(r)    \* completion is already in progress
  /\ UNCHANGED <<row, object, age, event, ready, worker, faults>>

\* Under the lease the row is read again; a QR code is uploaded by the API,
\* through a URL it signs itself and uses at once: the PUT window is open.
Inspect(r) ==
  LET f == request[r].file
      staged == IF f \in QrFiles /\ age[f] = "fresh" THEN "declared" ELSE object[f].staging IN
  /\ request[r].pc = "leased"
  /\ \/ /\ row[f].status = "PENDING" /\ staged = "declared"
        /\ object' = [object EXCEPT ![f].staging = staged]
        /\ request' = [request EXCEPT ![r].pc = "inspected"]
        /\ UNCHANGED lease
     \/ /\ row[f].status # "PENDING" \/ staged # "declared"
        /\ EndRequest(r) /\ UNCHANGED object
  /\ UNCHANGED <<row, age, event, ready, worker, faults>>

\* copyIfAbsent: an object already there must be the same; else the source
\* must still have the inspected ETag.
CopyObject(r) ==
  LET f == request[r].file
      copies == lease[f] = r /\ "declared" \in {object[f].staging, object[f].final} IN
  /\ request[r].pc = "inspected"
  /\ \/ /\ copies
        /\ object' = [object EXCEPT ![f].final = "declared"]
        /\ request' = [request EXCEPT ![r].pc = "copied"]
        /\ UNCHANGED lease
     \/ ~copies /\ EndRequest(r) /\ UNCHANGED object
  /\ UNCHANGED <<row, age, event, ready, worker, faults>>

Completed(f) == [status |-> "READY", key |-> "final", attached |-> f \in QrFiles]

\* Mutant: the row becomes READY without asking for the lease again.
CommitReadyUnowned(r) ==
  LET f == request[r].file IN
  /\ request[r].pc = "copied" /\ row[f].status = "PENDING"
  /\ row' = [row EXCEPT ![f] = Completed(f)]
  /\ event' = [event EXCEPT ![f].state = "later"]
  /\ ready' = Append(ready, f)
  /\ request' = [request EXCEPT ![r].pc = "committed"]
  /\ UNCHANGED <<object, age, lease, worker, faults>>

\* READY, the response and the staging cleanup event are one transaction; a
\* QR code's promotion asset is created in it.
CommitReady(r) ==
  LET f == request[r].file
      commits == lease[f] = r /\ row[f].status = "PENDING" IN
  /\ request[r].pc = "copied"
  /\ \/ /\ commits
        /\ row' = [row EXCEPT ![f] = Completed(f)]
        /\ event' = [event EXCEPT ![f].state = "later"]
        /\ ready' = Append(ready, f)
        /\ request' = [request EXCEPT ![r].pc = "committed"]
        /\ UNCHANGED lease
     \/ /\ ~commits
        /\ EndRequest(r)
        /\ UNCHANGED <<row, event, ready>>
  /\ UNCHANGED <<object, age, worker, faults>>

\* Another request with the idempotency key created the promotion asset.
CommitReplayed(r) ==
  /\ request[r].pc = "copied" /\ request[r].file \in QrFiles /\ lease[request[r].file] = r
  /\ request' = [request EXCEPT ![r].pc = "replayed"]
  /\ UNCHANGED <<row, object, age, event, ready, lease, worker, faults>>

\* Best effort, whether or not the lease still stands.
DropStaging(r) ==
  LET f == request[r].file IN
  /\ request[r].pc \in {"committed", "replayed"}
  /\ object' = [object EXCEPT ![f].staging = "none",
                              ![f].final = IF request[r].pc = "replayed" THEN "none" ELSE @]
  /\ EndRequest(r)
  /\ UNCHANGED <<row, age, event, ready, worker, faults>>

--------------------------------
\* The cleanup worker: three phases, each a batch, one file at a time.

PendingCandidate(f) ==
  row[f].status = "PENDING" /\ row[f].key = "staging" /\ age[f] # "fresh"

OrphanCandidate(f) ==
  row[f].status \in {"READY", "REJECTED"} /\ row[f].key = "final" /\ age[f] = "ripe"

\* listCleanupCandidates, findDue, listReadyOrphanCleanupCandidates.
Listed(phase) ==
  CASE phase = "pending" -> {f \in Files : PendingCandidate(f)}
    [] phase = "staging" -> {f \in ToSet(ready) : event[f].state = "due"}
    [] phase = "orphan" -> {f \in ToSet(ready) : OrphanCandidate(f)}
    [] OTHER -> {}

\* Of these, none was completed before another of them.
Oldest(found) ==
  {f \in found : \A j \in 1..Len(ready) :
     ready[j] = f => \A i \in 1..(j - 1) : ready[i] \notin found}

\* The first of them, as many as a batch holds.
Batches(found) ==
  {batch \in [1..Min({BatchSize, Cardinality(found)}) -> found] :
     \A i \in DOMAIN batch : batch[i] \in Oldest(found \ {batch[j] : j \in 1..(i - 1)})}

After(phase) == CASE phase = "idle" -> "pending" [] phase = "pending" -> "staging"
                  [] phase = "staging" -> "orphan" [] OTHER -> "idle"

StartPhase(w) ==
  LET phase == After(worker[w].phase) IN
  /\ worker[w].batch = <<>>
  /\ \E batch \in Batches(Listed(phase)) :
       worker' = [worker EXCEPT ![w] = [phase |-> phase, batch |-> batch, pc |-> "next"]]
  /\ UNCHANGED <<row, object, age, event, ready, lease, request, faults>>

Current(w) == Head(worker[w].batch)
At(w, pc) == worker[w].batch # <<>> /\ worker[w].pc = pc

GoOn(w) == worker' = [worker EXCEPT ![w].batch = Tail(@), ![w].pc = "next"]
Continue(w) == GoOn(w) /\ lease' = Freed(Current(w), w)

\* publishOne counts the failure of the handler and reschedules the event.
Retried(e) ==
  IF e.retries + 1 >= MaxRetries THEN [state |-> "terminal", retries |-> MaxRetries]
  ELSE [state |-> "later", retries |-> e.retries + 1]

\* The file is skipped; an event is tried again later.
Skip(w) ==
  /\ Continue(w)
  /\ event' = IF worker[w].phase = "staging" THEN [event EXCEPT ![Current(w)] = Retried(@)]
              ELSE event

TakeLease(w) ==
  LET f == Current(w) IN
  /\ At(w, "next")
  /\ \/ /\ lease[f] = Nobody
        /\ worker[w].phase = "staging" => event[f].state = "due"
        /\ lease' = [lease EXCEPT ![f] = w]
        /\ worker' = [worker EXCEPT ![w].pc = "leased"]
        /\ UNCHANGED event
     \/ /\ worker[w].phase = "staging" /\ event[f].state # "due"   \* 'stale', 'terminal'
        /\ GoOn(w) /\ UNCHANGED <<lease, event>>
     \/ lease[f] # Nobody /\ (worker[w].phase = "staging" => event[f].state = "due") /\ Skip(w)
  /\ UNCHANGED <<row, object, age, ready, request, faults>>

\* recheckReadyOrphanLocked: FOR UPDATE, and no business row refers to it.
OrphanStill(f) == OrphanCandidate(f) /\ ~row[f].attached

\* Under the lease and the row lock: recheckCleanupCandidate,
\* prepareReadyOrphanCleanup, recheckReadyForStagingCleanup.
Recheck(w) ==
  LET f == Current(w)
      phase == worker[w].phase
      proceeds == CASE phase = "pending" -> PendingCandidate(f) /\ ~row[f].attached
                    [] phase = "staging" -> row[f].status = "READY"
                    [] OTHER -> OrphanStill(f) IN
  /\ At(w, "leased")
  /\ \/ /\ proceeds
        /\ row' = IF phase = "orphan" THEN [row EXCEPT ![f].status = "REJECTED"] ELSE row
        /\ worker' = [worker EXCEPT ![w].pc = IF phase = "staging" THEN "half" ELSE "checked"]
        /\ UNCHANGED <<event, lease>>
     \/ /\ ~proceeds
        /\ Continue(w)
        /\ event' = IF phase = "staging" THEN [event EXCEPT ![f].state = "published"] ELSE event
        /\ UNCHANGED row
  /\ UNCHANGED <<object, age, ready, request, faults>>

DeleteFinal(w) ==
  /\ At(w, "checked") /\ lease[Current(w)] = w
  /\ object' = [object EXCEPT ![Current(w)].final = "none"]
  /\ worker' = [worker EXCEPT ![w].pc = "half"]
  /\ UNCHANGED <<row, age, event, ready, lease, request, faults>>

DeleteStaging(w) ==
  /\ At(w, "half") /\ lease[Current(w)] = w
  /\ object' = [object EXCEPT ![Current(w)].staging = "none"]
  /\ worker' = [worker EXCEPT ![w].pc = "bare"]
  /\ UNCHANGED <<row, age, event, ready, lease, request, faults>>

\* markRejectedAfterCleanup, the event's outcome, markReadyOrphanDeleted.
RecordCleanup(w) ==
  LET f == Current(w)
      phase == worker[w].phase IN
  /\ At(w, "bare") /\ lease[f] = w
  /\ row' = CASE phase = "pending" /\ PendingCandidate(f) /\ ~row[f].attached ->
                   [row EXCEPT ![f].status = "REJECTED"]
              [] phase = "orphan" /\ row[f].status = "REJECTED" /\ OrphanStill(f) ->
                   [row EXCEPT ![f].status = "DELETED"]
              [] OTHER -> row
  /\ event' = IF phase = "staging" THEN [event EXCEPT ![f].state = "published"] ELSE event
  /\ Continue(w)
  /\ UNCHANGED <<object, age, ready, request, faults>>

LeaseWasLost(w) ==
  /\ worker[w].batch # <<>> /\ worker[w].pc \in {"checked", "half", "bare"}
  /\ lease[Current(w)] # w
  /\ Skip(w)
  /\ UNCHANGED <<row, object, age, ready, request, faults>>

--------------------------------
\* Faults.

Fault == faults > 0 /\ faults' = faults - 1

\* A process dies with the lease it holds, which then runs out.
CrashRequest(r) ==
  /\ Fault /\ request[r].pc \notin {"idle", "done"}
  /\ request' = [request EXCEPT ![r].pc = "done"]
  /\ UNCHANGED <<row, object, age, event, ready, lease, worker>>

CrashWorker(w) ==
  /\ Fault /\ worker[w].phase # "idle"
  /\ worker' = [worker EXCEPT ![w] = IdleWorker]
  /\ UNCHANGED <<row, object, age, event, ready, lease, request>>

StoreFails(w) ==
  /\ Fault /\ worker[w].batch # <<>> /\ worker[w].pc \in {"checked", "half"}
  /\ Skip(w)
  /\ UNCHANGED <<row, object, age, ready, request>>

Holds(a, f) ==
  \/ a \in Requests /\ request[a].file = f /\ request[a].pc \notin {"idle", "asked", "done"}
  \/ a \in Workers /\ worker[a].batch # <<>> /\ Current(a) = f /\ worker[a].pc # "next"

LeaseLapses(f) ==
  /\ lease[f] # Nobody
  /\ IF Holds(lease[f], f) THEN Fault ELSE UNCHANGED faults
  /\ lease' = [lease EXCEPT ![f] = Nobody]
  /\ UNCHANGED <<row, object, age, event, ready, request, worker>>

--------------------------------

RequestStep(r) ==
  \/ AcquireLease(r) \/ Inspect(r) \/ CopyObject(r) \/ CommitReady(r) \/ CommitReplayed(r)
  \/ DropStaging(r)

WorkerStep(w) ==
  \/ StartPhase(w) \/ TakeLease(w) \/ Recheck(w) \/ DeleteFinal(w) \/ DeleteStaging(w)
  \/ RecordCleanup(w) \/ LeaseWasLost(w)

Next ==
  \/ \E f \in Files : \/ CreateIntent(f) \/ PutObject(f) \/ GrowOld(f) \/ EventComesDue(f)
                      \/ Attach(f) \/ Detach(f) \/ LeaseLapses(f)
  \/ \E r \in Requests : \/ \E f \in Files : AskCompletion(r, f) \/ AskPromotion(r, f)
                         \/ RequestStep(r) \/ CrashRequest(r)
  \/ \E w \in Workers : WorkerStep(w) \/ CrashWorker(w) \/ StoreFails(w)

Spec == Init /\ [][Next]_vars

\* Time passes, dead holders' leases run out, processes go on.
HolderGone(f) == ~Holds(lease[f], f) /\ LeaseLapses(f)

FairSpec ==
  /\ Spec
  /\ \A f \in Files : WF_vars(GrowOld(f)) /\ WF_vars(EventComesDue(f)) /\ WF_vars(HolderGone(f))
  /\ \A r \in Requests : WF_vars(RequestStep(r))
  /\ \A w \in Workers : WF_vars(WorkerStep(w))

--------------------------------
\* Properties.

\* The rows, objects, events and processes have their shapes.
TypeOK ==
  /\ row \in [Files -> Row] /\ object \in [Files -> Object]
  /\ age \in [Files -> {"fresh", "aged", "ripe"}] /\ event \in [Files -> Event]
  /\ ready \in Seq(Files) /\ lease \in [Files -> Requests \cup Workers \cup {Nobody}]
  /\ request \in [Requests -> Request] /\ worker \in [Workers -> Worker]
  /\ faults \in 0..Faults

\* A READY row has its object, with the declared content, whatever leases
\* lapsed and whichever process died: what a customer is shown or a proof
\* of payment refers to is really in the store.
ReadyIsStored ==
  \A f \in Files : row[f].status = "READY" => object[f].final = "declared"

\* No business row refers to a file the cleanup has rejected or deleted:
\* attaching and cleaning a file up exclude each other.
AttachedIsReady == \A f \in Files : row[f].attached => row[f].status = "READY"

\* A DELETED row says that nothing is left in the store, and so does the
\* REJECTED row of an upload that was never completed.
GoneIsGone ==
  \A f \in Files :
    \/ row[f].status = "DELETED"
    \/ row[f].status = "REJECTED" /\ row[f].key = "staging"
    => object[f] = [staging |-> "none", final |-> "none"]

\* An upload does not stay PENDING for ever.
EveryUploadSettles == \A f \in Files : row[f].status = "PENDING" ~> row[f].status # "PENDING"

\* What was uploaded to staging/ is gone in the end, also when it was
\* uploaded once more after the completion, unless the event ran out of
\* retries.
StagingIsEmptied ==
  \A f \in Files :
    <>[](row[f].status = "NONE" \/ object[f].staging = "none" \/ event[f].state = "terminal")

\* An orphan whose cleanup has begun is deleted, object and row, even if
\* the process dies between the two.
RejectedIsDeleted ==
  \A f \in Files : (row[f].status = "REJECTED" /\ row[f].key = "final") ~> row[f].status = "DELETED"

\* "Unbound READY files follow one seven day reclaim policy": a file
\* nothing refers to is deleted.
OrphanIsReclaimed ==
  \A f \in Files : (row[f].status = "READY" /\ ~row[f].attached)
                   ~> (row[f].attached \/ row[f].status = "DELETED")
=============================================================================
