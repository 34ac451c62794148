--------------------------- MODULE OutboxDispatch ---------------------------
(***************************************************************************)
(* The transactional outbox.  A business transaction appends an event; the *)
(* dispatcher processes poll for due events, oldest first, and publish     *)
(* them one at a time: try the event's session advisory lock, read the row *)
(* again, run the handler outside any transaction, write the outcome with  *)
(* the connection that holds the lock.  A process may die and a connection *)
(* may break between any two of these steps.                               *)
(*                                                                         *)
(* The clock is abstracted to whether next_retry_at has come.  Events are  *)
(* numbered in the order of created_at.                                    *)
(***************************************************************************)
EXTENDS Integers, FiniteSetsExt

CONSTANTS
  EventCount,   \* events the business transactions may append
  Durable,      \* events whose handler is registered with retryAfterExhaustion
  Poison,       \* events whose handler never succeeds
  Workers,      \* dispatcher processes
  BatchSize,    \* config.worker.batchSize
  MaxRetries,   \* config.worker.maxRetries
  Faults        \* deaths, broken connections and shutdowns in a behaviour

Events == 1..EventCount
Free == "free"

DispatchAssumption ==
  /\ EventCount \in Nat /\ BatchSize \in Nat \ {0} /\ MaxRetries \in Nat \ {0}
  /\ Durable \subseteq Events /\ Poison \subseteq Events
  /\ Free \notin Workers /\ Faults \in Nat

VARIABLES
  row,      \* row[e]: status, retry_count, next_retry_at of the outbox_event
  handled,  \* handled[e]: the handler's effect has taken place
  lock,     \* lock[e]: the process whose session holds the advisory lock
  worker,   \* worker[w]: where process w is in its poll
  faults    \* faults left

vars == <<row, handled, lock, worker, faults>>

Status == {"NONE", "PENDING", "FAILED", "PUBLISHED"}
NextRetry == {"NULL", "LATER", "NOW"}
Row == [status : Status, retries : 0..MaxRetries, next : NextRetry]
NoRow == [status |-> "NONE", retries |-> 0, next |-> "NULL"]

\* batch: what findDue returned and is still to do, oldest first; read: the row
\* publishOne read under the lock; linked: its session, and with it the lock,
\* still lives.
Idle == [pc |-> "idle", batch |-> {}, read |-> NoRow, linked |-> TRUE, stopping |-> FALSE]
Working == {"locked", "handling", "done", "threw"}

Init ==
  /\ row = [e \in Events |-> NoRow]
  /\ handled = [e \in Events |-> FALSE]
  /\ lock = [e \in Events |-> Free]
  /\ worker = [w \in Workers |-> Idle]
  /\ faults = Faults

Current(w) == Min(worker[w].batch)
At(w, e) == worker[w].pc # "idle" /\ Current(w) = e

--------------------------------
\* The business transactions and the clock.

AppendEvent(e) ==
  /\ row[e].status = "NONE"
  /\ \E available \in {"NULL", "LATER"} :
       row' = [row EXCEPT ![e] = [status |-> "PENDING", retries |-> 0, next |-> available]]
  /\ UNCHANGED <<handled, lock, worker, faults>>

ClockReaches(e) ==
  /\ row[e].next = "LATER"
  /\ row' = [row EXCEPT ![e].next = "NOW"]
  /\ UNCHANGED <<handled, lock, worker, faults>>

--------------------------------
\* The poll.

Due(e) ==
  \/ row[e].status = "PENDING" /\ row[e].next \in {"NULL", "NOW"}
  \/ row[e].status = "FAILED" /\ row[e].next = "NOW"

Before(e, S) == {d \in S : d < e}

\* Mutant: the limit is applied before the due rows are selected.
OldestThenDue(due) ==
  LET waiting == {e \in Events : row[e].status \in {"PENDING", "FAILED"}} IN
  {e \in due : Cardinality(Before(e, waiting)) < BatchSize}

OldestFirst(due) == {e \in due : Cardinality(Before(e, due)) < BatchSize}

Poll(w) ==
  /\ worker[w].pc = "idle" /\ ~worker[w].stopping
  /\ LET found == OldestFirst({e \in Events : Due(e)}) IN
     /\ found # {}
     /\ worker' = [worker EXCEPT ![w].pc = "next", ![w].batch = found]
  /\ UNCHANGED <<row, handled, lock, faults>>

\* The loop goes on with the rest of the batch, or ends.
Continue(w) ==
  LET rest == worker[w].batch \ {Current(w)} IN
  worker' = [worker EXCEPT ![w] =
    [Idle EXCEPT !.stopping = worker[w].stopping, !.batch = rest,
                 !.pc = IF rest # {} THEN "next" ELSE "idle"]]

\* An exception of publishOne ends the poll; the rest of the batch waits.
AbortPoll(w) ==
  worker' = [worker EXCEPT ![w] = [Idle EXCEPT !.stopping = worker[w].stopping]]

Unlock(w) == lock' = [lock EXCEPT ![Current(w)] = Free]

TryLock(w) ==
  /\ worker[w].pc = "next"
  /\ \/ /\ lock[Current(w)] = Free
        /\ lock' = [lock EXCEPT ![Current(w)] = w]
        /\ worker' = [worker EXCEPT ![w].pc = "locked"]
     \/ /\ lock[Current(w)] # Free            \* 'busy'
        /\ Continue(w)
        /\ UNCHANGED lock
  /\ UNCHANGED <<row, handled, faults>>

ReadRow(w) ==
  /\ worker[w].pc = "locked" /\ worker[w].linked
  /\ \/ /\ Due(Current(w))
        /\ worker' = [worker EXCEPT ![w].pc = "handling", ![w].read = row[Current(w)]]
        /\ UNCHANGED lock
     \/ /\ ~Due(Current(w))                   \* 'stale' or 'terminal'
        /\ Continue(w)
        /\ Unlock(w)
  /\ UNCHANGED <<row, handled, faults>>

\* The handler is a transaction or provider call of its own; it may also throw
\* after it has taken effect.
RunHandler(w) ==
  LET e == Current(w) IN
  /\ worker[w].pc = "handling"
  /\ \E effect \in {TRUE, FALSE}, outcome \in {"done", "threw"} :
       /\ effect \/ outcome = "threw"
       /\ effect => e \notin Poison
       /\ handled' = [handled EXCEPT ![e] = @ \/ effect]
       /\ worker' = [worker EXCEPT ![w].pc = outcome]
  /\ UNCHANGED <<row, lock, faults>>

Failed(e, read) ==
  LET terminal == read.retries + 1 >= MaxRetries /\ e \notin Durable IN
  [status |-> "FAILED", retries |-> Min({read.retries + 1, MaxRetries}),
   next |-> IF terminal THEN "NULL" ELSE "LATER"]

RecordOutcome(w) ==
  LET e == Current(w) IN
  /\ worker[w].pc \in {"done", "threw"} /\ worker[w].linked
  /\ row' = [row EXCEPT ![e] =
       IF @.status = "PUBLISHED" THEN @
       ELSE IF worker[w].pc = "threw" THEN Failed(e, worker[w].read)
       ELSE [@ EXCEPT !.status = "PUBLISHED", !.next = "NULL"]]
  /\ Unlock(w)
  /\ Continue(w)
  /\ UNCHANGED <<handled, faults>>

\* A process that lost its session cannot query with it any more.
FindConnectionLost(w) ==
  /\ worker[w].pc \in {"locked", "done", "threw"} /\ ~worker[w].linked
  /\ AbortPoll(w)
  /\ UNCHANGED <<row, handled, lock, faults>>

--------------------------------
\* Faults and shutdown.

Fault == faults > 0 /\ faults' = faults - 1

Freed(w) == [e \in Events |-> IF lock[e] = w THEN Free ELSE lock[e]]

LoseConnection(w) ==
  /\ Fault /\ worker[w].pc \in Working /\ worker[w].linked
  /\ worker' = [worker EXCEPT ![w].linked = FALSE]
  /\ lock' = Freed(w)
  /\ UNCHANGED <<row, handled>>

Crash(w) ==
  /\ Fault /\ worker[w] # Idle
  /\ worker' = [worker EXCEPT ![w] = Idle]
  /\ lock' = Freed(w)
  /\ UNCHANGED <<row, handled>>

\* onApplicationShutdown: no new poll; it waits until the running one is over.
Shutdown(w) ==
  /\ Fault /\ ~worker[w].stopping
  /\ worker' = [worker EXCEPT ![w].stopping = TRUE]
  /\ UNCHANGED <<row, handled, lock>>

\* A stopped process is started again (deployment).
Restart(w) ==
  /\ worker[w].pc = "idle" /\ worker[w].stopping
  /\ worker' = [worker EXCEPT ![w] = Idle]
  /\ UNCHANGED <<row, handled, lock, faults>>

Step(w) ==
  \/ Poll(w) \/ TryLock(w) \/ ReadRow(w) \/ RunHandler(w)
  \/ RecordOutcome(w) \/ FindConnectionLost(w) \/ Restart(w)

Next ==
  \/ \E e \in Events : AppendEvent(e) \/ ClockReaches(e)
  \/ \E w \in Workers : Step(w) \/ LoseConnection(w) \/ Crash(w) \/ Shutdown(w)

Spec == Init /\ [][Next]_vars

--------------------------------
\* Fairness: time passes, processes poll again and again (schedule re-arms
\* its timer) and are started again, a handler outside Poison does not
\* throw every time, and faults come to an end (Faults).
Succeeds(w, e) == At(w, e) /\ RunHandler(w) /\ handled'[e] /\ worker'[w].pc = "done"

FairSpec ==
  /\ Spec
  /\ \A e \in Events : WF_vars(ClockReaches(e))
  /\ \A w \in Workers : WF_vars(Step(w))
  /\ \A w \in Workers, e \in Durable \ Poison : SF_vars(Succeeds(w, e))

--------------------------------
\* Properties.

GivenUp(e) == row[e].status = "FAILED" /\ row[e].next = "NULL"

\* Rows have the columns' values; what a process read is a row.
TypeOK ==
  /\ row \in [Events -> Row]
  /\ handled \in [Events -> BOOLEAN]
  /\ lock \in [Events -> Workers \cup {Free}]
  /\ worker \in [Workers -> [pc : {"idle", "next"} \cup Working, batch : SUBSET Events,
                             read : Row, linked : BOOLEAN, stopping : BOOLEAN]]
  /\ faults \in 0..Faults

\* publishOne counts the retry from the row it read before the handler
\* ran.  Whoever still holds the lock finds that row unchanged, so no
\* retry is lost or counted twice, whatever other processes do.
ReadRowIsCurrent ==
  \A w \in Workers :
    worker[w].pc \in {"handling", "done", "threw"} /\ worker[w].linked
      => row[Current(w)] = worker[w].read

\* A lock is held only by a process at work on that event: neither a
\* crash, a broken connection, an exception nor a shutdown leaves a lock
\* behind, after which the event would be 'busy' for ever.
NoLockIsLeaked ==
  \A e \in Events : lock[e] # Free =>
    LET w == lock[e] IN worker[w].pc \in Working /\ worker[w].linked /\ Current(w) = e

\* An event the dispatcher will not look at again was handled, or is one
\* of the events allowed to be given up and has used all its retries.
NoneForgotten ==
  \A e \in Events :
    /\ row[e].status = "PUBLISHED" => handled[e]
    /\ GivenUp(e) => e \notin Durable /\ row[e].retries = MaxRetries

\* Published and given-up rows are never written again, although a slow
\* handler of another process may still be running on an old read.
OutcomeStands ==
  [][\A e \in Events :
       row[e].status = "PUBLISHED" \/ GivenUp(e) => row'[e] = row[e]]_vars

\* With fewer always-failing events than a batch holds, every durable
\* event whose handler can succeed is published and every other event
\* comes to an end, whenever processes die and connections break.
EveryEventEnds ==
  \A e \in Events : row[e].status # "NONE" ~>
    \/ row[e].status = "PUBLISHED"
    \/ GivenUp(e)
    \/ e \in Durable \cap Poison
=============================================================================
