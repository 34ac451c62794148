----------------------------- MODULE MCWorkers -----------------------------
(***************************************************************************)
(* The worker processes on small instances, for TLC: what they owe comes   *)
(* about under the fairness of each component.  Refunds at the provider,   *)
(* outbox events, uploads, and the orders whose payment time is over.      *)
(*                                                                         *)
(* As in MCTrade the components share no variable, and a behaviour moves   *)
(* the one part chosen in its initial state.                               *)
(***************************************************************************)
EXTENDS RefundExecution

CONSTANTS Parts  \* the parts to explore

VARIABLES
  part,                                                              \* the part that moves
  outbox, handled, lock, dispatcher, misses,                         \* OutboxDispatch
  file, object, age, cleanup, ready, lease, request, cleaner, slips, \* FileAssets
  open, pending, due, wait, phase, done, calling, cursor, found, known, said, failures, restarts  \* TimeoutWorker

\* More events than a batch holds.  The oldest never succeeds and is never
\* given up, the second one may be given up.
Outbox == INSTANCE OutboxDispatch WITH
  EventCount <- 3, Durable <- {1, 3}, Poison <- {1}, Workers <- {"w1"},
  BatchSize <- 2, MaxRetries <- 2, Faults <- 1, row <- outbox, worker <- dispatcher, faults <- misses

\* An upload and a QR code, one completion and one cleanup worker.
Uploads == INSTANCE FileAssets WITH
  Files <- {"f1", "f2"}, QrFiles <- {"f2"}, Requests <- {"r1"}, Workers <- {"w1"},
  BatchSize <- 2, MaxRetries <- 2, Faults <- 2, Nobody <- "nobody",
  row <- file, event <- cleanup, worker <- cleaner, faults <- slips

\* Two orders at the head are silent; the delay is longer than their round.
Queue == INSTANCE TimeoutWorker WITH
  Silent <- {1, 2}, Answering <- {3, 5}, Plain <- {4}, Damaged <- {},
  Batch <- 2, Delay <- 3, MaxFailures <- 1, MaxRestarts <- 1

\* More silent orders at the head than the delay is long.
Starved == INSTANCE TimeoutWorker WITH
  Silent <- {1, 2, 3}, Answering <- {4}, Plain <- {5, 6}, Damaged <- {},
  Batch <- 3, Delay <- 2, MaxFailures <- 1, MaxRestarts <- 1

\* Damaged orders on later pages than healthy ones that stay.
Pages == INSTANCE TimeoutWorker WITH
  Silent <- {1, 3}, Answering <- {4}, Plain <- {}, Damaged <- {2, 5},
  Batch <- 1, Delay <- 3, MaxFailures <- 1, MaxRestarts <- 1

ASSUME Outbox!DispatchAssumption /\ Uploads!FilesAssumption
ASSUME Queue!TimeoutWorkerAssumption /\ Starved!TimeoutWorkerAssumption /\ Pages!TimeoutWorkerAssumption

--------------------------------
outboxVars == <<outbox, handled, lock, dispatcher, misses>>
fileVars == <<file, object, age, cleanup, ready, lease, request, cleaner, slips>>
orderVars == <<open, pending, due, wait, phase, done, calling, cursor, found, known, said, failures, restarts>>
workerVars == <<part, vars, outboxVars, fileVars, orderVars>>

WorkersInit ==
  /\ part \in Parts
  /\ Init /\ Outbox!Init /\ Uploads!Init
  /\ CASE part = "starved" -> Starved!Init
       [] part = "pages" -> Pages!Init
       [] OTHER -> Queue!Init

RetryStep == part = "retry" /\ Next /\ UNCHANGED <<part, outboxVars, fileVars, orderVars>>
OutboxStep == part = "outbox" /\ Outbox!Next /\ UNCHANGED <<part, vars, fileVars, orderVars>>
UploadsStep == part = "uploads" /\ Uploads!Next /\ UNCHANGED <<part, vars, outboxVars, orderVars>>
OrdersStep ==
  /\ \/ part = "queue" /\ Queue!Next
     \/ part = "starved" /\ Starved!Next
     \/ part = "pages" /\ Pages!Next
  /\ UNCHANGED <<part, vars, outboxVars, fileVars>>

WorkersNext ==
  RetryStep \/ OutboxStep \/ UploadsStep \/ OrdersStep

\* The fairness of each component (FairSpec), in the behaviours in which it
\* moves.
Fairness ==
  /\ \A w \in Workers : WF_vars(part = "retry" /\ Step(w))
  /\ \A n \in Attempt : WF_vars(part = "retry" /\ HandleCallback(n))
  /\ \A e \in 1..3 : WF_outboxVars(part = "outbox" /\ Outbox!ClockReaches(e))
  /\ WF_outboxVars(part = "outbox" /\ Outbox!Step("w1"))
  /\ SF_outboxVars(part = "outbox" /\ Outbox!Succeeds("w1", 3))
  /\ \A f \in {"f1", "f2"} :
       /\ WF_fileVars(part = "uploads" /\ Uploads!GrowOld(f))
       /\ WF_fileVars(part = "uploads" /\ Uploads!EventComesDue(f))
       /\ WF_fileVars(part = "uploads" /\ Uploads!HolderGone(f))
  /\ WF_fileVars(part = "uploads" /\ Uploads!RequestStep("r1"))
  /\ WF_fileVars(part = "uploads" /\ Uploads!WorkerStep("w1"))
  /\ WF_orderVars(\/ part = "queue" /\ Queue!Worker
                  \/ part = "starved" /\ Starved!Worker
                  \/ part = "pages" /\ Pages!Worker)
  /\ SF_orderVars(\/ part = "queue" /\ Queue!LongSleep
                  \/ part = "starved" /\ Starved!LongSleep
                  \/ part = "pages" /\ Pages!LongSleep)

WorkersSpec == WorkersInit /\ [][WorkersNext]_workerVars /\ Fairness

--------------------------------
\* OutboxDispatch, FileAssets: every event is published or given up, every
\* upload is completed or rejected and leaves nothing behind.
WorkEnds ==
  /\ Outbox!EveryEventEnds
  /\ Uploads!EveryUploadSettles /\ Uploads!StagingIsEmptied /\ Uploads!RejectedIsDeleted

\* TimeoutWorker: no order that can be closed waits for ever behind those
\* that cannot, and damage is reported, once.
QueueMovesOn ==
  /\ part = "queue" => Queue!AnsweredIsClosed
  /\ part = "starved" => Starved!PlainIsClosed
  /\ part = "pages" => []Pages!ReportedOnce /\ Pages!DamageIsReported
=============================================================================
