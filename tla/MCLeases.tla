------------------------------ MODULE MCLeases ------------------------------
(***************************************************************************)
(* What is guarded by a lease or a session lock, on small instances for    *)
(* TLC: logins of agents, the dispatch of outbox events and file assets.   *)
(*                                                                         *)
(* As in MCTrade the components share no variable, and a behaviour moves   *)
(* the one part chosen in its initial state.                               *)
(***************************************************************************)
EXTENDS LoginLimiter

CONSTANTS
  Parts,                                                 \* the parts to explore
  PromptMax,                                             \* LoginLimiter, when tries are prompt
  Appended, Lasting, Failing, Dispatchers, Mishaps,      \* OutboxDispatch
  Pictures, Codes, Completions, Cleaners, Slips,         \* FileAssets
  Batch, Retries, StagingRetries                         \* the worker's configuration

VARIABLES
  part,                                                        \* the part that moves
  outbox, handled, lock, dispatcher, mishaps,                  \* OutboxDispatch
  file, object, age, event, ready, fileLease, completion, cleaner, slips  \* FileAssets

\* One failure fills a counter; a request lives less long than its lease.
Prompt == INSTANCE LoginLimiter WITH Slow <- FALSE, Max <- PromptMax

\* Two dispatchers share a durable event and one that always fails.
Outbox == INSTANCE OutboxDispatch WITH
  EventCount <- Appended, Durable <- Lasting, Poison <- Failing, Workers <- Dispatchers,
  BatchSize <- Batch, MaxRetries <- Retries, Faults <- Mishaps,
  row <- outbox, worker <- dispatcher, faults <- mishaps

\* Two completions, of an upload and of the QR code of a promotion, and two
\* cleanup workers.
Assets == INSTANCE FileAssets WITH
  Files <- Pictures, QrFiles <- Codes, Requests <- Completions, Workers <- Cleaners,
  BatchSize <- Batch, MaxRetries <- StagingRetries, Faults <- Slips,
  row <- file, lease <- fileLease, request <- completion, worker <- cleaner, faults <- slips

ASSUME LeasesAssumption ==
  /\ PromptMax \in Nat \ {0}
  /\ Outbox!DispatchAssumption /\ Assets!FilesAssumption

\* Attempts, tries and login names are interchangeable.
Alike == {f @@ g @@ h : f \in Permutations(Attempts), g \in Permutations(Tries), h \in Permutations(Subjects)}

--------------------------------
outboxVars == <<outbox, handled, lock, dispatcher, mishaps>>
fileVars == <<file, object, age, event, ready, fileLease, completion, cleaner, slips>>
leaseVars == <<part, vars, outboxVars, fileVars>>

\* The initial states of a component that does not move are one.
LeasesInit ==
  /\ part \in Parts
  /\ Init
  /\ part \notin {"slow", "prompt"} =>
       \A m, n \in Attempts : request[m] = request[n] /\ request[m].right
  /\ Outbox!Init
  /\ Assets!Init

SlowStep == part = "slow" /\ Next /\ UNCHANGED <<part, outboxVars, fileVars>>
PromptStep == part = "prompt" /\ Prompt!Next /\ UNCHANGED <<part, outboxVars, fileVars>>
OutboxStep == part = "outbox" /\ Outbox!Next /\ UNCHANGED <<part, vars, fileVars>>

\* The two parts bound one instance: uploads and no QR code with every worker,
\* both with one worker and one fault less.
FileStep ==
  /\ Assets!Next
  /\ \/ part = "uploads" /\ \A f \in Codes : file'[f].status = "NONE"
     \/ part = "promotions" /\ slips' > 0 /\ Cardinality({w \in Cleaners : cleaner'[w].phase # "idle"}) <= 1
  /\ UNCHANGED <<part, vars, outboxVars>>

LeasesNext == SlowStep \/ PromptStep \/ OutboxStep \/ FileStep

LeasesSpec == LeasesInit /\ [][LeasesNext]_leaseVars

--------------------------------
\* LoginLimiter, OutboxDispatch, FileAssets: a counter of failed logins is
\* never passed; no event is forgotten, counted twice or locked for ever;
\* what a row says of a file is true of the store.
LeasesHold ==
  /\ part = "prompt" => Prompt!NeverOverLimit
  /\ part = "outbox" =>
       Outbox!TypeOK /\ Outbox!ReadRowIsCurrent /\ Outbox!NoLockIsLeaked /\ Outbox!NoneForgotten
  /\ part \in {"uploads", "promotions"} =>
       Assets!TypeOK /\ Assets!ReadyIsStored /\ Assets!AttachedIsReady /\ Assets!GoneIsGone

\* LoginLimiter, OutboxDispatch: whoever is slow changes nothing of what
\* has passed to somebody else: no session is opened when the counters are
\* full, no lease of another try is taken away, no outcome overwritten.
SlowIsHarmless ==
  /\ [][part = "prompt" => Prompt!OpensBelowLimit]_leaseVars
  /\ LeaseOfOwner
  /\ Outbox!OutcomeStands
=============================================================================
