-------------------------- MODULE HighRiskCommands --------------------------
(***************************************************************************)
(* The preview and confirm protocol of headquarters' high-risk commands:   *)
(* a preview shows the impact of a command and stores what was shown; the  *)
(* confirmation names the preview and executes only on what was shown.     *)
(* Both requests carry an idempotency key.                                 *)
(*                                                                         *)
(* A request runs as a serializable transaction that is retried when it    *)
(* conflicts.  Its snapshot is taken by its first statement, which is the  *)
(* advisory lock itself: a request that has waited for the lock still      *)
(* reads the past, and only the conflict at commit tells it so.            *)
(*                                                                         *)
(* The resource stands for the rows a command locks: its version, and the  *)
(* facts its impact is computed from, which other commands change too.     *)
(***************************************************************************)
EXTENDS Naturals, FiniteSets, TLC

CONSTANTS
  Requests,     \* HTTP requests, repeated ones included
  Keys,         \* idempotency keys the administrator uses
  Tokens,       \* preview tokens that may be issued
  Facts,        \* what the impact of the command may be
  MaxTries,     \* attempts of one transaction: 3 in the code
  MaxPrevious,  \* HMAC keys kept beside the current one: 3 in the code
  MaxRotations, \* rotations of the HMAC key
  MaxVersion    \* version up to which other commands change the resource

ASSUME CommandsAssumption ==
  /\ MaxTries \in Nat \ {0} /\ MaxPrevious \in Nat /\ MaxRotations \in Nat
  /\ MaxVersion \in Nat \ {0} /\ Facts # {}
  /\ Requests \cap {"NONE", "CONFLICT", "ERROR"} = {}

VARIABLES
  resource,  \* version and facts of the resource
  record,    \* idempotency_record by scope and key
  preview,   \* high_risk_operation_preview by token
  request,   \* each request: what it asks, its transaction and its answer
  ring,      \* generation of the current HMAC key
  done       \* confirmations that were executed: request, token and key

vars == <<resource, record, preview, request, ring, done>>

Scopes == {"PREVIEW", "CONFIRM"}
NoRecord == [body |-> "NONE", answer |-> "NONE", gen |-> 0]
NoPreview == [status |-> "NONE", version |-> 0, shown |-> "NONE", gen |-> 0]
Database == [resource |-> resource, record |-> record, preview |-> preview]

\* Previews may have been issued before, under keys not used again.
Init ==
  /\ resource = [version |-> 1, facts |-> CHOOSE f \in Facts : TRUE]
  /\ record = [sk \in Scopes \X Keys |-> NoRecord]
  /\ preview \in [Tokens -> {NoPreview, [status |-> "ISSUED", version |-> 1,
                                         shown |-> resource.facts, gen |-> 1]}]
  /\ request = [r \in Requests |-> [at |-> "NEW"]]
  /\ ring = 1
  /\ done = {}

\* A hash made with generation gen can still be verified.
InRing(gen) == gen + MaxPrevious >= ring

--------------------------------
\* A request and its transaction.

Submit(r, scope, key, token) ==
  /\ request[r].at = "NEW"
  /\ IF scope = "CONFIRM" THEN preview[token] # NoPreview
     ELSE preview[token] = NoPreview /\ \A o \in Requests : request[o].at # "NEW" => request[o].token # token
  /\ request' = [request EXCEPT ![r] =
       [at |-> "BEGIN", scope |-> scope, key |-> key, token |-> token, tries |-> 0]]
  /\ UNCHANGED <<resource, record, preview, ring, done>>

Snapshot(r) ==
  /\ request[r].at = "BEGIN"
  /\ request' = [request EXCEPT ![r] =
       [at |-> "WAIT", scope |-> @.scope, key |-> @.key, token |-> @.token,
        tries |-> @.tries + 1, seen |-> Database]]
  /\ UNCHANGED <<resource, record, preview, ring, done>>

Locks(r, s) ==
  /\ request[s].at = "RUN"
  /\ request[s].scope = request[r].scope /\ request[s].key = request[r].key

TakeLock(r) ==
  /\ request[r].at = "WAIT"
  /\ \A s \in Requests : ~Locks(r, s)
  /\ request' = [request EXCEPT ![r].at = "RUN"]
  /\ UNCHANGED <<resource, record, preview, ring, done>>

Answered(r, answer) ==
  request' = [request EXCEPT ![r] =
    [at |-> "END", scope |-> @.scope, key |-> @.key, token |-> @.token, answer |-> answer]]

\* A row the transaction wants to write has changed since its snapshot.
StaleRecord(r) ==
  LET q == request[r] IN q.seen.record[<<q.scope, q.key>>] # record[<<q.scope, q.key>>]
StalePreview(r) ==
  /\ preview[request[r].token].status = "CONSUMED"
  /\ request[r].seen.preview[request[r].token].status # "CONSUMED"
StaleResource(r) == request[r].seen.resource # resource
Stale(r) == StaleRecord(r) \/ StalePreview(r) \/ StaleResource(r)

\* The claim of the key: what the record answers, if there is one.
Claimed(r) ==
  LET rec == request[r].seen.record[<<request[r].scope, request[r].key>>] IN
  IF rec = NoRecord THEN "EXECUTE"
  ELSE IF InRing(rec.gen) /\ rec.body = request[r].token THEN "REPLAY" ELSE "CONFLICT"

Complete(r) ==
  record' = [record EXCEPT ![<<request[r].scope, request[r].key>>] =
               [body |-> request[r].token, answer |-> r, gen |-> ring]]

\* A preview never replays: its token is not stored, so the answer is lost.
RefusePreview(r) ==
  /\ request[r].at = "RUN" /\ request[r].scope = "PREVIEW"
  /\ Claimed(r) # "EXECUTE"
  /\ Answered(r, "CONFLICT")
  /\ UNCHANGED <<resource, record, preview, ring, done>>

IssuePreview(r) ==
  LET t == request[r].token IN
  /\ request[r].at = "RUN" /\ request[r].scope = "PREVIEW"
  /\ Claimed(r) = "EXECUTE"
  /\ ~StaleRecord(r)
  /\ preview' = [preview EXCEPT ![t] =
       [status |-> "ISSUED", version |-> request[r].seen.resource.version,
        shown |-> request[r].seen.resource.facts, gen |-> ring]]
  /\ Complete(r)
  /\ Answered(r, r)
  /\ UNCHANGED <<resource, ring, done>>

\* Mutant: the record is found under its key alone.
ReplayAnyBody(r) ==
  LET rec == request[r].seen.record[<<"CONFIRM", request[r].key>>] IN
  /\ request[r].at = "RUN" /\ request[r].scope = "CONFIRM"
  /\ rec # NoRecord
  /\ Answered(r, rec.answer)
  /\ UNCHANGED <<resource, record, preview, ring, done>>

Replay(r) ==
  /\ request[r].at = "RUN" /\ request[r].scope = "CONFIRM"
  /\ Claimed(r) = "REPLAY"
  /\ Answered(r, request[r].seen.record[<<"CONFIRM", request[r].key>>].answer)
  /\ UNCHANGED <<resource, record, preview, ring, done>>

\* Mutant: the preview's version is compared and its impact is not.
ConfirmableByVersion(r) ==
  LET seen == request[r].seen
      p == seen.preview[request[r].token]
  IN  /\ seen.record[<<"PREVIEW", request[r].key>>] = NoRecord
      /\ InRing(p.gen) /\ p.status = "ISSUED"
      /\ p.version = seen.resource.version

\* What consumeInTransaction and the command check, on the snapshot.
Confirmable(r) ==
  LET seen == request[r].seen
      p == seen.preview[request[r].token]
  IN  /\ seen.record[<<"PREVIEW", request[r].key>>] = NoRecord
      /\ InRing(p.gen) /\ p.status = "ISSUED"
      /\ p.version = seen.resource.version /\ p.shown = seen.resource.facts

RefuseConfirm(r) ==
  /\ request[r].at = "RUN" /\ request[r].scope = "CONFIRM"
  /\ \/ Claimed(r) = "CONFLICT"
     \/ Claimed(r) = "EXECUTE" /\ ~Confirmable(r)
  /\ Answered(r, "CONFLICT")
  /\ UNCHANGED <<resource, record, preview, ring, done>>

Execute(r, facts) ==
  /\ request[r].at = "RUN" /\ request[r].scope = "CONFIRM"
  /\ Claimed(r) = "EXECUTE" /\ Confirmable(r)
  /\ ~Stale(r)
  /\ resource' = [version |-> resource.version + 1, facts |-> facts]
  /\ preview' = [preview EXCEPT ![request[r].token].status = "CONSUMED"]
  /\ Complete(r)
  /\ done' = done \cup {[by |-> r, token |-> request[r].token, key |-> request[r].key]}
  /\ Answered(r, r)
  /\ UNCHANGED ring

\* runSerializableTransaction: again on a new snapshot, or an error.
Abort(r) ==
  /\ request[r].at = "RUN"
  /\ Claimed(r) = "EXECUTE"
  /\ Stale(r)
  /\ IF request[r].tries >= MaxTries THEN Answered(r, "ERROR")
     ELSE request' = [request EXCEPT ![r] =
            [at |-> "BEGIN", scope |-> @.scope, key |-> @.key, token |-> @.token, tries |-> @.tries]]
  /\ UNCHANGED <<resource, record, preview, ring, done>>

--------------------------------
\* The rest of the world.

\* Another command changes what the impact depends on, with or without a new
\* version of the resource itself.
OtherCommand(facts) ==
  /\ resource.version < MaxVersion
  /\ \E v \in {resource.version, resource.version + 1} :
       resource' = [version |-> v, facts |-> facts]
  /\ UNCHANGED <<record, preview, request, ring, done>>

ExpirePreview(t) ==
  /\ preview[t].status = "ISSUED"
  /\ preview' = [preview EXCEPT ![t].status = "EXPIRED"]
  /\ UNCHANGED <<resource, record, request, ring, done>>

\* After a day the record counts as absent; previews live for minutes only.
ExpireRecord(s, k) ==
  /\ record[<<s, k>>] # NoRecord
  /\ \A t \in Tokens : preview[t].status # "ISSUED"
  /\ \A r \in Requests : request[r].at \in {"NEW", "END"}
  /\ record' = [record EXCEPT ![<<s, k>>] = NoRecord]
  /\ UNCHANGED <<resource, preview, request, ring, done>>

Rotate ==
  /\ ring <= MaxRotations
  /\ ring' = ring + 1
  /\ UNCHANGED <<resource, record, preview, request, done>>

--------------------------------
Serve(r) ==
  \/ Snapshot(r) \/ TakeLock(r)
  \/ RefusePreview(r) \/ IssuePreview(r)
  \/ Replay(r) \/ RefuseConfirm(r) \/ \E f \in Facts : Execute(r, f)
  \/ Abort(r)

Next ==
  \/ \E r \in Requests, s \in Scopes, k \in Keys, t \in Tokens : Submit(r, s, k, t)
  \/ \E r \in Requests : Serve(r)
  \/ \E f \in Facts : OtherCommand(f)
  \/ \E t \in Tokens : ExpirePreview(t)
  \/ \E s \in Scopes, k \in Keys : ExpireRecord(s, k)
  \/ Rotate

Spec == Init /\ [][Next]_vars

\* The API serves the requests it has accepted.
FairSpec == Spec /\ \A r \in Requests : WF_vars(Serve(r))

--------------------------------
\* Every row has a value its columns allow.
TypeOK ==
  /\ resource \in [version : Nat, facts : Facts]
  /\ record \in [Scopes \X Keys ->
       [body : Tokens \cup {"NONE"}, answer : Requests \cup {"NONE"}, gen : Nat]]
  /\ \A t \in Tokens : preview[t].status \in {"NONE", "ISSUED", "CONSUMED", "EXPIRED"}
  /\ \A r \in Requests :
       \/ request[r].at \in {"NEW", "BEGIN", "WAIT", "RUN"}
       \/ request[r].at = "END" /\ request[r].answer \in Requests \cup {"CONFLICT", "ERROR"}
  /\ ring \in 1..(MaxRotations + 1)

\* A preview is executed at most once, whatever keys the confirmations
\* carry, however they overlap, and long after the idempotency record of
\* the first one is gone.
PreviewExecutesOnce == \A d, e \in done : d.token = e.token => d = e

\* A confirmation is answered with success only with the result of its own
\* preview: a repeated request gets the first one's answer, a reused key
\* never gets the answer of another command.
AnswerIsTheCommands ==
  \A r \in Requests :
    request[r].at = "END" /\ request[r].scope = "CONFIRM" /\ request[r].answer \in Requests =>
      \E d \in done : d.by = request[r].answer /\ d.token = request[r].token /\ d.key = request[r].key

\* The administrator confirms what was shown: when a command executes, the
\* resource is, at the commit and not only at the read, exactly what the
\* preview showed.
ExecutesWhatWasShown ==
  [][\A t \in Tokens : preview[t].status # "CONSUMED" /\ preview'[t].status = "CONSUMED" =>
       preview[t].shown = resource.facts /\ preview[t].version = resource.version]_vars

\* Every request is answered: the lock queue, the conflicts and the
\* retries come to an end, with a result, a refusal or an error.
EveryRequestAnswered == \A r \in Requests : request[r].at = "BEGIN" ~> request[r].at = "END"
--------------------------------
\* For TLC: requests, keys and tokens are interchangeable.
Symmetry == Permutations(Requests) \cup Permutations(Keys) \cup Permutations(Tokens)

\* A command and its confirmations agree: executed once, answered with its
\* own result.
CommandsAgree == TypeOK /\ PreviewExecutesOnce /\ AnswerIsTheCommands
=============================================================================
