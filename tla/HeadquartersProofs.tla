------------------------- MODULE HeadquartersProofs -------------------------
(***************************************************************************)
(* Theorems about headquarters: high-risk commands, the sign-in of         *)
(* administrators, its recovery and the refund page.  Each component moves *)
(* by its own steps only, so its inductive invariant holds of the suite.   *)
(***************************************************************************)
EXTENDS MCHeadquarters, FiniteSetTheorems, SequenceTheorems, WellFoundedInduction, TLAPS

--------------------------------
\* Commands with a preview, for any number of requests, keys, tokens,
\* tries and rotations.  A token is issued once (Tokened), what a preview
\* shows never changes (Shown), an executed preview is consumed
\* (Consumed), and records only hold answers that were given (Recorded):
\* in the snapshots of the transactions as well as in the database.

ResourceRow == [version : Nat, facts : Facts]
RecordRow == [body : Tokens \cup {"NONE"}, answer : Requests \cup {"NONE"}, gen : Nat]
PreviewRow == [status : {"NONE", "ISSUED", "CONSUMED", "EXPIRED"}, version : Nat,
               shown : Facts \cup {"NONE"}, gen : Nat]
Records == [Scopes \X Keys -> RecordRow]
Previews == [Tokens -> PreviewRow]
DatabaseRow == [resource : ResourceRow, record : Records, preview : Previews]
Asked == [at : {"NEW"}]
Begun == [at : {"BEGIN"}, scope : Scopes, key : Keys, token : Tokens, tries : Nat]
Running == [at : {"WAIT", "RUN"}, scope : Scopes, key : Keys, token : Tokens, tries : Nat,
            seen : DatabaseRow]
Ended == [at : {"END"}, scope : Scopes, key : Keys, token : Tokens,
          answer : Requests \cup {"CONFLICT", "ERROR"}]
Rows == Begun \cup Running \cup Ended

Shapes ==
  /\ resource \in ResourceRow
  /\ record \in Records
  /\ preview \in Previews
  /\ request \in [Requests -> Asked \cup Rows]
  /\ ring \in 1..(MaxRotations + 1)

\* A request for a preview has its token to itself until the preview is there.
Tokened ==
  \A r \in Requests : request[r].at # "NEW" /\ request[r].scope = "PREVIEW" =>
    /\ request[r].at = "END" \/ preview[request[r].token] = NoPreview
    /\ \A o \in Requests :
         (/\ request[o].at # "NEW" /\ request[o].scope = "PREVIEW"
          /\ request[o].token = request[r].token) => o = r

\* A transaction whose snapshot shows a preview sees what it still shows.
Shown ==
  \A r \in Requests : request[r].at \in {"WAIT", "RUN"} =>
    \A t \in Tokens : request[r].seen.preview[t] # NoPreview =>
      /\ preview[t] # NoPreview
      /\ preview[t].version = request[r].seen.preview[t].version
      /\ preview[t].shown = request[r].seen.preview[t].shown

DoneRows == [by : Requests, token : Tokens, key : Keys]

\* An executed preview is consumed, once.
Consumed ==
  /\ done \subseteq DoneRows
  /\ \A d \in done : d.token \in Tokens /\ preview[d.token].status = "CONSUMED"
  /\ PreviewExecutesOnce

\* Whether the record rows rec hold but answers of executed commands.
Backed(rec) ==
  \A k \in Keys : rec[<<"CONFIRM", k>>] # NoRecord =>
    \E d \in done : /\ d.by = rec[<<"CONFIRM", k>>].answer /\ d.key = k
                    /\ d.token = rec[<<"CONFIRM", k>>].body

Recorded ==
  /\ Backed(record)
  /\ \A r \in Requests : request[r].at \in {"WAIT", "RUN"} => Backed(request[r].seen.record)

IInv == Shapes /\ Tokened /\ Shown /\ Consumed /\ Recorded /\ AnswerIsTheCommands

USE CommandsAssumption DEF RecordRow, PreviewRow, ResourceRow, Records, Previews

--------------------------------
LEMMA RowKinds ==
  ASSUME NEW row \in Rows
  PROVE  /\ row.at # "NEW" /\ row.scope \in Scopes /\ row.key \in Keys /\ row.token \in Tokens
         /\ row.at = "BEGIN" => row \in Begun
         /\ row.at \in {"WAIT", "RUN"} => row \in Running
         /\ row.at = "END" => row \in Ended
         /\ row.at \in {"BEGIN", "WAIT", "RUN", "END"}
BY DEF Rows, Begun, Running, Ended

LEMMA RequestKinds ==
  ASSUME Shapes, NEW r \in Requests, request[r].at # "NEW"
  PROVE  request[r] \in Rows
BY DEF Shapes, Asked

LEMMA InitIInv == Init => IInv
<1> SUFFICES ASSUME Init PROVE IInv
  OBVIOUS
<1>1. (CHOOSE f \in Facts : TRUE) \in Facts
  OBVIOUS
<1>2. /\ resource \in ResourceRow /\ record \in Records /\ ring \in 1..(MaxRotations + 1)
      /\ request \in [Requests -> Asked]
  BY <1>1 DEF Init, NoRecord, Asked
<1>3. preview \in Previews BY <1>2 DEF Init, NoPreview
<1>4. Shapes BY <1>2, <1>3 DEF Shapes
<1>5. \A r \in Requests : request[r].at = "NEW" BY DEF Init
<1>6. Tokened /\ Shown /\ Consumed /\ Recorded /\ AnswerIsTheCommands
  BY <1>5 DEF Init, Tokened, Shown, Consumed, Recorded, AnswerIsTheCommands, Backed, PreviewExecutesOnce,
     Scopes, DoneRows
<1> QED BY <1>4, <1>6 DEF IInv

--------------------------------
\* What the rest of the invariant asks of one row of a request.
Sound(row) ==
  /\ row.at \in {"WAIT", "RUN"} =>
       /\ Backed(row.seen.record)
       /\ \A t \in Tokens : row.seen.preview[t] # NoPreview =>
            /\ preview[t] # NoPreview
            /\ preview[t].version = row.seen.preview[t].version
            /\ preview[t].shown = row.seen.preview[t].shown
  /\ row.at = "END" /\ row.scope = "CONFIRM" /\ row.answer \in Requests =>
       \E d \in done : d.by = row.answer /\ d.token = row.token /\ d.key = row.key

LEMMA AllSound ==
  ASSUME IInv
  PROVE  \A r \in Requests : Sound(request[r])
BY DEF IInv, Sound, Shown, Recorded, AnswerIsTheCommands

\* Steps that change one request and nothing else.
LEMMA RequestOnly ==
  ASSUME IInv, NEW r \in Requests, NEW row \in Rows,
         request' = [request EXCEPT ![r] = row],
         UNCHANGED <<resource, record, preview, ring, done>>,
         row.scope = "PREVIEW" =>
           /\ row.at = "END" \/ preview[row.token] = NoPreview
           /\ \A o \in Requests \ {r} :
                request[o].at # "NEW" /\ request[o].scope = "PREVIEW" => request[o].token # row.token,
         Sound(row)
  PROVE  IInv'
<1>1. \A o \in Requests : request'[o] = (IF o = r THEN row ELSE request[o]) BY DEF IInv, Shapes
<1>2. Shapes' BY DEF IInv, Shapes
<1>3. Tokened' BY <1>1, RowKinds DEF IInv, Tokened
<1>4. Shown' BY <1>1 DEF IInv, Shown, Sound
<1>5. Consumed' BY DEF IInv, Consumed, PreviewExecutesOnce
<1>6. Recorded'
  <2>1. Backed(record) /\ \A o \in Requests : request'[o].at \in {"WAIT", "RUN"} => Backed(request'[o].seen.record)
    BY <1>1 DEF IInv, Recorded, Sound
  <2> QED BY <2>1 DEF Recorded, Backed
<1>7. AnswerIsTheCommands' BY <1>1 DEF IInv, AnswerIsTheCommands, Sound
<1> QED BY <1>2, <1>3, <1>4, <1>5, <1>6, <1>7 DEF IInv

\* The same for a request that goes on with what it asked.
LEMMA Continued ==
  ASSUME IInv, NEW r \in Requests, request[r].at \in {"BEGIN", "WAIT", "RUN"}, NEW row \in Rows,
         request' = [request EXCEPT ![r] = row],
         UNCHANGED <<resource, record, preview, ring, done>>,
         row.scope = request[r].scope, row.token = request[r].token, Sound(row)
  PROVE  IInv'
<1>1. row.scope = "PREVIEW" =>
        /\ row.at = "END" \/ preview[row.token] = NoPreview
        /\ \A o \in Requests \ {r} :
             request[o].at # "NEW" /\ request[o].scope = "PREVIEW" => request[o].token # row.token
  BY DEF IInv, Tokened
<1> QED BY <1>1, RequestOnly

LEMMA SubmitStep ==
  ASSUME IInv, NEW r \in Requests, NEW scope \in Scopes, NEW key \in Keys, NEW token \in Tokens,
         Submit(r, scope, key, token)
  PROVE  IInv'
<1> DEFINE row == [at |-> "BEGIN", scope |-> scope, key |-> key, token |-> token, tries |-> 0]
<1>1. row \in Rows /\ Sound(row) BY DEF Rows, Begun, Sound
<1>2. /\ request' = [request EXCEPT ![r] = row] /\ UNCHANGED <<resource, record, preview, ring, done>>
  BY DEF Submit
<1>3. row.scope = "PREVIEW" =>
        /\ preview[row.token] = NoPreview
        /\ \A o \in Requests : request[o].at # "NEW" => request[o].token # row.token
  BY DEF Submit, Scopes
<1> HIDE DEF row
<1> QED BY <1>1, <1>2, <1>3, RequestOnly

LEMMA SnapshotStep ==
  ASSUME IInv, NEW r \in Requests, Snapshot(r)
  PROVE  IInv'
<1> DEFINE row == [at |-> "WAIT", scope |-> request[r].scope, key |-> request[r].key,
                   token |-> request[r].token, tries |-> request[r].tries + 1, seen |-> Database]
<1>1. request[r].at = "BEGIN" /\ request[r] \in Begun BY RequestKinds, RowKinds DEF Snapshot, IInv
<1>2. Database \in DatabaseRow /\ Database.record = record /\ Database.preview = preview
  BY DEF IInv, Shapes, Database, DatabaseRow
<1>3. row \in Running /\ row.at = "WAIT" /\ row.seen = Database
      /\ row.scope = request[r].scope /\ row.token = request[r].token
  BY <1>1, <1>2 DEF Running, Begun
<1>4. request' = [request EXCEPT ![r] = row] /\ UNCHANGED <<resource, record, preview, ring, done>>
  BY DEF Snapshot, IInv, Shapes
<1> HIDE DEF row
<1>5. Sound(row) BY <1>2, <1>3 DEF Sound, IInv, Recorded
<1> QED BY <1>1, <1>3, <1>4, <1>5, Continued DEF Rows

LEMMA TakeLockStep ==
  ASSUME IInv, NEW r \in Requests, TakeLock(r)
  PROVE  IInv'
<1> DEFINE row == [request[r] EXCEPT !.at = "RUN"]
<1>1. request[r].at = "WAIT" /\ request[r] \in Running BY RequestKinds, RowKinds DEF TakeLock, IInv
<1>2. /\ row \in Running /\ row.at = "RUN" /\ row.seen = request[r].seen
      /\ row.scope = request[r].scope /\ row.token = request[r].token
  BY <1>1 DEF Running
<1>3. request' = [request EXCEPT ![r] = row] /\ UNCHANGED <<resource, record, preview, ring, done>>
  BY DEF TakeLock, IInv, Shapes
<1> HIDE DEF row
<1>4. Sound(row) BY <1>1, <1>2, AllSound DEF Sound
<1> QED BY <1>1, <1>2, <1>3, <1>4, Continued DEF Rows

\* A request that is answered, whatever it wrote.
LEMMA AnsweredRow ==
  ASSUME IInv, NEW r \in Requests, request[r].at = "RUN",
         NEW answer \in Requests \cup {"CONFLICT", "ERROR"}, Answered(r, answer)
  PROVE  \E row \in Ended :
           /\ request' = [request EXCEPT ![r] = row]
           /\ row.scope = request[r].scope /\ row.key = request[r].key
           /\ row.token = request[r].token /\ row.answer = answer
           /\ row.at = "END" /\ row \in Rows
<1> DEFINE row == [at |-> "END", scope |-> request[r].scope, key |-> request[r].key,
                   token |-> request[r].token, answer |-> answer]
<1>1. request[r] \in Running BY RequestKinds, RowKinds DEF IInv
<1>2. /\ row \in Ended /\ row \in Rows /\ row.at = "END"
      /\ row.scope = request[r].scope /\ row.key = request[r].key
      /\ row.token = request[r].token /\ row.answer = answer
  BY <1>1 DEF Ended, Rows, Running
<1>3. request' = [request EXCEPT ![r] = row] BY DEF Answered, IInv, Shapes
<1> HIDE DEF row
<1> QED BY <1>2, <1>3

LEMMA RefusedStep ==
  ASSUME IInv, NEW r \in Requests, request[r].at = "RUN",
         NEW answer \in {"CONFLICT", "ERROR"}, Answered(r, answer),
         UNCHANGED <<resource, record, preview, ring, done>>
  PROVE  IInv'
<1>1. PICK row \in Ended :
        /\ request' = [request EXCEPT ![r] = row]
        /\ row.scope = request[r].scope /\ row.key = request[r].key
        /\ row.token = request[r].token /\ row.answer = answer
        /\ row.at = "END" /\ row \in Rows
  BY AnsweredRow
<1>2. Sound(row) BY <1>1 DEF Sound
<1> QED BY <1>1, <1>2, Continued

LEMMA ReplayStep ==
  ASSUME IInv, NEW r \in Requests, Replay(r)
  PROVE  IInv'
<1> DEFINE rec == request[r].seen.record[<<"CONFIRM", request[r].key>>]
<1>1. /\ request[r].at = "RUN" /\ request[r].scope = "CONFIRM"
      /\ request[r] \in Running
      /\ UNCHANGED <<resource, record, preview, ring, done>>
  BY RequestKinds, RowKinds DEF Replay, IInv
<1>2. rec # NoRecord /\ rec.body = request[r].token BY <1>1 DEF Replay, Claimed
<1>3. request[r].key \in Keys /\ Backed(request[r].seen.record)  BY <1>1, AllSound DEF Sound, Running
<1>4. PICK d \in done : d.by = rec.answer /\ d.key = request[r].key /\ d.token = request[r].token
  BY <1>2, <1>3 DEF Backed
<1>5. rec \in RecordRow /\ <<"CONFIRM", request[r].key>> \in Scopes \X Keys
  BY <1>1, <1>3 DEF Running, DatabaseRow, Scopes
<1>6. rec.answer \in Requests BY <1>4, <1>5 DEF IInv, Consumed, DoneRows
<1>7. Answered(r, rec.answer) BY <1>1 DEF Replay
<1> HIDE DEF rec
<1>8. PICK row \in Ended :
        /\ request' = [request EXCEPT ![r] = row]
        /\ row.scope = request[r].scope /\ row.key = request[r].key
        /\ row.token = request[r].token /\ row.answer = rec.answer
        /\ row.at = "END" /\ row \in Rows
  BY <1>1, <1>6, <1>7, AnsweredRow
<1>9. Sound(row) BY <1>4, <1>8 DEF Sound
<1> QED BY <1>1, <1>8, <1>9, Continued

LEMMA AbortStep ==
  ASSUME IInv, NEW r \in Requests, Abort(r)
  PROVE  IInv'
<1>1. /\ request[r].at = "RUN" /\ request[r] \in Running
      /\ UNCHANGED <<resource, record, preview, ring, done>>
  BY RequestKinds, RowKinds DEF Abort, IInv
<1>2. CASE request[r].tries >= MaxTries BY <1>1, <1>2, RefusedStep DEF Abort
<1>3. CASE ~(request[r].tries >= MaxTries)
  <2> DEFINE row == [at |-> "BEGIN", scope |-> request[r].scope, key |-> request[r].key,
                     token |-> request[r].token, tries |-> request[r].tries]
  <2>1. row \in Begun /\ row \in Rows /\ Sound(row)
        /\ row.scope = request[r].scope /\ row.token = request[r].token
    BY <1>1 DEF Begun, Rows, Running, Sound
  <2>2. request' = [request EXCEPT ![r] = row] BY <1>3 DEF Abort, IInv, Shapes
  <2> HIDE DEF row
  <2> QED BY <1>1, <2>1, <2>2, Continued
<1> QED BY <1>2, <1>3

LEMMA IssuePreviewStep ==
  ASSUME IInv, NEW r \in Requests, IssuePreview(r)
  PROVE  IInv'
<1> DEFINE t == request[r].token
           k == request[r].key
           display == [status |-> "ISSUED", version |-> request[r].seen.resource.version,
                       shown |-> request[r].seen.resource.facts, gen |-> ring]
           rec == [body |-> t, answer |-> r, gen |-> ring]
<1>1. /\ request[r].at = "RUN" /\ request[r].scope = "PREVIEW" /\ request[r] \in Running
      /\ resource' = resource /\ ring' = ring /\ done' = done
  BY RequestKinds, RowKinds DEF IssuePreview, IInv
<1>2. t \in Tokens /\ k \in Keys /\ preview[t] = NoPreview BY <1>1 DEF Running, IInv, Tokened
<1>3. ring \in Nat /\ request[r].seen.resource \in ResourceRow  BY <1>1 DEF IInv, Shapes, Running, DatabaseRow
<1>4. display \in PreviewRow /\ display # NoPreview /\ display.status = "ISSUED" /\ rec \in RecordRow
  BY <1>2, <1>3 DEF NoPreview
<1>5. /\ preview' = [preview EXCEPT ![t] = display]
      /\ record' = [record EXCEPT ![<<"PREVIEW", k>>] = rec]
  BY <1>1 DEF IssuePreview, Complete
<1>6. PICK row \in Ended :
        /\ request' = [request EXCEPT ![r] = row]
        /\ row.scope = "PREVIEW" /\ row.key = k /\ row.token = t /\ row.answer = r
        /\ row.at = "END" /\ row \in Rows
  BY <1>1, AnsweredRow DEF IssuePreview
<1> HIDE DEF display, rec
<1>7. /\ preview \in Previews /\ record \in Records /\ request \in [Requests -> Asked \cup Rows]
  BY DEF IInv, Shapes
<1>8. Shapes'
  <2>1. preview' \in Previews BY <1>4, <1>5, <1>7
  <2>2. record' \in Records BY <1>4, <1>5, <1>7
  <2>3. request' \in [Requests -> Asked \cup Rows] BY <1>6, <1>7
  <2> QED BY <1>1, <2>1, <2>2, <2>3 DEF Shapes, IInv
<1>9. \A o \in Requests : request'[o] = (IF o = r THEN row ELSE request[o]) BY <1>6, <1>7
<1>10. \A u \in Tokens : preview'[u] = (IF u = t THEN display ELSE preview[u]) BY <1>5, <1>7
<1>11. \A j \in Keys : record'[<<"CONFIRM", j>>] = record[<<"CONFIRM", j>>]  BY <1>5, <1>7 DEF Scopes
<1> HIDE DEF t, k
<1>12. Tokened'
  <2>1. \A o \in Requests : request'[o].at # "NEW" /\ request'[o].scope = "PREVIEW" =>
          /\ request[o].at # "NEW" /\ request[o].scope = "PREVIEW"
          /\ request'[o].token = request[o].token
          /\ o # r => request'[o] = request[o]
    BY <1>1, <1>6, <1>9 DEF t
  <2>2. \A o \in Requests : o # r /\ request'[o].at # "NEW" /\ request'[o].scope = "PREVIEW" =>
          request[o].token # t /\ request[o].token \in Tokens
    BY <1>1, <2>1, RequestKinds, RowKinds DEF IInv, Tokened, t
  <2>3. ASSUME NEW o \in Requests, request'[o].at # "NEW", request'[o].scope = "PREVIEW"
        PROVE  request'[o].at = "END" \/ preview'[request'[o].token] = NoPreview
    <3>1. CASE o = r BY <3>1, <1>6, <1>9
    <3>2. CASE o # r
      <4>1. preview'[request[o].token] = preview[request[o].token] BY <2>2, <2>3, <3>2, <1>10
      <4>2. request[o].at = "END" \/ preview[request[o].token] = NoPreview  BY <2>1, <2>3 DEF IInv, Tokened
      <4> QED BY <4>1, <4>2, <2>1, <2>3, <3>2
    <3> QED BY <3>1, <3>2
  <2>4. ASSUME NEW o \in Requests, request'[o].at # "NEW", request'[o].scope = "PREVIEW",
               NEW q \in Requests, request'[q].at # "NEW", request'[q].scope = "PREVIEW",
               request'[q].token = request'[o].token
        PROVE  q = o
    BY <2>1, <2>4 DEF IInv, Tokened
  <2> QED BY <2>3, <2>4 DEF Tokened
<1>13. Shown'
  <2>1. \A o \in Requests : request'[o].at \in {"WAIT", "RUN"} => o # r /\ request'[o] = request[o]
    BY <1>6, <1>9
  <2>2. \A o \in Requests : request[o].at \in {"WAIT", "RUN"} =>
          \A u \in Tokens : request[o].seen.preview[u] # NoPreview => u # t /\ preview'[u] = preview[u]
    BY <1>2, <1>10 DEF IInv, Shown
  <2> QED BY <2>1, <2>2 DEF IInv, Shown
<1>14. Consumed'
  <2>1. \A d \in done : d.token # t BY <1>2 DEF IInv, Consumed, NoPreview
  <2> QED BY <1>1, <1>10, <2>1 DEF IInv, Consumed, DoneRows, PreviewExecutesOnce
<1>15. Recorded'
  <2>1. ASSUME NEW j \in Keys, record'[<<"CONFIRM", j>>] # NoRecord
        PROVE  \E d \in done' : /\ d.by = record'[<<"CONFIRM", j>>].answer /\ d.key = j
                                /\ d.token = record'[<<"CONFIRM", j>>].body
    <3>1. Backed(record) BY DEF IInv, Recorded
    <3> QED BY <1>1, <1>11, <2>1, <3>1 DEF Backed
  <2>2. \A o \in Requests : request'[o].at \in {"WAIT", "RUN"} => Backed(request'[o].seen.record)
    BY <1>6, <1>9 DEF IInv, Recorded
  <2>3. Backed(record)' BY <2>1 DEF Backed
  <2>4. ASSUME NEW o \in Requests, request'[o].at \in {"WAIT", "RUN"}
        PROVE  Backed(request[o].seen.record)'
    BY <1>1, <2>2, <2>4 DEF Backed
  <2> QED BY <2>3, <2>4 DEF Recorded
<1>16. AnswerIsTheCommands' BY <1>1, <1>6, <1>9 DEF IInv, AnswerIsTheCommands
<1> QED BY <1>8, <1>12, <1>13, <1>14, <1>15, <1>16 DEF IInv

LEMMA ExecuteStep ==
  ASSUME IInv, NEW r \in Requests, NEW facts \in Facts, Execute(r, facts)
  PROVE  IInv'
<1> DEFINE t == request[r].token
           k == request[r].key
           d0 == [by |-> r, token |-> t, key |-> k]
           rec == [body |-> t, answer |-> r, gen |-> ring]
<1>1. /\ request[r].at = "RUN" /\ request[r].scope = "CONFIRM" /\ request[r] \in Running
      /\ ring' = ring /\ done' = done \cup {d0}
      /\ resource' = [version |-> resource.version + 1, facts |-> facts]
  BY RequestKinds, RowKinds DEF Execute, IInv
<1>2. t \in Tokens /\ k \in Keys BY <1>1 DEF Running
<1>3. preview[t].status # "CONSUMED" BY <1>1 DEF Execute, Confirmable, Stale, StalePreview
<1>4. request[r].seen.preview[t] # NoPreview BY DEF Execute, Confirmable, NoPreview
<1>5. preview[t] # NoPreview BY <1>1, <1>2, <1>4 DEF IInv, Shown
<1>6. /\ preview' = [preview EXCEPT ![t].status = "CONSUMED"]
      /\ record' = [record EXCEPT ![<<"CONFIRM", k>>] = rec]
  BY <1>1 DEF Execute, Complete
<1>7. PICK row \in Ended :
        /\ request' = [request EXCEPT ![r] = row]
        /\ row.scope = "CONFIRM" /\ row.key = k /\ row.token = t /\ row.answer = r
        /\ row.at = "END" /\ row \in Rows
  BY <1>1, AnsweredRow DEF Execute
<1>8. /\ preview \in Previews /\ record \in Records /\ request \in [Requests -> Asked \cup Rows]
      /\ resource \in ResourceRow /\ ring \in Nat
  BY DEF IInv, Shapes
<1>9. d0 \in DoneRows /\ d0.by = r /\ d0.token = t /\ d0.key = k BY <1>2 DEF DoneRows
<1>10. rec \in RecordRow /\ rec.body = t /\ rec.answer = r /\ rec # NoRecord  BY <1>2, <1>8 DEF NoRecord
<1> HIDE DEF d0, rec
<1>11. \A u \in Tokens :
         /\ preview'[u].version = preview[u].version /\ preview'[u].shown = preview[u].shown
         /\ u # t => preview'[u] = preview[u]
  BY <1>6, <1>8
<1>12. preview'[t].status = "CONSUMED" /\ preview'[t] # NoPreview BY <1>2, <1>6, <1>8 DEF NoPreview
<1>13. \A o \in Requests : request'[o] = (IF o = r THEN row ELSE request[o]) BY <1>7, <1>8
<1>14. \A j \in Keys : record'[<<"CONFIRM", j>>] = (IF j = k THEN rec ELSE record[<<"CONFIRM", j>>])
  BY <1>6, <1>8 DEF Scopes
<1>15. Shapes'
  <2>1. preview' \in Previews BY <1>2, <1>6, <1>8
  <2>2. record' \in Records BY <1>6, <1>8, <1>10
  <2>3. request' \in [Requests -> Asked \cup Rows] BY <1>7, <1>8
  <2>4. resource' \in ResourceRow BY <1>1, <1>8
  <2> QED BY <1>1, <2>1, <2>2, <2>3, <2>4 DEF Shapes, IInv
<1> HIDE DEF t, k
<1>16. Tokened'
  <2>1. \A o \in Requests : request'[o].at # "NEW" /\ request'[o].scope = "PREVIEW" =>
          o # r /\ request'[o] = request[o] /\ request[o].token \in Tokens
    BY <1>7, <1>13, <1>8, RequestKinds, RowKinds DEF IInv
  <2>2. ASSUME NEW o \in Requests, request'[o].at # "NEW", request'[o].scope = "PREVIEW"
        PROVE  request'[o].at = "END" \/ preview'[request'[o].token] = NoPreview
    <3>1. request[o].at = "END" \/ preview[request[o].token] = NoPreview  BY <2>1, <2>2 DEF IInv, Tokened
    <3> QED BY <2>1, <2>2, <3>1, <1>5, <1>11
  <2>3. ASSUME NEW o \in Requests, request'[o].at # "NEW", request'[o].scope = "PREVIEW",
               NEW q \in Requests, request'[q].at # "NEW", request'[q].scope = "PREVIEW",
               request'[q].token = request'[o].token
        PROVE  q = o
    BY <2>1, <2>3 DEF IInv, Tokened
  <2> QED BY <2>2, <2>3 DEF Tokened
<1>17. Shown'
  <2>1. \A o \in Requests : request'[o].at \in {"WAIT", "RUN"} => request'[o] = request[o]  BY <1>7, <1>13
  <2>2. \A u \in Tokens : preview[u] # NoPreview => preview'[u] # NoPreview BY <1>11, <1>12
  <2> QED BY <1>11, <2>1, <2>2 DEF IInv, Shown
<1>18. Consumed'
  <2>1. \A d \in done : d.token # t /\ d.token \in Tokens /\ preview[d.token].status = "CONSUMED"
    BY <1>3 DEF IInv, Consumed
  <2>2. \A d \in done' : d.token \in Tokens /\ preview'[d.token].status = "CONSUMED"
    BY <1>1, <1>2, <1>9, <1>11, <1>12, <2>1
  <2>3. PreviewExecutesOnce' BY <1>1, <1>9, <2>1 DEF IInv, Consumed, PreviewExecutesOnce
  <2> QED BY <1>1, <1>9, <2>2, <2>3 DEF IInv, Consumed
<1>19. done \subseteq done' /\ d0 \in done' BY <1>1
<1>20. Recorded'
  <2>1. ASSUME NEW j \in Keys, record'[<<"CONFIRM", j>>] # NoRecord
        PROVE  \E d \in done' : /\ d.by = record'[<<"CONFIRM", j>>].answer /\ d.key = j
                                /\ d.token = record'[<<"CONFIRM", j>>].body
    <3>1. CASE j = k BY <3>1, <1>9, <1>10, <1>14, <1>19
    <3>2. CASE j # k BY <3>2, <2>1, <1>14, <1>19 DEF IInv, Recorded, Backed
    <3> QED BY <3>1, <3>2
  <2>2. ASSUME NEW o \in Requests, request'[o].at \in {"WAIT", "RUN"}
        PROVE  Backed(request[o].seen.record)' /\ request'[o] = request[o]
    <3>1. request'[o] = request[o] /\ Backed(request[o].seen.record)  BY <1>7, <1>13, <2>2 DEF IInv, Recorded
    <3> QED BY <1>19, <3>1 DEF Backed
  <2>3. Backed(record)' BY <2>1 DEF Backed
  <2> QED BY <2>2, <2>3 DEF Recorded
<1>21. AnswerIsTheCommands' BY <1>7, <1>9, <1>13, <1>19 DEF IInv, AnswerIsTheCommands
<1> QED BY <1>15, <1>16, <1>17, <1>18, <1>20, <1>21 DEF IInv

\* Steps of the rest of the world, which leave the requests alone.
LEMMA RowsOnly ==
  ASSUME IInv, Shapes', UNCHANGED <<request, done>>,
         \A t \in Tokens : /\ preview'[t].version = preview[t].version
                           /\ preview'[t].shown = preview[t].shown
                           /\ preview[t].status = "CONSUMED" => preview'[t].status = "CONSUMED"
                           /\ preview[t] = NoPreview <=> preview'[t] = NoPreview,
         \A k \in Keys : record'[<<"CONFIRM", k>>] \in {record[<<"CONFIRM", k>>], NoRecord}
  PROVE  IInv'
<1>1. Tokened'
  <2>1. \A o \in Requests : request[o].at # "NEW" => request[o].token \in Tokens
    BY RequestKinds, RowKinds DEF IInv
  <2> QED BY <2>1 DEF IInv, Tokened
<1>2. Shown' BY DEF IInv, Shown
<1>3. Consumed' BY DEF IInv, Consumed, PreviewExecutesOnce
<1>4. Recorded'
  <2>1. Backed(record)'
    <3>1. Backed(record) BY DEF IInv, Recorded
    <3>2. ASSUME NEW j \in Keys, record'[<<"CONFIRM", j>>] # NoRecord
          PROVE  \E d \in done' : /\ d.by = record'[<<"CONFIRM", j>>].answer /\ d.key = j
                                  /\ d.token = record'[<<"CONFIRM", j>>].body
      <4>1. record'[<<"CONFIRM", j>>] = record[<<"CONFIRM", j>>] BY <3>2
      <4> QED BY <3>1, <3>2, <4>1 DEF Backed
    <3> QED BY <3>2 DEF Backed
  <2>2. ASSUME NEW o \in Requests, request'[o].at \in {"WAIT", "RUN"}
        PROVE  Backed(request[o].seen.record)'
    BY <2>2 DEF IInv, Recorded, Backed
  <2> QED BY <2>1, <2>2 DEF Recorded
<1>5. AnswerIsTheCommands' BY DEF IInv, AnswerIsTheCommands
<1> QED BY <1>1, <1>2, <1>3, <1>4, <1>5 DEF IInv

LEMMA WorldStep ==
  ASSUME IInv,
         \/ \E f \in Facts : OtherCommand(f)
         \/ \E t \in Tokens : ExpirePreview(t)
         \/ \E s \in Scopes, k \in Keys : ExpireRecord(s, k)
         \/ Rotate
  PROVE  IInv'
<1>1. /\ preview \in Previews /\ record \in Records /\ resource \in ResourceRow
      /\ ring \in 1..(MaxRotations + 1) /\ request \in [Requests -> Asked \cup Rows]
  BY DEF IInv, Shapes
<1>2. ASSUME NEW f \in Facts, OtherCommand(f)
      PROVE  IInv'
  <2>1. UNCHANGED <<record, preview, request, ring, done>> BY <1>2 DEF OtherCommand
  <2>2. PICK v \in {resource.version, resource.version + 1} : resource' = [version |-> v, facts |-> f]
    BY <1>2 DEF OtherCommand
  <2>3. resource' \in ResourceRow BY <1>1, <2>2
  <2>4. Shapes' BY <1>1, <2>1, <2>3 DEF Shapes
  <2> QED BY <2>1, <2>4, RowsOnly
<1>3. ASSUME NEW t \in Tokens, ExpirePreview(t)
      PROVE  IInv'
  <2>1. /\ UNCHANGED <<resource, record, request, ring, done>>
        /\ preview' = [preview EXCEPT ![t].status = "EXPIRED"] /\ preview[t].status = "ISSUED"
    BY <1>3 DEF ExpirePreview
  <2>2. \A u \in Tokens : /\ preview'[u].version = preview[u].version
                          /\ preview'[u].shown = preview[u].shown
                          /\ u # t => preview'[u] = preview[u]
    BY <1>1, <2>1
  <2>3. preview'[t].status = "EXPIRED" /\ preview' \in Previews BY <1>1, <2>1
  <2>4. preview'[t] # NoPreview /\ preview[t] # NoPreview BY <2>1, <2>3 DEF NoPreview
  <2>5. Shapes' BY <1>1, <2>1, <2>3 DEF Shapes
  <2> QED BY <2>1, <2>2, <2>4, <2>5, RowsOnly
<1>4. ASSUME NEW s \in Scopes, NEW k \in Keys, ExpireRecord(s, k)
      PROVE  IInv'
  <2>1. /\ UNCHANGED <<resource, preview, request, ring, done>>
        /\ record' = [record EXCEPT ![<<s, k>>] = NoRecord]
    BY <1>4 DEF ExpireRecord
  <2>2. \A j \in Keys : record'[<<"CONFIRM", j>>] \in {record[<<"CONFIRM", j>>], NoRecord}
    BY <1>1, <2>1 DEF Scopes
  <2>3. record' \in Records BY <1>1, <2>1 DEF NoRecord
  <2>4. Shapes' BY <1>1, <2>1, <2>3 DEF Shapes
  <2> QED BY <2>1, <2>2, <2>4, RowsOnly
<1>5. CASE Rotate
  <2>1. UNCHANGED <<resource, record, preview, request, done>> /\ ring' \in 1..(MaxRotations + 1)
    BY <1>1, <1>5 DEF Rotate
  <2>2. Shapes' BY <1>1, <2>1 DEF Shapes
  <2> QED BY <2>1, <2>2, RowsOnly
<1> QED BY <1>2, <1>3, <1>4, <1>5

--------------------------------
LEMMA NextIInv == IInv /\ [Next]_vars => IInv'
<1> SUFFICES ASSUME IInv, [Next]_vars
             PROVE  IInv'
  OBVIOUS
<1>1. ASSUME NEW r \in Requests, NEW s \in Scopes, NEW k \in Keys, NEW t \in Tokens, Submit(r, s, k, t)
      PROVE  IInv'
  BY <1>1, SubmitStep
<1>2. ASSUME NEW r \in Requests, Serve(r)
      PROVE  IInv'
  <2>1. CASE Snapshot(r) BY <2>1, SnapshotStep
  <2>2. CASE TakeLock(r) BY <2>2, TakeLockStep
  <2>3. CASE RefusePreview(r) BY <2>3, RefusedStep DEF RefusePreview
  <2>4. CASE IssuePreview(r) BY <2>4, IssuePreviewStep
  <2>5. CASE Replay(r) BY <2>5, ReplayStep
  <2>6. CASE RefuseConfirm(r) BY <2>6, RefusedStep DEF RefuseConfirm
  <2>7. ASSUME NEW f \in Facts, Execute(r, f)
        PROVE  IInv'
    BY <2>7, ExecuteStep
  <2>8. CASE Abort(r) BY <2>8, AbortStep
  <2> QED BY <1>2, <2>1, <2>2, <2>3, <2>4, <2>5, <2>6, <2>7, <2>8 DEF Serve
<1>3. CASE UNCHANGED vars
  BY <1>3 DEF vars, IInv, Shapes, Tokened, Shown, Consumed, PreviewExecutesOnce, Recorded, Backed,
     AnswerIsTheCommands
<1> QED BY <1>1, <1>2, <1>3, WorldStep DEF Next

\* The invariant the other theorems rest on.
THEOREM Inductive == Spec => []IInv
BY InitIInv, NextIInv, PTL DEF Spec

\* Every row has a value its columns allow.
THEOREM Typed == Spec => []TypeOK
<1>1. IInv => TypeOK
  <2> SUFFICES ASSUME IInv PROVE TypeOK
    OBVIOUS
  <2>1. \A r \in Requests :
          \/ request[r].at \in {"NEW", "BEGIN", "WAIT", "RUN"}
          \/ request[r].at = "END" /\ request[r].answer \in Requests \cup {"CONFLICT", "ERROR"}
    BY RequestKinds, RowKinds DEF IInv, Ended
  <2> QED BY <2>1 DEF IInv, Shapes, TypeOK
<1> QED BY <1>1, Inductive, PTL

\* A preview is executed at most once, whatever the keys and the overlap
\* of its confirmations.
THEOREM ExecutedOnce == Spec => []PreviewExecutesOnce
<1>1. IInv => PreviewExecutesOnce BY DEF IInv, Consumed
<1> QED BY <1>1, Inductive, PTL

\* A successful answer is the result of the command that was asked for.
THEOREM AnswersTheCommand == Spec => []AnswerIsTheCommands
<1>1. IInv => AnswerIsTheCommands BY DEF IInv
<1> QED BY <1>1, Inductive, PTL

\* What executes is, at the commit, exactly what the preview showed.
THEOREM WhatWasShown == Spec => ExecutesWhatWasShown
<1> DEFINE A == \A t \in Tokens : preview[t].status # "CONSUMED" /\ preview'[t].status = "CONSUMED" =>
                  preview[t].shown = resource.facts /\ preview[t].version = resource.version
<1>1. IInv /\ [Next]_vars => A
  <2> SUFFICES ASSUME IInv, [Next]_vars, NEW t \in Tokens,
                      preview[t].status # "CONSUMED", preview'[t].status = "CONSUMED"
               PROVE  preview[t].shown = resource.facts /\ preview[t].version = resource.version
    OBVIOUS
  <2>1. preview \in Previews BY DEF IInv, Shapes
  <2>2. preview' # preview
    OBVIOUS
  <2>3. \/ \E r \in Requests : IssuePreview(r)
        \/ \E r \in Requests, f \in Facts : Execute(r, f)
        \/ \E u \in Tokens : ExpirePreview(u)
    <3>1. \/ UNCHANGED preview
          \/ \E r \in Requests : Serve(r)
          \/ \E u \in Tokens : ExpirePreview(u)
      <4>1. \A r \in Requests, s \in Scopes, k \in Keys, u \in Tokens :
              Submit(r, s, k, u) => UNCHANGED preview
        BY DEF Submit
      <4>2. \A f \in Facts : OtherCommand(f) => UNCHANGED preview BY DEF OtherCommand
      <4>3. \A s \in Scopes, k \in Keys : ExpireRecord(s, k) => UNCHANGED preview  BY DEF ExpireRecord
      <4>4. Rotate \/ UNCHANGED vars => UNCHANGED preview BY DEF Rotate, vars
      <4> QED BY <4>1, <4>2, <4>3, <4>4 DEF Next
    <3>2. ASSUME NEW r \in Requests, Serve(r)
          PROVE  \/ UNCHANGED preview \/ IssuePreview(r)
                 \/ \E f \in Facts : Execute(r, f)
      BY <3>2 DEF Serve, Snapshot, TakeLock, RefusePreview, Replay, RefuseConfirm, Abort
    <3> QED BY <2>2, <3>1, <3>2
  <2>4. ~(\E r \in Requests : IssuePreview(r))
    <3> SUFFICES ASSUME NEW r \in Requests, IssuePreview(r) PROVE FALSE
      OBVIOUS
    <3> DEFINE row == [status |-> "ISSUED", version |-> request[r].seen.resource.version,
                       shown |-> request[r].seen.resource.facts, gen |-> ring]
    <3>1. preview' = [preview EXCEPT ![request[r].token] = row] /\ row.status = "ISSUED"  BY DEF IssuePreview
    <3> HIDE DEF row
    <3> QED BY <2>1, <3>1
  <2>5. ~(\E u \in Tokens : ExpirePreview(u)) BY <2>1 DEF ExpirePreview
  <2>6. PICK r \in Requests, f \in Facts : Execute(r, f) BY <2>3, <2>4, <2>5
  <2>7. request[r].token = t BY <2>1, <2>6 DEF Execute
  <2>8. /\ request[r].at = "RUN" /\ request[r].seen.preview[t] # NoPreview
        /\ request[r].seen.preview[t].shown = request[r].seen.resource.facts
        /\ request[r].seen.preview[t].version = request[r].seen.resource.version
        /\ request[r].seen.resource = resource
    BY <2>6, <2>7 DEF Execute, Confirmable, Stale, StaleResource, NoPreview
  <2> QED BY <2>8 DEF IInv, Shown
<1>2. IInv /\ [Next]_vars => [A]_vars BY <1>1
<1> HIDE DEF A
<1>3. Spec => [][A]_vars BY <1>2, Inductive, PTL DEF Spec
<1> QED BY <1>3 DEF ExecutesWhatWasShown, A

\* Together: rows, previews and answers agree in every reachable state.
THEOREM Agree == Spec => []CommandsAgree
BY Typed, ExecutedOnce, AnswersTheCommand, PTL DEF CommandsAgree

--------------------------------
\* Signing in: what a session may do rests on when and with which factor
\* it was opened (SessionsRight); that a proof counts once, on what the
\* account remembers of the proofs it took (ProofsRight).

\* The operators of the libraries, as the instance names them.
LEMMA AccountPlain ==
  /\ \A S : Account!IsFiniteSet(S) = IsFiniteSet(S)
  /\ \A S : Account!Cardinality(S) = Cardinality(S)
<1>1. \A S : Account!IsFiniteSet(S) = IsFiniteSet(S) BY DEF Account!IsFiniteSet, IsFiniteSet
<1>2. \A S : Account!Cardinality(S) = Cardinality(S) BY DEF Account!Cardinality, Cardinality
<1> QED BY <1>1, <1>2

LEMMA AccountFS_EmptySet ==
  /\ Account!IsFiniteSet({}) /\ Account!Cardinality({}) = 0
  /\ \A S : Account!IsFiniteSet(S) => (Account!Cardinality(S) = 0 <=> S = {})
BY FS_EmptySet, AccountPlain

LEMMA AccountFS_Singleton ==
  /\ \A e : Account!IsFiniteSet({e}) /\ Account!Cardinality({e}) = 1
  /\ \A S : Account!IsFiniteSet(S) => (Account!Cardinality(S) = 1 <=> \E e : S = {e})
BY FS_Singleton, AccountPlain

AccountFactorRow == [status: {"NONE", "PENDING", "ACTIVE", "REVOKED"}, last: 0 .. LastStep]
AccountSessionRow == [status: {"NONE", "LIVE", "LAPSED", "REVOKED"}, factor: 0 .. FactorCount,
               family: 0 .. SessionCount, first: 0 .. Changes, since: 0 .. Changes]
AccountChallengeRow == [purpose: Account!Purposes \union {"NONE"}, factor: 0 .. FactorCount,
                 session: 0 .. SessionCount, version: 0 .. Changes,
                 status: {"NONE", "PENDING", "VERIFIED", "CONSUMED", "EXPIRED", "LOCKED"}]
AccountGrantRow == [status: {"NONE", "ACTIVE", "CONSUMED", "EXPIRED", "REVOKED"}, session: 0 .. SessionCount]
AccountLimitRow == [failed: 0 .. Failures - 1, locked: {FALSE}] \union [failed: {Failures}, locked: {TRUE}]

AccountInUse(f) == factor[f].status \in {"PENDING", "ACTIVE"}

\* At most one factor is enrolled or being enrolled.
AccountFactorsRight ==
    /\ factor \in [Account!Factors -> AccountFactorRow]
    /\ \A f, g \in Account!Factors : AccountInUse(f) /\ AccountInUse(g) => f = g

\* A session was opened in the family it founded, or in that of a session
\* opened before it.
AccountRowsRight ==
    /\ version \in Account!Versions
    /\ session \in [Account!Sessions -> AccountSessionRow]
    /\ \A s \in Account!Sessions : IF session[s].status = "NONE" THEN session[s] = Account!NoSession
          ELSE session[s].factor \in Account!Factors /\ session[s].family \in Account!Sessions
               /\ session[session[s].family].status # "NONE"

AccountByActiveFactor == \A s \in Account!Sessions : Account!Unrevoked(s)
   => factor[session[s].factor].status = "ACTIVE"

AccountSessionsRight == AccountRowsRight /\ Account!LiveSessionsOfToday /\ Account!OneSessionOfFamily
   /\ AccountByActiveFactor

AccountChallengesRight ==
    /\ challenge \in [Account!Challenges -> AccountChallengeRow]
    /\ limit \in [Account!Purposes -> AccountLimitRow]
    /\ \A k \in Account!Challenges : challenge[k].status = "PENDING" =>
          /\ challenge[k].purpose \in Account!Purposes /\ challenge[k].factor \in Account!Factors
          /\ challenge[k].purpose = "REAUTH" => challenge[k].session \in Account!Sessions
    /\ Account!LockedMeansNoChallenge

\* Time steps count up, a recovery code is in one print until it is used.
AccountProofsRight ==
    /\ unused \in [Account!Factors -> SUBSET Account!Codes]
    /\ uses \in [Account!Factors -> [Account!Steps \union Account!Codes -> Nat]]
    /\ \A f \in Account!Factors :
          /\ \A p \in Account!Steps \union Account!Codes : uses[f][p] <= 1
          /\ \A t \in Account!Steps : factor[f].last < t => uses[f][t] = 0
          /\ \A c \in unused[f] : uses[f][c] = 0
          /\ \A c, d \in unused[f] : c = d
          /\ unused[f] # {} => factor[f].status = "ACTIVE"

AccountGrantsRight == grant \in [Account!Grants -> AccountGrantRow] /\ approved \in BOOLEAN

AccountInv == AccountFactorsRight /\ AccountSessionsRight /\ AccountChallengesRight /\ AccountProofsRight
   /\ AccountGrantsRight

AccountGiven == Account!AdminSessionsAssumption

\* A nonempty set of numbers has a least member.
LEMMA AccountLeast ==
  ASSUME NEW T \in SUBSET Nat, T # {}
  PROVE  Account!Min(T) \in T
<1> DEFINE R == OpToRel(<, Nat)
<1>1. IsWellFoundedOn(R, Nat) BY NatLessThanWellFounded
<1> HIDE DEF R
<1>2. PICK x \in T : \A y \in T : ~(<<y, x>> \in R) BY <1>1, WFMin
<1>3. R = {ss \in Nat \X Nat : ss[1] < ss[2]} BY Zenon DEF R, OpToRel
<1>4. ASSUME NEW y \in T PROVE x =< y
  <2>1. x \in Nat /\ y \in Nat
    OBVIOUS
  <2>2. <<y, x>> \notin R BY <1>2
  <2>3. ~(y < x) BY <1>3, <2>1, <2>2
  <2> QED BY <2>1, <2>3
<1>5. \E z \in T : \A y \in T : z =< y BY <1>4
<1> QED BY <1>5 DEF Account!Min

LEMMA AccountNumbers ==
  ASSUME AccountGiven
  PROVE  /\ Failures \in Nat \ {0} /\ Changes \in Nat \ {0} /\ LastStep \in Nat /\ PrintedCodes \in Nat
         /\ FactorCount \in Nat /\ ChallengeCount \in Nat /\ SessionCount \in Nat /\ GrantCount \in Nat
         /\ Account!Steps \subseteq Nat \ {0} /\ Account!Codes \subseteq Nat \ {0}
             /\ Account!Steps \intersect Account!Codes = {}
         /\ Account!Factors \subseteq Nat \ {0} /\ Account!Sessions \subseteq Nat \ {0}
             /\ Account!Versions \subseteq Nat \ {0}
         /\ Account!Challenges \subseteq Nat \ {0} /\ Account!Grants \subseteq Nat \ {0}
BY DEF AccountGiven, Account!AdminSessionsAssumption, Account!Steps, Account!Codes, Account!Factors,
   Account!Sessions, Account!Versions, Account!Challenges, Account!Grants

\* The first free row of a table.
LEMMA AccountFreeRow ==
  ASSUME NEW n \in Nat, NEW table, DOMAIN table = 1 .. n, NEW none, Account!FreeRows(table, none) # {}
  PROVE  /\ Account!Min(Account!FreeRows(table, none)) \in 1 .. n
         /\ table[Account!Min(Account!FreeRows(table, none))] = none
<1>1. Account!FreeRows(table, none) \in SUBSET Nat BY DEF Account!FreeRows
<1>2. Account!Min(Account!FreeRows(table, none)) \in Account!FreeRows(table, none)  BY <1>1, AccountLeast
<1> QED BY <1>2 DEF Account!FreeRows

LEMMA AccountInitially ==
  ASSUME AccountGiven, Account!Init
  PROVE  AccountInv
<1>1. AccountFactorsRight
  BY AccountNumbers DEF Account!Init, AccountFactorsRight, AccountFactorRow, Account!NoFactor, AccountInUse
<1>2. AccountSessionsRight
  BY AccountNumbers DEF Account!Init, AccountSessionsRight, AccountRowsRight, Account!LiveSessionsOfToday,
     Account!OneSessionOfFamily, AccountByActiveFactor, AccountSessionRow, Account!NoSession,
     Account!Unrevoked, Account!Versions
<1>3. AccountChallengesRight
  <2>1. Account!NoChallenge \in AccountChallengeRow /\ Account!NoChallenge.status = "NONE"
    BY AccountNumbers DEF Account!NoChallenge, AccountChallengeRow
  <2>2. Account!Free \in AccountLimitRow BY AccountNumbers DEF Account!Free, AccountLimitRow
  <2> QED BY <2>1, <2>2 DEF Account!Init, AccountChallengesRight, Account!LockedMeansNoChallenge
<1>4. AccountProofsRight BY AccountNumbers DEF Account!Init, AccountProofsRight, Account!NoFactor
<1>5. AccountGrantsRight
  BY AccountNumbers DEF Account!Init, AccountGrantsRight, AccountGrantRow, Account!NoGrant
<1> QED BY <1>1, <1>2, <1>3, <1>4, <1>5 DEF AccountInv

--------------------------------
\* How a step moves the factors: no active one is given up.
AccountFactorsKeep == \A f \in Account!Factors : factor[f].status = "ACTIVE" => factor'[f].status = "ACTIVE"

AccountSameRow(s) ==
    /\ session'[s].family = session[s].family /\ session'[s].factor = session[s].factor
    /\ session'[s].since = session[s].since

\* Session s stays as it is, or loses its use.
AccountFades(s) == session'[s] = session[s]
            \/ (Account!Unrevoked(s) /\ AccountSameRow(s) /\ session'[s].status \in {"LAPSED", "REVOKED"})

AccountSessionsFade ==
    /\ session' \in [Account!Sessions -> AccountSessionRow] /\ version' = version
    /\ \A s \in Account!Sessions : AccountFades(s)

AccountSessionsEnd ==
    /\ session' \in [Account!Sessions -> AccountSessionRow] /\ version' \in Account!Versions
    /\ \A s \in Account!Sessions : AccountFades(s) /\ ~Account!Unrevoked(s)'

AccountSessionOpens(n, f) ==
    /\ session[n] = Account!NoSession /\ version' = version
    /\ session' = [session EXCEPT ![n] = [status |-> "LIVE", family |-> n, factor |-> f,
                                          first |-> version, since |-> version]]

\* What a revocation does.
LEMMA AccountRevokedRows ==
  ASSUME AccountRowsRight, NEW ss
  PROVE  /\ Account!Revoked(ss) \in [Account!Sessions -> AccountSessionRow]
         /\ \A s \in Account!Sessions : IF s \in ss /\ Account!Unrevoked(s)
               THEN /\ Account!Revoked(ss)[s].family = session[s].family
                        /\ Account!Revoked(ss)[s].factor = session[s].factor
                    /\ Account!Revoked(ss)[s].since = session[s].since
                        /\ Account!Revoked(ss)[s].status = "REVOKED"
               ELSE Account!Revoked(ss)[s] = session[s]
<1>1. \A s \in Account!Sessions : session[s] \in AccountSessionRow BY DEF AccountRowsRight
<1>2. \A s \in Account!Sessions : [session[s] EXCEPT !.status = "REVOKED"] \in AccountSessionRow
  BY <1>1 DEF AccountSessionRow
<1>3. \A s \in Account!Sessions : LET r == [session[s] EXCEPT !.status = "REVOKED"] IN
        r.family = session[s].family /\ r.factor = session[s].factor /\ r.since = session[s].since
        /\ r.status = "REVOKED"
  BY <1>1 DEF AccountSessionRow
<1> QED BY <1>1, <1>2, <1>3 DEF Account!Revoked

LEMMA AccountRowsFade ==
  ASSUME AccountRowsRight, session' \in [Account!Sessions -> AccountSessionRow], version' \in Account!Versions,
         \A s \in Account!Sessions : AccountFades(s)
  PROVE  AccountRowsRight' /\ (\A s \in Account!Sessions : Account!Unrevoked(s)' => Account!Unrevoked(s))
<1>1. \A s \in Account!Sessions : session'[s].status = "NONE" <=> session[s].status = "NONE"
  BY DEF AccountFades, Account!Unrevoked
<1>2. \A s \in Account!Sessions : session[s].status # "NONE" => AccountSameRow(s)
  BY DEF AccountFades, AccountSameRow
<1>3. ASSUME NEW s \in Account!Sessions
      PROVE  IF session'[s].status = "NONE" THEN session'[s] = Account!NoSession
             ELSE session'[s].factor \in Account!Factors /\ session'[s].family \in Account!Sessions
                  /\ session'[session'[s].family].status # "NONE"
  <2>1. CASE session[s].status = "NONE"  BY <2>1, <1>1 DEF AccountFades, Account!Unrevoked, AccountRowsRight
  <2>2. CASE session[s].status # "NONE"
    <3>1. session[s].factor \in Account!Factors /\ session[s].family \in Account!Sessions
          /\ session[session[s].family].status # "NONE"
      BY <2>2 DEF AccountRowsRight
    <3> QED BY <2>2, <3>1, <1>1, <1>2 DEF AccountSameRow
  <2> QED BY <2>1, <2>2
<1>4. \A s \in Account!Sessions : Account!Unrevoked(s)' => Account!Unrevoked(s)
  BY DEF AccountFades, Account!Unrevoked
<1> QED BY <1>3, <1>4 DEF AccountRowsRight

LEMMA AccountSessionsFadeRight ==
  ASSUME AccountSessionsRight, AccountSessionsFade, AccountFactorsKeep
  PROVE  AccountSessionsRight'
<1> USE DEF AccountSessionsRight
<1>1. AccountRowsRight' /\ (\A s \in Account!Sessions : Account!Unrevoked(s)' => Account!Unrevoked(s))
  BY AccountRowsFade DEF AccountSessionsFade, AccountRowsRight
<1>2. \A s \in Account!Sessions : Account!Unrevoked(s)' => AccountSameRow(s)
  BY DEF AccountSessionsFade, AccountFades, AccountSameRow
<1>3. Account!LiveSessionsOfToday'
  BY <1>1, <1>2 DEF Account!LiveSessionsOfToday, AccountSameRow, AccountSessionsFade
<1>4. Account!OneSessionOfFamily' BY <1>1, <1>2 DEF Account!OneSessionOfFamily, AccountSameRow
<1>5. AccountByActiveFactor'
  <2>1. \A s \in Account!Sessions : Account!Unrevoked(s) => session[s].factor \in Account!Factors
    BY DEF AccountRowsRight, Account!Unrevoked
  <2> QED BY <1>1, <1>2, <2>1 DEF AccountByActiveFactor, AccountSameRow, AccountFactorsKeep
<1> QED BY <1>1, <1>3, <1>4, <1>5

LEMMA AccountSessionsEndRight ==
  ASSUME AccountSessionsRight, AccountSessionsEnd
  PROVE  AccountSessionsRight'
<1> USE DEF AccountSessionsRight
<1>1. AccountRowsRight' BY AccountRowsFade DEF AccountSessionsEnd
<1> QED BY <1>1 DEF AccountSessionsEnd, Account!LiveSessionsOfToday, Account!OneSessionOfFamily,
   AccountByActiveFactor

LEMMA AccountSessionOpensRight ==
  ASSUME AccountGiven, AccountSessionsRight, NEW n \in Account!Sessions, NEW f \in Account!Factors,
         AccountSessionOpens(n, f),
         factor'[f].status = "ACTIVE", AccountFactorsKeep
  PROVE  AccountSessionsRight'
<1> USE DEF AccountSessionsRight
<1>1. version \in Account!Versions /\ version' = version /\ session \in [Account!Sessions -> AccountSessionRow]
      /\ session[n].status = "NONE"
  BY DEF AccountRowsRight, AccountSessionOpens, Account!NoSession
<1>2. PICK r : r = [status |-> "LIVE", family |-> n, factor |-> f, first |-> version, since |-> version]
  OBVIOUS
<1>3. r \in AccountSessionRow
  BY <1>1, <1>2, AccountNumbers DEF AccountSessionRow, Account!Factors, Account!Sessions, Account!Versions
<1>4. /\ session' \in [Account!Sessions -> AccountSessionRow] /\ session'[n] = r
      /\ \A s \in Account!Sessions : s # n => session'[s] = session[s]
  BY <1>1, <1>2, <1>3 DEF AccountSessionOpens
<1>5. r.status = "LIVE" /\ r.family = n /\ r.factor = f /\ r.since = version BY <1>2
<1>6. \A s \in Account!Sessions : session[s].status # "NONE"
   => session[s].family \in Account!Sessions /\ session[s].family # n
  BY <1>1 DEF AccountRowsRight
<1>7. AccountRowsRight'
  <2>1. ASSUME NEW s \in Account!Sessions
        PROVE  IF session'[s].status = "NONE" THEN session'[s] = Account!NoSession
               ELSE session'[s].factor \in Account!Factors /\ session'[s].family \in Account!Sessions
                    /\ session'[session'[s].family].status # "NONE"
    <3>1. CASE s = n BY <3>1, <1>4, <1>5
    <3>2. CASE s # n
      <4>1. session'[s] = session[s] BY <3>2, <1>4
      <4>2. session[s].status # "NONE" => session'[session[s].family] = session[session[s].family]
        BY <1>4, <1>6
      <4> QED BY <4>1, <4>2 DEF AccountRowsRight
    <3> QED BY <3>1, <3>2
  <2> QED BY <2>1, <1>1, <1>4 DEF AccountRowsRight
<1>8. Account!LiveSessionsOfToday'  BY <1>1, <1>4, <1>5 DEF Account!LiveSessionsOfToday, Account!Unrevoked
<1>9. Account!OneSessionOfFamily'  BY <1>4, <1>5, <1>6 DEF Account!OneSessionOfFamily, Account!Unrevoked
<1>10. AccountByActiveFactor'
  <2>1. \A s \in Account!Sessions : Account!Unrevoked(s) => session[s].factor \in Account!Factors
    BY DEF AccountRowsRight, Account!Unrevoked
  <2> QED BY <2>1, <1>4, <1>5 DEF AccountByActiveFactor, AccountFactorsKeep, Account!Unrevoked
<1> QED BY <1>7, <1>8, <1>9, <1>10

--------------------------------
\* How a step moves the challenges: it settles some, and unlocks.
AccountChallengesSettle ==
    /\ challenge' \in [Account!Challenges -> AccountChallengeRow]
    /\ \A k \in Account!Challenges : challenge'[k] = challenge[k] \/ challenge'[k].status # "PENDING"

AccountUnlocks ==
    /\ limit' \in [Account!Purposes -> AccountLimitRow]
    /\ \A p \in Account!Purposes : limit'[p].locked => limit[p].locked

LEMMA AccountChallengesSettleRight ==
  ASSUME AccountChallengesRight, AccountChallengesSettle, AccountUnlocks
  PROVE  AccountChallengesRight'
BY DEF AccountChallengesRight, AccountChallengesSettle, AccountUnlocks, Account!LockedMeansNoChallenge

LEMMA AccountUnlockedUnlocks ==
  ASSUME AccountGiven, AccountChallengesRight, NEW ps, limit' = Account!Unlocked(ps)
  PROVE  AccountUnlocks
<1>1. Account!Free \in AccountLimitRow /\ ~Account!Free.locked
  BY AccountNumbers DEF Account!Free, AccountLimitRow
<1> QED BY <1>1 DEF AccountUnlocks, Account!Unlocked, AccountChallengesRight

LEMMA AccountStatusSettles ==
  ASSUME AccountChallengesRight, NEW k \in Account!Challenges,
         NEW status \in {"VERIFIED", "CONSUMED", "EXPIRED", "LOCKED"},
         challenge' = [challenge EXCEPT ![k].status = status]
  PROVE  AccountChallengesSettle
<1>1. challenge[k] \in AccountChallengeRow BY DEF AccountChallengesRight
<1>2. PICK r : r = [challenge[k] EXCEPT !.status = status]
  OBVIOUS
<1>3. r \in AccountChallengeRow /\ r.status = status BY <1>1, <1>2 DEF AccountChallengeRow
<1>4. challenge' = [challenge EXCEPT ![k] = r] BY <1>2
<1> QED BY <1>3, <1>4 DEF AccountChallengesSettle, AccountChallengesRight

\* A new challenge c in row n.
AccountIssues(n, c) ==
    /\ challenge' \in [Account!Challenges -> AccountChallengeRow] /\ challenge'[n] = c
    /\ \A k \in Account!Challenges : k # n => challenge'[k] = challenge[k] \/ challenge'[k].status # "PENDING"
    /\ c.purpose \in Account!Purposes /\ c.factor \in Account!Factors
        /\ (c.purpose = "REAUTH" => c.session \in Account!Sessions)
    /\ ~limit[c.purpose].locked /\ limit' = limit

LEMMA AccountIssuesRight ==
  ASSUME AccountChallengesRight, NEW n \in Account!Challenges, NEW c, AccountIssues(n, c)
  PROVE  AccountChallengesRight'
<1>1. \A k \in Account!Challenges : challenge'[k].status = "PENDING" =>
        /\ challenge'[k].purpose \in Account!Purposes /\ challenge'[k].factor \in Account!Factors
        /\ (challenge'[k].purpose = "REAUTH" => challenge'[k].session \in Account!Sessions)
        /\ ~limit[challenge'[k].purpose].locked
  BY DEF AccountChallengesRight, AccountIssues, Account!LockedMeansNoChallenge
<1> QED BY <1>1 DEF AccountChallengesRight, AccountIssues, Account!LockedMeansNoChallenge

\* Settling the challenges that satisfy a condition.
LEMMA AccountExpiredRow ==
  ASSUME AccountChallengesRight, NEW status \in {"VERIFIED", "CONSUMED", "EXPIRED", "LOCKED"}
  PROVE  \A k \in Account!Challenges : [challenge[k] EXCEPT !.status = status] \in AccountChallengeRow
                               /\ [challenge[k] EXCEPT !.status = status].status = status
<1>1. \A k \in Account!Challenges : challenge[k] \in AccountChallengeRow  BY DEF AccountChallengesRight
<1> QED BY <1>1 DEF AccountChallengeRow

\* Challenge c takes row n, and the stale ones lose their use.
AccountReplaces(n, c, stale) ==
    challenge' = [[k \in Account!Challenges |-> IF k \in stale THEN [challenge[k] EXCEPT !.status = "EXPIRED"]
                                        ELSE challenge[k]] EXCEPT ![n] = c]

LEMMA AccountIssueRows ==
  ASSUME AccountChallengesRight, NEW stale, NEW n \in Account!Challenges, NEW c \in AccountChallengeRow,
         AccountReplaces(n, c, stale)
  PROVE  /\ challenge' \in [Account!Challenges -> AccountChallengeRow] /\ challenge'[n] = c
         /\ \A k \in Account!Challenges : k # n => challenge'[k] = challenge[k]
             \/ challenge'[k].status # "PENDING"
<1>1. \A k \in Account!Challenges : challenge[k] \in AccountChallengeRow
      /\ [challenge[k] EXCEPT !.status = "EXPIRED"] \in AccountChallengeRow
      /\ [challenge[k] EXCEPT !.status = "EXPIRED"].status # "PENDING"
  BY AccountExpiredRow DEF AccountChallengesRight
<1> QED BY <1>1 DEF AccountReplaces

--------------------------------
\* How a step moves the proofs.
AccountProofsKeep ==
    /\ unused' = unused /\ uses' = uses /\ AccountFactorsKeep
    /\ \A f \in Account!Factors : factor'[f].last = factor[f].last

LEMMA AccountProofsKeepRight ==
  ASSUME AccountProofsRight, AccountProofsKeep
  PROVE  AccountProofsRight'
BY DEF AccountProofsRight, AccountProofsKeep, AccountFactorsKeep

LEMMA AccountFactorSame ==
  ASSUME factor' = factor
  PROVE  AccountFactorsKeep /\ (AccountFactorsRight => AccountFactorsRight')
BY DEF AccountFactorsKeep, AccountFactorsRight, AccountInUse

\* A later step of factor f was accepted.
LEMMA AccountStepAccepted ==
  ASSUME AccountGiven, AccountFactorsRight, NEW f \in Account!Factors, NEW t \in Account!Steps,
         factor' = [factor EXCEPT ![f].last = t]
  PROVE  /\ AccountFactorsRight' /\ AccountFactorsKeep
         /\ factor'[f].last = t /\ factor'[f].status = factor[f].status
         /\ \A g \in Account!Factors : g # f => factor'[g] = factor[g]
<1>1. factor[f] \in AccountFactorRow BY DEF AccountFactorsRight
<1>2. PICK r : r = [factor[f] EXCEPT !.last = t]
  OBVIOUS
<1>3. r \in AccountFactorRow /\ r.last = t /\ r.status = factor[f].status
  BY <1>1, <1>2, AccountNumbers DEF AccountFactorRow, Account!Steps
<1>4. factor' = [factor EXCEPT ![f] = r] BY <1>2
<1>5. /\ factor' \in [Account!Factors -> AccountFactorRow] /\ factor'[f] = r
      /\ \A g \in Account!Factors : g # f => factor'[g] = factor[g]
  BY <1>3, <1>4 DEF AccountFactorsRight
<1>6. \A g \in Account!Factors : factor'[g].status = factor[g].status BY <1>3, <1>5
<1> QED BY <1>3, <1>5, <1>6 DEF AccountFactorsRight, AccountFactorsKeep, AccountInUse

LEMMA AccountUsesOnce ==
  ASSUME AccountProofsRight, NEW f \in Account!Factors, NEW p \in Account!Steps \union Account!Codes,
         uses[f][p] = 0,
         uses' = [uses EXCEPT ![f][p] = @ + 1]
  PROVE  /\ uses' \in [Account!Factors -> [Account!Steps \union Account!Codes -> Nat]]
         /\ uses'[f][p] = 1
         /\ \A g \in Account!Factors : \A q \in Account!Steps \union Account!Codes : (g # f \/ q # p)
             => uses'[g][q] = uses[g][q]
<1>1. uses \in [Account!Factors -> [Account!Steps \union Account!Codes -> Nat]]
   /\ uses[f] \in [Account!Steps \union Account!Codes -> Nat]
  BY DEF AccountProofsRight
<1>2. PICK u : u = [uses[f] EXCEPT ![p] = 1]
  OBVIOUS
<1>3. u \in [Account!Steps \union Account!Codes -> Nat] /\ u[p] = 1
   /\ \A q \in Account!Steps \union Account!Codes : q # p => u[q] = uses[f][q]
  BY <1>1, <1>2
<1>4. uses' = [uses EXCEPT ![f] = u]
  <2>1. uses[f][p] + 1 = 1
    OBVIOUS
  <2> QED BY <2>1, <1>2
<1> QED BY <1>1, <1>3, <1>4

LEMMA AccountAcceptRight ==
  ASSUME AccountGiven, AccountFactorsRight, AccountProofsRight, NEW f \in Account!Factors,
         NEW p \in Account!Steps \union Account!Codes,
         Account!Accepts(f, p), Account!Accept(f, p)
  PROVE  AccountFactorsRight' /\ AccountProofsRight' /\ AccountFactorsKeep
<1>1. uses[f][p] = 0 BY AccountNumbers DEF Account!Accepts, AccountProofsRight
<1>2. /\ uses' \in [Account!Factors -> [Account!Steps \union Account!Codes -> Nat]]
      /\ uses'[f][p] = 1
      /\ \A g \in Account!Factors : \A q \in Account!Steps \union Account!Codes : (g # f \/ q # p)
          => uses'[g][q] = uses[g][q]
  BY <1>1, AccountUsesOnce DEF Account!Accept
<1>3. /\ unused' \in [Account!Factors -> SUBSET Account!Codes]
      /\ unused'[f] = unused[f] \ {p}
      /\ \A g \in Account!Factors : g # f => unused'[g] = unused[g]
  BY DEF Account!Accept, AccountProofsRight
<1>4. /\ AccountFactorsRight' /\ AccountFactorsKeep
      /\ \A g \in Account!Factors : factor'[g].status = factor[g].status
      /\ \A g \in Account!Factors : g # f => factor'[g] = factor[g]
      /\ p \in Account!Steps => factor'[f].last = p
      /\ p \notin Account!Steps => factor'[f].last = factor[f].last
  BY AccountStepAccepted, AccountFactorSame DEF Account!Accept
<1>5. \A g \in Account!Factors : factor[g].last \in Int /\ factor'[g].last \in Int
  BY <1>4, AccountNumbers DEF AccountFactorsRight, AccountFactorRow
<1>6. ASSUME NEW g \in Account!Factors
      PROVE  /\ \A q \in Account!Steps \union Account!Codes : uses'[g][q] <= 1
             /\ \A t \in Account!Steps : factor'[g].last < t => uses'[g][t] = 0
             /\ \A c \in unused'[g] : uses'[g][c] = 0
             /\ \A c, d \in unused'[g] : c = d
             /\ unused'[g] # {} => factor'[g].status = "ACTIVE"
  <2>1. CASE g # f BY <2>1, <1>2, <1>3, <1>4 DEF AccountProofsRight
  <2>2. CASE g = f
    <3>1. \A q \in Account!Steps \union Account!Codes : uses'[f][q] <= 1  BY <1>2 DEF AccountProofsRight
    <3>2. ASSUME NEW t \in Account!Steps, factor'[f].last < t PROVE uses'[f][t] = 0
      <4>1. t # p /\ factor[f].last < t
        <5>1. CASE p \in Account!Steps
          <6>1. factor[f].last < p /\ factor'[f].last = p BY <5>1, <1>4 DEF Account!Accepts
          <6> QED BY <6>1, <3>2, <1>5, AccountNumbers
        <5>2. CASE p \notin Account!Steps BY <5>2, <1>4, <3>2
        <5> QED BY <5>1, <5>2
      <4>2. uses[f][t] = 0 BY <4>1 DEF AccountProofsRight
      <4> QED BY <4>1, <4>2, <1>2
    <3>3. \A c \in unused'[f] : uses'[f][c] = 0 BY <1>2, <1>3 DEF AccountProofsRight
    <3>4. \A c, d \in unused'[f] : c = d BY <1>3 DEF AccountProofsRight
    <3>5. unused'[f] # {} => factor'[f].status = "ACTIVE" BY <1>3, <1>4 DEF AccountProofsRight
    <3> QED BY <2>2, <3>1, <3>2, <3>3, <3>4, <3>5
  <2> QED BY <2>1, <2>2
<1>7. AccountProofsRight' BY <1>2, <1>3, <1>6 DEF AccountProofsRight
<1> QED BY <1>4, <1>7

--------------------------------
\* The steps.

\* Sessions, factors and proofs that a step leaves alone.
AccountSame == version' = version /\ session' = session
AccountProofsSame == factor' = factor /\ unused' = unused /\ uses' = uses
AccountGrantsSame == grant' = grant /\ approved' = approved

LEMMA AccountSameRight ==
  ASSUME AccountSessionsRight, AccountSame, AccountFactorsKeep
  PROVE  AccountSessionsRight'
<1>1. AccountSessionsFade
  BY DEF AccountSessionsFade, AccountFades, AccountSame, AccountSessionsRight, AccountRowsRight
<1> QED BY <1>1, AccountSessionsFadeRight

LEMMA AccountProofsSameRight ==
  ASSUME AccountFactorsRight, AccountProofsRight, AccountProofsSame
  PROVE  AccountFactorsRight' /\ AccountProofsRight' /\ AccountFactorsKeep
<1>1. AccountFactorsKeep /\ AccountFactorsRight' BY AccountFactorSame DEF AccountProofsSame
<1>2. AccountProofsKeep BY <1>1 DEF AccountProofsKeep, AccountProofsSame
<1> QED BY <1>1, <1>2, AccountProofsKeepRight

LEMMA AccountGrantsSameRight ==
  ASSUME AccountGrantsRight, AccountGrantsSame
  PROVE  AccountGrantsRight'
BY DEF AccountGrantsRight, AccountGrantsSame

LEMMA AccountChallengeSame ==
  ASSUME AccountChallengesRight, challenge' = challenge
  PROVE  AccountChallengesSettle
BY DEF AccountChallengesRight, AccountChallengesSettle

LEMMA AccountLimitSame ==
  ASSUME AccountChallengesRight, limit' = limit
  PROVE  AccountUnlocks
BY DEF AccountChallengesRight, AccountUnlocks

LEMMA AccountChallengesSameRight ==
  ASSUME AccountChallengesRight, challenge' = challenge, limit' = limit
  PROVE  AccountChallengesRight'
BY AccountChallengeSame, AccountLimitSame, AccountChallengesSettleRight

LEMMA AccountFailInv ==
  ASSUME AccountGiven, AccountInv, NEW p \in Account!Purposes, NEW k, Account!Fail(p, k)
  PROVE  AccountInv'
<1> USE DEF AccountInv
<1>1. PICK n : n = limit[p].failed + 1
  OBVIOUS
<1>2. limit[p] \in AccountLimitRow /\ ~limit[p].locked
  BY DEF AccountChallengesRight, Account!Fail, Account!Available
<1>3. n \in 1 .. Failures
  <2>1. limit[p] \in [failed : 0 .. Failures - 1, locked : {FALSE}] BY <1>2 DEF AccountLimitRow
  <2>2. limit[p].failed \in 0 .. Failures - 1 /\ Failures \in Nat BY <2>1, AccountNumbers
  <2> QED BY <2>2, <1>1
<1>4. PICK row : row = [failed |-> n, locked |-> n >= Failures]
  OBVIOUS
<1>5. row \in AccountLimitRow /\ (row.locked <=> n >= Failures)
  <2>1. CASE n >= Failures
    <3>1. n = Failures /\ (n >= Failures) = TRUE BY <2>1, <1>3, AccountNumbers
    <3>2. row = [failed |-> n, locked |-> TRUE] BY <3>1, <1>4
    <3> QED BY <3>1, <3>2 DEF AccountLimitRow
  <2>2. CASE ~(n >= Failures)
    <3>1. n \in 0 .. Failures - 1 /\ (n >= Failures) = FALSE BY <2>2, <1>3, AccountNumbers
    <3>2. row = [failed |-> n, locked |-> FALSE] BY <3>1, <1>4
    <3> QED BY <3>1, <3>2 DEF AccountLimitRow
  <2> QED BY <2>1, <2>2
<1>6. limit' = [limit EXCEPT ![p] = row] BY <1>1, <1>4 DEF Account!Fail
<1>7. limit' \in [Account!Purposes -> AccountLimitRow] /\ limit'[p] = row /\ \A q \in Account!Purposes : q # p
   => limit'[q] = limit[q]
  BY <1>5, <1>6 DEF AccountChallengesRight
<1>8. AccountChallengesRight'
  <2>1. CASE n >= Failures
    <3>1. challenge' = [j \in Account!Challenges |-> IF Account!Pending(challenge[j], p)
                            THEN [challenge[j] EXCEPT !.status = "LOCKED"] ELSE challenge[j]]
      BY <2>1, <1>1 DEF Account!Fail, Account!Settled
    <3>2. \A j \in Account!Challenges : challenge[j] \in AccountChallengeRow
          /\ [challenge[j] EXCEPT !.status = "LOCKED"] \in AccountChallengeRow
          /\ [challenge[j] EXCEPT !.status = "LOCKED"].status = "LOCKED"
      BY AccountExpiredRow DEF AccountChallengesRight
    <3>3. challenge' \in [Account!Challenges -> AccountChallengeRow]
          /\ \A j \in Account!Challenges : challenge'[j].status = "PENDING" =>
                challenge'[j] = challenge[j] /\ ~Account!Pending(challenge[j], p)
      BY <3>1, <3>2
    <3>4. \A j \in Account!Challenges : challenge'[j].status = "PENDING" =>
                challenge'[j] = challenge[j] /\ challenge[j].purpose # p
      BY <3>3 DEF Account!Pending
    <3> QED BY <3>3, <3>4, <1>7 DEF AccountChallengesRight, Account!LockedMeansNoChallenge
  <2>2. CASE ~(n >= Failures)
    <3>1. challenge' = challenge /\ ~row.locked BY <2>2, <1>1, <1>5 DEF Account!Fail
    <3> QED BY <3>1, <1>7 DEF AccountChallengesRight, Account!LockedMeansNoChallenge
  <2> QED BY <2>1, <2>2
<1>9. AccountFactorsRight' /\ AccountProofsRight' /\ AccountFactorsKeep
  BY AccountProofsSameRight DEF Account!Fail, AccountProofsSame
<1>10. AccountSessionsRight' /\ AccountGrantsRight'
  BY <1>9, AccountSameRight, AccountGrantsSameRight DEF Account!Fail, AccountSame, AccountGrantsSame
<1> QED BY <1>8, <1>9, <1>10

\* Settling some challenges by themselves.
LEMMA AccountLapseInv ==
  ASSUME AccountGiven, AccountInv, \/ \E p \in Account!Purposes : Account!LockLapses(p)
                                   \/ \E k \in Account!Challenges : Account!ChallengeLapses(k)
                                   \/ \E s \in Account!Sessions : Account!SessionLapses(s)
                                   \/ \E g \in Account!Grants : Account!GrantLapses(g)
                                   \/ Account!WithdrawalPaid
                                   \/ \E g \in Account!Grants, s \in Account!Sessions : Account!ConsumePayoutGrant(g, s)
  PROVE  AccountInv'
<1> USE DEF AccountInv
<1>1. AccountFactorsRight' /\ AccountProofsRight' /\ AccountFactorsKeep
  <2>1. AccountProofsSame
    BY DEF Account!LockLapses, Account!ChallengeLapses, Account!SessionLapses, Account!GrantLapses,
       Account!WithdrawalPaid, Account!ConsumePayoutGrant, AccountProofsSame
  <2> QED BY <2>1, AccountProofsSameRight
<1>2. ASSUME NEW p \in Account!Purposes, Account!LockLapses(p) PROVE AccountInv'
  <2>1. Account!Free \in AccountLimitRow /\ ~Account!Free.locked
    BY AccountNumbers DEF Account!Free, AccountLimitRow
  <2>2. AccountUnlocks BY <1>2, <2>1 DEF AccountUnlocks, Account!LockLapses, AccountChallengesRight
  <2>3. AccountChallengesRight'
    BY <1>2, <2>2, AccountChallengeSame, AccountChallengesSettleRight DEF Account!LockLapses
  <2> QED BY <1>1, <1>2, <2>3, AccountSameRight, AccountGrantsSameRight DEF Account!LockLapses, AccountSame,
     AccountGrantsSame
<1>3. ASSUME NEW k \in Account!Challenges, Account!ChallengeLapses(k) PROVE AccountInv'
  <2>1. AccountChallengesRight'
    BY <1>3, AccountStatusSettles, AccountLimitSame, AccountChallengesSettleRight DEF Account!ChallengeLapses
  <2> QED BY <1>1, <1>3, <2>1, AccountSameRight, AccountGrantsSameRight DEF Account!ChallengeLapses,
     AccountSame, AccountGrantsSame
<1>4. ASSUME NEW s \in Account!Sessions, Account!SessionLapses(s) PROVE AccountInv'
  <2>1. session[s] \in AccountSessionRow /\ session \in [Account!Sessions -> AccountSessionRow]
    BY DEF AccountSessionsRight, AccountRowsRight
  <2>2. PICK r : r = [session[s] EXCEPT !.status = "LAPSED"]
    OBVIOUS
  <2>3. r \in AccountSessionRow /\ r.status = "LAPSED" /\ r.family = session[s].family
        /\ r.factor = session[s].factor /\ r.since = session[s].since
    BY <2>1, <2>2 DEF AccountSessionRow
  <2>4. session' = [session EXCEPT ![s] = r] BY <1>4, <2>2 DEF Account!SessionLapses
  <2>5. AccountSessionsFade
    BY <1>4, <2>1, <2>3, <2>4 DEF Account!SessionLapses, AccountSessionsFade, AccountFades, AccountSameRow,
       Account!Unrevoked
  <2>6. AccountSessionsRight' BY <2>5, <1>1, AccountSessionsFadeRight
  <2> QED BY <1>1, <1>4, <2>6, AccountChallengesSameRight, AccountGrantsSameRight DEF Account!SessionLapses,
     AccountGrantsSame
<1>5. ASSUME \/ \E g \in Account!Grants : Account!GrantLapses(g)
             \/ Account!WithdrawalPaid
             \/ \E g \in Account!Grants, s \in Account!Sessions : Account!ConsumePayoutGrant(g, s)
      PROVE  AccountInv'
  <2>1. \A g \in Account!Grants : grant[g] \in AccountGrantRow BY DEF AccountGrantsRight
  <2>2. \A g \in Account!Grants : [grant[g] EXCEPT !.status = "EXPIRED"] \in AccountGrantRow
                          /\ [grant[g] EXCEPT !.status = "CONSUMED"] \in AccountGrantRow
    BY <2>1 DEF AccountGrantRow
  <2>3. AccountGrantsRight'
    BY <1>5, <2>2 DEF AccountGrantsRight, Account!GrantLapses, Account!WithdrawalPaid, Account!ConsumePayoutGrant
  <2>4. AccountSame /\ challenge' = challenge /\ limit' = limit
    BY <1>5 DEF Account!GrantLapses, Account!WithdrawalPaid, Account!ConsumePayoutGrant, AccountSame
  <2> QED BY <1>1, <2>3, <2>4, AccountSameRight, AccountChallengesSameRight
<1> QED BY <1>2, <1>3, <1>4, <1>5

LEMMA AccountCreateEnrollmentInv ==
  ASSUME AccountGiven, AccountInv, NEW v, Account!CreateEnrollment(v)
  PROVE  AccountInv'
<1> USE DEF AccountInv
<1>1. PICK f : f = Account!Min(Account!FreeRows(factor, Account!NoFactor))
  OBVIOUS
<1>2. PICK stale : stale = {g \in Account!Factors : factor[g].status = "PENDING"}
  OBVIOUS
<1>3. f \in Account!Factors /\ factor[f] = Account!NoFactor
  BY <1>1, AccountFreeRow, AccountNumbers DEF Account!CreateEnrollment, AccountFactorsRight, Account!Factors
<1>4. factor' = [g \in Account!Factors |-> IF g = f THEN [status |-> "PENDING", last |-> 0]
                    ELSE IF g \in stale THEN [factor[g] EXCEPT !.status = "REVOKED"] ELSE factor[g]]
  BY <1>1, <1>2 DEF Account!CreateEnrollment
<1>5. \A g \in Account!Factors : factor[g] \in AccountFactorRow /\ factor[g].status # "ACTIVE"
  BY DEF AccountFactorsRight, Account!CreateEnrollment, Account!ActiveFactors
<1>6. \A g \in Account!Factors : LET r == [factor[g] EXCEPT !.status = "REVOKED"] IN
        r \in AccountFactorRow /\ r.status = "REVOKED" /\ r.last = factor[g].last
  BY <1>5 DEF AccountFactorRow
<1>7. /\ factor' \in [Account!Factors -> AccountFactorRow] /\ factor'[f].status = "PENDING"
      /\ \A g \in Account!Factors : factor'[g].last = factor[g].last
      /\ \A g \in Account!Factors : g # f => ~AccountInUse(g)'
  <2>1. [status |-> "PENDING", last |-> 0] \in AccountFactorRow  BY AccountNumbers DEF AccountFactorRow
  <2>2. factor[f].last = 0 BY <1>3 DEF Account!NoFactor
  <2>3. \A g \in Account!Factors : g \notin stale => factor[g].status \in {"NONE", "REVOKED"}
    BY <1>2, <1>5 DEF AccountFactorRow
  <2> QED BY <1>3, <1>4, <1>5, <1>6, <2>1, <2>2, <2>3 DEF AccountInUse
<1>8. AccountFactorsRight' /\ AccountFactorsKeep  BY <1>5, <1>7 DEF AccountFactorsRight, AccountFactorsKeep
<1>9. AccountProofsRight'
  BY <1>7, <1>8, AccountProofsKeepRight DEF Account!CreateEnrollment, AccountProofsKeep
<1>10. AccountChallengesRight'
  <2>1. PICK n : n = Account!Min(Account!FreeRows(challenge, Account!NoChallenge))
    OBVIOUS
  <2>2. n \in Account!Challenges
    BY <2>1, AccountFreeRow, AccountNumbers DEF Account!CreateEnrollment, Account!CanIssue,
       AccountChallengesRight, Account!Challenges
  <2>3. PICK c : c = [purpose |-> "ENROLL", status |-> "PENDING", factor |-> f, session |-> 0, version |-> v]
    OBVIOUS
  <2>4. v = version /\ version \in Account!Versions
    BY DEF Account!CreateEnrollment, Account!Fresh, AccountSessionsRight, AccountRowsRight
  <2>5. c \in AccountChallengeRow /\ c.purpose = "ENROLL" /\ c.factor = f
    BY <1>3, <2>3, <2>4, AccountNumbers DEF AccountChallengeRow, Account!Purposes, Account!Factors,
       Account!Versions
  <2>6. PICK old : old = {k \in Account!Challenges : challenge[k].factor \in stale
     /\ challenge[k].status = "PENDING"}
    OBVIOUS
  <2>7. AccountReplaces(n, c, old)
    BY <1>1, <1>2, <2>1, <2>3, <2>6 DEF AccountReplaces, Account!CreateEnrollment, Account!Issued, Account!Settled
  <2>8. AccountIssues(n, c)
    <3>2. /\ challenge' \in [Account!Challenges -> AccountChallengeRow] /\ challenge'[n] = c
          /\ \A k \in Account!Challenges : k # n => challenge'[k] = challenge[k]
              \/ challenge'[k].status # "PENDING"
      BY <2>2, <2>5, <2>7, AccountIssueRows
    <3>3. ~limit["ENROLL"].locked /\ limit' = limit  BY DEF Account!CreateEnrollment, Account!Available
    <3> QED BY <3>2, <3>3, <1>3, <2>5 DEF AccountIssues, Account!Purposes
  <2> QED BY <2>2, <2>8, AccountIssuesRight
<1>11. AccountSessionsRight' /\ AccountGrantsRight'
  BY <1>8, AccountSameRight, AccountGrantsSameRight DEF Account!CreateEnrollment, AccountSame, AccountGrantsSame
<1> QED BY <1>8, <1>9, <1>10, <1>11

LEMMA AccountCompleteEnrollmentInv ==
  ASSUME AccountGiven, AccountInv, NEW k \in Account!Challenges, NEW t \in Account!Steps,
         NEW code \in Account!NewCodes,
         Account!CompleteEnrollment(k, t, code)
  PROVE  AccountInv'
<1> USE DEF AccountInv
<1>1. PICK f : f = challenge[k].factor
  OBVIOUS
<1>2. f \in Account!Factors /\ challenge[k].version = version /\ factor[f].status = "PENDING"
   /\ factor[f].last < t
  BY <1>1 DEF Account!CompleteEnrollment, Account!Pending, AccountChallengesRight, Account!Fresh
<1>3. code \in Account!Codes /\ \A g \in Account!Factors : code \notin unused[g] /\ uses[g][code] = 0
  BY DEF Account!NewCodes
<1>4. factor' = [factor EXCEPT ![f] = [status |-> "ACTIVE", last |-> t]]
      /\ unused' = [unused EXCEPT ![f] = {code}] /\ uses' = [uses EXCEPT ![f][t] = @ + 1]
  BY <1>1 DEF Account!CompleteEnrollment
<1>5. /\ factor' \in [Account!Factors -> AccountFactorRow] /\ factor'[f].status = "ACTIVE" /\ factor'[f].last = t
      /\ \A g \in Account!Factors : g # f => factor'[g] = factor[g]
  <2>1. [status |-> "ACTIVE", last |-> t] \in AccountFactorRow
    BY AccountNumbers DEF AccountFactorRow, Account!Steps
  <2> QED BY <1>2, <1>4, <2>1 DEF AccountFactorsRight
<1>6. AccountFactorsRight' /\ AccountFactorsKeep
  BY <1>2, <1>5 DEF AccountFactorsRight, AccountFactorsKeep, AccountInUse
<1>7. uses[f][t] = 0 BY <1>2 DEF AccountProofsRight
<1>8. /\ uses' \in [Account!Factors -> [Account!Steps \union Account!Codes -> Nat]]
      /\ uses'[f][t] = 1
      /\ \A g \in Account!Factors : \A q \in Account!Steps \union Account!Codes : (g # f \/ q # t)
          => uses'[g][q] = uses[g][q]
  BY <1>2, <1>4, <1>7, AccountUsesOnce
<1>9. AccountProofsRight'
  <2>1. /\ unused' \in [Account!Factors -> SUBSET Account!Codes] /\ unused'[f] = {code}
        /\ \A g \in Account!Factors : g # f => unused'[g] = unused[g]
    BY <1>2, <1>3, <1>4 DEF AccountProofsRight
  <2>2. ASSUME NEW g \in Account!Factors
        PROVE  /\ \A q \in Account!Steps \union Account!Codes : uses'[g][q] <= 1
               /\ \A u \in Account!Steps : factor'[g].last < u => uses'[g][u] = 0
               /\ \A c \in unused'[g] : uses'[g][c] = 0
               /\ \A c, d \in unused'[g] : c = d
               /\ unused'[g] # {} => factor'[g].status = "ACTIVE"
    <3>1. CASE g # f BY <3>1, <1>5, <1>8, <2>1 DEF AccountProofsRight
    <3>2. CASE g = f
      <4>1. \A q \in Account!Steps \union Account!Codes : uses'[f][q] <= 1
        BY <1>2, <1>8 DEF AccountProofsRight
      <4>2. ASSUME NEW u \in Account!Steps, factor'[f].last < u PROVE uses'[f][u] = 0
        <5>1. factor[f].last \in Int /\ t \in Int /\ u \in Int
          BY <1>2, AccountNumbers DEF AccountFactorsRight, AccountFactorRow
        <5>2. u # t /\ factor[f].last < u BY <5>1, <4>2, <1>2, <1>5
        <5> QED BY <5>2, <1>2, <1>8 DEF AccountProofsRight
      <4>3. uses'[f][code] = 0 BY <1>2, <1>3, <1>8, AccountNumbers
      <4> QED BY <3>2, <4>1, <4>2, <4>3, <1>5, <2>1
    <3> QED BY <3>1, <3>2
  <2> QED BY <1>8, <2>1, <2>2 DEF AccountProofsRight
<1>10. AccountChallengesRight'
  BY AccountStatusSettles, AccountUnlockedUnlocks, AccountChallengesSettleRight DEF Account!CompleteEnrollment
<1>11. AccountSessionsRight'
  <2>1. PICK n : n = Account!Min(Account!FreeRows(session, Account!NoSession))
    OBVIOUS
  <2>2. n \in Account!Sessions /\ session[n] = Account!NoSession
    BY <2>1, AccountFreeRow, AccountNumbers DEF Account!CompleteEnrollment, Account!CanOpen,
       AccountSessionsRight, AccountRowsRight, Account!Sessions
  <2>3. AccountSessionOpens(n, f)
    BY <1>1, <1>2, <2>1, <2>2 DEF Account!CompleteEnrollment, AccountSessionOpens, Account!Opened
  <2> QED BY <1>2, <1>5, <1>6, <2>2, <2>3, AccountSessionOpensRight
<1> QED BY <1>6, <1>9, <1>10, <1>11, AccountGrantsSameRight DEF Account!CompleteEnrollment, AccountGrantsSame

LEMMA AccountCreateLoginChallengeInv ==
  ASSUME AccountGiven, AccountInv, NEW v, Account!CreateLoginChallenge(v)
  PROVE  AccountInv'
<1> USE DEF AccountInv
<1>1. PICK f \in Account!ActiveFactors :
        challenge' = Account!Issued([purpose |-> "LOGIN", status |-> "PENDING", factor |-> f,
                             session |-> 0, version |-> v], LAMBDA x : Account!Pending(x, "LOGIN"))
  BY DEF Account!CreateLoginChallenge
<1>2. PICK n : n = Account!Min(Account!FreeRows(challenge, Account!NoChallenge))
  OBVIOUS
<1>3. n \in Account!Challenges
  BY <1>2, AccountFreeRow, AccountNumbers DEF Account!CreateLoginChallenge, Account!CanIssue,
     AccountChallengesRight, Account!Challenges
<1>4. PICK c : c = [purpose |-> "LOGIN", status |-> "PENDING", factor |-> f, session |-> 0, version |-> v]
  OBVIOUS
<1>5. v = version /\ version \in Account!Versions /\ f \in Account!Factors
  BY DEF Account!CreateLoginChallenge, Account!Fresh, AccountSessionsRight, AccountRowsRight,
     Account!ActiveFactors
<1>6. c \in AccountChallengeRow /\ c.purpose = "LOGIN" /\ c.factor = f
  BY <1>4, <1>5, AccountNumbers DEF AccountChallengeRow, Account!Purposes, Account!Factors, Account!Versions
<1>7. PICK stale : stale = {k \in Account!Challenges : Account!Pending(challenge[k], "LOGIN")}
  OBVIOUS
<1>8. AccountReplaces(n, c, stale)
  BY <1>1, <1>2, <1>4, <1>7 DEF AccountReplaces, Account!Issued, Account!Settled
<1>9. AccountIssues(n, c)
  <2>1. /\ challenge' \in [Account!Challenges -> AccountChallengeRow] /\ challenge'[n] = c
        /\ \A k \in Account!Challenges : k # n => challenge'[k] = challenge[k] \/ challenge'[k].status # "PENDING"
    BY <1>3, <1>6, <1>8, AccountIssueRows
  <2>2. ~limit["LOGIN"].locked /\ limit' = limit  BY DEF Account!CreateLoginChallenge, Account!Available
  <2> QED BY <2>1, <2>2, <1>5, <1>6 DEF AccountIssues, Account!Purposes
<1>10. AccountChallengesRight' BY <1>3, <1>9, AccountIssuesRight
<1>11. AccountFactorsRight' /\ AccountProofsRight' /\ AccountFactorsKeep
  BY AccountProofsSameRight DEF Account!CreateLoginChallenge, AccountProofsSame
<1> QED BY <1>10, <1>11, AccountSameRight, AccountGrantsSameRight DEF Account!CreateLoginChallenge,
   AccountSame, AccountGrantsSame

LEMMA AccountCompleteLoginInv ==
  ASSUME AccountGiven, AccountInv, NEW k \in Account!Challenges, NEW p \in Account!Steps \union Account!Codes,
         Account!CompleteLogin(k, p)
  PROVE  AccountInv'
<1> USE DEF AccountInv
<1>1. PICK f : f = challenge[k].factor
  OBVIOUS
<1>2. f \in Account!Factors /\ challenge[k].version = version /\ factor[f].status = "ACTIVE"
      /\ Account!Accepts(f, p) /\ Account!Accept(f, p)
  BY <1>1 DEF Account!CompleteLogin, Account!Pending, AccountChallengesRight, Account!Fresh
<1>3. AccountFactorsRight' /\ AccountProofsRight' /\ AccountFactorsKeep BY <1>2, AccountAcceptRight
<1>4. AccountChallengesRight'
  BY AccountStatusSettles, AccountUnlockedUnlocks, AccountChallengesSettleRight DEF Account!CompleteLogin
<1>5. AccountSessionsRight'
  <2>1. PICK n : n = Account!Min(Account!FreeRows(session, Account!NoSession))
    OBVIOUS
  <2>2. n \in Account!Sessions /\ session[n] = Account!NoSession
    BY <2>1, AccountFreeRow, AccountNumbers DEF Account!CompleteLogin, Account!CanOpen,
       AccountSessionsRight, AccountRowsRight, Account!Sessions
  <2>3. AccountSessionOpens(n, f)
    BY <1>1, <1>2, <2>1, <2>2 DEF Account!CompleteLogin, AccountSessionOpens, Account!Opened
  <2>4. factor'[f].status = "ACTIVE" BY <1>2, <1>3 DEF AccountFactorsKeep
  <2> QED BY <1>2, <1>3, <2>2, <2>3, <2>4, AccountSessionOpensRight
<1> QED BY <1>3, <1>4, <1>5, AccountGrantsSameRight DEF Account!CompleteLogin, AccountGrantsSame

LEMMA AccountRefreshInv ==
  ASSUME AccountGiven, AccountInv, NEW s \in Account!Sessions, Account!Refresh(s)
  PROVE  AccountInv'
<1> USE DEF AccountInv
<1>1. AccountFactorsRight' /\ AccountProofsRight' /\ AccountFactorsKeep /\ AccountChallengesRight'
   /\ AccountGrantsRight'
  BY AccountProofsSameRight, AccountChallengesSameRight, AccountGrantsSameRight
     DEF Account!Refresh, AccountProofsSame, AccountGrantsSame
<1>2. version' = version /\ factor' = factor /\ AccountRowsRight /\ version \in Account!Versions
  BY DEF Account!Refresh, AccountSessionsRight, AccountRowsRight
<1>3. CASE session[s].status = "LIVE" /\ factor[session[s].factor].status = "ACTIVE"
  <2>1. PICK n : n = Account!Min(Account!FreeRows(session, Account!NoSession))
    OBVIOUS
  <2>2. n \in Account!Sessions /\ session[n] = Account!NoSession
    BY <1>3, <2>1, AccountFreeRow, AccountNumbers DEF Account!Refresh, Account!CanOpen,
       AccountSessionsRight, AccountRowsRight, Account!Sessions
  <2>3. PICK r : r = [session[s] EXCEPT !.first = session[s].since]
    OBVIOUS
  <2>4. r \in AccountSessionRow /\ r.status = "LIVE" /\ r.family = session[s].family
        /\ r.factor = session[s].factor /\ r.since = session[s].since
    <3>1. session[s] \in AccountSessionRow BY <1>2 DEF AccountRowsRight
    <3> QED BY <3>1, <1>3, <2>3 DEF AccountSessionRow
  <2>5. session' = [Account!Revoked({s}) EXCEPT ![n] = r] BY <1>3, <2>1, <2>3 DEF Account!Refresh
  <2>6. /\ session' \in [Account!Sessions -> AccountSessionRow] /\ session'[n] = r
        /\ session'[s].status = "REVOKED" /\ AccountSameRow(s)
        /\ \A o \in Account!Sessions : o # n /\ o # s => session'[o] = session[o]
        /\ s # n
    <3>1. s # n BY <1>3, <2>2 DEF Account!NoSession
    <3> QED BY <1>2, <1>3, <2>2, <2>4, <2>5, <3>1, AccountRevokedRows DEF Account!Unrevoked, AccountSameRow
  <2>7. \A o \in Account!Sessions : o # n => AccountSameRow(o)
     /\ (session'[o].status = "NONE" <=> session[o].status = "NONE")
    BY <1>3, <2>6 DEF AccountSameRow
  <2>8. \A o \in Account!Sessions : session[o].status # "NONE"
     => session[o].family \in Account!Sessions /\ session[o].family # n
    BY <1>2, <2>2 DEF AccountRowsRight, Account!NoSession
  <2>9. AccountRowsRight'
    <3>1. ASSUME NEW o \in Account!Sessions
          PROVE  IF session'[o].status = "NONE" THEN session'[o] = Account!NoSession
                 ELSE session'[o].factor \in Account!Factors /\ session'[o].family \in Account!Sessions
                      /\ session'[session'[o].family].status # "NONE"
      <4>1. CASE o = n BY <4>1, <1>2, <1>3, <2>4, <2>6, <2>7, <2>8 DEF AccountRowsRight
      <4>2. CASE o # n
        <5>1. CASE session[o].status = "NONE" BY <4>2, <5>1, <1>2, <1>3, <2>6 DEF AccountRowsRight
        <5>2. CASE session[o].status # "NONE"
          BY <4>2, <5>2, <1>2, <2>7, <2>8 DEF AccountRowsRight, AccountSameRow
        <5> QED BY <5>1, <5>2
      <4> QED BY <4>1, <4>2
    <3> QED BY <3>1, <1>2, <2>6 DEF AccountRowsRight
  <2>10. Account!LiveSessionsOfToday'
    BY <1>2, <1>3, <2>4, <2>6 DEF AccountSessionsRight, Account!LiveSessionsOfToday, Account!Unrevoked
  <2>11. Account!OneSessionOfFamily'
    <3>1. \A o \in Account!Sessions : Account!Unrevoked(o) /\ session[o].family = session[s].family => o = s
      BY <1>3 DEF AccountSessionsRight, Account!OneSessionOfFamily, Account!Unrevoked
    <3> QED BY <2>4, <2>6, <3>1 DEF AccountSessionsRight, Account!OneSessionOfFamily, Account!Unrevoked
  <2>12. AccountByActiveFactor'
    BY <1>2, <1>3, <2>4, <2>6 DEF AccountSessionsRight, AccountByActiveFactor, Account!Unrevoked
  <2> QED BY <1>1, <2>9, <2>10, <2>11, <2>12 DEF AccountSessionsRight
<1>4. CASE ~(session[s].status = "LIVE" /\ factor[session[s].factor].status = "ACTIVE")
  <2>1. session' = Account!Revoked(Account!Family(s)) BY <1>4 DEF Account!Refresh
  <2>2. AccountSessionsFade
    BY <1>2, <2>1, AccountRevokedRows DEF AccountSessionsFade, AccountFades, AccountSameRow
  <2> QED BY <1>1, <2>2, AccountSessionsFadeRight
<1> QED BY <1>3, <1>4

LEMMA AccountLogoutInv ==
  ASSUME AccountGiven, AccountInv, NEW s \in Account!Sessions, Account!Logout(s)
  PROVE  AccountInv'
<1> USE DEF AccountInv
<1>1. AccountFactorsRight' /\ AccountProofsRight' /\ AccountFactorsKeep /\ AccountChallengesRight'
   /\ AccountGrantsRight'
  BY AccountProofsSameRight, AccountChallengesSameRight, AccountGrantsSameRight
     DEF Account!Logout, AccountProofsSame, AccountGrantsSame
<1>2. AccountSessionsFade
  BY AccountRevokedRows DEF Account!Logout, AccountSessionsRight, AccountSessionsFade, AccountFades,
     AccountSameRow
<1> QED BY <1>1, <1>2, AccountSessionsFadeRight

LEMMA AccountLogoutAllInv ==
  ASSUME AccountGiven, AccountInv, NEW s, NEW v, Account!LogoutAll(s, v)
  PROVE  AccountInv'
<1> USE DEF AccountInv
<1>1. AccountFactorsRight' /\ AccountProofsRight' /\ AccountFactorsKeep /\ AccountChallengesRight'
   /\ AccountGrantsRight'
  BY AccountProofsSameRight, AccountChallengesSameRight, AccountGrantsSameRight
     DEF Account!LogoutAll, AccountProofsSame, AccountGrantsSame
<1>2. version' \in Account!Versions
  BY AccountNumbers DEF Account!LogoutAll, AccountSessionsRight, AccountRowsRight, Account!Versions
<1>3. session' \in [Account!Sessions -> AccountSessionRow] /\ \A o \in Account!Sessions : AccountFades(o)
   /\ ~Account!Unrevoked(o)'
  BY AccountRevokedRows DEF Account!LogoutAll, AccountSessionsRight, AccountFades, AccountSameRow,
     Account!Unrevoked
<1>4. AccountSessionsEnd BY <1>2, <1>3 DEF AccountSessionsEnd
<1> QED BY <1>1, <1>4, AccountSessionsEndRight

LEMMA AccountChangePasswordInv ==
  ASSUME AccountGiven, AccountInv, NEW s \in Account!Sessions, NEW v, Account!ChangePassword(s, v)
  PROVE  AccountInv'
<1> USE DEF AccountInv
<1>1. AccountFactorsRight' /\ AccountProofsRight' /\ AccountFactorsKeep /\ AccountChallengesRight'
   /\ AccountGrantsRight'
  BY AccountProofsSameRight, AccountChallengesSameRight, AccountGrantsSameRight
     DEF Account!ChangePassword, AccountProofsSame, AccountGrantsSame
<1>2. version' = version + 1 /\ version' \in Account!Versions /\ factor' = factor /\ AccountRowsRight
  BY AccountNumbers DEF Account!ChangePassword, AccountSessionsRight, AccountRowsRight, Account!Versions
<1>3. session[s].status = "LIVE" BY DEF Account!ChangePassword, Account!Current
<1>4. Account!Revoked(Account!Sessions \ {s})[s] = session[s] /\ session[s] \in AccountSessionRow
  BY <1>2, AccountRevokedRows DEF AccountRowsRight
<1>5. PICK r : r = [session[s] EXCEPT !.since = version + 1]
  OBVIOUS
<1>6. r \in AccountSessionRow /\ r.status = "LIVE" /\ r.family = session[s].family
      /\ r.factor = session[s].factor /\ r.since = version'
  BY <1>2, <1>3, <1>4, <1>5, AccountNumbers DEF AccountSessionRow, Account!Versions
<1>7. session' = [Account!Revoked(Account!Sessions \ {s}) EXCEPT ![s] = r]
  BY <1>2, <1>4, <1>5, AccountRevokedRows DEF Account!ChangePassword
<1>8. /\ session' \in [Account!Sessions -> AccountSessionRow] /\ session'[s] = r
      /\ \A o \in Account!Sessions : o # s => AccountFades(o) /\ ~Account!Unrevoked(o)'
  BY <1>2, <1>6, <1>7, AccountRevokedRows DEF AccountFades, AccountSameRow, Account!Unrevoked
<1>9. \A o \in Account!Sessions : (session'[o].status = "NONE" <=> session[o].status = "NONE")
        /\ (session[o].status # "NONE" => session'[o].family = session[o].family
            /\ session'[o].factor = session[o].factor)
  BY <1>3, <1>6, <1>8 DEF AccountFades, AccountSameRow, Account!Unrevoked
<1>10. AccountRowsRight'
  <2>1. ASSUME NEW o \in Account!Sessions
        PROVE  IF session'[o].status = "NONE" THEN session'[o] = Account!NoSession
               ELSE session'[o].factor \in Account!Factors /\ session'[o].family \in Account!Sessions
                    /\ session'[session'[o].family].status # "NONE"
    <3>1. CASE session[o].status = "NONE"
      BY <3>1, <1>2, <1>3, <1>8, <1>9 DEF AccountRowsRight, AccountFades, Account!Unrevoked
    <3>2. CASE session[o].status # "NONE"
      <4>1. session[o].factor \in Account!Factors /\ session[o].family \in Account!Sessions
            /\ session[session[o].family].status # "NONE"
        BY <3>2, <1>2 DEF AccountRowsRight
      <4> QED BY <3>2, <4>1, <1>9
    <3> QED BY <3>1, <3>2
  <2> QED BY <2>1, <1>2, <1>8 DEF AccountRowsRight
<1>11. Account!LiveSessionsOfToday' /\ Account!OneSessionOfFamily'
  BY <1>6, <1>8 DEF Account!LiveSessionsOfToday, Account!OneSessionOfFamily, Account!Unrevoked
<1>12. AccountByActiveFactor'
  BY <1>2, <1>3, <1>6, <1>8 DEF AccountSessionsRight, AccountByActiveFactor, Account!Unrevoked
<1> QED BY <1>1, <1>10, <1>11, <1>12 DEF AccountSessionsRight

LEMMA AccountCurrentSession ==
  ASSUME AccountSessionsRight, NEW s \in Account!Sessions, NEW v, Account!Current(s, v)
  PROVE  session[s].status = "LIVE" /\ session[s].factor \in Account!Factors /\ v = version
     /\ session[s].since = version
BY DEF Account!Current, Account!Fresh, AccountSessionsRight, AccountRowsRight, Account!LiveSessionsOfToday,
   Account!Unrevoked

LEMMA AccountCreateReauthChallengeInv ==
  ASSUME AccountGiven, AccountInv, NEW s \in Account!Sessions, NEW v, Account!CreateReauthChallenge(s, v)
  PROVE  AccountInv'
<1> USE DEF AccountInv
<1>1. PICK f : f = session[s].factor
  OBVIOUS
<1>2. PICK n : n = Account!Min(Account!FreeRows(challenge, Account!NoChallenge))
  OBVIOUS
<1>3. n \in Account!Challenges
  BY <1>2, AccountFreeRow, AccountNumbers DEF Account!CreateReauthChallenge, Account!CanIssue,
     AccountChallengesRight, Account!Challenges
<1>4. PICK c : c = [purpose |-> "REAUTH", status |-> "PENDING", factor |-> f, session |-> s, version |-> v]
  OBVIOUS
<1>5. v = version /\ version \in Account!Versions /\ f \in Account!Factors
  BY <1>1, AccountCurrentSession DEF Account!CreateReauthChallenge, AccountSessionsRight, AccountRowsRight
<1>6. c \in AccountChallengeRow /\ c.purpose = "REAUTH" /\ c.factor = f /\ c.session = s
  BY <1>4, <1>5, AccountNumbers DEF AccountChallengeRow, Account!Purposes, Account!Factors,
     Account!Versions, Account!Sessions
<1>7. PICK stale : stale = {k \in Account!Challenges : Account!Pending(challenge[k], "REAUTH")
   /\ challenge[k].session = s}
  OBVIOUS
<1>8. AccountReplaces(n, c, stale)
  BY <1>1, <1>2, <1>4, <1>7 DEF AccountReplaces, Account!CreateReauthChallenge, Account!Issued, Account!Settled
<1>9. AccountIssues(n, c)
  <2>1. /\ challenge' \in [Account!Challenges -> AccountChallengeRow] /\ challenge'[n] = c
        /\ \A k \in Account!Challenges : k # n => challenge'[k] = challenge[k] \/ challenge'[k].status # "PENDING"
    BY <1>3, <1>6, <1>8, AccountIssueRows
  <2>2. ~limit["REAUTH"].locked /\ limit' = limit  BY DEF Account!CreateReauthChallenge, Account!Available
  <2> QED BY <2>1, <2>2, <1>5, <1>6 DEF AccountIssues, Account!Purposes
<1>10. AccountChallengesRight' BY <1>3, <1>9, AccountIssuesRight
<1>11. AccountFactorsRight' /\ AccountProofsRight' /\ AccountFactorsKeep
  BY AccountProofsSameRight DEF Account!CreateReauthChallenge, AccountProofsSame
<1> QED BY <1>10, <1>11, AccountSameRight, AccountGrantsSameRight DEF Account!CreateReauthChallenge,
   AccountSame, AccountGrantsSame

LEMMA AccountCompleteReauthChallengeInv ==
  ASSUME AccountGiven, AccountInv, NEW k \in Account!Challenges, NEW t \in Account!Steps, NEW v,
         Account!CompleteReauthChallenge(k, t, v)
  PROVE  AccountInv'
<1> USE DEF AccountInv
<1>1. PICK f : f = challenge[k].factor
  OBVIOUS
<1>2. f \in Account!Factors /\ Account!Accepts(f, t) /\ Account!Accept(f, t)
  BY <1>1 DEF Account!CompleteReauthChallenge, Account!Pending, AccountChallengesRight
<1>3. AccountFactorsRight' /\ AccountProofsRight' /\ AccountFactorsKeep BY <1>2, AccountAcceptRight
<1>4. AccountChallengesRight'
  BY AccountStatusSettles, AccountUnlockedUnlocks, AccountChallengesSettleRight
     DEF Account!CompleteReauthChallenge
<1> QED BY <1>3, <1>4, AccountSameRight, AccountGrantsSameRight DEF Account!CompleteReauthChallenge,
   AccountSame, AccountGrantsSame

LEMMA AccountCreatePayoutGrantInv ==
  ASSUME AccountGiven, AccountInv, NEW s \in Account!Sessions, NEW v, NEW t \in Account!Steps,
         Account!CreatePayoutGrant(s, v, t)
  PROVE  AccountInv'
<1> USE DEF AccountInv
<1>1. PICK f : f = session[s].factor
  OBVIOUS
<1>2. f \in Account!Factors /\ Account!Accepts(f, t) /\ Account!Accept(f, t)
  BY <1>1, AccountCurrentSession DEF Account!CreatePayoutGrant
<1>3. AccountFactorsRight' /\ AccountProofsRight' /\ AccountFactorsKeep BY <1>2, AccountAcceptRight
<1>4. AccountChallengesRight'
  BY AccountChallengeSame, AccountUnlockedUnlocks, AccountChallengesSettleRight DEF Account!CreatePayoutGrant
<1>5. AccountGrantsRight'
  <2>1. [status |-> "ACTIVE", session |-> s] \in AccountGrantRow
    BY AccountNumbers DEF AccountGrantRow, Account!Sessions
  <2> QED BY <2>1 DEF Account!CreatePayoutGrant, AccountGrantsRight
<1> QED BY <1>3, <1>4, <1>5, AccountSameRight DEF Account!CreatePayoutGrant, AccountSame

LEMMA AccountRotateRecoveryCodesInv ==
  ASSUME AccountGiven, AccountInv, NEW s \in Account!Sessions, NEW v, NEW t \in Account!Steps,
         NEW code \in Account!NewCodes,
         Account!RotateRecoveryCodes(s, v, t, code)
  PROVE  AccountInv'
<1> USE DEF AccountInv
<1>1. PICK f : f = session[s].factor
  OBVIOUS
<1>2. f \in Account!Factors /\ factor[f].status = "ACTIVE" /\ factor[f].last < t
  BY <1>1, AccountCurrentSession DEF Account!RotateRecoveryCodes
<1>3. code \in Account!Codes /\ \A g \in Account!Factors : code \notin unused[g] /\ uses[g][code] = 0
  BY DEF Account!NewCodes
<1>4. factor' = [factor EXCEPT ![f].last = t]
      /\ unused' = [unused EXCEPT ![f] = {code}] /\ uses' = [uses EXCEPT ![f][t] = @ + 1]
  BY <1>1 DEF Account!RotateRecoveryCodes
<1>5. /\ AccountFactorsRight' /\ AccountFactorsKeep
      /\ factor'[f].last = t /\ factor'[f].status = factor[f].status
      /\ \A g \in Account!Factors : g # f => factor'[g] = factor[g]
  BY <1>2, <1>4, AccountStepAccepted
<1>7. uses[f][t] = 0 BY <1>2 DEF AccountProofsRight
<1>8. /\ uses' \in [Account!Factors -> [Account!Steps \union Account!Codes -> Nat]]
      /\ uses'[f][t] = 1
      /\ \A g \in Account!Factors : \A q \in Account!Steps \union Account!Codes : (g # f \/ q # t)
          => uses'[g][q] = uses[g][q]
  BY <1>2, <1>4, <1>7, AccountUsesOnce
<1>9. AccountProofsRight'
  <2>1. /\ unused' \in [Account!Factors -> SUBSET Account!Codes] /\ unused'[f] = {code}
        /\ \A g \in Account!Factors : g # f => unused'[g] = unused[g]
    BY <1>2, <1>3, <1>4 DEF AccountProofsRight
  <2>2. ASSUME NEW g \in Account!Factors
        PROVE  /\ \A q \in Account!Steps \union Account!Codes : uses'[g][q] <= 1
               /\ \A u \in Account!Steps : factor'[g].last < u => uses'[g][u] = 0
               /\ \A c \in unused'[g] : uses'[g][c] = 0
               /\ \A c, d \in unused'[g] : c = d
               /\ unused'[g] # {} => factor'[g].status = "ACTIVE"
    <3>1. CASE g # f BY <3>1, <1>5, <1>8, <2>1 DEF AccountProofsRight
    <3>2. CASE g = f
      <4>1. \A q \in Account!Steps \union Account!Codes : uses'[f][q] <= 1
        BY <1>2, <1>8 DEF AccountProofsRight
      <4>2. ASSUME NEW u \in Account!Steps, factor'[f].last < u PROVE uses'[f][u] = 0
        <5>1. factor[f].last \in Int /\ t \in Int /\ u \in Int
          BY <1>2, AccountNumbers DEF AccountFactorsRight, AccountFactorRow
        <5>2. u # t /\ factor[f].last < u BY <5>1, <4>2, <1>2, <1>5
        <5> QED BY <5>2, <1>2, <1>8 DEF AccountProofsRight
      <4>3. uses'[f][code] = 0 BY <1>2, <1>3, <1>8, AccountNumbers
      <4> QED BY <3>2, <4>1, <4>2, <4>3, <1>2, <1>5, <2>1
    <3> QED BY <3>1, <3>2
  <2> QED BY <1>8, <2>1, <2>2 DEF AccountProofsRight
<1>10. AccountChallengesRight'
  BY AccountChallengeSame, AccountUnlockedUnlocks, AccountChallengesSettleRight DEF Account!RotateRecoveryCodes
<1> QED BY <1>5, <1>9, <1>10, AccountSameRight, AccountGrantsSameRight DEF Account!RotateRecoveryCodes,
   AccountSame, AccountGrantsSame

LEMMA AccountResetSecurityInv ==
  ASSUME AccountGiven, AccountInv, NEW s \in Account!Sessions, NEW v,
         NEW p \in Account!Steps \union Account!Codes, NEW totp \in BOOLEAN,
         Account!ResetSecurity(s, v, p, totp)
  PROVE  AccountInv'
<1> USE DEF AccountInv
<1>1. PICK f : f = session[s].factor
  OBVIOUS
<1>2. f \in Account!Factors /\ Account!Accepts(f, p)  BY <1>1, AccountCurrentSession DEF Account!ResetSecurity
<1>3. uses[f][p] = 0 BY <1>2, AccountNumbers DEF Account!Accepts, AccountProofsRight
<1>4. /\ uses' \in [Account!Factors -> [Account!Steps \union Account!Codes -> Nat]]
      /\ uses'[f][p] = 1
      /\ \A g \in Account!Factors : \A q \in Account!Steps \union Account!Codes : (g # f \/ q # p)
          => uses'[g][q] = uses[g][q]
  BY <1>1, <1>2, <1>3, AccountUsesOnce DEF Account!ResetSecurity
<1>5. factor' = [g \in Account!Factors |->
          [status |-> IF totp /\ factor[g].status \in {"ACTIVE", "PENDING"} THEN "REVOKED" ELSE factor[g].status,
           last |-> IF g = f /\ p \in Account!Steps THEN p ELSE factor[g].last]]
  BY <1>1 DEF Account!ResetSecurity
<1>6. \A g \in Account!Factors : factor[g] \in AccountFactorRow BY DEF AccountFactorsRight
<1>7. ASSUME NEW g \in Account!Factors
      PROVE  /\ factor'[g] \in AccountFactorRow
             /\ factor'[g].status = IF totp /\ AccountInUse(g) THEN "REVOKED" ELSE factor[g].status
             /\ factor'[g].last = IF g = f /\ p \in Account!Steps THEN p ELSE factor[g].last
  <2>1. p \in Account!Steps => p \in 0 .. LastStep BY AccountNumbers DEF Account!Steps
  <2> QED BY <1>5, <1>6, <2>1 DEF AccountFactorRow, AccountInUse
<1>8. AccountFactorsRight'
  <2>1. factor' \in [Account!Factors -> AccountFactorRow] BY <1>5, <1>7
  <2>2. \A g \in Account!Factors : AccountInUse(g)' => AccountInUse(g) BY <1>7 DEF AccountInUse
  <2> QED BY <2>1, <2>2 DEF AccountFactorsRight
<1>9. AccountProofsRight'
  <2>1. unused' = [g \in Account!Factors |-> IF totp THEN {} ELSE unused[g] \ {p}]
    BY DEF Account!ResetSecurity
  <2>2. unused' \in [Account!Factors -> SUBSET Account!Codes]
     /\ (totp => \A g \in Account!Factors : unused'[g] = {})
        /\ \A g \in Account!Factors : unused'[g] \subseteq unused[g] \ {p}
    BY <2>1 DEF AccountProofsRight
  <2>3. ASSUME NEW g \in Account!Factors
        PROVE  /\ \A q \in Account!Steps \union Account!Codes : uses'[g][q] <= 1
               /\ \A u \in Account!Steps : factor'[g].last < u => uses'[g][u] = 0
               /\ \A c \in unused'[g] : uses'[g][c] = 0
               /\ \A c, d \in unused'[g] : c = d
               /\ unused'[g] # {} => factor'[g].status = "ACTIVE"
    <3>1. \A q \in Account!Steps \union Account!Codes : uses'[g][q] <= 1  BY <1>2, <1>4 DEF AccountProofsRight
    <3>2. ASSUME NEW u \in Account!Steps, factor'[g].last < u PROVE uses'[g][u] = 0
      <4>1. factor[g].last \in Int /\ u \in Int
         /\ (g = f /\ p \in Account!Steps => factor[f].last < p /\ p \in Int)
        BY <1>2, <1>6, AccountNumbers DEF AccountFactorRow, Account!Accepts
      <4>2. factor[g].last < u /\ (g = f => u # p) BY <4>1, <3>2, <1>7
      <4> QED BY <4>2, <1>4 DEF AccountProofsRight
    <3>3. \A c \in unused'[g] : uses'[g][c] = 0 BY <2>2, <1>4 DEF AccountProofsRight
    <3>4. \A c, d \in unused'[g] : c = d BY <2>2 DEF AccountProofsRight
    <3>5. unused'[g] # {} => factor'[g].status = "ACTIVE" BY <2>2, <1>7 DEF AccountProofsRight
    <3> QED BY <3>1, <3>2, <3>3, <3>4, <3>5
  <2> QED BY <1>4, <2>2, <2>3 DEF AccountProofsRight
<1>10. AccountChallengesRight'
  <2>1. challenge' = [k \in Account!Challenges |-> IF challenge[k].status \in {"PENDING", "LOCKED", "VERIFIED"}
                         THEN [challenge[k] EXCEPT !.status = "EXPIRED"] ELSE challenge[k]]
    BY DEF Account!ResetSecurity, Account!Settled
  <2>2. \A k \in Account!Challenges : challenge[k] \in AccountChallengeRow
        /\ [challenge[k] EXCEPT !.status = "EXPIRED"] \in AccountChallengeRow
        /\ [challenge[k] EXCEPT !.status = "EXPIRED"].status # "PENDING"
    BY AccountExpiredRow DEF AccountChallengesRight
  <2>3. AccountChallengesSettle BY <2>1, <2>2 DEF AccountChallengesSettle
  <2> QED BY <2>3, AccountUnlockedUnlocks, AccountChallengesSettleRight DEF Account!ResetSecurity
<1>11. AccountSessionsRight'
  <2>1. version' \in Account!Versions
    BY AccountNumbers DEF Account!ResetSecurity, AccountSessionsRight, AccountRowsRight, Account!Versions
  <2>2. session' \in [Account!Sessions -> AccountSessionRow] /\ \A o \in Account!Sessions : AccountFades(o)
     /\ ~Account!Unrevoked(o)'
    BY AccountRevokedRows DEF Account!ResetSecurity, Account!ResetEnds, AccountSessionsRight, AccountFades,
       AccountSameRow, Account!Unrevoked
  <2> QED BY <2>1, <2>2, AccountSessionsEndRight DEF AccountSessionsEnd
<1>12. AccountGrantsRight'
  <2>1. \A g \in Account!Grants : grant[g] \in AccountGrantRow
     /\ [grant[g] EXCEPT !.status = "REVOKED"] \in AccountGrantRow
    BY DEF AccountGrantsRight, AccountGrantRow
  <2> QED BY <2>1 DEF AccountGrantsRight, Account!ResetSecurity
<1> QED BY <1>8, <1>9, <1>10, <1>11, <1>12

LEMMA AccountWrongCodeInv ==
  ASSUME AccountGiven, AccountInv, NEW k \in Account!Challenges, Account!WrongCode(k)
  PROVE  AccountInv'
<1>1. challenge[k].purpose \in Account!Purposes  BY DEF AccountInv, AccountChallengesRight, Account!WrongCode
<1> QED BY <1>1, AccountFailInv DEF Account!WrongCode

LEMMA AccountStepwise ==
  ASSUME AccountGiven, AccountInv, Account!Next
  PROVE  AccountInv'
<1>1. CASE Account!SignIn
  <2>1. ASSUME NEW v, Account!WrongPassword(v) PROVE AccountInv'
    BY <2>1, AccountFailInv DEF Account!WrongPassword, Account!Purposes
  <2> QED BY <1>1, <2>1, AccountCreateEnrollmentInv, AccountCreateLoginChallengeInv, AccountWrongCodeInv,
     AccountLapseInv, AccountCompleteLoginInv, AccountCompleteEnrollmentInv DEF Account!SignIn
<1>2. CASE Account!Recover
  BY <1>2, AccountCompleteLoginInv, AccountRotateRecoveryCodesInv
     DEF Account!Recover, Account!CompleteLoginRecovery
<1>3. CASE Account!Leave  BY <1>3, AccountRefreshInv, AccountLogoutInv, AccountLogoutAllInv DEF Account!Leave
<1>4. CASE Account!Change BY <1>4, AccountChangePasswordInv DEF Account!Change
<1>5. ASSUME NEW s, NEW v, NEW p \in Account!Purposes, Account!WrongProof(s, v, p) PROVE AccountInv'
  BY <1>5, AccountFailInv DEF Account!WrongProof
<1>6. CASE Account!Reset BY <1>5, <1>6, AccountResetSecurityInv DEF Account!Reset, Account!Purposes
<1>7. CASE Account!Reauthenticate
  BY <1>7, AccountCreateReauthChallengeInv, AccountCompleteReauthChallengeInv DEF Account!Reauthenticate
<1>8. CASE Account!Payout
  BY <1>5, <1>8, AccountCreatePayoutGrantInv, AccountLapseInv DEF Account!Payout, Account!Purposes
<1> QED BY <1>1, <1>2, <1>3, <1>4, <1>6, <1>7, <1>8 DEF Account!Next

LEMMA AccountStutters ==
  ASSUME AccountInv, UNCHANGED Account!vars
  PROVE  AccountInv'
BY DEF Account!vars, AccountInv, AccountFactorsRight, AccountInUse, AccountSessionsRight, AccountRowsRight,
   Account!LiveSessionsOfToday, Account!OneSessionOfFamily, AccountByActiveFactor, Account!Unrevoked,
   AccountChallengesRight, Account!LockedMeansNoChallenge, AccountProofsRight, AccountGrantsRight

--------------------------------
\* What the invariant says.
LEMMA AccountSingle ==
  ASSUME NEW S, \A x, y \in S : x = y
  PROVE  Account!Cardinality(S) <= 1
<1>1. CASE S = {} BY <1>1, AccountFS_EmptySet
<1>2. CASE S # {}
  <2>1. PICK x \in S : S = {x} BY <1>2
  <2> QED BY <2>1, AccountFS_Singleton
<1> QED BY <1>1, <1>2

LEMMA AccountIsSound ==
  ASSUME AccountGiven, AccountInv
  PROVE  Account!SignInsAreSound
<1> USE DEF AccountInv
<1>1. Account!TypeOK
  BY DEF Account!TypeOK, AccountFactorsRight, AccountFactorRow, AccountSessionsRight, AccountRowsRight,
     AccountSessionRow, AccountChallengesRight,
     AccountChallengeRow, AccountLimitRow, AccountProofsRight, AccountGrantsRight, AccountGrantRow
<1>2. Account!LiveSessionsOfToday /\ Account!OneSessionOfFamily /\ Account!LockedMeansNoChallenge
  BY DEF AccountSessionsRight, AccountChallengesRight
<1>3. Account!ProofUsedOnce BY DEF AccountProofsRight, Account!ProofUsedOnce
<1>4. Account!SessionsOfActiveFactor
  <2>1. Account!Cardinality(Account!ActiveFactors) <= 1
    BY AccountSingle DEF Account!ActiveFactors, AccountFactorsRight, AccountInUse
  <2> QED BY <2>1 DEF Account!SessionsOfActiveFactor, AccountSessionsRight, AccountByActiveFactor
<1>5. Account!OnePrintOfCodes BY AccountSingle DEF AccountProofsRight, Account!OnePrintOfCodes
<1> QED BY <1>1, <1>2, <1>3, <1>4, <1>5 DEF Account!SignInsAreSound

\* A family without a session that can be used gets none.
AccountEnded(s) == session[s].status # "NONE" /\ \A o \in Account!Family(s) : ~Account!Unrevoked(o)

LEMMA AccountEndedFamily ==
  ASSUME AccountRowsRight, NEW s \in Account!Sessions, AccountEnded(s), NEW o \in Account!Sessions,
         session[o].family = session[s].family
  PROVE  session[o].status = "REVOKED"
<1>1. session[s].family # 0 BY DEF AccountRowsRight, AccountEnded, Account!Sessions
<1>2. session[o].status # "NONE" BY <1>1 DEF AccountRowsRight, Account!NoSession
<1>3. ~Account!Unrevoked(o) /\ session[o] \in AccountSessionRow
  BY DEF AccountEnded, Account!Family, AccountRowsRight
<1> QED BY <1>2, <1>3 DEF Account!Unrevoked, AccountSessionRow

LEMMA AccountFadesKeeps ==
  ASSUME AccountRowsRight, \A o \in Account!Sessions : AccountFades(o)
  PROVE  Account!KeepsFamilyEnded
<1>1. SUFFICES ASSUME NEW s \in Account!Sessions, AccountEnded(s), NEW o \in Account!Sessions,
                      session'[o].family = session[s].family
               PROVE  session'[o].status = "REVOKED"
  BY DEF Account!KeepsFamilyEnded, AccountEnded
<1>2. session[o].family = session[s].family BY <1>1 DEF AccountFades, AccountSameRow
<1>3. session[o].status = "REVOKED" BY <1>1, <1>2, AccountEndedFamily
<1> QED BY <1>3 DEF AccountFades, Account!Unrevoked

\* A row n is new, of a family that has a session or of its own.
LEMMA AccountAddsKeeps ==
  ASSUME AccountRowsRight, NEW n \in Account!Sessions, \A o \in Account!Sessions : o # n => AccountFades(o),
         \A s \in Account!Sessions : AccountEnded(s) => session'[n].family # session[s].family
  PROVE  Account!KeepsFamilyEnded
<1>1. SUFFICES ASSUME NEW s \in Account!Sessions, AccountEnded(s), NEW o \in Account!Sessions,
                      session'[o].family = session[s].family
               PROVE  session'[o].status = "REVOKED"
  BY DEF Account!KeepsFamilyEnded, AccountEnded
<1>2. o # n BY <1>1
<1>3. session[o].family = session[s].family BY <1>1, <1>2 DEF AccountFades, AccountSameRow
<1>4. session[o].status = "REVOKED" BY <1>1, <1>3, AccountEndedFamily
<1> QED BY <1>2, <1>4 DEF AccountFades, Account!Unrevoked

\* A login opens a family of its own.
LEMMA AccountOpenKeeps ==
  ASSUME AccountGiven, AccountSessionsRight, Account!CanOpen, NEW f, NEW v, session' = Account!Opened(f, v)
  PROVE  Account!KeepsFamilyEnded
<1>1. PICK n : n = Account!Min(Account!FreeRows(session, Account!NoSession))
  OBVIOUS
<1>2. n \in Account!Sessions /\ session[n] = Account!NoSession /\ AccountRowsRight
  BY <1>1, AccountFreeRow, AccountNumbers DEF Account!CanOpen, AccountSessionsRight, AccountRowsRight,
     Account!Sessions
<1>3. session'[n].family = n /\ \A o \in Account!Sessions : o # n => session'[o] = session[o]
  BY <1>1, <1>2 DEF Account!Opened, AccountRowsRight
<1>4. \A s \in Account!Sessions : AccountEnded(s) => session[s].family # n
  BY <1>2 DEF AccountEnded, AccountRowsRight, Account!NoSession
<1> QED BY <1>2, <1>3, <1>4, AccountAddsKeeps DEF AccountFades

LEMMA AccountRefreshKeeps ==
  ASSUME AccountGiven, AccountSessionsRight, NEW s \in Account!Sessions, Account!Refresh(s)
  PROVE  Account!KeepsFamilyEnded
<1>1. AccountRowsRight BY DEF AccountSessionsRight
<1>2. CASE session[s].status = "LIVE" /\ factor[session[s].factor].status = "ACTIVE"
  <2>1. PICK n : n = Account!Min(Account!FreeRows(session, Account!NoSession))
    OBVIOUS
  <2>2. n \in Account!Sessions /\ session[n] = Account!NoSession
    BY <1>1, <1>2, <2>1, AccountFreeRow, AccountNumbers DEF Account!Refresh, Account!CanOpen,
       AccountRowsRight, Account!Sessions
  <2>3. session' = [Account!Revoked({s}) EXCEPT ![n] = [session[s] EXCEPT !.first = session[s].since]]
    BY <1>2, <2>1 DEF Account!Refresh
  <2>4. session'[n].family = session[s].family /\ \A o \in Account!Sessions : o # n
     => session'[o] = Account!Revoked({s})[o]
    BY <1>1, <2>2, <2>3, AccountRevokedRows DEF AccountRowsRight, AccountSessionRow
  <2>5. \A o \in Account!Sessions : o # n => AccountFades(o)
    BY <1>1, <2>4, AccountRevokedRows DEF AccountFades, AccountSameRow
  <2>6. \A o \in Account!Sessions : AccountEnded(o) => session[o].family # session[s].family
    BY <1>2 DEF AccountEnded, Account!Family, Account!Unrevoked
  <2> QED BY <1>1, <2>2, <2>4, <2>5, <2>6, AccountAddsKeeps
<1>3. CASE ~(session[s].status = "LIVE" /\ factor[session[s].factor].status = "ACTIVE")
  <2>1. session' = Account!Revoked(Account!Family(s)) BY <1>3 DEF Account!Refresh
  <2> QED BY <1>1, <2>1, AccountRevokedRows, AccountFadesKeeps DEF AccountFades, AccountSameRow
<1> QED BY <1>2, <1>3

LEMMA AccountChangeKeeps ==
  ASSUME AccountGiven, AccountSessionsRight, NEW s \in Account!Sessions, NEW v, Account!ChangePassword(s, v)
  PROVE  Account!KeepsFamilyEnded
<1>1. AccountRowsRight BY DEF AccountSessionsRight
<1>2. session' = [Account!Revoked(Account!Sessions \ {s}) EXCEPT ![s].since = version + 1]
   /\ session[s].status = "LIVE"
  BY DEF Account!ChangePassword, Account!Current
<1>3. session'[s].family = session[s].family /\ \A o \in Account!Sessions : o # s
   => session'[o] = Account!Revoked(Account!Sessions \ {s})[o]
  BY <1>1, <1>2, AccountRevokedRows DEF AccountRowsRight, AccountSessionRow
<1>4. \A o \in Account!Sessions : o # s => AccountFades(o)
  BY <1>1, <1>3, AccountRevokedRows DEF AccountFades, AccountSameRow
<1>5. \A o \in Account!Sessions : AccountEnded(o) => session[o].family # session[s].family
  BY <1>2 DEF AccountEnded, Account!Family, Account!Unrevoked
<1> QED BY <1>1, <1>3, <1>4, <1>5, AccountAddsKeeps

LEMMA AccountSessionsSameKeeps ==
  ASSUME AccountSessionsRight, session' = session
  PROVE  Account!KeepsFamilyEnded
BY AccountFadesKeeps DEF AccountSessionsRight, AccountFades

LEMMA AccountLapseKeeps ==
  ASSUME AccountSessionsRight, NEW s \in Account!Sessions, Account!SessionLapses(s)
  PROVE  Account!KeepsFamilyEnded
<1>1. \A o \in Account!Sessions : AccountFades(o)
  BY DEF AccountSessionsRight, AccountRowsRight, AccountSessionRow, Account!SessionLapses, AccountFades,
     AccountSameRow, Account!Unrevoked
<1> QED BY <1>1, AccountFadesKeeps DEF AccountSessionsRight

LEMMA AccountKeepsRight ==
  ASSUME AccountGiven, AccountInv, Account!Next
  PROVE  Account!KeepsFamilyEnded
<1> USE DEF AccountInv
<1>1. CASE session' = session BY <1>1, AccountSessionsSameKeeps
<1>2. CASE Account!SignIn
  <2>1. ASSUME NEW k \in Account!Challenges, NEW p, Account!CompleteLogin(k, p) PROVE Account!KeepsFamilyEnded
    BY <2>1, AccountOpenKeeps DEF Account!CompleteLogin
  <2>2. ASSUME NEW k \in Account!Challenges, NEW t, NEW code,
               Account!CompleteEnrollment(k, t, code) PROVE Account!KeepsFamilyEnded
    BY <2>2, AccountOpenKeeps DEF Account!CompleteEnrollment
  <2>3. ASSUME \/ \E v \in 1 .. version : Account!WrongPassword(v) \/ Account!CreateEnrollment(v)
                   \/ Account!CreateLoginChallenge(v)
               \/ \E k \in Account!Challenges : Account!WrongCode(k) \/ Account!ChallengeLapses(k)
               \/ \E p \in Account!Purposes : Account!LockLapses(p)
        PROVE  session' = session
    BY <2>3 DEF Account!WrongPassword, Account!CreateEnrollment, Account!CreateLoginChallenge,
       Account!WrongCode, Account!ChallengeLapses, Account!LockLapses, Account!Fail
  <2> QED BY <1>1, <1>2, <2>1, <2>2, <2>3, AccountLapseKeeps DEF Account!SignIn
<1>3. CASE Account!Recover
  <2>1. ASSUME NEW k \in Account!Challenges, NEW p, Account!CompleteLogin(k, p) PROVE Account!KeepsFamilyEnded
    BY <2>1, AccountOpenKeeps DEF Account!CompleteLogin
  <2> QED BY <1>1, <1>3, <2>1 DEF Account!Recover, Account!CompleteLoginRecovery, Account!RotateRecoveryCodes
<1>4. CASE Account!Leave
  <2>1. ASSUME NEW ss, session' = Account!Revoked(ss) PROVE Account!KeepsFamilyEnded
    <3>1. \A o \in Account!Sessions : AccountFades(o)
      BY <2>1, AccountRevokedRows DEF AccountSessionsRight, AccountFades, AccountSameRow
    <3> QED BY <3>1, AccountFadesKeeps DEF AccountSessionsRight
  <2> QED BY <1>4, <2>1, AccountRefreshKeeps DEF Account!Leave, Account!Logout, Account!LogoutAll
<1>5. CASE Account!Change BY <1>5, AccountChangeKeeps DEF Account!Change
<1>6. CASE Account!Reset
  <2>1. ASSUME NEW s, NEW v, NEW p, NEW totp, Account!ResetSecurity(s, v, p, totp) PROVE Account!KeepsFamilyEnded
    <3>1. \A o \in Account!Sessions : AccountFades(o)
      BY <2>1, AccountRevokedRows DEF Account!ResetSecurity, AccountSessionsRight, AccountFades, AccountSameRow
    <3> QED BY <3>1, AccountFadesKeeps DEF AccountSessionsRight
  <2> QED BY <1>1, <1>6, <2>1 DEF Account!Reset, Account!WrongProof, Account!Fail
<1>7. CASE Account!Reauthenticate
  BY <1>1, <1>7 DEF Account!Reauthenticate, Account!CreateReauthChallenge, Account!CompleteReauthChallenge
<1>8. CASE Account!Payout
  BY <1>1, <1>8 DEF Account!Payout, Account!WrongProof, Account!Fail, Account!CreatePayoutGrant,
     Account!GrantLapses, Account!ConsumePayoutGrant, Account!WithdrawalPaid
<1> QED BY <1>2, <1>3, <1>4, <1>5, <1>6, <1>7, <1>8 DEF Account!Next

\* A grant is consumed by the session that asked for it.
LEMMA AccountRevealsRight ==
  ASSUME AccountGiven, AccountInv, Account!Next
  PROVE  Account!RevealsToTheAsker
<1> USE DEF AccountInv
<1>1. ASSUME \A g \in Account!Grants : grant'[g].status = "CONSUMED" => grant[g].status = "CONSUMED"
      PROVE  Account!RevealsToTheAsker
  BY <1>1 DEF Account!RevealsToTheAsker
<1>2. CASE grant' = grant BY <1>1, <1>2
<1>3. CASE Account!SignIn
  BY <1>2, <1>3 DEF Account!SignIn, Account!WrongPassword, Account!CreateEnrollment,
     Account!CreateLoginChallenge, Account!WrongCode, Account!ChallengeLapses, Account!LockLapses,
     Account!Fail, Account!CompleteLogin, Account!CompleteEnrollment, Account!SessionLapses
<1>4. CASE Account!Recover
  BY <1>2, <1>4 DEF Account!Recover, Account!CompleteLoginRecovery, Account!CompleteLogin,
     Account!RotateRecoveryCodes
<1>5. CASE Account!Leave  BY <1>2, <1>5 DEF Account!Leave, Account!Refresh, Account!Logout, Account!LogoutAll
<1>6. CASE Account!Change BY <1>2, <1>6 DEF Account!Change, Account!ChangePassword
<1>7. \A g \in Account!Grants : grant[g] \in AccountGrantRow /\ grant \in [Account!Grants -> AccountGrantRow]
  BY DEF AccountGrantsRight
<1>8. \A g \in Account!Grants : [grant[g] EXCEPT !.status = "REVOKED"].status = "REVOKED"
                        /\ [grant[g] EXCEPT !.status = "EXPIRED"].status = "EXPIRED"
  BY <1>7 DEF AccountGrantRow
<1>9. CASE Account!Reset
  <2>1. ASSUME NEW s, NEW v, NEW p, NEW totp,
               Account!ResetSecurity(s, v, p, totp) PROVE Account!RevealsToTheAsker
    BY <1>1, <1>8, <2>1 DEF Account!ResetSecurity
  <2> QED BY <1>2, <1>9, <2>1 DEF Account!Reset, Account!WrongProof, Account!Fail
<1>10. CASE Account!Reauthenticate
  BY <1>2, <1>10 DEF Account!Reauthenticate, Account!CreateReauthChallenge, Account!CompleteReauthChallenge
<1>11. CASE Account!Payout
  <2>1. ASSUME NEW g \in Account!Grants, Account!GrantLapses(g) PROVE Account!RevealsToTheAsker
    BY <1>1, <1>7, <1>8, <2>1 DEF Account!GrantLapses
  <2>2. ASSUME NEW s, NEW v, NEW t, Account!CreatePayoutGrant(s, v, t) PROVE Account!RevealsToTheAsker
    BY <1>1, <1>7, <2>2 DEF Account!CreatePayoutGrant
  <2>3. ASSUME NEW g \in Account!Grants, NEW s \in Account!Sessions,
               Account!ConsumePayoutGrant(g, s) PROVE Account!RevealsToTheAsker
    <3>1. \A o \in Account!Grants : o # g => grant'[o] = grant[o]
      BY <1>7, <2>3 DEF Account!ConsumePayoutGrant
    <3>2. grant[g].session = s /\ session[s].status = "LIVE" /\ session[s].since = version /\ approved
      BY <2>3 DEF Account!ConsumePayoutGrant, AccountSessionsRight, Account!LiveSessionsOfToday, Account!Unrevoked
    <3> QED BY <3>1, <3>2 DEF Account!RevealsToTheAsker
  <2> QED BY <1>2, <1>11, <2>1, <2>2, <2>3 DEF Account!Payout, Account!WrongProof, Account!Fail,
     Account!WithdrawalPaid
<1> QED BY <1>3, <1>4, <1>5, <1>6, <1>9, <1>10, <1>11 DEF Account!Next

--------------------------------
\* Offline recovery: who may have which credentials replaced rests on what
\* each row says of its people (PeopleRight); that versions keep their
\* bound, on each recovery being executed once.

\* The operators of the libraries, as the instance names them.
LEMMA RecoveryPlain ==
  /\ \A S : Recovery!IsFiniteSet(S) = IsFiniteSet(S)
  /\ \A S : Recovery!Cardinality(S) = Cardinality(S)
<1>1. \A S : Recovery!IsFiniteSet(S) = IsFiniteSet(S) BY DEF Recovery!IsFiniteSet, IsFiniteSet
<1>2. \A S : Recovery!Cardinality(S) = Cardinality(S) BY DEF Recovery!Cardinality, Cardinality
<1> QED BY <1>1, <1>2

LEMMA RecoveryFS_EmptySet ==
  /\ Recovery!IsFiniteSet({}) /\ Recovery!Cardinality({}) = 0
  /\ \A S : Recovery!IsFiniteSet(S) => (Recovery!Cardinality(S) = 0 <=> S = {})
BY FS_EmptySet, RecoveryPlain

LEMMA RecoveryFS_CardinalityType ==
  ASSUME NEW S, Recovery!IsFiniteSet(S)
  PROVE  Recovery!Cardinality(S) \in Nat
BY FS_CardinalityType, RecoveryPlain

LEMMA RecoveryFS_Subset ==
  ASSUME NEW S, Recovery!IsFiniteSet(S), NEW T \in SUBSET S
  PROVE  /\ Recovery!IsFiniteSet(T)
         /\ Recovery!Cardinality(T) <= Recovery!Cardinality(S)
         /\ Recovery!Cardinality(S) = Recovery!Cardinality(T) => S = T
BY FS_Subset, RecoveryPlain

LEMMA RecoveryFS_AddElement ==
  ASSUME NEW S, NEW e, Recovery!IsFiniteSet(S)
  PROVE  /\ Recovery!IsFiniteSet(S \cup {e})
         /\ Recovery!Cardinality(S \cup {e}) = IF e \in S THEN Recovery!Cardinality(S) ELSE Recovery!Cardinality(S) + 1
BY FS_AddElement, RecoveryPlain

LEMMA RecoveryFS_Interval ==
  ASSUME NEW m \in Int, NEW n \in Int
  PROVE  /\ Recovery!IsFiniteSet(m .. n)
         /\ Recovery!Cardinality(m .. n) = IF m > n THEN 0 ELSE n - m + 1
BY FS_Interval, RecoveryPlain

LEMMA RecoveryLeast ==
  ASSUME NEW T \in SUBSET Nat, T # {}
  PROVE  Recovery!Min(T) \in T
BY AccountLeast DEF Recovery!Min, Account!Min

RecoveryRows == [status: {"NONE", "PENDING_APPROVAL", "APPROVED"} \union Recovery!Closed,
         target: SUBSET Operators, by: SUBSET Operators, frozen: Nat,
         for: SUBSET Operators, against: SUBSET Operators, late: BOOLEAN]

RecoveryExecuted == {r \in Recovery!Recoveries : recovery[r].status = "EXECUTED"}

\* The parts of the types that hold by themselves.
RecoveryTyped ==
    /\ account \in [Operators -> Nat \ {0}]
    /\ active \subseteq Operators
    /\ recovery \in [Recovery!Recoveries -> RecoveryRows]

\* Whoever approved is neither the target nor the requester, and a recovery
\* somebody rejected is REJECTED.
RecoveryPeopleRight == \A r \in Recovery!Recoveries :
    /\ recovery[r].for \intersect (recovery[r].target \union recovery[r].by) = {}
    /\ recovery[r].against # {} => recovery[r].status = "REJECTED"

\* An account is changed by itself up to the bound, then by recoveries only.
RecoveryVersionsCounted == \A who \in Operators : account[who] <= OwnChanges + Recovery!Cardinality(RecoveryExecuted)

RecoveryFrozenCounted == \A r \in Recovery!Recoveries : recovery[r].frozen <= OwnChanges + Recovery!Cardinality(RecoveryExecuted)

RecoveryInv == RecoveryTyped /\ RecoveryPeopleRight /\ RecoveryVersionsCounted /\ RecoveryFrozenCounted
   /\ Recovery!OneOpenPerTarget

RecoveryGiven == Recovery!OfflineRecoveryAssumption

LEMMA RecoveryExecutedFinite ==
  ASSUME RecoveryGiven
  PROVE  /\ Recovery!IsFiniteSet(Recovery!Recoveries) /\ Recovery!Cardinality(Recovery!Recoveries) = RecoveryCount
         /\ \A T \in SUBSET Recovery!Recoveries : Recovery!IsFiniteSet(T) /\ Recovery!Cardinality(T) \in Nat
             /\ Recovery!Cardinality(T) <= RecoveryCount
<1>1. RecoveryCount \in Nat BY DEF RecoveryGiven, Recovery!OfflineRecoveryAssumption
<1>2. Recovery!IsFiniteSet(Recovery!Recoveries) /\ Recovery!Cardinality(Recovery!Recoveries) = RecoveryCount
  <2>1. Recovery!IsFiniteSet(1 .. RecoveryCount) /\ Recovery!Cardinality(1 .. RecoveryCount) = RecoveryCount
    BY <1>1, RecoveryFS_Interval
  <2> QED BY <2>1 DEF Recovery!Recoveries
<1>3. ASSUME NEW T \in SUBSET Recovery!Recoveries
      PROVE  Recovery!IsFiniteSet(T) /\ Recovery!Cardinality(T) \in Nat
         /\ Recovery!Cardinality(T) <= RecoveryCount
  <2>1. Recovery!IsFiniteSet(T) /\ Recovery!Cardinality(T) <= Recovery!Cardinality(Recovery!Recoveries)
    BY <1>2, RecoveryFS_Subset
  <2>2. Recovery!Cardinality(T) \in Nat BY <2>1, RecoveryFS_CardinalityType
  <2> QED BY <1>2, <2>1, <2>2
<1> QED BY <1>2, <1>3

\* What the rows and the versions say gives their types.
LEMMA RecoveryTypesFollow ==
  ASSUME RecoveryGiven, RecoveryTyped, RecoveryVersionsCounted, RecoveryFrozenCounted
  PROVE  Recovery!TypeOK
<1>1. Recovery!Cardinality(RecoveryExecuted) \in Nat /\ Recovery!Cardinality(RecoveryExecuted) <= RecoveryCount
  BY RecoveryExecutedFinite DEF RecoveryExecuted
<1>2. OwnChanges \in Nat /\ RecoveryCount \in Nat  BY DEF RecoveryGiven, Recovery!OfflineRecoveryAssumption
<1>3. account \in [Operators -> 1 .. OwnChanges + RecoveryCount]
  <2>1. ASSUME NEW who \in Operators PROVE account[who] \in 1 .. OwnChanges + RecoveryCount
    <3>1. account[who] \in Nat \ {0} /\ account[who] <= OwnChanges + Recovery!Cardinality(RecoveryExecuted)
      BY DEF RecoveryTyped, RecoveryVersionsCounted
    <3> QED BY <3>1, <1>1, <1>2
  <2> QED BY <2>1 DEF RecoveryTyped
<1>4. ASSUME NEW r \in Recovery!Recoveries
      PROVE  recovery[r] \in [
          status: {"NONE", "PENDING_APPROVAL", "APPROVED"} \union Recovery!Closed,
          target: SUBSET Operators, by: SUBSET Operators, frozen: 0 .. OwnChanges + RecoveryCount,
          for: SUBSET Operators, against: SUBSET Operators, late: BOOLEAN]
  <2>1. recovery[r] \in RecoveryRows BY DEF RecoveryTyped
  <2>2. recovery[r].frozen <= OwnChanges + Recovery!Cardinality(RecoveryExecuted) /\ recovery[r].frozen \in Nat
    BY <2>1 DEF RecoveryFrozenCounted, RecoveryRows
  <2>3. recovery[r].frozen \in 0 .. OwnChanges + RecoveryCount BY <2>2, <1>1, <1>2
  <2> QED BY <2>1, <2>3 DEF RecoveryRows
<1> QED BY <1>3, <1>4 DEF Recovery!TypeOK, RecoveryTyped

LEMMA RecoveryInitially ==
  ASSUME RecoveryGiven, Recovery!Init
  PROVE  RecoveryInv
<1>1. RecoveryExecuted = {} BY DEF Recovery!Init, RecoveryExecuted, Recovery!NoRecovery
<1>2. Recovery!Cardinality(RecoveryExecuted) = 0 BY <1>1, RecoveryFS_EmptySet
<1>3. RecoveryTyped  BY DEF Recovery!Init, RecoveryTyped, Recovery!NoRecovery, RecoveryRows, Recovery!Closed
<1>4. RecoveryPeopleRight BY DEF Recovery!Init, RecoveryPeopleRight, Recovery!NoRecovery
<1>5. RecoveryVersionsCounted /\ RecoveryFrozenCounted
  BY <1>2 DEF Recovery!Init, RecoveryVersionsCounted, RecoveryFrozenCounted, Recovery!NoRecovery,
     RecoveryGiven, Recovery!OfflineRecoveryAssumption
<1>6. Recovery!OneOpenPerTarget
  BY DEF Recovery!Init, Recovery!OneOpenPerTarget, Recovery!Open, Recovery!NoRecovery
<1> QED BY <1>3, <1>4, <1>5, <1>6 DEF RecoveryInv

\* What a row keeps while it lives.
RecoveryKeeps(r, p) ==
    /\ p \in RecoveryRows
    /\ p.target = recovery[r].target /\ p.by = recovery[r].by /\ p.frozen = recovery[r].frozen
    /\ p.for \intersect (p.target \union p.by) = {}
    /\ p.against # {} => p.status = "REJECTED"
    /\ p.status \in {"PENDING_APPROVAL", "APPROVED"} => Recovery!Open(r)
    /\ recovery[r].status = "EXECUTED" => p.status = "EXECUTED"

\* Everybody who was executed stays so.
LEMMA RecoveryMoreExecuted ==
  ASSUME RecoveryGiven, NEW S \in SUBSET Recovery!Recoveries, NEW T \in SUBSET Recovery!Recoveries, S \subseteq T
  PROVE  /\ Recovery!Cardinality(S) \in Nat /\ Recovery!Cardinality(T) \in Nat
             /\ Recovery!Cardinality(S) <= Recovery!Cardinality(T)
         /\ S # T => Recovery!Cardinality(S) + 1 <= Recovery!Cardinality(T)
<1>1. Recovery!IsFiniteSet(T) /\ Recovery!Cardinality(S) \in Nat /\ Recovery!Cardinality(T) \in Nat
  BY RecoveryExecutedFinite
<1>2. Recovery!Cardinality(S) <= Recovery!Cardinality(T)
   /\ (S # T => Recovery!Cardinality(S) < Recovery!Cardinality(T))
  BY <1>1, RecoveryFS_Subset
<1> QED BY <1>1, <1>2

\* A step that moves rows without touching people or versions.
LEMMA RecoveryRowsMove ==
  ASSUME RecoveryGiven, RecoveryInv, recovery' \in [Recovery!Recoveries -> RecoveryRows],
         \A r \in Recovery!Recoveries : RecoveryKeeps(r, recovery'[r]),
         account' = account, active' \subseteq Operators
  PROVE  RecoveryInv'
<1> USE DEF RecoveryInv
<1>1. RecoveryTyped' BY DEF RecoveryTyped
<1>2. RecoveryPeopleRight' BY DEF RecoveryPeopleRight, RecoveryKeeps
<1>3. RecoveryExecuted \subseteq RecoveryExecuted' /\ RecoveryExecuted \in SUBSET Recovery!Recoveries
   /\ RecoveryExecuted' \in SUBSET Recovery!Recoveries
  BY DEF RecoveryExecuted, RecoveryKeeps
<1>4. /\ Recovery!Cardinality(RecoveryExecuted) \in Nat /\ Recovery!Cardinality(RecoveryExecuted') \in Nat
      /\ Recovery!Cardinality(RecoveryExecuted) <= Recovery!Cardinality(RecoveryExecuted')
  BY <1>3, RecoveryMoreExecuted
<1>5. OwnChanges \in Nat BY DEF RecoveryGiven, Recovery!OfflineRecoveryAssumption
<1>6. ASSUME NEW who \in Operators PROVE account'[who] <= OwnChanges + Recovery!Cardinality(RecoveryExecuted')
  <2>1. account[who] \in Nat /\ account[who] <= OwnChanges + Recovery!Cardinality(RecoveryExecuted)
    BY DEF RecoveryTyped, RecoveryVersionsCounted
  <2> QED BY <2>1, <1>4, <1>5
<1>7. ASSUME NEW r \in Recovery!Recoveries PROVE recovery'[r].frozen <= OwnChanges + Recovery!Cardinality(RecoveryExecuted')
  <2>1. recovery[r].frozen \in Nat /\ recovery[r].frozen <= OwnChanges + Recovery!Cardinality(RecoveryExecuted)
    BY DEF RecoveryTyped, RecoveryFrozenCounted, RecoveryRows
  <2>2. recovery'[r].frozen = recovery[r].frozen BY DEF RecoveryKeeps
  <2> QED BY <2>1, <2>2, <1>4, <1>5
<1>8. Recovery!OneOpenPerTarget'
  <2>1. \A r \in Recovery!Recoveries : Recovery!Open(r)'
     => Recovery!Open(r) /\ recovery'[r].target = recovery[r].target
    BY DEF RecoveryKeeps, Recovery!Open
  <2> QED BY <2>1 DEF Recovery!OneOpenPerTarget
<1> QED BY <1>1, <1>2, <1>6, <1>7, <1>8 DEF RecoveryVersionsCounted, RecoveryFrozenCounted

LEMMA RecoveryKeepsItself ==
  ASSUME RecoveryInv, NEW r \in Recovery!Recoveries
  PROVE  recovery[r] \in RecoveryRows /\ RecoveryKeeps(r, recovery[r])
BY DEF RecoveryInv, RecoveryTyped, RecoveryPeopleRight, RecoveryKeeps, Recovery!Open

\* One row moves.
LEMMA RecoveryRowMoves ==
  ASSUME RecoveryGiven, RecoveryInv, NEW r \in Recovery!Recoveries, NEW p, RecoveryKeeps(r, p),
         recovery' = [recovery EXCEPT ![r] = p], account' = account, active' = active
  PROVE  RecoveryInv'
<1>1. p \in RecoveryRows /\ recovery \in [Recovery!Recoveries -> RecoveryRows]
  BY DEF RecoveryKeeps, RecoveryInv, RecoveryTyped
<1>2. recovery' \in [Recovery!Recoveries -> RecoveryRows] BY <1>1
<1>3. ASSUME NEW q \in Recovery!Recoveries PROVE RecoveryKeeps(q, recovery'[q])
  <2>1. CASE q = r BY <2>1, <1>1
  <2>2. CASE q # r BY <2>2, <1>1, RecoveryKeepsItself
  <2> QED BY <2>1, <2>2
<1> QED BY <1>2, <1>3, RecoveryRowsMove DEF RecoveryInv, RecoveryTyped

LEMMA RecoveryCloseInv ==
  ASSUME RecoveryGiven, RecoveryInv, NEW o \in Operators, NEW v, NEW r \in Recovery!Recoveries,
         Recovery!Close(o, v, r)
  PROVE  RecoveryInv'
<1>1. PICK p : p = [recovery[r] EXCEPT !.status = "EXPIRED"]
  OBVIOUS
<1>2. recovery[r] \in RecoveryRows /\ recovery \in [Recovery!Recoveries -> RecoveryRows]
  BY DEF RecoveryInv, RecoveryTyped
<1>3. p \in RecoveryRows /\ p.status = "EXPIRED" /\ p.target = recovery[r].target /\ p.by = recovery[r].by
      /\ p.frozen = recovery[r].frozen /\ p.for = recovery[r].for /\ p.against = recovery[r].against
  BY <1>1, <1>2 DEF RecoveryRows, Recovery!Closed
<1>4. recovery[r].status \in {"PENDING_APPROVAL", "APPROVED"} BY DEF Recovery!Close, Recovery!Open
<1>5. RecoveryKeeps(r, p) BY <1>3, <1>4 DEF RecoveryKeeps, RecoveryInv, RecoveryPeopleRight
<1>6. recovery' = [recovery EXCEPT ![r] = p] /\ account' = account /\ active' = active
  BY <1>1, <1>2 DEF Recovery!Close, Recovery!Became
<1> QED BY <1>5, <1>6, RecoveryRowMoves

LEMMA RecoveryTimePassesInv ==
  ASSUME RecoveryGiven, RecoveryInv, NEW r \in Recovery!Recoveries, Recovery!TimePasses(r)
  PROVE  RecoveryInv'
<1>1. PICK p : p = [recovery[r] EXCEPT !.late = TRUE]
  OBVIOUS
<1>2. recovery[r] \in RecoveryRows /\ recovery \in [Recovery!Recoveries -> RecoveryRows]
  BY DEF RecoveryInv, RecoveryTyped
<1>3. p \in RecoveryRows /\ p.status = recovery[r].status /\ p.target = recovery[r].target
   /\ p.by = recovery[r].by
      /\ p.frozen = recovery[r].frozen /\ p.for = recovery[r].for /\ p.against = recovery[r].against
  BY <1>1, <1>2 DEF RecoveryRows
<1>5. RecoveryKeeps(r, p)  BY <1>3 DEF RecoveryKeeps, RecoveryInv, RecoveryPeopleRight, Recovery!Open
<1>6. recovery' = [recovery EXCEPT ![r] = p] /\ account' = account /\ active' = active
  BY <1>1, <1>2 DEF Recovery!TimePasses
<1> QED BY <1>5, <1>6, RecoveryRowMoves

LEMMA RecoveryApproveInv ==
  ASSUME RecoveryGiven, RecoveryInv, NEW o \in Operators, NEW v, NEW r \in Recovery!Recoveries,
         Recovery!Approve(o, v, r)
  PROVE  /\ RecoveryInv'
         /\ recovery'[r].status = "APPROVED" => Recovery!Cardinality(recovery'[r].for) >= 2
             /\ recovery'[r].against = {}
<1>1. PICK st : st = IF Recovery!Cardinality(recovery[r].for) + 1 >= 2 THEN "APPROVED" ELSE recovery[r].status
  OBVIOUS
<1>2. recovery[r] \in RecoveryRows /\ recovery \in [Recovery!Recoveries -> RecoveryRows]
  BY DEF RecoveryInv, RecoveryTyped
<1>3. PICK p : p = [recovery[r] EXCEPT !.for = recovery[r].for \union {o}, !.status = st]
  OBVIOUS
<1>4. recovery[r].status = "PENDING_APPROVAL" BY DEF Recovery!Approve
<1>5. st \in {"PENDING_APPROVAL", "APPROVED"} BY <1>1, <1>4
<1>6. p \in RecoveryRows /\ p.status = st /\ p.target = recovery[r].target /\ p.by = recovery[r].by
      /\ p.frozen = recovery[r].frozen /\ p.for = recovery[r].for \union {o} /\ p.against = recovery[r].against
  BY <1>2, <1>3, <1>5 DEF RecoveryRows
<1>7. o \notin recovery[r].target \union recovery[r].by /\ recovery[r].against = {} /\ Recovery!Open(r)
  BY <1>4 DEF Recovery!Approve, Recovery!MayDecide, RecoveryInv, RecoveryPeopleRight, Recovery!Open
<1>8. RecoveryKeeps(r, p) BY <1>6, <1>7, <1>4 DEF RecoveryKeeps, RecoveryInv, RecoveryPeopleRight
<1>9. recovery' = [recovery EXCEPT ![r] = p] /\ account' = account /\ active' = active
  <2>1. recovery' = [recovery EXCEPT
            ![r].for = @ \union {o},
            ![r].status = IF Recovery!Cardinality(recovery[r].for) + 1 >= 2 THEN "APPROVED" ELSE @]
        /\ account' = account /\ active' = active
    BY DEF Recovery!Approve
  <2> QED BY <2>1, <1>1, <1>2, <1>3
<1>10. recovery'[r] = p BY <1>2, <1>9
<1>11. ASSUME p.status = "APPROVED" PROVE Recovery!Cardinality(p.for) >= 2
  <2>1. Recovery!IsFiniteSet(recovery[r].for) /\ o \notin recovery[r].for
    <3>1. recovery[r].for \subseteq Operators /\ Recovery!IsFiniteSet(Operators)
      BY <1>2 DEF RecoveryRows, RecoveryGiven, Recovery!OfflineRecoveryAssumption
    <3> QED BY <3>1, RecoveryFS_Subset DEF Recovery!Approve
  <2>2. Recovery!Cardinality(recovery[r].for \union {o}) = Recovery!Cardinality(recovery[r].for) + 1
    BY <2>1, RecoveryFS_AddElement
  <2>3. Recovery!Cardinality(recovery[r].for) + 1 >= 2 BY <1>11, <1>6, <1>1, <1>4
  <2> QED BY <2>2, <2>3, <1>6
<1> QED BY <1>7, <1>6, <1>8, <1>9, <1>10, <1>11, RecoveryRowMoves

LEMMA RecoveryRejectInv ==
  ASSUME RecoveryGiven, RecoveryInv, NEW o \in Operators, NEW v, NEW r \in Recovery!Recoveries,
         Recovery!Reject(o, v, r)
  PROVE  RecoveryInv' /\ recovery'[r].status # "APPROVED"
<1>2. recovery[r] \in RecoveryRows /\ recovery \in [Recovery!Recoveries -> RecoveryRows]
  BY DEF RecoveryInv, RecoveryTyped
<1>3. PICK p : p = [recovery[r] EXCEPT !.against = recovery[r].against \union {o}, !.status = "REJECTED"]
  OBVIOUS
<1>6. p \in RecoveryRows /\ p.status = "REJECTED" /\ p.target = recovery[r].target /\ p.by = recovery[r].by
      /\ p.frozen = recovery[r].frozen /\ p.for = recovery[r].for
  BY <1>2, <1>3 DEF RecoveryRows, Recovery!Closed
<1>7. recovery[r].status # "EXECUTED" BY DEF Recovery!Reject, Recovery!Open
<1>8. RecoveryKeeps(r, p) BY <1>6, <1>7 DEF RecoveryKeeps, RecoveryInv, RecoveryPeopleRight
<1>9. recovery' = [recovery EXCEPT ![r] = p] /\ account' = account /\ active' = active
  BY <1>2, <1>3 DEF Recovery!Reject
<1> QED BY <1>2, <1>6, <1>8, <1>9, RecoveryRowMoves

LEMMA RecoveryExecuteInv ==
  ASSUME RecoveryGiven, RecoveryInv, NEW o \in Operators, NEW v, NEW r \in Recovery!Recoveries,
         Recovery!Execute(o, v, r)
  PROVE  RecoveryInv'
<1> USE DEF RecoveryInv
<1>1. recovery[r] \in RecoveryRows /\ recovery \in [Recovery!Recoveries -> RecoveryRows]
   /\ account \in [Operators -> Nat \ {0}]
  BY DEF RecoveryTyped
<1>2. PICK p : p = [recovery[r] EXCEPT !.status = "EXECUTED"]
  OBVIOUS
<1>3. p \in RecoveryRows /\ p.status = "EXECUTED" /\ p.target = recovery[r].target /\ p.by = recovery[r].by
      /\ p.frozen = recovery[r].frozen /\ p.for = recovery[r].for /\ p.against = recovery[r].against
  BY <1>1, <1>2 DEF RecoveryRows, Recovery!Closed
<1>4. recovery[r].status = "APPROVED" /\ recovery[r].against = {}
  BY DEF Recovery!Execute, RecoveryPeopleRight
<1>5. recovery' = [recovery EXCEPT ![r] = p] /\ active' = active
      /\ account' = [who \in Operators |-> IF who \in recovery[r].target THEN account[who] + 1 ELSE account[who]]
  BY <1>1, <1>2 DEF Recovery!Execute, Recovery!Became
<1>6. \A q \in Recovery!Recoveries : RecoveryKeeps(q, recovery'[q])
  <2>1. RecoveryKeeps(r, p) BY <1>3, <1>4 DEF RecoveryKeeps, RecoveryPeopleRight
  <2> QED BY <2>1, <1>1, <1>5, RecoveryKeepsItself
<1>7. RecoveryTyped' BY <1>1, <1>3, <1>5 DEF RecoveryTyped
<1>8. RecoveryPeopleRight' /\ Recovery!OneOpenPerTarget'
  <2>1. RecoveryPeopleRight' BY <1>6 DEF RecoveryPeopleRight, RecoveryKeeps
  <2>2. \A q \in Recovery!Recoveries : Recovery!Open(q)'
     => Recovery!Open(q) /\ recovery'[q].target = recovery[q].target
    BY <1>6 DEF RecoveryKeeps, Recovery!Open
  <2>3. Recovery!OneOpenPerTarget' BY <2>2 DEF Recovery!OneOpenPerTarget
  <2> QED BY <2>1, <2>3
<1>9. /\ Recovery!Cardinality(RecoveryExecuted) \in Nat /\ Recovery!Cardinality(RecoveryExecuted') \in Nat
      /\ Recovery!Cardinality(RecoveryExecuted) + 1 <= Recovery!Cardinality(RecoveryExecuted')
  <2>1. RecoveryExecuted \subseteq RecoveryExecuted' /\ RecoveryExecuted \in SUBSET Recovery!Recoveries
     /\ RecoveryExecuted' \in SUBSET Recovery!Recoveries
    BY <1>6 DEF RecoveryExecuted, RecoveryKeeps
  <2>2. r \in RecoveryExecuted' /\ r \notin RecoveryExecuted  BY <1>1, <1>3, <1>4, <1>5 DEF RecoveryExecuted
  <2> QED BY <2>1, <2>2, RecoveryMoreExecuted
<1>10. OwnChanges \in Nat BY DEF RecoveryGiven, Recovery!OfflineRecoveryAssumption
<1>11. RecoveryVersionsCounted'
  <2>1. ASSUME NEW who \in Operators PROVE account'[who] <= OwnChanges + Recovery!Cardinality(RecoveryExecuted')
    <3>1. account[who] \in Nat /\ account[who] <= OwnChanges + Recovery!Cardinality(RecoveryExecuted)
      BY DEF RecoveryTyped, RecoveryVersionsCounted
    <3>2. account'[who] \in {account[who], account[who] + 1} BY <1>5
    <3> QED BY <3>1, <3>2, <1>9, <1>10
  <2> QED BY <2>1 DEF RecoveryVersionsCounted
<1>12. RecoveryFrozenCounted'
  <2>1. ASSUME NEW q \in Recovery!Recoveries PROVE recovery'[q].frozen <= OwnChanges + Recovery!Cardinality(RecoveryExecuted')
    <3>1. recovery[q].frozen \in Nat /\ recovery[q].frozen <= OwnChanges + Recovery!Cardinality(RecoveryExecuted)
      BY DEF RecoveryTyped, RecoveryFrozenCounted, RecoveryRows
    <3>2. recovery'[q].frozen = recovery[q].frozen BY <1>6 DEF RecoveryKeeps
    <3> QED BY <3>1, <3>2, <1>9, <1>10
  <2> QED BY <2>1 DEF RecoveryFrozenCounted
<1> QED BY <1>7, <1>8, <1>11, <1>12

LEMMA RecoveryChangesInv ==
  ASSUME RecoveryGiven, RecoveryInv, NEW who \in Operators, Recovery!ChangeOwn(who) \/ Recovery!ChangeStatus(who)
  PROVE  RecoveryInv' /\ recovery' = recovery
<1> USE DEF RecoveryInv
<1>1. recovery' = recovery /\ RecoveryExecuted' = RecoveryExecuted
  BY DEF Recovery!ChangeOwn, Recovery!ChangeStatus, RecoveryExecuted
<1>2. OwnChanges \in Nat /\ Recovery!Cardinality(RecoveryExecuted) \in Nat
  BY RecoveryExecutedFinite DEF RecoveryGiven, Recovery!OfflineRecoveryAssumption, RecoveryExecuted
<1>3. account' \in [Operators -> Nat \ {0}] /\ RecoveryVersionsCounted'
  <2>1. CASE Recovery!ChangeStatus(who)
    BY <2>1, <1>1 DEF Recovery!ChangeStatus, RecoveryTyped, RecoveryVersionsCounted
  <2>2. CASE Recovery!ChangeOwn(who)
    <3>1. account' = [account EXCEPT ![who] = account[who] + 1] /\ account[who] < OwnChanges
      BY <2>2 DEF Recovery!ChangeOwn
    <3>2. account \in [Operators -> Nat \ {0}] BY DEF RecoveryTyped
    <3>3. account' \in [Operators -> Nat \ {0}] BY <3>1, <3>2
    <3>4. ASSUME NEW other \in Operators PROVE account'[other] <= OwnChanges + Recovery!Cardinality(RecoveryExecuted)
      <4>1. CASE other = who BY <4>1, <3>1, <3>2, <1>2
      <4>2. CASE other # who BY <4>2, <3>1, <3>2 DEF RecoveryVersionsCounted
      <4> QED BY <4>1, <4>2
    <3> QED BY <3>3, <3>4, <1>1 DEF RecoveryVersionsCounted
  <2> QED BY <2>1, <2>2
<1>4. active' \subseteq Operators BY DEF Recovery!ChangeOwn, Recovery!ChangeStatus, RecoveryTyped
<1>5. RecoveryTyped' BY <1>1, <1>3, <1>4 DEF RecoveryTyped
<1>6. RecoveryPeopleRight' /\ RecoveryFrozenCounted' /\ Recovery!OneOpenPerTarget'
  BY <1>1 DEF RecoveryPeopleRight, RecoveryFrozenCounted, Recovery!OneOpenPerTarget, Recovery!Open
<1> QED BY <1>1, <1>3, <1>5, <1>6

\* A request takes a free row and closes what was overtaken.
RecoveryRequested(o, t, new) ==
    /\ recovery[new] = Recovery!NoRecovery
    /\ recovery' \in [Recovery!Recoveries -> RecoveryRows]
    /\ recovery'[new] = [Recovery!NoRecovery EXCEPT !.status = "PENDING_APPROVAL",
                            !.target = {t}, !.by = {o}, !.frozen = account[t]]
    /\ \A r \in Recovery!Recoveries \ {new} :
          IF Recovery!Open(r) /\ recovery[r].target = {t}
          THEN recovery'[r] = [recovery[r] EXCEPT !.status = "EXPIRED"]
          ELSE recovery'[r] = recovery[r]

LEMMA RecoveryRequestRows ==
  ASSUME RecoveryGiven, RecoveryInv, NEW o \in Operators, NEW v, NEW t \in Operators, Recovery!Request(o, v, t)
  PROVE  \E new \in Recovery!Recoveries : RecoveryRequested(o, t, new)
<1>1. PICK free : free = {r \in Recovery!Recoveries : recovery[r] = Recovery!NoRecovery}
  OBVIOUS
<1>2. PICK open : open = {r \in Recovery!Recoveries : Recovery!Open(r) /\ recovery[r].target = {t}}
  OBVIOUS
<1>3. free # {}
      /\ recovery' = [r \in Recovery!Recoveries |->
          IF r = Recovery!Min(free) THEN [Recovery!NoRecovery EXCEPT !.status = "PENDING_APPROVAL",
                                    !.target = {t}, !.by = {o}, !.frozen = account[t]]
          ELSE IF r \in open THEN [recovery[r] EXCEPT !.status = "EXPIRED"]
          ELSE recovery[r]]
  BY <1>1, <1>2 DEF Recovery!Request
<1>4. free \in SUBSET Nat BY <1>1 DEF Recovery!Recoveries
<1>5. Recovery!Min(free) \in free BY <1>3, <1>4, RecoveryLeast
<1>6. PICK new \in Recovery!Recoveries : new = Recovery!Min(free) /\ recovery[new] = Recovery!NoRecovery
  BY <1>1, <1>5
<1>7. recovery \in [Recovery!Recoveries -> RecoveryRows] /\ account[t] \in Nat
  BY DEF RecoveryInv, RecoveryTyped
<1>8. PICK p : p = [Recovery!NoRecovery EXCEPT !.status = "PENDING_APPROVAL",
                                    !.target = {t}, !.by = {o}, !.frozen = account[t]]
  OBVIOUS
<1>9. p \in RecoveryRows
  <2>1. p = [status |-> "PENDING_APPROVAL", target |-> {t}, by |-> {o}, frozen |-> account[t],
             for |-> {}, against |-> {}, late |-> FALSE]
    BY <1>8 DEF Recovery!NoRecovery
  <2> QED BY <2>1, <1>7 DEF RecoveryRows
<1>10. recovery'[new] = p BY <1>3, <1>6, <1>8
<1>11. ASSUME NEW r \in Recovery!Recoveries, r # new
       PROVE  /\ recovery'[r] \in RecoveryRows
              /\ IF Recovery!Open(r) /\ recovery[r].target = {t}
                  THEN recovery'[r] = [recovery[r] EXCEPT !.status = "EXPIRED"]
                  ELSE recovery'[r] = recovery[r]
  <2>1. CASE r \in open
    <3>1. recovery'[r] = [recovery[r] EXCEPT !.status = "EXPIRED"] BY <2>1, <1>11, <1>3, <1>6
    <3>2. recovery[r] \in RecoveryRows BY <1>7
    <3>3. recovery'[r] \in RecoveryRows BY <3>1, <3>2 DEF RecoveryRows, Recovery!Closed
    <3> QED BY <3>1, <3>3, <2>1, <1>2
  <2>2. CASE r \notin open BY <2>2, <1>11, <1>2, <1>3, <1>6, <1>7
  <2> QED BY <2>1, <2>2
<1>12. recovery' \in [Recovery!Recoveries -> RecoveryRows]
  <2>1. \A r \in Recovery!Recoveries : recovery'[r] \in RecoveryRows BY <1>9, <1>10, <1>11
  <2>2. recovery' = [r \in Recovery!Recoveries |-> recovery'[r]] BY <1>3
  <2> QED BY <2>1, <2>2
<1> QED BY <1>6, <1>8, <1>10, <1>11, <1>12 DEF RecoveryRequested

LEMMA RecoveryRequestInv ==
  ASSUME RecoveryGiven, RecoveryInv, NEW o \in Operators, NEW v, NEW t \in Operators, Recovery!Request(o, v, t)
  PROVE  RecoveryInv'
<1> USE DEF RecoveryInv
<1>1. PICK new \in Recovery!Recoveries : RecoveryRequested(o, t, new) BY RecoveryRequestRows
<1>2. /\ recovery'[new].status = "PENDING_APPROVAL" /\ recovery'[new].target = {t}
      /\ recovery'[new].by = {o} /\ recovery'[new].frozen = account[t]
      /\ recovery'[new].for = {} /\ recovery'[new].against = {} /\ recovery[new].status = "NONE"
  BY <1>1 DEF RecoveryRequested, Recovery!NoRecovery
<1>3. ASSUME NEW r \in Recovery!Recoveries, r # new
      PROVE  /\ recovery'[r].target = recovery[r].target /\ recovery'[r].by = recovery[r].by
             /\ recovery'[r].frozen = recovery[r].frozen /\ recovery'[r].for = recovery[r].for
             /\ recovery'[r].against = recovery[r].against
             /\ recovery'[r].status \in {"EXPIRED", recovery[r].status}
             /\ recovery'[r].status # recovery[r].status => Recovery!Open(r)
             /\ recovery'[r].status = "EXECUTED" <=> recovery[r].status = "EXECUTED"
             /\ Recovery!Open(r)' => Recovery!Open(r) /\ recovery[r].target # {t}
  <2>1. recovery[r] \in RecoveryRows BY DEF RecoveryTyped
  <2>2. CASE Recovery!Open(r) /\ recovery[r].target = {t}
    <3>1. recovery'[r] = [recovery[r] EXCEPT !.status = "EXPIRED"]  BY <2>2, <1>1, <1>3 DEF RecoveryRequested
    <3> QED BY <2>1, <2>2, <3>1 DEF RecoveryRows, Recovery!Open
  <2>3. CASE ~(Recovery!Open(r) /\ recovery[r].target = {t})
    <3>1. recovery'[r] = recovery[r] BY <2>3, <1>1, <1>3 DEF RecoveryRequested
    <3> QED BY <2>3, <3>1 DEF Recovery!Open
  <2> QED BY <2>2, <2>3
<1>4. account' = account /\ active' = active /\ o # t BY DEF Recovery!Request
<1>5. RecoveryTyped' BY <1>1, <1>4 DEF RecoveryTyped, RecoveryRequested
<1>6. RecoveryPeopleRight'
  <2>1. ASSUME NEW r \in Recovery!Recoveries
        PROVE /\ recovery'[r].for \intersect (recovery'[r].target \union recovery'[r].by) = {}
              /\ recovery'[r].against # {} => recovery'[r].status = "REJECTED"
    <3>1. CASE r = new BY <3>1, <1>2
    <3>2. CASE r # new BY <3>2, <1>3 DEF RecoveryPeopleRight, Recovery!Open
    <3> QED BY <3>1, <3>2
  <2> QED BY <2>1 DEF RecoveryPeopleRight
<1>7. RecoveryExecuted' = RecoveryExecuted BY <1>2, <1>3 DEF RecoveryExecuted
<1>8. RecoveryVersionsCounted' BY <1>4, <1>7 DEF RecoveryVersionsCounted
<1>9. RecoveryFrozenCounted'
  <2>1. ASSUME NEW r \in Recovery!Recoveries PROVE recovery'[r].frozen <= OwnChanges + Recovery!Cardinality(RecoveryExecuted)
    BY <1>2, <1>3 DEF RecoveryFrozenCounted, RecoveryVersionsCounted
  <2> QED BY <2>1, <1>7 DEF RecoveryFrozenCounted
<1>10. Recovery!OneOpenPerTarget'
  <2>1. ASSUME NEW r \in Recovery!Recoveries, NEW q \in Recovery!Recoveries, Recovery!Open(r)', Recovery!Open(q)',
               recovery'[r].target = recovery'[q].target, r # q
        PROVE  FALSE
    BY <2>1, <1>2, <1>3 DEF Recovery!OneOpenPerTarget
  <2> QED BY <2>1 DEF Recovery!OneOpenPerTarget
<1> QED BY <1>5, <1>6, <1>8, <1>9, <1>10

\* One step of the protocol.
LEMMA RecoveryStepwise ==
  ASSUME RecoveryGiven, RecoveryInv, Recovery!Next
  PROVE  RecoveryInv'
<1>1. ASSUME NEW o \in Operators, NEW v \in 1 .. OwnChanges + 1, NEW t \in Operators,
             Recovery!Request(o, v, t) PROVE RecoveryInv'
  BY <1>1, RecoveryRequestInv
<1>2. ASSUME NEW o \in Operators, NEW v \in 1 .. OwnChanges + 1, NEW r \in Recovery!Recoveries,
             Recovery!Close(o, v, r) \/ Recovery!Approve(o, v, r) \/ Recovery!Reject(o, v, r)
                \/ Recovery!Execute(o, v, r)
      PROVE RecoveryInv'
  BY <1>2, RecoveryCloseInv, RecoveryApproveInv, RecoveryRejectInv, RecoveryExecuteInv
<1>3. ASSUME NEW who \in Operators, Recovery!ChangeOwn(who) \/ Recovery!ChangeStatus(who) PROVE RecoveryInv'
  BY <1>3, RecoveryChangesInv
<1>4. ASSUME NEW r \in Recovery!Recoveries, Recovery!TimePasses(r) PROVE RecoveryInv'
  BY <1>4, RecoveryTimePassesInv
<1> QED BY <1>1, <1>2, <1>3, <1>4 DEF Recovery!Next

LEMMA RecoveryStutters ==
  ASSUME RecoveryInv, UNCHANGED Recovery!vars
  PROVE  RecoveryInv'
BY DEF RecoveryInv, Recovery!vars, RecoveryTyped, RecoveryPeopleRight, RecoveryVersionsCounted,
   RecoveryFrozenCounted, Recovery!OneOpenPerTarget, Recovery!Open, RecoveryExecuted

--------------------------------
\* A recovery is executed by Execute alone.
LEMMA RecoveryExecutedByExecute ==
  ASSUME RecoveryGiven, RecoveryInv, Recovery!Next, NEW r \in Recovery!Recoveries,
         recovery[r].status # "EXECUTED", recovery'[r].status = "EXECUTED"
  PROVE  \E o \in Operators, v \in 1 .. OwnChanges + 1 : Recovery!Execute(o, v, r)
<1> recovery \in [Recovery!Recoveries -> RecoveryRows] BY DEF RecoveryInv, RecoveryTyped
<1> SUFFICES ASSUME \A o \in Operators, v \in 1 .. OwnChanges + 1 : ~Recovery!Execute(o, v, r) PROVE FALSE
  OBVIOUS
<1>1. ASSUME NEW o \in Operators, NEW v \in 1 .. OwnChanges + 1, NEW t \in Operators,
             Recovery!Request(o, v, t) PROVE FALSE
  <2>1. PICK new \in Recovery!Recoveries : RecoveryRequested(o, t, new)  BY <1>1, RecoveryRequestRows
  <2>2. recovery'[new].status = "PENDING_APPROVAL"  BY <2>1 DEF RecoveryRequested, Recovery!NoRecovery
  <2>3. r # new /\ recovery[r] \in RecoveryRows BY <2>2
  <2>4. recovery'[r].status \in {"EXPIRED", recovery[r].status}
    BY <2>1, <2>3 DEF RecoveryRows, RecoveryRequested
  <2> QED BY <2>4
<1>2. ASSUME NEW o \in Operators, NEW v \in 1 .. OwnChanges + 1, NEW q \in Recovery!Recoveries,
             Recovery!Close(o, v, q) \/ Recovery!Approve(o, v, q) \/ Recovery!Reject(o, v, q)
                \/ Recovery!Execute(o, v, q)
      PROVE  FALSE
  <2>1. recovery[q] \in RecoveryRows /\ recovery[r] \in RecoveryRows
    OBVIOUS
  <2>2. CASE Recovery!Close(o, v, q)  BY <2>1, <2>2 DEF Recovery!Close, Recovery!Became, RecoveryRows
  <2>3. CASE Recovery!Approve(o, v, q) BY <2>1, <2>3 DEF Recovery!Approve, RecoveryRows
  <2>4. CASE Recovery!Reject(o, v, q) BY <2>1, <2>4 DEF Recovery!Reject, RecoveryRows
  <2>5. CASE Recovery!Execute(o, v, q)  BY <2>1, <2>5 DEF Recovery!Execute, Recovery!Became, RecoveryRows
  <2> QED BY <1>2, <2>2, <2>3, <2>4, <2>5
<1>3. ASSUME NEW who \in Operators, Recovery!ChangeOwn(who) \/ Recovery!ChangeStatus(who) PROVE FALSE
  BY <1>3, RecoveryChangesInv
<1>4. ASSUME NEW q \in Recovery!Recoveries, Recovery!TimePasses(q) PROVE FALSE
  BY <1>4 DEF Recovery!TimePasses, RecoveryRows
<1> QED BY <1>1, <1>2, <1>3, <1>4 DEF Recovery!Next

\* One that executes acts on two other administrators and on the account
\* that was requested.
LEMMA RecoveryExecutesRight ==
  ASSUME RecoveryGiven, RecoveryInv, Recovery!Next
  PROVE  Recovery!ExecutesByTwoOthers /\ Recovery!ExecutesUnstopped
<1>1. ASSUME NEW r \in Recovery!Recoveries, recovery[r].status # "EXECUTED", recovery'[r].status = "EXECUTED"
      PROVE  /\ Recovery!Cardinality(recovery[r].for \intersect
                               (active \ (recovery[r].target \union recovery[r].by))) >= 2
             /\ recovery[r].against = {}
             /\ \A t \in recovery[r].target : account[t] = recovery[r].frozen /\ t \in active
  <2>1. PICK o \in Operators, v \in 1 .. OwnChanges + 1 : Recovery!Execute(o, v, r)
    BY <1>1, RecoveryExecutedByExecute
  <2>2. ~Recovery!Overtaken(r) /\ recovery[r].status = "APPROVED" /\ Recovery!Cardinality(recovery[r].for) >= 2
    BY <2>1 DEF Recovery!Execute
  <2>3. recovery[r].for \intersect (active \ (recovery[r].target \union recovery[r].by)) = recovery[r].for
    BY <2>2 DEF Recovery!Overtaken, RecoveryInv, RecoveryPeopleRight
  <2>4. recovery[r].against = {} BY <2>2 DEF RecoveryInv, RecoveryPeopleRight
  <2> QED BY <2>2, <2>3, <2>4 DEF Recovery!Overtaken
<1> QED BY <1>1 DEF Recovery!ExecutesByTwoOthers, Recovery!ExecutesUnstopped

LEMMA RecoveryMovesRight ==
  ASSUME RecoveryGiven, RecoveryInv, Recovery!Next
  PROVE  Recovery!MovesLegally
<1> recovery \in [Recovery!Recoveries -> RecoveryRows] BY DEF RecoveryInv, RecoveryTyped
<1> DEFINE Legal(r) ==
        /\ recovery[r].status \in Recovery!Closed => recovery'[r] = recovery[r]
        /\ recovery[r].status # "APPROVED" /\ recovery'[r].status = "APPROVED"
           => Recovery!Cardinality(recovery'[r].for) >= 2 /\ recovery'[r].against = {}
        /\ recovery'[r].for # recovery[r].for => Recovery!Open(r) /\ ~recovery[r].late
<1> SUFFICES ASSUME NEW r \in Recovery!Recoveries PROVE Legal(r)
  BY DEF Recovery!MovesLegally
<1>0. recovery[r] \in RecoveryRows
  OBVIOUS
<1>1. ASSUME NEW o \in Operators, NEW v \in 1 .. OwnChanges + 1, NEW t \in Operators,
             Recovery!Request(o, v, t) PROVE Legal(r)
  <2>1. PICK new \in Recovery!Recoveries : RecoveryRequested(o, t, new)  BY <1>1, RecoveryRequestRows
  <2>2. recovery'[new].status = "PENDING_APPROVAL" /\ recovery'[new].for = {}
        /\ recovery[new].status = "NONE" /\ recovery[new].for = {}
    BY <2>1 DEF RecoveryRequested, Recovery!NoRecovery
  <2>3. CASE r = new BY <2>2, <2>3 DEF Recovery!Closed
  <2>4. CASE r # new /\ Recovery!Open(r) /\ recovery[r].target = {t}
    <3>1. recovery'[r] = [recovery[r] EXCEPT !.status = "EXPIRED"]  BY <2>1, <2>4 DEF RecoveryRequested
    <3>2. recovery'[r].status = "EXPIRED" /\ recovery'[r].for = recovery[r].for
      BY <3>1, <1>0 DEF RecoveryRows
    <3> QED BY <3>2, <2>4 DEF Recovery!Open, Recovery!Closed
  <2>5. CASE r # new /\ ~(Recovery!Open(r) /\ recovery[r].target = {t})
    <3>1. recovery'[r] = recovery[r] BY <2>1, <2>5 DEF RecoveryRequested
    <3> QED BY <3>1
  <2> QED BY <2>3, <2>4, <2>5
<1>2. ASSUME NEW o \in Operators, NEW v \in 1 .. OwnChanges + 1, NEW q \in Recovery!Recoveries,
             Recovery!Close(o, v, q) \/ Recovery!Approve(o, v, q) \/ Recovery!Reject(o, v, q)
                \/ Recovery!Execute(o, v, q)
      PROVE  Legal(r)
  <2>1. recovery[q] \in RecoveryRows
    OBVIOUS
  <2>2. CASE r # q
    <3>1. recovery'[r] = recovery[r]
      BY <1>2, <2>2 DEF Recovery!Close, Recovery!Approve, Recovery!Reject, Recovery!Execute, Recovery!Became
    <3> QED BY <3>1
  <2>3. CASE r = q /\ Recovery!Close(o, v, q)
    BY <2>1, <2>3 DEF Recovery!Close, Recovery!Became, RecoveryRows, Recovery!Open, Recovery!Closed
  <2>4. CASE r = q /\ Recovery!Approve(o, v, q)
    <3>1. recovery'[r].status = "APPROVED" => Recovery!Cardinality(recovery'[r].for) >= 2
       /\ recovery'[r].against = {}
      BY <2>4, RecoveryApproveInv
    <3>2. Recovery!Open(r) /\ ~recovery[r].late BY <2>4 DEF Recovery!Approve, Recovery!Overtaken
    <3> QED BY <3>1, <3>2 DEF Recovery!Open, Recovery!Closed
  <2>5. CASE r = q /\ Recovery!Reject(o, v, q)
    <3>1. recovery'[r].status # "APPROVED" BY <2>5, RecoveryRejectInv
    <3>2. Recovery!Open(r) /\ ~recovery[r].late BY <2>5 DEF Recovery!Reject, Recovery!Overtaken
    <3> QED BY <3>1, <3>2 DEF Recovery!Open, Recovery!Closed
  <2>6. CASE r = q /\ Recovery!Execute(o, v, q)
    <3>1. recovery'[r] = [recovery[r] EXCEPT !.status = "EXECUTED"] /\ recovery[r].status = "APPROVED"
      BY <2>1, <2>6 DEF Recovery!Execute, Recovery!Became
    <3> QED BY <3>1, <1>0 DEF RecoveryRows, Recovery!Closed
  <2> QED BY <1>2, <2>2, <2>3, <2>4, <2>5, <2>6
<1>3. ASSUME NEW who \in Operators, Recovery!ChangeOwn(who) \/ Recovery!ChangeStatus(who) PROVE Legal(r)
  <2>1. recovery' = recovery BY <1>3, RecoveryChangesInv
  <2> QED BY <2>1
<1>4. ASSUME NEW q \in Recovery!Recoveries, Recovery!TimePasses(q) PROVE Legal(r)
  BY <1>4, <1>0 DEF Recovery!TimePasses, RecoveryRows, Recovery!Open, Recovery!Closed
<1> QED BY <1>1, <1>2, <1>3, <1>4 DEF Recovery!Next

--------------------------------
\* The administrator's refund page.  That nothing is forgotten rests on what
\* a refusal means: another command consumed the preview, so that this one
\* was not and cannot be executed, or the preview lapsed, or is of another
\* session (ConsoleCause).
ConsoleCallRows == [key : Nat, session : Nat, by : Nat, token : Nat,
             stage : {"WAITING", "REFRESHING", "AGAIN", "ENDED"}, at : {"SENT", "RUNNING", "ANSWERED"},
             saw : [record : BOOLEAN, usable : BOOLEAN],
             answer : {"NONE", "OK", "REFUSED", "CONFLICT", "UNAUTHORIZED"}]
ConsoleSessionRows == [owner : Staff, token : 1 .. PageTokens, live : BOOLEAN]
ConsolePreviewRows == [session : Nat, used : BOOLEAN, lapsed : BOOLEAN]
ConsoleCommandRows == [by : Staff, preview : Nat, done : BOOLEAN]

ConsolePageRight == page \in [session : 0 .. Len(sessions), token : 0 .. PageTokens]

ConsoleDialogRight ==
    /\ dialog \in [open : BOOLEAN, restoring : BOOLEAN, command : 0 .. Len(commands),
                   preview : 0 .. Len(previews), pending : 0 .. Len(calls)]
    /\ dialog.open => page.session # 0
    /\ ~dialog.open => dialog.pending = 0
    /\ dialog.pending # 0 => calls[dialog.pending].key = dialog.command

ConsoleJournalRight ==
    /\ journal \in [Staff -> 0 .. Len(commands)]
    /\ \A who \in Staff : journal[who] # 0 => commands[journal[who]].by = who

\* A call is of a command of the account its session belongs to.
ConsoleCallsRight ==
    /\ calls \in Seq(ConsoleCallRows)
    /\ \A c \in 1 .. Len(calls) :
          /\ calls[c].key \in 1 .. Len(commands) /\ calls[c].by = calls[c].session
          /\ calls[c].session \in 1 .. Len(sessions)
          /\ sessions[calls[c].session].owner = commands[calls[c].key].by

ConsoleSessionsRight == sessions \in Seq(ConsoleSessionRows)

ConsolePreviewsRight ==
    /\ previews \in Seq(ConsolePreviewRows)
    /\ \A p \in 1 .. Len(previews) : previews[p].session \in 1 .. Len(sessions)

ConsoleCommandsRight ==
    /\ commands \in Seq(ConsoleCommandRows)
    /\ \A k \in 1 .. Len(commands) : commands[k].preview \in 1 .. Len(previews)

ConsoleShownRight ==
    /\ shown \in [done : SUBSET (1 .. Len(commands)), refused : SUBSET (1 .. Len(commands))]
    /\ \A k \in 1 .. Len(commands) : k \notin shown.done \union shown.refused => journal[commands[k].by] = k

ConsoleKept == /\ ConsolePageRight /\ ConsoleDialogRight /\ ConsoleJournalRight /\ ConsoleCallsRight
                   /\ ConsoleSessionsRight
               /\ ConsolePreviewsRight /\ ConsoleCommandsRight /\ ConsoleShownRight

ConsoleGiven == Console!AdminRefundConsoleAssumption

LEMMA ConsoleRowTypes ==
  ASSUME ConsoleKept
  PROVE  /\ \A c \in 1 .. Len(calls) : calls[c] \in ConsoleCallRows
         /\ \A s \in 1 .. Len(sessions) : sessions[s] \in ConsoleSessionRows
         /\ \A p \in 1 .. Len(previews) : previews[p] \in ConsolePreviewRows
         /\ \A k \in 1 .. Len(commands) : commands[k] \in ConsoleCommandRows
<1>1. calls \in Seq(ConsoleCallRows) /\ sessions \in Seq(ConsoleSessionRows)
      /\ previews \in Seq(ConsolePreviewRows) /\ commands \in Seq(ConsoleCommandRows)
  BY DEF ConsoleKept, ConsoleCallsRight, ConsoleSessionsRight, ConsolePreviewsRight, ConsoleCommandsRight
<1> QED BY <1>1

LEMMA ConsoleKeptIsTrack ==
  ASSUME ConsoleKept
  PROVE  Console!TypeOK /\ Console!SentByItsAccount /\ Console!OneAtATime
<1> USE DEF ConsoleKept
<1>1. DOMAIN calls = 1 .. Len(calls) /\ DOMAIN sessions = 1 .. Len(sessions)
      /\ DOMAIN previews = 1 .. Len(previews) /\ DOMAIN commands = 1 .. Len(commands)
  BY DEF ConsoleCallsRight, ConsoleSessionsRight, ConsolePreviewsRight, ConsoleCommandsRight
<1>2. Console!TypeOK
  <2>1. page.session \in 0 .. Len(sessions) /\ page.token \in 0 .. PageTokens  BY DEF ConsolePageRight
  <2>2. /\ dialog.open => page.session # 0
        /\ dialog.command \in 0 .. Len(commands) /\ dialog.preview \in 0 .. Len(previews)
        /\ dialog.pending # 0 => calls[dialog.pending].key = dialog.command
    BY DEF ConsoleDialogRight
  <2>3. journal \in [Staff -> 0 .. Len(commands)] BY DEF ConsoleJournalRight
  <2>4. \A c \in DOMAIN calls : /\ calls[c].key \in DOMAIN commands
                               /\ calls[c].stage \in {"WAITING", "REFRESHING", "AGAIN", "ENDED"}
                               /\ calls[c].at \in {"SENT", "RUNNING", "ANSWERED"}
    BY <1>1, ConsoleRowTypes DEF ConsoleCallsRight, ConsoleCallRows
  <2>5. \A s \in DOMAIN sessions : sessions[s].owner \in Staff /\ sessions[s].live \in BOOLEAN
    BY <1>1, ConsoleRowTypes DEF ConsoleSessionRows
  <2>6. \A p \in DOMAIN previews : previews[p].session \in DOMAIN sessions  BY <1>1 DEF ConsolePreviewsRight
  <2>7. \A k \in DOMAIN commands : commands[k].by \in Staff  BY <1>1, ConsoleRowTypes DEF ConsoleCommandRows
  <2>8. shown.done \union shown.refused \subseteq DOMAIN commands BY <1>1 DEF ConsoleShownRight
  <2> QED BY <2>1, <2>2, <2>3, <2>4, <2>5, <2>6, <2>7, <2>8 DEF Console!TypeOK
<1>3. Console!SentByItsAccount  BY <1>1 DEF Console!SentByItsAccount, ConsoleCallsRight, Console!CommandOf
<1>4. Console!OneAtATime BY <1>1 DEF Console!OneAtATime, ConsoleShownRight
<1> QED BY <1>2, <1>3, <1>4

LEMMA ConsoleInitKept ==
  ASSUME ConsoleGiven, Console!Init
  PROVE  ConsoleKept
<1>1. Len(calls) = 0 /\ Len(sessions) = 0 /\ Len(previews) = 0 /\ Len(commands) = 0  BY DEF Console!Init
<1>2. PageTokens \in Nat \ {0} BY DEF ConsoleGiven, Console!AdminRefundConsoleAssumption
<1>3. ConsolePageRight /\ ConsoleDialogRight /\ ConsoleJournalRight
  BY <1>1, <1>2 DEF Console!Init, ConsolePageRight, ConsoleDialogRight, ConsoleJournalRight,
     Console!SignedOut, Console!NoDialog
<1>4. calls \in Seq(ConsoleCallRows) /\ sessions \in Seq(ConsoleSessionRows)
   /\ previews \in Seq(ConsolePreviewRows)
      /\ commands \in Seq(ConsoleCommandRows)
  BY DEF Console!Init
<1>5. ConsoleCallsRight /\ ConsoleSessionsRight /\ ConsolePreviewsRight /\ ConsoleCommandsRight
  BY <1>1, <1>4 DEF ConsoleCallsRight, ConsoleSessionsRight, ConsolePreviewsRight, ConsoleCommandsRight
<1>6. ConsoleShownRight BY <1>1 DEF Console!Init, ConsoleShownRight
<1> QED BY <1>3, <1>5, <1>6 DEF ConsoleKept

--------------------------------
\* Sessions are only added, and keep their owner.
ConsoleSessionsGrow ==
    /\ sessions' \in Seq(ConsoleSessionRows) /\ Len(sessions) <= Len(sessions')
    /\ \A s \in 1 .. Len(sessions) : sessions'[s].owner = sessions[s].owner

\* Nothing of the page's orders changes.
ConsoleBooksStay == UNCHANGED <<journal, calls, previews, commands, shown>>

LEMMA ConsoleSessionsStep ==
  ASSUME ConsoleGiven, ConsoleKept, ConsoleSessionsGrow, ConsoleBooksStay, ConsolePageRight', ConsoleDialogRight'
  PROVE  ConsoleKept'
<1> USE DEF ConsoleKept
<1>1. Len(sessions) \in Nat /\ Len(sessions') \in Nat  BY DEF ConsoleSessionsRight, ConsoleSessionsGrow
<1>2. ConsoleCallsRight'
  <2>1. calls' = calls /\ commands' = commands BY DEF ConsoleBooksStay
  <2>2. \A c \in 1 .. Len(calls) :
          /\ calls[c].key \in 1 .. Len(commands) /\ calls[c].by = calls[c].session
          /\ calls[c].session \in 1 .. Len(sessions')
          /\ sessions'[calls[c].session].owner = commands[calls[c].key].by
    BY <1>1 DEF ConsoleCallsRight, ConsoleSessionsGrow
  <2> QED BY <2>1, <2>2 DEF ConsoleCallsRight
<1>3. ConsolePreviewsRight' BY <1>1 DEF ConsolePreviewsRight, ConsoleSessionsGrow, ConsoleBooksStay
<1>4. ConsoleSessionsRight' /\ ConsoleCommandsRight' /\ ConsoleJournalRight' /\ ConsoleShownRight'
  BY DEF ConsoleSessionsRight, ConsoleSessionsGrow, ConsoleBooksStay, ConsoleCommandsRight, ConsoleJournalRight,
     ConsoleShownRight
<1> QED BY <1>2, <1>3, <1>4

LEMMA ConsoleClosedDialog ==
  ASSUME ConsoleGiven, ConsoleKept, dialog' = Console!NoDialog, calls' \in Seq(ConsoleCallRows),
         commands' = commands, previews' = previews
  PROVE  ConsoleDialogRight'
<1>1. Len(commands) \in Nat /\ Len(previews) \in Nat /\ Len(calls') \in Nat
  BY DEF ConsoleKept, ConsoleCommandsRight, ConsolePreviewsRight
<1> QED BY <1>1 DEF ConsoleDialogRight, Console!NoDialog

LEMMA ConsoleSignedOutPage ==
  ASSUME ConsoleGiven, ConsoleKept, page' = Console!SignedOut, Len(sessions') \in Nat
  PROVE  ConsolePageRight'
BY DEF ConsolePageRight, Console!SignedOut, ConsoleGiven, Console!AdminRefundConsoleAssumption

LEMMA ConsoleLoginKept ==
  ASSUME ConsoleGiven, ConsoleKept, NEW who \in Staff, Console!Login(who)
  PROVE  ConsoleKept'
<1>1. sessions' = Append(sessions, [owner |-> who, token |-> 1, live |-> TRUE])
   /\ sessions \in Seq(ConsoleSessionRows)
  BY DEF Console!Login, ConsoleKept, ConsoleSessionsRight
<1>2. PageTokens \in Nat \ {0} BY DEF ConsoleGiven, Console!AdminRefundConsoleAssumption
<1>3. PICK n : n = [owner |-> who, token |-> 1, live |-> TRUE]
  OBVIOUS
<1>4. n \in ConsoleSessionRows BY <1>2, <1>3 DEF ConsoleSessionRows
<1>5. ConsoleSessionsGrow /\ Len(sessions') = Len(sessions) + 1 /\ Len(sessions) \in Nat
  BY <1>1, <1>3, <1>4 DEF ConsoleSessionsGrow
<1>6. ConsolePageRight' BY <1>2, <1>5 DEF Console!Login, ConsolePageRight
<1>7. ConsoleBooksStay /\ ConsoleDialogRight'
  <2>1. ConsoleBooksStay /\ dialog' = Console!NoDialog BY DEF Console!Login, ConsoleBooksStay
  <2> QED BY <2>1, ConsoleClosedDialog DEF ConsoleBooksStay, ConsoleKept, ConsoleCallsRight
<1> QED BY <1>5, <1>6, <1>7, ConsoleSessionsStep

\* A session keeps its owner when something else of it changes.
LEMMA ConsoleSessionChanges ==
  ASSUME ConsoleKept, NEW s \in 1 .. Len(sessions), NEW n \in ConsoleSessionRows, n.owner = sessions[s].owner,
         sessions' = [sessions EXCEPT ![s] = n]
  PROVE  ConsoleSessionsGrow /\ Len(sessions') = Len(sessions)
<1>1. sessions \in Seq(ConsoleSessionRows) BY DEF ConsoleKept, ConsoleSessionsRight
<1>2. sessions' \in Seq(ConsoleSessionRows) /\ Len(sessions') = Len(sessions) BY <1>1
<1> QED BY <1>1, <1>2 DEF ConsoleSessionsGrow

LEMMA ConsoleSessionRow ==
  ASSUME ConsoleKept, NEW s \in 1 .. Len(sessions)
  PROVE  sessions[s] \in ConsoleSessionRows /\ sessions \in Seq(ConsoleSessionRows)
BY DEF ConsoleKept, ConsoleSessionsRight

LEMMA ConsoleLogoutKept ==
  ASSUME ConsoleGiven, ConsoleKept, Console!Logout
  PROVE  ConsoleKept'
<1>1. page.session \in 1 .. Len(sessions)
  BY DEF Console!Logout, ConsoleKept, ConsolePageRight, ConsoleSessionsRight
<1>2. PICK told \in BOOLEAN : sessions' = [sessions EXCEPT ![page.session].live = @ /\ ~told]
  BY DEF Console!Logout
<1>3. PICK n : n = [sessions[page.session] EXCEPT !.live = sessions[page.session].live /\ ~told]
  OBVIOUS
<1>4. sessions[page.session] \in ConsoleSessionRows /\ sessions \in Seq(ConsoleSessionRows)
  BY <1>1, ConsoleSessionRow
<1>5. n \in ConsoleSessionRows /\ n.owner = sessions[page.session].owner  BY <1>3, <1>4 DEF ConsoleSessionRows
<1>6. sessions' = [sessions EXCEPT ![page.session] = n] BY <1>2, <1>3, <1>4
<1>7. ConsoleSessionsGrow /\ Len(sessions') = Len(sessions)  BY <1>1, <1>5, <1>6, ConsoleSessionChanges
<1>8. ConsolePageRight' /\ ConsoleDialogRight' /\ ConsoleBooksStay
  <2>1. ConsoleBooksStay /\ dialog' = Console!NoDialog /\ page' = Console!SignedOut
    BY DEF Console!Logout, ConsoleBooksStay
  <2>2. Len(sessions') \in Nat BY <1>7 DEF ConsoleSessionsGrow
  <2>3. ConsoleDialogRight'  BY <2>1, ConsoleClosedDialog DEF ConsoleBooksStay, ConsoleKept, ConsoleCallsRight
  <2> QED BY <2>1, <2>2, <2>3, ConsoleSignedOutPage
<1> QED BY <1>7, <1>8, ConsoleSessionsStep

LEMMA ConsoleSessionsSame ==
  ASSUME ConsoleKept, sessions' = sessions
  PROVE  ConsoleSessionsGrow
<1>1. sessions \in Seq(ConsoleSessionRows) BY DEF ConsoleKept, ConsoleSessionsRight
<1>2. Len(sessions) \in Nat BY <1>1
<1> QED BY <1>1, <1>2 DEF ConsoleSessionsGrow

LEMMA ConsoleOtherRequestsKept ==
  ASSUME ConsoleGiven, ConsoleKept, Console!OtherRequestSignsOut \/ Console!OtherRequestRefreshes
  PROVE  ConsoleKept'
<1>1. sessions' = sessions /\ ConsoleBooksStay
  BY DEF Console!OtherRequestSignsOut, Console!OtherRequestRefreshes, ConsoleBooksStay
<1>2. ConsoleSessionsGrow /\ Len(sessions) \in Nat /\ calls \in Seq(ConsoleCallRows)
  BY <1>1, ConsoleSessionsSame DEF ConsoleKept, ConsoleSessionsRight, ConsoleCallsRight
<1>3. CASE Console!OtherRequestSignsOut
  <2>1. page' = Console!SignedOut /\ dialog' = Console!NoDialog  BY <1>3 DEF Console!OtherRequestSignsOut
  <2>2. ConsolePageRight' BY <2>1, <1>1, <1>2, ConsoleSignedOutPage
  <2>3. ConsoleDialogRight' BY <2>1, <1>1, <1>2, ConsoleClosedDialog DEF ConsoleBooksStay
  <2> QED BY <1>1, <1>2, <2>2, <2>3, ConsoleSessionsStep
<1>4. CASE Console!OtherRequestRefreshes
  <2>1. /\ page' = [page EXCEPT !.token = sessions[page.session].token]
        /\ dialog' = dialog /\ page.session # 0
    BY <1>4 DEF Console!OtherRequestRefreshes
  <2>2. page \in [session : 0 .. Len(sessions), token : 0 .. PageTokens] /\ PageTokens \in Nat
    BY DEF ConsoleKept, ConsolePageRight, ConsoleGiven, Console!AdminRefundConsoleAssumption
  <2>3. sessions[page.session].token \in 1 .. PageTokens
    BY <2>1, <2>2, <1>2, ConsoleSessionRow DEF ConsoleSessionRows
  <2>4. ConsolePageRight' /\ page'.session = page.session  BY <2>1, <2>2, <2>3, <1>1 DEF ConsolePageRight
  <2>5. ConsoleDialogRight'  BY <2>1, <2>4, <1>1 DEF ConsoleKept, ConsoleDialogRight, ConsoleBooksStay
  <2> QED BY <1>1, <1>2, <2>4, <2>5, ConsoleSessionsStep
<1> QED BY <1>3, <1>4

LEMMA ConsoleSessionsChangeKept ==
  ASSUME ConsoleGiven, ConsoleKept, NEW s \in DOMAIN sessions, Console!AccessExpires(s) \/ Console!SessionEnds(s)
  PROVE  ConsoleKept'
<1>1. s \in 1 .. Len(sessions) /\ sessions[s] \in ConsoleSessionRows /\ sessions \in Seq(ConsoleSessionRows)
  BY ConsoleSessionRow DEF ConsoleKept, ConsoleSessionsRight
<1>2. PICK n \in ConsoleSessionRows : n.owner = sessions[s].owner /\ sessions' = [sessions EXCEPT ![s] = n]
  <2>1. CASE Console!AccessExpires(s)
    <3>1. PICK n : n = [sessions[s] EXCEPT !.token = sessions[s].token + 1]
      OBVIOUS
    <3>2. sessions[s].token < PageTokens /\ PageTokens \in Nat /\ sessions[s].token \in 1 .. PageTokens
      BY <2>1, <1>1 DEF Console!AccessExpires, ConsoleGiven, Console!AdminRefundConsoleAssumption,
         ConsoleSessionRows
    <3>3. n \in ConsoleSessionRows /\ n.owner = sessions[s].owner  BY <3>1, <3>2, <1>1 DEF ConsoleSessionRows
    <3>4. sessions' = [sessions EXCEPT ![s] = n] BY <2>1, <3>1, <1>1 DEF Console!AccessExpires
    <3> QED BY <3>3, <3>4
  <2>2. CASE Console!SessionEnds(s)
    <3>1. PICK n : n = [sessions[s] EXCEPT !.live = FALSE]
      OBVIOUS
    <3>3. n \in ConsoleSessionRows /\ n.owner = sessions[s].owner  BY <3>1, <1>1 DEF ConsoleSessionRows
    <3>4. sessions' = [sessions EXCEPT ![s] = n] BY <2>2, <3>1, <1>1 DEF Console!SessionEnds
    <3> QED BY <3>3, <3>4
  <2> QED BY <2>1, <2>2
<1>3. ConsoleSessionsGrow /\ Len(sessions') = Len(sessions) BY <1>1, <1>2, ConsoleSessionChanges
<1>4. page' = page /\ dialog' = dialog /\ ConsoleBooksStay
  BY DEF Console!AccessExpires, Console!SessionEnds, Console!memory, ConsoleBooksStay
<1>5. ConsolePageRight' /\ ConsoleDialogRight'
  BY <1>3, <1>4 DEF ConsoleKept, ConsolePageRight, ConsoleDialogRight, ConsoleBooksStay
<1> QED BY <1>3, <1>4, <1>5, ConsoleSessionsStep

--------------------------------
\* Calls that go on keep their command and the session they are sent with.
ConsoleCallsGo ==
    /\ calls' \in Seq(ConsoleCallRows) /\ Len(calls') = Len(calls)
    /\ \A c \in 1 .. Len(calls) : /\ calls'[c].key = calls[c].key /\ calls'[c].session = calls[c].session
                                  /\ calls'[c].by = calls[c].by

\* Commands keep their account and preview.
ConsoleCommandsGo ==
    /\ commands' \in Seq(ConsoleCommandRows) /\ Len(commands') = Len(commands)
    /\ \A k \in 1 .. Len(commands) : /\ commands'[k].by = commands[k].by
                                     /\ commands'[k].preview = commands[k].preview

\* Previews keep their session.
ConsolePreviewsGo ==
    /\ previews' \in Seq(ConsolePreviewRows) /\ Len(previews') = Len(previews)
    /\ \A p \in 1 .. Len(previews) : previews'[p].session = previews[p].session

LEMMA ConsoleLengths ==
  ASSUME ConsoleKept
  PROVE  /\ Len(calls) \in Nat /\ Len(sessions) \in Nat /\ Len(previews) \in Nat /\ Len(commands) \in Nat
         /\ DOMAIN calls = 1 .. Len(calls) /\ DOMAIN sessions = 1 .. Len(sessions)
         /\ DOMAIN previews = 1 .. Len(previews) /\ DOMAIN commands = 1 .. Len(commands)
         /\ calls \in Seq(ConsoleCallRows) /\ sessions \in Seq(ConsoleSessionRows)
         /\ previews \in Seq(ConsolePreviewRows) /\ commands \in Seq(ConsoleCommandRows)
<1>1. calls \in Seq(ConsoleCallRows) /\ sessions \in Seq(ConsoleSessionRows)
      /\ previews \in Seq(ConsolePreviewRows) /\ commands \in Seq(ConsoleCommandRows)
  BY DEF ConsoleKept, ConsoleCallsRight, ConsoleSessionsRight, ConsolePreviewsRight, ConsoleCommandsRight
<1> QED BY <1>1

LEMMA ConsoleStillGo ==
  ASSUME ConsoleKept
  PROVE  /\ calls' = calls => ConsoleCallsGo
         /\ commands' = commands => ConsoleCommandsGo
         /\ previews' = previews => ConsolePreviewsGo
BY ConsoleLengths DEF ConsoleCallsGo, ConsoleCommandsGo, ConsolePreviewsGo

LEMMA ConsoleServerStep ==
  ASSUME ConsoleGiven, ConsoleKept, ConsoleCallsGo, ConsoleCommandsGo, ConsolePreviewsGo, UNCHANGED sessions
  PROVE  ConsoleCallsRight' /\ ConsolePreviewsRight' /\ ConsoleCommandsRight' /\ ConsoleSessionsRight'
<1>1. ConsoleCallsRight' BY DEF ConsoleKept, ConsoleCallsRight, ConsoleCallsGo, ConsoleCommandsGo
<1>2. ConsolePreviewsRight' BY DEF ConsoleKept, ConsolePreviewsRight, ConsolePreviewsGo
<1>3. ConsoleCommandsRight'  BY DEF ConsoleKept, ConsoleCommandsRight, ConsoleCommandsGo, ConsolePreviewsGo
<1>4. ConsoleSessionsRight' BY DEF ConsoleKept, ConsoleSessionsRight
<1> QED BY <1>1, <1>2, <1>3, <1>4

\* What goes on without the page.
LEMMA ConsoleBackgroundKept ==
  ASSUME ConsoleGiven, ConsoleKept, ConsoleCallsGo, ConsoleCommandsGo, ConsolePreviewsGo, UNCHANGED <<sessions,
         page, dialog, journal, shown>>
  PROVE  ConsoleKept'
<1>1. ConsoleCallsRight' /\ ConsolePreviewsRight' /\ ConsoleCommandsRight' /\ ConsoleSessionsRight'
  BY ConsoleServerStep
<1>2. ConsolePageRight' BY DEF ConsoleKept, ConsolePageRight
<1>3. ConsoleDialogRight'
  <2>1. dialog.pending # 0 => calls'[dialog.pending].key = dialog.command
    BY DEF ConsoleKept, ConsoleDialogRight, ConsoleCallsGo
  <2> QED BY <2>1 DEF ConsoleKept, ConsoleDialogRight, ConsoleCallsGo, ConsoleCommandsGo, ConsolePreviewsGo
<1>4. ConsoleJournalRight' BY DEF ConsoleKept, ConsoleJournalRight, ConsoleCommandsGo
<1>5. ConsoleShownRight' BY DEF ConsoleKept, ConsoleShownRight, ConsoleCommandsGo
<1> QED BY <1>1, <1>2, <1>3, <1>4, <1>5 DEF ConsoleKept

\* One call changes into p.
LEMMA ConsoleCallGoes ==
  ASSUME ConsoleKept, NEW c \in 1 .. Len(calls), NEW p \in ConsoleCallRows, calls' = [calls EXCEPT ![c] = p],
         p.key = calls[c].key, p.session = calls[c].session, p.by = calls[c].by
  PROVE  ConsoleCallsGo
<1>1. calls \in Seq(ConsoleCallRows) BY ConsoleLengths
<1>2. calls' \in Seq(ConsoleCallRows) /\ Len(calls') = Len(calls) BY <1>1
<1> QED BY <1>1, <1>2 DEF ConsoleCallsGo

LEMMA ConsoleReloadKept ==
  ASSUME ConsoleGiven, ConsoleKept, Console!Reload
  PROVE  ConsoleKept' /\ ConsoleCallsGo
<1>1. calls \in Seq(ConsoleCallRows) /\ DOMAIN calls = 1 .. Len(calls) /\ Len(calls) \in Nat
  BY ConsoleLengths
<1>2. calls' = [c \in DOMAIN calls |-> [calls[c] EXCEPT !.stage = "ENDED"]] BY DEF Console!Reload
<1>3. ASSUME NEW c \in 1 .. Len(calls)
      PROVE  /\ calls'[c] \in ConsoleCallRows /\ calls'[c].key = calls[c].key
                 /\ calls'[c].session = calls[c].session
             /\ calls'[c].by = calls[c].by
  BY <1>1, <1>2, ConsoleRowTypes DEF ConsoleCallRows
<1>4. calls' \in Seq(ConsoleCallRows) /\ Len(calls') = Len(calls)
  <2>1. calls' \in [1 .. Len(calls) -> ConsoleCallRows] BY <1>1, <1>2, <1>3
  <2>2. calls' \in Seq(ConsoleCallRows) BY <2>1, <1>1, SeqDef
  <2> QED BY <2>1, <2>2, <1>1, LenProperties
<1>5. ConsoleCallsGo /\ ConsoleCommandsGo /\ ConsolePreviewsGo
  <2>1. ConsoleCallsGo BY <1>3, <1>4 DEF ConsoleCallsGo
  <2>2. commands' = commands /\ previews' = previews BY DEF Console!Reload
  <2> QED BY <2>1, <2>2, ConsoleStillGo
<1>6. page' = Console!SignedOut /\ dialog' = Console!NoDialog
   /\ UNCHANGED <<journal, sessions, previews, commands, shown>>
  BY DEF Console!Reload
<1>7. ConsoleCallsRight' /\ ConsolePreviewsRight' /\ ConsoleCommandsRight' /\ ConsoleSessionsRight'
  BY <1>5, <1>6, ConsoleServerStep
<1>8. ConsolePageRight' /\ ConsoleDialogRight'
  BY <1>4, <1>6, ConsoleLengths, ConsoleClosedDialog, ConsoleSignedOutPage
<1>9. ConsoleJournalRight' /\ ConsoleShownRight'
  BY <1>6 DEF ConsoleKept, ConsoleJournalRight, ConsoleShownRight
<1> QED BY <1>5, <1>7, <1>8, <1>9 DEF ConsoleKept

\* The dialog alone changes.
LEMMA ConsoleDialogStep ==
  ASSUME ConsoleKept, UNCHANGED <<page, journal, calls, sessions, previews, commands, shown>>, ConsoleDialogRight'
  PROVE  ConsoleKept'
BY DEF ConsoleKept, ConsolePageRight, ConsoleJournalRight, ConsoleCallsRight, ConsoleSessionsRight,
   ConsolePreviewsRight, ConsoleCommandsRight, ConsoleShownRight

\* Somebody is signed in while the dialog is open.
LEMMA ConsoleAccountSignedIn ==
  ASSUME ConsoleKept, page.session # 0
  PROVE  page.session \in 1 .. Len(sessions) /\ Console!Account \in Staff
     /\ journal[Console!Account] \in 0 .. Len(commands)
<1>1. page.session \in 1 .. Len(sessions) BY ConsoleLengths DEF ConsoleKept, ConsolePageRight
<1>2. Console!Account \in Staff BY <1>1, ConsoleRowTypes DEF Console!Account, ConsoleSessionRows
<1> QED BY <1>1, <1>2 DEF ConsoleKept, ConsoleJournalRight

LEMMA ConsoleDialogKept ==
  ASSUME ConsoleGiven, ConsoleKept, Console!Open \/ Console!Restore \/ Console!Close
  PROVE  ConsoleKept'
<1>1. UNCHANGED <<page, journal, calls, sessions, previews, commands, shown>>
  BY DEF Console!Open, Console!Restore, Console!Close
<1>2. dialog \in [open : BOOLEAN, restoring : BOOLEAN, command : 0 .. Len(commands),
                   preview : 0 .. Len(previews), pending : 0 .. Len(calls)]
      /\ (dialog.open => page.session # 0)
  BY DEF ConsoleKept, ConsoleDialogRight
<1>3. Len(commands) \in Nat /\ Len(previews) \in Nat /\ Len(calls) \in Nat BY ConsoleLengths
<1>4. CASE Console!Open
  <2>1. dialog' = [Console!NoDialog EXCEPT !.open = TRUE, !.restoring = TRUE] /\ page.session # 0
    BY <1>4 DEF Console!Open
  <2>2. dialog' = [open |-> TRUE, restoring |-> TRUE, command |-> 0, preview |-> 0, pending |-> 0]
    BY <2>1 DEF Console!NoDialog
  <2>3. dialog' \in [open : BOOLEAN, restoring : BOOLEAN, command : 0 .. Len(commands),
                      preview : 0 .. Len(previews), pending : 0 .. Len(calls)]
    BY <2>2, <1>3
  <2>4. dialog'.pending = 0 /\ dialog'.open BY <2>2
  <2>5. ConsoleDialogRight' BY <2>1, <2>3, <2>4, <1>1 DEF ConsoleDialogRight
  <2> QED BY <2>5, <1>1, ConsoleDialogStep
<1>5. CASE Console!Close
  <2>1. ConsoleDialogRight' BY <1>5, <1>1, ConsoleLengths, ConsoleClosedDialog DEF Console!Close
  <2> QED BY <2>1, <1>1, ConsoleDialogStep
<1>6. CASE Console!Restore
  <2>1. PICK k : k = journal[Console!Account]
    OBVIOUS
  <2>2. dialog' = [dialog EXCEPT !.restoring = FALSE, !.command = k,
                                 !.preview = IF k = 0 THEN dialog.preview ELSE commands[k].preview]
        /\ dialog.open /\ dialog.pending = 0
    BY <1>6, <2>1 DEF Console!Restore
  <2>3. k \in 0 .. Len(commands) BY <2>1, <2>2, <1>2, ConsoleAccountSignedIn
  <2>4. PICK v : v = IF k = 0 THEN dialog.preview ELSE commands[k].preview
    OBVIOUS
  <2>5. v \in 0 .. Len(previews)
    <3>1. CASE k = 0 BY <3>1, <2>4, <1>2
    <3>2. CASE k # 0 BY <3>2, <2>3, <2>4, <1>3 DEF ConsoleKept, ConsoleCommandsRight
    <3> QED BY <3>1, <3>2
  <2>6. dialog' = [dialog EXCEPT !.restoring = FALSE, !.command = k, !.preview = v] BY <2>2, <2>4
  <2>7. ConsoleDialogRight' BY <2>2, <2>3, <2>5, <2>6, <1>1, <1>2 DEF ConsoleDialogRight
  <2> QED BY <2>7, <1>1, ConsoleDialogStep
<1> QED BY <1>4, <1>5, <1>6

LEMMA ConsoleRequestPreviewKept ==
  ASSUME ConsoleGiven, ConsoleKept, Console!RequestPreview
  PROVE  ConsoleKept'
<1>1. /\ dialog.open /\ dialog.pending = 0
      /\ previews' = Append(previews, [session |-> page.session, used |-> FALSE, lapsed |-> FALSE])
      /\ dialog' = [dialog EXCEPT !.preview = Len(previews) + 1]
      /\ UNCHANGED <<page, journal, calls, sessions, commands, shown>>
  BY DEF Console!RequestPreview
<1>2. dialog \in [open : BOOLEAN, restoring : BOOLEAN, command : 0 .. Len(commands),
                   preview : 0 .. Len(previews), pending : 0 .. Len(calls)]
      /\ (dialog.open => page.session # 0)
  BY DEF ConsoleKept, ConsoleDialogRight
<1>3. PICK p : p = [session |-> page.session, used |-> FALSE, lapsed |-> FALSE]
  OBVIOUS
<1>4. page.session \in 1 .. Len(sessions) /\ Len(sessions) \in Nat /\ Len(previews) \in Nat
      /\ previews \in Seq(ConsolePreviewRows)
  BY <1>1, <1>2, ConsoleAccountSignedIn, ConsoleLengths
<1>5. p \in ConsolePreviewRows /\ p.session = page.session BY <1>3, <1>4 DEF ConsolePreviewRows
<1>6. previews' \in Seq(ConsolePreviewRows) /\ Len(previews') = Len(previews) + 1
      /\ \A q \in 1 .. Len(previews') : previews'[q] = IF q = Len(previews) + 1 THEN p ELSE previews[q]
  BY <1>1, <1>3, <1>4, <1>5
<1>7. ConsolePreviewsRight'
  <2>1. ASSUME NEW q \in 1 .. Len(previews') PROVE previews'[q].session \in 1 .. Len(sessions)
    <3>1. CASE q = Len(previews) + 1 BY <3>1, <1>4, <1>5, <1>6
    <3>2. CASE q # Len(previews) + 1
      <4>1. q \in 1 .. Len(previews) BY <3>2, <1>4, <1>6
      <4> QED BY <3>2, <4>1, <1>6 DEF ConsoleKept, ConsolePreviewsRight
    <3> QED BY <3>1, <3>2
  <2> QED BY <2>1, <1>1, <1>6 DEF ConsolePreviewsRight
<1>8. ConsoleCommandsRight' BY <1>1, <1>4, <1>6 DEF ConsoleKept, ConsoleCommandsRight
<1>9. ConsoleDialogRight' BY <1>1, <1>2, <1>4, <1>6 DEF ConsoleDialogRight
<1>10. ConsolePageRight' /\ ConsoleJournalRight' /\ ConsoleCallsRight' /\ ConsoleSessionsRight'
   /\ ConsoleShownRight'
  BY <1>1 DEF ConsoleKept, ConsolePageRight, ConsoleJournalRight, ConsoleCallsRight, ConsoleSessionsRight,
     ConsoleShownRight
<1> QED BY <1>7, <1>8, <1>9, <1>10 DEF ConsoleKept

--------------------------------
\* A confirmation is sent.
ConsoleNewCall(k) == [key |-> k, session |-> page.session, stage |-> "WAITING",
               by |-> page.session, token |-> page.token, at |-> "SENT",
               saw |-> [record |-> FALSE, usable |-> FALSE], answer |-> "NONE"]

LEMMA ConsoleSentCalls ==
  ASSUME ConsoleGiven, ConsoleKept, NEW k \in Nat, Console!Sent(k), page.session # 0
  PROVE  /\ ConsoleNewCall(k) \in ConsoleCallRows /\ calls' \in Seq(ConsoleCallRows)
             /\ Len(calls') = Len(calls) + 1
         /\ \A c \in 1 .. Len(calls') : calls'[c] = IF c = Len(calls) + 1 THEN ConsoleNewCall(k) ELSE calls[c]
<1>1. page.session \in Nat /\ page.token \in Nat
  BY ConsoleLengths DEF ConsoleKept, ConsolePageRight, ConsoleGiven, Console!AdminRefundConsoleAssumption
<1>2. ConsoleNewCall(k) \in ConsoleCallRows BY <1>1 DEF ConsoleNewCall, ConsoleCallRows
<1>3. calls' = Append(calls, ConsoleNewCall(k)) /\ calls \in Seq(ConsoleCallRows)
  BY ConsoleLengths DEF Console!Sent, ConsoleNewCall
<1>4. PICK n \in ConsoleCallRows : n = ConsoleNewCall(k) BY <1>2
<1>5. calls' = Append(calls, n) BY <1>3, <1>4
<1>6. calls' \in Seq(ConsoleCallRows) /\ Len(calls') = Len(calls) + 1
      /\ \A c \in 1 .. Len(calls') : calls'[c] = IF c = Len(calls) + 1 THEN n ELSE calls[c]
  BY <1>3, <1>5
<1> QED BY <1>4, <1>6

LEMMA ConsoleSentDialog ==
  ASSUME ConsoleGiven, ConsoleKept, NEW k \in Nat, Console!Sent(k), page.session # 0, dialog.open, page' = page,
         k \in 0 .. Len(commands'), previews' = previews, Len(commands') \in Nat
  PROVE  ConsoleDialogRight'
<1>1. dialog \in [open : BOOLEAN, restoring : BOOLEAN, command : 0 .. Len(commands),
                   preview : 0 .. Len(previews), pending : 0 .. Len(calls)]
  BY DEF ConsoleKept, ConsoleDialogRight
<1>2. dialog' = [dialog EXCEPT !.command = k, !.pending = Len(calls) + 1, !.restoring = FALSE]
  BY DEF Console!Sent
<1>3. Len(calls') = Len(calls) + 1 /\ calls'[Len(calls) + 1] = ConsoleNewCall(k) /\ Len(calls) \in Nat
  BY ConsoleSentCalls, ConsoleLengths
<1>4. dialog'.pending = Len(calls) + 1 /\ dialog'.command = k /\ dialog'.open BY <1>1, <1>2
<1>5. dialog' \in [open : BOOLEAN, restoring : BOOLEAN, command : 0 .. Len(commands'),
                   preview : 0 .. Len(previews), pending : 0 .. Len(calls')]
  <2>1. PICK n : n = Len(calls) + 1
    OBVIOUS
  <2>2. n \in 0 .. Len(calls') BY <2>1, <1>3
  <2>3. dialog' = [open |-> dialog.open, restoring |-> FALSE, command |-> k, preview |-> dialog.preview, pending |-> n]
    BY <2>1, <1>1, <1>2
  <2> QED BY <2>2, <2>3, <1>1
<1>6. ConsoleNewCall(k).key = k BY DEF ConsoleNewCall
<1> QED BY <1>3, <1>4, <1>5, <1>6 DEF ConsoleDialogRight

LEMMA ConsoleSentRight ==
  ASSUME ConsoleGiven, ConsoleKept, NEW k \in 1 .. Len(commands'), Console!Sent(k), page.session # 0,
         sessions' = sessions,
         Len(commands') \in Nat, Len(commands) <= Len(commands'),
         \A m \in 1 .. Len(commands) : commands'[m].by = commands[m].by,
         commands'[k].by = Console!Account
  PROVE  ConsoleCallsRight'
<1>1. k \in Nat
  OBVIOUS
<1>2. /\ calls' \in Seq(ConsoleCallRows) /\ Len(calls') = Len(calls) + 1
      /\ \A c \in 1 .. Len(calls') : calls'[c] = IF c = Len(calls) + 1 THEN ConsoleNewCall(k) ELSE calls[c]
  BY <1>1, ConsoleSentCalls
<1>3. page.session \in 1 .. Len(sessions) /\ Len(calls) \in Nat /\ Len(commands) \in Nat
  BY ConsoleAccountSignedIn, ConsoleLengths
<1>4. ASSUME NEW c \in 1 .. Len(calls')
      PROVE  /\ calls'[c].key \in 1 .. Len(commands') /\ calls'[c].by = calls'[c].session
             /\ calls'[c].session \in 1 .. Len(sessions)
             /\ sessions[calls'[c].session].owner = commands'[calls'[c].key].by
  <2>1. CASE c = Len(calls) + 1
    <3>1. calls'[c] = ConsoleNewCall(k) BY <2>1, <1>2
    <3> QED BY <3>1, <1>3 DEF ConsoleNewCall, Console!Account
  <2>2. CASE c # Len(calls) + 1
    <3>1. c \in 1 .. Len(calls) /\ calls'[c] = calls[c] BY <2>2, <1>2, <1>3
    <3>2. /\ calls[c].key \in 1 .. Len(commands) /\ calls[c].by = calls[c].session
          /\ calls[c].session \in 1 .. Len(sessions)
          /\ sessions[calls[c].session].owner = commands[calls[c].key].by
      BY <3>1 DEF ConsoleKept, ConsoleCallsRight
    <3>3. calls[c].key \in 1 .. Len(commands') BY <3>2, <1>3
    <3> QED BY <3>1, <3>2, <3>3
  <2> QED BY <2>1, <2>2
<1> QED BY <1>2, <1>4 DEF ConsoleCallsRight

LEMMA ConsoleConfirmNewKept ==
  ASSUME ConsoleGiven, ConsoleKept, Console!ConfirmNew
  PROVE  ConsoleKept'
<1>1. /\ dialog.open /\ dialog.preview # 0 /\ journal[Console!Account] = 0
      /\ commands' = Append(commands, [by |-> Console!Account, preview |-> dialog.preview, done |-> FALSE])
      /\ journal' = [journal EXCEPT ![Console!Account] = Len(commands) + 1]
      /\ Console!Sent(Len(commands) + 1)
      /\ UNCHANGED <<page, sessions, previews, shown>>
  BY DEF Console!ConfirmNew, Console!PreparesNew
<1>2. page.session # 0 /\ dialog.preview \in 1 .. Len(previews)
  BY <1>1, ConsoleLengths DEF ConsoleKept, ConsoleDialogRight
<1>3. Console!Account \in Staff BY <1>2, ConsoleAccountSignedIn
<1>4. PICK n : n = [by |-> Console!Account, preview |-> dialog.preview, done |-> FALSE]
  OBVIOUS
<1>5. n \in ConsoleCommandRows /\ n.by = Console!Account /\ n.preview = dialog.preview
  BY <1>2, <1>3, <1>4 DEF ConsoleCommandRows
<1>6. commands \in Seq(ConsoleCommandRows) /\ Len(commands) \in Nat BY ConsoleLengths
<1>7. commands' \in Seq(ConsoleCommandRows) /\ Len(commands') = Len(commands) + 1
      /\ \A k \in 1 .. Len(commands') : commands'[k] = IF k = Len(commands) + 1 THEN n ELSE commands[k]
  BY <1>1, <1>4, <1>5, <1>6
<1>8. ConsoleCommandsRight'
  <2>1. ASSUME NEW k \in 1 .. Len(commands') PROVE commands'[k].preview \in 1 .. Len(previews)
    <3>1. CASE k = Len(commands) + 1 BY <3>1, <1>2, <1>5, <1>7
    <3>2. CASE k # Len(commands) + 1
      <4>1. k \in 1 .. Len(commands) BY <3>2, <1>6, <1>7
      <4> QED BY <3>2, <4>1, <1>7 DEF ConsoleKept, ConsoleCommandsRight
    <3> QED BY <3>1, <3>2
  <2> QED BY <2>1, <1>1, <1>7 DEF ConsoleCommandsRight
<1>9. ConsoleCallsRight'
  <2>1. Len(commands) + 1 \in 1 .. Len(commands') /\ commands'[Len(commands) + 1].by = Console!Account
        /\ \A m \in 1 .. Len(commands) : commands'[m].by = commands[m].by
    BY <1>5, <1>6, <1>7
  <2> QED BY <2>1, <1>1, <1>2, <1>6, <1>7, ConsoleSentRight
<1>10. ConsoleDialogRight' BY <1>1, <1>2, <1>6, <1>7, ConsoleSentDialog
<1>11. journal \in [Staff -> 0 .. Len(commands)]
       /\ \A who \in Staff : journal[who] # 0 => commands[journal[who]].by = who
  BY DEF ConsoleKept, ConsoleJournalRight
<1>12. ConsoleJournalRight'
  <2>1. journal' \in [Staff -> 0 .. Len(commands')] BY <1>1, <1>3, <1>6, <1>7, <1>11
  <2>2. ASSUME NEW who \in Staff, journal'[who] # 0 PROVE commands'[journal'[who]].by = who
    <3>1. CASE who = Console!Account BY <3>1, <1>1, <1>3, <1>5, <1>6, <1>7, <1>11
    <3>2. CASE who # Console!Account
      <4>1. journal'[who] = journal[who] /\ journal[who] \in 1 .. Len(commands)
        BY <3>2, <2>2, <1>1, <1>6, <1>11
      <4> QED BY <4>1, <1>6, <1>7, <1>11
    <3> QED BY <3>1, <3>2
  <2> QED BY <2>1, <2>2 DEF ConsoleJournalRight
<1>13. ConsoleShownRight'
  <2>1. /\ shown \in [done : SUBSET (1 .. Len(commands)), refused : SUBSET (1 .. Len(commands))]
        /\ \A k \in 1 .. Len(commands) : k \notin shown.done \union shown.refused => journal[commands[k].by] = k
    BY DEF ConsoleKept, ConsoleShownRight
  <2>2. shown' \in [done : SUBSET (1 .. Len(commands')), refused : SUBSET (1 .. Len(commands'))]
    BY <2>1, <1>1, <1>6, <1>7
  <2>3. ASSUME NEW k \in 1 .. Len(commands'), k \notin shown.done \union shown.refused
        PROVE  journal'[commands'[k].by] = k
    <3>1. CASE k = Len(commands) + 1 BY <3>1, <1>1, <1>3, <1>5, <1>7, <1>11
    <3>2. CASE k # Len(commands) + 1
      <4>1. k \in 1 .. Len(commands) /\ commands'[k] = commands[k] BY <3>2, <1>6, <1>7
      <4>2. journal[commands[k].by] = k /\ k # 0 BY <4>1, <2>1, <2>3
      <4>3. commands[k].by # Console!Account BY <4>2, <1>1
      <4> QED BY <4>1, <4>2, <4>3, <1>1, <1>3, <1>11
    <3> QED BY <3>1, <3>2
  <2> QED BY <2>2, <2>3, <1>1 DEF ConsoleShownRight
<1>14. ConsolePageRight' /\ ConsoleSessionsRight' /\ ConsolePreviewsRight'
  BY <1>1 DEF ConsoleKept, ConsolePageRight, ConsoleSessionsRight, ConsolePreviewsRight
<1> QED BY <1>8, <1>9, <1>10, <1>12, <1>13, <1>14 DEF ConsoleKept

LEMMA ConsoleConfirmPendingKept ==
  ASSUME ConsoleGiven, ConsoleKept, Console!ConfirmPending
  PROVE  ConsoleKept'
<1>1. /\ dialog.open /\ dialog.command # 0 /\ journal[Console!Account] = dialog.command
          /\ Console!Sent(dialog.command)
      /\ UNCHANGED <<page, journal, sessions, previews, commands, shown>>
  BY DEF Console!ConfirmPending
<1>2. page.session # 0 /\ dialog.command \in 1 .. Len(commands) /\ Len(commands) \in Nat
  BY <1>1, ConsoleLengths DEF ConsoleKept, ConsoleDialogRight
<1>3. Console!Account \in Staff BY <1>2, ConsoleAccountSignedIn
<1>4. commands[dialog.command].by = Console!Account  BY <1>1, <1>3 DEF ConsoleKept, ConsoleJournalRight
<1>5. PICK k : k = dialog.command
  OBVIOUS
<1>6. k \in 1 .. Len(commands') /\ Console!Sent(k) /\ commands'[k].by = Console!Account /\ k \in Nat
   /\ k \in 0 .. Len(commands')
  BY <1>1, <1>2, <1>4, <1>5
<1>7. ConsoleCallsRight' BY <1>1, <1>2, <1>6, ConsoleSentRight
<1>8. ConsoleDialogRight' BY <1>1, <1>2, <1>6, ConsoleSentDialog
<1>9. ConsolePageRight' /\ ConsoleSessionsRight' /\ ConsolePreviewsRight' /\ ConsoleCommandsRight'
   /\ ConsoleJournalRight' /\ ConsoleShownRight'
  BY <1>1 DEF ConsoleKept, ConsolePageRight, ConsoleSessionsRight, ConsolePreviewsRight,
     ConsoleCommandsRight, ConsoleJournalRight, ConsoleShownRight
<1> QED BY <1>7, <1>8, <1>9 DEF ConsoleKept

--------------------------------
\* The server.

LEMMA ConsoleCallKnows ==
  ASSUME ConsoleKept, NEW c \in 1 .. Len(calls)
  PROVE  /\ calls[c] \in ConsoleCallRows /\ calls[c].key \in 1 .. Len(commands)
         /\ Console!CommandOf(c) = commands[calls[c].key] /\ Console!CommandOf(c) \in ConsoleCommandRows
         /\ Console!CommandOf(c).preview \in 1 .. Len(previews)
             /\ previews[Console!CommandOf(c).preview] \in ConsolePreviewRows
         /\ calls[c].by = calls[c].session /\ calls[c].session \in 1 .. Len(sessions)
<1>1. calls[c] \in ConsoleCallRows BY ConsoleRowTypes
<1>2. calls[c].key \in 1 .. Len(commands) /\ calls[c].by = calls[c].session
   /\ calls[c].session \in 1 .. Len(sessions)
  BY DEF ConsoleKept, ConsoleCallsRight
<1>3. commands[calls[c].key] \in ConsoleCommandRows /\ commands[calls[c].key].preview \in 1 .. Len(previews)
  BY <1>2, ConsoleRowTypes DEF ConsoleKept, ConsoleCommandsRight
<1>4. Console!CommandOf(c) = commands[calls[c].key] BY DEF Console!CommandOf
<1> QED BY <1>1, <1>2, <1>3, <1>4, ConsoleRowTypes

\* What a call is after it arrived.
LEMMA ConsoleArriveGoes ==
  ASSUME ConsoleKept, NEW c \in 1 .. Len(calls), Console!Arrive(c)
  PROVE  /\ ConsoleCallsGo
         /\ \A o \in 1 .. Len(calls) : o # c => calls'[o] = calls[o]
         /\ \/ calls'[c].at = "RUNNING" /\ calls'[c].answer = calls[c].answer
               /\ calls'[c].saw = [record |-> Console!CommandOf(c).done,
                     usable |-> ~previews[Console!CommandOf(c).preview].used
                        /\ ~previews[Console!CommandOf(c).preview].lapsed]
            \/ calls'[c].at = "ANSWERED" /\ calls'[c].answer = "UNAUTHORIZED"
<1>1. /\ calls[c] \in ConsoleCallRows /\ Console!CommandOf(c) \in ConsoleCommandRows
          /\ previews[Console!CommandOf(c).preview] \in ConsolePreviewRows
      /\ calls \in Seq(ConsoleCallRows)
  BY ConsoleCallKnows, ConsoleLengths
<1>2. PICK saw : saw = [record |-> Console!CommandOf(c).done,
            usable |-> ~previews[Console!CommandOf(c).preview].used
               /\ ~previews[Console!CommandOf(c).preview].lapsed]
  OBVIOUS
<1>3. saw \in [record : BOOLEAN, usable : BOOLEAN]  BY <1>1, <1>2 DEF ConsoleCommandRows, ConsolePreviewRows
<1>4. \/ calls' = [calls EXCEPT ![c] = [calls[c] EXCEPT !.at = "RUNNING", !.saw = saw]]
      \/ calls' = [calls EXCEPT ![c] = [calls[c] EXCEPT !.at = "ANSWERED", !.answer = "UNAUTHORIZED"]]
  <2>1. LET s == sessions[calls[c].by]
        IN  calls' = [calls EXCEPT ![c] =
                        IF s.live /\ s.token = @.token
                        THEN [@ EXCEPT !.at = "RUNNING", !.saw = saw]
                        ELSE [@ EXCEPT !.at = "ANSWERED", !.answer = "UNAUTHORIZED"]]
    BY <1>2 DEF Console!Arrive
  <2> QED BY <2>1
<1>5. CASE calls' = [calls EXCEPT ![c] = [calls[c] EXCEPT !.at = "RUNNING", !.saw = saw]]
  <2>1. PICK p : p = [calls[c] EXCEPT !.at = "RUNNING", !.saw = saw]
    OBVIOUS
  <2>2. p \in ConsoleCallRows /\ p.key = calls[c].key /\ p.session = calls[c].session /\ p.by = calls[c].by
        /\ p.at = "RUNNING" /\ p.saw = saw /\ p.answer = calls[c].answer
    BY <2>1, <1>1, <1>3 DEF ConsoleCallRows
  <2>3. calls' = [calls EXCEPT ![c] = p] BY <2>1, <1>5
  <2>4. ConsoleCallsGo BY <2>2, <2>3, ConsoleCallGoes
  <2>5. calls'[c] = p /\ \A o \in 1 .. Len(calls) : o # c => calls'[o] = calls[o] BY <2>3, <1>1
  <2> QED BY <2>2, <2>4, <2>5, <1>2
<1>6. CASE calls' = [calls EXCEPT ![c] = [calls[c] EXCEPT !.at = "ANSWERED", !.answer = "UNAUTHORIZED"]]
  <2>1. PICK p : p = [calls[c] EXCEPT !.at = "ANSWERED", !.answer = "UNAUTHORIZED"]
    OBVIOUS
  <2>2. p \in ConsoleCallRows /\ p.key = calls[c].key /\ p.session = calls[c].session /\ p.by = calls[c].by
        /\ p.at = "ANSWERED" /\ p.answer = "UNAUTHORIZED"
    BY <2>1, <1>1 DEF ConsoleCallRows
  <2>3. calls' = [calls EXCEPT ![c] = p] BY <2>1, <1>6
  <2>4. ConsoleCallsGo BY <2>2, <2>3, ConsoleCallGoes
  <2>5. calls'[c] = p /\ \A o \in 1 .. Len(calls) : o # c => calls'[o] = calls[o] BY <2>3, <1>1
  <2> QED BY <2>2, <2>4, <2>5
<1> QED BY <1>4, <1>5, <1>6

LEMMA ConsoleAnsweredGoes ==
  ASSUME ConsoleKept, NEW c \in 1 .. Len(calls), NEW answer \in {"OK", "REFUSED", "CONFLICT"},
         Console!Answered(c, answer)
  PROVE  /\ ConsoleCallsGo
         /\ \A o \in 1 .. Len(calls) : o # c => calls'[o] = calls[o]
         /\ calls'[c].at = "ANSWERED" /\ calls'[c].answer = answer
<1>1. calls[c] \in ConsoleCallRows /\ calls \in Seq(ConsoleCallRows)  BY ConsoleCallKnows, ConsoleLengths
<1>2. PICK p : p = [calls[c] EXCEPT !.at = "ANSWERED", !.answer = answer]
  OBVIOUS
<1>3. p \in ConsoleCallRows /\ p.key = calls[c].key /\ p.session = calls[c].session /\ p.by = calls[c].by
      /\ p.at = "ANSWERED" /\ p.answer = answer
  BY <1>1, <1>2 DEF ConsoleCallRows
<1>4. calls' = [calls EXCEPT ![c] = p] BY <1>1, <1>2 DEF Console!Answered
<1>5. ConsoleCallsGo BY <1>3, <1>4, ConsoleCallGoes
<1>6. calls'[c] = p /\ \A o \in 1 .. Len(calls) : o # c => calls'[o] = calls[o] BY <1>4, <1>1
<1> QED BY <1>3, <1>5, <1>6

LEMMA ConsoleAgainRunsGoes ==
  ASSUME ConsoleKept, NEW c \in 1 .. Len(calls),
         calls' = [calls EXCEPT ![c].saw = [record |-> Console!CommandOf(c).done, usable |-> FALSE]]
  PROVE  /\ ConsoleCallsGo
         /\ \A o \in 1 .. Len(calls) : o # c => calls'[o] = calls[o]
         /\ calls'[c].at = calls[c].at /\ calls'[c].answer = calls[c].answer
         /\ calls'[c].saw = [record |-> Console!CommandOf(c).done, usable |-> FALSE]
<1>1. calls[c] \in ConsoleCallRows /\ calls \in Seq(ConsoleCallRows)
   /\ Console!CommandOf(c) \in ConsoleCommandRows
  BY ConsoleCallKnows, ConsoleLengths
<1>0. PICK saw : saw = [record |-> Console!CommandOf(c).done, usable |-> FALSE]
  OBVIOUS
<1>2. saw \in [record : BOOLEAN, usable : BOOLEAN] BY <1>0, <1>1 DEF ConsoleCommandRows
<1>3. PICK p : p = [calls[c] EXCEPT !.saw = saw]
  OBVIOUS
<1>4. p \in ConsoleCallRows /\ p.key = calls[c].key /\ p.session = calls[c].session /\ p.by = calls[c].by
      /\ p.at = calls[c].at /\ p.answer = calls[c].answer /\ p.saw = saw
  BY <1>1, <1>2, <1>3 DEF ConsoleCallRows
<1>5. calls' = [calls EXCEPT ![c] = p] BY <1>0, <1>1, <1>3
<1>6. ConsoleCallsGo BY <1>4, <1>5, ConsoleCallGoes
<1>7. calls'[c] = p /\ \A o \in 1 .. Len(calls) : o # c => calls'[o] = calls[o] BY <1>5, <1>1
<1> QED BY <1>0, <1>4, <1>6, <1>7

LEMMA ConsoleExecuteGoes ==
  ASSUME ConsoleKept, NEW c \in 1 .. Len(calls), Console!Execute(c)
  PROVE  /\ ConsolePreviewsGo /\ ConsoleCommandsGo
         /\ \A p \in 1 .. Len(previews) : previews'[p].used
             <=> (previews[p].used \/ p = Console!CommandOf(c).preview)
         /\ \A p \in 1 .. Len(previews) : previews'[p].lapsed = previews[p].lapsed
         /\ \A k \in 1 .. Len(commands) : commands'[k].done <=> (commands[k].done \/ k = calls[c].key)
<1>1. /\ calls[c].key \in 1 .. Len(commands) /\ commands[calls[c].key] \in ConsoleCommandRows
      /\ Console!CommandOf(c).preview \in 1 .. Len(previews)
          /\ previews[Console!CommandOf(c).preview] \in ConsolePreviewRows
      /\ previews \in Seq(ConsolePreviewRows) /\ commands \in Seq(ConsoleCommandRows)
  BY ConsoleCallKnows, ConsoleLengths
<1>2. PICK v, k : v = Console!CommandOf(c).preview /\ k = calls[c].key
  OBVIOUS
<1>3. PICK p, n : p = [previews[v] EXCEPT !.used = TRUE] /\ n = [commands[k] EXCEPT !.done = TRUE]
  OBVIOUS
<1>4. p \in ConsolePreviewRows /\ p.used /\ p.session = previews[v].session /\ p.lapsed = previews[v].lapsed
  BY <1>1, <1>2, <1>3 DEF ConsolePreviewRows
<1>5. n \in ConsoleCommandRows /\ n.done /\ n.by = commands[k].by /\ n.preview = commands[k].preview
  BY <1>1, <1>2, <1>3 DEF ConsoleCommandRows
<1>6. previews' = [previews EXCEPT ![v] = p] /\ commands' = [commands EXCEPT ![k] = n]
  BY <1>2, <1>3, <1>1 DEF Console!Execute
<1>7. ConsolePreviewsGo BY <1>1, <1>2, <1>4, <1>6 DEF ConsolePreviewsGo
<1>8. ConsoleCommandsGo BY <1>1, <1>2, <1>5, <1>6 DEF ConsoleCommandsGo
<1>9. \A q \in 1 .. Len(previews) : previews'[q] = IF q = v THEN p ELSE previews[q]  BY <1>1, <1>2, <1>6
<1>10. \A m \in 1 .. Len(commands) : commands'[m] = IF m = k THEN n ELSE commands[m]  BY <1>1, <1>2, <1>6
<1> QED BY <1>2, <1>4, <1>5, <1>7, <1>8, <1>9, <1>10

LEMMA ConsolePreviewLapsesGoes ==
  ASSUME ConsoleKept, NEW v \in 1 .. Len(previews), Console!PreviewLapses(v)
  PROVE  /\ ConsolePreviewsGo
         /\ \A p \in 1 .. Len(previews) : previews'[p].used = previews[p].used
         /\ \A p \in 1 .. Len(previews) : previews[p].lapsed => previews'[p].lapsed
<1>1. previews[v] \in ConsolePreviewRows /\ previews \in Seq(ConsolePreviewRows)
  BY ConsoleRowTypes, ConsoleLengths
<1>2. PICK p : p = [previews[v] EXCEPT !.lapsed = TRUE]
  OBVIOUS
<1>3. p \in ConsolePreviewRows /\ p.session = previews[v].session /\ p.used = previews[v].used /\ p.lapsed
  BY <1>1, <1>2 DEF ConsolePreviewRows
<1>4. previews' = [previews EXCEPT ![v] = p] BY <1>1, <1>2 DEF Console!PreviewLapses
<1>5. \A q \in 1 .. Len(previews) : previews'[q] = IF q = v THEN p ELSE previews[q] BY <1>1, <1>4
<1>6. previews' \in Seq(ConsolePreviewRows) /\ Len(previews') = Len(previews) BY <1>1, <1>3, <1>4
<1> QED BY <1>3, <1>5, <1>6 DEF ConsolePreviewsGo

LEMMA ConsoleServerKept ==
  ASSUME ConsoleGiven, ConsoleKept, NEW c \in 1 .. Len(calls), Console!Server(c)
  PROVE  ConsoleKept'
<1>1. UNCHANGED <<sessions, page, dialog, journal, shown>>
  BY DEF Console!Server, Console!Arrive, Console!Answer, Console!Execute, Console!Conflict, Console!memory
<1>2. CASE Console!Arrive(c)
  <2>1. commands' = commands /\ previews' = previews BY <1>2 DEF Console!Arrive
  <2> QED BY <2>1, <1>1, <1>2, ConsoleArriveGoes, ConsoleStillGo, ConsoleBackgroundKept
<1>3. CASE Console!Answer(c)
  <2>1. commands' = commands /\ previews' = previews
     /\ \E answer \in {"OK", "REFUSED"} : Console!Answered(c, answer)
    BY <1>3 DEF Console!Answer
  <2>2. ConsoleCallsGo BY <2>1, ConsoleAnsweredGoes
  <2> QED BY <2>1, <2>2, <1>1, ConsoleStillGo, ConsoleBackgroundKept
<1>4. CASE Console!Execute(c)
  <2>1. ConsoleCallsGo BY <1>4, ConsoleAnsweredGoes DEF Console!Execute
  <2> QED BY <2>1, <1>1, <1>4, ConsoleExecuteGoes, ConsoleBackgroundKept
<1>5. CASE Console!Conflict(c)
  <2>1. commands' = commands /\ previews' = previews
        /\ \/ calls' = [calls EXCEPT ![c].saw = [record |-> Console!CommandOf(c).done, usable |-> FALSE]]
           \/ Console!Answered(c, "CONFLICT")
    BY <1>5 DEF Console!Conflict
  <2>2. ConsoleCallsGo BY <2>1, ConsoleAnsweredGoes, ConsoleAgainRunsGoes
  <2> QED BY <2>1, <2>2, <1>1, ConsoleStillGo, ConsoleBackgroundKept
<1> QED BY <1>2, <1>3, <1>4, <1>5 DEF Console!Server

LEMMA ConsolePreviewLapsesKept ==
  ASSUME ConsoleGiven, ConsoleKept, NEW v \in 1 .. Len(previews), Console!PreviewLapses(v)
  PROVE  ConsoleKept'
<1>1. UNCHANGED <<sessions, page, dialog, journal, shown, calls, commands>>
  BY DEF Console!PreviewLapses, Console!memory
<1> QED BY <1>1, ConsolePreviewLapsesGoes, ConsoleStillGo, ConsoleBackgroundKept

--------------------------------
\* What the page makes of the answer.

\* A call ends, or goes on with the session it began in.
LEMMA ConsoleEndedGoes ==
  ASSUME ConsoleKept, NEW c \in 1 .. Len(calls), NEW st \in {"REFRESHING", "ENDED"},
         calls' = [calls EXCEPT ![c].stage = st]
  PROVE  /\ ConsoleCallsGo
         /\ \A o \in 1 .. Len(calls) : /\ calls'[o].at = calls[o].at /\ calls'[o].saw = calls[o].saw
                                       /\ calls'[o].answer = calls[o].answer
<1>1. calls[c] \in ConsoleCallRows /\ calls \in Seq(ConsoleCallRows)  BY ConsoleCallKnows, ConsoleLengths
<1>2. PICK p : p = [calls[c] EXCEPT !.stage = st]
  OBVIOUS
<1>3. p \in ConsoleCallRows /\ p.key = calls[c].key /\ p.session = calls[c].session /\ p.by = calls[c].by
      /\ p.at = calls[c].at /\ p.saw = calls[c].saw /\ p.answer = calls[c].answer
  BY <1>1, <1>2 DEF ConsoleCallRows
<1>4. calls' = [calls EXCEPT ![c] = p] BY <1>1, <1>2
<1>5. ConsoleCallsGo BY <1>3, <1>4, ConsoleCallGoes
<1> QED BY <1>1, <1>3, <1>4, <1>5

LEMMA ConsoleAgainGoes ==
  ASSUME ConsoleGiven, ConsoleKept, NEW c \in 1 .. Len(calls), Console!SameSession(c), NEW t \in 0 .. PageTokens,
         calls' = [calls EXCEPT ![c].stage = "AGAIN", ![c].at = "SENT",
                                ![c].by = page.session, ![c].token = t]
  PROVE  /\ ConsoleCallsGo
         /\ \A o \in 1 .. Len(calls) : o # c => calls'[o] = calls[o]
         /\ calls'[c].at = "SENT"
<1>1. calls[c] \in ConsoleCallRows /\ calls \in Seq(ConsoleCallRows) /\ calls[c].by = calls[c].session
  BY ConsoleCallKnows, ConsoleLengths
<1>2. PICK p : p = [calls[c] EXCEPT !.stage = "AGAIN", !.at = "SENT", !.by = page.session, !.token = t]
  OBVIOUS
<1>3. page.session = calls[c].session /\ t \in Nat
  BY DEF Console!SameSession, ConsoleGiven, Console!AdminRefundConsoleAssumption
<1>4. p \in ConsoleCallRows /\ p.key = calls[c].key /\ p.session = calls[c].session /\ p.by = calls[c].by
   /\ p.at = "SENT"
  BY <1>1, <1>2, <1>3 DEF ConsoleCallRows
<1>5. calls' = [calls EXCEPT ![c] = p] BY <1>1, <1>2
<1>6. ConsoleCallsGo BY <1>4, <1>5, ConsoleCallGoes
<1> QED BY <1>1, <1>4, <1>5, <1>6

LEMMA ConsoleEndsKept ==
  ASSUME ConsoleGiven, ConsoleKept, NEW c \in 1 .. Len(calls), NEW answer, Console!Ends(c, answer),
         UNCHANGED <<page, sessions, previews, commands>>
  PROVE  ConsoleKept'
<1>1. ConsoleCallsGo /\ Len(calls') = Len(calls)
  <2>1. calls' = [calls EXCEPT ![c].stage = "ENDED"] BY DEF Console!Ends
  <2>2. ConsoleCallsGo BY <2>1, ConsoleEndedGoes
  <2> QED BY <2>2 DEF ConsoleCallsGo
<1>2. ConsoleCallsRight' /\ ConsolePreviewsRight' /\ ConsoleCommandsRight' /\ ConsoleSessionsRight'
  BY <1>1, ConsoleStillGo, ConsoleServerStep
<1>3. ConsolePageRight' BY DEF ConsoleKept, ConsolePageRight
<1>4. PICK k, known : k = calls[c].key /\ known = (answer = "OK" \/ Console!Certain(answer))
  OBVIOUS
<1>5. /\ journal' = [who \in Staff |-> IF known /\ who = commands[k].by
          /\ journal[who] = k THEN 0 ELSE journal[who]]
      /\ shown' = [done |-> shown.done \union {x \in {k} : answer = "OK"},
                   refused |-> shown.refused \union {x \in {k} : Console!Certain(answer)}]
      /\ dialog' = IF dialog.pending # c THEN dialog
                   ELSE IF known THEN Console!NoDialog ELSE [dialog EXCEPT !.pending = 0]
  BY <1>4 DEF Console!Ends
<1>6. k \in 1 .. Len(commands) BY <1>4, ConsoleCallKnows
<1>7. ConsoleJournalRight'
  <2>1. journal \in [Staff -> 0 .. Len(commands)] /\ Len(commands) \in Nat
        /\ \A who \in Staff : journal[who] # 0 => commands[journal[who]].by = who
    BY ConsoleLengths DEF ConsoleKept, ConsoleJournalRight
  <2>2. journal' \in [Staff -> 0 .. Len(commands)] BY <1>5, <2>1
  <2>3. \A who \in Staff : journal'[who] \in {0, journal[who]} BY <1>5
  <2> QED BY <2>1, <2>2, <2>3 DEF ConsoleJournalRight
<1>8. ConsoleShownRight'
  <2>1. /\ shown \in [done : SUBSET (1 .. Len(commands)), refused : SUBSET (1 .. Len(commands))]
        /\ \A m \in 1 .. Len(commands) : m \notin shown.done \union shown.refused => journal[commands[m].by] = m
    BY DEF ConsoleKept, ConsoleShownRight
  <2>2. shown' \in [done : SUBSET (1 .. Len(commands)), refused : SUBSET (1 .. Len(commands))]
    BY <1>5, <1>6, <2>1
  <2>3. /\ shown.done \subseteq shown'.done /\ shown.refused \subseteq shown'.refused
        /\ known => k \in shown'.done \union shown'.refused
    BY <1>4, <1>5
  <2>4. ASSUME NEW m \in 1 .. Len(commands), m \notin shown'.done \union shown'.refused
        PROVE  journal'[commands[m].by] = m
    <3>1. journal[commands[m].by] = m BY <2>1, <2>3, <2>4
    <3>2. ~(known /\ m = k) BY <2>3, <2>4
    <3>3. commands[m].by \in Staff BY ConsoleRowTypes DEF ConsoleCommandRows
    <3> QED BY <3>1, <3>2, <3>3, <1>5
  <2> QED BY <2>2, <2>4 DEF ConsoleShownRight
<1>9. ConsoleDialogRight'
  <2>1. CASE dialog.pending # c
    <3>1. dialog' = dialog BY <2>1, <1>5
    <3>2. dialog.pending # 0 => calls'[dialog.pending].key = dialog.command
      BY <1>1 DEF ConsoleKept, ConsoleDialogRight, ConsoleCallsGo
    <3> QED BY <3>1, <3>2, <1>1 DEF ConsoleKept, ConsoleDialogRight
  <2>2. CASE dialog.pending = c /\ known
    <3>1. dialog' = Console!NoDialog BY <2>2, <1>5
    <3> QED BY <3>1, <1>1, ConsoleClosedDialog DEF ConsoleCallsGo
  <2>3. CASE dialog.pending = c /\ ~known
    <3>1. dialog' = [dialog EXCEPT !.pending = 0] BY <2>3, <1>5
    <3>2. dialog \in [open : BOOLEAN, restoring : BOOLEAN, command : 0 .. Len(commands),
                   preview : 0 .. Len(previews), pending : 0 .. Len(calls)] /\ (dialog.open => page.session # 0)
      BY DEF ConsoleKept, ConsoleDialogRight
    <3>3. Len(calls) \in Nat BY ConsoleLengths
    <3>4. dialog' \in [open : BOOLEAN, restoring : BOOLEAN, command : 0 .. Len(commands),
                   preview : 0 .. Len(previews), pending : 0 .. Len(calls)]
          /\ dialog'.pending = 0 /\ dialog'.open = dialog.open
      BY <3>1, <3>2, <3>3
    <3> QED BY <3>2, <3>4, <1>1 DEF ConsoleDialogRight
  <2> QED BY <1>4, <2>1, <2>2, <2>3
<1> QED BY <1>2, <1>3, <1>7, <1>8, <1>9 DEF ConsoleKept

LEMMA ConsoleExpiredKept ==
  ASSUME ConsoleGiven, ConsoleKept, NEW c \in 1 .. Len(calls), Console!Expired(c), UNCHANGED <<sessions, previews,
         commands>>
  PROVE  ConsoleKept'
<1>1. ConsoleCallsGo /\ Len(calls') = Len(calls) /\ calls' \in Seq(ConsoleCallRows)
  <2>1. calls' = [calls EXCEPT ![c].stage = "ENDED"] BY DEF Console!Expired
  <2>2. ConsoleCallsGo BY <2>1, ConsoleEndedGoes
  <2> QED BY <2>2 DEF ConsoleCallsGo
<1>2. ConsoleCallsRight' /\ ConsolePreviewsRight' /\ ConsoleCommandsRight' /\ ConsoleSessionsRight'
  BY <1>1, ConsoleStillGo, ConsoleServerStep
<1>3. page' = Console!SignedOut /\ dialog' = Console!NoDialog /\ UNCHANGED <<journal, shown>>
  BY DEF Console!Expired
<1>4. ConsolePageRight' /\ ConsoleDialogRight'
  BY <1>1, <1>3, ConsoleLengths, ConsoleClosedDialog, ConsoleSignedOutPage
<1>5. ConsoleJournalRight' /\ ConsoleShownRight'
  BY <1>3 DEF ConsoleKept, ConsoleJournalRight, ConsoleShownRight
<1> QED BY <1>2, <1>4, <1>5 DEF ConsoleKept

\* The call goes on and only the page's token changes.
LEMMA ConsoleRepeatKept ==
  ASSUME ConsoleGiven, ConsoleKept, ConsoleCallsGo, UNCHANGED <<dialog, journal, shown, sessions, previews,
         commands>>,
         ConsolePageRight', page'.session = page.session
  PROVE  ConsoleKept'
<1>1. ConsoleCallsRight' /\ ConsolePreviewsRight' /\ ConsoleCommandsRight' /\ ConsoleSessionsRight'
  BY ConsoleStillGo, ConsoleServerStep
<1>2. ConsoleDialogRight'
  <2>1. dialog.pending # 0 => calls'[dialog.pending].key = dialog.command
    BY DEF ConsoleKept, ConsoleDialogRight, ConsoleCallsGo
  <2> QED BY <2>1 DEF ConsoleKept, ConsoleDialogRight, ConsoleCallsGo
<1>3. ConsoleJournalRight' /\ ConsoleShownRight'  BY DEF ConsoleKept, ConsoleJournalRight, ConsoleShownRight
<1> QED BY <1>1, <1>2, <1>3 DEF ConsoleKept

LEMMA ConsoleReceiveUnauthorizedKept ==
  ASSUME ConsoleGiven, ConsoleKept, NEW c \in 1 .. Len(calls), Console!ReceiveUnauthorized(c)
  PROVE  ConsoleKept'
<1>1. UNCHANGED <<page, sessions, previews, commands>> BY DEF Console!ReceiveUnauthorized
<1>2. page \in [session : 0 .. Len(sessions), token : 0 .. PageTokens] /\ ConsolePageRight'
  BY <1>1 DEF ConsoleKept, ConsolePageRight
<1>3. CASE Console!Ends(c, "CHANGED") BY <1>1, <1>3, ConsoleEndsKept
<1>4. CASE Console!SameSession(c) /\ calls' = Console!Again(c) /\ UNCHANGED <<dialog, journal, shown>>
  <2>1. ConsoleCallsGo BY <1>2, <1>4, ConsoleAgainGoes DEF Console!Again
  <2> QED BY <2>1, <1>1, <1>2, <1>4, ConsoleRepeatKept
<1>5. CASE calls' = [calls EXCEPT ![c].stage = "REFRESHING"] /\ UNCHANGED <<dialog, journal, shown>>
  <2>1. ConsoleCallsGo BY <1>5, ConsoleEndedGoes
  <2> QED BY <2>1, <1>1, <1>2, <1>5, ConsoleRepeatKept
<1> QED BY <1>3, <1>4, <1>5 DEF Console!ReceiveUnauthorized

LEMMA ConsoleRefreshedKept ==
  ASSUME ConsoleGiven, ConsoleKept, NEW c \in 1 .. Len(calls), Console!Refreshed(c)
  PROVE  ConsoleKept' /\ ConsoleCallsGo /\ calls'[c].at = "SENT"
     /\ (\A o \in 1 .. Len(calls) : o # c => calls'[o] = calls[o])
<1>1. /\ Console!SameSession(c) /\ page' = [page EXCEPT !.token = sessions[calls[c].session].token]
      /\ calls' = [calls EXCEPT ![c].stage = "AGAIN", ![c].at = "SENT",
                                ![c].by = page.session, ![c].token = page'.token]
      /\ UNCHANGED <<dialog, journal, sessions, previews, commands, shown>>
  BY DEF Console!Refreshed
<1>2. page \in [session : 0 .. Len(sessions), token : 0 .. PageTokens] /\ PageTokens \in Nat
  BY DEF ConsoleKept, ConsolePageRight, ConsoleGiven, Console!AdminRefundConsoleAssumption
<1>3. sessions[calls[c].session].token \in 1 .. PageTokens
  BY ConsoleCallKnows, ConsoleSessionRow DEF ConsoleSessionRows
<1>4. page'.token \in 0 .. PageTokens /\ page'.session = page.session
      /\ page' \in [session : 0 .. Len(sessions), token : 0 .. PageTokens]
  BY <1>1, <1>2, <1>3
<1>5. ConsolePageRight' BY <1>1, <1>4 DEF ConsolePageRight
<1>6. PICK t \in 0 .. PageTokens : t = page'.token BY <1>4
<1>7. calls' = [calls EXCEPT ![c].stage = "AGAIN", ![c].at = "SENT", ![c].by = page.session, ![c].token = t]
  BY <1>1, <1>6
<1>8. /\ ConsoleCallsGo /\ calls'[c].at = "SENT"
      /\ \A o \in 1 .. Len(calls) : o # c => calls'[o] = calls[o]
  BY <1>1, <1>7, ConsoleAgainGoes
<1> QED BY <1>1, <1>4, <1>5, <1>8, ConsoleRepeatKept

--------------------------------
\* Nothing forgotten.  A command whose preview another command consumed is
\* not executed and cannot be.
ConsoleSpent(k) == previews[commands[k].preview].used /\ ~commands[k].done

ConsoleLate(k) == previews[commands[k].preview].lapsed
ConsoleElsewhere(k) == \E c \in 1 .. Len(calls) :
    calls[c].key = k /\ calls[c].by # previews[commands[k].preview].session

\* Why a command is refused.
ConsoleCause(k) == ConsoleSpent(k) \/ ConsoleLate(k) \/ ConsoleElsewhere(k)

\* What a call has read of its command when it is, or will be, refused.
ConsoleDoomed(c) == \/ calls[c].at = "RUNNING" /\ ~calls[c].saw.record /\ ~calls[c].saw.usable
                    \/ calls[c].at = "ANSWERED" /\ calls[c].answer = "REFUSED"

ConsoleInv ==
    /\ ConsoleKept
    /\ \A c \in 1 .. Len(calls) : ConsoleDoomed(c) => ConsoleCause(calls[c].key)
    /\ \A k \in shown.refused : ConsoleCause(k)

LEMMA ConsoleInitially ==
  ASSUME ConsoleGiven, Console!Init
  PROVE  ConsoleInv
<1>1. Len(calls) = 0 /\ shown.refused = {} BY DEF Console!Init
<1> QED BY <1>1, ConsoleInitKept DEF ConsoleInv

LEMMA ConsoleInvIsTrack ==
  ASSUME ConsoleInv
  PROVE  Console!ConsoleKeepsTrack
<1>1. ConsoleKept /\ DOMAIN commands = 1 .. Len(commands) /\ DOMAIN calls = 1 .. Len(calls)
  BY ConsoleLengths DEF ConsoleInv
<1>2. ASSUME NEW k \in 1 .. Len(commands), commands[k].done, k \notin shown.done
      PROVE  journal[commands[k].by] = k \/ (k \in shown.refused /\ Console!Refusable(k))
  <2>1. k \notin shown.refused => journal[commands[k].by] = k
    BY <1>1, <1>2 DEF ConsoleKept, ConsoleShownRight
  <2>2. k \in shown.refused => ConsoleLate(k) \/ ConsoleElsewhere(k)
    BY <1>2 DEF ConsoleInv, ConsoleCause, ConsoleSpent
  <2> QED BY <1>1, <2>1, <2>2 DEF Console!Refusable, ConsoleLate, ConsoleElsewhere
<1>3. Console!NothingForgotten BY <1>1, <1>2 DEF Console!NothingForgotten
<1> QED BY <1>1, <1>3, ConsoleKeptIsTrack DEF Console!ConsoleKeepsTrack

\* A command keeps its preview, a preview its session and what befell it, a
\* call its command and session; what was spent is not executed.
ConsoleBooksGrow ==
    /\ Len(commands) <= Len(commands') /\ Len(calls) <= Len(calls')
    /\ \A k \in 1 .. Len(commands) : /\ commands'[k].preview = commands[k].preview
                                     /\ ConsoleSpent(k) => ~commands'[k].done
    /\ \A p \in 1 .. Len(previews) : /\ previews'[p].session = previews[p].session
                                     /\ previews[p].used => previews'[p].used
                                     /\ previews[p].lapsed => previews'[p].lapsed
    /\ \A c \in 1 .. Len(calls) : calls'[c].key = calls[c].key /\ calls'[c].by = calls[c].by

LEMMA ConsoleCauseStays ==
  ASSUME ConsoleKept, ConsoleKept', ConsoleBooksGrow, NEW k \in 1 .. Len(commands), ConsoleCause(k)
  PROVE  ConsoleCause(k)'
<1>1. commands[k].preview \in 1 .. Len(previews) /\ commands'[k].preview = commands[k].preview
  BY DEF ConsoleKept, ConsoleCommandsRight, ConsoleBooksGrow
<1>2. ConsoleSpent(k) => ConsoleSpent(k)' BY <1>1 DEF ConsoleBooksGrow, ConsoleSpent
<1>3. ConsoleLate(k) => ConsoleLate(k)' BY <1>1 DEF ConsoleBooksGrow, ConsoleLate
<1>4. ASSUME ConsoleElsewhere(k) PROVE ConsoleElsewhere(k)'
  <2>1. PICK c \in 1 .. Len(calls) : calls[c].key = k /\ calls[c].by # previews[commands[k].preview].session
    BY <1>4 DEF ConsoleElsewhere
  <2>2. Len(calls) \in Nat /\ Len(calls') \in Nat BY ConsoleLengths DEF ConsoleKept, ConsoleCallsRight
  <2>3. c \in 1 .. Len(calls') /\ calls'[c].key = k
        /\ calls'[c].by # previews'[commands'[k].preview].session
    BY <1>1, <2>1, <2>2 DEF ConsoleBooksGrow
  <2> QED BY <2>3 DEF ConsoleElsewhere
<1> QED BY <1>2, <1>3, <1>4 DEF ConsoleCause

\* A call is new or sent again, or knows what it knew.
ConsoleCallsQuiet == \A c \in 1 .. Len(calls') :
    \/ calls'[c].at = "SENT"
    \/ /\ c \in 1 .. Len(calls) /\ calls'[c].at = calls[c].at
       /\ calls'[c].saw = calls[c].saw /\ calls'[c].answer = calls[c].answer

\* A call that is refused after the step had cause to be before it.
ConsoleCallsTold == \A c \in 1 .. Len(calls') : ConsoleDoomed(c)' =>
    c \in 1 .. Len(calls) /\ ConsoleCause(calls[c].key)

LEMMA ConsoleToldStep ==
  ASSUME ConsoleKept, ConsoleKept', ConsoleBooksGrow, ConsoleCallsTold,
         \A k \in shown'.refused : k \in 1 .. Len(commands) /\ ConsoleCause(k)
  PROVE  ConsoleInv'
<1>1. ASSUME NEW c \in 1 .. Len(calls'), ConsoleDoomed(c)' PROVE ConsoleCause(calls[c].key)'
  <2>1. c \in 1 .. Len(calls) /\ ConsoleCause(calls[c].key) BY <1>1 DEF ConsoleCallsTold
  <2>2. PICK k \in 1 .. Len(commands) : k = calls[c].key BY <2>1, ConsoleCallKnows
  <2>3. calls'[c].key = k BY <2>1, <2>2 DEF ConsoleBooksGrow
  <2>4. ConsoleCause(k)' BY <2>1, <2>2, ConsoleCauseStays
  <2> QED BY <2>3, <2>4 DEF ConsoleCause, ConsoleSpent, ConsoleLate, ConsoleElsewhere
<1>2. \A k \in shown'.refused : ConsoleCause(k)' BY ConsoleCauseStays
<1> QED BY <1>1, <1>2 DEF ConsoleInv

\* A step on which no call learns anything and nothing is told.
LEMMA ConsoleQuietStep ==
  ASSUME ConsoleInv, ConsoleKept', ConsoleBooksGrow, ConsoleCallsQuiet, shown' = shown
  PROVE  ConsoleInv'
<1>1. ConsoleKept /\ shown.refused \subseteq 1 .. Len(commands)
  BY DEF ConsoleInv, ConsoleKept, ConsoleShownRight
<1>2. ConsoleCallsTold  BY DEF ConsoleCallsTold, ConsoleCallsQuiet, ConsoleDoomed, ConsoleInv
<1> QED BY <1>1, <1>2, ConsoleToldStep DEF ConsoleInv

\* What is kept when commands and previews are.
LEMMA ConsoleSameGrows ==
  ASSUME ConsoleKept, UNCHANGED <<commands, previews>>, calls' = calls \/ ConsoleCallsGo
  PROVE  ConsoleBooksGrow
BY ConsoleLengths DEF ConsoleBooksGrow, ConsoleCallsGo, ConsoleSpent

LEMMA ConsoleSessionsInv ==
  ASSUME ConsoleGiven, ConsoleInv,
         \/ \E who \in Staff : Console!Login(who)
         \/ Console!Logout \/ Console!OtherRequestSignsOut \/ Console!OtherRequestRefreshes
         \/ \E s \in DOMAIN sessions : Console!AccessExpires(s) \/ Console!SessionEnds(s)
  PROVE  ConsoleInv'
<1>1. ConsoleKept BY DEF ConsoleInv
<1>2. ConsoleKept'
  BY <1>1, ConsoleLoginKept, ConsoleLogoutKept, ConsoleOtherRequestsKept, ConsoleSessionsChangeKept
<1>3. UNCHANGED <<calls, previews, commands, shown>>
  BY DEF Console!Login, Console!Logout, Console!OtherRequestSignsOut, Console!OtherRequestRefreshes,
     Console!AccessExpires, Console!SessionEnds
<1>4. ConsoleBooksGrow /\ ConsoleCallsQuiet BY <1>1, <1>3, ConsoleSameGrows DEF ConsoleCallsQuiet
<1> QED BY <1>2, <1>3, <1>4, ConsoleQuietStep

\* A call is added.
LEMMA ConsoleSentQuiet ==
  ASSUME ConsoleGiven, ConsoleKept, NEW k \in Nat, Console!Sent(k), page.session # 0
  PROVE  /\ ConsoleCallsQuiet /\ Len(calls) <= Len(calls')
         /\ \A c \in 1 .. Len(calls) : calls'[c].key = calls[c].key /\ calls'[c].by = calls[c].by
<1>1. Len(calls') = Len(calls) + 1 /\ Len(calls) \in Nat
      /\ \A c \in 1 .. Len(calls') : calls'[c] = IF c = Len(calls) + 1 THEN ConsoleNewCall(k) ELSE calls[c]
  BY ConsoleSentCalls, ConsoleLengths
<1> QED BY <1>1 DEF ConsoleCallsQuiet, ConsoleNewCall

LEMMA ConsoleDialogInv ==
  ASSUME ConsoleGiven, ConsoleInv, Console!Open \/ Console!Restore \/ Console!Close \/ Console!ConfirmPending
  PROVE  ConsoleInv'
<1>1. ConsoleKept BY DEF ConsoleInv
<1>2. ConsoleKept' BY <1>1, ConsoleDialogKept, ConsoleConfirmPendingKept
<1>3. CASE Console!Open \/ Console!Restore \/ Console!Close
  <2>1. UNCHANGED <<calls, previews, commands, shown>>
    BY <1>3 DEF Console!Open, Console!Restore, Console!Close
  <2>2. ConsoleBooksGrow /\ ConsoleCallsQuiet BY <1>1, <2>1, ConsoleSameGrows DEF ConsoleCallsQuiet
  <2> QED BY <1>2, <2>1, <2>2, ConsoleQuietStep
<1>4. CASE Console!ConfirmPending
  <2>1. dialog.open /\ Console!Sent(dialog.command) /\ UNCHANGED <<previews, commands, shown>>
    BY <1>4 DEF Console!ConfirmPending
  <2>2. dialog.command \in Nat /\ page.session # 0 /\ Len(commands) \in Nat
    BY <1>1, <2>1, ConsoleLengths DEF ConsoleKept, ConsoleDialogRight
  <2>3. ConsoleBooksGrow /\ ConsoleCallsQuiet
    BY <1>1, <2>1, <2>2, ConsoleSentQuiet DEF ConsoleBooksGrow, ConsoleSpent
  <2> QED BY <1>2, <2>1, <2>3, ConsoleQuietStep
<1> QED BY <1>3, <1>4

LEMMA ConsoleReloadInv ==
  ASSUME ConsoleGiven, ConsoleInv, Console!Reload
  PROVE  ConsoleInv'
<1>1. ConsoleKept /\ ConsoleKept' /\ ConsoleCallsGo BY ConsoleReloadKept DEF ConsoleInv
<1>2. /\ calls' = [c \in 1 .. Len(calls) |-> [calls[c] EXCEPT !.stage = "ENDED"]]
      /\ UNCHANGED <<previews, commands, shown>>
  BY <1>1, ConsoleLengths DEF Console!Reload
<1>3. \A c \in 1 .. Len(calls) : /\ calls'[c].at = calls[c].at /\ calls'[c].saw = calls[c].saw
                                 /\ calls'[c].answer = calls[c].answer
  BY <1>1, <1>2, ConsoleRowTypes DEF ConsoleCallRows
<1>4. ConsoleCallsQuiet BY <1>1, <1>3 DEF ConsoleCallsQuiet, ConsoleCallsGo
<1> QED BY <1>1, <1>2, <1>4, ConsoleSameGrows, ConsoleQuietStep

LEMMA ConsoleRequestPreviewInv ==
  ASSUME ConsoleGiven, ConsoleInv, Console!RequestPreview
  PROVE  ConsoleInv'
<1>1. ConsoleKept /\ ConsoleKept' BY ConsoleRequestPreviewKept DEF ConsoleInv
<1>2. \E p : previews' = Append(previews, p) /\ UNCHANGED <<calls, commands, shown>>
  BY DEF Console!RequestPreview
<1>3. \A p \in 1 .. Len(previews) : previews'[p] = previews[p] BY <1>1, <1>2, ConsoleLengths
<1>4. ConsoleBooksGrow /\ ConsoleCallsQuiet
  BY <1>1, <1>2, <1>3, ConsoleLengths DEF ConsoleBooksGrow, ConsoleCallsQuiet, ConsoleSpent
<1> QED BY <1>1, <1>2, <1>4, ConsoleQuietStep

LEMMA ConsoleConfirmNewInv ==
  ASSUME ConsoleGiven, ConsoleInv, Console!ConfirmNew
  PROVE  ConsoleInv'
<1>1. ConsoleKept /\ ConsoleKept' BY ConsoleConfirmNewKept DEF ConsoleInv
<1>2. /\ dialog.open /\ Console!Sent(Len(commands) + 1) /\ UNCHANGED <<previews, shown>>
      /\ \E n : commands' = Append(commands, n)
  BY DEF Console!ConfirmNew
<1>3. page.session # 0 /\ Len(commands) + 1 \in Nat
  BY <1>1, <1>2, ConsoleLengths DEF ConsoleKept, ConsoleDialogRight
<1>4. Len(commands) <= Len(commands') /\ \A k \in 1 .. Len(commands) : commands'[k] = commands[k]
  BY <1>1, <1>2, ConsoleLengths
<1>5. ConsoleBooksGrow /\ ConsoleCallsQuiet
  BY <1>1, <1>2, <1>3, <1>4, ConsoleSentQuiet DEF ConsoleBooksGrow, ConsoleSpent
<1> QED BY <1>1, <1>2, <1>5, ConsoleQuietStep

LEMMA ConsolePreviewLapsesInv ==
  ASSUME ConsoleGiven, ConsoleInv, NEW v \in 1 .. Len(previews), Console!PreviewLapses(v)
  PROVE  ConsoleInv'
<1>1. ConsoleKept /\ ConsoleKept' /\ ConsolePreviewsGo /\ UNCHANGED <<calls, commands, shown>>
      /\ \A p \in 1 .. Len(previews) : /\ previews'[p].used = previews[p].used
                                       /\ previews[p].lapsed => previews'[p].lapsed
  BY ConsolePreviewLapsesKept, ConsolePreviewLapsesGoes DEF ConsoleInv, Console!PreviewLapses
<1>2. ConsoleBooksGrow /\ ConsoleCallsQuiet
  BY <1>1, ConsoleLengths DEF ConsoleBooksGrow, ConsoleCallsQuiet, ConsolePreviewsGo, ConsoleSpent
<1> QED BY <1>1, <1>2, ConsoleQuietStep

\* The server moves call c, which is refused only when there is cause.
LEMMA ConsoleServedInv ==
  ASSUME ConsoleInv, ConsoleKept', NEW c \in 1 .. Len(calls), ConsoleCallsGo, ConsoleBooksGrow,
         \A o \in 1 .. Len(calls) : o # c => calls'[o] = calls[o],
         ConsoleDoomed(c)' => ConsoleCause(calls[c].key), shown' = shown
  PROVE  ConsoleInv'
<1>1. ConsoleKept /\ shown.refused \subseteq 1 .. Len(commands)
  BY DEF ConsoleInv, ConsoleKept, ConsoleShownRight
<1>2. ASSUME NEW o \in 1 .. Len(calls'), ConsoleDoomed(o)'
      PROVE  o \in 1 .. Len(calls) /\ ConsoleCause(calls[o].key)
  <2>1. o \in 1 .. Len(calls) BY DEF ConsoleCallsGo
  <2>2. CASE o # c BY <1>2, <2>1, <2>2 DEF ConsoleDoomed, ConsoleInv
  <2>3. CASE o = c BY <1>2, <2>1, <2>3
  <2> QED BY <2>2, <2>3
<1>3. ConsoleCallsTold BY <1>2 DEF ConsoleCallsTold
<1> QED BY <1>1, <1>3, ConsoleToldStep DEF ConsoleInv

LEMMA ConsoleArriveInv ==
  ASSUME ConsoleGiven, ConsoleInv, NEW c \in 1 .. Len(calls), Console!Arrive(c)
  PROVE  ConsoleInv'
<1>1. ConsoleKept /\ ConsoleKept' BY ConsoleServerKept DEF ConsoleInv, Console!Server
<1>2. UNCHANGED <<previews, commands, shown>> BY DEF Console!Arrive
<1>3. /\ ConsoleCallsGo
      /\ \A o \in 1 .. Len(calls) : o # c => calls'[o] = calls[o]
      /\ \/ calls'[c].at = "RUNNING"
            /\ calls'[c].saw = [record |-> Console!CommandOf(c).done,
                  usable |-> ~previews[Console!CommandOf(c).preview].used
                     /\ ~previews[Console!CommandOf(c).preview].lapsed]
         \/ calls'[c].at = "ANSWERED" /\ calls'[c].answer = "UNAUTHORIZED"
  BY <1>1, ConsoleArriveGoes
<1>4. ASSUME ConsoleDoomed(c)' PROVE ConsoleCause(calls[c].key)
  <2>1. CASE calls'[c].at = "ANSWERED" /\ calls'[c].answer = "UNAUTHORIZED"  BY <2>1, <1>4 DEF ConsoleDoomed
  <2>2. CASE /\ calls'[c].at = "RUNNING"
             /\ calls'[c].saw = [record |-> Console!CommandOf(c).done,
                  usable |-> ~previews[Console!CommandOf(c).preview].used
                     /\ ~previews[Console!CommandOf(c).preview].lapsed]
    <3>1. calls'[c].saw.record = Console!CommandOf(c).done
          /\ calls'[c].saw.usable = (~previews[Console!CommandOf(c).preview].used
                                      /\ ~previews[Console!CommandOf(c).preview].lapsed)
      BY <2>2
    <3>2. ~calls'[c].saw.record /\ ~calls'[c].saw.usable BY <1>4, <2>2 DEF ConsoleDoomed
    <3> QED BY <1>1, <3>1, <3>2, ConsoleCallKnows DEF ConsoleCause, ConsoleSpent, ConsoleLate
  <2> QED BY <1>3, <2>1, <2>2
<1> QED BY <1>1, <1>2, <1>3, <1>4, ConsoleSameGrows, ConsoleServedInv

LEMMA ConsoleAnswerInv ==
  ASSUME ConsoleGiven, ConsoleInv, NEW c \in 1 .. Len(calls), Console!Answer(c)
  PROVE  ConsoleInv'
<1>1. ConsoleKept /\ ConsoleKept' BY ConsoleServerKept DEF ConsoleInv, Console!Server
<1>2. UNCHANGED <<previews, commands, shown>> BY DEF Console!Answer
<1>3. CASE Console!Replayed(c) /\ Console!Answered(c, "OK")
  <2>1. ConsoleCallsGo /\ (\A o \in 1 .. Len(calls) : o # c => calls'[o] = calls[o])
        /\ calls'[c].at = "ANSWERED" /\ calls'[c].answer = "OK"
    BY <1>1, <1>3, ConsoleAnsweredGoes
  <2>2. ~ConsoleDoomed(c)' BY <2>1 DEF ConsoleDoomed
  <2> QED BY <1>1, <1>2, <2>1, <2>2, ConsoleSameGrows, ConsoleServedInv
<1>4. CASE Console!Refused(c) /\ Console!Answered(c, "REFUSED")
  <2>1. ConsoleCallsGo /\ (\A o \in 1 .. Len(calls) : o # c => calls'[o] = calls[o])
    BY <1>1, <1>4, ConsoleAnsweredGoes
  <2>2. CASE previews[Console!CommandOf(c).preview].session # calls[c].by
    <3>1. ConsoleElsewhere(calls[c].key) BY <1>1, <2>2, ConsoleCallKnows DEF ConsoleElsewhere
    <3> QED BY <1>1, <1>2, <2>1, <3>1, ConsoleSameGrows, ConsoleServedInv DEF ConsoleCause
  <2>3. CASE ~calls[c].saw.usable
    <3>1. ConsoleDoomed(c)  BY <1>4, <2>3 DEF Console!Refused, Console!Replayed, Console!Answer, ConsoleDoomed
    <3>2. ConsoleCause(calls[c].key) BY <3>1 DEF ConsoleInv
    <3> QED BY <1>1, <1>2, <2>1, <3>2, ConsoleSameGrows, ConsoleServedInv
  <2> QED BY <1>4, <2>2, <2>3 DEF Console!Refused
<1> QED BY <1>3, <1>4 DEF Console!Answer

LEMMA ConsoleConflictInv ==
  ASSUME ConsoleGiven, ConsoleInv, NEW c \in 1 .. Len(calls), Console!Conflict(c)
  PROVE  ConsoleInv'
<1>1. ConsoleKept /\ ConsoleKept' BY ConsoleServerKept DEF ConsoleInv, Console!Server
<1>2. UNCHANGED <<previews, commands, shown>> /\ previews[Console!CommandOf(c).preview].used
      /\ calls[c].at = "RUNNING"
  BY DEF Console!Conflict
<1>3. CASE Console!Answered(c, "CONFLICT")
  <2>1. ConsoleCallsGo /\ (\A o \in 1 .. Len(calls) : o # c => calls'[o] = calls[o])
        /\ calls'[c].at = "ANSWERED" /\ calls'[c].answer = "CONFLICT"
    BY <1>1, <1>3, ConsoleAnsweredGoes
  <2>2. ~ConsoleDoomed(c)' BY <2>1 DEF ConsoleDoomed
  <2> QED BY <1>1, <1>2, <2>1, <2>2, ConsoleSameGrows, ConsoleServedInv
<1>4. CASE calls' = [calls EXCEPT ![c].saw = [record |-> Console!CommandOf(c).done, usable |-> FALSE]]
  <2>1. /\ ConsoleCallsGo /\ (\A o \in 1 .. Len(calls) : o # c => calls'[o] = calls[o])
        /\ calls'[c].at = calls[c].at
        /\ calls'[c].saw = [record |-> Console!CommandOf(c).done, usable |-> FALSE]
    BY <1>1, <1>4, ConsoleAgainRunsGoes
  <2>2. ASSUME ConsoleDoomed(c)' PROVE ConsoleCause(calls[c].key)
    <3>1. ~Console!CommandOf(c).done BY <1>2, <2>1, <2>2 DEF ConsoleDoomed
    <3> QED BY <1>1, <1>2, <3>1, ConsoleCallKnows DEF ConsoleCause, ConsoleSpent
  <2> QED BY <1>1, <1>2, <2>1, <2>2, ConsoleSameGrows, ConsoleServedInv
<1> QED BY <1>3, <1>4 DEF Console!Conflict

LEMMA ConsoleExecuteInv ==
  ASSUME ConsoleGiven, ConsoleInv, NEW c \in 1 .. Len(calls), Console!Execute(c)
  PROVE  ConsoleInv'
<1>1. ConsoleKept /\ ConsoleKept' BY ConsoleServerKept DEF ConsoleInv, Console!Server
<1>2. /\ ConsolePreviewsGo /\ ConsoleCommandsGo
      /\ \A p \in 1 .. Len(previews) : previews'[p].used
          <=> (previews[p].used \/ p = Console!CommandOf(c).preview)
      /\ \A p \in 1 .. Len(previews) : previews'[p].lapsed = previews[p].lapsed
      /\ \A k \in 1 .. Len(commands) : commands'[k].done <=> (commands[k].done \/ k = calls[c].key)
  BY <1>1, ConsoleExecuteGoes
<1>3. /\ ConsoleCallsGo /\ (\A o \in 1 .. Len(calls) : o # c => calls'[o] = calls[o])
      /\ calls'[c].at = "ANSWERED" /\ calls'[c].answer = "OK"
  BY <1>1, ConsoleAnsweredGoes DEF Console!Execute
<1>4. ~previews[Console!CommandOf(c).preview].used /\ shown' = shown BY DEF Console!Execute
<1>5. \A k \in 1 .. Len(commands) : ConsoleSpent(k) => ~commands'[k].done
  BY <1>1, <1>2, <1>4, ConsoleCallKnows DEF ConsoleSpent
<1>6. ConsoleBooksGrow
  <2>1. Len(commands) <= Len(commands') /\ Len(calls) <= Len(calls')
    BY <1>1, <1>2, <1>3, ConsoleLengths DEF ConsoleCommandsGo, ConsoleCallsGo
  <2>2. \A k \in 1 .. Len(commands) : commands'[k].preview = commands[k].preview
    BY <1>2 DEF ConsoleCommandsGo
  <2>3. \A p \in 1 .. Len(previews) : previews'[p].session = previews[p].session
    BY <1>2 DEF ConsolePreviewsGo
  <2>4. \A o \in 1 .. Len(calls) : calls'[o].key = calls[o].key /\ calls'[o].by = calls[o].by
    BY <1>3 DEF ConsoleCallsGo
  <2> QED BY <1>2, <1>5, <2>1, <2>2, <2>3, <2>4 DEF ConsoleBooksGrow
<1>7. ~ConsoleDoomed(c)' BY <1>3 DEF ConsoleDoomed
<1> QED BY <1>1, <1>3, <1>4, <1>6, <1>7, ConsoleServedInv

--------------------------------
\* The page ends a call with an answer the server has given it, or with
\* one that is not certain.
LEMMA ConsoleEndsInv ==
  ASSUME ConsoleGiven, ConsoleInv, NEW c \in 1 .. Len(calls), NEW answer, Console!Ends(c, answer),
         answer = "REFUSED" => calls[c].at = "ANSWERED" /\ calls[c].answer = "REFUSED",
         UNCHANGED <<page, sessions, previews, commands>>
  PROVE  ConsoleInv'
<1>1. ConsoleKept /\ ConsoleKept' /\ shown.refused \subseteq 1 .. Len(commands)
  BY ConsoleEndsKept DEF ConsoleInv, ConsoleKept, ConsoleShownRight
<1>2. /\ ConsoleCallsGo
      /\ \A o \in 1 .. Len(calls) : /\ calls'[o].at = calls[o].at /\ calls'[o].saw = calls[o].saw
                                    /\ calls'[o].answer = calls[o].answer
  BY <1>1, ConsoleEndedGoes DEF Console!Ends
<1>3. ConsoleCallsTold  BY <1>2 DEF ConsoleCallsTold, ConsoleCallsGo, ConsoleDoomed, ConsoleInv
<1>4. PICK k : k = calls[c].key
  OBVIOUS
<1>5. shown'.refused = shown.refused \union {x \in {k} : Console!Certain(answer)}  BY <1>4 DEF Console!Ends
<1>6. k \in 1 .. Len(commands) /\ (answer = "REFUSED" => ConsoleCause(k))
  BY <1>1, <1>4, ConsoleCallKnows DEF ConsoleInv, ConsoleDoomed
<1>7. ASSUME NEW m \in shown'.refused PROVE m \in 1 .. Len(commands) /\ ConsoleCause(m)
  BY <1>1, <1>5, <1>6 DEF Console!Certain, ConsoleInv
<1> QED BY <1>1, <1>2, <1>3, <1>7, ConsoleSameGrows, ConsoleToldStep

\* The page ends or repeats calls and tells nothing.
LEMMA ConsoleCallsInv ==
  ASSUME ConsoleInv, ConsoleKept', ConsoleCallsGo, ConsoleCallsQuiet, UNCHANGED <<previews, commands, shown>>
  PROVE  ConsoleInv'
BY ConsoleSameGrows, ConsoleQuietStep DEF ConsoleInv

LEMMA ConsoleExpiredInv ==
  ASSUME ConsoleGiven, ConsoleInv, NEW c \in 1 .. Len(calls), Console!Expired(c), UNCHANGED <<sessions, previews,
         commands>>
  PROVE  ConsoleInv'
<1>1. ConsoleKept /\ ConsoleKept' BY ConsoleExpiredKept DEF ConsoleInv
<1>2. ConsoleCallsQuiet  BY <1>1, ConsoleEndedGoes DEF Console!Expired, ConsoleCallsQuiet, ConsoleCallsGo
<1>3. ConsoleCallsGo BY <1>1, ConsoleEndedGoes DEF Console!Expired
<1> QED BY <1>1, <1>2, <1>3, ConsoleCallsInv DEF Console!Expired

LEMMA ConsoleReceiveUnauthorizedInv ==
  ASSUME ConsoleGiven, ConsoleInv, NEW c \in 1 .. Len(calls), Console!ReceiveUnauthorized(c)
  PROVE  ConsoleInv'
<1>1. ConsoleKept /\ ConsoleKept' BY ConsoleReceiveUnauthorizedKept DEF ConsoleInv
<1>2. UNCHANGED <<page, sessions, previews, commands>> BY DEF Console!ReceiveUnauthorized
<1>3. CASE Console!Ends(c, "CHANGED") BY <1>2, <1>3, ConsoleEndsInv
<1>4. CASE Console!SameSession(c) /\ calls' = Console!Again(c) /\ UNCHANGED <<dialog, journal, shown>>
  <2>1. page.token \in 0 .. PageTokens BY <1>1 DEF ConsoleKept, ConsolePageRight
  <2>2. ConsoleCallsGo /\ (\A o \in 1 .. Len(calls) : o # c => calls'[o] = calls[o]) /\ calls'[c].at = "SENT"
    BY <1>1, <1>4, <2>1, ConsoleAgainGoes DEF Console!Again
  <2>3. ConsoleCallsQuiet BY <2>2 DEF ConsoleCallsQuiet, ConsoleCallsGo
  <2> QED BY <2>2, <2>3, <1>1, <1>2, <1>4, ConsoleCallsInv
<1>5. CASE calls' = [calls EXCEPT ![c].stage = "REFRESHING"] /\ UNCHANGED <<dialog, journal, shown>>
  <2>1. ConsoleCallsGo /\ ConsoleCallsQuiet
    BY <1>1, <1>5, ConsoleEndedGoes DEF ConsoleCallsQuiet, ConsoleCallsGo
  <2> QED BY <2>1, <1>1, <1>2, <1>5, ConsoleCallsInv
<1> QED BY <1>3, <1>4, <1>5 DEF Console!ReceiveUnauthorized

LEMMA ConsoleRefreshedInv ==
  ASSUME ConsoleGiven, ConsoleInv, NEW c \in 1 .. Len(calls), Console!Refreshed(c)
  PROVE  ConsoleInv'
<1>1. ConsoleKept /\ ConsoleKept' /\ ConsoleCallsGo /\ calls'[c].at = "SENT"
   /\ (\A o \in 1 .. Len(calls) : o # c => calls'[o] = calls[o])
  BY ConsoleRefreshedKept DEF ConsoleInv
<1>2. ConsoleCallsQuiet BY <1>1 DEF ConsoleCallsQuiet, ConsoleCallsGo
<1>3. UNCHANGED <<sessions, previews, commands, journal, shown>> BY DEF Console!Refreshed
<1> QED BY <1>1, <1>2, <1>3, ConsoleCallsInv

LEMMA ConsoleHandleInv ==
  ASSUME ConsoleGiven, ConsoleInv, NEW c \in 1 .. Len(calls), Console!Handle(c)
  PROVE  ConsoleInv'
<1>1. CASE Console!ReceiveFirst(c)
  <2>1. \E answer : /\ Console!Ends(c, answer)
                    /\ answer = "REFUSED" => calls[c].at = "ANSWERED" /\ calls[c].answer = "REFUSED"
    BY <1>1 DEF Console!ReceiveFirst
  <2>2. UNCHANGED <<page, sessions, previews, commands>> BY <1>1 DEF Console!ReceiveFirst
  <2> QED BY <2>1, <2>2, ConsoleEndsInv
<1>2. CASE Console!RefreshTooLate(c) \/ Console!Disconnected(c)
  <2>1. UNCHANGED <<page, sessions, previews, commands>>
     /\ \E answer \in {"CHANGED", "UNKNOWN"} : Console!Ends(c, answer)
    BY <1>2 DEF Console!RefreshTooLate, Console!Disconnected
  <2> QED BY <2>1, ConsoleEndsInv
<1>3. CASE Console!ReceiveUnauthorized(c) BY <1>3, ConsoleReceiveUnauthorizedInv
<1>4. CASE Console!Refreshed(c) BY <1>4, ConsoleRefreshedInv
<1>5. CASE Console!RefreshFails(c)
  <2>1. Console!Expired(c) /\ UNCHANGED <<sessions, previews, commands>>  BY <1>5 DEF Console!RefreshFails
  <2> QED BY <2>1, ConsoleExpiredInv
<1>6. CASE Console!ReceiveAgain(c)
  <2>1. UNCHANGED <<sessions, previews, commands>> /\ calls[c].at = "ANSWERED"
        /\ \/ Console!Ends(c, "CHANGED") /\ UNCHANGED page
           \/ Console!Ends(c, calls[c].answer) /\ UNCHANGED page
           \/ Console!Expired(c)
    BY <1>6 DEF Console!ReceiveAgain
  <2> QED BY <2>1, ConsoleEndsInv, ConsoleExpiredInv
<1> QED BY <1>1, <1>2, <1>3, <1>4, <1>5, <1>6 DEF Console!Handle

\* One step of the page or of the server.
LEMMA ConsoleStepwise ==
  ASSUME ConsoleGiven, ConsoleInv, Console!Next
  PROVE  ConsoleInv'
<1>1. DOMAIN calls = 1 .. Len(calls) /\ DOMAIN previews = 1 .. Len(previews)  BY ConsoleLengths DEF ConsoleInv
<1>2. CASE \/ \E who \in Staff : Console!Login(who)
           \/ Console!Logout \/ Console!OtherRequestSignsOut \/ Console!OtherRequestRefreshes
           \/ \E s \in DOMAIN sessions : Console!AccessExpires(s) \/ Console!SessionEnds(s)
  BY <1>2, ConsoleSessionsInv
<1>3. CASE Console!Reload BY <1>3, ConsoleReloadInv
<1>4. CASE Console!Open \/ Console!Restore \/ Console!Close \/ Console!RequestPreview \/ Console!ConfirmNew
   \/ Console!ConfirmPending
  BY <1>4, ConsoleDialogInv, ConsoleRequestPreviewInv, ConsoleConfirmNewInv
<1>5. ASSUME NEW c \in DOMAIN calls, Console!Server(c) \/ Console!Handle(c) PROVE ConsoleInv'
  BY <1>1, <1>5, ConsoleArriveInv, ConsoleAnswerInv, ConsoleExecuteInv, ConsoleConflictInv, ConsoleHandleInv
     DEF Console!Server
<1>6. ASSUME NEW p \in DOMAIN previews, Console!PreviewLapses(p) PROVE ConsoleInv'
  BY <1>1, <1>6, ConsolePreviewLapsesInv
<1> QED BY <1>2, <1>3, <1>4, <1>5, <1>6 DEF Console!Next

LEMMA ConsoleStutters ==
  ASSUME ConsoleGiven, ConsoleInv, UNCHANGED Console!vars
  PROVE  ConsoleInv'
<1>1. UNCHANGED <<page, dialog, journal, calls, sessions, previews, commands, shown>>  BY DEF Console!vars
<1>2. ConsoleKept /\ ConsoleKept'
  BY <1>1 DEF ConsoleInv, ConsoleKept, ConsolePageRight, ConsoleDialogRight, ConsoleJournalRight,
     ConsoleCallsRight, ConsoleSessionsRight, ConsolePreviewsRight, ConsoleCommandsRight, ConsoleShownRight
<1>3. ConsoleCallsQuiet BY <1>1 DEF ConsoleCallsQuiet
<1> QED BY <1>1, <1>2, <1>3, ConsoleSameGrows, ConsoleQuietStep

--------------------------------
\* The suite.  A step moves one of its components.
HeadquartersInv ==
  /\ IInv
  /\ AccountInv /\ RecoveryInv /\ ConsoleInv

LEMMA HeadquartersMoving ==
  ASSUME [HeadquartersNext]_headquartersVars
  PROVE  /\ [Next]_vars
         /\ [Account!Next]_Account!vars /\ [Recovery!Next]_Recovery!vars /\ [Console!Next]_Console!vars
<1> USE DEF accountVars, recoveryVars, consoleVars, Account!vars, Recovery!vars, Console!vars
<1>1. CASE CommandStep BY <1>1 DEF CommandStep
<1>2. CASE LoginStep \/ ResetStep \/ PayoutStep
  BY <1>2 DEF LoginStep, ResetStep, PayoutStep, Account!Next, vars
<1>3. CASE RecoveryStep BY <1>3 DEF RecoveryStep, vars
<1>4. CASE ConsoleStep \/ OneSessionStep BY <1>4 DEF ConsoleStep, OneSessionStep, vars
<1>5. CASE UNCHANGED headquartersVars BY <1>5 DEF headquartersVars, vars
<1> QED BY <1>1, <1>2, <1>3, <1>4, <1>5 DEF HeadquartersNext

LEMMA HeadquartersInitially == HeadquartersInit => HeadquartersInv
<1> SUFFICES ASSUME HeadquartersInit PROVE HeadquartersInv
  OBVIOUS
<1>1. IInv BY InitIInv DEF HeadquartersInit
<1>2. AccountInv /\ RecoveryInv
  BY AccountInitially, RecoveryInitially, HeadquartersAssumption
     DEF HeadquartersInit, AccountGiven, RecoveryGiven
<1>3. ConsoleInv BY ConsoleInitially, HeadquartersAssumption DEF HeadquartersInit, ConsoleGiven
<1> QED BY <1>1, <1>2, <1>3 DEF HeadquartersInv

LEMMA HeadquartersStepwise == HeadquartersInv /\ [HeadquartersNext]_headquartersVars => HeadquartersInv'
<1> SUFFICES ASSUME HeadquartersInv, [HeadquartersNext]_headquartersVars PROVE HeadquartersInv'
  OBVIOUS
<1>1. IInv' BY HeadquartersMoving, NextIInv DEF HeadquartersInv
<1>2. AccountInv'
  BY HeadquartersMoving, AccountStepwise, AccountStutters, HeadquartersAssumption DEF HeadquartersInv, AccountGiven
<1>3. RecoveryInv'
  BY HeadquartersMoving, RecoveryStepwise, RecoveryStutters, HeadquartersAssumption DEF HeadquartersInv, RecoveryGiven
<1>4. ConsoleInv'
  BY HeadquartersMoving, ConsoleStepwise, ConsoleStutters, HeadquartersAssumption DEF HeadquartersInv, ConsoleGiven
<1> QED BY <1>1, <1>2, <1>3, <1>4 DEF HeadquartersInv

LEMMA HeadquartersInvariant == HeadquartersSpec => []HeadquartersInv
BY HeadquartersInitially, HeadquartersStepwise, PTL DEF HeadquartersSpec

\* What an administrator can sign in with is what its account allows now,
\* a proof counts once, and one recovery of it is open, for any number of
\* versions, codes, factors, challenges, sessions, grants, administrators
\* and recoveries (SignInsAreSound).
THEOREM SignInsAlwaysSound == HeadquartersSpec => []SignInsAreSound
<1>1. HeadquartersInv => SignInsAreSound
  BY AccountIsSound, RecoveryTypesFollow, HeadquartersAssumption
     DEF HeadquartersInv, AccountGiven, RecoveryGiven, RecoveryInv, SignInsAreSound
<1> QED BY <1>1, HeadquartersInvariant, PTL

\* A confirmation is sent by the account that made it and one at a time,
\* and none that was executed is forgotten before its end was seen, unless
\* it was refused when repeated, its preview having lapsed or being another
\* session's, for any number of sessions, tokens, previews, commands and
\* calls (ConsoleKeepsTrack).
THEOREM ConsoleAlwaysKeepsTrack == HeadquartersSpec => []ConsoleKeepsTrack
<1>1. HeadquartersInv => ConsoleKeepsTrack  BY ConsoleInvIsTrack DEF HeadquartersInv, ConsoleKeepsTrack
<1> QED BY <1>1, HeadquartersInvariant, PTL

\* Credentials are replaced by those who may, a family that was ended gets
\* no session, and a payout account is revealed to the session that asked,
\* for all constants (ActsWithAuthority).
THEOREM AlwaysActsWithAuthority == HeadquartersSpec => ActsWithAuthority
<1>1. HeadquartersInv /\ [HeadquartersNext]_headquartersVars =>
        [Account!KeepsFamilyEnded /\ Account!RevealsToTheAsker /\ Recovery!RecoversRightly]_headquartersVars
  <2> SUFFICES ASSUME HeadquartersInv, HeadquartersNext
               PROVE  Account!KeepsFamilyEnded /\ Account!RevealsToTheAsker /\ Recovery!RecoversRightly
    OBVIOUS
  <2>1. AccountInv /\ RecoveryInv /\ AccountGiven /\ RecoveryGiven
    BY HeadquartersAssumption DEF HeadquartersInv, AccountGiven, RecoveryGiven
  <2>2. Account!KeepsFamilyEnded /\ Account!RevealsToTheAsker
    <3>1. CASE Account!Next BY <3>1, <2>1, AccountKeepsRight, AccountRevealsRight
    <3>2. CASE UNCHANGED Account!vars
      <4>1. session' = session /\ grant' = grant BY <3>2 DEF Account!vars
      <4>2. Account!KeepsFamilyEnded BY <2>1, <4>1, AccountSessionsSameKeeps DEF AccountInv
      <4> QED BY <4>1, <4>2 DEF Account!RevealsToTheAsker
    <3> QED BY <3>1, <3>2, HeadquartersMoving
  <2>3. Recovery!RecoversRightly
    <3>1. CASE Recovery!Next
      BY <3>1, <2>1, RecoveryExecutesRight, RecoveryMovesRight DEF Recovery!RecoversRightly
    <3>2. CASE UNCHANGED Recovery!vars
      BY <3>2 DEF Recovery!vars, Recovery!RecoversRightly, Recovery!ExecutesByTwoOthers,
         Recovery!ExecutesUnstopped, Recovery!MovesLegally
    <3> QED BY <3>1, <3>2, HeadquartersMoving
  <2> QED BY <2>2, <2>3
<1> QED BY <1>1, HeadquartersInvariant, PTL DEF HeadquartersSpec, ActsWithAuthority

\* The commands of the suite are those of HighRiskCommands, whose theorems
\* above hold of them.
THEOREM CommandsOfHeadquarters == HeadquartersSpec => Spec
<1>1. HeadquartersInit => Init BY DEF HeadquartersInit
<1>2. [HeadquartersNext]_headquartersVars => [Next]_vars BY HeadquartersMoving
<1> QED BY <1>1, <1>2, PTL DEF HeadquartersSpec, Spec
=============================================================================
