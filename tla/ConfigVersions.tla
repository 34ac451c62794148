--------------------------- MODULE ConfigVersions ---------------------------
(***************************************************************************)
(* Versioned configuration (commission rules, business rules, the return   *)
(* address): administrators publish version after version, and settlements *)
(* of payments, completions of orders, withdrawals and approvals of        *)
(* aftersales take the version that is in force for them.  Everybody runs  *)
(* serializable transactions: `start` is transaction_timestamp(), `snap`   *)
(* how many versions the snapshot of the first statement shows, and the    *)
(* rest of the transaction runs under the lock of the configuration, so it *)
(* is one step.  A row that a later transaction changed since the snapshot *)
(* ends the transaction; runSerializableTransaction starts it again.       *)
(***************************************************************************)
EXTENDS Integers, Sequences, FiniteSetsExt

CONSTANTS Publishers, Readers,
          Kinds,        \* what the readers do: "settle", "complete",
                        \* "withdraw" or "approve"
          Bootstrapped, \* a first version exists, as before any payment
          \* bounds of the exploration: versions and moments
          MaxVersions, MaxTime

ASSUME ConfigVersionsAssumption ==
    /\ MaxVersions \in Nat \ {0} /\ MaxTime \in Nat
    /\ Bootstrapped \in BOOLEAN
    /\ Kinds \subseteq {"settle", "complete", "withdraw", "approve"}

VARIABLES
    now,       \* the database's clock
    versions,  \* the rows in order of version_no
    preview,   \* what the preview a publisher holds was issued for
    pub,       \* the publishing transactions
    reader     \* the readers and their transactions

vars == <<now, versions, preview, pub, reader>>

NoPreview == -1
Idle == [phase |-> "idle", start |-> 0, snap |-> 0]

Init ==
    /\ now = 0
    /\ versions = IF Bootstrapped
                    THEN <<[status |-> "PUBLISHED", effective |-> 0, base |-> 0, seen |-> 0]>>
                    ELSE << >>
    /\ preview = [p \in Publishers |-> NoPreview]
    /\ pub = [p \in Publishers |-> Idle]
    /\ reader \in [Readers -> {[phase |-> IF k = "settle" THEN "unpaid" ELSE "idle",
                                start |-> 0, snap |-> 0,
                                kind |-> k, paid |-> 0, rule |-> 0] : k \in Kinds}]

Tick ==
    /\ now < MaxTime
    /\ now' = now + 1
    /\ UNCHANGED <<versions, preview, pub, reader>>

--------------------------------
\* Publishing.

\* The current version's number; 0 when nothing was ever published.
Current == Len(versions)

Preview(p) ==
    /\ pub[p].phase = "idle"
    /\ preview' = [preview EXCEPT ![p] = Current]
    /\ UNCHANGED <<now, versions, pub, reader>>

\* The confirmation arrives and its transaction begins.
BeginPublish(p) ==
    /\ pub[p].phase = "idle"
    /\ preview[p] # NoPreview
    /\ Current < MaxVersions
    /\ pub' = [pub EXCEPT ![p] = [phase |-> "begun", start |-> now, snap |-> 0]]
    /\ UNCHANGED <<now, versions, preview, reader>>

SnapshotPublish(p) ==
    /\ pub[p].phase = "begun"
    /\ pub' = [pub EXCEPT ![p].phase = "snapped", ![p].snap = Current]
    /\ UNCHANGED <<now, versions, preview, reader>>

\* Mutant: a confirmation whose preview is of an older version is taken.
ConfirmedAny(p) == preview[p] # NoPreview

\* The preview's hash covers the current version's id and the largest number.
Confirmed(p) == preview[p] = pub[p].snap

\* DRAFT, the version before ARCHIVED, then PUBLISHED: one transaction.
Published(p) ==
    Append([v \in 1 .. Current |-> [versions[v] EXCEPT !.status = "ARCHIVED"]],
           [status |-> "PUBLISHED", effective |-> pub[p].start,
            base |-> pub[p].snap, seen |-> preview[p]])

\* The rows are as the snapshot shows them: FOR UPDATE finds none changed,
\* and the next version_no is free (its unique index).
Undisturbed(snap) == snap = Current

Publish(p) ==
    /\ pub[p].phase = "snapped"
    /\ Undisturbed(pub[p].snap)
    /\ Confirmed(p)
    /\ versions' = Published(p)
    /\ preview' = [preview EXCEPT ![p] = NoPreview]
    /\ pub' = [pub EXCEPT ![p] = Idle]
    /\ UNCHANGED <<now, reader>>

\* A conflict (the caller begins again) or VERSION_CONFLICT; nothing is kept.
RefusePublish(p) ==
    /\ pub[p].phase = "snapped"
    /\ ~ (Undisturbed(pub[p].snap) /\ Confirmed(p))
    /\ pub' = [pub EXCEPT ![p] = Idle]
    /\ UNCHANGED <<now, versions, preview, reader>>

--------------------------------
\* Taking the version in force.

\* The provider's money arrives; its settlement may run much later.
Pay(r) ==
    /\ reader[r].phase = "unpaid"
    /\ reader' = [reader EXCEPT ![r].phase = "idle", ![r].paid = now]
    /\ UNCHANGED <<now, versions, preview, pub>>

BeginRead(r) ==
    /\ reader[r].phase = "idle"
    /\ reader' = [reader EXCEPT ![r].phase = "begun", ![r].start = now]
    /\ UNCHANGED <<now, versions, preview, pub>>

SnapshotRead(r) ==
    /\ reader[r].phase = "begun"
    /\ reader' = [reader EXCEPT ![r].phase = "snapped", ![r].snap = Current]
    /\ UNCHANGED <<now, versions, preview, pub>>

\* A settlement looks through the history for the moment of the payment.
RulesOfPayment(r) ==
    {v \in 1 .. reader[r].snap : /\ versions[v].effective <= reader[r].paid
                                 /\ versions[v].effective <= reader[r].start}

\* A withdrawal needs the one PUBLISHED version, in force by its own clock.
RulesOfWithdrawal(r) ==
    {v \in {reader[r].snap} \ {0} : versions[v].effective <= reader[r].start}

\* The return address of the aftersale is the PUBLISHED one.
AddressOfReturn(r) == {reader[r].snap} \ {0}

\* A completion takes the PUBLISHED version and fails when that one begins
\* after it (the completion began just before the publication).
RulesOfCompletion(r) ==
    {v \in {reader[r].snap} \ {0} : versions[v].effective <= reader[r].start}

Rules(r) ==
    CASE reader[r].kind = "settle" -> RulesOfPayment(r)
      [] reader[r].kind = "complete" -> RulesOfCompletion(r)
      [] reader[r].kind = "withdraw" -> RulesOfWithdrawal(r)
      [] reader[r].kind = "approve" -> AddressOfReturn(r)

\* Mutant: the row is read without FOR UPDATE.
NeverMoved(r, v) == FALSE

\* The row was PUBLISHED in the snapshot and has been archived since.
Moved(r, v) == v = reader[r].snap /\ ~ Undisturbed(reader[r].snap)

\* By effective_at, then version_no.
Newest(S) ==
    CHOOSE v \in S : \A w \in S :
        \/ versions[w].effective < versions[v].effective
        \/ versions[w].effective = versions[v].effective /\ w <= v

TakeRule(r) ==
    /\ reader[r].phase = "snapped"
    /\ Rules(r) # {}
    /\ ~ Moved(r, Newest(Rules(r)))
    /\ reader' = [reader EXCEPT ![r].phase = "done", ![r].rule = Newest(Rules(r))]
    /\ UNCHANGED <<now, versions, preview, pub>>

\* A conflict, or no version in force: the caller may come again.
RefuseRead(r) ==
    /\ reader[r].phase = "snapped"
    /\ Rules(r) # {} => Moved(r, Newest(Rules(r)))
    /\ reader' = [reader EXCEPT ![r].phase = "idle"]
    /\ UNCHANGED <<now, versions, preview, pub>>

Next ==
    \/ Tick
    \/ \E p \in Publishers : \/ Preview(p) \/ BeginPublish(p) \/ SnapshotPublish(p)
                             \/ Publish(p) \/ RefusePublish(p)
    \/ \E r \in Readers : \/ Pay(r) \/ BeginRead(r) \/ SnapshotRead(r)
                          \/ TakeRule(r) \/ RefuseRead(r)

Spec == Init /\ [][Next]_vars

--------------------------------
\* One PUBLISHED row, the last; numbers, clocks and phases in their ranges.
TypeOK ==
    /\ now \in 0 .. MaxTime
    /\ Current <= MaxVersions
    /\ \A v \in 1 .. Current :
          /\ versions[v].status = (IF v = Current THEN "PUBLISHED" ELSE "ARCHIVED")
          /\ versions[v].effective \in 0 .. now
    /\ \A p \in Publishers :
          /\ preview[p] \in NoPreview .. Current
          /\ pub[p] \in [phase : {"idle", "begun", "snapped"}, start : 0 .. now, snap : 0 .. Current]
    /\ \A r \in Readers :
          reader[r] \in [phase : {"unpaid", "idle", "begun", "snapped", "done"}, start : 0 .. now,
                         snap : 0 .. Current, kind : Kinds, paid : 0 .. now, rule : 0 .. Current]

\* Nobody publishes over a version he has not seen: of two administrators
\* who previewed the same version one is refused, even where the ETag of
\* the address is "1" both before and after its first version.
PublishedOverSeen ==
    \A v \in 1 .. Current : versions[v].seen = v - 1 /\ versions[v].base = v - 1

\* Although effective_at is when a publication began and not when it became
\* visible, a later version never takes effect before an earlier one: its
\* preview was issued after the earlier one was committed.  Settlements
\* search the history by effective_at and depend on it.
EffectiveInOrder ==
    \A v, w \in 1 .. Current : v < w => versions[v].effective <= versions[w].effective

\* The moment whose version counts for reader r.
MomentOf(r) == IF reader[r].kind = "settle" THEN reader[r].paid ELSE reader[r].start

\* Whoever takes a version takes the newest one in force at his moment of
\* all that are committed when he commits, also when one was published
\* while he waited for the lock with an older snapshot; and a settlement
\* that comes late does not take a version that began after the payment.
TakesTheVersionInForce ==
    [][\A r \in Readers : reader[r].phase # "done" /\ reader'[r].phase = "done" =>
         LET rule == reader'[r].rule IN
         /\ \A w \in rule + 1 .. Current : versions[w].effective > MomentOf(r)
         /\ reader[r].kind = "settle" => versions[rule].effective <= reader[r].paid]_vars

\* "A payment takes the version of the moment the provider first succeeded":
\* the history decides, and not when the settlement happens to run.  A
\* settlement in the middle of a publication takes the version before, which
\* the history then says had ended when the money came.
RuleOfPaymentTime ==
    \A r \in Readers : reader[r].phase = "done" /\ reader[r].kind = "settle" =>
        \A w \in 1 .. Current : versions[w].effective < reader[r].paid => w <= reader[r].rule

\* The history of versions is in order: numbered without a gap by people
\* who saw the one before, effective in the order of the numbers.
HistoryInOrder == TypeOK /\ EffectiveInOrder /\ PublishedOverSeen
=============================================================================
