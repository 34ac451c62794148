------------------------- MODULE OrderPaymentClaims -------------------------
(***************************************************************************)
(* Statements the repository's documents make about orders and payments    *)
(* that the code does not keep.  Each is violated by a run of its own; the *)
(* README tells the story of every counterexample.                         *)
(***************************************************************************)
EXTENDS OrderPaymentLiveness

\* A payment that arrives after the order expired is refunded on its own,
\* whether or not the shop had closed the order by then
\* (requirement change record, product-materials/docs, line 276).
ExpiredMoneyIsRecorded ==
  \A i \in Intents : Delivered(i) /\ provider[i].late ~> Paid(i)

\* Payment and cancellation are serialized: either the payment wins and the
\* close fails, or the close wins and the money counts as late and is
\* refunded (change record, line 464).  Never neither.
CancelledMoneyIsRecorded ==
  \A i \in Intents : Delivered(i) /\ ~provider[i].late ~> Paid(i)

\* Scheduled reconciliation finds missing callbacks and differences between
\* provider and shop and records them (MVP plan, line 346): a success the
\* shop has seen reaches the inbox.
SeenMoneyReachesInbox ==
  \A i \in Intents : intent[i].sawSuccess ~> inbox[i].status # "NONE"

\* A success observed while closing is put into the inbox, and the payment
\* path goes on to consume it (B10 report, line 148).
RecoveredMoneyIsRecorded ==
  \A i \in Intents :
    intent[i].status = "CLOSE_PENDING" /\ intent[i].sawSuccess /\ ~provider[i].late ~> Paid(i)

\* Stock is not released before the intent is known not to be payable
\* (change record, line 464): no intent of a closed order is open.
ReleasedIsNotPayable ==
  \A i \in Intents : order[OrderOf(i)].status = "CLOSED" => provider[i].state # "OPEN"
=============================================================================
