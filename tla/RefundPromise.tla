--------------------------- MODULE RefundPromise ---------------------------
(***************************************************************************)
(* What one ordinary refund promises to the order it belongs to: it is     *)
(* claimed, the provider answers once for each attempt, the answer is      *)
(* recorded, and only a recorded failure is tried again.                   *)
(***************************************************************************)
VARIABLES
  status,  \* status of the refund
  answer   \* what the provider answered to its current attempt

Init == status = "PENDING" /\ answer = "NOT_FOUND"

Claim == status = "PENDING" /\ status' = "PROCESSING" /\ UNCHANGED answer

Answer ==
  /\ status = "PROCESSING" /\ answer = "NOT_FOUND"
  /\ answer' \in {"SUCCEEDED", "FAILED"}
  /\ UNCHANGED status

Record ==
  /\ status = "PROCESSING" /\ answer # "NOT_FOUND"
  /\ status' = answer
  /\ answer' = IF answer = "FAILED" THEN "NOT_FOUND" ELSE answer

Retry == status = "FAILED" /\ status' = "PENDING" /\ UNCHANGED answer

Next == Claim \/ Answer \/ Record \/ Retry

Spec == Init /\ [][Next]_<<status, answer>>

--------------------------------
\* Money is given back at most once: a refund that has been answered with
\* success is neither waiting nor failed, and so is never tried again.
NeverAgain == answer = "SUCCEEDED" => status \in {"PROCESSING", "SUCCEEDED"}
=============================================================================
