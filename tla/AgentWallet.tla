---------------------------- MODULE AgentWallet ----------------------------
(***************************************************************************)
(* The commission wallet of one agent: commissions that are expected,      *)
(* settled and taken back, the ledger they are booked in, withdrawals with *)
(* their review and payment by headquarters, bank accounts and proofs.     *)
(*                                                                         *)
(* Every operation is one serializable transaction that holds the locks of *)
(* the agent and of the wallet row, so each is one step.  What interleaves *)
(* are the operations, and headquarters' previews: an administrator looks  *)
(* at the impact of an action and confirms it later.                       *)
(***************************************************************************)
EXTENDS Integers, FiniteSets, FiniteSetsExt, Functions

CONSTANTS
  Commissions,   \* order item commission snapshots of the agent
  Original,      \* original commission of each of them
  Withdrawals,   \* withdrawal requests that may be made
  Accounts,      \* bank accounts the agent may register
  Files,         \* proof files
  Uploader,      \* administrator who uploaded each file
  Admins,        \* administrators of headquarters
  Minimum,       \* minimum withdrawal amount of the published rule
  MaxPreviews    \* bound on the previews administrators ask for

WalletAssumption ==
  /\ Original \in [Commissions -> Nat] /\ Uploader \in [Files -> Admins]
  /\ IsFiniteSet(Commissions) /\ IsFiniteSet(Withdrawals)
  /\ Commissions \cap Withdrawals = {}
  /\ Minimum \in Nat \ {0} /\ MaxPreviews \in Nat

VARIABLES
  wallet,      \* agent_wallet: available and frozen balance
  ledger,      \* commission_ledger: entries, unique by kind and subject
  position,    \* order_item_commission_position of each commission
  withdrawal,  \* withdrawal, with its bank snapshot and proofs
  bank,        \* agent_bank_account: NEW, ACTIVE or REPLACED
  agent,       \* status of the agent profile
  preview,     \* the preview each administrator has open
  previews     \* previews asked for so far

vars == <<wallet, ledger, position, withdrawal, bank, agent, preview, previews>>

NoPosition == [state |-> "ABSENT", expected |-> 0, reversed |-> 0]
NoWithdrawal == [status |-> "ABSENT", amount |-> 0, version |-> 0, before |-> 0,
                 frozenAfter |-> 0, bank |-> "NONE", proofs |-> {}]
NoPreview == [action |-> "NONE"]
Actions == {"APPROVE", "REJECT", "MARK_PAID"}

Init ==
  /\ wallet = [available |-> 0, frozen |-> 0]
  /\ ledger = {}
  /\ position = [c \in Commissions |-> NoPosition]
  /\ withdrawal = [w \in Withdrawals |-> NoWithdrawal]
  /\ bank = [b \in Accounts |-> "NEW"]
  /\ agent = "ACTIVE"
  /\ preview = [a \in Admins |-> NoPreview]
  /\ previews = 0

Entry(kind, subject, expected, available, frozen) ==
  [kind |-> kind, subject |-> subject, expected |-> expected,
   available |-> available, frozen |-> frozen]
Expected(S) == SumFunction([e \in S |-> e.expected])
Available(S) == SumFunction([e \in S |-> e.available])
Frozen(S) == SumFunction([e \in S |-> e.frozen])
InFlight == {w \in Withdrawals : withdrawal[w].status \in {"PENDING", "APPROVED"}}
LeftOf(c) == Original[c] - position[c].reversed

\* validateAgentCommissionLedgerClosure and lockReconciledAgentWallet.
Reconciled ==
  /\ wallet.available = Available(ledger)
  /\ wallet.frozen = Frozen(ledger) /\ wallet.frozen >= 0
  /\ Expected(ledger) = SumFunction([c \in Commissions |-> position[c].expected])
  /\ \A c \in Commissions : LET mine == {e \in ledger : e.subject[1] = c} IN
       /\ Expected(mine) = position[c].expected
       /\ Available(mine) = IF position[c].state = "AVAILABLE" THEN LeftOf(c) ELSE 0

--------------------------------
\* What the tables accept: checks and triggers that abort a transaction.

\* chk_b13_commission_ledger_shape: which balances each kind of entry moves.
EntryAllowed(e) ==
  CASE e.kind = "EXPECTED_CREATED" -> e.expected > 0 /\ e.available = 0 /\ e.frozen = 0
    [] e.kind \in {"EXPECTED_REDUCED", "EXPECTED_CANCELLED"} ->
         e.expected < 0 /\ e.available = 0 /\ e.frozen = 0
    [] e.kind = "AVAILABLE_CREDIT" -> e.expected < 0 /\ e.available = -e.expected /\ e.frozen = 0
    [] e.kind = "REFUND_DEBIT" -> e.expected = 0 /\ e.available < 0 /\ e.frozen = 0
    [] OTHER -> e.expected = 0

\* enforce_b13_commission_ledger: withdrawals are booked in full.
BookedInFull(e) ==
  LET amount == withdrawal[e.subject[1]].amount IN
  CASE e.kind = "WITHDRAWAL_FREEZE" -> e.available = -amount /\ e.frozen = amount
    [] e.kind = "WITHDRAWAL_RELEASE" -> e.available = amount /\ e.frozen = -amount
    [] e.kind = "WITHDRAWAL_PAID" -> e.available = 0 /\ e.frozen = -amount
    [] OTHER -> TRUE

\* enforce_b13_withdrawal: its lifecycle.
TransitionAllowed(old, new) ==
  \/ old = new
  \/ /\ old.status = "ABSENT" /\ new.status = "PENDING"
  \/ /\ old.status # "ABSENT" /\ new.version = old.version + 1
     /\ [new EXCEPT !.status = old.status, !.version = old.version, !.proofs = old.proofs] = old
     /\ \/ old.status = new.status
        \/ old.status = "PENDING" /\ new.status \in {"APPROVED", "REJECTED"}
        \/ old.status = "APPROVED" /\ new.status = "PAID"

\* enforce_b13_withdrawal_consistency and the envelope of the row.
WithdrawalComplete(w) ==
  LET row == withdrawal[w]
      entries(kind) == Cardinality({e \in ledger : e.kind = kind /\ e.subject[1] = w})
  IN  /\ row.amount <= row.before /\ row.frozenAfter >= row.amount
      /\ entries("WITHDRAWAL_FREEZE") = 1
      /\ entries("WITHDRAWAL_RELEASE") = IF row.status = "REJECTED" THEN 1 ELSE 0
      /\ entries("WITHDRAWAL_PAID") = IF row.status = "PAID" THEN 1 ELSE 0
      /\ row.status = "PAID" => row.proofs # {}
      /\ row.status \in {"PENDING", "REJECTED"} => row.proofs = {}

--------------------------------
\* Commissions.

Expect(c) ==
  /\ position[c].state = "ABSENT"
  /\ position' = [position EXCEPT ![c] =
       [state |-> IF Original[c] = 0 THEN "NONE" ELSE "EXPECTED", expected |-> Original[c], reversed |-> 0]]
  /\ ledger' = ledger \cup
       (IF Original[c] = 0 THEN {} ELSE {Entry("EXPECTED_CREATED", <<c, 0>>, Original[c], 0, 0)})
  /\ UNCHANGED <<wallet, withdrawal, bank, agent, preview, previews>>

Settle(c) ==
  LET amount == position[c].expected IN
  /\ position[c].state = "EXPECTED"
  /\ position' = [position EXCEPT ![c].state = "AVAILABLE", ![c].expected = 0]
  /\ ledger' = ledger \cup {Entry("AVAILABLE_CREDIT", <<c, 0>>, -amount, amount, 0)}
  /\ wallet' = [wallet EXCEPT !.available = @ + amount]
  /\ UNCHANGED <<withdrawal, bank, agent, preview, previews>>

ReverseExpected(c, amount) ==
  LET left == position[c].expected - amount IN
  /\ position[c].state = "EXPECTED" /\ left >= 0
  /\ position' = [position EXCEPT ![c] =
       [state |-> IF left = 0 THEN "CANCELLED" ELSE "EXPECTED",
        expected |-> left, reversed |-> @.reversed + amount]]
  /\ ledger' = ledger \cup {Entry(IF left = 0 THEN "EXPECTED_CANCELLED" ELSE "EXPECTED_REDUCED",
                                  <<c, position[c].reversed>>, -amount, 0, 0)}
  /\ UNCHANGED <<wallet, withdrawal, bank, agent, preview, previews>>

\* The wallet may have paid the commission out already: it goes negative.
ReverseAvailable(c, amount) ==
  /\ position[c].state = "AVAILABLE" /\ amount <= LeftOf(c)
  /\ position' = [position EXCEPT ![c].reversed = @ + amount]
  /\ ledger' = ledger \cup {Entry("REFUND_DEBIT", <<c, position[c].reversed>>, 0, -amount, 0)}
  /\ wallet' = [wallet EXCEPT !.available = @ - amount]
  /\ UNCHANGED <<withdrawal, bank, agent, preview, previews>>

--------------------------------
\* The agent.

ReplaceBankAccount(b) ==
  /\ agent = "ACTIVE"
  /\ bank[b] = "NEW"
  /\ bank' = [x \in Accounts |-> IF x = b THEN "ACTIVE"
                                 ELSE IF bank[x] = "ACTIVE" THEN "REPLACED" ELSE bank[x]]
  /\ UNCHANGED <<wallet, ledger, position, withdrawal, agent, preview, previews>>

Affordable(amount) == amount >= Minimum /\ wallet.available >= 0 /\ amount <= wallet.available

\* Mutant: a second withdrawal may be asked for while one is in flight.
CreateWithdrawalAnyway(w, amount, b) ==
  /\ agent = "ACTIVE" /\ withdrawal[w].status = "ABSENT"
  /\ Reconciled /\ bank[b] = "ACTIVE"
  /\ Affordable(amount)
  /\ withdrawal' = [withdrawal EXCEPT ![w] =
       [status |-> "PENDING", amount |-> amount, version |-> 1, before |-> wallet.available,
        frozenAfter |-> amount, bank |-> b, proofs |-> {}]]
  /\ ledger' = ledger \cup {Entry("WITHDRAWAL_FREEZE", <<w, 0>>, 0, -amount, amount)}
  /\ wallet' = [available |-> wallet.available - amount, frozen |-> amount]
  /\ UNCHANGED <<position, bank, agent, preview, previews>>

CreateWithdrawal(w, amount, b) ==
  /\ agent = "ACTIVE" /\ withdrawal[w].status = "ABSENT"
  /\ Reconciled
  /\ bank[b] = "ACTIVE"
  /\ InFlight = {}
  /\ Affordable(amount)
  /\ withdrawal' = [withdrawal EXCEPT ![w] =
       [status |-> "PENDING", amount |-> amount, version |-> 1, before |-> wallet.available,
        frozenAfter |-> wallet.frozen + amount, bank |-> b, proofs |-> {}]]
  /\ ledger' = ledger \cup {Entry("WITHDRAWAL_FREEZE", <<w, 0>>, 0, -amount, amount)}
  /\ wallet' = [available |-> wallet.available - amount, frozen |-> wallet.frozen + amount]
  /\ UNCHANGED <<position, bank, agent, preview, previews>>

DisableAgent ==
  /\ agent = "ACTIVE"
  /\ agent' = "DISABLED"
  /\ UNCHANGED <<wallet, ledger, position, withdrawal, bank, preview, previews>>

ReactivateAgent ==
  /\ agent = "DISABLED"
  /\ agent' = "ACTIVE"
  /\ UNCHANGED <<wallet, ledger, position, withdrawal, bank, preview, previews>>

--------------------------------
\* Headquarters.

UsableProof(a, w, f) ==
  /\ \A o \in Withdrawals \ {w} : f \notin withdrawal[o].proofs
  /\ f \in withdrawal[w].proofs \/ Uploader[f] = a

\* buildImpact: what the administrator is shown.
Impact(action, w, files) ==
  [action |-> action, of |-> w, version |-> withdrawal[w].version, wallet |-> wallet,
   proofs |-> IF action = "MARK_PAID" THEN withdrawal[w].proofs \cup files ELSE {}]

Reviewable(action, w) ==
  /\ Reconciled
  /\ withdrawal[w].status = IF action = "MARK_PAID" THEN "APPROVED" ELSE "PENDING"

Preview(a, action, w, files) ==
  /\ previews < MaxPreviews
  /\ Reviewable(action, w)
  /\ IF action = "MARK_PAID" THEN files # {} /\ \A f \in files : UsableProof(a, w, f) ELSE files = {}
  /\ preview' = [preview EXCEPT ![a] = Impact(action, w, files)]
  /\ previews' = previews + 1
  /\ UNCHANGED <<wallet, ledger, position, withdrawal, bank, agent>>

\* Mutant: the version of the withdrawal is compared, the balances are not.
ConfirmedByVersion(a, action, w, files) ==
  /\ preview[a] # NoPreview
  /\ preview[a].action = action /\ preview[a].of = w
  /\ preview[a].version = withdrawal[w].version

Confirmed(a, action, w, files) ==
  /\ preview[a] # NoPreview
  /\ preview[a] = Impact(action, w, files)

Closed(a) == preview' = [preview EXCEPT ![a] = NoPreview] /\ UNCHANGED previews

Approve(a, w) ==
  /\ Reviewable("APPROVE", w) /\ Confirmed(a, "APPROVE", w, {})
  /\ withdrawal' = [withdrawal EXCEPT ![w].status = "APPROVED", ![w].version = @ + 1]
  /\ Closed(a)
  /\ UNCHANGED <<wallet, ledger, position, bank, agent>>

Reject(a, w) ==
  LET amount == withdrawal[w].amount IN
  /\ Reviewable("REJECT", w) /\ Confirmed(a, "REJECT", w, {})
  /\ wallet.frozen >= amount
  /\ withdrawal' = [withdrawal EXCEPT ![w].status = "REJECTED", ![w].version = @ + 1]
  /\ ledger' = ledger \cup {Entry("WITHDRAWAL_RELEASE", <<w, 1>>, 0, amount, -amount)}
  /\ wallet' = [available |-> wallet.available + amount, frozen |-> wallet.frozen - amount]
  /\ Closed(a)
  /\ UNCHANGED <<position, bank, agent>>

AttachProofs(a, w, files) ==
  /\ Reviewable("MARK_PAID", w)
  /\ files # {} /\ \A f \in files : UsableProof(a, w, f)
  /\ ~(files \subseteq withdrawal[w].proofs)
  /\ withdrawal' = [withdrawal EXCEPT ![w].proofs = @ \cup files, ![w].version = @ + 1]
  /\ UNCHANGED <<wallet, ledger, position, bank, agent, preview, previews>>

MarkPaid(a, w, files) ==
  LET amount == withdrawal[w].amount IN
  /\ files # {}
  /\ Reviewable("MARK_PAID", w) /\ Confirmed(a, "MARK_PAID", w, files)
  /\ \A f \in files : UsableProof(a, w, f)
  /\ wallet.frozen >= amount
  /\ withdrawal' = [withdrawal EXCEPT ![w].status = "PAID", ![w].version = @ + 1,
                                      ![w].proofs = @ \cup files]
  /\ ledger' = ledger \cup {Entry("WITHDRAWAL_PAID", <<w, 1>>, 0, 0, -amount)}
  /\ wallet' = [wallet EXCEPT !.frozen = @ - amount]
  /\ Closed(a)
  /\ UNCHANGED <<position, bank, agent>>

--------------------------------
Amounts == 1..Max({Original[c] : c \in Commissions})

Earnings ==
  \E c \in Commissions :
    \/ Expect(c) \/ Settle(c)
    \/ \E amount \in Amounts : ReverseExpected(c, amount) \/ ReverseAvailable(c, amount)

Review ==
  \E a \in Admins, w \in Withdrawals :
    \/ Approve(a, w) \/ Reject(a, w)
    \/ \E files \in SUBSET Files :
         \/ \E action \in Actions : Preview(a, action, w, files)
         \/ AttachProofs(a, w, files) \/ MarkPaid(a, w, files)

Next ==
  \/ Earnings
  \/ Review
  \/ \E b \in Accounts : ReplaceBankAccount(b)
  \/ \E w \in Withdrawals, b \in Accounts :
       \E amount \in 1..(IF wallet.available > 0 THEN wallet.available + 1 ELSE 1) : CreateWithdrawal(w, amount, b)
  \/ DisableAgent \/ ReactivateAgent

Spec == Init /\ [][Next]_vars

--------------------------------
\* Every row has a value its columns allow.
TypeOK ==
  /\ wallet \in [available : Int, frozen : Nat]
  /\ \A c \in Commissions :
       /\ position[c].state \in {"ABSENT", "NONE", "EXPECTED", "AVAILABLE", "CANCELLED"}
       /\ position[c].expected + position[c].reversed <= Original[c]
  /\ \A b, o \in Accounts : bank[b] = "ACTIVE" /\ bank[o] = "ACTIVE" => b = o
  /\ agent \in {"ACTIVE", "DISABLED"}

\* The wallet is what the ledger says, and the ledger what the commissions
\* say, whichever of the refund, completion and withdrawal code wrote
\* last: otherwise the code locks the wallet with an internal error.
WalletReconciles == Reconciled

\* What is frozen is exactly the withdrawal in flight, and there is at
\* most one: a review can always be booked in full.
FrozenIsInFlight ==
  /\ Cardinality(InFlight) <= 1
  /\ \A w \in InFlight : wallet.frozen = withdrawal[w].amount
  /\ InFlight = {} => wallet.frozen = 0

\* No commission is paid out twice: what was paid, what is frozen and what
\* is available are together the settled commissions less what refunds
\* took back.
PaidWasEarned ==
  LET settled == {c \in Commissions : position[c].state = "AVAILABLE"}
      paid == {w \in Withdrawals : withdrawal[w].status = "PAID"}
  IN  SumFunction([w \in paid |-> withdrawal[w].amount]) + wallet.frozen + wallet.available
        = SumFunction([c \in settled |-> LeftOf(c)])

\* An agent gets into debt by refunds only: the balance is never more
\* negative than the settled commissions that refunds took back.
DebtIsRefunds ==
  LET debits == {e \in ledger : e.kind = "REFUND_DEBIT"}
  IN  wallet.available - Available(debits) >= 0

\* A payment proof backs one withdrawal, and every paid one has a proof.
ProofBacksOnePayment ==
  /\ \A w, o \in Withdrawals : w # o => withdrawal[w].proofs \cap withdrawal[o].proofs = {}
  /\ \A w \in Withdrawals : withdrawal[w].status = "PAID" => withdrawal[w].proofs # {}

\* No sequence of legal calls runs into the database's own guards, which
\* would abort every later operation on the wallet as well: each stored
\* row is one the checks, triggers and readers accept.
GuardsNeverFire ==
  /\ \A e \in ledger : EntryAllowed(e) /\ BookedInFull(e)
  /\ \A w \in Withdrawals : withdrawal[w].status # "ABSENT" => WithdrawalComplete(w)

\* Nor does any single review change a withdrawal in a way the triggers
\* forbid: amounts and balances it was made on stay what they were.
LifecycleRespected ==
  [][\A w \in Withdrawals : TransitionAllowed(withdrawal[w], withdrawal'[w])]_vars

\* A review is carried out on the balances and the withdrawal the
\* administrator was shown: refunds and settlements in between void it.
ReviewedAsShown ==
  [][\A w \in Withdrawals : withdrawal'[w].status \in {"APPROVED", "REJECTED", "PAID"}
                             /\ withdrawal'[w].status # withdrawal[w].status =>
       \E a \in Admins : preview[a] # NoPreview /\ preview[a].of = w /\ preview[a].wallet = wallet
                         /\ preview[a].version = withdrawal[w].version
                         /\ preview'[a] = NoPreview]_vars

\* The agent's money adds up at every moment: wallet, ledger, commissions
\* and withdrawals tell the same story, and no sequence of legal calls
\* brings the wallet where the database would refuse its next operation.
MoneyAddsUp ==
  /\ TypeOK
  /\ WalletReconciles /\ FrozenIsInFlight /\ PaidWasEarned /\ DebtIsRefunds
  /\ ProofBacksOnePayment /\ GuardsNeverFire

\* A review does what its administrator was shown, and only that.
ReviewsStand == ReviewedAsShown /\ LifecycleRespected
=============================================================================
