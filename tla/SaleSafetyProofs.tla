-------------------------- MODULE SaleSafetyProofs --------------------------
(***************************************************************************)
(* What OrderPayment promises about stock and money, for every number of   *)
(* orders, intents and processes.  First rows and stock: TypeOK and        *)
(* StockConserved are proved together, as stock is a natural number only   *)
(* because what is locked is what open orders hold; typing needs Fit, what *)
(* a process may be doing and rely on, and EventsAreReal, that an inbox row*)
(* is written only for an event of the provider.  On this rests that an    *)
(* order has one active intent.  Then three layers, each inductive with    *)
(* those below it: SaleAgrees, what order, intents and refund of an order  *)
(* say of each other; Refunding, what a process may know and do about a    *)
(* refund; and Witness, what a process that holds a current view has seen  *)
(* of its intent.  The last part shows that the whole implements           *)
(* SalePromise.                                                            *)
(***************************************************************************)
EXTENDS OrderPayment, OrderPaymentRefinement, FiniteSetTheorems, TLAPS

\* The rows of TypeOK: all but the stock.
Rows ==
  /\ order \in [Orders -> OrderRow]
  /\ expired \in [Orders -> BOOLEAN]
  /\ intent \in [Intents -> IntentRow]
  /\ inbox \in [Intents -> InboxRow]
  /\ refund \in [Orders -> RefundStatus]
  /\ provider \in [Intents -> ProviderRow]
  /\ returned \in [Orders -> BOOLEAN]
  /\ wire \subseteq Command
  /\ proc \in [Procs -> ProcRow]

Views == {"current", "stale", "superseded"}
Working == [pc: Pc, intent: Intents, task: Task, view: Views,
            seen: ProviderState \cup {"UNKNOWN"}]

\* A process at a step works on a task that has this step, a callback task
\* has its inbox row, and a success about to be received is the provider's.
Fit(row) ==
  row.pc # "idle" =>
    /\ row.pc = "query" => row.task \in {"CREATE", "CLOSE", "INTENT", "SETTLEMENT"}
    /\ row.pc \in {"apply", "mark"} => row.task = "CALLBACK"
    /\ row.task = "CALLBACK" => inbox[row.intent].status # "NONE"
    /\ row.pc = "requeue" => inbox[row.intent].status # "NONE"
    /\ row.pc = "receive" => provider[row.intent].state = "SUCCEEDED"
    /\ row.pc = "finalize_close" /\ row.seen = "SUCCEEDED"
         => provider[row.intent].state = "SUCCEEDED"

AllFit == \A q \in Procs : Fit(proc[q])

EventsAreReal ==
  \A i \in Intents : inbox[i].status # "NONE" => provider[i].state \in PaymentResults

\* An order not yet created holds nothing.
NothingBefore == \A o \in Orders : order[o].status = "NONE" => order[o].reservation = "NONE"

StockInv == StockConserved /\ NothingBefore
IInv == Rows /\ StockInv /\ AllFit /\ EventsAreReal

--------------------------------
\* Process rows.

LEMMA WorkingRow ==
  ASSUME Rows, NEW p \in Procs, proc[p].pc # "idle"
  PROVE  proc[p] \in Working
BY DEF Rows, ProcRow, Working, Views

LEMMA WorkingIsRow == Working \subseteq ProcRow /\ Idle \in ProcRow
BY DEF ProcRow, Working, Views, Idle

\* Rows that differ at most in their view.
SameWork(r, s) ==
  /\ r \in ProcRow
  /\ s = r \/ (r \in Working /\ \E v \in Views : s = [r EXCEPT !.view = v])

LEMMA SameWorkFacts ==
  ASSUME NEW r, NEW s, SameWork(r, s)
  PROVE  /\ s \in ProcRow
         /\ s.pc = r.pc
         /\ r \in Working => s \in Working
         /\ r.pc # "idle" =>
              s.intent = r.intent /\ s.task = r.task /\ s.seen = r.seen
BY DEF SameWork, ProcRow, Working, Views, Pc, IntentPc, RefundPc

LEMMA Bumped ==
  ASSUME Rows, NEW H, \A q \in H : proc[q].pc # "idle"
  PROVE  /\ DOMAIN StaleViews(H) = Procs
         /\ StaleViews(H) = [q \in Procs |-> StaleViews(H)[q]]
         /\ \A q \in Procs : SameWork(proc[q], StaleViews(H)[q])
<1> SUFFICES ASSUME NEW q \in Procs PROVE SameWork(proc[q], StaleViews(H)[q])
  BY DEF StaleViews
<1>1. proc[q] \in ProcRow BY DEF Rows
<1>2. CASE q \in H /\ proc[q].view = "current"
  <2>1. StaleViews(H)[q] = [proc[q] EXCEPT !.view = "stale"] BY <1>2 DEF StaleViews
  <2>2. proc[q] \in Working BY <1>2, WorkingRow
  <2> QED BY <1>1, <2>1, <2>2 DEF SameWork, Views
<1>3. CASE ~(q \in H /\ proc[q].view = "current") BY <1>1, <1>3 DEF StaleViews, SameWork
<1> QED BY <1>2, <1>3

LEMMA IntentHoldersWork ==
  ASSUME NEW i PROVE \A q \in IntentHolders(i) : proc[q].pc # "idle"
BY DEF IntentHolders, IntentPc

LEMMA RefundHoldersWork ==
  ASSUME NEW o PROVE \A q \in RefundHolders(o) : proc[q].pc # "idle"
BY DEF RefundHolders, RefundPc

\* Process p moves to a row of its own, everybody else works on.
Moves(p) ==
  /\ DOMAIN proc' = Procs
  /\ proc' = [q \in Procs |-> proc'[q]]
  /\ \A q \in Procs \ {p} : SameWork(proc[q], proc'[q])
  /\ proc'[p] \in ProcRow

LEMMA MoveTo ==
  ASSUME Rows, NEW p \in Procs, NEW row \in ProcRow, proc' = [proc EXCEPT ![p] = row]
  PROVE  Moves(p) /\ proc'[p] = row
BY DEF Rows, Moves, SameWork

LEMMA MoveToBumped ==
  ASSUME Rows, NEW p \in Procs, NEW row \in ProcRow,
         NEW H, \A q \in H : proc[q].pc # "idle",
         proc' = [StaleViews(H) EXCEPT ![p] = row]
  PROVE  Moves(p) /\ proc'[p] = row
<1>1. /\ DOMAIN StaleViews(H) = Procs
      /\ \A q \in Procs : SameWork(proc[q], StaleViews(H)[q])
  BY Bumped
<1>2. proc' = [q \in Procs |-> IF q = p THEN row ELSE StaleViews(H)[q]] BY <1>1
<1> QED BY <1>1, <1>2 DEF Moves

LEMMA ReturnMoves ==
  ASSUME Rows, NEW p \in Procs, Return(p)
  PROVE  Moves(p) /\ proc'[p] = Idle
BY MoveTo, WorkingIsRow DEF Return

LEMMA GotoMoves ==
  ASSUME Rows, NEW p \in Procs, NEW pc \in Pc, proc[p].pc # "idle", Goto(p, pc)
  PROVE  /\ Moves(p)
         /\ proc'[p] \in Working
         /\ proc'[p].pc = pc
         /\ proc'[p].intent = proc[p].intent
         /\ proc'[p].task = proc[p].task
         /\ proc'[p].seen = proc[p].seen
<1> DEFINE row == [proc[p] EXCEPT !.pc = pc]
<1>1. proc[p] \in Working BY WorkingRow
<1>2. /\ row \in Working
      /\ row.pc = pc
      /\ row.intent = proc[p].intent
      /\ row.task = proc[p].task
      /\ row.seen = proc[p].seen
  BY <1>1 DEF Working
<1>3. proc' = [proc EXCEPT ![p] = row] BY DEF Goto
<1> HIDE DEF row
<1> QED BY <1>2, <1>3, MoveTo, WorkingIsRow

BumpedGoto(H, p, pc) == proc' = [StaleViews(H) EXCEPT ![p].pc = pc]

LEMMA BumpedGotoMoves ==
  ASSUME Rows, NEW p \in Procs, NEW pc \in Pc, proc[p].pc # "idle",
         NEW H, \A q \in H : proc[q].pc # "idle",
         BumpedGoto(H, p, pc)
  PROVE  /\ Moves(p)
         /\ proc'[p] \in Working
         /\ proc'[p].pc = pc
         /\ proc'[p].intent = proc[p].intent
         /\ proc'[p].task = proc[p].task
         /\ proc'[p].seen = proc[p].seen
<1> DEFINE old == StaleViews(H)[p]
           row == [old EXCEPT !.pc = pc]
<1>1. SameWork(proc[p], old) BY Bumped
<1>2. proc[p] \in Working BY WorkingRow
<1>3. /\ old \in Working
      /\ old.intent = proc[p].intent
      /\ old.task = proc[p].task
      /\ old.seen = proc[p].seen
  BY <1>1, <1>2, SameWorkFacts
<1>5. /\ row \in Working
      /\ row.pc = pc
      /\ row.intent = proc[p].intent
      /\ row.task = proc[p].task
      /\ row.seen = proc[p].seen
  BY <1>3 DEF Working
<1>6. proc' = [StaleViews(H) EXCEPT ![p] = row] BY DEF BumpedGoto
<1> HIDE DEF old, row
<1>7. row \in ProcRow BY <1>5, WorkingIsRow
<1>8. Moves(p) /\ proc'[p] = row BY <1>6, <1>7, MoveToBumped
<1> QED BY <1>5, <1>8

LEMMA LearnMoves ==
  ASSUME Rows, NEW p \in Procs, NEW pc \in Pc \cup {"idle"}, proc[p].pc # "idle",
         NEW seen \in ProviderState \cup {"UNKNOWN"}, Learn(p, pc, seen)
  PROVE  /\ Moves(p)
         /\ proc'[p].pc = pc
         /\ pc # "idle" =>
              /\ proc'[p] \in Working
              /\ proc'[p].intent = proc[p].intent
              /\ proc'[p].task = proc[p].task
              /\ pc = "finalize_close" => proc'[p].seen = seen
<1>0. proc[p] \in Working BY WorkingRow
<1>1. CASE pc = "idle"
  <2>1. Return(p) BY <1>1 DEF Learn, Return
  <2>2. Moves(p) /\ proc'[p] = Idle BY <2>1, ReturnMoves
  <2> QED BY <1>1, <2>2 DEF Idle
<1>2. CASE pc \in {"record", "finalize_close", "finalize_refund"}
  <2> DEFINE row == [proc[p] EXCEPT !.pc = pc, !.seen = seen]
  <2>1. /\ row \in Working
        /\ row.pc = pc
        /\ row.intent = proc[p].intent
        /\ row.task = proc[p].task
        /\ row.seen = seen
    BY <1>0, <1>2 DEF Working
  <2>2. proc' = [proc EXCEPT ![p] = row] BY <1>2 DEF Learn
  <2> HIDE DEF row
  <2> QED BY <1>2, <2>1, <2>2, MoveTo, WorkingIsRow
<1>3. CASE pc \notin {"idle", "record", "finalize_close", "finalize_refund"}
  <2>1. Goto(p, pc) BY <1>3 DEF Learn, Goto
  <2> QED BY <1>3, <2>1, GotoMoves
<1> QED BY <1>1, <1>2, <1>3

--------------------------------
\* The processes that do not move stay fit, as long as inbox rows are not
\* deleted and a provider's success stands.

Grows ==
  /\ \A i \in Intents : inbox[i].status # "NONE" => inbox'[i].status # "NONE"
  /\ \A i \in Intents : provider[i].state = "SUCCEEDED" => provider'[i].state = "SUCCEEDED"

LEMMA FitStays ==
  ASSUME AllFit, Grows, Rows, NEW p \in Procs, Moves(p), Fit(proc[p])'
  PROVE  AllFit' /\ proc' \in [Procs -> ProcRow]
<1>1. ASSUME NEW q \in Procs \ {p} PROVE Fit(proc[q])' /\ proc'[q] \in ProcRow
  <2>1. SameWork(proc[q], proc'[q]) BY DEF Moves
  <2>2. /\ proc'[q] \in ProcRow
        /\ proc'[q].pc = proc[q].pc
        /\ proc[q].pc # "idle" =>
             /\ proc'[q].intent = proc[q].intent
             /\ proc'[q].task = proc[q].task
             /\ proc'[q].seen = proc[q].seen
    BY <2>1, SameWorkFacts
  <2>3. Fit(proc[q]) BY DEF AllFit
  <2>4. proc[q].pc # "idle" => proc[q].intent \in Intents BY WorkingRow DEF Working
  <2> QED BY <2>2, <2>3, <2>4 DEF Fit, Grows
<1>2. proc'[p] \in ProcRow /\ DOMAIN proc' = Procs /\ proc' = [q \in Procs |-> proc'[q]]  BY DEF Moves
<1> QED BY <1>1, <1>2 DEF AllFit

--------------------------------
\* Stock.  Whatever a step does, it does one of four things to one order.

KeepsStock ==
  /\ UNCHANGED stock
  /\ \A o \in Orders : order'[o].reservation = order[o].reservation
                      /\ order'[o].status = order[o].status

Becomes(o, status, reservation) ==
  /\ order'[o].status = status
  /\ order'[o].reservation = reservation
  /\ \A n \in Orders \ {o} : order'[n].reservation = order[n].reservation
                            /\ order'[n].status = order[n].status

ReservesStock(o) ==
  /\ order[o].status = "NONE"
  /\ locked + Qty <= physical
  /\ Becomes(o, "PENDING_PAYMENT", "ACTIVE")
  /\ locked' = locked + Qty
  /\ UNCHANGED physical

ReleasesStock(o) ==
  /\ order[o].reservation = "ACTIVE"
  /\ \E reservation \in {"RELEASED", "EXPIRED"} : Becomes(o, "CLOSED", reservation)
  /\ locked' = locked - Qty
  /\ UNCHANGED physical

SellsStock(o) ==
  /\ order[o].reservation = "ACTIVE"
  /\ Becomes(o, "PENDING_SHIPMENT", "CONSUMED")
  /\ physical' = physical - Qty
  /\ locked' = locked - Qty

StockStep ==
  \/ KeepsStock
  \/ \E o \in Orders : ReservesStock(o) \/ ReleasesStock(o) \/ SellsStock(o)

LEMMA HoldingIsFinite ==
  ASSUME NEW status
  PROVE  IsFiniteSet(Holding(status)) /\ Cardinality(Holding(status)) \in Nat
<1>1. Holding(status) \subseteq Orders BY DEF Holding
<1> QED BY <1>1, ConstantsAssumption, FS_Subset, FS_CardinalityType

\* Stock is a natural number because it is conserved.
LEMMA StockIsNatural ==
  ASSUME StockConserved PROVE physical \in Nat /\ locked \in Nat
<1>1. Cardinality(Holding("ACTIVE")) \in Nat /\ Cardinality(Holding("CONSUMED")) \in Nat  BY HoldingIsFinite
<1>2. Qty \in Nat /\ InitialStock \in Nat BY ConstantsAssumption
<1> DEFINE a == Cardinality(Holding("ACTIVE"))
           c == Cardinality(Holding("CONSUMED"))
<1>3. locked = Qty * a /\ physical = InitialStock - Qty * c /\ locked <= physical  BY DEF StockConserved
<1> HIDE DEF a, c
<1>4. Qty * a \in Nat /\ Qty * c \in Nat BY <1>1, <1>2 DEF a, c
<1> QED BY <1>2, <1>3, <1>4

LEMMA StockStepKeeps ==
  ASSUME StockInv, StockStep, ConstantsAssumption
  PROVE  StockInv'
<1> DEFINE A == Holding("ACTIVE")
           C == Holding("CONSUMED")
<1>1. IsFiniteSet(A) /\ IsFiniteSet(C) /\ Cardinality(A) \in Nat /\ Cardinality(C) \in Nat  BY HoldingIsFinite
<1>2. Qty \in Nat /\ InitialStock \in Nat /\ physical \in Nat /\ locked \in Nat
  BY StockIsNatural DEF ConstantsAssumption, StockInv
<1>3. CASE KeepsStock
  <2>1. A' = A /\ C' = C BY <1>3 DEF KeepsStock, Holding
  <2> QED BY <1>3, <2>1 DEF KeepsStock, StockInv, StockConserved, NothingBefore, stock
<1>4. ASSUME NEW o \in Orders, ReservesStock(o) PROVE StockInv'
  <2>1. order[o].reservation = "NONE" BY <1>4 DEF ReservesStock, StockInv, NothingBefore
  <2>2. A' = A \cup {o} /\ o \notin A /\ C' = C BY <1>4, <2>1 DEF ReservesStock, Becomes, Holding
  <2>3. Cardinality(A') = Cardinality(A) + 1 BY <1>1, <2>2, FS_AddElement
  <2>4. Qty * (Cardinality(A) + 1) = Qty * Cardinality(A) + Qty BY <1>1, <1>2
  <2>5. StockConserved'  BY <1>1, <1>2, <1>4, <2>2, <2>3, <2>4 DEF ReservesStock, StockInv, StockConserved
  <2>6. NothingBefore' BY <1>4 DEF ReservesStock, Becomes, StockInv, NothingBefore
  <2> QED BY <2>5, <2>6 DEF StockInv
<1>5. ASSUME NEW o \in Orders, ReleasesStock(o) PROVE StockInv'
  <2>1. A' = A \ {o} /\ o \in A /\ C' = C BY <1>5 DEF ReleasesStock, Becomes, Holding
  <2>2. Cardinality(A') = Cardinality(A) - 1 BY <1>1, <2>1, FS_RemoveElement
  <2>3. Qty * (Cardinality(A) - 1) = Qty * Cardinality(A) - Qty BY <1>1, <1>2
  <2>4. StockConserved'  BY <1>1, <1>2, <1>5, <2>1, <2>2, <2>3 DEF ReleasesStock, StockInv, StockConserved
  <2>5. NothingBefore' BY <1>5 DEF ReleasesStock, Becomes, StockInv, NothingBefore
  <2> QED BY <2>4, <2>5 DEF StockInv
<1>6. ASSUME NEW o \in Orders, SellsStock(o) PROVE StockInv'
  <2>1. A' = A \ {o} /\ o \in A /\ C' = C \cup {o} /\ o \notin C  BY <1>6 DEF SellsStock, Becomes, Holding
  <2>2. Cardinality(A') = Cardinality(A) - 1 BY <1>1, <2>1, FS_RemoveElement
  <2>3. Cardinality(C') = Cardinality(C) + 1 BY <1>1, <2>1, FS_AddElement
  <2>4. /\ Qty * (Cardinality(A) - 1) = Qty * Cardinality(A) - Qty
        /\ Qty * (Cardinality(C) + 1) = Qty * Cardinality(C) + Qty
    BY <1>1, <1>2
  <2>5. StockConserved'  BY <1>1, <1>2, <1>6, <2>2, <2>3, <2>4 DEF SellsStock, StockInv, StockConserved
  <2>6. NothingBefore' BY <1>6 DEF SellsStock, Becomes, StockInv, NothingBefore
  <2> QED BY <2>5, <2>6 DEF StockInv
<1> QED BY <1>3, <1>4, <1>5, <1>6 DEF StockStep

--------------------------------
\* Every action preserves the invariant: one lemma per component.

StepOK == Rows' /\ StockStep /\ AllFit' /\ EventsAreReal'

LEMMA StepKeeps ==
  ASSUME IInv, StepOK PROVE IInv'
BY StockStepKeeps, ConstantsAssumption DEF IInv, StepOK

\* The rows a step of p writes besides its own.
Data ==
  /\ order \in [Orders -> OrderRow]
  /\ expired \in [Orders -> BOOLEAN]
  /\ intent \in [Intents -> IntentRow]
  /\ inbox \in [Intents -> InboxRow]
  /\ refund \in [Orders -> RefundStatus]
  /\ provider \in [Intents -> ProviderRow]
  /\ returned \in [Orders -> BOOLEAN]
  /\ wire \subseteq Command

LEMMA ProcessStep ==
  ASSUME IInv, NEW p \in Procs, Moves(p), Fit(proc[p])', Data', Grows,
         EventsAreReal', StockStep
  PROVE  StepOK
BY FitStays DEF IInv, StepOK, Rows, Data

\* A step that only moves p.
LEMMA OnlyMoves ==
  ASSUME IInv, NEW p \in Procs, Moves(p), Fit(proc[p])',
         UNCHANGED <<order, expired, stock, intent, inbox, refund, outside>>
  PROVE  StepOK
<1>1. Data' /\ Grows /\ EventsAreReal' /\ StockStep
  BY DEF IInv, Rows, Data, Grows, EventsAreReal, StockStep, KeepsStock, stock, outside
<1> QED BY <1>1, ProcessStep

\* A step of the outside world: no process moves.
LEMMA WorldStep ==
  ASSUME IInv, UNCHANGED proc, Data', Grows, EventsAreReal', StockStep
  PROVE  StepOK
<1>1. AllFit'
  <2> SUFFICES ASSUME NEW q \in Procs PROVE Fit(proc[q])'
    BY DEF AllFit
  <2>1. Fit(proc[q]) BY DEF IInv, AllFit
  <2>2. proc[q].pc # "idle" => proc[q].intent \in Intents BY WorkingRow DEF IInv, Working
  <2> QED BY <2>1, <2>2 DEF Fit, Grows
<1> QED BY <1>1 DEF IInv, StepOK, Rows, Data

LEMMA ReceivedRow ==
  ASSUME NEW row \in InboxRow
  PROVE  /\ Received(row) \in InboxRow
         /\ Received(row).status # "NONE"
         /\ row.status = "NONE" => Received(row).status = "RECEIVED"
BY ConstantsAssumption DEF Received, InboxRow

LEMMA WorldSteps ==
  ASSUME IInv, World PROVE StepOK
<1>1. ASSUME NEW o \in Orders, CreateOrder(o) PROVE StepOK
  <2>1. order[o] \in OrderRow BY DEF IInv, Rows
  <2>2. order'[o] = [order[o] EXCEPT !.status = "PENDING_PAYMENT", !.reservation = "ACTIVE"]
    BY <1>1 DEF CreateOrder, IInv, Rows
  <2>3. order' \in [Orders -> OrderRow]
    BY <1>1, <2>1, <2>2 DEF CreateOrder, IInv, Rows, OrderRow, OrderStatus, ReservationStatus
  <2>4. Becomes(o, "PENDING_PAYMENT", "ACTIVE")
    BY <1>1, <2>1, <2>2 DEF CreateOrder, IInv, Rows, Becomes, OrderRow
  <2>5. StockStep BY <1>1, <2>4 DEF CreateOrder, StockStep, ReservesStock
  <2>6. Data' /\ Grows /\ EventsAreReal'
    BY <1>1, <2>3 DEF CreateOrder, IInv, Rows, Data, Grows, EventsAreReal, outside
  <2> QED BY <1>1, <2>5, <2>6, WorldStep DEF CreateOrder
<1>2. ASSUME NEW o \in Orders, ExpiryPasses(o) PROVE StepOK
  <2>1. Data' /\ Grows /\ EventsAreReal' /\ StockStep
    BY <1>2 DEF ExpiryPasses, IInv, Rows, Data, Grows, EventsAreReal, outside, StockStep, KeepsStock
  <2> QED BY <1>2, <2>1, WorldStep DEF ExpiryPasses
<1>3. ASSUME NEW i \in Intents, NEW result \in PaymentResults, SubmitResult(i, result)
      PROVE  StepOK
  <2>1. provider' \in [Intents -> ProviderRow]
    BY <1>3 DEF SubmitResult, IInv, Rows, ProviderRow, ProviderState, PaymentResults, OrderOf, Intents
  <2>2. Grows BY <1>3 DEF SubmitResult, IInv, Rows, Grows
  <2>3. EventsAreReal' BY <1>3 DEF SubmitResult, IInv, Rows, EventsAreReal, PaymentResults
  <2>4. Data' /\ StockStep BY <1>3, <2>1 DEF SubmitResult, IInv, Rows, Data, StockStep, KeepsStock
  <2> QED BY <1>3, <2>2, <2>3, <2>4, WorldStep DEF SubmitResult
<1>4. ASSUME NEW i \in Intents, DeliverResult(i) PROVE StepOK
  <2>1. inbox' \in [Intents -> InboxRow] /\ inbox'[i].status = "RECEIVED"
    BY <1>4, ReceivedRow DEF DeliverResult, IInv, Rows
  <2>2. Grows /\ EventsAreReal'
    BY <1>4, <2>1 DEF DeliverResult, IInv, Rows, Grows, EventsAreReal, PaymentResults, outside
  <2>3. Data' /\ StockStep  BY <1>4, <2>1 DEF DeliverResult, IInv, Rows, Data, StockStep, KeepsStock, outside
  <2> QED BY <1>4, <2>2, <2>3, WorldStep DEF DeliverResult
<1>5. ASSUME AbandonedCommandRuns PROVE StepOK
  <2>1. PICK c \in wire : AbandonedCommandRuns!(c) BY <1>5 DEF AbandonedCommandRuns
  <2>2. c[2] \in Intents /\ OrderOf(c[2]) \in Orders BY DEF IInv, Rows, Command, OrderOf, Intents
  <2>3. /\ provider' \in [Intents -> ProviderRow]
        /\ returned' \in [Orders -> BOOLEAN]
        /\ \A i \in Intents : provider[i].state \in PaymentResults =>
              provider'[i].state = provider[i].state
    <3>1. provider[c[2]] \in ProviderRow BY <2>2 DEF IInv, Rows
    <3>2. ASSUME NEW state \in {AfterCreate(provider[c[2]].state), AfterClose(provider[c[2]].state)},
                 provider' = [provider EXCEPT ![c[2]].state = state]
          PROVE  /\ provider' \in [Intents -> ProviderRow]
                 /\ \A i \in Intents : provider[i].state \in PaymentResults =>
                       provider'[i].state = provider[i].state
      BY <2>2, <3>1, <3>2 DEF IInv, Rows, AfterCreate, AfterClose, ProviderRow, ProviderState,
         PaymentResults
    <3>3. CASE UNCHANGED returned
      <4>1. returned' \in [Orders -> BOOLEAN] BY <3>3 DEF IInv, Rows
      <4>2. provider' = [provider EXCEPT ![c[2]].state = AfterCreate(@)]
            \/ provider' = [provider EXCEPT ![c[2]].state = AfterClose(@)]
            \/ UNCHANGED provider
        BY <2>1
      <4> QED BY <3>2, <4>1, <4>2 DEF IInv, Rows
    <3>4. CASE returned' = [returned EXCEPT ![OrderOf(c[2])] = TRUE] /\ UNCHANGED provider
      BY <2>2, <3>4 DEF IInv, Rows
    <3> QED BY <2>1, <3>3, <3>4
  <2>4. Data' /\ StockStep /\ Grows /\ EventsAreReal'
    BY <2>1, <2>3 DEF IInv, Rows, Data, StockStep, KeepsStock, Grows, EventsAreReal, PaymentResults
  <2> QED BY <2>1, <2>4, WorldStep
<1> QED BY <1>1, <1>2, <1>3, <1>4, <1>5 DEF World

--------------------------------
\* The provider.

LEMMA FitOf ==
  ASSUME IInv, NEW p \in Procs, proc[p].pc # "idle"
  PROVE  /\ Fit(proc[p])
         /\ proc[p] \in Working
         /\ proc[p].intent \in Intents
         /\ OrderOf(proc[p].intent) \in Orders
         /\ provider[proc[p].intent] \in ProviderRow
         /\ intent[proc[p].intent] \in IntentRow
         /\ inbox[proc[p].intent] \in InboxRow
         /\ order[OrderOf(proc[p].intent)] \in OrderRow
<1>1. proc[p] \in Working BY WorkingRow DEF IInv
<1>2. proc[p].intent \in Intents /\ OrderOf(proc[p].intent) \in Orders  BY <1>1 DEF Working, Intents, OrderOf
<1> QED BY <1>1, <1>2 DEF IInv, AllFit, Rows

LEMMA ProviderAnswers ==
  ASSUME NEW state \in ProviderState
  PROVE  /\ AfterCreate(state) \in ProviderState
         /\ AfterClose(state) \in ProviderState
         /\ state \in PaymentResults => AfterCreate(state) = state /\ AfterClose(state) = state
BY DEF AfterCreate, AfterClose, ProviderState, PaymentResults

LEMMA QueryStep ==
  ASSUME IInv, NEW p \in Procs, QueryProvider(p) PROVE StepOK
<1> DEFINE i == proc[p].intent
           seen == provider[i].state
           pc == AfterQuery(proc[p].task, seen)
<1>1. proc[p].pc = "query" BY DEF QueryProvider
<1>2. Fit(proc[p]) /\ i \in Intents /\ provider[i] \in ProviderRow BY <1>1, FitOf
<1>3. proc[p].task \in {"CREATE", "CLOSE", "INTENT", "SETTLEMENT"} /\ seen \in ProviderState
  BY <1>1, <1>2 DEF Fit, ProviderRow
<1>4. /\ pc \in Pc \cup {"idle"}
      /\ pc \notin {"query", "apply", "mark", "requeue"}
      /\ pc = "receive" => seen = "SUCCEEDED"
  BY <1>3 DEF AfterQuery, Pc, IntentPc
<1>5. Learn(p, pc, seen)
      /\ UNCHANGED <<order, expired, stock, intent, inbox, refund, outside>>
  BY DEF QueryProvider
<1> HIDE DEF pc, seen
<1>6. /\ Moves(p)
      /\ proc'[p].pc = pc
      /\ pc # "idle" =>
           /\ proc'[p].intent = i
           /\ proc'[p].task = proc[p].task
           /\ pc = "finalize_close" => proc'[p].seen = seen
  BY <1>1, <1>3, <1>4, <1>5, LearnMoves DEF IInv
<1>7. Fit(proc[p])' BY <1>3, <1>4, <1>5, <1>6 DEF Fit, outside, seen
<1> QED BY <1>5, <1>6, <1>7, OnlyMoves

\* A create or close call: the provider moves, the caller learns the state.
LEMMA CommandStep ==
  ASSUME IInv, NEW p \in Procs, proc[p].pc \in {"create", "close"},
         NEW state \in {AfterCreate(provider[proc[p].intent].state),
                        AfterClose(provider[proc[p].intent].state)},
         NEW pc \in {"record", "finalize_close"},
         provider' = [provider EXCEPT ![proc[p].intent].state = state],
         Learn(p, pc, state),
         UNCHANGED <<order, expired, stock, intent, inbox, refund, returned, wire>>
  PROVE  StepOK
<1> DEFINE i == proc[p].intent
<1>1. Fit(proc[p]) /\ i \in Intents /\ provider[i] \in ProviderRow BY FitOf
<1>2. /\ state \in ProviderState
      /\ provider[i].state \in PaymentResults => state = provider[i].state
  BY <1>1, ProviderAnswers DEF ProviderRow
<1>3. /\ provider' \in [Intents -> ProviderRow]
      /\ provider'[i].state = state
      /\ \A j \in Intents : provider[j].state \in PaymentResults =>
            provider'[j].state = provider[j].state
  BY <1>1, <1>2 DEF IInv, Rows, ProviderRow
<1>4. /\ Moves(p)
      /\ proc'[p].pc = pc
      /\ proc'[p].intent = i
      /\ proc'[p].task = proc[p].task
      /\ pc = "finalize_close" => proc'[p].seen = state
  BY <1>2, LearnMoves DEF IInv, Pc, IntentPc
<1>5. Fit(proc[p])' BY <1>1, <1>3, <1>4 DEF Fit
<1>6. Data' /\ Grows /\ EventsAreReal' /\ StockStep
  BY <1>3 DEF IInv, Rows, Data, Grows, EventsAreReal, PaymentResults, StockStep, KeepsStock
<1> QED BY <1>4, <1>5, <1>6, ProcessStep

LEMMA RefundStep ==
  ASSUME IInv, NEW p \in Procs, RefundAtProvider(p) PROVE StepOK
<1>1. proc[p].pc = "refund" BY DEF RefundAtProvider
<1>2. Fit(proc[p]) /\ OrderOf(proc[p].intent) \in Orders BY <1>1, FitOf
<1>3. /\ Moves(p)
      /\ proc'[p].pc = "finalize_refund"
      /\ proc'[p].intent = proc[p].intent
      /\ proc'[p].task = proc[p].task
  BY <1>1, LearnMoves DEF RefundAtProvider, IInv, Pc, RefundPc, ProviderState
<1>4. Fit(proc[p])' BY <1>1, <1>2, <1>3 DEF Fit, RefundAtProvider
<1>5. Data' /\ Grows /\ EventsAreReal' /\ StockStep
  BY <1>2 DEF RefundAtProvider, IInv, Rows, Data, Grows, EventsAreReal, StockStep, KeepsStock
<1> QED BY <1>3, <1>4, <1>5, ProcessStep

LEMMA LostCallStep ==
  ASSUME IInv, NEW p \in Procs, CallTimesOut(p) PROVE StepOK
<1> DEFINE i == proc[p].intent
<1>1. proc[p].pc \in {"query", "create", "close", "refund"} BY DEF CallTimesOut
<1>2. Fit(proc[p]) /\ i \in Intents BY <1>1, FitOf
<1>3. PICK pc \in {"record", "finalize_close", "finalize_refund", "idle"} :
        Learn(p, pc, "UNKNOWN")
  <2>1. CASE proc[p].pc = "query"
    <3>1. proc[p].task \in {"CREATE", "CLOSE", "INTENT", "SETTLEMENT"} BY <1>2, <2>1 DEF Fit
    <3>2. AfterQuery(proc[p].task, "UNKNOWN") \in {"record", "finalize_close", "idle"}  BY <3>1 DEF AfterQuery
    <3> QED BY <2>1, <3>2 DEF CallTimesOut
  <2> QED BY <1>1, <2>1 DEF CallTimesOut
<1>4. /\ Moves(p)
      /\ proc'[p].pc = pc
      /\ pc # "idle" =>
           /\ proc'[p].intent = i
           /\ proc'[p].task = proc[p].task
           /\ pc = "finalize_close" => proc'[p].seen = "UNKNOWN"
  BY <1>1, <1>3, LearnMoves DEF IInv, Pc, IntentPc, RefundPc
<1>5. UNCHANGED <<order, expired, stock, intent, inbox, refund, provider, returned>>
      /\ wire' \subseteq Command
  BY <1>2 DEF CallTimesOut, IInv, Rows, Command
<1>6. Fit(proc[p])' BY <1>1, <1>2, <1>4, <1>5 DEF Fit
<1>7. Data' /\ Grows /\ EventsAreReal' /\ StockStep
  BY <1>5 DEF IInv, Rows, Data, Grows, EventsAreReal, StockStep, KeepsStock
<1> QED BY <1>4, <1>6, <1>7, ProcessStep

--------------------------------
\* Orders.

LEMMA CloseLocked ==
  ASSUME IInv, NEW o \in Orders, NEW mode \in CloseMode \cup {"NONE"},
         order[o].reservation = "ACTIVE", CloseLockedOrder(o, mode)
  PROVE  order' \in [Orders -> OrderRow] /\ StockStep
<1>1. order[o] \in OrderRow BY DEF IInv, Rows
<1> DEFINE reservation == IF mode = "PAYMENT_TIMEOUT" THEN "EXPIRED" ELSE "RELEASED"
<1>2. /\ ClosedRow(order[o], mode) \in OrderRow
      /\ ClosedRow(order[o], mode).status = "CLOSED"
      /\ ClosedRow(order[o], mode).reservation = reservation
  BY <1>1 DEF ClosedRow, OrderRow, OrderStatus, PaymentStatus, ReservationStatus, CloseMode
<1>3. order' = [order EXCEPT ![o] = ClosedRow(order[o], mode)] BY DEF CloseLockedOrder
<1>4. order' \in [Orders -> OrderRow] /\ Becomes(o, "CLOSED", reservation)
  BY <1>2, <1>3 DEF IInv, Rows, Becomes
<1>5. reservation \in {"RELEASED", "EXPIRED"}
  OBVIOUS
<1>6. ReleasesStock(o) BY <1>4, <1>5 DEF CloseLockedOrder, ReleasesStock
<1> QED BY <1>4, <1>6 DEF StockStep

LEMMA DoingRow ==
  ASSUME NEW i \in Intents, NEW pc \in Pc, NEW task \in Task
  PROVE  /\ Doing(i, pc, task) \in Working
         /\ Doing(i, pc, task) \in ProcRow
         /\ Doing(i, pc, task).pc = pc
         /\ Doing(i, pc, task).intent = i
         /\ Doing(i, pc, task).task = task
         /\ Doing(i, pc, task).seen = "UNKNOWN"
<1>1. Doing(i, pc, task) \in Working BY DEF Doing, Working, Views
<1> QED BY <1>1, WorkingIsRow DEF Doing

Starts(p, i, pc, task) == proc' = [proc EXCEPT ![p] = Doing(i, pc, task)]

LEMMA MoveToDoing ==
  ASSUME Rows, NEW p \in Procs, NEW i \in Intents, NEW pc \in Pc, NEW task \in Task,
         Starts(p, i, pc, task)
  PROVE  /\ Moves(p)
         /\ proc'[p].pc = pc
         /\ proc'[p].intent = i
         /\ proc'[p].task = task
         /\ proc'[p].seen = "UNKNOWN"
<1> DEFINE row == Doing(i, pc, task)
<1>1. row \in ProcRow BY DoingRow
<1>2. row.pc = pc /\ row.intent = i /\ row.task = task /\ row.seen = "UNKNOWN" BY DoingRow
<1> HIDE DEF row
<1>3. Moves(p) /\ proc'[p] = row BY <1>1, MoveTo DEF row, Starts
<1> QED BY <1>2, <1>3

LEMMA ClaimStep ==
  ASSUME IInv, NEW p \in Procs, NEW o \in Orders, NEW mode \in CloseMode,
         ClaimOrderClose(p, o, mode)
  PROVE  StepOK
<1>1. ASSUME NEW i \in ActiveOf(o),
             intent' = [intent EXCEPT ![i] = ClaimRow(@, mode)],
             proc' = [(IF intent[i].status = "CLOSE_PENDING" THEN proc ELSE IntentBumped(i))
                       EXCEPT ![p] = Doing(i, IF intent[i].located THEN "close" ELSE "query", "CLOSE")],
             UNCHANGED <<order, stock>>
      PROVE  StepOK
  <2> DEFINE pc == IF intent[i].located THEN "close" ELSE "query"
             row == Doing(i, pc, "CLOSE")
  <2>1. i \in Intents /\ intent[i] \in IntentRow BY DEF ActiveOf, IntentsOf, Intents, IInv, Rows
  <2>2. /\ row \in ProcRow
        /\ row.pc \in {"close", "query"} /\ row.task = "CLOSE"
    BY <2>1, DoingRow DEF Pc, IntentPc, Task
  <2>3. Moves(p) /\ proc'[p] = row
    <3> HIDE DEF row
    <3>1. CASE intent[i].status = "CLOSE_PENDING"
      <4>1. proc' = [proc EXCEPT ![p] = row] BY <1>1, <3>1 DEF row
      <4> QED BY <2>2, <4>1, MoveTo DEF IInv
    <3>2. CASE intent[i].status # "CLOSE_PENDING"
      <4>1. proc' = [StaleViews(IntentHolders(i)) EXCEPT ![p] = row]  BY <1>1, <3>2 DEF row, IntentBumped
      <4>2. \A q \in IntentHolders(i) : proc[q].pc # "idle" BY IntentHoldersWork
      <4> QED BY <2>2, <4>1, <4>2, MoveToBumped DEF IInv
    <3> QED BY <3>1, <3>2
  <2>4. Fit(proc[p])'
    <3> HIDE DEF row
    <3> QED BY <2>2, <2>3 DEF Fit
  <2>5. intent' \in [Intents -> IntentRow]
    <3>1. ClaimRow(intent[i], mode) \in IntentRow  BY <2>1 DEF ClaimRow, IntentRow, IntentStatus, Active
    <3> QED BY <1>1, <2>1, <3>1 DEF IInv, Rows
  <2>6. Data' /\ Grows /\ EventsAreReal' /\ StockStep
    BY <1>1, <2>5 DEF ClaimOrderClose, IInv, Rows, Data, Grows, EventsAreReal, StockStep, KeepsStock,
       outside
  <2> QED BY <2>3, <2>4, <2>6, ProcessStep
<1>2. ASSUME OpenForPayment(o), CloseLockedOrder(o, mode), UNCHANGED <<intent, proc>>
      PROVE  StepOK
  <2>1. order' \in [Orders -> OrderRow] /\ StockStep BY <1>2, CloseLocked DEF OpenForPayment
  <2>2. Data' /\ Grows /\ EventsAreReal'
    BY <1>2, <2>1 DEF ClaimOrderClose, IInv, Rows, Data, Grows, EventsAreReal, outside
  <2> QED BY <1>2, <2>1, <2>2, WorldStep
<1> QED BY <1>1, <1>2 DEF ClaimOrderClose

LEMMA ExpireStep ==
  ASSUME IInv, NEW p \in Procs, NEW o \in Orders, ExpireNextOrder(p, o)
  PROVE  StepOK
<1>1. order' \in [Orders -> OrderRow] /\ StockStep
  BY CloseLocked DEF ExpireNextOrder, Closable, OpenForPayment, CloseMode
<1>2. Data' /\ Grows /\ EventsAreReal'
  BY <1>1 DEF ExpireNextOrder, IInv, Rows, Data, Grows, EventsAreReal, outside
<1> QED BY <1>1, <1>2, WorldStep DEF ExpireNextOrder

LEMMA FinalizeFactsRow ==
  ASSUME NEW row \in IntentRow, NEW seen \in ProviderState \cup {"UNKNOWN"}
  PROVE  /\ FinalizeFacts(row, seen) \in IntentRow
         /\ FinalizeFacts(row, seen).status = row.status
         /\ FinalizeFacts(row, seen).closeRequest = row.closeRequest
         /\ FinalizeFacts(row, seen).attempt = row.attempt
BY DEF FinalizeFacts, IntentRow

LEMMA FinalizeCloseStep ==
  ASSUME IInv, NEW p \in Procs, FinalizeOrderClose(p) PROVE StepOK
<1> DEFINE i == proc[p].intent
           o == OrderOf(i)
           seen == proc[p].seen
<1>1. proc[p].pc = "finalize_close" BY DEF FinalizeOrderClose
<1>2. /\ Fit(proc[p]) /\ i \in Intents /\ o \in Orders /\ intent[i] \in IntentRow
      /\ inbox[i] \in InboxRow
      /\ seen \in ProviderState \cup {"UNKNOWN"}
  BY <1>1, FitOf DEF Working
<1>3. /\ FinalizeFacts(intent[i], seen) \in IntentRow
      /\ FinalizeFacts(intent[i], seen).status = intent[i].status
  BY <1>2, FinalizeFactsRow
<1>4. ASSUME KeepPending(p, i), UNCHANGED <<expired, refund, outside>> PROVE StepOK
  <2>1. PICK next \in {Doing(i, "requeue", "CLOSE"), Idle} :
          /\ proc' = [StaleViews(IntentHolders(i)) EXCEPT ![p] = next]
          /\ next = Doing(i, "requeue", "CLOSE") => seen = "SUCCEEDED"
    BY <1>4 DEF KeepPending, IntentBumped, Doing, Idle
  <2>2. next \in ProcRow /\ (next.pc # "idle" => next.pc = "requeue" /\ next.intent = i /\ next.task = "CLOSE"
                                 /\ seen = "SUCCEEDED")
    BY <1>2, <2>1, DoingRow, WorkingIsRow DEF Pc, Task, Idle
  <2>3. Moves(p) /\ proc'[p] = next BY <2>1, <2>2, MoveToBumped, IntentHoldersWork DEF IInv
  <2>4. /\ intent' = [intent EXCEPT ![i] = FinalizeFacts(intent[i], seen)]
        /\ intent' \in [Intents -> IntentRow]
    BY <1>2, <1>3, <1>4 DEF KeepPending, IInv, Rows
  <2>5. /\ inbox' \in [Intents -> InboxRow]
        /\ seen = "SUCCEEDED" => inbox'[i].status # "NONE"
        /\ seen # "SUCCEEDED" => inbox' = inbox
        /\ \A j \in Intents \ {i} : inbox'[j] = inbox[j]
        /\ inbox[i].status # "NONE" => inbox'[i].status # "NONE"
    BY <1>2, <1>4, ReceivedRow DEF KeepPending, Received, IInv, Rows
  <2>6. Fit(proc[p])' BY <2>2, <2>3, <2>5 DEF Fit
  <2>7. seen = "SUCCEEDED" => provider[i].state = "SUCCEEDED" BY <1>1, <1>2 DEF Fit
  <2>8. Data' /\ Grows /\ EventsAreReal' /\ StockStep
    BY <1>2, <1>4, <2>4, <2>5, <2>7 DEF KeepPending, IInv, Rows, Data, Grows, EventsAreReal, StockStep,
       KeepsStock, outside, PaymentResults
  <2> QED BY <2>3, <2>6, <2>8, ProcessStep
<1>5. ASSUME FinishClose(p, i), CanFinalize(p, i), UNCHANGED <<expired, refund, outside>>
      PROVE  StepOK
  <2> DEFINE mode == intent[i].closeRequest
             target == CloseTarget(seen, mode)
  <2>1. mode \in CloseMode \cup {"NONE"} /\ order[o].reservation = "ACTIVE"
    BY <1>2, <1>5 DEF FinishClose, CanFinalize, Closable, OpenForPayment, IntentRow
  <2>2. order' \in [Orders -> OrderRow] /\ StockStep  BY <1>2, <1>5, <2>1, CloseLocked DEF FinishClose
  <2>3. target \in Terminal  BY <1>2, <1>5 DEF FinishClose, CloseTarget, StillOpen, ProviderState, Terminal
  <2>4. intent' \in [Intents -> IntentRow]
    <3> HIDE DEF target
    <3>1. [FinalizeFacts(intent[i], seen) EXCEPT !.status = target] \in IntentRow
      BY <1>3, <2>3 DEF IntentRow, IntentStatus
    <3>2. intent' = [intent EXCEPT ![i] = [FinalizeFacts(intent[i], seen) EXCEPT !.status = target]]
      BY <1>5 DEF FinishClose, target
    <3> QED BY <1>2, <3>1, <3>2 DEF IInv, Rows
  <2>5. Moves(p) /\ proc'[p] = Idle
    BY <1>5, MoveToBumped, IntentHoldersWork, WorkingIsRow DEF FinishClose, IntentBumped, IInv
  <2>6. Fit(proc[p])' BY <2>5 DEF Fit, Idle
  <2>7. Data' /\ Grows /\ EventsAreReal'
    BY <1>5, <2>2, <2>4 DEF FinishClose, IInv, Rows, Data, Grows, EventsAreReal, outside
  <2> QED BY <2>2, <2>5, <2>6, <2>7, ProcessStep
<1>6. ASSUME Return(p), UNCHANGED <<order, stock, intent, inbox, expired, refund, outside>>
      PROVE  StepOK
  <2>1. Moves(p) /\ proc'[p] = Idle BY <1>6, ReturnMoves DEF IInv
  <2>2. Fit(proc[p])' BY <2>1 DEF Fit, Idle
  <2> QED BY <1>6, <2>1, <2>2, OnlyMoves
<1> QED BY <1>4, <1>5, <1>6 DEF FinalizeOrderClose

--------------------------------
\* Payment intents.

LEMMA PrepareStep ==
  ASSUME IInv, NEW p \in Procs, NEW o \in Orders, PreparePaymentIntent(p, o)
  PROVE  StepOK
<1>1. ASSUME NEW i \in ActiveOf(o), proc' = [proc EXCEPT ![p] = Doing(i, "query", "CREATE")],
             UNCHANGED intent
      PROVE  StepOK
  <2>1. i \in Intents BY DEF ActiveOf, IntentsOf, Intents
  <2>2. Moves(p) /\ proc'[p].pc = "query" /\ proc'[p].task = "CREATE"
    BY <1>1, <2>1, MoveToDoing DEF Starts, IInv, Pc, IntentPc, Task
  <2>3. Fit(proc[p])' BY <2>2 DEF Fit
  <2> QED BY <1>1, <2>2, <2>3, OnlyMoves DEF PreparePaymentIntent
<1>2. ASSUME NEW i \in IntentsOf(o), intent' = [intent EXCEPT ![i].status = "CREATING"],
             proc' = [proc EXCEPT ![p] = Doing(i, "create", "CREATE")]
      PROVE  StepOK
  <2>1. i \in Intents BY DEF IntentsOf, Intents
  <2>2. Moves(p) /\ proc'[p].pc = "create" /\ proc'[p].task = "CREATE"
    BY <1>2, <2>1, MoveToDoing DEF Starts, IInv, Pc, IntentPc, Task
  <2>3. Fit(proc[p])' BY <2>2 DEF Fit
  <2>4. intent' \in [Intents -> IntentRow]  BY <1>2, <2>1 DEF IInv, Rows, IntentRow, IntentStatus, Active
  <2>5. Data' /\ Grows /\ EventsAreReal' /\ StockStep
    BY <2>4 DEF PreparePaymentIntent, IInv, Rows, Data, Grows, EventsAreReal, StockStep, KeepsStock, outside
  <2> QED BY <2>2, <2>3, <2>5, ProcessStep
<1> QED BY <1>1, <1>2 DEF PreparePaymentIntent

LEMMA GotoStep ==
  ASSUME IInv, NEW p \in Procs, proc[p].pc # "idle",
         NEW pc \in {"create", "mark"}, pc = "mark" => proc[p].task = "CALLBACK",
         Goto(p, pc), UNCHANGED <<order, expired, stock, intent, inbox, refund, outside>>
  PROVE  StepOK
<1>1. /\ Moves(p)
      /\ proc'[p].pc = pc
      /\ proc'[p].intent = proc[p].intent
      /\ proc'[p].task = proc[p].task
  BY GotoMoves DEF IInv, Pc, IntentPc
<1>2. Fit(proc[p])' BY <1>1, FitOf DEF Fit
<1> QED BY <1>1, <1>2, OnlyMoves

LEMMA ReturnStep ==
  ASSUME IInv, NEW p \in Procs, Return(p),
         UNCHANGED <<order, expired, stock, intent, inbox, refund, outside>>
  PROVE  StepOK
<1>1. Moves(p) /\ proc'[p] = Idle BY ReturnMoves DEF IInv
<1>2. Fit(proc[p])' BY <1>1 DEF Fit, Idle
<1> QED BY <1>1, <1>2, OnlyMoves

LEMMA RevalidateStep ==
  ASSUME IInv, NEW p \in Procs, RevalidateProviderCreate(p) PROVE StepOK
<1>1. proc[p].pc = "revalidate" /\ (Goto(p, "create") \/ Return(p)) BY DEF RevalidateProviderCreate
<1>2. UNCHANGED <<order, expired, stock, intent, inbox, refund, outside>>  BY DEF RevalidateProviderCreate
<1> QED BY <1>1, <1>2, GotoStep, ReturnStep

\* What is recorded is well typed; an intent never becomes active again.
LEMMA Recorded ==
  ASSUME NEW row \in IntentRow, NEW p, NEW seen \in ProviderState \cup {"UNKNOWN"}
  PROVE  LET kind == OutcomeKind(p, seen)
             new == RecordedRow(row, kind, seen)
         IN  /\ new \in IntentRow
             /\ new.status \in Terminal \cup {"OPEN", row.status}
             /\ \A payment \in PaymentStatus : RecordedPayment(payment, kind) \in PaymentStatus
<1> DEFINE kind == OutcomeKind(p, seen)
           new == RecordedRow(row, kind, seen)
<1>1. kind \in {"OPEN", "TERMINAL", "UNKNOWN"} /\ (kind = "TERMINAL" => FinalStatus(seen) \in Terminal)
  BY DEF OutcomeKind, FinalStatus, Terminal
<1>2. \A payment \in PaymentStatus : RecordedPayment(payment, kind) \in PaymentStatus
  <2> HIDE DEF kind
  <2> QED BY <1>1 DEF RecordedPayment, PaymentStatus
<1>3. CASE kind = "OPEN"
  <2> DEFINE status == IF row.status = "CLOSE_PENDING" THEN row.status ELSE "OPEN"
  <2>1. new = [row EXCEPT !.status = status, !.located = TRUE, !.sawSuccess = FALSE]
    <3> HIDE DEF kind
    <3> QED BY <1>3 DEF RecordedRow, IntentRow
  <2>2. status \in IntentStatus /\ status \in {"OPEN", row.status}  BY DEF IntentStatus, Active, IntentRow
  <2> HIDE DEF new, status
  <2> QED BY <1>2, <2>1, <2>2 DEF IntentRow, new
<1>4. CASE kind = "TERMINAL"
  <2> DEFINE status == FinalStatus(seen)
             located == row.located \/ seen # "NOT_FOUND"
  <2>1. new = [row EXCEPT !.status = status, !.located = located, !.sawSuccess = FALSE]
    <3> HIDE DEF kind
    <3> QED BY <1>4 DEF RecordedRow, IntentRow
  <2>2. status \in IntentStatus /\ status \in Terminal /\ located \in BOOLEAN  BY <1>1, <1>4 DEF IntentStatus
  <2> HIDE DEF new, status, located
  <2> QED BY <1>2, <2>1, <2>2 DEF IntentRow, new
<1>5. CASE kind = "UNKNOWN"
  <2>1. new = [row EXCEPT !.sawSuccess = (seen = "SUCCEEDED")]
    <3> HIDE DEF kind
    <3> QED BY <1>5 DEF RecordedRow
  <2> HIDE DEF new
  <2> QED BY <1>2, <2>1 DEF IntentRow, new
<1> QED BY <1>1, <1>3, <1>4, <1>5

\* A write to the payment side of an order leaves its stock alone.
LEMMA OrderPaymentWrite ==
  ASSUME IInv, NEW o \in Orders, NEW payment \in PaymentStatus, NEW resolution \in Resolution,
         order' = [order EXCEPT ![o].payment = payment, ![o].resolution = resolution],
         UNCHANGED stock
  PROVE  order' \in [Orders -> OrderRow] /\ StockStep
<1>1. order[o] \in OrderRow BY DEF IInv, Rows
<1> DEFINE row == [order[o] EXCEPT !.payment = payment, !.resolution = resolution]
<1>2. /\ row \in OrderRow
      /\ row.status = order[o].status
      /\ row.reservation = order[o].reservation
  BY <1>1 DEF OrderRow
<1>3. order' = [order EXCEPT ![o] = row]
  OBVIOUS
<1> HIDE DEF row
<1>4. order' \in [Orders -> OrderRow] /\ KeepsStock BY <1>2, <1>3 DEF IInv, Rows, KeepsStock
<1> QED BY <1>4 DEF StockStep

LEMMA SameResolution ==
  ASSUME IInv, NEW o \in Orders, NEW payment
  PROVE  [order EXCEPT ![o].payment = payment] =
           [order EXCEPT ![o].payment = payment, ![o].resolution = order[o].resolution]
<1>1. order[o] \in OrderRow BY DEF IInv, Rows
<1>2. [order[o] EXCEPT !.payment = payment] =
        [order[o] EXCEPT !.payment = payment, !.resolution = order[o].resolution]
  BY <1>1 DEF OrderRow
<1> QED BY <1>2 DEF IInv, Rows

LEMMA RecordStep ==
  ASSUME IInv, NEW p \in Procs, RecordProviderOutcome(p) PROVE StepOK
<1> DEFINE i == proc[p].intent
           o == OrderOf(i)
           seen == proc[p].seen
           kind == OutcomeKind(p, seen)
<1>1. proc[p].pc = "record" BY DEF RecordProviderOutcome
<1>2. /\ i \in Intents /\ o \in Orders /\ intent[i] \in IntentRow /\ order[o] \in OrderRow
      /\ seen \in ProviderState \cup {"UNKNOWN"}
  BY <1>1, FitOf DEF Working
<1>3. CASE CanRecord(p, i, kind, seen)
  <2> DEFINE new == RecordedRow(intent[i], kind, seen)
             payment == RecordedPayment(order[o].payment, kind)
  <2>1. new \in IntentRow /\ payment \in PaymentStatus BY <1>2, Recorded DEF OrderRow
  <2>2. /\ intent' = [intent EXCEPT ![i] = new]
        /\ order' = [order EXCEPT ![o].payment = payment]
        /\ proc' = [StaleViews(IntentHolders(i)) EXCEPT ![p] = Idle]
        /\ UNCHANGED <<expired, stock, inbox, refund, outside>>
    BY <1>3 DEF RecordProviderOutcome, IntentBumped
  <2> HIDE DEF new, payment
  <2>3. \A q \in IntentHolders(i) : proc[q].pc # "idle" BY IntentHoldersWork
  <2>4. Moves(p) /\ proc'[p] = Idle BY <2>2, <2>3, MoveToBumped, WorkingIsRow DEF IInv
  <2>5. Fit(proc[p])' BY <2>4 DEF Fit, Idle
  <2>6. order[o].resolution \in Resolution BY <1>2 DEF OrderRow
  <2>7. order' = [order EXCEPT ![o].payment = payment, ![o].resolution = order[o].resolution]
    BY <1>2, <2>2, SameResolution
  <2>8. order' \in [Orders -> OrderRow] /\ StockStep
    BY <1>2, <2>1, <2>2, <2>6, <2>7, OrderPaymentWrite DEF stock
  <2>9. Data' /\ Grows /\ EventsAreReal'
    BY <1>2, <2>1, <2>2, <2>8 DEF IInv, Rows, Data, Grows, EventsAreReal, outside
  <2> QED BY <2>4, <2>5, <2>8, <2>9, ProcessStep
<1>4. CASE ~CanRecord(p, i, kind, seen) BY <1>4, ReturnStep DEF RecordProviderOutcome
<1> QED BY <1>3, <1>4

--------------------------------
\* Callbacks.

LEMMA TakeStep ==
  ASSUME IInv, NEW p \in Procs, NEW i \in Intents, TakeCallback(p, i) PROVE StepOK
<1>0. "apply" \in Pc /\ "CALLBACK" \in Task /\ Rows /\ Starts(p, i, "apply", "CALLBACK")
  BY DEF IInv, Pc, Task, TakeCallback, Starts
<1>1. Moves(p) /\ proc'[p].pc = "apply" /\ proc'[p].task = "CALLBACK" /\ proc'[p].intent = i
  BY <1>0, MoveToDoing
<1>2. inbox'[i].status # "NONE" BY DEF TakeCallback
<1>3. Fit(proc[p])' BY <1>1, <1>2 DEF Fit
<1> QED BY <1>1, <1>3, OnlyMoves DEF TakeCallback

\* Writing a row that exists already keeps the inbox sound.
LEMMA InboxWrite ==
  ASSUME IInv, NEW i \in Intents, NEW row \in InboxRow, row.status # "NONE",
         provider[i].state \in PaymentResults,
         inbox' = [inbox EXCEPT ![i] = row], UNCHANGED provider
  PROVE  inbox' \in [Intents -> InboxRow] /\ Grows /\ EventsAreReal' /\ inbox'[i].status # "NONE"
BY DEF IInv, Rows, Grows, EventsAreReal

LEMMA FailedRowType ==
  ASSUME NEW row \in InboxRow
  PROVE  FailedRow(row) \in InboxRow /\ FailedRow(row).status # "NONE"
<1>1. row.retries \in 0..MaxRetries /\ MaxRetries \in Nat BY ConstantsAssumption DEF InboxRow
<1>2. FailedRow(row).retries \in 0..MaxRetries BY <1>1 DEF FailedRow
<1>3. FailedRow(row).status \in {"FAILED", "RECEIVED"} BY DEF FailedRow
<1>4. FailedRow(row) = [status |-> FailedRow(row).status, retries |-> FailedRow(row).retries]
  BY DEF FailedRow
<1> HIDE DEF FailedRow
<1> QED BY <1>2, <1>3, <1>4 DEF InboxRow

LEMMA HandlerFailsStep ==
  ASSUME IInv, NEW p \in Procs, proc[p].pc # "idle", HandlerFails(p),
         UNCHANGED <<order, expired, stock, intent, refund, outside>>
  PROVE  StepOK
<1> DEFINE i == proc[p].intent
<1>1. Fit(proc[p]) /\ i \in Intents /\ inbox[i] \in InboxRow BY FitOf
<1>2. Moves(p) /\ proc'[p] = Idle BY ReturnMoves DEF HandlerFails, IInv
<1>3. Fit(proc[p])' BY <1>2 DEF Fit, Idle
<1>4. CASE proc[p].task = "CALLBACK" /\ inbox[i].status # "PROCESSED"
  <2>1. inbox' = [inbox EXCEPT ![i] = FailedRow(inbox[i])] BY <1>4 DEF HandlerFails
  <2>2. provider[i].state \in PaymentResults BY <1>1, <1>4 DEF Fit, IInv, EventsAreReal
  <2>3. inbox' \in [Intents -> InboxRow] /\ Grows /\ EventsAreReal'
    BY <1>1, <2>1, <2>2, FailedRowType, InboxWrite DEF outside
  <2>4. Data' /\ StockStep BY <2>3 DEF IInv, Rows, Data, StockStep, KeepsStock, outside
  <2> QED BY <1>2, <1>3, <2>3, <2>4, ProcessStep
<1>5. CASE ~(proc[p].task = "CALLBACK" /\ inbox[i].status # "PROCESSED")
  <2>1. UNCHANGED inbox BY <1>1, <1>5 DEF HandlerFails, IInv, Rows
  <2> QED BY <1>2, <1>3, <2>1, OnlyMoves
<1> QED BY <1>4, <1>5

LEMMA MarkStep ==
  ASSUME IInv, NEW p \in Procs, MarkProcessed(p) PROVE StepOK
<1> DEFINE i == proc[p].intent
<1>1. proc[p].pc = "mark" BY DEF MarkProcessed
<1>2. Fit(proc[p]) /\ i \in Intents /\ inbox[i] \in InboxRow BY <1>1, FitOf
<1>3. provider[i].state \in PaymentResults BY <1>1, <1>2 DEF Fit, IInv, EventsAreReal
<1> DEFINE row == [inbox[i] EXCEPT !.status = "PROCESSED"]
<1>4. row \in InboxRow /\ row.status # "NONE" BY <1>2 DEF InboxRow
<1>5. inbox' = [inbox EXCEPT ![i] = row] BY DEF MarkProcessed
<1> HIDE DEF row
<1>6. inbox' \in [Intents -> InboxRow] /\ Grows /\ EventsAreReal'
  BY <1>2, <1>3, <1>4, <1>5, InboxWrite DEF MarkProcessed, outside
<1>7. Moves(p) /\ proc'[p] = Idle BY ReturnMoves DEF MarkProcessed, IInv
<1>8. Fit(proc[p])' BY <1>7 DEF Fit, Idle
<1>9. Data' /\ StockStep  BY <1>6 DEF MarkProcessed, IInv, Rows, Data, StockStep, KeepsStock, outside
<1> QED BY <1>6, <1>7, <1>8, <1>9, ProcessStep

\* A step of the handler that goes on to the mark, or to the refund.
LEMMA HandlerStep ==
  ASSUME IInv, NEW p \in Procs, proc[p].pc = "apply",
         Moves(p), proc'[p].pc \in {"mark", "claim_refund"},
         proc'[p].task = "CALLBACK", proc'[p].intent = proc[p].intent,
         order' \in [Orders -> OrderRow], intent' \in [Intents -> IntentRow],
         refund' \in [Orders -> RefundStatus], StockStep,
         UNCHANGED <<inbox, expired, outside>>
  PROVE  StepOK
<1>1. Fit(proc[p]) BY FitOf
<1>2. inbox[proc[p].intent].status # "NONE" BY <1>1 DEF Fit
<1>3. Fit(proc[p])' BY <1>2 DEF Fit
<1>4. Data' /\ Grows /\ EventsAreReal' BY DEF IInv, Rows, Data, Grows, EventsAreReal, outside
<1> QED BY <1>3, <1>4, ProcessStep

\* An event the handler applies is one the provider has produced.
LEMMA AppliedEvent ==
  ASSUME IInv, NEW p \in Procs, proc[p].pc = "apply"
  PROVE  /\ provider[proc[p].intent].state \in PaymentResults
         /\ proc[p].task = "CALLBACK"
<1>1. Fit(proc[p]) /\ proc[p].intent \in Intents BY FitOf
<1> QED BY <1>1 DEF Fit, IInv, EventsAreReal

LEMMA PaidRowType ==
  ASSUME NEW row \in IntentRow, NEW attempt \in {"SUCCEEDED", "SUCCEEDED_LATE"}
  PROVE  PaidRow(row, attempt) \in IntentRow
BY DEF PaidRow, IntentRow, IntentStatus

LEMMA BumpedToMark ==
  ASSUME Rows, NEW p \in Procs, proc[p].pc # "idle", NEW i,
         proc' = [IntentBumped(i) EXCEPT ![p].pc = "mark"]
  PROVE  /\ Moves(p)
         /\ proc'[p].pc = "mark"
         /\ proc'[p].intent = proc[p].intent
         /\ proc'[p].task = proc[p].task
<1>1. \A q \in IntentHolders(i) : proc[q].pc # "idle" BY IntentHoldersWork
<1>2. BumpedGoto(IntentHolders(i), p, "mark") BY DEF IntentBumped, BumpedGoto
<1>3. "mark" \in Pc BY DEF Pc
<1> QED BY <1>1, <1>2, <1>3, BumpedGotoMoves

LEMMA FailureStep ==
  ASSUME IInv, NEW p \in Procs, proc[p].pc = "apply",
         provider[proc[p].intent].state # "SUCCEEDED",
         FailureEvent(p, proc[p].intent, provider[proc[p].intent].state),
         UNCHANGED <<expired, outside>>
  PROVE  StepOK
<1> DEFINE i == proc[p].intent
           o == OrderOf(i)
           result == provider[i].state
<1>1. result \in {"FAILED", "CANCELLED"} /\ proc[p].task = "CALLBACK"  BY AppliedEvent DEF PaymentResults
<1>2. i \in Intents /\ o \in Orders /\ intent[i] \in IntentRow /\ order[o] \in OrderRow BY FitOf
<1> HIDE DEF result
<1>3. ASSUME intent' = [intent EXCEPT ![i].attempt = result], Goto(p, "mark"),
             UNCHANGED <<order, stock, inbox, refund>>
      PROVE  StepOK
  <2>1. intent' \in [Intents -> IntentRow] BY <1>1, <1>2, <1>3 DEF IInv, Rows, IntentRow
  <2>2. /\ Moves(p) /\ proc'[p].pc = "mark" /\ proc'[p].task = "CALLBACK"
        /\ proc'[p].intent = i
    BY <1>1, <1>3, GotoMoves DEF IInv, Pc
  <2>3. /\ order' \in [Orders -> OrderRow] /\ refund' \in [Orders -> RefundStatus] /\ StockStep
    BY <1>3 DEF IInv, Rows, StockStep, KeepsStock
  <2> QED BY <1>3, <2>1, <2>2, <2>3, HandlerStep
<1>4. ASSUME intent' = [intent EXCEPT ![i].status = result, ![i].attempt = result,
                                      ![i].sawSuccess = FALSE],
             order' = [order EXCEPT ![o].payment = "UNPAID"],
             proc' = [IntentBumped(i) EXCEPT ![p].pc = "mark"],
             UNCHANGED <<stock, inbox, refund>>
      PROVE  StepOK
  <2>1. intent' \in [Intents -> IntentRow]
    BY <1>1, <1>2, <1>4 DEF IInv, Rows, IntentRow, IntentStatus, Terminal
  <2>2. /\ Moves(p) /\ proc'[p].pc = "mark" /\ proc'[p].task = "CALLBACK"
        /\ proc'[p].intent = i
    BY <1>1, <1>4, BumpedToMark DEF IInv
  <2>3. /\ order[o].resolution \in Resolution
        /\ order' = [order EXCEPT ![o].payment = "UNPAID", ![o].resolution = order[o].resolution]
    BY <1>2, <1>4, SameResolution DEF OrderRow
  <2>4. "UNPAID" \in PaymentStatus BY DEF PaymentStatus
  <2>5. order' \in [Orders -> OrderRow] /\ StockStep  BY <1>2, <1>4, <2>3, <2>4, OrderPaymentWrite DEF stock
  <2>6. refund' \in [Orders -> RefundStatus] BY <1>4 DEF IInv, Rows
  <2> QED BY <1>4, <2>1, <2>2, <2>5, <2>6, HandlerStep
<1> QED BY <1>3, <1>4 DEF FailureEvent, result

LEMMA LateSuccessStep ==
  ASSUME IInv, NEW p \in Procs, proc[p].pc = "apply", LateSuccess(p, proc[p].intent),
         UNCHANGED <<expired, outside>>
  PROVE  StepOK
<1> DEFINE i == proc[p].intent
           o == OrderOf(i)
           row == Doing(i, "claim_refund", "CALLBACK")
<1>1. i \in Intents /\ o \in Orders /\ intent[i] \in IntentRow /\ order[o] \in OrderRow BY FitOf
<1>2. row \in ProcRow /\ row.pc = "claim_refund" /\ row.intent = i /\ row.task = "CALLBACK"
  BY <1>1, DoingRow DEF Pc, RefundPc, Task
<1>3. proc' = [StaleViews(IntentHolders(i)) EXCEPT ![p] = row] BY DEF LateSuccess, IntentBumped
<1> HIDE DEF row
<1>4. \A q \in IntentHolders(i) : proc[q].pc # "idle" BY IntentHoldersWork
<1>5. Moves(p) /\ proc'[p] = row BY <1>2, <1>3, <1>4, MoveToBumped DEF IInv
<1>6. "PAID" \in PaymentStatus /\ "LATE_SUCCESS_REFUND_PENDING" \in Resolution
  BY DEF PaymentStatus, Resolution
<1>7. order' \in [Orders -> OrderRow] /\ StockStep  BY <1>1, <1>6, OrderPaymentWrite DEF LateSuccess, stock
<1>8. intent' \in [Intents -> IntentRow] /\ refund' \in [Orders -> RefundStatus]
  BY <1>1, PaidRowType DEF LateSuccess, IInv, Rows, RefundStatus
<1>9. UNCHANGED inbox BY DEF LateSuccess
<1> QED BY <1>2, <1>5, <1>7, <1>8, <1>9, HandlerStep

LEMMA ReplayStep ==
  ASSUME IInv, NEW p \in Procs, proc[p].pc = "apply",
         LateReplay(p, proc[p].intent) \/ SettledReplay(p, proc[p].intent),
         UNCHANGED <<expired, outside>>
  PROVE  StepOK
<1> DEFINE i == proc[p].intent
<1>1. i \in Intents /\ proc[p].task = "CALLBACK" BY FitOf, AppliedEvent
<1>2. UNCHANGED <<order, stock, intent, inbox, refund>> BY DEF LateReplay, SettledReplay
<1>3. CASE proc' = [proc EXCEPT ![p] = Doing(i, "claim_refund", "CALLBACK")]
  <2>1. /\ "claim_refund" \in Pc /\ "CALLBACK" \in Task /\ Rows
        /\ Starts(p, i, "claim_refund", "CALLBACK")
    BY <1>3 DEF Pc, RefundPc, Task, IInv, Starts
  <2>2. /\ Moves(p) /\ proc'[p].pc = "claim_refund" /\ proc'[p].task = "CALLBACK"
        /\ proc'[p].intent = i
    BY <1>1, <2>1, MoveToDoing
  <2>3. order' \in [Orders -> OrderRow] /\ intent' \in [Intents -> IntentRow]
        /\ refund' \in [Orders -> RefundStatus] /\ StockStep
    BY <1>2 DEF IInv, Rows, StockStep, KeepsStock
  <2> QED BY <1>2, <2>2, <2>3, HandlerStep
<1>4. CASE Goto(p, "mark")
  <2>1. UNCHANGED <<order, expired, stock, intent, inbox, refund, outside>> BY <1>2
  <2> QED BY <1>1, <1>4, <2>1, GotoStep
<1> QED BY <1>3, <1>4 DEF LateReplay, SettledReplay

LEMMA SettleStep ==
  ASSUME IInv, NEW p \in Procs, proc[p].pc = "apply", Settle(p, proc[p].intent),
         UNCHANGED <<expired, outside>>
  PROVE  StepOK
<1> DEFINE i == proc[p].intent
           o == OrderOf(i)
<1>1. i \in Intents /\ o \in Orders /\ intent[i] \in IntentRow /\ order[o] \in OrderRow
      /\ proc[p].task = "CALLBACK"
  BY FitOf, AppliedEvent
<1>2. /\ Moves(p) /\ proc'[p].pc = "mark" /\ proc'[p].task = "CALLBACK"
      /\ proc'[p].intent = i
  <2>1. CASE Payable(i)
    <3>1. proc' = [IntentBumped(i) EXCEPT ![p].pc = "mark"] BY <2>1 DEF Settle
    <3> QED BY <1>1, <3>1, BumpedToMark DEF IInv
  <2>2. CASE ~Payable(i)
    <3>1. Goto(p, "mark") BY <2>2 DEF Settle, Goto
    <3>2. "mark" \in Pc BY DEF Pc
    <3> QED BY <1>1, <3>1, <3>2, GotoMoves DEF IInv
  <2> QED BY <2>1, <2>2
<1> DEFINE row == [order[o] EXCEPT !.status = "PENDING_SHIPMENT", !.payment = "PAID",
                                   !.resolution = "NORMAL", !.reservation = "CONSUMED"]
<1>3. /\ row \in OrderRow
      /\ row.status = "PENDING_SHIPMENT"
      /\ row.reservation = "CONSUMED"
  BY <1>1 DEF OrderRow, OrderStatus, PaymentStatus, Resolution, ReservationStatus
<1>4. order' = [order EXCEPT ![o] = row] BY DEF Settle
<1> HIDE DEF row
<1>5. order' \in [Orders -> OrderRow] /\ Becomes(o, "PENDING_SHIPMENT", "CONSUMED")
  BY <1>1, <1>3, <1>4 DEF IInv, Rows, Becomes
<1>6. SellsStock(o) BY <1>5 DEF Settle, SellsStock
<1>7. StockStep BY <1>1, <1>6 DEF StockStep
<1>8. intent' \in [Intents -> IntentRow] /\ refund' \in [Orders -> RefundStatus]
      /\ UNCHANGED inbox
  BY <1>1, PaidRowType DEF Settle, IInv, Rows
<1> QED BY <1>2, <1>5, <1>7, <1>8, HandlerStep

LEMMA ManualStep ==
  ASSUME IInv, NEW p \in Procs, proc[p].pc = "apply", WaitForManual(p, proc[p].intent),
         UNCHANGED <<expired, outside>>
  PROVE  StepOK
<1> DEFINE i == proc[p].intent
           o == OrderOf(i)
<1>1. i \in Intents /\ o \in Orders /\ intent[i] \in IntentRow /\ proc[p].task = "CALLBACK"
  BY FitOf, AppliedEvent
<1>2. /\ Moves(p) /\ proc'[p].pc = "mark" /\ proc'[p].task = "CALLBACK"
      /\ proc'[p].intent = i
  BY <1>1, BumpedToMark DEF WaitForManual, IInv
<1>3. "PAID" \in PaymentStatus /\ "MANUAL_REQUIRED" \in Resolution BY DEF PaymentStatus, Resolution
<1>4. order' \in [Orders -> OrderRow] /\ StockStep  BY <1>1, <1>3, OrderPaymentWrite DEF WaitForManual, stock
<1>5. intent' \in [Intents -> IntentRow] /\ refund' \in [Orders -> RefundStatus]
      /\ UNCHANGED inbox
  BY <1>1, PaidRowType DEF WaitForManual, IInv, Rows
<1> QED BY <1>2, <1>4, <1>5, HandlerStep

LEMMA ApplyStep ==
  ASSUME IInv, NEW p \in Procs, ApplyPaymentCallback(p) PROVE StepOK
<1> DEFINE i == proc[p].intent
<1>1. proc[p].pc = "apply" /\ UNCHANGED <<expired, outside>> BY DEF ApplyPaymentCallback
<1>2. CASE HandlerFails(p) /\ UNCHANGED <<order, stock, intent, refund>>  BY <1>1, <1>2, HandlerFailsStep
<1>3. CASE SuccessEvent(p, i)
  BY <1>1, <1>3, LateSuccessStep, ReplayStep, SettleStep, ManualStep DEF SuccessEvent
<1>4. CASE provider[i].state # "SUCCEEDED" /\ FailureEvent(p, i, provider[i].state)
  BY <1>1, <1>4, FailureStep
<1> QED BY <1>2, <1>3, <1>4 DEF ApplyPaymentCallback

--------------------------------
\* Late refunds.

\* A refund step of p, for the callback worker or for an administrator: it
\* may write refund and resolution, and stays on its task or is through.
LEMMA RefundWrite ==
  ASSUME IInv, NEW p \in Procs, proc[p].pc # "idle", Moves(p),
         proc'[p].pc \in RefundPc \cup {"mark", "idle"},
         proc'[p].pc # "idle" => proc'[p].intent = proc[p].intent,
         proc'[p].pc \in RefundPc => proc'[p].task \in {proc[p].task, "LATE_REFUND"},
         proc'[p].pc = "mark" => proc[p].task = "CALLBACK" /\ proc'[p].task = "CALLBACK",
         order' \in [Orders -> OrderRow], refund' \in [Orders -> RefundStatus], StockStep,
         UNCHANGED <<expired, intent, inbox, outside>>
  PROVE  StepOK
<1>1. Fit(proc[p]) BY FitOf
<1>2. Fit(proc[p])' BY <1>1 DEF Fit, RefundPc
<1>3. Data' /\ Grows /\ EventsAreReal' BY DEF IInv, Rows, Data, Grows, EventsAreReal, outside
<1> QED BY <1>2, <1>3, ProcessStep

LEMMA AfterRefundRow ==
  ASSUME IInv, NEW p \in Procs, proc[p].pc # "idle"
  PROVE  /\ AfterRefund(p) \in ProcRow
         /\ AfterRefund(p).pc \in {"mark", "idle"}
         /\ AfterRefund(p).pc = "mark" =>
              /\ AfterRefund(p).intent = proc[p].intent
              /\ proc[p].task = "CALLBACK"
              /\ AfterRefund(p).task = "CALLBACK"
<1>1. proc[p].intent \in Intents /\ "mark" \in Pc /\ "CALLBACK" \in Task BY FitOf DEF Pc, Task
<1>2. CASE proc[p].task = "CALLBACK" BY <1>1, <1>2, DoingRow DEF AfterRefund
<1>3. CASE proc[p].task # "CALLBACK" BY <1>3, WorkingIsRow DEF AfterRefund, Idle
<1> QED BY <1>2, <1>3

LEMMA DoneStep ==
  ASSUME IInv, NEW p \in Procs, proc[p].pc # "idle", Done(p),
         UNCHANGED <<order, expired, stock, intent, inbox, refund, outside>>
  PROVE  StepOK
<1> DEFINE row == AfterRefund(p)
<1>1. /\ row \in ProcRow
      /\ row.pc \in {"mark", "idle"}
      /\ row.pc = "mark" =>
           row.intent = proc[p].intent /\ proc[p].task = "CALLBACK" /\ row.task = "CALLBACK"
  BY AfterRefundRow
<1>2. proc' = [proc EXCEPT ![p] = row] BY DEF Done
<1> HIDE DEF row
<1>3. Moves(p) /\ proc'[p] = row BY <1>1, <1>2, MoveTo DEF IInv
<1>4. order' \in [Orders -> OrderRow] /\ refund' \in [Orders -> RefundStatus] /\ StockStep
  BY DEF IInv, Rows, StockStep, KeepsStock
<1> QED BY <1>1, <1>3, <1>4, RefundWrite DEF RefundPc

LEMMA ClaimRefundStep ==
  ASSUME IInv, NEW p \in Procs, ClaimLateRefund(p) PROVE StepOK
<1> DEFINE o == OrderOf(proc[p].intent)
<1>1. proc[p].pc = "claim_refund" /\ UNCHANGED <<order, expired, stock, intent, outside>>
  BY DEF ClaimLateRefund
<1>2. o \in Orders /\ proc[p] \in Working BY <1>1, FitOf
<1>3. order' \in [Orders -> OrderRow] /\ StockStep BY <1>1 DEF IInv, Rows, StockStep, KeepsStock
<1>4. CASE Done(p) /\ UNCHANGED <<inbox, refund>> BY <1>1, <1>4, DoneStep
<1>5. CASE /\ refund' = [refund EXCEPT ![o] = "PROCESSING"]
           /\ proc' = [RefundBumped(o) EXCEPT ![p] = [proc[p] EXCEPT !.pc = "refund"]]
           /\ UNCHANGED inbox
  <2> DEFINE row == [proc[p] EXCEPT !.pc = "refund"]
  <2>1. row \in Working /\ row.pc = "refund" /\ row.intent = proc[p].intent /\ row.task = proc[p].task
    BY <1>2 DEF Working, Pc, RefundPc
  <2>2. proc' = [StaleViews(RefundHolders(o)) EXCEPT ![p] = row] BY <1>5 DEF RefundBumped
  <2> HIDE DEF row
  <2>3. \A q \in RefundHolders(o) : proc[q].pc # "idle" BY RefundHoldersWork
  <2>4. row \in ProcRow BY <2>1, WorkingIsRow
  <2>5. Moves(p) /\ proc'[p] = row BY <2>2, <2>3, <2>4, MoveToBumped DEF IInv
  <2>6. refund' \in [Orders -> RefundStatus] BY <1>2, <1>5 DEF IInv, Rows, RefundStatus
  <2> QED BY <1>1, <1>3, <1>5, <2>1, <2>5, <2>6, RefundWrite DEF RefundPc
<1>6. CASE Goto(p, "refund") /\ UNCHANGED <<inbox, refund>>
  <2>1. "refund" \in Pc BY DEF Pc, RefundPc
  <2>2. /\ Moves(p) /\ proc'[p].pc = "refund" /\ proc'[p].intent = proc[p].intent
        /\ proc'[p].task = proc[p].task
    BY <1>1, <1>6, <2>1, GotoMoves DEF IInv
  <2>3. refund' \in [Orders -> RefundStatus] BY <1>6 DEF IInv, Rows
  <2> QED BY <1>1, <1>3, <1>6, <2>2, <2>3, RefundWrite DEF RefundPc
<1>7. CASE HandlerFails(p) /\ UNCHANGED refund BY <1>1, <1>7, HandlerFailsStep
<1> QED BY <1>4, <1>5, <1>6, <1>7 DEF ClaimLateRefund

LEMMA SamePayment ==
  ASSUME IInv, NEW o \in Orders, NEW resolution
  PROVE  /\ order[o].payment \in PaymentStatus
         /\ [order EXCEPT ![o].resolution = resolution] =
               [order EXCEPT ![o].payment = order[o].payment, ![o].resolution = resolution]
<1>1. order[o] \in OrderRow BY DEF IInv, Rows
<1>2. [order[o] EXCEPT !.resolution = resolution] =
        [order[o] EXCEPT !.payment = order[o].payment, !.resolution = resolution]
  BY <1>1 DEF OrderRow
<1> QED BY <1>1, <1>2 DEF IInv, Rows, OrderRow

LEMMA FinalizeRefundStep ==
  ASSUME IInv, NEW p \in Procs, FinalizeLateRefund(p) PROVE StepOK
<1> DEFINE o == OrderOf(proc[p].intent)
           outcome == RefundOutcome(proc[p].seen)
           resolution == IF outcome = "SUCCEEDED" THEN "LATE_SUCCESS_REFUNDED" ELSE "MANUAL_REQUIRED"
<1>1. proc[p].pc = "finalize_refund" /\ UNCHANGED <<expired, stock, intent, outside>>
  BY DEF FinalizeLateRefund
<1>2. o \in Orders BY <1>1, FitOf
<1>3. CASE Done(p) /\ UNCHANGED <<order, inbox, refund>> BY <1>1, <1>3, DoneStep
<1>4. CASE /\ refund' = [refund EXCEPT ![o] = outcome]
           /\ order' = [order EXCEPT ![o].resolution = resolution]
           /\ proc' = [RefundBumped(o) EXCEPT ![p] = AfterRefund(p)]
           /\ UNCHANGED inbox
  <2> DEFINE row == AfterRefund(p)
  <2>1. /\ row \in ProcRow
        /\ row.pc \in {"mark", "idle"}
        /\ row.pc = "mark" =>
             row.intent = proc[p].intent /\ proc[p].task = "CALLBACK" /\ row.task = "CALLBACK"
    BY <1>1, AfterRefundRow
  <2>2. proc' = [StaleViews(RefundHolders(o)) EXCEPT ![p] = row] BY <1>4 DEF RefundBumped
  <2> HIDE DEF row
  <2>3. \A q \in RefundHolders(o) : proc[q].pc # "idle" BY RefundHoldersWork
  <2>4. Moves(p) /\ proc'[p] = row BY <2>1, <2>2, <2>3, MoveToBumped DEF IInv
  <2>5. outcome \in RefundStatus BY DEF RefundOutcome, RefundStatus
  <2>6. resolution \in Resolution BY DEF Resolution
  <2> HIDE DEF outcome, resolution
  <2>7. refund' \in [Orders -> RefundStatus] BY <1>2, <1>4, <2>5 DEF IInv, Rows
  <2>8. /\ order[o].payment \in PaymentStatus
        /\ order' = [order EXCEPT ![o].payment = order[o].payment, ![o].resolution = resolution]
    BY <1>2, <1>4, SamePayment
  <2>9. order' \in [Orders -> OrderRow] /\ StockStep  BY <1>1, <1>2, <2>6, <2>8, OrderPaymentWrite DEF stock
  <2> QED BY <1>1, <1>4, <2>1, <2>4, <2>7, <2>9, RefundWrite DEF RefundPc
<1>5. CASE HandlerFails(p) /\ UNCHANGED <<order, refund>> BY <1>1, <1>5, HandlerFailsStep
<1> QED BY <1>3, <1>4, <1>5 DEF FinalizeLateRefund

LEMMA RetryRefundStep ==
  ASSUME IInv, NEW p \in Procs, RetryLateRefund(p) PROVE StepOK
<1> DEFINE i == proc[p].intent
           o == OrderOf(i)
<1>1. proc[p].pc = "retry_refund" /\ UNCHANGED <<expired, stock, intent, inbox, outside>>
  BY DEF RetryLateRefund
<1>2. i \in Intents /\ o \in Orders BY <1>1, FitOf
<1>3. CASE refund[o] = "FAILED"
  <2> DEFINE row == Doing(i, "claim_refund", "LATE_REFUND")
  <2>1. row \in ProcRow /\ row.pc = "claim_refund" /\ row.intent = i /\ row.task = "LATE_REFUND"
    BY <1>2, DoingRow DEF Pc, RefundPc, Task
  <2>2. proc' = [q \in Procs |->
                  IF q = p THEN row
                  ELSE IF proc[q].pc \in RefundPc /\ OrderOf(proc[q].intent) = o
                  THEN [proc[q] EXCEPT !.view = "superseded"] ELSE proc[q]]
    BY <1>3 DEF RetryLateRefund
  <2> HIDE DEF row
  <2>3. ASSUME NEW q \in Procs \ {p} PROVE SameWork(proc[q], proc'[q])
    <3>1. proc[q] \in ProcRow BY DEF IInv, Rows
    <3>2. CASE proc[q].pc \in RefundPc /\ OrderOf(proc[q].intent) = o
      <4>1. proc[q] \in Working BY <3>2, WorkingRow DEF IInv, RefundPc
      <4>2. proc'[q] = [proc[q] EXCEPT !.view = "superseded"] BY <2>2, <3>2
      <4> QED BY <3>1, <4>1, <4>2 DEF SameWork, Views
    <3>3. CASE ~(proc[q].pc \in RefundPc /\ OrderOf(proc[q].intent) = o)  BY <2>2, <3>1, <3>3 DEF SameWork
    <3> QED BY <3>2, <3>3
  <2>4. proc'[p] = row BY <2>2
  <2>5. DOMAIN proc' = Procs /\ proc' = [q \in Procs |-> proc'[q]] BY <2>2
  <2>6. Moves(p) BY <2>1, <2>3, <2>4, <2>5 DEF Moves
  <2>7. refund' \in [Orders -> RefundStatus]  BY <1>2, <1>3 DEF RetryLateRefund, IInv, Rows, RefundStatus
  <2>8. "LATE_SUCCESS_REFUND_PENDING" \in Resolution BY DEF Resolution
  <2>9. /\ order[o].payment \in PaymentStatus
        /\ order' = [order EXCEPT ![o].payment = order[o].payment,
                                   ![o].resolution = "LATE_SUCCESS_REFUND_PENDING"]
    BY <1>2, <1>3, SamePayment DEF RetryLateRefund
  <2>10. order' \in [Orders -> OrderRow] /\ StockStep  BY <1>1, <1>2, <2>8, <2>9, OrderPaymentWrite DEF stock
  <2> QED BY <1>1, <2>1, <2>4, <2>6, <2>7, <2>10, RefundWrite DEF RefundPc
<1>4. CASE refund[o] # "FAILED" BY <1>1, <1>4, ReturnStep DEF RetryLateRefund
<1> QED BY <1>3, <1>4

--------------------------------
\* Reconciliation.

LEMMA ReconcileStep ==
  ASSUME IInv, NEW p \in Procs, NEW i \in Intents, StartReconciliation(p, i)
  PROVE  StepOK
<1>1. PICK pc \in {"claim_refund", "retry_refund", "query", "repair"},
           task \in {"LATE_REFUND", "CLOSE", "INTENT", "SETTLEMENT"} :
        /\ Starts(p, i, pc, task)
        /\ pc = "query" => task # "LATE_REFUND"
  BY DEF StartReconciliation, Starts
<1>2. pc \in Pc /\ task \in Task /\ Rows BY DEF Pc, IntentPc, RefundPc, Task, IInv
<1>3. Moves(p) /\ proc'[p].pc = pc /\ proc'[p].task = task BY <1>1, <1>2, MoveToDoing
<1>4. Fit(proc[p])' BY <1>1, <1>3 DEF Fit
<1> QED BY <1>3, <1>4, OnlyMoves DEF StartReconciliation

LEMMA ReceiveStep ==
  ASSUME IInv, NEW p \in Procs, ReceiveForReconciliation(p) PROVE StepOK
<1> DEFINE i == proc[p].intent
           row == Received(inbox[i])
<1>1. proc[p].pc = "receive" BY DEF ReceiveForReconciliation
<1>2. Fit(proc[p]) /\ i \in Intents /\ inbox[i] \in InboxRow BY <1>1, FitOf
<1>3. row \in InboxRow /\ row.status # "NONE" /\ provider[i].state \in PaymentResults
  BY <1>1, <1>2, ReceivedRow DEF Fit, PaymentResults
<1>4. inbox' = [inbox EXCEPT ![i] = row] BY DEF ReceiveForReconciliation
<1> HIDE DEF row
<1>5. inbox' \in [Intents -> InboxRow] /\ Grows /\ EventsAreReal' /\ inbox'[i].status # "NONE"
  BY <1>2, <1>3, <1>4, InboxWrite DEF ReceiveForReconciliation, outside
<1>6. "requeue" \in Pc BY DEF Pc
<1>7. /\ Moves(p) /\ proc'[p].pc = "requeue" /\ proc'[p].intent = i
      /\ proc'[p].task = proc[p].task
  BY <1>1, <1>6, GotoMoves DEF ReceiveForReconciliation, IInv
<1>8. Fit(proc[p])' BY <1>5, <1>7 DEF Fit
<1>9. Data' /\ StockStep
  BY <1>5 DEF ReceiveForReconciliation, IInv, Rows, Data, StockStep, KeepsStock, outside
<1> QED BY <1>5, <1>7, <1>8, <1>9, ProcessStep

LEMMA RequeueStep ==
  ASSUME IInv, NEW p \in Procs, RequeueCallback(p) PROVE StepOK
<1> DEFINE i == proc[p].intent
           row == IF inbox[i].status = "RECEIVED" THEN inbox[i]
                  ELSE [status |-> "RECEIVED", retries |-> 0]
<1>1. proc[p].pc = "requeue" BY DEF RequeueCallback
<1>2. Fit(proc[p]) /\ i \in Intents /\ inbox[i] \in InboxRow BY <1>1, FitOf
<1>3. provider[i].state \in PaymentResults BY <1>1, <1>2 DEF Fit, IInv, EventsAreReal
<1>4. row \in InboxRow /\ row.status # "NONE" BY <1>2, ConstantsAssumption DEF InboxRow
<1>5. inbox' = [inbox EXCEPT ![i] = row] BY DEF RequeueCallback
<1> HIDE DEF row
<1>6. inbox' \in [Intents -> InboxRow] /\ Grows /\ EventsAreReal'
  BY <1>2, <1>3, <1>4, <1>5, InboxWrite DEF RequeueCallback, outside
<1>7. Moves(p) /\ proc'[p] = Idle BY ReturnMoves DEF RequeueCallback, IInv
<1>8. Fit(proc[p])' BY <1>7 DEF Fit, Idle
<1>9. Data' /\ StockStep  BY <1>6 DEF RequeueCallback, IInv, Rows, Data, StockStep, KeepsStock, outside
<1> QED BY <1>6, <1>7, <1>8, <1>9, ProcessStep

LEMMA RepairStep ==
  ASSUME IInv, NEW p \in Procs, RepairTerminalClose(p) PROVE StepOK
<1> DEFINE i == proc[p].intent
           o == OrderOf(i)
           mode == intent[i].closeRequest
<1>1. proc[p].pc = "repair" /\ Return(p)
      /\ UNCHANGED <<expired, intent, inbox, refund, outside>>
  BY DEF RepairTerminalClose
<1>2. o \in Orders /\ intent[i] \in IntentRow BY <1>1, FitOf
<1>3. CASE UNCHANGED <<order, stock>> BY <1>1, <1>3, ReturnStep
<1>4. CASE CloseLockedOrder(o, mode) /\ OpenForPayment(o)
  <2>1. mode \in CloseMode \cup {"NONE"} /\ order[o].reservation = "ACTIVE"
    BY <1>2, <1>4 DEF IntentRow, OpenForPayment
  <2> HIDE DEF mode
  <2>2. order' \in [Orders -> OrderRow] /\ StockStep BY <1>2, <1>4, <2>1, CloseLocked
  <2>3. Moves(p) /\ proc'[p] = Idle BY <1>1, ReturnMoves DEF IInv
  <2>4. Fit(proc[p])' BY <2>3 DEF Fit, Idle
  <2>5. Data' /\ Grows /\ EventsAreReal'  BY <1>1, <2>2 DEF IInv, Rows, Data, Grows, EventsAreReal, outside
  <2> QED BY <2>2, <2>3, <2>4, <2>5, ProcessStep
<1> QED BY <1>3, <1>4 DEF RepairTerminalClose, Closable

--------------------------------
\* The theorems.

LEMMA InitHolds ==
  ASSUME Init PROVE IInv
<1>1. Rows
  BY ConstantsAssumption DEF Init, Rows, OrderRow, NoOrder, OrderStatus, PaymentStatus, Resolution,
  ReservationStatus, IntentRow, NoIntentRow, IntentStatus, InboxRow, NoInboxRow, RefundStatus, ProviderRow,
  ProviderState, ProcRow, Idle
<1>2. Holding("ACTIVE") = {} /\ Holding("CONSUMED") = {} BY DEF Init, Holding, NoOrder
<1>3. StockConserved
  <2>1. Cardinality(Holding("ACTIVE")) = 0 /\ Cardinality(Holding("CONSUMED")) = 0  BY <1>2, FS_EmptySet
  <2>2. Qty \in Nat /\ InitialStock \in Nat BY ConstantsAssumption
  <2>3. Qty * 0 = 0 /\ InitialStock - 0 = InitialStock BY <2>2
  <2> QED BY <2>1, <2>2, <2>3 DEF Init, StockConserved
<1>4. NothingBefore /\ AllFit /\ EventsAreReal
  BY DEF Init, NothingBefore, NoOrder, AllFit, Fit, Idle, EventsAreReal, NoInboxRow
<1> QED BY <1>1, <1>3, <1>4 DEF IInv, StockInv

LEMMA ContinueSteps ==
  ASSUME IInv, NEW p \in Procs, Continue(p) PROVE StepOK
<1>1. CASE CreateAtProvider(p) BY <1>1, CommandStep DEF CreateAtProvider
<1>2. CASE CloseAtProvider(p) BY <1>2, CommandStep DEF CloseAtProvider
<1>3. CASE QueryProvider(p) \/ RefundAtProvider(p) BY <1>3, QueryStep, RefundStep
<1>4. CASE RevalidateProviderCreate(p) \/ RecordProviderOutcome(p) \/ FinalizeOrderClose(p)
  BY <1>4, RevalidateStep, RecordStep, FinalizeCloseStep
<1>5. CASE ApplyPaymentCallback(p) \/ MarkProcessed(p) BY <1>5, ApplyStep, MarkStep
<1>6. CASE ClaimLateRefund(p) \/ FinalizeLateRefund(p) \/ RetryLateRefund(p)
  BY <1>6, ClaimRefundStep, FinalizeRefundStep, RetryRefundStep
<1>7. CASE ReceiveForReconciliation(p) \/ RequeueCallback(p) \/ RepairTerminalClose(p)
  BY <1>7, ReceiveStep, RequeueStep, RepairStep
<1> QED BY <1>1, <1>2, <1>3, <1>4, <1>5, <1>6, <1>7 DEF Continue

LEMMA NextHolds ==
  ASSUME IInv, Next PROVE IInv'
<1> SUFFICES StepOK
  BY StepKeeps
<1>1. CASE World BY <1>1, WorldSteps
<1>2. ASSUME NEW p \in Payers, Pay(p) PROVE StepOK
  BY <1>2, PrepareStep DEF Pay, Procs
<1>3. ASSUME NEW p \in Cancellers, Cancel(p) PROVE StepOK
  <2>1. p \in Procs /\ "USER_CANCELLED" \in CloseMode BY DEF Procs, CloseMode
  <2> QED BY <1>3, <2>1, ClaimStep DEF Cancel, CancelOrder
<1>4. ASSUME NEW p \in TimeoutWorkers, NEW o \in Orders, Timeout(p, o) PROVE StepOK
  <2>1. p \in Procs /\ "PAYMENT_TIMEOUT" \in CloseMode BY DEF Procs, CloseMode
  <2> QED BY <1>4, <2>1, ClaimStep, ExpireStep DEF Timeout, ClaimNextOrderClose
<1>5. ASSUME NEW p \in Admins, Reconcile(p) PROVE StepOK
  BY <1>5, ReconcileStep DEF Reconcile, Procs
<1>6. ASSUME NEW p \in CallbackWorkers, NEW i \in Intents, TakeCallback(p, i) PROVE StepOK
  BY <1>6, TakeStep DEF Procs
<1>7. ASSUME NEW p \in Procs, Continue(p) \/ CallTimesOut(p) \/ Crash(p) PROVE StepOK
  BY <1>7, ContinueSteps, LostCallStep, ReturnStep DEF Crash
<1> QED BY <1>1, <1>2, <1>3, <1>4, <1>5, <1>6, <1>7 DEF Next

\* The invariant speaks of the variables only.
LEMMA StutterHolds ==
  ASSUME IInv, UNCHANGED vars PROVE IInv'
BY DEF IInv, vars, Rows, StockInv, StockConserved, Holding, NothingBefore, AllFit, Fit, EventsAreReal

LEMMA Invariance == Spec => []IInv
<1>1. IInv /\ [Next]_vars => IInv' BY NextHolds, StutterHolds
<1> QED BY <1>1, InitHolds, PTL DEF Spec

\* Every row keeps its type, and stock never goes below zero, for any
\* number of orders, intents and processes (all actions).
THEOREM TypeCorrect == Spec => []TypeOK
<1>1. IInv => TypeOK BY StockIsNatural DEF IInv, StockInv, TypeOK, Rows
<1> QED BY <1>1, Invariance, PTL

\* What is locked is what open orders hold and what is gone is what was
\* sold, however creation, the closes and settlement interleave.
THEOREM StockIsConserved == Spec => []StockConserved
<1>1. IInv => StockConserved BY DEF IInv, StockInv
<1> QED BY <1>1, Invariance, PTL

--------------------------------
\* OneActiveIntent.  An intent becomes active only when it is inserted,
\* under the lock of its order and with no other active; every other write
\* keeps its status, moves it between active statuses or ends it.

\* No intent becomes active.
NoneActivated ==
  \A i \in Intents : intent'[i].status \in Active => intent[i].status \in Active

\* Intent i becomes active, the only one of its order.
OnlyActivated(i) ==
  /\ ActiveOf(OrderOf(i)) = {}
  /\ \A j \in Intents \ {i} : intent'[j].status \in Active => intent[j].status \in Active

ActiveStep == NoneActivated \/ \E i \in Intents : OnlyActivated(i)

LEMMA ActiveStepKeeps ==
  ASSUME OneActiveIntent, ActiveStep PROVE OneActiveIntent'
<1> SUFFICES ASSUME NEW o \in Orders, NEW i \in ActiveOf(o)', NEW j \in ActiveOf(o)'
             PROVE  i = j
  BY DEF OneActiveIntent
<1>1. /\ i \in Intents /\ j \in Intents /\ OrderOf(i) = o /\ OrderOf(j) = o
      /\ i \in IntentsOf(o) /\ j \in IntentsOf(o)
      /\ intent'[i].status \in Active /\ intent'[j].status \in Active
  BY DEF ActiveOf, IntentsOf, Intents, OrderOf
<1>2. CASE NoneActivated
  <2>1. i \in ActiveOf(o) /\ j \in ActiveOf(o) BY <1>1, <1>2 DEF NoneActivated, ActiveOf
  <2> QED BY <2>1 DEF OneActiveIntent
<1>3. ASSUME NEW k \in Intents, OnlyActivated(k) PROVE i = j
  <2>1. CASE OrderOf(k) = o
    <3>1. ASSUME NEW n \in IntentsOf(o), n \in Intents, n # k PROVE intent'[n].status \notin Active
      BY <1>3, <2>1, <3>1 DEF OnlyActivated, ActiveOf
    <3> QED BY <1>1, <3>1
  <2>2. CASE OrderOf(k) # o
    <3>1. i \in ActiveOf(o) /\ j \in ActiveOf(o) BY <1>1, <1>3, <2>2 DEF OnlyActivated, ActiveOf
    <3> QED BY <3>1 DEF OneActiveIntent
  <2> QED BY <2>1, <2>2
<1> QED BY <1>2, <1>3 DEF ActiveStep

--------------------------------
\* The writes to intents.

\* A write that ends the intent or keeps it as active as it was.
LEMMA IntentWrite ==
  ASSUME IInv, NEW i \in Intents, NEW row, intent' = [intent EXCEPT ![i] = row],
         row.status \in Active => intent[i].status \in Active
  PROVE  NoneActivated
BY DEF IInv, Rows, NoneActivated

LEMMA SameIntents ==
  ASSUME UNCHANGED intent PROVE ActiveStep
BY DEF ActiveStep, NoneActivated

LEMMA ClaimActive ==
  ASSUME IInv, NEW p \in Procs, NEW o \in Orders, NEW mode, ClaimOrderClose(p, o, mode)
  PROVE  ActiveStep
<1>1. ASSUME NEW i \in ActiveOf(o), intent' = [intent EXCEPT ![i] = ClaimRow(@, mode)]
      PROVE  ActiveStep
  <2>1. i \in Intents /\ intent[i].status \in Active BY DEF ActiveOf, IntentsOf, Intents
  <2> QED BY <1>1, <2>1, IntentWrite DEF ActiveStep
<1> QED BY <1>1, SameIntents DEF ClaimOrderClose

LEMMA FinalizeActive ==
  ASSUME IInv, NEW p \in Procs, FinalizeOrderClose(p) PROVE ActiveStep
<1> DEFINE i == proc[p].intent
           seen == proc[p].seen
<1>1. proc[p].pc = "finalize_close" BY DEF FinalizeOrderClose
<1>2. i \in Intents /\ intent[i] \in IntentRow /\ seen \in ProviderState \cup {"UNKNOWN"}
  BY <1>1, FitOf DEF Working
<1>3. FinalizeFacts(intent[i], seen) \in IntentRow
      /\ FinalizeFacts(intent[i], seen).status = intent[i].status
  BY <1>2, FinalizeFactsRow
<1>4. ASSUME KeepPending(p, i) PROVE ActiveStep
  <2>1. intent' = [intent EXCEPT ![i] = FinalizeFacts(intent[i], seen)] BY <1>4 DEF KeepPending
  <2> QED BY <1>2, <1>3, <2>1, IntentWrite DEF ActiveStep
<1>5. ASSUME FinishClose(p, i), CanFinalize(p, i) PROVE ActiveStep
  <2>1. intent[i].status \in Active BY <1>5 DEF CanFinalize, Active
  <2>2. intent' = [intent EXCEPT ![i] = [FinalizeFacts(intent[i], seen)
                     EXCEPT !.status = CloseTarget(seen, intent[i].closeRequest)]]
    BY <1>5 DEF FinishClose
  <2> QED BY <1>2, <2>1, <2>2, IntentWrite DEF ActiveStep
<1> QED BY <1>4, <1>5, SameIntents DEF FinalizeOrderClose

LEMMA PrepareActive ==
  ASSUME IInv, NEW p \in Procs, NEW o \in Orders, PreparePaymentIntent(p, o)
  PROVE  ActiveStep
<1>1. ASSUME NewIntentAllowed(o), NEW i \in IntentsOf(o),
             intent' = [intent EXCEPT ![i].status = "CREATING"]
      PROVE  ActiveStep
  <2>1. i \in Intents /\ OrderOf(i) = o BY DEF IntentsOf, Intents, OrderOf
  <2>2. OnlyActivated(i) BY <1>1, <2>1 DEF NewIntentAllowed, OnlyActivated, IInv, Rows
  <2> QED BY <2>1, <2>2 DEF ActiveStep
<1> QED BY <1>1, SameIntents DEF PreparePaymentIntent

LEMMA RecordActive ==
  ASSUME IInv, NEW p \in Procs, RecordProviderOutcome(p) PROVE ActiveStep
<1> DEFINE i == proc[p].intent
           seen == proc[p].seen
           kind == OutcomeKind(p, seen)
<1>1. i \in Intents BY FitOf DEF RecordProviderOutcome
<1>2. CASE CanRecord(p, i, kind, seen)
  <2>1. intent[i].status \in Active /\ intent' = [intent EXCEPT ![i] = RecordedRow(intent[i], kind, seen)]
    BY <1>2 DEF CanRecord, RecordProviderOutcome
  <2> QED BY <1>1, <2>1, IntentWrite DEF ActiveStep
<1>3. CASE ~CanRecord(p, i, kind, seen) BY <1>3, SameIntents DEF RecordProviderOutcome
<1> QED BY <1>2, <1>3

LEMMA ApplyActive ==
  ASSUME IInv, NEW p \in Procs, ApplyPaymentCallback(p) PROVE ActiveStep
<1> DEFINE i == proc[p].intent
<1>1. proc[p].pc = "apply" BY DEF ApplyPaymentCallback
<1>2. i \in Intents /\ intent[i] \in IntentRow BY <1>1, FitOf
<1>3. ASSUME NEW attempt, intent' = [intent EXCEPT ![i] = PaidRow(@, attempt)]
      PROVE  ActiveStep
  <2>1. PaidRow(intent[i], attempt).status \notin Active BY <1>2 DEF PaidRow, Active, IntentRow
  <2> QED BY <1>2, <1>3, <2>1, IntentWrite DEF ActiveStep
<1>4. CASE SuccessEvent(p, i)
  BY <1>3, <1>4, SameIntents DEF SuccessEvent, LateSuccess, LateReplay, Settle, WaitForManual, SettledReplay
<1>5. CASE FailureEvent(p, i, provider[i].state) /\ provider[i].state # "SUCCEEDED"
  <2> DEFINE result == provider[i].state
  <2>1. result \in {"FAILED", "CANCELLED"} BY <1>1, <1>5, AppliedEvent DEF PaymentResults
  <2> HIDE DEF result
  <2>2. CASE intent' = [intent EXCEPT ![i].attempt = result]
    BY <1>2, <2>2 DEF ActiveStep, NoneActivated, IInv, Rows, IntentRow
  <2>3. CASE intent' = [intent EXCEPT ![i].status = result, ![i].attempt = result,
                                      ![i].sawSuccess = FALSE]
    BY <1>2, <2>1, <2>3 DEF ActiveStep, NoneActivated, IInv, Rows, IntentRow, Active
  <2> QED BY <1>5, <2>2, <2>3 DEF FailureEvent, result
<1>6. CASE UNCHANGED intent BY <1>6, SameIntents
<1> QED BY <1>4, <1>5, <1>6 DEF ApplyPaymentCallback

LEMMA NextActive ==
  ASSUME IInv, Next PROVE ActiveStep
<1>1. CASE World
  BY <1>1, SameIntents DEF World, CreateOrder, ExpiryPasses, SubmitResult, DeliverResult,
     AbandonedCommandRuns
<1>2. ASSUME NEW p \in Payers, Pay(p) PROVE ActiveStep
  BY <1>2, PrepareActive DEF Pay, Procs
<1>3. ASSUME NEW p \in Cancellers, Cancel(p) PROVE ActiveStep
  BY <1>3, ClaimActive DEF Cancel, CancelOrder, Procs
<1>4. ASSUME NEW p \in TimeoutWorkers, NEW o \in Orders, Timeout(p, o) PROVE ActiveStep
  BY <1>4, ClaimActive, SameIntents DEF Timeout, ClaimNextOrderClose, ExpireNextOrder, Procs
<1>5. ASSUME NEW p \in Admins, Reconcile(p) PROVE ActiveStep
  BY <1>5, SameIntents DEF Reconcile, StartReconciliation
<1>6. ASSUME NEW p \in CallbackWorkers, NEW i \in Intents, TakeCallback(p, i) PROVE ActiveStep
  BY <1>6, SameIntents DEF TakeCallback
<1>7. ASSUME NEW p \in Procs, Continue(p) PROVE ActiveStep
  <2>1. CASE RecordProviderOutcome(p) \/ FinalizeOrderClose(p) \/ ApplyPaymentCallback(p)
    BY <2>1, RecordActive, FinalizeActive, ApplyActive
  <2>2. CASE ~(RecordProviderOutcome(p) \/ FinalizeOrderClose(p) \/ ApplyPaymentCallback(p))
    BY <1>7, <2>2, SameIntents DEF Continue, QueryProvider, CreateAtProvider, CloseAtProvider,
    RefundAtProvider, RevalidateProviderCreate, MarkProcessed, ClaimLateRefund, FinalizeLateRefund,
    RetryLateRefund, ReceiveForReconciliation, RequeueCallback, RepairTerminalClose
  <2> QED BY <2>1, <2>2
<1>8. ASSUME NEW p \in Procs, CallTimesOut(p) \/ Crash(p) PROVE ActiveStep
  BY <1>8, SameIntents DEF CallTimesOut, Crash
<1> QED BY <1>1, <1>2, <1>3, <1>4, <1>5, <1>6, <1>7, <1>8 DEF Next

\* No interleaving of payers, closes, callbacks and reconciliation gives an
\* order two intents a customer could still be paying.
THEOREM OneActive == Spec => []OneActiveIntent
<1>1. Init => OneActiveIntent  BY DEF Init, OneActiveIntent, ActiveOf, IntentsOf, Intents, NoIntentRow, Active
<1>2. IInv /\ OneActiveIntent /\ [Next]_vars => OneActiveIntent'
  <2>1. CASE UNCHANGED vars BY <2>1 DEF OneActiveIntent, ActiveOf, IntentsOf, vars
  <2> QED BY <2>1, NextActive, ActiveStepKeeps
<1> QED BY <1>1, <1>2, Invariance, PTL DEF Spec

--------------------------------
\* What order, intents and refund say of each other.

Of(o) == {i \in Intents : OrderOf(i) = o}

\* The intents of an order: an attempt is paid when its intent is, with money
\* the provider has, in time or else with a refund.
IntentsAgree(o) ==
  /\ \A i \in Of(o) :
       /\ Paid(i) <=> intent[i].status = "SUCCEEDED"
       /\ Paid(i) => provider[i].state = "SUCCEEDED" /\ order[o].payment = "PAID"
       /\ intent[i].attempt = "SUCCEEDED" => ~provider[i].late
       /\ intent[i].attempt = "SUCCEEDED_LATE" => refund[o] # "NONE"
  /\ \A i, j \in Of(o) : Paid(i) /\ Paid(j) => i = j
  /\ order[o].payment = "PAID" => \E i \in Of(o) : Paid(i)

\* The order: its status says what became of its pieces, and why.
OrderAgrees(o) ==
  /\ order[o].status = "NONE" <=> order[o].reservation = "NONE"
  /\ order[o].status = "PENDING_PAYMENT" <=> order[o].reservation = "ACTIVE"
  /\ order[o].status = "PENDING_SHIPMENT" <=> order[o].reservation = "CONSUMED"
  /\ order[o].status = "PENDING_SHIPMENT" => \E i \in Of(o) : intent[i].attempt = "SUCCEEDED"

ResolutionOf(status) ==
  CASE status \in {"PENDING", "PROCESSING"} -> "LATE_SUCCESS_REFUND_PENDING"
    [] status = "SUCCEEDED" -> "LATE_SUCCESS_REFUNDED"
    [] OTHER -> "MANUAL_REQUIRED"

RefundAgrees(o) ==
  refund[o] # "NONE" =>
    /\ order[o].status = "CLOSED"
    /\ order[o].resolution = ResolutionOf(refund[o])
    /\ \E i \in Of(o) : intent[i].attempt = "SUCCEEDED_LATE"

SaleAgrees(o) == IntentsAgree(o) /\ OrderAgrees(o) /\ RefundAgrees(o)
SalesAgree == \A o \in Orders : SaleAgrees(o)

\* The provider never takes back a success, nor its time.
SuccessStands == \A i \in Intents : provider[i].state = "SUCCEEDED" =>
  provider'[i].state = "SUCCEEDED" /\ provider'[i].late = provider[i].late

--------------------------------
LEMMA IntentsOfOrder ==
  ASSUME NEW o \in Orders
  PROVE  IntentsOf(o) = Of(o)
BY DEF IntentsOf, Of, Intents, OrderOf

\* A step that writes rows of one order only leaves the others agreeing.
LEMMA OneOrder ==
  ASSUME SalesAgree, NEW o \in Orders, SuccessStands,
         \A q \in Orders \ {o} : order'[q] = order[q] /\ refund'[q] = refund[q],
         \A j \in Intents : OrderOf(j) # o => intent'[j] = intent[j],
         SaleAgrees(o)'
  PROVE  SalesAgree'
<1> SUFFICES ASSUME NEW q \in Orders \ {o} PROVE SaleAgrees(q)'
  BY DEF SalesAgree
<1>1. SaleAgrees(q) BY DEF SalesAgree
<1>2. order'[q] = order[q] /\ refund'[q] = refund[q]
  OBVIOUS
<1>3. Of(q)' = Of(q) /\ \A j \in Of(q) : intent'[j] = intent[j] /\ j \in Intents BY DEF Of
<1>4. IntentsAgree(q)' BY <1>1, <1>2, <1>3 DEF SaleAgrees, IntentsAgree, Paid, SuccessStands
<1>5. OrderAgrees(q)' /\ RefundAgrees(q)'
  BY <1>1, <1>2, <1>3 DEF SaleAgrees, OrderAgrees, RefundAgrees, ResolutionOf
<1> QED BY <1>4, <1>5 DEF SaleAgrees

\* A step that pays nothing and takes no payment back.  It may write the
\* intents of o that are not paid, and the payment of an unpaid order.
NothingPaid(o) == \A j \in Of(o) :
  /\ Paid(j)' <=> Paid(j)
  /\ Paid(j) => intent'[j].attempt = intent[j].attempt
  /\ intent'[j].status = "SUCCEEDED" <=> intent[j].status = "SUCCEEDED"

LEMMA UnpaidWrite ==
  ASSUME SalesAgree, NEW o \in Orders, SuccessStands, NothingPaid(o),
         refund'[o] = refund[o],
         order'[o].status = order[o].status,
         order'[o].reservation = order[o].reservation,
         order'[o].resolution = order[o].resolution,
         \/ order'[o].payment = order[o].payment
         \/ order[o].payment # "PAID" /\ order'[o].payment # "PAID"
  PROVE  SaleAgrees(o)'
<1>1. IntentsAgree(o) /\ OrderAgrees(o) /\ RefundAgrees(o) /\ Of(o)' = Of(o) /\ Of(o) \subseteq Intents
  BY DEF SalesAgree, SaleAgrees, Of
<1>2. \A j \in Of(o) : Paid(j) <=> intent[j].attempt \in {"SUCCEEDED", "SUCCEEDED_LATE"}  BY DEF Paid
<1>3. \A j \in Of(o) : Paid(j)' <=> intent'[j].attempt \in {"SUCCEEDED", "SUCCEEDED_LATE"}  BY DEF Paid
<1>4. IntentsAgree(o)'
  <2>1. \A i \in Of(o) :
          /\ Paid(i)' <=> intent'[i].status = "SUCCEEDED"
          /\ Paid(i)' => provider'[i].state = "SUCCEEDED" /\ order'[o].payment = "PAID"
          /\ intent'[i].attempt = "SUCCEEDED" => ~provider'[i].late
          /\ intent'[i].attempt = "SUCCEEDED_LATE" => refund'[o] # "NONE"
    BY <1>1, <1>2, <1>3 DEF IntentsAgree, SuccessStands, NothingPaid
  <2>2. \A i, j \in Of(o) : Paid(i)' /\ Paid(j)' => i = j BY <1>1 DEF IntentsAgree, NothingPaid
  <2>3. order'[o].payment = "PAID" => \E i \in Of(o) : Paid(i)'  BY <1>1 DEF IntentsAgree, NothingPaid
  <2> QED BY <1>1, <2>1, <2>2, <2>3 DEF IntentsAgree
<1>5. OrderAgrees(o)' BY <1>1, <1>2, <1>3 DEF OrderAgrees, NothingPaid
<1>6. RefundAgrees(o)' BY <1>1, <1>2, <1>3 DEF RefundAgrees, NothingPaid, ResolutionOf
<1> QED BY <1>4, <1>5, <1>6 DEF SaleAgrees

\* A close of an order nobody paid.
LEMMA ClosingWrite ==
  ASSUME SalesAgree, Rows, NEW o \in Orders, SuccessStands, NothingPaid(o),
         OpenForPayment(o), ~SomePaid(o), refund'[o] = refund[o],
         NEW mode, order'[o] = ClosedRow(order[o], mode)
  PROVE  SaleAgrees(o)'
<1>1. IntentsAgree(o) /\ OrderAgrees(o) /\ RefundAgrees(o) /\ Of(o)' = Of(o)
  BY DEF SalesAgree, SaleAgrees, Of
<1>2. \A j \in Of(o) : ~Paid(j) /\ ~Paid(j)' /\ intent'[j].status # "SUCCEEDED"
  BY IntentsOfOrder DEF SomePaid, NothingPaid
<1>3. \A j \in Of(o) : intent'[j].attempt \notin {"SUCCEEDED", "SUCCEEDED_LATE"} BY <1>2 DEF Paid
<1>4. /\ order'[o].status = "CLOSED" /\ order'[o].payment = "UNPAID"
      /\ order'[o].reservation \in {"RELEASED", "EXPIRED"}
  <2>1. order[o] \in OrderRow BY DEF Rows
  <2> QED BY <2>1 DEF ClosedRow, OrderRow
<1>5. refund'[o] = "NONE" BY <1>1 DEF RefundAgrees, OpenForPayment
<1> QED BY <1>1, <1>2, <1>3, <1>4, <1>5 DEF SaleAgrees, IntentsAgree, OrderAgrees, RefundAgrees

\* A step that writes neither orders nor intents nor refunds.
Untouched == UNCHANGED <<order, intent, refund>> /\ SuccessStands

LEMMA UntouchedMoney ==
  ASSUME SalesAgree, Untouched
  PROVE  SalesAgree'
<1> SUFFICES ASSUME NEW o \in Orders PROVE SaleAgrees(o)'
  BY DEF SalesAgree
<1>1. NothingPaid(o) BY DEF Untouched, NothingPaid, Paid
<1> QED BY <1>1, UnpaidWrite DEF Untouched

--------------------------------
\* The steps, as to the rows of SaleAgrees.

LEMMA ProviderStands ==
  ASSUME IInv, Next
  PROVE  SuccessStands
<1> USE DEF SuccessStands
<1>0. /\ provider \in [Intents -> ProviderRow]
      /\ AfterCreate("SUCCEEDED") = "SUCCEEDED" /\ AfterClose("SUCCEEDED") = "SUCCEEDED"
  BY DEF IInv, Rows, AfterCreate, AfterClose
<1>1. ASSUME NEW i \in Intents, NEW result \in PaymentResults, SubmitResult(i, result)
      PROVE  SuccessStands
  BY <1>0, <1>1 DEF SubmitResult, ProviderRow
<1>2. ASSUME AbandonedCommandRuns PROVE SuccessStands
  BY <1>0, <1>2 DEF AbandonedCommandRuns, ProviderRow
<1>3. ASSUME NEW p \in Procs, CreateAtProvider(p) \/ CloseAtProvider(p) PROVE SuccessStands
  BY <1>0, <1>3 DEF CreateAtProvider, CloseAtProvider, ProviderRow
<1>4. ASSUME UNCHANGED provider PROVE SuccessStands
  BY <1>4
<1>5. ASSUME World PROVE SuccessStands
  BY <1>1, <1>2, <1>4, <1>5 DEF World, CreateOrder, ExpiryPasses, DeliverResult, outside
<1>6. ASSUME NEW p \in Procs, Continue(p) PROVE SuccessStands
  <2>1. CASE \/ QueryProvider(p) \/ RefundAtProvider(p) \/ RevalidateProviderCreate(p)
             \/ RecordProviderOutcome(p) \/ FinalizeOrderClose(p) \/ ApplyPaymentCallback(p)
    BY <1>4, <2>1 DEF QueryProvider, RefundAtProvider, RevalidateProviderCreate,
      RecordProviderOutcome, FinalizeOrderClose, ApplyPaymentCallback, outside
  <2>2. CASE \/ MarkProcessed(p) \/ ClaimLateRefund(p) \/ FinalizeLateRefund(p)
             \/ RetryLateRefund(p) \/ ReceiveForReconciliation(p) \/ RequeueCallback(p)
             \/ RepairTerminalClose(p)
    BY <1>4, <2>2 DEF MarkProcessed, ClaimLateRefund, FinalizeLateRefund, RetryLateRefund,
      ReceiveForReconciliation, RequeueCallback, RepairTerminalClose, outside
  <2> QED BY <1>3, <1>6, <2>1, <2>2 DEF Continue
<1>7. ASSUME NEW p \in Procs, CallTimesOut(p) \/ Crash(p) PROVE SuccessStands
  BY <1>4, <1>7 DEF CallTimesOut, Crash, outside
<1>8. ASSUME NEW p, NEW o, \/ Pay(p) \/ Cancel(p) \/ Timeout(p, o) \/ Reconcile(p)
                           \/ \E i \in Intents : TakeCallback(p, i)
      PROVE  SuccessStands
  BY <1>4, <1>8 DEF Pay, PreparePaymentIntent, Cancel, CancelOrder, Timeout, ClaimNextOrderClose,
    ClaimOrderClose, ExpireNextOrder, Reconcile, StartReconciliation, TakeCallback, outside
<1> QED BY <1>5, <1>6, <1>7, <1>8 DEF Next

LEMMA CreateMoney ==
  ASSUME IInv, SalesAgree, SuccessStands, NEW o \in Orders, CreateOrder(o)
  PROVE  SalesAgree'
<1>1. order[o] \in OrderRow /\ order \in [Orders -> OrderRow] BY DEF IInv, Rows
<1>2. /\ order'[o].status = "PENDING_PAYMENT" /\ order'[o].reservation = "ACTIVE"
      /\ order'[o].payment = order[o].payment
      /\ \A q \in Orders \ {o} : order'[q] = order[q]
      /\ UNCHANGED <<intent, refund>>
  BY <1>1 DEF CreateOrder, OrderRow
<1>3. IntentsAgree(o) /\ OrderAgrees(o) /\ RefundAgrees(o) /\ Of(o)' = Of(o) /\ Of(o) \subseteq Intents
  BY DEF SalesAgree, SaleAgrees, Of
<1>4. refund[o] = "NONE" BY <1>3 DEF RefundAgrees, CreateOrder
<1>5. IntentsAgree(o)' BY <1>2, <1>3 DEF IntentsAgree, Paid, SuccessStands
<1>6. OrderAgrees(o)' /\ RefundAgrees(o)' BY <1>2, <1>3, <1>4 DEF OrderAgrees, RefundAgrees
<1> QED BY <1>2, <1>5, <1>6, OneOrder DEF SaleAgrees

\* prepareOwnedPaymentIntent.
LEMMA PrepareMoney ==
  ASSUME IInv, SalesAgree, SuccessStands, NEW p \in Procs, NEW o \in Orders, PreparePaymentIntent(p, o)
  PROVE  SalesAgree'
<1>1. UNCHANGED <<order, refund>> BY DEF PreparePaymentIntent
<1>2. CASE UNCHANGED intent BY <1>1, <1>2, UntouchedMoney DEF Untouched
<1>3. CASE \E i \in IntentsOf(o) : /\ intent[i].status = "NONE"
                                   /\ intent' = [intent EXCEPT ![i].status = "CREATING"]
  <2>1. PICK i \in Of(o) : /\ intent[i].status = "NONE"
                           /\ intent' = [intent EXCEPT ![i].status = "CREATING"]
    BY <1>3, IntentsOfOrder
  <2>2. /\ i \in Intents /\ OrderOf(i) = o
        /\ \A j \in Intents : j # i => intent'[j] = intent[j]
        /\ intent'[i].status = "CREATING" /\ intent'[i].attempt = intent[i].attempt
    BY <2>1 DEF IInv, Rows, IntentRow, Of
  <2>3. NothingPaid(o) BY <2>1, <2>2 DEF NothingPaid, Paid, Of
  <2> QED BY <1>1, <2>2, <2>3, UnpaidWrite, OneOrder
<1> QED BY <1>2, <1>3 DEF PreparePaymentIntent

\* claimOrderClose and expireBatch.
LEMMA ClaimMoney ==
  ASSUME IInv, SalesAgree, SuccessStands, NEW p \in Procs, NEW o \in Orders,
         \/ \E mode \in CloseMode : ClaimOrderClose(p, o, mode)
         \/ ExpireNextOrder(p, o)
  PROVE  SalesAgree'
<1>1. UNCHANGED refund /\ Rows BY DEF ClaimOrderClose, ExpireNextOrder, IInv
<1>2. ASSUME NEW mode, CloseLockedOrder(o, mode), Closable(o, IntentsOf(o)), UNCHANGED intent
      PROVE  SalesAgree'
  <2>1. /\ order' = [order EXCEPT ![o] = ClosedRow(order[o], mode)]
        /\ order \in [Orders -> OrderRow]
    BY <1>1, <1>2 DEF CloseLockedOrder, Rows
  <2>2. NothingPaid(o) BY <1>2 DEF NothingPaid, Paid
  <2> QED BY <1>1, <1>2, <2>1, <2>2, ClosingWrite, OneOrder DEF Closable
<1>3. ASSUME NEW mode, NEW i \in ActiveOf(o), intent' = [intent EXCEPT ![i] = ClaimRow(@, mode)],
             UNCHANGED order
      PROVE  SalesAgree'
  <2>1. i \in Intents /\ OrderOf(i) = o /\ intent[i].status \in Active /\ intent[i] \in IntentRow
    BY <1>1, <1>3, IntentsOfOrder DEF ActiveOf, Of, Rows
  <2>2. ClaimRow(intent[i], mode).status = "CLOSE_PENDING"
        /\ ClaimRow(intent[i], mode).attempt = intent[i].attempt
    BY <2>1 DEF ClaimRow, IntentRow
  <2>3. /\ \A j \in Intents : j # i => intent'[j] = intent[j]
        /\ intent'[i] = ClaimRow(intent[i], mode)
    BY <1>1, <1>3, <2>1 DEF Rows
  <2>4. NothingPaid(o) BY <2>1, <2>2, <2>3 DEF NothingPaid, Paid, Of, Active
  <2> QED BY <1>1, <1>3, <2>1, <2>3, <2>4, UnpaidWrite, OneOrder
<1>4. ASSUME NEW mode \in CloseMode, ClaimOrderClose(p, o, mode) PROVE SalesAgree'
  BY <1>2, <1>3, <1>4 DEF ClaimOrderClose
<1>5. ASSUME ExpireNextOrder(p, o) PROVE SalesAgree'
  BY <1>2, <1>5 DEF ExpireNextOrder
<1> QED BY <1>4, <1>5

\* finalizeOrderClose.
LEMMA FinalizeMoney ==
  ASSUME IInv, SalesAgree, SuccessStands, NEW p \in Procs, FinalizeOrderClose(p)
  PROVE  SalesAgree'
<1> DEFINE i == proc[p].intent
           o == OrderOf(i)
           seen == proc[p].seen
<1>1. /\ UNCHANGED refund /\ Rows /\ proc[p].pc = "finalize_close"
      /\ i \in Intents /\ o \in Orders /\ intent[i] \in IntentRow
      /\ seen \in ProviderState \union {"UNKNOWN"}
  BY FitOf DEF FinalizeOrderClose, IInv, Working
<1>2. CASE UNCHANGED <<order, intent>> BY <1>1, <1>2, UntouchedMoney DEF Untouched
<1>3. ASSUME CanFinalize(p, i), KeepPending(p, i) PROVE SalesAgree'
  <2>1. intent' = [intent EXCEPT ![i] = FinalizeFacts(intent[i], seen)] /\ UNCHANGED order
    BY <1>3 DEF KeepPending
  <2>2. /\ FinalizeFacts(intent[i], seen).status = intent[i].status
        /\ FinalizeFacts(intent[i], seen).attempt = intent[i].attempt
    BY <1>1 DEF FinalizeFacts, IntentRow
  <2>3. /\ \A j \in Intents : j # i => intent'[j] = intent[j]
        /\ intent'[i] = FinalizeFacts(intent[i], seen)
    BY <1>1, <2>1 DEF Rows
  <2>4. NothingPaid(o) BY <2>2, <2>3 DEF NothingPaid, Paid, Of
  <2> QED BY <1>1, <2>1, <2>3, <2>4, UnpaidWrite, OneOrder
<1>4. ASSUME CanFinalize(p, i), FinishClose(p, i) PROVE SalesAgree'
  <2> DEFINE mode == intent[i].closeRequest
             row == [FinalizeFacts(intent[i], seen) EXCEPT !.status = CloseTarget(seen, mode)]
  <2>1. /\ intent' = [intent EXCEPT ![i] = row]
        /\ order' = [order EXCEPT ![o] = ClosedRow(order[o], mode)]
        /\ seen \notin StillOpen
    BY <1>4 DEF FinishClose, CloseLockedOrder
  <2>2. Closable(o, IntentsOf(o) \ {i}) BY <1>4, <2>1 DEF CanFinalize
  <2>3. row.status # "SUCCEEDED" /\ row.attempt = intent[i].attempt
    BY <1>1, <2>1 DEF FinalizeFacts, IntentRow, CloseTarget, StillOpen
  <2> HIDE DEF row
  <2>4. /\ \A j \in Intents : j # i => intent'[j] = intent[j]
        /\ intent'[i] = row
        /\ \A q \in Orders \ {o} : order'[q] = order[q]
        /\ order'[o] = ClosedRow(order[o], mode)
    BY <1>1, <2>1 DEF Rows
  <2>5. intent[i].status # "SUCCEEDED" BY <1>4 DEF CanFinalize
  <2>6. NothingPaid(o) BY <2>3, <2>4, <2>5 DEF NothingPaid, Paid, Of
  <2> QED BY <1>1, <2>2, <2>4, <2>6, ClosingWrite, OneOrder DEF Closable
<1> QED BY <1>2, <1>3, <1>4 DEF FinalizeOrderClose

\* repairTerminalOrderClose.
LEMMA RepairMoney ==
  ASSUME IInv, SalesAgree, SuccessStands, NEW p \in Procs, RepairTerminalClose(p)
  PROVE  SalesAgree'
<1> DEFINE i == proc[p].intent
           o == OrderOf(i)
           mode == intent[i].closeRequest
<1>1. UNCHANGED <<refund, intent>> /\ Rows /\ o \in Orders BY FitOf DEF RepairTerminalClose, IInv
<1>2. CASE UNCHANGED order BY <1>1, <1>2, UntouchedMoney DEF Untouched
<1>3. CASE CloseLockedOrder(o, mode) /\ Closable(o, IntentsOf(o))
  <2>1. /\ order'[o] = ClosedRow(order[o], mode)
        /\ \A q \in Orders \ {o} : order'[q] = order[q]
    BY <1>1, <1>3 DEF CloseLockedOrder, Rows
  <2>2. NothingPaid(o) BY <1>1 DEF NothingPaid, Paid
  <2> QED BY <1>1, <1>3, <2>1, <2>2, ClosingWrite, OneOrder DEF Closable
<1> QED BY <1>2, <1>3 DEF RepairTerminalClose

\* finalizeProviderOutcome.
LEMMA RecordMoney ==
  ASSUME IInv, SalesAgree, SuccessStands, NEW p \in Procs, RecordProviderOutcome(p)
  PROVE  SalesAgree'
<1> DEFINE i == proc[p].intent
           o == OrderOf(i)
           seen == proc[p].seen
           kind == OutcomeKind(p, seen)
           row == RecordedRow(intent[i], kind, seen)
<1>1. /\ UNCHANGED refund /\ Rows
      /\ i \in Intents /\ o \in Orders /\ intent[i] \in IntentRow /\ order[o] \in OrderRow
  BY FitOf DEF RecordProviderOutcome, IInv
<1>2. CASE UNCHANGED <<order, intent>> BY <1>1, <1>2, UntouchedMoney DEF Untouched
<1>3. CASE /\ CanRecord(p, i, kind, seen)
           /\ intent' = [intent EXCEPT ![i] = row]
           /\ order' = [order EXCEPT ![o].payment = RecordedPayment(@, kind)]
  <2>1. kind = "TERMINAL" => seen \in {"FAILED", "CANCELLED", "CLOSED", "NOT_FOUND"}  BY DEF OutcomeKind
  <2>2. /\ row.attempt = intent[i].attempt
        /\ row.status # "SUCCEEDED" \/ row.status = intent[i].status
    BY <1>1, <2>1 DEF RecordedRow, IntentRow, FinalStatus
  <2>3. intent[i].status # "SUCCEEDED" /\ order[o].payment # "PAID" BY <1>3 DEF CanRecord, Active
  <2>4. RecordedPayment(order[o].payment, kind) # "PAID" BY <2>3 DEF RecordedPayment
  <2> HIDE DEF row
  <2>5. /\ \A j \in Intents : j # i => intent'[j] = intent[j]
        /\ intent'[i] = row
        /\ \A q \in Orders \ {o} : order'[q] = order[q]
        /\ order'[o].payment # "PAID"
        /\ order'[o].status = order[o].status
        /\ order'[o].reservation = order[o].reservation
        /\ order'[o].resolution = order[o].resolution
    BY <1>1, <1>3, <2>4 DEF Rows, OrderRow
  <2>6. NothingPaid(o) BY <2>2, <2>3, <2>5 DEF NothingPaid, Paid, Of
  <2> QED BY <1>1, <2>3, <2>5, <2>6, UnpaidWrite, OneOrder
<1> QED BY <1>2, <1>3 DEF RecordProviderOutcome

--------------------------------
\* The event handler.  A payment makes i the one paid intent of its order.
LEMMA PaymentWrite ==
  ASSUME SalesAgree, Rows, SuccessStands, NEW i \in Intents, NEW o \in Orders, o = OrderOf(i),
         provider[i].state = "SUCCEEDED",
         NEW attempt \in {"SUCCEEDED", "SUCCEEDED_LATE"},
         \/ order[o].payment # "PAID"
         \/ Paid(i) /\ intent[i].attempt = attempt,
         intent' = [intent EXCEPT ![i] = PaidRow(intent[i], attempt)],
         order'[o].payment = "PAID",
         attempt = "SUCCEEDED" => ~provider[i].late,
         attempt = "SUCCEEDED_LATE" => refund'[o] # "NONE",
         refund[o] # "NONE" => refund'[o] # "NONE"
  PROVE  /\ IntentsAgree(o)'
         /\ \A j \in Intents : j # i => intent'[j] = intent[j]
         /\ intent'[i].attempt = attempt
<1>1. IntentsAgree(o) /\ Of(o)' = Of(o) /\ Of(o) \subseteq Intents /\ i \in Of(o)
  BY DEF SalesAgree, SaleAgrees, Of
<1>2. /\ \A j \in Intents : j # i => intent'[j] = intent[j]
      /\ intent'[i].attempt = attempt /\ intent'[i].status = "SUCCEEDED"
  BY DEF Rows, PaidRow, IntentRow
<1>3. \A j \in Of(o) : Paid(j) => j = i BY <1>1 DEF IntentsAgree
<1>4. \A j \in Of(o) : Paid(j)' <=> j = i BY <1>1, <1>2, <1>3 DEF Paid
<1>5. \A j \in Of(o) : intent'[j].status = "SUCCEEDED" <=> j = i  BY <1>1, <1>2, <1>3 DEF IntentsAgree
<1>6. \A j \in Of(o) : intent'[j].attempt \in {"SUCCEEDED", "SUCCEEDED_LATE"} <=> j = i  BY <1>4 DEF Paid
<1>7. provider'[i].state = "SUCCEEDED" /\ provider'[i].late = provider[i].late BY DEF SuccessStands
<1>8. IntentsAgree(o)' BY <1>1, <1>2, <1>4, <1>5, <1>6, <1>7 DEF IntentsAgree
<1> QED BY <1>2, <1>8

LEMMA FailureMoney ==
  ASSUME IInv, SalesAgree, SuccessStands, NEW p \in Procs, proc[p].pc = "apply",
         provider[proc[p].intent].state # "SUCCEEDED",
         FailureEvent(p, proc[p].intent, provider[proc[p].intent].state)
  PROVE  SalesAgree'
<1> DEFINE i == proc[p].intent
           o == OrderOf(i)
           result == provider[i].state
<1>1. result \in {"FAILED", "CANCELLED"} BY AppliedEvent DEF PaymentResults
<1>2. /\ Rows /\ i \in Intents /\ o \in Orders /\ intent[i] \in IntentRow /\ order[o] \in OrderRow
      /\ i \in Of(o)
  BY FitOf DEF IInv, Of
<1>3. IntentsAgree(o) BY <1>2 DEF SalesAgree, SaleAgrees
<1>4. UNCHANGED refund BY DEF FailureEvent
<1> HIDE DEF result
<1>5. CASE /\ intent[i].status = result /\ UNCHANGED order
           /\ intent' = [intent EXCEPT ![i].attempt = result]
  <2>1. /\ \A j \in Intents : j # i => intent'[j] = intent[j]
        /\ intent'[i].status = intent[i].status /\ intent'[i].attempt = result
    BY <1>2, <1>5 DEF Rows, IntentRow
  <2>2. ~Paid(i) BY <1>1, <1>2, <1>3, <1>5 DEF IntentsAgree
  <2>3. NothingPaid(o) BY <1>1, <2>1, <2>2 DEF NothingPaid, Paid, Of
  <2> QED BY <1>2, <1>4, <1>5, <2>1, <2>3, UnpaidWrite, OneOrder
<1>6. CASE /\ Undecided(i)
           /\ intent' = [intent EXCEPT ![i].status = result, ![i].attempt = result,
                                       ![i].sawSuccess = FALSE]
           /\ order' = [order EXCEPT ![o].payment = "UNPAID"]
  <2>1. /\ \A j \in Intents : j # i => intent'[j] = intent[j]
        /\ intent'[i].status = result /\ intent'[i].attempt = result
        /\ \A q \in Orders \ {o} : order'[q] = order[q]
        /\ order'[o].payment = "UNPAID"
        /\ order'[o].status = order[o].status
        /\ order'[o].reservation = order[o].reservation
        /\ order'[o].resolution = order[o].resolution
    BY <1>2, <1>6 DEF Rows, IntentRow, OrderRow
  <2>2. intent[i].attempt = "NONE" /\ intent[i].status # "SUCCEEDED" /\ order[o].payment # "PAID"
    BY <1>6 DEF Undecided, Active
  <2>3. NothingPaid(o) BY <1>1, <2>1, <2>2 DEF NothingPaid, Paid, Of
  <2> QED BY <1>2, <1>4, <2>1, <2>2, <2>3, UnpaidWrite, OneOrder
<1> QED BY <1>5, <1>6 DEF FailureEvent, result

LEMMA LateSuccessMoney ==
  ASSUME IInv, SalesAgree, SuccessStands, NEW p \in Procs, proc[p].pc = "apply",
         provider[proc[p].intent].state = "SUCCEEDED", LateSuccess(p, proc[p].intent)
  PROVE  SalesAgree'
<1> SUFFICES ASSUME NEW i \in Intents, i = proc[p].intent, NEW o \in Orders, o = OrderOf(i)
             PROVE  SalesAgree'
  BY FitOf
<1>1. /\ Rows /\ i \in Intents /\ o \in Orders /\ order[o] \in OrderRow /\ i \in Of(o)  BY DEF IInv, Of, Rows
<1>2. /\ IntentsAgree(o) /\ OrderAgrees(o)
      /\ order[o].status = "CLOSED" /\ order[o].payment = "UNPAID" /\ refund[o] = "NONE"
  BY <1>1 DEF SalesAgree, SaleAgrees, LateSuccess, ForClosedOrder, Refundable
<1>3. /\ intent' = [intent EXCEPT ![i] = PaidRow(intent[i], "SUCCEEDED_LATE")]
      /\ order'[o].payment = "PAID" /\ order'[o].resolution = "LATE_SUCCESS_REFUND_PENDING"
      /\ order'[o].status = order[o].status /\ order'[o].reservation = order[o].reservation
      /\ refund'[o] = "PENDING"
      /\ \A q \in Orders \ {o} : order'[q] = order[q] /\ refund'[q] = refund[q]
  BY <1>1 DEF LateSuccess, Rows, OrderRow
<1>4. /\ IntentsAgree(o)' /\ intent'[i].attempt = "SUCCEEDED_LATE"
      /\ \A j \in Intents : j # i => intent'[j] = intent[j]
  BY <1>1, <1>2, <1>3, PaymentWrite
<1>5. OrderAgrees(o)' /\ RefundAgrees(o)'
  BY <1>1, <1>2, <1>3, <1>4 DEF OrderAgrees, RefundAgrees, ResolutionOf, Of
<1> QED BY <1>1, <1>3, <1>4, <1>5, OneOrder DEF SaleAgrees

\* An order that is open and paid waits for a person; one that is settled
\* has its pieces taken.
LEMMA SettleMoney ==
  ASSUME IInv, SalesAgree, SuccessStands, NEW p \in Procs, proc[p].pc = "apply",
         provider[proc[p].intent].state = "SUCCEEDED",
         Settle(p, proc[p].intent) \/ WaitForManual(p, proc[p].intent)
  PROVE  SalesAgree'
<1> SUFFICES ASSUME NEW i \in Intents, i = proc[p].intent, NEW o \in Orders, o = OrderOf(i)
             PROVE  SalesAgree'
  BY FitOf
<1>1. /\ Rows /\ i \in Intents /\ o \in Orders /\ order[o] \in OrderRow /\ i \in Of(o)
      /\ UNCHANGED refund
  BY DEF IInv, Of, Rows, Settle, WaitForManual
<1>2. IntentsAgree(o) /\ OrderAgrees(o) /\ RefundAgrees(o) BY <1>1 DEF SalesAgree, SaleAgrees
<1>3. /\ order[o].status = "PENDING_PAYMENT"
      /\ order[o].payment # "PAID" \/ (Paid(i) /\ intent[i].attempt = "SUCCEEDED")
      /\ ~provider[i].late
  BY <1>1, <1>2 DEF Settle, WaitForManual, Payable, Compensable, Undecided, Paid, IntentsAgree
<1>4. refund[o] = "NONE" BY <1>2, <1>3 DEF RefundAgrees
<1>5. /\ intent' = [intent EXCEPT ![i] = PaidRow(intent[i], "SUCCEEDED")]
      /\ order'[o].payment = "PAID"
      /\ \/ order'[o].status = "PENDING_SHIPMENT" /\ order'[o].reservation = "CONSUMED"
         \/ order'[o].status = order[o].status /\ order'[o].reservation = order[o].reservation
      /\ \A q \in Orders \ {o} : order'[q] = order[q]
  <2>1. CASE Settle(p, i) BY <1>1, <2>1 DEF Settle, Rows, OrderRow
  <2>2. CASE WaitForManual(p, i) BY <1>1, <2>2 DEF WaitForManual, Rows, OrderRow
  <2> QED BY <2>1, <2>2
<1>6. /\ IntentsAgree(o)' /\ intent'[i].attempt = "SUCCEEDED"
      /\ \A j \in Intents : j # i => intent'[j] = intent[j]
  BY <1>1, <1>3, <1>4, <1>5, PaymentWrite
<1>7. OrderAgrees(o)' /\ RefundAgrees(o)'
  BY <1>1, <1>2, <1>3, <1>4, <1>5, <1>6 DEF OrderAgrees, RefundAgrees, Of
<1> QED BY <1>1, <1>5, <1>6, <1>7, OneOrder DEF SaleAgrees

LEMMA ApplyMoney ==
  ASSUME IInv, SalesAgree, SuccessStands, NEW p \in Procs, ApplyPaymentCallback(p)
  PROVE  SalesAgree'
<1> DEFINE i == proc[p].intent
<1>1. proc[p].pc = "apply" BY DEF ApplyPaymentCallback
<1>2. CASE UNCHANGED <<order, intent, refund>> BY <1>2, UntouchedMoney DEF Untouched
<1>3. CASE provider[i].state = "SUCCEEDED" /\ SuccessEvent(p, i)
  BY <1>1, <1>2, <1>3, LateSuccessMoney, SettleMoney DEF SuccessEvent, LateReplay, SettledReplay
<1>4. CASE provider[i].state # "SUCCEEDED" /\ FailureEvent(p, i, provider[i].state)
  BY <1>1, <1>4, FailureMoney
<1> QED BY <1>2, <1>3, <1>4 DEF ApplyPaymentCallback

\* The refund transactions write the refund and the resolution together,
\* for an order that has a refund.
LEMMA RefundMoney ==
  ASSUME IInv, SalesAgree, SuccessStands, NEW p \in Procs,
         ClaimLateRefund(p) \/ FinalizeLateRefund(p) \/ RetryLateRefund(p)
  PROVE  SalesAgree'
<1> SUFFICES ASSUME NEW o \in Orders, o = OrderOf(proc[p].intent)
             PROVE  SalesAgree'
  <2>1. proc[p].pc # "idle" BY DEF ClaimLateRefund, FinalizeLateRefund, RetryLateRefund
  <2> QED BY <2>1, FitOf
<1>1. /\ Rows /\ o \in Orders /\ order[o] \in OrderRow /\ UNCHANGED intent
  BY DEF IInv, Rows, ClaimLateRefund, FinalizeLateRefund, RetryLateRefund
<1>2. CASE UNCHANGED <<order, refund>> BY <1>1, <1>2, UntouchedMoney DEF Untouched
<1>3. CASE /\ refund[o] # "NONE"
           /\ \E status \in RefundStatus \ {"NONE"} :
                /\ refund' = [refund EXCEPT ![o] = status]
                /\ \/ order' = [order EXCEPT ![o].resolution = ResolutionOf(status)]
                   \/ order' = order /\ ResolutionOf(status) = ResolutionOf(refund[o])
  <2>1. PICK status \in RefundStatus \ {"NONE"} :
          /\ refund' = [refund EXCEPT ![o] = status]
          /\ \/ order' = [order EXCEPT ![o].resolution = ResolutionOf(status)]
             \/ order' = order /\ ResolutionOf(status) = ResolutionOf(refund[o])
    BY <1>3
  <2>2. IntentsAgree(o) /\ OrderAgrees(o) /\ RefundAgrees(o) /\ Of(o)' = Of(o) /\ Of(o) \subseteq Intents
    BY <1>1 DEF SalesAgree, SaleAgrees, Of
  <2>3. /\ refund'[o] = status
        /\ order'[o].resolution = ResolutionOf(status)
        /\ order'[o].payment = order[o].payment
        /\ order'[o].status = order[o].status
        /\ order'[o].reservation = order[o].reservation
        /\ \A q \in Orders \ {o} : order'[q] = order[q] /\ refund'[q] = refund[q]
    BY <1>1, <1>3, <2>1, <2>2 DEF Rows, OrderRow, RefundAgrees
  <2>4. IntentsAgree(o)' /\ OrderAgrees(o)' /\ RefundAgrees(o)'
    BY <1>1, <1>3, <2>2, <2>3 DEF IntentsAgree, OrderAgrees, RefundAgrees, Paid, SuccessStands, ResolutionOf
  <2> QED BY <1>1, <2>3, <2>4, OneOrder DEF SaleAgrees
<1>4. CASE ClaimLateRefund(p) BY <1>2, <1>3, <1>4 DEF ClaimLateRefund, ResolutionOf, RefundStatus
<1>5. CASE FinalizeLateRefund(p)
  BY <1>2, <1>3, <1>5 DEF FinalizeLateRefund, RefundOutcome, ResolutionOf, RefundStatus
<1>6. CASE RetryLateRefund(p) BY <1>2, <1>3, <1>6 DEF RetryLateRefund, ResolutionOf, RefundStatus
<1> QED BY <1>4, <1>5, <1>6

LEMMA QuietMoney ==
  ASSUME SalesAgree, SuccessStands, UNCHANGED <<order, intent, refund>>
  PROVE  SalesAgree'
BY UntouchedMoney DEF Untouched

LEMMA ContinueMoney ==
  ASSUME IInv, SalesAgree, SuccessStands, NEW p \in Procs, Continue(p)
  PROVE  SalesAgree'
<1>1. CASE \/ QueryProvider(p) \/ CreateAtProvider(p) \/ CloseAtProvider(p) \/ RefundAtProvider(p)
           \/ RevalidateProviderCreate(p) \/ MarkProcessed(p)
           \/ ReceiveForReconciliation(p) \/ RequeueCallback(p)
  BY <1>1, QuietMoney DEF QueryProvider, CreateAtProvider, CloseAtProvider, RefundAtProvider,
    RevalidateProviderCreate, MarkProcessed, ReceiveForReconciliation, RequeueCallback
<1>2. CASE RecordProviderOutcome(p) \/ FinalizeOrderClose(p) \/ RepairTerminalClose(p)
  BY <1>2, RecordMoney, FinalizeMoney, RepairMoney
<1>3. CASE ApplyPaymentCallback(p) BY <1>3, ApplyMoney
<1>4. CASE ClaimLateRefund(p) \/ FinalizeLateRefund(p) \/ RetryLateRefund(p) BY <1>4, RefundMoney
<1> QED BY <1>1, <1>2, <1>3, <1>4 DEF Continue

LEMMA MoneyStep ==
  ASSUME IInv, SalesAgree, Next
  PROVE  SalesAgree'
<1>0. SuccessStands BY ProviderStands
<1>1. CASE World
  <2>1. ASSUME NEW o \in Orders, CreateOrder(o) PROVE SalesAgree'
    BY <1>0, <2>1, CreateMoney
  <2>2. ASSUME UNCHANGED <<order, intent, refund>> PROVE SalesAgree'
    BY <1>0, <2>2, QuietMoney
  <2> QED
    BY <1>1, <2>1, <2>2 DEF World, ExpiryPasses, SubmitResult, DeliverResult, AbandonedCommandRuns
<1>2. ASSUME NEW p \in Payers, Pay(p) PROVE SalesAgree'
  BY <1>0, <1>2, PrepareMoney DEF Pay, Procs
<1>3. ASSUME NEW p \in Cancellers, Cancel(p) PROVE SalesAgree'
  <2>1. p \in Procs /\ "USER_CANCELLED" \in CloseMode BY DEF Procs, CloseMode
  <2> QED BY <1>0, <1>3, <2>1, ClaimMoney DEF Cancel, CancelOrder
<1>4. ASSUME NEW p \in TimeoutWorkers, NEW o \in Orders, Timeout(p, o) PROVE SalesAgree'
  <2>1. p \in Procs /\ "PAYMENT_TIMEOUT" \in CloseMode BY DEF Procs, CloseMode
  <2> QED BY <1>0, <1>4, <2>1, ClaimMoney DEF Timeout, ClaimNextOrderClose
<1>5. ASSUME NEW p \in Admins, Reconcile(p) PROVE SalesAgree'
  BY <1>0, <1>5, QuietMoney DEF Reconcile, StartReconciliation
<1>6. ASSUME NEW p \in CallbackWorkers, NEW i \in Intents, TakeCallback(p, i) PROVE SalesAgree'
  BY <1>0, <1>6, QuietMoney DEF TakeCallback
<1>7. ASSUME NEW p \in Procs, Continue(p) PROVE SalesAgree'
  BY <1>0, <1>7, ContinueMoney
<1>8. ASSUME NEW p \in Procs, CallTimesOut(p) \/ Crash(p) PROVE SalesAgree'
  BY <1>0, <1>8, QuietMoney DEF CallTimesOut, Crash
<1> QED BY <1>1, <1>2, <1>3, <1>4, <1>5, <1>6, <1>7, <1>8 DEF Next

LEMMA MoneyStutters ==
  ASSUME SalesAgree, UNCHANGED vars
  PROVE  SalesAgree'
BY QuietMoney DEF vars, SuccessStands

LEMMA MoneyAtFirst ==
  ASSUME Init
  PROVE  SalesAgree
<1> SUFFICES ASSUME NEW o \in Orders PROVE SaleAgrees(o)
  BY DEF SalesAgree
<1>1. /\ order[o] = NoOrder /\ refund[o] = "NONE"
      /\ \A i \in Of(o) : intent[i] = NoIntentRow
  BY DEF Init, Of
<1> QED BY <1>1 DEF SaleAgrees, IntentsAgree, OrderAgrees, RefundAgrees, NoOrder, NoIntentRow, Paid

LEMMA MoneyAlways == Spec => [](IInv /\ SalesAgree)
<1>1. Init => IInv /\ SalesAgree BY InitHolds, MoneyAtFirst
<1>2. IInv /\ SalesAgree /\ [Next]_vars => (IInv /\ SalesAgree)'
  BY NextHolds, StutterHolds, MoneyStep, MoneyStutters
<1> QED BY <1>1, <1>2, PTL DEF Spec

\* An order is PAID exactly when one of its intents, and only one, has a
\* successful attempt, with money the provider holds (the callback handler
\* under redelivery and replay, closes, reconciliation).
THEOREM PaidOnce == Spec => []PaidExactlyOnce
<1>1. IInv /\ SalesAgree => PaidExactlyOnce
  <2> SUFFICES ASSUME IInv, SalesAgree, NEW o \in Orders
               PROVE  /\ order[o].payment = "PAID" <=> PaidOf(o) # {}
                      /\ \A i, j \in PaidOf(o) : i = j
                      /\ \A i \in PaidOf(o) : /\ provider[i].state = "SUCCEEDED"
                                              /\ intent[i].status = "SUCCEEDED"
    BY DEF PaidExactlyOnce
  <2>1. PaidOf(o) = {i \in Of(o) : Paid(i)} BY IntentsOfOrder DEF PaidOf
  <2>2. IntentsAgree(o) BY DEF SalesAgree, SaleAgrees
  <2> QED BY <2>1, <2>2 DEF IntentsAgree
<1> QED BY <1>1, MoneyAlways, PTL

\* Goods leave only for money paid before the order expired, and an order
\* that gave its stock back is closed (settlement, the three closes).
THEOREM GoodsForMoney == Spec => []GoodsOnlyForMoney
<1>1. IInv /\ SalesAgree => GoodsOnlyForMoney
  <2> SUFFICES ASSUME IInv, SalesAgree, NEW o \in Orders
               PROVE  /\ order[o].reservation = "CONSUMED" <=> order[o].status = "PENDING_SHIPMENT"
                      /\ order[o].reservation = "CONSUMED" =>
                           \E i \in PaidOf(o) : intent[i].attempt = "SUCCEEDED" /\ ~provider[i].late
                      /\ order[o].reservation \in {"RELEASED", "EXPIRED"}
                           <=> order[o].status = "CLOSED"
    BY DEF GoodsOnlyForMoney
  <2>1. PaidOf(o) = {i \in Of(o) : Paid(i)} BY IntentsOfOrder DEF PaidOf
  <2>2. IntentsAgree(o) /\ OrderAgrees(o) BY DEF SalesAgree, SaleAgrees
  <2>3. order[o].status \in OrderStatus /\ order[o].reservation \in ReservationStatus
    BY DEF IInv, Rows, OrderRow
  <2> QED BY <2>1, <2>2, <2>3 DEF IntentsAgree, OrderAgrees, OrderStatus, ReservationStatus, Paid
<1> QED BY <1>1, MoneyAlways, PTL

--------------------------------
\* Outcomes.

\* What OutcomeIsFinal says of a step.
OutcomeKept(o) ==
  order[o].status \in {"CLOSED", "PENDING_SHIPMENT"} =>
    /\ order'[o].status = order[o].status
    /\ order'[o].closeReason = order[o].closeReason
    /\ order'[o].reservation = order[o].reservation
    /\ order[o].payment = "PAID" => order'[o].payment = "PAID"
OutcomesKept == \A o \in Orders : OutcomeKept(o)

\* A step that writes the rows of no order but o, which is open, not yet
\* there, or gets another payment or resolution only.
LEMMA OneOrderWritten ==
  ASSUME Rows, NEW o,
         \A q \in Orders \ {o} : order'[q] = order[q],
         \/ order[o].status \in {"NONE", "PENDING_PAYMENT"}
         \/ OutcomeKept(o)
  PROVE  OutcomesKept
BY DEF OutcomesKept, OutcomeKept, Rows

LEMMA OrdersStand ==
  ASSUME UNCHANGED order
  PROVE  OutcomesKept
BY DEF OutcomesKept, OutcomeKept

LEMMA ApplyKeepsOutcomes ==
  ASSUME IInv, NEW p \in Procs, ApplyPaymentCallback(p)
  PROVE  OutcomesKept
<1> SUFFICES ASSUME NEW i \in Intents, i = proc[p].intent, NEW o \in Orders, o = OrderOf(i)
             PROVE  OutcomesKept
  <2>1. proc[p].pc # "idle" BY DEF ApplyPaymentCallback
  <2> QED BY <2>1, FitOf
<1>1. Rows BY DEF IInv
<1>2. CASE UNCHANGED order BY <1>2, OrdersStand
<1>3. CASE LateSuccess(p, i)
  <2>1. /\ \A q \in Orders \ {o} : order'[q] = order[q]
        /\ order'[o].status = order[o].status
        /\ order'[o].closeReason = order[o].closeReason
        /\ order'[o].reservation = order[o].reservation
        /\ order'[o].payment = "PAID"
    BY <1>1, <1>3 DEF LateSuccess, Rows, OrderRow
  <2> QED BY <1>1, <2>1, OneOrderWritten DEF OutcomeKept
<1>4. CASE Settle(p, i) \/ WaitForManual(p, i)
  <2>1. order[o].status = "PENDING_PAYMENT"
    BY <1>4 DEF Settle, WaitForManual, Payable, Compensable, Undecided
  <2>2. \A q \in Orders \ {o} : order'[q] = order[q] BY <1>1, <1>4 DEF Settle, WaitForManual, Rows
  <2> QED BY <1>1, <2>1, <2>2, OneOrderWritten
<1>5. CASE FailureEvent(p, i, provider[i].state)
  <2>1. CASE Undecided(i) /\ order' = [order EXCEPT ![o].payment = "UNPAID"]
    BY <1>1, <2>1, OneOrderWritten DEF Undecided, Rows
  <2> QED BY <1>2, <1>5, <2>1 DEF FailureEvent
<1> QED BY <1>2, <1>3, <1>4, <1>5 DEF ApplyPaymentCallback, SuccessEvent, LateReplay, SettledReplay

LEMMA CloseKeepsOutcomes ==
  ASSUME Rows, NEW o, NEW mode, OpenForPayment(o), CloseLockedOrder(o, mode)
  PROVE  OutcomesKept
BY OneOrderWritten DEF OpenForPayment, CloseLockedOrder, Rows

LEMMA ResolvedKeepsOutcomes ==
  ASSUME Rows, NEW o \in Orders, NEW resolution,
         order' = [order EXCEPT ![o].resolution = resolution]
  PROVE  OutcomesKept
<1>1. /\ \A q \in Orders \ {o} : order'[q] = order[q]
      /\ order'[o].status = order[o].status
      /\ order'[o].closeReason = order[o].closeReason
      /\ order'[o].reservation = order[o].reservation
      /\ order'[o].payment = order[o].payment
  BY DEF Rows, OrderRow
<1> QED BY <1>1, OneOrderWritten DEF OutcomeKept

LEMMA StepKeepsOutcomes ==
  ASSUME IInv, Next
  PROVE  OutcomesKept
<1>0. Rows BY DEF IInv
<1>1. ASSUME NEW o \in Orders, CreateOrder(o) PROVE OutcomesKept
  BY <1>0, <1>1, OneOrderWritten DEF CreateOrder, Rows
<1>2. CASE World
  BY <1>1, <1>2, OrdersStand DEF World, ExpiryPasses, SubmitResult, DeliverResult, AbandonedCommandRuns
<1>3. ASSUME NEW p, NEW o, \/ \E mode \in CloseMode : ClaimOrderClose(p, o, mode)
                           \/ ExpireNextOrder(p, o)
      PROVE  OutcomesKept
  BY <1>0, <1>3, OrdersStand, CloseKeepsOutcomes DEF ClaimOrderClose, ExpireNextOrder, Closable
<1>4. ASSUME NEW p \in Procs, FinalizeOrderClose(p) PROVE OutcomesKept
  <2>1. CASE UNCHANGED order BY <2>1, OrdersStand
  <2>2. CASE CanFinalize(p, proc[p].intent) /\ FinishClose(p, proc[p].intent)
    BY <1>0, <2>2, CloseKeepsOutcomes DEF CanFinalize, FinishClose, Closable
  <2> QED BY <1>4, <2>1, <2>2 DEF FinalizeOrderClose, KeepPending
<1>5. ASSUME NEW p \in Procs, RepairTerminalClose(p) PROVE OutcomesKept
  BY <1>0, <1>5, OrdersStand, CloseKeepsOutcomes DEF RepairTerminalClose, Closable
<1>6. ASSUME NEW p \in Procs, RecordProviderOutcome(p) PROVE OutcomesKept
  <2> DEFINE i == proc[p].intent
             kind == OutcomeKind(p, proc[p].seen)
  <2>1. CASE UNCHANGED order BY <2>1, OrdersStand
  <2>2. CASE /\ CanRecord(p, i, kind, proc[p].seen)
             /\ order' = [order EXCEPT ![OrderOf(i)].payment = RecordedPayment(@, kind)]
    BY <1>0, <2>2, OneOrderWritten DEF CanRecord, OpenForPayment, Rows
  <2> QED BY <1>6, <2>1, <2>2 DEF RecordProviderOutcome
<1>7. ASSUME NEW p \in Procs, ClaimLateRefund(p) \/ FinalizeLateRefund(p) \/ RetryLateRefund(p)
      PROVE  OutcomesKept
  <2>1. OrderOf(proc[p].intent) \in Orders
    <3>1. proc[p].pc # "idle" BY <1>7 DEF ClaimLateRefund, FinalizeLateRefund, RetryLateRefund
    <3> QED BY <3>1, FitOf
  <2> QED BY <1>0, <1>7, <2>1, OrdersStand, ResolvedKeepsOutcomes DEF ClaimLateRefund, FinalizeLateRefund,
     RetryLateRefund
<1>8. ASSUME NEW p \in Procs, Continue(p) PROVE OutcomesKept
  BY <1>4, <1>5, <1>6, <1>7, <1>8, ApplyKeepsOutcomes, OrdersStand DEF Continue, QueryProvider,
    CreateAtProvider, CloseAtProvider, RefundAtProvider, RevalidateProviderCreate, MarkProcessed,
    ReceiveForReconciliation, RequeueCallback
<1>9. ASSUME NEW p, NEW o, Timeout(p, o) PROVE OutcomesKept
  <2>1. "PAYMENT_TIMEOUT" \in CloseMode BY DEF CloseMode
  <2> QED BY <1>3, <1>9, <2>1 DEF Timeout, ClaimNextOrderClose
<1>10. ASSUME NEW p, Cancel(p) PROVE OutcomesKept
  <2>1. "USER_CANCELLED" \in CloseMode BY DEF CloseMode
  <2> QED BY <1>3, <1>10, <2>1 DEF Cancel, CancelOrder
<1>11. ASSUME NEW p, \/ Pay(p) \/ Reconcile(p) \/ CallTimesOut(p) \/ Crash(p)
                     \/ \E i \in Intents : TakeCallback(p, i)
       PROVE  OutcomesKept
  BY <1>11, OrdersStand
    DEF Pay, PreparePaymentIntent, Reconcile, StartReconciliation, CallTimesOut, Crash, TakeCallback
<1> QED BY <1>2, <1>8, <1>9, <1>10, <1>11 DEF Next

\* An order that was closed or sold stays so, with its reason, and a
\* settled order keeps its money (every transaction that writes orders).
THEOREM OutcomesAreFinal == Spec => OutcomeIsFinal
<1>1. IInv /\ [Next]_vars => [OutcomesKept]_vars BY StepKeepsOutcomes
<1>2. Spec => [][OutcomesKept]_vars BY <1>1, Invariance, PTL DEF Spec
<1> QED BY <1>2 DEF OutcomeIsFinal, OutcomesKept, OutcomeKept

--------------------------------
\* Refunds.  A refund is asked of the provider only for an order that has
\* one, and is called done only once the provider ran it.

AtRefund == {"refund", "finalize_refund"}

RefundKnown(q) ==
  proc[q].pc \in AtRefund =>
    /\ refund[OrderOf(proc[q].intent)] # "NONE"
    /\ proc[q].pc = "finalize_refund" /\ proc[q].seen = "SUCCEEDED"
         => returned[OrderOf(proc[q].intent)]

RefundReal(o) ==
  /\ returned[o] => refund[o] # "NONE"
  /\ refund[o] = "SUCCEEDED" => returned[o]

Refunding ==
  /\ \A o \in Orders : RefundReal(o)
  /\ \A i \in Intents : <<"REFUND", i>> \in wire => refund[OrderOf(i)] # "NONE"
  /\ \A q \in Procs : RefundKnown(q)

\* Nobody comes to a refund step that was not there.
NoNewRefunder == \A q \in Procs :
  proc'[q].pc \in AtRefund =>
    /\ proc'[q].pc = proc[q].pc
    /\ proc'[q].intent = proc[q].intent
    /\ proc'[q].seen = proc[q].seen

\* A refund row is never deleted, and no refund is run.
RefundsStand ==
  /\ UNCHANGED returned
  /\ \A o \in Orders : /\ refund[o] # "NONE" => refund'[o] # "NONE"
                       /\ refund'[o] = "SUCCEEDED" => refund[o] = "SUCCEEDED"
  /\ \A i \in Intents : <<"REFUND", i>> \in wire' => <<"REFUND", i>> \in wire

LEMMA QuietRefunds ==
  ASSUME IInv, Refunding, RefundsStand, NoNewRefunder
  PROVE  Refunding'
<1>1. ASSUME NEW o \in Orders PROVE RefundReal(o)'
  BY DEF Refunding, RefundsStand, RefundReal
<1>2. ASSUME NEW i \in Intents, <<"REFUND", i>> \in wire' PROVE refund'[OrderOf(i)] # "NONE"
  <2>1. OrderOf(i) \in Orders BY DEF Intents, OrderOf
  <2> QED BY <1>2, <2>1 DEF Refunding, RefundsStand
<1>3. ASSUME NEW q \in Procs PROVE RefundKnown(q)'
  <2> SUFFICES ASSUME proc'[q].pc \in AtRefund
               PROVE  /\ refund'[OrderOf(proc'[q].intent)] # "NONE"
                      /\ proc'[q].pc = "finalize_refund" /\ proc'[q].seen = "SUCCEEDED"
                           => returned'[OrderOf(proc'[q].intent)]
    BY DEF RefundKnown
  <2>1. /\ proc'[q].pc = proc[q].pc
        /\ proc'[q].intent = proc[q].intent
        /\ proc'[q].seen = proc[q].seen
    BY DEF NoNewRefunder
  <2>2. OrderOf(proc[q].intent) \in Orders BY <2>1, FitOf DEF AtRefund
  <2> QED BY <2>1, <2>2 DEF Refunding, RefundKnown, RefundsStand
<1> QED BY <1>1, <1>2, <1>3 DEF Refunding

\* The ways a process row is written.
LEMMA NobodyMoves ==
  ASSUME UNCHANGED proc
  PROVE  NoNewRefunder
BY DEF NoNewRefunder

\* Process p alone goes to a row of its own, which is no refund step; the
\* views of others may go stale.
LEMMA OneMoves ==
  ASSUME Rows, NEW p \in Procs, Moves(p), proc'[p].pc \notin AtRefund
  PROVE  NoNewRefunder
<1> SUFFICES ASSUME NEW q \in Procs, proc'[q].pc \in AtRefund
             PROVE  /\ proc'[q].pc = proc[q].pc
                    /\ proc'[q].intent = proc[q].intent
                    /\ proc'[q].seen = proc[q].seen
  BY DEF NoNewRefunder
<1>1. SameWork(proc[q], proc'[q]) BY DEF Moves
<1> QED BY <1>1, SameWorkFacts DEF AtRefund

LEMMA ReturnsOrGoesOn ==
  ASSUME Rows, NEW p \in Procs, proc[p].pc # "idle",
         NEW pc \in Pc \ AtRefund, Return(p) \/ Goto(p, pc)
  PROVE  NoNewRefunder
<1>1. CASE Return(p) BY <1>1, ReturnMoves, OneMoves DEF Idle, AtRefund
<1>2. CASE Goto(p, pc) BY <1>2, GotoMoves, OneMoves
<1> QED BY <1>1, <1>2

LEMMA WritesIntent ==
  ASSUME Rows, NEW p \in Procs, NEW i, NEW row \in ProcRow, row.pc \notin AtRefund,
         proc' = [IntentBumped(i) EXCEPT ![p] = row]
  PROVE  NoNewRefunder
<1>1. \A q \in IntentHolders(i) : proc[q].pc # "idle" BY IntentHoldersWork
<1>2. proc' = [StaleViews(IntentHolders(i)) EXCEPT ![p] = row] BY DEF IntentBumped
<1>3. Moves(p) /\ proc'[p] = row BY <1>1, <1>2, MoveToBumped
<1> QED BY <1>3, OneMoves

LEMMA StartsWork ==
  ASSUME Rows, NEW p \in Procs, NEW i \in Intents, NEW pc \in Pc \ AtRefund, NEW task \in Task,
         proc' = [proc EXCEPT ![p] = Doing(i, pc, task)]
  PROVE  NoNewRefunder
<1>1. Starts(p, i, pc, task) BY DEF Starts
<1>2. Moves(p) /\ proc'[p].pc = pc BY <1>1, MoveToDoing
<1> QED BY <1>2, OneMoves

LEMMA WritesIntentAndStarts ==
  ASSUME Rows, NEW p \in Procs, NEW i \in Intents, NEW pc \in Pc \ AtRefund, NEW task \in Task,
         proc' = [IntentBumped(i) EXCEPT ![p] = Doing(i, pc, task)]
  PROVE  NoNewRefunder
<1> DEFINE row == Doing(i, pc, task)
<1>1. row \in ProcRow /\ row.pc = pc BY DoingRow
<1> HIDE DEF row
<1>2. proc' = [IntentBumped(i) EXCEPT ![p] = row] BY DEF row
<1> QED BY <1>1, <1>2, WritesIntent

\* The transactions that do not touch a refund.
LEMMA OrderRefunders ==
  ASSUME IInv, NEW p \in Procs, NEW o \in Orders,
         \/ PreparePaymentIntent(p, o)
         \/ \E mode \in CloseMode : ClaimOrderClose(p, o, mode)
         \/ ExpireNextOrder(p, o)
  PROVE  NoNewRefunder
<1>1. Rows /\ IntentsOf(o) \subseteq Intents BY DEF IInv, IntentsOf, Intents
<1>2. /\ {"query", "create", "close"} \subseteq Pc \ AtRefund
      /\ {"CREATE", "CLOSE"} \subseteq Task
  BY DEF Pc, IntentPc, AtRefund, Task
<1>3. CASE UNCHANGED proc BY <1>3, NobodyMoves
<1>4. CASE \E i \in IntentsOf(o), pc \in {"query", "create", "close"}, task \in {"CREATE", "CLOSE"} :
             proc' = [proc EXCEPT ![p] = Doing(i, pc, task)]
  BY <1>1, <1>2, <1>4, StartsWork
<1>5. CASE \E i \in IntentsOf(o), pc \in {"query", "close"} :
             proc' = [IntentBumped(i) EXCEPT ![p] = Doing(i, pc, "CLOSE")]
  BY <1>1, <1>2, <1>5, WritesIntentAndStarts
<1>6. CASE PreparePaymentIntent(p, o) BY <1>4, <1>6 DEF PreparePaymentIntent, ActiveOf
<1>7. ASSUME NEW mode, ClaimOrderClose(p, o, mode) PROVE NoNewRefunder
  <2>1. CASE UNCHANGED proc BY <1>3, <2>1
  <2>2. ASSUME NEW i \in IntentsOf(o), NEW pc \in {"query", "close"},
               proc' = [(IF intent[i].status = "CLOSE_PENDING" THEN proc ELSE IntentBumped(i))
                          EXCEPT ![p] = Doing(i, pc, "CLOSE")]
        PROVE  NoNewRefunder
    BY <1>4, <1>5, <2>2
  <2> QED BY <1>7, <2>1, <2>2 DEF ClaimOrderClose, ActiveOf
<1>8. CASE ExpireNextOrder(p, o) BY <1>3, <1>8 DEF ExpireNextOrder
<1> QED BY <1>6, <1>7, <1>8

LEMMA IntentRefunders ==
  ASSUME IInv, NEW p \in Procs, RecordProviderOutcome(p) \/ FinalizeOrderClose(p)
  PROVE  NoNewRefunder
<1> SUFFICES ASSUME NEW i \in Intents, i = proc[p].intent, proc[p].pc # "idle"
             PROVE  NoNewRefunder
  <2>1. proc[p].pc # "idle" BY DEF RecordProviderOutcome, FinalizeOrderClose
  <2> QED BY <2>1, FitOf
<1>1. Rows /\ Idle \in ProcRow /\ Idle.pc \notin AtRefund BY WorkingIsRow DEF IInv, Idle, AtRefund
<1>2. "requeue" \in Pc \ AtRefund /\ "CLOSE" \in Task BY DEF Pc, AtRefund, Task
<1>3. CASE Return(p) BY <1>1, <1>2, <1>3, ReturnsOrGoesOn
<1>4. CASE proc' = [IntentBumped(i) EXCEPT ![p] = Idle] BY <1>1, <1>4, WritesIntent
<1>5. CASE proc' = [IntentBumped(i) EXCEPT ![p] = Doing(i, "requeue", "CLOSE")]
  BY <1>1, <1>2, <1>5, WritesIntentAndStarts
<1>6. CASE RecordProviderOutcome(p) BY <1>3, <1>4, <1>6 DEF RecordProviderOutcome
<1>7. CASE FinalizeOrderClose(p)  BY <1>3, <1>4, <1>5, <1>7 DEF FinalizeOrderClose, KeepPending, FinishClose
<1> QED BY <1>6, <1>7

LEMMA ApplyRefunders ==
  ASSUME IInv, NEW p \in Procs, ApplyPaymentCallback(p)
  PROVE  NoNewRefunder /\ RefundsStand
<1> SUFFICES ASSUME NEW i \in Intents, i = proc[p].intent, NEW o \in Orders, o = OrderOf(i),
                    proc[p].pc # "idle"
             PROVE  NoNewRefunder /\ RefundsStand
  <2>1. proc[p].pc # "idle" BY DEF ApplyPaymentCallback
  <2> QED BY <2>1, FitOf
<1>0. UNCHANGED <<returned, wire>> BY DEF ApplyPaymentCallback, outside
<1>1. Rows BY DEF IInv
<1>2. "mark" \in Pc \ AtRefund /\ "claim_refund" \in Pc \ AtRefund /\ "CALLBACK" \in Task
  BY DEF Pc, RefundPc, AtRefund, Task
<1>3. ASSUME Return(p) \/ Goto(p, "mark")
      PROVE  NoNewRefunder
  BY <1>1, <1>2, <1>3, ReturnsOrGoesOn
<1>4. ASSUME proc' = [proc EXCEPT ![p] = Doing(i, "claim_refund", "CALLBACK")]
      PROVE  NoNewRefunder
  BY <1>1, <1>2, <1>4, StartsWork
<1>5. ASSUME proc' = [IntentBumped(i) EXCEPT ![p] = Doing(i, "claim_refund", "CALLBACK")]
      PROVE  NoNewRefunder
  BY <1>1, <1>2, <1>5, WritesIntentAndStarts
<1>6. ASSUME proc' = [IntentBumped(i) EXCEPT ![p].pc = "mark"]
      PROVE  NoNewRefunder
  <2>1. Moves(p) /\ proc'[p].pc = "mark" BY <1>1, <1>6, BumpedToMark
  <2> QED BY <1>1, <1>2, <2>1, OneMoves
<1>7. ASSUME proc' = [(IF Payable(i) THEN IntentBumped(i) ELSE proc) EXCEPT ![p].pc = "mark"]
      PROVE  NoNewRefunder
  BY <1>3, <1>6, <1>7 DEF Goto
<1>8. NoNewRefunder
  BY <1>3, <1>4, <1>5, <1>6, <1>7 DEF ApplyPaymentCallback, HandlerFails, SuccessEvent, LateSuccess,
    LateReplay, Settle, WaitForManual, SettledReplay, FailureEvent
<1>9. ASSUME UNCHANGED refund
      PROVE  RefundsStand
  BY <1>0, <1>9 DEF RefundsStand
<1>10. ASSUME LateSuccess(p, i)
      PROVE  RefundsStand
  <2>1. refund[o] = "NONE" /\ refund' = [refund EXCEPT ![o] = "PENDING"]  BY <1>10 DEF LateSuccess, Refundable
  <2> QED BY <1>0, <1>1, <2>1 DEF RefundsStand, Rows
<1>11. RefundsStand
  BY <1>9, <1>10 DEF ApplyPaymentCallback, SuccessEvent, LateReplay, Settle, WaitForManual, SettledReplay,
    FailureEvent
<1> QED BY <1>8, <1>11

LEMMA ProviderRefunders ==
  ASSUME IInv, NEW p \in Procs, QueryProvider(p) \/ CreateAtProvider(p) \/ CloseAtProvider(p)
  PROVE  NoNewRefunder
<1>1. Rows BY DEF IInv
<1>2. ASSUME NEW pc \in (Pc \cup {"idle"}) \ AtRefund, NEW seen \in ProviderState,
             Learn(p, pc, seen), proc[p].pc # "idle"
      PROVE  NoNewRefunder
  BY <1>1, <1>2, LearnMoves, OneMoves
<1>3. CASE QueryProvider(p)
  <2>0. proc[p].pc = "query" BY <1>3 DEF QueryProvider
  <2>1. /\ proc[p].pc = "query" /\ provider[proc[p].intent].state \in ProviderState
        /\ proc[p].task \in {"CREATE", "CLOSE", "INTENT", "SETTLEMENT"}
    BY <2>0, FitOf DEF ProviderRow, Fit
  <2>2. AfterQuery(proc[p].task, provider[proc[p].intent].state) \in (Pc \cup {"idle"}) \ AtRefund
    BY <2>1 DEF AfterQuery, Pc, IntentPc, AtRefund
  <2> QED BY <1>2, <1>3, <2>1, <2>2 DEF QueryProvider
<1>4. CASE CreateAtProvider(p) \/ CloseAtProvider(p)
  <2>0. proc[p].pc # "idle" BY <1>4 DEF CreateAtProvider, CloseAtProvider
  <2>1. proc[p].pc # "idle" /\ provider[proc[p].intent].state \in ProviderState
    BY <2>0, FitOf DEF ProviderRow
  <2>2. /\ AfterCreate(provider[proc[p].intent].state) \in ProviderState
        /\ AfterClose(provider[proc[p].intent].state) \in ProviderState
        /\ {"record", "finalize_close"} \subseteq (Pc \cup {"idle"}) \ AtRefund
    BY <2>1, ProviderAnswers DEF Pc, IntentPc, AtRefund
  <2> QED BY <1>2, <1>4, <2>1, <2>2 DEF CreateAtProvider, CloseAtProvider
<1> QED BY <1>3, <1>4

LEMMA StartRefunders ==
  ASSUME IInv, NEW p \in Procs, NEW i \in Intents,
         StartReconciliation(p, i) \/ TakeCallback(p, i)
  PROVE  NoNewRefunder
<1>1. PICK pc \in {"claim_refund", "retry_refund", "query", "repair", "apply"},
           task \in {"LATE_REFUND", "CLOSE", "INTENT", "SETTLEMENT", "CALLBACK"} :
        proc' = [proc EXCEPT ![p] = Doing(i, pc, task)]
  BY DEF StartReconciliation, TakeCallback
<1>2. pc \in Pc \ AtRefund /\ task \in Task /\ Rows  BY DEF Pc, IntentPc, RefundPc, Task, IInv, AtRefund
<1> QED BY <1>1, <1>2, StartsWork

LEMMA OtherRefunders ==
  ASSUME IInv, NEW p \in Procs, proc[p].pc # "idle",
         \/ RevalidateProviderCreate(p) \/ MarkProcessed(p) \/ ReceiveForReconciliation(p)
         \/ RequeueCallback(p) \/ RepairTerminalClose(p) \/ Crash(p)
  PROVE  NoNewRefunder
<1>1. {"create", "requeue"} \subseteq Pc \ AtRefund /\ Rows BY DEF Pc, IntentPc, AtRefund, IInv
<1>2. Return(p) \/ Goto(p, "create") \/ Goto(p, "requeue")
  BY DEF RevalidateProviderCreate, MarkProcessed, ReceiveForReconciliation, RequeueCallback,
    RepairTerminalClose, Crash
<1> QED BY <1>1, <1>2, ReturnsOrGoesOn

--------------------------------
\* The steps of a refund itself.

LEMMA RefunderMoves ==
  ASSUME IInv, Refunding, NEW p \in Procs, Moves(p), RefundKnown(p)',
         \A o \in Orders : /\ RefundReal(o)'
                           /\ refund[o] # "NONE" => refund'[o] # "NONE"
                           /\ returned[o] => returned'[o],
         \A i \in Intents : <<"REFUND", i>> \in wire' =>
           <<"REFUND", i>> \in wire \/ refund'[OrderOf(i)] # "NONE"
  PROVE  Refunding'
<1>1. ASSUME NEW i \in Intents, <<"REFUND", i>> \in wire' PROVE refund'[OrderOf(i)] # "NONE"
  <2>1. OrderOf(i) \in Orders BY DEF Intents, OrderOf
  <2> QED BY <1>1, <2>1 DEF Refunding
<1>2. ASSUME NEW q \in Procs \ {p}, proc'[q].pc \in AtRefund
      PROVE  /\ refund'[OrderOf(proc'[q].intent)] # "NONE"
             /\ proc'[q].pc = "finalize_refund" /\ proc'[q].seen = "SUCCEEDED"
                  => returned'[OrderOf(proc'[q].intent)]
  <2>1. SameWork(proc[q], proc'[q]) BY DEF Moves
  <2>2. /\ proc'[q].pc = proc[q].pc
        /\ proc'[q].intent = proc[q].intent
        /\ proc'[q].seen = proc[q].seen
    BY <1>2, <2>1, SameWorkFacts DEF AtRefund
  <2>3. OrderOf(proc[q].intent) \in Orders BY <1>2, <2>2, FitOf DEF AtRefund
  <2> QED BY <1>2, <2>2, <2>3 DEF Refunding, RefundKnown
<1> QED BY <1>1, <1>2 DEF Refunding, RefundKnown

\* A refund call is answered, is lost, or runs after its caller gave up.
LEMMA RefundCallKeeps ==
  ASSUME IInv, Refunding, NEW p \in Procs, proc[p].pc = "refund",
         RefundAtProvider(p) \/ CallTimesOut(p)
  PROVE  Refunding'
<1> SUFFICES ASSUME NEW i \in Intents, i = proc[p].intent, NEW o \in Orders, o = OrderOf(i)
             PROVE  Refunding'
  BY FitOf
<1>1. refund[o] # "NONE" /\ UNCHANGED refund /\ Rows
  BY DEF Refunding, RefundKnown, AtRefund, RefundAtProvider, CallTimesOut, IInv
<1>2. PICK seen \in {"SUCCEEDED", "UNKNOWN"} :
        /\ Learn(p, "finalize_refund", seen)
        /\ returned' = IF seen = "SUCCEEDED" THEN [returned EXCEPT ![o] = TRUE] ELSE returned
        /\ wire' = IF seen = "SUCCEEDED" THEN wire ELSE wire \cup {<<"REFUND", i>>}
  BY DEF RefundAtProvider, CallTimesOut
<1>3. /\ Moves(p) /\ proc'[p].intent = i
      /\ proc'[p].pc = "finalize_refund"
      /\ proc'[p].seen = seen
  <2> DEFINE row == [proc[p] EXCEPT !.pc = "finalize_refund", !.seen = seen]
  <2>1. proc[p] \in Working BY <1>1, WorkingRow
  <2>2. /\ row \in Working /\ row.pc = "finalize_refund" /\ row.intent = i /\ row.seen = seen
    BY <2>1 DEF Working, Pc, RefundPc, ProviderState
  <2>3. proc' = [proc EXCEPT ![p] = row] BY <1>2 DEF Learn
  <2> HIDE DEF row
  <2> QED BY <1>1, <2>2, <2>3, MoveTo, WorkingIsRow
<1>4. \A q \in Orders : /\ RefundReal(q)'
                        /\ refund[q] # "NONE" => refund'[q] # "NONE"
                        /\ returned[q] => returned'[q]
  BY <1>1, <1>2 DEF Refunding, RefundReal, Rows
<1>5. RefundKnown(p)' BY <1>1, <1>2, <1>3 DEF RefundKnown, Rows
<1> QED BY <1>1, <1>2, <1>3, <1>4, <1>5, RefunderMoves

LEMMA AbandonedKeeps ==
  ASSUME IInv, Refunding, AbandonedCommandRuns
  PROVE  Refunding'
<1>1. PICK c \in wire :
        /\ wire' = wire \ {c}
        /\ \/ UNCHANGED returned
           \/ c[1] = "REFUND" /\ returned' = [returned EXCEPT ![OrderOf(c[2])] = TRUE]
  BY DEF AbandonedCommandRuns
<1>2. UNCHANGED <<refund, proc>> /\ Rows BY DEF AbandonedCommandRuns, IInv
<1>3. CASE UNCHANGED returned BY <1>1, <1>2, <1>3, QuietRefunds, NobodyMoves DEF RefundsStand
<1>4. CASE c[1] = "REFUND" /\ returned' = [returned EXCEPT ![OrderOf(c[2])] = TRUE]
  <2>1. c = <<"REFUND", c[2]>> /\ c[2] \in Intents BY <1>1, <1>2, <1>4 DEF Rows, Command
  <2>2. refund[OrderOf(c[2])] # "NONE" BY <2>1 DEF Refunding
  <2>3. \A o \in Orders : RefundReal(o)' /\ (returned[o] => returned'[o])
    BY <1>2, <1>4, <2>2 DEF Refunding, RefundReal, Rows
  <2>4. ASSUME NEW q \in Procs PROVE RefundKnown(q)'
    <3>1. proc[q].pc \in AtRefund => OrderOf(proc[q].intent) \in Orders BY FitOf DEF AtRefund
    <3> QED BY <1>2, <2>3, <3>1 DEF Refunding, RefundKnown
  <2> QED BY <1>1, <1>2, <2>3, <2>4 DEF Refunding
<1> QED BY <1>1, <1>3, <1>4

LEMMA ClaimKeeps ==
  ASSUME IInv, Refunding, NEW p \in Procs, ClaimLateRefund(p)
  PROVE  Refunding'
<1>1. proc[p].pc = "claim_refund" /\ UNCHANGED outside /\ Rows BY DEF ClaimLateRefund, IInv
<1> SUFFICES ASSUME NEW i \in Intents, i = proc[p].intent, NEW o \in Orders, o = OrderOf(i)
             PROVE  Refunding'
  BY <1>1, FitOf
<1>2. CASE Done(p) /\ UNCHANGED refund
  <2> DEFINE row == AfterRefund(p)
  <2>1. row \in ProcRow /\ row.pc \in {"mark", "idle"} /\ proc' = [proc EXCEPT ![p] = row]
    BY <1>1, <1>2, AfterRefundRow DEF Done
  <2> HIDE DEF row
  <2>2. NoNewRefunder BY <1>1, <2>1, MoveTo, OneMoves DEF AtRefund
  <2> QED BY <1>1, <1>2, <2>2, QuietRefunds DEF RefundsStand, outside
<1>3. CASE HandlerFails(p) /\ UNCHANGED refund
  <2>1. Return(p) BY <1>3 DEF HandlerFails
  <2>2. NoNewRefunder BY <1>1, <2>1, ReturnMoves, OneMoves DEF Idle, AtRefund
  <2> QED BY <1>1, <1>3, <2>2, QuietRefunds DEF RefundsStand, outside
<1>4. CASE /\ refund[o] = "PENDING"
           /\ refund' = [refund EXCEPT ![o] = "PROCESSING"]
           /\ proc' = [RefundBumped(o) EXCEPT ![p] = [proc[p] EXCEPT !.pc = "refund"]]
  <2> DEFINE row == [proc[p] EXCEPT !.pc = "refund"]
  <2>1. row \in Working /\ row.pc = "refund" /\ row.intent = i  BY <1>1, WorkingRow DEF Working, Pc, RefundPc
  <2>2. \A q \in RefundHolders(o) : proc[q].pc # "idle" BY RefundHoldersWork
  <2>3. proc' = [StaleViews(RefundHolders(o)) EXCEPT ![p] = row] BY <1>4 DEF RefundBumped
  <2> HIDE DEF row
  <2>4. Moves(p) /\ proc'[p] = row BY <1>1, <2>1, <2>2, <2>3, MoveToBumped, WorkingIsRow
  <2>5. \A q \in Orders : /\ RefundReal(q)'
                          /\ refund[q] # "NONE" => refund'[q] # "NONE"
                          /\ returned[q] => returned'[q]
    BY <1>1, <1>4 DEF Refunding, RefundReal, Rows, outside
  <2>6. RefundKnown(p)' BY <1>1, <1>4, <2>1, <2>4 DEF RefundKnown, Rows
  <2> QED BY <1>1, <2>4, <2>5, <2>6, RefunderMoves DEF outside
<1>5. CASE refund[o] = "PROCESSING" /\ Goto(p, "refund") /\ UNCHANGED refund
  <2>1. "refund" \in Pc BY DEF Pc, RefundPc
  <2>2. Moves(p) /\ proc'[p].pc = "refund" /\ proc'[p].intent = i BY <1>1, <1>5, <2>1, GotoMoves
  <2>3. \A q \in Orders : /\ RefundReal(q)'
                          /\ refund[q] # "NONE" => refund'[q] # "NONE"
                          /\ returned[q] => returned'[q]
    BY <1>1, <1>5 DEF Refunding, RefundReal, outside
  <2>4. RefundKnown(p)' BY <1>5, <2>2 DEF RefundKnown
  <2> QED BY <1>1, <2>2, <2>3, <2>4, RefunderMoves DEF outside
<1> QED BY <1>2, <1>3, <1>4, <1>5 DEF ClaimLateRefund

LEMMA FinalizeKeeps ==
  ASSUME IInv, Refunding, NEW p \in Procs, FinalizeLateRefund(p)
  PROVE  Refunding'
<1>1. proc[p].pc = "finalize_refund" /\ UNCHANGED outside /\ Rows BY DEF FinalizeLateRefund, IInv
<1> SUFFICES ASSUME NEW i \in Intents, i = proc[p].intent, NEW o \in Orders, o = OrderOf(i)
             PROVE  Refunding'
  BY <1>1, FitOf
<1> DEFINE row == AfterRefund(p)
<1>2. row \in ProcRow /\ row.pc \notin AtRefund BY <1>1, AfterRefundRow DEF AtRefund
<1>3. CASE Done(p) /\ UNCHANGED refund
  <2>1. proc' = [proc EXCEPT ![p] = row] BY <1>3 DEF Done
  <2> HIDE DEF row
  <2>2. NoNewRefunder BY <1>1, <1>2, <2>1, MoveTo, OneMoves
  <2> QED BY <1>1, <1>3, <2>2, QuietRefunds DEF RefundsStand, outside
<1>4. CASE HandlerFails(p) /\ UNCHANGED refund
  <2>1. Return(p) BY <1>4 DEF HandlerFails
  <2>2. NoNewRefunder BY <1>1, <2>1, ReturnMoves, OneMoves DEF Idle, AtRefund
  <2> QED BY <1>1, <1>4, <2>2, QuietRefunds DEF RefundsStand, outside
<1>5. CASE /\ refund' = [refund EXCEPT ![o] = RefundOutcome(proc[p].seen)]
           /\ proc' = [RefundBumped(o) EXCEPT ![p] = row]
  <2> DEFINE outcome == RefundOutcome(proc[p].seen)
  <2>1. /\ outcome # "NONE" /\ refund[o] # "NONE"
        /\ outcome = "SUCCEEDED" => returned[o]
    BY <1>1 DEF Refunding, RefundKnown, AtRefund, RefundOutcome
  <2>2. \A q \in RefundHolders(o) : proc[q].pc # "idle" BY RefundHoldersWork
  <2>3. proc' = [StaleViews(RefundHolders(o)) EXCEPT ![p] = row] BY <1>5 DEF RefundBumped
  <2> HIDE DEF row, outcome
  <2>4. Moves(p) /\ proc'[p] = row BY <1>1, <1>2, <2>2, <2>3, MoveToBumped
  <2>5. refund' = [refund EXCEPT ![o] = outcome] BY <1>5 DEF outcome
  <2>6. \A q \in Orders : /\ RefundReal(q)'
                          /\ refund[q] # "NONE" => refund'[q] # "NONE"
                          /\ returned[q] => returned'[q]
    BY <1>1, <2>1, <2>5 DEF Refunding, RefundReal, Rows, outside
  <2>7. RefundKnown(p)' BY <1>2, <2>4 DEF RefundKnown
  <2> QED BY <1>1, <2>4, <2>6, <2>7, RefunderMoves DEF outside
<1> QED BY <1>3, <1>4, <1>5 DEF FinalizeLateRefund

LEMMA RetryKeeps ==
  ASSUME IInv, Refunding, NEW p \in Procs, RetryLateRefund(p)
  PROVE  Refunding'
<1>1. proc[p].pc = "retry_refund" /\ UNCHANGED outside /\ Rows BY DEF RetryLateRefund, IInv
<1> SUFFICES ASSUME NEW i \in Intents, i = proc[p].intent, NEW o \in Orders, o = OrderOf(i)
             PROVE  Refunding'
  BY <1>1, FitOf
<1>2. NoNewRefunder
  <2>1. CASE refund[o] = "FAILED"
    <3> DEFINE row == Doing(i, "claim_refund", "LATE_REFUND")
    <3>1. row.pc \notin AtRefund BY DEF Doing, AtRefund
    <3>2. proc' = [q \in Procs |->
                    IF q = p THEN row
                    ELSE IF proc[q].pc \in RefundPc /\ OrderOf(proc[q].intent) = o
                    THEN [proc[q] EXCEPT !.view = "superseded"] ELSE proc[q]]
      BY <2>1 DEF RetryLateRefund
    <3> HIDE DEF row
    <3> SUFFICES ASSUME NEW q \in Procs, proc'[q].pc \in AtRefund
                 PROVE  /\ proc'[q].pc = proc[q].pc
                        /\ proc'[q].intent = proc[q].intent
                        /\ proc'[q].seen = proc[q].seen
      BY DEF NoNewRefunder
    <3>3. CASE proc'[q] = proc[q] BY <3>3
    <3>4. CASE proc'[q] = [proc[q] EXCEPT !.view = "superseded"] /\ proc[q].pc \in RefundPc
      <4>1. proc[q] \in Working BY <1>1, <3>4, WorkingRow DEF RefundPc
      <4> QED BY <3>4, <4>1 DEF Working
    <3> QED BY <3>1, <3>2, <3>3, <3>4
  <2>2. CASE refund[o] # "FAILED"
    <3>1. Return(p) BY <2>2 DEF RetryLateRefund
    <3> QED BY <1>1, <3>1, ReturnMoves, OneMoves DEF Idle, AtRefund
  <2> QED BY <2>1, <2>2
<1>3. RefundsStand
  <2>1. UNCHANGED refund \/ refund' = [refund EXCEPT ![o] = "PENDING"] BY DEF RetryLateRefund
  <2> QED BY <1>1, <2>1 DEF RefundsStand, outside, Rows
<1> QED BY <1>2, <1>3, QuietRefunds

--------------------------------
LEMMA RefundingStep ==
  ASSUME IInv, Refunding, Next
  PROVE  Refunding'
<1>1. ASSUME UNCHANGED <<refund, returned>>, wire' \subseteq wire PROVE RefundsStand
  BY <1>1 DEF RefundsStand
<1>2. ASSUME NEW p \in Procs, proc[p].pc \in {"query", "create", "close"}, CallTimesOut(p)
      PROVE  NoNewRefunder /\ RefundsStand
  <2>1. PICK pc \in {"record", "finalize_close", "idle"} : Learn(p, pc, "UNKNOWN")
    <3>1. proc[p].pc = "query" =>
            AfterQuery(proc[p].task, "UNKNOWN") \in {"record", "finalize_close", "idle"}
      BY FitOf DEF Fit, AfterQuery
    <3> QED BY <1>2, <3>1 DEF CallTimesOut
  <2>2. Rows /\ pc \in Pc \cup {"idle"} /\ pc \notin AtRefund /\ proc[p].pc # "idle"
    BY <1>2 DEF IInv, Pc, IntentPc, AtRefund
  <2>3. NoNewRefunder BY <2>1, <2>2, LearnMoves, OneMoves
  <2>4. RefundsStand BY <1>2 DEF CallTimesOut, RefundsStand
  <2> QED BY <2>3, <2>4
<1>3. CASE World
  <2>1. CASE AbandonedCommandRuns BY <2>1, AbandonedKeeps
  <2>2. CASE UNCHANGED <<proc, refund, returned, wire>> BY <1>1, <2>2, NobodyMoves, QuietRefunds
  <2> QED
    BY <1>3, <2>1, <2>2 DEF World, CreateOrder, ExpiryPasses, SubmitResult, DeliverResult, outside
<1>4. ASSUME NEW p \in Procs, NEW o \in Orders,
             \/ PreparePaymentIntent(p, o)
             \/ \E mode \in CloseMode : ClaimOrderClose(p, o, mode)
             \/ ExpireNextOrder(p, o)
      PROVE  Refunding'
  <2>1. UNCHANGED <<refund, returned, wire>>
    BY <1>4 DEF PreparePaymentIntent, ClaimOrderClose, ExpireNextOrder, outside
  <2> QED BY <1>1, <1>4, <2>1, OrderRefunders, QuietRefunds
<1>5. ASSUME NEW p \in Procs, NEW i \in Intents, StartReconciliation(p, i) \/ TakeCallback(p, i)
      PROVE  Refunding'
  <2>1. UNCHANGED <<refund, returned, wire>> BY <1>5 DEF StartReconciliation, TakeCallback, outside
  <2> QED BY <1>1, <1>5, <2>1, StartRefunders, QuietRefunds
<1>6. ASSUME NEW p \in Procs, Continue(p) PROVE Refunding'
  <2>1. CASE RefundAtProvider(p) BY <2>1, RefundCallKeeps DEF RefundAtProvider
  <2>2. CASE ClaimLateRefund(p) \/ FinalizeLateRefund(p) \/ RetryLateRefund(p)
    BY <2>2, ClaimKeeps, FinalizeKeeps, RetryKeeps
  <2>3. CASE ApplyPaymentCallback(p) BY <2>3, ApplyRefunders, QuietRefunds
  <2>4. CASE \/ QueryProvider(p) \/ CreateAtProvider(p) \/ CloseAtProvider(p)
             \/ RecordProviderOutcome(p) \/ FinalizeOrderClose(p)
    <3>1. UNCHANGED <<refund, returned, wire>>
      BY <2>4 DEF QueryProvider, CreateAtProvider, CloseAtProvider, RecordProviderOutcome,
        FinalizeOrderClose, outside
    <3> QED BY <1>1, <2>4, <3>1, ProviderRefunders, IntentRefunders, QuietRefunds
  <2>5. CASE \/ RevalidateProviderCreate(p) \/ MarkProcessed(p) \/ ReceiveForReconciliation(p)
             \/ RequeueCallback(p) \/ RepairTerminalClose(p)
    <3>1. UNCHANGED <<refund, returned, wire>> /\ proc[p].pc # "idle"
      BY <2>5 DEF RevalidateProviderCreate, MarkProcessed, ReceiveForReconciliation,
        RequeueCallback, RepairTerminalClose, outside
    <3> QED BY <1>1, <2>5, <3>1, OtherRefunders, QuietRefunds
  <2> QED BY <1>6, <2>1, <2>2, <2>3, <2>4, <2>5 DEF Continue
<1>7. ASSUME NEW p \in Procs, CallTimesOut(p) PROVE Refunding'
  BY <1>2, <1>7, RefundCallKeeps, QuietRefunds DEF CallTimesOut
<1>8. ASSUME NEW p \in Procs, Crash(p) PROVE Refunding'
  <2>1. UNCHANGED <<refund, returned, wire>> /\ proc[p].pc # "idle" BY <1>8 DEF Crash, outside
  <2> QED BY <1>1, <1>8, <2>1, OtherRefunders, QuietRefunds
<1>9. CloseMode = {"USER_CANCELLED", "PAYMENT_TIMEOUT"} BY DEF CloseMode
<1>10. ASSUME NEW p \in Payers, Pay(p) PROVE Refunding'
  BY <1>4, <1>10 DEF Pay, Procs
<1>11. ASSUME NEW p \in Cancellers, Cancel(p) PROVE Refunding'
  BY <1>4, <1>9, <1>11 DEF Cancel, CancelOrder, Procs
<1>12. ASSUME NEW p \in TimeoutWorkers, NEW o \in Orders, Timeout(p, o) PROVE Refunding'
  BY <1>4, <1>9, <1>12 DEF Timeout, ClaimNextOrderClose, Procs
<1>13. ASSUME NEW p \in Admins, Reconcile(p) PROVE Refunding'
  BY <1>5, <1>13 DEF Reconcile, Procs
<1>14. ASSUME NEW p \in CallbackWorkers, NEW i \in Intents, TakeCallback(p, i) PROVE Refunding'
  BY <1>5, <1>14 DEF Procs
<1> QED BY <1>3, <1>6, <1>7, <1>8, <1>10, <1>11, <1>12, <1>13, <1>14 DEF Next

LEMMA RefundingStutters ==
  ASSUME Refunding, UNCHANGED vars
  PROVE  Refunding'
BY DEF vars, Refunding, RefundReal, RefundKnown

LEMMA NoRefundAtFirst ==
  ASSUME Init
  PROVE  Refunding
BY DEF Init, Refunding, RefundReal, RefundKnown, AtRefund, Idle

LEMMA RefundingAlways == Spec => [](IInv /\ SalesAgree /\ Refunding)
<1>1. IInv /\ Refunding /\ [Next]_vars => Refunding' BY RefundingStep, RefundingStutters
<1> QED BY <1>1, NoRefundAtFirst, MoneyAlways, PTL DEF Spec

\* Money is sent back only for a closed order whose payment came late,
\* whether the provider has run the refund or still may (late refunds,
\* lost provider calls, retries by an administrator).
THEOREM NoGoodsAndRefund == Spec => []NeverGoodsAndRefund
<1>1. IInv /\ SalesAgree /\ Refunding => NeverGoodsAndRefund
  <2> SUFFICES ASSUME IInv, SalesAgree, Refunding, NEW o \in Orders,
                      returned[o] \/ \E i \in IntentsOf(o) : <<"REFUND", i>> \in wire
               PROVE  /\ order[o].status = "CLOSED"
                      /\ \E i \in PaidOf(o) : intent[i].attempt = "SUCCEEDED_LATE"
    BY DEF NeverGoodsAndRefund
  <2>1. IntentsOf(o) = Of(o) /\ PaidOf(o) = {i \in Of(o) : Paid(i)} BY IntentsOfOrder DEF PaidOf
  <2>2. refund[o] # "NONE" BY <2>1 DEF Refunding, RefundReal, Of
  <2>3. RefundAgrees(o) BY DEF SalesAgree, SaleAgrees
  <2> QED BY <2>1, <2>2, <2>3 DEF RefundAgrees, Paid
<1> QED BY <1>1, RefundingAlways, PTL

\* A closed order with money in it has one refund, whose state the order
\* tells, and a refund called done was done.
THEOREM LateMoney == Spec => []LateMoneyTracked
<1>1. IInv /\ SalesAgree /\ Refunding => LateMoneyTracked
  <2> SUFFICES ASSUME IInv, SalesAgree, Refunding, NEW o \in Orders
               PROVE  /\ refund[o] # "NONE"
                           <=> \E i \in IntentsOf(o) : intent[i].attempt = "SUCCEEDED_LATE"
                      /\ refund[o] # "NONE" =>
                           /\ order[o].status = "CLOSED"
                           /\ order[o].resolution =
                                CASE refund[o] \in {"PENDING", "PROCESSING"}
                                       -> "LATE_SUCCESS_REFUND_PENDING"
                                  [] refund[o] = "SUCCEEDED" -> "LATE_SUCCESS_REFUNDED"
                                  [] OTHER -> "MANUAL_REQUIRED"
                      /\ refund[o] = "SUCCEEDED" => returned[o]
    BY DEF LateMoneyTracked
  <2>1. IntentsOf(o) = Of(o) BY IntentsOfOrder
  <2>2. IntentsAgree(o) /\ RefundAgrees(o) /\ RefundReal(o)  BY DEF SalesAgree, SaleAgrees, Refunding
  <2> QED BY <2>1, <2>2 DEF IntentsAgree, RefundAgrees, RefundReal, ResolutionOf
<1> QED BY <1>1, RefundingAlways, PTL

--------------------------------
\* What the shop knows of the provider.  Knowledge of an intent is never
\* ahead of the provider, and a process that may still write it, its view
\* being current, has seen nothing older than what the row already says.

AtRecord == {"record", "finalize_close"}

KnownIntent(i) ==
  /\ intent[i].located => provider[i].state # "NOT_FOUND"
  /\ intent[i].located /\ intent[i].status \in Terminal => provider[i].state # "OPEN"
  /\ intent[i].sawSuccess => provider[i].state = "SUCCEEDED"

SawMoney(i) == intent[i].sawSuccess /\ intent[i].status # "SUCCEEDED"

WitnessOf(q, i) ==
  /\ proc[q].seen \notin {"NOT_FOUND", "UNKNOWN"} => provider[i].state # "NOT_FOUND"
  /\ proc[q].seen \notin {"NOT_FOUND", "UNKNOWN", "OPEN"} => provider[i].state # "OPEN"
  /\ proc[q].seen = "SUCCEEDED" => provider[i].state = "SUCCEEDED"
  /\ proc[q].view = "current" =>
       /\ proc[q].seen = "NOT_FOUND" => ~intent[i].located
       /\ SawMoney(i) => proc[q].seen \in {"SUCCEEDED", "UNKNOWN"}

Witness(q) == proc[q].pc \in AtRecord => WitnessOf(q, proc[q].intent)

Witnessed ==
  /\ \A i \in Intents : KnownIntent(i)
  /\ \A q \in Procs : Witness(q)

\* What the provider never takes back.
ProviderAdvances == \A i \in Intents :
  /\ provider[i].state # "NOT_FOUND" => provider'[i].state # "NOT_FOUND"
  /\ provider[i].state \notin {"NOT_FOUND", "OPEN"} => provider'[i].state # "OPEN"
  /\ provider[i].state = "SUCCEEDED" => provider'[i].state = "SUCCEEDED"

\* The processes other than the movers stay where they are, with a view no fresher.
Others(movers) == \A q \in Procs \ movers :
  proc'[q].pc \in AtRecord =>
    /\ proc'[q].pc = proc[q].pc
    /\ proc'[q].intent = proc[q].intent
    /\ proc'[q].seen = proc[q].seen
    /\ proc'[q].view = "current" => proc[q].view = "current"

\* The row of i says more than before.
NewFact(i) ==
  \/ intent'[i].located /\ ~intent[i].located
  \/ SawMoney(i)' /\ ~SawMoney(i)

LEMMA WitnessStep ==
  ASSUME IInv, Witnessed, ProviderAdvances, NEW movers, Others(movers),
         \A p \in movers \cap Procs : Witness(p)',
         \A i \in Intents : KnownIntent(i)',
         \A i \in Intents : NewFact(i) =>
           \A q \in Procs \ movers : proc'[q].pc \in AtRecord /\ proc'[q].intent = i
                                       => proc'[q].view # "current"
  PROVE  Witnessed'
<1> SUFFICES ASSUME NEW q \in Procs \ movers, proc'[q].pc \in AtRecord
             PROVE  Witness(q)'
  BY DEF Witnessed, Witness
<1>1. /\ proc'[q].pc = proc[q].pc
      /\ proc'[q].intent = proc[q].intent
      /\ proc'[q].seen = proc[q].seen
      /\ proc'[q].view = "current" => proc[q].view = "current"
  BY DEF Others
<1> SUFFICES ASSUME NEW i \in Intents, i = proc[q].intent
             PROVE  WitnessOf(q, i)'
  BY <1>1, FitOf DEF AtRecord, Witness, WitnessOf, SawMoney
<1>2. WitnessOf(q, i) BY <1>1 DEF Witnessed, Witness
<1>3. NewFact(i) => proc'[q].view # "current" BY <1>1
<1>4. CASE proc'[q].view = "current"
  <2>1. (intent'[i].located => intent[i].located) /\ (SawMoney(i)' => SawMoney(i))  BY <1>3, <1>4 DEF NewFact
  <2> QED BY <1>1, <1>2, <1>4, <2>1 DEF WitnessOf, ProviderAdvances
<1>5. CASE proc'[q].view # "current" BY <1>1, <1>2, <1>5 DEF WitnessOf, ProviderAdvances
<1> QED BY <1>4, <1>5

\* The ways a process row is written, once more.
LEMMA OthersStay ==
  ASSUME Rows, NEW p \in Procs, NEW row, proc' = [proc EXCEPT ![p] = row]
  PROVE  Others({p}) /\ proc'[p] = row
BY DEF Rows, Others

LEMMA OthersBumped ==
  ASSUME Rows, NEW p \in Procs, NEW i, NEW row,
         proc' = [IntentBumped(i) EXCEPT ![p] = row]
  PROVE  /\ Others({p}) /\ proc'[p] = row
         /\ \A q \in Procs \ {p} : proc'[q].pc \in AtRecord /\ proc'[q].intent = i
              => proc'[q].view # "current"
<1>1. proc' = [q \in Procs |-> IF q = p THEN row ELSE IntentBumped(i)[q]]  BY DEF IntentBumped, StaleViews
<1>2. ASSUME NEW q \in Procs \ {p}, proc'[q].pc \in AtRecord
      PROVE  /\ proc'[q].pc = proc[q].pc
             /\ proc'[q].intent = proc[q].intent
             /\ proc'[q].seen = proc[q].seen
             /\ proc'[q].view = "current" => proc[q].view = "current"
             /\ proc'[q].intent = i => proc'[q].view # "current"
  <2>1. CASE q \in IntentHolders(i) /\ proc[q].view = "current"
    <3>1. proc'[q] = [proc[q] EXCEPT !.view = "stale"] BY <1>1, <2>1 DEF IntentBumped, StaleViews
    <3>2. proc[q] \in Working BY <2>1, WorkingRow DEF IntentHolders, IntentPc
    <3> QED BY <2>1, <3>1, <3>2 DEF Working
  <2>2. CASE ~(q \in IntentHolders(i) /\ proc[q].view = "current")
    <3>1. proc'[q] = proc[q] BY <1>1, <2>2 DEF IntentBumped, StaleViews
    <3> QED BY <1>2, <2>2, <3>1 DEF IntentHolders, IntentPc, AtRecord
  <2> QED BY <2>1, <2>2
<1> QED BY <1>1, <1>2 DEF Others

LEMMA ProviderGoesOn ==
  ASSUME IInv, Next
  PROVE  ProviderAdvances
<1>0. provider \in [Intents -> ProviderRow] /\ SuccessStands BY ProviderStands DEF IInv, Rows
<1> USE DEF ProviderAdvances
<1>1. ASSUME NEW i \in Intents, NEW result \in PaymentResults, SubmitResult(i, result)
      PROVE  ProviderAdvances
  BY <1>0, <1>1 DEF SubmitResult, ProviderRow, PaymentResults
<1>2. ASSUME AbandonedCommandRuns PROVE ProviderAdvances
  BY <1>0, <1>2 DEF AbandonedCommandRuns, ProviderRow, AfterCreate, AfterClose
<1>3. ASSUME NEW p \in Procs, CreateAtProvider(p) \/ CloseAtProvider(p) PROVE ProviderAdvances
  BY <1>0, <1>3 DEF CreateAtProvider, CloseAtProvider, ProviderRow, AfterCreate, AfterClose
<1>4. ASSUME UNCHANGED provider PROVE ProviderAdvances
  BY <1>4
<1>5. ASSUME World PROVE ProviderAdvances
  BY <1>1, <1>2, <1>4, <1>5 DEF World, CreateOrder, ExpiryPasses, DeliverResult, outside
<1>6. ASSUME NEW p \in Procs, Continue(p) PROVE ProviderAdvances
  <2>1. CASE \/ QueryProvider(p) \/ RefundAtProvider(p) \/ RevalidateProviderCreate(p)
             \/ RecordProviderOutcome(p) \/ FinalizeOrderClose(p) \/ ApplyPaymentCallback(p)
    BY <1>4, <2>1 DEF QueryProvider, RefundAtProvider, RevalidateProviderCreate,
      RecordProviderOutcome, FinalizeOrderClose, ApplyPaymentCallback, outside
  <2>2. CASE \/ MarkProcessed(p) \/ ClaimLateRefund(p) \/ FinalizeLateRefund(p)
             \/ RetryLateRefund(p) \/ ReceiveForReconciliation(p) \/ RequeueCallback(p)
             \/ RepairTerminalClose(p)
    BY <1>4, <2>2 DEF MarkProcessed, ClaimLateRefund, FinalizeLateRefund, RetryLateRefund,
      ReceiveForReconciliation, RequeueCallback, RepairTerminalClose, outside
  <2> QED BY <1>3, <1>6, <2>1, <2>2 DEF Continue
<1>7. ASSUME NEW p \in Procs, CallTimesOut(p) \/ Crash(p) PROVE ProviderAdvances
  BY <1>4, <1>7 DEF CallTimesOut, Crash, outside
<1>8. ASSUME NEW p, NEW o, \/ Pay(p) \/ Cancel(p) \/ Timeout(p, o) \/ Reconcile(p)
                           \/ \E i \in Intents : TakeCallback(p, i)
      PROVE  ProviderAdvances
  BY <1>4, <1>8 DEF Pay, PreparePaymentIntent, Cancel, CancelOrder, Timeout, ClaimNextOrderClose,
    ClaimOrderClose, ExpireNextOrder, Reconcile, StartReconciliation, TakeCallback, outside
<1> QED BY <1>5, <1>6, <1>7, <1>8 DEF Next

\* A step that writes no intent.
LEMMA NothingLearned ==
  ASSUME IInv, Witnessed, ProviderAdvances, UNCHANGED intent, NEW movers, Others(movers),
         \A p \in movers \cap Procs : Witness(p)'
  PROVE  Witnessed'
<1>1. \A i \in Intents : KnownIntent(i)' /\ ~NewFact(i)
  BY DEF Witnessed, KnownIntent, ProviderAdvances, NewFact, SawMoney
<1> QED BY <1>1, WitnessStep

LEMMA NobodyLearns ==
  ASSUME IInv, Witnessed, ProviderAdvances, UNCHANGED <<intent, proc>>
  PROVE  Witnessed'
<1>1. Others({}) BY DEF Others
<1> QED BY <1>1, NothingLearned

\* A process goes on to a step that writes nothing it has seen.
LEMMA GoesElsewhere ==
  ASSUME IInv, Witnessed, ProviderAdvances, UNCHANGED intent, NEW p \in Procs, NEW row,
         row.pc \notin AtRecord, proc' = [proc EXCEPT ![p] = row]
  PROVE  Witnessed'
<1>1. Others({p}) /\ proc'[p] = row BY OthersStay DEF IInv
<1>2. Witness(p)' BY <1>1 DEF Witness
<1> QED BY <1>1, <1>2, NothingLearned

LEMMA GoesOnTo ==
  ASSUME IInv, Witnessed, ProviderAdvances, UNCHANGED intent, NEW p \in Procs,
         proc[p].pc # "idle",
         NEW pc \in Pc \ AtRecord, Return(p) \/ Goto(p, pc)
  PROVE  Witnessed'
<1>1. CASE Return(p) BY <1>1, GoesElsewhere DEF Return, Idle, AtRecord
<1>2. CASE Goto(p, pc)
  <2> DEFINE row == [proc[p] EXCEPT !.pc = pc]
  <2>1. row.pc = pc /\ proc' = [proc EXCEPT ![p] = row] BY <1>2, WorkingRow DEF Goto, Working, IInv
  <2> HIDE DEF row
  <2> QED BY <2>1, GoesElsewhere
<1> QED BY <1>1, <1>2

\* A step that writes the one intent i: what the row now says is true of the
\* provider, and whoever held a current view of it has lost it if it says more.
LEMMA IntentWritten ==
  ASSUME IInv, Witnessed, ProviderAdvances, NEW p \in Procs, Others({p}), Witness(p)',
         NEW i, \A j \in Intents : j # i => intent'[j] = intent[j],
         i \in Intents => KnownIntent(i)',
         \/ ~NewFact(i)
         \/ \A q \in Procs \ {p} : proc'[q].pc \in AtRecord /\ proc'[q].intent = i
              => proc'[q].view # "current"
  PROVE  Witnessed'
<1>1. \A j \in Intents \ {i} : KnownIntent(j)' /\ ~NewFact(j)
  BY DEF Witnessed, KnownIntent, ProviderAdvances, NewFact, SawMoney
<1>2. \A j \in Intents : KnownIntent(j)' BY <1>1
<1>3. \A j \in Intents : NewFact(j) =>
        \A q \in Procs \ {p} : proc'[q].pc \in AtRecord /\ proc'[q].intent = j
                                 => proc'[q].view # "current"
  BY <1>1
<1> QED BY <1>2, <1>3, WitnessStep

--------------------------------
\* The provider calls: what a process learns is what the provider holds.
LEMMA LearnedWitness ==
  ASSUME IInv, Witnessed, ProviderAdvances, UNCHANGED intent, NEW p \in Procs,
         proc[p].pc # "idle", NEW pc \in Pc \cup {"idle"},
         NEW seen \in {provider'[proc[p].intent].state, "UNKNOWN"},
         Learn(p, pc, seen)
  PROVE  Witnessed'
<1>1. CASE pc \notin AtRecord \cup {"finalize_refund"}
  <2>1. pc = "idle" => Return(p) BY DEF Learn, Return
  <2>2. pc # "idle" => Goto(p, pc) BY <1>1 DEF Learn, Goto, AtRecord
  <2>3. pc # "idle" => pc \in Pc \ AtRecord BY <1>1
  <2>4. Return(p) => Witnessed' BY GoesElsewhere DEF Return, Idle, AtRecord
  <2> QED BY <2>1, <2>2, <2>3, <2>4, GoesOnTo
<1>2. CASE pc \in AtRecord \cup {"finalize_refund"}
  <2> DEFINE row == [proc[p] EXCEPT !.pc = pc, !.seen = seen]
  <2> SUFFICES ASSUME NEW i \in Intents, i = proc[p].intent
               PROVE  Witnessed'
    BY FitOf
  <2>1. /\ row.pc = pc /\ row.intent = i /\ row.seen = seen
        /\ proc' = [proc EXCEPT ![p] = row]
    <3>1. proc[p] \in Working BY WorkingRow DEF IInv
    <3> QED BY <1>2, <3>1 DEF Learn, Working, AtRecord
  <2> HIDE DEF row
  <2>2. Others({p}) /\ proc'[p] = row BY <2>1, OthersStay DEF IInv
  <2>3. KnownIntent(i)' BY DEF Witnessed, KnownIntent, ProviderAdvances
  <2>4. WitnessOf(p, i)' BY <2>1, <2>2, <2>3 DEF WitnessOf, KnownIntent, SawMoney
  <2>5. Witness(p)' BY <2>1, <2>2, <2>4 DEF Witness, WitnessOf, SawMoney
  <2> QED BY <2>2, <2>5, NothingLearned
<1> QED BY <1>1, <1>2

LEMMA CallsWitness ==
  ASSUME IInv, Witnessed, ProviderAdvances, NEW p \in Procs,
         \/ QueryProvider(p) \/ CreateAtProvider(p) \/ CloseAtProvider(p)
         \/ RefundAtProvider(p) \/ CallTimesOut(p)
  PROVE  Witnessed'
<1> SUFFICES ASSUME NEW i \in Intents, i = proc[p].intent, proc[p].pc # "idle",
                    Fit(proc[p]), provider[i] \in ProviderRow
             PROVE  Witnessed'
  <2>1. proc[p].pc # "idle"
    BY DEF QueryProvider, CreateAtProvider, CloseAtProvider, RefundAtProvider, CallTimesOut
  <2> QED BY <2>1, FitOf
<1>1. /\ UNCHANGED intent /\ Rows
      /\ {"record", "finalize_close", "finalize_refund"} \subseteq Pc \cup {"idle"}
  BY DEF QueryProvider, CreateAtProvider, CloseAtProvider, RefundAtProvider, CallTimesOut, IInv,
    Pc, IntentPc, RefundPc
<1>2. CASE RefundAtProvider(p)
  <2>1. proc' = [proc EXCEPT ![p] = [proc[p] EXCEPT !.pc = "finalize_refund", !.seen = "SUCCEEDED"]]
    BY <1>2 DEF RefundAtProvider, Learn
  <2>2. [proc[p] EXCEPT !.pc = "finalize_refund", !.seen = "SUCCEEDED"].pc \notin AtRecord
    BY <1>1, WorkingRow DEF Working, AtRecord
  <2> QED BY <1>1, <2>1, <2>2, GoesElsewhere
<1>3. CASE QueryProvider(p)
  <2>1. AfterQuery(proc[p].task, provider[i].state) \in Pc \cup {"idle"}
    BY <1>3 DEF QueryProvider, Fit, AfterQuery, Pc, IntentPc
  <2>2. UNCHANGED provider /\ Learn(p, AfterQuery(proc[p].task, provider[i].state), provider[i].state)
    BY <1>3 DEF QueryProvider, outside
  <2> QED BY <1>1, <2>1, <2>2, LearnedWitness
<1>4. CASE CreateAtProvider(p) \/ CloseAtProvider(p)
  <2>1. \E pc \in {"record", "finalize_close"} : Learn(p, pc, provider'[i].state)
    BY <1>1, <1>4 DEF CreateAtProvider, CloseAtProvider, Rows, ProviderRow
  <2> QED BY <1>1, <2>1, LearnedWitness
<1>5. CASE CallTimesOut(p)
  <2>1. AfterQuery(proc[p].task, "UNKNOWN") \in Pc \cup {"idle"} \/ proc[p].pc # "query"
    BY DEF Fit, AfterQuery, Pc, IntentPc
  <2>2. \E pc \in Pc \cup {"idle"} : Learn(p, pc, "UNKNOWN") BY <1>1, <1>5, <2>1 DEF CallTimesOut
  <2> QED BY <1>1, <2>2, LearnedWitness
<1> QED BY <1>2, <1>3, <1>4, <1>5

\* The transactions that write no intent.
LEMMA QuietWitness ==
  ASSUME IInv, Witnessed, ProviderAdvances, NEW p \in Procs,
         \/ RevalidateProviderCreate(p) \/ MarkProcessed(p) \/ ReceiveForReconciliation(p)
         \/ RequeueCallback(p) \/ RepairTerminalClose(p) \/ Crash(p)
         \/ \E i \in Intents : StartReconciliation(p, i) \/ TakeCallback(p, i)
  PROVE  Witnessed'
<1>1. UNCHANGED intent
  BY DEF RevalidateProviderCreate, MarkProcessed, ReceiveForReconciliation, RequeueCallback,
    RepairTerminalClose, Crash, StartReconciliation, TakeCallback
<1>2. "create" \in Pc \ AtRecord /\ "requeue" \in Pc \ AtRecord BY DEF Pc, IntentPc, AtRecord
<1>3. CASE proc[p].pc # "idle" /\ (Return(p) \/ Goto(p, "create") \/ Goto(p, "requeue"))
  BY <1>1, <1>2, <1>3, GoesOnTo
<1>4. ASSUME NEW i \in Intents, StartReconciliation(p, i) \/ TakeCallback(p, i)
      PROVE  Witnessed'
  <2>1. PICK pc \in {"claim_refund", "retry_refund", "query", "repair", "apply"},
             task \in {"LATE_REFUND", "CLOSE", "INTENT", "SETTLEMENT", "CALLBACK"} :
          proc' = [proc EXCEPT ![p] = Doing(i, pc, task)]
    BY <1>4 DEF StartReconciliation, TakeCallback
  <2>2. Doing(i, pc, task).pc \notin AtRecord BY DEF Doing, AtRecord
  <2> QED BY <1>1, <2>1, <2>2, GoesElsewhere
<1> QED BY <1>3, <1>4 DEF RevalidateProviderCreate, MarkProcessed, ReceiveForReconciliation,
   RequeueCallback, RepairTerminalClose, Crash

LEMMA RefundWitness ==
  ASSUME IInv, Witnessed, ProviderAdvances, NEW p \in Procs,
         ClaimLateRefund(p) \/ FinalizeLateRefund(p) \/ RetryLateRefund(p)
  PROVE  Witnessed'
<1>1. UNCHANGED intent /\ Rows /\ proc[p].pc # "idle"
  BY DEF ClaimLateRefund, FinalizeLateRefund, RetryLateRefund, IInv
<1>2. ASSUME NEW row, row.pc \notin AtRecord,
             \/ proc' = [proc EXCEPT ![p] = row]
             \/ \E o : proc' = [RefundBumped(o) EXCEPT ![p] = row]
             \/ \E o : proc' = [q \in Procs |->
                  IF q = p THEN row
                  ELSE IF proc[q].pc \in RefundPc /\ OrderOf(proc[q].intent) = o
                  THEN [proc[q] EXCEPT !.view = "superseded"] ELSE proc[q]]
      PROVE  Witnessed'
  <2>1. proc'[p] = row BY <1>1, <1>2 DEF Rows, RefundBumped, StaleViews
  <2>2. ASSUME NEW q \in Procs \ {p}, proc'[q].pc \in AtRecord PROVE proc'[q] = proc[q]
    <3>1. CASE proc[q].pc \in RefundPc
      <4>1. proc[q] \in Working BY <1>1, <3>1, WorkingRow DEF RefundPc
      <4>2. \/ proc'[q] = proc[q]
            \/ proc'[q] = [proc[q] EXCEPT !.view = "stale"]
            \/ proc'[q] = [proc[q] EXCEPT !.view = "superseded"]
        BY <1>1, <1>2 DEF Rows, RefundBumped, StaleViews
      <4>3. proc'[q].pc = proc[q].pc BY <4>1, <4>2 DEF Working
      <4> QED BY <2>2, <3>1, <4>3 DEF RefundPc, AtRecord
    <3>2. CASE proc[q].pc \notin RefundPc
      BY <1>1, <1>2, <3>2 DEF Rows, RefundBumped, StaleViews, RefundHolders
    <3> QED BY <3>1, <3>2
  <2>3. Others({p}) BY <2>2 DEF Others
  <2>4. Witness(p)' BY <1>2, <2>1 DEF Witness
  <2> QED BY <1>1, <2>3, <2>4, NothingLearned
<1>3. AfterRefund(p).pc \notin AtRecord /\ Idle.pc \notin AtRecord  BY <1>1, AfterRefundRow DEF AtRecord, Idle
<1>4. [proc[p] EXCEPT !.pc = "refund"].pc \notin AtRecord BY <1>1, WorkingRow DEF Working, AtRecord
<1>5. Doing(proc[p].intent, "claim_refund", "LATE_REFUND").pc \notin AtRecord  BY DEF Doing, AtRecord
<1>6. CASE Done(p) \/ HandlerFails(p) \/ Return(p)  BY <1>2, <1>3, <1>6 DEF Done, HandlerFails, Return
<1>7. CASE Goto(p, "refund") BY <1>2, <1>4, <1>7 DEF Goto
<1>8. CASE ClaimLateRefund(p) BY <1>2, <1>4, <1>6, <1>7, <1>8 DEF ClaimLateRefund
<1>9. CASE FinalizeLateRefund(p) BY <1>2, <1>3, <1>6, <1>9 DEF FinalizeLateRefund
<1>10. CASE RetryLateRefund(p) BY <1>2, <1>5, <1>6, <1>10 DEF RetryLateRefund
<1> QED BY <1>8, <1>9, <1>10

--------------------------------
\* The transactions that write an intent.
LEMMA OrderWitness ==
  ASSUME IInv, Witnessed, ProviderAdvances, NEW p \in Procs, NEW o \in Orders,
         \/ PreparePaymentIntent(p, o)
         \/ \E mode \in CloseMode : ClaimOrderClose(p, o, mode)
         \/ ExpireNextOrder(p, o)
  PROVE  Witnessed'
<1>1. Rows /\ IntentsOf(o) \subseteq Intents BY DEF IInv, IntentsOf, Intents
<1>2. ASSUME NEW i \in IntentsOf(o), NEW row, intent' = [intent EXCEPT ![i] = row],
             row.located = intent[i].located, row.sawSuccess = intent[i].sawSuccess,
             row.status \in Active, intent[i].status # "SUCCEEDED",
             NEW pc \in {"query", "create", "close"}, NEW task,
             \/ proc' = [proc EXCEPT ![p] = Doing(i, pc, task)]
             \/ proc' = [IntentBumped(i) EXCEPT ![p] = Doing(i, pc, task)]
      PROVE  Witnessed'
  <2> DEFINE next == Doing(i, pc, task)
  <2>1. next.pc \notin AtRecord BY DEF Doing, AtRecord
  <2> HIDE DEF next
  <2>2. Others({p}) /\ proc'[p] = next
    <3>1. CASE proc' = [proc EXCEPT ![p] = next] BY <1>1, <3>1, OthersStay
    <3>2. CASE proc' = [IntentBumped(i) EXCEPT ![p] = next] BY <1>1, <3>2, OthersBumped
    <3> QED BY <1>2, <3>1, <3>2 DEF next
  <2>3. Witness(p)' BY <2>1, <2>2 DEF Witness
  <2>4. /\ intent'[i] = row
        /\ \A j \in Intents : j # i => intent'[j] = intent[j]
    BY <1>1, <1>2 DEF Rows
  <2>5. KnownIntent(i)' /\ ~NewFact(i)
    BY <1>1, <1>2, <2>4 DEF Witnessed, KnownIntent, ProviderAdvances, NewFact, SawMoney, Active, Terminal
  <2> QED BY <2>2, <2>3, <2>4, <2>5, IntentWritten
<1>3. ASSUME NEW i \in IntentsOf(o), NEW pc \in {"query", "create", "close"}, NEW task,
             UNCHANGED intent, proc' = [proc EXCEPT ![p] = Doing(i, pc, task)]
      PROVE  Witnessed'
  <2>1. Doing(i, pc, task).pc \notin AtRecord BY DEF Doing, AtRecord
  <2> QED BY <1>3, <2>1, GoesElsewhere
<1>4. CASE PreparePaymentIntent(p, o)
  <2>1. ASSUME NEW i \in IntentsOf(o), intent[i].status = "NONE",
               intent' = [intent EXCEPT ![i].status = "CREATING"],
               proc' = [proc EXCEPT ![p] = Doing(i, "create", "CREATE")]
        PROVE  Witnessed'
    <3> DEFINE row == [intent[i] EXCEPT !.status = "CREATING"]
    <3>1. /\ row.located = intent[i].located /\ row.sawSuccess = intent[i].sawSuccess
          /\ row.status \in Active
      BY <1>1 DEF Rows, IntentRow, Active
    <3> HIDE DEF row
    <3>2. intent' = [intent EXCEPT ![i] = row] BY <2>1 DEF row
    <3> QED BY <1>2, <2>1, <3>1, <3>2
  <2> QED BY <1>3, <1>4, <2>1 DEF PreparePaymentIntent, ActiveOf
<1>5. ASSUME NEW mode \in CloseMode, ClaimOrderClose(p, o, mode) PROVE Witnessed'
  <2>1. CASE UNCHANGED <<intent, proc>> BY <2>1, NobodyLearns
  <2>2. ASSUME NEW i \in ActiveOf(o), intent' = [intent EXCEPT ![i] = ClaimRow(@, mode)],
               NEW pc \in {"query", "close"},
               proc' = [(IF intent[i].status = "CLOSE_PENDING" THEN proc ELSE IntentBumped(i))
                          EXCEPT ![p] = Doing(i, pc, "CLOSE")]
        PROVE  Witnessed'
    <3> DEFINE row == ClaimRow(intent[i], mode)
    <3>1. /\ row.located = intent[i].located /\ row.sawSuccess = intent[i].sawSuccess
          /\ row.status \in Active /\ intent[i].status # "SUCCEEDED" /\ i \in IntentsOf(o)
      BY <1>1 DEF Rows, IntentRow, Active, ActiveOf, ClaimRow
    <3> HIDE DEF row
    <3>2. intent' = [intent EXCEPT ![i] = row] BY <2>2 DEF row
    <3>3. \/ proc' = [proc EXCEPT ![p] = Doing(i, pc, "CLOSE")]
          \/ proc' = [IntentBumped(i) EXCEPT ![p] = Doing(i, pc, "CLOSE")]
      BY <2>2
    <3> QED BY <1>2, <3>1, <3>2, <3>3
  <2> QED BY <1>5, <2>1, <2>2 DEF ClaimOrderClose
<1>6. CASE ExpireNextOrder(p, o) BY <1>6, NobodyLearns DEF ExpireNextOrder
<1> QED BY <1>4, <1>5, <1>6

\* The event handler goes on, whoever else held the intent.
GoesOn(p) == Others({p}) /\ proc'[p].pc \notin AtRecord

LEMMA HandlerGoesOn ==
  ASSUME IInv, NEW p \in Procs, proc[p].pc = "apply", NEW i \in Intents,
         \/ proc' = [proc EXCEPT ![p].pc = "mark"]
         \/ proc' = [IntentBumped(i) EXCEPT ![p].pc = "mark"]
         \/ proc' = [IntentBumped(i) EXCEPT ![p] = Doing(i, "claim_refund", "CALLBACK")]
  PROVE  GoesOn(p)
<1>1. Rows BY DEF IInv
<1>2. CASE proc' = [proc EXCEPT ![p].pc = "mark"]
  <2> DEFINE row == [proc[p] EXCEPT !.pc = "mark"]
  <2>1. row.pc \notin AtRecord BY <1>1, WorkingRow DEF Working, AtRecord
  <2>2. proc' = [proc EXCEPT ![p] = row] BY <1>2
  <2> HIDE DEF row
  <2> QED BY <1>1, <2>1, <2>2, OthersStay DEF GoesOn
<1>3. CASE proc' = [IntentBumped(i) EXCEPT ![p].pc = "mark"]
  <2> DEFINE row == [IntentBumped(i)[p] EXCEPT !.pc = "mark"]
  <2>1. IntentBumped(i)[p] \in Working
    <3>1. \A q \in IntentHolders(i) : proc[q].pc # "idle" BY IntentHoldersWork
    <3>2. SameWork(proc[p], StaleViews(IntentHolders(i))[p]) BY <1>1, <3>1, Bumped
    <3> QED BY <1>1, <3>2, WorkingRow, SameWorkFacts DEF IntentBumped
  <2>2. row.pc \notin AtRecord BY <2>1 DEF Working, AtRecord
  <2>3. proc' = [IntentBumped(i) EXCEPT ![p] = row] BY <1>3
  <2> HIDE DEF row
  <2> QED BY <1>1, <2>2, <2>3, OthersBumped DEF GoesOn
<1>4. CASE proc' = [IntentBumped(i) EXCEPT ![p] = Doing(i, "claim_refund", "CALLBACK")]
  <2> DEFINE row == Doing(i, "claim_refund", "CALLBACK")
  <2>1. row.pc \notin AtRecord BY DEF Doing, AtRecord
  <2>2. proc' = [IntentBumped(i) EXCEPT ![p] = row] BY <1>4
  <2> HIDE DEF row
  <2> QED BY <1>1, <2>1, <2>2, OthersBumped DEF GoesOn
<1> QED BY <1>2, <1>3, <1>4

LEMMA EventWitness ==
  ASSUME IInv, Witnessed, ProviderAdvances, NEW p \in Procs, GoesOn(p),
         NEW i \in Intents, NEW row, intent' = [intent EXCEPT ![i] = row],
         UNCHANGED provider,
         row.located = intent[i].located,
         row.sawSuccess =>
           \/ row.status = "SUCCEEDED" /\ provider[i].state = "SUCCEEDED"
           \/ row.sawSuccess = intent[i].sawSuccess /\ row.status = intent[i].status,
         row.status \in Terminal => provider[i].state # "OPEN" \/ row.status = intent[i].status
  PROVE  Witnessed'
<1>1. Rows BY DEF IInv
<1>2. Others({p}) /\ Witness(p)' BY DEF GoesOn, Witness
<1>3. /\ intent'[i] = row
      /\ \A j \in Intents : j # i => intent'[j] = intent[j]
  BY <1>1 DEF Rows
<1>4. KnownIntent(i)' /\ ~NewFact(i)  BY <1>3 DEF Witnessed, KnownIntent, NewFact, SawMoney, Terminal
<1> QED BY <1>2, <1>3, <1>4, IntentWritten

LEMMA ApplyWitness ==
  ASSUME IInv, Witnessed, ProviderAdvances, NEW p \in Procs, ApplyPaymentCallback(p)
  PROVE  Witnessed'
<1>1. proc[p].pc = "apply" /\ UNCHANGED provider BY DEF ApplyPaymentCallback, outside
<1> SUFFICES ASSUME NEW i \in Intents, i = proc[p].intent, intent[i] \in IntentRow
             PROVE  Witnessed'
  BY <1>1, FitOf
<1>2. ASSUME UNCHANGED intent, Return(p) \/ Goto(p, "mark") PROVE Witnessed'
  BY <1>1, <1>2, GoesOnTo DEF Pc, AtRecord
<1>3. CASE CallbackConflicts(i) BY <1>2, <1>3 DEF ApplyPaymentCallback, HandlerFails
<1>4. ASSUME provider[i].state = "SUCCEEDED", NEW attempt,
             intent' = [intent EXCEPT ![i] = PaidRow(intent[i], attempt)],
             \/ proc' = [proc EXCEPT ![p].pc = "mark"]
             \/ proc' = [IntentBumped(i) EXCEPT ![p].pc = "mark"]
             \/ proc' = [IntentBumped(i) EXCEPT ![p] = Doing(i, "claim_refund", "CALLBACK")]
      PROVE  Witnessed'
  <2> DEFINE row == PaidRow(intent[i], attempt)
  <2>1. row.located = intent[i].located /\ row.status = "SUCCEEDED" BY DEF PaidRow, IntentRow
  <2> HIDE DEF row
  <2>2. intent' = [intent EXCEPT ![i] = row] BY <1>4 DEF row
  <2>3. row.status \notin Terminal BY <2>1 DEF Terminal
  <2>4. GoesOn(p) BY <1>1, <1>4, HandlerGoesOn
  <2> QED BY <1>1, <1>4, <2>1, <2>2, <2>3, <2>4, EventWitness
<1>5. CASE provider[i].state = "SUCCEEDED" /\ SuccessEvent(p, i)
  <2>1. CASE LateReplay(p, i)
    <3>1. Doing(i, "claim_refund", "CALLBACK").pc \notin AtRecord BY DEF Doing, AtRecord
    <3> QED BY <1>2, <2>1, <3>1, GoesElsewhere DEF LateReplay
  <2>2. CASE SettledReplay(p, i) BY <1>2, <2>2 DEF SettledReplay
  <2>3. CASE LateSuccess(p, i) BY <1>4, <1>5, <2>3 DEF LateSuccess
  <2>4. CASE Settle(p, i) BY <1>4, <1>5, <2>4 DEF Settle
  <2>5. CASE WaitForManual(p, i) BY <1>4, <1>5, <2>5 DEF WaitForManual
  <2> QED BY <1>5, <2>1, <2>2, <2>3, <2>4, <2>5 DEF SuccessEvent
<1>6. CASE provider[i].state # "SUCCEEDED" /\ FailureEvent(p, i, provider[i].state)
  <2> DEFINE result == provider[i].state
  <2>1. result \in {"FAILED", "CANCELLED"} BY <1>1, <1>6, AppliedEvent DEF PaymentResults
  <2> HIDE DEF result
  <2>2. CASE /\ intent' = [intent EXCEPT ![i].attempt = result]
             /\ Goto(p, "mark")
    <3> DEFINE row == [intent[i] EXCEPT !.attempt = result]
    <3>1. /\ row.located = intent[i].located /\ row.sawSuccess = intent[i].sawSuccess
          /\ row.status = intent[i].status
      BY DEF IntentRow
    <3> HIDE DEF row
    <3>2. intent' = [intent EXCEPT ![i] = row] BY <2>2 DEF row
    <3>3. GoesOn(p) BY <1>1, <2>2, HandlerGoesOn DEF Goto
    <3> QED BY <1>1, <3>1, <3>2, <3>3, EventWitness
  <2>3. CASE /\ intent' = [intent EXCEPT ![i].status = result, ![i].attempt = result,
                                         ![i].sawSuccess = FALSE]
             /\ proc' = [IntentBumped(i) EXCEPT ![p].pc = "mark"]
    <3> DEFINE row == [intent[i] EXCEPT !.status = result, !.attempt = result, !.sawSuccess = FALSE]
    <3>1. row.located = intent[i].located /\ ~row.sawSuccess BY DEF IntentRow
    <3> HIDE DEF row
    <3>2. intent' = [intent EXCEPT ![i] = row] BY <2>3 DEF row, IInv, Rows
    <3>3. provider[i].state # "OPEN" BY <2>1 DEF result
    <3>4. GoesOn(p) BY <1>1, <2>3, HandlerGoesOn
    <3> QED BY <1>1, <3>1, <3>2, <3>3, <3>4, EventWitness
  <2> QED BY <1>6, <2>2, <2>3 DEF FailureEvent, result
<1> QED BY <1>3, <1>5, <1>6 DEF ApplyPaymentCallback

\* A process writes into its intent what it has seen, and forgets it.
LEMMA SeenWritten ==
  ASSUME IInv, Witnessed, ProviderAdvances, NEW p \in Procs, NEW i \in Intents,
         UNCHANGED provider, NEW row, intent' = [intent EXCEPT ![i] = row],
         NEW next, next.pc \notin AtRecord, proc' = [IntentBumped(i) EXCEPT ![p] = next],
         row.located => provider[i].state # "NOT_FOUND",
         row.located /\ row.status \in Terminal => provider[i].state # "OPEN",
         row.sawSuccess => provider[i].state = "SUCCEEDED"
  PROVE  Witnessed'
<1>1. Rows BY DEF IInv
<1>2. /\ Others({p}) /\ proc'[p] = next
      /\ \A q \in Procs \ {p} : proc'[q].pc \in AtRecord /\ proc'[q].intent = i
           => proc'[q].view # "current"
  BY <1>1, OthersBumped
<1>3. Witness(p)' BY <1>2 DEF Witness
<1>4. /\ intent'[i] = row
      /\ \A j \in Intents : j # i => intent'[j] = intent[j]
  BY <1>1 DEF Rows
<1>5. KnownIntent(i)' BY <1>4 DEF KnownIntent
<1> QED BY <1>2, <1>3, <1>4, <1>5, IntentWritten

LEMMA RecordWitness ==
  ASSUME IInv, Witnessed, ProviderAdvances, NEW p \in Procs,
         RecordProviderOutcome(p) \/ FinalizeOrderClose(p)
  PROVE  Witnessed'
<1>1. proc[p].pc \in AtRecord /\ proc[p].pc # "idle" /\ UNCHANGED provider
  BY DEF RecordProviderOutcome, FinalizeOrderClose, AtRecord, outside
<1> SUFFICES ASSUME NEW i \in Intents, i = proc[p].intent, intent[i] \in IntentRow,
                    NEW seen \in ProviderState \cup {"UNKNOWN"}, seen = proc[p].seen
             PROVE  Witnessed'
  BY <1>1, FitOf DEF Working
<1>2. /\ KnownIntent(i)
      /\ WitnessOf(p, i)
  BY <1>1 DEF Witnessed, Witness
<1>3. Idle.pc \notin AtRecord /\ Doing(i, "requeue", "CLOSE").pc \notin AtRecord  BY DEF Idle, Doing, AtRecord
<1>4. CASE Return(p) /\ UNCHANGED intent BY <1>3, <1>4, GoesElsewhere DEF Return
<1>5. ASSUME NEW kind, kind = OutcomeKind(p, seen), CanRecord(p, i, kind, seen),
             intent' = [intent EXCEPT ![i] = RecordedRow(@, kind, seen)],
             proc' = [IntentBumped(i) EXCEPT ![p] = Idle]
      PROVE  Witnessed'
  <2> DEFINE row == RecordedRow(intent[i], kind, seen)
  <2>1. intent' = [intent EXCEPT ![i] = row] BY <1>5
  <2>2. /\ row.located => intent[i].located \/ seen \notin {"NOT_FOUND", "UNKNOWN"}
        /\ row.sawSuccess => seen = "SUCCEEDED"
        /\ row.status \in Terminal =>
             /\ seen \in {"FAILED", "CANCELLED", "CLOSED", "NOT_FOUND"}
             /\ row.located => intent[i].located \/ seen # "NOT_FOUND"
    BY <1>5 DEF RecordedRow, OutcomeKind, FinalStatus, CanRecord, IntentRow, Active, Terminal
  <2>3. proc[p].view = "current" BY <1>5 DEF CanRecord
  <2> HIDE DEF row
  <2>4. /\ row.located => provider[i].state # "NOT_FOUND"
        /\ row.located /\ row.status \in Terminal => provider[i].state # "OPEN"
        /\ row.sawSuccess => provider[i].state = "SUCCEEDED"
    BY <1>2, <2>2, <2>3 DEF KnownIntent, WitnessOf
  <2> QED BY <1>1, <1>3, <1>5, <2>1, <2>4, SeenWritten
<1>6. ASSUME CanFinalize(p, i), NEW status, NEW next \in {Idle, Doing(i, "requeue", "CLOSE")},
             intent' = [intent EXCEPT ![i] = [FinalizeFacts(@, seen) EXCEPT !.status = status]],
             status \in Terminal => seen \notin StillOpen,
             proc' = [IntentBumped(i) EXCEPT ![p] = next]
      PROVE  Witnessed'
  <2> DEFINE row == [FinalizeFacts(intent[i], seen) EXCEPT !.status = status]
  <2>1. intent' = [intent EXCEPT ![i] = row] BY <1>6
  <2>2. /\ row.located => intent[i].located \/ seen \notin {"NOT_FOUND", "UNKNOWN"}
        /\ row.sawSuccess => seen = "SUCCEEDED"
        /\ row.status = status
    BY DEF FinalizeFacts, IntentRow
  <2>3. proc[p].view = "current" BY <1>6 DEF CanFinalize
  <2> HIDE DEF row
  <2>4. /\ row.located => provider[i].state # "NOT_FOUND"
        /\ row.located /\ row.status \in Terminal => provider[i].state # "OPEN"
        /\ row.sawSuccess => provider[i].state = "SUCCEEDED"
    BY <1>2, <1>6, <2>2, <2>3 DEF KnownIntent, WitnessOf, StillOpen
  <2> QED BY <1>1, <1>3, <1>6, <2>1, <2>4, SeenWritten
<1>7. CASE RecordProviderOutcome(p) BY <1>4, <1>5, <1>7 DEF RecordProviderOutcome
<1>8. CASE CanFinalize(p, i) /\ KeepPending(p, i)
  <2>1. FinalizeFacts(intent[i], seen) =
          [FinalizeFacts(intent[i], seen) EXCEPT !.status = intent[i].status]
    BY DEF FinalizeFacts, IntentRow
  <2>2. intent[i].status \notin Terminal BY <1>8 DEF CanFinalize, Terminal
  <2> QED BY <1>6, <1>8, <2>1, <2>2 DEF KeepPending
<1>9. CASE CanFinalize(p, i) /\ FinishClose(p, i) BY <1>6, <1>9 DEF FinishClose
<1> QED BY <1>4, <1>7, <1>8, <1>9 DEF FinalizeOrderClose

--------------------------------
LEMMA WitnessedStep ==
  ASSUME IInv, Witnessed, Next
  PROVE  Witnessed'
<1>0. ProviderAdvances BY ProviderGoesOn
<1>1. CASE World
  BY <1>0, <1>1, NobodyLearns
    DEF World, CreateOrder, ExpiryPasses, SubmitResult, DeliverResult, AbandonedCommandRuns
<1>2. ASSUME NEW p \in Procs, NEW o \in Orders,
             \/ PreparePaymentIntent(p, o)
             \/ \E mode \in CloseMode : ClaimOrderClose(p, o, mode)
             \/ ExpireNextOrder(p, o)
      PROVE  Witnessed'
  BY <1>0, <1>2, OrderWitness
<1>3. ASSUME NEW p \in Procs, \/ Crash(p)
                              \/ \E i \in Intents : StartReconciliation(p, i) \/ TakeCallback(p, i)
      PROVE  Witnessed'
  BY <1>0, <1>3, QuietWitness
<1>4. ASSUME NEW p \in Procs, CallTimesOut(p) PROVE Witnessed'
  BY <1>0, <1>4, CallsWitness
<1>5. ASSUME NEW p \in Procs, Continue(p) PROVE Witnessed'
  <2>1. CASE \/ QueryProvider(p) \/ CreateAtProvider(p) \/ CloseAtProvider(p)
             \/ RefundAtProvider(p)
    BY <1>0, <2>1, CallsWitness
  <2>2. CASE \/ RevalidateProviderCreate(p) \/ MarkProcessed(p) \/ ReceiveForReconciliation(p)
             \/ RequeueCallback(p) \/ RepairTerminalClose(p)
    BY <1>0, <2>2, QuietWitness
  <2>3. CASE ClaimLateRefund(p) \/ FinalizeLateRefund(p) \/ RetryLateRefund(p)  BY <1>0, <2>3, RefundWitness
  <2>4. CASE ApplyPaymentCallback(p) BY <1>0, <2>4, ApplyWitness
  <2>5. CASE RecordProviderOutcome(p) \/ FinalizeOrderClose(p) BY <1>0, <2>5, RecordWitness
  <2> QED BY <1>5, <2>1, <2>2, <2>3, <2>4, <2>5 DEF Continue
<1>6. CloseMode = {"USER_CANCELLED", "PAYMENT_TIMEOUT"} BY DEF CloseMode
<1>7. ASSUME NEW p \in Payers, Pay(p) PROVE Witnessed'
  BY <1>2, <1>7 DEF Pay, Procs
<1>8. ASSUME NEW p \in Cancellers, Cancel(p) PROVE Witnessed'
  BY <1>2, <1>6, <1>8 DEF Cancel, CancelOrder, Procs
<1>9. ASSUME NEW p \in TimeoutWorkers, NEW o \in Orders, Timeout(p, o) PROVE Witnessed'
  BY <1>2, <1>6, <1>9 DEF Timeout, ClaimNextOrderClose, Procs
<1>10. ASSUME NEW p \in Admins, Reconcile(p) PROVE Witnessed'
  BY <1>3, <1>10 DEF Reconcile, Procs
<1>11. ASSUME NEW p \in CallbackWorkers, NEW i \in Intents, TakeCallback(p, i) PROVE Witnessed'
  BY <1>3, <1>11 DEF Procs
<1> QED BY <1>1, <1>3, <1>4, <1>5, <1>7, <1>8, <1>9, <1>10, <1>11 DEF Next

LEMMA WitnessStutters ==
  ASSUME Witnessed, UNCHANGED vars
  PROVE  Witnessed'
BY DEF vars, Witnessed, KnownIntent, Witness, WitnessOf, SawMoney

LEMMA NothingKnownAtFirst ==
  ASSUME Init
  PROVE  Witnessed
BY DEF Init, Witnessed, KnownIntent, Witness, AtRecord, Idle, NoIntentRow

LEMMA WitnessedAlways == Spec => [](IInv /\ Witnessed)
<1>1. IInv /\ Witnessed /\ [Next]_vars => Witnessed' BY WitnessedStep, WitnessStutters
<1> QED BY <1>1, NothingKnownAtFirst, Invariance, PTL DEF Spec

\* An intent the shop knows at the provider and has given up cannot be
\* paid in the ordinary way any more (finalizeProviderOutcome and
\* finalizeOrderClose, written from a view nobody overtook).
THEOREM GivenUp == Spec => []GivenUpIsNotPayable
<1>1. Witnessed => GivenUpIsNotPayable BY DEF Witnessed, KnownIntent, GivenUpIsNotPayable
<1> QED BY <1>1, WitnessedAlways, PTL

--------------------------------
\* An order is closed only when none of its active intents saw money.
NothingSeen(o) ==
  \A i \in IntentsOf(o) : intent[i].status \in Active => ~intent[i].sawSuccess

ClosesUnseen ==
  \A o \in Orders :
    order[o].status = "PENDING_PAYMENT" /\ order'[o].status = "CLOSED" => NothingSeen(o)

LEMMA UnseenWrite ==
  ASSUME NEW o, \A q \in Orders \ {o} : order'[q] = order[q],
         \/ order[o].status # "PENDING_PAYMENT"
         \/ order'[o].status # "CLOSED"
         \/ order'[o].status = order[o].status
         \/ NothingSeen(o)
  PROVE  ClosesUnseen
BY DEF ClosesUnseen

LEMMA OrdersUnseen ==
  ASSUME UNCHANGED order
  PROVE  ClosesUnseen
BY DEF ClosesUnseen

LEMMA CloseUnseen ==
  ASSUME Rows, NEW o, NEW mode, Closable(o, IntentsOf(o)), CloseLockedOrder(o, mode)
  PROVE  ClosesUnseen
<1>1. NothingSeen(o) BY DEF Closable, OnlyTerminal, NothingSeen, Active, Terminal
<1> QED BY <1>1, UnseenWrite DEF CloseLockedOrder, Rows

LEMMA FinalizeUnseen ==
  ASSUME IInv, Witnessed, NEW p \in Procs, FinalizeOrderClose(p)
  PROVE  ClosesUnseen
<1>1. proc[p].pc = "finalize_close" /\ Rows BY DEF FinalizeOrderClose, IInv
<1> SUFFICES ASSUME NEW i \in Intents, i = proc[p].intent, NEW o \in Orders, o = OrderOf(i)
             PROVE  ClosesUnseen
  BY <1>1, FitOf
<1>2. CASE UNCHANGED order BY <1>2, OrdersUnseen
<1>3. CASE CanFinalize(p, i) /\ FinishClose(p, i)
  <2>1. WitnessOf(p, i) BY <1>1 DEF Witnessed, Witness, AtRecord
  <2>2. ~intent[i].sawSuccess  BY <1>3, <2>1 DEF CanFinalize, FinishClose, WitnessOf, SawMoney, StillOpen
  <2>3. \A j \in IntentsOf(o) \ {i} : intent[j].status \notin Active
    BY <1>3 DEF CanFinalize, FinishClose, Closable, OnlyTerminal, Active, Terminal
  <2>4. NothingSeen(o) BY <2>2, <2>3 DEF NothingSeen
  <2> QED BY <1>1, <1>3, <2>4, UnseenWrite DEF FinishClose, CloseLockedOrder, Rows
<1> QED BY <1>2, <1>3 DEF FinalizeOrderClose, KeepPending

LEMMA ApplyUnseen ==
  ASSUME IInv, NEW p \in Procs, ApplyPaymentCallback(p)
  PROVE  ClosesUnseen
<1> SUFFICES ASSUME NEW i \in Intents, i = proc[p].intent, NEW o \in Orders, o = OrderOf(i)
             PROVE  ClosesUnseen
  <2>1. proc[p].pc # "idle" BY DEF ApplyPaymentCallback
  <2> QED BY <2>1, FitOf
<1>1. Rows BY DEF IInv
<1>2. CASE UNCHANGED order BY <1>2, OrdersUnseen
<1>3. CASE LateSuccess(p, i) \/ Settle(p, i) \/ WaitForManual(p, i)
  <2>1. /\ \A q \in Orders \ {o} : order'[q] = order[q]
        /\ order'[o].status = order[o].status \/ order'[o].status # "CLOSED"
    BY <1>1, <1>3 DEF LateSuccess, Settle, WaitForManual, Rows, OrderRow
  <2> QED BY <2>1, UnseenWrite
<1>4. CASE order' = [order EXCEPT ![o].payment = "UNPAID"]
  <2>1. /\ \A q \in Orders \ {o} : order'[q] = order[q]
        /\ order'[o].status = order[o].status
    BY <1>1, <1>4 DEF Rows, OrderRow
  <2> QED BY <2>1, UnseenWrite
<1> QED BY <1>2, <1>3, <1>4 DEF ApplyPaymentCallback, SuccessEvent, FailureEvent, LateReplay, SettledReplay

LEMMA PaymentAndResolutionUnseen ==
  ASSUME Rows, NEW o \in Orders, NEW value,
         \/ order' = [order EXCEPT ![o].payment = value]
         \/ order' = [order EXCEPT ![o].resolution = value]
  PROVE  ClosesUnseen
<1>1. /\ \A q \in Orders \ {o} : order'[q] = order[q]
      /\ order'[o].status = order[o].status
  BY DEF Rows, OrderRow
<1> QED BY <1>1, UnseenWrite

LEMMA StepUnseen ==
  ASSUME IInv, Witnessed, Next
  PROVE  ClosesUnseen
<1>0. Rows BY DEF IInv
<1>1. ASSUME NEW o \in Orders, CreateOrder(o) PROVE ClosesUnseen
  BY <1>0, <1>1, UnseenWrite DEF CreateOrder, Rows
<1>2. CASE World
  BY <1>1, <1>2, OrdersUnseen DEF World, ExpiryPasses, SubmitResult, DeliverResult, AbandonedCommandRuns
<1>3. ASSUME NEW p, NEW o, \/ \E mode \in CloseMode : ClaimOrderClose(p, o, mode)
                           \/ ExpireNextOrder(p, o)
      PROVE  ClosesUnseen
  BY <1>0, <1>3, OrdersUnseen, CloseUnseen DEF ClaimOrderClose, ExpireNextOrder
<1>4. ASSUME NEW p \in Procs, RepairTerminalClose(p) PROVE ClosesUnseen
  BY <1>0, <1>4, OrdersUnseen, CloseUnseen DEF RepairTerminalClose
<1>5. ASSUME NEW p \in Procs, \/ RecordProviderOutcome(p) \/ ClaimLateRefund(p)
                              \/ FinalizeLateRefund(p) \/ RetryLateRefund(p)
      PROVE  ClosesUnseen
  <2>1. OrderOf(proc[p].intent) \in Orders
    <3>1. proc[p].pc # "idle"
      BY <1>5 DEF RecordProviderOutcome, ClaimLateRefund, FinalizeLateRefund, RetryLateRefund
    <3> QED BY <3>1, FitOf
  <2> QED BY <1>0, <1>5, <2>1, OrdersUnseen, PaymentAndResolutionUnseen DEF RecordProviderOutcome,
     ClaimLateRefund, FinalizeLateRefund, RetryLateRefund
<1>6. ASSUME NEW p \in Procs, Continue(p) PROVE ClosesUnseen
  BY <1>4, <1>5, <1>6, FinalizeUnseen, ApplyUnseen, OrdersUnseen DEF Continue, QueryProvider,
    CreateAtProvider, CloseAtProvider, RefundAtProvider, RevalidateProviderCreate, MarkProcessed,
    ReceiveForReconciliation, RequeueCallback
<1>7. ASSUME NEW p, NEW o, Timeout(p, o) PROVE ClosesUnseen
  <2>1. "PAYMENT_TIMEOUT" \in CloseMode BY DEF CloseMode
  <2> QED BY <1>3, <1>7, <2>1 DEF Timeout, ClaimNextOrderClose
<1>8. ASSUME NEW p, Cancel(p) PROVE ClosesUnseen
  <2>1. "USER_CANCELLED" \in CloseMode BY DEF CloseMode
  <2> QED BY <1>3, <1>8, <2>1 DEF Cancel, CancelOrder
<1>9. ASSUME NEW p, \/ Pay(p) \/ Reconcile(p) \/ CallTimesOut(p) \/ Crash(p)
                    \/ \E i \in Intents : TakeCallback(p, i)
      PROVE  ClosesUnseen
  BY <1>9, OrdersUnseen
    DEF Pay, PreparePaymentIntent, Reconcile, StartReconciliation, CallTimesOut, Crash, TakeCallback
<1> QED BY <1>2, <1>6, <1>7, <1>8, <1>9 DEF Next

\* While money was seen on an intent that is still active, its order is
\* not closed under it (every way to close: cancellation, the timeout
\* worker, finalization after a provider call, repair).
THEOREM SeenMoneyKept == Spec => SeenMoneyKeepsOrder
<1>1. ASSUME IInv, ClosesUnseen
      PROVE  \A i \in Intents :
               /\ intent[i].status \in Active
               /\ intent[i].sawSuccess
               /\ order[OrderOf(i)].status = "PENDING_PAYMENT"
               => order'[OrderOf(i)].status # "CLOSED"
  <2> SUFFICES ASSUME NEW o \in Orders, NEW i \in IntentsOf(o),
                      intent[i].status \in Active, intent[i].sawSuccess
               PROVE  ~(order[o].status = "PENDING_PAYMENT" /\ order'[o].status = "CLOSED")
    BY DEF Intents, IntentsOf, OrderOf
  <2> QED BY <1>1 DEF ClosesUnseen, NothingSeen
<1>2. IInv /\ Witnessed /\ [Next]_vars => [IInv /\ ClosesUnseen]_vars BY StepUnseen
<1>3. Spec => [][IInv /\ ClosesUnseen]_vars BY <1>2, WitnessedAlways, PTL DEF Spec
<1>4. [IInv /\ ClosesUnseen]_vars => [\A i \in Intents :
               /\ intent[i].status \in Active
               /\ intent[i].sawSuccess
               /\ order[OrderOf(i)].status = "PENDING_PAYMENT"
               => order'[OrderOf(i)].status # "CLOSED"]_vars
  BY <1>1
<1> QED BY <1>3, <1>4, PTL DEF SeenMoneyKeepsOrder
--------------------------------
\* The promise.  A step that it can see writes one order; for that order
\* the three layers say what its pieces and its money were before.

AllGoods == [o \in Orders |-> Goods(o)]
AllMoney == [o \in Orders |-> Money(o)]

LEMMA PromiseMoves ==
  ASSUME NEW o \in Orders, NEW g, NEW m,
         AllGoods' = [AllGoods EXCEPT ![o] = g],
         AllMoney' = [AllMoney EXCEPT ![o] = m],
         \/ /\ Goods(o) = "none" /\ g = "reserved" /\ m = Money(o)
            /\ physical - locked >= Qty
            /\ physical' - locked' = physical - locked - Qty
         \/ /\ Goods(o) = "reserved" /\ Money(o) = "none" /\ m = "kept"
            /\ g \in {"sold", "reserved"}
            /\ physical' - locked' = physical - locked
         \/ /\ Goods(o) = "reserved" /\ Money(o) = "kept" /\ m = "kept" /\ g = "sold"
            /\ physical' - locked' = physical - locked
         \/ /\ Goods(o) = "reserved" /\ Money(o) = "none" /\ m = "none" /\ g = "released"
            /\ physical' - locked' = physical - locked + Qty
         \/ /\ Goods(o) = "released" /\ Money(o) = "none" /\ m = "owed" /\ g = "released"
            /\ physical' - locked' = physical - locked
         \/ /\ Money(o) = "owed" /\ m = "returned" /\ g = Goods(o)
            /\ physical' - locked' = physical - locked
  PROVE  Promise!Next
<1>1. /\ AllGoods[o] = Goods(o) /\ AllMoney[o] = Money(o)
      /\ AllGoods = [AllGoods EXCEPT ![o] = Goods(o)]
      /\ AllMoney = [AllMoney EXCEPT ![o] = Money(o)]
  BY DEF AllGoods, AllMoney
<1>2. g = Goods(o) => AllGoods' = AllGoods BY <1>1
<1>3. m = Money(o) => AllMoney' = AllMoney BY <1>1
<1> USE DEF AllGoods, AllMoney
<1>4. CASE /\ Goods(o) = "none" /\ g = "reserved" /\ m = Money(o)
           /\ physical - locked >= Qty
           /\ physical' - locked' = physical - locked - Qty
  <2>1. Promise!Reserve(o) BY <1>1, <1>3, <1>4 DEF Promise!Reserve
  <2> QED BY <2>1 DEF Promise!Next
<1>5. CASE /\ Goods(o) = "reserved" /\ Money(o) = "none" /\ m = "kept"
           /\ g \in {"sold", "reserved"}
           /\ physical' - locked' = physical - locked
  <2>1. Promise!TakeMoney(o) BY <1>1, <1>2, <1>5 DEF Promise!TakeMoney
  <2> QED BY <2>1 DEF Promise!Next
<1>6. CASE /\ Goods(o) = "reserved" /\ Money(o) = "kept" /\ m = "kept" /\ g = "sold"
           /\ physical' - locked' = physical - locked
  <2>1. Promise!HandOver(o) BY <1>1, <1>3, <1>6 DEF Promise!HandOver
  <2> QED BY <2>1 DEF Promise!Next
<1>7. CASE /\ Goods(o) = "reserved" /\ Money(o) = "none" /\ m = "none" /\ g = "released"
           /\ physical' - locked' = physical - locked + Qty
  <2>1. Promise!Release(o) BY <1>1, <1>3, <1>7 DEF Promise!Release
  <2> QED BY <2>1 DEF Promise!Next
<1>8. CASE /\ Goods(o) = "released" /\ Money(o) = "none" /\ m = "owed" /\ g = "released"
           /\ physical' - locked' = physical - locked
  <2>1. Promise!TakeLateMoney(o) BY <1>1, <1>2, <1>8 DEF Promise!TakeLateMoney
  <2> QED BY <2>1 DEF Promise!Next
<1>9. CASE /\ Money(o) = "owed" /\ m = "returned" /\ g = Goods(o)
           /\ physical' - locked' = physical - locked
  <2>1. Promise!GiveBack(o) BY <1>1, <1>2, <1>9 DEF Promise!GiveBack
  <2> QED BY <2>1 DEF Promise!Next
<1> QED BY <1>4, <1>5, <1>6, <1>7, <1>8, <1>9

\* What the promise sees of an order.
LateIn(o) == \E i \in IntentsOf(o) : intent[i].attempt = "SUCCEEDED_LATE"

Unchanged(o) ==
  /\ order'[o].reservation = order[o].reservation
  /\ order'[o].payment = "PAID" <=> order[o].payment = "PAID"
  /\ LateIn(o)' <=> LateIn(o)
  /\ returned'[o] = returned[o]

LEMMA PromiseStutters ==
  ASSUME \A o \in Orders : Unchanged(o), physical' - locked' = physical - locked
  PROVE  UNCHANGED Promise!promise
<1>1. ASSUME NEW o \in Orders PROVE Goods(o)' = Goods(o) /\ Money(o)' = Money(o)
  BY DEF Unchanged, LateIn, Goods, Money
<1> QED BY <1>1 DEF Promise!promise

LEMMA PromiseElsewhere ==
  ASSUME NEW o \in Orders, \A q \in Orders \ {o} : Unchanged(q)
  PROVE  /\ AllGoods' = [AllGoods EXCEPT ![o] = Goods(o)']
         /\ AllMoney' = [AllMoney EXCEPT ![o] = Money(o)']
<1>1. ASSUME NEW q \in Orders \ {o} PROVE Goods(q)' = Goods(q) /\ Money(q)' = Money(q)
  BY DEF Unchanged, LateIn, Goods, Money
<1> QED BY <1>1 DEF AllGoods, AllMoney

\* The writes of one order and one of its intents.
LEMMA OthersUnchanged ==
  ASSUME NEW o \in Orders, NEW i \in Intents, OrderOf(i) = o, UNCHANGED returned,
         \A q \in Orders \ {o} : order'[q] = order[q],
         \A j \in Intents : j # i => intent'[j] = intent[j]
  PROVE  \A q \in Orders \ {o} : Unchanged(q)
<1> SUFFICES ASSUME NEW q \in Orders \ {o} PROVE Unchanged(q)
  OBVIOUS
<1>1. \A j \in IntentsOf(q) : j \in Intents /\ j # i BY DEF IntentsOf, Intents, OrderOf
<1> QED BY <1>1 DEF Unchanged, LateIn

\* An open order that nothing was paid for: its pieces are reserved, and the
\* customer's money is where it was.
LEMMA OpenAndUnpaid ==
  ASSUME SalesAgree, Refunding, NEW o \in Orders, order[o].status = "PENDING_PAYMENT",
         order[o].payment # "PAID"
  PROVE  Goods(o) = "reserved" /\ Money(o) = "none" /\ ~LateIn(o) /\ ~returned[o]
<1>1. IntentsOf(o) = Of(o) /\ SaleAgrees(o) /\ RefundReal(o)  BY IntentsOfOrder DEF SalesAgree, Refunding
<1> QED BY <1>1 DEF SaleAgrees, IntentsAgree, OrderAgrees, RefundAgrees, RefundReal, Goods, Money, LateIn,
   Paid
\* closeLockedOrder, with or without a write of one of the order's intents.
LEMMA ClosePromise ==
  ASSUME IInv, SalesAgree, Refunding, NEW o \in Orders, NEW mode, NEW others,
         Closable(o, others), CloseLockedOrder(o, mode), UNCHANGED returned,
         \A j \in Intents : intent'[j].attempt = intent[j].attempt
  PROVE  Promise!Next
<1>1. Rows /\ IntentsOf(o) \subseteq Intents /\ Qty \in Nat /\ physical \in Int /\ locked \in Int
  BY ConstantsAssumption, StockIsNatural DEF StockInv, IInv, IntentsOf, Intents
<1>2. /\ order' = [order EXCEPT ![o] = ClosedRow(order[o], mode)]
      /\ physical' - locked' = physical - locked + Qty
  BY <1>1 DEF CloseLockedOrder
<1>3. /\ \A q \in Orders \ {o} : order'[q] = order[q]
      /\ order'[o].reservation \in {"RELEASED", "EXPIRED"}
      /\ order'[o].payment = "UNPAID"
  BY <1>1, <1>2 DEF Rows, ClosedRow, OrderRow
<1>4. \A j \in IntentsOf(o) : ~Paid(j) BY DEF Closable, SomePaid
<1>5. order[o].payment # "PAID" /\ order[o].status = "PENDING_PAYMENT"
  <2>1. IntentsOf(o) = Of(o) /\ IntentsAgree(o) BY IntentsOfOrder DEF SalesAgree, SaleAgrees
  <2> QED BY <1>4, <2>1 DEF IntentsAgree, Closable, OpenForPayment
<1>6. Goods(o) = "reserved" /\ Money(o) = "none" /\ ~LateIn(o) /\ ~returned[o]  BY <1>5, OpenAndUnpaid
<1>7. ~LateIn(o)' /\ ~returned'[o] BY <1>1, <1>6 DEF LateIn
<1>8. Goods(o)' = "released" /\ Money(o)' = "none" BY <1>3, <1>7 DEF Goods, Money, LateIn
<1>9. \A q \in Orders \ {o} : Unchanged(q) BY <1>3 DEF Unchanged, LateIn, IntentsOf, Intents
<1> QED BY <1>2, <1>6, <1>8, <1>9, PromiseElsewhere, PromiseMoves

\* The order's money, once recorded on one of its intents.
LEMMA PaidPromise ==
  ASSUME IInv, SalesAgree, Refunding, NEW i \in Intents, NEW o \in Orders, o = OrderOf(i),
         UNCHANGED returned, NEW attempt,
         intent' = [intent EXCEPT ![i] = PaidRow(intent[i], attempt)],
         \A q \in Orders \ {o} : order'[q] = order[q], order'[o].payment = "PAID"
  PROVE  /\ \A q \in Orders \ {o} : Unchanged(q)
         /\ attempt = "SUCCEEDED" => (LateIn(o)' => LateIn(o))
         /\ attempt = "SUCCEEDED_LATE" => LateIn(o)'
<1>1. Rows /\ i \in IntentsOf(o) /\ IntentsOf(o) \subseteq Intents  BY DEF IInv, IntentsOf, Intents, OrderOf
<1>2. /\ \A j \in Intents : j # i => intent'[j] = intent[j]
      /\ intent'[i].attempt = attempt
  BY <1>1 DEF Rows, PaidRow, IntentRow
<1>3. \A q \in Orders \ {o} : Unchanged(q) BY <1>2, OthersUnchanged
<1> QED BY <1>1, <1>2, <1>3 DEF LateIn

LEMMA ApplyPromise ==
  ASSUME IInv, SalesAgree, Refunding, NEW p \in Procs, ApplyPaymentCallback(p)
  PROVE  Promise!Next \/ UNCHANGED Promise!promise
<1>1. proc[p].pc = "apply" /\ UNCHANGED <<provider, returned>> /\ Rows
      /\ Qty \in Nat /\ physical \in Int /\ locked \in Int
  BY ConstantsAssumption, StockIsNatural DEF StockInv, ApplyPaymentCallback, outside, IInv
<1> SUFFICES ASSUME NEW i \in Intents, i = proc[p].intent, NEW o \in Orders, o = OrderOf(i),
                    intent[i] \in IntentRow, order[o] \in OrderRow
             PROVE  Promise!Next \/ UNCHANGED Promise!promise
  BY <1>1, FitOf DEF Rows
<1>2. SaleAgrees(o) /\ RefundReal(o) /\ IntentsOf(o) = Of(o) /\ i \in IntentsOf(o)
  BY IntentsOfOrder DEF SalesAgree, Refunding, Of
<1>3. CASE UNCHANGED <<order, stock, intent>>  BY <1>1, <1>3, PromiseStutters DEF stock, Unchanged, LateIn
<1>4. ASSUME order[o].payment # "PAID", order[o].status = "PENDING_PAYMENT",
             NEW attempt, attempt = "SUCCEEDED",
             intent' = [intent EXCEPT ![i] = PaidRow(intent[i], attempt)],
             \A q \in Orders \ {o} : order'[q] = order[q], order'[o].payment = "PAID",
             order'[o].reservation \in {"ACTIVE", "CONSUMED"},
             physical' - locked' = physical - locked
      PROVE  Promise!Next
  <2>1. Goods(o) = "reserved" /\ Money(o) = "none" /\ ~LateIn(o) /\ ~returned[o]  BY <1>4, OpenAndUnpaid
  <2>2. (\A q \in Orders \ {o} : Unchanged(q)) /\ ~LateIn(o)' BY <1>1, <1>4, <2>1, PaidPromise
  <2>3. Goods(o)' \in {"sold", "reserved"} /\ Money(o)' = "kept"
    BY <1>1, <1>4, <2>1, <2>2 DEF Goods, Money, LateIn
  <2> QED BY <1>4, <2>1, <2>2, <2>3, PromiseElsewhere, PromiseMoves
<1>5. CASE Settle(p, i)
  <2>1. /\ intent' = [intent EXCEPT ![i] = PaidRow(intent[i], "SUCCEEDED")]
        /\ \A q \in Orders \ {o} : order'[q] = order[q]
        /\ order'[o].payment = "PAID" /\ order'[o].reservation = "CONSUMED"
        /\ physical' - locked' = physical - locked
    BY <1>1, <1>5 DEF Settle, Rows, OrderRow
  <2>2. CASE Payable(i) BY <1>4, <2>1, <2>2 DEF Payable, Undecided
  <2>3. CASE Compensable(i)
    <3>1. /\ order[o].status = "PENDING_PAYMENT" /\ order[o].payment = "PAID"
          /\ ~LateIn(o) /\ ~returned[o]
      BY <1>2, <2>3 DEF Compensable, SaleAgrees, IntentsAgree, OrderAgrees, RefundAgrees,
        RefundReal, LateIn, Paid
    <3>2. Goods(o) = "reserved" /\ Money(o) = "kept"
      BY <1>2, <3>1 DEF SaleAgrees, OrderAgrees, Goods, Money, LateIn
    <3>3. (\A q \in Orders \ {o} : Unchanged(q)) /\ ~LateIn(o)' BY <1>1, <2>1, <3>1, PaidPromise
    <3>4. Goods(o)' = "sold" /\ Money(o)' = "kept"  BY <1>1, <2>1, <3>1, <3>3 DEF Goods, Money, LateIn
    <3> QED BY <2>1, <3>2, <3>3, <3>4, PromiseElsewhere, PromiseMoves
  <2> QED BY <1>5, <2>2, <2>3 DEF Settle
<1>6. CASE WaitForManual(p, i)
  <2>1. /\ intent' = [intent EXCEPT ![i] = PaidRow(intent[i], "SUCCEEDED")]
        /\ \A q \in Orders \ {o} : order'[q] = order[q]
        /\ order'[o].payment = "PAID" /\ order'[o].reservation = order[o].reservation
        /\ physical' - locked' = physical - locked
    BY <1>1, <1>6 DEF WaitForManual, Rows, OrderRow, stock
  <2>2. order[o].payment # "PAID" /\ order[o].status = "PENDING_PAYMENT"
        /\ order[o].reservation = "ACTIVE"
    BY <1>2, <1>6 DEF WaitForManual, Payable, Undecided, SaleAgrees, OrderAgrees
  <2> QED BY <1>4, <2>1, <2>2
<1>7. CASE LateSuccess(p, i)
  <2>1. /\ intent' = [intent EXCEPT ![i] = PaidRow(intent[i], "SUCCEEDED_LATE")]
        /\ \A q \in Orders \ {o} : order'[q] = order[q]
        /\ order'[o].payment = "PAID" /\ order'[o].reservation = order[o].reservation
        /\ physical' - locked' = physical - locked
    BY <1>1, <1>7 DEF LateSuccess, Rows, OrderRow, stock
  <2>2. order[o].status = "CLOSED" /\ order[o].payment = "UNPAID" /\ refund[o] = "NONE"
    BY <1>7 DEF LateSuccess, ForClosedOrder, Refundable
  <2>3. Goods(o) = "released" /\ Money(o) = "none" /\ ~returned[o]
    BY <1>2, <2>2 DEF SaleAgrees, OrderAgrees, IntentsAgree, RefundReal, Goods, Money
  <2>4. (\A q \in Orders \ {o} : Unchanged(q)) /\ LateIn(o)' BY <1>1, <2>1, PaidPromise
  <2>5. Goods(o)' = "released" /\ Money(o)' = "owed"  BY <1>1, <2>1, <2>3, <2>4 DEF Goods, Money, LateIn
  <2> QED BY <2>1, <2>3, <2>4, <2>5, PromiseElsewhere, PromiseMoves
<1>8. CASE provider[i].state # "SUCCEEDED" /\ FailureEvent(p, i, provider[i].state)
  <2>1. provider[i].state \in {"FAILED", "CANCELLED"}  BY <1>1, <1>8, AppliedEvent DEF PaymentResults
  <2>2. /\ \A j \in Intents : j # i => intent'[j] = intent[j]
        /\ intent'[i].attempt # "SUCCEEDED_LATE"
        /\ \A q \in Orders \ {o} : order'[q] = order[q]
        /\ order'[o].reservation = order[o].reservation
        /\ physical' - locked' = physical - locked
    BY <1>1, <1>8, <2>1 DEF FailureEvent, Rows, OrderRow, IntentRow, stock
  <2>3. intent[i].status # "SUCCEEDED" /\ (order'[o].payment = "PAID" <=> order[o].payment = "PAID")
    BY <1>1, <1>8, <2>1 DEF FailureEvent, Undecided, Active, Rows, OrderRow
  <2>4. intent[i].attempt # "SUCCEEDED_LATE" BY <1>2, <2>3 DEF SaleAgrees, IntentsAgree, Paid
  <2>5. Unchanged(o)
    <3>1. IntentsOf(o) \subseteq Intents BY DEF IntentsOf, Intents
    <3> QED BY <1>1, <2>2, <2>3, <2>4, <3>1 DEF Unchanged, LateIn
  <2>6. \A q \in Orders \ {o} : Unchanged(q) BY <1>1, <2>2, OthersUnchanged
  <2> QED BY <2>2, <2>5, <2>6, PromiseStutters
<1> QED BY <1>3, <1>5, <1>6, <1>7, <1>8 DEF ApplyPaymentCallback, SuccessEvent, LateReplay, SettledReplay,
   stock

\* The provider runs the refund of an order that has one.
LEMMA RefundPromise ==
  ASSUME SalesAgree, Refunding, Rows, NEW o \in Orders, refund[o] # "NONE",
         UNCHANGED <<order, stock, intent>>,
         returned' = [returned EXCEPT ![o] = TRUE]
  PROVE  Promise!Next \/ UNCHANGED Promise!promise
<1>1. /\ \A q \in Orders \ {o} : Unchanged(q)
      /\ returned'[o] /\ UNCHANGED <<physical, locked>>
  BY DEF Rows, Unchanged, LateIn, stock
<1>2. CASE returned[o]
  <2>1. Unchanged(o) BY <1>1, <1>2 DEF Unchanged, LateIn
  <2> QED BY <1>1, <2>1, PromiseStutters
<1>3. CASE ~returned[o]
  <2>1. LateIn(o) BY IntentsOfOrder DEF SalesAgree, SaleAgrees, RefundAgrees, LateIn
  <2>2. Money(o) = "owed" /\ Money(o)' = "returned" /\ Goods(o)' = Goods(o)
    BY <1>1, <1>3, <2>1 DEF Money, LateIn, Goods
  <2> QED BY <1>1, <2>2, PromiseElsewhere, PromiseMoves
<1> QED BY <1>2, <1>3

LEMMA FinalizePromise ==
  ASSUME IInv, SalesAgree, Refunding, NEW p \in Procs,
         FinalizeOrderClose(p) \/ RepairTerminalClose(p) \/ RecordProviderOutcome(p)
  PROVE  Promise!Next \/ UNCHANGED Promise!promise
<1>1. /\ UNCHANGED returned /\ Rows /\ proc[p].pc # "idle"
  BY DEF FinalizeOrderClose, RepairTerminalClose, RecordProviderOutcome, IInv, outside
<1> SUFFICES ASSUME NEW i \in Intents, i = proc[p].intent, NEW o \in Orders, o = OrderOf(i),
                    intent[i] \in IntentRow, order[o] \in OrderRow,
                    NEW seen \in ProviderState \cup {"UNKNOWN"}, seen = proc[p].seen
             PROVE  Promise!Next \/ UNCHANGED Promise!promise
  BY <1>1, FitOf DEF Working, Rows
<1>2. CASE UNCHANGED <<order, stock, intent>>  BY <1>1, <1>2, PromiseStutters DEF stock, Unchanged, LateIn
<1>3. CASE RepairTerminalClose(p)
  <2>1. CASE Closable(o, IntentsOf(o)) /\ CloseLockedOrder(o, intent[i].closeRequest)
    BY <1>1, <1>3, <2>1, ClosePromise DEF RepairTerminalClose
  <2> QED BY <1>2, <1>3, <2>1 DEF RepairTerminalClose
<1>4. ASSUME NEW row, intent' = [intent EXCEPT ![i] = row], row.attempt = intent[i].attempt
      PROVE  /\ intent'[i].attempt = intent[i].attempt
             /\ \A j \in Intents : j # i => intent'[j] = intent[j]
  BY <1>1, <1>4 DEF Rows
<1>5. CASE FinalizeOrderClose(p)
  <2>1. CASE CanFinalize(p, i) /\ KeepPending(p, i)
    <3>1. FinalizeFacts(intent[i], seen).attempt = intent[i].attempt  BY DEF FinalizeFacts, IntentRow
    <3>2. /\ intent' = [intent EXCEPT ![i] = FinalizeFacts(intent[i], seen)]
          /\ UNCHANGED <<order, physical, locked>>
      BY <2>1 DEF KeepPending, stock
    <3>3. \A j \in Intents : intent'[j].attempt = intent[j].attempt BY <1>4, <3>1, <3>2
    <3>4. \A q \in Orders : IntentsOf(q) \subseteq Intents BY DEF IntentsOf, Intents
    <3> QED BY <1>1, <3>2, <3>3, <3>4, PromiseStutters DEF Unchanged, LateIn
  <2>2. CASE CanFinalize(p, i) /\ FinishClose(p, i)
    <3> DEFINE row == [FinalizeFacts(intent[i], seen) EXCEPT
                         !.status = CloseTarget(seen, intent[i].closeRequest)]
    <3>1. row.attempt = intent[i].attempt BY DEF FinalizeFacts, IntentRow
    <3>2. intent' = [intent EXCEPT ![i] = row] BY <2>2 DEF FinishClose
    <3> HIDE DEF row
    <3>3. /\ Closable(o, IntentsOf(o) \ {i})
          /\ CloseLockedOrder(o, intent[i].closeRequest)
      BY <2>2 DEF CanFinalize, FinishClose
    <3>4. \A j \in Intents : intent'[j].attempt = intent[j].attempt BY <1>4, <3>1, <3>2
    <3> QED BY <1>1, <3>3, <3>4, ClosePromise
  <2> QED BY <1>2, <1>5, <2>1, <2>2 DEF FinalizeOrderClose
<1>6. CASE RecordProviderOutcome(p)
  <2> DEFINE kind == OutcomeKind(p, seen)
  <2>1. CASE /\ CanRecord(p, i, kind, seen)
             /\ intent' = [intent EXCEPT ![i] = RecordedRow(@, kind, seen)]
             /\ order' = [order EXCEPT ![o].payment = RecordedPayment(@, kind)]
    <3>1. RecordedRow(intent[i], kind, seen).attempt = intent[i].attempt  BY DEF RecordedRow, IntentRow
    <3>2. order[o].payment # "PAID" /\ RecordedPayment(order[o].payment, kind) # "PAID"
      BY <2>1 DEF CanRecord, RecordedPayment
    <3>3. \A j \in Intents : intent'[j].attempt = intent[j].attempt BY <1>4, <2>1, <3>1
    <3>4. \A q \in Orders : /\ order'[q].reservation = order[q].reservation
                            /\ order'[q].payment = "PAID" <=> order[q].payment = "PAID"
      BY <1>1, <2>1, <3>2 DEF Rows, OrderRow
    <3>5. \A q \in Orders : IntentsOf(q) \subseteq Intents BY DEF IntentsOf, Intents
    <3>6. UNCHANGED <<physical, locked>> BY <1>6 DEF RecordProviderOutcome, stock
    <3> QED BY <1>1, <3>3, <3>4, <3>5, <3>6, PromiseStutters DEF Unchanged, LateIn
  <2> QED BY <1>2, <1>6, <2>1 DEF RecordProviderOutcome
<1> QED BY <1>3, <1>5, <1>6

LEMMA PromiseStep ==
  ASSUME IInv, SalesAgree, Refunding, [Next]_vars
  PROVE  Promise!Next \/ UNCHANGED Promise!promise
<1> DEFINE Kept == Promise!Next \/ UNCHANGED Promise!promise
<1>0. Rows /\ Qty \in Nat /\ physical \in Int /\ locked \in Int
  BY ConstantsAssumption, StockIsNatural DEF StockInv, IInv
<1>1. ASSUME UNCHANGED <<order, physical, locked, returned>>,
             \A o \in Orders : (LateIn(o)' <=> LateIn(o))
      PROVE  Kept
  BY <1>1, PromiseStutters DEF Unchanged
<1>2. ASSUME UNCHANGED <<order, physical, locked, returned, intent>> PROVE Kept
  BY <1>1, <1>2 DEF LateIn
<1>3. ASSUME NEW o \in Orders, CreateOrder(o) PROVE Kept
  <2>1. /\ \A q \in Orders \ {o} : Unchanged(q)
        /\ order[o].reservation = "NONE" /\ order'[o].reservation = "ACTIVE"
        /\ order'[o].payment = order[o].payment /\ (LateIn(o)' <=> LateIn(o))
        /\ returned'[o] = returned[o]
        /\ physical - locked >= Qty
        /\ physical' - locked' = physical - locked - Qty
    BY <1>0, <1>3 DEF CreateOrder, Rows, OrderRow, Unchanged, LateIn, IInv, StockInv, NothingBefore, outside
  <2>2. Goods(o) = "none" /\ Goods(o)' = "reserved" /\ Money(o)' = Money(o)  BY <2>1 DEF Goods, Money, LateIn
  <2> QED BY <2>1, <2>2, PromiseElsewhere, PromiseMoves
<1>5. ASSUME AbandonedCommandRuns PROVE Kept
  <2> SUFFICES ASSUME NEW c \in wire, c[1] = "REFUND",
                      returned' = [returned EXCEPT ![OrderOf(c[2])] = TRUE]
               PROVE  Kept
    BY <1>2, <1>5 DEF AbandonedCommandRuns, stock
  <2>1. c = <<"REFUND", c[2]>> /\ c[2] \in Intents BY <1>0 DEF Rows, Command
  <2>2. OrderOf(c[2]) \in Orders /\ refund[OrderOf(c[2])] # "NONE"  BY <2>1 DEF Refunding, OrderOf, Intents
  <2> QED BY <1>0, <1>5, <2>2, RefundPromise DEF AbandonedCommandRuns
<1>6. ASSUME World PROVE Kept
  BY <1>2, <1>3, <1>5, <1>6 DEF World, ExpiryPasses, SubmitResult, DeliverResult, outside, stock
<1>7. ASSUME NEW p \in Procs, NEW o \in Orders,
             \/ PreparePaymentIntent(p, o)
             \/ \E mode \in CloseMode : ClaimOrderClose(p, o, mode)
             \/ ExpireNextOrder(p, o)
      PROVE  Kept
  <2>1. ASSUME NEW i \in IntentsOf(o), NEW row, intent' = [intent EXCEPT ![i] = row],
               row.attempt = intent[i].attempt,
               UNCHANGED <<order, physical, locked, returned>>
        PROVE  Kept
    <3>1. \A j \in Intents : intent'[j].attempt = intent[j].attempt
      BY <1>0, <2>1 DEF Rows, IntentsOf, Intents
    <3>2. \A q \in Orders : IntentsOf(q) \subseteq Intents BY DEF IntentsOf, Intents
    <3> QED BY <1>1, <2>1, <3>1, <3>2 DEF LateIn
  <2>2. CASE PreparePaymentIntent(p, o)
    <3>1. ASSUME NEW i \in IntentsOf(o), intent' = [intent EXCEPT ![i].status = "CREATING"]
          PROVE  Kept
      <4>1. [intent[i] EXCEPT !.status = "CREATING"].attempt = intent[i].attempt
        BY <1>0 DEF Rows, IntentRow, IntentsOf, Intents
      <4> QED BY <2>1, <2>2, <3>1, <4>1 DEF PreparePaymentIntent, stock, outside
    <3> QED BY <1>2, <2>2, <3>1 DEF PreparePaymentIntent, stock, outside
  <2>3. ASSUME NEW mode \in CloseMode, ClaimOrderClose(p, o, mode) PROVE Kept
    <3>1. ASSUME NEW i \in ActiveOf(o), intent' = [intent EXCEPT ![i] = ClaimRow(@, mode)],
                 UNCHANGED <<order, stock>>
          PROVE  Kept
      <4>1. i \in IntentsOf(o) /\ ClaimRow(intent[i], mode).attempt = intent[i].attempt
        BY <1>0 DEF Rows, IntentRow, IntentsOf, Intents, ActiveOf, ClaimRow
      <4> QED BY <2>1, <2>3, <3>1, <4>1 DEF ClaimOrderClose, stock, outside
    <3>2. CASE /\ Closable(o, IntentsOf(o)) /\ CloseLockedOrder(o, mode)
               /\ UNCHANGED <<intent, proc>>
      BY <2>3, <3>2, ClosePromise DEF ClaimOrderClose, outside
    <3> QED BY <2>3, <3>1, <3>2 DEF ClaimOrderClose
  <2>4. CASE ExpireNextOrder(p, o) BY <2>4, ClosePromise DEF ExpireNextOrder, outside
  <2> QED BY <1>7, <2>2, <2>3, <2>4
<1>8. ASSUME NEW p \in Procs, RefundAtProvider(p) PROVE Kept
  <2>1. proc[p].pc = "refund" /\ UNCHANGED <<order, stock, intent>>
        /\ returned' = [returned EXCEPT ![OrderOf(proc[p].intent)] = TRUE]
    BY <1>8 DEF RefundAtProvider
  <2>2. OrderOf(proc[p].intent) \in Orders /\ refund[OrderOf(proc[p].intent)] # "NONE"
    BY <2>1, FitOf DEF Refunding, RefundKnown, AtRefund
  <2> QED BY <1>0, <2>1, <2>2, RefundPromise
<1>9. ASSUME NEW p \in Procs, FinalizeLateRefund(p) \/ RetryLateRefund(p) PROVE Kept
  <2>2. /\ \A q \in Orders : /\ order'[q].reservation = order[q].reservation
                             /\ order'[q].payment = order[q].payment
        /\ UNCHANGED <<physical, locked, intent, returned>>
    <3>1. order \in [Orders -> OrderRow] BY <1>0 DEF Rows
    <3>2. UNCHANGED <<physical, locked, intent, returned>>
      BY <1>9 DEF FinalizeLateRefund, RetryLateRefund, stock, outside
    <3>3. order' = order \/ \E r : order' = [order EXCEPT ![OrderOf(proc[p].intent)].resolution = r]
      <4>1. CASE FinalizeLateRefund(p) BY <4>1 DEF FinalizeLateRefund
      <4>2. CASE RetryLateRefund(p) BY <4>2 DEF RetryLateRefund
      <4> QED BY <1>9, <4>1, <4>2
    <3>4. ASSUME NEW r, order' = [order EXCEPT ![OrderOf(proc[p].intent)].resolution = r],
                 NEW q \in Orders
          PROVE  order'[q].reservation = order[q].reservation /\ order'[q].payment = order[q].payment
      <4>1. order'[q] = order[q] \/ order'[q] = [order[q] EXCEPT !.resolution = r] BY <3>1, <3>4
      <4>2. order[q] \in OrderRow BY <3>1
      <4> QED BY <4>1, <4>2 DEF OrderRow
    <3> QED BY <3>2, <3>3, <3>4
  <2> QED BY <2>2, PromiseStutters DEF Unchanged, LateIn
<1>10. ASSUME NEW p \in Procs, Continue(p) PROVE Kept
  <2>1. CASE FinalizeOrderClose(p) \/ RepairTerminalClose(p) \/ RecordProviderOutcome(p)
    BY <2>1, FinalizePromise
  <2>2. CASE ApplyPaymentCallback(p) BY <2>2, ApplyPromise
  <2>3. CASE \/ QueryProvider(p) \/ CreateAtProvider(p) \/ CloseAtProvider(p)
             \/ RevalidateProviderCreate(p) \/ MarkProcessed(p) \/ ClaimLateRefund(p)
             \/ ReceiveForReconciliation(p) \/ RequeueCallback(p)
    BY <1>2, <2>3 DEF QueryProvider, CreateAtProvider, CloseAtProvider, RevalidateProviderCreate,
      MarkProcessed, ClaimLateRefund, ReceiveForReconciliation, RequeueCallback, stock, outside
  <2> QED BY <1>8, <1>9, <1>10, <2>1, <2>2, <2>3 DEF Continue
<1>11. ASSUME NEW p \in Procs, \/ CallTimesOut(p) \/ Crash(p) \/ Reconcile(p)
                               \/ \E i \in Intents : TakeCallback(p, i)
       PROVE  Kept
  BY <1>2, <1>11 DEF CallTimesOut, Crash, Reconcile, StartReconciliation, TakeCallback, stock, outside
<1>12. CloseMode = {"USER_CANCELLED", "PAYMENT_TIMEOUT"} BY DEF CloseMode
<1>13. ASSUME NEW p \in Payers, Pay(p) PROVE Kept
  BY <1>7, <1>13 DEF Pay, Procs
<1>14. ASSUME NEW p \in Cancellers, Cancel(p) PROVE Kept
  BY <1>7, <1>12, <1>14 DEF Cancel, CancelOrder, Procs
<1>15. ASSUME NEW p \in TimeoutWorkers, NEW o \in Orders, Timeout(p, o) PROVE Kept
  BY <1>7, <1>12, <1>15 DEF Timeout, ClaimNextOrderClose, Procs
<1>16. ASSUME NEW p \in Admins \cup CallbackWorkers PROVE p \in Procs
  BY DEF Procs
<1>17. ASSUME UNCHANGED vars PROVE Kept
  BY <1>2, <1>17 DEF vars
<1> HIDE DEF Kept
<1>18. ASSUME NEW p \in CallbackWorkers, NEW i \in Intents, TakeCallback(p, i) PROVE Kept
  BY <1>11, <1>16, <1>18
<1>19. ASSUME Next PROVE Kept
  BY <1>6, <1>10, <1>11, <1>13, <1>14, <1>15, <1>16, <1>18, <1>19 DEF Next
<1>20. Kept BY <1>17, <1>19
<1> QED BY <1>20 DEF Kept

\* The order, payment and refund code implements SalePromise: goods go
\* only for money that is kept, are put back only unpaid, and money that
\* came too late is only ever owed or given back (every transaction and
\* provider call, with its losses, crashes and redeliveries).
THEOREM PromiseIsKept == Spec => PromiseKept
<1>1. Init => Promise!Init
  <2> SUFFICES ASSUME Init PROVE Promise!Init
    OBVIOUS
  <2>1. ASSUME NEW o \in Orders PROVE Goods(o) = "none" /\ Money(o) = "none"
    <3>1. /\ order[o] = NoOrder /\ ~returned[o]
          /\ \A i \in IntentsOf(o) : intent[i] = NoIntentRow
      BY DEF Init, IntentsOf, Intents
    <3> QED BY <3>1 DEF Goods, Money, NoOrder, NoIntentRow
  <2>2. physical - locked = InitialStock BY ConstantsAssumption DEF Init
  <2> QED BY <2>1, <2>2 DEF Promise!Init
<1>2. IInv /\ SalesAgree /\ Refunding /\ [Next]_vars => [Promise!Next]_Promise!promise  BY PromiseStep
<1> QED BY <1>1, <1>2, RefundingAlways, PTL DEF Spec, PromiseKept, Promise!Spec
=============================================================================
