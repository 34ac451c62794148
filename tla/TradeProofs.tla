---------------------------- MODULE TradeProofs ----------------------------
(***************************************************************************)
(* Theorems about the trade of the mall: the agent's wallet, the checkout, *)
(* the catalogue and the versions of the rules.  Each component moves by   *)
(* its own steps only, so its inductive invariant holds of the suite.      *)
(***************************************************************************)
EXTENDS ServicingProofs, SequenceTheorems

--------------------------------
\* The agent's wallet.

\* The operators of the libraries, as the instance names them.
LEMMA WalletSame ==
  /\ \A S : Wallet!IsFiniteSet(S) = IsFiniteSet(S)
  /\ \A S : Wallet!Cardinality(S) = Cardinality(S)
  /\ \A f : Wallet!SumFunction(f) = SumFunction(f)
<1>1. \A S : Wallet!IsFiniteSet(S) = IsFiniteSet(S) BY DEF Wallet!IsFiniteSet, IsFiniteSet
<1>2. \A S : Wallet!Cardinality(S) = Cardinality(S) BY DEF Wallet!Cardinality, Cardinality
<1>3. \A f : Wallet!SumFunction(f) = SumFunction(f)
  BY DEF Wallet!SumFunction, SumFunction, Wallet!SumFunctionOnSet, SumFunctionOnSet,
     Wallet!FoldFunctionOnSet, FoldFunctionOnSet, Wallet!MapThenFoldSet, MapThenFoldSet
<1> QED BY <1>1, <1>2, <1>3

LEMMA WalletTotalType ==
  ASSUME NEW f, Wallet!IsFiniteSet(DOMAIN f), \A d \in DOMAIN f : f[d] \in Int
  PROVE  Wallet!SumFunction(f) \in Int
BY TotalType, WalletSame

LEMMA WalletTotalNonPositive ==
  ASSUME NEW f, Wallet!IsFiniteSet(DOMAIN f), \A d \in DOMAIN f : f[d] \in Int /\ f[d] <= 0
  PROVE  Wallet!SumFunction(f) <= 0
BY TotalNonPositive, WalletSame

LEMMA WalletTotalZero ==
  ASSUME NEW f, Wallet!IsFiniteSet(DOMAIN f), \A d \in DOMAIN f : f[d] = 0
  PROVE  Wallet!SumFunction(f) = 0
BY TotalZero, WalletSame

LEMMA WalletTotalEmpty ==
  ASSUME NEW f, DOMAIN f = {}
  PROVE  Wallet!SumFunction(f) = 0
BY TotalEmpty, WalletSame

LEMMA WalletTotalAdd ==
  ASSUME NEW f, NEW g, NEW e, Wallet!IsFiniteSet(DOMAIN f),
         e \notin DOMAIN f, DOMAIN g = DOMAIN f \cup {e},
         \A d \in DOMAIN f : f[d] \in Int /\ g[d] = f[d], g[e] \in Int
  PROVE  Wallet!SumFunction(g) = Wallet!SumFunction(f) + g[e]
<1>1. IsFiniteSet(DOMAIN f) BY WalletSame
<1>2. SumFunction(g) = SumFunction(f) + g[e] BY <1>1, TotalAdd
<1> QED BY <1>2, WalletSame

LEMMA WalletTotalUpdate ==
  ASSUME NEW f, NEW g, NEW e, Wallet!IsFiniteSet(DOMAIN f),
         DOMAIN g = DOMAIN f, e \in DOMAIN f,
         \A d \in DOMAIN f : f[d] \in Int /\ g[d] \in Int,
         \A d \in DOMAIN f \ {e} : f[d] = g[d]
  PROVE  Wallet!SumFunction(g) = Wallet!SumFunction(f) + g[e] - f[e]
<1>1. IsFiniteSet(DOMAIN f) BY WalletSame
<1>2. SumFunction(g) = SumFunction(f) + g[e] - f[e] BY <1>1, TotalUpdate
<1> QED BY <1>2, WalletSame

LEMMA WalletFS_Subset ==
  ASSUME NEW S, Wallet!IsFiniteSet(S), NEW T \in SUBSET S
  PROVE  Wallet!IsFiniteSet(T)
BY FS_Subset, WalletSame

LEMMA WalletFS_AddElement ==
  ASSUME NEW S, NEW e, Wallet!IsFiniteSet(S)
  PROVE  Wallet!IsFiniteSet(S \cup {e})
BY FS_AddElement, WalletSame

LEMMA WalletFS_EmptySet ==
  /\ Wallet!IsFiniteSet({}) /\ Wallet!Cardinality({}) = 0
  /\ \A S : Wallet!IsFiniteSet(S) => (Wallet!Cardinality(S) = 0 <=> S = {})
BY FS_EmptySet, WalletSame

LEMMA WalletFS_Singleton ==
  /\ \A e : Wallet!IsFiniteSet({e}) /\ Wallet!Cardinality({e}) = 1
  /\ \A S : Wallet!IsFiniteSet(S) => (Wallet!Cardinality(S) = 1 <=> \E e : S = {e})
BY FS_Singleton, WalletSame

WalletCommissionKinds == {"EXPECTED_CREATED", "EXPECTED_REDUCED", "EXPECTED_CANCELLED",
                    "AVAILABLE_CREDIT", "REFUND_DEBIT"}
WalletWithdrawalKinds == {"WITHDRAWAL_FREEZE", "WITHDRAWAL_RELEASE", "WITHDRAWAL_PAID"}

\* The rows of the tables.
WalletEntries ==
  [kind : WalletCommissionKinds, subject : Commissions \X Nat, expected : Int, available : Int, frozen : Int]
    \cup [kind : WalletWithdrawalKinds, subject : Withdrawals \X Nat, expected : Int, available : Int, frozen : Int]
WalletPositions == [state : {"ABSENT", "NONE", "EXPECTED", "AVAILABLE", "CANCELLED"},
              expected : Nat, reversed : Nat]
WalletWithdrawalRows == [status : {"ABSENT", "PENDING", "APPROVED", "REJECTED", "PAID"}, amount : Nat,
                   version : Nat, before : Int, frozenAfter : Int, bank : Accounts \cup {"NONE"},
                   proofs : SUBSET Files]
Wallets == [available : Int, frozen : Nat]
WalletPreviews == [action : Wallet!Actions, of : Withdrawals, version : Nat, wallet : Wallets, proofs : SUBSET Files]

WalletTyped ==
  /\ wallet \in Wallets
  /\ position \in [Commissions -> WalletPositions]
  /\ withdrawal \in [Withdrawals -> WalletWithdrawalRows]
  /\ bank \in [Accounts -> {"NEW", "ACTIVE", "REPLACED"}]
  /\ agent \in {"ACTIVE", "DISABLED"}
  /\ impact \in [Admins -> {Wallet!NoPreview} \cup WalletPreviews]
  /\ ledger \subseteq WalletEntries /\ Wallet!IsFiniteSet(ledger)

\* A commission is expected in full, less what was reversed, until it settles.
WalletPositionShape(c) ==
  /\ position[c].expected + position[c].reversed <= CommissionOf[c]
  /\ position[c].state = "ABSENT" => position[c].reversed = 0
  /\ position[c].state # "EXPECTED" => position[c].expected = 0
  /\ position[c].state = "EXPECTED" =>
       position[c].expected > 0 /\ position[c].expected + position[c].reversed = CommissionOf[c]

\* An entry is booked when its subject has got that far, so none is booked twice.
WalletCommissionEntry(e) ==
  LET row == position[e.subject[1]] IN
  /\ Wallet!EntryAllowed(e)
  /\ e.kind = "EXPECTED_CREATED" => row.state # "ABSENT"
  /\ e.kind = "AVAILABLE_CREDIT" => row.state = "AVAILABLE"
  /\ e.kind \in {"EXPECTED_REDUCED", "EXPECTED_CANCELLED", "REFUND_DEBIT"} => e.subject[2] < row.reversed

WalletFreeze(w) == Wallet!Entry("WITHDRAWAL_FREEZE", <<w, 0>>, 0, -withdrawal[w].amount, withdrawal[w].amount)
WalletRelease(w) == Wallet!Entry("WITHDRAWAL_RELEASE", <<w, 1>>, 0, withdrawal[w].amount, -withdrawal[w].amount)
WalletPayout(w) == Wallet!Entry("WITHDRAWAL_PAID", <<w, 1>>, 0, 0, -withdrawal[w].amount)

WalletWithdrawalEntry(e) ==
  LET w == e.subject[1] IN
  /\ e.kind = "WITHDRAWAL_FREEZE" => e = WalletFreeze(w) /\ withdrawal[w].status # "ABSENT"
  /\ e.kind = "WITHDRAWAL_RELEASE" => e = WalletRelease(w) /\ withdrawal[w].status = "REJECTED"
  /\ e.kind = "WITHDRAWAL_PAID" => e = WalletPayout(w) /\ withdrawal[w].status = "PAID"

WalletLedgerShape ==
  \A e \in ledger : /\ e.kind \in WalletCommissionKinds => WalletCommissionEntry(e)
                    /\ e.kind \in WalletWithdrawalKinds => WalletWithdrawalEntry(e)

WalletWithdrawalShape(w) ==
  LET row == withdrawal[w] IN
  /\ row.amount <= row.before \/ row.status = "ABSENT"
  /\ row.frozenAfter >= row.amount
  /\ row.status # "ABSENT" => WalletFreeze(w) \in ledger
  /\ row.status = "REJECTED" => WalletRelease(w) \in ledger
  /\ row.status = "PAID" => WalletPayout(w) \in ledger /\ row.proofs # {}
  /\ row.status \in {"PENDING", "REJECTED"} => row.proofs = {}

WalletOneInFlight ==
  /\ \A w, o \in Wallet!InFlight : w = o
  /\ \A w \in Wallet!InFlight : wallet.frozen = withdrawal[w].amount
  /\ Wallet!InFlight = {} => wallet.frozen = 0

WalletPositionsShape == \A c \in Commissions : WalletPositionShape(c)
WalletWithdrawalsShape == \A w \in Withdrawals : WalletWithdrawalShape(w)
WalletProofsApart == \A w, o \in Withdrawals : w # o => withdrawal[w].proofs \cap withdrawal[o].proofs = {}
WalletOneBank == \A b, o \in Accounts : bank[b] = "ACTIVE" /\ bank[o] = "ACTIVE" => b = o

WalletInv ==
  /\ WalletTyped /\ WalletPositionsShape /\ WalletLedgerShape /\ WalletWithdrawalsShape
  /\ WalletProofsApart /\ WalletOneBank
  /\ Wallet!Reconciled
  /\ WalletOneInFlight
  /\ Wallet!PaidWasEarned
  /\ Wallet!DebtIsRefunds

--------------------------------
\* Sums over the ledger.

LEMMA WalletBooked ==
  ASSUME NEW S, Wallet!IsFiniteSet(S), S \subseteq WalletEntries, NEW e \in WalletEntries, e \notin S
  PROVE  /\ Wallet!Expected(S \cup {e}) = Wallet!Expected(S) + e.expected
         /\ Wallet!Available(S \cup {e}) = Wallet!Available(S) + e.available
         /\ Wallet!Frozen(S \cup {e}) = Wallet!Frozen(S) + e.frozen
         /\ Wallet!Expected(S) \in Int /\ Wallet!Available(S) \in Int /\ Wallet!Frozen(S) \in Int
<1>1. \A d \in S \cup {e} : d.expected \in Int /\ d.available \in Int /\ d.frozen \in Int
  BY DEF WalletEntries
<1>2. /\ [d \in S |-> d.expected] \in [S -> Int]
      /\ [d \in S |-> d.available] \in [S -> Int]
      /\ [d \in S |-> d.frozen] \in [S -> Int]
  BY <1>1
<1>3. /\ [d \in S \cup {e} |-> d.expected] \in [S \cup {e} -> Int]
      /\ [d \in S \cup {e} |-> d.available] \in [S \cup {e} -> Int]
      /\ [d \in S \cup {e} |-> d.frozen] \in [S \cup {e} -> Int]
  BY <1>1
<1>4. Wallet!Expected(S \cup {e}) = Wallet!Expected(S) + e.expected
  <2> DEFINE f == [d \in S |-> d.expected]
             g == [d \in S \cup {e} |-> d.expected]
  <2>1. f \in [S -> Int] /\ g \in [S \cup {e} -> Int] BY <1>2, <1>3
  <2>2. (\A d \in S : g[d] = f[d]) /\ g[e] = e.expected
    OBVIOUS
  <2>3. Wallet!SumFunction(g) = Wallet!SumFunction(f) + g[e]
    <3> HIDE DEF f, g
    <3> QED BY <2>1, <2>2, WalletTotalAdd
  <2> QED BY <2>2, <2>3 DEF Wallet!Expected
<1>5. Wallet!Available(S \cup {e}) = Wallet!Available(S) + e.available
  <2> DEFINE f == [d \in S |-> d.available]
             g == [d \in S \cup {e} |-> d.available]
  <2>1. f \in [S -> Int] /\ g \in [S \cup {e} -> Int] BY <1>2, <1>3
  <2>2. (\A d \in S : g[d] = f[d]) /\ g[e] = e.available
    OBVIOUS
  <2>3. Wallet!SumFunction(g) = Wallet!SumFunction(f) + g[e]
    <3> HIDE DEF f, g
    <3> QED BY <2>1, <2>2, WalletTotalAdd
  <2> QED BY <2>2, <2>3 DEF Wallet!Available
<1>6. Wallet!Frozen(S \cup {e}) = Wallet!Frozen(S) + e.frozen
  <2> DEFINE f == [d \in S |-> d.frozen]
             g == [d \in S \cup {e} |-> d.frozen]
  <2>1. f \in [S -> Int] /\ g \in [S \cup {e} -> Int] BY <1>2, <1>3
  <2>2. (\A d \in S : g[d] = f[d]) /\ g[e] = e.frozen
    OBVIOUS
  <2>3. Wallet!SumFunction(g) = Wallet!SumFunction(f) + g[e]
    <3> HIDE DEF f, g
    <3> QED BY <2>1, <2>2, WalletTotalAdd
  <2> QED BY <2>2, <2>3 DEF Wallet!Frozen
<1> QED BY <1>2, <1>4, <1>5, <1>6, WalletTotalType DEF Wallet!Expected, Wallet!Available, Wallet!Frozen

WalletOf(S, c) == {e \in S : e.subject[1] = c}
WalletDebits(S) == {e \in S : e.kind = "REFUND_DEBIT"}

LEMMA WalletBookedFor ==
  ASSUME NEW S, Wallet!IsFiniteSet(S), S \subseteq WalletEntries, NEW e \in WalletEntries, e \notin S, NEW c
  PROVE  /\ Wallet!Expected(WalletOf(S \cup {e}, c)) = Wallet!Expected(WalletOf(S, c)) + (IF e.subject[1] = c THEN e.expected ELSE 0)
         /\ Wallet!Available(WalletOf(S \cup {e}, c)) = Wallet!Available(WalletOf(S, c)) + (IF e.subject[1] = c THEN e.available ELSE 0)
         /\ Wallet!Expected(WalletOf(S, c)) \in Int /\ Wallet!Available(WalletOf(S, c)) \in Int
<1>1. Wallet!IsFiniteSet(WalletOf(S, c)) /\ WalletOf(S, c) \subseteq WalletEntries /\ e \notin WalletOf(S, c)
  BY WalletFS_Subset DEF WalletOf
<1>2. WalletOf(S \cup {e}, c) = IF e.subject[1] = c THEN WalletOf(S, c) \cup {e} ELSE WalletOf(S, c)
  BY DEF WalletOf
<1> QED BY <1>1, <1>2, WalletBooked

LEMMA WalletBookedDebit ==
  ASSUME NEW S, Wallet!IsFiniteSet(S), S \subseteq WalletEntries, NEW e \in WalletEntries, e \notin S
  PROVE  /\ Wallet!Available(WalletDebits(S \cup {e}))
              = Wallet!Available(WalletDebits(S)) + (IF e.kind = "REFUND_DEBIT" THEN e.available ELSE 0)
         /\ Wallet!Available(WalletDebits(S)) \in Int
<1>1. Wallet!IsFiniteSet(WalletDebits(S)) /\ WalletDebits(S) \subseteq WalletEntries /\ e \notin WalletDebits(S)
  BY WalletFS_Subset DEF WalletDebits
<1>2. CASE e.kind = "REFUND_DEBIT"
  <2>1. WalletDebits(S \cup {e}) = WalletDebits(S) \cup {e} BY <1>2 DEF WalletDebits
  <2> QED BY <1>1, <1>2, <2>1, WalletBooked
<1>3. CASE e.kind # "REFUND_DEBIT"
  <2>1. WalletDebits(S \cup {e}) = WalletDebits(S) BY <1>3 DEF WalletDebits
  <2>2. Wallet!Available(WalletDebits(S)) \in Int BY <1>1, WalletBooked
  <2>3. Wallet!Available(WalletDebits(S)) = Wallet!Available(WalletDebits(S)) + 0 BY <2>2
  <2> QED BY <1>3, <2>1, <2>2, <2>3
<1> QED BY <1>2, <1>3

WalletRemaining == Wallet!SumFunction([c \in Commissions |-> position[c].expected])
WalletSettled == {c \in Commissions : position[c].state = "AVAILABLE"}
WalletEarned == Wallet!SumFunction([c \in WalletSettled |-> Wallet!LeftOf(c)])
WalletPaid == {w \in Withdrawals : withdrawal[w].status = "PAID"}
WalletPaidOut == Wallet!SumFunction([w \in WalletPaid |-> withdrawal[w].amount])

LEMMA WalletLeftType ==
  ASSUME Wallet!WalletAssumption, WalletTyped, NEW c \in Commissions
  PROVE  Wallet!LeftOf(c) \in Int /\ CommissionOf[c] \in Nat /\ position[c].expected \in Nat
     /\ position[c].reversed \in Nat
BY DEF Wallet!WalletAssumption, WalletTyped, Wallet!LeftOf, WalletPositions

LEMMA WalletRemainingChanges ==
  ASSUME Wallet!WalletAssumption, WalletTyped, WalletTyped', NEW c \in Commissions,
         \A d \in Commissions \ {c} : position'[d] = position[d]
  PROVE  /\ WalletRemaining' = WalletRemaining + position'[c].expected - position[c].expected
         /\ WalletRemaining \in Int
<1> DEFINE f == [d \in Commissions |-> position[d].expected]
           g == [d \in Commissions |-> position'[d].expected]
<1>1. f \in [Commissions -> Int] /\ g \in [Commissions -> Int] BY DEF WalletTyped, WalletPositions
<1>2. \A d \in Commissions \ {c} : f[d] = g[d]
  OBVIOUS
<1>3. Wallet!SumFunction(g) = Wallet!SumFunction(f) + g[c] - f[c] /\ Wallet!SumFunction(f) \in Int
  <2> HIDE DEF f, g
  <2> QED BY <1>1, <1>2, WalletTotalUpdate, WalletTotalType DEF Wallet!WalletAssumption
<1> QED BY <1>3 DEF WalletRemaining

LEMMA WalletEarnedType ==
  ASSUME Wallet!WalletAssumption, WalletTyped
  PROVE  WalletEarned \in Int /\ Wallet!IsFiniteSet(WalletSettled)
     /\ [d \in WalletSettled |-> Wallet!LeftOf(d)] \in [WalletSettled -> Int]
<1>1. Wallet!IsFiniteSet(WalletSettled)  BY WalletFS_Subset DEF WalletSettled, Wallet!WalletAssumption
<1>2. [d \in WalletSettled |-> Wallet!LeftOf(d)] \in [WalletSettled -> Int]
  BY WalletLeftType DEF WalletSettled
<1> QED BY <1>1, <1>2, WalletTotalType DEF WalletEarned

LEMMA WalletEarnedSame ==
  ASSUME \A d \in Commissions : /\ position'[d].state = "AVAILABLE" <=> position[d].state = "AVAILABLE"
                                /\ position[d].state = "AVAILABLE" => position'[d] = position[d]
  PROVE  WalletEarned' = WalletEarned
<1>1. WalletSettled' = WalletSettled /\ \A d \in WalletSettled : Wallet!LeftOf(d)' = Wallet!LeftOf(d)
  BY DEF WalletSettled, Wallet!LeftOf
<1> QED BY <1>1 DEF WalletEarned

LEMMA WalletEarnedSettles ==
  ASSUME Wallet!WalletAssumption, WalletTyped, WalletTyped', NEW c \in Commissions,
         position[c].state # "AVAILABLE", position'[c].state = "AVAILABLE",
         \A d \in Commissions \ {c} : position'[d] = position[d]
  PROVE  WalletEarned' = WalletEarned + Wallet!LeftOf(c)'
<1> DEFINE f == [d \in WalletSettled |-> Wallet!LeftOf(d)]
           g == [d \in WalletSettled' |-> Wallet!LeftOf(d)']
<1>1. WalletSettled' = WalletSettled \cup {c} /\ c \notin WalletSettled BY DEF WalletSettled
<1>2. Wallet!IsFiniteSet(WalletSettled) BY WalletEarnedType
<1>7. f \in [WalletSettled -> Int] BY WalletEarnedType
<1>3. g \in [WalletSettled' -> Int]
  <2>1. \A d \in Commissions : Wallet!LeftOf(d)' \in Int
    BY DEF Wallet!WalletAssumption, WalletTyped, Wallet!LeftOf, WalletPositions
  <2> QED BY <2>1 DEF WalletSettled
<1>4. \A d \in WalletSettled : g[d] = f[d] BY <1>1 DEF Wallet!LeftOf, WalletSettled
<1>5. Wallet!SumFunction(g) = Wallet!SumFunction(f) + g[c]
  <2>1. DOMAIN f = WalletSettled /\ DOMAIN g = WalletSettled' /\ g[c] \in Int
     /\ \A d \in WalletSettled : f[d] \in Int
    BY <1>1, <1>7, <1>3
  <2> HIDE DEF f, g
  <2> QED BY <2>1, <1>1, <1>2, <1>4, WalletTotalAdd
<1>6. g[c] = Wallet!LeftOf(c)' BY <1>1
<1> QED BY <1>5, <1>6 DEF WalletEarned

LEMMA WalletEarnedReversed ==
  ASSUME Wallet!WalletAssumption, WalletTyped, WalletTyped', NEW c \in Commissions,
         position[c].state = "AVAILABLE", position'[c].state = "AVAILABLE",
         \A d \in Commissions \ {c} : position'[d] = position[d]
  PROVE  WalletEarned' = WalletEarned + Wallet!LeftOf(c)' - Wallet!LeftOf(c)
<1> DEFINE f == [d \in WalletSettled |-> Wallet!LeftOf(d)]
           g == [d \in WalletSettled |-> Wallet!LeftOf(d)']
<1>1. WalletSettled' = WalletSettled /\ c \in WalletSettled BY DEF WalletSettled
<1>2. Wallet!IsFiniteSet(WalletSettled) /\ f \in [WalletSettled -> Int] BY WalletEarnedType
<1>3. g \in [WalletSettled -> Int]
  <2>1. \A d \in Commissions : Wallet!LeftOf(d)' \in Int
    BY DEF Wallet!WalletAssumption, WalletTyped, Wallet!LeftOf, WalletPositions
  <2> QED BY <2>1 DEF WalletSettled
<1>4. \A d \in WalletSettled \ {c} : f[d] = g[d] BY <1>1 DEF Wallet!LeftOf, WalletSettled
<1>5. Wallet!SumFunction(g) = Wallet!SumFunction(f) + g[c] - f[c]
  <2> HIDE DEF f, g
  <2> QED BY <1>1, <1>2, <1>3, <1>4, WalletTotalUpdate
<1>6. g[c] = Wallet!LeftOf(c)' /\ f[c] = Wallet!LeftOf(c) BY <1>1
<1> QED BY <1>1, <1>5, <1>6 DEF WalletEarned

LEMMA WalletPaidOutSame ==
  ASSUME \A w \in Withdrawals : /\ withdrawal'[w].status = "PAID" <=> withdrawal[w].status = "PAID"
                                /\ withdrawal[w].status = "PAID" => withdrawal'[w].amount = withdrawal[w].amount
  PROVE  WalletPaidOut' = WalletPaidOut
<1>1. WalletPaid' = WalletPaid /\ \A w \in WalletPaid : withdrawal'[w].amount = withdrawal[w].amount
  BY DEF WalletPaid
<1> QED BY <1>1 DEF WalletPaidOut

LEMMA WalletPaidOutGrows ==
  ASSUME Wallet!WalletAssumption, WalletTyped, NEW w \in Withdrawals,
         withdrawal[w].status # "PAID", withdrawal'[w].status = "PAID",
         withdrawal'[w].amount = withdrawal[w].amount,
         \A o \in Withdrawals \ {w} : withdrawal'[o] = withdrawal[o]
  PROVE  WalletPaidOut' = WalletPaidOut + withdrawal[w].amount
<1> DEFINE f == [o \in WalletPaid |-> withdrawal[o].amount]
           g == [o \in WalletPaid' |-> withdrawal'[o].amount]
<1>1. WalletPaid' = WalletPaid \cup {w} /\ w \notin WalletPaid BY DEF WalletPaid
<1>2. Wallet!IsFiniteSet(WalletPaid) BY WalletFS_Subset DEF WalletPaid, Wallet!WalletAssumption
<1>3. f \in [WalletPaid -> Int] /\ g \in [WalletPaid' -> Int] /\ g[w] = withdrawal[w].amount
  BY <1>1 DEF WalletTyped, WalletWithdrawalRows, WalletPaid
<1>4. \A o \in WalletPaid : g[o] = f[o] BY <1>1 DEF WalletPaid
<1>5. Wallet!SumFunction(g) = Wallet!SumFunction(f) + g[w]
  <2> HIDE DEF f, g
  <2> QED BY <1>1, <1>2, <1>3, <1>4, WalletTotalAdd
<1> QED BY <1>3, <1>5 DEF WalletPaidOut

LEMMA WalletPaidOutType ==
  ASSUME Wallet!WalletAssumption, WalletTyped
  PROVE  WalletPaidOut \in Int
<1>1. Wallet!IsFiniteSet(WalletPaid) BY WalletFS_Subset DEF WalletPaid, Wallet!WalletAssumption
<1>2. [o \in WalletPaid |-> withdrawal[o].amount] \in [WalletPaid -> Int]
  BY DEF WalletTyped, WalletWithdrawalRows, WalletPaid
<1> QED BY <1>1, <1>2, WalletTotalType DEF WalletPaidOut

--------------------------------
\* What the entry of a step does to the books.

WalletBooking(e) ==
  /\ ledger' \subseteq WalletEntries /\ Wallet!IsFiniteSet(ledger')
  /\ Wallet!Expected(ledger') = Wallet!Expected(ledger) + e.expected
  /\ Wallet!Available(ledger') = Wallet!Available(ledger) + e.available
  /\ Wallet!Frozen(ledger') = Wallet!Frozen(ledger) + e.frozen
  /\ \A c : /\ Wallet!Expected(WalletOf(ledger', c)) = Wallet!Expected(WalletOf(ledger, c))
                                            + (IF e.subject[1] = c THEN e.expected ELSE 0)
            /\ Wallet!Available(WalletOf(ledger', c)) = Wallet!Available(WalletOf(ledger, c))
                                            + (IF e.subject[1] = c THEN e.available ELSE 0)
            /\ Wallet!Expected(WalletOf(ledger, c)) \in Int /\ Wallet!Available(WalletOf(ledger, c)) \in Int
  /\ Wallet!Available(WalletDebits(ledger')) = Wallet!Available(WalletDebits(ledger))
                                    + (IF e.kind = "REFUND_DEBIT" THEN e.available ELSE 0)
  /\ Wallet!Expected(ledger) \in Int /\ Wallet!Available(ledger) \in Int /\ Wallet!Frozen(ledger) \in Int
  /\ Wallet!Available(WalletDebits(ledger)) \in Int

LEMMA WalletBooks ==
  ASSUME WalletTyped, NEW e \in WalletEntries, e \notin ledger, ledger' = ledger \cup {e}
  PROVE  WalletBooking(e)
<1>1. Wallet!IsFiniteSet(ledger) /\ ledger \subseteq WalletEntries BY DEF WalletTyped
<1>2. ledger' \subseteq WalletEntries /\ Wallet!IsFiniteSet(ledger') BY <1>1, WalletFS_AddElement
<1>3. \A c : /\ Wallet!Expected(WalletOf(ledger', c)) = Wallet!Expected(WalletOf(ledger, c))
                                            + (IF e.subject[1] = c THEN e.expected ELSE 0)
             /\ Wallet!Available(WalletOf(ledger', c)) = Wallet!Available(WalletOf(ledger, c))
                                            + (IF e.subject[1] = c THEN e.available ELSE 0)
             /\ Wallet!Expected(WalletOf(ledger, c)) \in Int /\ Wallet!Available(WalletOf(ledger, c)) \in Int
  BY <1>1, WalletBookedFor
<1> QED BY <1>1, <1>2, <1>3, WalletBooked, WalletBookedDebit DEF WalletBooking

\* What the four commission operations have in common: entry e is booked for
\* commission c, whose position becomes p.
WalletCommissioned(c, e, p) ==
  /\ e.kind \in WalletCommissionKinds /\ e.subject[1] = c /\ e \notin ledger /\ e.frozen = 0
  /\ position' \in [Commissions -> WalletPositions] /\ position'[c] = p
  /\ \A d \in Commissions \ {c} : position'[d] = position[d]
  /\ ledger' = ledger \cup {e}
  /\ wallet' \in Wallets /\ wallet'.frozen = wallet.frozen
  /\ wallet'.available = wallet.available + e.available
  /\ withdrawal' = withdrawal /\ bank' = bank /\ agent' = agent /\ impact' = impact
  /\ WalletPositionShape(c)' /\ WalletCommissionEntry(e)'
  /\ p.reversed >= position[c].reversed
  /\ p.state # "ABSENT"
  /\ position[c].state = "AVAILABLE" => p.state = "AVAILABLE"
  /\ p.expected = position[c].expected + e.expected
  /\ (IF p.state = "AVAILABLE" THEN CommissionOf[c] - p.reversed ELSE 0)
       = (IF position[c].state = "AVAILABLE" THEN Wallet!LeftOf(c) ELSE 0) + e.available
  /\ e.kind = "REFUND_DEBIT" \/ e.available >= 0

LEMMA WalletCommissionStep ==
  ASSUME Wallet!WalletAssumption, WalletInv, NEW c \in Commissions, NEW e \in WalletEntries,
         NEW p \in WalletPositions,
         WalletCommissioned(c, e, p)
  PROVE  WalletInv'
<1>c. /\ e.kind \in WalletCommissionKinds /\ e.subject[1] = c /\ e \notin ledger /\ e.frozen = 0
      /\ position' \in [Commissions -> WalletPositions]
      /\ ledger' = ledger \cup {e}
      /\ wallet' \in Wallets
      /\ withdrawal' = withdrawal /\ bank' = bank /\ agent' = agent /\ impact' = impact
      /\ WalletPositionShape(c)' /\ WalletCommissionEntry(e)'
      /\ p.reversed >= position[c].reversed /\ p.state # "ABSENT"
      /\ position[c].state = "AVAILABLE" => p.state = "AVAILABLE"
      /\ p.expected = position[c].expected + e.expected
      /\ (IF p.state = "AVAILABLE" THEN CommissionOf[c] - p.reversed ELSE 0)
           = (IF position[c].state = "AVAILABLE" THEN Wallet!LeftOf(c) ELSE 0) + e.available
      /\ e.kind = "REFUND_DEBIT" \/ e.available >= 0
  BY DEF WalletCommissioned
<1>0. /\ WalletTyped /\ WalletPositionsShape /\ WalletLedgerShape /\ WalletWithdrawalsShape /\ WalletProofsApart
      /\ WalletOneBank /\ Wallet!Reconciled /\ WalletOneInFlight /\ Wallet!PaidWasEarned /\ Wallet!DebtIsRefunds
  BY DEF WalletInv
<1>1. e.available \in Int /\ e.expected \in Int BY DEF WalletEntries
<1>b. WalletBooking(e) BY <1>0, <1>c, WalletBooks
<1>2. WalletTyped' BY <1>0, <1>c, <1>b DEF WalletBooking, WalletTyped
<1>3. position'[c] = p /\ \A d \in Commissions \ {c} : position'[d] = position[d]  BY DEF WalletCommissioned
<1>4. WalletPositionsShape' BY <1>0, <1>c, <1>3 DEF WalletPositionsShape, WalletPositionShape
<1>5. \A d \in Commissions : /\ position'[d].reversed >= position[d].reversed
                             /\ position[d].state # "ABSENT" => position'[d].state # "ABSENT"
                             /\ position[d].state = "AVAILABLE" => position'[d].state = "AVAILABLE"
  <2>1. \A d \in Commissions : position[d].reversed \in Nat  BY <1>0 DEF WalletTyped, WalletPositions
  <2> QED BY <1>c, <1>3, <2>1
<1>6. WalletLedgerShape'
  <2> SUFFICES ASSUME NEW d \in ledger'
               PROVE  /\ d.kind \in WalletCommissionKinds => WalletCommissionEntry(d)'
                      /\ d.kind \in WalletWithdrawalKinds => WalletWithdrawalEntry(d)'
    BY DEF WalletLedgerShape
  <2>1. CASE d = e BY <1>c, <2>1 DEF WalletCommissionKinds, WalletWithdrawalKinds
  <2>2. CASE d \in ledger
    <3>1. d.kind \in WalletWithdrawalKinds => WalletWithdrawalEntry(d)'
      BY <1>0, <1>c, <2>2 DEF WalletLedgerShape, WalletWithdrawalEntry, WalletFreeze, WalletRelease, WalletPayout,
         Wallet!Entry
    <3>2. ASSUME d.kind \in WalletCommissionKinds PROVE WalletCommissionEntry(d)'
      <4>1. WalletCommissionEntry(d) /\ d.subject[1] \in Commissions /\ d.subject[2] \in Nat
        BY <1>0, <2>2, <3>2 DEF WalletLedgerShape, WalletTyped, WalletEntries, WalletCommissionKinds,
           WalletWithdrawalKinds
      <4>2. Wallet!EntryAllowed(d)' BY <4>1 DEF WalletCommissionEntry, Wallet!EntryAllowed
      <4>3. position[d.subject[1]].reversed \in Nat /\ position'[d.subject[1]].reversed \in Nat
        BY <4>1, <1>0, <1>2 DEF WalletTyped, WalletPositions
      <4> QED BY <4>1, <4>2, <4>3, <1>5 DEF WalletCommissionEntry
    <3> QED BY <3>1, <3>2
  <2> QED BY <1>c, <2>1, <2>2
<1>7. WalletWithdrawalsShape'
  <2> SUFFICES ASSUME NEW w \in Withdrawals PROVE WalletWithdrawalShape(w)'
    BY DEF WalletWithdrawalsShape
  <2> QED BY <1>0, <1>c DEF WalletWithdrawalsShape, WalletWithdrawalShape, WalletFreeze, WalletRelease,
     WalletPayout, Wallet!Entry
<1>8. WalletProofsApart' /\ WalletOneBank' BY <1>0, <1>c DEF WalletProofsApart, WalletOneBank
<1>9. Wallet!Reconciled'
  <2>1. WalletRemaining' = WalletRemaining + p.expected - position[c].expected /\ WalletRemaining \in Int
    BY <1>0, <1>2, <1>3, WalletRemainingChanges
  <2>2. wallet'.available = wallet.available + e.available /\ wallet'.frozen = wallet.frozen
    BY DEF WalletCommissioned
  <2>3. position[c].expected \in Int /\ p.expected \in Int BY <1>0 DEF WalletTyped, WalletPositions
  <2>4. Wallet!Expected(ledger') = WalletRemaining'
    BY <1>0, <1>c, <1>1, <2>1, <2>3, <1>b DEF WalletBooking, Wallet!Reconciled, WalletRemaining
  <2>5. wallet'.available = Wallet!Available(ledger') /\ wallet'.frozen = Wallet!Frozen(ledger')
     /\ wallet'.frozen >= 0
    BY <1>0, <1>c, <2>2, <1>b DEF WalletBooking, Wallet!Reconciled, WalletTyped, Wallets
  <2>6. ASSUME NEW d \in Commissions
        PROVE  /\ Wallet!Expected(WalletOf(ledger', d)) = position'[d].expected
               /\ Wallet!Available(WalletOf(ledger', d)) = IF position'[d].state = "AVAILABLE" THEN Wallet!LeftOf(d)' ELSE 0
    <3>1. /\ Wallet!Expected(WalletOf(ledger, d)) = position[d].expected
          /\ Wallet!Available(WalletOf(ledger, d)) = IF position[d].state = "AVAILABLE" THEN Wallet!LeftOf(d) ELSE 0
      BY <1>0 DEF Wallet!Reconciled, WalletOf
    <3>4. /\ Wallet!Expected(WalletOf(ledger', d)) = Wallet!Expected(WalletOf(ledger, d))
                                          + (IF c = d THEN e.expected ELSE 0)
          /\ Wallet!Available(WalletOf(ledger', d)) = Wallet!Available(WalletOf(ledger, d))
                                          + (IF c = d THEN e.available ELSE 0)
          /\ Wallet!Expected(WalletOf(ledger, d)) \in Int /\ Wallet!Available(WalletOf(ledger, d)) \in Int
      BY <1>b, <1>c DEF WalletBooking
    <3>2. CASE d = c BY <3>1, <3>2, <3>4, <1>1, <1>3, <1>c, <2>3 DEF Wallet!LeftOf
    <3>3. CASE d # c BY <3>1, <3>3, <3>4, <1>1, <1>3 DEF Wallet!LeftOf
    <3> QED BY <3>2, <3>3
  <2> QED BY <2>4, <2>5, <2>6 DEF Wallet!Reconciled, WalletRemaining, WalletOf
<1>11. wallet'.available = wallet.available + e.available /\ wallet'.frozen = wallet.frozen
       /\ wallet.available \in Int /\ wallet.frozen \in Int
  BY <1>0 DEF WalletCommissioned, WalletTyped, Wallets
<1>10. WalletOneInFlight' BY <1>0, <1>c, <1>11 DEF WalletOneInFlight, Wallet!InFlight
<1>12. Wallet!PaidWasEarned'
  <2>1. WalletPaidOut' = WalletPaidOut BY <1>c, WalletPaidOutSame
  <2>2. WalletPaidOut + wallet.frozen + wallet.available = WalletEarned
    BY <1>0 DEF Wallet!PaidWasEarned, WalletPaidOut, WalletPaid, WalletEarned, WalletSettled
  <2>3. WalletEarned' = WalletEarned + e.available
    <3>1. CASE position[c].state # "AVAILABLE" /\ p.state # "AVAILABLE"
      <4>1. WalletEarned' = WalletEarned BY <3>1, <1>3, WalletEarnedSame
      <4>2. e.available = 0 BY <3>1, <1>1, <1>c
      <4> QED BY <4>1, <4>2, <1>0, WalletEarnedType
    <3>2. CASE position[c].state # "AVAILABLE" /\ p.state = "AVAILABLE"
      <4>1. WalletEarned' = WalletEarned + Wallet!LeftOf(c)'  BY <3>2, <1>0, <1>2, <1>3, WalletEarnedSettles
      <4> QED BY <3>2, <4>1, <1>1, <1>3, <1>c DEF Wallet!LeftOf
    <3>3. CASE position[c].state = "AVAILABLE" /\ p.state = "AVAILABLE"
      <4>1. WalletEarned' = WalletEarned + Wallet!LeftOf(c)' - Wallet!LeftOf(c)
        BY <3>3, <1>0, <1>2, <1>3, WalletEarnedReversed
      <4>2. Wallet!LeftOf(c)' = Wallet!LeftOf(c) + e.available  BY <3>3, <1>3, <1>c DEF Wallet!LeftOf
      <4> QED BY <4>1, <4>2, <1>0, <1>1, WalletEarnedType, WalletLeftType
    <3> QED BY <3>1, <3>2, <3>3, <1>c
  <2>4. WalletPaidOut' + wallet'.frozen + wallet'.available = WalletEarned'
    BY <2>1, <2>2, <2>3, <1>0, <1>1, <1>11, WalletPaidOutType
  <2> QED BY <2>4 DEF Wallet!PaidWasEarned, WalletPaidOut, WalletPaid, WalletEarned, WalletSettled
<1>13. Wallet!DebtIsRefunds'
  <2>1. wallet.available - Wallet!Available(WalletDebits(ledger)) >= 0
    BY <1>0 DEF Wallet!DebtIsRefunds, WalletDebits
  <2>3. /\ Wallet!Available(WalletDebits(ledger')) = Wallet!Available(WalletDebits(ledger))
                                         + (IF e.kind = "REFUND_DEBIT" THEN e.available ELSE 0)
        /\ Wallet!Available(WalletDebits(ledger)) \in Int
    BY <1>b DEF WalletBooking
  <2>2. wallet'.available - Wallet!Available(WalletDebits(ledger')) >= 0  BY <1>1, <1>11, <2>1, <2>3, <1>c
  <2> QED BY <2>2 DEF Wallet!DebtIsRefunds, WalletDebits
<1> QED BY <1>2, <1>4, <1>6, <1>7, <1>8, <1>9, <1>10, <1>12, <1>13 DEF WalletInv

--------------------------------
\* Commissions.

LEMMA WalletCommissionFacts ==
  ASSUME Wallet!WalletAssumption, WalletInv, NEW c \in Commissions
  PROVE  /\ position[c].expected \in Nat /\ position[c].reversed \in Nat /\ CommissionOf[c] \in Nat
         /\ position[c].state \in {"ABSENT", "NONE", "EXPECTED", "AVAILABLE", "CANCELLED"}
         /\ position[c] = [state |-> position[c].state, expected |-> position[c].expected,
                           reversed |-> position[c].reversed]
         /\ position \in [Commissions -> WalletPositions]
         /\ WalletPositionShape(c)
         /\ \A e \in ledger : e.kind \in WalletCommissionKinds => WalletCommissionEntry(e)
BY DEF WalletInv, WalletTyped, WalletPositions, Wallet!WalletAssumption, WalletPositionsShape, WalletLedgerShape

LEMMA WalletExpectStep ==
  ASSUME Wallet!WalletAssumption, WalletInv, NEW c \in Commissions, Wallet!Expect(c)
  PROVE  WalletInv'
<1> DEFINE e == Wallet!Entry("EXPECTED_CREATED", <<c, 0>>, CommissionOf[c], 0, 0)
           p == [state |-> IF CommissionOf[c] = 0 THEN "NONE" ELSE "EXPECTED",
                 expected |-> CommissionOf[c], reversed |-> 0]
<1>0. /\ position[c].expected \in Nat /\ position[c].reversed \in Nat /\ CommissionOf[c] \in Nat
      /\ position \in [Commissions -> WalletPositions] /\ position[c] \in WalletPositions
      /\ WalletPositionShape(c)
      /\ \A d \in ledger : d.kind \in WalletCommissionKinds => WalletCommissionEntry(d)
      /\ wallet \in Wallets
  BY WalletCommissionFacts DEF WalletInv, WalletTyped
<1>1. /\ position[c].state = "ABSENT" /\ position' = [position EXCEPT ![c] = p]
      /\ wallet' = wallet /\ withdrawal' = withdrawal /\ bank' = bank /\ agent' = agent
      /\ impact' = impact
      /\ ledger' = IF CommissionOf[c] = 0 THEN ledger ELSE ledger \cup {e}
  BY DEF Wallet!Expect
<1>2. position[c].expected = 0 /\ position[c].reversed = 0 BY <1>0, <1>1 DEF WalletPositionShape
<1>3. p \in WalletPositions BY <1>0 DEF WalletPositions
<1>4. /\ position' \in [Commissions -> WalletPositions] /\ position'[c] = p
      /\ \A d \in Commissions \ {c} : position'[d] = position[d]
  BY <1>0, <1>1, <1>3
<1>5. CASE CommissionOf[c] # 0
  <2>1. e \in WalletEntries /\ e.kind \in WalletCommissionKinds /\ e.subject[1] = c /\ e.frozen = 0
        /\ e.available = 0 /\ e.expected = CommissionOf[c] /\ e.kind = "EXPECTED_CREATED"
    BY <1>0 DEF WalletEntries, Wallet!Entry, WalletCommissionKinds
  <2>2. e \notin ledger BY <1>0, <1>1, <2>1 DEF WalletCommissionEntry
  <2>6. p.state = "EXPECTED" /\ p.expected = CommissionOf[c] /\ p.reversed = 0 BY <1>5
  <2>7. ledger' = ledger \cup {e} BY <1>1, <1>5
  <2> HIDE DEF e, p
  <2>3. WalletPositionShape(c)' /\ WalletCommissionEntry(e)'
    BY <1>0, <1>4, <1>5, <2>1, <2>6 DEF WalletCommissionEntry, Wallet!EntryAllowed, WalletPositionShape
  <2>4. wallet' \in Wallets /\ wallet'.frozen = wallet.frozen
     /\ wallet'.available = wallet.available + e.available
    BY <1>0, <1>1, <2>1 DEF Wallets
  <2>5. WalletCommissioned(c, e, p)
    BY <1>0, <1>1, <1>2, <1>4, <2>1, <2>2, <2>3, <2>4, <2>6, <2>7 DEF WalletCommissioned
  <2> QED BY <1>3, <2>1, <2>5, WalletCommissionStep
<1>6. CASE CommissionOf[c] = 0
  <2>0. p.state = "NONE" /\ p.expected = 0 /\ p.reversed = 0 BY <1>6
  <2>1. ledger' = ledger BY <1>1, <1>6
  <2> HIDE DEF p
  <2>2. \A d \in Commissions : /\ position'[d].expected = position[d].expected
                               /\ position'[d].reversed = position[d].reversed
                               /\ position[d].state # "ABSENT" => position'[d] = position[d]
                               /\ position'[d].state = "AVAILABLE" <=> position[d].state = "AVAILABLE"
    BY <1>1, <1>2, <1>4, <2>0
  <2>3. WalletEarned' = WalletEarned BY <2>2, WalletEarnedSame
  <2>4. WalletRemaining' = WalletRemaining BY <2>2 DEF WalletRemaining
  <2>5. WalletTyped' /\ WalletProofsApart' /\ WalletOneBank' /\ WalletOneInFlight' /\ WalletWithdrawalsShape'
    BY <1>1, <2>1, <1>4 DEF WalletInv, WalletTyped, WalletProofsApart, WalletOneBank, WalletOneInFlight,
       Wallet!InFlight, WalletWithdrawalsShape, WalletWithdrawalShape, WalletFreeze, WalletRelease,
       WalletPayout, Wallet!Entry
  <2>6. WalletPositionsShape'
    BY <1>0, <1>4, <1>6, <2>0 DEF WalletInv, WalletPositionsShape, WalletPositionShape
  <2>7. WalletLedgerShape'
    <3> SUFFICES ASSUME NEW d \in ledger
                 PROVE  /\ d.kind \in WalletCommissionKinds => WalletCommissionEntry(d)'
                        /\ d.kind \in WalletWithdrawalKinds => WalletWithdrawalEntry(d)'
      BY <2>1 DEF WalletLedgerShape
    <3>1. d.kind \in WalletWithdrawalKinds => WalletWithdrawalEntry(d)'
      BY <1>1 DEF WalletInv, WalletLedgerShape, WalletWithdrawalEntry, WalletFreeze, WalletRelease, WalletPayout,
         Wallet!Entry
    <3>2. d.kind \in WalletCommissionKinds => d.subject[1] \in Commissions
      BY DEF WalletInv, WalletTyped, WalletEntries, WalletCommissionKinds, WalletWithdrawalKinds
    <3>3. position'[c].state # "ABSENT" BY <1>4, <2>0
    <3>4. d.kind \in WalletCommissionKinds => WalletCommissionEntry(d)'
      BY <1>0, <2>2, <3>2, <3>3 DEF WalletCommissionEntry, Wallet!EntryAllowed
    <3> QED BY <3>1, <3>4
  <2>8. Wallet!Reconciled'
    <3>1. ASSUME NEW d \in Commissions
          PROVE  /\ Wallet!Expected(WalletOf(ledger', d)) = position'[d].expected
                 /\ Wallet!Available(WalletOf(ledger', d)) = IF position'[d].state = "AVAILABLE" THEN Wallet!LeftOf(d)' ELSE 0
      <4>1. /\ Wallet!Expected(WalletOf(ledger, d)) = position[d].expected
            /\ Wallet!Available(WalletOf(ledger, d)) = IF position[d].state = "AVAILABLE" THEN Wallet!LeftOf(d) ELSE 0
        BY DEF WalletInv, Wallet!Reconciled, WalletOf
      <4> QED BY <2>1, <2>2, <4>1 DEF Wallet!LeftOf
    <3>2. /\ wallet.available = Wallet!Available(ledger) /\ wallet.frozen = Wallet!Frozen(ledger)
          /\ wallet.frozen >= 0 /\ Wallet!Expected(ledger) = WalletRemaining
      BY DEF WalletInv, Wallet!Reconciled, WalletRemaining
    <3>3. /\ wallet'.available = Wallet!Available(ledger') /\ wallet'.frozen = Wallet!Frozen(ledger')
          /\ wallet'.frozen >= 0 /\ Wallet!Expected(ledger') = WalletRemaining'
      BY <1>1, <2>1, <2>4, <3>2
    <3> QED BY <3>1, <3>3 DEF Wallet!Reconciled, WalletRemaining, WalletOf
  <2>9. Wallet!PaidWasEarned' /\ Wallet!DebtIsRefunds'
    BY <1>1, <2>1, <2>3 DEF WalletInv, Wallet!PaidWasEarned, Wallet!DebtIsRefunds, WalletEarned, WalletSettled
  <2> QED BY <2>5, <2>6, <2>7, <2>8, <2>9 DEF WalletInv
<1> QED BY <1>5, <1>6

LEMMA WalletSettleStep ==
  ASSUME Wallet!WalletAssumption, WalletInv, NEW c \in Commissions, Wallet!Settle(c)
  PROVE  WalletInv'
<1>0. /\ position[c].expected \in Nat /\ position[c].reversed \in Nat /\ CommissionOf[c] \in Nat
      /\ position \in [Commissions -> WalletPositions] /\ position[c] \in WalletPositions
      /\ WalletPositionShape(c)
      /\ \A d \in ledger : d.kind \in WalletCommissionKinds => WalletCommissionEntry(d)
      /\ wallet \in Wallets
  BY WalletCommissionFacts DEF WalletInv, WalletTyped
<1>n. PICK n \in Nat : n = position[c].expected BY <1>0
<1>e. PICK e : e = Wallet!Entry("AVAILABLE_CREDIT", <<c, 0>>, -n, n, 0)
  OBVIOUS
<1>p. PICK p : p = [state |-> "AVAILABLE", expected |-> 0, reversed |-> position[c].reversed]
  OBVIOUS
<1>1. /\ position[c].state = "EXPECTED" /\ ledger' = ledger \cup {e}
      /\ position' = [position EXCEPT ![c].state = "AVAILABLE", ![c].expected = 0]
      /\ withdrawal' = withdrawal /\ bank' = bank /\ agent' = agent
      /\ impact' = impact
      /\ wallet' = [wallet EXCEPT !.available = @ + n]
  BY <1>n, <1>e DEF Wallet!Settle
<1>2. n > 0 /\ n + position[c].reversed = CommissionOf[c]  BY <1>0, <1>1, <1>n DEF WalletPositionShape
<1>3. p \in WalletPositions /\ p.state = "AVAILABLE" /\ p.expected = 0 /\ p.reversed = position[c].reversed
  BY <1>0, <1>p DEF WalletPositions
<1>4. /\ position' \in [Commissions -> WalletPositions] /\ position'[c] = p
      /\ \A d \in Commissions \ {c} : position'[d] = position[d]
  BY <1>0, <1>1, <1>3, <1>p DEF WalletPositions
<1>5. e \in WalletEntries /\ e.kind \in WalletCommissionKinds /\ e.subject[1] = c /\ e.frozen = 0
      /\ e.available = n /\ e.expected = -n /\ e.kind = "AVAILABLE_CREDIT"
  BY <1>0, <1>e DEF WalletEntries, Wallet!Entry, WalletCommissionKinds
<1>6. e \notin ledger BY <1>0, <1>1, <1>5 DEF WalletCommissionEntry
<1>10. WalletPositionShape(c)' BY <1>0, <1>2, <1>3, <1>4, <1>n DEF WalletPositionShape
<1>11. Wallet!EntryAllowed(e)' BY <1>0, <1>2, <1>5, <1>n DEF Wallet!EntryAllowed
<1>7. WalletPositionShape(c)' /\ WalletCommissionEntry(e)'
  BY <1>0, <1>3, <1>4, <1>5, <1>10, <1>11, <1>n DEF WalletCommissionEntry
<1>8. /\ wallet' \in Wallets /\ wallet'.frozen = wallet.frozen
      /\ wallet'.available = wallet.available + e.available
  BY <1>0, <1>1, <1>5, <1>n DEF Wallets
<1>9. WalletCommissioned(c, e, p)
  BY <1>0, <1>1, <1>2, <1>3, <1>4, <1>5, <1>6, <1>7, <1>8, <1>n DEF WalletCommissioned, Wallet!LeftOf
<1> QED BY <1>3, <1>5, <1>9, WalletCommissionStep

LEMMA WalletReverseExpectedStep ==
  ASSUME Wallet!WalletAssumption, WalletInv, NEW c \in Commissions, NEW amount \in Nat \ {0},
         Wallet!ReverseExpected(c, amount)
  PROVE  WalletInv'
<1>0. /\ position[c].expected \in Nat /\ position[c].reversed \in Nat /\ CommissionOf[c] \in Nat
      /\ position \in [Commissions -> WalletPositions] /\ position[c] \in WalletPositions
      /\ WalletPositionShape(c)
      /\ \A d \in ledger : d.kind \in WalletCommissionKinds => WalletCommissionEntry(d)
      /\ wallet \in Wallets
  BY WalletCommissionFacts DEF WalletInv, WalletTyped
<1>n. PICK left \in Int : left = position[c].expected - amount BY <1>0
<1>r. PICK r \in Nat : r = position[c].reversed BY <1>0
<1>e. PICK e : e = Wallet!Entry(IF left = 0 THEN "EXPECTED_CANCELLED" ELSE "EXPECTED_REDUCED",
                         <<c, r>>, -amount, 0, 0)
  OBVIOUS
<1>p. PICK p : p = [state |-> IF left = 0 THEN "CANCELLED" ELSE "EXPECTED",
                    expected |-> left, reversed |-> r + amount]
  OBVIOUS
<1>1. /\ position[c].state = "EXPECTED" /\ left >= 0 /\ ledger' = ledger \cup {e}
      /\ position' = [position EXCEPT ![c] = p]
      /\ withdrawal' = withdrawal /\ bank' = bank /\ agent' = agent
      /\ impact' = impact /\ wallet' = wallet
  BY <1>n, <1>r, <1>e, <1>p DEF Wallet!ReverseExpected
<1>2. position[c].expected + position[c].reversed = CommissionOf[c] /\ left \in Nat
  BY <1>0, <1>1, <1>n DEF WalletPositionShape
<1>3. /\ p \in WalletPositions /\ p.expected = left /\ p.reversed = position[c].reversed + amount
      /\ p.state = IF left = 0 THEN "CANCELLED" ELSE "EXPECTED"
  BY <1>0, <1>2, <1>p, <1>r DEF WalletPositions
<1>4. /\ position' \in [Commissions -> WalletPositions] /\ position'[c] = p
      /\ \A d \in Commissions \ {c} : position'[d] = position[d]
  BY <1>0, <1>1, <1>3
<1>5. e \in WalletEntries /\ e.kind \in WalletCommissionKinds /\ e.subject[1] = c /\ e.frozen = 0
      /\ e.subject[2] = position[c].reversed
      /\ e.available = 0 /\ e.expected = -amount /\ e.kind \in {"EXPECTED_CANCELLED", "EXPECTED_REDUCED"}
  BY <1>0, <1>e, <1>r DEF WalletEntries, Wallet!Entry, WalletCommissionKinds
<1>6. e \notin ledger BY <1>0, <1>5, <1>r DEF WalletCommissionEntry
<1>10. WalletPositionShape(c)' BY <1>0, <1>2, <1>3, <1>4, <1>n, <1>r DEF WalletPositionShape
<1>11. Wallet!EntryAllowed(e)' BY <1>0, <1>2, <1>5, <1>n, <1>r DEF Wallet!EntryAllowed
<1>7. WalletPositionShape(c)' /\ WalletCommissionEntry(e)'
  BY <1>0, <1>3, <1>4, <1>5, <1>10, <1>11, <1>n, <1>r DEF WalletCommissionEntry
<1>8. /\ wallet' \in Wallets /\ wallet'.frozen = wallet.frozen
      /\ wallet'.available = wallet.available + e.available
  BY <1>0, <1>1, <1>5, <1>n, <1>r DEF Wallets
<1>9. WalletCommissioned(c, e, p)
  BY <1>0, <1>1, <1>2, <1>3, <1>4, <1>5, <1>6, <1>7, <1>8, <1>n, <1>r DEF WalletCommissioned, Wallet!LeftOf
<1> QED BY <1>3, <1>5, <1>9, WalletCommissionStep

\* The wallet may go negative: the debit is a refund.
LEMMA WalletReverseAvailableStep ==
  ASSUME Wallet!WalletAssumption, WalletInv, NEW c \in Commissions, NEW amount \in Nat \ {0},
         Wallet!ReverseAvailable(c, amount)
  PROVE  WalletInv'
<1>0. /\ position[c].expected \in Nat /\ position[c].reversed \in Nat /\ CommissionOf[c] \in Nat
      /\ position \in [Commissions -> WalletPositions] /\ position[c] \in WalletPositions
      /\ WalletPositionShape(c)
      /\ \A d \in ledger : d.kind \in WalletCommissionKinds => WalletCommissionEntry(d)
      /\ wallet \in Wallets
  BY WalletCommissionFacts DEF WalletInv, WalletTyped
<1>r. PICK r \in Nat : r = position[c].reversed BY <1>0
<1>e. PICK e : e = Wallet!Entry("REFUND_DEBIT", <<c, r>>, 0, -amount, 0)
  OBVIOUS
<1>p. PICK p : p = [state |-> "AVAILABLE", expected |-> position[c].expected,
                    reversed |-> r + amount]
  OBVIOUS
<1>1. /\ position[c].state = "AVAILABLE" /\ amount <= Wallet!LeftOf(c) /\ ledger' = ledger \cup {e}
      /\ position' = [position EXCEPT ![c].reversed = @ + amount]
      /\ wallet' = [wallet EXCEPT !.available = @ - amount]
      /\ withdrawal' = withdrawal /\ bank' = bank /\ agent' = agent
      /\ impact' = impact
  BY <1>r, <1>e DEF Wallet!ReverseAvailable
<1>2. position[c].expected = 0 /\ amount <= CommissionOf[c] - position[c].reversed
  BY <1>0, <1>1, <1>r DEF WalletPositionShape, Wallet!LeftOf
<1>3. /\ p \in WalletPositions /\ p.state = "AVAILABLE" /\ p.expected = 0
      /\ p.reversed = position[c].reversed + amount
  BY <1>0, <1>2, <1>p, <1>r DEF WalletPositions
<1>4. /\ position' \in [Commissions -> WalletPositions] /\ position'[c] = p
      /\ \A d \in Commissions \ {c} : position'[d] = position[d]
  BY <1>0, <1>1, <1>3, <1>p, <1>r DEF WalletPositions
<1>5. e \in WalletEntries /\ e.kind \in WalletCommissionKinds /\ e.subject[1] = c /\ e.frozen = 0
      /\ e.subject[2] = position[c].reversed
      /\ e.available = -amount /\ e.expected = 0 /\ e.kind = "REFUND_DEBIT"
  BY <1>0, <1>e, <1>r DEF WalletEntries, Wallet!Entry, WalletCommissionKinds
<1>6. e \notin ledger BY <1>0, <1>5, <1>r DEF WalletCommissionEntry
<1>10. WalletPositionShape(c)' BY <1>0, <1>2, <1>3, <1>4, <1>r DEF WalletPositionShape
<1>11. Wallet!EntryAllowed(e)' BY <1>0, <1>2, <1>5, <1>r DEF Wallet!EntryAllowed
<1>7. WalletPositionShape(c)' /\ WalletCommissionEntry(e)'
  BY <1>0, <1>3, <1>4, <1>5, <1>10, <1>11, <1>r DEF WalletCommissionEntry
<1>8. /\ wallet' \in Wallets /\ wallet'.frozen = wallet.frozen
      /\ wallet'.available = wallet.available + e.available
  BY <1>0, <1>1, <1>5, <1>r DEF Wallets
<1>9. WalletCommissioned(c, e, p)
  BY <1>0, <1>1, <1>2, <1>3, <1>4, <1>5, <1>6, <1>7, <1>8, <1>r DEF WalletCommissioned, Wallet!LeftOf
<1> QED BY <1>3, <1>5, <1>9, WalletCommissionStep

--------------------------------
\* Withdrawals.

\* What an operation on withdrawal w has in common with the others: its row
\* becomes p, and it had not ended before.
WalletReviewed(w, p) ==
  /\ withdrawal' \in [Withdrawals -> WalletWithdrawalRows] /\ withdrawal'[w] = p
  /\ \A o \in Withdrawals \ {w} : withdrawal'[o] = withdrawal[o]
  /\ withdrawal[w].status \notin {"REJECTED", "PAID"} /\ p.status # "ABSENT"
  /\ withdrawal[w].status # "ABSENT" => p.amount = withdrawal[w].amount
  /\ position' = position /\ bank' = bank /\ agent' = agent
  /\ impact' \in [Admins -> {Wallet!NoPreview} \cup WalletPreviews]
  /\ WalletWithdrawalShape(w)'
  /\ WalletOneInFlight'
  /\ \A o \in Withdrawals \ {w} : p.proofs \cap withdrawal[o].proofs = {}

\* Wallet!Entry e is booked for it.
WalletWithdrawn(w, e, p) ==
  /\ WalletReviewed(w, p)
  /\ e.kind \in WalletWithdrawalKinds /\ e.subject[1] = w /\ e \notin ledger /\ e.expected = 0
  /\ WalletWithdrawalEntry(e)'
  /\ ledger' = ledger \cup {e}
  /\ wallet' \in Wallets
  /\ wallet'.available = wallet.available + e.available
  /\ wallet'.frozen = wallet.frozen + e.frozen
  /\ e.available >= 0 \/ wallet'.available >= 0
  /\ (IF p.status = "PAID" THEN p.amount ELSE 0) + e.available + e.frozen = 0

\* Refunds only take from the balance.
LEMMA WalletDebitsNegative ==
  ASSUME WalletTyped, WalletLedgerShape
  PROVE  Wallet!Available(WalletDebits(ledger)) <= 0
<1> DEFINE f == [d \in WalletDebits(ledger) |-> d.available]
<1>1. Wallet!IsFiniteSet(WalletDebits(ledger)) BY WalletFS_Subset DEF WalletDebits, WalletTyped
<1>2. \A d \in WalletDebits(ledger) : d.available \in Int /\ d.available <= 0
  BY DEF WalletDebits, WalletTyped, WalletEntries, WalletLedgerShape, WalletCommissionEntry, Wallet!EntryAllowed,
     WalletCommissionKinds
<1>3. Wallet!SumFunction(f) <= 0
  <2>1. Wallet!IsFiniteSet(DOMAIN f) /\ \A d \in DOMAIN f : f[d] \in Int /\ f[d] <= 0 BY <1>1, <1>2
  <2> HIDE DEF f
  <2> QED BY <2>1, WalletTotalNonPositive
<1> QED BY <1>3 DEF Wallet!Available

LEMMA WalletReviewedRows ==
  ASSUME Wallet!WalletAssumption, WalletInv, NEW w \in Withdrawals, NEW p \in WalletWithdrawalRows,
         WalletReviewed(w, p),
         ledger \subseteq ledger'
  PROVE  /\ WalletWithdrawalsShape' /\ WalletProofsApart' /\ WalletOneBank' /\ WalletPositionsShape'
         /\ \A d \in ledger : /\ d.kind \in WalletCommissionKinds => WalletCommissionEntry(d)'
                              /\ d.kind \in WalletWithdrawalKinds => WalletWithdrawalEntry(d)'
         /\ WalletEarned' = WalletEarned /\ WalletRemaining' = WalletRemaining
         /\ p.status # "PAID" => WalletPaidOut' = WalletPaidOut
         /\ p.status = "PAID" /\ withdrawal[w].status # "ABSENT" => WalletPaidOut' = WalletPaidOut + p.amount
<1>0. /\ WalletTyped /\ WalletPositionsShape /\ WalletLedgerShape /\ WalletWithdrawalsShape /\ WalletProofsApart
          /\ WalletOneBank
  BY DEF WalletInv
<1>1. /\ withdrawal' \in [Withdrawals -> WalletWithdrawalRows] /\ withdrawal'[w] = p
      /\ \A o \in Withdrawals \ {w} : withdrawal'[o] = withdrawal[o]
      /\ withdrawal[w].status \notin {"REJECTED", "PAID"} /\ p.status # "ABSENT"
      /\ withdrawal[w].status # "ABSENT" => p.amount = withdrawal[w].amount
      /\ position' = position /\ bank' = bank
      /\ WalletWithdrawalShape(w)'
      /\ \A o \in Withdrawals \ {w} : p.proofs \cap withdrawal[o].proofs = {}
  BY DEF WalletReviewed
<1>2. WalletWithdrawalsShape'
  <2> SUFFICES ASSUME NEW o \in Withdrawals \ {w} PROVE WalletWithdrawalShape(o)'
    BY <1>1 DEF WalletWithdrawalsShape
  <2> QED BY <1>0, <1>1 DEF WalletWithdrawalsShape, WalletWithdrawalShape, WalletFreeze, WalletRelease,
     WalletPayout, Wallet!Entry
<1>3. WalletProofsApart' BY <1>0, <1>1 DEF WalletProofsApart
<1>4. WalletOneBank' /\ WalletPositionsShape'
  BY <1>0, <1>1 DEF WalletOneBank, WalletPositionsShape, WalletPositionShape
<1>5. ASSUME NEW d \in ledger
      PROVE  /\ d.kind \in WalletCommissionKinds => WalletCommissionEntry(d)'
             /\ d.kind \in WalletWithdrawalKinds => WalletWithdrawalEntry(d)'
  <2>1. d.kind \in WalletCommissionKinds => WalletCommissionEntry(d)'
    BY <1>0, <1>1 DEF WalletLedgerShape, WalletCommissionEntry, Wallet!EntryAllowed
  <2>2. ASSUME d.kind \in WalletWithdrawalKinds PROVE WalletWithdrawalEntry(d)'
    <3>1. d.subject[1] \in Withdrawals /\ WalletWithdrawalEntry(d)
      BY <1>0, <2>2 DEF WalletTyped, WalletEntries, WalletLedgerShape, WalletCommissionKinds,
         WalletWithdrawalKinds
    <3>2. CASE d.subject[1] = w
      BY <1>1, <2>2, <3>1, <3>2 DEF WalletWithdrawalEntry, WalletFreeze, WalletRelease, WalletPayout,
         Wallet!Entry, WalletWithdrawalKinds
    <3>3. CASE d.subject[1] # w
      BY <1>1, <2>2, <3>1, <3>3 DEF WalletWithdrawalEntry, WalletFreeze, WalletRelease, WalletPayout, Wallet!Entry
    <3> QED BY <3>2, <3>3
  <2> QED BY <2>1, <2>2
<1>6. WalletEarned' = WalletEarned /\ WalletRemaining' = WalletRemaining
  BY <1>1 DEF WalletEarned, WalletSettled, Wallet!LeftOf, WalletRemaining
<1>7. ASSUME p.status # "PAID" PROVE WalletPaidOut' = WalletPaidOut
  <2>1. \A o \in Withdrawals : /\ withdrawal'[o].status = "PAID" <=> withdrawal[o].status = "PAID"
                               /\ withdrawal[o].status = "PAID" => withdrawal'[o].amount = withdrawal[o].amount
    BY <1>1, <1>7
  <2> QED BY <2>1, WalletPaidOutSame
<1>8. ASSUME p.status = "PAID", withdrawal[w].status # "ABSENT" PROVE WalletPaidOut' = WalletPaidOut + p.amount
  BY <1>0, <1>1, <1>8, WalletPaidOutGrows
<1> QED BY <1>2, <1>3, <1>4, <1>5, <1>6, <1>7, <1>8

LEMMA WalletReviewStep ==
  ASSUME Wallet!WalletAssumption, WalletInv, NEW w \in Withdrawals, NEW p \in WalletWithdrawalRows,
         WalletReviewed(w, p),
         p.status # "PAID", UNCHANGED <<ledger, wallet>>
  PROVE  WalletInv'
<1>1. /\ WalletWithdrawalsShape' /\ WalletProofsApart' /\ WalletOneBank' /\ WalletPositionsShape'
          /\ WalletLedgerShape'
      /\ WalletEarned' = WalletEarned /\ WalletRemaining' = WalletRemaining /\ WalletPaidOut' = WalletPaidOut
  BY WalletReviewedRows DEF WalletLedgerShape
<1>2. WalletTyped' /\ WalletOneInFlight' BY DEF WalletInv, WalletTyped, WalletReviewed
<1>3. Wallet!Reconciled' /\ Wallet!DebtIsRefunds'
  BY <1>1 DEF WalletInv, Wallet!Reconciled, Wallet!DebtIsRefunds, WalletReviewed, Wallet!LeftOf
<1>4. Wallet!PaidWasEarned'
  BY <1>1 DEF WalletInv, Wallet!PaidWasEarned, WalletPaidOut, WalletPaid, WalletEarned, WalletSettled
<1> QED BY <1>1, <1>2, <1>3, <1>4 DEF WalletInv

LEMMA WalletWithdrawStep ==
  ASSUME Wallet!WalletAssumption, WalletInv, NEW w \in Withdrawals, NEW e \in WalletEntries,
         NEW p \in WalletWithdrawalRows,
         WalletWithdrawn(w, e, p), p.status = "PAID" => withdrawal[w].status # "ABSENT"
  PROVE  WalletInv'
<1>0. /\ e.kind \in WalletWithdrawalKinds /\ e.subject[1] = w /\ e \notin ledger /\ e.expected = 0
      /\ WalletWithdrawalEntry(e)' /\ ledger' = ledger \cup {e} /\ wallet' \in Wallets
      /\ wallet'.available = wallet.available + e.available
      /\ wallet'.frozen = wallet.frozen + e.frozen
      /\ WalletReviewed(w, p) /\ WalletTyped
  BY DEF WalletWithdrawn, WalletInv
<1>1. /\ WalletWithdrawalsShape' /\ WalletProofsApart' /\ WalletOneBank' /\ WalletPositionsShape'
      /\ WalletEarned' = WalletEarned /\ WalletRemaining' = WalletRemaining
      /\ p.status # "PAID" => WalletPaidOut' = WalletPaidOut
      /\ p.status = "PAID" => WalletPaidOut' = WalletPaidOut + p.amount
      /\ \A d \in ledger : /\ d.kind \in WalletCommissionKinds => WalletCommissionEntry(d)'
                           /\ d.kind \in WalletWithdrawalKinds => WalletWithdrawalEntry(d)'
  BY <1>0, WalletReviewedRows
<1>b. WalletBooking(e) BY <1>0, WalletBooks
<1>2. WalletTyped' /\ WalletOneInFlight' /\ position' = position
  BY <1>0, <1>b DEF WalletTyped, WalletReviewed, WalletBooking
<1>3. WalletLedgerShape'  BY <1>0, <1>1 DEF WalletLedgerShape, WalletCommissionKinds, WalletWithdrawalKinds
<1>4. wallet.available \in Int /\ wallet.frozen \in Int /\ wallet'.frozen >= 0 /\ wallet'.available \in Int
      /\ e.available \in Int /\ e.frozen \in Int /\ p.amount \in Int
  BY <1>0 DEF WalletTyped, Wallets, WalletEntries, WalletWithdrawalRows
<1>5. Wallet!Reconciled'
  <2>1. /\ wallet.available = Wallet!Available(ledger) /\ wallet.frozen = Wallet!Frozen(ledger)
        /\ Wallet!Expected(ledger) = WalletRemaining
    BY DEF WalletInv, Wallet!Reconciled, WalletRemaining
  <2>2. /\ wallet'.available = Wallet!Available(ledger') /\ wallet'.frozen = Wallet!Frozen(ledger')
        /\ Wallet!Expected(ledger') = WalletRemaining'
    BY <1>0, <1>1, <1>4, <1>b, <2>1 DEF WalletBooking
  <2>3. ASSUME NEW c \in Commissions
        PROVE  /\ Wallet!Expected(WalletOf(ledger', c)) = position'[c].expected
               /\ Wallet!Available(WalletOf(ledger', c)) = IF position'[c].state = "AVAILABLE" THEN Wallet!LeftOf(c)' ELSE 0
    <3>1. /\ Wallet!Expected(WalletOf(ledger, c)) = position[c].expected
          /\ Wallet!Available(WalletOf(ledger, c)) = IF position[c].state = "AVAILABLE" THEN Wallet!LeftOf(c) ELSE 0
      BY DEF WalletInv, Wallet!Reconciled, WalletOf
    <3>2. e.subject[1] # c BY <1>0 DEF Wallet!WalletAssumption
    <3>3. /\ Wallet!Expected(WalletOf(ledger', c)) = Wallet!Expected(WalletOf(ledger, c))
          /\ Wallet!Available(WalletOf(ledger', c)) = Wallet!Available(WalletOf(ledger, c))
      BY <1>b, <3>2 DEF WalletBooking
    <3> QED BY <1>2, <3>1, <3>3 DEF Wallet!LeftOf
  <2> QED BY <1>4, <2>2, <2>3 DEF Wallet!Reconciled, WalletRemaining, WalletOf
<1>6. Wallet!PaidWasEarned'
  <2>1. WalletPaidOut + wallet.frozen + wallet.available = WalletEarned /\ WalletPaidOut \in Int
    BY <1>0, WalletPaidOutType DEF WalletInv, Wallet!PaidWasEarned, WalletPaidOut, WalletPaid, WalletEarned,
       WalletSettled
  <2>2. (IF p.status = "PAID" THEN p.amount ELSE 0) + e.available + e.frozen = 0  BY DEF WalletWithdrawn
  <2>3. WalletPaidOut' + wallet'.frozen + wallet'.available = WalletEarned'
    <3>0. /\ wallet'.available = wallet.available + e.available
          /\ wallet'.frozen = wallet.frozen + e.frozen
      BY <1>0
    <3>1. CASE p.status = "PAID" BY <3>0, <3>1, <2>1, <2>2, <1>1, <1>4
    <3>2. CASE p.status # "PAID"
      <4>1. e.available + e.frozen = 0 /\ WalletPaidOut' = WalletPaidOut /\ WalletEarned' = WalletEarned
        BY <3>2, <2>2, <1>1, <1>4
      <4> QED BY <3>0, <4>1, <2>1, <1>4
    <3> QED BY <3>1, <3>2
  <2> QED BY <2>3 DEF Wallet!PaidWasEarned, WalletPaidOut, WalletPaid, WalletEarned, WalletSettled
<1>7. Wallet!DebtIsRefunds'
  <2>1. wallet.available - Wallet!Available(WalletDebits(ledger)) >= 0
    BY DEF WalletInv, Wallet!DebtIsRefunds, WalletDebits
  <2>2. Wallet!Available(WalletDebits(ledger')) = Wallet!Available(WalletDebits(ledger))
     /\ Wallet!Available(WalletDebits(ledger)) \in Int
    BY <1>0, <1>b DEF WalletBooking, WalletWithdrawalKinds
  <2>3. Wallet!Available(WalletDebits(ledger)) <= 0 BY <1>0, WalletDebitsNegative DEF WalletInv
  <2>4. e.available >= 0 \/ wallet'.available >= 0 BY DEF WalletWithdrawn
  <2>5. wallet'.available - Wallet!Available(WalletDebits(ledger')) >= 0
    BY <1>0, <1>4, <2>1, <2>2, <2>3, <2>4
  <2> QED BY <2>5 DEF Wallet!DebtIsRefunds, WalletDebits
<1> QED BY <1>1, <1>2, <1>3, <1>5, <1>6, <1>7 DEF WalletInv

LEMMA WalletCreateWithdrawalStep ==
  ASSUME Wallet!WalletAssumption, WalletInv, NEW w \in Withdrawals, NEW amount \in Nat, NEW b \in Accounts,
         Wallet!CreateWithdrawal(w, amount, b)
  PROVE  WalletInv'
<1>0. /\ withdrawal \in [Withdrawals -> WalletWithdrawalRows] /\ withdrawal[w] \in WalletWithdrawalRows
      /\ impact \in [Admins -> {Wallet!NoPreview} \cup WalletPreviews]
      /\ wallet \in Wallets /\ wallet.available \in Int /\ wallet.frozen \in Nat
      /\ withdrawal[w].amount \in Nat /\ withdrawal[w].version \in Nat
      /\ withdrawal[w].proofs \in SUBSET Files
      /\ WalletWithdrawalShape(w) /\ WalletOneInFlight /\ WalletProofsApart
      /\ \A d \in ledger : d.kind \in WalletWithdrawalKinds => WalletWithdrawalEntry(d)
  BY DEF WalletInv, WalletTyped, WalletWithdrawalRows, Wallets, WalletWithdrawalsShape, WalletLedgerShape
<1>p. PICK p : p = [status |-> "PENDING", amount |-> amount, version |-> 1,
                    before |-> wallet.available, frozenAfter |-> wallet.frozen + amount,
                    bank |-> b, proofs |-> {}]
  OBVIOUS
<1>e. PICK e : e = Wallet!Entry("WITHDRAWAL_FREEZE", <<w, 0>>, 0, -amount, amount)
  OBVIOUS
<1>1. /\ withdrawal[w].status = "ABSENT" /\ Wallet!InFlight = {} /\ amount <= wallet.available
      /\ withdrawal' = [withdrawal EXCEPT ![w] = p]
      /\ ledger' = ledger \cup {e}
      /\ wallet' = [available |-> wallet.available - amount, frozen |-> wallet.frozen + amount]
      /\ position' = position /\ bank' = bank /\ agent' = agent /\ impact' = impact
  BY <1>p, <1>e DEF Wallet!CreateWithdrawal, Wallet!Affordable
<1>2. /\ p \in WalletWithdrawalRows /\ p.status = "PENDING" /\ p.amount = amount /\ p.proofs = {}
      /\ p.before = wallet.available /\ p.frozenAfter = wallet.frozen + amount
  BY <1>0, <1>p DEF WalletWithdrawalRows
<1>3. /\ withdrawal' \in [Withdrawals -> WalletWithdrawalRows] /\ withdrawal'[w] = p
      /\ \A o \in Withdrawals \ {w} : withdrawal'[o] = withdrawal[o]
  BY <1>0, <1>1, <1>2
<1>4. /\ e \in WalletEntries /\ e.kind = "WITHDRAWAL_FREEZE" /\ e.kind \in WalletWithdrawalKinds
          /\ e.subject[1] = w
      /\ e.expected = 0 /\ e.available = -amount /\ e.frozen = amount
  BY <1>e DEF WalletEntries, Wallet!Entry, WalletWithdrawalKinds
<1>5. e \notin ledger BY <1>0, <1>1, <1>4 DEF WalletWithdrawalEntry
<1>6. wallet' \in Wallets /\ wallet'.available = wallet.available - amount
      /\ wallet'.frozen = amount /\ wallet.frozen = 0
  BY <1>0, <1>1 DEF Wallets, WalletOneInFlight
<1>7. WalletWithdrawalEntry(e)'
  BY <1>2, <1>3, <1>4, <1>e DEF WalletWithdrawalEntry, WalletFreeze, Wallet!Entry
<1>8. WalletWithdrawalShape(w)'
  BY <1>0, <1>1, <1>2, <1>3, <1>e DEF WalletWithdrawalShape, WalletFreeze, Wallet!Entry
<1>9. WalletOneInFlight'
  <2>1. Wallet!InFlight' = {w} BY <1>1, <1>2, <1>3 DEF Wallet!InFlight
  <2> QED BY <2>1, <1>2, <1>3, <1>6 DEF WalletOneInFlight
<1>10. WalletReviewed(w, p) BY <1>0, <1>1, <1>2, <1>3, <1>8, <1>9 DEF WalletReviewed
<1>11. WalletWithdrawn(w, e, p)  BY <1>0, <1>1, <1>2, <1>4, <1>5, <1>6, <1>7, <1>10 DEF WalletWithdrawn
<1> QED BY <1>2, <1>4, <1>11, WalletWithdrawStep

LEMMA WalletApproveStep ==
  ASSUME Wallet!WalletAssumption, WalletInv, NEW a \in Admins, NEW w \in Withdrawals, Wallet!Approve(a, w)
  PROVE  WalletInv'
<1>0. /\ withdrawal \in [Withdrawals -> WalletWithdrawalRows] /\ withdrawal[w] \in WalletWithdrawalRows
      /\ impact \in [Admins -> {Wallet!NoPreview} \cup WalletPreviews]
      /\ wallet \in Wallets /\ wallet.available \in Int /\ wallet.frozen \in Nat
      /\ withdrawal[w].amount \in Nat /\ withdrawal[w].version \in Nat
      /\ withdrawal[w].proofs \in SUBSET Files
      /\ WalletWithdrawalShape(w) /\ WalletOneInFlight /\ WalletProofsApart
      /\ \A d \in ledger : d.kind \in WalletWithdrawalKinds => WalletWithdrawalEntry(d)
  BY DEF WalletInv, WalletTyped, WalletWithdrawalRows, Wallets, WalletWithdrawalsShape, WalletLedgerShape
<1>p. PICK p : p = [withdrawal[w] EXCEPT !.status = "APPROVED", !.version = @ + 1]
  OBVIOUS
<1>1. /\ withdrawal[w].status = "PENDING"
      /\ withdrawal' = [withdrawal EXCEPT ![w].status = "APPROVED", ![w].version = @ + 1]
      /\ impact' = [impact EXCEPT ![a] = Wallet!NoPreview]
      /\ ledger' = ledger /\ wallet' = wallet
      /\ position' = position /\ bank' = bank /\ agent' = agent
  BY DEF Wallet!Approve, Wallet!Reviewable, Wallet!Closed
<1>2. /\ p \in WalletWithdrawalRows /\ p.status = "APPROVED" /\ p.amount = withdrawal[w].amount
      /\ p.proofs = withdrawal[w].proofs /\ p.before = withdrawal[w].before
      /\ p.frozenAfter = withdrawal[w].frozenAfter
  <2>1. p = [status |-> "APPROVED", amount |-> withdrawal[w].amount, version |-> withdrawal[w].version + 1,
             before |-> withdrawal[w].before, frozenAfter |-> withdrawal[w].frozenAfter,
             bank |-> withdrawal[w].bank, proofs |-> withdrawal[w].proofs]
    BY <1>0, <1>p DEF WalletWithdrawalRows
  <2> QED BY <1>0, <2>1 DEF WalletWithdrawalRows
<1>3. /\ withdrawal' \in [Withdrawals -> WalletWithdrawalRows] /\ withdrawal'[w] = p
      /\ \A o \in Withdrawals \ {w} : withdrawal'[o] = withdrawal[o]
  BY <1>0, <1>1, <1>2, <1>p DEF WalletWithdrawalRows
<1>4. WalletWithdrawalShape(w)'
  BY <1>0, <1>1, <1>2, <1>3 DEF WalletWithdrawalShape, WalletFreeze, Wallet!Entry
<1>5. WalletOneInFlight'
  <2>1. Wallet!InFlight' = Wallet!InFlight BY <1>1, <1>2, <1>3 DEF Wallet!InFlight
  <2>2. \A o \in Withdrawals : withdrawal'[o].amount = withdrawal[o].amount BY <1>2, <1>3
  <2> QED BY <2>1, <2>2, <1>0, <1>1 DEF WalletOneInFlight, Wallet!InFlight
<1>6. WalletReviewed(w, p)  BY <1>0, <1>1, <1>2, <1>3, <1>4, <1>5 DEF WalletReviewed, WalletProofsApart
<1> QED BY <1>1, <1>2, <1>6, WalletReviewStep

LEMMA WalletAttachProofsStep ==
  ASSUME Wallet!WalletAssumption, WalletInv, NEW a \in Admins, NEW w \in Withdrawals, NEW files \in SUBSET Files,
         Wallet!AttachProofs(a, w, files)
  PROVE  WalletInv'
<1>0. /\ withdrawal \in [Withdrawals -> WalletWithdrawalRows] /\ withdrawal[w] \in WalletWithdrawalRows
      /\ impact \in [Admins -> {Wallet!NoPreview} \cup WalletPreviews]
      /\ wallet \in Wallets /\ wallet.available \in Int /\ wallet.frozen \in Nat
      /\ withdrawal[w].amount \in Nat /\ withdrawal[w].version \in Nat
      /\ withdrawal[w].proofs \in SUBSET Files
      /\ WalletWithdrawalShape(w) /\ WalletOneInFlight /\ WalletProofsApart
      /\ \A d \in ledger : d.kind \in WalletWithdrawalKinds => WalletWithdrawalEntry(d)
  BY DEF WalletInv, WalletTyped, WalletWithdrawalRows, Wallets, WalletWithdrawalsShape, WalletLedgerShape
<1>p. PICK p : p = [withdrawal[w] EXCEPT !.proofs = @ \cup files, !.version = @ + 1]
  OBVIOUS
<1>1. /\ withdrawal[w].status = "APPROVED" /\ \A f \in files : Wallet!UsableProof(a, w, f)
      /\ withdrawal' = [withdrawal EXCEPT ![w].proofs = @ \cup files, ![w].version = @ + 1]
      /\ ledger' = ledger /\ wallet' = wallet
      /\ position' = position /\ bank' = bank /\ agent' = agent /\ impact' = impact
  BY DEF Wallet!AttachProofs, Wallet!Reviewable
<1>2. /\ p \in WalletWithdrawalRows /\ p.status = "APPROVED" /\ p.amount = withdrawal[w].amount
      /\ p.proofs = withdrawal[w].proofs \cup files /\ p.before = withdrawal[w].before
      /\ p.frozenAfter = withdrawal[w].frozenAfter
  BY <1>0, <1>1, <1>p DEF WalletWithdrawalRows
<1>3. /\ withdrawal' \in [Withdrawals -> WalletWithdrawalRows] /\ withdrawal'[w] = p
      /\ \A o \in Withdrawals \ {w} : withdrawal'[o] = withdrawal[o]
  BY <1>0, <1>1, <1>2, <1>p DEF WalletWithdrawalRows
<1>4. WalletWithdrawalShape(w)'
  BY <1>0, <1>1, <1>2, <1>3 DEF WalletWithdrawalShape, WalletFreeze, Wallet!Entry
<1>5. WalletOneInFlight'
  <2>1. Wallet!InFlight' = Wallet!InFlight BY <1>1, <1>2, <1>3 DEF Wallet!InFlight
  <2>2. \A o \in Withdrawals : withdrawal'[o].amount = withdrawal[o].amount BY <1>2, <1>3
  <2> QED BY <2>1, <2>2, <1>0, <1>1 DEF WalletOneInFlight, Wallet!InFlight
<1>7. \A o \in Withdrawals \ {w} : p.proofs \cap withdrawal[o].proofs = {}
  BY <1>0, <1>1, <1>2 DEF WalletProofsApart, Wallet!UsableProof
<1>6. WalletReviewed(w, p) BY <1>0, <1>1, <1>2, <1>3, <1>4, <1>5, <1>7 DEF WalletReviewed
<1> QED BY <1>1, <1>2, <1>6, WalletReviewStep

LEMMA WalletRejectStep ==
  ASSUME Wallet!WalletAssumption, WalletInv, NEW a \in Admins, NEW w \in Withdrawals, Wallet!Reject(a, w)
  PROVE  WalletInv'
<1>0. /\ withdrawal \in [Withdrawals -> WalletWithdrawalRows] /\ withdrawal[w] \in WalletWithdrawalRows
      /\ impact \in [Admins -> {Wallet!NoPreview} \cup WalletPreviews]
      /\ wallet \in Wallets /\ wallet.available \in Int /\ wallet.frozen \in Nat
      /\ withdrawal[w].amount \in Nat /\ withdrawal[w].version \in Nat
      /\ withdrawal[w].proofs \in SUBSET Files
      /\ WalletWithdrawalShape(w) /\ WalletOneInFlight /\ WalletProofsApart
      /\ \A d \in ledger : d.kind \in WalletWithdrawalKinds => WalletWithdrawalEntry(d)
  BY DEF WalletInv, WalletTyped, WalletWithdrawalRows, Wallets, WalletWithdrawalsShape, WalletLedgerShape
<1>n. PICK n \in Nat : n = withdrawal[w].amount BY <1>0
<1>p. PICK p : p = [withdrawal[w] EXCEPT !.status = "REJECTED", !.version = @ + 1]
  OBVIOUS
<1>e. PICK e : e = Wallet!Entry("WITHDRAWAL_RELEASE", <<w, 1>>, 0, n, -n)
  OBVIOUS
<1>1. /\ withdrawal[w].status = "PENDING"
      /\ withdrawal' = [withdrawal EXCEPT ![w].status = "REJECTED", ![w].version = @ + 1]
      /\ ledger' = ledger \cup {e}
      /\ wallet' = [available |-> wallet.available + n, frozen |-> wallet.frozen - n]
      /\ impact' = [impact EXCEPT ![a] = Wallet!NoPreview]
      /\ position' = position /\ bank' = bank /\ agent' = agent
  BY <1>n, <1>e DEF Wallet!Reject, Wallet!Reviewable, Wallet!Closed
<1>2. /\ p \in WalletWithdrawalRows /\ p.status = "REJECTED" /\ p.amount = n
      /\ p.proofs = withdrawal[w].proofs /\ p.before = withdrawal[w].before
      /\ p.frozenAfter = withdrawal[w].frozenAfter
  <2>1. p = [status |-> "REJECTED", amount |-> withdrawal[w].amount, version |-> withdrawal[w].version + 1,
             before |-> withdrawal[w].before, frozenAfter |-> withdrawal[w].frozenAfter,
             bank |-> withdrawal[w].bank, proofs |-> withdrawal[w].proofs]
    BY <1>0, <1>p DEF WalletWithdrawalRows
  <2> QED BY <1>0, <1>n, <2>1 DEF WalletWithdrawalRows
<1>3. /\ withdrawal' \in [Withdrawals -> WalletWithdrawalRows] /\ withdrawal'[w] = p
      /\ \A o \in Withdrawals \ {w} : withdrawal'[o] = withdrawal[o]
  BY <1>0, <1>1, <1>2, <1>p DEF WalletWithdrawalRows
<1>4. /\ e \in WalletEntries /\ e.kind = "WITHDRAWAL_RELEASE" /\ e.kind \in WalletWithdrawalKinds
          /\ e.subject[1] = w
      /\ e.expected = 0 /\ e.available = n /\ e.frozen = -n
  BY <1>e DEF WalletEntries, Wallet!Entry, WalletWithdrawalKinds
<1>5. e \notin ledger BY <1>0, <1>1, <1>4 DEF WalletWithdrawalEntry
<1>14. Wallet!InFlight = {w} /\ wallet.frozen = n  BY <1>0, <1>1, <1>n DEF WalletOneInFlight, Wallet!InFlight
<1>6. wallet' \in Wallets /\ wallet'.available = wallet.available + n /\ wallet'.frozen = 0
  BY <1>0, <1>1, <1>14 DEF Wallets
<1>7. WalletWithdrawalEntry(e)'
  BY <1>2, <1>3, <1>4, <1>e DEF WalletWithdrawalEntry, WalletRelease, Wallet!Entry
<1>8. WalletWithdrawalShape(w)'
  BY <1>0, <1>1, <1>2, <1>3, <1>e, <1>n DEF WalletWithdrawalShape, WalletFreeze, WalletRelease, Wallet!Entry
<1>9. WalletOneInFlight'
  <2>1. Wallet!InFlight' = {} BY <1>2, <1>3, <1>14 DEF Wallet!InFlight
  <2> QED BY <2>1, <1>6 DEF WalletOneInFlight
<1>10. WalletReviewed(w, p)  BY <1>0, <1>1, <1>2, <1>3, <1>8, <1>9, <1>n DEF WalletReviewed, WalletProofsApart
<1>11. WalletWithdrawn(w, e, p)  BY <1>0, <1>1, <1>2, <1>4, <1>5, <1>6, <1>7, <1>10, <1>14 DEF WalletWithdrawn
<1> QED BY <1>2, <1>4, <1>11, WalletWithdrawStep

LEMMA WalletMarkPaidStep ==
  ASSUME Wallet!WalletAssumption, WalletInv, NEW a \in Admins, NEW w \in Withdrawals, NEW files \in SUBSET Files,
         Wallet!MarkPaid(a, w, files)
  PROVE  WalletInv'
<1>0. /\ withdrawal \in [Withdrawals -> WalletWithdrawalRows] /\ withdrawal[w] \in WalletWithdrawalRows
      /\ impact \in [Admins -> {Wallet!NoPreview} \cup WalletPreviews]
      /\ wallet \in Wallets /\ wallet.available \in Int /\ wallet.frozen \in Nat
      /\ withdrawal[w].amount \in Nat /\ withdrawal[w].version \in Nat
      /\ withdrawal[w].proofs \in SUBSET Files
      /\ WalletWithdrawalShape(w) /\ WalletOneInFlight /\ WalletProofsApart
      /\ \A d \in ledger : d.kind \in WalletWithdrawalKinds => WalletWithdrawalEntry(d)
  BY DEF WalletInv, WalletTyped, WalletWithdrawalRows, Wallets, WalletWithdrawalsShape, WalletLedgerShape
<1>n. PICK n \in Nat : n = withdrawal[w].amount BY <1>0
<1>p. PICK p : p = [withdrawal[w] EXCEPT !.status = "PAID", !.version = @ + 1, !.proofs = @ \cup files]
  OBVIOUS
<1>e. PICK e : e = Wallet!Entry("WITHDRAWAL_PAID", <<w, 1>>, 0, 0, -n)
  OBVIOUS
<1>1. /\ withdrawal[w].status = "APPROVED" /\ files # {} /\ \A f \in files : Wallet!UsableProof(a, w, f)
      /\ withdrawal' = [withdrawal EXCEPT ![w].status = "PAID", ![w].version = @ + 1,
                                          ![w].proofs = @ \cup files]
      /\ ledger' = ledger \cup {e}
      /\ wallet' = [wallet EXCEPT !.frozen = @ - n]
      /\ impact' = [impact EXCEPT ![a] = Wallet!NoPreview]
      /\ position' = position /\ bank' = bank /\ agent' = agent
  BY <1>n, <1>e DEF Wallet!MarkPaid, Wallet!Reviewable, Wallet!Closed
<1>2. /\ p \in WalletWithdrawalRows /\ p.status = "PAID" /\ p.amount = n
      /\ p.proofs = withdrawal[w].proofs \cup files /\ p.before = withdrawal[w].before
      /\ p.frozenAfter = withdrawal[w].frozenAfter
  <2>1. p = [status |-> "PAID", amount |-> withdrawal[w].amount, version |-> withdrawal[w].version + 1,
             before |-> withdrawal[w].before, frozenAfter |-> withdrawal[w].frozenAfter,
             bank |-> withdrawal[w].bank, proofs |-> withdrawal[w].proofs \cup files]
    BY <1>0, <1>p DEF WalletWithdrawalRows
  <2> QED BY <1>0, <1>n, <2>1 DEF WalletWithdrawalRows
<1>3. /\ withdrawal' \in [Withdrawals -> WalletWithdrawalRows] /\ withdrawal'[w] = p
      /\ \A o \in Withdrawals \ {w} : withdrawal'[o] = withdrawal[o]
  BY <1>0, <1>1, <1>2, <1>p DEF WalletWithdrawalRows
<1>4. /\ e \in WalletEntries /\ e.kind = "WITHDRAWAL_PAID" /\ e.kind \in WalletWithdrawalKinds /\ e.subject[1] = w
      /\ e.expected = 0 /\ e.available = 0 /\ e.frozen = -n
  BY <1>e DEF WalletEntries, Wallet!Entry, WalletWithdrawalKinds
<1>5. e \notin ledger BY <1>0, <1>1, <1>4 DEF WalletWithdrawalEntry
<1>14. Wallet!InFlight = {w} /\ wallet.frozen = n  BY <1>0, <1>1, <1>n DEF WalletOneInFlight, Wallet!InFlight
<1>6. wallet' \in Wallets /\ wallet'.available = wallet.available /\ wallet'.frozen = 0
  BY <1>0, <1>1, <1>14 DEF Wallets
<1>7. WalletWithdrawalEntry(e)'
  BY <1>2, <1>3, <1>4, <1>e DEF WalletWithdrawalEntry, WalletPayout, Wallet!Entry
<1>8. WalletWithdrawalShape(w)'
  BY <1>0, <1>1, <1>2, <1>3, <1>e, <1>n DEF WalletWithdrawalShape, WalletFreeze, WalletPayout, Wallet!Entry
<1>9. WalletOneInFlight'
  <2>1. Wallet!InFlight' = {} BY <1>2, <1>3, <1>14 DEF Wallet!InFlight
  <2> QED BY <2>1, <1>6 DEF WalletOneInFlight
<1>15. \A o \in Withdrawals \ {w} : p.proofs \cap withdrawal[o].proofs = {}
  BY <1>0, <1>1, <1>2 DEF WalletProofsApart, Wallet!UsableProof
<1>10. WalletReviewed(w, p) BY <1>0, <1>1, <1>2, <1>3, <1>8, <1>9, <1>15, <1>n DEF WalletReviewed
<1>11. WalletWithdrawn(w, e, p)  BY <1>0, <1>1, <1>2, <1>4, <1>5, <1>6, <1>7, <1>10, <1>14 DEF WalletWithdrawn
<1> QED BY <1>1, <1>2, <1>4, <1>11, WalletWithdrawStep

\* Steps that move no money: bank accounts, the agent's status, previews.
LEMMA WalletQuietStep ==
  ASSUME WalletInv, UNCHANGED <<wallet, ledger, position, withdrawal>>,
         bank' \in [Accounts -> {"NEW", "ACTIVE", "REPLACED"}], WalletOneBank',
         agent' \in {"ACTIVE", "DISABLED"}, impact' \in [Admins -> {Wallet!NoPreview} \cup WalletPreviews]
  PROVE  WalletInv'
<1>1. WalletTyped' /\ WalletPositionsShape' /\ WalletLedgerShape' /\ WalletWithdrawalsShape' /\ WalletProofsApart'
  BY DEF WalletInv, WalletTyped, WalletPositionsShape, WalletPositionShape, WalletLedgerShape,
     WalletCommissionEntry, WalletWithdrawalEntry, Wallet!EntryAllowed, WalletFreeze, WalletRelease,
     WalletPayout, WalletWithdrawalsShape, WalletWithdrawalShape, WalletProofsApart
<1>2. Wallet!Reconciled' /\ WalletOneInFlight' /\ Wallet!PaidWasEarned' /\ Wallet!DebtIsRefunds'
  BY DEF WalletInv, Wallet!Reconciled, Wallet!LeftOf, WalletOneInFlight, Wallet!InFlight, Wallet!PaidWasEarned,
     Wallet!DebtIsRefunds
<1> QED BY <1>1, <1>2 DEF WalletInv

LEMMA WalletReplaceBankAccountStep ==
  ASSUME WalletInv, NEW b \in Accounts, Wallet!ReplaceBankAccount(b)
  PROVE  WalletInv'
<1>1. bank \in [Accounts -> {"NEW", "ACTIVE", "REPLACED"}] /\ agent \in {"ACTIVE", "DISABLED"}
      /\ impact \in [Admins -> {Wallet!NoPreview} \cup WalletPreviews]
  BY DEF WalletInv, WalletTyped
<1>2. bank' \in [Accounts -> {"NEW", "ACTIVE", "REPLACED"}] /\ \A o \in Accounts : bank'[o] = "ACTIVE" => o = b
  BY <1>1 DEF Wallet!ReplaceBankAccount
<1>3. WalletOneBank' BY <1>2 DEF WalletOneBank
<1> QED BY <1>1, <1>2, <1>3, WalletQuietStep DEF Wallet!ReplaceBankAccount

LEMMA WalletAgentStep ==
  ASSUME WalletInv, Wallet!DisableAgent \/ Wallet!ReactivateAgent
  PROVE  WalletInv'
<1>1. bank \in [Accounts -> {"NEW", "ACTIVE", "REPLACED"}] /\ WalletOneBank
      /\ impact \in [Admins -> {Wallet!NoPreview} \cup WalletPreviews]
  BY DEF WalletInv, WalletTyped
<1>2. WalletOneBank' BY <1>1 DEF WalletOneBank, Wallet!DisableAgent, Wallet!ReactivateAgent
<1> QED BY <1>1, <1>2, WalletQuietStep DEF Wallet!DisableAgent, Wallet!ReactivateAgent

LEMMA WalletPreviewStep ==
  ASSUME WalletInv, NEW a \in Admins, NEW action \in Wallet!Actions, NEW w \in Withdrawals,
         NEW files \in SUBSET Files, Wallet!Preview(a, action, w, files)
  PROVE  WalletInv'
<1>1. /\ bank \in [Accounts -> {"NEW", "ACTIVE", "REPLACED"}] /\ WalletOneBank
      /\ impact \in [Admins -> {Wallet!NoPreview} \cup WalletPreviews] /\ agent \in {"ACTIVE", "DISABLED"}
      /\ wallet \in Wallets /\ withdrawal[w].version \in Nat /\ withdrawal[w].proofs \in SUBSET Files
  BY DEF WalletInv, WalletTyped, WalletWithdrawalRows
<1>2. Wallet!Impact(action, w, files) \in WalletPreviews BY <1>1 DEF Wallet!Impact, WalletPreviews
<1>3. impact' \in [Admins -> {Wallet!NoPreview} \cup WalletPreviews]  BY <1>1, <1>2 DEF Wallet!Preview
<1>4. WalletOneBank' BY <1>1 DEF WalletOneBank, Wallet!Preview
<1> QED BY <1>1, <1>3, <1>4, WalletQuietStep DEF Wallet!Preview

LEMMA WalletInitially ==
  ASSUME Wallet!WalletAssumption, Wallet!Init
  PROVE  WalletInv
<1>0. /\ wallet = [available |-> 0, frozen |-> 0] /\ ledger = {}
      /\ position = [c \in Commissions |-> Wallet!NoPosition]
      /\ withdrawal = [w \in Withdrawals |-> Wallet!NoWithdrawal]
      /\ bank = [b \in Accounts |-> "NEW"] /\ agent = "ACTIVE"
      /\ impact = [a \in Admins |-> Wallet!NoPreview]
  BY DEF Wallet!Init
<1>1. WalletTyped
  <2>1. wallet \in Wallets /\ bank \in [Accounts -> {"NEW", "ACTIVE", "REPLACED"}]
        /\ agent \in {"ACTIVE", "DISABLED"}
        /\ impact \in [Admins -> {Wallet!NoPreview} \cup WalletPreviews]
    BY <1>0 DEF Wallets
  <2>2. position \in [Commissions -> WalletPositions]  BY <1>0 DEF Wallet!NoPosition, WalletPositions
  <2>3. withdrawal \in [Withdrawals -> WalletWithdrawalRows]
    BY <1>0 DEF Wallet!NoWithdrawal, WalletWithdrawalRows
  <2>4. ledger \subseteq WalletEntries /\ Wallet!IsFiniteSet(ledger) BY <1>0, WalletFS_EmptySet
  <2> QED BY <2>1, <2>2, <2>3, <2>4 DEF WalletTyped
<1>2. WalletPositionsShape
  BY <1>0 DEF WalletPositionsShape, WalletPositionShape, Wallet!NoPosition, Wallet!WalletAssumption
<1>3. WalletWithdrawalsShape  BY <1>0 DEF WalletWithdrawalsShape, WalletWithdrawalShape, Wallet!NoWithdrawal
<1>4. WalletLedgerShape /\ WalletOneBank BY <1>0 DEF WalletLedgerShape, WalletOneBank
<1>5. WalletProofsApart BY <1>0 DEF WalletProofsApart, Wallet!NoWithdrawal
<1>6. WalletOneInFlight BY <1>0 DEF WalletOneInFlight, Wallet!InFlight, Wallet!NoWithdrawal
<1>7. Wallet!Available({}) = 0 /\ Wallet!Expected({}) = 0 /\ Wallet!Frozen({}) = 0
  BY WalletTotalEmpty DEF Wallet!Available, Wallet!Expected, Wallet!Frozen
<1>8. WalletOf(ledger, 0) = {} /\ (\A c : WalletOf(ledger, c) = {}) /\ WalletDebits(ledger) = {}
  BY <1>0 DEF WalletOf, WalletDebits
<1>9. WalletSettled = {} /\ WalletPaid = {}
  BY <1>0 DEF WalletSettled, WalletPaid, Wallet!NoPosition, Wallet!NoWithdrawal
<1>10. WalletEarned = 0 /\ WalletPaidOut = 0  BY <1>9, WalletTotalEmpty DEF WalletEarned, WalletPaidOut
<1>11. Wallet!PaidWasEarned
  BY <1>0, <1>10 DEF Wallet!PaidWasEarned, WalletEarned, WalletPaidOut, WalletSettled, WalletPaid
<1>12. Wallet!DebtIsRefunds BY <1>0, <1>7, <1>8 DEF Wallet!DebtIsRefunds, WalletDebits
<1>13. WalletRemaining = 0
  <2> DEFINE f == [c \in Commissions |-> position[c].expected]
  <2>1. Wallet!IsFiniteSet(DOMAIN f) /\ \A c \in DOMAIN f : f[c] = 0
    BY <1>0 DEF Wallet!NoPosition, Wallet!WalletAssumption
  <2>2. Wallet!SumFunction(f) = 0
    <3> HIDE DEF f
    <3> QED BY <2>1, WalletTotalZero
  <2> QED BY <2>2 DEF WalletRemaining
<1>14. Wallet!Reconciled
  <2>1. \A c \in Commissions : position[c].expected = 0 /\ position[c].state # "AVAILABLE"
    BY <1>0 DEF Wallet!NoPosition
  <2>2. \A c \in Commissions : Wallet!Expected(WalletOf(ledger, c)) = 0
     /\ Wallet!Available(WalletOf(ledger, c)) = 0
    BY <1>7, <1>8
  <2>3. wallet.available = Wallet!Available(ledger) /\ wallet.frozen = Wallet!Frozen(ledger) /\ wallet.frozen >= 0
        /\ Wallet!Expected(ledger) = WalletRemaining
    BY <1>0, <1>7, <1>13
  <2> QED BY <2>1, <2>2, <2>3 DEF Wallet!Reconciled, WalletOf, WalletRemaining
<1> QED BY <1>1, <1>2, <1>3, <1>4, <1>5, <1>6, <1>11, <1>12, <1>14 DEF WalletInv

LEMMA WalletStepwise ==
  ASSUME Wallet!WalletAssumption, WalletInv, [Wallet!Next]_Wallet!vars
  PROVE  WalletInv'
<1>1. ASSUME NEW c \in Commissions, Wallet!Expect(c) \/ Wallet!Settle(c)
      PROVE  WalletInv'
  BY <1>1, WalletExpectStep, WalletSettleStep
<1>2. ASSUME NEW c \in Commissions, NEW amount \in Wallet!Amounts,
             Wallet!ReverseExpected(c, amount) \/ Wallet!ReverseAvailable(c, amount)
      PROVE  WalletInv'
  <2>1. amount \in Nat \ {0} BY DEF Wallet!Amounts
  <2> QED BY <1>2, <2>1, WalletReverseExpectedStep, WalletReverseAvailableStep
<1>3. CASE Wallet!Review
  <2>1. ASSUME NEW a \in Admins, NEW w \in Withdrawals, Wallet!Approve(a, w) \/ Wallet!Reject(a, w)
        PROVE  WalletInv'
    BY <2>1, WalletApproveStep, WalletRejectStep
  <2>2. ASSUME NEW a \in Admins, NEW w \in Withdrawals, NEW files \in SUBSET Files,
               Wallet!AttachProofs(a, w, files) \/ Wallet!MarkPaid(a, w, files)
        PROVE  WalletInv'
    BY <2>2, WalletAttachProofsStep, WalletMarkPaidStep
  <2>3. ASSUME NEW a \in Admins, NEW w \in Withdrawals, NEW files \in SUBSET Files,
               NEW action \in Wallet!Actions, Wallet!Preview(a, action, w, files)
        PROVE  WalletInv'
    BY <2>3, WalletPreviewStep
  <2> QED BY <1>3, <2>1, <2>2, <2>3 DEF Wallet!Review
<1>4. ASSUME NEW w \in Withdrawals, NEW b \in Accounts,
             NEW amount \in 1..(IF wallet.available > 0 THEN wallet.available + 1 ELSE 1),
             Wallet!CreateWithdrawal(w, amount, b)
      PROVE  WalletInv'
  <2>1. amount \in Nat BY DEF WalletInv, WalletTyped, Wallets
  <2> QED BY <1>4, <2>1, WalletCreateWithdrawalStep
<1>5. CASE UNCHANGED Wallet!vars
  <2>1. WalletOneBank' /\ bank \in [Accounts -> {"NEW", "ACTIVE", "REPLACED"}]
        /\ agent \in {"ACTIVE", "DISABLED"} /\ impact \in [Admins -> {Wallet!NoPreview} \cup WalletPreviews]
    BY <1>5 DEF Wallet!vars, WalletInv, WalletOneBank, WalletTyped
  <2> QED BY <1>5, <2>1, WalletQuietStep DEF Wallet!vars
<1> QED BY <1>1, <1>2, <1>3, <1>4, <1>5, WalletReplaceBankAccountStep, WalletAgentStep DEF Wallet!Next,
   Wallet!Earnings

LEMMA WalletInvMeansMoney ==
  ASSUME Wallet!WalletAssumption, WalletInv
  PROVE  Wallet!MoneyAddsUp
<1>1. Wallet!TypeOK
  BY DEF WalletInv, WalletTyped, Wallets, WalletPositions, WalletPositionsShape, WalletPositionShape,
     WalletOneBank, Wallet!TypeOK
<1>2. Wallet!FrozenIsInFlight
  <2>2. Wallet!Cardinality(Wallet!InFlight) <= 1
    <3>1. CASE Wallet!InFlight = {} BY <3>1, WalletFS_EmptySet
    <3>2. ASSUME NEW w \in Wallet!InFlight PROVE Wallet!Cardinality(Wallet!InFlight) <= 1
      <4>1. Wallet!InFlight = {w} BY DEF WalletInv, WalletOneInFlight
      <4>2. Wallet!Cardinality({w}) = 1 BY WalletFS_Singleton
      <4> QED BY <4>1, <4>2
    <3> QED BY <3>1, <3>2
  <2> QED BY <2>2 DEF WalletInv, WalletOneInFlight, Wallet!FrozenIsInFlight
<1>3. Wallet!ProofBacksOnePayment
  BY DEF WalletInv, WalletProofsApart, WalletWithdrawalsShape, WalletWithdrawalShape, Wallet!ProofBacksOnePayment
<1>4. \A e \in ledger : Wallet!EntryAllowed(e) /\ Wallet!BookedInFull(e)
  <2> SUFFICES ASSUME NEW e \in ledger PROVE Wallet!EntryAllowed(e) /\ Wallet!BookedInFull(e)
    OBVIOUS
  <2>1. e.kind \in WalletCommissionKinds \cup WalletWithdrawalKinds
    BY DEF WalletInv, WalletTyped, WalletEntries
  <2>2. CASE e.kind \in WalletCommissionKinds
    BY <2>2 DEF WalletInv, WalletLedgerShape, WalletCommissionEntry, WalletCommissionKinds, Wallet!BookedInFull
  <2>3. CASE e.kind \in WalletWithdrawalKinds
    BY <2>3 DEF WalletInv, WalletLedgerShape, WalletWithdrawalEntry, WalletWithdrawalKinds,
       Wallet!BookedInFull, Wallet!EntryAllowed, WalletFreeze, WalletRelease, WalletPayout, Wallet!Entry
  <2> QED BY <2>1, <2>2, <2>3
<1>5. ASSUME NEW w \in Withdrawals, withdrawal[w].status # "ABSENT"
      PROVE  Wallet!WithdrawalComplete(w)
  <2> DEFINE entries(kind) == {e \in ledger : e.kind = kind /\ e.subject[1] = w}
  <2>1. /\ WalletWithdrawalShape(w)
        /\ \A e \in ledger : e.kind \in WalletWithdrawalKinds => WalletWithdrawalEntry(e)
    BY DEF WalletInv, WalletWithdrawalsShape, WalletLedgerShape
  <2>2. entries("WITHDRAWAL_FREEZE") = {WalletFreeze(w)}
    BY <1>5, <2>1 DEF WalletWithdrawalShape, WalletWithdrawalEntry, WalletWithdrawalKinds, WalletFreeze,
       Wallet!Entry
  <2>3. entries("WITHDRAWAL_RELEASE") = IF withdrawal[w].status = "REJECTED" THEN {WalletRelease(w)} ELSE {}
    BY <2>1 DEF WalletWithdrawalShape, WalletWithdrawalEntry, WalletWithdrawalKinds, WalletRelease, Wallet!Entry
  <2>4. entries("WITHDRAWAL_PAID") = IF withdrawal[w].status = "PAID" THEN {WalletPayout(w)} ELSE {}
    BY <2>1 DEF WalletWithdrawalShape, WalletWithdrawalEntry, WalletWithdrawalKinds, WalletPayout, Wallet!Entry
  <2>5. /\ Wallet!Cardinality(entries("WITHDRAWAL_FREEZE")) = 1
        /\ Wallet!Cardinality(entries("WITHDRAWAL_RELEASE")) = IF withdrawal[w].status = "REJECTED" THEN 1 ELSE 0
        /\ Wallet!Cardinality(entries("WITHDRAWAL_PAID")) = IF withdrawal[w].status = "PAID" THEN 1 ELSE 0
    <3> HIDE DEF entries
    <3> QED BY <2>2, <2>3, <2>4, WalletFS_Singleton, WalletFS_EmptySet
  <2> QED BY <1>5, <2>1, <2>5 DEF Wallet!WithdrawalComplete, WalletWithdrawalShape
<1> QED BY <1>1, <1>2, <1>3, <1>4, <1>5 DEF WalletInv, Wallet!MoneyAddsUp, Wallet!WalletReconciles,
   Wallet!GuardsNeverFire

--------------------------------
\* A review does what its administrator was shown, and only that.

WalletShown(w) ==
  withdrawal'[w].status \in {"APPROVED", "REJECTED", "PAID"}
    /\ withdrawal'[w].status # withdrawal[w].status =>
       \E a \in Admins : impact[a] # Wallet!NoPreview /\ impact[a].of = w /\ impact[a].wallet = wallet
                         /\ impact[a].version = withdrawal[w].version
                         /\ impact'[a] = Wallet!NoPreview

\* What an action on w does to its row: status and proofs change, the version
\* counts, the rest stays.
WalletBecame(w, st, proofs) ==
  /\ withdrawal'[w] = [withdrawal[w] EXCEPT !.status = st, !.version = @ + 1, !.proofs = proofs]
  /\ \A o \in Withdrawals \ {w} : withdrawal'[o] = withdrawal[o]

LEMMA WalletBecameAllowed ==
  ASSUME WalletTyped, NEW w \in Withdrawals, NEW st, NEW proofs, WalletBecame(w, st, proofs),
         withdrawal[w].status # "ABSENT",
         \/ st = withdrawal[w].status
         \/ withdrawal[w].status = "PENDING" /\ st \in {"APPROVED", "REJECTED"}
         \/ withdrawal[w].status = "APPROVED" /\ st = "PAID"
  PROVE  \A o \in Withdrawals : Wallet!TransitionAllowed(withdrawal[o], withdrawal'[o])
<1>1. withdrawal[w] \in WalletWithdrawalRows BY DEF WalletTyped
<1>2. /\ withdrawal'[w].status = st /\ withdrawal'[w].version = withdrawal[w].version + 1
      /\ [withdrawal'[w] EXCEPT !.status = withdrawal[w].status, !.version = withdrawal[w].version,
                                !.proofs = withdrawal[w].proofs] = withdrawal[w]
  BY <1>1 DEF WalletBecame, WalletWithdrawalRows
<1>3. Wallet!TransitionAllowed(withdrawal[w], withdrawal'[w]) BY <1>2 DEF Wallet!TransitionAllowed
<1>4. \A o \in Withdrawals \ {w} : Wallet!TransitionAllowed(withdrawal[o], withdrawal'[o])
  BY DEF WalletBecame, Wallet!TransitionAllowed
<1> QED BY <1>3, <1>4

LEMMA WalletConfirmedShown ==
  ASSUME WalletTyped, NEW a \in Admins, NEW w \in Withdrawals, NEW files, NEW action,
         Wallet!Confirmed(a, action, w, files), Wallet!Closed(a),
         \A o \in Withdrawals \ {w} : withdrawal'[o] = withdrawal[o]
  PROVE  \A o \in Withdrawals : WalletShown(o)
<1>1. impact \in [Admins -> {Wallet!NoPreview} \cup WalletPreviews] BY DEF WalletTyped
<1>2. /\ impact[a] # Wallet!NoPreview /\ impact[a].of = w /\ impact[a].wallet = wallet
      /\ impact[a].version = withdrawal[w].version /\ impact'[a] = Wallet!NoPreview
  BY <1>1 DEF Wallet!Confirmed, Wallet!Impact, Wallet!Closed
<1> QED BY <1>2 DEF WalletShown

WalletReviewedRight == \A o \in Withdrawals : Wallet!TransitionAllowed(withdrawal[o], withdrawal'[o])
   /\ WalletShown(o)

LEMMA WalletReviewsStepwise ==
  ASSUME WalletInv, [Wallet!Next]_Wallet!vars
  PROVE  WalletReviewedRight
<1>0. WalletTyped /\ withdrawal \in [Withdrawals -> WalletWithdrawalRows]  BY DEF WalletInv, WalletTyped
<1>1. CASE UNCHANGED withdrawal  BY <1>1 DEF Wallet!TransitionAllowed, WalletShown, WalletReviewedRight
<1>2. ASSUME NEW a \in Admins, NEW w \in Withdrawals, Wallet!Approve(a, w)
      PROVE  WalletReviewedRight
  <2>1. Wallet!Confirmed(a, "APPROVE", w, {}) /\ Wallet!Closed(a) /\ withdrawal[w].status = "PENDING"
    BY <1>2 DEF Wallet!Approve, Wallet!Reviewable
  <2>2. WalletBecame(w, "APPROVED", withdrawal[w].proofs)
    BY <1>0, <1>2 DEF Wallet!Approve, WalletBecame, WalletWithdrawalRows
  <2>3. \A o \in Withdrawals : WalletShown(o)  BY <1>0, <2>1, <2>2, WalletConfirmedShown DEF WalletBecame
  <2> QED BY <1>0, <2>1, <2>2, <2>3, WalletBecameAllowed DEF WalletReviewedRight
<1>3. ASSUME NEW a \in Admins, NEW w \in Withdrawals, Wallet!Reject(a, w)
      PROVE  WalletReviewedRight
  <2>1. Wallet!Confirmed(a, "REJECT", w, {}) /\ Wallet!Closed(a) /\ withdrawal[w].status = "PENDING"
    BY <1>3 DEF Wallet!Reject, Wallet!Reviewable
  <2>2. WalletBecame(w, "REJECTED", withdrawal[w].proofs)
    BY <1>0, <1>3 DEF Wallet!Reject, WalletBecame, WalletWithdrawalRows
  <2>3. \A o \in Withdrawals : WalletShown(o)  BY <1>0, <2>1, <2>2, WalletConfirmedShown DEF WalletBecame
  <2> QED BY <1>0, <2>1, <2>2, <2>3, WalletBecameAllowed DEF WalletReviewedRight
<1>4. ASSUME NEW a \in Admins, NEW w \in Withdrawals, NEW files \in SUBSET Files, Wallet!MarkPaid(a, w, files)
      PROVE  WalletReviewedRight
  <2>1. Wallet!Confirmed(a, "MARK_PAID", w, files) /\ Wallet!Closed(a) /\ withdrawal[w].status = "APPROVED"
    BY <1>4 DEF Wallet!MarkPaid, Wallet!Reviewable
  <2>2. WalletBecame(w, "PAID", withdrawal[w].proofs \cup files)
    BY <1>0, <1>4 DEF Wallet!MarkPaid, WalletBecame, WalletWithdrawalRows
  <2>3. \A o \in Withdrawals : WalletShown(o)  BY <1>0, <2>1, <2>2, WalletConfirmedShown DEF WalletBecame
  <2> QED BY <1>0, <2>1, <2>2, <2>3, WalletBecameAllowed DEF WalletReviewedRight
<1>5. ASSUME NEW a \in Admins, NEW w \in Withdrawals, NEW files \in SUBSET Files, Wallet!AttachProofs(a, w, files)
      PROVE  WalletReviewedRight
  <2>1. withdrawal[w].status = "APPROVED" BY <1>5 DEF Wallet!AttachProofs, Wallet!Reviewable
  <2>2. WalletBecame(w, withdrawal[w].status, withdrawal[w].proofs \cup files)
    BY <1>0, <1>5 DEF Wallet!AttachProofs, WalletBecame, WalletWithdrawalRows
  <2>0. withdrawal'[w].status = withdrawal[w].status BY <1>0, <2>2 DEF WalletBecame
  <2>3. \A o \in Withdrawals : withdrawal'[o].status = withdrawal[o].status
    <3>1. \A o \in Withdrawals \ {w} : withdrawal'[o] = withdrawal[o] BY <2>2 DEF WalletBecame
    <3> QED BY <2>0, <3>1
  <2> QED BY <1>0, <2>1, <2>2, <2>3, WalletBecameAllowed DEF WalletReviewedRight, WalletShown
<1>6. ASSUME NEW w \in Withdrawals, NEW b \in Accounts, NEW amount, Wallet!CreateWithdrawal(w, amount, b)
      PROVE  WalletReviewedRight
  <2>1. /\ withdrawal[w].status = "ABSENT" /\ withdrawal'[w].status = "PENDING"
        /\ \A o \in Withdrawals \ {w} : withdrawal'[o] = withdrawal[o]
    BY <1>0, <1>6 DEF Wallet!CreateWithdrawal
  <2> QED BY <2>1 DEF WalletReviewedRight, Wallet!TransitionAllowed, WalletShown
<1>7. \/ UNCHANGED withdrawal
      \/ \E a \in Admins, w \in Withdrawals : Wallet!Approve(a, w) \/ Wallet!Reject(a, w)
      \/ \E a \in Admins, w \in Withdrawals, files \in SUBSET Files :
            Wallet!MarkPaid(a, w, files) \/ Wallet!AttachProofs(a, w, files)
      \/ \E w \in Withdrawals, b \in Accounts : \E amount : Wallet!CreateWithdrawal(w, amount, b)
  BY DEF Wallet!Next, Wallet!vars, Wallet!Earnings, Wallet!Review, Wallet!Expect, Wallet!Settle,
     Wallet!ReverseExpected, Wallet!ReverseAvailable, Wallet!Preview, Wallet!ReplaceBankAccount,
     Wallet!DisableAgent, Wallet!ReactivateAgent
<1> QED BY <1>1, <1>2, <1>3, <1>4, <1>5, <1>6, <1>7

--------------------------------
\* What it says of the trade of the mall.

LEMMA WalletMoves ==
  ASSUME [TradeNext]_tradeVars
  PROVE  [Wallet!Next]_(Wallet!vars)
BY DEF TradeNext, tradeVars, walletVars, Wallet!vars, RulesStep, FirstStep, WalletStep, ServicingStep,
   CompensationStep, CheckoutStep, CartsStep, GoodsStep, Rest

LEMMA WalletHolds ==
  /\ TradeInit => WalletInv
  /\ WalletInv /\ [TradeNext]_tradeVars => WalletInv'
<1>1. Wallet!WalletAssumption BY TradeAssumption
<1>2. TradeInit => WalletInv BY <1>1, WalletInitially DEF TradeInit
<1>3. WalletInv /\ [TradeNext]_tradeVars => WalletInv' BY <1>1, WalletMoves, WalletStepwise
<1> QED BY <1>2, <1>3

\* AgentWallet: the agent's money adds up in wallet, ledger, commissions and
\* withdrawals, whatever order reviews, refunds and settlements take, for
\* any number of them and any amounts.
THEOREM MoneyAlwaysAddsUp == TradeSpec => []MoneyAddsUp
<1>1. WalletInv => MoneyAddsUp BY TradeAssumption, WalletInvMeansMoney DEF MoneyAddsUp
<1> QED BY <1>1, WalletHolds, PTL DEF TradeSpec

\* AgentWallet: a review does what its administrator was shown, to what was
\* shown, and only along the lifecycle of a withdrawal.
THEOREM ReviewsAlwaysStand == TradeSpec => Wallet!ReviewsStand
<1>1. WalletInv /\ [TradeNext]_tradeVars => [Wallet!Next]_(Wallet!vars) /\ WalletReviewedRight
  BY WalletMoves, WalletReviewsStepwise
<1>2. WalletReviewedRight => (\A w \in Withdrawals : Wallet!TransitionAllowed(withdrawal[w], withdrawal'[w]))
  BY DEF WalletReviewedRight
<1>3. WalletReviewedRight =>
        (\A w \in Withdrawals :
            withdrawal'[w].status \in {"APPROVED", "REJECTED", "PAID"}
              /\ withdrawal'[w].status # withdrawal[w].status =>
              \E a \in Admins : impact[a] # Wallet!NoPreview /\ impact[a].of = w /\ impact[a].wallet = wallet
                                /\ impact[a].version = withdrawal[w].version
                                /\ impact'[a] = Wallet!NoPreview)
  BY DEF WalletReviewedRight, WalletShown
<1>4. TradeSpec => [][\A w \in Withdrawals : Wallet!TransitionAllowed(withdrawal[w], withdrawal'[w])]_(Wallet!vars)
  BY <1>1, <1>2, WalletHolds, PTL DEF TradeSpec
<1>5. TradeSpec => Wallet!ReviewedAsShown
  BY <1>1, <1>3, WalletHolds, PTL DEF TradeSpec, Wallet!ReviewedAsShown
<1> QED BY <1>4, <1>5 DEF Wallet!ReviewsStand, Wallet!LifecycleRespected

--------------------------------
\* The checkout.

\* The operators of the libraries, as the instance names them.
LEMMA CheckoutSame ==
  /\ \A S : Checkout!IsFiniteSet(S) = IsFiniteSet(S)
  /\ \A S : Checkout!Cardinality(S) = Cardinality(S)
  /\ \A f : Checkout!SumFunction(f) = SumFunction(f)
<1>1. \A S : Checkout!IsFiniteSet(S) = IsFiniteSet(S) BY DEF Checkout!IsFiniteSet, IsFiniteSet
<1>2. \A S : Checkout!Cardinality(S) = Cardinality(S) BY DEF Checkout!Cardinality, Cardinality
<1>3. \A f : Checkout!SumFunction(f) = SumFunction(f)
  BY DEF Checkout!SumFunction, SumFunction, Checkout!SumFunctionOnSet, SumFunctionOnSet,
     Checkout!FoldFunctionOnSet, FoldFunctionOnSet, Checkout!MapThenFoldSet, MapThenFoldSet
<1> QED BY <1>1, <1>2, <1>3

LEMMA CheckoutTotalNat ==
  ASSUME NEW f, Checkout!IsFiniteSet(DOMAIN f), \A d \in DOMAIN f : f[d] \in Nat
  PROVE  Checkout!SumFunction(f) \in Nat
BY TotalNat, CheckoutSame

LEMMA CheckoutTotalEmpty ==
  ASSUME NEW f, DOMAIN f = {}
  PROVE  Checkout!SumFunction(f) = 0
BY TotalEmpty, CheckoutSame

LEMMA CheckoutTotalAdd ==
  ASSUME NEW f, NEW g, NEW e, Checkout!IsFiniteSet(DOMAIN f),
         e \notin DOMAIN f, DOMAIN g = DOMAIN f \cup {e},
         \A d \in DOMAIN f : f[d] \in Int /\ g[d] = f[d], g[e] \in Int
  PROVE  Checkout!SumFunction(g) = Checkout!SumFunction(f) + g[e]
<1>1. IsFiniteSet(DOMAIN f) BY CheckoutSame
<1>2. SumFunction(g) = SumFunction(f) + g[e] BY <1>1, TotalAdd
<1> QED BY <1>2, CheckoutSame

LEMMA CheckoutFS_Subset ==
  ASSUME NEW S, Checkout!IsFiniteSet(S), NEW T \in SUBSET S
  PROVE  Checkout!IsFiniteSet(T) /\ Checkout!Cardinality(T) <= Checkout!Cardinality(S) /\ (Checkout!Cardinality(S) = Checkout!Cardinality(T) => S = T)
BY FS_Subset, CheckoutSame

LEMMA CheckoutFS_AddElement ==
  ASSUME NEW S, NEW e, Checkout!IsFiniteSet(S)
  PROVE  /\ Checkout!IsFiniteSet(S \cup {e})
         /\ Checkout!Cardinality(S \cup {e}) = IF e \in S THEN Checkout!Cardinality(S) ELSE Checkout!Cardinality(S) + 1
<1>1. IsFiniteSet(S) BY CheckoutSame
<1>2. /\ IsFiniteSet(S \cup {e})
      /\ Cardinality(S \cup {e}) = IF e \in S THEN Cardinality(S) ELSE Cardinality(S) + 1
  BY <1>1, FS_AddElement
<1> QED BY <1>2, CheckoutSame

LEMMA CheckoutFS_RemoveElement ==
  ASSUME NEW S, NEW e, Checkout!IsFiniteSet(S)
  PROVE  /\ Checkout!IsFiniteSet(S \ {e})
         /\ Checkout!Cardinality(S \ {e}) = IF e \in S THEN Checkout!Cardinality(S) - 1 ELSE Checkout!Cardinality(S)
<1>1. IsFiniteSet(S) BY CheckoutSame
<1>2. /\ IsFiniteSet(S \ {e})
      /\ Cardinality(S \ {e}) = IF e \in S THEN Cardinality(S) - 1 ELSE Cardinality(S)
  BY <1>1, FS_RemoveElement
<1> QED BY <1>2, CheckoutSame

LEMMA CheckoutFS_EmptySet ==
  /\ Checkout!IsFiniteSet({}) /\ Checkout!Cardinality({}) = 0
  /\ \A S : Checkout!IsFiniteSet(S) => (Checkout!Cardinality(S) = 0 <=> S = {})
BY FS_EmptySet, CheckoutSame

LEMMA CheckoutFS_CardinalityType ==
  ASSUME NEW S, Checkout!IsFiniteSet(S)
  PROVE  Checkout!Cardinality(S) \in Nat
BY FS_CardinalityType, CheckoutSame

CheckoutBalance == [physical: 0 .. MaxPhysical, locked: 0 .. MaxPhysical, version: 1 .. MaxVersion]
CheckoutEntry == [physical: Int, locked: Int, physicalAfter: Int, lockedAfter: Int]

\* What customers keep and administrators edit.
CheckoutStoreRight ==
  /\ cart \in [Customers -> [Skus -> Checkout!Line \union {Checkout!NoLine}]]
  /\ \A c \in Customers : Checkout!IsFiniteSet(Checkout!LinesOf(c))
      /\ Checkout!Cardinality(Checkout!LinesOf(c)) <= CartLimit
  /\ address \in [Customers -> 1 .. MaxRevisions + 1]
  /\ revision \in [Skus -> 1 .. MaxRevisions + 1]
  /\ onSale \in [Skus -> BOOLEAN]

\* A quote tells what it was made from; the stock only grows newer.
CheckoutQuoteRight(q) ==
  /\ q.id \in 1 .. Checkout!Cardinality(quotes)
  /\ q.customer \in Customers /\ q.source \in Channels /\ q.request \in Checkout!Requests
  /\ q.terms = <<q.facts.address, [s \in Checkout!Asked(q.request) |-> q.facts.items[s][1]]>>
  /\ \A s \in Checkout!Asked(q.request) : q.facts.items[s][2].version \in Nat
                                 /\ q.facts.items[s][2].version <= balance[s].version

CheckoutQuotesRight ==
  /\ Checkout!IsFiniteSet(quotes) /\ \A q \in quotes : CheckoutQuoteRight(q)
  /\ \A q, r \in quotes : q.id = r.id => q = r
  /\ lapsed \subseteq {q.id : q \in quotes}

\* Some of the stock moved since the quote of an order was made: the quote is spent.
CheckoutOrderRight(o) ==
  /\ o = [number |-> o.number, quote |-> o.quote, request |-> o.request, status |-> o.status, terms |-> o.terms]
  /\ o.request \in Checkout!Requests /\ o.status \in {"OPEN", "PAID", "CLOSED", "REFUNDED"}
  /\ \E q \in quotes :
       /\ q.id = o.quote /\ q.request = o.request /\ q.terms = o.terms
       /\ \E s \in Checkout!Asked(q.request) : q.facts.items[s][2].version < balance[s].version

CheckoutOrdersRight ==
  /\ Checkout!IsFiniteSet(orders) /\ \A o \in orders : CheckoutOrderRight(o)
  /\ Checkout!QuoteBuysOnce

CheckoutOpen == {o \in orders : o.status = "OPEN"}
CheckoutReserved(s) == Checkout!SumFunction([o \in CheckoutOpen |-> o.request[s]])

CheckoutStockRight ==
  /\ balance \in [Skus -> CheckoutBalance]
  /\ stockLedger \in [Skus -> CheckoutEntry]
  /\ \A s \in Skus : balance[s].locked = CheckoutReserved(s) /\ balance[s].locked <= balance[s].physical
  /\ Checkout!LedgerExplainsStock

\* An adjustment preview is right as long as the stock has not moved.
CheckoutShownRight ==
  /\ \A p \in shown : /\ p.sku \in Skus /\ p.version \in Nat /\ p.delta \in Int
                      /\ p.version <= balance[p.sku].version
                      /\ p.version = balance[p.sku].version =>
                            p.before = balance[p.sku].physical /\ p.locked = balance[p.sku].locked
  /\ \A p, r \in shown : p = r

CheckoutInv == CheckoutStoreRight /\ CheckoutQuotesRight /\ CheckoutOrdersRight /\ CheckoutStockRight
   /\ CheckoutShownRight

--------------------------------
\* The stock.

\* The stock moves by change, and never becomes older.
CheckoutMoved(change) ==
  /\ balance' \in [Skus -> [physical: Int, locked: Int, version: 1 .. MaxVersion]]
  /\ stockLedger' \in [Skus -> CheckoutEntry]
  /\ \A s \in Skus : /\ balance'[s].physical = balance[s].physical + change[s][1]
                     /\ balance'[s].locked = balance[s].locked + change[s][2]
                     /\ balance'[s].version >= balance[s].version
                     /\ balance'[s].version = balance[s].version => balance'[s] = balance[s]
                     /\ change[s] # <<0, 0>> => balance'[s].version > balance[s].version
  /\ Checkout!LedgerExplainsStock'

LEMMA CheckoutMovesAll ==
  ASSUME Checkout!CheckoutAssumption, CheckoutStockRight, NEW change \in [Skus -> Int \X Int],
         Checkout!MoveAll(change)
  PROVE  CheckoutMoved(change)
<1>1. /\ balance \in [Skus -> CheckoutBalance] /\ stockLedger \in [Skus -> CheckoutEntry]
          /\ Checkout!LedgerExplainsStock
      /\ MaxVersion \in Nat /\ MaxPhysical \in Nat
  BY DEF CheckoutStockRight, Checkout!CheckoutAssumption
<1>2. ASSUME NEW s \in Skus
      PROVE  /\ balance'[s] \in [physical: Int, locked: Int, version: 1 .. MaxVersion]
             /\ stockLedger'[s] \in CheckoutEntry
             /\ balance'[s].physical = balance[s].physical + change[s][1]
             /\ balance'[s].locked = balance[s].locked + change[s][2]
             /\ balance'[s].version >= balance[s].version
             /\ balance'[s].version = balance[s].version => balance'[s] = balance[s]
             /\ change[s] # <<0, 0>> => balance'[s].version > balance[s].version
             /\ stockLedger'[s].physical = balance'[s].physical /\ stockLedger'[s].locked = balance'[s].locked
             /\ stockLedger'[s].physicalAfter = balance'[s].physical
                 /\ stockLedger'[s].lockedAfter = balance'[s].locked
  <2>1. /\ balance[s].physical \in Int /\ balance[s].locked \in Int /\ balance[s].version \in 1 .. MaxVersion
        /\ stockLedger[s].physical = balance[s].physical /\ stockLedger[s].locked = balance[s].locked
        /\ stockLedger[s].physicalAfter = balance[s].physical /\ stockLedger[s].lockedAfter = balance[s].locked
        /\ balance[s] \in [physical: Int, locked: Int, version: 1 .. MaxVersion]
            /\ stockLedger[s] \in CheckoutEntry
    BY <1>1 DEF CheckoutBalance, Checkout!LedgerExplainsStock
  <2>2. change[s][1] \in Int /\ change[s][2] \in Int
    OBVIOUS
  <2>3. CASE change[s] = <<0, 0>>
    <3>1. balance'[s] = balance[s] /\ stockLedger'[s] = stockLedger[s] BY <2>3 DEF Checkout!MoveAll
    <3>2. change[s][1] = 0 /\ change[s][2] = 0 BY <2>3
    <3> QED BY <2>1, <2>3, <3>1, <3>2
  <2>4. CASE change[s] # <<0, 0>>
    <3>1. /\ balance[s].version < MaxVersion
          /\ balance'[s] = [physical |-> balance[s].physical + change[s][1],
                            locked |-> balance[s].locked + change[s][2],
                            version |-> balance[s].version + 1]
          /\ stockLedger'[s] = [physical |-> stockLedger[s].physical + change[s][1],
                           locked |-> stockLedger[s].locked + change[s][2],
                           physicalAfter |-> balance[s].physical + change[s][1],
                           lockedAfter |-> balance[s].locked + change[s][2]]
      BY <2>4 DEF Checkout!MoveAll
    <3> QED BY <1>1, <2>1, <2>2, <2>4, <3>1 DEF CheckoutEntry
  <2> QED BY <2>3, <2>4
<1>3. balance' \in [Skus -> [physical: Int, locked: Int, version: 1 .. MaxVersion]]
  BY <1>2 DEF Checkout!MoveAll
<1>4. stockLedger' \in [Skus -> CheckoutEntry] BY <1>2 DEF Checkout!MoveAll
<1> QED BY <1>2, <1>3, <1>4 DEF CheckoutMoved, Checkout!LedgerExplainsStock

LEMMA CheckoutRequestType ==
  ASSUME Checkout!CheckoutAssumption, NEW r \in Checkout!Requests
  PROVE  /\ \A s \in Skus : r[s] \in Nat
         /\ Checkout!Asked(r) # {} /\ Checkout!Asked(r) \subseteq Skus
         /\ \A s \in Skus : s \in Checkout!Asked(r) <=> r[s] # 0
BY DEF Checkout!CheckoutAssumption, Checkout!Requests, Checkout!Asked

LEMMA CheckoutOpenType ==
  ASSUME Checkout!CheckoutAssumption, CheckoutOrdersRight, NEW s \in Skus
  PROVE  Checkout!IsFiniteSet(CheckoutOpen) /\ [o \in CheckoutOpen |-> o.request[s]] \in [CheckoutOpen -> Nat]
     /\ CheckoutReserved(s) \in Nat
<1>1. Checkout!IsFiniteSet(CheckoutOpen) BY CheckoutFS_Subset DEF CheckoutOrdersRight, CheckoutOpen
<1>2. \A o \in CheckoutOpen : o.request[s] \in Nat
  BY CheckoutRequestType DEF CheckoutOrdersRight, CheckoutOrderRight, CheckoutOpen
<1>3. [o \in CheckoutOpen |-> o.request[s]] \in [CheckoutOpen -> Nat] BY <1>2
<1> QED BY <1>1, <1>3, CheckoutTotalNat DEF CheckoutReserved

\* An order appears and holds its units.
LEMMA CheckoutReservedGrows ==
  ASSUME Checkout!CheckoutAssumption, CheckoutOrdersRight, NEW o, o \notin orders, o.status = "OPEN",
         o.request \in Checkout!Requests,
         orders' = orders \cup {o}, NEW s \in Skus
  PROVE  CheckoutReserved(s)' = CheckoutReserved(s) + o.request[s]
<1> DEFINE f == [d \in CheckoutOpen |-> d.request[s]]
           g == [d \in CheckoutOpen' |-> d.request[s]]
<1>1. CheckoutOpen' = CheckoutOpen \cup {o} /\ o \notin CheckoutOpen BY DEF CheckoutOpen
<1>2. Checkout!IsFiniteSet(CheckoutOpen) /\ f \in [CheckoutOpen -> Nat] /\ o.request[s] \in Nat
  BY CheckoutOpenType, CheckoutRequestType
<1>3. g \in [CheckoutOpen' -> Nat] /\ (\A d \in CheckoutOpen : g[d] = f[d]) /\ g[o] = o.request[s]
  BY <1>1, <1>2
<1>4. Checkout!SumFunction(g) = Checkout!SumFunction(f) + g[o]
  <2> HIDE DEF f, g
  <2> QED BY <1>1, <1>2, <1>3, CheckoutTotalAdd
<1> QED BY <1>3, <1>4 DEF CheckoutReserved

\* An open order gives its units up.
LEMMA CheckoutReservedShrinks ==
  ASSUME Checkout!CheckoutAssumption, CheckoutOrdersRight, NEW o \in CheckoutOpen, NEW n, n.status # "OPEN",
         orders' = (orders \ {o}) \cup {n}, NEW s \in Skus
  PROVE  /\ CheckoutReserved(s)' = CheckoutReserved(s) - o.request[s]
         /\ o.request[s] <= CheckoutReserved(s)
<1> DEFINE f == [d \in CheckoutOpen |-> d.request[s]]
           g == [d \in CheckoutOpen' |-> d.request[s]]
<1>1. CheckoutOpen' = CheckoutOpen \ {o} /\ CheckoutOpen = CheckoutOpen' \cup {o} /\ o \notin CheckoutOpen'
  BY DEF CheckoutOpen
<1>2. Checkout!IsFiniteSet(CheckoutOpen) /\ f \in [CheckoutOpen -> Nat] BY CheckoutOpenType
<1>3. Checkout!IsFiniteSet(CheckoutOpen') /\ g \in [CheckoutOpen' -> Nat]
   /\ (\A d \in CheckoutOpen' : g[d] = f[d]) /\ f[o] = o.request[s]
  BY <1>1, <1>2, CheckoutFS_RemoveElement
<1>4. Checkout!SumFunction(f) = Checkout!SumFunction(g) + f[o] /\ Checkout!SumFunction(g) \in Nat /\ f[o] \in Nat
  <2> HIDE DEF f, g
  <2> QED BY <1>1, <1>2, <1>3, CheckoutTotalAdd, CheckoutTotalNat
<1> QED BY <1>3, <1>4 DEF CheckoutReserved

LEMMA CheckoutReservedSame ==
  ASSUME NEW o, o.status # "OPEN", NEW n, n.status # "OPEN", orders' = (orders \ {o}) \cup {n}
  PROVE  \A s : CheckoutReserved(s)' = CheckoutReserved(s)
<1>1. CheckoutOpen' = CheckoutOpen BY DEF CheckoutOpen
<1> QED BY <1>1 DEF CheckoutReserved

\* A movement that keeps what is locked, what is reserved and what is there in
\* step leaves the stock right.
LEMMA CheckoutStockMoves ==
  ASSUME Checkout!CheckoutAssumption, CheckoutStockRight, NEW change, CheckoutMoved(change),
         \A s \in Skus : /\ balance'[s].locked = CheckoutReserved(s)' /\ CheckoutReserved(s)' \in Nat
                         /\ balance'[s].locked <= balance'[s].physical
                         /\ balance'[s].physical <= MaxPhysical
  PROVE  CheckoutStockRight'
<1>1. ASSUME NEW s \in Skus PROVE balance'[s] \in CheckoutBalance
  <2>1. /\ balance'[s] \in [physical: Int, locked: Int, version: 1 .. MaxVersion]
        /\ balance'[s].locked \in Nat /\ balance'[s].locked <= balance'[s].physical
        /\ balance'[s].physical <= MaxPhysical
    BY DEF CheckoutMoved
  <2>2. balance'[s].physical \in 0 .. MaxPhysical /\ balance'[s].locked \in 0 .. MaxPhysical
    BY <2>1 DEF Checkout!CheckoutAssumption
  <2> QED BY <2>1, <2>2 DEF CheckoutBalance
<1>2. balance' \in [Skus -> CheckoutBalance] BY <1>1 DEF CheckoutMoved
<1> QED BY <1>2 DEF CheckoutStockRight, CheckoutMoved

LEMMA CheckoutShownMoves ==
  ASSUME Checkout!CheckoutAssumption, CheckoutStockRight, CheckoutShownRight, NEW change, CheckoutMoved(change),
         shown' \subseteq shown
  PROVE  CheckoutShownRight'
<1>1. \A s \in Skus : balance[s].version \in Nat /\ balance'[s].version \in Nat
  BY DEF CheckoutStockRight, CheckoutBalance, CheckoutMoved, Checkout!CheckoutAssumption
<1>2. ASSUME NEW p \in shown'
      PROVE  /\ p.sku \in Skus /\ p.version \in Nat /\ p.delta \in Int
             /\ p.version <= balance'[p.sku].version
             /\ p.version = balance'[p.sku].version =>
                   p.before = balance'[p.sku].physical /\ p.locked = balance'[p.sku].locked
  <2>1. /\ p \in shown /\ p.sku \in Skus /\ p.version \in Nat /\ p.delta \in Int
        /\ p.version <= balance[p.sku].version
        /\ p.version = balance[p.sku].version =>
             p.before = balance[p.sku].physical /\ p.locked = balance[p.sku].locked
    BY DEF CheckoutShownRight
  <2>2. /\ balance'[p.sku].version >= balance[p.sku].version
        /\ balance'[p.sku].version = balance[p.sku].version => balance'[p.sku] = balance[p.sku]
    BY <2>1 DEF CheckoutMoved
  <2>3. balance[p.sku].version \in Nat /\ balance'[p.sku].version \in Nat BY <1>1, <2>1
  <2>4. p.version <= balance'[p.sku].version BY <2>1, <2>2, <2>3
  <2>5. p.version = balance'[p.sku].version => balance'[p.sku] = balance[p.sku]
     /\ p.version = balance[p.sku].version
    BY <2>1, <2>2, <2>3
  <2> QED BY <2>1, <2>4, <2>5
<1> QED BY <1>2 DEF CheckoutShownRight

LEMMA CheckoutQuotesMove ==
  ASSUME Checkout!CheckoutAssumption, CheckoutStockRight, CheckoutQuotesRight, NEW change, CheckoutMoved(change),
         quotes' = quotes, lapsed' = lapsed
  PROVE  CheckoutQuotesRight'
<1>1. \A s \in Skus : balance[s].version \in Nat /\ balance'[s].version \in Nat
                      /\ balance'[s].version >= balance[s].version
  BY DEF CheckoutStockRight, CheckoutBalance, CheckoutMoved, Checkout!CheckoutAssumption
<1>2. ASSUME NEW q \in quotes PROVE CheckoutQuoteRight(q)'
  <2>1. CheckoutQuoteRight(q) BY DEF CheckoutQuotesRight
  <2>2. ASSUME NEW s \in Checkout!Asked(q.request)
        PROVE  q.facts.items[s][2].version \in Nat /\ q.facts.items[s][2].version <= balance'[s].version
    <3>1. s \in Skus /\ q.facts.items[s][2].version \in Nat /\ q.facts.items[s][2].version <= balance[s].version
      BY <2>1, CheckoutRequestType DEF CheckoutQuoteRight
    <3> DEFINE n == q.facts.items[s][2].version
    <3> HIDE DEF n
    <3>2. n \in Nat /\ n <= balance[s].version BY <3>1 DEF n
    <3>3. n <= balance'[s].version BY <1>1, <3>1, <3>2
    <3> QED BY <3>2, <3>3 DEF n
  <2> QED BY <2>1, <2>2 DEF CheckoutQuoteRight
<1> QED BY <1>2 DEF CheckoutQuotesRight

LEMMA CheckoutOrderMoves ==
  ASSUME Checkout!CheckoutAssumption, CheckoutStockRight, CheckoutQuotesRight, NEW change, CheckoutMoved(change),
         quotes' = quotes,
         NEW o \in orders, CheckoutOrderRight(o)
  PROVE  CheckoutOrderRight(o)'
<1>1. \A s \in Skus : balance[s].version \in Nat /\ balance'[s].version \in Nat
                      /\ balance'[s].version >= balance[s].version
  BY DEF CheckoutStockRight, CheckoutBalance, CheckoutMoved, Checkout!CheckoutAssumption
<1>2. PICK q \in quotes : /\ q.id = o.quote /\ q.request = o.request /\ q.terms = o.terms
                          /\ \E s \in Checkout!Asked(q.request) : q.facts.items[s][2].version < balance[s].version
  BY DEF CheckoutOrderRight
<1>3. PICK s \in Checkout!Asked(q.request) : q.facts.items[s][2].version < balance[s].version  BY <1>2
<1>4. s \in Skus /\ q.facts.items[s][2].version \in Nat
  BY CheckoutRequestType DEF CheckoutQuotesRight, CheckoutQuoteRight
<1> DEFINE n == q.facts.items[s][2].version
<1>5. n < balance'[s].version
  <2> HIDE DEF n
  <2>1. n \in Nat /\ n < balance[s].version BY <1>3, <1>4 DEF n
  <2> QED BY <1>1, <1>4, <2>1
<1> QED BY <1>2, <1>5 DEF CheckoutOrderRight

--------------------------------
\* The carts and what administrators edit.

LEMMA CheckoutStill ==
  ASSUME CheckoutQuotesRight, CheckoutOrdersRight, CheckoutStockRight, CheckoutShownRight, UNCHANGED <<balance,
         stockLedger, quotes, lapsed, orders>>,
         shown' = shown \/ shown' = {}
  PROVE  CheckoutQuotesRight' /\ CheckoutOrdersRight' /\ CheckoutStockRight' /\ CheckoutShownRight'
<1>1. CheckoutQuotesRight' BY DEF CheckoutQuotesRight, CheckoutQuoteRight
<1>2. CheckoutOrdersRight' BY DEF CheckoutOrdersRight, CheckoutOrderRight, Checkout!QuoteBuysOnce
<1>3. CheckoutStockRight'
  BY DEF CheckoutStockRight, Checkout!LedgerExplainsStock, CheckoutReserved, CheckoutOpen
<1>4. CheckoutShownRight' BY DEF CheckoutShownRight
<1> QED BY <1>1, <1>2, <1>3, <1>4

\* One line of a cart changes.
LEMMA CheckoutCartStep ==
  ASSUME Checkout!CheckoutAssumption, CheckoutStoreRight, NEW c \in Customers, NEW s \in Skus,
         NEW line \in Checkout!Line \union {Checkout!NoLine},
         cart' = [cart EXCEPT ![c][s] = line],
         line # Checkout!NoLine => Checkout!Cardinality(Checkout!LinesOf(c) \union {s}) <= CartLimit,
         UNCHANGED <<address, revision, onSale>>
  PROVE  CheckoutStoreRight'
<1>1. /\ cart \in [Customers -> [Skus -> Checkout!Line \union {Checkout!NoLine}]]
      /\ \A d \in Customers : Checkout!IsFiniteSet(Checkout!LinesOf(d))
          /\ Checkout!Cardinality(Checkout!LinesOf(d)) <= CartLimit
  BY DEF CheckoutStoreRight
<1>2. /\ cart' \in [Customers -> [Skus -> Checkout!Line \union {Checkout!NoLine}]]
      /\ \A d \in Customers \ {c} : cart'[d] = cart[d]
      /\ \A o \in Skus : cart'[c][o] = IF o = s THEN line ELSE cart[c][o]
  BY <1>1
<1>3. Checkout!LinesOf(c)' \subseteq Checkout!LinesOf(c) \union {s}
   /\ (line = Checkout!NoLine => Checkout!LinesOf(c)' \subseteq Checkout!LinesOf(c))
  BY <1>2 DEF Checkout!LinesOf
<1>4. Checkout!IsFiniteSet(Checkout!LinesOf(c)') /\ Checkout!Cardinality(Checkout!LinesOf(c)') <= CartLimit
  <2>1. Checkout!IsFiniteSet(Checkout!LinesOf(c) \union {s}) /\ Checkout!IsFiniteSet(Checkout!LinesOf(c))
     /\ CartLimit \in Nat
    BY <1>1, CheckoutFS_AddElement DEF Checkout!CheckoutAssumption
  <2>2. CASE line = Checkout!NoLine
    <3>1. Checkout!IsFiniteSet(Checkout!LinesOf(c)')
       /\ Checkout!Cardinality(Checkout!LinesOf(c)') <= Checkout!Cardinality(Checkout!LinesOf(c))
      BY <1>3, <2>1, <2>2, CheckoutFS_Subset
    <3> QED BY <1>1, <2>1, <3>1, CheckoutFS_CardinalityType
  <2>3. CASE line # Checkout!NoLine
    <3>1. Checkout!IsFiniteSet(Checkout!LinesOf(c)')
       /\ Checkout!Cardinality(Checkout!LinesOf(c)') <= Checkout!Cardinality(Checkout!LinesOf(c) \union {s})
      BY <1>3, <2>1, CheckoutFS_Subset
    <3> QED BY <2>1, <2>3, <3>1, CheckoutFS_CardinalityType
  <2> QED BY <2>2, <2>3
<1>5. \A d \in Customers \ {c} : Checkout!LinesOf(d)' = Checkout!LinesOf(d)  BY <1>2 DEF Checkout!LinesOf
<1> QED BY <1>1, <1>2, <1>4, <1>5 DEF CheckoutStoreRight

LEMMA CheckoutStoreStep ==
  ASSUME Checkout!CheckoutAssumption, CheckoutInv,
         \/ \E c \in Customers, s \in Skus, line \in Checkout!Line : Checkout!PutItem(c, s, line)
             \/ Checkout!MergeCart(c, s, line)
         \/ \E c \in Customers, s \in Skus : Checkout!DeleteItem(c, s)
         \/ \E c \in Customers : Checkout!ReviseAddress(c)
         \/ \E s \in Skus, sale \in BOOLEAN : Checkout!ReviseSku(s, sale)
  PROVE  CheckoutInv'
<1>1. CheckoutStoreRight /\ CheckoutQuotesRight /\ CheckoutOrdersRight /\ CheckoutStockRight /\ CheckoutShownRight
  BY DEF CheckoutInv
<1>2. UNCHANGED <<balance, stockLedger, quotes, lapsed, orders, shown>>
  BY DEF Checkout!PutItem, Checkout!MergeCart, Checkout!DeleteItem, Checkout!ReviseAddress, Checkout!ReviseSku
<1>3. ASSUME NEW c \in Customers, NEW s \in Skus, NEW line \in Checkout!Line, Checkout!PutItem(c, s, line)
      PROVE  CheckoutStoreRight'
  <2>1. Checkout!IsFiniteSet(Checkout!LinesOf(c)) /\ Checkout!Cardinality(Checkout!LinesOf(c)) \in Nat
     /\ Checkout!Cardinality(Checkout!LinesOf(c)) <= CartLimit /\ CartLimit \in Nat
    BY <1>1, CheckoutFS_CardinalityType DEF CheckoutStoreRight, Checkout!CheckoutAssumption
  <2>2. Checkout!Cardinality(Checkout!LinesOf(c) \union {s}) <= CartLimit
    <3>1. CASE cart[c][s] = Checkout!NoLine
      <4>0. s \notin Checkout!LinesOf(c) /\ Checkout!IsFiniteSet(Checkout!LinesOf(c))
        BY <2>1, <3>1 DEF Checkout!LinesOf
      <4>1. Checkout!Cardinality(Checkout!LinesOf(c) \union {s}) = Checkout!Cardinality(Checkout!LinesOf(c)) + 1
        BY <4>0, CheckoutFS_AddElement
      <4>2. Checkout!Cardinality(Checkout!LinesOf(c)) < CartLimit  BY <1>3, <3>1 DEF Checkout!PutItem
      <4>3. Checkout!IsFiniteSet(Checkout!LinesOf(c) \union {s}) BY <2>1, CheckoutFS_AddElement
      <4>4. Checkout!Cardinality(Checkout!LinesOf(c) \union {s}) \in Nat  BY <4>3, CheckoutFS_CardinalityType
      <4> QED BY <2>1, <4>1, <4>2, <4>4
    <3>2. CASE cart[c][s] # Checkout!NoLine
      <4>1. Checkout!LinesOf(c) \union {s} = Checkout!LinesOf(c) BY <3>2 DEF Checkout!LinesOf
      <4> QED BY <2>1, <4>1
    <3> QED BY <3>1, <3>2
  <2> QED BY <1>1, <1>3, <2>2, CheckoutCartStep DEF Checkout!PutItem
<1>4. ASSUME NEW c \in Customers, NEW s \in Skus, NEW line \in Checkout!Line, Checkout!MergeCart(c, s, line)
      PROVE  CheckoutStoreRight'
  <2>1. cart[c][s] \in Checkout!Line \union {Checkout!NoLine} BY <1>1 DEF CheckoutStoreRight
  <2>2. Checkout!Merged(cart[c][s], line) \in Checkout!Line
    <3>1. CASE cart[c][s] = Checkout!NoLine BY <3>1 DEF Checkout!Merged
    <3>2. CASE cart[c][s] # Checkout!NoLine
      <4>1. /\ cart[c][s].quantity \in 1 .. MaxQuantity /\ cart[c][s].selected \in BOOLEAN
            /\ line.quantity \in 1 .. MaxQuantity /\ line.selected \in BOOLEAN
        BY <2>1, <3>2 DEF Checkout!Line, Checkout!Quantity
      <4>2. Checkout!Smaller(MaxQuantity, cart[c][s].quantity + line.quantity) \in 1 .. MaxQuantity
        BY <4>1 DEF Checkout!Smaller, Checkout!CheckoutAssumption
      <4> QED BY <3>2, <4>1, <4>2 DEF Checkout!Merged, Checkout!Line, Checkout!Quantity
    <3> QED BY <3>1, <3>2
  <2>3. cart' = [cart EXCEPT ![c][s] = Checkout!Merged(cart[c][s], line)]
    BY <1>1, <1>4 DEF Checkout!MergeCart, CheckoutStoreRight
  <2> QED BY <1>1, <1>4, <2>2, <2>3, CheckoutCartStep DEF Checkout!MergeCart
<1>5. ASSUME NEW c \in Customers, NEW s \in Skus, Checkout!DeleteItem(c, s)
      PROVE  CheckoutStoreRight'
  BY <1>1, <1>5, CheckoutCartStep DEF Checkout!DeleteItem
<1>6. ASSUME NEW c \in Customers, Checkout!ReviseAddress(c)
      PROVE  CheckoutStoreRight'
  <2>1. address' \in [Customers -> 1 .. MaxRevisions + 1]
    BY <1>1, <1>6 DEF Checkout!ReviseAddress, CheckoutStoreRight, Checkout!CheckoutAssumption
  <2> QED BY <1>1, <1>6, <2>1 DEF Checkout!ReviseAddress, CheckoutStoreRight, Checkout!LinesOf
<1>7. ASSUME NEW s \in Skus, NEW sale \in BOOLEAN, Checkout!ReviseSku(s, sale)
      PROVE  CheckoutStoreRight'
  <2>1. revision' \in [Skus -> 1 .. MaxRevisions + 1] /\ onSale' \in [Skus -> BOOLEAN]
    BY <1>1, <1>7 DEF Checkout!ReviseSku, CheckoutStoreRight, Checkout!CheckoutAssumption
  <2> QED BY <1>1, <1>7, <2>1 DEF Checkout!ReviseSku, CheckoutStoreRight, Checkout!LinesOf
<1>8. CheckoutStoreRight' BY <1>3, <1>4, <1>5, <1>6, <1>7
<1> QED BY <1>1, <1>2, <1>8, CheckoutStill DEF CheckoutInv

--------------------------------
\* Adjustments.

LEMMA CheckoutStoreSame ==
  ASSUME CheckoutStoreRight, UNCHANGED Checkout!store
  PROVE  CheckoutStoreRight'
BY DEF CheckoutStoreRight, Checkout!store, Checkout!LinesOf

LEMMA CheckoutAdjustmentStep ==
  ASSUME Checkout!CheckoutAssumption, CheckoutInv,
         \/ \E s \in Skus, delta \in (-MaxPhysical .. MaxPhysical) \ {0} : Checkout!PreviewAdjustment(s, delta)
         \/ Checkout!AbandonAdjustment
         \/ UNCHANGED Checkout!vars
  PROVE  CheckoutInv'
<1>1. CheckoutStoreRight /\ CheckoutQuotesRight /\ CheckoutOrdersRight /\ CheckoutStockRight /\ CheckoutShownRight
  BY DEF CheckoutInv
<1>2. UNCHANGED <<Checkout!store, balance, stockLedger, quotes, lapsed, orders>>
  BY DEF Checkout!PreviewAdjustment, Checkout!AbandonAdjustment, Checkout!vars, Checkout!store
<1>3. CheckoutStoreRight' BY <1>1, <1>2, CheckoutStoreSame
<1>4. ASSUME NEW s \in Skus, NEW delta \in (-MaxPhysical .. MaxPhysical) \ {0},
             Checkout!PreviewAdjustment(s, delta)
      PROVE  CheckoutInv'
  <2> DEFINE p == [sku |-> s, delta |-> delta, version |-> balance[s].version,
                   before |-> balance[s].physical, locked |-> balance[s].locked]
  <2>1. shown = {} /\ shown' = {p} BY <1>4 DEF Checkout!PreviewAdjustment
  <2>2. balance[s].version \in Nat /\ delta \in Int
    BY <1>1 DEF CheckoutStockRight, CheckoutBalance, Checkout!CheckoutAssumption
  <2>3. CheckoutShownRight' BY <1>2, <2>1, <2>2 DEF CheckoutShownRight
  <2>4. CheckoutQuotesRight' /\ CheckoutOrdersRight' /\ CheckoutStockRight'
    <3>1. CheckoutQuotesRight' BY <1>1, <1>2 DEF CheckoutQuotesRight, CheckoutQuoteRight
    <3>2. CheckoutOrdersRight'
      BY <1>1, <1>2 DEF CheckoutOrdersRight, CheckoutOrderRight, Checkout!QuoteBuysOnce
    <3>3. CheckoutStockRight'
      BY <1>1, <1>2 DEF CheckoutStockRight, Checkout!LedgerExplainsStock, CheckoutReserved, CheckoutOpen
    <3> QED BY <3>1, <3>2, <3>3
  <2> QED BY <1>3, <2>3, <2>4 DEF CheckoutInv
<1>5. Checkout!AbandonAdjustment \/ UNCHANGED Checkout!vars => shown' = shown \/ shown' = {}
  BY DEF Checkout!AbandonAdjustment, Checkout!vars
<1> QED BY <1>1, <1>2, <1>3, <1>4, <1>5, CheckoutStill DEF CheckoutInv

LEMMA CheckoutConfirmStep ==
  ASSUME Checkout!CheckoutAssumption, CheckoutInv, NEW p \in shown, Checkout!ConfirmAdjustment(p)
  PROVE  CheckoutInv' /\ Checkout!AdjustsAsShown
<1>1. CheckoutStoreRight /\ CheckoutQuotesRight /\ CheckoutOrdersRight /\ CheckoutStockRight /\ CheckoutShownRight
  BY DEF CheckoutInv
<1>2. /\ balance[p.sku].version = p.version
      /\ balance[p.sku].physical + p.delta \in balance[p.sku].locked .. MaxPhysical
      /\ Checkout!Move(p.sku, p.delta, 0) /\ shown' = {} /\ UNCHANGED <<Checkout!store, quotes, lapsed, orders>>
  BY DEF Checkout!ConfirmAdjustment
<1>3. p.sku \in Skus /\ p.delta \in Int BY <1>1 DEF CheckoutShownRight
<1> DEFINE change == [s \in Skus |-> IF s = p.sku THEN <<p.delta, 0>> ELSE <<0, 0>>]
<1>4. /\ balance \in [Skus -> CheckoutBalance] /\ stockLedger \in [Skus -> CheckoutEntry]
          /\ Checkout!LedgerExplainsStock
      /\ MaxVersion \in Nat /\ MaxPhysical \in Nat
  BY <1>1 DEF CheckoutStockRight, Checkout!CheckoutAssumption
<1>5. \A s \in Skus : balance[s].physical \in Int /\ balance[s].locked \in Int
   /\ balance[s].version \in 1 .. MaxVersion
                      /\ balance[s] \in [physical: Int, locked: Int, version: 1 .. MaxVersion]
  BY <1>4 DEF CheckoutBalance
<1>6. \A s \in Skus \ {p.sku} : balance'[s] = balance[s] /\ stockLedger'[s] = stockLedger[s]
  BY <1>2 DEF Checkout!Move, CheckoutStockRight
<1>7. /\ balance[p.sku].version < MaxVersion
      /\ balance'[p.sku] = [physical |-> balance[p.sku].physical + p.delta, locked |-> balance[p.sku].locked,
                            version |-> balance[p.sku].version + 1]
      /\ stockLedger'[p.sku] = [physical |-> balance[p.sku].physical + p.delta, locked |-> balance[p.sku].locked,
                           physicalAfter |-> balance[p.sku].physical + p.delta, lockedAfter |-> balance[p.sku].locked]
  <2>1. /\ stockLedger[p.sku].physical = balance[p.sku].physical
            /\ stockLedger[p.sku].locked = balance[p.sku].locked
        /\ balance[p.sku].locked + 0 = balance[p.sku].locked
    BY <1>3, <1>4, <1>5 DEF Checkout!LedgerExplainsStock
  <2>2. /\ balance[p.sku].version < MaxVersion
        /\ balance'[p.sku] = [physical |-> balance[p.sku].physical + p.delta, locked |-> balance[p.sku].locked + 0,
                              version |-> balance[p.sku].version + 1]
    BY <1>2, <1>3, <1>4 DEF Checkout!Move
  <2>3. stockLedger'[p.sku] = [physical |-> stockLedger[p.sku].physical + p.delta, locked |-> stockLedger[p.sku].locked + 0,
                          physicalAfter |-> balance[p.sku].physical + p.delta,
                          lockedAfter |-> balance[p.sku].locked + 0]
    BY <1>2, <1>3, <1>4 DEF Checkout!Move
  <2> QED BY <2>1, <2>2, <2>3
<1>8. balance' \in [Skus -> [physical: Int, locked: Int, version: 1 .. MaxVersion]]
  <2>1. \A s \in Skus : balance'[s] \in [physical: Int, locked: Int, version: 1 .. MaxVersion]
    BY <1>3, <1>4, <1>5, <1>6, <1>7
  <2>2. DOMAIN balance' = Skus /\ balance' = [s \in Skus |-> balance'[s]]  BY <1>2, <1>4 DEF Checkout!Move
  <2> QED BY <2>1, <2>2
<1>9. stockLedger' \in [Skus -> CheckoutEntry]
  <2>1. \A s \in Skus : stockLedger'[s] \in CheckoutEntry  BY <1>3, <1>4, <1>5, <1>6, <1>7 DEF CheckoutEntry
  <2>2. DOMAIN stockLedger' = Skus /\ stockLedger' = [s \in Skus |-> stockLedger'[s]]
    BY <1>2, <1>4 DEF Checkout!Move
  <2> QED BY <2>1, <2>2
<1>10. Checkout!LedgerExplainsStock' BY <1>4, <1>6, <1>7 DEF Checkout!LedgerExplainsStock
<1>11. CheckoutMoved(change) BY <1>3, <1>5, <1>6, <1>7, <1>8, <1>9, <1>10 DEF CheckoutMoved
<1>12. \A s : CheckoutReserved(s)' = CheckoutReserved(s) BY <1>2 DEF CheckoutReserved, CheckoutOpen
<1>13. CheckoutStockRight'
  <2>1. \A s \in Skus : /\ balance'[s].locked = CheckoutReserved(s)' /\ CheckoutReserved(s)' \in Nat
                        /\ balance'[s].locked <= balance'[s].physical
                        /\ balance'[s].physical <= MaxPhysical
    <3>1. \A s \in Skus : /\ balance[s].locked = CheckoutReserved(s) /\ CheckoutReserved(s) \in Nat
                          /\ balance[s].locked <= balance[s].physical /\ balance[s].physical <= MaxPhysical
      BY <1>1, CheckoutOpenType DEF CheckoutStockRight, CheckoutBalance, Checkout!CheckoutAssumption
    <3>2. balance[p.sku].physical + p.delta >= balance[p.sku].locked
          /\ balance[p.sku].physical + p.delta <= MaxPhysical
      BY <1>2, <1>3, <1>4, <1>5
    <3> QED BY <1>6, <1>7, <1>12, <3>1, <3>2
  <2> QED BY <1>1, <1>11, <2>1, CheckoutStockMoves
<1>14. CheckoutShownRight' /\ CheckoutQuotesRight'
  BY <1>1, <1>2, <1>11, CheckoutShownMoves, CheckoutQuotesMove
<1>15. CheckoutOrdersRight'
  BY <1>1, <1>2, <1>11, CheckoutOrderMoves DEF CheckoutOrdersRight, Checkout!QuoteBuysOnce
<1>16. Checkout!AdjustsAsShown
  <2>1. \A r \in shown : r = p BY <1>1 DEF CheckoutShownRight
  <2>2. p.before = balance[p.sku].physical /\ p.locked = balance[p.sku].locked
    BY <1>1, <1>2 DEF CheckoutShownRight
  <2> QED BY <1>7, <2>1, <2>2 DEF Checkout!AdjustsAsShown
<1> QED BY <1>1, <1>2, <1>13, <1>14, <1>15, <1>16, CheckoutStoreSame DEF CheckoutInv

--------------------------------
\* Quotes.

LEMMA CheckoutQuoteStep ==
  ASSUME Checkout!CheckoutAssumption, CheckoutInv, NEW c \in Customers, NEW source \in Channels,
         NEW request \in Checkout!Requests,
         Checkout!Quote(c, source, request)
  PROVE  CheckoutInv'
<1>1. CheckoutStoreRight /\ CheckoutQuotesRight /\ CheckoutOrdersRight /\ CheckoutStockRight /\ CheckoutShownRight
  BY DEF CheckoutInv
<1>q. PICK q : q = [id |-> Checkout!Cardinality(quotes) + 1, customer |-> c, source |-> source,
                    request |-> request, facts |-> Checkout!Facts(c, source, request),
                    terms |-> <<address[c], [s \in Checkout!Asked(request) |-> revision[s]]>>]
  OBVIOUS
<1>2. /\ quotes' = quotes \cup {q}
      /\ UNCHANGED <<Checkout!store, balance, stockLedger, lapsed, orders, shown>>
  BY <1>q DEF Checkout!Quote
<1>3. /\ q.id = Checkout!Cardinality(quotes) + 1 /\ q.customer = c /\ q.source = source /\ q.request = request
      /\ q.facts = Checkout!Facts(c, source, request)
      /\ q.terms = <<address[c], [s \in Checkout!Asked(request) |-> revision[s]]>>
  BY <1>q
<1>4. Checkout!IsFiniteSet(quotes) /\ Checkout!Cardinality(quotes) \in Nat
   /\ \A r \in quotes : r.id \in 1 .. Checkout!Cardinality(quotes)
  BY <1>1, CheckoutFS_CardinalityType DEF CheckoutQuotesRight, CheckoutQuoteRight
<1>5. q \notin quotes /\ \A r \in quotes : r.id # q.id BY <1>3, <1>4
<1>6. Checkout!IsFiniteSet(quotes') /\ Checkout!Cardinality(quotes') = Checkout!Cardinality(quotes) + 1
  BY <1>2, <1>4, <1>5, CheckoutFS_AddElement
<1>7. ASSUME NEW r \in quotes PROVE CheckoutQuoteRight(r)'
  <2>1. CheckoutQuoteRight(r) BY <1>1 DEF CheckoutQuotesRight
  <2>2. r.id \in 1 .. Checkout!Cardinality(quotes') BY <1>4, <1>6
  <2> QED BY <1>2, <2>1, <2>2 DEF CheckoutQuoteRight
<1>8. CheckoutQuoteRight(q)'
  <2>1. \A s \in Checkout!Asked(request) : q.facts.items[s] = <<revision[s], balance[s]>>
     /\ balance[s].version \in Nat
    BY <1>1, <1>3, CheckoutRequestType DEF Checkout!Facts, CheckoutStockRight, CheckoutBalance,
       Checkout!CheckoutAssumption
  <2>2. q.facts.address = address[c] BY <1>3 DEF Checkout!Facts
  <2>3. [s \in Checkout!Asked(request) |-> q.facts.items[s][1]] = [s \in Checkout!Asked(request) |-> revision[s]]
    BY <2>1
  <2>4. \A s \in Checkout!Asked(request) : q.facts.items[s][2] = balance[s] BY <2>1
  <2>5. \A s \in Checkout!Asked(request) : q.facts.items[s][2].version \in Nat
                                   /\ q.facts.items[s][2].version <= balance[s].version
    BY <2>1, <2>4
  <2>6. q.id \in 1 .. Checkout!Cardinality(quotes') BY <1>3, <1>4, <1>6
  <2>7. q.terms = <<q.facts.address, [s \in Checkout!Asked(q.request) |-> q.facts.items[s][1]]>>
    BY <1>3, <2>2, <2>3
  <2> QED BY <1>2, <1>3, <2>5, <2>6, <2>7 DEF CheckoutQuoteRight
<1>9. CheckoutQuotesRight' BY <1>1, <1>2, <1>5, <1>6, <1>7, <1>8 DEF CheckoutQuotesRight
<1>10. CheckoutStoreRight' /\ CheckoutStockRight' /\ CheckoutShownRight'
  <2>1. CheckoutStockRight'
    BY <1>1, <1>2 DEF CheckoutStockRight, Checkout!LedgerExplainsStock, CheckoutReserved, CheckoutOpen
  <2>2. CheckoutShownRight' BY <1>1, <1>2 DEF CheckoutShownRight
  <2> QED BY <1>1, <1>2, <2>1, <2>2, CheckoutStoreSame
<1>11. CheckoutOrdersRight'  BY <1>1, <1>2 DEF CheckoutOrdersRight, CheckoutOrderRight, Checkout!QuoteBuysOnce
<1> QED BY <1>9, <1>10, <1>11 DEF CheckoutInv

LEMMA CheckoutExpireStep ==
  ASSUME CheckoutInv, NEW q \in quotes, Checkout!ExpireQuote(q)
  PROVE  CheckoutInv'
<1>1. CheckoutStoreRight /\ CheckoutQuotesRight /\ CheckoutOrdersRight /\ CheckoutStockRight /\ CheckoutShownRight
  BY DEF CheckoutInv
<1>2. lapsed' = lapsed \cup {q.id} /\ UNCHANGED <<Checkout!store, balance, stockLedger, quotes, orders, shown>>
  BY DEF Checkout!ExpireQuote
<1>3. CheckoutQuotesRight' BY <1>1, <1>2 DEF CheckoutQuotesRight, CheckoutQuoteRight
<1>4. CheckoutStockRight'
  BY <1>1, <1>2 DEF CheckoutStockRight, Checkout!LedgerExplainsStock, CheckoutReserved, CheckoutOpen
<1>5. CheckoutOrdersRight' /\ CheckoutShownRight'
  BY <1>1, <1>2 DEF CheckoutOrdersRight, CheckoutOrderRight, Checkout!QuoteBuysOnce, CheckoutShownRight
<1> QED BY <1>1, <1>2, <1>3, <1>4, <1>5, CheckoutStoreSame DEF CheckoutInv

--------------------------------
\* Orders.

\* A quote that has bought no longer tells the stock as it is.
LEMMA CheckoutSpentQuote ==
  ASSUME Checkout!CheckoutAssumption, CheckoutInv, NEW q \in quotes,
         q.facts = Checkout!Facts(q.customer, q.source, q.request)
  PROVE  \A o \in orders : o.quote # q.id
<1>1. CheckoutQuotesRight /\ CheckoutOrdersRight /\ CheckoutStockRight BY DEF CheckoutInv
<1> SUFFICES ASSUME NEW o \in orders, o.quote = q.id PROVE FALSE
  OBVIOUS
<1>2. PICK r \in quotes : /\ r.id = o.quote /\ r.request = o.request
                          /\ \E s \in Checkout!Asked(r.request) : r.facts.items[s][2].version < balance[s].version
  BY <1>1 DEF CheckoutOrdersRight, CheckoutOrderRight
<1>3. r = q BY <1>1, <1>2 DEF CheckoutQuotesRight
<1>4. PICK s \in Checkout!Asked(q.request) : q.facts.items[s][2].version < balance[s].version  BY <1>2, <1>3
<1>5. q.facts.items[s] = <<revision[s], balance[s]>> BY DEF Checkout!Facts
<1>6. s \in Skus /\ balance[s].version \in Nat
  <2>1. s \in Skus BY <1>4 DEF Checkout!Asked
  <2> QED BY <1>1, <2>1 DEF CheckoutStockRight, CheckoutBalance, Checkout!CheckoutAssumption
<1> QED BY <1>4, <1>5, <1>6

LEMMA CheckoutPlaceStep ==
  ASSUME Checkout!CheckoutAssumption, CheckoutInv, NEW q \in quotes, Checkout!PlaceOrder(q)
  PROVE  CheckoutInv' /\ Checkout!KeepsTheRest
<1>1. CheckoutStoreRight /\ CheckoutQuotesRight /\ CheckoutOrdersRight /\ CheckoutStockRight /\ CheckoutShownRight
  BY DEF CheckoutInv
<1>o. PICK o : o = [number |-> Checkout!Cardinality(orders) + 1, quote |-> q.id, request |-> q.request,
                    status |-> "OPEN",
                    terms |-> <<address[q.customer], [s \in Checkout!Asked(q.request) |-> revision[s]]>>]
  OBVIOUS
<1> DEFINE change == [s \in Skus |-> <<0, q.request[s]>>]
<1>2. /\ Checkout!CanSubmit(q.customer, q.source, q.request)
      /\ q.facts = Checkout!Facts(q.customer, q.source, q.request)
      /\ Checkout!MoveAll(change) /\ orders' = orders \cup {o}
      /\ cart' = IF q.source = "CART" THEN [cart EXCEPT ![q.customer] = Checkout!Without(@, q.request)] ELSE cart
      /\ UNCHANGED <<address, revision, onSale, quotes, lapsed, shown>>
  BY <1>o DEF Checkout!PlaceOrder
<1>3. /\ o.quote = q.id /\ o.request = q.request /\ o.status = "OPEN"
      /\ o.terms = <<address[q.customer], [s \in Checkout!Asked(q.request) |-> revision[s]]>>
      /\ o = [number |-> o.number, quote |-> o.quote, request |-> o.request, status |-> o.status, terms |-> o.terms]
  BY <1>o
<1>4. CheckoutQuoteRight(q) /\ q.request \in Checkout!Requests /\ q.customer \in Customers
  BY <1>1 DEF CheckoutQuotesRight, CheckoutQuoteRight
<1>5. \A s \in Skus : q.request[s] \in Nat /\ change[s] = <<0, q.request[s]>>  BY <1>4, CheckoutRequestType
<1>6. change \in [Skus -> Int \X Int] BY <1>5
<1> HIDE DEF change
<1>7. CheckoutMoved(change) BY <1>1, <1>2, <1>6, CheckoutMovesAll
<1>8. (\A d \in orders : d.quote # q.id) /\ o \notin orders BY <1>2, <1>3, CheckoutSpentQuote
<1>9. \A s \in Skus : CheckoutReserved(s)' = CheckoutReserved(s) + q.request[s] /\ CheckoutReserved(s) \in Nat
  BY <1>1, <1>2, <1>3, <1>4, <1>8, CheckoutReservedGrows, CheckoutOpenType
<1>10. CheckoutStockRight'
  <2>1. ASSUME NEW s \in Skus
        PROVE  /\ balance'[s].locked = CheckoutReserved(s)' /\ CheckoutReserved(s)' \in Nat
               /\ balance'[s].locked <= balance'[s].physical
               /\ balance'[s].physical <= MaxPhysical
    <3>1. /\ balance[s].locked = CheckoutReserved(s) /\ balance[s].locked <= balance[s].physical
          /\ balance[s].physical <= MaxPhysical /\ balance[s].physical \in Nat /\ MaxPhysical \in Nat
      BY <1>1 DEF CheckoutStockRight, CheckoutBalance, Checkout!CheckoutAssumption
    <3>2. balance'[s].physical = balance[s].physical + 0 /\ balance'[s].locked = balance[s].locked + q.request[s]
      BY <1>5, <1>7 DEF CheckoutMoved
    <3>3. q.request[s] # 0 => balance[s].physical - balance[s].locked >= q.request[s]
      BY <1>2, <1>4, CheckoutRequestType DEF Checkout!CanSubmit, Checkout!Available
    <3> QED BY <1>5, <1>9, <3>1, <3>2, <3>3
  <2> QED BY <1>1, <1>7, <2>1, CheckoutStockMoves
<1>11. CheckoutShownRight' /\ CheckoutQuotesRight'
  BY <1>1, <1>2, <1>7, CheckoutShownMoves, CheckoutQuotesMove
<1>12. CheckoutOrderRight(o)'
  <2>1. PICK s \in Checkout!Asked(q.request) : s \in Skus /\ q.request[s] # 0  BY <1>4, CheckoutRequestType
  <2>2. q.facts.items[s] = <<revision[s], balance[s]>> BY <1>2, <2>1 DEF Checkout!Facts
  <2>3. balance'[s].version > balance[s].version
    <3>1. change[s] # <<0, 0>> BY <1>5, <2>1
    <3> QED BY <1>7, <2>1, <3>1 DEF CheckoutMoved
  <2>4. balance[s].version \in Nat /\ balance'[s].version \in Nat
    BY <1>1, <1>7, <2>1 DEF CheckoutStockRight, CheckoutBalance, CheckoutMoved, Checkout!CheckoutAssumption
  <2>5. q.facts.items[s][2].version < balance'[s].version BY <2>2, <2>3, <2>4
  <2>6. q.terms = o.terms
    <3>1. \A d \in Checkout!Asked(q.request) : q.facts.items[d] = <<revision[d], balance[d]>>
      BY <1>2 DEF Checkout!Facts
    <3>2. [d \in Checkout!Asked(q.request) |-> q.facts.items[d][1]] = [d \in Checkout!Asked(q.request) |-> revision[d]]
      BY <3>1
    <3>3. q.facts.address = address[q.customer] BY <1>2 DEF Checkout!Facts
    <3> QED BY <1>3, <1>4, <3>2, <3>3 DEF CheckoutQuoteRight
  <2> QED BY <1>2, <1>3, <1>4, <2>1, <2>5, <2>6 DEF CheckoutOrderRight
<1>13. CheckoutOrdersRight'
  <2>1. Checkout!IsFiniteSet(orders') BY <1>1, <1>2, CheckoutFS_AddElement DEF CheckoutOrdersRight
  <2>2. \A d \in orders : CheckoutOrderRight(d)'
    BY <1>1, <1>2, <1>7, CheckoutOrderMoves DEF CheckoutOrdersRight
  <2>3. Checkout!QuoteBuysOnce'  BY <1>1, <1>2, <1>3, <1>8 DEF CheckoutOrdersRight, Checkout!QuoteBuysOnce
  <2> QED BY <1>2, <1>12, <2>1, <2>2, <2>3 DEF CheckoutOrdersRight
<1>14. CheckoutStoreRight' /\ Checkout!KeepsTheRest
  <2>1. CASE q.source # "CART"
    <3>1. cart' = cart BY <1>2, <2>1
    <3> QED BY <1>1, <1>2, <3>1 DEF CheckoutStoreRight, Checkout!LinesOf, Checkout!KeepsTheRest
  <2>2. CASE q.source = "CART"
    <3> DEFINE c == q.customer
    <3>1. cart \in [Customers -> [Skus -> Checkout!Line \union {Checkout!NoLine}]]
      BY <1>1 DEF CheckoutStoreRight
    <3>2. /\ \A d \in Customers \ {c} : cart'[d] = cart[d]
          /\ cart'[c] = Checkout!Without(cart[c], q.request)
          /\ cart' = [cart EXCEPT ![c] = Checkout!Without(cart[c], q.request)]
      BY <1>2, <1>4, <2>2, <3>1
    <3>3. \A s \in Skus : cart'[c][s] = IF q.request[s] > 0 THEN Checkout!NoLine ELSE cart[c][s]
      BY <3>2 DEF Checkout!Without
    <3>4. Checkout!Without(cart[c], q.request) \in [Skus -> Checkout!Line \union {Checkout!NoLine}]
      BY <1>4, <3>1 DEF Checkout!Without
    <3>5. cart' \in [Customers -> [Skus -> Checkout!Line \union {Checkout!NoLine}]]  BY <1>4, <3>1, <3>2, <3>4
    <3>6. \A d \in Customers : Checkout!LinesOf(d)' \subseteq Checkout!LinesOf(d)
      BY <3>2, <3>3 DEF Checkout!LinesOf
    <3>7. \A d \in Customers : Checkout!IsFiniteSet(Checkout!LinesOf(d)')
       /\ Checkout!Cardinality(Checkout!LinesOf(d)') <= CartLimit
      <4> TAKE d \in Customers
      <4>1. Checkout!IsFiniteSet(Checkout!LinesOf(d)) /\ Checkout!Cardinality(Checkout!LinesOf(d)) <= CartLimit
         /\ CartLimit \in Nat
        BY <1>1 DEF CheckoutStoreRight, Checkout!CheckoutAssumption
      <4>2. Checkout!IsFiniteSet(Checkout!LinesOf(d)')
         /\ Checkout!Cardinality(Checkout!LinesOf(d)') <= Checkout!Cardinality(Checkout!LinesOf(d))
        BY <3>6, <4>1, CheckoutFS_Subset
      <4> QED BY <4>1, <4>2, CheckoutFS_CardinalityType
    <3>8. CheckoutStoreRight' BY <1>1, <1>2, <3>5, <3>7 DEF CheckoutStoreRight
    <3>9. ASSUME NEW d \in Customers, NEW s \in Skus, cart[d][s] # cart'[d][s]
          PROVE  \E n \in orders' \ orders : n.request[s] = cart[d][s].quantity
      <4>1. d = c /\ q.request[s] > 0 BY <3>2, <3>3, <3>9
      <4>2. Checkout!Selected(c) = q.request BY <1>2, <2>2 DEF Checkout!CanSubmit
      <4>3. q.request[s] = IF cart[c][s].selected THEN cart[c][s].quantity ELSE 0
        BY <4>2 DEF Checkout!Selected
      <4>4. q.request[s] = cart[c][s].quantity BY <4>1, <4>3
      <4> QED BY <1>2, <1>3, <1>8, <4>1, <4>4
    <3> QED BY <3>8, <3>9 DEF Checkout!KeepsTheRest
  <2> QED BY <2>1, <2>2
<1> QED BY <1>10, <1>11, <1>13, <1>14 DEF CheckoutInv

\* An order whose units stay, leave or come back gets another status.
LEMMA CheckoutOrderBecomes ==
  ASSUME Checkout!CheckoutAssumption, CheckoutInv, NEW o \in orders, NEW to \in {"PAID", "CLOSED", "REFUNDED"},
         orders' = Checkout!Becomes(o, to), NEW change, CheckoutMoved(change), UNCHANGED <<Checkout!store, quotes, lapsed, shown>>
  PROVE  /\ CheckoutStoreRight' /\ CheckoutQuotesRight' /\ CheckoutOrdersRight' /\ CheckoutShownRight'
             /\ Checkout!KeepsTheRest
         /\ \E n : n.status # "OPEN" /\ orders' = (orders \ {o}) \cup {n}
<1>1. CheckoutStoreRight /\ CheckoutQuotesRight /\ CheckoutOrdersRight /\ CheckoutStockRight /\ CheckoutShownRight
  BY DEF CheckoutInv
<1>2. CheckoutShownRight' /\ CheckoutQuotesRight' /\ CheckoutStoreRight' /\ Checkout!KeepsTheRest
  BY <1>1, CheckoutShownMoves, CheckoutQuotesMove, CheckoutStoreSame DEF Checkout!store, Checkout!KeepsTheRest
<1>3. PICK n : n = [o EXCEPT !.status = to]
  OBVIOUS
<1>4. CheckoutOrderRight(o) BY <1>1 DEF CheckoutOrdersRight
<1>5. /\ n = [number |-> o.number, quote |-> o.quote, request |-> o.request, status |-> to, terms |-> o.terms]
  BY <1>3, <1>4 DEF CheckoutOrderRight
<1>6. orders' = (orders \ {o}) \cup {n} BY <1>3 DEF Checkout!Becomes
<1>7. \A d \in orders : CheckoutOrderRight(d)' BY <1>1, CheckoutOrderMoves DEF CheckoutOrdersRight
<1>8. CheckoutOrderRight(n)'
  <2>1. CheckoutOrderRight(o)' BY <1>7
  <2> QED BY <1>5, <2>1 DEF CheckoutOrderRight
<1>9. Checkout!IsFiniteSet(orders')
  <2>1. Checkout!IsFiniteSet(orders \ {o})  BY <1>1, CheckoutFS_RemoveElement DEF CheckoutOrdersRight
  <2> QED BY <1>6, <2>1, CheckoutFS_AddElement
<1>10. Checkout!QuoteBuysOnce' BY <1>1, <1>5, <1>6 DEF CheckoutOrdersRight, Checkout!QuoteBuysOnce
<1>11. CheckoutOrdersRight' BY <1>6, <1>7, <1>8, <1>9, <1>10 DEF CheckoutOrdersRight
<1>12. n.status # "OPEN" BY <1>5
<1> QED BY <1>2, <1>6, <1>11, <1>12

LEMMA CheckoutSettleStep ==
  ASSUME Checkout!CheckoutAssumption, CheckoutInv, NEW o \in orders,
         Checkout!ConsumeReservation(o) \/ Checkout!ReleaseReservation(o) \/ Checkout!Restock(o)
  PROVE  CheckoutInv' /\ Checkout!KeepsTheRest
<1>1. CheckoutStoreRight /\ CheckoutQuotesRight /\ CheckoutOrdersRight /\ CheckoutStockRight /\ CheckoutShownRight
  BY DEF CheckoutInv
<1>2. \A s \in Skus : o.request[s] \in Nat
  BY <1>1, CheckoutRequestType DEF CheckoutOrdersRight, CheckoutOrderRight
<1>3. \A s \in Skus : /\ balance[s].locked = CheckoutReserved(s) /\ CheckoutReserved(s) \in Nat
                      /\ balance[s].locked <= balance[s].physical
                      /\ balance[s].physical <= MaxPhysical /\ balance[s].physical \in Nat /\ MaxPhysical \in Nat
  BY <1>1, CheckoutOpenType DEF CheckoutStockRight, CheckoutBalance, Checkout!CheckoutAssumption
<1>4. CASE Checkout!ConsumeReservation(o)
  <2> DEFINE change == [s \in Skus |-> <<-o.request[s], -o.request[s]>>]
  <2>1. /\ o \in CheckoutOpen /\ Checkout!MoveAll(change) /\ orders' = Checkout!Becomes(o, "PAID")
            /\ UNCHANGED <<Checkout!store, quotes, lapsed, shown>>
        /\ change \in [Skus -> Int \X Int]
    BY <1>2, <1>4 DEF Checkout!ConsumeReservation, CheckoutOpen
  <2>2. \A s \in Skus : change[s][1] = -o.request[s] /\ change[s][2] = -o.request[s]
    OBVIOUS
  <2> HIDE DEF change
  <2>3. CheckoutMoved(change) BY <1>1, <2>1, CheckoutMovesAll
  <2>4. /\ CheckoutStoreRight' /\ CheckoutQuotesRight' /\ CheckoutOrdersRight' /\ CheckoutShownRight'
            /\ Checkout!KeepsTheRest
        /\ \E n : n.status # "OPEN" /\ orders' = (orders \ {o}) \cup {n}
    BY <2>1, <2>3, CheckoutOrderBecomes
  <2>5. \A s \in Skus : CheckoutReserved(s)' = CheckoutReserved(s) - o.request[s]
     /\ o.request[s] <= CheckoutReserved(s)
    BY <1>1, <2>1, <2>4, CheckoutReservedShrinks
  <2>6. \A s \in Skus : /\ balance'[s].physical = balance[s].physical - o.request[s]
                        /\ balance'[s].locked = balance[s].locked - o.request[s]
    <3>1. \A s \in Skus : balance[s].physical \in Int /\ balance[s].locked \in Int
      BY <1>1 DEF CheckoutStockRight, CheckoutBalance
    <3> QED BY <1>2, <2>2, <2>3, <3>1 DEF CheckoutMoved
  <2>7. CheckoutStockRight' BY <1>1, <1>2, <1>3, <2>3, <2>5, <2>6, CheckoutStockMoves
  <2> QED BY <2>4, <2>7 DEF CheckoutInv
<1>5. CASE Checkout!ReleaseReservation(o)
  <2> DEFINE change == [s \in Skus |-> <<0, -o.request[s]>>]
  <2>1. /\ o \in CheckoutOpen /\ Checkout!MoveAll(change) /\ orders' = Checkout!Becomes(o, "CLOSED")
            /\ UNCHANGED <<Checkout!store, quotes, lapsed, shown>>
        /\ change \in [Skus -> Int \X Int]
    BY <1>2, <1>5 DEF Checkout!ReleaseReservation, CheckoutOpen
  <2>2. \A s \in Skus : change[s][1] = 0 /\ change[s][2] = -o.request[s]
    OBVIOUS
  <2> HIDE DEF change
  <2>3. CheckoutMoved(change) BY <1>1, <2>1, CheckoutMovesAll
  <2>4. /\ CheckoutStoreRight' /\ CheckoutQuotesRight' /\ CheckoutOrdersRight' /\ CheckoutShownRight'
            /\ Checkout!KeepsTheRest
        /\ \E n : n.status # "OPEN" /\ orders' = (orders \ {o}) \cup {n}
    BY <2>1, <2>3, CheckoutOrderBecomes
  <2>5. \A s \in Skus : CheckoutReserved(s)' = CheckoutReserved(s) - o.request[s]
     /\ o.request[s] <= CheckoutReserved(s)
    BY <1>1, <2>1, <2>4, CheckoutReservedShrinks
  <2>6. \A s \in Skus : /\ balance'[s].physical = balance[s].physical
                        /\ balance'[s].locked = balance[s].locked - o.request[s]
    <3>1. \A s \in Skus : balance[s].physical \in Int /\ balance[s].locked \in Int
      BY <1>1 DEF CheckoutStockRight, CheckoutBalance
    <3> QED BY <1>2, <2>2, <2>3, <3>1 DEF CheckoutMoved
  <2>7. CheckoutStockRight' BY <1>1, <1>2, <1>3, <2>3, <2>5, <2>6, CheckoutStockMoves
  <2> QED BY <2>4, <2>7 DEF CheckoutInv
<1>6. CASE Checkout!Restock(o)
  <2> DEFINE change == [s \in Skus |-> <<o.request[s], 0>>]
  <2>1. /\ o.status # "OPEN" /\ Checkout!MoveAll(change) /\ orders' = Checkout!Becomes(o, "REFUNDED")
        /\ UNCHANGED <<Checkout!store, quotes, lapsed, shown>> /\ change \in [Skus -> Int \X Int]
        /\ \A s \in Skus : balance[s].physical + o.request[s] <= MaxPhysical
    BY <1>2, <1>6 DEF Checkout!Restock
  <2>2. \A s \in Skus : change[s][1] = o.request[s] /\ change[s][2] = 0
    OBVIOUS
  <2> HIDE DEF change
  <2>3. CheckoutMoved(change) BY <1>1, <2>1, CheckoutMovesAll
  <2>4. /\ CheckoutStoreRight' /\ CheckoutQuotesRight' /\ CheckoutOrdersRight' /\ CheckoutShownRight'
            /\ Checkout!KeepsTheRest
        /\ \E n : n.status # "OPEN" /\ orders' = (orders \ {o}) \cup {n}
    BY <2>1, <2>3, CheckoutOrderBecomes
  <2>5. \A s \in Skus : CheckoutReserved(s)' = CheckoutReserved(s)  BY <2>1, <2>4, CheckoutReservedSame
  <2>6. \A s \in Skus : /\ balance'[s].physical = balance[s].physical + o.request[s]
                        /\ balance'[s].locked = balance[s].locked
    <3>1. \A s \in Skus : balance[s].physical \in Int /\ balance[s].locked \in Int
      BY <1>1 DEF CheckoutStockRight, CheckoutBalance
    <3> QED BY <1>2, <2>2, <2>3, <3>1 DEF CheckoutMoved
  <2>7. CheckoutStockRight' BY <1>1, <1>2, <1>3, <2>1, <2>3, <2>5, <2>6, CheckoutStockMoves
  <2> QED BY <2>4, <2>7 DEF CheckoutInv
<1> QED BY <1>4, <1>5, <1>6

--------------------------------
LEMMA CheckoutInitially == Checkout!CheckoutAssumption /\ Checkout!Init => CheckoutInv
<1> SUFFICES ASSUME Checkout!CheckoutAssumption, Checkout!Init PROVE CheckoutInv
  OBVIOUS
<1>1. CheckoutStoreRight
  <2>1. \A c \in Customers : Checkout!LinesOf(c) = {} BY DEF Checkout!Init, Checkout!LinesOf
  <2>2. Checkout!IsFiniteSet({}) /\ Checkout!Cardinality({}) = 0 /\ CartLimit \in Nat
     /\ 1 \in 1 .. MaxRevisions + 1
    BY CheckoutFS_EmptySet DEF Checkout!CheckoutAssumption
  <2> QED BY <2>1, <2>2 DEF Checkout!Init, CheckoutStoreRight
<1>2. CheckoutQuotesRight /\ CheckoutOrdersRight /\ CheckoutShownRight
  BY CheckoutFS_EmptySet DEF Checkout!Init, CheckoutQuotesRight, CheckoutOrdersRight, Checkout!QuoteBuysOnce,
     CheckoutShownRight
<1>3. CheckoutStockRight
  <2>1. \A s \in Skus : CheckoutReserved(s) = 0
    <3>1. CheckoutOpen = {} BY DEF Checkout!Init, CheckoutOpen
    <3> QED BY <3>1, CheckoutTotalEmpty DEF CheckoutReserved
  <2>2. /\ balance \in [Skus -> CheckoutBalance] /\ stockLedger \in [Skus -> CheckoutEntry]
    <3>1. 0 \in 0 .. MaxPhysical /\ 1 \in 1 .. MaxVersion BY DEF Checkout!CheckoutAssumption
    <3> QED BY <3>1 DEF Checkout!Init, CheckoutBalance, CheckoutEntry
  <2> QED BY <2>1, <2>2 DEF Checkout!Init, CheckoutStockRight, Checkout!LedgerExplainsStock
<1> QED BY <1>1, <1>2, <1>3 DEF CheckoutInv

LEMMA CheckoutStepwise ==
  ASSUME Checkout!CheckoutAssumption, CheckoutInv, [Checkout!Next]_Checkout!vars
  PROVE  CheckoutInv' /\ Checkout!AdjustsAsShown /\ Checkout!KeepsTheRest
<1>1. CASE \/ \E c \in Customers, s \in Skus, line \in Checkout!Line : Checkout!PutItem(c, s, line)
               \/ Checkout!MergeCart(c, s, line)
           \/ \E c \in Customers, s \in Skus : Checkout!DeleteItem(c, s)
           \/ \E c \in Customers : Checkout!ReviseAddress(c)
           \/ \E s \in Skus, sale \in BOOLEAN : Checkout!ReviseSku(s, sale)
  <2>1. UNCHANGED <<balance, orders>>
    BY <1>1 DEF Checkout!PutItem, Checkout!MergeCart, Checkout!DeleteItem, Checkout!ReviseAddress,
       Checkout!ReviseSku
  <2> QED BY <1>1, <2>1, CheckoutStoreStep DEF Checkout!AdjustsAsShown, Checkout!KeepsTheRest
<1>2. CASE \/ \E s \in Skus, delta \in (-MaxPhysical .. MaxPhysical) \ {0} : Checkout!PreviewAdjustment(s, delta)
           \/ Checkout!AbandonAdjustment
           \/ UNCHANGED Checkout!vars
  <2>1. UNCHANGED <<balance, orders>>
    BY <1>2 DEF Checkout!PreviewAdjustment, Checkout!AbandonAdjustment, Checkout!vars
  <2> QED BY <1>2, <2>1, CheckoutAdjustmentStep DEF Checkout!AdjustsAsShown, Checkout!KeepsTheRest
<1>3. ASSUME NEW p \in shown, Checkout!ConfirmAdjustment(p)
      PROVE  CheckoutInv' /\ Checkout!AdjustsAsShown /\ Checkout!KeepsTheRest
  BY <1>3, CheckoutConfirmStep DEF Checkout!ConfirmAdjustment, Checkout!KeepsTheRest
<1>4. ASSUME NEW c \in Customers, NEW source \in Channels, NEW request \in Checkout!Requests,
             Checkout!Quote(c, source, request)
      PROVE  CheckoutInv' /\ Checkout!AdjustsAsShown /\ Checkout!KeepsTheRest
  BY <1>4, CheckoutQuoteStep DEF Checkout!Quote, Checkout!AdjustsAsShown, Checkout!KeepsTheRest
<1>5. ASSUME NEW q \in quotes, Checkout!ExpireQuote(q)
      PROVE  CheckoutInv' /\ Checkout!AdjustsAsShown /\ Checkout!KeepsTheRest
  BY <1>5, CheckoutExpireStep DEF Checkout!ExpireQuote, Checkout!AdjustsAsShown, Checkout!KeepsTheRest
<1>6. ASSUME NEW q \in quotes, Checkout!PlaceOrder(q)
      PROVE  CheckoutInv' /\ Checkout!AdjustsAsShown /\ Checkout!KeepsTheRest
  <2>1. shown' = shown BY <1>6 DEF Checkout!PlaceOrder
  <2> QED BY <1>6, <2>1, CheckoutPlaceStep DEF Checkout!AdjustsAsShown
<1>7. ASSUME NEW o \in orders,
             Checkout!ConsumeReservation(o) \/ Checkout!ReleaseReservation(o) \/ Checkout!Restock(o)
      PROVE  CheckoutInv' /\ Checkout!AdjustsAsShown /\ Checkout!KeepsTheRest
  <2>1. shown' = shown  BY <1>7 DEF Checkout!ConsumeReservation, Checkout!ReleaseReservation, Checkout!Restock
  <2> QED BY <1>7, <2>1, CheckoutSettleStep DEF Checkout!AdjustsAsShown
<1> QED BY <1>1, <1>2, <1>3, <1>4, <1>5, <1>6, <1>7 DEF Checkout!Next

LEMMA CheckoutInvMeansCovered == Checkout!CheckoutAssumption /\ CheckoutInv => Checkout!OrdersAreCovered
<1> SUFFICES ASSUME Checkout!CheckoutAssumption, CheckoutInv PROVE Checkout!OrdersAreCovered
  OBVIOUS
<1>1. Checkout!TypeOK
  BY DEF CheckoutInv, CheckoutStoreRight, CheckoutQuotesRight, CheckoutQuoteRight, CheckoutOrdersRight,
     CheckoutOrderRight, CheckoutStockRight, CheckoutBalance, Checkout!TypeOK
<1>2. Checkout!QuoteBuysOnce /\ Checkout!LedgerExplainsStock
  BY DEF CheckoutInv, CheckoutOrdersRight, CheckoutStockRight
<1>3. Checkout!OrderedAsQuoted
  BY DEF CheckoutInv, CheckoutOrdersRight, CheckoutOrderRight, Checkout!OrderedAsQuoted
<1>4. Checkout!NeverOversold
  BY DEF CheckoutInv, CheckoutStockRight, Checkout!NeverOversold, CheckoutReserved, CheckoutOpen
<1> QED BY <1>1, <1>2, <1>3, <1>4 DEF Checkout!OrdersAreCovered

--------------------------------
\* What it says of the trade of the mall.

LEMMA CheckoutMoves ==
  ASSUME [TradeNext]_tradeVars
  PROVE  [Checkout!Next]_(Checkout!vars)
BY DEF TradeNext, tradeVars, checkoutVars, Checkout!vars, RulesStep, FirstStep, WalletStep, ServicingStep,
   CompensationStep, CheckoutStep, CartsStep, GoodsStep, Rest

LEMMA CheckoutHolds ==
  /\ TradeInit => CheckoutInv
  /\ CheckoutInv /\ [TradeNext]_tradeVars => CheckoutInv'
<1>1. Checkout!CheckoutAssumption BY TradeAssumption
<1>2. TradeInit => CheckoutInv BY <1>1, CheckoutInitially DEF TradeInit
<1>3. CheckoutInv /\ [TradeNext]_tradeVars => CheckoutInv' BY <1>1, CheckoutMoves, CheckoutStepwise
<1> QED BY <1>2, <1>3

\* StoreCheckout: orders, quotes and stock agree, for any customers, SKUs
\* and quantities.
THEOREM OrdersAlwaysCovered == TradeSpec => []OrdersAreCovered
<1>1. CheckoutInv => OrdersAreCovered  BY TradeAssumption, CheckoutInvMeansCovered DEF OrdersAreCovered
<1> QED BY <1>1, CheckoutHolds, PTL DEF TradeSpec

\* StoreCheckout: an adjustment does what was shown to the stock that was
\* shown, and an order takes no more out of a cart than it bought.
THEOREM CheckoutAlwaysKeeps ==
  TradeSpec => /\ [][part = "checkout" => Checkout!AdjustsAsShown]_tradeVars
               /\ [][part = "carts" => Checkout!KeepsTheRest]_tradeVars
<1>1. CheckoutInv /\ [TradeNext]_tradeVars => [part = "checkout" => Checkout!AdjustsAsShown]_tradeVars
  BY TradeAssumption, CheckoutMoves, CheckoutStepwise
<1>2. CheckoutInv /\ [TradeNext]_tradeVars => [part = "carts" => Checkout!KeepsTheRest]_tradeVars
  BY TradeAssumption, CheckoutMoves, CheckoutStepwise
<1>3. TradeSpec => [][part = "checkout" => Checkout!AdjustsAsShown]_tradeVars
  BY <1>1, CheckoutHolds, PTL DEF TradeSpec
<1>4. TradeSpec => [][part = "carts" => Checkout!KeepsTheRest]_tradeVars
  BY <1>2, CheckoutHolds, PTL DEF TradeSpec
<1> QED BY <1>3, <1>4

--------------------------------
\* The catalogue.

\* The operators of the libraries, as the instance names them.
LEMMA GoodsSame ==
  /\ \A S : Goods!IsFiniteSet(S) = IsFiniteSet(S)
  /\ \A S : Goods!Cardinality(S) = Cardinality(S)
<1>1. \A S : Goods!IsFiniteSet(S) = IsFiniteSet(S) BY DEF Goods!IsFiniteSet, IsFiniteSet
<1>2. \A S : Goods!Cardinality(S) = Cardinality(S) BY DEF Goods!Cardinality, Cardinality
<1> QED BY <1>1, <1>2

LEMMA GoodsFS_Subset ==
  ASSUME NEW S, Goods!IsFiniteSet(S), NEW T \in SUBSET S
  PROVE  Goods!IsFiniteSet(T) /\ Goods!Cardinality(T) <= Goods!Cardinality(S) /\ (Goods!Cardinality(S) = Goods!Cardinality(T) => S = T)
BY FS_Subset, GoodsSame

LEMMA GoodsFS_AddElement ==
  ASSUME NEW S, NEW e, Goods!IsFiniteSet(S)
  PROVE  /\ Goods!IsFiniteSet(S \cup {e})
         /\ Goods!Cardinality(S \cup {e}) = IF e \in S THEN Goods!Cardinality(S) ELSE Goods!Cardinality(S) + 1
<1>1. IsFiniteSet(S) BY GoodsSame
<1>2. /\ IsFiniteSet(S \cup {e})
      /\ Cardinality(S \cup {e}) = IF e \in S THEN Cardinality(S) ELSE Cardinality(S) + 1
  BY <1>1, FS_AddElement
<1> QED BY <1>2, GoodsSame

LEMMA GoodsFS_RemoveElement ==
  ASSUME NEW S, NEW e, Goods!IsFiniteSet(S)
  PROVE  /\ Goods!IsFiniteSet(S \ {e})
         /\ Goods!Cardinality(S \ {e}) = IF e \in S THEN Goods!Cardinality(S) - 1 ELSE Goods!Cardinality(S)
<1>1. IsFiniteSet(S) BY GoodsSame
<1>2. /\ IsFiniteSet(S \ {e})
      /\ Cardinality(S \ {e}) = IF e \in S THEN Cardinality(S) - 1 ELSE Cardinality(S)
  BY <1>1, FS_RemoveElement
<1> QED BY <1>2, GoodsSame

LEMMA GoodsFS_EmptySet ==
  /\ Goods!IsFiniteSet({}) /\ Goods!Cardinality({}) = 0
  /\ \A S : Goods!IsFiniteSet(S) => (Goods!Cardinality(S) = 0 <=> S = {})
BY FS_EmptySet, GoodsSame

LEMMA GoodsFS_CardinalityType ==
  ASSUME NEW S, Goods!IsFiniteSet(S)
  PROVE  Goods!Cardinality(S) \in Nat
BY FS_CardinalityType, GoodsSame

LEMMA GoodsFS_Surjection ==
  ASSUME NEW S, Goods!IsFiniteSet(S), NEW T, NEW f \in Surjection(S, T)
  PROVE  Goods!IsFiniteSet(T) /\ Goods!Cardinality(T) <= Goods!Cardinality(S)
<1>1. IsFiniteSet(S) BY GoodsSame
<1>2. IsFiniteSet(T) /\ Cardinality(T) <= Cardinality(S) BY <1>1, FS_Surjection
<1> QED BY <1>2, GoodsSame

\* What a preview shows is still so while it is fresh.
GoodsFreshIsTrue ==
  \A p \in held : /\ p.status # Goods!Absent
                  /\ p.fresh => p.status = status[p.target]

--------------------------------
\* The previews.

LEMMA GoodsStaleFacts ==
  ASSUME NEW H, Goods!IsFiniteSet(H), H \subseteq Goods!Preview, NEW r \in Goods!Resources
  PROVE  /\ Goods!Stale(H, r) \subseteq Goods!Preview /\ Goods!IsFiniteSet(Goods!Stale(H, r))
         /\ Goods!Cardinality(Goods!Stale(H, r)) <= Goods!Cardinality(H)
         /\ \A p \in Goods!Stale(H, r) :
              \/ p \in H /\ (p.target # r \/ ~p.fresh)
              \/ ~p.fresh /\ \E o \in H : o.target = p.target /\ o.status = p.status
         /\ \A p \in H : (p.target = r /\ p.fresh) \/ p \in Goods!Stale(H, r)
<1> DEFINE f == [p \in H |-> IF p.target = r THEN [p EXCEPT !.fresh = FALSE] ELSE p]
<1>1. \A p \in H : /\ [p EXCEPT !.fresh = FALSE] \in Goods!Preview
                   /\ [p EXCEPT !.fresh = FALSE].target = p.target
                   /\ [p EXCEPT !.fresh = FALSE].status = p.status
                   /\ ~[p EXCEPT !.fresh = FALSE].fresh
                   /\ ~p.fresh => [p EXCEPT !.fresh = FALSE] = p
  BY DEF Goods!Preview
<1>2. f \in Surjection(H, Goods!Stale(H, r)) BY DEF Surjection, Goods!Stale
<1>3. Goods!IsFiniteSet(Goods!Stale(H, r)) /\ Goods!Cardinality(Goods!Stale(H, r)) <= Goods!Cardinality(H)
  BY <1>2, GoodsFS_Surjection
<1>4. Goods!Stale(H, r) \subseteq Goods!Preview BY <1>1 DEF Goods!Stale
<1>5. ASSUME NEW p \in Goods!Stale(H, r)
      PROVE  \/ p \in H /\ (p.target # r \/ ~p.fresh)
             \/ ~p.fresh /\ \E o \in H : o.target = p.target /\ o.status = p.status
  <2>1. PICK o \in H : p = IF o.target = r THEN [o EXCEPT !.fresh = FALSE] ELSE o  BY DEF Goods!Stale
  <2>2. CASE o.target = r
    <3>1. p = [o EXCEPT !.fresh = FALSE] BY <2>1, <2>2
    <3> QED BY <3>1, <1>1
  <2>3. CASE o.target # r BY <2>1, <2>3
  <2> QED BY <2>2, <2>3
<1>6. ASSUME NEW p \in H, ~(p.target = r /\ p.fresh)
      PROVE  p \in Goods!Stale(H, r)
  <2>1. p = IF p.target = r THEN [p EXCEPT !.fresh = FALSE] ELSE p BY <1>1, <1>6
  <2> QED BY <2>1 DEF Goods!Stale
<1> QED BY <1>3, <1>4, <1>5, <1>6

\* What a step does to the previews, seen from the status it leaves behind.
GoodsHeldRight ==
  /\ held \subseteq Goods!Preview /\ Goods!IsFiniteSet(held) /\ Goods!Cardinality(held) <= MaxHeld
  /\ GoodsFreshIsTrue

\* The rows whose status changes are r alone, which then no fresh preview shows.
LEMMA GoodsStaleHolds ==
  ASSUME Goods!CatalogueAssumption, GoodsHeldRight, NEW r \in Goods!Resources, NEW H \in SUBSET held,
         held' = Goods!Stale(H, r),
         \A o \in Goods!Resources \ {r} : status'[o] = status[o]
  PROVE  GoodsHeldRight'
<1>1. /\ Goods!IsFiniteSet(H) /\ Goods!Cardinality(H) <= Goods!Cardinality(held) /\ H \subseteq Goods!Preview
  BY GoodsFS_Subset DEF GoodsHeldRight
<1>2. /\ held' \subseteq Goods!Preview /\ Goods!IsFiniteSet(held')
      /\ Goods!Cardinality(held') <= Goods!Cardinality(H)
  BY <1>1, GoodsStaleFacts
<1>3. Goods!Cardinality(held') \in Nat /\ Goods!Cardinality(H) \in Nat /\ Goods!Cardinality(held) \in Nat
  BY <1>1, <1>2, GoodsFS_CardinalityType DEF GoodsHeldRight
<1>4. Goods!Cardinality(held') <= MaxHeld  BY <1>1, <1>2, <1>3 DEF Goods!CatalogueAssumption, GoodsHeldRight
<1>5. ASSUME NEW p \in held'
      PROVE  p.status # Goods!Absent /\ (p.fresh => p.status = status'[p.target])
  <2>1. \/ p \in H /\ (p.target # r \/ ~p.fresh)
        \/ ~p.fresh /\ \E o \in H : o.target = p.target /\ o.status = p.status
    BY <1>1, GoodsStaleFacts
  <2>2. \A o \in H : /\ o.target \in Goods!Resources /\ o.status # Goods!Absent
                     /\ o.fresh => o.status = status[o.target]
    BY DEF GoodsHeldRight, GoodsFreshIsTrue, Goods!Preview
  <2> QED BY <2>1, <2>2
<1> QED BY <1>2, <1>4, <1>5 DEF GoodsHeldRight, GoodsFreshIsTrue

LEMMA GoodsSameHeld ==
  ASSUME Goods!CatalogueAssumption, GoodsHeldRight, NEW H \in SUBSET held, held' = H,
         \A p \in H : p.fresh => status'[p.target] = status[p.target]
  PROVE  GoodsHeldRight'
<1>1. Goods!IsFiniteSet(H) /\ Goods!Cardinality(H) <= Goods!Cardinality(held)
  BY GoodsFS_Subset DEF GoodsHeldRight
<1>2. Goods!Cardinality(H) \in Nat /\ Goods!Cardinality(held) \in Nat
  BY <1>1, GoodsFS_CardinalityType DEF GoodsHeldRight
<1> QED BY <1>1, <1>2 DEF GoodsHeldRight, GoodsFreshIsTrue, Goods!CatalogueAssumption

--------------------------------
\* The goods.

\* The conditions on the rows.
GoodsRight ==
  /\ status \in [Goods!Resources -> Goods!Status]
  /\ \A s \in Skus : status[s] # "DRAFT"
  /\ brand \in [Products -> Brands]
  /\ category \in [Products -> Categories]
  /\ gallery \in [Products -> BOOLEAN]
  /\ reserved \in [Skus -> BOOLEAN]
  /\ sold \subseteq Products
  /\ Goods!ActiveProductIsOffered /\ Goods!ArchivedProductSellsNothing /\ Goods!HeldGoodsStay

GoodsInv == GoodsHeldRight /\ GoodsRight

LEMMA GoodsLevels ==
  ASSUME Goods!CatalogueAssumption
  PROVE  /\ \A p \in Products : p \in Goods!Resources /\ p \notin Goods!Masters /\ p \notin Skus
         /\ \A s \in Skus : s \in Goods!Resources /\ s \notin Goods!Masters /\ s \notin Products
             /\ ProductOf[s] \in Products
         /\ \A m \in Goods!Masters : m \in Goods!Resources /\ m \notin Products /\ m \notin Skus
         /\ Brands \subseteq Goods!Masters /\ Categories \subseteq Goods!Masters
BY DEF Goods!CatalogueAssumption, Goods!Masters, Goods!Resources

LEMMA GoodsMasterChanges ==
  ASSUME Goods!CatalogueAssumption, GoodsRight, NEW m \in Goods!Masters, NEW new \in Goods!Status,
         new = "ACTIVE" \/ status[m] # "ACTIVE" \/ Goods!ActiveProductsOf(m) = {},
         status' = [status EXCEPT ![m] = new], UNCHANGED <<brand, category, gallery, reserved, sold>>
  PROVE  GoodsRight'
<1>1. status' \in [Goods!Resources -> Goods!Status] /\ \A s \in Skus : status'[s] # "DRAFT"
  BY GoodsLevels DEF GoodsRight
<1>2. Goods!ArchivedProductSellsNothing' /\ Goods!HeldGoodsStay'
  BY GoodsLevels DEF GoodsRight, Goods!ArchivedProductSellsNothing, Goods!HeldGoodsStay
<1>3. Goods!ActiveProductIsOffered'
  <2> SUFFICES ASSUME NEW p \in Products, status'[p] = "ACTIVE"
               PROVE  status'[brand[p]] = "ACTIVE" /\ status'[category[p]] = "ACTIVE" /\ gallery[p]
    BY DEF Goods!ActiveProductIsOffered
  <2>1. status[p] = "ACTIVE" /\ brand[p] \in Goods!Masters /\ category[p] \in Goods!Masters
    BY GoodsLevels DEF GoodsRight
  <2>2. status[brand[p]] = "ACTIVE" /\ status[category[p]] = "ACTIVE" /\ gallery[p]
    BY <2>1 DEF GoodsRight, Goods!ActiveProductIsOffered
  <2>3. CASE brand[p] = m \/ category[p] = m
    <3>1. p \in Goods!ActiveProductsOf(m) BY <2>1, <2>3 DEF Goods!ActiveProductsOf, Goods!RefersTo
    <3>2. new = "ACTIVE" BY <2>2, <2>3, <3>1
    <3>3. \A r \in Goods!Resources : status'[r] = IF r = m THEN "ACTIVE" ELSE status[r]
      BY <3>2 DEF GoodsRight
    <3> QED BY <2>1, <2>2, <3>3, GoodsLevels
  <2>4. CASE brand[p] # m /\ category[p] # m BY <2>1, <2>2, <2>4, GoodsLevels DEF GoodsRight
  <2> QED BY <2>3, <2>4
<1> QED BY <1>1, <1>2, <1>3 DEF GoodsRight

LEMMA GoodsProductChanges ==
  ASSUME Goods!CatalogueAssumption, GoodsRight, NEW p \in Products, NEW new \in Goods!Status,
         status' = [status EXCEPT ![p] = new],
         brand' \in [Products -> Brands], category' \in [Products -> Categories],
         gallery' \in [Products -> BOOLEAN],
         \A o \in Products \ {p} : brand'[o] = brand[o] /\ category'[o] = category[o] /\ gallery'[o] = gallery[o],
         new = "ACTIVE" => status[brand'[p]] = "ACTIVE" /\ status[category'[p]] = "ACTIVE" /\ gallery'[p],
         new = "ARCHIVED" => \A s \in Goods!SkusOf(p) : status[s] # "ACTIVE" /\ ~reserved[s],
         UNCHANGED <<reserved, sold>>
  PROVE  GoodsRight'
<1>1. status' \in [Goods!Resources -> Goods!Status] /\ \A s \in Skus : status'[s] # "DRAFT"
  BY GoodsLevels DEF GoodsRight
<1>2. Goods!ArchivedProductSellsNothing' /\ Goods!HeldGoodsStay'
  BY GoodsLevels DEF GoodsRight, Goods!ArchivedProductSellsNothing, Goods!HeldGoodsStay, Goods!SkusOf
<1>3. Goods!ActiveProductIsOffered'
  <2> SUFFICES ASSUME NEW o \in Products, status'[o] = "ACTIVE"
               PROVE  status'[brand'[o]] = "ACTIVE" /\ status'[category'[o]] = "ACTIVE" /\ gallery'[o]
    BY DEF Goods!ActiveProductIsOffered
  <2>1. brand'[o] \in Goods!Masters /\ category'[o] \in Goods!Masters BY GoodsLevels
  <2>2. \A m \in Goods!Masters : status'[m] = status[m] BY GoodsLevels DEF GoodsRight
  <2>3. CASE o = p BY <2>1, <2>2, <2>3, GoodsLevels DEF GoodsRight
  <2>4. CASE o # p BY <2>1, <2>2, <2>4, GoodsLevels DEF GoodsRight, Goods!ActiveProductIsOffered
  <2> QED BY <2>3, <2>4
<1> QED BY <1>1, <1>2, <1>3 DEF GoodsRight

LEMMA GoodsSkuChanges ==
  ASSUME Goods!CatalogueAssumption, GoodsRight, NEW s \in Skus, NEW new \in Goods!Status \ {"DRAFT"},
         status' = [status EXCEPT ![s] = new],
         reserved' \in [Skus -> BOOLEAN], \A o \in Skus \ {s} : reserved'[o] = reserved[o],
         new = "ACTIVE" => status[ProductOf[s]] # "ARCHIVED",
         new = "ARCHIVED" => ~reserved'[s],
         reserved'[s] => reserved[s] \/ status[ProductOf[s]] # "ARCHIVED",
         sold' \subseteq Products, UNCHANGED <<brand, category, gallery>>
  PROVE  GoodsRight'
<1>1. status' \in [Goods!Resources -> Goods!Status] /\ \A o \in Skus : status'[o] # "DRAFT"
  BY GoodsLevels DEF GoodsRight
<1>2. Goods!ArchivedProductSellsNothing' /\ Goods!HeldGoodsStay'
  BY GoodsLevels DEF GoodsRight, Goods!ArchivedProductSellsNothing, Goods!HeldGoodsStay
<1>3. Goods!ActiveProductIsOffered' BY GoodsLevels DEF GoodsRight, Goods!ActiveProductIsOffered
<1> QED BY <1>1, <1>2, <1>3 DEF GoodsRight

--------------------------------
\* The steps.

LEMMA GoodsConfirmStep ==
  ASSUME Goods!CatalogueAssumption, GoodsInv, NEW p \in held,
         Goods!ConfirmMaster(p) \/ Goods!ConfirmProduct(p) \/ Goods!ConfirmSku(p)
  PROVE  GoodsInv'
<1>1. GoodsHeldRight /\ GoodsRight BY DEF GoodsInv
<1>2. /\ p.target \in Goods!Resources /\ p.action \in Goods!LifecycleAction /\ p.fresh
      /\ Goods!TransitionAllowed(p.target, p.action)
      /\ status' = [status EXCEPT ![p.target] = Goods!NextStatus(p.action)]
      /\ held' = Goods!Stale(held \ {p}, p.target)
      /\ UNCHANGED <<brand, category, gallery, reserved, sold>>
  BY <1>1 DEF GoodsHeldRight, Goods!Preview, Goods!ConfirmMaster, Goods!ConfirmProduct, Goods!ConfirmSku,
     Goods!ApplyLifecycle
<1>3. /\ Goods!NextStatus(p.action) \in Goods!Status \ {"DRAFT"}
      /\ p.action # "ACTIVATE" <=> Goods!NextStatus(p.action) # "ACTIVE"
      /\ p.action = "SOFT_DELETE" <=> Goods!NextStatus(p.action) = "ARCHIVED"
  BY <1>2 DEF Goods!LifecycleAction, Goods!NextStatus, Goods!Status, Goods!Absent
<1>4. GoodsHeldRight'
  <2>1. \A o \in Goods!Resources \ {p.target} : status'[o] = status[o] BY <1>1, <1>2 DEF GoodsRight
  <2> QED BY <1>1, <1>2, <2>1, GoodsStaleHolds
<1>5. GoodsRight'
  <2>1. CASE Goods!ConfirmMaster(p)
    <3>1. p.target \in Goods!Masters /\ Goods!MasterUsable(p.target, p.action)
      BY <2>1 DEF Goods!ConfirmMaster
    <3> QED BY <1>1, <1>2, <1>3, <3>1, GoodsMasterChanges DEF Goods!MasterUsable
  <2>2. CASE Goods!ConfirmProduct(p)
    <3>1. p.target \in Products /\ Goods!ProductUsable(p.target, p.action)  BY <2>2 DEF Goods!ConfirmProduct
    <3>2. /\ Goods!NextStatus(p.action) = "ACTIVE" => status[brand[p.target]] = "ACTIVE"
              /\ status[category[p.target]] = "ACTIVE"
                                                /\ gallery[p.target]
          /\ Goods!NextStatus(p.action) = "ARCHIVED" =>
                \A s \in Goods!SkusOf(p.target) : status[s] # "ACTIVE" /\ ~reserved[s]
      BY <1>3, <3>1 DEF Goods!ProductUsable
    <3> QED BY <1>1, <1>2, <1>3, <3>1, <3>2, GoodsProductChanges DEF GoodsRight
  <2>3. CASE Goods!ConfirmSku(p)
    <3>1. p.target \in Skus /\ Goods!SkuUsable(p.target, p.action) BY <2>3 DEF Goods!ConfirmSku
    <3>2. /\ Goods!NextStatus(p.action) = "ACTIVE" => status[ProductOf[p.target]] # "ARCHIVED"
          /\ Goods!NextStatus(p.action) = "ARCHIVED" => ~reserved[p.target]
      BY <1>3, <3>1 DEF Goods!SkuUsable, Goods!Alive
    <3> QED BY <1>1, <1>2, <1>3, <3>1, <3>2, GoodsSkuChanges DEF GoodsRight
  <2> QED BY <2>1, <2>2, <2>3
<1> QED BY <1>4, <1>5 DEF GoodsInv

LEMMA GoodsRestoreStep ==
  ASSUME Goods!CatalogueAssumption, GoodsInv, NEW r \in Goods!Resources, Goods!Restore(r)
  PROVE  GoodsInv'
<1>1. GoodsHeldRight /\ GoodsRight BY DEF GoodsInv
<1> DEFINE new == IF r \in Skus THEN "INACTIVE" ELSE "DRAFT"
<1>2. /\ status[r] = "ARCHIVED" /\ new \in Goods!Status /\ new # "ACTIVE" /\ new # "ARCHIVED"
      /\ status' = [status EXCEPT ![r] = new]
      /\ held' = Goods!Stale(held, r)
      /\ UNCHANGED <<brand, category, gallery, reserved, sold>>
  BY DEF Goods!Restore, Goods!Status
<1>3. GoodsHeldRight'
  <2>1. \A o \in Goods!Resources \ {r} : status'[o] = status[o] BY <1>1, <1>2 DEF GoodsRight
  <2> QED BY <1>1, <1>2, <2>1, GoodsStaleHolds
<1>4. GoodsRight'
  <2>1. CASE r \in Goods!Masters BY <1>1, <1>2, <2>1, GoodsMasterChanges
  <2>2. CASE r \in Products BY <1>1, <1>2, <2>2, GoodsProductChanges DEF GoodsRight
  <2>3. CASE r \in Skus BY <1>1, <1>2, <2>3, GoodsSkuChanges DEF GoodsRight
  <2> QED BY <2>1, <2>2, <2>3 DEF Goods!Resources
<1> QED BY <1>3, <1>4 DEF GoodsInv

LEMMA GoodsCreateStep ==
  ASSUME Goods!CatalogueAssumption, GoodsInv
  PROVE  /\ \A m \in Goods!Masters : Goods!CreateMaster(m) => GoodsInv'
         /\ \A p \in Products, b \in Brands, c \in Categories : Goods!CreateProduct(p, b, c) => GoodsInv'
         /\ \A s \in Skus : Goods!CreateSku(s) => GoodsInv'
<1>1. GoodsHeldRight /\ GoodsRight BY DEF GoodsInv
<1>2. ASSUME NEW r \in Goods!Resources, NEW new, status[r] = Goods!Absent, status' = [status EXCEPT ![r] = new],
             held' = held
      PROVE  GoodsHeldRight'
  <2>1. \A p \in held : p.fresh => status'[p.target] = status[p.target]
    BY <1>1, <1>2 DEF GoodsHeldRight, GoodsRight, GoodsFreshIsTrue, Goods!Preview
  <2> QED BY <1>1, <1>2, <2>1, GoodsSameHeld
<1>3. ASSUME NEW m \in Goods!Masters, Goods!CreateMaster(m)
      PROVE  GoodsInv'
  <2>1. GoodsRight'  BY <1>1, <1>3, GoodsMasterChanges DEF Goods!CreateMaster, Goods!Status, Goods!Absent
  <2> QED BY <1>2, <1>3, <2>1, GoodsLevels DEF Goods!CreateMaster, GoodsInv
<1>4. ASSUME NEW p \in Products, NEW b \in Brands, NEW c \in Categories, Goods!CreateProduct(p, b, c)
      PROVE  GoodsInv'
  <2>1. /\ status' = [status EXCEPT ![p] = "DRAFT"] /\ status[p] = Goods!Absent /\ held' = held
        /\ brand' \in [Products -> Brands] /\ category' \in [Products -> Categories]
        /\ gallery' \in [Products -> BOOLEAN] /\ UNCHANGED <<reserved, sold>>
        /\ \A o \in Products \ {p} : brand'[o] = brand[o] /\ category'[o] = category[o]
            /\ gallery'[o] = gallery[o]
    BY <1>1, <1>4 DEF Goods!CreateProduct, GoodsRight
  <2>2. GoodsRight' BY <1>1, <2>1, GoodsProductChanges DEF Goods!Status
  <2> QED BY <1>2, <2>1, <2>2, GoodsLevels DEF GoodsInv
<1>5. ASSUME NEW s \in Skus, Goods!CreateSku(s)
      PROVE  GoodsInv'
  <2>1. /\ status' = [status EXCEPT ![s] = "INACTIVE"] /\ status[s] = Goods!Absent /\ held' = held
        /\ UNCHANGED <<brand, category, gallery, reserved, sold>>
    BY <1>5 DEF Goods!CreateSku
  <2>2. GoodsRight' BY <1>1, <2>1, GoodsSkuChanges DEF Goods!Status, GoodsRight
  <2> QED BY <1>2, <2>1, <2>2, GoodsLevels DEF GoodsInv
<1> QED BY <1>3, <1>4, <1>5

LEMMA GoodsEditStep ==
  ASSUME Goods!CatalogueAssumption, GoodsInv
  PROVE  /\ \A m \in Goods!Masters : Goods!UpdateMaster(m) => GoodsInv'
         /\ \A p \in Products, b \in Brands, c \in Categories, images \in BOOLEAN :
               Goods!UpdateProduct(p, b, c, images) => GoodsInv'
         /\ \A s \in Skus : Goods!UpdateSku(s) => GoodsInv'
         /\ \A p \in Products : Goods!RefundSale(p) => GoodsInv'
<1>1. GoodsHeldRight /\ GoodsRight BY DEF GoodsInv
<1>2. ASSUME NEW r \in Goods!Resources, held' = Goods!Stale(held, r), UNCHANGED status
      PROVE  GoodsHeldRight'
  BY <1>1, <1>2, GoodsStaleHolds
<1>3. ASSUME UNCHANGED <<status, brand, category, gallery, reserved, sold>>
      PROVE  GoodsRight'
  BY <1>1, <1>3 DEF GoodsRight, Goods!ActiveProductIsOffered, Goods!ArchivedProductSellsNothing,
     Goods!HeldGoodsStay
<1>4. ASSUME NEW p \in Products, NEW b \in Brands, NEW c \in Categories, NEW images \in BOOLEAN,
             Goods!UpdateProduct(p, b, c, images)
      PROVE  GoodsInv'
  <2>1. /\ brand' \in [Products -> Brands] /\ category' \in [Products -> Categories]
        /\ gallery' \in [Products -> BOOLEAN] /\ UNCHANGED <<status, reserved, sold>>
        /\ \A o \in Products \ {p} : brand'[o] = brand[o] /\ category'[o] = category[o]
            /\ gallery'[o] = gallery[o]
        /\ brand'[p] = b /\ category'[p] = c /\ gallery'[p] = images
        /\ held' = Goods!Stale(held, p) /\ status[p] # "ARCHIVED"
    BY <1>1, <1>4 DEF Goods!UpdateProduct, GoodsRight, Goods!Alive
  <2>2. status[p] = "ACTIVE" => status[b] = "ACTIVE" /\ status[c] = "ACTIVE" /\ images
    BY <1>1, <1>4 DEF Goods!UpdateProduct, GoodsRight, Goods!ActiveProductIsOffered
  <2>3. status' = [status EXCEPT ![p] = status[p]] /\ status[p] \in Goods!Status
    BY <1>1, <2>1, GoodsLevels DEF GoodsRight
  <2>4. GoodsRight' BY <1>1, <2>1, <2>2, <2>3, GoodsProductChanges
  <2> QED BY <1>2, <2>1, <2>4, GoodsLevels DEF GoodsInv
<1> QED BY <1>2, <1>3, <1>4, GoodsLevels DEF Goods!UpdateMaster, Goods!UpdateSku, Goods!RefundSale, GoodsInv

LEMMA GoodsReservationStep ==
  ASSUME Goods!CatalogueAssumption, GoodsInv, NEW s \in Skus, NEW paid,
         Goods!ReserveSku(s) \/ Goods!EndReservation(s, paid)
  PROVE  GoodsInv'
<1>1. GoodsHeldRight /\ GoodsRight BY DEF GoodsInv
<1>2. UNCHANGED <<status, held, brand, category, gallery>>  BY DEF Goods!ReserveSku, Goods!EndReservation
<1>3. GoodsHeldRight' BY <1>1, <1>2 DEF GoodsHeldRight, GoodsFreshIsTrue
<1>4. status' = [status EXCEPT ![s] = status[s]] /\ status[s] \in Goods!Status \ {"DRAFT"}
  BY <1>1, <1>2, GoodsLevels DEF GoodsRight
<1>5. /\ reserved' \in [Skus -> BOOLEAN] /\ \A o \in Skus \ {s} : reserved'[o] = reserved[o]
      /\ sold' \subseteq Products
  <2>1. reserved \in [Skus -> BOOLEAN] /\ sold \subseteq Products /\ ProductOf[s] \in Products
    BY <1>1, GoodsLevels DEF GoodsRight
  <2>2. CASE Goods!ReserveSku(s) BY <2>1, <2>2 DEF Goods!ReserveSku
  <2>3. CASE Goods!EndReservation(s, paid) BY <2>1, <2>3 DEF Goods!EndReservation
  <2> QED BY <2>2, <2>3
<1>6. reserved'[s] => status[s] = "ACTIVE" /\ status[ProductOf[s]] = "ACTIVE"
  BY <1>1 DEF Goods!ReserveSku, Goods!EndReservation, Goods!PubliclyAvailable, GoodsRight
<1>7. status[s] = "ACTIVE" => status[ProductOf[s]] # "ARCHIVED"
  BY <1>1 DEF GoodsRight, Goods!ArchivedProductSellsNothing
<1>8. GoodsRight' BY <1>1, <1>2, <1>4, <1>5, <1>6, <1>7, GoodsSkuChanges
<1> QED BY <1>3, <1>8 DEF GoodsInv

LEMMA GoodsPreviewStep ==
  ASSUME Goods!CatalogueAssumption, GoodsInv,
         \/ \E r \in Goods!Resources, a \in Goods!LifecycleAction : Goods!ShowImpact(r, a)
         \/ \E p \in held : Goods!Abandon(p)
         \/ UNCHANGED Goods!vars
  PROVE  GoodsInv'
<1>1. GoodsHeldRight /\ GoodsRight BY DEF GoodsInv
<1>2. UNCHANGED <<status, brand, category, gallery, reserved, sold>>
  BY DEF Goods!ShowImpact, Goods!Abandon, Goods!vars
<1>3. GoodsRight'
  BY <1>1, <1>2 DEF GoodsRight, Goods!ActiveProductIsOffered, Goods!ArchivedProductSellsNothing,
     Goods!HeldGoodsStay
<1>4. ASSUME NEW r \in Goods!Resources, NEW a \in Goods!LifecycleAction, Goods!ShowImpact(r, a)
      PROVE  GoodsHeldRight'
  <2> DEFINE p == [target |-> r, action |-> a, status |-> status[r], fresh |-> TRUE]
  <2>1. held' = held \cup {p} /\ Goods!Cardinality(held) < MaxHeld /\ status[r] # Goods!Absent
    BY <1>4 DEF Goods!ShowImpact, Goods!TransitionAllowed, Goods!LifecycleAction, Goods!Absent
  <2>2. p \in Goods!Preview /\ p.status = status[p.target] /\ p.status # Goods!Absent
    BY <1>1, <2>1 DEF Goods!Preview, GoodsRight
  <2> HIDE DEF p
  <2>0. Goods!IsFiniteSet(held) /\ Goods!Cardinality(held) \in Nat
    BY <1>1, GoodsFS_CardinalityType DEF GoodsHeldRight
  <2>3. Goods!IsFiniteSet(held') /\ Goods!Cardinality(held') <= Goods!Cardinality(held) + 1
        /\ Goods!Cardinality(held') \in Nat
    <3>1. /\ Goods!IsFiniteSet(held')
          /\ Goods!Cardinality(held') = IF p \in held THEN Goods!Cardinality(held) ELSE Goods!Cardinality(held) + 1
      BY <2>0, <2>1, GoodsFS_AddElement
    <3>2. CASE p \in held BY <2>0, <3>1, <3>2
    <3>3. CASE p \notin held BY <2>0, <3>1, <3>3
    <3> QED BY <3>2, <3>3
  <2>4. Goods!Cardinality(held') <= MaxHeld BY <2>0, <2>1, <2>3 DEF Goods!CatalogueAssumption
  <2>5. held' \subseteq Goods!Preview BY <1>1, <2>1, <2>2 DEF GoodsHeldRight
  <2>6. GoodsFreshIsTrue' BY <1>1, <1>2, <2>1, <2>2 DEF GoodsHeldRight, GoodsFreshIsTrue
  <2> QED BY <2>3, <2>4, <2>5, <2>6 DEF GoodsHeldRight
<1>5. ASSUME held' \subseteq held PROVE GoodsHeldRight'
  <2>1. \A p \in held' : p.fresh => status'[p.target] = status[p.target] BY <1>2
  <2> QED BY <1>1, <1>5, <2>1, GoodsSameHeld
<1>6. (\E p \in held : Goods!Abandon(p)) \/ UNCHANGED Goods!vars => held' \subseteq held
  BY DEF Goods!Abandon, Goods!vars
<1> QED BY <1>3, <1>4, <1>5, <1>6 DEF GoodsInv

LEMMA GoodsInitially == Goods!CatalogueAssumption /\ Goods!Init => GoodsInv
<1> SUFFICES ASSUME Goods!CatalogueAssumption, Goods!Init PROVE GoodsInv
  OBVIOUS
<1>1. status \in [Goods!Resources -> Goods!Status] /\ \A r \in Goods!Resources : status[r] = Goods!Absent
  BY DEF Goods!Init, Goods!Status
<1>2. GoodsRight
  BY <1>1, GoodsLevels DEF Goods!Init, GoodsRight, Goods!ActiveProductIsOffered,
     Goods!ArchivedProductSellsNothing, Goods!HeldGoodsStay, Goods!Absent
<1>3. GoodsHeldRight
  BY GoodsFS_EmptySet DEF Goods!Init, GoodsHeldRight, GoodsFreshIsTrue, Goods!CatalogueAssumption
<1> QED BY <1>2, <1>3 DEF GoodsInv

LEMMA GoodsStepwise == Goods!CatalogueAssumption /\ GoodsInv /\ [Goods!Next]_Goods!vars => GoodsInv'
<1> SUFFICES ASSUME Goods!CatalogueAssumption, GoodsInv, [Goods!Next]_Goods!vars PROVE GoodsInv'
  OBVIOUS
<1> QED BY GoodsConfirmStep, GoodsRestoreStep, GoodsCreateStep, GoodsEditStep, GoodsReservationStep,
   GoodsPreviewStep DEF Goods!Next

LEMMA GoodsInvMeansSound == Goods!CatalogueAssumption /\ GoodsInv => Goods!OfferIsSound
<1> SUFFICES ASSUME Goods!CatalogueAssumption, GoodsInv PROVE Goods!OfferIsSound
  OBVIOUS
<1>1. Goods!ListedCanBeOrdered
  <2> SUFFICES ASSUME NEW p \in Products, Goods!Listed(p)
               PROVE  \E s \in Goods!SkusOf(p) : Goods!PubliclyAvailable(s)
    BY DEF Goods!ListedCanBeOrdered
  <2>1. PICK s \in Goods!SkusOf(p) : status[s] = "ACTIVE" BY DEF Goods!Listed
  <2> QED BY <2>1 DEF Goods!Listed, Goods!SkusOf, Goods!PubliclyAvailable, GoodsInv, GoodsRight,
     Goods!ActiveProductIsOffered
<1> QED BY <1>1 DEF GoodsInv, Goods!OfferIsSound, Goods!TypeOK, GoodsHeldRight, GoodsRight

--------------------------------
\* The lifecycle.

GoodsAsShown ==
  \A p \in held : (p \notin held' /\ status'[p.target] # status[p.target]) => p.status = status[p.target]
GoodsInOrder ==
  \A r \in Goods!Resources : /\ status[r] = "ARCHIVED" => status'[r] # "ACTIVE"
                             /\ status[r] = "ACTIVE" => status'[r] # "ARCHIVED"

LEMMA GoodsLifecycleStep ==
  ASSUME Goods!CatalogueAssumption, GoodsInv, [Goods!Next]_Goods!vars
  PROVE  GoodsAsShown /\ GoodsInOrder
<1>1. GoodsHeldRight /\ GoodsRight BY DEF GoodsInv
<1>2. CASE UNCHANGED status BY <1>2 DEF GoodsAsShown, GoodsInOrder
<1>3. ASSUME NEW r \in Goods!Resources, NEW new \in Goods!Status, status[r] = Goods!Absent,
             new \notin {"ACTIVE", "ARCHIVED"},
             status' = [status EXCEPT ![r] = new], UNCHANGED held
      PROVE  GoodsAsShown /\ GoodsInOrder
  BY <1>1, <1>3 DEF GoodsAsShown, GoodsInOrder, GoodsRight, Goods!Absent
<1>4. ASSUME NEW r \in Goods!Resources, Goods!Restore(r)
      PROVE  GoodsAsShown /\ GoodsInOrder
  <2>1. /\ status[r] = "ARCHIVED" /\ held' = Goods!Stale(held, r) /\ status'[r] # "ACTIVE"
        /\ \A o \in Goods!Resources \ {r} : status'[o] = status[o]
    BY <1>1, <1>4 DEF Goods!Restore, GoodsRight
  <2>2. \A p \in held : p \notin held' => p.target = r /\ p.fresh
    BY <1>1, <2>1, GoodsStaleFacts DEF GoodsHeldRight
  <2>3. GoodsAsShown BY <1>1, <2>2 DEF GoodsAsShown, GoodsHeldRight, GoodsFreshIsTrue
  <2>4. GoodsInOrder BY <2>1 DEF GoodsInOrder
  <2> QED BY <2>3, <2>4
<1>5. ASSUME NEW q \in held, Goods!ConfirmMaster(q) \/ Goods!ConfirmProduct(q) \/ Goods!ConfirmSku(q)
      PROVE  GoodsAsShown /\ GoodsInOrder
  <2>1. /\ q.target \in Goods!Resources /\ q.action \in Goods!LifecycleAction /\ q.fresh
        /\ Goods!TransitionAllowed(q.target, q.action)
        /\ status' = [status EXCEPT ![q.target] = Goods!NextStatus(q.action)]
        /\ held' = Goods!Stale(held \ {q}, q.target)
    BY <1>1, <1>5 DEF GoodsHeldRight, Goods!Preview, Goods!ConfirmMaster, Goods!ConfirmProduct, Goods!ConfirmSku,
       Goods!ApplyLifecycle
  <2>2. /\ \A o \in Goods!Resources \ {q.target} : status'[o] = status[o]
        /\ status'[q.target] = Goods!NextStatus(q.action)
    BY <1>1, <2>1 DEF GoodsRight
  <2>3. /\ status[q.target] = "ARCHIVED" => Goods!NextStatus(q.action) # "ACTIVE"
        /\ status[q.target] = "ACTIVE" => Goods!NextStatus(q.action) # "ARCHIVED"
    BY <2>1 DEF Goods!TransitionAllowed, Goods!NextStatus, Goods!LifecycleAction
  <2>4. \A p \in held : p \notin held' => p.fresh
    <3>1. Goods!IsFiniteSet(held \ {q}) /\ held \ {q} \subseteq Goods!Preview
      BY <1>1, GoodsFS_RemoveElement DEF GoodsHeldRight
    <3>2. \A p \in held \ {q} : p \notin held' => p.target = q.target /\ p.fresh
      BY <2>1, <3>1, GoodsStaleFacts
    <3> QED BY <2>1, <3>2
  <2>5. GoodsAsShown BY <1>1, <2>4 DEF GoodsAsShown, GoodsHeldRight, GoodsFreshIsTrue
  <2>6. GoodsInOrder BY <2>2, <2>3 DEF GoodsInOrder
  <2> QED BY <2>5, <2>6
<1>6. \/ UNCHANGED status
      \/ \E r \in Goods!Resources, new \in Goods!Status :
            /\ status[r] = Goods!Absent /\ new \notin {"ACTIVE", "ARCHIVED"}
            /\ status' = [status EXCEPT ![r] = new] /\ UNCHANGED held
      \/ \E r \in Goods!Resources : Goods!Restore(r)
      \/ \E q \in held : Goods!ConfirmMaster(q) \/ Goods!ConfirmProduct(q) \/ Goods!ConfirmSku(q)
  <2>1. {"DRAFT", "INACTIVE"} \subseteq Goods!Status BY DEF Goods!Status
  <2>2. ASSUME NEW m \in Goods!Masters, Goods!CreateMaster(m) PROVE <1>6
    BY <2>1, <2>2, GoodsLevels DEF Goods!CreateMaster
  <2>3. ASSUME NEW p \in Products, NEW b, NEW c, Goods!CreateProduct(p, b, c) PROVE <1>6
    BY <2>1, <2>3, GoodsLevels DEF Goods!CreateProduct
  <2>4. ASSUME NEW s \in Skus, Goods!CreateSku(s) PROVE <1>6
    BY <2>1, <2>4, GoodsLevels DEF Goods!CreateSku
  <2> QED BY <2>2, <2>3, <2>4 DEF Goods!Next, Goods!vars, Goods!UpdateMaster, Goods!UpdateProduct,
     Goods!UpdateSku, Goods!ReserveSku, Goods!EndReservation, Goods!RefundSale, Goods!ShowImpact,
     Goods!Abandon
<1> QED BY <1>2, <1>3, <1>4, <1>5, <1>6

--------------------------------
\* What it says of the trade of the mall.

LEMMA GoodsMoves ==
  ASSUME [TradeNext]_tradeVars
  PROVE  [Goods!Next]_(Goods!vars)
BY DEF TradeNext, tradeVars, goodsVars, Goods!vars, RulesStep, FirstStep, WalletStep, ServicingStep,
   CompensationStep, CheckoutStep, CartsStep, GoodsStep, Rest

LEMMA GoodsHolds ==
  /\ TradeInit => GoodsInv
  /\ GoodsInv /\ [TradeNext]_tradeVars => GoodsInv'
<1>1. Goods!CatalogueAssumption BY TradeAssumption
<1>2. TradeInit => GoodsInv BY <1>1, GoodsInitially DEF TradeInit
<1>3. GoodsInv /\ [TradeNext]_tradeVars => GoodsInv' BY <1>1, GoodsMoves, GoodsStepwise
<1> QED BY <1>2, <1>3

\* Catalogue: what is on sale can be sold, for any brands, categories,
\* products and SKUs.
THEOREM OfferAlwaysSound == TradeSpec => []OfferIsSound
<1>1. GoodsInv => OfferIsSound BY TradeAssumption, GoodsInvMeansSound DEF OfferIsSound
<1> QED BY <1>1, GoodsHolds, PTL DEF TradeSpec

\* Catalogue: what an administrator previewed is done to the status that was
\* shown, and goods change along their lifecycle, without a shortcut.
THEOREM LifecycleAlwaysKept == TradeSpec => Goods!LifecycleKept
<1>1. GoodsInv /\ [TradeNext]_tradeVars => [Goods!Next]_(Goods!vars) /\ GoodsAsShown
  BY TradeAssumption, GoodsMoves, GoodsLifecycleStep
<1>2. GoodsAsShown => \A v \in held : (v \notin held' /\ status'[v.target] # status[v.target])
                                         => v.status = status[v.target]
  BY DEF GoodsAsShown
<1>3. GoodsInv /\ [TradeNext]_tradeVars =>
        [\A r \in Goods!Resources :
            /\ status[r] = "ARCHIVED" => status'[r] # "ACTIVE"
            /\ status[r] = "ACTIVE" => status'[r] # "ARCHIVED"]_(Goods!vars)
  BY TradeAssumption, GoodsMoves, GoodsLifecycleStep DEF GoodsInOrder
<1>4. TradeSpec => Goods!ActedOnAsShown  BY <1>1, <1>2, GoodsHolds, PTL DEF TradeSpec, Goods!ActedOnAsShown
<1>5. TradeSpec => Goods!NoShortcut BY <1>3, GoodsHolds, PTL DEF TradeSpec, Goods!NoShortcut
<1> QED BY <1>4, <1>5 DEF Goods!LifecycleKept

\* AgentWallet, StoreCheckout, Catalogue: a command that was previewed does
\* what its administrator was shown, to what was shown.
THEOREM AlwaysActsAsShown == TradeSpec => ActedAsShown
BY ReviewsAlwaysStand, CheckoutAlwaysKeeps, LifecycleAlwaysKept DEF ActedAsShown

--------------------------------
\* ConfigVersions, for any number of publishers, readers, versions and
\* moments.  The versions are in order because of what a publisher has
\* seen when he begins (BegunAfterSeen); a reader takes the version in
\* force because they are, and because a settlement begins after its
\* payment (SettledAfterPaid).

Version == [status : {"PUBLISHED", "ARCHIVED"}, effective : Nat, base : Nat, seen : Int]

\* What TypeOK leaves to TLC: the shapes of the functions.
Shapes ==
  /\ now \in Nat
  /\ versions \in Seq(Version)
  /\ preview \in [Publishers -> Int]
  /\ pub \in [Publishers -> [phase : {"idle", "begun", "snapped"}, start : Nat, snap : Nat]]
  /\ reader \in [Readers -> [phase : {"unpaid", "idle", "begun", "snapped", "done"}, start : Nat,
                             snap : Nat, kind : Kinds, paid : Nat, rule : Nat]]

\* The versions a publisher's preview showed began before his transaction.
BegunAfterSeen ==
  \A p \in Publishers : pub[p].phase # "idle" =>
    /\ preview[p] < MaxVersions
    /\ \A v \in 1 .. Current : v <= preview[p] => versions[v].effective <= pub[p].start

\* A settlement begins after its payment.
SettledAfterPaid ==
  \A r \in Readers :
    reader[r].kind = "settle" /\ reader[r].phase \in {"begun", "snapped"} =>
      reader[r].paid <= reader[r].start

IInv ==
  /\ Shapes /\ TypeOK
  /\ BegunAfterSeen /\ EffectiveInOrder /\ PublishedOverSeen
  /\ SettledAfterPaid

USE ConfigVersionsAssumption

--------------------------------
LEMMA InitIInv == Init => IInv
<1> SUFFICES ASSUME Init PROVE IInv
  OBVIOUS
<1>1. /\ versions \in Seq(Version) /\ Current \in {0, 1}
      /\ \A v \in 1 .. Current : /\ v = 1 /\ Current = 1
                                 /\ versions[v].status = "PUBLISHED" /\ versions[v].effective = 0
                                 /\ versions[v].base = 0 /\ versions[v].seen = 0
  <2> DEFINE first == [status |-> "PUBLISHED", effective |-> 0, base |-> 0, seen |-> 0]
  <2>1. first \in Version BY DEF Version
  <2> HIDE DEF first
  <2>2. CASE Bootstrapped
    <3>1. versions = <<first>> BY <2>2 DEF Init, first
    <3> QED BY <2>1, <3>1 DEF Current, first
  <2>3. CASE ~Bootstrapped
    <3>1. versions = << >> BY <2>3 DEF Init
    <3> QED BY <3>1 DEF Current
  <2> QED BY <2>2, <2>3
<1>2. \A r \in Readers : /\ reader[r] \in [phase : {"unpaid", "idle"}, start : {0}, snap : {0},
                                           kind : Kinds, paid : {0}, rule : {0}]
  BY DEF Init
<1>3. /\ \A p \in Publishers : pub[p] = Idle /\ preview[p] = -1
      /\ now = 0 /\ preview \in [Publishers -> Int]
      /\ pub \in [Publishers -> {Idle}]
      /\ reader \in [Readers -> [phase : {"unpaid", "idle"}, start : {0}, snap : {0},
                                 kind : Kinds, paid : {0}, rule : {0}]]
  BY <1>2 DEF Init, NoPreview
<1>4. Shapes BY <1>1, <1>2, <1>3 DEF Shapes, Idle
<1>5. TypeOK BY <1>1, <1>2, <1>3 DEF TypeOK, Idle, NoPreview
<1>6. BegunAfterSeen /\ EffectiveInOrder /\ PublishedOverSeen /\ SettledAfterPaid
  BY <1>1, <1>2, <1>3 DEF BegunAfterSeen, EffectiveInOrder, PublishedOverSeen, SettledAfterPaid, Idle
<1> QED BY <1>4, <1>5, <1>6 DEF IInv

\* Steps of a publisher that publish nothing.
LEMMA PublisherStep ==
  ASSUME IInv, NEW p \in Publishers, NEW seen, NEW row,
         UNCHANGED <<now, versions, reader>>,
         preview' = [preview EXCEPT ![p] = seen], seen \in NoPreview .. Current,
         pub' = [pub EXCEPT ![p] = row],
         row \in [phase : {"idle", "begun", "snapped"}, start : 0 .. now, snap : 0 .. Current],
         row.phase # "idle" => /\ seen < MaxVersions
                               /\ \A v \in 1 .. Current : v <= seen => versions[v].effective <= row.start
  PROVE  IInv'
<1>1. now \in Nat /\ Current \in Nat /\ seen \in Int BY DEF IInv, Shapes, Current, NoPreview
<1>2. \A q \in Publishers : /\ preview'[q] = (IF q = p THEN seen ELSE preview[q])
                            /\ pub'[q] = (IF q = p THEN row ELSE pub[q])
  BY DEF IInv, Shapes
<1>3. Current' = Current BY DEF Current
<1>4. Shapes' BY <1>1 DEF IInv, Shapes
<1>5. TypeOK' BY <1>1, <1>2, <1>3 DEF IInv, TypeOK
<1>6. BegunAfterSeen' BY <1>2, <1>3 DEF IInv, BegunAfterSeen
<1>7. EffectiveInOrder' /\ PublishedOverSeen' /\ SettledAfterPaid'
  BY <1>3 DEF IInv, EffectiveInOrder, PublishedOverSeen, SettledAfterPaid
<1> QED BY <1>4, <1>5, <1>6, <1>7 DEF IInv

\* A publication appends a version that begins after all there are.
LEMMA PublishStep ==
  ASSUME IInv, NEW p \in Publishers, Publish(p)
  PROVE  IInv'
<1>1. /\ Current = preview[p] /\ Current = pub[p].snap /\ pub[p].phase = "snapped"
      /\ Current \in Nat /\ pub[p].start \in 0 .. now
  BY DEF Publish, Undisturbed, Confirmed, IInv, Shapes, TypeOK, Current
<1>2. /\ versions' \in Seq(Version) /\ Current' = Current + 1
      /\ \A v \in 1 .. Current : /\ versions'[v].effective = versions[v].effective
                                 /\ versions'[v].base = versions[v].base
                                 /\ versions'[v].seen = versions[v].seen
                                 /\ versions'[v].status = "ARCHIVED"
      /\ versions'[Current + 1] = [status |-> "PUBLISHED", effective |-> pub[p].start,
                                   base |-> pub[p].snap, seen |-> preview[p]]
  <2> DEFINE old == [v \in 1 .. Current |-> [versions[v] EXCEPT !.status = "ARCHIVED"]]
  <2> DEFINE new == [status |-> "PUBLISHED", effective |-> pub[p].start,
                     base |-> pub[p].snap, seen |-> preview[p]]
  <2>1. versions' = Append(old, new) BY DEF Publish, Published
  <2>2. old \in Seq(Version) /\ Len(old) = Current
    <3>1. \A v \in 1 .. Current : versions[v] \in Version BY ElementOfSeq DEF IInv, Shapes, Current
    <3>2. old \in [1 .. Current -> Version] BY <3>1 DEF Version
    <3> HIDE DEF old
    <3>3. old \in Seq(Version) BY <1>1, <3>2, SeqDef
    <3>4. DOMAIN old = 1 .. Len(old) /\ Len(old) \in Nat BY <3>3, LenProperties
    <3>5. \A m, n \in Nat : 1 .. m = 1 .. n => m = n
      <4>1. ASSUME NEW m \in Nat, NEW n \in Nat, 1 .. m = 1 .. n, m < n PROVE FALSE
        <5>1. n \in 1 .. n /\ n \notin 1 .. m BY <4>1
        <5> QED BY <4>1, <5>1
      <4> QED BY <4>1
    <3>6. 1 .. Len(old) = 1 .. Current BY <3>2, <3>4
    <3> QED BY <1>1, <3>3, <3>4, <3>5, <3>6
  <2>3. new \in Version BY <1>1 DEF IInv, Shapes, Version
  <2>4. \A v \in 1 .. Current : /\ old[v].effective = versions[v].effective
                                /\ old[v].base = versions[v].base
                                /\ old[v].seen = versions[v].seen
                                /\ old[v].status = "ARCHIVED"
    BY <1>1 DEF IInv, Shapes, Version, Current
  <2> HIDE DEF old, new
  <2>5. Len(versions') = Current + 1 /\ versions' \in Seq(Version) BY <2>1, <2>2, <2>3
  <2>6. versions'[Current + 1] = new /\ \A v \in 1 .. Current : versions'[v] = old[v]
    BY <1>1, <2>1, <2>2, <2>3
  <2> QED BY <2>4, <2>5, <2>6 DEF Current, new
<1>3. BegunAfterSeen /\ pub[p].phase # "idle" BY <1>1 DEF IInv
<1>4. \A v \in 1 .. Current : versions[v].effective <= pub[p].start
  <2>1. \A v \in 1 .. Current : v <= preview[p] BY <1>1
  <2> QED BY <1>3, <2>1 DEF BegunAfterSeen
<1>5. /\ preview' = [preview EXCEPT ![p] = NoPreview] /\ pub' = [pub EXCEPT ![p] = Idle]
      /\ UNCHANGED <<now, reader>>
  BY DEF Publish
<1>6. \A q \in Publishers : /\ preview'[q] = (IF q = p THEN NoPreview ELSE preview[q])
                            /\ pub'[q] = (IF q = p THEN Idle ELSE pub[q])
  BY <1>5 DEF IInv, Shapes
<1>7. Current + 1 <= MaxVersions
  <2>1. preview[p] < MaxVersions BY <1>3 DEF BegunAfterSeen
  <2> QED BY <1>1, <2>1
<1>8. Shapes' BY <1>2, <1>5 DEF IInv, Shapes, Idle, NoPreview
<1>9. TypeOK'
  <2>1. \A v \in 1 .. Current' : v \in 1 .. Current \/ v = Current + 1 BY <1>1, <1>2
  <2>2. \A v \in 1 .. Current' :
          /\ versions'[v].status = (IF v = Current' THEN "PUBLISHED" ELSE "ARCHIVED")
          /\ versions'[v].effective \in 0 .. now'
    BY <1>1, <1>2, <1>5, <2>1 DEF IInv, TypeOK
  <2>3. \A q \in Publishers :
          /\ preview'[q] \in NoPreview .. Current'
          /\ pub'[q] \in [phase : {"idle", "begun", "snapped"}, start : 0 .. now', snap : 0 .. Current']
    BY <1>6, <1>1, <1>2, <1>5 DEF IInv, Shapes, TypeOK, Idle, NoPreview
  <2>4. \A r \in Readers :
          reader'[r] \in [phase : {"unpaid", "idle", "begun", "snapped", "done"}, start : 0 .. now',
                          snap : 0 .. Current', kind : Kinds, paid : 0 .. now', rule : 0 .. Current']
    BY <1>1, <1>2, <1>5 DEF IInv, TypeOK
  <2> QED BY <1>2, <1>5, <1>7, <2>2, <2>3, <2>4 DEF IInv, TypeOK
<1>10. BegunAfterSeen'
  <2>1. SUFFICES ASSUME NEW q \in Publishers, pub'[q].phase # "idle"
                 PROVE  /\ preview'[q] < MaxVersions
                        /\ \A v \in 1 .. Current' : v <= preview'[q] => versions'[v].effective <= pub'[q].start
    BY DEF BegunAfterSeen
  <2>2. q # p /\ preview'[q] = preview[q] /\ pub'[q] = pub[q] BY <1>6, <2>1 DEF Idle
  <2>3. preview[q] \in NoPreview .. Current BY DEF IInv, TypeOK
  <2> QED BY <1>1, <1>2, <2>1, <2>2, <2>3 DEF IInv, BegunAfterSeen, NoPreview
<1>11. \A v \in 1 .. Current' : v \in 1 .. Current \/ v = Current + 1 BY <1>1, <1>2
<1>12. EffectiveInOrder'
  <2> SUFFICES ASSUME NEW v \in 1 .. Current', NEW w \in 1 .. Current', v < w
               PROVE  versions'[v].effective <= versions'[w].effective
    BY DEF EffectiveInOrder
  <2>1. v \in 1 .. Current BY <1>1, <1>2
  <2>2. CASE w \in 1 .. Current BY <1>2, <2>1, <2>2 DEF IInv, EffectiveInOrder
  <2>3. CASE w = Current + 1 BY <1>1, <1>2, <1>4, <2>1, <2>3
  <2> QED BY <1>11, <2>2, <2>3
<1>13. PublishedOverSeen' BY <1>1, <1>2, <1>11 DEF IInv, PublishedOverSeen
<1>14. SettledAfterPaid' BY <1>5 DEF IInv, SettledAfterPaid
<1> QED BY <1>8, <1>9, <1>10, <1>12, <1>13, <1>14 DEF IInv


\* Steps of a reader.
LEMMA ReaderStep ==
  ASSUME IInv, NEW r \in Readers, NEW row,
         UNCHANGED <<now, versions, preview, pub>>,
         reader' = [reader EXCEPT ![r] = row],
         row \in [phase : {"unpaid", "idle", "begun", "snapped", "done"}, start : 0 .. now,
                  snap : 0 .. Current, kind : Kinds, paid : 0 .. now, rule : 0 .. Current],
         row.kind = "settle" /\ row.phase \in {"begun", "snapped"} => row.paid <= row.start
  PROVE  IInv'
<1>1. now \in Nat /\ Current \in Nat /\ Current' = Current BY DEF IInv, Shapes, Current
<1>2. \A q \in Readers : reader'[q] = (IF q = r THEN row ELSE reader[q]) BY DEF IInv, Shapes
<1>3. Shapes' BY <1>1 DEF IInv, Shapes
<1>4. TypeOK' BY <1>1, <1>2 DEF IInv, TypeOK
<1>5. SettledAfterPaid' BY <1>2 DEF IInv, SettledAfterPaid
<1>6. BegunAfterSeen' /\ EffectiveInOrder' /\ PublishedOverSeen'
  BY <1>1 DEF IInv, BegunAfterSeen, EffectiveInOrder, PublishedOverSeen
<1> QED BY <1>3, <1>4, <1>5, <1>6 DEF IInv

LEMMA TickStep == IInv /\ Tick => IInv'
<1> SUFFICES ASSUME IInv, Tick PROVE IInv'
  OBVIOUS
<1>1. /\ now \in Nat /\ now' = now + 1 /\ now' <= MaxTime /\ Current \in Nat /\ Current' = Current
      /\ UNCHANGED <<versions, preview, pub, reader>>
  BY DEF IInv, Shapes, Tick, Current
<1>2. 0 .. now \subseteq 0 .. now' BY <1>1
<1>3. Shapes' BY <1>1 DEF IInv, Shapes
<1>4. TypeOK'
  <2>1. \A p \in Publishers :
          pub[p] \in [phase : {"idle", "begun", "snapped"}, start : 0 .. now', snap : 0 .. Current]
    BY <1>2 DEF IInv, TypeOK
  <2>2. \A r \in Readers :
          reader[r] \in [phase : {"unpaid", "idle", "begun", "snapped", "done"}, start : 0 .. now',
                         snap : 0 .. Current, kind : Kinds, paid : 0 .. now', rule : 0 .. Current]
    BY <1>2 DEF IInv, TypeOK
  <2> QED BY <1>1, <1>2, <2>1, <2>2 DEF IInv, TypeOK
<1>5. BegunAfterSeen' /\ EffectiveInOrder' /\ PublishedOverSeen' /\ SettledAfterPaid'
  BY <1>1 DEF IInv, BegunAfterSeen, EffectiveInOrder, PublishedOverSeen, SettledAfterPaid
<1> QED BY <1>3, <1>4, <1>5 DEF IInv

--------------------------------
\* A nonempty set of version numbers has a greatest one.
LEMMA GreatestVersion ==
  ASSUME NEW n \in Nat, NEW T \in SUBSET (1 .. n), T # {}
  PROVE  \E x \in T : \A y \in T : y <= x
<1> DEFINE R == OpToRel(<, Nat)
           U == {n - x : x \in T}
<1>1. IsWellFoundedOn(R, Nat) BY NatLessThanWellFounded
<1>2. U \subseteq Nat /\ U # {}
  <2>1. \A x \in T : n - x \in Nat
    <3>1. ASSUME NEW x \in T PROVE n - x \in Nat
      <4>1. x \in Int /\ x <= n
        OBVIOUS
      <4> QED BY <4>1
    <3> QED BY <3>1
  <2> QED BY <2>1
<1> HIDE DEF R
<1>3. \E x \in U : \A y \in U : ~(<<y, x>> \in R) BY <1>1, <1>2, WFMin
<1>4. R = {ss \in Nat \X Nat : ss[1] < ss[2]} BY Zenon DEF R, OpToRel
<1>5. PICK x \in T : \A y \in T : ~(<<n - y, n - x>> \in R) BY <1>3
<1>6. ASSUME NEW y \in T PROVE y <= x
  <2>1. n - x \in Nat /\ n - y \in Nat /\ x \in Nat /\ y \in Nat
    OBVIOUS
  <2>2. <<n - y, n - x>> \notin R BY <1>5
  <2>3. ~(n - y < n - x) BY <1>4, <2>1, <2>2
  <2> QED BY <2>1, <2>3
<1> QED BY <1>6

\* Since versions take effect in order, the newest of a set of them is the
\* one with the greatest number.
LEMMA NewestIsGreatest ==
  ASSUME IInv, NEW T \in SUBSET (1 .. Current), T # {}
  PROVE  Newest(T) \in T /\ \A w \in T : w <= Newest(T)
<1>1. Current \in Nat /\ \A v \in 1 .. Current : versions[v].effective \in Nat
  BY DEF IInv, Shapes, TypeOK, Current
<1>2. PICK x \in T : \A y \in T : y <= x BY <1>1, GreatestVersion
<1>3. \A v, w \in T : v < w => versions[v].effective <= versions[w].effective  BY DEF IInv, EffectiveInOrder
<1> DEFINE Last(v) == \A w \in T : \/ versions[w].effective < versions[v].effective
                                   \/ versions[w].effective = versions[v].effective /\ w <= v
<1>4. Last(x)
  <2>1. SUFFICES ASSUME NEW w \in T
                 PROVE  \/ versions[w].effective < versions[x].effective
                        \/ versions[w].effective = versions[x].effective /\ w <= x
    OBVIOUS
  <2>2. w \in Int /\ x \in Int /\ w <= x BY <1>2, 1 .. Current \subseteq Int
  <2>3. versions[w].effective \in Nat /\ versions[x].effective \in Nat BY <1>1
  <2> QED BY <1>3, <2>2, <2>3
<1>5. Newest(T) \in T /\ Last(Newest(T)) BY <1>4 DEF Newest
<1>6. ASSUME NEW w \in T PROVE w <= Newest(T)
  <2>1. w \in 1 .. Current /\ Newest(T) \in 1 .. Current BY <1>5
  <2>2. Newest(T) < w => versions[Newest(T)].effective <= versions[w].effective BY <1>3, <1>5
  <2>3. /\ versions[w].effective \in Nat /\ versions[Newest(T)].effective \in Nat
        /\ w \in Int /\ Newest(T) \in Int
    BY <1>1, <2>1
  <2>4. \/ versions[w].effective < versions[Newest(T)].effective
        \/ w <= Newest(T)
    BY <1>5
  <2>5. CASE Newest(T) < w BY <2>2, <2>3, <2>4, <2>5
  <2>6. CASE w <= Newest(T) BY <2>6
  <2> QED BY <2>3, <2>5, <2>6
<1> QED BY <1>5, <1>6


LEMMA RulesAreVersions ==
  ASSUME IInv, NEW r \in Readers
  PROVE  Rules(r) \in SUBSET (1 .. reader[r].snap) /\ Rules(r) \in SUBSET (1 .. Current)
<1>1. reader[r].snap \in 0 .. Current /\ reader[r].kind \in Kinds /\ Current \in Nat
  BY DEF IInv, Shapes, TypeOK, Current
<1>2. {reader[r].snap} \ {0} \subseteq 1 .. reader[r].snap BY <1>1
<1>3. 1 .. reader[r].snap \subseteq 1 .. Current BY <1>1
<1>4. Rules(r) \subseteq 1 .. reader[r].snap
  <2>1. RulesOfPayment(r) \subseteq 1 .. reader[r].snap BY DEF RulesOfPayment
  <2>2. /\ RulesOfCompletion(r) \subseteq {reader[r].snap} \ {0}
        /\ RulesOfWithdrawal(r) \subseteq {reader[r].snap} \ {0}
        /\ AddressOfReturn(r) \subseteq {reader[r].snap} \ {0}
    BY DEF RulesOfCompletion, RulesOfWithdrawal, AddressOfReturn
  <2>3. reader[r].kind \in {"settle", "complete", "withdraw", "approve"} BY <1>1
  <2> QED BY <1>2, <2>1, <2>2, <2>3 DEF Rules
<1> QED BY <1>3, <1>4

--------------------------------
\* Every step preserves the invariant.
LEMMA NextIInv == IInv /\ [Next]_vars => IInv'
<1> SUFFICES ASSUME IInv, [Next]_vars PROVE IInv'
  OBVIOUS
<1>0. /\ now \in Nat /\ Current \in Nat
      /\ \A p \in Publishers :
           /\ preview[p] \in NoPreview .. Current
           /\ pub[p] \in [phase : {"idle", "begun", "snapped"}, start : 0 .. now, snap : 0 .. Current]
      /\ \A r \in Readers :
           reader[r] \in [phase : {"unpaid", "idle", "begun", "snapped", "done"}, start : 0 .. now,
                          snap : 0 .. Current, kind : Kinds, paid : 0 .. now, rule : 0 .. Current]
      /\ preview \in [Publishers -> Int]
      /\ DOMAIN pub = Publishers /\ DOMAIN reader = Readers
  BY DEF IInv, Shapes, TypeOK, Current
<1>1. now \in 0 .. now /\ Current \in 0 .. Current /\ Current \in NoPreview .. Current  BY <1>0 DEF NoPreview
<1>2. CASE UNCHANGED vars
  BY <1>2 DEF vars, IInv, Shapes, TypeOK, BegunAfterSeen, EffectiveInOrder, PublishedOverSeen,
     SettledAfterPaid, Current
<1>3. CASE Tick BY <1>3, TickStep
<1>4. ASSUME NEW p \in Publishers, Preview(p) PROVE IInv'
  <2>1. /\ pub' = [pub EXCEPT ![p] = pub[p]] /\ preview' = [preview EXCEPT ![p] = Current]
        /\ Current \in NoPreview .. Current /\ pub[p].phase = "idle"
        /\ UNCHANGED <<now, versions, reader>>
    BY <1>1, <1>4 DEF Preview, IInv, Shapes
  <2> QED BY <1>0, <2>1, PublisherStep
<1>5. ASSUME NEW p \in Publishers, BeginPublish(p) PROVE IInv'
  <2> DEFINE row == [phase |-> "begun", start |-> now, snap |-> 0]
  <2>1. /\ pub' = [pub EXCEPT ![p] = row] /\ preview' = [preview EXCEPT ![p] = preview[p]]
        /\ UNCHANGED <<now, versions, reader>>
    BY <1>0, <1>5 DEF BeginPublish
  <2>2. row \in [phase : {"idle", "begun", "snapped"}, start : 0 .. now, snap : 0 .. Current]  BY <1>0, <1>1
  <2>3. preview[p] < MaxVersions BY <1>0, <1>5 DEF BeginPublish, NoPreview
  <2>4. \A v \in 1 .. Current : versions[v].effective <= row.start BY <1>0 DEF IInv, TypeOK
  <2> QED BY <1>0, <2>1, <2>2, <2>3, <2>4, PublisherStep
<1>6. ASSUME NEW p \in Publishers, SnapshotPublish(p) PROVE IInv'
  <2> DEFINE row == [pub[p] EXCEPT !.phase = "snapped", !.snap = Current]
  <2>1. /\ pub' = [pub EXCEPT ![p] = row] /\ preview' = [preview EXCEPT ![p] = preview[p]]
        /\ UNCHANGED <<now, versions, reader>>
    BY <1>0, <1>6 DEF SnapshotPublish
  <2>2. row \in [phase : {"idle", "begun", "snapped"}, start : 0 .. now, snap : 0 .. Current]  BY <1>0, <1>1
  <2>3. /\ preview[p] < MaxVersions /\ row.start = pub[p].start
        /\ \A v \in 1 .. Current : v <= preview[p] => versions[v].effective <= pub[p].start
    BY <1>0, <1>6 DEF SnapshotPublish, IInv, BegunAfterSeen
  <2> QED BY <1>0, <2>1, <2>2, <2>3, PublisherStep
<1>7. ASSUME NEW p \in Publishers, Publish(p) PROVE IInv'
  BY <1>7, PublishStep
<1>8. ASSUME NEW p \in Publishers, RefusePublish(p) PROVE IInv'
  <2>1. /\ pub' = [pub EXCEPT ![p] = Idle] /\ preview' = [preview EXCEPT ![p] = preview[p]]
        /\ UNCHANGED <<now, versions, reader>>
    BY <1>0, <1>8 DEF RefusePublish
  <2>2. /\ Idle \in [phase : {"idle", "begun", "snapped"}, start : 0 .. now, snap : 0 .. Current]
        /\ Idle.phase = "idle"
    BY <1>0 DEF Idle
  <2> QED BY <1>0, <2>1, <2>2, PublisherStep
<1>9. ASSUME NEW r \in Readers, Pay(r) PROVE IInv'
  <2> DEFINE row == [reader[r] EXCEPT !.phase = "idle", !.paid = now]
  <2>1. reader' = [reader EXCEPT ![r] = row] /\ UNCHANGED <<now, versions, preview, pub>>
    BY <1>0, <1>9 DEF Pay
  <2>2. /\ row.phase = "idle"
        /\ row \in [phase : {"unpaid", "idle", "begun", "snapped", "done"}, start : 0 .. now,
                    snap : 0 .. Current, kind : Kinds, paid : 0 .. now, rule : 0 .. Current]
    BY <1>0, <1>1
  <2> QED BY <2>1, <2>2, ReaderStep
<1>10. ASSUME NEW r \in Readers, BeginRead(r) PROVE IInv'
  <2> DEFINE row == [reader[r] EXCEPT !.phase = "begun", !.start = now]
  <2>1. reader' = [reader EXCEPT ![r] = row] /\ UNCHANGED <<now, versions, preview, pub>>
    BY <1>0, <1>10 DEF BeginRead
  <2>2. row \in [phase : {"unpaid", "idle", "begun", "snapped", "done"}, start : 0 .. now,
                 snap : 0 .. Current, kind : Kinds, paid : 0 .. now, rule : 0 .. Current]
    BY <1>0, <1>1
  <2>3. row.start = now /\ row.paid \in 0 .. now BY <1>0
  <2>4. row.paid <= row.start BY <2>3
  <2> QED BY <2>1, <2>2, <2>4, ReaderStep
<1>11. ASSUME NEW r \in Readers, SnapshotRead(r) PROVE IInv'
  <2> DEFINE row == [reader[r] EXCEPT !.phase = "snapped", !.snap = Current]
  <2>1. reader' = [reader EXCEPT ![r] = row] /\ UNCHANGED <<now, versions, preview, pub>>
    BY <1>0, <1>11 DEF SnapshotRead
  <2>2. row \in [phase : {"unpaid", "idle", "begun", "snapped", "done"}, start : 0 .. now,
                 snap : 0 .. Current, kind : Kinds, paid : 0 .. now, rule : 0 .. Current]
    BY <1>0, <1>1
  <2>3. row.kind = "settle" => row.paid <= row.start  BY <1>0, <1>11 DEF SnapshotRead, IInv, SettledAfterPaid
  <2> QED BY <2>1, <2>2, <2>3, ReaderStep
<1>12. ASSUME NEW r \in Readers, TakeRule(r) PROVE IInv'
  <2> DEFINE rule == Newest(Rules(r))
             row == [reader[r] EXCEPT !.phase = "done", !.rule = rule]
  <2>1. reader' = [reader EXCEPT ![r] = row] /\ UNCHANGED <<now, versions, preview, pub>>
    BY <1>0, <1>12 DEF TakeRule
  <2>2. rule \in 0 .. Current
    <3>1. Rules(r) \in SUBSET (1 .. Current) BY <1>0, RulesAreVersions
    <3> QED BY <1>0, <1>12, <3>1, NewestIsGreatest DEF TakeRule
  <2>3. /\ row.phase = "done"
        /\ row \in [phase : {"unpaid", "idle", "begun", "snapped", "done"}, start : 0 .. now,
                    snap : 0 .. Current, kind : Kinds, paid : 0 .. now, rule : 0 .. Current]
    BY <1>0, <2>2
  <2> QED BY <2>1, <2>3, ReaderStep
<1>13. ASSUME NEW r \in Readers, RefuseRead(r) PROVE IInv'
  <2> DEFINE row == [reader[r] EXCEPT !.phase = "idle"]
  <2>1. reader' = [reader EXCEPT ![r] = row] /\ UNCHANGED <<now, versions, preview, pub>>
    BY <1>0, <1>13 DEF RefuseRead
  <2>2. /\ row.phase = "idle"
        /\ row \in [phase : {"unpaid", "idle", "begun", "snapped", "done"}, start : 0 .. now,
                    snap : 0 .. Current, kind : Kinds, paid : 0 .. now, rule : 0 .. Current]
    BY <1>0, <1>1
  <2> QED BY <2>1, <2>2, ReaderStep
<1> QED BY <1>2, <1>3, <1>4, <1>5, <1>6, <1>7, <1>8, <1>9, <1>10, <1>11, <1>12, <1>13 DEF Next


THEOREM Inductive == Spec => []IInv
BY InitIInv, NextIInv, PTL DEF Spec

\* Configuration is well typed in every reachable state of every size; one
\* version, the last, is PUBLISHED.
THEOREM Typed == Spec => []TypeOK
BY Inductive, PTL DEF IInv

\* Nobody publishes over a version he has not seen.
THEOREM SeenBeforePublished == Spec => []PublishedOverSeen
BY Inductive, PTL DEF IInv

\* A later version never takes effect before an earlier one.
THEOREM InOrder == Spec => []EffectiveInOrder
BY Inductive, PTL DEF IInv

\* Together: versions follow one another as their publishers saw them.
THEOREM Orderly == Spec => []HistoryInOrder
BY Typed, InOrder, SeenBeforePublished, PTL DEF HistoryInOrder

--------------------------------
\* One reader's share of TakesTheVersionInForce.
InForce(r) ==
  reader[r].phase # "done" /\ reader'[r].phase = "done" =>
    LET rule == reader'[r].rule IN
    /\ \A w \in rule + 1 .. Current : versions[w].effective > MomentOf(r)
    /\ reader[r].kind = "settle" => versions[rule].effective <= reader[r].paid

\* A reader takes a version by TakeRule only.
LEMMA OnlyTakeRule ==
  ASSUME IInv, [Next]_vars, NEW r \in Readers,
         reader[r].phase # "done", reader'[r].phase = "done"
  PROVE  TakeRule(r)
<1>1. reader \in [Readers -> [phase : {"unpaid", "idle", "begun", "snapped", "done"}, start : Nat,
                              snap : Nat, kind : Kinds, paid : Nat, rule : Nat]]
  BY DEF IInv, Shapes
<1>2. reader' # reader
  OBVIOUS
<1>3. PICK q \in Readers : Pay(q) \/ BeginRead(q) \/ SnapshotRead(q) \/ TakeRule(q) \/ RefuseRead(q)
  BY <1>2 DEF Next, vars, Tick, Preview, BeginPublish, SnapshotPublish, Publish, RefusePublish
<1>4. TakeRule(q) /\ q = r
  <2>1. ~ (Pay(q) \/ BeginRead(q) \/ SnapshotRead(q) \/ RefuseRead(q))
    BY <1>1 DEF Pay, BeginRead, SnapshotRead, RefuseRead
  <2>2. TakeRule(q) BY <1>3, <2>1
  <2> QED BY <1>1, <2>2 DEF TakeRule
<1> QED BY <1>4

\* The version taken is the newest in force of those committed.
LEMMA TakesInForce ==
  ASSUME IInv, NEW r \in Readers, TakeRule(r)
  PROVE  InForce(r)
<1> DEFINE rule == Newest(Rules(r))
           snap == reader[r].snap
<1>1. /\ reader'[r].rule = rule /\ Rules(r) # {} /\ (rule = snap => snap = Current)
      /\ reader[r].phase = "snapped"
  BY DEF TakeRule, Moved, Undisturbed, IInv, Shapes
<1>2. /\ Current \in Nat /\ snap \in 0 .. Current
      /\ reader[r].paid \in Nat /\ reader[r].start \in Nat /\ reader[r].kind \in Kinds
      /\ \A v \in 1 .. Current : versions[v].effective \in Nat
  BY DEF IInv, Shapes, TypeOK, Current
<1>3. /\ rule \in Rules(r) /\ rule \in 1 .. snap /\ rule \in 1 .. Current
      /\ \A w \in Rules(r) : w <= rule
  BY <1>1, RulesAreVersions, NewestIsGreatest
<1> HIDE DEF rule
<1>4. CASE reader[r].kind = "settle"
  <2>1. Rules(r) = RulesOfPayment(r) /\ MomentOf(r) = reader[r].paid BY <1>4 DEF Rules, MomentOf
  <2>2. versions[rule].effective <= reader[r].paid BY <1>3, <2>1 DEF RulesOfPayment
  <2>3. reader[r].paid <= reader[r].start BY <1>1, <1>4 DEF IInv, SettledAfterPaid
  <2>4. ASSUME NEW w \in rule + 1 .. snap PROVE versions[w].effective > reader[r].paid
    <3>1. w \in 1 .. snap /\ w \in 1 .. Current /\ ~ (w <= rule) BY <1>2, <1>3
    <3>2. w \notin RulesOfPayment(r) BY <1>3, <2>1, <3>1
    <3>3. versions[w].effective \in Nat BY <1>2, <3>1
    <3>4. ~ (versions[w].effective <= reader[r].paid /\ versions[w].effective <= reader[r].start)
      BY <3>1, <3>2 DEF RulesOfPayment
    <3> QED BY <1>2, <2>3, <3>3, <3>4
  <2>5. ASSUME NEW w \in snap + 1 .. Current PROVE versions[w].effective > reader[r].paid
    <3>1. snap # Current /\ rule # snap BY <1>1, <1>2
    <3>2. snap \in rule + 1 .. snap /\ snap \in 1 .. Current /\ w \in 1 .. Current /\ snap < w
      BY <1>2, <1>3, <3>1
    <3>3. versions[snap].effective > reader[r].paid BY <2>4, <3>2
    <3>4. versions[snap].effective <= versions[w].effective BY <3>2 DEF IInv, EffectiveInOrder
    <3>5. versions[snap].effective \in Nat /\ versions[w].effective \in Nat BY <1>2, <3>2
    <3> QED BY <1>2, <3>3, <3>4, <3>5
  <2>6. \A w \in rule + 1 .. Current : w \in rule + 1 .. snap \/ w \in snap + 1 .. Current  BY <1>2, <1>3
  <2> QED BY <1>1, <2>1, <2>2, <2>4, <2>5, <2>6 DEF InForce
<1>5. CASE reader[r].kind # "settle"
  <2>1. Rules(r) \subseteq {snap}
    BY <1>2, <1>5 DEF Rules, RulesOfCompletion, RulesOfWithdrawal, AddressOfReturn
  <2>2. rule = Current BY <1>1, <1>3, <2>1
  <2>3. rule + 1 .. Current = {} BY <1>2, <2>2
  <2> QED BY <1>1, <1>5, <2>3 DEF InForce
<1> QED BY <1>4, <1>5

\* Whoever takes a version takes the newest one in force at his moment, of
\* all that are committed when he commits (the searches by effective_at of
\* settlements, completions and withdrawals, and their FOR UPDATE).
THEOREM InForceTaken == Spec => TakesTheVersionInForce
<1>1. IInv /\ [Next]_vars => \A r \in Readers : InForce(r)  BY OnlyTakeRule, TakesInForce DEF InForce
<1>2. IInv /\ [Next]_vars => [\A r \in Readers : InForce(r)]_vars BY <1>1
<1> QED BY <1>2, Inductive, PTL DEF Spec, TakesTheVersionInForce, InForce
=============================================================================
