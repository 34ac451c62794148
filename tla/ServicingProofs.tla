-------------------------- MODULE ServicingProofs --------------------------
(***************************************************************************)
(* Theorems about OrderServicing as the trade of the mall uses it, for any *)
(* order lines, quantities, prices, rate, aftersales and compensations.    *)
(*                                                                         *)
(* The books of an order are right by themselves (ServicingBooks): what a  *)
(* line has reserved is what its aftersales and refunds under way hold, a  *)
(* refund has the units, the money and the reversal its aftersale gives    *)
(* it, the wallet holds what the lines earned.  Without compensations,     *)
(* money goes back with units at their price (ServicingAtPrice), and the   *)
(* order's status says how far it is shipped and paid back                 *)
(* (ServicingRules): from these follows that every success of the provider *)
(* can be recorded.                                                        *)
(***************************************************************************)
EXTENDS MCTrade, FiniteSetTheorems, WellFoundedInduction, TLAPS

--------------------------------
\* Sums of an integer function over a finite set, the Functions module's
\* SumFunctionOnSet: the sum exists, it is an integer, and it changes by the
\* value of the element that is added, removed or given another value.

Some(s) == CHOOSE x \in s : TRUE

\* g is the table of partial sums of f: one entry for each subset of S.
IsTable(g, f, S) ==
    /\ g \in [SUBSET S -> Int]
    /\ g = [s \in SUBSET S |-> IF s = {} THEN 0
                                         ELSE f[Some(s)] + g[s \ {Some(s)}]]

\* Among subsets of a finite set there is one that is minimal for inclusion:
\* the form of induction on finite sets that the lemmas below use.
LEMMA SmallestSet ==
    ASSUME NEW S, IsFiniteSet(S), NEW F, F \subseteq SUBSET S, F # {}
    PROVE  \E T \in F : \A U \in F : U \subseteq T => U = T
<1>1. IsWellFoundedOn(StrictSubsetOrdering(S), FiniteSubsetsOf(S))  BY FS_StrictSubsetOrderingWellFounded
<1>2. F \subseteq FiniteSubsetsOf(S) BY FS_Subset DEF FiniteSubsetsOf
<1>3. PICK T \in F : \A U \in F : ~ (<<U, T>> \in StrictSubsetOrdering(S)) BY <1>1, <1>2, WFMin
<1>4. ASSUME NEW U \in F, U \subseteq T
      PROVE  U = T
  <2> SUFFICES ASSUME U # T PROVE FALSE
    OBVIOUS
  <2>1. <<U, T>> \in StrictSubsetOrdering(S) BY <1>4 DEF StrictSubsetOrdering
  <2> QED BY <1>3, <2>1
<1> QED BY <1>4

LEMMA SomeIn == \A s : s # {} => Some(s) \in s
BY DEF Some

\* Two tables agree wherever both are defined.
LEMMA TablesAgree ==
    ASSUME NEW S, IsFiniteSet(S), NEW f, NEW A \in SUBSET S, NEW B \in SUBSET S,
           NEW g, NEW h, IsTable(g, f, A), IsTable(h, f, B)
    PROVE  \A T \in SUBSET (A \cap B) : g[T] = h[T]
<1> DEFINE F == {T \in SUBSET (A \cap B) : g[T] # h[T]}
<1> SUFFICES ASSUME F # {} PROVE FALSE
  OBVIOUS
<1>1. F \subseteq SUBSET S
  OBVIOUS
<1>2. PICK T \in F : \A U \in F : U \subseteq T => U = T
  <2> HIDE DEF F
  <2> QED BY <1>1, SmallestSet
<1>3. T \in SUBSET A /\ T \in SUBSET B /\ g[T] # h[T]
  OBVIOUS
<1>4. T # {} BY <1>3 DEF IsTable
<1> DEFINE x == Some(T)
<1>5. x \in T /\ T \ {x} \in SUBSET A /\ T \ {x} \in SUBSET B BY <1>3, <1>4, SomeIn
<1>6. g[T] = f[x] + g[T \ {x}] /\ h[T] = f[x] + h[T \ {x}] BY <1>3, <1>4, <1>5 DEF IsTable
<1>7. T \ {x} \notin F BY <1>2, <1>5
<1> QED BY <1>3, <1>5, <1>6, <1>7

\* Every integer function on a finite set has a table.
LEMMA TableExists ==
    ASSUME NEW S, IsFiniteSet(S), NEW f, \A x \in S : f[x] \in Int
    PROVE  \E g : IsTable(g, f, S)
<1> DEFINE F == {T \in SUBSET S : ~ \E g : IsTable(g, f, T)}
<1> SUFFICES ASSUME F # {} PROVE FALSE
  BY DEF F
<1>1. PICK T \in F : \A U \in F : U \subseteq T => U = T
  <2>1. F \subseteq SUBSET S
    OBVIOUS
  <2> HIDE DEF F
  <2> QED BY <2>1, SmallestSet
<1>2. T \subseteq S /\ ~ \E g : IsTable(g, f, T)
  OBVIOUS
<1> DEFINE G == [U \in (SUBSET T) \ {T} |-> CHOOSE g : IsTable(g, f, U)]
<1>3. ASSUME NEW U \in SUBSET T, U # T
      PROVE  IsTable(G[U], f, U) /\ G[U][U] \in Int
  <2>1. U \notin F /\ U \in SUBSET S BY <1>1, <1>2, <1>3
  <2>2. \E g : IsTable(g, f, U) BY <2>1
  <2>3. IsTable(G[U], f, U) BY <2>2, <1>3
  <2> QED BY <2>3 DEF IsTable
<1>9. ASSUME NEW U \in SUBSET T, U # T, NEW V \in SUBSET U
      PROVE  G[U][V] = G[V][V]
  <2> HIDE DEF F, G
  <2>1. V # T /\ V \in SUBSET T /\ U \in SUBSET S /\ V \in SUBSET S BY <1>2, <1>9
  <2>2. IsTable(G[U], f, U) /\ IsTable(G[V], f, V) BY <2>1, <1>3, <1>9
  <2>3. \A g, h : IsTable(g, f, U) /\ IsTable(h, f, V) =>
                   \A W \in SUBSET (U \cap V) : g[W] = h[W]
    BY <2>1, TablesAgree
  <2>4. \A W \in SUBSET (U \cap V) : G[U][W] = G[V][W] BY <2>2, <2>3
  <2> QED BY <2>4
<1> DEFINE x == Some(T)
           h == [s \in SUBSET T |-> IF s = T
                   THEN IF T = {} THEN 0 ELSE f[x] + G[T \ {x}][T \ {x}]
                   ELSE G[s][s]]
<1> HIDE DEF F, G
<1>4. T # {} => /\ x \in T /\ f[x] \in Int
                /\ T \ {x} \in SUBSET T /\ T \ {x} # T
                /\ G[T \ {x}][T \ {x}] \in Int
  <2> SUFFICES ASSUME T # {} PROVE x \in T /\ f[x] \in Int /\ T \ {x} \in SUBSET T 
                                   /\ T \ {x} # T /\ G[T \ {x}][T \ {x}] \in Int
    OBVIOUS
  <2>1. x \in T /\ f[x] \in Int BY SomeIn, <1>2
  <2>2. T \ {x} \in SUBSET T /\ T \ {x} # T BY <2>1
  <2> QED BY <2>1, <2>2, <1>3
<1>5. h \in [SUBSET T -> Int] BY <1>3, <1>4
<1>6. ASSUME NEW s \in SUBSET T
      PROVE  h[s] = IF s = {} THEN 0 ELSE f[Some(s)] + h[s \ {Some(s)}]
  <2>1. CASE s = T BY <2>1, <1>4
  <2>2. CASE s # T /\ s = {}
    <3>1. IsTable(G[s], f, s) BY <2>2, <1>3
    <3> QED BY <3>1, <2>2 DEF IsTable
  <2>3. CASE s # T /\ s # {}
    <3> DEFINE y == Some(s)
               t == s \ {y}
    <3>1. y \in s /\ t \in SUBSET s /\ t \in SUBSET T /\ t # T /\ s \in SUBSET S  BY <2>3, SomeIn, <1>2
    <3>2. IsTable(G[s], f, s) /\ IsTable(G[t], f, t) BY <3>1, <2>3, <1>3
    <3>3. G[s][t] = G[t][t] BY <3>1, <2>3, <1>9
    <3>4. G[s][s] = f[y] + G[s][t] BY <3>2, <2>3 DEF IsTable
    <3> QED BY <3>1, <3>3, <3>4, <2>3
  <2> QED BY <2>1, <2>2, <2>3
<1>7. h = [s \in SUBSET T |-> IF s = {} THEN 0 ELSE f[Some(s)] + h[s \ {Some(s)}]]
  <2> HIDE DEF h
  <2> QED BY <1>5, <1>6
<1>8. IsTable(h, f, T) BY <1>5, <1>7 DEF IsTable
<1> QED BY <1>2, <1>8

\* A table's entry for T splits at every element of T.
LEMMA TableSplits ==
    ASSUME NEW S, IsFiniteSet(S), NEW f, \A x \in S : f[x] \in Int,
           NEW g, IsTable(g, f, S)
    PROVE  \A T \in SUBSET S : \A x \in T : g[T] = f[x] + g[T \ {x}]
<1> DEFINE F == {T \in SUBSET S : \E x \in T : g[T] # f[x] + g[T \ {x}]}
<1> SUFFICES ASSUME F # {} PROVE FALSE
  OBVIOUS
<1>1. PICK T \in F : \A U \in F : U \subseteq T => U = T
  <2>1. F \subseteq SUBSET S
    OBVIOUS
  <2> HIDE DEF F
  <2> QED BY <2>1, SmallestSet
<1>2. PICK x \in T : g[T] # f[x] + g[T \ {x}]
  OBVIOUS
<1> DEFINE y == Some(T)
<1>3. y \in T /\ T \in SUBSET S BY SomeIn
<1>4. g[T] = f[y] + g[T \ {y}] BY <1>3 DEF IsTable
<1>5. x # y BY <1>2, <1>4
<1> DEFINE A == T \ {x}
           B == T \ {y}
           R == T \ {x, y}
<1>6. A \notin F /\ B \notin F /\ A \in SUBSET S /\ B \in SUBSET S /\ R \in SUBSET S BY <1>1, <1>3
<1>7. A \ {y} = R /\ B \ {x} = R /\ y \in A /\ x \in B BY <1>3, <1>5
<1>8. g[A] = f[y] + g[R] BY <1>6, <1>7
<1>9. g[B] = f[x] + g[R] BY <1>6, <1>7
<1>10. f[x] \in Int /\ f[y] \in Int /\ g[R] \in Int BY <1>3, <1>6 DEF IsTable
<1> HIDE DEF A, B, R, F, y
<1>11. g[T] = f[y] + (f[x] + g[R]) /\ g[A] = f[y] + g[R] BY <1>4, <1>8, <1>9 DEF B
<1> QED BY <1>2, <1>10, <1>11 DEF A

\* The community module's sum is the last entry of a table.
LEMMA SumIsTable ==
    ASSUME NEW S, IsFiniteSet(S), NEW f, \A x \in S : f[x] \in Int
    PROVE  \E g : IsTable(g, f, S) /\ SumFunctionOnSet(f, S) = g[S]
<1> DEFINE Rec(g) == g = [s \in SUBSET S |-> IF s = {} THEN 0
                                         ELSE f[Some(s)] + g[s \ {Some(s)}]]
           it == CHOOSE g : Rec(g)
<1>1. PICK g : IsTable(g, f, S) BY TableExists
<1>2. Rec(it) BY <1>1 DEF IsTable
<1>3. SumFunctionOnSet(f, S) = it[S]  BY DEF SumFunctionOnSet, FoldFunctionOnSet, MapThenFoldSet, Some
<1>4. \A T \in SUBSET S : it[T] \in Int
  <2> DEFINE F == {T \in SUBSET S : it[T] \notin Int}
  <2> HIDE DEF it
  <2> SUFFICES ASSUME F # {} PROVE FALSE
    OBVIOUS
  <2>1. PICK T \in F : \A U \in F : U \subseteq T => U = T
    <3>1. F \subseteq SUBSET S
      OBVIOUS
    <3> HIDE DEF F
    <3> QED BY <3>1, SmallestSet
  <2>2. T \in SUBSET S /\ it[T] \notin Int
    OBVIOUS
  <2>3. T # {} BY <1>2, <2>2
  <2>4. Some(T) \in T /\ T \ {Some(T)} \in SUBSET S /\ T \ {Some(T)} \notin F  BY <2>1, <2>2, <2>3, SomeIn
  <2>5. it[T] = f[Some(T)] + it[T \ {Some(T)}] BY <1>2, <2>2, <2>3
  <2> QED BY <2>2, <2>4, <2>5
<1>5. IsTable(it, f, S)
  <2> HIDE DEF it
  <2>1. it \in [SUBSET S -> Int] BY <1>2, <1>4
  <2> QED BY <1>2, <2>1 DEF IsTable
<1> QED BY <1>3, <1>5

--------------------------------

LEMMA SumType ==
    ASSUME NEW S, IsFiniteSet(S), NEW f, \A x \in S : f[x] \in Int
    PROVE  SumFunctionOnSet(f, S) \in Int
<1>1. PICK g : IsTable(g, f, S) /\ SumFunctionOnSet(f, S) = g[S] BY SumIsTable
<1> QED BY <1>1 DEF IsTable

LEMMA SumEmpty ==
    ASSUME NEW f
    PROVE  SumFunctionOnSet(f, {}) = 0
<1>1. PICK g : IsTable(g, f, {}) /\ SumFunctionOnSet(f, {}) = g[{}] BY SumIsTable, FS_EmptySet
<1> QED BY <1>1 DEF IsTable

\* Taking an element out of the set takes its value out of the sum.
LEMMA SumRemove ==
    ASSUME NEW S, IsFiniteSet(S), NEW f, \A x \in S : f[x] \in Int, NEW x \in S
    PROVE  SumFunctionOnSet(f, S) = f[x] + SumFunctionOnSet(f, S \ {x})
<1>1. PICK g : IsTable(g, f, S) /\ SumFunctionOnSet(f, S) = g[S] BY SumIsTable
<1>2. IsFiniteSet(S \ {x}) /\ S \ {x} \in SUBSET S BY FS_RemoveElement
<1>3. PICK h : IsTable(h, f, S \ {x}) /\ SumFunctionOnSet(f, S \ {x}) = h[S \ {x}]  BY <1>2, SumIsTable
<1>4. g[S \ {x}] = h[S \ {x}] BY <1>1, <1>2, <1>3, TablesAgree
<1>5. g[S] = f[x] + g[S \ {x}] BY <1>1, TableSplits
<1> QED BY <1>1, <1>3, <1>4, <1>5

\* Adding an element to the set adds its value to the sum.
LEMMA SumAdd ==
    ASSUME NEW S, IsFiniteSet(S), NEW f, NEW x, x \notin S,
           \A y \in S \cup {x} : f[y] \in Int
    PROVE  SumFunctionOnSet(f, S \cup {x}) = SumFunctionOnSet(f, S) + f[x]
<1>1. IsFiniteSet(S \cup {x}) /\ (S \cup {x}) \ {x} = S BY FS_AddElement
<1>2. SumFunctionOnSet(f, S \cup {x}) = f[x] + SumFunctionOnSet(f, S) BY <1>1, SumRemove
<1>3. SumFunctionOnSet(f, S) \in Int BY SumType
<1> QED BY <1>2, <1>3

\* The sum only depends on the values at the elements of the set.
LEMMA SumSame ==
    ASSUME NEW S, IsFiniteSet(S), NEW f, NEW g, \A x \in S : f[x] \in Int,
           \A x \in S : f[x] = g[x]
    PROVE  SumFunctionOnSet(f, S) = SumFunctionOnSet(g, S)
<1>1. PICK a : IsTable(a, f, S) /\ SumFunctionOnSet(f, S) = a[S] BY SumIsTable
<1>2. PICK b : IsTable(b, g, S) /\ SumFunctionOnSet(g, S) = b[S] BY SumIsTable
<1>3. ASSUME NEW s \in SUBSET S
      PROVE  b[s] = IF s = {} THEN 0 ELSE f[Some(s)] + b[s \ {Some(s)}]
  BY <1>2, SomeIn DEF IsTable
<1>4. b = [s \in SUBSET S |-> IF s = {} THEN 0 ELSE f[Some(s)] + b[s \ {Some(s)}]]  BY <1>2, <1>3 DEF IsTable
<1>5. IsTable(b, f, S) BY <1>2, <1>4 DEF IsTable
<1> QED BY <1>1, <1>2, <1>5, TablesAgree

\* Giving one element another value changes the sum by the difference.
LEMMA SumUpdate ==
    ASSUME NEW S, IsFiniteSet(S), NEW f, NEW g, NEW x \in S,
           \A y \in S : f[y] \in Int /\ g[y] \in Int,
           \A y \in S \ {x} : f[y] = g[y]
    PROVE  SumFunctionOnSet(g, S) = SumFunctionOnSet(f, S) + g[x] - f[x]
<1>1. IsFiniteSet(S \ {x}) BY FS_RemoveElement
<1>2. SumFunctionOnSet(f, S) = f[x] + SumFunctionOnSet(f, S \ {x}) BY SumRemove
<1>3. SumFunctionOnSet(g, S) = g[x] + SumFunctionOnSet(g, S \ {x}) BY SumRemove
<1>4. SumFunctionOnSet(f, S \ {x}) = SumFunctionOnSet(g, S \ {x}) BY <1>1, SumSame
<1>5. SumFunctionOnSet(f, S \ {x}) \in Int BY <1>1, SumType
<1> QED BY <1>2, <1>3, <1>4, <1>5

\* A sum of naturals is a natural.
LEMMA SumNat ==
    ASSUME NEW S, IsFiniteSet(S), NEW f, \A x \in S : f[x] \in Nat
    PROVE  SumFunctionOnSet(f, S) \in Nat
<1>1. PICK g : IsTable(g, f, S) /\ SumFunctionOnSet(f, S) = g[S] BY SumIsTable
<1> DEFINE F == {T \in SUBSET S : g[T] \notin Nat}
<1> SUFFICES ASSUME F # {} PROVE FALSE
  BY <1>1
<1>2. PICK T \in F : \A U \in F : U \subseteq T => U = T
  <2>1. F \subseteq SUBSET S
    OBVIOUS
  <2> HIDE DEF F
  <2> QED BY <2>1, SmallestSet
<1>3. T \in SUBSET S /\ g[T] \notin Nat
  OBVIOUS
<1>4. T # {} BY <1>1, <1>3 DEF IsTable
<1>5. Some(T) \in T /\ T \ {Some(T)} \in SUBSET S /\ T \ {Some(T)} \notin F  BY <1>2, <1>3, <1>4, SomeIn
<1>6. g[T] = f[Some(T)] + g[T \ {Some(T)}] BY <1>1, <1>3, <1>4 DEF IsTable
<1> QED BY <1>3, <1>5, <1>6

\* A sum of numbers none of which is positive is not positive.
LEMMA SumNonPositive ==
    ASSUME NEW S, IsFiniteSet(S), NEW f, \A x \in S : f[x] \in Int /\ f[x] <= 0
    PROVE  SumFunctionOnSet(f, S) <= 0
<1>1. PICK g : IsTable(g, f, S) /\ SumFunctionOnSet(f, S) = g[S] BY SumIsTable
<1> DEFINE F == {T \in SUBSET S : ~(g[T] <= 0)}
<1> SUFFICES ASSUME F # {} PROVE FALSE
  BY <1>1
<1>2. PICK T \in F : \A U \in F : U \subseteq T => U = T
  <2>1. F \subseteq SUBSET S
    OBVIOUS
  <2> HIDE DEF F
  <2> QED BY <2>1, SmallestSet
<1>3. T \in SUBSET S /\ ~(g[T] <= 0)
  OBVIOUS
<1>4. T # {} BY <1>1, <1>3 DEF IsTable
<1>5. Some(T) \in T /\ T \ {Some(T)} \in SUBSET S /\ T \ {Some(T)} \notin F  BY <1>2, <1>3, <1>4, SomeIn
<1>6. g[T] = f[Some(T)] + g[T \ {Some(T)}] BY <1>1, <1>3, <1>4 DEF IsTable
<1>7. g[T \ {Some(T)}] <= 0 /\ g[T \ {Some(T)}] \in Int BY <1>1, <1>5 DEF IsTable
<1>8. f[Some(T)] \in Int /\ f[Some(T)] <= 0 BY <1>3, <1>5
<1> QED BY <1>3, <1>6, <1>7, <1>8

--------------------------------
\* The same facts for SumFunction, the sum of all values of a function.

LEMMA TotalType ==
    ASSUME NEW f, IsFiniteSet(DOMAIN f), \A y \in DOMAIN f : f[y] \in Int
    PROVE  SumFunction(f) \in Int
BY SumType DEF SumFunction

LEMMA TotalNat ==
    ASSUME NEW f, IsFiniteSet(DOMAIN f), \A y \in DOMAIN f : f[y] \in Nat
    PROVE  SumFunction(f) \in Nat
BY SumNat DEF SumFunction

LEMMA TotalNonPositive ==
    ASSUME NEW f, IsFiniteSet(DOMAIN f), \A y \in DOMAIN f : f[y] \in Int /\ f[y] <= 0
    PROVE  SumFunction(f) <= 0
BY SumNonPositive DEF SumFunction

LEMMA TotalZero ==
    ASSUME NEW f, IsFiniteSet(DOMAIN f), \A y \in DOMAIN f : f[y] = 0
    PROVE  SumFunction(f) = 0
<1>1. SumFunction(f) <= 0 BY TotalNonPositive
<1>2. SumFunction(f) \in Nat BY TotalNat
<1> QED BY <1>1, <1>2

LEMMA TotalEmpty ==
    ASSUME NEW f, DOMAIN f = {}
    PROVE  SumFunction(f) = 0
BY SumEmpty DEF SumFunction

LEMMA TotalAdd ==
    ASSUME NEW f, NEW g, NEW x, IsFiniteSet(DOMAIN f),
           x \notin DOMAIN f, DOMAIN g = DOMAIN f \cup {x},
           \A y \in DOMAIN f : f[y] \in Int /\ g[y] = f[y], g[x] \in Int
    PROVE  SumFunction(g) = SumFunction(f) + g[x]
<1>1. SumFunctionOnSet(g, DOMAIN f \cup {x}) = SumFunctionOnSet(g, DOMAIN f) + g[x] BY SumAdd
<1>2. SumFunctionOnSet(f, DOMAIN f) = SumFunctionOnSet(g, DOMAIN f) BY SumSame
<1> QED BY <1>1, <1>2 DEF SumFunction

LEMMA TotalUpdate ==
    ASSUME NEW f, NEW g, NEW x, IsFiniteSet(DOMAIN f),
           DOMAIN g = DOMAIN f, x \in DOMAIN f,
           \A y \in DOMAIN f : f[y] \in Int /\ g[y] \in Int,
           \A y \in DOMAIN f \ {x} : f[y] = g[y]
    PROVE  SumFunction(g) = SumFunction(f) + g[x] - f[x]
<1>1. SumFunctionOnSet(g, DOMAIN f) = SumFunctionOnSet(f, DOMAIN f) + g[x] - f[x] BY SumUpdate
<1> QED BY <1>1 DEF SumFunction

\* The sum of sums.
LEMMA SumPlus ==
    ASSUME NEW S, IsFiniteSet(S), NEW f, NEW g, NEW h,
           \A x \in S : f[x] \in Int /\ g[x] \in Int /\ h[x] = f[x] + g[x]
    PROVE  SumFunctionOnSet(h, S) = SumFunctionOnSet(f, S) + SumFunctionOnSet(g, S)
<1>1. PICK a : IsTable(a, f, S) /\ SumFunctionOnSet(f, S) = a[S] BY SumIsTable
<1>2. PICK b : IsTable(b, g, S) /\ SumFunctionOnSet(g, S) = b[S] BY SumIsTable
<1>3. PICK c : IsTable(c, h, S) /\ SumFunctionOnSet(h, S) = c[S] BY SumIsTable
<1> DEFINE F == {T \in SUBSET S : c[T] # a[T] + b[T]}
<1> SUFFICES ASSUME F # {} PROVE FALSE
  BY <1>1, <1>2, <1>3
<1>4. PICK T \in F : \A U \in F : U \subseteq T => U = T
  <2>1. F \subseteq SUBSET S
    OBVIOUS
  <2> HIDE DEF F
  <2> QED BY <2>1, SmallestSet
<1>5. T \in SUBSET S /\ c[T] # a[T] + b[T]
  OBVIOUS
<1>6. T # {} BY <1>1, <1>2, <1>3, <1>5 DEF IsTable
<1> DEFINE R == T \ {Some(T)}
<1>7. Some(T) \in T /\ R \in SUBSET S /\ R \notin F BY <1>4, <1>5, <1>6, SomeIn
<1>8. c[R] = a[R] + b[R] BY <1>7
<1>9. /\ a[T] = f[Some(T)] + a[R] /\ b[T] = g[Some(T)] + b[R] /\ c[T] = h[Some(T)] + c[R]
  BY <1>1, <1>2, <1>3, <1>5, <1>6 DEF IsTable
<1>10. a[R] \in Int /\ b[R] \in Int BY <1>1, <1>2, <1>7 DEF IsTable
<1>11. /\ f[Some(T)] \in Int /\ g[Some(T)] \in Int
       /\ h[Some(T)] = f[Some(T)] + g[Some(T)]
  BY <1>5, <1>7
<1> HIDE DEF F, R
<1> QED BY <1>5, <1>8, <1>9, <1>10, <1>11

LEMMA TotalPlus ==
    ASSUME NEW f, NEW g, NEW h, IsFiniteSet(DOMAIN f),
           DOMAIN g = DOMAIN f, DOMAIN h = DOMAIN f,
           \A x \in DOMAIN f : f[x] \in Int /\ g[x] \in Int /\ h[x] = f[x] + g[x]
    PROVE  SumFunction(h) = SumFunction(f) + SumFunction(g)
BY SumPlus DEF SumFunction

\* A natural value is at most the sum it is part of.
LEMMA TotalPart ==
    ASSUME NEW f, IsFiniteSet(DOMAIN f), \A y \in DOMAIN f : f[y] \in Nat,
           NEW x \in DOMAIN f
    PROVE  f[x] <= SumFunction(f)
<1>1. SumFunctionOnSet(f, DOMAIN f) = f[x] + SumFunctionOnSet(f, DOMAIN f \ {x}) BY SumRemove
<1>2. IsFiniteSet(DOMAIN f \ {x}) BY FS_RemoveElement
<1>3. SumFunctionOnSet(f, DOMAIN f \ {x}) \in Nat BY <1>2, SumNat
<1> QED BY <1>1, <1>3 DEF SumFunction

\* Larger values have a larger sum.
LEMMA TotalMonotone ==
    ASSUME NEW f, NEW g, IsFiniteSet(DOMAIN f), DOMAIN g = DOMAIN f,
           \A x \in DOMAIN f : f[x] \in Int /\ g[x] \in Int /\ f[x] <= g[x]
    PROVE  SumFunction(f) <= SumFunction(g)
<1> DEFINE d == [x \in DOMAIN f |-> g[x] - f[x]]
<1>1. \A x \in DOMAIN f : d[x] \in Nat /\ g[x] = f[x] + d[x]
  OBVIOUS
<1>2. DOMAIN d = DOMAIN f
  OBVIOUS
<1> HIDE DEF d
<1>3. SumFunction(d) \in Nat BY <1>1, <1>2, TotalNat
<1>4. SumFunction(g) = SumFunction(f) + SumFunction(d) BY <1>1, <1>2, TotalPlus
<1>5. SumFunction(f) \in Int BY TotalType
<1> QED BY <1>3, <1>4, <1>5

--------------------------------
\* An order until nothing can happen to it any more.

\* The operators of the libraries, as the instance names them.
LEMMA ServicingSame ==
  /\ \A S : Servicing!IsFiniteSet(S) = IsFiniteSet(S)
  /\ \A S : Servicing!Cardinality(S) = Cardinality(S)
  /\ \A f : Servicing!SumFunction(f) = SumFunction(f)
<1>1. \A S : Servicing!IsFiniteSet(S) = IsFiniteSet(S) BY DEF Servicing!IsFiniteSet, IsFiniteSet
<1>2. \A S : Servicing!Cardinality(S) = Cardinality(S) BY DEF Servicing!Cardinality, Cardinality
<1>3. \A f : Servicing!SumFunction(f) = SumFunction(f)
  BY DEF Servicing!SumFunction, SumFunction, Servicing!SumFunctionOnSet, SumFunctionOnSet,
     Servicing!FoldFunctionOnSet, FoldFunctionOnSet, Servicing!MapThenFoldSet, MapThenFoldSet
<1> QED BY <1>1, <1>2, <1>3

LEMMA ServicingTotalType ==
  ASSUME NEW f, Servicing!IsFiniteSet(DOMAIN f), \A d \in DOMAIN f : f[d] \in Int
  PROVE  Servicing!SumFunction(f) \in Int
BY TotalType, ServicingSame

LEMMA ServicingTotalNat ==
  ASSUME NEW f, Servicing!IsFiniteSet(DOMAIN f), \A d \in DOMAIN f : f[d] \in Nat
  PROVE  Servicing!SumFunction(f) \in Nat
BY TotalNat, ServicingSame

LEMMA ServicingTotalZero ==
  ASSUME NEW f, Servicing!IsFiniteSet(DOMAIN f), \A d \in DOMAIN f : f[d] = 0
  PROVE  Servicing!SumFunction(f) = 0
BY TotalZero, ServicingSame

LEMMA ServicingTotalUpdate ==
  ASSUME NEW f, NEW g, NEW e, Servicing!IsFiniteSet(DOMAIN f),
         DOMAIN g = DOMAIN f, e \in DOMAIN f,
         \A d \in DOMAIN f : f[d] \in Int /\ g[d] \in Int,
         \A d \in DOMAIN f \ {e} : f[d] = g[d]
  PROVE  Servicing!SumFunction(g) = Servicing!SumFunction(f) + g[e] - f[e]
<1>1. IsFiniteSet(DOMAIN f) BY ServicingSame
<1>2. SumFunction(g) = SumFunction(f) + g[e] - f[e] BY <1>1, TotalUpdate
<1> QED BY <1>2, ServicingSame

LEMMA ServicingTotalPlus ==
  ASSUME NEW f, NEW g, NEW h, Servicing!IsFiniteSet(DOMAIN f),
         DOMAIN g = DOMAIN f, DOMAIN h = DOMAIN f,
         \A d \in DOMAIN f : f[d] \in Int /\ g[d] \in Int /\ h[d] = f[d] + g[d]
  PROVE  Servicing!SumFunction(h) = Servicing!SumFunction(f) + Servicing!SumFunction(g)
<1>1. IsFiniteSet(DOMAIN f) BY ServicingSame
<1>2. SumFunction(h) = SumFunction(f) + SumFunction(g) BY <1>1, TotalPlus
<1> QED BY <1>2, ServicingSame

LEMMA ServicingTotalPart ==
  ASSUME NEW f, Servicing!IsFiniteSet(DOMAIN f), \A d \in DOMAIN f : f[d] \in Nat, NEW e \in DOMAIN f
  PROVE  f[e] <= Servicing!SumFunction(f)
<1>1. IsFiniteSet(DOMAIN f) BY ServicingSame
<1>2. f[e] <= SumFunction(f) BY <1>1, TotalPart
<1> QED BY <1>2, ServicingSame

LEMMA ServicingTotalMonotone ==
  ASSUME NEW f, NEW g, Servicing!IsFiniteSet(DOMAIN f), DOMAIN g = DOMAIN f,
         \A d \in DOMAIN f : f[d] \in Int /\ g[d] \in Int /\ f[d] <= g[d]
  PROVE  Servicing!SumFunction(f) <= Servicing!SumFunction(g)
<1>1. IsFiniteSet(DOMAIN f) BY ServicingSame
<1>2. SumFunction(f) <= SumFunction(g) BY <1>1, TotalMonotone
<1> QED BY <1>2, ServicingSame

LEMMA ServicingFS_Subset ==
  ASSUME NEW S, Servicing!IsFiniteSet(S), NEW T \in SUBSET S
  PROVE  Servicing!IsFiniteSet(T)
BY FS_Subset, ServicingSame

--------------------------------
\* What the rows look like.

ServicingRows == [refQty : Nat, preQty : Nat, resQty : Nat, refAmt : Nat, resAmt : Nat, shipped : Nat]
ServicingFields == [Items -> Nat]
ServicingAllStatus == Servicing!ActiveAftersale \cup {"NONE", "CANCELLED", "REJECTED", "REJECTED_AFTER_RETURN", "COMPLETED"}
ServicingCase == [status : ServicingAllStatus, type : {"NONE", "REFUND_ONLY", "RETURN_REFUND"},
         qty : ServicingFields, amt : ServicingFields, approved : ServicingFields, restock : ServicingFields]
ServicingMoney == [status : Servicing!ActiveRefund \cup {"NONE", "SUCCEEDED"}, qty : ServicingFields, amt : ServicingFields, reversal : ServicingFields]
ServicingCommission == [state : {"NONE", "EXPECTED", "AVAILABLE", "CANCELLED"}, expected : Nat, reversed : Nat]
ServicingEnvelope == [status : {"PENDING_SHIPMENT", "SHIPPING", "COMPLETED", "CLOSED"},
             fulfilment : {"READY_TO_SHIP", "SHIPPED", "IN_TRANSIT", "DELIVERED", "CANCELLED"},
             refunding : {"IDLE", "REFUNDING", "FAILED"}, progress : {"NONE", "PARTIAL", "FULL"},
             window : {"NONE", "OPEN", "EXPIRED"}, refunded : Nat]

ServicingTyped ==
  /\ order \in ServicingEnvelope /\ order.refunded <= Servicing!Paid
  /\ item \in [Items -> ServicingRows]
  /\ aftersale \in [Aftersales -> ServicingCase]
  /\ refund \in [Servicing!Sources -> ServicingMoney]
  /\ executed \in [Servicing!Sources -> {"NOT_FOUND", "SUCCEEDED", "FAILED"}]
  /\ earned \in [Items -> ServicingCommission]
  /\ paidOut \in [available : Int, withdrawn : Nat]
  /\ restocked \in ServicingFields

\* The lines obey their table.
ServicingLinesRight == \A i \in Items : Servicing!ItemCheck(i, item[i])

\* An aftersale asks for units and their money together; an inspection
\* approves some of the units and puts some of the approved ones back.
ServicingCaseRight(a) ==
  /\ \A i \in Items :
       /\ aftersale[a].approved[i] <= aftersale[a].qty[i]
       /\ aftersale[a].restock[i] <= aftersale[a].approved[i]
       /\ aftersale[a].qty[i] = 0 => aftersale[a].amt[i] = 0
  /\ aftersale[a].status # "NONE" => aftersale[a].type # "NONE"
  /\ aftersale[a].status = "NONE" =>
       aftersale[a].qty = Servicing!Zero /\ aftersale[a].amt = Servicing!Zero
          /\ aftersale[a].approved = Servicing!Zero /\ aftersale[a].restock = Servicing!Zero
  /\ aftersale[a].status \in {"NONE", "PENDING_REVIEW", "WAITING_RETURN", "WAITING_RECEIPT"} =>
       aftersale[a].approved = Servicing!Zero /\ aftersale[a].restock = Servicing!Zero
  /\ aftersale[a].status \in {"WAITING_RETURN", "WAITING_RECEIPT", "RETURN_EXCEPTION", "REFUNDING_AFTER_RETURN"} =>
       aftersale[a].type = "RETURN_REFUND"

\* A refund under way is that of its aftersale, which waits for it.
ServicingRefundOf(a) ==
  /\ refund[a].status = "NONE" => aftersale[a].status \notin {"REFUND_FAILED", "COMPLETED"}
  /\ refund[a].status \in Servicing!ActiveRefund =>
       /\ \/ Servicing!ReadyToRefund(a)
          \/ aftersale[a].status = "REFUND_FAILED" /\ aftersale[a].type # "NONE"
       /\ \A i \in Items : /\ refund[a].qty[i] = Servicing!RefundQty(a, i)
                           /\ refund[a].amt[i] = Servicing!RefundAmt(a, i)
  /\ refund[a].status = "SUCCEEDED" => aftersale[a].status = "COMPLETED"

\* The commission of a line: what is expected, what was taken back.
ServicingPositionRight(i) ==
  /\ earned[i].reversed <= Servicing!Original(i)
  /\ earned[i].state # "AVAILABLE" => earned[i].expected + earned[i].reversed = Servicing!Original(i)
  /\ earned[i].state = "EXPECTED" <=> earned[i].expected > 0

\* No refund takes more than is left, and together they take everything when
\* all the money goes back.
ServicingReversalRight(i) ==
  /\ \A s \in Servicing!Sources : refund[s].amt[i] = 0 => refund[s].reversal[i] = 0
  /\ earned[i].reversed + Servicing!CommittedReversal(i) <= Servicing!Original(i)
  /\ item[i].refAmt + Servicing!CommittedAmt(i) >= Servicing!LinePaid(i) =>
       earned[i].reversed + Servicing!CommittedReversal(i) = Servicing!Original(i)

\* Compensations have no units.
ServicingMoneyOnly == \A c \in Compensations : refund[c].qty = Servicing!Zero

ServicingWalletRight == paidOut.available + paidOut.withdrawn = Servicing!SumFunction([i \in Items |-> Servicing!Earned(i)])

ServicingBooks ==
  /\ ServicingTyped /\ ServicingLinesRight
  /\ \A a \in Aftersales : ServicingCaseRight(a) /\ ServicingRefundOf(a)
  /\ \A i \in Items : ServicingPositionRight(i) /\ ServicingReversalRight(i)
  /\ ServicingMoneyOnly /\ ServicingWalletRight /\ Servicing!ReservationsAreHeld

--------------------------------
\* The rules of an order that is only refunded through aftersales.

ServicingNoCompensation == \A c \in Compensations : refund[c].status = "NONE"

\* Money goes back with units, at their price.
ServicingAtPrice ==
  /\ \A i \in Items : /\ item[i].refAmt = Price[i] * item[i].refQty
                      /\ item[i].resAmt = Price[i] * item[i].resQty
  /\ \A a \in Aftersales : \A i \in Items : aftersale[a].amt[i] = Price[i] * aftersale[a].qty[i]
  /\ order.refunded = Servicing!SumFunction([i \in Items |-> item[i].refAmt])

\* An open aftersale holds some unit.
ServicingHoldsSomething == \A a \in Servicing!OpenAftersales : \E i \in Items : Servicing!HeldQty(a, i) > 0

\* Nothing has left before shipment, and something has left before any
\* commission is available.
ServicingUnsent == order.status \in {"PENDING_SHIPMENT", "CLOSED"}
ServicingBeforeShipment ==
  /\ ServicingUnsent => \A i \in Items : item[i].shipped = 0
  /\ order.status = "SHIPPING" \/ (\E i \in Items : earned[i].state = "AVAILABLE")
       => \E i \in Items : item[i].shipped > 0
ServicingSettled == order.status = "CLOSED" => \A i \in Items : item[i].preQty = Ordered[i]

\* What came back into stock came back with a refund.
ServicingStockRight ==
  \A i \in Items :
    /\ restocked[i] = item[i].preQty + Servicing!SumFunction([a \in Aftersales |-> Servicing!PutBack(a, i)])
    /\ Servicing!SumFunction([a \in Aftersales |-> Servicing!PutBack(a, i)]) <= item[i].refQty - item[i].preQty
ServicingKeptOut == \A a \in Aftersales : aftersale[a].type # "RETURN_REFUND"
   => aftersale[a].approved = Servicing!Zero

ServicingRules ==
  /\ ServicingAtPrice /\ ServicingHoldsSomething /\ ServicingBeforeShipment
      /\ ServicingSettled /\ ServicingStockRight /\ ServicingKeptOut

\* Refunds without return: what is under way has not been shipped, and what
\* was paid back counts as refunded before shipment.
ServicingPaidBack(a, i) ==
  IF aftersale[a].type = "REFUND_ONLY" /\ refund[a].status = "SUCCEEDED" THEN refund[a].qty[i] ELSE 0
ServicingUnreturnedRight ==
  /\ \A a \in Aftersales, i \in Items :
       aftersale[a].type = "REFUND_ONLY" /\ refund[a].status \in Servicing!ActiveRefund /\ refund[a].qty[i] > 0
         => item[i].shipped = 0
  /\ \A i \in Items :
       item[i].preQty = Servicing!SumFunction([a \in Aftersales |-> ServicingPaidBack(a, i)])

ServicingInv == ServicingBooks /\ ServicingUnreturnedRight /\ (ServicingNoCompensation => ServicingRules)

--------------------------------
\* Types of what the commands compute.

\* What the constants are.
ServicingGiven == Servicing!ServicingAssumption

LEMMA ServicingMulNat == \A m, n \in Nat : m * n \in Nat
OBVIOUS

LEMMA ServicingMulAdd == \A m, n, k \in Int : m * (n + k) = m * n + m * k /\ m * (n - k) = m * n - m * k
OBVIOUS

LEMMA ServicingFinite ==
  ASSUME ServicingGiven
  PROVE  Servicing!IsFiniteSet(Items) /\ Servicing!IsFiniteSet(Servicing!Sources)
     /\ Servicing!IsFiniteSet(Aftersales)
BY ServicingFS_Subset DEF ServicingGiven, Servicing!ServicingAssumption, Servicing!Sources

LEMMA ServicingAmounts0 ==
  ASSUME ServicingGiven, NEW i \in Items
  PROVE  /\ Price[i] \in Nat /\ Price[i] > 0 /\ Ordered[i] \in Nat /\ Ordered[i] > 0
         /\ Servicing!LinePaid(i) \in Nat /\ Servicing!LinePaid(i) = Price[i] * Ordered[i]
         /\ Servicing!Original(i) \in Nat
         /\ \A m \in Nat : Servicing!HalfUp(m) \in Nat
<1>1. Price[i] \in Nat /\ Price[i] > 0 /\ Ordered[i] \in Nat /\ Ordered[i] > 0 /\ Rate \in Nat
  BY DEF ServicingGiven, Servicing!ServicingAssumption
<1>2. Servicing!LinePaid(i) \in Nat /\ Servicing!LinePaid(i) = Price[i] * Ordered[i]
  BY <1>1, ServicingMulNat DEF Servicing!LinePaid
<1>3. ASSUME NEW m \in Nat PROVE Servicing!HalfUp(m) \in Nat
  <2>1. (2 * m) * Rate \in Nat BY <1>1, ServicingMulNat
  <2> QED BY <2>1 DEF Servicing!HalfUp
<1> QED BY <1>1, <1>2, <1>3 DEF Servicing!Original

LEMMA ServicingPaidNat ==
  ASSUME ServicingGiven
  PROVE  Servicing!Paid \in Nat
<1> DEFINE f == [i \in Items |-> Servicing!LinePaid(i)]
<1>1. DOMAIN f = Items /\ \A i \in Items : f[i] \in Nat BY ServicingAmounts0
<1> HIDE DEF f
<1>2. Servicing!SumFunction(f) \in Nat BY <1>1, ServicingFinite, ServicingTotalNat
<1> QED BY <1>2 DEF Servicing!Paid, f

\* The rows of one aftersale, one refund, one line.
LEMMA ServicingCaseTyped ==
  ASSUME ServicingTyped, NEW a \in Aftersales
  PROVE  /\ aftersale[a] \in ServicingCase
         /\ aftersale[a].status \in ServicingAllStatus
         /\ aftersale[a].type \in {"NONE", "REFUND_ONLY", "RETURN_REFUND"}
         /\ \A i \in Items : /\ aftersale[a].qty[i] \in Nat /\ aftersale[a].amt[i] \in Nat
                             /\ aftersale[a].approved[i] \in Nat /\ aftersale[a].restock[i] \in Nat
BY DEF ServicingTyped, ServicingCase, ServicingFields

LEMMA ServicingMoneyTyped ==
  ASSUME ServicingTyped, NEW s \in Servicing!Sources
  PROVE  /\ refund[s] \in ServicingMoney
         /\ refund[s].status \in Servicing!ActiveRefund \cup {"NONE", "SUCCEEDED"}
         /\ \A i \in Items : /\ refund[s].qty[i] \in Nat /\ refund[s].amt[i] \in Nat
                             /\ refund[s].reversal[i] \in Nat
BY DEF ServicingTyped, ServicingMoney, ServicingFields

LEMMA ServicingRowTyped ==
  ASSUME ServicingTyped, NEW i \in Items
  PROVE  /\ item[i] \in ServicingRows
         /\ item[i].refQty \in Nat /\ item[i].preQty \in Nat /\ item[i].resQty \in Nat
         /\ item[i].refAmt \in Nat /\ item[i].resAmt \in Nat /\ item[i].shipped \in Nat
         /\ earned[i] \in ServicingCommission
         /\ earned[i].state \in {"NONE", "EXPECTED", "AVAILABLE", "CANCELLED"}
         /\ earned[i].expected \in Nat /\ earned[i].reversed \in Nat
         /\ restocked[i] \in Nat
BY DEF ServicingTyped, ServicingRows, ServicingCommission, ServicingFields

LEMMA ServicingKeptTyped ==
  ASSUME ServicingGiven, ServicingTyped, NEW a \in Aftersales, NEW i \in Items
  PROVE  Servicing!KeptAmount(a, i) \in Nat
<1>1. Price[i] * aftersale[a].approved[i] \in Nat  BY ServicingAmounts0, ServicingCaseTyped, ServicingMulNat
<1> QED BY <1>1, ServicingCaseTyped DEF Servicing!KeptAmount

LEMMA ServicingHeldTyped ==
  ASSUME ServicingGiven, ServicingTyped, NEW i \in Items
  PROVE  /\ \A a \in Aftersales : Servicing!HeldQty(a, i) \in Nat
         /\ \A s \in Servicing!Sources : Servicing!HeldAmt(s, i) \in Nat /\ Servicing!OpenAmt(s, i) \in Nat
             /\ Servicing!OpenReversal(s, i) \in Nat
<1>1. \A a \in Aftersales : Servicing!HeldQty(a, i) \in Nat  BY ServicingCaseTyped DEF Servicing!HeldQty
<1>2. \A s \in Servicing!Sources : Servicing!OpenAmt(s, i) \in Nat /\ Servicing!OpenReversal(s, i) \in Nat
  BY ServicingMoneyTyped DEF Servicing!OpenAmt, Servicing!OpenReversal
<1>3. \A s \in Servicing!Sources : Servicing!HeldAmt(s, i) \in Nat
  BY <1>2, ServicingCaseTyped, ServicingKeptTyped DEF Servicing!HeldAmt, Servicing!Sources
<1> QED BY <1>1, <1>2, <1>3

LEMMA ServicingCommittedTyped ==
  ASSUME ServicingGiven, ServicingTyped, NEW i \in Items
  PROVE  Servicing!CommittedAmt(i) \in Nat /\ Servicing!CommittedReversal(i) \in Nat
<1> DEFINE f == [s \in Servicing!Sources |-> Servicing!OpenAmt(s, i)]
           g == [s \in Servicing!Sources |-> Servicing!OpenReversal(s, i)]
<1>1. /\ DOMAIN f = Servicing!Sources /\ \A s \in Servicing!Sources : f[s] \in Nat
      /\ DOMAIN g = Servicing!Sources /\ \A s \in Servicing!Sources : g[s] \in Nat
  BY ServicingHeldTyped
<1> HIDE DEF f, g
<1>2. Servicing!SumFunction(f) \in Nat /\ Servicing!SumFunction(g) \in Nat
  BY <1>1, ServicingFinite, ServicingTotalNat
<1> QED BY <1>2 DEF f, g, Servicing!CommittedAmt, Servicing!CommittedReversal

\* What is open is part of what is reserved, committed or promised.
LEMMA ServicingPartOfHeld ==
  ASSUME ServicingGiven, ServicingTyped, Servicing!ReservationsAreHeld, NEW i \in Items
  PROVE  /\ \A a \in Aftersales : Servicing!HeldQty(a, i) <= item[i].resQty
         /\ \A s \in Servicing!Sources : Servicing!HeldAmt(s, i) <= item[i].resAmt
<1> DEFINE f == [a \in Aftersales |-> Servicing!HeldQty(a, i)]
           g == [s \in Servicing!Sources |-> Servicing!HeldAmt(s, i)]
<1>1. /\ DOMAIN f = Aftersales /\ \A a \in Aftersales : f[a] \in Nat /\ f[a] = Servicing!HeldQty(a, i)
      /\ DOMAIN g = Servicing!Sources /\ \A s \in Servicing!Sources : g[s] \in Nat
          /\ g[s] = Servicing!HeldAmt(s, i)
  BY ServicingHeldTyped
<1>2. item[i].resQty = Servicing!SumFunction(f) /\ item[i].resAmt = Servicing!SumFunction(g)
  BY DEF Servicing!ReservationsAreHeld
<1> HIDE DEF f, g
<1>3. ASSUME NEW a \in Aftersales PROVE Servicing!HeldQty(a, i) <= item[i].resQty
  <2>1. f[a] <= Servicing!SumFunction(f) BY <1>1, ServicingFinite, ServicingTotalPart
  <2> QED BY <1>1, <1>2, <2>1
<1>4. ASSUME NEW s \in Servicing!Sources PROVE Servicing!HeldAmt(s, i) <= item[i].resAmt
  <2>1. g[s] <= Servicing!SumFunction(g) BY <1>1, ServicingFinite, ServicingTotalPart
  <2> QED BY <1>1, <1>2, <2>1
<1> QED BY <1>3, <1>4

LEMMA ServicingPartOfCommitted ==
  ASSUME ServicingGiven, ServicingTyped, NEW i \in Items, NEW s \in Servicing!Sources
  PROVE  Servicing!OpenAmt(s, i) <= Servicing!CommittedAmt(i)
     /\ Servicing!OpenReversal(s, i) <= Servicing!CommittedReversal(i)
<1> DEFINE f == [t \in Servicing!Sources |-> Servicing!OpenAmt(t, i)]
           g == [t \in Servicing!Sources |-> Servicing!OpenReversal(t, i)]
<1>1. /\ DOMAIN f = Servicing!Sources /\ (\A t \in Servicing!Sources : f[t] \in Nat)
          /\ f[s] = Servicing!OpenAmt(s, i)
      /\ DOMAIN g = Servicing!Sources /\ (\A t \in Servicing!Sources : g[t] \in Nat)
          /\ g[s] = Servicing!OpenReversal(s, i)
  BY ServicingHeldTyped
<1>2. Servicing!CommittedAmt(i) = Servicing!SumFunction(f)
   /\ Servicing!CommittedReversal(i) = Servicing!SumFunction(g)
  BY DEF Servicing!CommittedAmt, Servicing!CommittedReversal
<1> HIDE DEF f, g
<1>3. f[s] <= Servicing!SumFunction(f) /\ g[s] <= Servicing!SumFunction(g)
  BY <1>1, ServicingFinite, ServicingTotalPart
<1> QED BY <1>1, <1>2, <1>3

\* An open refund of an aftersale is for what the aftersale holds.
LEMMA ServicingRefundHolds ==
  ASSUME ServicingGiven, ServicingTyped, NEW a \in Aftersales, ServicingCaseRight(a), ServicingRefundOf(a),
         refund[a].status \in Servicing!ActiveRefund
  PROVE  /\ a \in Servicing!OpenAftersales /\ aftersale[a].type \in {"REFUND_ONLY", "RETURN_REFUND"}
         /\ \A i \in Items : /\ refund[a].qty[i] = Servicing!HeldQty(a, i)
                                 /\ refund[a].amt[i] = Servicing!HeldAmt(a, i)
                             /\ refund[a].qty[i] = Servicing!RefundQty(a, i)
                                 /\ refund[a].amt[i] = Servicing!RefundAmt(a, i)
<1>1. a \notin Compensations BY DEF ServicingGiven, Servicing!ServicingAssumption
<1>2. CASE aftersale[a].status = "REFUNDING" /\ aftersale[a].type = "REFUND_ONLY"
  BY <1>1, <1>2 DEF ServicingRefundOf, Servicing!HeldQty, Servicing!HeldAmt, Servicing!RefundQty,
     Servicing!RefundAmt, Servicing!Inspected, Servicing!OpenAftersales, Servicing!ActiveAftersale
<1>3. CASE aftersale[a].status = "REFUNDING_AFTER_RETURN" /\ aftersale[a].type = "RETURN_REFUND"
  BY <1>1, <1>3 DEF ServicingRefundOf, Servicing!HeldQty, Servicing!HeldAmt, Servicing!RefundQty,
     Servicing!RefundAmt, Servicing!Inspected, Servicing!OpenAftersales, Servicing!ActiveAftersale
<1>4. CASE aftersale[a].status = "REFUND_FAILED" /\ aftersale[a].type # "NONE"
  <2>1. aftersale[a].type \in {"REFUND_ONLY", "RETURN_REFUND"} BY <1>4, ServicingCaseTyped
  <2> QED
    BY <1>1, <1>4, <2>1 DEF ServicingRefundOf, Servicing!HeldQty, Servicing!HeldAmt, Servicing!RefundQty,
       Servicing!RefundAmt, Servicing!Inspected, Servicing!OpenAftersales, Servicing!ActiveAftersale
<1> QED BY <1>2, <1>3, <1>4 DEF ServicingRefundOf, Servicing!ReadyToRefund

\* Until an aftersale is approved for good it has no refund.
LEMMA ServicingNotYet ==
  ASSUME ServicingTyped, NEW a \in Aftersales, ServicingRefundOf(a),
         aftersale[a].status \notin {"REFUNDING", "REFUNDING_AFTER_RETURN", "REFUND_FAILED", "COMPLETED"}
  PROVE  refund[a].status = "NONE"
<1>1. refund[a].status \in Servicing!ActiveRefund \cup {"NONE", "SUCCEEDED"}
  BY ServicingMoneyTyped DEF Servicing!Sources
<1> QED BY <1>1 DEF ServicingRefundOf, Servicing!ReadyToRefund

--------------------------------
\* How a step moves the sums.

\* What an aftersale or a refund holds depends on its own rows only.
LEMMA ServicingSameCase ==
  ASSUME NEW a \in Aftersales, aftersale'[a] = aftersale[a], NEW i \in Items
  PROVE  /\ Servicing!HeldQty(a, i)' = Servicing!HeldQty(a, i)
             /\ Servicing!KeptAmount(a, i)' = Servicing!KeptAmount(a, i)
         /\ (a \in Servicing!OpenAftersales)' = (a \in Servicing!OpenAftersales)
         /\ ServicingCaseRight(a)' = ServicingCaseRight(a)
             /\ Servicing!ReadyToRefund(a)' = Servicing!ReadyToRefund(a)
         /\ Servicing!RefundQty(a, i)' = Servicing!RefundQty(a, i)
             /\ Servicing!RefundAmt(a, i)' = Servicing!RefundAmt(a, i)
         /\ Servicing!PutBack(a, i)' = Servicing!PutBack(a, i)
BY DEF Servicing!HeldQty, Servicing!KeptAmount, Servicing!OpenAftersales, Servicing!Inspected, ServicingCaseRight,
   Servicing!ReadyToRefund, Servicing!RefundQty, Servicing!RefundAmt, Servicing!PutBack

LEMMA ServicingSameRefund ==
  ASSUME NEW s \in Servicing!Sources, refund'[s] = refund[s], NEW i \in Items
  PROVE  Servicing!OpenAmt(s, i)' = Servicing!OpenAmt(s, i)
     /\ Servicing!OpenReversal(s, i)' = Servicing!OpenReversal(s, i)
BY DEF Servicing!OpenAmt, Servicing!OpenReversal, Servicing!OpenRefunds

LEMMA ServicingSameHeld ==
  ASSUME NEW s \in Servicing!Sources, refund'[s] = refund[s], s \in Aftersales => aftersale'[s] = aftersale[s],
         NEW i \in Items
  PROVE  Servicing!HeldAmt(s, i)' = Servicing!HeldAmt(s, i)
BY ServicingSameCase, ServicingSameRefund DEF Servicing!HeldAmt, Servicing!Inspected, Servicing!Sources,
   Servicing!KeptAmount

LEMMA ServicingSameRefundOf ==
  ASSUME NEW a \in Aftersales, aftersale'[a] = aftersale[a], refund'[a] = refund[a], ServicingRefundOf(a)
  PROVE  ServicingRefundOf(a)'
BY DEF ServicingRefundOf, Servicing!ReadyToRefund, Servicing!RefundQty, Servicing!RefundAmt, Servicing!KeptAmount

\* The reservations follow when only what s holds changes, by as much as they do.
LEMMA ServicingHeldMoves ==
  ASSUME ServicingGiven, ServicingTyped, ServicingTyped', Servicing!ReservationsAreHeld,
         NEW s \in Servicing!Sources,
         \A t \in Servicing!Sources \ {s} : refund'[t] = refund[t]
            /\ (t \in Aftersales => aftersale'[t] = aftersale[t]),
         \A i \in Items :
           /\ s \in Aftersales => item'[i].resQty = item[i].resQty + Servicing!HeldQty(s, i)' - Servicing!HeldQty(s, i)
           /\ s \notin Aftersales => item'[i].resQty = item[i].resQty
           /\ item'[i].resAmt = item[i].resAmt + Servicing!HeldAmt(s, i)' - Servicing!HeldAmt(s, i)
  PROVE  Servicing!ReservationsAreHeld'
<1> SUFFICES ASSUME NEW i \in Items
             PROVE  /\ item'[i].resQty = Servicing!SumFunction([a \in Aftersales |-> Servicing!HeldQty(a, i)'])
                    /\ item'[i].resAmt = Servicing!SumFunction([t \in Servicing!Sources |-> Servicing!HeldAmt(t, i)'])
  BY DEF Servicing!ReservationsAreHeld
<1> DEFINE f == [a \in Aftersales |-> Servicing!HeldQty(a, i)]
           g == [a \in Aftersales |-> Servicing!HeldQty(a, i)']
           h == [t \in Servicing!Sources |-> Servicing!HeldAmt(t, i)]
           k == [t \in Servicing!Sources |-> Servicing!HeldAmt(t, i)']
<1>1. /\ DOMAIN f = Aftersales /\ \A a \in Aftersales : f[a] \in Int /\ f[a] = Servicing!HeldQty(a, i)
      /\ DOMAIN h = Servicing!Sources /\ \A t \in Servicing!Sources : h[t] \in Int
          /\ h[t] = Servicing!HeldAmt(t, i)
  BY ServicingHeldTyped
<1>a. /\ \A a \in Aftersales : Servicing!HeldQty(a, i)' \in Nat
      /\ \A t \in Servicing!Sources : Servicing!HeldAmt(t, i)' \in Nat
  <2>1. ServicingTyped' => /\ \A a \in Aftersales : Servicing!HeldQty(a, i)' \in Nat
                           /\ \A t \in Servicing!Sources : Servicing!HeldAmt(t, i)' \in Nat
    <3>1. \A a \in Aftersales : ServicingTyped' => Servicing!HeldQty(a, i)' \in Nat
      BY DEF ServicingTyped, ServicingCase, ServicingFields, Servicing!HeldQty
    <3>2. \A t \in Servicing!Sources : ServicingTyped' => Servicing!OpenAmt(t, i)' \in Nat
      BY DEF ServicingTyped, ServicingMoney, ServicingFields, Servicing!OpenAmt
    <3>3. \A a \in Aftersales : ServicingTyped' => Servicing!KeptAmount(a, i)' \in Nat
       /\ (aftersale[a].amt[i])' \in Nat
      <4>1. ASSUME NEW a \in Aftersales, ServicingTyped'
            PROVE  (aftersale[a].amt[i])' \in Nat /\ (aftersale[a].approved[i])' \in Nat
        BY <4>1 DEF ServicingTyped, ServicingCase, ServicingFields
      <4>2. ASSUME NEW a \in Aftersales, ServicingTyped'
            PROVE  Price[i] * (aftersale[a].approved[i])' \in Nat
        BY <4>1, <4>2, ServicingAmounts0, ServicingMulNat
      <4> QED BY <4>1, <4>2 DEF Servicing!KeptAmount
    <3> QED BY <3>1, <3>2, <3>3 DEF Servicing!HeldAmt, Servicing!Sources
  <2> QED BY <2>1
<1>2. /\ DOMAIN g = Aftersales /\ \A a \in Aftersales : g[a] \in Int /\ g[a] = Servicing!HeldQty(a, i)'
      /\ DOMAIN k = Servicing!Sources /\ \A t \in Servicing!Sources : k[t] \in Int
          /\ k[t] = Servicing!HeldAmt(t, i)'
  BY <1>a
<1>3. \A t \in Servicing!Sources \ {s} : h[t] = k[t] BY ServicingSameHeld
<1>4. \A a \in Aftersales \ {s} : f[a] = g[a] BY ServicingSameCase DEF Servicing!Sources
<1>5. item[i].resQty = Servicing!SumFunction(f) /\ item[i].resAmt = Servicing!SumFunction(h)
  BY DEF Servicing!ReservationsAreHeld
<1> SUFFICES item'[i].resQty = Servicing!SumFunction(g) /\ item'[i].resAmt = Servicing!SumFunction(k)
  OBVIOUS
<1> HIDE DEF f, g, h, k
<1>6. Servicing!SumFunction(k) = Servicing!SumFunction(h) + k[s] - h[s]
  BY <1>1, <1>2, <1>3, ServicingFinite, ServicingTotalUpdate
<1>7. item'[i].resAmt = Servicing!SumFunction(k) BY <1>1, <1>2, <1>5, <1>6
<1>8. CASE s \in Aftersales
  <2>1. Servicing!SumFunction(g) = Servicing!SumFunction(f) + g[s] - f[s]
    BY <1>1, <1>2, <1>4, <1>8, ServicingFinite, ServicingTotalUpdate
  <2> QED BY <1>1, <1>2, <1>5, <1>7, <1>8, <2>1
<1>9. CASE s \notin Aftersales
  <2>1. \A a \in Aftersales : f[a] = g[a] BY <1>4, <1>9
  <2>2. f = g BY <2>1 DEF f, g
  <2> QED BY <1>5, <1>7, <1>9, <2>2
<1> QED BY <1>8, <1>9

\* What is committed does not change with the state of a refund under way.
LEMMA ServicingCommittedSame ==
  ASSUME \A s \in Servicing!Sources : \A i \in Items : Servicing!OpenAmt(s, i)' = Servicing!OpenAmt(s, i)
     /\ Servicing!OpenReversal(s, i)' = Servicing!OpenReversal(s, i),
         NEW i \in Items
  PROVE  Servicing!CommittedAmt(i)' = Servicing!CommittedAmt(i)
     /\ Servicing!CommittedReversal(i)' = Servicing!CommittedReversal(i)
<1>1. [s \in Servicing!Sources |-> Servicing!OpenAmt(s, i)'] = [s \in Servicing!Sources |-> Servicing!OpenAmt(s, i)]
  OBVIOUS
<1>2. [s \in Servicing!Sources |-> Servicing!OpenReversal(s, i)'] = [s \in Servicing!Sources |-> Servicing!OpenReversal(s, i)]
  OBVIOUS
<1> QED BY <1>1, <1>2 DEF Servicing!CommittedAmt, Servicing!CommittedReversal

\* It moves with the refund that moves.
LEMMA ServicingCommittedMoves ==
  ASSUME ServicingGiven, ServicingTyped, ServicingTyped', NEW s \in Servicing!Sources,
         \A t \in Servicing!Sources \ {s} : refund'[t] = refund[t], NEW i \in Items
  PROVE  /\ Servicing!CommittedAmt(i)' = Servicing!CommittedAmt(i) + Servicing!OpenAmt(s, i)' - Servicing!OpenAmt(s, i)
         /\ Servicing!CommittedReversal(i)' = Servicing!CommittedReversal(i) + Servicing!OpenReversal(s, i)' - Servicing!OpenReversal(s, i)
<1> DEFINE f == [t \in Servicing!Sources |-> Servicing!OpenAmt(t, i)]
           g == [t \in Servicing!Sources |-> Servicing!OpenAmt(t, i)']
           h == [t \in Servicing!Sources |-> Servicing!OpenReversal(t, i)]
           k == [t \in Servicing!Sources |-> Servicing!OpenReversal(t, i)']
<1>1. /\ DOMAIN f = Servicing!Sources /\ \A t \in Servicing!Sources : f[t] \in Int
          /\ f[t] = Servicing!OpenAmt(t, i)
      /\ DOMAIN h = Servicing!Sources /\ \A t \in Servicing!Sources : h[t] \in Int
          /\ h[t] = Servicing!OpenReversal(t, i)
  BY ServicingHeldTyped
<1>2. \A t \in Servicing!Sources : Servicing!OpenAmt(t, i)' \in Nat /\ Servicing!OpenReversal(t, i)' \in Nat
  BY DEF ServicingTyped, ServicingMoney, ServicingFields, Servicing!OpenAmt, Servicing!OpenReversal
<1>3. /\ DOMAIN g = Servicing!Sources /\ \A t \in Servicing!Sources : g[t] \in Int
          /\ g[t] = Servicing!OpenAmt(t, i)'
      /\ DOMAIN k = Servicing!Sources /\ \A t \in Servicing!Sources : k[t] \in Int
          /\ k[t] = Servicing!OpenReversal(t, i)'
  BY <1>2
<1>4. \A t \in Servicing!Sources \ {s} : f[t] = g[t] /\ h[t] = k[t] BY ServicingSameRefund
<1>5. /\ Servicing!CommittedAmt(i) = Servicing!SumFunction(f)
          /\ Servicing!CommittedAmt(i)' = Servicing!SumFunction(g)
      /\ Servicing!CommittedReversal(i) = Servicing!SumFunction(h)
          /\ Servicing!CommittedReversal(i)' = Servicing!SumFunction(k)
  BY DEF Servicing!CommittedAmt, Servicing!CommittedReversal
<1> HIDE DEF f, g, h, k
<1>6. Servicing!SumFunction(g) = Servicing!SumFunction(f) + g[s] - f[s]
  BY <1>1, <1>3, <1>4, ServicingFinite, ServicingTotalUpdate
<1>7. Servicing!SumFunction(k) = Servicing!SumFunction(h) + k[s] - h[s]
  BY <1>1, <1>3, <1>4, ServicingFinite, ServicingTotalUpdate
<1> QED BY <1>1, <1>3, <1>5, <1>6, <1>7

\* The commission side only looks at positions, refunds and what was refunded.
LEMMA ServicingReversalSame ==
  ASSUME NEW i \in Items, ServicingReversalRight(i),
         earned'[i] = earned[i], item'[i].refAmt = item[i].refAmt,
         \A s \in Servicing!Sources : refund'[s].amt = refund[s].amt /\ refund'[s].reversal = refund[s].reversal,
         \A s \in Servicing!Sources : \A j \in Items : Servicing!OpenAmt(s, j)' = Servicing!OpenAmt(s, j)
            /\ Servicing!OpenReversal(s, j)' = Servicing!OpenReversal(s, j)
  PROVE  ServicingReversalRight(i)'
<1>1. Servicing!CommittedAmt(i)' = Servicing!CommittedAmt(i)
   /\ Servicing!CommittedReversal(i)' = Servicing!CommittedReversal(i)
  BY ServicingCommittedSame
<1> QED BY <1>1 DEF ServicingReversalRight

LEMMA ServicingPositionSame ==
  ASSUME \A i \in Items : earned'[i] = earned[i] /\ ServicingPositionRight(i), ServicingWalletRight,
         paidOut' = paidOut
  PROVE  (\A i \in Items : ServicingPositionRight(i)') /\ ServicingWalletRight'
<1>1. \A i \in Items : ServicingPositionRight(i)' BY DEF ServicingPositionRight
<1>2. \A i \in Items : Servicing!Earned(i)' = Servicing!Earned(i) BY DEF Servicing!Earned
<1>3. [i \in Items |-> Servicing!Earned(i)'] = [i \in Items |-> Servicing!Earned(i)] BY <1>2
<1>4. ServicingWalletRight' BY <1>3 DEF ServicingWalletRight
<1> QED BY <1>1, <1>4

--------------------------------
\* Steps of an aftersale that has no refund yet.

\* A line whose reservation changes keeps everything else.
ServicingOnlyReserves(i, qty, amt) ==
  /\ item'[i].resQty = item[i].resQty + qty /\ item'[i].resAmt = item[i].resAmt + amt
  /\ item'[i].refQty = item[i].refQty /\ item'[i].preQty = item[i].preQty
  /\ item'[i].refAmt = item[i].refAmt /\ item'[i].shipped = item[i].shipped

LEMMA ServicingReserving ==
  ASSUME ServicingTyped, NEW q, NEW m, \A i \in Items : q[i] \in Int /\ m[i] \in Int,
         Servicing!Store([i \in Items |-> Servicing!Reserve(i, q[i], m[i])])
  PROVE  /\ item' \in [Items -> ServicingRows] /\ ServicingLinesRight'
         /\ \A i \in Items : ServicingOnlyReserves(i, q[i], m[i])
<1>1. item' = [i \in Items |-> Servicing!Reserve(i, q[i], m[i])]
   /\ \A i \in Items : Servicing!ItemCheck(i, item'[i])
  BY DEF Servicing!Store
<1>2. ASSUME NEW i \in Items
      PROVE  item'[i] \in ServicingRows /\ ServicingOnlyReserves(i, q[i], m[i])
  <2>1. item'[i] = [item[i] EXCEPT !.resQty = @ + q[i], !.resAmt = @ + m[i]]  BY <1>1 DEF Servicing!Reserve
  <2>2. item[i] \in ServicingRows BY ServicingRowTyped
  <2>3. ServicingOnlyReserves(i, q[i], m[i]) BY <2>1, <2>2 DEF ServicingRows, ServicingOnlyReserves
  <2>4. item'[i].resQty >= 0 /\ item'[i].resAmt >= 0 BY <1>1 DEF Servicing!ItemCheck
  <2>5. item'[i].resQty \in Nat /\ item'[i].resAmt \in Nat
    BY <2>2, <2>3, <2>4 DEF ServicingRows, ServicingOnlyReserves
  <2>6. item'[i] \in ServicingRows BY <2>1, <2>2, <2>5 DEF ServicingRows
  <2> QED BY <2>3, <2>6
<1> QED BY <1>1, <1>2 DEF ServicingLinesRight

LEMMA ServicingReleasing ==
  ASSUME ServicingTyped, NEW q, NEW m, \A i \in Items : q[i] \in Int /\ m[i] \in Int,
         Servicing!Store(Servicing!Release(q, m))
  PROVE  /\ item' \in [Items -> ServicingRows] /\ ServicingLinesRight'
         /\ \A i \in Items : ServicingOnlyReserves(i, -q[i], -m[i])
<1> DEFINE p == [i \in Items |-> -q[i]]
           n == [i \in Items |-> -m[i]]
<1>1. \A i \in Items : p[i] \in Int /\ n[i] \in Int /\ p[i] = -q[i] /\ n[i] = -m[i]
  OBVIOUS
<1>2. [i \in Items |-> Servicing!Reserve(i, -q[i], -m[i])] = [i \in Items |-> Servicing!Reserve(i, p[i], n[i])]
  BY <1>1
<1>3. Servicing!Store([i \in Items |-> Servicing!Reserve(i, p[i], n[i])])  BY <1>2 DEF Servicing!Release
<1> HIDE DEF p, n
<1> QED BY <1>1, <1>3, ServicingReserving

LEMMA ServicingKeeping ==
  ASSUME ServicingTyped, item' = item, ServicingLinesRight
  PROVE  /\ item' \in [Items -> ServicingRows] /\ ServicingLinesRight'
         /\ \A i \in Items : ServicingOnlyReserves(i, 0, 0)
<1>1. \A i \in Items : ServicingOnlyReserves(i, 0, 0)  BY ServicingRowTyped DEF ServicingOnlyReserves
<1> QED BY <1>1 DEF ServicingTyped, ServicingLinesRight

\* Aftersale a moves, with the reservations it holds.
ServicingCaseMoves(a) ==
  /\ refund[a].status = "NONE"
  /\ aftersale' \in [Aftersales -> ServicingCase]
  /\ \A b \in Aftersales \ {a} : aftersale'[b] = aftersale[b]
  /\ aftersale'[a].status \notin {"NONE", "REFUND_FAILED", "COMPLETED"}
  /\ aftersale[a].status # "COMPLETED"
  /\ ServicingCaseRight(a)'
  /\ item' \in [Items -> ServicingRows] /\ ServicingLinesRight'
  /\ \A i \in Items :
       ServicingOnlyReserves(i, Servicing!HeldQty(a, i)' - Servicing!HeldQty(a, i), Servicing!HeldAmt(a, i)' - Servicing!HeldAmt(a, i))
  /\ UNCHANGED <<order, refund, executed, earned, paidOut, restocked>>

LEMMA ServicingCaseMovesKeepsBooks ==
  ASSUME ServicingGiven, ServicingBooks, NEW a \in Aftersales, ServicingCaseMoves(a)
  PROVE  ServicingBooks'
<1>1. ServicingTyped' BY DEF ServicingBooks, ServicingTyped, ServicingCaseMoves
<1>2. ServicingLinesRight' BY DEF ServicingCaseMoves
<1>a. a \in Servicing!Sources BY DEF Servicing!Sources
<1>3. ASSUME NEW b \in Aftersales
      PROVE  ServicingCaseRight(b)' /\ ServicingRefundOf(b)'
  <2>1. CASE b = a
    <3>1. ServicingRefundOf(a)'  BY DEF ServicingCaseMoves, ServicingRefundOf, Servicing!ActiveRefund
    <3> QED BY <2>1, <3>1 DEF ServicingCaseMoves
  <2>2. CASE b # a
    <3>1. aftersale'[b] = aftersale[b] /\ refund'[b] = refund[b] BY <2>2 DEF ServicingCaseMoves
    <3>2. ServicingRefundOf(b)' BY <3>1, ServicingSameRefundOf DEF ServicingBooks
    <3> QED BY <3>1, <3>2 DEF ServicingBooks, ServicingCaseRight
  <2> QED BY <2>1, <2>2
<1>4. (\A i \in Items : ServicingPositionRight(i)') /\ ServicingWalletRight'
  BY ServicingPositionSame DEF ServicingBooks, ServicingCaseMoves
<1>5. ASSUME NEW i \in Items
      PROVE  ServicingReversalRight(i)'
  <2>1. \A s \in Servicing!Sources : \A j \in Items : Servicing!OpenAmt(s, j)' = Servicing!OpenAmt(s, j)
     /\ Servicing!OpenReversal(s, j)' = Servicing!OpenReversal(s, j)
    BY ServicingSameRefund DEF ServicingCaseMoves
  <2>2. item'[i].refAmt = item[i].refAmt /\ earned'[i] = earned[i]
    BY DEF ServicingCaseMoves, ServicingOnlyReserves
  <2> QED BY <2>1, <2>2, ServicingReversalSame DEF ServicingBooks, ServicingCaseMoves
<1>6. ServicingMoneyOnly' BY DEF ServicingBooks, ServicingMoneyOnly, ServicingCaseMoves
<1>7. Servicing!ReservationsAreHeld'
  <2>1. \A t \in Servicing!Sources \ {a} : refund'[t] = refund[t]
     /\ (t \in Aftersales => aftersale'[t] = aftersale[t])
    BY DEF ServicingCaseMoves
  <2>2. \A i \in Items : /\ item[i].resQty \in Int /\ Servicing!HeldQty(a, i) \in Int
                         /\ item[i].resAmt \in Int /\ Servicing!HeldAmt(a, i) \in Int
    BY <1>a, ServicingRowTyped, ServicingHeldTyped DEF ServicingBooks
  <2>3. \A i \in Items : Servicing!HeldQty(a, i)' \in Int /\ Servicing!HeldAmt(a, i)' \in Int
    <3>1. ASSUME NEW i \in Items
          PROVE  /\ aftersale'[a].qty[i] \in Nat /\ aftersale'[a].amt[i] \in Nat
                 /\ aftersale'[a].approved[i] \in Nat /\ Servicing!OpenAmt(a, i)' \in Nat
                 /\ Price[i] * aftersale'[a].approved[i] \in Nat
      <4>1. aftersale'[a].qty[i] \in Nat /\ aftersale'[a].amt[i] \in Nat /\ aftersale'[a].approved[i] \in Nat
        BY DEF ServicingCaseMoves, ServicingCase, ServicingFields
      <4>2. Servicing!OpenAmt(a, i)' \in Nat
        BY <1>1, <1>a DEF ServicingTyped, ServicingMoney, ServicingFields, Servicing!OpenAmt
      <4> QED BY <4>1, <4>2, ServicingAmounts0, ServicingMulNat
    <3> QED BY <3>1 DEF Servicing!HeldQty, Servicing!HeldAmt, Servicing!KeptAmount
  <2>4. \A i \in Items : /\ item'[i].resQty = item[i].resQty + Servicing!HeldQty(a, i)' - Servicing!HeldQty(a, i)
                         /\ item'[i].resAmt = item[i].resAmt + Servicing!HeldAmt(a, i)' - Servicing!HeldAmt(a, i)
    BY <2>2, <2>3 DEF ServicingCaseMoves, ServicingOnlyReserves
  <2> QED BY <1>1, <1>a, <2>1, <2>4, ServicingHeldMoves DEF ServicingBooks
<1> QED BY <1>1, <1>2, <1>3, <1>4, <1>5, <1>6, <1>7 DEF ServicingBooks

LEMMA ServicingNotBoth == ASSUME ServicingGiven, NEW a \in Aftersales PROVE a \notin Compensations
   /\ a \in Servicing!Sources
BY DEF ServicingGiven, Servicing!ServicingAssumption, Servicing!Sources

LEMMA ServicingUptoNat ==
  ASSUME NEW f, \A i \in Items : f[i] \in Nat, NEW g \in Servicing!Upto(f)
  PROVE  g \in ServicingFields /\ \A i \in Items : g[i] <= f[i]
<1>1. UNION {0..f[i] : i \in Items} \subseteq Nat
  OBVIOUS
<1> QED BY <1>1 DEF Servicing!Upto, ServicingFields

LEMMA ServicingApplyMoves ==
  ASSUME ServicingGiven, ServicingBooks, NEW a \in Aftersales, NEW type \in {"REFUND_ONLY", "RETURN_REFUND"},
         NEW req \in Servicing!Upto(Ordered),
         Servicing!ApplyAftersale(a, type, req)
  PROVE  ServicingCaseMoves(a)
<1> DEFINE amt == [i \in Items |-> IF req[i] > 0 THEN Servicing!Allocated(i, req[i]) ELSE 0]
<1>1. req \in ServicingFields BY ServicingUptoNat, ServicingAmounts0
<1>2. /\ aftersale[a].status = "NONE" /\ \A i \in Items : req[i] > 0 => amt[i] > 0
      /\ Servicing!Store([i \in Items |-> Servicing!Reserve(i, req[i], amt[i])])
      /\ aftersale' = [aftersale EXCEPT ![a].status = "PENDING_REVIEW", ![a].type = type, ![a].qty = req, ![a].amt = amt]
      /\ UNCHANGED <<order, refund, executed, earned, paidOut, restocked>>
  BY DEF Servicing!ApplyAftersale
<1>3. ASSUME NEW i \in Items
      PROVE  amt[i] \in Nat /\ (req[i] = 0 => amt[i] = 0)
  <2>1. Servicing!RemainingAmt(i) \in Int /\ Price[i] * req[i] \in Nat
    BY <1>1, ServicingAmounts0, ServicingRowTyped, ServicingMulNat
       DEF Servicing!RemainingAmt, ServicingFields, ServicingBooks
  <2>2. Servicing!Allocated(i, req[i]) \in Int BY <2>1 DEF Servicing!Allocated
  <2>3. req[i] \in Nat BY <1>1 DEF ServicingFields
  <2> QED BY <1>2, <2>2, <2>3
<1>4. amt \in ServicingFields BY <1>3 DEF ServicingFields
<1>5. DOMAIN amt = Items /\ \A i \in Items : req[i] \in Int /\ amt[i] \in Int
  BY <1>1, <1>3 DEF ServicingFields
<1> HIDE DEF amt
<1>6. /\ item' \in [Items -> ServicingRows] /\ ServicingLinesRight'
      /\ \A i \in Items : ServicingOnlyReserves(i, req[i], amt[i])
  BY <1>2, <1>5, ServicingReserving DEF ServicingBooks
<1>7. aftersale[a] \in ServicingCase /\ aftersale \in [Aftersales -> ServicingCase]
  BY ServicingCaseTyped DEF ServicingBooks, ServicingTyped
<1>8. aftersale'[a] = [aftersale[a] EXCEPT !.status = "PENDING_REVIEW", !.type = type, !.qty = req, !.amt = amt]
  BY <1>2, <1>7
<1>9. aftersale'[a] \in ServicingCase /\ \A b \in Aftersales \ {a} : aftersale'[b] = aftersale[b]
  BY <1>1, <1>2, <1>4, <1>7, <1>8 DEF ServicingCase, ServicingAllStatus, Servicing!ActiveAftersale
<1>10. aftersale' \in [Aftersales -> ServicingCase] BY <1>2, <1>7, <1>9
<1>11. aftersale'[a].status = "PENDING_REVIEW" /\ aftersale'[a].type = type /\ aftersale'[a].qty = req
   /\ aftersale'[a].amt = amt
       /\ aftersale'[a].approved = aftersale[a].approved /\ aftersale'[a].restock = aftersale[a].restock
  BY <1>7, <1>8 DEF ServicingCase
<1>12. aftersale[a].approved = Servicing!Zero /\ aftersale[a].restock = Servicing!Zero
  BY <1>2 DEF ServicingBooks, ServicingCaseRight
<1>13. ServicingCaseRight(a)'
  BY <1>1, <1>3, <1>11, <1>12 DEF ServicingCaseRight, Servicing!Zero, ServicingFields
<1>14. refund[a].status = "NONE" BY <1>2, ServicingNotYet DEF ServicingBooks
<1>15. ASSUME NEW i \in Items
       PROVE  /\ Servicing!HeldQty(a, i) = 0 /\ Servicing!HeldAmt(a, i) = 0
              /\ Servicing!HeldQty(a, i)' = req[i] /\ Servicing!HeldAmt(a, i)' = amt[i]
  BY <1>2, <1>11, ServicingNotBoth DEF Servicing!HeldQty, Servicing!HeldAmt, Servicing!OpenAftersales,
     Servicing!ActiveAftersale, Servicing!Inspected
<1>16. \A i \in Items : ServicingOnlyReserves(i, Servicing!HeldQty(a, i)' - Servicing!HeldQty(a, i), Servicing!HeldAmt(a, i)' - Servicing!HeldAmt(a, i))
  <2> SUFFICES ASSUME NEW i \in Items
               PROVE  ServicingOnlyReserves(i, Servicing!HeldQty(a, i)' - Servicing!HeldQty(a, i), Servicing!HeldAmt(a, i)' - Servicing!HeldAmt(a, i))
    OBVIOUS
  <2>1. Servicing!HeldQty(a, i)' - Servicing!HeldQty(a, i) = req[i]
     /\ Servicing!HeldAmt(a, i)' - Servicing!HeldAmt(a, i) = amt[i]
    BY <1>5, <1>15
  <2> QED BY <1>6, <2>1
<1> QED BY <1>2, <1>6, <1>9, <1>10, <1>11, <1>13, <1>14, <1>16 DEF ServicingCaseMoves

\* An aftersale moves on without letting go of anything.
LEMMA ServicingMovesOn ==
  ASSUME ServicingGiven, ServicingBooks, NEW a \in Aftersales, NEW from, NEW to, Servicing!Move(a, from, to),
         from \in Servicing!ActiveAftersale \ {"REFUNDING", "REFUNDING_AFTER_RETURN", "REFUND_FAILED"},
         to \in Servicing!ActiveAftersale \ {"REFUNDING_AFTER_RETURN", "REFUND_FAILED"},
         ServicingCaseRight(a)', UNCHANGED <<order, item, refund, executed, earned, paidOut, restocked>>
  PROVE  ServicingCaseMoves(a)
<1>1. aftersale[a] \in ServicingCase /\ aftersale \in [Aftersales -> ServicingCase] /\ aftersale[a].status = from
      /\ aftersale' = [aftersale EXCEPT ![a].status = to]
  BY ServicingCaseTyped DEF ServicingBooks, ServicingTyped, Servicing!Move
<1>2. aftersale'[a] = [aftersale[a] EXCEPT !.status = to] BY <1>1
<1>3. aftersale'[a] \in ServicingCase /\ (\A b \in Aftersales \ {a} : aftersale'[b] = aftersale[b])
   /\ to \in ServicingAllStatus
  BY <1>1, <1>2 DEF ServicingCase, ServicingAllStatus, Servicing!ActiveAftersale
<1>4. aftersale' \in [Aftersales -> ServicingCase] BY <1>1, <1>3
<1>5. aftersale'[a].status = to /\ aftersale'[a].type = aftersale[a].type
      /\ aftersale'[a].qty = aftersale[a].qty /\ aftersale'[a].amt = aftersale[a].amt
  BY <1>1, <1>2 DEF ServicingCase
<1>6. refund[a].status = "NONE"  BY <1>1, ServicingNotYet DEF ServicingBooks, Servicing!ActiveAftersale
<1>7. ASSUME NEW i \in Items
      PROVE  Servicing!HeldQty(a, i)' = Servicing!HeldQty(a, i)
         /\ Servicing!HeldAmt(a, i)' = Servicing!HeldAmt(a, i)
  BY <1>1, <1>5, ServicingNotBoth DEF Servicing!HeldQty, Servicing!HeldAmt, Servicing!OpenAftersales,
     Servicing!Inspected, Servicing!ActiveAftersale
<1>8. /\ item' \in [Items -> ServicingRows] /\ ServicingLinesRight'
          /\ \A i \in Items : ServicingOnlyReserves(i, 0, 0)
  BY ServicingKeeping DEF ServicingBooks
<1>9. \A i \in Items : ServicingOnlyReserves(i, Servicing!HeldQty(a, i)' - Servicing!HeldQty(a, i), Servicing!HeldAmt(a, i)' - Servicing!HeldAmt(a, i))
  <2> SUFFICES ASSUME NEW i \in Items
               PROVE  ServicingOnlyReserves(i, Servicing!HeldQty(a, i)' - Servicing!HeldQty(a, i), Servicing!HeldAmt(a, i)' - Servicing!HeldAmt(a, i))
    OBVIOUS
  <2>1. Servicing!HeldQty(a, i) \in Nat /\ Servicing!HeldAmt(a, i) \in Nat
    BY ServicingHeldTyped, ServicingNotBoth DEF ServicingBooks
  <2>2. Servicing!HeldQty(a, i)' - Servicing!HeldQty(a, i) = 0
     /\ Servicing!HeldAmt(a, i)' - Servicing!HeldAmt(a, i) = 0
    BY <1>7, <2>1
  <2> QED BY <1>8, <2>2
<1> QED BY <1>1, <1>3, <1>4, <1>5, <1>6, <1>8, <1>9 DEF ServicingCaseMoves, Servicing!ActiveAftersale

\* An aftersale ends, and everything it held is free again.
LEMMA ServicingLetsGo ==
  ASSUME ServicingGiven, ServicingBooks, NEW a \in Aftersales, NEW from, NEW to, Servicing!Move(a, from, to),
         from \in Servicing!ActiveAftersale \ {"REFUNDING", "REFUNDING_AFTER_RETURN", "REFUND_FAILED"},
         to \in {"CANCELLED", "REJECTED", "REJECTED_AFTER_RETURN"},
         Servicing!Store(Servicing!Release(aftersale[a].qty, aftersale[a].amt)),
         UNCHANGED <<order, refund, executed, earned, paidOut, restocked>>
  PROVE  ServicingCaseMoves(a)
<1>1. aftersale[a] \in ServicingCase /\ aftersale \in [Aftersales -> ServicingCase] /\ aftersale[a].status = from
      /\ aftersale' = [aftersale EXCEPT ![a].status = to]
  BY ServicingCaseTyped DEF ServicingBooks, ServicingTyped, Servicing!Move
<1>2. aftersale'[a] = [aftersale[a] EXCEPT !.status = to] BY <1>1
<1>3. aftersale'[a] \in ServicingCase /\ (\A b \in Aftersales \ {a} : aftersale'[b] = aftersale[b])
  BY <1>1, <1>2 DEF ServicingCase, ServicingAllStatus
<1>4. aftersale' \in [Aftersales -> ServicingCase] BY <1>1, <1>3
<1>5. aftersale'[a].status = to /\ aftersale'[a].type = aftersale[a].type
      /\ aftersale'[a].qty = aftersale[a].qty /\ aftersale'[a].amt = aftersale[a].amt
      /\ aftersale'[a].approved = aftersale[a].approved /\ aftersale'[a].restock = aftersale[a].restock
  BY <1>1, <1>2 DEF ServicingCase
<1>6. refund[a].status = "NONE"  BY <1>1, ServicingNotYet DEF ServicingBooks, Servicing!ActiveAftersale
<1>7. ServicingCaseRight(a)'
  <2>1. ServicingCaseRight(a) /\ aftersale[a].status # "NONE"
    BY <1>1 DEF ServicingBooks, Servicing!ActiveAftersale
  <2> QED BY <1>5, <2>1 DEF ServicingCaseRight
<1>8. ASSUME NEW i \in Items
      PROVE  /\ Servicing!HeldQty(a, i) = aftersale[a].qty[i] /\ Servicing!HeldAmt(a, i) = aftersale[a].amt[i]
             /\ Servicing!HeldQty(a, i)' = 0 /\ Servicing!HeldAmt(a, i)' = 0
  BY <1>1, <1>5, ServicingNotBoth DEF Servicing!HeldQty, Servicing!HeldAmt, Servicing!OpenAftersales,
     Servicing!Inspected, Servicing!ActiveAftersale
<1>9. \A i \in Items : aftersale[a].qty[i] \in Int /\ aftersale[a].amt[i] \in Int
  BY ServicingCaseTyped DEF ServicingBooks
<1>10. /\ item' \in [Items -> ServicingRows] /\ ServicingLinesRight'
       /\ \A i \in Items : ServicingOnlyReserves(i, -aftersale[a].qty[i], -aftersale[a].amt[i])
  BY <1>9, ServicingReleasing DEF ServicingBooks
<1>11. \A i \in Items : ServicingOnlyReserves(i, Servicing!HeldQty(a, i)' - Servicing!HeldQty(a, i), Servicing!HeldAmt(a, i)' - Servicing!HeldAmt(a, i))
  <2> SUFFICES ASSUME NEW i \in Items
               PROVE  ServicingOnlyReserves(i, Servicing!HeldQty(a, i)' - Servicing!HeldQty(a, i), Servicing!HeldAmt(a, i)' - Servicing!HeldAmt(a, i))
    OBVIOUS
  <2>1. Servicing!HeldQty(a, i)' - Servicing!HeldQty(a, i) = -aftersale[a].qty[i]
     /\ Servicing!HeldAmt(a, i)' - Servicing!HeldAmt(a, i) = -aftersale[a].amt[i]
    BY <1>8, <1>9
  <2> QED BY <1>10, <2>1
<1> QED BY <1>1, <1>3, <1>4, <1>5, <1>6, <1>7, <1>10, <1>11 DEF ServicingCaseMoves, Servicing!ActiveAftersale

LEMMA ServicingInspectionMoves ==
  ASSUME ServicingGiven, ServicingBooks, NEW a \in Aftersales, NEW approved \in Servicing!Upto(aftersale[a].qty),
         NEW restock \in Servicing!Upto(approved),
         Servicing!RecordInspection(a, approved, restock)
  PROVE  ServicingCaseMoves(a)
<1> DEFINE to == IF approved = aftersale[a].qty THEN "REFUNDING_AFTER_RETURN" ELSE "RETURN_EXCEPTION"
<1>1. /\ aftersale[a] \in ServicingCase /\ aftersale \in [Aftersales -> ServicingCase]
          /\ aftersale[a].status = "WAITING_RECEIPT"
      /\ aftersale' = [aftersale EXCEPT ![a].status = to, ![a].approved = approved, ![a].restock = restock]
      /\ UNCHANGED <<order, item, refund, executed, earned, paidOut, restocked>>
  BY ServicingCaseTyped DEF ServicingBooks, ServicingTyped, Servicing!RecordInspection
<1>2. approved \in ServicingFields /\ restock \in ServicingFields
      /\ \A i \in Items : approved[i] <= aftersale[a].qty[i] /\ restock[i] <= approved[i]
  <2>1. \A i \in Items : aftersale[a].qty[i] \in Nat BY ServicingCaseTyped DEF ServicingBooks
  <2>2. approved \in ServicingFields /\ \A i \in Items : approved[i] <= aftersale[a].qty[i]
    BY <2>1, ServicingUptoNat
  <2>3. \A i \in Items : approved[i] \in Nat BY <2>2 DEF ServicingFields
  <2> QED BY <2>2, <2>3, ServicingUptoNat
<1>3. aftersale'[a] = [aftersale[a] EXCEPT !.status = to, !.approved = approved, !.restock = restock]  BY <1>1
<1>4. to \in {"REFUNDING_AFTER_RETURN", "RETURN_EXCEPTION"}
      /\ (to = "REFUNDING_AFTER_RETURN" => approved = aftersale[a].qty)
  OBVIOUS
<1> HIDE DEF to
<1>5. aftersale'[a] \in ServicingCase /\ (\A b \in Aftersales \ {a} : aftersale'[b] = aftersale[b])
  BY <1>1, <1>2, <1>3, <1>4 DEF ServicingCase, ServicingAllStatus, Servicing!ActiveAftersale
<1>6. aftersale' \in [Aftersales -> ServicingCase] BY <1>1, <1>5
<1>7. aftersale'[a].status = to /\ aftersale'[a].type = aftersale[a].type
      /\ aftersale'[a].qty = aftersale[a].qty /\ aftersale'[a].amt = aftersale[a].amt
      /\ aftersale'[a].approved = approved /\ aftersale'[a].restock = restock
  BY <1>1, <1>3 DEF ServicingCase
<1>8. refund[a].status = "NONE" BY <1>1, ServicingNotYet DEF ServicingBooks
<1>9. aftersale[a].type = "RETURN_REFUND" BY <1>1 DEF ServicingBooks, ServicingCaseRight
<1>10. ServicingCaseRight(a)' BY <1>2, <1>4, <1>7, <1>9 DEF ServicingCaseRight, ServicingBooks
<1>11. ASSUME NEW i \in Items
       PROVE  Servicing!HeldQty(a, i)' = Servicing!HeldQty(a, i)
          /\ Servicing!HeldAmt(a, i)' = Servicing!HeldAmt(a, i)
  <2>1. Servicing!HeldQty(a, i) = aftersale[a].qty[i] /\ Servicing!HeldAmt(a, i) = aftersale[a].amt[i]
    BY <1>1, ServicingNotBoth DEF Servicing!HeldQty, Servicing!HeldAmt, Servicing!OpenAftersales,
       Servicing!Inspected, Servicing!ActiveAftersale
  <2>2. CASE to = "RETURN_EXCEPTION"
    BY <1>7, <2>1, <2>2, ServicingNotBoth DEF Servicing!HeldQty, Servicing!HeldAmt, Servicing!OpenAftersales,
       Servicing!Inspected, Servicing!ActiveAftersale
  <2>3. CASE to = "REFUNDING_AFTER_RETURN"
    BY <1>4, <1>7, <1>9, <2>1, <2>3, ServicingNotBoth DEF Servicing!HeldQty, Servicing!HeldAmt,
       Servicing!OpenAftersales, Servicing!Inspected, Servicing!ActiveAftersale, Servicing!KeptAmount
  <2> QED BY <1>4, <2>2, <2>3
<1>12. /\ item' \in [Items -> ServicingRows] /\ ServicingLinesRight'
           /\ \A i \in Items : ServicingOnlyReserves(i, 0, 0)
  BY <1>1, ServicingKeeping DEF ServicingBooks
<1>13. \A i \in Items : ServicingOnlyReserves(i, Servicing!HeldQty(a, i)' - Servicing!HeldQty(a, i), Servicing!HeldAmt(a, i)' - Servicing!HeldAmt(a, i))
  <2> SUFFICES ASSUME NEW i \in Items
               PROVE  ServicingOnlyReserves(i, Servicing!HeldQty(a, i)' - Servicing!HeldQty(a, i), Servicing!HeldAmt(a, i)' - Servicing!HeldAmt(a, i))
    OBVIOUS
  <2>1. Servicing!HeldQty(a, i) \in Nat /\ Servicing!HeldAmt(a, i) \in Nat
    BY ServicingHeldTyped, ServicingNotBoth DEF ServicingBooks
  <2>2. Servicing!HeldQty(a, i)' - Servicing!HeldQty(a, i) = 0
     /\ Servicing!HeldAmt(a, i)' - Servicing!HeldAmt(a, i) = 0
    BY <1>11, <2>1
  <2> QED BY <1>12, <2>2
<1> QED BY <1>1, <1>4, <1>5, <1>6, <1>7, <1>8, <1>10, <1>12, <1>13 DEF ServicingCaseMoves

LEMMA ServicingContinueMoves ==
  ASSUME ServicingGiven, ServicingBooks, NEW a \in Aftersales, Servicing!ContinueRefund(a)
  PROVE  ServicingCaseMoves(a)
<1> DEFINE back == [i \in Items |-> aftersale[a].qty[i] - aftersale[a].approved[i]]
           money == [i \in Items |-> aftersale[a].amt[i] - Servicing!KeptAmount(a, i)]
<1>1. /\ aftersale[a] \in ServicingCase /\ aftersale \in [Aftersales -> ServicingCase]
          /\ aftersale[a].status = "RETURN_EXCEPTION"
      /\ aftersale' = [aftersale EXCEPT ![a].status = "REFUNDING_AFTER_RETURN"]
      /\ Servicing!Store(Servicing!Release(back, money))
      /\ UNCHANGED <<order, refund, executed, earned, paidOut, restocked>>
  BY ServicingCaseTyped DEF ServicingBooks, ServicingTyped, Servicing!ContinueRefund, Servicing!Move
<1>2. \A i \in Items : /\ back[i] = aftersale[a].qty[i] - aftersale[a].approved[i]
                       /\ money[i] = aftersale[a].amt[i] - Servicing!KeptAmount(a, i)
                       /\ back[i] \in Int /\ money[i] \in Int
                       /\ aftersale[a].qty[i] \in Int /\ aftersale[a].approved[i] \in Int
                       /\ aftersale[a].amt[i] \in Int /\ Servicing!KeptAmount(a, i) \in Int
  BY ServicingCaseTyped, ServicingKeptTyped DEF ServicingBooks
<1> HIDE DEF back, money
<1>3. aftersale'[a] = [aftersale[a] EXCEPT !.status = "REFUNDING_AFTER_RETURN"] BY <1>1
<1>4. aftersale'[a] \in ServicingCase /\ (\A b \in Aftersales \ {a} : aftersale'[b] = aftersale[b])
  BY <1>1, <1>3 DEF ServicingCase, ServicingAllStatus, Servicing!ActiveAftersale
<1>5. aftersale' \in [Aftersales -> ServicingCase] BY <1>1, <1>4
<1>6. aftersale'[a].status = "REFUNDING_AFTER_RETURN" /\ aftersale'[a].type = aftersale[a].type
      /\ aftersale'[a].qty = aftersale[a].qty /\ aftersale'[a].amt = aftersale[a].amt
      /\ aftersale'[a].approved = aftersale[a].approved /\ aftersale'[a].restock = aftersale[a].restock
  BY <1>1, <1>3 DEF ServicingCase
<1>7. refund[a].status = "NONE" BY <1>1, ServicingNotYet DEF ServicingBooks
<1>8. aftersale[a].type = "RETURN_REFUND" BY <1>1 DEF ServicingBooks, ServicingCaseRight
<1>9. ServicingCaseRight(a)' BY <1>6, <1>8 DEF ServicingCaseRight, ServicingBooks
<1>10. ASSUME NEW i \in Items
       PROVE  /\ Servicing!HeldQty(a, i) = aftersale[a].qty[i] /\ Servicing!HeldAmt(a, i) = aftersale[a].amt[i]
              /\ Servicing!HeldQty(a, i)' = aftersale[a].approved[i]
                  /\ Servicing!HeldAmt(a, i)' = Servicing!KeptAmount(a, i)
  <2>1. Servicing!HeldQty(a, i) = aftersale[a].qty[i] /\ Servicing!HeldAmt(a, i) = aftersale[a].amt[i]
    BY <1>1, ServicingNotBoth DEF Servicing!HeldQty, Servicing!HeldAmt, Servicing!OpenAftersales,
       Servicing!Inspected, Servicing!ActiveAftersale
  <2>2. Servicing!HeldQty(a, i)' = aftersale[a].approved[i]
     /\ Servicing!HeldAmt(a, i)' = Servicing!KeptAmount(a, i)
    BY <1>6, <1>8, ServicingNotBoth DEF Servicing!HeldQty, Servicing!HeldAmt, Servicing!OpenAftersales,
       Servicing!Inspected, Servicing!ActiveAftersale, Servicing!KeptAmount
  <2> QED BY <2>1, <2>2
<1>11. /\ item' \in [Items -> ServicingRows] /\ ServicingLinesRight'
       /\ \A i \in Items : ServicingOnlyReserves(i, -back[i], -money[i])
  BY <1>1, <1>2, ServicingReleasing DEF ServicingBooks
<1>12. \A i \in Items : ServicingOnlyReserves(i, Servicing!HeldQty(a, i)' - Servicing!HeldQty(a, i), Servicing!HeldAmt(a, i)' - Servicing!HeldAmt(a, i))
  <2> SUFFICES ASSUME NEW i \in Items
               PROVE  ServicingOnlyReserves(i, Servicing!HeldQty(a, i)' - Servicing!HeldQty(a, i), Servicing!HeldAmt(a, i)' - Servicing!HeldAmt(a, i))
    OBVIOUS
  <2>1. Servicing!HeldQty(a, i)' - Servicing!HeldQty(a, i) = -back[i]
     /\ Servicing!HeldAmt(a, i)' - Servicing!HeldAmt(a, i) = -money[i]
    BY <1>2, <1>10
  <2> QED BY <1>11, <2>1
<1> QED BY <1>1, <1>4, <1>5, <1>6, <1>7, <1>9, <1>11, <1>12 DEF ServicingCaseMoves

\* The commands of a customer or an administrator on an aftersale without refund.
ServicingCaseCommand(a) ==
  \/ Servicing!CustomerStep(a)
  \/ Servicing!ApproveAftersale(a) \/ Servicing!RejectAftersale(a)
  \/ \E approved \in Servicing!Upto(aftersale[a].qty) : \E restock \in Servicing!Upto(approved) :
       Servicing!RecordInspection(a, approved, restock)
  \/ Servicing!ContinueRefund(a) \/ Servicing!RejectAfterReturn(a)

\* The state an aftersale moves to asks no more of its inspection.
LEMMA ServicingStillRight ==
  ASSUME ServicingBooks, NEW a \in Aftersales, NEW from, NEW to, Servicing!Move(a, from, to),
         \/ from = "WAITING_RETURN" /\ to = "WAITING_RECEIPT"
         \/ from = "PENDING_REVIEW" /\ to = (IF aftersale[a].type = "REFUND_ONLY" THEN "REFUNDING" ELSE "WAITING_RETURN")
  PROVE  ServicingCaseRight(a)'
<1>1. aftersale[a] \in ServicingCase /\ aftersale[a].status = from
   /\ aftersale'[a] = [aftersale[a] EXCEPT !.status = to]
  BY ServicingCaseTyped DEF ServicingBooks, Servicing!Move, ServicingTyped
<1>2. aftersale'[a].status = to /\ aftersale'[a].type = aftersale[a].type
      /\ aftersale'[a].qty = aftersale[a].qty /\ aftersale'[a].amt = aftersale[a].amt
      /\ aftersale'[a].approved = aftersale[a].approved /\ aftersale'[a].restock = aftersale[a].restock
  BY <1>1 DEF ServicingCase
<1>3. ServicingCaseRight(a) /\ aftersale[a].type \in {"NONE", "REFUND_ONLY", "RETURN_REFUND"}
  BY ServicingCaseTyped DEF ServicingBooks
<1> QED BY <1>1, <1>2, <1>3 DEF ServicingCaseRight

LEMMA ServicingCommandMoves ==
  ASSUME ServicingGiven, ServicingBooks, NEW a \in Aftersales, ServicingCaseCommand(a)
  PROVE  ServicingCaseMoves(a)
<1>1. ASSUME NEW type \in {"REFUND_ONLY", "RETURN_REFUND"}, NEW req \in Servicing!Upto(Ordered),
             Servicing!ApplyAftersale(a, type, req)
      PROVE  ServicingCaseMoves(a)
  BY <1>1, ServicingApplyMoves
<1>2. CASE Servicing!CancelAftersale(a)
  <2>1. Servicing!Move(a, aftersale[a].status, "CANCELLED")
    BY <1>2 DEF Servicing!CancelAftersale, Servicing!Move
  <2>2. /\ aftersale[a].status \in Servicing!ActiveAftersale \ {"REFUNDING", "REFUNDING_AFTER_RETURN", "REFUND_FAILED"}
        /\ Servicing!Store(Servicing!Release(aftersale[a].qty, aftersale[a].amt))
        /\ UNCHANGED <<order, refund, executed, earned, paidOut, restocked>>
    BY <1>2 DEF Servicing!CancelAftersale, Servicing!ActiveAftersale
  <2> QED BY <2>1, <2>2, ServicingLetsGo
<1>3. CASE Servicing!SubmitReturnShipment(a)
  <2>1. Servicing!Move(a, "WAITING_RETURN", "WAITING_RECEIPT")
     /\ UNCHANGED <<order, item, refund, executed, earned, paidOut, restocked>>
    BY <1>3 DEF Servicing!SubmitReturnShipment
  <2>2. ServicingCaseRight(a)' BY <2>1, ServicingStillRight
  <2>3. "WAITING_RETURN" \in Servicing!ActiveAftersale \ {"REFUNDING", "REFUNDING_AFTER_RETURN", "REFUND_FAILED"}
        /\ "WAITING_RECEIPT" \in Servicing!ActiveAftersale \ {"REFUNDING_AFTER_RETURN", "REFUND_FAILED"}
    BY DEF Servicing!ActiveAftersale
  <2> QED BY <2>1, <2>2, <2>3, ServicingMovesOn
<1>4. CASE Servicing!ApproveAftersale(a)
  <2> DEFINE to == IF aftersale[a].type = "REFUND_ONLY" THEN "REFUNDING" ELSE "WAITING_RETURN"
  <2>1. Servicing!Move(a, "PENDING_REVIEW", to)
     /\ UNCHANGED <<order, item, refund, executed, earned, paidOut, restocked>>
    BY <1>4 DEF Servicing!ApproveAftersale
  <2>2. ServicingCaseRight(a)' BY <2>1, ServicingStillRight
  <2>3. "PENDING_REVIEW" \in Servicing!ActiveAftersale \ {"REFUNDING", "REFUNDING_AFTER_RETURN", "REFUND_FAILED"}
        /\ to \in Servicing!ActiveAftersale \ {"REFUNDING_AFTER_RETURN", "REFUND_FAILED"}
    BY DEF Servicing!ActiveAftersale
  <2> HIDE DEF to
  <2> QED BY <2>1, <2>2, <2>3, ServicingMovesOn
<1>5. CASE Servicing!RejectAftersale(a)
  <2>1. /\ Servicing!Move(a, "PENDING_REVIEW", "REJECTED")
            /\ Servicing!Store(Servicing!Release(aftersale[a].qty, aftersale[a].amt))
        /\ UNCHANGED <<order, refund, executed, earned, paidOut, restocked>>
        /\ "PENDING_REVIEW" \in Servicing!ActiveAftersale \ {"REFUNDING", "REFUNDING_AFTER_RETURN", "REFUND_FAILED"}
    BY <1>5 DEF Servicing!RejectAftersale, Servicing!ActiveAftersale
  <2> QED BY <2>1, ServicingLetsGo
<1>6. ASSUME NEW approved \in Servicing!Upto(aftersale[a].qty), NEW restock \in Servicing!Upto(approved),
             Servicing!RecordInspection(a, approved, restock)
      PROVE  ServicingCaseMoves(a)
  BY <1>6, ServicingInspectionMoves
<1>7. CASE Servicing!ContinueRefund(a) BY <1>7, ServicingContinueMoves
<1>8. CASE Servicing!RejectAfterReturn(a)
  <2>1. /\ Servicing!Move(a, "RETURN_EXCEPTION", "REJECTED_AFTER_RETURN")
            /\ Servicing!Store(Servicing!Release(aftersale[a].qty, aftersale[a].amt))
        /\ UNCHANGED <<order, refund, executed, earned, paidOut, restocked>>
        /\ "RETURN_EXCEPTION" \in Servicing!ActiveAftersale \ {"REFUNDING", "REFUNDING_AFTER_RETURN", "REFUND_FAILED"}
    BY <1>8 DEF Servicing!RejectAfterReturn, Servicing!ActiveAftersale
  <2> QED BY <2>1, ServicingLetsGo
<1> QED BY <1>1, <1>2, <1>3, <1>4, <1>5, <1>6, <1>7, <1>8 DEF ServicingCaseCommand, Servicing!CustomerStep

--------------------------------
\* Refunds under way.

\* Refund s moves from one open state to another; its aftersale may fail with it.
ServicingRefundMoves(s) ==
  /\ refund[s].status \in Servicing!ActiveRefund
  /\ \E to \in Servicing!ActiveRefund : refund'[s] = [refund[s] EXCEPT !.status = to]
  /\ refund' \in [Servicing!Sources -> ServicingMoney]
  /\ \A t \in Servicing!Sources \ {s} : refund'[t] = refund[t]
  /\ \/ aftersale' = aftersale
     \/ s \in Aftersales /\ aftersale' = [aftersale EXCEPT ![s].status = "REFUND_FAILED"]
  /\ order' \in ServicingEnvelope /\ order'.refunded = order.refunded /\ order'.status = order.status
  /\ executed' \in [Servicing!Sources -> {"NOT_FOUND", "SUCCEEDED", "FAILED"}]
  /\ UNCHANGED <<item, earned, paidOut, restocked>>

LEMMA ServicingRelabelled ==
  ASSUME order \in ServicingEnvelope, NEW r \in {"IDLE", "REFUNDING", "FAILED"},
         order' = [order EXCEPT !.refunding = r]
  PROVE  order' \in ServicingEnvelope /\ order'.refunded = order.refunded /\ order'.status = order.status
BY DEF ServicingEnvelope

LEMMA ServicingAggregateTyped ==
  ASSUME NEW s, NEW st
  PROVE  Servicing!Aggregate(s, st) \in {"IDLE", "REFUNDING", "FAILED"}
BY DEF Servicing!Aggregate

LEMMA ServicingStatusMoves ==
  ASSUME ServicingTyped, NEW s \in Servicing!Sources, refund[s].status \in Servicing!ActiveRefund,
         NEW to \in Servicing!ActiveRefund,
         refund' = [refund EXCEPT ![s].status = to]
  PROVE  /\ refund'[s] = [refund[s] EXCEPT !.status = to]
         /\ refund' \in [Servicing!Sources -> ServicingMoney]
         /\ \A t \in Servicing!Sources \ {s} : refund'[t] = refund[t]
<1>1. refund \in [Servicing!Sources -> ServicingMoney] /\ refund[s] \in ServicingMoney  BY DEF ServicingTyped
<1>2. [refund[s] EXCEPT !.status = to] \in ServicingMoney BY <1>1 DEF ServicingMoney
<1> QED BY <1>1, <1>2

LEMMA ServicingRefundCommandMoves ==
  ASSUME ServicingGiven, ServicingBooks, NEW s \in Servicing!Sources,
         \/ Servicing!ClaimRefund(s) \/ Servicing!RetryRefund(s) \/ Servicing!RecordFailure(s)
         \/ \E outcome \in {"SUCCEEDED", "FAILED"} : Servicing!ExecuteRefund(s, outcome)
  PROVE  ServicingRefundMoves(s)
<1>t. ServicingTyped /\ order \in ServicingEnvelope /\ refund \in [Servicing!Sources -> ServicingMoney]
      /\ executed \in [Servicing!Sources -> {"NOT_FOUND", "SUCCEEDED", "FAILED"}]
  BY DEF ServicingBooks, ServicingTyped
<1>1. CASE Servicing!ClaimRefund(s)
  <2>1. refund[s].status \in Servicing!ActiveRefund /\ "PROCESSING" \in Servicing!ActiveRefund
        /\ refund' = [refund EXCEPT ![s].status = "PROCESSING"]
        /\ UNCHANGED <<order, item, aftersale, executed, earned, paidOut, restocked>>
    BY <1>1 DEF Servicing!ClaimRefund, Servicing!ActiveRefund
  <2>2. /\ refund'[s] = [refund[s] EXCEPT !.status = "PROCESSING"]
        /\ refund' \in [Servicing!Sources -> ServicingMoney]
        /\ \A t \in Servicing!Sources \ {s} : refund'[t] = refund[t]
    BY <1>t, <2>1, ServicingStatusMoves
  <2> QED BY <1>t, <2>1, <2>2 DEF ServicingRefundMoves
<1>2. CASE Servicing!RetryRefund(s)
  <2>1. refund[s].status \in Servicing!ActiveRefund /\ "PENDING" \in Servicing!ActiveRefund
        /\ refund' = [refund EXCEPT ![s].status = "PENDING"]
        /\ order' = [order EXCEPT !.refunding = "REFUNDING"]
        /\ UNCHANGED <<item, aftersale, executed, earned, paidOut, restocked>>
    BY <1>2 DEF Servicing!RetryRefund, Servicing!ActiveRefund
  <2>2. /\ refund'[s] = [refund[s] EXCEPT !.status = "PENDING"]
        /\ refund' \in [Servicing!Sources -> ServicingMoney]
        /\ \A t \in Servicing!Sources \ {s} : refund'[t] = refund[t]
    BY <1>t, <2>1, ServicingStatusMoves
  <2>3. order' \in ServicingEnvelope /\ order'.refunded = order.refunded /\ order'.status = order.status
    BY <1>t, <2>1, ServicingRelabelled
  <2> QED BY <1>t, <2>1, <2>2, <2>3 DEF ServicingRefundMoves
<1>3. CASE Servicing!RecordFailure(s)
  <2>1. refund[s].status \in Servicing!ActiveRefund /\ "FAILED" \in Servicing!ActiveRefund
        /\ refund' = [refund EXCEPT ![s].status = "FAILED"]
        /\ order' = [order EXCEPT !.refunding = Servicing!Aggregate(s, "FAILED")]
        /\ executed' = [executed EXCEPT ![s] = "NOT_FOUND"]
        /\ UNCHANGED <<item, earned, paidOut, restocked>>
    BY <1>3 DEF Servicing!RecordFailure, Servicing!ActiveRefund
  <2>2. /\ refund'[s] = [refund[s] EXCEPT !.status = "FAILED"]
        /\ refund' \in [Servicing!Sources -> ServicingMoney]
        /\ \A t \in Servicing!Sources \ {s} : refund'[t] = refund[t]
    BY <1>t, <2>1, ServicingStatusMoves
  <2>3. order' \in ServicingEnvelope /\ order'.refunded = order.refunded /\ order'.status = order.status
    BY <1>t, <2>1, ServicingRelabelled, ServicingAggregateTyped
  <2>4. executed' \in [Servicing!Sources -> {"NOT_FOUND", "SUCCEEDED", "FAILED"}] BY <1>t, <2>1
  <2>5. \/ aftersale' = aftersale
        \/ s \in Aftersales /\ aftersale' = [aftersale EXCEPT ![s].status = "REFUND_FAILED"]
    BY <1>3 DEF Servicing!RecordFailure
  <2> QED BY <1>t, <2>1, <2>2, <2>3, <2>4, <2>5 DEF ServicingRefundMoves
<1>4. ASSUME NEW outcome \in {"SUCCEEDED", "FAILED"}, Servicing!ExecuteRefund(s, outcome)
      PROVE  ServicingRefundMoves(s)
  <2>1. refund[s].status \in Servicing!ActiveRefund /\ refund[s].status = "PROCESSING"
        /\ executed' = [executed EXCEPT ![s] = outcome]
        /\ UNCHANGED <<order, item, aftersale, refund, earned, paidOut, restocked>>
    BY <1>4 DEF Servicing!ExecuteRefund, Servicing!ActiveRefund
  <2>2. refund'[s] = [refund[s] EXCEPT !.status = "PROCESSING"] BY <1>t, <2>1 DEF ServicingMoney
  <2>3. executed' \in [Servicing!Sources -> {"NOT_FOUND", "SUCCEEDED", "FAILED"}] BY <1>t, <2>1
  <2> QED BY <1>t, <2>1, <2>2, <2>3 DEF ServicingRefundMoves, Servicing!ActiveRefund
<1> QED BY <1>1, <1>2, <1>3, <1>4

\* What refund s is for does not change while it is under way.
LEMMA ServicingRefundMovesSame ==
  ASSUME ServicingGiven, ServicingBooks, NEW s \in Servicing!Sources, ServicingRefundMoves(s)
  PROVE  /\ ServicingTyped'
         /\ \A t \in Servicing!Sources : /\ refund'[t].qty = refund[t].qty /\ refund'[t].amt = refund[t].amt
                                         /\ refund'[t].reversal = refund[t].reversal
                                         /\ (t \in Servicing!OpenRefunds)' = (t \in Servicing!OpenRefunds)
                                         /\ refund'[t].status = "NONE" <=> refund[t].status = "NONE"
                                         /\ refund'[t].status = "SUCCEEDED" <=> refund[t].status = "SUCCEEDED"
         /\ \A t \in Servicing!Sources, i \in Items : Servicing!OpenAmt(t, i)' = Servicing!OpenAmt(t, i)
             /\ Servicing!OpenReversal(t, i)' = Servicing!OpenReversal(t, i)
         /\ \A b \in Aftersales : b # s => aftersale'[b] = aftersale[b]
         /\ \A b \in Aftersales : /\ aftersale'[b].qty = aftersale[b].qty /\ aftersale'[b].amt = aftersale[b].amt
                                  /\ aftersale'[b].approved = aftersale[b].approved
                                  /\ aftersale'[b].restock = aftersale[b].restock
                                  /\ aftersale'[b].type = aftersale[b].type
         /\ s \in Aftersales => aftersale'[s].status \in {aftersale[s].status, "REFUND_FAILED"}
<1>1. PICK to \in Servicing!ActiveRefund : refund'[s] = [refund[s] EXCEPT !.status = to]
  BY DEF ServicingRefundMoves
<1>2. refund[s] \in ServicingMoney /\ aftersale \in [Aftersales -> ServicingCase]
  BY DEF ServicingBooks, ServicingTyped
<1>3. /\ refund'[s].qty = refund[s].qty /\ refund'[s].amt = refund[s].amt
      /\ refund'[s].reversal = refund[s].reversal /\ refund'[s].status = to
          /\ refund[s].status \in Servicing!ActiveRefund
  BY <1>1, <1>2 DEF ServicingMoney, ServicingRefundMoves
<1>4. \A t \in Servicing!Sources : /\ refund'[t].qty = refund[t].qty /\ refund'[t].amt = refund[t].amt
                                   /\ refund'[t].reversal = refund[t].reversal
                                   /\ (t \in Servicing!OpenRefunds)' = (t \in Servicing!OpenRefunds)
                                   /\ refund'[t].status = "NONE" <=> refund[t].status = "NONE"
                                   /\ refund'[t].status = "SUCCEEDED" <=> refund[t].status = "SUCCEEDED"
  <2> SUFFICES ASSUME NEW t \in Servicing!Sources
               PROVE  /\ refund'[t].qty = refund[t].qty /\ refund'[t].amt = refund[t].amt
                      /\ refund'[t].reversal = refund[t].reversal
                      /\ (t \in Servicing!OpenRefunds)' = (t \in Servicing!OpenRefunds)
                      /\ refund'[t].status = "NONE" <=> refund[t].status = "NONE"
                      /\ refund'[t].status = "SUCCEEDED" <=> refund[t].status = "SUCCEEDED"
    OBVIOUS
  <2>1. CASE t = s BY <1>3, <2>1 DEF Servicing!OpenRefunds, Servicing!ActiveRefund
  <2>2. CASE t # s BY <2>2 DEF Servicing!OpenRefunds, ServicingRefundMoves
  <2> QED BY <2>1, <2>2
<1>5. \A t \in Servicing!Sources, i \in Items : Servicing!OpenAmt(t, i)' = Servicing!OpenAmt(t, i)
   /\ Servicing!OpenReversal(t, i)' = Servicing!OpenReversal(t, i)
  BY <1>4 DEF Servicing!OpenAmt, Servicing!OpenReversal
<1>6. \A b \in Aftersales : b # s => aftersale'[b] = aftersale[b] BY <1>2 DEF ServicingRefundMoves
<1>7. \A b \in Aftersales : /\ aftersale'[b].qty = aftersale[b].qty /\ aftersale'[b].amt = aftersale[b].amt
                            /\ aftersale'[b].approved = aftersale[b].approved
                            /\ aftersale'[b].restock = aftersale[b].restock
                            /\ aftersale'[b].type = aftersale[b].type
  BY <1>2 DEF ServicingRefundMoves, ServicingCase
<1>8. s \in Aftersales => aftersale'[s].status \in {aftersale[s].status, "REFUND_FAILED"}
  BY <1>2 DEF ServicingRefundMoves, ServicingCase
<1>9. aftersale' \in [Aftersales -> ServicingCase]
  <2>1. CASE s \in Aftersales /\ aftersale' = [aftersale EXCEPT ![s].status = "REFUND_FAILED"]
    <3>1. [aftersale[s] EXCEPT !.status = "REFUND_FAILED"] \in ServicingCase
      BY <1>2, <2>1 DEF ServicingCase, ServicingAllStatus, Servicing!ActiveAftersale
    <3> QED BY <1>2, <2>1, <3>1
  <2> QED BY <1>2, <2>1 DEF ServicingRefundMoves
<1>10. ServicingTyped' BY <1>9 DEF ServicingBooks, ServicingTyped, ServicingRefundMoves
<1> QED BY <1>4, <1>5, <1>6, <1>7, <1>8, <1>10

LEMMA ServicingRefundMovesKeepsBooks ==
  ASSUME ServicingGiven, ServicingBooks, NEW s \in Servicing!Sources, ServicingRefundMoves(s)
  PROVE  ServicingBooks'
<1>1. ServicingTyped' BY ServicingRefundMovesSame
<1>2. ServicingLinesRight' BY DEF ServicingBooks, ServicingLinesRight, ServicingRefundMoves
<1>a. s \in Aftersales => /\ s \in Servicing!OpenAftersales
                              /\ aftersale[s].type \in {"REFUND_ONLY", "RETURN_REFUND"}
                          /\ aftersale'[s].status \in {aftersale[s].status, "REFUND_FAILED"}
                          /\ Servicing!ReadyToRefund(s) \/ (aftersale[s].status = "REFUND_FAILED"
                              /\ aftersale[s].type # "NONE")
  BY ServicingRefundHolds, ServicingRefundMovesSame DEF ServicingBooks, ServicingRefundMoves, ServicingRefundOf
<1>3. ASSUME NEW b \in Aftersales
      PROVE  ServicingCaseRight(b)' /\ ServicingRefundOf(b)'
  <2>b. ServicingCaseRight(b) /\ ServicingRefundOf(b) BY DEF ServicingBooks
  <2>s. /\ aftersale'[b].qty = aftersale[b].qty /\ aftersale'[b].amt = aftersale[b].amt
        /\ aftersale'[b].approved = aftersale[b].approved /\ aftersale'[b].restock = aftersale[b].restock
        /\ aftersale'[b].type = aftersale[b].type
    BY ServicingRefundMovesSame
  <2>1. CASE b # s
    <3>1. aftersale'[b] = aftersale[b] /\ refund'[b] = refund[b]
      BY <2>1, ServicingRefundMovesSame DEF Servicing!Sources, ServicingRefundMoves
    <3>2. ServicingRefundOf(b)' BY <3>1, <2>b, ServicingSameRefundOf
    <3> QED BY <3>1, <3>2, <2>b DEF ServicingCaseRight
  <2>2. CASE b = s
    <3>1. aftersale[s].status # "NONE" /\ aftersale[s].status \in Servicing!ActiveAftersale
      BY <1>a, <2>2 DEF Servicing!OpenAftersales, Servicing!ActiveAftersale
    <3>2. ServicingCaseRight(b)' BY <1>a, <2>2, <2>b, <2>s, <3>1 DEF ServicingCaseRight
    <3>3. /\ refund'[s].qty = refund[s].qty /\ refund'[s].amt = refund[s].amt
          /\ refund'[s].status \in Servicing!ActiveRefund /\ refund[s].status \in Servicing!ActiveRefund
      <4>1. refund'[s].qty = refund[s].qty /\ refund'[s].amt = refund[s].amt  BY ServicingRefundMovesSame
      <4>2. PICK to \in Servicing!ActiveRefund : refund'[s] = [refund[s] EXCEPT !.status = to]
        BY DEF ServicingRefundMoves
      <4>3. refund[s] \in ServicingMoney BY DEF ServicingBooks, ServicingTyped
      <4>4. refund'[s].status = to BY <4>2, <4>3 DEF ServicingMoney
      <4> QED BY <4>1, <4>4 DEF ServicingRefundMoves
    <3>4. \A i \in Items : Servicing!RefundQty(b, i)' = Servicing!RefundQty(b, i)
       /\ Servicing!RefundAmt(b, i)' = Servicing!RefundAmt(b, i)
      BY <2>s DEF Servicing!RefundQty, Servicing!RefundAmt, Servicing!KeptAmount
    <3>5. Servicing!ReadyToRefund(b)' \/ (aftersale'[b].status = "REFUND_FAILED" /\ aftersale'[b].type # "NONE")
      BY <1>a, <2>2, <2>s DEF Servicing!ReadyToRefund
    <3>6. ServicingRefundOf(b)'  BY <2>2, <2>b, <3>3, <3>4, <3>5 DEF ServicingRefundOf, Servicing!ActiveRefund
    <3> QED BY <3>2, <3>6
  <2> QED BY <2>1, <2>2
<1>4. (\A i \in Items : ServicingPositionRight(i)') /\ ServicingWalletRight'
  BY ServicingPositionSame DEF ServicingBooks, ServicingRefundMoves
<1>5. ASSUME NEW i \in Items
      PROVE  ServicingReversalRight(i)'
  <2>1. \A t \in Servicing!Sources : \A j \in Items : Servicing!OpenAmt(t, j)' = Servicing!OpenAmt(t, j)
     /\ Servicing!OpenReversal(t, j)' = Servicing!OpenReversal(t, j)
    BY ServicingRefundMovesSame
  <2>2. \A t \in Servicing!Sources : refund'[t].amt = refund[t].amt /\ refund'[t].reversal = refund[t].reversal
    BY ServicingRefundMovesSame
  <2> QED BY <2>1, <2>2, ServicingReversalSame DEF ServicingBooks, ServicingRefundMoves
<1>6. ServicingMoneyOnly'
  <2>1. \A c \in Compensations : refund'[c].qty = refund[c].qty
    BY ServicingRefundMovesSame DEF Servicing!Sources
  <2> QED BY <2>1 DEF ServicingBooks, ServicingMoneyOnly, Servicing!Zero
<1>7. Servicing!ReservationsAreHeld'
  <2>1. \A t \in Servicing!Sources \ {s} : refund'[t] = refund[t]
     /\ (t \in Aftersales => aftersale'[t] = aftersale[t])
    BY ServicingRefundMovesSame DEF ServicingRefundMoves
  <2>2. \A i \in Items : /\ item[i].resQty \in Int /\ item[i].resAmt \in Int /\ Servicing!HeldAmt(s, i) \in Int
                         /\ s \in Aftersales => Servicing!HeldQty(s, i) \in Int
    BY ServicingRowTyped, ServicingHeldTyped DEF ServicingBooks
  <2>3. ASSUME NEW i \in Items
        PROVE  (s \in Aftersales => Servicing!HeldQty(s, i)' = Servicing!HeldQty(s, i))
           /\ Servicing!HeldAmt(s, i)' = Servicing!HeldAmt(s, i)
    <3>1. CASE s \in Aftersales
      <4>s. /\ aftersale'[s].qty = aftersale[s].qty /\ aftersale'[s].amt = aftersale[s].amt
            /\ aftersale'[s].approved = aftersale[s].approved /\ aftersale'[s].type = aftersale[s].type
        BY <3>1, ServicingRefundMovesSame
      <4>1. (s \in Servicing!OpenAftersales)' /\ s \in Servicing!OpenAftersales
         /\ Servicing!Inspected(s)' = Servicing!Inspected(s)
        BY <1>a, <3>1, <4>s DEF Servicing!OpenAftersales, Servicing!Inspected, Servicing!ActiveAftersale,
           Servicing!ReadyToRefund
      <4>2. Servicing!KeptAmount(s, i)' = Servicing!KeptAmount(s, i)  BY <4>s DEF Servicing!KeptAmount
      <4> QED BY <3>1, <4>s, <4>1, <4>2, ServicingNotBoth DEF Servicing!HeldQty, Servicing!HeldAmt
    <3>2. CASE s \notin Aftersales
      <4>1. s \in Compensations /\ Servicing!OpenAmt(s, i)' = Servicing!OpenAmt(s, i)
        BY <3>2, ServicingRefundMovesSame DEF Servicing!Sources
      <4> QED BY <3>2, <4>1 DEF Servicing!HeldAmt
    <3> QED BY <3>1, <3>2
  <2>4. \A i \in Items : item'[i] = item[i] BY DEF ServicingRefundMoves
  <2>5. \A i \in Items :
           /\ s \in Aftersales => item'[i].resQty = item[i].resQty + Servicing!HeldQty(s, i)' - Servicing!HeldQty(s, i)
           /\ s \notin Aftersales => item'[i].resQty = item[i].resQty
           /\ item'[i].resAmt = item[i].resAmt + Servicing!HeldAmt(s, i)' - Servicing!HeldAmt(s, i)
    BY <2>2, <2>3, <2>4
  <2> QED BY <1>1, <2>1, <2>5, ServicingHeldMoves DEF ServicingBooks
<1> QED BY <1>1, <1>2, <1>3, <1>4, <1>5, <1>6, <1>7 DEF ServicingBooks

--------------------------------
\* Creation of a refund.

LEMMA ServicingLesserOf ==
  ASSUME NEW m \in Nat, NEW n \in Nat
  PROVE  Servicing!Lesser(m, n) \in Nat /\ Servicing!Lesser(m, n) <= n
BY DEF Servicing!Lesser

\* What a new refund takes back leaves no more and no less than it should.
LEMMA ServicingTakesItsShare ==
  ASSUME ServicingGiven, ServicingTyped, NEW i \in Items, ServicingPositionRight(i), ServicingReversalRight(i),
         NEW amount \in Nat,
         NEW rev, rev = Servicing!CommissionReversal(i, amount) \/ (amount = 0 /\ rev = 0)
  PROVE  /\ rev \in Nat
         /\ earned[i].reversed + Servicing!CommittedReversal(i) + rev <= Servicing!Original(i)
         /\ item[i].refAmt + Servicing!CommittedAmt(i) + amount >= Servicing!LinePaid(i) =>
              earned[i].reversed + Servicing!CommittedReversal(i) + rev = Servicing!Original(i)
<1>1. /\ earned[i].reversed \in Nat /\ Servicing!CommittedReversal(i) \in Nat /\ Servicing!Original(i) \in Nat
      /\ item[i].refAmt \in Nat /\ Servicing!CommittedAmt(i) \in Nat /\ Servicing!LinePaid(i) \in Nat
      /\ Servicing!HalfUp(amount) \in Nat
  BY ServicingRowTyped, ServicingCommittedTyped, ServicingAmounts0
<1>2. /\ earned[i].reversed + Servicing!CommittedReversal(i) <= Servicing!Original(i)
      /\ item[i].refAmt + Servicing!CommittedAmt(i) >= Servicing!LinePaid(i) =>
           earned[i].reversed + Servicing!CommittedReversal(i) = Servicing!Original(i)
  BY DEF ServicingReversalRight
<1>3. CASE amount = 0 /\ rev = 0 BY <1>1, <1>2, <1>3
<1>4. CASE rev = Servicing!CommissionReversal(i, amount)
  <2>1. PICK left : left = Servicing!Original(i) - earned[i].reversed - Servicing!CommittedReversal(i)
    OBVIOUS
  <2>2. left \in Nat BY <1>1, <1>2, <2>1
  <2>3. CASE item[i].refAmt + Servicing!CommittedAmt(i) + amount >= Servicing!LinePaid(i)
    <3>1. rev = left BY <1>4, <2>1, <2>3 DEF Servicing!CommissionReversal
    <3> QED BY <1>1, <2>1, <2>2, <3>1
  <2>4. CASE ~(item[i].refAmt + Servicing!CommittedAmt(i) + amount >= Servicing!LinePaid(i))
    <3>1. rev = Servicing!Lesser(Servicing!HalfUp(amount), left)
      BY <1>4, <2>1, <2>4 DEF Servicing!CommissionReversal
    <3>2. rev \in Nat /\ rev <= left BY <1>1, <2>2, <3>1, ServicingLesserOf
    <3> QED BY <1>1, <2>1, <2>2, <2>4, <3>2
  <2> QED BY <2>3, <2>4
<1> QED BY <1>3, <1>4

\* A new refund s, of r[i] on every line, with its share of the commission.
ServicingNewRefund(s) ==
  /\ refund[s].status = "NONE" /\ refund'[s].status = "PENDING"
  /\ refund' \in [Servicing!Sources -> ServicingMoney]
  /\ \A t \in Servicing!Sources \ {s} : refund'[t] = refund[t]
  /\ \A i \in Items :
       \/ refund'[s].reversal[i] = Servicing!CommissionReversal(i, refund'[s].amt[i]) /\ refund'[s].amt[i] > 0
       \/ refund'[s].amt[i] = 0 /\ refund'[s].reversal[i] = 0
  /\ \A i \in Items : item'[i].refAmt = item[i].refAmt
  /\ order' \in ServicingEnvelope /\ order'.refunded = order.refunded /\ order'.status = order.status
  /\ UNCHANGED <<aftersale, executed, earned, paidOut, restocked>>

LEMMA ServicingNewRefundKeepsCommission ==
  ASSUME ServicingGiven, ServicingBooks, ServicingTyped', NEW s \in Servicing!Sources, ServicingNewRefund(s),
         NEW i \in Items
  PROVE  ServicingPositionRight(i)' /\ ServicingReversalRight(i)' /\ ServicingWalletRight'
<1>1. (\A j \in Items : ServicingPositionRight(j)') /\ ServicingWalletRight'
  BY ServicingPositionSame DEF ServicingBooks, ServicingNewRefund
<1>2. ServicingTyped /\ ServicingPositionRight(i) /\ ServicingReversalRight(i)  BY DEF ServicingBooks
<1>3. refund'[s].amt[i] \in Nat /\ refund'[s].reversal[i] \in Nat
  BY DEF ServicingNewRefund, ServicingMoney, ServicingFields
<1>4. Servicing!OpenAmt(s, i) = 0 /\ Servicing!OpenReversal(s, i) = 0
      /\ Servicing!OpenAmt(s, i)' = refund'[s].amt[i] /\ Servicing!OpenReversal(s, i)' = refund'[s].reversal[i]
  BY DEF Servicing!OpenAmt, Servicing!OpenReversal, Servicing!OpenRefunds, Servicing!ActiveRefund,
     ServicingNewRefund
<1>5. /\ Servicing!CommittedAmt(i)' = Servicing!CommittedAmt(i) + Servicing!OpenAmt(s, i)' - Servicing!OpenAmt(s, i)
      /\ Servicing!CommittedReversal(i)' = Servicing!CommittedReversal(i) + Servicing!OpenReversal(s, i)' - Servicing!OpenReversal(s, i)
  BY <1>2, ServicingCommittedMoves DEF ServicingNewRefund
<1>6. Servicing!CommittedAmt(i) \in Nat /\ Servicing!CommittedReversal(i) \in Nat
  BY <1>2, ServicingCommittedTyped
<1>7. /\ Servicing!CommittedAmt(i)' = Servicing!CommittedAmt(i) + refund'[s].amt[i]
      /\ Servicing!CommittedReversal(i)' = Servicing!CommittedReversal(i) + refund'[s].reversal[i]
  BY <1>3, <1>4, <1>5, <1>6
<1>8. refund'[s].reversal[i] = Servicing!CommissionReversal(i, refund'[s].amt[i])
   \/ (refund'[s].amt[i] = 0 /\ refund'[s].reversal[i] = 0)
  BY DEF ServicingNewRefund
<1>9. /\ earned[i].reversed + Servicing!CommittedReversal(i) + refund'[s].reversal[i] <= Servicing!Original(i)
      /\ item[i].refAmt + Servicing!CommittedAmt(i) + refund'[s].amt[i] >= Servicing!LinePaid(i) =>
           earned[i].reversed + Servicing!CommittedReversal(i) + refund'[s].reversal[i] = Servicing!Original(i)
  BY <1>2, <1>3, <1>8, ServicingTakesItsShare
<1>10. /\ earned[i].reversed + Servicing!CommittedReversal(i)' <= Servicing!Original(i)
       /\ item[i].refAmt + Servicing!CommittedAmt(i)' >= Servicing!LinePaid(i) =>
            earned[i].reversed + Servicing!CommittedReversal(i)' = Servicing!Original(i)
  <2>1. earned[i].reversed \in Nat /\ item[i].refAmt \in Nat BY <1>2, ServicingRowTyped
  <2> QED BY <1>3, <1>6, <1>7, <1>9, <2>1
<1>11. \A t \in Servicing!Sources : refund'[t].amt[i] = 0 => refund'[t].reversal[i] = 0
  <2> SUFFICES ASSUME NEW t \in Servicing!Sources, refund'[t].amt[i] = 0 PROVE refund'[t].reversal[i] = 0
    OBVIOUS
  <2>1. CASE t = s BY <2>1, <1>3 DEF ServicingNewRefund
  <2>2. CASE t # s BY <2>2, <1>2 DEF ServicingNewRefund, ServicingReversalRight
  <2> QED BY <2>1, <2>2
<1>12. ServicingReversalRight(i)' BY <1>10, <1>11 DEF ServicingReversalRight, ServicingNewRefund
<1> QED BY <1>1, <1>12

LEMMA ServicingCreateRefundIsNew ==
  ASSUME ServicingGiven, ServicingBooks, NEW a \in Aftersales, Servicing!CreateAftersaleRefund(a)
  PROVE  ServicingNewRefund(a) /\ ServicingRefundOf(a)' /\ item' = item
<1>t. ServicingTyped /\ order \in ServicingEnvelope /\ refund \in [Servicing!Sources -> ServicingMoney]
   /\ ServicingCaseRight(a) /\ a \in Servicing!Sources
  BY ServicingNotBoth DEF ServicingBooks, ServicingTyped
<1> DEFINE row == [status |-> "PENDING",
                   qty |-> [i \in Items |-> Servicing!RefundQty(a, i)],
                   amt |-> [i \in Items |-> Servicing!RefundAmt(a, i)],
                   reversal |-> [i \in Items |-> IF Servicing!RefundQty(a, i) > 0
                                                 THEN Servicing!CommissionReversal(i, Servicing!RefundAmt(a, i)) ELSE 0]]
<1>1. /\ refund[a].status = "NONE" /\ Servicing!AftersaleRefundable(a)
      /\ refund' = [refund EXCEPT ![a] = row]
      /\ order' = [order EXCEPT !.refunding = "REFUNDING"]
      /\ UNCHANGED <<item, aftersale, executed, earned, paidOut, restocked>>
  BY DEF Servicing!CreateAftersaleRefund
<1>2. ASSUME NEW i \in Items
      PROVE  /\ Servicing!RefundQty(a, i) \in Nat /\ Servicing!RefundAmt(a, i) \in Nat
             /\ Servicing!RefundQty(a, i) > 0 => Servicing!RefundAmt(a, i) > 0
             /\ Servicing!RefundQty(a, i) = 0 => Servicing!RefundAmt(a, i) = 0
  <2>1. /\ aftersale[a].qty[i] \in Nat /\ aftersale[a].amt[i] \in Nat /\ aftersale[a].approved[i] \in Nat
        /\ Servicing!KeptAmount(a, i) \in Nat /\ Price[i] \in Nat
    BY <1>t, ServicingCaseTyped, ServicingKeptTyped, ServicingAmounts0
  <2>2. Servicing!RefundQty(a, i) > 0 => Servicing!RefundAmt(a, i) > 0
    BY <1>1 DEF Servicing!AftersaleRefundable
  <2>3. aftersale[a].qty[i] = 0 => aftersale[a].amt[i] = 0 BY <1>t DEF ServicingCaseRight
  <2>4. aftersale[a].approved[i] = 0 => Servicing!KeptAmount(a, i) = 0
    <3>1. CASE aftersale[a].approved[i] = aftersale[a].qty[i]  BY <2>3, <3>1 DEF Servicing!KeptAmount
    <3>2. CASE aftersale[a].approved[i] # aftersale[a].qty[i]  BY <2>1, <3>2 DEF Servicing!KeptAmount
    <3> QED BY <3>1, <3>2
  <2> QED BY <2>1, <2>2, <2>3, <2>4 DEF Servicing!RefundQty, Servicing!RefundAmt
<1>3. ASSUME NEW i \in Items
      PROVE  /\ row.amt[i] = Servicing!RefundAmt(a, i) /\ row.qty[i] = Servicing!RefundQty(a, i)
             /\ \/ row.reversal[i] = Servicing!CommissionReversal(i, row.amt[i]) /\ row.amt[i] > 0
                \/ row.amt[i] = 0 /\ row.reversal[i] = 0
  BY <1>2
<1>4. ASSUME NEW i \in Items
      PROVE  row.reversal[i] \in Nat
  <2>1. row.reversal[i] = Servicing!CommissionReversal(i, Servicing!RefundAmt(a, i))
     \/ (Servicing!RefundAmt(a, i) = 0 /\ row.reversal[i] = 0)
    BY <1>3
  <2>2. Servicing!RefundAmt(a, i) \in Nat /\ ServicingPositionRight(i) /\ ServicingReversalRight(i)
    BY <1>2 DEF ServicingBooks
  <2> HIDE DEF row
  <2> QED BY <1>t, <2>1, <2>2, ServicingTakesItsShare
<1>5. row \in ServicingMoney
  <2>1. row.qty \in ServicingFields /\ row.amt \in ServicingFields BY <1>2 DEF ServicingFields
  <2>2. row.reversal \in ServicingFields BY <1>4 DEF ServicingFields
  <2> QED BY <2>1, <2>2 DEF ServicingMoney, Servicing!ActiveRefund
<1>6. row.status = "PENDING"
  OBVIOUS
<1> HIDE DEF row
<1>7. refund' \in [Servicing!Sources -> ServicingMoney] /\ refund'[a] = row
   /\ \A t \in Servicing!Sources \ {a} : refund'[t] = refund[t]
  BY <1>t, <1>1, <1>5
<1>8. order' \in ServicingEnvelope /\ order'.refunded = order.refunded /\ order'.status = order.status
  BY <1>t, <1>1, ServicingRelabelled
<1>9. ServicingNewRefund(a)
  <2>1. \A i \in Items :
           \/ refund'[a].reversal[i] = Servicing!CommissionReversal(i, refund'[a].amt[i]) /\ refund'[a].amt[i] > 0
           \/ refund'[a].amt[i] = 0 /\ refund'[a].reversal[i] = 0
    BY <1>3, <1>7
  <2> QED BY <1>1, <1>6, <1>7, <1>8, <2>1 DEF ServicingNewRefund
<1>10. ServicingRefundOf(a)'
  <2>1. Servicing!ReadyToRefund(a) BY <1>1 DEF Servicing!AftersaleRefundable
  <2>2. Servicing!ReadyToRefund(a)' /\ \A i \in Items : Servicing!RefundQty(a, i)' = Servicing!RefundQty(a, i)
     /\ Servicing!RefundAmt(a, i)' = Servicing!RefundAmt(a, i)
    BY <1>1, <2>1 DEF Servicing!ReadyToRefund, Servicing!RefundQty, Servicing!RefundAmt, Servicing!KeptAmount
  <2> QED BY <1>3, <1>6, <1>7, <2>2 DEF ServicingRefundOf
<1> QED BY <1>1, <1>9, <1>10

LEMMA ServicingCreateRefundKeepsBooks ==
  ASSUME ServicingGiven, ServicingBooks, NEW a \in Aftersales, Servicing!CreateAftersaleRefund(a)
  PROVE  ServicingBooks'
<1>1. ServicingNewRefund(a) /\ ServicingRefundOf(a)' /\ item' = item /\ aftersale' = aftersale
   /\ a \in Servicing!Sources
  BY ServicingCreateRefundIsNew, ServicingNotBoth DEF ServicingNewRefund
<1>2. ServicingTyped' BY <1>1 DEF ServicingBooks, ServicingTyped, ServicingNewRefund
<1>3. ServicingLinesRight' BY <1>1 DEF ServicingBooks, ServicingLinesRight
<1>4. ASSUME NEW b \in Aftersales
      PROVE  ServicingCaseRight(b)' /\ ServicingRefundOf(b)'
  <2>1. ServicingCaseRight(b)' BY <1>1 DEF ServicingBooks, ServicingCaseRight
  <2>2. CASE b = a BY <1>1, <2>1, <2>2
  <2>3. CASE b # a
    <3>1. refund'[b] = refund[b] /\ aftersale'[b] = aftersale[b]
      BY <1>1, <2>3, ServicingNotBoth DEF ServicingNewRefund
    <3> QED BY <2>1, <3>1, ServicingSameRefundOf DEF ServicingBooks
  <2> QED BY <2>2, <2>3
<1>5. \A i \in Items : ServicingPositionRight(i)' /\ ServicingReversalRight(i)'
  BY <1>1, <1>2, ServicingNewRefundKeepsCommission
<1>6. ServicingWalletRight' BY <1>1, ServicingPositionSame DEF ServicingBooks, ServicingNewRefund
<1>7. ServicingMoneyOnly'
  <2>1. \A c \in Compensations : refund'[c] = refund[c]
    BY <1>1, ServicingNotBoth DEF ServicingNewRefund, Servicing!Sources
  <2> QED BY <2>1 DEF ServicingBooks, ServicingMoneyOnly, Servicing!Zero
<1>8. Servicing!ReservationsAreHeld'
  <2>1. \A t \in Servicing!Sources \ {a} : refund'[t] = refund[t]
     /\ (t \in Aftersales => aftersale'[t] = aftersale[t])
    BY <1>1 DEF ServicingNewRefund
  <2>2. \A i \in Items :
           /\ item'[i].resQty = item[i].resQty + Servicing!HeldQty(a, i)' - Servicing!HeldQty(a, i)
           /\ item'[i].resAmt = item[i].resAmt + Servicing!HeldAmt(a, i)' - Servicing!HeldAmt(a, i)
    <3> SUFFICES ASSUME NEW i \in Items
                 PROVE  /\ item'[i].resQty = item[i].resQty + Servicing!HeldQty(a, i)' - Servicing!HeldQty(a, i)
                        /\ item'[i].resAmt = item[i].resAmt + Servicing!HeldAmt(a, i)' - Servicing!HeldAmt(a, i)
      OBVIOUS
    <3>1. Servicing!HeldQty(a, i)' = Servicing!HeldQty(a, i) /\ Servicing!HeldAmt(a, i)' = Servicing!HeldAmt(a, i)
      BY <1>1, ServicingNotBoth DEF Servicing!HeldQty, Servicing!HeldAmt, Servicing!OpenAftersales,
         Servicing!Inspected, Servicing!KeptAmount
    <3>2. /\ item[i].resQty \in Int /\ item[i].resAmt \in Int /\ Servicing!HeldAmt(a, i) \in Int
              /\ Servicing!HeldQty(a, i) \in Int
      BY <1>1, ServicingRowTyped, ServicingHeldTyped DEF ServicingBooks
    <3> QED BY <1>1, <3>1, <3>2
  <2> QED BY <1>1, <1>2, <2>1, <2>2, ServicingHeldMoves DEF ServicingBooks
<1> QED BY <1>2, <1>3, <1>4, <1>5, <1>6, <1>7, <1>8 DEF ServicingBooks

LEMMA ServicingCompensationKeepsBooks ==
  ASSUME ServicingGiven, ServicingBooks, NEW c \in Compensations, NEW l \in Items, NEW amount \in Refundable,
         Servicing!CreateCompensation(c, l, amount)
  PROVE  ServicingBooks'
<1>t. ServicingTyped /\ order \in ServicingEnvelope /\ refund \in [Servicing!Sources -> ServicingMoney]
   /\ c \in Servicing!Sources /\ c \notin Aftersales
      /\ amount \in Nat /\ amount > 0 /\ ServicingPositionRight(l) /\ ServicingReversalRight(l)
          /\ item \in [Items -> ServicingRows]
  BY DEF ServicingBooks, ServicingTyped, ServicingGiven, Servicing!ServicingAssumption, Servicing!Sources
<1> DEFINE row == [status |-> "PENDING", qty |-> Servicing!Zero, amt |-> [Servicing!Zero EXCEPT ![l] = amount],
                   reversal |-> [Servicing!Zero EXCEPT ![l] = Servicing!CommissionReversal(l, amount)]]
           m == [i \in Items |-> IF i = l THEN amount ELSE 0]
<1>1. /\ refund[c].status = "NONE"
      /\ Servicing!Store([item EXCEPT ![l] = Servicing!Reserve(l, 0, amount)])
      /\ refund' = [refund EXCEPT ![c] = row]
      /\ order' = [order EXCEPT !.refunding = "REFUNDING"]
      /\ UNCHANGED <<aftersale, executed, earned, paidOut, restocked>>
  BY DEF Servicing!CreateCompensation
<1>2. Servicing!CommissionReversal(l, amount) \in Nat BY <1>t, ServicingTakesItsShare
<1>3. row \in ServicingMoney /\ row.status = "PENDING" /\ row.qty = Servicing!Zero
  BY <1>t, <1>2 DEF ServicingMoney, Servicing!ActiveRefund, ServicingFields, Servicing!Zero
<1>4. ASSUME NEW i \in Items
      PROVE  /\ row.amt[i] = m[i]
             /\ \/ row.reversal[i] = Servicing!CommissionReversal(i, row.amt[i]) /\ row.amt[i] > 0
                \/ row.amt[i] = 0 /\ row.reversal[i] = 0
  <2>1. CASE i = l BY <1>t, <2>1 DEF Servicing!Zero
  <2>2. CASE i # l BY <1>t, <2>2 DEF Servicing!Zero
  <2> QED BY <2>1, <2>2
<1> HIDE DEF row
<1>5. refund' \in [Servicing!Sources -> ServicingMoney] /\ refund'[c] = row
   /\ \A t \in Servicing!Sources \ {c} : refund'[t] = refund[t]
  BY <1>t, <1>1, <1>3
<1>6. /\ item' \in [Items -> ServicingRows] /\ ServicingLinesRight'
      /\ \A i \in Items : ServicingOnlyReserves(i, 0, m[i])
  <2>1. \A i \in Items : item'[i] = (IF i = l THEN Servicing!Reserve(l, 0, amount) ELSE item[i])
     /\ Servicing!ItemCheck(i, item'[i])
    BY <1>t, <1>1 DEF Servicing!Store
  <2>2. item' = [i \in Items |-> item'[i]] BY <1>t, <1>1 DEF Servicing!Store
  <2>3. ASSUME NEW i \in Items PROVE item'[i] \in ServicingRows /\ ServicingOnlyReserves(i, 0, m[i])
    <3>1. CASE i = l
      <4>1. item'[i] = [item[i] EXCEPT !.resQty = @ + 0, !.resAmt = @ + amount] /\ m[i] = amount
        BY <2>1, <3>1 DEF Servicing!Reserve
      <4>2. item[i] \in ServicingRows /\ item[i].resQty \in Nat /\ item[i].resAmt \in Nat
        BY <1>t, ServicingRowTyped
      <4>3. item'[i] = [item[i] EXCEPT !.resQty = item[i].resQty + 0, !.resAmt = item[i].resAmt + amount]
        BY <4>1, <4>2
      <4>4. item[i].resQty + 0 \in Nat /\ item[i].resAmt + amount \in Nat BY <1>t, <4>2
      <4>5. item'[i] \in ServicingRows BY <4>2, <4>3, <4>4 DEF ServicingRows
      <4>6. ServicingOnlyReserves(i, 0, m[i])  BY <4>1, <4>2, <4>3 DEF ServicingRows, ServicingOnlyReserves
      <4> QED BY <4>5, <4>6
    <3>2. CASE i # l
      <4>1. item'[i] = item[i] /\ m[i] = 0 /\ item[i] \in ServicingRows BY <1>t, <2>1, <3>2
      <4> QED BY <4>1 DEF ServicingRows, ServicingOnlyReserves
    <3> QED BY <3>1, <3>2
  <2> QED BY <2>1, <2>2, <2>3 DEF ServicingLinesRight
<1>m. \A i \in Items : m[i] \in Nat BY <1>t
<1> HIDE DEF m
<1>7. order' \in ServicingEnvelope /\ order'.refunded = order.refunded /\ order'.status = order.status
  BY <1>t, <1>1, ServicingRelabelled
<1>8. ServicingNewRefund(c)
  <2>1. \A i \in Items :
           \/ refund'[c].reversal[i] = Servicing!CommissionReversal(i, refund'[c].amt[i]) /\ refund'[c].amt[i] > 0
           \/ refund'[c].amt[i] = 0 /\ refund'[c].reversal[i] = 0
    BY <1>4, <1>5
  <2>2. \A i \in Items : item'[i].refAmt = item[i].refAmt BY <1>6 DEF ServicingOnlyReserves
  <2> QED BY <1>1, <1>3, <1>5, <1>7, <2>1, <2>2 DEF ServicingNewRefund
<1>9. ServicingTyped' BY <1>1, <1>5, <1>6, <1>7 DEF ServicingBooks, ServicingTyped
<1>10. ASSUME NEW b \in Aftersales
       PROVE  ServicingCaseRight(b)' /\ ServicingRefundOf(b)'
  <2>1. refund'[b] = refund[b] /\ aftersale'[b] = aftersale[b]  BY <1>t, <1>1, <1>5, ServicingNotBoth
  <2>2. ServicingCaseRight(b)' BY <2>1 DEF ServicingBooks, ServicingCaseRight
  <2> QED BY <2>1, <2>2, ServicingSameRefundOf DEF ServicingBooks
<1>11. \A i \in Items : ServicingPositionRight(i)' /\ ServicingReversalRight(i)'
  BY <1>t, <1>8, <1>9, ServicingNewRefundKeepsCommission
<1>12. ServicingWalletRight' BY <1>1, ServicingPositionSame DEF ServicingBooks
<1>13. ServicingMoneyOnly'
  <2> SUFFICES ASSUME NEW d \in Compensations PROVE refund'[d].qty = Servicing!Zero
    BY DEF ServicingMoneyOnly, Servicing!Zero
  <2>1. CASE d = c BY <2>1, <1>3, <1>5
  <2>2. CASE d # c
    <3>1. refund'[d] = refund[d] BY <2>2, <1>5 DEF Servicing!Sources
    <3> QED BY <3>1 DEF ServicingBooks, ServicingMoneyOnly
  <2> QED BY <2>1, <2>2
<1>14. Servicing!ReservationsAreHeld'
  <2>1. \A t \in Servicing!Sources \ {c} : refund'[t] = refund[t]
     /\ (t \in Aftersales => aftersale'[t] = aftersale[t])
    BY <1>1, <1>5
  <2>2. \A i \in Items :
           /\ item'[i].resQty = item[i].resQty
           /\ item'[i].resAmt = item[i].resAmt + Servicing!HeldAmt(c, i)' - Servicing!HeldAmt(c, i)
    <3> SUFFICES ASSUME NEW i \in Items
                 PROVE  /\ item'[i].resQty = item[i].resQty
                        /\ item'[i].resAmt = item[i].resAmt + Servicing!HeldAmt(c, i)' - Servicing!HeldAmt(c, i)
      OBVIOUS
    <3>1. Servicing!HeldAmt(c, i) = 0 /\ Servicing!HeldAmt(c, i)' = m[i]
      BY <1>1, <1>3, <1>4, <1>5, <1>t DEF Servicing!HeldAmt, Servicing!OpenAmt, Servicing!OpenRefunds,
         Servicing!ActiveRefund
    <3>2. item[i].resQty \in Nat /\ item[i].resAmt \in Nat BY <1>t, ServicingRowTyped
    <3> QED BY <1>6, <1>m, <3>1, <3>2 DEF ServicingOnlyReserves
  <2> QED BY <1>t, <1>9, <2>1, <2>2, ServicingHeldMoves DEF ServicingBooks
<1> QED BY <1>6, <1>9, <1>10, <1>11, <1>12, <1>13, <1>14 DEF ServicingBooks

--------------------------------
\* The success of a refund.

ServicingBack(s, i) == IF Servicing!AutoRestock(s) THEN refund[s].qty[i] ELSE 0

\* The lines after the success of refund s.
ServicingLineRefunded(s, i) ==
  /\ item'[i].resQty = item[i].resQty - refund[s].qty[i] /\ item'[i].resAmt = item[i].resAmt - refund[s].amt[i]
  /\ item'[i].refQty = item[i].refQty + refund[s].qty[i] /\ item'[i].refAmt = item[i].refAmt + refund[s].amt[i]
  /\ item'[i].preQty = item[i].preQty + ServicingBack(s, i)
  /\ item'[i].shipped = item[i].shipped

LEMMA ServicingLinesRefunded ==
  ASSUME ServicingGiven, ServicingTyped, NEW s \in Servicing!Sources, Servicing!Store(Servicing!RefundedRows(s))
  PROVE  /\ item' \in [Items -> ServicingRows] /\ ServicingLinesRight'
         /\ \A i \in Items : ServicingLineRefunded(s, i)
<1>1. item' = Servicing!RefundedRows(s) /\ \A i \in Items : Servicing!ItemCheck(i, item'[i])
  BY DEF Servicing!Store
<1>2. ASSUME NEW i \in Items
      PROVE  item'[i] \in ServicingRows /\ ServicingLineRefunded(s, i)
  <2>1. item'[i] = [item[i] EXCEPT !.resQty = item[i].resQty - refund[s].qty[i],
                                   !.resAmt = item[i].resAmt - refund[s].amt[i],
                                   !.refQty = item[i].refQty + refund[s].qty[i],
                                   !.refAmt = item[i].refAmt + refund[s].amt[i],
                                   !.preQty = item[i].preQty + ServicingBack(s, i)]
    BY <1>1 DEF Servicing!RefundedRows, ServicingBack
  <2>2. item[i] \in ServicingRows BY ServicingRowTyped
  <2>3. ServicingLineRefunded(s, i) BY <2>1, <2>2 DEF ServicingRows, ServicingLineRefunded
  <2>4. refund[s].qty[i] \in Nat /\ refund[s].amt[i] \in Nat /\ ServicingBack(s, i) \in Nat
    BY ServicingMoneyTyped DEF ServicingBack
  <2>5. item'[i].resQty >= 0 /\ item'[i].resAmt >= 0 BY <1>1 DEF Servicing!ItemCheck
  <2>6. item[i].resQty - refund[s].qty[i] \in Nat /\ item[i].resAmt - refund[s].amt[i] \in Nat
    BY <2>2, <2>3, <2>4, <2>5 DEF ServicingRows, ServicingLineRefunded
  <2>7. item'[i] \in ServicingRows
    <3> DEFINE a == item[i].refQty + refund[s].qty[i]
               b == item[i].preQty + ServicingBack(s, i)
               c == item[i].resQty - refund[s].qty[i]
               d == item[i].refAmt + refund[s].amt[i]
               e == item[i].resAmt - refund[s].amt[i]
    <3>1. a \in Nat /\ b \in Nat /\ c \in Nat /\ d \in Nat /\ e \in Nat
      <4>1. item[i].refQty \in Nat /\ item[i].preQty \in Nat /\ item[i].refAmt \in Nat
        BY <2>2 DEF ServicingRows
      <4> QED BY <2>4, <2>6, <4>1
    <3>2. item'[i] = [item[i] EXCEPT !.resQty = c, !.resAmt = e, !.refQty = a, !.refAmt = d, !.preQty = b]
      BY <2>1
    <3> HIDE DEF a, b, c, d, e
    <3> QED BY <2>2, <3>1, <3>2 DEF ServicingRows
  <2> QED BY <2>3, <2>7
<1>3. DOMAIN item' = Items /\ item' = [i \in Items |-> item'[i]] BY <1>1 DEF Servicing!RefundedRows
<1> QED BY <1>1, <1>2, <1>3 DEF ServicingLinesRight

\* The commission of a line after it.
ServicingDebit(s, i) == IF earned[i].state = "AVAILABLE" THEN refund[s].reversal[i] ELSE 0

LEMMA ServicingPositionReversed ==
  ASSUME ServicingGiven, ServicingTyped, NEW s \in Servicing!Sources, Servicing!Reverse(s), NEW i \in Items,
         ServicingPositionRight(i)
  PROVE  /\ earned'[i] \in ServicingCommission
         /\ earned'[i].reversed = earned[i].reversed + refund[s].reversal[i]
         /\ ServicingPositionRight(i)'
         /\ Servicing!Earned(i) \in Int /\ ServicingDebit(s, i) \in Nat
             /\ Servicing!Earned(i)' = Servicing!Earned(i) - ServicingDebit(s, i)
<1> DEFINE r == refund[s].reversal
<1>1. /\ r[i] > 0 =>
           /\ earned[i].state \in {"EXPECTED", "AVAILABLE"}
           /\ earned[i].reversed + r[i] <= Servicing!Original(i)
           /\ earned[i].state = "EXPECTED" => r[i] <= earned[i].expected
      /\ earned'[i] =
           IF r[i] = 0 THEN earned[i]
           ELSE IF earned[i].state = "AVAILABLE" THEN [earned[i] EXCEPT !.reversed = @ + r[i]]
           ELSE [state |-> IF r[i] = earned[i].expected THEN "CANCELLED" ELSE "EXPECTED",
                 expected |-> earned[i].expected - r[i],
                 reversed |-> earned[i].reversed + r[i]]
  BY DEF Servicing!Reverse
<1>2. /\ r[i] \in Nat /\ earned[i] \in ServicingCommission /\ earned[i].expected \in Nat
          /\ earned[i].reversed \in Nat
      /\ Servicing!Original(i) \in Nat /\ earned[i].reversed <= Servicing!Original(i)
      /\ earned[i].state # "AVAILABLE" => earned[i].expected + earned[i].reversed = Servicing!Original(i)
      /\ (earned[i].state = "EXPECTED" <=> earned[i].expected > 0)
      /\ ServicingDebit(s, i) = IF earned[i].state = "AVAILABLE" THEN r[i] ELSE 0
  BY ServicingRowTyped, ServicingMoneyTyped, ServicingAmounts0 DEF ServicingPositionRight, ServicingDebit
<1> HIDE DEF r
<1>3. Servicing!Earned(i) \in Int /\ ServicingDebit(s, i) \in Nat BY <1>2 DEF Servicing!Earned
<1>4. CASE r[i] = 0
  <2>1. earned'[i] = earned[i] BY <1>1, <1>4
  <2>2. Servicing!Earned(i)' = Servicing!Earned(i) /\ ServicingDebit(s, i) = 0
    BY <1>2, <1>4, <2>1 DEF Servicing!Earned
  <2> QED BY <1>2, <1>3, <1>4, <2>1, <2>2 DEF ServicingPositionRight, r
<1>5. CASE r[i] > 0 /\ earned[i].state = "AVAILABLE"
  <2>1. earned'[i] = [earned[i] EXCEPT !.reversed = earned[i].reversed + r[i]] BY <1>1, <1>2, <1>5
  <2>2. /\ earned'[i] \in ServicingCommission /\ earned'[i].reversed = earned[i].reversed + r[i]
        /\ earned'[i].state = "AVAILABLE" /\ earned'[i].expected = earned[i].expected
    BY <1>2, <1>5, <2>1 DEF ServicingCommission
  <2>3. ServicingPositionRight(i)' BY <1>1, <1>2, <1>5, <2>2 DEF ServicingPositionRight
  <2>4. Servicing!Earned(i)' = Servicing!Earned(i) - ServicingDebit(s, i)
    BY <1>2, <1>5, <2>2 DEF Servicing!Earned
  <2> QED BY <1>3, <2>2, <2>3, <2>4 DEF r
<1>6. CASE r[i] > 0 /\ earned[i].state # "AVAILABLE"
  <2>1. earned[i].state = "EXPECTED" /\ r[i] <= earned[i].expected BY <1>1, <1>6
  <2>2. /\ earned'[i].state = IF r[i] = earned[i].expected THEN "CANCELLED" ELSE "EXPECTED"
        /\ earned'[i].expected = earned[i].expected - r[i]
        /\ earned'[i].reversed = earned[i].reversed + r[i]
        /\ earned'[i] \in ServicingCommission
    <3>1. earned'[i] = [state |-> IF r[i] = earned[i].expected THEN "CANCELLED" ELSE "EXPECTED",
                          expected |-> earned[i].expected - r[i],
                          reversed |-> earned[i].reversed + r[i]]
      BY <1>1, <1>2, <1>6
    <3>2. earned[i].expected - r[i] \in Nat /\ earned[i].reversed + r[i] \in Nat BY <1>2, <2>1
    <3> QED BY <3>1, <3>2 DEF ServicingCommission
  <2>3. ServicingPositionRight(i)' BY <1>1, <1>2, <1>6, <2>1, <2>2 DEF ServicingPositionRight
  <2>4. Servicing!Earned(i)' = Servicing!Earned(i) - ServicingDebit(s, i)
    BY <1>2, <1>6, <2>2 DEF Servicing!Earned
  <2> QED BY <1>3, <2>2, <2>3, <2>4 DEF r
<1> QED BY <1>2, <1>4, <1>5, <1>6

LEMMA ServicingWalletDebited ==
  ASSUME ServicingGiven, ServicingTyped, ServicingWalletRight, \A i \in Items : ServicingPositionRight(i),
         NEW s \in Servicing!Sources, Servicing!Reverse(s)
  PROVE  ServicingWalletRight' /\ paidOut' \in [available : Int, withdrawn : Nat]
<1> DEFINE f == [i \in Items |-> Servicing!Earned(i)']
           g == [i \in Items |-> IF earned[i].state = "AVAILABLE" THEN refund[s].reversal[i] ELSE 0]
           h == [i \in Items |-> Servicing!Earned(i)]
<1>1. /\ DOMAIN f = Items /\ DOMAIN g = Items /\ DOMAIN h = Items
      /\ \A i \in Items : f[i] \in Int /\ g[i] \in Int /\ h[i] \in Int /\ h[i] = f[i] + g[i]
  <2> SUFFICES ASSUME NEW i \in Items
               PROVE  f[i] \in Int /\ g[i] \in Int /\ h[i] \in Int /\ h[i] = f[i] + g[i]
    OBVIOUS
  <2>1. Servicing!Earned(i) \in Int /\ ServicingDebit(s, i) \in Nat
     /\ Servicing!Earned(i)' = Servicing!Earned(i) - ServicingDebit(s, i)
    BY ServicingPositionReversed
  <2>2. f[i] = Servicing!Earned(i)' /\ g[i] = ServicingDebit(s, i) /\ h[i] = Servicing!Earned(i)
    BY DEF ServicingDebit
  <2> HIDE DEF f, g, h
  <2> QED BY <2>1, <2>2
<1>2. paidOut' = [paidOut EXCEPT !.available = @ - Servicing!SumFunction(g)]  BY DEF Servicing!Reverse
<1>3. paidOut.available + paidOut.withdrawn = Servicing!SumFunction(h)
   /\ paidOut \in [available : Int, withdrawn : Nat]
  BY DEF ServicingWalletRight, ServicingTyped
<1>4. ServicingWalletRight' <=> (paidOut'.available + paidOut'.withdrawn = Servicing!SumFunction(f))
  BY DEF ServicingWalletRight
<1> HIDE DEF f, g, h
<1>5. Servicing!SumFunction(h) = Servicing!SumFunction(f) + Servicing!SumFunction(g)
   /\ Servicing!SumFunction(f) \in Int /\ Servicing!SumFunction(g) \in Int
  BY <1>1, ServicingFinite, ServicingTotalPlus, ServicingTotalType
<1>6. paidOut'.available = paidOut.available - Servicing!SumFunction(g) /\ paidOut'.withdrawn = paidOut.withdrawn
      /\ paidOut' \in [available : Int, withdrawn : Nat]
  BY <1>2, <1>3, <1>5
<1> QED BY <1>3, <1>4, <1>5, <1>6

LEMMA ServicingOrderRecorded ==
  ASSUME ServicingGiven, ServicingTyped, NEW s \in Servicing!Sources, Servicing!RecordSuccess(s)
  PROVE  /\ order' \in ServicingEnvelope /\ order'.refunded <= Servicing!Paid
         /\ order'.refunded = order.refunded + Servicing!SumFunction(refund[s].amt)
         /\ Servicing!SumFunction(refund[s].amt) \in Nat
<1>1. DOMAIN refund[s].amt = Items /\ \A i \in Items : refund[s].amt[i] \in Nat
  BY DEF ServicingTyped, ServicingMoney, ServicingFields
<1>2. Servicing!SumFunction(refund[s].amt) \in Nat BY <1>1, ServicingFinite, ServicingTotalNat
<1>3. order \in ServicingEnvelope /\ order' = Servicing!RecordedOrder(s)
   /\ order.refunded + Servicing!SumFunction(refund[s].amt) <= Servicing!Paid
  BY DEF ServicingTyped, Servicing!RecordSuccess
<1>4. Servicing!Aggregate(s, "SUCCEEDED") \in {"IDLE", "REFUNDING", "FAILED"}  BY ServicingAggregateTyped
<1>5. order'.refunded = order.refunded + Servicing!SumFunction(refund[s].amt) /\ order' \in ServicingEnvelope
  <2>1. \E p \in {"PARTIAL", "FULL"}, st \in {"COMPLETED", "CLOSED", order.status}, fu \in {"CANCELLED", order.fulfilment} :
          order' = [order EXCEPT !.refunding = Servicing!Aggregate(s, "SUCCEEDED"), !.progress = p,
                                 !.refunded = order.refunded + Servicing!SumFunction(refund[s].amt),
                                 !.status = st, !.fulfilment = fu]
    BY <1>3 DEF Servicing!RecordedOrder
  <2>2. PICK p \in {"PARTIAL", "FULL"}, st \in {"COMPLETED", "CLOSED", order.status}, fu \in {"CANCELLED", order.fulfilment} :
          order' = [order EXCEPT !.refunding = Servicing!Aggregate(s, "SUCCEEDED"), !.progress = p,
                                 !.refunded = order.refunded + Servicing!SumFunction(refund[s].amt),
                                 !.status = st, !.fulfilment = fu]
    BY <2>1
  <2>3. order.refunded + Servicing!SumFunction(refund[s].amt) \in Nat  BY <1>2, <1>3 DEF ServicingEnvelope
  <2>4. st \in {"PENDING_SHIPMENT", "SHIPPING", "COMPLETED", "CLOSED"}
        /\ fu \in {"READY_TO_SHIP", "SHIPPED", "IN_TRANSIT", "DELIVERED", "CANCELLED"}
    BY <1>3 DEF ServicingEnvelope
  <2> QED BY <1>3, <1>4, <2>2, <2>3, <2>4 DEF ServicingEnvelope
<1> QED BY <1>2, <1>3, <1>5

LEMMA ServicingRestocked ==
  ASSUME ServicingGiven, ServicingTyped, NEW s \in Servicing!Sources, Servicing!Restock(s)
  PROVE  restocked' \in ServicingFields
<1>1. \A i \in Items : restocked'[i] \in Nat
  <2> SUFFICES ASSUME NEW i \in Items PROVE restocked'[i] \in Nat
    OBVIOUS
  <2>1. restocked[i] \in Nat /\ refund[s].qty[i] \in Nat
     /\ (s \notin Compensations => aftersale[s].restock[i] \in Nat)
    BY ServicingRowTyped, ServicingMoneyTyped, ServicingCaseTyped DEF Servicing!Sources
  <2> QED BY <2>1 DEF Servicing!Restock
<1>2. restocked' = [i \in Items |-> restocked'[i]] BY DEF Servicing!Restock
<1> QED BY <1>1, <1>2 DEF ServicingFields

\* The rows of the refund and of its aftersale after it.
LEMMA ServicingSuccessRows ==
  ASSUME ServicingGiven, ServicingTyped, NEW s \in Servicing!Sources, Servicing!RecordSuccess(s)
  PROVE  /\ refund[s].status \in Servicing!ActiveRefund
         /\ refund' \in [Servicing!Sources -> ServicingMoney]
             /\ \A t \in Servicing!Sources \ {s} : refund'[t] = refund[t]
         /\ refund'[s].status = "SUCCEEDED" /\ refund'[s].qty = refund[s].qty
         /\ refund'[s].amt = refund[s].amt /\ refund'[s].reversal = refund[s].reversal
         /\ aftersale' \in [Aftersales -> ServicingCase] /\ \A b \in Aftersales : b # s
             => aftersale'[b] = aftersale[b]
         /\ s \in Aftersales => /\ aftersale'[s].status = "COMPLETED" /\ aftersale'[s].type = aftersale[s].type
                                /\ aftersale'[s].qty = aftersale[s].qty /\ aftersale'[s].amt = aftersale[s].amt
                                /\ aftersale'[s].approved = aftersale[s].approved
                                /\ aftersale'[s].restock = aftersale[s].restock
<1>1. refund[s].status \in Servicing!ActiveRefund /\ refund \in [Servicing!Sources -> ServicingMoney]
   /\ refund' = [refund EXCEPT ![s].status = "SUCCEEDED"]
      /\ aftersale \in [Aftersales -> ServicingCase]
      /\ IF s \in Aftersales THEN aftersale' = [aftersale EXCEPT ![s].status = "COMPLETED"] ELSE aftersale' = aftersale
  BY DEF ServicingTyped, Servicing!RecordSuccess, Servicing!ActiveRefund
<1>2. refund' \in [Servicing!Sources -> ServicingMoney]
   /\ \A t \in Servicing!Sources \ {s} : refund'[t] = refund[t]
  <2>1. [refund[s] EXCEPT !.status = "SUCCEEDED"] \in ServicingMoney BY <1>1 DEF ServicingMoney
  <2> QED BY <1>1, <2>1
<1>3. refund'[s].status = "SUCCEEDED" /\ refund'[s].qty = refund[s].qty
      /\ refund'[s].amt = refund[s].amt /\ refund'[s].reversal = refund[s].reversal
  BY <1>1 DEF ServicingMoney
<1>4. CASE s \in Aftersales
  <2>1. [aftersale[s] EXCEPT !.status = "COMPLETED"] \in ServicingCase /\ aftersale[s] \in ServicingCase
    BY <1>1, <1>4 DEF ServicingCase, ServicingAllStatus
  <2>2. aftersale' \in [Aftersales -> ServicingCase]
     /\ (\A b \in Aftersales : b # s => aftersale'[b] = aftersale[b])
        /\ aftersale'[s] = [aftersale[s] EXCEPT !.status = "COMPLETED"]
    BY <1>1, <1>4, <2>1
  <2> QED BY <1>1, <1>2, <1>3, <2>1, <2>2 DEF ServicingCase
<1>5. CASE s \notin Aftersales BY <1>1, <1>2, <1>3, <1>5
<1> QED BY <1>4, <1>5

LEMMA ServicingSuccessKeepsBooks ==
  ASSUME ServicingGiven, ServicingBooks, NEW s \in Servicing!Sources, Servicing!RecordSuccess(s)
  PROVE  ServicingBooks'
<1>t. ServicingTyped /\ \A i \in Items : ServicingPositionRight(i) /\ ServicingReversalRight(i)
  BY DEF ServicingBooks
<1>r. /\ refund[s].status \in Servicing!ActiveRefund
      /\ refund' \in [Servicing!Sources -> ServicingMoney]
          /\ \A t \in Servicing!Sources \ {s} : refund'[t] = refund[t]
      /\ refund'[s].status = "SUCCEEDED" /\ refund'[s].qty = refund[s].qty
      /\ refund'[s].amt = refund[s].amt /\ refund'[s].reversal = refund[s].reversal
      /\ aftersale' \in [Aftersales -> ServicingCase] /\ \A b \in Aftersales : b # s
          => aftersale'[b] = aftersale[b]
  BY <1>t, ServicingSuccessRows
<1>1. /\ item' \in [Items -> ServicingRows] /\ ServicingLinesRight'
          /\ \A i \in Items : ServicingLineRefunded(s, i)
  BY <1>t, ServicingLinesRefunded DEF Servicing!RecordSuccess
<1>2. /\ \A i \in Items : /\ earned'[i] \in ServicingCommission
                          /\ earned'[i].reversed = earned[i].reversed + refund[s].reversal[i]
                          /\ ServicingPositionRight(i)'
      /\ earned' = [i \in Items |-> earned'[i]]
  BY <1>t, ServicingPositionReversed DEF Servicing!RecordSuccess, Servicing!Reverse
<1>3. ServicingWalletRight' /\ paidOut' \in [available : Int, withdrawn : Nat]
  BY <1>t, ServicingWalletDebited DEF Servicing!RecordSuccess, ServicingBooks
<1>4. ServicingTyped'
  BY <1>t, <1>r, <1>1, <1>2, <1>3, ServicingOrderRecorded, ServicingRestocked
     DEF ServicingTyped, Servicing!RecordSuccess
<1>5. ASSUME NEW b \in Aftersales
      PROVE  ServicingCaseRight(b)' /\ ServicingRefundOf(b)'
  <2>b. ServicingCaseRight(b) /\ ServicingRefundOf(b) /\ b \in Servicing!Sources
    BY ServicingNotBoth DEF ServicingBooks
  <2>1. CASE b # s
    <3>1. aftersale'[b] = aftersale[b] /\ refund'[b] = refund[b] BY <1>r, <2>1, <2>b
    <3>2. ServicingRefundOf(b)' BY <3>1, <2>b, ServicingSameRefundOf
    <3> QED BY <3>1, <3>2, <2>b DEF ServicingCaseRight
  <2>2. CASE b = s
    <3>1. /\ aftersale'[b].status = "COMPLETED" /\ aftersale'[b].type = aftersale[b].type
          /\ aftersale'[b].qty = aftersale[b].qty /\ aftersale'[b].amt = aftersale[b].amt
          /\ aftersale'[b].approved = aftersale[b].approved
          /\ aftersale'[b].restock = aftersale[b].restock
      BY <1>t, <2>2, ServicingSuccessRows
    <3>2. aftersale[b].type # "NONE" BY <1>t, <1>r, <2>2, <2>b, ServicingRefundHolds
    <3>3. ServicingCaseRight(b)' BY <2>b, <3>1, <3>2 DEF ServicingCaseRight
    <3>4. ServicingRefundOf(b)' BY <1>r, <2>2, <3>1 DEF ServicingRefundOf, Servicing!ActiveRefund
    <3> QED BY <3>3, <3>4
  <2> QED BY <2>1, <2>2
<1>6. ASSUME NEW i \in Items
      PROVE  ServicingReversalRight(i)'
  <2>1. /\ Servicing!CommittedAmt(i)' = Servicing!CommittedAmt(i) + Servicing!OpenAmt(s, i)' - Servicing!OpenAmt(s, i)
        /\ Servicing!CommittedReversal(i)' = Servicing!CommittedReversal(i) + Servicing!OpenReversal(s, i)' - Servicing!OpenReversal(s, i)
    BY <1>t, <1>r, <1>4, ServicingCommittedMoves
  <2>2. Servicing!OpenAmt(s, i)' = 0 /\ Servicing!OpenReversal(s, i)' = 0
        /\ Servicing!OpenAmt(s, i) = refund[s].amt[i] /\ Servicing!OpenReversal(s, i) = refund[s].reversal[i]
    BY <1>r DEF Servicing!OpenAmt, Servicing!OpenReversal, Servicing!OpenRefunds, Servicing!ActiveRefund
  <2>3. /\ Servicing!CommittedAmt(i) \in Nat /\ Servicing!CommittedReversal(i) \in Nat
        /\ refund[s].amt[i] \in Nat /\ refund[s].reversal[i] \in Nat
        /\ earned[i].reversed \in Nat /\ item[i].refAmt \in Nat
    BY <1>t, ServicingCommittedTyped, ServicingMoneyTyped, ServicingRowTyped
  <2>4. item'[i].refAmt = item[i].refAmt + refund[s].amt[i]
        /\ earned'[i].reversed = earned[i].reversed + refund[s].reversal[i]
    BY <1>1, <1>2 DEF ServicingLineRefunded
  <2>5. earned'[i].reversed + Servicing!CommittedReversal(i)' = earned[i].reversed + Servicing!CommittedReversal(i)
        /\ item'[i].refAmt + Servicing!CommittedAmt(i)' = item[i].refAmt + Servicing!CommittedAmt(i)
    BY <2>1, <2>2, <2>3, <2>4
  <2>6. \A t \in Servicing!Sources : refund'[t].amt[i] = 0 => refund'[t].reversal[i] = 0
    <3> SUFFICES ASSUME NEW t \in Servicing!Sources, refund'[t].amt[i] = 0 PROVE refund'[t].reversal[i] = 0
      OBVIOUS
    <3>1. refund'[t].amt = refund[t].amt /\ refund'[t].reversal = refund[t].reversal BY <1>r
    <3> QED BY <3>1, <1>t DEF ServicingReversalRight
  <2> QED BY <1>t, <2>5, <2>6 DEF ServicingReversalRight
<1>7. ServicingMoneyOnly'
  <2> SUFFICES ASSUME NEW c \in Compensations PROVE refund'[c].qty = Servicing!Zero
    BY DEF ServicingMoneyOnly, Servicing!Zero
  <2>1. refund'[c].qty = refund[c].qty BY <1>r DEF Servicing!Sources
  <2> QED BY <2>1 DEF ServicingBooks, ServicingMoneyOnly
<1>8. Servicing!ReservationsAreHeld'
  <2>1. \A t \in Servicing!Sources \ {s} : refund'[t] = refund[t]
     /\ (t \in Aftersales => aftersale'[t] = aftersale[t])
    BY <1>r
  <2>2. ASSUME NEW i \in Items
        PROVE  /\ s \in Aftersales => Servicing!HeldQty(s, i)' = 0 /\ Servicing!HeldQty(s, i) = refund[s].qty[i]
               /\ s \notin Aftersales => refund[s].qty[i] = 0
               /\ Servicing!HeldAmt(s, i)' = 0 /\ Servicing!HeldAmt(s, i) = refund[s].amt[i]
    <3>1. CASE s \in Aftersales
      <4>1. aftersale'[s].status = "COMPLETED" BY <1>t, <3>1, ServicingSuccessRows
      <4>2. Servicing!HeldQty(s, i)' = 0 /\ Servicing!HeldAmt(s, i)' = 0
        BY <3>1, <4>1, ServicingNotBoth DEF Servicing!HeldQty, Servicing!HeldAmt, Servicing!OpenAftersales,
           Servicing!ActiveAftersale
      <4>3. refund[s].qty[i] = Servicing!HeldQty(s, i) /\ refund[s].amt[i] = Servicing!HeldAmt(s, i)
        BY <1>r, <1>t, <3>1, ServicingRefundHolds DEF ServicingBooks
      <4> QED BY <3>1, <4>2, <4>3
    <3>2. CASE s \notin Aftersales
      <4>1. s \in Compensations /\ refund[s].qty = Servicing!Zero
        BY <3>2 DEF Servicing!Sources, ServicingBooks, ServicingMoneyOnly
      <4>2. Servicing!HeldAmt(s, i)' = 0 /\ Servicing!HeldAmt(s, i) = refund[s].amt[i] /\ refund[s].qty[i] = 0
        BY <1>r, <4>1 DEF Servicing!HeldAmt, Servicing!OpenAmt, Servicing!OpenRefunds, Servicing!ActiveRefund,
           Servicing!Zero
      <4> QED BY <3>2, <4>2
    <3> QED BY <3>1, <3>2
  <2>3. \A i \in Items :
           /\ s \in Aftersales => item'[i].resQty = item[i].resQty + Servicing!HeldQty(s, i)' - Servicing!HeldQty(s, i)
           /\ s \notin Aftersales => item'[i].resQty = item[i].resQty
           /\ item'[i].resAmt = item[i].resAmt + Servicing!HeldAmt(s, i)' - Servicing!HeldAmt(s, i)
    <3> SUFFICES ASSUME NEW i \in Items
                 PROVE  /\ s \in Aftersales => item'[i].resQty = item[i].resQty + Servicing!HeldQty(s, i)' - Servicing!HeldQty(s, i)
                        /\ s \notin Aftersales => item'[i].resQty = item[i].resQty
                        /\ item'[i].resAmt = item[i].resAmt + Servicing!HeldAmt(s, i)' - Servicing!HeldAmt(s, i)
      OBVIOUS
    <3>1. item[i].resQty \in Nat /\ item[i].resAmt \in Nat /\ refund[s].qty[i] \in Nat /\ refund[s].amt[i] \in Nat
      BY <1>t, ServicingRowTyped, ServicingMoneyTyped
    <3>2. item'[i].resQty = item[i].resQty - refund[s].qty[i]
       /\ item'[i].resAmt = item[i].resAmt - refund[s].amt[i]
      BY <1>1 DEF ServicingLineRefunded
    <3> QED BY <2>2, <3>1, <3>2
  <2> QED BY <1>4, <2>1, <2>3, ServicingHeldMoves DEF ServicingBooks
<1> QED BY <1>1, <1>2, <1>3, <1>4, <1>5, <1>6, <1>7, <1>8 DEF ServicingBooks

--------------------------------
\* The steps of the order itself.

\* Nothing but the parcel, the envelope, the earned and the paidOut moves.
LEMMA ServicingOrderMovesKeepsBooks ==
  ASSUME ServicingGiven, ServicingBooks, ServicingTyped', ServicingLinesRight', UNCHANGED <<aftersale, refund>>,
         \A i \in Items : /\ item'[i].resQty = item[i].resQty /\ item'[i].resAmt = item[i].resAmt
                          /\ item'[i].refAmt = item[i].refAmt
                          /\ ServicingPositionRight(i)' /\ earned'[i].reversed = earned[i].reversed,
         ServicingWalletRight'
  PROVE  ServicingBooks'
<1>1. ASSUME NEW b \in Aftersales
      PROVE  ServicingCaseRight(b)' /\ ServicingRefundOf(b)'
  <2>1. ServicingRefundOf(b)' BY ServicingSameRefundOf DEF ServicingBooks
  <2> QED BY <2>1 DEF ServicingBooks, ServicingCaseRight
<1>2. ASSUME NEW i \in Items
      PROVE  ServicingReversalRight(i)'
  <2>1. \A s \in Servicing!Sources : \A j \in Items : Servicing!OpenAmt(s, j)' = Servicing!OpenAmt(s, j)
     /\ Servicing!OpenReversal(s, j)' = Servicing!OpenReversal(s, j)
    BY ServicingSameRefund
  <2>2. Servicing!CommittedAmt(i)' = Servicing!CommittedAmt(i)
     /\ Servicing!CommittedReversal(i)' = Servicing!CommittedReversal(i)
    BY <2>1, ServicingCommittedSame
  <2>3. ServicingReversalRight(i) BY DEF ServicingBooks
  <2> QED BY <2>2, <2>3 DEF ServicingReversalRight
<1>3. ServicingMoneyOnly' BY DEF ServicingBooks, ServicingMoneyOnly, Servicing!Zero
<1>4. Servicing!ReservationsAreHeld'
  <2> SUFFICES ASSUME NEW i \in Items
               PROVE  /\ item'[i].resQty = Servicing!SumFunction([a \in Aftersales |-> Servicing!HeldQty(a, i)'])
                      /\ item'[i].resAmt = Servicing!SumFunction([s \in Servicing!Sources |-> Servicing!HeldAmt(s, i)'])
    BY DEF Servicing!ReservationsAreHeld
  <2>1. [a \in Aftersales |-> Servicing!HeldQty(a, i)'] = [a \in Aftersales |-> Servicing!HeldQty(a, i)]
    BY ServicingSameCase
  <2>2. [s \in Servicing!Sources |-> Servicing!HeldAmt(s, i)'] = [s \in Servicing!Sources |-> Servicing!HeldAmt(s, i)]
    BY ServicingSameHeld
  <2>3. item[i].resQty = Servicing!SumFunction([a \in Aftersales |-> Servicing!HeldQty(a, i)])
        /\ item[i].resAmt = Servicing!SumFunction([s \in Servicing!Sources |-> Servicing!HeldAmt(s, i)])
    BY DEF ServicingBooks, Servicing!ReservationsAreHeld
  <2> QED BY <2>1, <2>2, <2>3
<1> QED BY <1>1, <1>2, <1>3, <1>4 DEF ServicingBooks

\* The lines after the shipment.
ServicingLineShipped(i) ==
  /\ item'[i].shipped = Ordered[i] - item[i].preQty
  /\ item'[i].resQty = item[i].resQty /\ item'[i].resAmt = item[i].resAmt
  /\ item'[i].refQty = item[i].refQty /\ item'[i].preQty = item[i].preQty
  /\ item'[i].refAmt = item[i].refAmt

LEMMA ServicingLinesShipped ==
  ASSUME ServicingGiven, ServicingTyped, ServicingLinesRight, Servicing!CreateShipment
  PROVE  /\ item' \in [Items -> ServicingRows] /\ ServicingLinesRight' /\ \A i \in Items : ServicingLineShipped(i)
         /\ order.status = "PENDING_SHIPMENT" /\ order'.status = "SHIPPING" /\ order' \in ServicingEnvelope
         /\ order'.refunded = order.refunded /\ Servicing!OpenAftersales = {}
         /\ \E i \in Items : Servicing!Shippable(i) > 0
         /\ UNCHANGED <<aftersale, refund, executed, earned, paidOut, restocked>>
<1>1. item' = [i \in Items |-> [item[i] EXCEPT !.shipped = @ + Servicing!Shippable(i)]]
      /\ \A i \in Items : Servicing!ItemCheck(i, item'[i])
  BY DEF Servicing!CreateShipment, Servicing!Store
<1>2. ASSUME NEW i \in Items
      PROVE  item'[i] \in ServicingRows /\ ServicingLineShipped(i)
  <2>1. /\ item[i] \in ServicingRows /\ item[i].shipped \in Nat /\ item[i].preQty \in Nat
            /\ item[i].refQty \in Nat
        /\ item[i].resQty \in Nat /\ Ordered[i] \in Nat
    BY ServicingRowTyped, ServicingAmounts0
  <2>2. item[i].preQty <= Ordered[i] BY <2>1 DEF ServicingLinesRight, Servicing!ItemCheck
  <2>3. PICK n \in Int : n = item[i].shipped + Servicing!Shippable(i)  BY <2>1 DEF Servicing!Shippable
  <2>4. item'[i] = [item[i] EXCEPT !.shipped = n] BY <1>1, <2>3
  <2>5. n = Ordered[i] - item[i].preQty BY <2>1, <2>3 DEF Servicing!Shippable
  <2>6. n \in Nat BY <2>1, <2>2, <2>5
  <2> QED BY <2>1, <2>4, <2>5, <2>6 DEF ServicingRows, ServicingLineShipped
<1>3. item' = [i \in Items |-> item'[i]] BY <1>1
<1>4. order \in ServicingEnvelope /\ order' = [order EXCEPT !.status = "SHIPPING", !.fulfilment = "SHIPPED"]
      /\ order.status = "PENDING_SHIPMENT"
  BY DEF Servicing!CreateShipment, ServicingTyped
<1>5. order' \in ServicingEnvelope /\ order'.status = "SHIPPING" /\ order'.refunded = order.refunded
  BY <1>4 DEF ServicingEnvelope
<1>6. /\ Servicing!OpenAftersales = {} /\ \E i \in Items : Servicing!Shippable(i) > 0
      /\ UNCHANGED <<aftersale, refund, executed, earned, paidOut, restocked>>
  BY DEF Servicing!CreateShipment
<1>7. item' \in [Items -> ServicingRows] /\ ServicingLinesRight'  BY <1>1, <1>2, <1>3 DEF ServicingLinesRight
<1> QED BY <1>2, <1>4, <1>5, <1>6, <1>7

LEMMA ServicingShipmentKeepsBooks ==
  ASSUME ServicingGiven, ServicingBooks, Servicing!CreateShipment
  PROVE  ServicingBooks'
<1>1. /\ item' \in [Items -> ServicingRows] /\ ServicingLinesRight' /\ \A i \in Items : ServicingLineShipped(i)
      /\ order' \in ServicingEnvelope /\ order'.refunded = order.refunded
      /\ UNCHANGED <<aftersale, refund, executed, earned, paidOut, restocked>>
  BY ServicingLinesShipped DEF ServicingBooks
<1>2. ServicingTyped' BY <1>1 DEF ServicingBooks, ServicingTyped
<1>3. (\A i \in Items : ServicingPositionRight(i)') /\ ServicingWalletRight'
  BY <1>1, ServicingPositionSame DEF ServicingBooks
<1>4. \A i \in Items : earned'[i] = earned[i] BY <1>1
<1> QED BY <1>1, <1>2, <1>3, <1>4, ServicingOrderMovesKeepsBooks DEF ServicingLineShipped

\* The envelope moves alone.
LEMMA ServicingEnvelopeMovesKeepsBooks ==
  ASSUME ServicingGiven, ServicingBooks, order' \in ServicingEnvelope, order'.refunded = order.refunded,
         UNCHANGED <<item, aftersale, refund, executed, earned, paidOut, restocked>>
  PROVE  ServicingBooks'
<1>1. ServicingTyped' /\ ServicingLinesRight'  BY DEF ServicingBooks, ServicingTyped, ServicingLinesRight
<1>2. (\A i \in Items : ServicingPositionRight(i)') /\ ServicingWalletRight'
  BY ServicingPositionSame DEF ServicingBooks
<1> QED BY <1>1, <1>2, ServicingOrderMovesKeepsBooks

LEMMA ServicingEnvelopeSteps ==
  ASSUME ServicingTyped, Servicing!AppendLogisticsEvent \/ Servicing!WindowExpires
  PROVE  /\ order' \in ServicingEnvelope /\ order'.refunded = order.refunded /\ order'.status = order.status
         /\ UNCHANGED <<item, aftersale, refund, executed, earned, paidOut, restocked>>
<1>1. order \in ServicingEnvelope BY DEF ServicingTyped
<1>2. CASE Servicing!AppendLogisticsEvent
  <2>1. \E fu \in {"IN_TRANSIT", "DELIVERED"} : order' = [order EXCEPT !.fulfilment = fu]
    BY <1>2 DEF Servicing!AppendLogisticsEvent
  <2>2. PICK fu \in {"IN_TRANSIT", "DELIVERED"} : order' = [order EXCEPT !.fulfilment = fu] BY <2>1
  <2> QED BY <1>1, <1>2, <2>2 DEF Servicing!AppendLogisticsEvent, ServicingEnvelope
<1>3. CASE Servicing!WindowExpires BY <1>1, <1>3 DEF Servicing!WindowExpires, ServicingEnvelope
<1> QED BY <1>2, <1>3

LEMMA ServicingWithdrawKeepsBooks ==
  ASSUME ServicingGiven, ServicingBooks, Servicing!Withdraw
  PROVE  ServicingBooks'
<1>1. paidOut \in [available : Int, withdrawn : Nat] /\ paidOut.available > 0
      /\ paidOut' = [available |-> 0, withdrawn |-> paidOut.withdrawn + paidOut.available]
      /\ UNCHANGED <<order, item, aftersale, refund, executed, earned, restocked>>
  BY DEF ServicingBooks, ServicingTyped, Servicing!Withdraw
<1>2. paidOut' \in [available : Int, withdrawn : Nat]
      /\ paidOut'.available + paidOut'.withdrawn = paidOut.available + paidOut.withdrawn
  BY <1>1
<1>3. ServicingTyped' /\ ServicingLinesRight'
  BY <1>1, <1>2 DEF ServicingBooks, ServicingTyped, ServicingLinesRight
<1>4. \A i \in Items : ServicingPositionRight(i)' /\ Servicing!Earned(i)' = Servicing!Earned(i)
  BY <1>1 DEF ServicingBooks, ServicingPositionRight, Servicing!Earned
<1>5. [i \in Items |-> Servicing!Earned(i)'] = [i \in Items |-> Servicing!Earned(i)] BY <1>4
<1>6. ServicingWalletRight' BY <1>2, <1>5 DEF ServicingBooks, ServicingWalletRight
<1> QED BY <1>1, <1>3, <1>4, <1>6, ServicingOrderMovesKeepsBooks

\* What a line is still expected to earn becomes available.
ServicingDue(i) == IF earned[i].state = "EXPECTED" THEN earned[i].expected ELSE 0

LEMMA ServicingLineCompleted ==
  ASSUME ServicingGiven, ServicingTyped, Servicing!CompleteOrder, NEW i \in Items, ServicingPositionRight(i)
  PROVE  /\ earned'[i] \in ServicingCommission /\ earned'[i].reversed = earned[i].reversed
         /\ ServicingPositionRight(i)'
         /\ Servicing!Earned(i) \in Int /\ ServicingDue(i) \in Nat
             /\ Servicing!Earned(i)' = Servicing!Earned(i) + ServicingDue(i)
<1>1. earned'[i] = IF earned[i].state = "EXPECTED" THEN [earned[i] EXCEPT !.state = "AVAILABLE", !.expected = 0] ELSE earned[i]
  BY DEF Servicing!CompleteOrder
<1>2. /\ earned[i] \in ServicingCommission /\ earned[i].expected \in Nat /\ earned[i].reversed \in Nat
      /\ Servicing!Original(i) \in Nat /\ earned[i].reversed <= Servicing!Original(i)
      /\ earned[i].state # "AVAILABLE" => earned[i].expected + earned[i].reversed = Servicing!Original(i)
      /\ (earned[i].state = "EXPECTED" <=> earned[i].expected > 0)
  BY ServicingRowTyped, ServicingAmounts0 DEF ServicingPositionRight
<1>3. Servicing!Earned(i) \in Int /\ ServicingDue(i) \in Nat  BY <1>2 DEF Servicing!Earned, ServicingDue
<1>4. CASE earned[i].state = "EXPECTED"
  <2>1. earned'[i] = [earned[i] EXCEPT !.state = "AVAILABLE", !.expected = 0] BY <1>1, <1>4
  <2>2. /\ earned'[i] \in ServicingCommission /\ earned'[i].reversed = earned[i].reversed
        /\ earned'[i].state = "AVAILABLE" /\ earned'[i].expected = 0
    <3>1. earned'[i].state = "AVAILABLE" /\ earned'[i].expected = 0 /\ earned'[i].reversed = earned[i].reversed
      BY <1>2, <2>1 DEF ServicingCommission
    <3>2. earned'[i] = [state |-> "AVAILABLE", expected |-> 0, reversed |-> earned[i].reversed]
      BY <1>2, <2>1 DEF ServicingCommission
    <3> QED BY <1>2, <3>1, <3>2 DEF ServicingCommission
  <2>3. ServicingPositionRight(i)' BY <1>2, <2>2 DEF ServicingPositionRight
  <2>4. Servicing!Earned(i)' = Servicing!Earned(i) + ServicingDue(i)
    BY <1>2, <1>4, <2>2 DEF Servicing!Earned, ServicingDue
  <2> QED BY <1>3, <2>2, <2>3, <2>4
<1>5. CASE earned[i].state # "EXPECTED"
  <2>1. earned'[i] = earned[i] BY <1>1, <1>5
  <2>2. Servicing!Earned(i)' = Servicing!Earned(i) /\ ServicingDue(i) = 0
    BY <1>5, <2>1 DEF Servicing!Earned, ServicingDue
  <2> QED BY <1>2, <1>3, <2>1, <2>2 DEF ServicingPositionRight
<1> QED BY <1>4, <1>5

LEMMA ServicingCompletionKeepsBooks ==
  ASSUME ServicingGiven, ServicingBooks, Servicing!CompleteOrder
  PROVE  ServicingBooks' /\ order'.status = "COMPLETED" /\ order'.refunded = order.refunded
     /\ order.status = "SHIPPING"
<1> DEFINE f == [i \in Items |-> Servicing!Earned(i)]
           g == [i \in Items |-> IF earned[i].state = "EXPECTED" THEN earned[i].expected ELSE 0]
           h == [i \in Items |-> Servicing!Earned(i)']
<1>t. ServicingTyped /\ ServicingLinesRight /\ \A i \in Items : ServicingPositionRight(i)
  BY DEF ServicingBooks
<1>1. \A i \in Items : /\ earned'[i] \in ServicingCommission /\ earned'[i].reversed = earned[i].reversed
                       /\ ServicingPositionRight(i)'
  BY <1>t, ServicingLineCompleted
<1>2. /\ DOMAIN f = Items /\ DOMAIN g = Items /\ DOMAIN h = Items
      /\ \A i \in Items : f[i] \in Int /\ g[i] \in Int /\ h[i] = f[i] + g[i]
  <2> SUFFICES ASSUME NEW i \in Items
               PROVE  f[i] \in Int /\ g[i] \in Int /\ h[i] = f[i] + g[i]
    OBVIOUS
  <2>1. f[i] = Servicing!Earned(i) /\ g[i] = ServicingDue(i) /\ h[i] = Servicing!Earned(i)'
    BY DEF ServicingDue
  <2>2. Servicing!Earned(i) \in Int /\ ServicingDue(i) \in Nat
     /\ Servicing!Earned(i)' = Servicing!Earned(i) + ServicingDue(i)
    BY <1>t, ServicingLineCompleted
  <2> HIDE DEF f, g, h
  <2> QED BY <2>1, <2>2
<1>3. paidOut' = [paidOut EXCEPT !.available = @ + Servicing!SumFunction(g)]  BY DEF Servicing!CompleteOrder
<1>4. paidOut.available + paidOut.withdrawn = Servicing!SumFunction(f)
   /\ paidOut \in [available : Int, withdrawn : Nat]
  BY DEF ServicingBooks, ServicingWalletRight, ServicingTyped
<1>5. ServicingWalletRight' <=> (paidOut'.available + paidOut'.withdrawn = Servicing!SumFunction(h))
  BY DEF ServicingWalletRight
<1> HIDE DEF f, g, h
<1>6. Servicing!SumFunction(h) = Servicing!SumFunction(f) + Servicing!SumFunction(g)
   /\ Servicing!SumFunction(f) \in Int /\ Servicing!SumFunction(g) \in Int
  BY <1>2, ServicingFinite, ServicingTotalPlus, ServicingTotalType
<1>7. ServicingWalletRight' /\ paidOut' \in [available : Int, withdrawn : Nat]  BY <1>3, <1>4, <1>5, <1>6
<1>8. order \in ServicingEnvelope /\ order.status = "SHIPPING"
      /\ order' = [order EXCEPT !.status = "COMPLETED", !.fulfilment = "DELIVERED", !.window = "OPEN"]
      /\ UNCHANGED <<item, aftersale, refund, executed, restocked>>
  BY <1>t DEF Servicing!CompleteOrder, ServicingTyped
<1>9. order' \in ServicingEnvelope /\ order'.refunded = order.refunded /\ order'.status = "COMPLETED"
  BY <1>8 DEF ServicingEnvelope
<1>10. earned' \in [Items -> ServicingCommission]
  <2>1. earned' = [i \in Items |-> earned'[i]] BY DEF Servicing!CompleteOrder
  <2> QED BY <1>1, <2>1
<1>11. ServicingTyped' /\ ServicingLinesRight'
  BY <1>t, <1>7, <1>8, <1>9, <1>10 DEF ServicingTyped, ServicingLinesRight
<1>12. ServicingBooks' BY <1>1, <1>7, <1>8, <1>11, ServicingOrderMovesKeepsBooks
<1> QED BY <1>8, <1>9, <1>12

--------------------------------
\* The books are right from the first step to the last.

LEMMA ServicingBooksOpen ==
  ASSUME ServicingGiven, Servicing!Init
  PROVE  ServicingBooks
<1>0. Servicing!Zero \in ServicingFields /\ \A i \in Items : Servicing!Zero[i] = 0
  BY DEF Servicing!Zero, ServicingFields
<1>2. \A i \in Items : item[i] = [refQty |-> 0, preQty |-> 0, resQty |-> 0, refAmt |-> 0, resAmt |-> 0, shipped |-> 0]
  BY DEF Servicing!Init
<1>3. \A a \in Aftersales : aftersale[a] = [status |-> "NONE", type |-> "NONE", qty |-> Servicing!Zero,
                                            amt |-> Servicing!Zero, approved |-> Servicing!Zero, restock |-> Servicing!Zero]
  BY DEF Servicing!Init
<1>4. \A s \in Servicing!Sources : refund[s] = [status |-> "NONE", qty |-> Servicing!Zero, amt |-> Servicing!Zero, reversal |-> Servicing!Zero]
  BY DEF Servicing!Init
<1>5. \A i \in Items : /\ earned[i] = [state |-> IF Servicing!Original(i) = 0 THEN "NONE" ELSE "EXPECTED",
                                         expected |-> Servicing!Original(i), reversed |-> 0]
                       /\ earned[i].state = IF Servicing!Original(i) = 0 THEN "NONE" ELSE "EXPECTED"
                       /\ earned[i].expected = Servicing!Original(i) /\ earned[i].reversed = 0
                       /\ Servicing!Original(i) \in Nat
  BY ServicingAmounts0 DEF Servicing!Init
<1>6. ServicingTyped
  <2>1. order \in ServicingEnvelope /\ order.refunded = 0 BY DEF Servicing!Init, ServicingEnvelope
  <2>2. order.refunded <= Servicing!Paid BY <2>1, ServicingPaidNat
  <2>3. item \in [Items -> ServicingRows] BY <1>2 DEF Servicing!Init, ServicingRows
  <2>4. aftersale \in [Aftersales -> ServicingCase]
    BY <1>0, <1>3 DEF Servicing!Init, ServicingCase, ServicingAllStatus
  <2>5. refund \in [Servicing!Sources -> ServicingMoney]  BY <1>0, <1>4 DEF Servicing!Init, ServicingMoney
  <2>6. earned \in [Items -> ServicingCommission] BY <1>5 DEF Servicing!Init, ServicingCommission
  <2>7. restocked \in ServicingFields /\ paidOut \in [available : Int, withdrawn : Nat]
        /\ executed \in [Servicing!Sources -> {"NOT_FOUND", "SUCCEEDED", "FAILED"}]
    BY <1>0 DEF Servicing!Init
  <2> QED BY <2>1, <2>2, <2>3, <2>4, <2>5, <2>6, <2>7 DEF ServicingTyped
<1>7. ServicingLinesRight
  <2> SUFFICES ASSUME NEW i \in Items PROVE Servicing!ItemCheck(i, item[i])
    BY DEF ServicingLinesRight
  <2>1. Price[i] * 0 = 0 /\ Ordered[i] \in Nat /\ Servicing!LinePaid(i) \in Nat  BY ServicingAmounts0
  <2> QED BY <1>2, <2>1 DEF Servicing!ItemCheck
<1>8. ASSUME NEW a \in Aftersales
      PROVE  ServicingCaseRight(a) /\ ServicingRefundOf(a) /\ a \notin Servicing!OpenAftersales
  BY <1>0, <1>3, <1>4, ServicingNotBoth DEF ServicingCaseRight, ServicingRefundOf, Servicing!ActiveRefund,
     Servicing!OpenAftersales, Servicing!ActiveAftersale
<1>9. ASSUME NEW i \in Items
      PROVE  ServicingPositionRight(i) /\ ServicingReversalRight(i) /\ Servicing!Earned(i) = 0
  <2>1. \A s \in Servicing!Sources : Servicing!OpenAmt(s, i) = 0 /\ Servicing!OpenReversal(s, i) = 0
    BY <1>4 DEF Servicing!OpenAmt, Servicing!OpenReversal, Servicing!OpenRefunds, Servicing!ActiveRefund
  <2> DEFINE f == [s \in Servicing!Sources |-> Servicing!OpenAmt(s, i)]
             g == [s \in Servicing!Sources |-> Servicing!OpenReversal(s, i)]
  <2>2. DOMAIN f = Servicing!Sources /\ DOMAIN g = Servicing!Sources /\ \A s \in Servicing!Sources : f[s] = 0
     /\ g[s] = 0
    BY <2>1
  <2> HIDE DEF f, g
  <2>3. Servicing!SumFunction(f) = 0 /\ Servicing!SumFunction(g) = 0
    BY <2>2, ServicingFinite, ServicingTotalZero
  <2>4. Servicing!CommittedAmt(i) = 0 /\ Servicing!CommittedReversal(i) = 0
    BY <2>3 DEF Servicing!CommittedAmt, Servicing!CommittedReversal, f, g
  <2>5. ServicingPositionRight(i) /\ Servicing!Earned(i) = 0
    <3>0. earned[i].expected = Servicing!Original(i) /\ earned[i].reversed = 0 /\ Servicing!Original(i) \in Nat
      BY <1>5
    <3>1. CASE Servicing!Original(i) = 0
      <4>1. earned[i].state = "NONE" BY <1>5, <3>1
      <4> QED BY <3>0, <3>1, <4>1 DEF ServicingPositionRight, Servicing!Earned
    <3>2. CASE Servicing!Original(i) # 0
      <4>1. earned[i].state = "EXPECTED" BY <1>5, <3>2
      <4> QED BY <3>0, <3>2, <4>1 DEF ServicingPositionRight, Servicing!Earned
    <3> QED BY <3>1, <3>2
  <2>6. Servicing!LinePaid(i) > 0
    <3>1. \A m, n \in Nat : m > 0 /\ n > 0 => m * n > 0
      OBVIOUS
    <3> QED BY <3>1, ServicingAmounts0
  <2>7. item[i].refAmt = 0 /\ earned[i].reversed = 0 /\ Servicing!LinePaid(i) \in Nat
    <3>1. item[i].refAmt = 0 BY <1>2
    <3> QED BY <1>5, <3>1, ServicingAmounts0
  <2>8. \A s \in Servicing!Sources : refund[s].amt[i] = 0 => refund[s].reversal[i] = 0
    <3>1. \A s \in Servicing!Sources : refund[s].reversal[i] = 0 BY <1>0, <1>4
    <3> QED BY <3>1
  <2>9. Servicing!Original(i) \in Nat BY <1>5
  <2>10. earned[i].reversed + Servicing!CommittedReversal(i) = 0 /\ item[i].refAmt + Servicing!CommittedAmt(i) = 0
    BY <2>4, <2>7
  <2>11. ServicingReversalRight(i) BY <2>6, <2>7, <2>8, <2>9, <2>10 DEF ServicingReversalRight
  <2> QED BY <2>5, <2>11
<1>10. ServicingMoneyOnly BY <1>4 DEF ServicingMoneyOnly, Servicing!Sources
<1>11. ServicingWalletRight
  <2> DEFINE f == [i \in Items |-> Servicing!Earned(i)]
  <2>1. DOMAIN f = Items /\ \A i \in Items : f[i] = 0 BY <1>9
  <2>2. paidOut.available + paidOut.withdrawn = 0 BY DEF Servicing!Init
  <2>3. ServicingWalletRight <=> (paidOut.available + paidOut.withdrawn = Servicing!SumFunction(f))
    BY DEF ServicingWalletRight
  <2> HIDE DEF f
  <2>4. Servicing!SumFunction(f) = 0 BY <2>1, ServicingFinite, ServicingTotalZero
  <2> QED BY <2>2, <2>3, <2>4
<1>12. Servicing!ReservationsAreHeld
  <2> SUFFICES ASSUME NEW i \in Items
               PROVE  /\ item[i].resQty = Servicing!SumFunction([a \in Aftersales |-> Servicing!HeldQty(a, i)])
                      /\ item[i].resAmt = Servicing!SumFunction([s \in Servicing!Sources |-> Servicing!HeldAmt(s, i)])
    BY DEF Servicing!ReservationsAreHeld
  <2> DEFINE f == [a \in Aftersales |-> Servicing!HeldQty(a, i)]
             g == [s \in Servicing!Sources |-> Servicing!HeldAmt(s, i)]
  <2>1. DOMAIN f = Aftersales /\ \A a \in Aftersales : f[a] = 0 BY <1>8 DEF Servicing!HeldQty
  <2>2. DOMAIN g = Servicing!Sources /\ \A s \in Servicing!Sources : g[s] = 0
    <3> SUFFICES ASSUME NEW s \in Servicing!Sources PROVE g[s] = 0
      OBVIOUS
    <3>1. Servicing!OpenAmt(s, i) = 0
      BY <1>4 DEF Servicing!OpenAmt, Servicing!OpenRefunds, Servicing!ActiveRefund
    <3> QED BY <1>8, <3>1 DEF Servicing!HeldAmt, Servicing!Sources
  <2> HIDE DEF f, g
  <2>3. Servicing!SumFunction(f) = 0 /\ Servicing!SumFunction(g) = 0
    BY <2>1, <2>2, ServicingFinite, ServicingTotalZero
  <2> QED BY <1>2, <2>3 DEF f, g
<1> QED BY <1>6, <1>7, <1>8, <1>9, <1>10, <1>11, <1>12 DEF ServicingBooks

LEMMA ServicingSameBooks ==
  ASSUME ServicingBooks, UNCHANGED Servicing!vars
  PROVE  ServicingBooks'
<1>1. UNCHANGED <<order, item, aftersale, refund, executed, earned, paidOut, restocked>>
  BY DEF Servicing!vars
<1>2. ServicingTyped' /\ ServicingLinesRight' /\ ServicingMoneyOnly'
  BY <1>1 DEF ServicingBooks, ServicingTyped, ServicingLinesRight, ServicingMoneyOnly, Servicing!Zero
<1>3. (\A a \in Aftersales : ServicingCaseRight(a)' /\ ServicingRefundOf(a)')
  BY <1>1, ServicingSameRefundOf DEF ServicingBooks, ServicingCaseRight, Servicing!Sources
<1>4. (\A i \in Items : ServicingPositionRight(i)') /\ ServicingWalletRight'
  BY <1>1, ServicingPositionSame DEF ServicingBooks
<1>5. \A i \in Items : ServicingReversalRight(i)'
  BY <1>1 DEF ServicingBooks, ServicingReversalRight, Servicing!CommittedAmt, Servicing!CommittedReversal,
     Servicing!OpenAmt, Servicing!OpenReversal, Servicing!OpenRefunds
<1>6. Servicing!ReservationsAreHeld'
  BY <1>1 DEF ServicingBooks, Servicing!ReservationsAreHeld, Servicing!HeldQty, Servicing!HeldAmt,
     Servicing!OpenAftersales, Servicing!Inspected, Servicing!KeptAmount, Servicing!OpenAmt, Servicing!OpenRefunds
<1> QED BY <1>2, <1>3, <1>4, <1>5, <1>6 DEF ServicingBooks

\* Every step is one of these.
LEMMA ServicingSteps ==
  ASSUME Servicing!Next
  PROVE  \/ \E a \in Aftersales : ServicingCaseCommand(a)
         \/ \E a \in Aftersales : Servicing!CreateAftersaleRefund(a)
         \/ \E c \in Compensations, l \in Items, amount \in Refundable : Servicing!CreateCompensation(c, l, amount)
         \/ \E s \in Servicing!Sources : \/ Servicing!ClaimRefund(s) \/ Servicing!RetryRefund(s)
                                             \/ Servicing!RecordFailure(s)
                                         \/ \E outcome \in {"SUCCEEDED", "FAILED"} : Servicing!ExecuteRefund(s, outcome)
         \/ \E s \in Servicing!Sources : Servicing!RecordSuccess(s)
         \/ Servicing!CreateShipment
         \/ Servicing!AppendLogisticsEvent \/ Servicing!WindowExpires
         \/ Servicing!CompleteOrder
         \/ Servicing!Withdraw
BY DEF Servicing!Next, ServicingCaseCommand, Servicing!CustomerStep, Servicing!AdminStep, Servicing!RefundStep

LEMMA ServicingNextKeepsBooks ==
  ASSUME ServicingGiven, ServicingBooks, Servicing!Next
  PROVE  ServicingBooks'
<1>1. ASSUME NEW a \in Aftersales, ServicingCaseCommand(a) PROVE ServicingBooks'
  BY <1>1, ServicingCommandMoves, ServicingCaseMovesKeepsBooks
<1>2. ASSUME NEW a \in Aftersales, Servicing!CreateAftersaleRefund(a) PROVE ServicingBooks'
  BY <1>2, ServicingCreateRefundKeepsBooks
<1>3. ASSUME NEW c \in Compensations, NEW l \in Items, NEW amount \in Refundable,
             Servicing!CreateCompensation(c, l, amount) PROVE ServicingBooks'
  BY <1>3, ServicingCompensationKeepsBooks
<1>4. ASSUME NEW s \in Servicing!Sources,
             \/ Servicing!ClaimRefund(s) \/ Servicing!RetryRefund(s) \/ Servicing!RecordFailure(s)
             \/ \E outcome \in {"SUCCEEDED", "FAILED"} : Servicing!ExecuteRefund(s, outcome)
      PROVE  ServicingBooks'
  BY <1>4, ServicingRefundCommandMoves, ServicingRefundMovesKeepsBooks
<1>5. ASSUME NEW s \in Servicing!Sources, Servicing!RecordSuccess(s) PROVE ServicingBooks'
  BY <1>5, ServicingSuccessKeepsBooks
<1>6. CASE Servicing!CreateShipment BY <1>6, ServicingShipmentKeepsBooks
<1>7. CASE Servicing!AppendLogisticsEvent \/ Servicing!WindowExpires
  BY <1>7, ServicingEnvelopeSteps, ServicingEnvelopeMovesKeepsBooks DEF ServicingBooks
<1>8. CASE Servicing!CompleteOrder BY <1>8, ServicingCompletionKeepsBooks
<1>9. CASE Servicing!Withdraw BY <1>9, ServicingWithdrawKeepsBooks
<1> QED BY <1>1, <1>2, <1>3, <1>4, <1>5, <1>6, <1>7, <1>8, <1>9, ServicingSteps

--------------------------------
\* The rules of an order without compensations.

LEMMA ServicingMulPositive == \A m, n \in Nat : m > 0 /\ n > 0 => m * n > 0
OBVIOUS

LEMMA ServicingMulMonotone == \A m, n, k \in Nat : n <= k => m * n <= m * k
<1> SUFFICES ASSUME NEW m \in Nat, NEW n \in Nat, NEW k \in Nat, n <= k PROVE m * n <= m * k
  OBVIOUS
<1>1. PICK d \in Nat : k = n + d
  <2>1. k - n \in Nat /\ k = n + (k - n)
    OBVIOUS
  <2> QED BY <2>1
<1>2. m * k = m * n + m * d /\ m * d \in Nat /\ m * n \in Nat  BY <1>1, ServicingMulAdd, ServicingMulNat
<1> QED BY <1>2

\* What an aftersale at price holds is at price, now and after a step.
LEMMA ServicingHeldAtPrice ==
  ASSUME ServicingGiven, ServicingTyped, NEW a \in Aftersales, NEW i \in Items,
         aftersale[a].amt[i] = Price[i] * aftersale[a].qty[i]
  PROVE  Servicing!HeldAmt(a, i) = Price[i] * Servicing!HeldQty(a, i)
     /\ Servicing!KeptAmount(a, i) = Price[i] * aftersale[a].approved[i]
<1>1. Servicing!KeptAmount(a, i) = Price[i] * aftersale[a].approved[i] BY DEF Servicing!KeptAmount
<1>2. Price[i] * 0 = 0 BY ServicingAmounts0
<1> QED BY <1>1, <1>2, ServicingNotBoth DEF Servicing!HeldAmt, Servicing!HeldQty

LEMMA ServicingHeldAtPriceNext ==
  ASSUME ServicingGiven, NEW a \in Aftersales, NEW i \in Items,
         aftersale'[a].amt[i] = Price[i] * aftersale'[a].qty[i]
  PROVE  Servicing!HeldAmt(a, i)' = Price[i] * Servicing!HeldQty(a, i)'
<1>1. Servicing!KeptAmount(a, i)' = Price[i] * aftersale'[a].approved[i]  BY DEF Servicing!KeptAmount
<1>2. Price[i] * 0 = 0 BY ServicingAmounts0
<1> QED BY <1>1, <1>2, ServicingNotBoth DEF Servicing!HeldAmt, Servicing!HeldQty

LEMMA ServicingSomethingInIt ==
  ASSUME ServicingGiven, NEW f \in ServicingFields, Servicing!SumFunction(f) > 0
  PROVE  \E i \in Items : f[i] > 0
<1> SUFFICES ASSUME \A i \in Items : ~(f[i] > 0) PROVE FALSE
  OBVIOUS
<1>1. DOMAIN f = Items /\ \A i \in Items : f[i] = 0 BY DEF ServicingFields
<1>2. Servicing!SumFunction(f) = 0 BY <1>1, ServicingFinite, ServicingTotalZero
<1> QED BY <1>2

LEMMA ServicingPutBackTyped ==
  ASSUME ServicingTyped, NEW a \in Aftersales, NEW i \in Items
  PROVE  Servicing!PutBack(a, i) \in Nat
BY ServicingCaseTyped DEF Servicing!PutBack

LEMMA ServicingPutBackTotal ==
  ASSUME ServicingGiven, ServicingTyped, NEW i \in Items
  PROVE  Servicing!SumFunction([a \in Aftersales |-> Servicing!PutBack(a, i)]) \in Nat
<1> DEFINE f == [a \in Aftersales |-> Servicing!PutBack(a, i)]
<1>1. DOMAIN f = Aftersales /\ \A a \in Aftersales : f[a] \in Nat BY ServicingPutBackTyped
<1> HIDE DEF f
<1>2. Servicing!SumFunction(f) \in Nat BY <1>1, ServicingFinite, ServicingTotalNat
<1> QED BY <1>2 DEF f

\* A closed order has nothing open any more.
LEMMA ServicingClosedIsDone ==
  ASSUME ServicingGiven, ServicingBooks, ServicingRules, order.status = "CLOSED"
  PROVE  Servicing!OpenAftersales = {} /\ \A i \in Items : item[i].refQty = Ordered[i] /\ item[i].resQty = 0
<1>1. ASSUME NEW i \in Items
      PROVE  item[i].refQty = Ordered[i] /\ item[i].resQty = 0
  <2>1. item[i].preQty = Ordered[i] BY DEF ServicingRules, ServicingSettled
  <2>2. /\ item[i].refQty + item[i].resQty <= Ordered[i] /\ item[i].preQty <= item[i].refQty
        /\ item[i].refQty \in Nat /\ item[i].resQty \in Nat /\ Ordered[i] \in Nat
    BY ServicingRowTyped, ServicingAmounts0 DEF ServicingBooks, ServicingLinesRight, Servicing!ItemCheck
  <2> QED BY <2>1, <2>2
<1>2. ASSUME NEW a \in Servicing!OpenAftersales
      PROVE  FALSE
  <2>1. PICK i \in Items : Servicing!HeldQty(a, i) > 0  BY DEF ServicingRules, ServicingHoldsSomething
  <2>2. Servicing!HeldQty(a, i) <= item[i].resQty /\ Servicing!HeldQty(a, i) \in Nat
    BY ServicingPartOfHeld, ServicingHeldTyped DEF ServicingBooks, Servicing!OpenAftersales
  <2> QED BY <1>1, <2>1, <2>2
<1> QED BY <1>1, <1>2

--------------------------------
\* Steps that leave the lines and the aftersales as they are.

LEMMA ServicingRulesSame ==
  ASSUME ServicingRules, UNCHANGED <<item, aftersale, earned, restocked>>,
         order'.status = order.status, order'.refunded = order.refunded
  PROVE  ServicingRules'
<1>1. \A a \in Aftersales, i \in Items : Servicing!HeldQty(a, i)' = Servicing!HeldQty(a, i)
  BY ServicingSameCase
<1>2. Servicing!OpenAftersales' = Servicing!OpenAftersales BY DEF Servicing!OpenAftersales
<1>3. ServicingAtPrice' BY DEF ServicingRules, ServicingAtPrice
<1>4. ServicingHoldsSomething'
  BY <1>1, <1>2 DEF ServicingRules, ServicingHoldsSomething, Servicing!OpenAftersales
<1>5. ServicingBeforeShipment' /\ ServicingSettled' /\ ServicingKeptOut'
  BY DEF ServicingRules, ServicingBeforeShipment, ServicingSettled, ServicingKeptOut, ServicingUnsent, Servicing!Zero
<1>6. ServicingStockRight' BY DEF ServicingRules, ServicingStockRight, Servicing!PutBack
<1> QED BY <1>3, <1>4, <1>5, <1>6 DEF ServicingRules

--------------------------------
\* Steps of an aftersale.

\* What the rules ask of the aftersale that moves.
ServicingCaseByRules(a) ==
  /\ \A i \in Items : aftersale'[a].amt[i] = Price[i] * aftersale'[a].qty[i]
  /\ aftersale'[a].status \in Servicing!ActiveAftersale => \E i \in Items : Servicing!HeldQty(a, i)' > 0
  /\ aftersale'[a].type # "RETURN_REFUND" => aftersale'[a].approved = Servicing!Zero

LEMMA ServicingCaseMovesKeepsRules ==
  ASSUME ServicingGiven, ServicingBooks, ServicingRules, ServicingBooks', NEW a \in Aftersales,
         ServicingCaseMoves(a), ServicingCaseByRules(a)
  PROVE  ServicingRules'
<1>0. /\ UNCHANGED <<order, refund, executed, earned, paidOut, restocked>>
      /\ \A b \in Aftersales \ {a} : aftersale'[b] = aftersale[b]
      /\ \A i \in Items : ServicingOnlyReserves(i, Servicing!HeldQty(a, i)' - Servicing!HeldQty(a, i), Servicing!HeldAmt(a, i)' - Servicing!HeldAmt(a, i))
      /\ aftersale'[a].status # "COMPLETED" /\ aftersale[a].status # "COMPLETED"
      /\ aftersale' \in [Aftersales -> ServicingCase]
  BY DEF ServicingCaseMoves
<1>1. ServicingAtPrice'
  <2>1. ASSUME NEW i \in Items
        PROVE  /\ item'[i].refAmt = Price[i] * item'[i].refQty
               /\ item'[i].resAmt = Price[i] * item'[i].resQty
    <3>1. /\ item[i].refAmt = Price[i] * item[i].refQty /\ item[i].resAmt = Price[i] * item[i].resQty
          /\ aftersale[a].amt[i] = Price[i] * aftersale[a].qty[i]
      BY DEF ServicingRules, ServicingAtPrice
    <3>2. Servicing!HeldAmt(a, i) = Price[i] * Servicing!HeldQty(a, i)
       /\ Servicing!HeldAmt(a, i)' = Price[i] * Servicing!HeldQty(a, i)'
      BY <3>1, ServicingHeldAtPrice, ServicingHeldAtPriceNext DEF ServicingCaseByRules, ServicingBooks
    <3>3. /\ Price[i] \in Nat /\ item[i].resQty \in Nat /\ Servicing!HeldQty(a, i) \in Nat
              /\ Servicing!HeldAmt(a, i) \in Nat
          /\ item[i].resAmt \in Nat
      BY ServicingAmounts0, ServicingRowTyped, ServicingHeldTyped, ServicingNotBoth DEF ServicingBooks
    <3>4. Servicing!HeldQty(a, i)' \in Nat
      <4>1. aftersale'[a].qty[i] \in Nat /\ aftersale'[a].approved[i] \in Nat
        BY <1>0 DEF ServicingCase, ServicingFields
      <4> QED BY <4>1 DEF Servicing!HeldQty
    <3>5. PICK q \in Nat, p \in Nat, k \in Nat :
            q = item[i].resQty /\ p = Servicing!HeldQty(a, i)' /\ k = Servicing!HeldQty(a, i)
      BY <3>3, <3>4
    <3>6. Price[i] * (q + (p - k)) = Price[i] * q + Price[i] * (p - k)
       /\ Price[i] * (p - k) = Price[i] * p - Price[i] * k
      BY <3>3, ServicingMulAdd
    <3>7. item'[i].resQty = q + (p - k) /\ item'[i].resAmt = Price[i] * q + (Price[i] * p - Price[i] * k)
      BY <1>0, <3>1, <3>2, <3>5 DEF ServicingOnlyReserves
    <3>8. item'[i].refAmt = Price[i] * item'[i].refQty BY <1>0, <3>1 DEF ServicingOnlyReserves
    <3> QED BY <3>6, <3>7, <3>8
  <2>2. ASSUME NEW b \in Aftersales, NEW i \in Items
        PROVE  aftersale'[b].amt[i] = Price[i] * aftersale'[b].qty[i]
    BY <1>0 DEF ServicingCaseByRules, ServicingRules, ServicingAtPrice
  <2>3. order'.refunded = Servicing!SumFunction([i \in Items |-> item'[i].refAmt])
    <3>1. [i \in Items |-> item'[i].refAmt] = [i \in Items |-> item[i].refAmt]
      BY <1>0 DEF ServicingOnlyReserves
    <3> QED BY <1>0, <3>1 DEF ServicingRules, ServicingAtPrice
  <2> QED BY <2>1, <2>2, <2>3 DEF ServicingAtPrice
<1>2. ServicingHoldsSomething'
  <2> SUFFICES ASSUME NEW b \in Aftersales, aftersale'[b].status \in Servicing!ActiveAftersale
               PROVE  \E i \in Items : Servicing!HeldQty(b, i)' > 0
    BY DEF ServicingHoldsSomething, Servicing!OpenAftersales
  <2>1. CASE b = a BY <2>1 DEF ServicingCaseByRules
  <2>2. CASE b # a
    <3>1. aftersale'[b] = aftersale[b] BY <1>0, <2>2
    <3>2. b \in Servicing!OpenAftersales BY <3>1 DEF Servicing!OpenAftersales
    <3>3. \A i \in Items : Servicing!HeldQty(b, i)' = Servicing!HeldQty(b, i)  BY <3>1, ServicingSameCase
    <3> QED BY <3>2, <3>3 DEF ServicingRules, ServicingHoldsSomething
  <2> QED BY <2>1, <2>2
<1>3. \A i \in Items : item'[i].shipped = item[i].shipped BY <1>0 DEF ServicingOnlyReserves
<1>4. ServicingBeforeShipment'  BY <1>0, <1>3 DEF ServicingRules, ServicingBeforeShipment, ServicingUnsent
<1>6. ServicingSettled' BY <1>0 DEF ServicingRules, ServicingSettled, ServicingOnlyReserves
<1>7. ServicingStockRight'
  <2> SUFFICES ASSUME NEW i \in Items
               PROVE  /\ restocked'[i] = item'[i].preQty + Servicing!SumFunction([b \in Aftersales |-> Servicing!PutBack(b, i)'])
                      /\ Servicing!SumFunction([b \in Aftersales |-> Servicing!PutBack(b, i)']) <= item'[i].refQty - item'[i].preQty
    BY DEF ServicingStockRight
  <2>1. \A b \in Aftersales : Servicing!PutBack(b, i)' = Servicing!PutBack(b, i)
    BY <1>0 DEF Servicing!PutBack
  <2>2. [b \in Aftersales |-> Servicing!PutBack(b, i)'] = [b \in Aftersales |-> Servicing!PutBack(b, i)]
    BY <2>1
  <2> QED BY <1>0, <2>2 DEF ServicingRules, ServicingStockRight, ServicingOnlyReserves
<1>8. ServicingKeptOut'  BY <1>0 DEF ServicingRules, ServicingKeptOut, ServicingCaseByRules, Servicing!Zero
<1> QED BY <1>1, <1>2, <1>4, <1>6, <1>7, <1>8 DEF ServicingRules

\* An aftersale that asks for the same as before stays within the rules.
LEMMA ServicingStillByRules ==
  ASSUME ServicingGiven, ServicingBooks, ServicingRules, NEW a \in Aftersales,
         aftersale'[a].type = aftersale[a].type, aftersale'[a].qty = aftersale[a].qty, aftersale'[a].amt = aftersale[a].amt,
         aftersale[a].type # "RETURN_REFUND" => aftersale'[a].approved = aftersale[a].approved,
         aftersale'[a].status \in Servicing!ActiveAftersale =>
           a \in Servicing!OpenAftersales /\ \E i \in Items : Servicing!HeldQty(a, i)' > 0
  PROVE  ServicingCaseByRules(a)
BY DEF ServicingCaseByRules, ServicingRules, ServicingAtPrice, ServicingKeptOut

LEMMA ServicingApplyByRules ==
  ASSUME ServicingGiven, ServicingBooks, ServicingRules, NEW a \in Aftersales,
         NEW type \in {"REFUND_ONLY", "RETURN_REFUND"}, NEW req \in Servicing!Upto(Ordered),
         Servicing!ApplyAftersale(a, type, req)
  PROVE  ServicingCaseByRules(a)
<1> DEFINE amt == [i \in Items |-> IF req[i] > 0 THEN Servicing!Allocated(i, req[i]) ELSE 0]
<1>1. req \in ServicingFields BY ServicingUptoNat, ServicingAmounts0
<1>2. /\ aftersale[a].status = "NONE" /\ Servicing!SumFunction(req) > 0
      /\ aftersale' = [aftersale EXCEPT ![a].status = "PENDING_REVIEW", ![a].type = type, ![a].qty = req, ![a].amt = amt]
  BY DEF Servicing!ApplyAftersale
<1>3. ASSUME NEW i \in Items
      PROVE  amt[i] = Price[i] * req[i]
  <2>1. /\ item[i].refAmt = Price[i] * item[i].refQty /\ item[i].resAmt = Price[i] * item[i].resQty
        /\ Servicing!LinePaid(i) = Price[i] * Ordered[i]
    BY ServicingAmounts0 DEF ServicingRules, ServicingAtPrice
  <2>2. /\ Price[i] \in Nat /\ Ordered[i] \in Nat /\ item[i].refQty \in Nat /\ item[i].resQty \in Nat
            /\ req[i] \in Nat
    BY <1>1, ServicingAmounts0, ServicingRowTyped DEF ServicingBooks, ServicingFields
  <2>3. PICK q \in Nat, m \in Nat, n \in Nat : q = Ordered[i] /\ m = item[i].refQty /\ n = item[i].resQty
    BY <2>2
  <2>4. Price[i] * (q - m) = Price[i] * q - Price[i] * m
     /\ Price[i] * ((q - m) - n) = Price[i] * (q - m) - Price[i] * n
    BY <2>2, ServicingMulAdd
  <2>5. Servicing!RemainingAmt(i) = Price[i] * Servicing!RemainingQty(i)
    BY <2>1, <2>3, <2>4 DEF Servicing!RemainingAmt, Servicing!RemainingQty
  <2>6. Price[i] * 0 = 0 BY <2>2
  <2> QED BY <2>2, <2>5, <2>6 DEF Servicing!Allocated
<1>4. aftersale[a] \in ServicingCase /\ aftersale \in [Aftersales -> ServicingCase]
  BY ServicingCaseTyped DEF ServicingBooks, ServicingTyped
<1> HIDE DEF amt
<1>5. aftersale'[a].status = "PENDING_REVIEW" /\ aftersale'[a].type = type /\ aftersale'[a].qty = req
   /\ aftersale'[a].amt = amt
      /\ aftersale'[a].approved = aftersale[a].approved
  BY <1>2, <1>4 DEF ServicingCase
<1>6. aftersale[a].approved = Servicing!Zero BY <1>2 DEF ServicingBooks, ServicingCaseRight
<1>7. \E i \in Items : Servicing!HeldQty(a, i)' > 0
  <2>1. PICK i \in Items : req[i] > 0 BY <1>1, <1>2, ServicingSomethingInIt
  <2>2. Servicing!HeldQty(a, i)' = req[i]
    BY <1>5 DEF Servicing!HeldQty, Servicing!OpenAftersales, Servicing!ActiveAftersale, Servicing!Inspected
  <2> QED BY <2>1, <2>2
<1> QED BY <1>3, <1>5, <1>6, <1>7 DEF ServicingCaseByRules

LEMMA ServicingCommandByRules ==
  ASSUME ServicingGiven, ServicingBooks, ServicingRules, NEW a \in Aftersales, ServicingCaseCommand(a)
  PROVE  ServicingCaseByRules(a)
<1>c. aftersale[a] \in ServicingCase /\ aftersale \in [Aftersales -> ServicingCase]
  BY ServicingCaseTyped DEF ServicingBooks, ServicingTyped
<1>m. ASSUME NEW from, NEW to, Servicing!Move(a, from, to)
      PROVE  /\ aftersale[a].status = from /\ aftersale'[a].status = to /\ aftersale'[a].type = aftersale[a].type
             /\ aftersale'[a].qty = aftersale[a].qty /\ aftersale'[a].amt = aftersale[a].amt
             /\ aftersale'[a].approved = aftersale[a].approved
  BY <1>c, <1>m DEF Servicing!Move, ServicingCase
<1>1. ASSUME NEW type \in {"REFUND_ONLY", "RETURN_REFUND"}, NEW req \in Servicing!Upto(Ordered),
             Servicing!ApplyAftersale(a, type, req)
      PROVE  ServicingCaseByRules(a)
  BY <1>1, ServicingApplyByRules
<1>2. CASE Servicing!CancelAftersale(a) \/ Servicing!RejectAftersale(a) \/ Servicing!RejectAfterReturn(a)
  <2>1. \E to \in {"CANCELLED", "REJECTED", "REJECTED_AFTER_RETURN"} : Servicing!Move(a, aftersale[a].status, to)
    BY <1>2 DEF Servicing!CancelAftersale, Servicing!RejectAftersale, Servicing!RejectAfterReturn, Servicing!Move
  <2>2. PICK to \in {"CANCELLED", "REJECTED", "REJECTED_AFTER_RETURN"} : Servicing!Move(a, aftersale[a].status, to)
    BY <2>1
  <2>3. aftersale'[a].status \notin Servicing!ActiveAftersale  BY <1>m, <2>2 DEF Servicing!ActiveAftersale
  <2> QED BY <1>m, <2>2, <2>3, ServicingStillByRules
<1>3. CASE Servicing!SubmitReturnShipment(a) \/ Servicing!ApproveAftersale(a)
  <2>1. \E from \in {"WAITING_RETURN", "PENDING_REVIEW"}, to \in {"WAITING_RECEIPT", "REFUNDING", "WAITING_RETURN"} : Servicing!Move(a, from, to)
    BY <1>3 DEF Servicing!SubmitReturnShipment, Servicing!ApproveAftersale
  <2>2. PICK from \in {"WAITING_RETURN", "PENDING_REVIEW"}, to \in {"WAITING_RECEIPT", "REFUNDING", "WAITING_RETURN"} : Servicing!Move(a, from, to)
    BY <2>1
  <2>3. a \in Servicing!OpenAftersales /\ \A i \in Items : Servicing!HeldQty(a, i)' = Servicing!HeldQty(a, i)
    BY <1>m, <2>2 DEF Servicing!OpenAftersales, Servicing!ActiveAftersale, Servicing!HeldQty, Servicing!Inspected
  <2>4. \E i \in Items : Servicing!HeldQty(a, i)' > 0  BY <2>3 DEF ServicingRules, ServicingHoldsSomething
  <2> QED BY <1>m, <2>2, <2>3, <2>4, ServicingStillByRules
<1>4. ASSUME NEW approved \in Servicing!Upto(aftersale[a].qty), NEW restock \in Servicing!Upto(approved),
             Servicing!RecordInspection(a, approved, restock)
      PROVE  ServicingCaseByRules(a)
  <2> DEFINE to == IF approved = aftersale[a].qty THEN "REFUNDING_AFTER_RETURN" ELSE "RETURN_EXCEPTION"
  <2>1. /\ aftersale[a].status = "WAITING_RECEIPT"
        /\ aftersale' = [aftersale EXCEPT ![a].status = to, ![a].approved = approved, ![a].restock = restock]
        /\ to = "RETURN_EXCEPTION" \/ (to = "REFUNDING_AFTER_RETURN" /\ approved = aftersale[a].qty)
    BY <1>4 DEF Servicing!RecordInspection
  <2> HIDE DEF to
  <2>2. aftersale'[a].status = to /\ aftersale'[a].type = aftersale[a].type
        /\ aftersale'[a].qty = aftersale[a].qty /\ aftersale'[a].amt = aftersale[a].amt
            /\ aftersale'[a].approved = approved
    BY <1>c, <2>1 DEF ServicingCase
  <2>3. a \in Servicing!OpenAftersales /\ aftersale[a].type = "RETURN_REFUND"
    BY <2>1 DEF Servicing!OpenAftersales, Servicing!ActiveAftersale, ServicingBooks, ServicingCaseRight
  <2>4. \A i \in Items : Servicing!HeldQty(a, i)' = Servicing!HeldQty(a, i)
    <3> SUFFICES ASSUME NEW i \in Items PROVE Servicing!HeldQty(a, i)' = Servicing!HeldQty(a, i)
      OBVIOUS
    <3>1. Servicing!HeldQty(a, i) = aftersale[a].qty[i]
      BY <2>1, <2>3 DEF Servicing!HeldQty, Servicing!Inspected
    <3>2. Servicing!HeldQty(a, i)' = aftersale[a].qty[i]
      BY <2>1, <2>2, <2>3 DEF Servicing!HeldQty, Servicing!Inspected, Servicing!OpenAftersales,
         Servicing!ActiveAftersale
    <3> QED BY <3>1, <3>2
  <2>5. \E i \in Items : Servicing!HeldQty(a, i)' > 0
    BY <2>3, <2>4 DEF ServicingRules, ServicingHoldsSomething
  <2> QED BY <2>2, <2>3, <2>5, ServicingStillByRules
<1>5. CASE Servicing!ContinueRefund(a)
  <2>1. Servicing!Move(a, "RETURN_EXCEPTION", "REFUNDING_AFTER_RETURN")
     /\ Servicing!SumFunction(aftersale[a].approved) > 0
    BY <1>5 DEF Servicing!ContinueRefund
  <2>2. a \in Servicing!OpenAftersales /\ aftersale[a].type = "RETURN_REFUND"
     /\ aftersale[a].approved \in ServicingFields
    BY <1>c, <1>m, <2>1 DEF Servicing!OpenAftersales, Servicing!ActiveAftersale, ServicingBooks,
       ServicingCaseRight, ServicingCase
  <2>3. PICK i \in Items : aftersale[a].approved[i] > 0 BY <2>1, <2>2, ServicingSomethingInIt
  <2>4. Servicing!HeldQty(a, i)' = aftersale[a].approved[i]
    BY <1>m, <2>1, <2>2 DEF Servicing!HeldQty, Servicing!Inspected, Servicing!OpenAftersales,
       Servicing!ActiveAftersale
  <2>5. \E j \in Items : Servicing!HeldQty(a, j)' > 0 BY <2>3, <2>4
  <2> QED BY <1>m, <2>1, <2>2, <2>5, ServicingStillByRules
<1> QED BY <1>1, <1>2, <1>3, <1>4, <1>5 DEF ServicingCaseCommand, Servicing!CustomerStep

--------------------------------
\* Steps of a refund under way, and of the order.

LEMMA ServicingRefundMovesKeepsRules ==
  ASSUME ServicingGiven, ServicingBooks, ServicingRules, NEW s \in Servicing!Sources, ServicingRefundMoves(s)
  PROVE  ServicingRules'
<1>0. /\ \A b \in Aftersales : b # s => aftersale'[b] = aftersale[b]
      /\ \A b \in Aftersales : /\ aftersale'[b].qty = aftersale[b].qty /\ aftersale'[b].amt = aftersale[b].amt
                               /\ aftersale'[b].approved = aftersale[b].approved
                               /\ aftersale'[b].restock = aftersale[b].restock
                               /\ aftersale'[b].type = aftersale[b].type
      /\ s \in Aftersales => aftersale'[s].status \in {aftersale[s].status, "REFUND_FAILED"}
      /\ order'.refunded = order.refunded /\ order'.status = order.status
      /\ UNCHANGED <<item, earned, paidOut, restocked>>
  BY ServicingRefundMovesSame DEF ServicingRefundMoves
<1>1. ASSUME NEW b \in Aftersales
      PROVE  /\ (b \in Servicing!OpenAftersales)' = (b \in Servicing!OpenAftersales)
             /\ \A i \in Items : Servicing!HeldQty(b, i)' = Servicing!HeldQty(b, i)
                 /\ Servicing!PutBack(b, i)' = Servicing!PutBack(b, i)
  <2>1. CASE b # s
    <3>1. aftersale'[b] = aftersale[b] BY <1>0, <2>1
    <3> QED BY <3>1, ServicingSameCase DEF Servicing!OpenAftersales
  <2>2. CASE b = s
    <3>1. /\ b \in Servicing!OpenAftersales
          /\ Servicing!ReadyToRefund(b) \/ (aftersale[b].status = "REFUND_FAILED" /\ aftersale[b].type # "NONE")
      BY <2>2, ServicingRefundHolds DEF ServicingBooks, ServicingRefundMoves, ServicingRefundOf
    <3>2. aftersale'[b].status \in {aftersale[b].status, "REFUND_FAILED"} BY <1>0, <2>2
    <3>3. (b \in Servicing!OpenAftersales)' /\ aftersale'[b].status # "COMPLETED"
       /\ aftersale[b].status # "COMPLETED"
      BY <3>1, <3>2 DEF Servicing!OpenAftersales, Servicing!ActiveAftersale
    <3>4. Servicing!Inspected(b)' = Servicing!Inspected(b)
      BY <1>0, <3>1, <3>2 DEF Servicing!Inspected, Servicing!ReadyToRefund
    <3> QED BY <1>0, <3>1, <3>3, <3>4 DEF Servicing!HeldQty, Servicing!PutBack
  <2> QED BY <2>1, <2>2
<1>2. ServicingAtPrice' BY <1>0 DEF ServicingRules, ServicingAtPrice
<1>3. ServicingHoldsSomething'
  <2> SUFFICES ASSUME NEW b \in Aftersales, (b \in Servicing!OpenAftersales)'
               PROVE  \E i \in Items : Servicing!HeldQty(b, i)' > 0
    BY DEF ServicingHoldsSomething, Servicing!OpenAftersales
  <2>1. b \in Servicing!OpenAftersales /\ \A i \in Items : Servicing!HeldQty(b, i)' = Servicing!HeldQty(b, i)
    BY <1>1
  <2> QED BY <2>1 DEF ServicingRules, ServicingHoldsSomething
<1>5. ServicingBeforeShipment' BY <1>0 DEF ServicingRules, ServicingBeforeShipment, ServicingUnsent
<1>7. ServicingSettled' /\ ServicingKeptOut'
  BY <1>0 DEF ServicingRules, ServicingSettled, ServicingKeptOut, Servicing!Zero
<1>8. ServicingStockRight'
  <2> SUFFICES ASSUME NEW i \in Items
               PROVE  /\ restocked'[i] = item'[i].preQty + Servicing!SumFunction([b \in Aftersales |-> Servicing!PutBack(b, i)'])
                      /\ Servicing!SumFunction([b \in Aftersales |-> Servicing!PutBack(b, i)']) <= item'[i].refQty - item'[i].preQty
    BY DEF ServicingStockRight
  <2>1. [b \in Aftersales |-> Servicing!PutBack(b, i)'] = [b \in Aftersales |-> Servicing!PutBack(b, i)]
    BY <1>1
  <2> QED BY <1>0, <2>1 DEF ServicingRules, ServicingStockRight
<1> QED BY <1>2, <1>3, <1>5, <1>7, <1>8 DEF ServicingRules

LEMMA ServicingCompletionKeepsRules ==
  ASSUME ServicingGiven, ServicingBooks, ServicingRules, Servicing!CompleteOrder
  PROVE  ServicingRules'
<1>1. order'.status = "COMPLETED" /\ order'.refunded = order.refunded /\ order.status = "SHIPPING"
      /\ UNCHANGED <<item, aftersale, refund, executed, restocked>>
  BY ServicingCompletionKeepsBooks DEF Servicing!CompleteOrder
<1>2. \A a \in Aftersales, i \in Items : Servicing!HeldQty(a, i)' = Servicing!HeldQty(a, i)
  BY <1>1, ServicingSameCase
<1>3. Servicing!OpenAftersales' = Servicing!OpenAftersales BY <1>1 DEF Servicing!OpenAftersales
<1>4. ServicingAtPrice' /\ ServicingKeptOut'
  BY <1>1 DEF ServicingRules, ServicingAtPrice, ServicingKeptOut, Servicing!Zero
<1>5. ServicingHoldsSomething'
  BY <1>2, <1>3 DEF ServicingRules, ServicingHoldsSomething, Servicing!OpenAftersales
<1>6. ServicingBeforeShipment' /\ ServicingSettled'
  BY <1>1 DEF ServicingRules, ServicingBeforeShipment, ServicingSettled, ServicingUnsent
<1>7. ServicingStockRight' BY <1>1 DEF ServicingRules, ServicingStockRight, Servicing!PutBack
<1> QED BY <1>4, <1>5, <1>6, <1>7 DEF ServicingRules

LEMMA ServicingShipmentKeepsRules ==
  ASSUME ServicingGiven, ServicingBooks, ServicingRules, Servicing!CreateShipment
  PROVE  ServicingRules'
<1>1. /\ \A i \in Items : ServicingLineShipped(i)
      /\ order.status = "PENDING_SHIPMENT" /\ order'.status = "SHIPPING"
      /\ order'.refunded = order.refunded /\ Servicing!OpenAftersales = {}
      /\ \E i \in Items : Servicing!Shippable(i) > 0
      /\ UNCHANGED <<aftersale, refund, executed, earned, paidOut, restocked>>
  BY ServicingLinesShipped DEF ServicingBooks
<1>2. \A i \in Items : item[i].shipped = 0
  BY <1>1 DEF ServicingRules, ServicingBeforeShipment, ServicingUnsent
<1>3. \E i \in Items : item'[i].shipped > 0
  <2>1. PICK i \in Items : Servicing!Shippable(i) > 0 BY <1>1
  <2>2. Ordered[i] \in Nat /\ item[i].preQty \in Nat
    BY ServicingRowTyped, ServicingAmounts0 DEF ServicingBooks
  <2> QED BY <1>1, <1>2, <2>1, <2>2 DEF ServicingLineShipped, Servicing!Shippable
<1>4. ServicingAtPrice'
  <2>1. [i \in Items |-> item'[i].refAmt] = [i \in Items |-> item[i].refAmt]  BY <1>1 DEF ServicingLineShipped
  <2> QED BY <1>1, <2>1 DEF ServicingRules, ServicingAtPrice, ServicingLineShipped
<1>5. Servicing!OpenAftersales' = {} BY <1>1 DEF Servicing!OpenAftersales
<1>6. ServicingHoldsSomething' /\ ServicingBeforeShipment' /\ ServicingSettled' /\ ServicingKeptOut'
  BY <1>1, <1>3, <1>5 DEF ServicingRules, ServicingHoldsSomething, ServicingBeforeShipment, ServicingSettled,
     ServicingKeptOut, ServicingUnsent, Servicing!Zero
<1>8. ServicingStockRight'
  <2> SUFFICES ASSUME NEW i \in Items
               PROVE  /\ restocked'[i] = item'[i].preQty + Servicing!SumFunction([b \in Aftersales |-> Servicing!PutBack(b, i)'])
                      /\ Servicing!SumFunction([b \in Aftersales |-> Servicing!PutBack(b, i)']) <= item'[i].refQty - item'[i].preQty
    BY DEF ServicingStockRight
  <2>1. [b \in Aftersales |-> Servicing!PutBack(b, i)'] = [b \in Aftersales |-> Servicing!PutBack(b, i)]
    BY <1>1 DEF Servicing!PutBack
  <2> QED BY <1>1, <2>1 DEF ServicingRules, ServicingStockRight, ServicingLineShipped
<1> QED BY <1>4, <1>6, <1>8 DEF ServicingRules

--------------------------------
\* The success of a refund keeps the rules.

\* What is refunded is held, at its price.
LEMMA ServicingSuccessAtPrice ==
  ASSUME ServicingGiven, ServicingBooks, ServicingRules, NEW a \in Aftersales,
         refund[a].status \in Servicing!ActiveRefund, NEW i \in Items
  PROVE  /\ refund[a].qty[i] \in Nat /\ refund[a].amt[i] \in Nat
         /\ refund[a].amt[i] = Price[i] * refund[a].qty[i]
         /\ refund[a].qty[i] <= item[i].resQty /\ refund[a].amt[i] <= item[i].resAmt
<1>1. refund[a].qty[i] = Servicing!HeldQty(a, i) /\ refund[a].amt[i] = Servicing!HeldAmt(a, i)
  BY ServicingRefundHolds DEF ServicingBooks
<1>2. Servicing!HeldAmt(a, i) = Price[i] * Servicing!HeldQty(a, i)
  BY ServicingHeldAtPrice DEF ServicingBooks, ServicingRules, ServicingAtPrice
<1> QED BY <1>1, <1>2, ServicingPartOfHeld, ServicingHeldTyped, ServicingNotBoth DEF ServicingBooks

\* A refund without return puts nothing back besides its own units, one after
\* return no more than them.
LEMMA ServicingRefundByType ==
  ASSUME ServicingGiven, ServicingBooks, ServicingRules, NEW a \in Aftersales,
         refund[a].status \in Servicing!ActiveRefund
  PROVE  \/ /\ Servicing!AutoRestock(a) /\ aftersale[a].type = "REFUND_ONLY"
            /\ \A i \in Items : aftersale[a].restock[i] = 0
         \/ /\ ~Servicing!AutoRestock(a) /\ aftersale[a].type = "RETURN_REFUND"
            /\ \A i \in Items : aftersale[a].restock[i] <= refund[a].qty[i]
<1>1. /\ aftersale[a].type \in {"REFUND_ONLY", "RETURN_REFUND"}
      /\ \A i \in Items : refund[a].qty[i] = Servicing!RefundQty(a, i)
  BY ServicingRefundHolds DEF ServicingBooks
<1>3. \A i \in Items : aftersale[a].restock[i] <= aftersale[a].approved[i] /\ aftersale[a].restock[i] \in Nat
  BY ServicingCaseTyped DEF ServicingBooks, ServicingCaseRight
<1>4. CASE aftersale[a].type = "REFUND_ONLY"
  <2>2. aftersale[a].approved = Servicing!Zero BY <1>4 DEF ServicingRules, ServicingKeptOut
  <2>3. \A i \in Items : aftersale[a].restock[i] = 0
    <3> SUFFICES ASSUME NEW i \in Items PROVE aftersale[a].restock[i] = 0
      OBVIOUS
    <3>1. aftersale[a].approved[i] = 0 BY <2>2 DEF Servicing!Zero
    <3> QED BY <1>3, <3>1
  <2> QED BY <1>4, <2>3 DEF Servicing!AutoRestock
<1>5. CASE aftersale[a].type = "RETURN_REFUND"
  <2>2. \A i \in Items : refund[a].qty[i] = aftersale[a].approved[i]  BY <1>1, <1>5 DEF Servicing!RefundQty
  <2> QED BY <1>3, <1>5, <2>2 DEF Servicing!AutoRestock
<1> QED BY <1>1, <1>4, <1>5

LEMMA ServicingSuccessLines ==
  ASSUME ServicingGiven, ServicingBooks, ServicingRules, NEW a \in Aftersales, Servicing!RecordSuccess(a)
  PROVE  /\ \A i \in Items : /\ ServicingLineRefunded(a, i)
                             /\ item'[i].refAmt = Price[i] * item'[i].refQty
                             /\ item'[i].resAmt = Price[i] * item'[i].resQty
         /\ order'.refunded = Servicing!SumFunction([i \in Items |-> item'[i].refAmt])
<1>t. ServicingTyped /\ a \in Servicing!Sources /\ refund[a].status \in Servicing!ActiveRefund
   /\ ServicingLinesRight
  BY ServicingNotBoth, ServicingSuccessRows DEF ServicingBooks
<1>1. \A i \in Items : ServicingLineRefunded(a, i)
  BY <1>t, ServicingLinesRefunded DEF Servicing!RecordSuccess
<1>2. ASSUME NEW i \in Items
      PROVE  /\ item'[i].refAmt = Price[i] * item'[i].refQty
             /\ item'[i].resAmt = Price[i] * item'[i].resQty
  <2>1. /\ refund[a].qty[i] \in Nat /\ refund[a].amt[i] = Price[i] * refund[a].qty[i]
    BY <1>t, ServicingSuccessAtPrice
  <2>2. /\ item[i].refAmt = Price[i] * item[i].refQty /\ item[i].resAmt = Price[i] * item[i].resQty
    BY DEF ServicingRules, ServicingAtPrice
  <2>3. Price[i] \in Nat /\ item[i].refQty \in Nat /\ item[i].resQty \in Nat
    BY <1>t, ServicingRowTyped, ServicingAmounts0
  <2>4. PICK q \in Nat, m \in Nat, n \in Nat : q = refund[a].qty[i] /\ m = item[i].refQty /\ n = item[i].resQty
    BY <2>1, <2>3
  <2>5. Price[i] * (m + q) = Price[i] * m + Price[i] * q /\ Price[i] * (n - q) = Price[i] * n - Price[i] * q
    BY <2>3, ServicingMulAdd
  <2> QED BY <1>1, <2>1, <2>2, <2>4, <2>5 DEF ServicingLineRefunded
<1>3. order'.refunded = Servicing!SumFunction([i \in Items |-> item'[i].refAmt])
  <2> DEFINE f == [i \in Items |-> item[i].refAmt]
             g == refund[a].amt
             h == [i \in Items |-> item'[i].refAmt]
  <2>1. /\ DOMAIN f = Items /\ DOMAIN h = Items /\ DOMAIN g = Items
        /\ \A i \in Items : f[i] \in Int /\ g[i] \in Int /\ h[i] = f[i] + g[i]
    <3>1. DOMAIN g = Items BY <1>t, ServicingMoneyTyped DEF ServicingMoney, ServicingFields
    <3> QED BY <1>1, <1>t, <3>1, ServicingRowTyped, ServicingMoneyTyped DEF ServicingLineRefunded
  <2>2. order.refunded = Servicing!SumFunction(f) /\ order'.refunded = order.refunded + Servicing!SumFunction(g)
    BY <1>t, ServicingOrderRecorded DEF ServicingRules, ServicingAtPrice
  <2> HIDE DEF f, g, h
  <2>3. Servicing!SumFunction(h) = Servicing!SumFunction(f) + Servicing!SumFunction(g)
    BY <2>1, ServicingFinite, ServicingTotalPlus
  <2> QED BY <2>2, <2>3 DEF h
<1> QED BY <1>1, <1>2, <1>3

LEMMA ServicingSuccessStatus ==
  ASSUME ServicingGiven, ServicingBooks, ServicingRules, NEW a \in Aftersales, Servicing!RecordSuccess(a),
         \A i \in Items : ServicingLineRefunded(a, i)
  PROVE  /\ order'.status \in {order.status, "COMPLETED", "CLOSED"} /\ order.status # "CLOSED"
         /\ order'.status = "CLOSED" => \A i \in Items : item'[i].shipped = 0 /\ item'[i].preQty = Ordered[i]
<1>t. ServicingTyped /\ a \in Servicing!Sources /\ refund[a].status \in Servicing!ActiveRefund
  BY ServicingNotBoth, ServicingSuccessRows DEF ServicingBooks
<1> DEFINE rows == Servicing!RefundedRows(a)
           unitsFull == \A i \in Items : rows[i].refQty = Ordered[i]
           neverLeft == unitsFull /\ \A i \in Items : rows[i].shipped = 0 /\ rows[i].preQty = Ordered[i]
<1>1. item' = rows BY DEF Servicing!RecordSuccess, Servicing!Store
<1>2. \E full \in BOOLEAN :
        order'.status = IF full /\ neverLeft THEN "CLOSED"
                        ELSE IF full /\ unitsFull THEN "COMPLETED" ELSE order.status
  <2>1. order \in ServicingEnvelope /\ order' = Servicing!RecordedOrder(a)
    BY <1>t DEF ServicingTyped, Servicing!RecordSuccess
  <2>2. PICK full \in BOOLEAN : full = (order.refunded + Servicing!SumFunction(refund[a].amt) = Servicing!Paid)
    OBVIOUS
  <2>3. order'.status = IF full /\ neverLeft THEN "CLOSED"
                        ELSE IF full /\ unitsFull THEN "COMPLETED" ELSE order.status
    BY <2>1, <2>2 DEF Servicing!RecordedOrder, ServicingEnvelope
  <2> QED BY <2>3
<1>3. neverLeft <=> unitsFull /\ \A i \in Items : item'[i].shipped = 0 /\ item'[i].preQty = Ordered[i]
  BY <1>1
<1> HIDE DEF rows, unitsFull, neverLeft
<1>4. order.status # "CLOSED"
  <2>1. a \in Servicing!OpenAftersales BY <1>t, ServicingRefundHolds DEF ServicingBooks
  <2> QED BY <2>1, ServicingClosedIsDone
<1> QED BY <1>2, <1>3, <1>4

LEMMA ServicingSuccessStock ==
  ASSUME ServicingGiven, ServicingBooks, ServicingRules, ServicingBooks', NEW a \in Aftersales,
         Servicing!RecordSuccess(a), \A i \in Items : ServicingLineRefunded(a, i)
  PROVE  ServicingStockRight'
<1>t. ServicingTyped /\ ServicingTyped' /\ a \in Servicing!Sources /\ refund[a].status \in Servicing!ActiveRefund
   /\ a \notin Compensations
  BY ServicingNotBoth, ServicingSuccessRows DEF ServicingBooks
<1>1. /\ \A b \in Aftersales : b # a => aftersale'[b] = aftersale[b]
      /\ aftersale'[a].status = "COMPLETED" /\ aftersale'[a].restock = aftersale[a].restock
  BY <1>t, ServicingSuccessRows
<1> SUFFICES ASSUME NEW i \in Items
             PROVE  /\ restocked'[i] = item'[i].preQty + Servicing!SumFunction([b \in Aftersales |-> Servicing!PutBack(b, i)'])
                    /\ Servicing!SumFunction([b \in Aftersales |-> Servicing!PutBack(b, i)']) <= item'[i].refQty - item'[i].preQty
  BY DEF ServicingStockRight
<1> DEFINE f == [b \in Aftersales |-> Servicing!PutBack(b, i)]
           g == [b \in Aftersales |-> Servicing!PutBack(b, i)']
<1>2. DOMAIN f = Aftersales /\ DOMAIN g = Aftersales /\ \A b \in Aftersales : f[b] \in Nat /\ g[b] \in Nat
  <2>1. \A b \in Aftersales : (aftersale'[b].restock)[i] \in Nat
    BY <1>t DEF ServicingTyped, ServicingCase, ServicingFields
  <2> QED BY <1>t, <2>1, ServicingPutBackTyped DEF Servicing!PutBack
<1>3. \A b \in Aftersales \ {a} : f[b] = g[b] BY <1>1 DEF Servicing!PutBack
<1>4. f[a] = 0 /\ g[a] = aftersale[a].restock[i]
  <2>1. aftersale[a].status # "COMPLETED"
    BY <1>t, ServicingRefundHolds DEF ServicingBooks, Servicing!OpenAftersales, Servicing!ActiveAftersale
  <2> QED BY <1>1, <2>1 DEF Servicing!PutBack
<1>5. restocked[i] = item[i].preQty + Servicing!SumFunction(f)
   /\ Servicing!SumFunction(f) <= item[i].refQty - item[i].preQty
  BY DEF ServicingRules, ServicingStockRight
<1> HIDE DEF f, g
<1>6. Servicing!SumFunction(g) = Servicing!SumFunction(f) + g[a] - f[a] /\ Servicing!SumFunction(f) \in Nat
  BY <1>2, <1>3, ServicingFinite, ServicingTotalUpdate, ServicingTotalNat
<1>7. restocked'[i] = restocked[i] +
        (IF Servicing!AutoRestock(a) THEN refund[a].qty[i]
         ELSE IF refund[a].qty[i] > 0 THEN aftersale[a].restock[i] ELSE 0)
  BY <1>t DEF Servicing!RecordSuccess, Servicing!Restock
<1>8. /\ item'[i].preQty = item[i].preQty + (IF Servicing!AutoRestock(a) THEN refund[a].qty[i] ELSE 0)
      /\ item'[i].refQty = item[i].refQty + refund[a].qty[i]
  BY DEF ServicingLineRefunded, ServicingBack
<1>9. /\ refund[a].qty[i] \in Nat /\ aftersale[a].restock[i] \in Nat
      /\ item[i].preQty \in Nat /\ item[i].refQty \in Nat /\ restocked[i] \in Nat
  BY <1>t, ServicingCaseTyped, ServicingMoneyTyped, ServicingRowTyped
<1>10. CASE Servicing!AutoRestock(a)
  <2>1. aftersale[a].restock[i] = 0 BY <1>t, <1>10, ServicingRefundByType
  <2>2. Servicing!SumFunction(g) = Servicing!SumFunction(f) BY <1>4, <1>6, <2>1
  <2> QED BY <1>5, <1>6, <1>7, <1>8, <1>9, <1>10, <2>2 DEF g
<1>11. CASE ~Servicing!AutoRestock(a)
  <2>1. aftersale[a].restock[i] <= refund[a].qty[i] BY <1>t, <1>11, ServicingRefundByType
  <2>2. restocked'[i] = restocked[i] + aftersale[a].restock[i] BY <1>7, <1>9, <1>11, <2>1
  <2>3. Servicing!SumFunction(g) = Servicing!SumFunction(f) + aftersale[a].restock[i]  BY <1>4, <1>6, <1>9
  <2> QED BY <1>5, <1>6, <1>8, <1>9, <1>11, <2>1, <2>2, <2>3 DEF g
<1> QED BY <1>10, <1>11

LEMMA ServicingSuccessKeepsRules ==
  ASSUME ServicingGiven, ServicingBooks, ServicingRules, ServicingBooks', NEW a \in Aftersales,
         Servicing!RecordSuccess(a)
  PROVE  ServicingRules'
<1>t. ServicingTyped /\ a \in Servicing!Sources /\ refund[a].status \in Servicing!ActiveRefund
  BY ServicingNotBoth, ServicingSuccessRows DEF ServicingBooks
<1>1. /\ \A b \in Aftersales : b # a => aftersale'[b] = aftersale[b]
      /\ aftersale'[a].status = "COMPLETED" /\ aftersale'[a].type = aftersale[a].type
      /\ aftersale'[a].qty = aftersale[a].qty /\ aftersale'[a].amt = aftersale[a].amt
      /\ aftersale'[a].approved = aftersale[a].approved
  BY <1>t, ServicingSuccessRows
<1>2. /\ \A i \in Items : /\ ServicingLineRefunded(a, i)
                          /\ item'[i].refAmt = Price[i] * item'[i].refQty
                          /\ item'[i].resAmt = Price[i] * item'[i].resQty
      /\ order'.refunded = Servicing!SumFunction([i \in Items |-> item'[i].refAmt])
  BY ServicingSuccessLines
<1>3. /\ order'.status \in {order.status, "COMPLETED", "CLOSED"} /\ order.status # "CLOSED"
      /\ order'.status = "CLOSED" => \A i \in Items : item'[i].shipped = 0 /\ item'[i].preQty = Ordered[i]
  BY <1>2, ServicingSuccessStatus
<1>4. ServicingAtPrice'
  <2>1. ASSUME NEW b \in Aftersales, NEW i \in Items
        PROVE  aftersale'[b].amt[i] = Price[i] * aftersale'[b].qty[i]
    <3>1. aftersale'[b].amt = aftersale[b].amt /\ aftersale'[b].qty = aftersale[b].qty BY <1>1
    <3> QED BY <3>1 DEF ServicingRules, ServicingAtPrice
  <2> QED BY <1>2, <2>1 DEF ServicingAtPrice
<1>5. ASSUME NEW b \in Aftersales, aftersale'[b].status \in Servicing!ActiveAftersale
      PROVE  b \in Servicing!OpenAftersales /\ b # a /\ aftersale'[b] = aftersale[b]
  BY <1>1, <1>5 DEF Servicing!OpenAftersales, Servicing!ActiveAftersale
<1>6. ServicingHoldsSomething'
  <2> SUFFICES ASSUME NEW b \in Aftersales, aftersale'[b].status \in Servicing!ActiveAftersale
               PROVE  \E i \in Items : Servicing!HeldQty(b, i)' > 0
    BY DEF ServicingHoldsSomething, Servicing!OpenAftersales
  <2>1. \A i \in Items : Servicing!HeldQty(b, i)' = Servicing!HeldQty(b, i)  BY <1>5, ServicingSameCase
  <2> QED BY <1>5, <2>1 DEF ServicingRules, ServicingHoldsSomething
<1>7. \A b \in Aftersales : aftersale'[b].type = aftersale[b].type
   /\ aftersale'[b].approved = aftersale[b].approved
  BY <1>1
<1>8. ServicingBeforeShipment'
  <2>1. \A i \in Items : item'[i].shipped = item[i].shipped BY <1>2 DEF ServicingLineRefunded
  <2>2. ASSUME NEW i \in Items, earned'[i].state = "AVAILABLE"
        PROVE  earned[i].state = "AVAILABLE"
    <3>1. earned'[i] = IF refund[a].reversal[i] = 0 THEN earned[i]
            ELSE IF earned[i].state = "AVAILABLE" THEN [earned[i] EXCEPT !.reversed = @ + refund[a].reversal[i]]
            ELSE [state |-> IF refund[a].reversal[i] = earned[i].expected THEN "CANCELLED" ELSE "EXPECTED",
                  expected |-> earned[i].expected - refund[a].reversal[i],
                  reversed |-> earned[i].reversed + refund[a].reversal[i]]
      BY DEF Servicing!RecordSuccess, Servicing!Reverse
    <3> QED BY <2>2, <3>1
  <2> QED BY <1>3, <2>1, <2>2 DEF ServicingRules, ServicingBeforeShipment, ServicingUnsent
<1>9. ServicingSettled' BY <1>3 DEF ServicingSettled
<1>10. ServicingStockRight' BY <1>2, ServicingSuccessStock
<1>11. ServicingKeptOut' BY <1>7 DEF ServicingRules, ServicingKeptOut, Servicing!Zero
<1> QED BY <1>4, <1>6, <1>8, <1>9, <1>10, <1>11 DEF ServicingRules

--------------------------------
\* The rules hold from the first step to the last.

LEMMA ServicingRulesOpen ==
  ASSUME ServicingGiven, Servicing!Init
  PROVE  ServicingRules
<1>0. \A i \in Items : Servicing!Zero[i] = 0 BY DEF Servicing!Zero
<1>1. \A i \in Items : /\ item[i].refQty = 0 /\ item[i].preQty = 0 /\ item[i].resQty = 0 /\ item[i].refAmt = 0
                       /\ item[i].resAmt = 0 /\ item[i].shipped = 0 /\ restocked[i] = 0
                       /\ earned[i].state # "AVAILABLE"
  BY <1>0 DEF Servicing!Init
<1>2. \A a \in Aftersales : /\ aftersale[a].status = "NONE" /\ aftersale[a].type = "NONE"
                                /\ aftersale[a].qty = Servicing!Zero
                            /\ aftersale[a].amt = Servicing!Zero /\ aftersale[a].approved = Servicing!Zero
  BY DEF Servicing!Init
<1>3. order.status = "PENDING_SHIPMENT" /\ order.refunded = 0 BY DEF Servicing!Init
<1>4. ServicingAtPrice
  <2> DEFINE f == [i \in Items |-> item[i].refAmt]
  <2>1. DOMAIN f = Items /\ \A i \in Items : f[i] = 0 BY <1>1
  <2> HIDE DEF f
  <2>2. Servicing!SumFunction(f) = 0 BY <2>1, ServicingFinite, ServicingTotalZero
  <2>3. \A i \in Items : Price[i] * 0 = 0 BY ServicingAmounts0
  <2>4. \A a \in Aftersales : \A i \in Items : aftersale[a].amt[i] = Price[i] * aftersale[a].qty[i]
    BY <1>0, <1>2, <2>3
  <2> QED BY <1>1, <1>3, <2>2, <2>3, <2>4 DEF ServicingAtPrice, f
<1>5. Servicing!OpenAftersales = {} BY <1>2 DEF Servicing!OpenAftersales, Servicing!ActiveAftersale
<1>6. ServicingStockRight
  <2> SUFFICES ASSUME NEW i \in Items
               PROVE  /\ restocked[i] = item[i].preQty + Servicing!SumFunction([a \in Aftersales |-> Servicing!PutBack(a, i)])
                      /\ Servicing!SumFunction([a \in Aftersales |-> Servicing!PutBack(a, i)]) <= item[i].refQty - item[i].preQty
    BY DEF ServicingStockRight
  <2> DEFINE f == [a \in Aftersales |-> Servicing!PutBack(a, i)]
  <2>1. DOMAIN f = Aftersales /\ \A a \in Aftersales : f[a] = 0 BY <1>2 DEF Servicing!PutBack
  <2> HIDE DEF f
  <2>2. Servicing!SumFunction(f) = 0 BY <2>1, ServicingFinite, ServicingTotalZero
  <2> QED BY <1>1, <2>2 DEF f
<1> QED BY <1>1, <1>2, <1>3, <1>4, <1>5, <1>6 DEF ServicingRules, ServicingHoldsSomething,
   ServicingBeforeShipment, ServicingUnsent, ServicingSettled, ServicingKeptOut

LEMMA ServicingNextKeepsRules ==
  ASSUME ServicingGiven, ServicingBooks, ServicingRules, ServicingNoCompensation, ServicingBooks',
         ServicingNoCompensation', Servicing!Next
  PROVE  ServicingRules'
<1>t. ServicingTyped BY DEF ServicingBooks
<1>1. ASSUME NEW a \in Aftersales, ServicingCaseCommand(a) PROVE ServicingRules'
  <2>1. ServicingCaseMoves(a) /\ ServicingCaseByRules(a)
    BY <1>1, ServicingCommandMoves, ServicingCommandByRules
  <2> QED BY <2>1, ServicingCaseMovesKeepsRules
<1>2. ASSUME NEW a \in Aftersales,
             Servicing!CreateAftersaleRefund(a) PROVE ServicingRules'
  <2>1. ServicingNewRefund(a) /\ item' = item BY <1>2, ServicingCreateRefundIsNew
  <2>2. UNCHANGED <<item, aftersale, earned, restocked>> /\ order'.status = order.status
     /\ order'.refunded = order.refunded
    BY <2>1 DEF ServicingNewRefund
  <2> QED BY <1>t, <2>1, <2>2, ServicingRulesSame
<1>3. ASSUME NEW c \in Compensations, NEW l \in Items, NEW amount \in Refundable,
             Servicing!CreateCompensation(c, l, amount)
      PROVE  FALSE
  <2>1. refund'[c].status = "PENDING"
    BY <1>3, <1>t DEF Servicing!CreateCompensation, ServicingTyped, Servicing!Sources
  <2> QED BY <2>1 DEF ServicingNoCompensation
<1>4. ASSUME NEW s \in Servicing!Sources,
             \/ Servicing!ClaimRefund(s) \/ Servicing!RetryRefund(s) \/ Servicing!RecordFailure(s)
             \/ \E outcome \in {"SUCCEEDED", "FAILED"} : Servicing!ExecuteRefund(s, outcome)
      PROVE  ServicingRules'
  <2>1. ServicingRefundMoves(s) BY <1>4, ServicingRefundCommandMoves
  <2> QED BY <2>1, ServicingRefundMovesKeepsRules
<1>5. ASSUME NEW s \in Servicing!Sources,
             Servicing!RecordSuccess(s) PROVE ServicingRules'
  <2>1. s \in Aftersales  BY <1>5 DEF Servicing!RecordSuccess, ServicingNoCompensation, Servicing!Sources
  <2> QED BY <1>5, <2>1, ServicingSuccessKeepsRules
<1>6. CASE Servicing!CreateShipment BY <1>6, ServicingShipmentKeepsRules
<1>7. CASE Servicing!AppendLogisticsEvent \/ Servicing!WindowExpires
  <2>1. UNCHANGED <<item, aftersale, earned, restocked>> /\ order'.status = order.status
     /\ order'.refunded = order.refunded
    BY <1>7, <1>t, ServicingEnvelopeSteps
  <2> QED BY <1>t, <2>1, ServicingRulesSame
<1>8. CASE Servicing!CompleteOrder  BY <1>8, <1>t, ServicingCompletionKeepsRules DEF Servicing!CompleteOrder
<1>9. CASE Servicing!Withdraw  BY <1>9, <1>t, ServicingRulesSame DEF Servicing!Withdraw
<1> QED BY <1>1, <1>2, <1>3, <1>4, <1>5, <1>6, <1>7, <1>8, <1>9, ServicingSteps

--------------------------------
\* Refunds without return.

\* A step that moves neither the shipped units, nor the units refunded before
\* shipment, nor what is paid back without return.
LEMMA ServicingUnreturnedSame ==
  ASSUME ServicingUnreturnedRight,
         \A i \in Items : item'[i].shipped = item[i].shipped /\ item'[i].preQty = item[i].preQty,
         \A a \in Aftersales :
           \/ /\ refund'[a].status \notin Servicing!ActiveRefund \cup {"SUCCEEDED"}
              /\ refund[a].status \notin Servicing!ActiveRefund \cup {"SUCCEEDED"}
           \/ /\ refund'[a].qty = refund[a].qty /\ aftersale'[a].type = aftersale[a].type
              /\ refund'[a].status \in Servicing!ActiveRefund <=> refund[a].status \in Servicing!ActiveRefund
              /\ refund'[a].status = "SUCCEEDED" <=> refund[a].status = "SUCCEEDED"
  PROVE  ServicingUnreturnedRight'
<1>1. ASSUME NEW a \in Aftersales, NEW i \in Items
      PROVE  ServicingPaidBack(a, i)' = ServicingPaidBack(a, i)
  BY DEF ServicingPaidBack
<1>2. ASSUME NEW i \in Items
      PROVE  item'[i].preQty = Servicing!SumFunction([a \in Aftersales |-> ServicingPaidBack(a, i)'])
  <2>1. [a \in Aftersales |-> ServicingPaidBack(a, i)'] = [a \in Aftersales |-> ServicingPaidBack(a, i)]
    BY <1>1
  <2> QED BY <2>1 DEF ServicingUnreturnedRight
<1>3. ASSUME NEW a \in Aftersales, NEW i \in Items,
             aftersale'[a].type = "REFUND_ONLY", refund'[a].status \in Servicing!ActiveRefund, refund'[a].qty[i] > 0
      PROVE  item'[i].shipped = 0
  BY <1>3 DEF ServicingUnreturnedRight
<1> QED BY <1>2, <1>3 DEF ServicingUnreturnedRight, Servicing!ActiveRefund

LEMMA ServicingPaidBackTyped ==
  ASSUME ServicingTyped, NEW a \in Aftersales, NEW i \in Items
  PROVE  ServicingPaidBack(a, i) \in Nat
BY ServicingMoneyTyped DEF ServicingPaidBack, Servicing!Sources

LEMMA ServicingNewRefundKeepsUnreturned ==
  ASSUME ServicingGiven, ServicingBooks, ServicingUnreturnedRight, NEW a \in Aftersales,
         Servicing!CreateAftersaleRefund(a)
  PROVE  ServicingUnreturnedRight'
<1>1. ServicingNewRefund(a) /\ item' = item BY ServicingCreateRefundIsNew
<1>2. /\ \A b \in Aftersales \ {a} : refund'[b] = refund[b]
      /\ refund[a].status = "NONE" /\ refund'[a].status = "PENDING" /\ aftersale' = aftersale
  BY <1>1 DEF ServicingNewRefund, Servicing!Sources
<1>3. ASSUME NEW b \in Aftersales, NEW i \in Items
      PROVE  ServicingPaidBack(b, i)' = ServicingPaidBack(b, i)
  BY <1>2 DEF ServicingPaidBack
<1>4. ASSUME NEW i \in Items
      PROVE  item'[i].preQty = Servicing!SumFunction([b \in Aftersales |-> ServicingPaidBack(b, i)'])
  <2>1. [b \in Aftersales |-> ServicingPaidBack(b, i)'] = [b \in Aftersales |-> ServicingPaidBack(b, i)]
    BY <1>3
  <2> QED BY <1>1, <2>1 DEF ServicingUnreturnedRight
<1>5. ASSUME NEW b \in Aftersales, NEW i \in Items,
             aftersale'[b].type = "REFUND_ONLY", refund'[b].status \in Servicing!ActiveRefund, refund'[b].qty[i] > 0
      PROVE  item'[i].shipped = 0
  <2>1. CASE b # a BY <1>1, <1>2, <1>5, <2>1 DEF ServicingUnreturnedRight
  <2>2. CASE b = a
    <3>1. refund'[a].qty[i] = Servicing!RefundQty(a, i)
      <4>1. a \in Servicing!Sources /\ refund \in [Servicing!Sources -> ServicingMoney]
        BY DEF ServicingBooks, ServicingTyped, Servicing!Sources
      <4> QED BY <4>1 DEF Servicing!CreateAftersaleRefund
    <3>2. Servicing!AftersaleRefundable(a) BY DEF Servicing!CreateAftersaleRefund
    <3> QED BY <1>1, <1>2, <1>5, <2>2, <3>1, <3>2 DEF Servicing!AftersaleRefundable
  <2> QED BY <2>1, <2>2
<1> QED BY <1>4, <1>5 DEF ServicingUnreturnedRight, Servicing!ActiveRefund

LEMMA ServicingSuccessKeepsUnreturned ==
  ASSUME ServicingGiven, ServicingBooks, ServicingUnreturnedRight, ServicingBooks', NEW s \in Servicing!Sources,
         Servicing!RecordSuccess(s)
  PROVE  ServicingUnreturnedRight'
<1>t. ServicingTyped /\ ServicingTyped' /\ ServicingLinesRight BY DEF ServicingBooks
<1>1. /\ refund[s].status \in Servicing!ActiveRefund
      /\ \A t \in Servicing!Sources \ {s} : refund'[t] = refund[t]
      /\ refund'[s].status = "SUCCEEDED" /\ refund'[s].qty = refund[s].qty
      /\ \A b \in Aftersales : aftersale'[b].type = aftersale[b].type
  BY <1>t, ServicingSuccessRows
<1>2. \A i \in Items : ServicingLineRefunded(s, i)
  BY <1>t, ServicingLinesRefunded DEF Servicing!RecordSuccess
<1>3. ASSUME NEW b \in Aftersales, NEW i \in Items,
             aftersale'[b].type = "REFUND_ONLY", refund'[b].status \in Servicing!ActiveRefund, refund'[b].qty[i] > 0
      PROVE  item'[i].shipped = 0
  <2>1. b # s /\ refund'[b] = refund[b]  BY <1>1, <1>3 DEF Servicing!ActiveRefund, Servicing!Sources
  <2> QED BY <1>1, <1>2, <1>3, <2>1 DEF ServicingUnreturnedRight, ServicingLineRefunded
<1>4. ASSUME NEW i \in Items
      PROVE  item'[i].preQty = Servicing!SumFunction([b \in Aftersales |-> ServicingPaidBack(b, i)'])
  <2> DEFINE f == [b \in Aftersales |-> ServicingPaidBack(b, i)]
             g == [b \in Aftersales |-> ServicingPaidBack(b, i)']
  <2>1. DOMAIN f = Aftersales /\ DOMAIN g = Aftersales /\ \A b \in Aftersales : f[b] \in Nat /\ g[b] \in Nat
    <3>1. \A b \in Aftersales : ServicingPaidBack(b, i)' \in Nat
      <4>1. \A b \in Aftersales : refund'[b].qty[i] \in Nat
        BY <1>t DEF ServicingTyped, ServicingMoney, ServicingFields, Servicing!Sources
      <4> QED BY <4>1 DEF ServicingPaidBack
    <3> QED BY <1>t, <3>1, ServicingPaidBackTyped
  <2>2. \A b \in Aftersales : b # s => f[b] = g[b]  BY <1>1 DEF ServicingPaidBack, Servicing!Sources
  <2>3. s \in Aftersales => f[s] = 0 /\ g[s] = ServicingBack(s, i)
    BY <1>1 DEF ServicingPaidBack, ServicingBack, Servicing!AutoRestock, Servicing!ActiveRefund
  <2>4. item[i].preQty = Servicing!SumFunction(f) /\ item'[i].preQty = item[i].preQty + ServicingBack(s, i)
    BY <1>2 DEF ServicingUnreturnedRight, ServicingLineRefunded
  <2>5. item[i].preQty \in Nat BY <1>t, ServicingRowTyped
  <2> HIDE DEF f, g
  <2>6. CASE s \in Aftersales
    <3>1. Servicing!SumFunction(g) = Servicing!SumFunction(f) + g[s] - f[s]
      BY <2>1, <2>2, <2>6, ServicingFinite, ServicingTotalUpdate
    <3>2. g[s] \in Nat /\ g[s] = ServicingBack(s, i) /\ f[s] = 0 BY <2>1, <2>3, <2>6
    <3>3. Servicing!SumFunction(g) = item[i].preQty + ServicingBack(s, i) BY <2>4, <2>5, <3>1, <3>2
    <3> QED BY <2>4, <3>3 DEF g
  <2>7. CASE s \notin Aftersales
    <3>1. ServicingBack(s, i) = 0 BY <2>7 DEF ServicingBack, Servicing!AutoRestock
    <3>2. g = f BY <2>2, <2>7 DEF f, g
    <3> QED BY <2>4, <2>5, <3>1, <3>2 DEF g
  <2> QED BY <2>6, <2>7
<1> QED BY <1>3, <1>4 DEF ServicingUnreturnedRight, Servicing!ActiveRefund

\* Nothing is shipped while an aftersale is open.
LEMMA ServicingShipmentKeepsUnreturned ==
  ASSUME ServicingGiven, ServicingBooks, ServicingUnreturnedRight, Servicing!CreateShipment
  PROVE  ServicingUnreturnedRight'
<1>1. /\ \A i \in Items : ServicingLineShipped(i)
      /\ Servicing!OpenAftersales = {} /\ UNCHANGED <<aftersale, refund>>
  BY ServicingLinesShipped DEF ServicingBooks
<1>2. \A a \in Aftersales : refund[a].status \notin Servicing!ActiveRefund
  BY <1>1, ServicingRefundHolds DEF ServicingBooks
<1>3. ASSUME NEW i \in Items
      PROVE  item'[i].preQty = Servicing!SumFunction([a \in Aftersales |-> ServicingPaidBack(a, i)'])
  <2>1. [a \in Aftersales |-> ServicingPaidBack(a, i)'] = [a \in Aftersales |-> ServicingPaidBack(a, i)]
    BY <1>1 DEF ServicingPaidBack
  <2> QED BY <1>1, <2>1 DEF ServicingUnreturnedRight, ServicingLineShipped
<1> QED BY <1>1, <1>2, <1>3 DEF ServicingUnreturnedRight, Servicing!ActiveRefund

LEMMA ServicingNextKeepsUnreturned ==
  ASSUME ServicingGiven, ServicingBooks, ServicingUnreturnedRight, ServicingBooks', Servicing!Next
  PROVE  ServicingUnreturnedRight'
<1>t. ServicingTyped BY DEF ServicingBooks
<1>1. ASSUME NEW a \in Aftersales, ServicingCaseCommand(a) PROVE ServicingUnreturnedRight'
  <2>1. ServicingCaseMoves(a) BY <1>1, ServicingCommandMoves
  <2>2. /\ \A i \in Items : item'[i].shipped = item[i].shipped /\ item'[i].preQty = item[i].preQty
        /\ refund' = refund /\ refund[a].status = "NONE" /\ \A b \in Aftersales \ {a} : aftersale'[b] = aftersale[b]
    BY <2>1 DEF ServicingCaseMoves, ServicingOnlyReserves
  <2> QED BY <2>2, ServicingUnreturnedSame DEF Servicing!ActiveRefund
<1>2. ASSUME NEW a \in Aftersales, Servicing!CreateAftersaleRefund(a) PROVE ServicingUnreturnedRight'
  BY <1>2, ServicingNewRefundKeepsUnreturned
<1>3. ASSUME NEW c \in Compensations, NEW l \in Items, NEW amount \in Refundable,
             Servicing!CreateCompensation(c, l, amount)
      PROVE  ServicingUnreturnedRight'
  <2>1. \A a \in Aftersales : refund'[a] = refund[a] /\ aftersale' = aftersale
    BY <1>t, <1>3, ServicingNotBoth DEF Servicing!CreateCompensation, ServicingTyped, Servicing!Sources
  <2>2. \A i \in Items : item'[i].shipped = item[i].shipped /\ item'[i].preQty = item[i].preQty
    BY <1>t, <1>3 DEF Servicing!CreateCompensation, Servicing!Store, Servicing!Reserve, ServicingTyped, ServicingRows
  <2> QED BY <2>1, <2>2, ServicingUnreturnedSame
<1>4. ASSUME NEW s \in Servicing!Sources,
             \/ Servicing!ClaimRefund(s) \/ Servicing!RetryRefund(s) \/ Servicing!RecordFailure(s)
             \/ \E outcome \in {"SUCCEEDED", "FAILED"} : Servicing!ExecuteRefund(s, outcome)
      PROVE  ServicingUnreturnedRight'
  <2>1. ServicingRefundMoves(s) BY <1>4, ServicingRefundCommandMoves
  <2>2. /\ \A t \in Servicing!Sources : /\ refund'[t].qty = refund[t].qty
                                        /\ (t \in Servicing!OpenRefunds)' = (t \in Servicing!OpenRefunds)
                                        /\ refund'[t].status = "SUCCEEDED" <=> refund[t].status = "SUCCEEDED"
        /\ \A b \in Aftersales : aftersale'[b].type = aftersale[b].type
        /\ item' = item
    BY <2>1, ServicingRefundMovesSame DEF ServicingRefundMoves
  <2> QED BY <2>2, ServicingUnreturnedSame DEF Servicing!OpenRefunds, Servicing!Sources, Servicing!ActiveRefund
<1>5. ASSUME NEW s \in Servicing!Sources, Servicing!RecordSuccess(s) PROVE ServicingUnreturnedRight'
  BY <1>5, ServicingSuccessKeepsUnreturned
<1>6. CASE Servicing!CreateShipment BY <1>6, ServicingShipmentKeepsUnreturned
<1>7. CASE Servicing!AppendLogisticsEvent \/ Servicing!WindowExpires \/ Servicing!CompleteOrder \/ Servicing!Withdraw
  <2>1. UNCHANGED <<item, aftersale, refund>>
    BY <1>7 DEF Servicing!AppendLogisticsEvent, Servicing!WindowExpires, Servicing!CompleteOrder, Servicing!Withdraw
  <2> QED BY <2>1, ServicingUnreturnedSame
<1> QED BY <1>1, <1>2, <1>3, <1>4, <1>5, <1>6, <1>7, ServicingSteps

LEMMA ServicingUnreturnedOpen ==
  ASSUME ServicingGiven, Servicing!Init
  PROVE  ServicingUnreturnedRight
<1>1. /\ \A a \in Aftersales : refund[a].status = "NONE"
      /\ \A i \in Items : item[i].preQty = 0
  BY DEF Servicing!Init, Servicing!Sources
<1>2. ASSUME NEW i \in Items
      PROVE  Servicing!SumFunction([a \in Aftersales |-> ServicingPaidBack(a, i)]) = 0
  <2> DEFINE f == [a \in Aftersales |-> ServicingPaidBack(a, i)]
  <2>1. DOMAIN f = Aftersales /\ \A a \in Aftersales : f[a] = 0 BY <1>1 DEF ServicingPaidBack
  <2> HIDE DEF f
  <2>2. Servicing!SumFunction(f) = 0 BY <2>1, ServicingFinite, ServicingTotalZero
  <2> QED BY <2>2 DEF f
<1> QED BY <1>1, <1>2 DEF ServicingUnreturnedRight, Servicing!ActiveRefund

\* A line that was shipped owes nothing without return; one that was not has
\* room for what is paid back and what is held.
LEMMA ServicingMeansShippedOrRefunded ==
  ASSUME ServicingGiven, ServicingBooks, ServicingUnreturnedRight
  PROVE  Servicing!ShippedOrRefunded
<1>t. ServicingTyped /\ Servicing!ReservationsAreHeld BY DEF ServicingBooks
<1> SUFFICES ASSUME NEW i \in Items
             PROVE  item[i].shipped + Servicing!SumFunction([a \in Aftersales |-> Servicing!Unreturned(a, i)]) <= Ordered[i]
  BY DEF Servicing!ShippedOrRefunded
<1> DEFINE f == [a \in Aftersales |-> Servicing!Unreturned(a, i)]
           g == [a \in Aftersales |-> ServicingPaidBack(a, i)]
           h == [a \in Aftersales |-> Servicing!HeldQty(a, i)]
           k == [a \in Aftersales |-> g[a] + h[a]]
<1>1. /\ DOMAIN f = Aftersales /\ DOMAIN g = Aftersales /\ DOMAIN h = Aftersales /\ DOMAIN k = Aftersales
      /\ \A a \in Aftersales : f[a] \in Nat /\ g[a] \in Nat /\ h[a] \in Nat /\ k[a] = g[a] + h[a]
  <2>1. \A a \in Aftersales : Servicing!Unreturned(a, i) \in Nat
    BY <1>t, ServicingMoneyTyped DEF Servicing!Unreturned, Servicing!Sources
  <2> QED BY <1>t, <2>1, ServicingPaidBackTyped, ServicingHeldTyped
<1>2. ASSUME NEW a \in Aftersales
      PROVE  /\ f[a] <= k[a]
             /\ item[i].shipped # 0 => f[a] = g[a]
  <2>1. refund[a].status \in Servicing!ActiveRefund \cup {"NONE", "SUCCEEDED"} /\ refund[a].qty[i] \in Nat
    BY <1>t, ServicingMoneyTyped DEF Servicing!Sources
  <2>2. CASE refund[a].status \in Servicing!ActiveRefund
    <3>1. refund[a].qty[i] = h[a] BY <2>2, ServicingRefundHolds DEF ServicingBooks
    <3>2. g[a] = 0 /\ f[a] \in {0, refund[a].qty[i]}
      BY <2>2 DEF ServicingPaidBack, Servicing!Unreturned, Servicing!ActiveRefund
    <3>3. item[i].shipped # 0 => f[a] = 0  BY <2>1, <2>2 DEF ServicingUnreturnedRight, Servicing!Unreturned
    <3> QED BY <1>1, <3>1, <3>2, <3>3
  <2>3. CASE refund[a].status \notin Servicing!ActiveRefund
    <3>1. f[a] = g[a] BY <2>1, <2>3 DEF ServicingPaidBack, Servicing!Unreturned
    <3> QED BY <1>1, <3>1
  <2> QED BY <2>2, <2>3
<1>3. item[i].preQty = Servicing!SumFunction(g) /\ item[i].resQty = Servicing!SumFunction(h)
  BY <1>t DEF ServicingUnreturnedRight, Servicing!ReservationsAreHeld
<1>4. (\A a \in Aftersales : f[a] = g[a]) => f = g
  OBVIOUS
<1> HIDE DEF f, g, h, k
<1>5. Servicing!SumFunction(f) <= Servicing!SumFunction(k) /\ Servicing!SumFunction(f) \in Nat
  BY <1>1, <1>2, ServicingFinite, ServicingTotalMonotone, ServicingTotalNat
<1>6. Servicing!SumFunction(k) = item[i].preQty + item[i].resQty
  BY <1>1, <1>3, ServicingFinite, ServicingTotalPlus
<1>7. /\ item[i].preQty <= item[i].refQty /\ item[i].refQty + item[i].resQty <= Ordered[i]
      /\ item[i].shipped + item[i].preQty <= Ordered[i]
      /\ item[i].preQty \in Nat /\ item[i].refQty \in Nat /\ item[i].resQty \in Nat /\ item[i].shipped \in Nat
      /\ Ordered[i] \in Nat
  BY <1>t, ServicingRowTyped, ServicingAmounts0 DEF ServicingBooks, ServicingLinesRight, Servicing!ItemCheck
<1>8. CASE item[i].shipped = 0 BY <1>5, <1>6, <1>7, <1>8 DEF f
<1>9. CASE item[i].shipped # 0
  <2>1. f = g BY <1>2, <1>4, <1>9
  <2> QED BY <1>3, <1>7, <2>1 DEF f
<1> QED BY <1>8, <1>9

--------------------------------
\* The invariant.

LEMMA ServicingInitially ==
  ASSUME ServicingGiven, Servicing!Init
  PROVE  ServicingInv
BY ServicingBooksOpen, ServicingRulesOpen, ServicingUnreturnedOpen DEF ServicingInv

\* A compensation that was created is not forgotten.
LEMMA ServicingNeverForgotten ==
  ASSUME ServicingGiven, ServicingBooks, Servicing!Next, ServicingNoCompensation'
  PROVE  ServicingNoCompensation
<1> SUFFICES ASSUME NEW c \in Compensations PROVE refund[c].status = "NONE"
  BY DEF ServicingNoCompensation
<1>t. ServicingTyped /\ c \in Servicing!Sources /\ refund'[c].status = "NONE" /\ c \notin Aftersales
  BY DEF ServicingBooks, ServicingNoCompensation, Servicing!Sources, ServicingGiven, Servicing!ServicingAssumption
<1>1. ASSUME NEW a \in Aftersales, ServicingCaseCommand(a) PROVE refund[c].status = "NONE"
  <2>1. refund' = refund BY <1>1, ServicingCommandMoves DEF ServicingCaseMoves
  <2> QED BY <1>t, <2>1
<1>2. ASSUME NEW a \in Aftersales, Servicing!CreateAftersaleRefund(a) PROVE refund[c].status = "NONE"
  <2>1. \A t \in Servicing!Sources \ {a} : refund'[t] = refund[t]
    BY <1>2, ServicingCreateRefundIsNew DEF ServicingNewRefund
  <2> QED BY <1>t, <2>1
<1>3. ASSUME NEW d \in Compensations, NEW l \in Items, NEW amount \in Refundable,
             Servicing!CreateCompensation(d, l, amount)
      PROVE  refund[c].status = "NONE"
  BY <1>3, <1>t DEF Servicing!CreateCompensation, ServicingTyped
<1>4. ASSUME NEW s \in Servicing!Sources,
             \/ Servicing!ClaimRefund(s) \/ Servicing!RetryRefund(s) \/ Servicing!RecordFailure(s)
             \/ \E outcome \in {"SUCCEEDED", "FAILED"} : Servicing!ExecuteRefund(s, outcome)
      PROVE  refund[c].status = "NONE"
  <2>1. \A t \in Servicing!Sources : refund'[t].status = "NONE" <=> refund[t].status = "NONE"
    BY <1>4, ServicingRefundCommandMoves, ServicingRefundMovesSame
  <2> QED BY <1>t, <2>1
<1>5. ASSUME NEW s \in Servicing!Sources, Servicing!RecordSuccess(s) PROVE refund[c].status = "NONE"
  <2>1. refund'[s].status = "SUCCEEDED" /\ \A t \in Servicing!Sources \ {s} : refund'[t] = refund[t]
    BY <1>5, <1>t, ServicingSuccessRows
  <2> QED BY <1>t, <2>1
<1>6. CASE Servicing!CreateShipment \/ Servicing!AppendLogisticsEvent \/ Servicing!WindowExpires
   \/ Servicing!CompleteOrder \/ Servicing!Withdraw
  <2>1. refund' = refund
    BY <1>6 DEF Servicing!CreateShipment, Servicing!AppendLogisticsEvent, Servicing!WindowExpires,
       Servicing!CompleteOrder, Servicing!Withdraw
  <2> QED BY <1>t, <2>1
<1> QED BY <1>1, <1>2, <1>3, <1>4, <1>5, <1>6, ServicingSteps

LEMMA ServicingStepwise ==
  ASSUME ServicingGiven, ServicingInv, Servicing!Next
  PROVE  ServicingInv'
<1>1. ServicingBooks' BY ServicingNextKeepsBooks DEF ServicingInv
<1>2. ASSUME ServicingNoCompensation' PROVE ServicingRules'
  <2>1. ServicingNoCompensation /\ ServicingRules BY <1>2, ServicingNeverForgotten DEF ServicingInv
  <2> QED BY <1>1, <1>2, <2>1, ServicingNextKeepsRules DEF ServicingInv
<1>3. ServicingUnreturnedRight' BY <1>1, ServicingNextKeepsUnreturned DEF ServicingInv
<1> QED BY <1>1, <1>2, <1>3 DEF ServicingInv

LEMMA ServicingStanding ==
  ASSUME ServicingInv, UNCHANGED Servicing!vars
  PROVE  ServicingInv'
<1>1. ServicingBooks' BY ServicingSameBooks DEF ServicingInv
<1>2. ServicingNoCompensation' => ServicingNoCompensation  BY DEF Servicing!vars, ServicingNoCompensation
<1>3. ServicingRules => ServicingRules'
  <2>1. UNCHANGED <<item, aftersale, earned, restocked>> /\ order'.status = order.status
     /\ order'.refunded = order.refunded
    BY DEF Servicing!vars
  <2> QED BY <2>1, ServicingRulesSame
<1>4. ServicingUnreturnedRight'
  <2>1. ServicingUnreturnedRight /\ UNCHANGED <<item, aftersale, refund>> BY DEF ServicingInv, Servicing!vars
  <2> QED BY <2>1, ServicingUnreturnedSame
<1> QED BY <1>1, <1>2, <1>3, <1>4 DEF ServicingInv

--------------------------------
\* What it means.

LEMMA ServicingMeansTypeOK ==
  ASSUME ServicingGiven, ServicingBooks
  PROVE  Servicing!TypeOK
<1>t. ServicingTyped BY DEF ServicingBooks
<1>1. order \in [status : {"PENDING_SHIPMENT", "SHIPPING", "COMPLETED", "CLOSED"},
                 fulfilment : {"READY_TO_SHIP", "SHIPPED", "IN_TRANSIT", "DELIVERED", "CANCELLED"},
                 refunding : {"IDLE", "REFUNDING", "FAILED"}, progress : {"NONE", "PARTIAL", "FULL"},
                 window : {"NONE", "OPEN", "EXPIRED"}, refunded : 0..Servicing!Paid]
  <2>1. order \in ServicingEnvelope /\ order.refunded \in 0..Servicing!Paid
    BY <1>t, ServicingPaidNat DEF ServicingTyped, ServicingEnvelope
  <2> QED BY <2>1 DEF ServicingEnvelope
<1>2. \A i \in Items : Servicing!ItemCheck(i, item[i]) /\ restocked[i] \in Nat
  BY <1>t, ServicingRowTyped DEF ServicingBooks, ServicingLinesRight
<1>3. \A a \in Aftersales : aftersale[a].status \in ServicingAllStatus
   /\ aftersale[a].type \in {"NONE", "REFUND_ONLY", "RETURN_REFUND"}
  BY <1>t, ServicingCaseTyped
<1>4. \A s \in Servicing!Sources : refund[s].status \in Servicing!ActiveRefund \cup {"NONE", "SUCCEEDED"}
   /\ executed[s] \in {"NOT_FOUND", "SUCCEEDED", "FAILED"}
  BY <1>t, ServicingMoneyTyped DEF ServicingTyped
<1>5. ASSUME NEW i \in Items
      PROVE  /\ earned[i].state \in {"NONE", "EXPECTED", "AVAILABLE", "CANCELLED"}
             /\ earned[i].expected \in 0..Servicing!Original(i) /\ earned[i].reversed \in 0..Servicing!Original(i)
  <2>1. /\ earned[i].state \in {"NONE", "EXPECTED", "AVAILABLE", "CANCELLED"}
        /\ earned[i].expected \in Nat /\ earned[i].reversed \in Nat /\ Servicing!Original(i) \in Nat
    BY <1>t, ServicingRowTyped, ServicingAmounts0
  <2>2. ServicingPositionRight(i) BY DEF ServicingBooks
  <2> QED BY <2>1, <2>2 DEF ServicingPositionRight
<1>6. paidOut.available \in Int /\ paidOut.withdrawn \in Nat BY <1>t DEF ServicingTyped
<1> QED BY <1>1, <1>2, <1>3, <1>4, <1>5, <1>6 DEF Servicing!TypeOK, ServicingAllStatus

LEMMA ServicingMeansCommission ==
  ASSUME ServicingGiven, ServicingBooks
  PROVE  Servicing!CommissionAddsUp /\ Servicing!NoCommissionOnReturnedMoney
<1>1. Servicing!CommissionAddsUp
  BY DEF ServicingBooks, ServicingPositionRight, ServicingWalletRight, Servicing!CommissionAddsUp
<1>2. ASSUME NEW i \in Items, item[i].refAmt = Servicing!LinePaid(i)
      PROVE  earned[i].reversed = Servicing!Original(i)
  <2>t. ServicingTyped /\ Servicing!LinePaid(i) \in Nat /\ item[i].resAmt \in Nat
     /\ Servicing!CommittedAmt(i) \in Nat /\ earned[i].reversed \in Nat
    BY ServicingRowTyped, ServicingAmounts0, ServicingCommittedTyped DEF ServicingBooks
  <2>1. item[i].resAmt = 0  BY <1>2, <2>t DEF ServicingBooks, ServicingLinesRight, Servicing!ItemCheck
  <2>2. ASSUME NEW s \in Servicing!Sources
        PROVE  Servicing!OpenReversal(s, i) = 0
    <3>1. Servicing!HeldAmt(s, i) = 0
      BY <2>t, <2>1, ServicingPartOfHeld, ServicingHeldTyped DEF ServicingBooks
    <3>2. CASE s \in Servicing!OpenRefunds
      <4>1. refund[s].amt[i] = 0
        <5>1. CASE s \in Compensations BY <3>1, <3>2, <5>1 DEF Servicing!HeldAmt, Servicing!OpenAmt
        <5>2. CASE s \in Aftersales
          BY <2>t, <3>1, <3>2, <5>2, ServicingRefundHolds DEF ServicingBooks, Servicing!OpenRefunds
        <5> QED BY <5>1, <5>2 DEF Servicing!Sources
      <4>2. refund[s].reversal[i] = 0 BY <4>1 DEF ServicingBooks, ServicingReversalRight
      <4> QED BY <3>2, <4>2 DEF Servicing!OpenReversal
    <3>3. CASE s \notin Servicing!OpenRefunds BY <3>3 DEF Servicing!OpenReversal
    <3> QED BY <3>2, <3>3
  <2> DEFINE f == [s \in Servicing!Sources |-> Servicing!OpenReversal(s, i)]
  <2>3. DOMAIN f = Servicing!Sources /\ \A s \in Servicing!Sources : f[s] = 0 BY <2>2
  <2> HIDE DEF f
  <2>4. Servicing!SumFunction(f) = 0 BY <2>3, ServicingFinite, ServicingTotalZero
  <2>5. Servicing!CommittedReversal(i) = 0 BY <2>4 DEF Servicing!CommittedReversal, f
  <2>6. item[i].refAmt + Servicing!CommittedAmt(i) >= Servicing!LinePaid(i) BY <1>2, <2>t
  <2> QED BY <2>t, <2>5, <2>6 DEF ServicingBooks, ServicingReversalRight
<1> QED BY <1>1, <1>2 DEF Servicing!NoCommissionOnReturnedMoney

LEMMA ServicingMeansCompensationsAddUp ==
  ASSUME ServicingGiven, ServicingInv
  PROVE  Servicing!CompensationsAddUp
BY ServicingMeansTypeOK, ServicingMeansCommission DEF Servicing!CompensationsAddUp, ServicingBooks, ServicingInv

\* What is reserved can be refunded besides what was refunded.
LEMMA ServicingRoomForIt ==
  ASSUME ServicingGiven, ServicingBooks, ServicingRules, NEW m \in ServicingFields,
         \A i \in Items : m[i] <= item[i].resAmt
  PROVE  order.refunded + Servicing!SumFunction(m) <= Servicing!Paid /\ Servicing!SumFunction(m) \in Nat
     /\ order.refunded \in Nat /\ Servicing!Paid \in Nat
<1> DEFINE f == [i \in Items |-> item[i].refAmt]
           h == [i \in Items |-> item[i].refAmt + m[i]]
           k == [i \in Items |-> Servicing!LinePaid(i)]
<1>1. /\ DOMAIN f = Items /\ DOMAIN m = Items /\ DOMAIN h = Items /\ DOMAIN k = Items
      /\ \A i \in Items : /\ f[i] \in Nat /\ m[i] \in Nat /\ h[i] = f[i] + m[i]
                          /\ k[i] \in Int /\ h[i] \in Int /\ h[i] <= k[i]
  <2>1. DOMAIN m = Items BY DEF ServicingFields
  <2> SUFFICES ASSUME NEW i \in Items
               PROVE  /\ f[i] \in Nat /\ m[i] \in Nat /\ h[i] = f[i] + m[i]
                      /\ k[i] \in Int /\ h[i] \in Int /\ h[i] <= k[i]
    BY <2>1
  <2>2. item[i].refAmt \in Nat /\ item[i].resAmt \in Nat /\ Servicing!LinePaid(i) \in Nat /\ m[i] \in Nat
    BY ServicingRowTyped, ServicingAmounts0 DEF ServicingBooks, ServicingFields
  <2>3. item[i].refAmt + item[i].resAmt <= Servicing!LinePaid(i)
    BY DEF ServicingBooks, ServicingLinesRight, Servicing!ItemCheck
  <2> QED BY <2>2, <2>3
<1>2. order.refunded = Servicing!SumFunction(f) /\ Servicing!Paid = Servicing!SumFunction(k)
  BY DEF ServicingRules, ServicingAtPrice, Servicing!Paid
<1> HIDE DEF f, h, k
<1>3. Servicing!SumFunction(h) = Servicing!SumFunction(f) + Servicing!SumFunction(m)
   /\ Servicing!SumFunction(h) <= Servicing!SumFunction(k)
  BY <1>1, ServicingFinite, ServicingTotalPlus, ServicingTotalMonotone
<1>4. Servicing!SumFunction(m) \in Nat /\ Servicing!SumFunction(f) \in Nat
  BY <1>1, ServicingFinite, ServicingTotalNat
<1> QED BY <1>2, <1>3, <1>4, ServicingPaidNat

LEMMA ServicingMeansClosed ==
  ASSUME ServicingGiven, ServicingBooks, ServicingRules, ServicingNoCompensation
  PROVE  Servicing!ClosedOrderOwesNothing
<1> SUFFICES ASSUME order.status = "CLOSED"
             PROVE  /\ order.refunded = Servicing!Paid /\ Servicing!OpenRefunds = {}
                        /\ Servicing!OpenAftersales = {}
                    /\ \A i \in Items : /\ item[i].resAmt = 0 /\ item[i].shipped = 0
                                        /\ restocked[i] = Ordered[i]
                                        /\ earned[i].state \in {"NONE", "CANCELLED"}
  BY DEF Servicing!ClosedOrderOwesNothing
<1>t. ServicingTyped BY DEF ServicingBooks
<1>1. Servicing!OpenAftersales = {} /\ \A i \in Items : item[i].refQty = Ordered[i] /\ item[i].resQty = 0
  BY ServicingClosedIsDone
<1>2. Servicing!OpenRefunds = {}
  <2> SUFFICES ASSUME NEW s \in Servicing!OpenRefunds PROVE FALSE
    OBVIOUS
  <2>1. s \in Servicing!Sources /\ refund[s].status \in Servicing!ActiveRefund  BY DEF Servicing!OpenRefunds
  <2>2. s \in Aftersales  BY <2>1 DEF ServicingNoCompensation, Servicing!ActiveRefund, Servicing!Sources
  <2> QED BY <1>t, <1>1, <2>1, <2>2, ServicingRefundHolds DEF ServicingBooks
<1>3. \A i \in Items : item[i].refAmt = Servicing!LinePaid(i)
  BY <1>1, ServicingAmounts0 DEF ServicingRules, ServicingAtPrice
<1>4. order.refunded = Servicing!Paid
  <2>1. [i \in Items |-> item[i].refAmt] = [i \in Items |-> Servicing!LinePaid(i)] BY <1>3
  <2> QED BY <2>1 DEF ServicingRules, ServicingAtPrice, Servicing!Paid
<1>5. ASSUME NEW i \in Items
      PROVE  /\ item[i].resAmt = 0 /\ item[i].shipped = 0
             /\ restocked[i] = Ordered[i]
             /\ earned[i].state \in {"NONE", "CANCELLED"}
  <2>1. item[i].shipped = 0 /\ item[i].preQty = Ordered[i] /\ earned[i].state # "AVAILABLE"
    BY DEF ServicingRules, ServicingBeforeShipment, ServicingUnsent, ServicingSettled
  <2>2. item[i].resAmt = 0
    <3>1. item[i].resAmt = Price[i] * item[i].resQty /\ Price[i] * 0 = 0
      BY ServicingAmounts0 DEF ServicingRules, ServicingAtPrice
    <3> QED BY <1>1, <3>1
  <2>3. restocked[i] = Ordered[i]
    <3>1. Servicing!SumFunction([a \in Aftersales |-> Servicing!PutBack(a, i)]) \in Nat /\ item[i].preQty \in Nat
       /\ Ordered[i] \in Nat
      BY <1>t, ServicingPutBackTotal, ServicingRowTyped, ServicingAmounts0
    <3>2. /\ restocked[i] = item[i].preQty + Servicing!SumFunction([a \in Aftersales |-> Servicing!PutBack(a, i)])
          /\ Servicing!SumFunction([a \in Aftersales |-> Servicing!PutBack(a, i)]) <= item[i].refQty - item[i].preQty
      BY DEF ServicingRules, ServicingStockRight
    <3> QED BY <1>1, <2>1, <3>1, <3>2
  <2>4. earned[i].state \in {"NONE", "CANCELLED"}
    <3>1. earned[i].reversed = Servicing!Original(i) /\ Servicing!Original(i) \in Nat
       /\ earned[i].expected \in Nat
          /\ earned[i].state \in {"NONE", "EXPECTED", "AVAILABLE", "CANCELLED"}
      BY <1>t, <1>3, ServicingMeansCommission, ServicingAmounts0, ServicingRowTyped
         DEF Servicing!NoCommissionOnReturnedMoney
    <3>2. ServicingPositionRight(i) BY DEF ServicingBooks
    <3> QED BY <2>1, <3>1, <3>2 DEF ServicingPositionRight
  <2> QED BY <2>1, <2>2, <2>3, <2>4
<1> QED BY <1>1, <1>2, <1>4, <1>5

LEMMA ServicingMeansRecordable ==
  ASSUME ServicingGiven, ServicingBooks, ServicingUnreturnedRight, ServicingRules, ServicingNoCompensation
  PROVE  Servicing!SuccessCanBeRecorded
<1>t. ServicingTyped BY DEF ServicingBooks
<1> SUFFICES ASSUME NEW s \in Servicing!Sources, refund[s].status = "PROCESSING"
             PROVE  /\ order.refunded + Servicing!SumFunction(refund[s].amt) <= Servicing!Paid
                    /\ \A i \in Items :
                         /\ Servicing!ItemCheck(i, Servicing!RefundedRows(s)[i])
                         /\ refund[s].reversal[i] > 0 =>
                              /\ earned[i].state \in {"EXPECTED", "AVAILABLE"}
                              /\ earned[i].reversed + refund[s].reversal[i] <= Servicing!Original(i)
  BY DEF Servicing!SuccessCanBeRecorded
<1>1. s \in Aftersales /\ refund[s].status \in Servicing!ActiveRefund
  BY DEF ServicingNoCompensation, Servicing!Sources, Servicing!ActiveRefund
<1>2. \A i \in Items : /\ refund[s].qty[i] \in Nat /\ refund[s].amt[i] \in Nat
                       /\ refund[s].amt[i] = Price[i] * refund[s].qty[i]
                       /\ refund[s].qty[i] <= item[i].resQty /\ refund[s].amt[i] <= item[i].resAmt
  BY <1>1, ServicingSuccessAtPrice
<1>3. order.refunded + Servicing!SumFunction(refund[s].amt) <= Servicing!Paid
  <2>1. refund[s].amt \in ServicingFields BY <1>t, ServicingMoneyTyped DEF ServicingMoney
  <2> QED BY <1>2, <2>1, ServicingRoomForIt
<1>4. ASSUME NEW i \in Items
      PROVE  Servicing!ItemCheck(i, Servicing!RefundedRows(s)[i])
  <2>1. /\ item[i] \in ServicingRows
        /\ item[i].refQty \in Nat /\ item[i].preQty \in Nat /\ item[i].resQty \in Nat
        /\ item[i].refAmt \in Nat /\ item[i].resAmt \in Nat /\ item[i].shipped \in Nat
        /\ Ordered[i] \in Nat /\ Servicing!LinePaid(i) \in Nat /\ Price[i] \in Nat
    BY <1>t, ServicingRowTyped, ServicingAmounts0
  <2>2. Servicing!ItemCheck(i, item[i]) /\ item[i].refAmt = Price[i] * item[i].refQty
     /\ item[i].resAmt = Price[i] * item[i].resQty
    BY DEF ServicingBooks, ServicingLinesRight, ServicingRules, ServicingAtPrice
  <2>3. PICK row : row = Servicing!RefundedRows(s)[i]
    OBVIOUS
  <2>4. row = [item[i] EXCEPT !.resQty = @ - refund[s].qty[i], !.resAmt = @ - refund[s].amt[i],
                              !.refQty = @ + refund[s].qty[i], !.refAmt = @ + refund[s].amt[i],
                              !.preQty = @ + ServicingBack(s, i)]
    BY <2>3 DEF Servicing!RefundedRows, ServicingBack
  <2>5. /\ row.resQty = item[i].resQty - refund[s].qty[i] /\ row.resAmt = item[i].resAmt - refund[s].amt[i]
        /\ row.refQty = item[i].refQty + refund[s].qty[i] /\ row.refAmt = item[i].refAmt + refund[s].amt[i]
        /\ row.preQty = item[i].preQty + ServicingBack(s, i) /\ row.shipped = item[i].shipped
    BY <2>1, <2>4 DEF ServicingRows
  <2>6. row.refAmt = Price[i] * row.refQty /\ row.resAmt = Price[i] * row.resQty
    <3>1. PICK q \in Nat, m \in Nat, n \in Nat : q = refund[s].qty[i] /\ m = item[i].refQty /\ n = item[i].resQty
      BY <1>2, <2>1
    <3>2. Price[i] * (m + q) = Price[i] * m + Price[i] * q /\ Price[i] * (n - q) = Price[i] * n - Price[i] * q
      BY <2>1, ServicingMulAdd
    <3> QED BY <1>2, <2>2, <2>5, <3>1, <3>2
  <2>7. row.preQty <= row.refQty /\ row.shipped + row.preQty <= Ordered[i]
    <3>1. CASE Servicing!AutoRestock(s)
      <4>1. refund[s].qty[i] > 0 => item[i].shipped = 0
        BY <1>1, <3>1 DEF ServicingUnreturnedRight, Servicing!AutoRestock
      <4>2. item[i].preQty <= item[i].refQty /\ item[i].refQty + item[i].resQty <= Ordered[i]
        BY <2>2 DEF Servicing!ItemCheck
      <4> QED BY <1>2, <2>1, <2>2, <2>5, <3>1, <4>1, <4>2 DEF Servicing!ItemCheck, ServicingBack
    <3>2. CASE ~Servicing!AutoRestock(s)
      BY <1>2, <2>1, <2>2, <2>5, <3>2 DEF Servicing!ItemCheck, ServicingBack
    <3> QED BY <3>1, <3>2
  <2>8. row.refQty + row.resQty <= Ordered[i] /\ row.resQty >= 0 /\ row.resAmt >= 0
     /\ row.refAmt + row.resAmt <= Servicing!LinePaid(i)
    BY <1>2, <2>1, <2>2, <2>5 DEF Servicing!ItemCheck
  <2>9. Price[i] * row.refQty \in Int /\ Price[i] * row.resQty \in Int BY <1>2, <2>1, <2>5, <2>6
  <2>10. Servicing!ItemCheck(i, row) BY <2>6, <2>7, <2>8, <2>9 DEF Servicing!ItemCheck
  <2> QED BY <2>3, <2>10
<1>5. ASSUME NEW i \in Items, refund[s].reversal[i] > 0
      PROVE  /\ earned[i].state \in {"EXPECTED", "AVAILABLE"}
             /\ earned[i].reversed + refund[s].reversal[i] <= Servicing!Original(i)
  <2>1. Servicing!OpenReversal(s, i) = refund[s].reversal[i]
     /\ Servicing!OpenReversal(s, i) <= Servicing!CommittedReversal(i)
    BY <1>t, <1>1, ServicingPartOfCommitted DEF Servicing!OpenReversal, Servicing!OpenRefunds
  <2>2. /\ refund[s].reversal[i] \in Nat /\ Servicing!CommittedReversal(i) \in Nat
            /\ Servicing!Original(i) \in Nat
        /\ earned[i].reversed \in Nat /\ earned[i].expected \in Nat
        /\ earned[i].state \in {"NONE", "EXPECTED", "AVAILABLE", "CANCELLED"}
    BY <1>t, ServicingMoneyTyped, ServicingCommittedTyped, ServicingAmounts0, ServicingRowTyped
  <2>3. earned[i].reversed + Servicing!CommittedReversal(i) <= Servicing!Original(i) /\ ServicingPositionRight(i)
    BY DEF ServicingBooks, ServicingReversalRight
  <2> QED BY <1>5, <2>1, <2>2, <2>3 DEF ServicingPositionRight
<1> QED BY <1>3, <1>4, <1>5

LEMMA ServicingMeansStock ==
  ASSUME ServicingGiven, ServicingBooks, ServicingRules
  PROVE  Servicing!StockReturnsOnce
<1> SUFFICES ASSUME NEW i \in Items
             PROVE  /\ restocked[i] <= item[i].refQty
                    /\ restocked[i] = item[i].preQty + Servicing!SumFunction([a \in Aftersales |-> Servicing!PutBack(a, i)])
  BY DEF Servicing!StockReturnsOnce
<1>1. PICK n : n = Servicing!SumFunction([a \in Aftersales |-> Servicing!PutBack(a, i)])
  OBVIOUS
<1>2. n \in Nat /\ item[i].preQty \in Nat /\ item[i].refQty \in Nat
  BY <1>1, ServicingPutBackTotal, ServicingRowTyped DEF ServicingBooks
<1>3. restocked[i] = item[i].preQty + n /\ n <= item[i].refQty - item[i].preQty
  BY <1>1 DEF ServicingRules, ServicingStockRight
<1> QED BY <1>1, <1>2, <1>3

LEMMA ServicingMeansApproved ==
  ASSUME ServicingGiven, ServicingBooks, ServicingRules
  PROVE  Servicing!ApprovedIsRefundable
<1> SUFFICES ASSUME NEW a \in Aftersales, Servicing!ReadyToRefund(a), ~Servicing!ClaimsShipped(a)
             PROVE  Servicing!AftersaleRefundable(a)
  BY DEF Servicing!ApprovedIsRefundable
<1>t. ServicingTyped BY DEF ServicingBooks
<1>1. a \in Servicing!OpenAftersales
  BY DEF Servicing!ReadyToRefund, Servicing!OpenAftersales, Servicing!ActiveAftersale
<1>2. order.status # "CLOSED" BY <1>1, ServicingClosedIsDone
<1>3. ASSUME NEW i \in Items
      PROVE  Servicing!RefundQty(a, i) = Servicing!HeldQty(a, i)
         /\ Servicing!RefundAmt(a, i) = Servicing!HeldAmt(a, i)
  BY <1>1, ServicingNotBoth DEF Servicing!ReadyToRefund, Servicing!RefundQty, Servicing!RefundAmt,
     Servicing!HeldQty, Servicing!HeldAmt, Servicing!Inspected
<1>4. ASSUME NEW i \in Items
      PROVE  /\ Servicing!HeldQty(a, i) \in Nat /\ Servicing!HeldAmt(a, i) \in Nat
             /\ Servicing!HeldAmt(a, i) = Price[i] * Servicing!HeldQty(a, i)
                 /\ Servicing!KeptAmount(a, i) = Price[i] * aftersale[a].approved[i]
             /\ Servicing!HeldQty(a, i) <= item[i].resQty /\ Servicing!HeldAmt(a, i) <= item[i].resAmt
             /\ Servicing!HeldQty(a, i) > 0 => Servicing!HeldAmt(a, i) > 0
             /\ item[i].resQty \in Nat /\ item[i].resAmt \in Nat
  <2>1. /\ Servicing!HeldAmt(a, i) = Price[i] * Servicing!HeldQty(a, i)
            /\ Servicing!KeptAmount(a, i) = Price[i] * aftersale[a].approved[i]
    BY <1>t, ServicingHeldAtPrice DEF ServicingRules, ServicingAtPrice
  <2>2. /\ Servicing!HeldQty(a, i) \in Nat /\ Servicing!HeldAmt(a, i) \in Nat /\ Price[i] \in Nat /\ Price[i] > 0
        /\ item[i].resQty \in Nat /\ item[i].resAmt \in Nat
    BY <1>t, ServicingHeldTyped, ServicingNotBoth, ServicingAmounts0, ServicingRowTyped
  <2>3. Servicing!HeldQty(a, i) <= item[i].resQty /\ Servicing!HeldAmt(a, i) <= item[i].resAmt
    BY <1>t, ServicingPartOfHeld, ServicingNotBoth DEF ServicingBooks
  <2>4. Servicing!HeldQty(a, i) > 0 => Servicing!HeldAmt(a, i) > 0  BY <2>1, <2>2, ServicingMulPositive
  <2> QED BY <2>1, <2>2, <2>3, <2>4
<1>5. ASSUME NEW i \in Items
      PROVE  /\ Servicing!RefundQty(a, i) > 0 => Servicing!RefundAmt(a, i) > 0
             /\ aftersale[a].type = "REFUND_ONLY" /\ Servicing!RefundQty(a, i) > 0 => item[i].shipped = 0
             /\ aftersale[a].type = "RETURN_REFUND" =>
                  /\ Servicing!RefundAmt(a, i) <= aftersale[a].amt[i]
                  /\ item[i].resQty >= Servicing!RefundQty(a, i) /\ item[i].resAmt >= Servicing!RefundAmt(a, i)
  <2>1. aftersale[a].type = "REFUND_ONLY" /\ Servicing!RefundQty(a, i) > 0 => item[i].shipped = 0
    BY <1>t, ServicingRowTyped DEF Servicing!ClaimsShipped, Servicing!RefundQty
  <2>2. aftersale[a].type = "RETURN_REFUND" => Servicing!RefundAmt(a, i) <= aftersale[a].amt[i]
    <3>1. /\ aftersale[a].approved[i] \in Nat /\ aftersale[a].qty[i] \in Nat /\ Price[i] \in Nat
          /\ aftersale[a].approved[i] <= aftersale[a].qty[i]
      BY <1>t, ServicingCaseTyped, ServicingAmounts0 DEF ServicingBooks, ServicingCaseRight
    <3>2. Price[i] * aftersale[a].approved[i] <= Price[i] * aftersale[a].qty[i]  BY <3>1, ServicingMulMonotone
    <3>3. aftersale[a].amt[i] = Price[i] * aftersale[a].qty[i]  BY DEF ServicingRules, ServicingAtPrice
    <3> QED BY <1>4, <3>2, <3>3 DEF Servicing!RefundAmt
  <2> QED BY <1>3, <1>4, <2>1, <2>2
<1>6. PICK m : m = [i \in Items |-> Servicing!RefundAmt(a, i)]
  OBVIOUS
<1>7. m \in ServicingFields /\ \A i \in Items : m[i] <= item[i].resAmt /\ m[i] = Servicing!HeldAmt(a, i)
  BY <1>3, <1>4, <1>6 DEF ServicingFields
<1>8. order.refunded + Servicing!SumFunction(m) <= Servicing!Paid /\ Servicing!SumFunction(m) \in Nat
   /\ order.refunded \in Nat /\ Servicing!Paid \in Nat
  BY <1>7, ServicingRoomForIt
<1>9. 0 < Servicing!SumFunction(m)
  <2>1. PICK i \in Items : Servicing!HeldQty(a, i) > 0  BY <1>1 DEF ServicingRules, ServicingHoldsSomething
  <2>2. DOMAIN m = Items /\ \A j \in Items : m[j] \in Nat BY <1>7 DEF ServicingFields
  <2>3. m[i] <= Servicing!SumFunction(m) BY <2>2, ServicingFinite, ServicingTotalPart
  <2>4. m[i] > 0 /\ m[i] \in Nat BY <1>4, <1>7, <2>1
  <2> QED BY <1>8, <2>3, <2>4
<1>10. 0 < Servicing!SumFunction(m) /\ Servicing!SumFunction(m) <= Servicing!Paid - order.refunded
  BY <1>8, <1>9
<1> QED BY <1>2, <1>5, <1>6, <1>10 DEF Servicing!AftersaleRefundable

LEMMA ServicingMeansReturnsAddUp ==
  ASSUME ServicingGiven, ServicingInv, ServicingNoCompensation
  PROVE  Servicing!ReturnsAddUp
BY ServicingMeansTypeOK, ServicingMeansCommission, ServicingMeansClosed, ServicingMeansRecordable,
   ServicingMeansStock, ServicingMeansApproved DEF Servicing!ReturnsAddUp, ServicingBooks, ServicingInv

--------------------------------
\* What it says of the trade of the mall.

LEMMA ServicingMoves ==
  ASSUME [TradeNext]_tradeVars
  PROVE  /\ part' = part /\ [Servicing!Next]_(Servicing!vars)
         /\ part = "servicing" => ServicingNoCompensation' \/ UNCHANGED Servicing!vars
         /\ part \notin {"servicing", "compensation"} => UNCHANGED Servicing!vars
BY DEF TradeNext, tradeVars, servicingVars, Servicing!vars, RulesStep, FirstStep, WalletStep, ServicingStep,
   CompensationStep, CheckoutStep, CartsStep, GoodsStep, Rest, ServicingNoCompensation

\* Compensations are not part of the after-sales instance.
ServicingHolds ==
  ServicingInv /\ (part = "servicing" => ServicingNoCompensation)

LEMMA ServicingHoldsFirst == TradeInit => ServicingHolds
<1> SUFFICES ASSUME TradeInit PROVE ServicingHolds
  OBVIOUS
<1>1. ServicingGiven /\ Servicing!Init BY TradeAssumption DEF ServicingGiven, TradeInit
<1>2. ServicingNoCompensation  BY <1>1 DEF Servicing!Init, Servicing!Sources, ServicingNoCompensation
<1> QED BY <1>1, <1>2, ServicingInitially DEF ServicingHolds

LEMMA ServicingHoldsNext ==
  ASSUME ServicingHolds, [TradeNext]_tradeVars
  PROVE  ServicingHolds'
<1>0. ServicingGiven BY TradeAssumption DEF ServicingGiven
<1>1. /\ part' = part /\ [Servicing!Next]_(Servicing!vars)
      /\ part = "servicing" => ServicingNoCompensation' \/ UNCHANGED Servicing!vars
  BY ServicingMoves
<1>2. CASE UNCHANGED Servicing!vars
  <2>1. ServicingInv' BY <1>2, ServicingStanding DEF ServicingHolds
  <2>2. ServicingNoCompensation' <=> ServicingNoCompensation
    BY <1>2 DEF Servicing!vars, ServicingNoCompensation
  <2> QED BY <1>1, <2>1, <2>2 DEF ServicingHolds
<1>3. CASE Servicing!Next /\ ~UNCHANGED Servicing!vars
  <2>1. ServicingInv' BY <1>0, <1>3, ServicingStepwise DEF ServicingHolds
  <2> QED BY <1>1, <1>3, <2>1 DEF ServicingHolds
<1> QED BY <1>1, <1>2, <1>3

\* OrderServicing: aftersales, refunds, shipment, stock and commission
\* agree on every line of the order, for every line, price and rate, and
\* any number of aftersales and compensations, whichever type of aftersale is
\* opened when.
THEOREM ReturnsAlwaysAddUp == TradeSpec => []ReturnsAddUp
<1>1. TradeInit => ServicingHolds BY ServicingHoldsFirst
<1>2. ServicingHolds /\ [TradeNext]_tradeVars => ServicingHolds' BY ServicingHoldsNext
<1>3. ServicingHolds => ReturnsAddUp
  <2> SUFFICES ASSUME ServicingHolds PROVE ReturnsAddUp
    OBVIOUS
  <2>1. ServicingGiven BY TradeAssumption DEF ServicingGiven
  <2>2. Servicing!CompensationsAddUp BY <2>1, ServicingMeansCompensationsAddUp DEF ServicingHolds
  <2>3. part = "servicing" => Servicing!ReturnsAddUp  BY <2>1, ServicingMeansReturnsAddUp DEF ServicingHolds
  <2> QED BY <2>2, <2>3 DEF ReturnsAddUp
<1> QED BY <1>1, <1>2, <1>3, PTL DEF TradeSpec

\* OrderServicing: no unit is both shipped and refunded without a return, with
\* compensations beside the aftersales or not.
THEOREM AlwaysShippedOrRefunded == TradeSpec => []ShippedOrRefunded
<1>1. TradeInit => ServicingHolds BY ServicingHoldsFirst
<1>2. ServicingHolds /\ [TradeNext]_tradeVars => ServicingHolds' BY ServicingHoldsNext
<1>3. ServicingHolds => ShippedOrRefunded
  BY TradeAssumption, ServicingMeansShippedOrRefunded DEF ServicingHolds, ServicingInv, ServicingGiven, ShippedOrRefunded
<1> QED BY <1>1, <1>2, <1>3, PTL DEF TradeSpec
=============================================================================
