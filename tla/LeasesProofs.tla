---------------------------- MODULE LeasesProofs ----------------------------
(***************************************************************************)
(* Theorems about what a lease or a lock guards: the limit of failed       *)
(* logins, the outbox and the uploaded files.  Each component moves by its *)
(* own steps only, so its inductive invariant holds of the suite.          *)
(***************************************************************************)
EXTENDS MCLeases, LoginLimiterProofs, FiniteSetTheorems, SequenceTheorems, WellFoundedInduction

--------------------------------
\* The outbox: OutboxReadsDue is what the advisory lock is for, and it
\* needs that a lock is held exactly by the session that is at work.

\* A nonempty set of numbers has a least member.
LEMMA OutboxLeast ==
  ASSUME NEW T \in SUBSET Nat, T # {}
  PROVE  Outbox!Min(T) \in T
<1> DEFINE R == OpToRel(<, Nat)
<1>1. IsWellFoundedOn(R, Nat) BY NatLessThanWellFounded
<1> HIDE DEF R
<1>2. PICK x \in T : \A y \in T : ~(<<y, x>> \in R) BY <1>1, WFMin
<1>3. R = {ss \in Nat \X Nat : ss[1] < ss[2]} BY Zenon DEF R, OpToRel
<1>4. ASSUME NEW y \in T PROVE x =< y
  <2>1. x \in Nat /\ y \in Nat
    OBVIOUS
  <2>2. <<y, x>> \notin R BY <1>2
  <2>3. ~(y < x) BY <1>3, <2>1, <2>2
  <2> QED BY <2>1, <2>3
<1>5. \E z \in T : \A y \in T : z =< y BY <1>4
<1> QED BY <1>5 DEF Outbox!Min

\* The smaller of two numbers.
LEMMA OutboxLeastOfTwo ==
  ASSUME NEW m \in Nat, NEW n \in Nat
  PROVE  Outbox!Min({m, n}) = IF m <= n THEN m ELSE n
<1>1. {m, n} \in SUBSET Nat /\ {m, n} # {}
  OBVIOUS
<1>2. Outbox!Min({m, n}) \in {m, n} BY <1>1, OutboxLeast
<1>3. \E x \in {m, n} : \A y \in {m, n} : x <= y
  <2>1. CASE m <= n BY <2>1
  <2>2. CASE ~(m <= n) BY <2>2
  <2> QED BY <2>1, <2>2
<1>4. Outbox!Min({m, n}) = CHOOSE x \in {m, n} : \A y \in {m, n} : x <= y BY DEF Outbox!Min
<1>5. \A y \in {m, n} : Outbox!Min({m, n}) <= y BY <1>3, <1>4
<1> QED BY <1>2, <1>5

OutboxProcesses == [pc : {"idle", "next"} \cup Outbox!Working, batch : SUBSET Outbox!Events,
                    read : Outbox!Row, linked : BOOLEAN, stopping : BOOLEAN]

OutboxHolding(w, e) == dispatcher[w].pc \in Outbox!Working /\ dispatcher[w].linked /\ Outbox!Current(w) = e

\* A process that works has a batch, it has lost no session before it took a
\* lock, and it is done with an event that was handled.
OutboxWorks(w) ==
  /\ dispatcher[w].pc # "idle" => dispatcher[w].batch # {}
  /\ dispatcher[w].pc \in {"idle", "next"} => dispatcher[w].linked
  /\ dispatcher[w].pc = "done" => handled[Outbox!Current(w)]

\* Who runs a handler and still has its session read a row that is due.
OutboxReadsDue(w) ==
  dispatcher[w].pc \in {"handling", "done", "threw"} /\ dispatcher[w].linked
    => outbox[Outbox!Current(w)] = dispatcher[w].read /\ Outbox!Due(Outbox!Current(w))

\* NoneForgotten; and a published row has no time of its next try.
OutboxOutcomes ==
  \A e \in Outbox!Events :
    /\ outbox[e].status = "PUBLISHED" => handled[e] /\ outbox[e].next = "NULL"
    /\ Outbox!GivenUp(e) => e \notin Lasting /\ outbox[e].retries = Retries

OutboxInv ==
  /\ Outbox!TypeOK
  /\ \A w \in Dispatchers : OutboxWorks(w) /\ OutboxReadsDue(w)
  /\ \A w \in Dispatchers, e \in Outbox!Events : lock[e] = w <=> OutboxHolding(w, e)
  /\ OutboxOutcomes

--------------------------------
LEMMA OutboxCurrentIsEvent ==
  ASSUME Outbox!DispatchAssumption, OutboxInv, NEW w \in Dispatchers, dispatcher[w].pc # "idle"
  PROVE  Outbox!Current(w) \in dispatcher[w].batch /\ Outbox!Current(w) \in Outbox!Events
<1>1. dispatcher[w] \in OutboxProcesses /\ dispatcher[w].batch # {}
  BY DEF OutboxInv, Outbox!TypeOK, OutboxWorks, OutboxProcesses
<1>2. dispatcher[w].batch \in SUBSET Outbox!Events /\ Outbox!Events \subseteq Nat
  BY <1>1 DEF OutboxProcesses, Outbox!Events, Outbox!DispatchAssumption
<1>3. dispatcher[w].batch \in SUBSET Nat BY <1>2
<1>4. Outbox!Current(w) \in dispatcher[w].batch BY <1>1, <1>3, OutboxLeast DEF Outbox!Current
<1> QED BY <1>2, <1>4

\* A process that takes its next step leaves the others where they are.
LEMMA OutboxMoves ==
  ASSUME OutboxInv, NEW w \in Dispatchers, NEW p \in OutboxProcesses, dispatcher' = [dispatcher EXCEPT ![w] = p]
  PROVE  /\ dispatcher' \in [Dispatchers -> OutboxProcesses]
         /\ dispatcher'[w] = p
         /\ \A u \in Dispatchers \ {w} : dispatcher'[u] = dispatcher[u] /\ Outbox!Current(u)' = Outbox!Current(u)
BY DEF OutboxInv, Outbox!TypeOK, OutboxProcesses, Outbox!Current

LEMMA OutboxTyped ==
  ASSUME OutboxInv
  PROVE  /\ outbox \in [Outbox!Events -> Outbox!Row] /\ handled \in [Outbox!Events -> BOOLEAN]
         /\ lock \in [Outbox!Events -> Dispatchers \cup {Outbox!Free}]
         /\ dispatcher \in [Dispatchers -> OutboxProcesses] /\ mishaps \in 0..Mishaps
BY DEF OutboxInv, Outbox!TypeOK, OutboxProcesses

\* A process that gives up its lock, if it has it, and goes on or ends its poll.
OutboxLeaves(w, p) ==
  /\ p \in OutboxProcesses
  /\ p.pc \in {"idle", "next"} /\ p.linked
  /\ p.pc = "next" => p.batch # {}
  /\ dispatcher' = [dispatcher EXCEPT ![w] = p]
  /\ lock' = Outbox!Freed(w)
  /\ handled' = handled

LEMMA OutboxLeavingIsSound ==
  ASSUME Outbox!DispatchAssumption, OutboxInv, NEW w \in Dispatchers, NEW p, OutboxLeaves(w, p),
         outbox' \in [Outbox!Events -> Outbox!Row], mishaps' \in 0..Mishaps,
         \A e \in Outbox!Events : outbox'[e] # outbox[e] => lock[e] = w,
         OutboxOutcomes'
  PROVE  OutboxInv'
<1>1. /\ dispatcher' \in [Dispatchers -> OutboxProcesses]
      /\ dispatcher'[w] = p
      /\ \A u \in Dispatchers \ {w} : dispatcher'[u] = dispatcher[u] /\ Outbox!Current(u)' = Outbox!Current(u)
  BY OutboxMoves DEF OutboxLeaves
<1>2. /\ lock \in [Outbox!Events -> Dispatchers \cup {Outbox!Free}] /\ Outbox!Free \notin Dispatchers
      /\ handled \in [Outbox!Events -> BOOLEAN]
  BY OutboxTyped DEF Outbox!DispatchAssumption
<1>3. lock' = [e \in Outbox!Events |-> IF lock[e] = w THEN Outbox!Free ELSE lock[e]]
  BY DEF OutboxLeaves, Outbox!Freed
<1>4. lock' \in [Outbox!Events -> Dispatchers \cup {Outbox!Free}] BY <1>2, <1>3
<1>5. Outbox!TypeOK' BY <1>1, <1>2, <1>4 DEF Outbox!TypeOK, OutboxProcesses, OutboxLeaves
<1>6. OutboxWorks(w)' /\ OutboxReadsDue(w)' BY <1>1 DEF OutboxWorks, OutboxReadsDue, OutboxLeaves
<1>7. \A e \in Outbox!Events : lock'[e] # w /\ ~OutboxHolding(w, e)'
  BY <1>1, <1>2, <1>3 DEF OutboxHolding, Outbox!Working, OutboxLeaves
<1>8. ASSUME NEW u \in Dispatchers \ {w}
      PROVE  /\ OutboxWorks(u)' /\ OutboxReadsDue(u)'
             /\ \A e \in Outbox!Events : lock'[e] = u <=> OutboxHolding(u, e)'
  <2>1. dispatcher'[u] = dispatcher[u] /\ Outbox!Current(u)' = Outbox!Current(u) BY <1>1
  <2>2. OutboxWorks(u) /\ OutboxReadsDue(u) /\ \A e \in Outbox!Events : lock[e] = u <=> OutboxHolding(u, e)
    BY DEF OutboxInv
  <2>3. OutboxWorks(u)' BY <2>1, <2>2 DEF OutboxWorks, OutboxLeaves
  <2>4. \A e \in Outbox!Events : lock'[e] = u <=> OutboxHolding(u, e)'
    BY <1>2, <1>3, <2>1, <2>2 DEF OutboxHolding
  <2>5. ASSUME dispatcher[u].pc \in {"handling", "done", "threw"}, dispatcher[u].linked
        PROVE  outbox'[Outbox!Current(u)] = outbox[Outbox!Current(u)]
    <3>1. Outbox!Current(u) \in Outbox!Events BY <2>5, OutboxCurrentIsEvent
    <3>2. lock[Outbox!Current(u)] = u BY <2>2, <2>5, <3>1 DEF OutboxHolding, Outbox!Working
    <3> QED BY <3>1, <3>2
  <2>6. OutboxReadsDue(u)' BY <2>1, <2>2, <2>5 DEF OutboxReadsDue, Outbox!Due
  <2> QED BY <2>3, <2>4, <2>6
<1> QED BY <1>5, <1>6, <1>7, <1>8 DEF OutboxInv

\* The rest of the batch.
LEMMA OutboxContinues ==
  ASSUME Outbox!DispatchAssumption, OutboxInv, NEW w \in Dispatchers, dispatcher[w].pc # "idle",
         Outbox!Continue(w), lock' = Outbox!Freed(w), handled' = handled
  PROVE  \E p : OutboxLeaves(w, p)
<1> DEFINE rest == dispatcher[w].batch \ {Outbox!Current(w)}
           pc == IF rest # {} THEN "next" ELSE "idle"
           p == [Outbox!Idle EXCEPT !.stopping = dispatcher[w].stopping, !.batch = rest, !.pc = pc]
<1>1. dispatcher[w] \in OutboxProcesses BY OutboxTyped
<1>2. Outbox!NoRow \in Outbox!Row
  BY DEF Outbox!NoRow, Outbox!Row, Outbox!Status, Outbox!NextRetry, Outbox!DispatchAssumption
<1>3. rest \in SUBSET Outbox!Events /\ dispatcher[w].stopping \in BOOLEAN  BY <1>1 DEF OutboxProcesses
<1>4. pc \in {"idle", "next"} /\ (pc = "next" => rest # {})
  OBVIOUS
<1>5. dispatcher' = [dispatcher EXCEPT ![w] = p] BY DEF Outbox!Continue
<1> HIDE DEF rest, pc
<1>6. p \in OutboxProcesses /\ p.pc = pc /\ p.batch = rest /\ p.linked
  BY <1>2, <1>3, <1>4 DEF OutboxProcesses, Outbox!Idle
<1> HIDE DEF p
<1> QED BY <1>4, <1>5, <1>6 DEF OutboxLeaves

\* So does a process that gives its poll up.
LEMMA OutboxEnds ==
  ASSUME Outbox!DispatchAssumption, OutboxInv, NEW w \in Dispatchers, NEW p,
         p = Outbox!Idle \/ \E stopping \in BOOLEAN : p = [Outbox!Idle EXCEPT !.stopping = stopping],
         dispatcher' = [dispatcher EXCEPT ![w] = p],
         lock' = Outbox!Freed(w), handled' = handled
  PROVE  OutboxLeaves(w, p)
<1>1. Outbox!NoRow \in Outbox!Row
  BY DEF Outbox!NoRow, Outbox!Row, Outbox!Status, Outbox!NextRetry, Outbox!DispatchAssumption
<1>2. /\ Outbox!Idle \in OutboxProcesses /\ Outbox!Idle.pc = "idle" /\ Outbox!Idle.linked
  BY <1>1 DEF OutboxProcesses, Outbox!Idle
<1>3. p \in OutboxProcesses /\ p.pc = "idle" /\ p.linked BY <1>2 DEF OutboxProcesses
<1> QED BY <1>3 DEF OutboxLeaves

\* A process that holds no lock has none to give up; one that does, has one.
LEMMA OutboxFreedIs ==
  ASSUME Outbox!DispatchAssumption, OutboxInv, NEW w \in Dispatchers
  PROVE  /\ (\A e \in Outbox!Events : ~OutboxHolding(w, e)) => Outbox!Freed(w) = lock
         /\ dispatcher[w].pc \in Outbox!Working /\ dispatcher[w].linked
              => Outbox!Freed(w) = [lock EXCEPT ![Outbox!Current(w)] = Outbox!Free]
<1>1. lock \in [Outbox!Events -> Dispatchers \cup {Outbox!Free}] BY OutboxTyped
<1>2. \A e \in Outbox!Events : lock[e] = w <=> OutboxHolding(w, e) BY DEF OutboxInv
<1> QED BY <1>1, <1>2 DEF Outbox!Freed, OutboxHolding

--------------------------------
LEMMA OutboxInitially == Outbox!DispatchAssumption /\ Outbox!Init => OutboxInv
<1> SUFFICES ASSUME Outbox!DispatchAssumption, Outbox!Init PROVE OutboxInv
  OBVIOUS
<1>1. Outbox!NoRow \in Outbox!Row /\ Outbox!Idle \in OutboxProcesses
  BY DEF Outbox!NoRow, Outbox!Row, Outbox!Status, Outbox!NextRetry, Outbox!Idle, OutboxProcesses,
     Outbox!DispatchAssumption
<1>2. Outbox!TypeOK  BY <1>1 DEF Outbox!Init, Outbox!TypeOK, OutboxProcesses, Outbox!DispatchAssumption
<1>3. \A w \in Dispatchers : OutboxWorks(w) /\ OutboxReadsDue(w)
  BY DEF Outbox!Init, OutboxWorks, OutboxReadsDue, Outbox!Idle
<1>4. \A w \in Dispatchers, e \in Outbox!Events : lock[e] = w <=> OutboxHolding(w, e)
  BY DEF Outbox!Init, OutboxHolding, Outbox!Working, Outbox!Idle, Outbox!DispatchAssumption
<1>5. OutboxOutcomes BY DEF Outbox!Init, OutboxOutcomes, Outbox!GivenUp, Outbox!NoRow
<1> QED BY <1>2, <1>3, <1>4, <1>5 DEF OutboxInv

\* Rows are appended and come due; nobody has read such a row as due.
LEMMA OutboxRowSteps ==
  ASSUME Outbox!DispatchAssumption, OutboxInv, NEW e \in Outbox!Events,
         Outbox!AppendEvent(e) \/ Outbox!ClockReaches(e)
  PROVE  OutboxInv'
<1>1. /\ outbox \in [Outbox!Events -> Outbox!Row] /\ ~Outbox!Due(e)
      /\ UNCHANGED <<handled, lock, dispatcher, mishaps>>
  BY OutboxTyped DEF Outbox!AppendEvent, Outbox!ClockReaches, Outbox!Due
<1>2. /\ outbox' \in [Outbox!Events -> Outbox!Row]
      /\ \A d \in Outbox!Events \ {e} : outbox'[d] = outbox[d]
      /\ outbox'[e].status # "PUBLISHED"
      /\ ~Outbox!GivenUp(e)'
  <2>1. CASE Outbox!AppendEvent(e)
    BY <1>1, <2>1 DEF Outbox!AppendEvent, Outbox!Row, Outbox!Status, Outbox!NextRetry, Outbox!GivenUp,
       Outbox!DispatchAssumption
  <2>2. CASE Outbox!ClockReaches(e)
    BY <1>1, <2>2 DEF Outbox!ClockReaches, Outbox!Row, Outbox!Status, Outbox!NextRetry, Outbox!GivenUp,
       OutboxInv, OutboxOutcomes
  <2> QED BY <2>1, <2>2
<1>3. Outbox!TypeOK' BY <1>1, <1>2 DEF OutboxInv, Outbox!TypeOK
<1>4. ASSUME NEW w \in Dispatchers
      PROVE  /\ OutboxWorks(w)' /\ OutboxReadsDue(w)'
             /\ \A d \in Outbox!Events : lock'[d] = w <=> OutboxHolding(w, d)'
  <2>1. OutboxWorks(w) /\ OutboxReadsDue(w) /\ \A d \in Outbox!Events : lock[d] = w <=> OutboxHolding(w, d)
    BY DEF OutboxInv
  <2>2. dispatcher[w].pc \in {"handling", "done", "threw"} /\ dispatcher[w].linked
          => Outbox!Current(w) \in Outbox!Events \ {e}
    BY <1>1, <2>1, OutboxCurrentIsEvent DEF OutboxReadsDue
  <2>3. OutboxReadsDue(w)' BY <1>1, <1>2, <2>1, <2>2 DEF OutboxReadsDue, Outbox!Current, Outbox!Due
  <2> QED BY <1>1, <2>1, <2>3 DEF OutboxWorks, OutboxHolding, Outbox!Current
<1>5. OutboxOutcomes' BY <1>1, <1>2 DEF OutboxInv, OutboxOutcomes, Outbox!GivenUp
<1> QED BY <1>3, <1>4, <1>5 DEF OutboxInv

\* A process that moves on with its lock.
OutboxGoes(w, p) ==
  /\ p \in OutboxProcesses
  /\ p.batch = dispatcher[w].batch
  /\ p.pc \notin {"idle", "next"}
  /\ dispatcher' = [dispatcher EXCEPT ![w] = p]

\* A process that keeps, takes or loses its lock keeps the rows.
LEMMA OutboxGoingIsSound ==
  ASSUME Outbox!DispatchAssumption, OutboxInv, NEW w \in Dispatchers, NEW p, dispatcher[w].pc # "idle",
         OutboxGoes(w, p),
         UNCHANGED outbox, mishaps' \in 0..Mishaps, handled' \in [Outbox!Events -> BOOLEAN],
         \A e \in Outbox!Events : handled[e] => handled'[e],
         lock' \in [Outbox!Events -> Dispatchers \cup {Outbox!Free}],
         \A e \in Outbox!Events : lock'[e] = w <=> p.linked /\ e = Outbox!Current(w),
         \A u \in Dispatchers \ {w}, e \in Outbox!Events : lock'[e] = u <=> lock[e] = u,
         p.pc = "done" => handled'[Outbox!Current(w)],
         p.pc \in {"handling", "done", "threw"} /\ p.linked
           => outbox[Outbox!Current(w)] = p.read /\ Outbox!Due(Outbox!Current(w))
  PROVE  OutboxInv'
<1>1. /\ dispatcher' \in [Dispatchers -> OutboxProcesses]
      /\ dispatcher'[w] = p
      /\ \A u \in Dispatchers \ {w} : dispatcher'[u] = dispatcher[u] /\ Outbox!Current(u)' = Outbox!Current(u)
  BY OutboxMoves DEF OutboxGoes
<1>2. Outbox!Current(w)' = Outbox!Current(w) BY <1>1 DEF Outbox!Current, OutboxGoes
<1>3. Outbox!TypeOK' BY <1>1 DEF OutboxInv, Outbox!TypeOK, OutboxProcesses
<1>4. OutboxWorks(w)' /\ OutboxReadsDue(w)' /\ \A e \in Outbox!Events : lock'[e] = w <=> OutboxHolding(w, e)'
  <2>1. p.pc \in Outbox!Working /\ dispatcher[w].batch # {}
    BY DEF OutboxGoes, OutboxProcesses, OutboxInv, OutboxWorks
  <2>2. OutboxWorks(w)' BY <1>1, <1>2, <2>1 DEF OutboxWorks, OutboxGoes
  <2>3. OutboxReadsDue(w)' BY <1>1, <1>2 DEF OutboxReadsDue, Outbox!Due
  <2> QED BY <1>1, <1>2, <2>1, <2>2, <2>3 DEF OutboxHolding
<1>5. ASSUME NEW u \in Dispatchers \ {w}
      PROVE  /\ OutboxWorks(u)' /\ OutboxReadsDue(u)'
             /\ \A e \in Outbox!Events : lock'[e] = u <=> OutboxHolding(u, e)'
  <2>1. dispatcher'[u] = dispatcher[u] /\ Outbox!Current(u)' = Outbox!Current(u) BY <1>1
  <2>2. OutboxWorks(u) /\ OutboxReadsDue(u) /\ \A e \in Outbox!Events : lock[e] = u <=> OutboxHolding(u, e)
    BY DEF OutboxInv
  <2>3. dispatcher[u].pc = "done" => Outbox!Current(u) \in Outbox!Events BY OutboxCurrentIsEvent
  <2>4. OutboxWorks(u)' BY <2>1, <2>2, <2>3 DEF OutboxWorks
  <2> QED BY <2>1, <2>2, <2>4 DEF OutboxReadsDue, Outbox!Due, OutboxHolding
<1>6. OutboxOutcomes' BY DEF OutboxInv, OutboxOutcomes, Outbox!GivenUp
<1> QED BY <1>3, <1>4, <1>5, <1>6 DEF OutboxInv

--------------------------------
LEMMA OutboxPollStep ==
  ASSUME Outbox!DispatchAssumption, OutboxInv, NEW w \in Dispatchers, Outbox!Poll(w)
  PROVE  OutboxInv'
<1>1. PICK found \in SUBSET Outbox!Events :
        /\ found # {} /\ dispatcher[w].pc = "idle"
        /\ dispatcher' = [dispatcher EXCEPT ![w].pc = "next", ![w].batch = found]
        /\ UNCHANGED <<outbox, handled, lock, mishaps>>
  <2>1. Outbox!OldestFirst({e \in Outbox!Events : Outbox!Due(e)}) \in SUBSET Outbox!Events
    BY DEF Outbox!OldestFirst
  <2> QED BY <2>1 DEF Outbox!Poll
<1>2. dispatcher[w] \in OutboxProcesses /\ dispatcher \in [Dispatchers -> OutboxProcesses] /\ dispatcher[w].linked
  BY <1>1, OutboxTyped DEF OutboxInv, OutboxWorks
<1> DEFINE p == [dispatcher[w] EXCEPT !.pc = "next", !.batch = found]
<1>3. p \in OutboxProcesses /\ p.pc = "next" /\ p.batch = found /\ p.linked  BY <1>2 DEF OutboxProcesses
<1>4. dispatcher' = [dispatcher EXCEPT ![w] = p] BY <1>1, <1>2 DEF OutboxProcesses
<1>5. \A e \in Outbox!Events : ~OutboxHolding(w, e) BY <1>1 DEF OutboxHolding, Outbox!Working
<1>6. lock' = Outbox!Freed(w) BY <1>1, <1>5, OutboxFreedIs
<1> HIDE DEF p
<1>7. OutboxLeaves(w, p) BY <1>1, <1>3, <1>4, <1>6 DEF OutboxLeaves
<1>8. outbox' \in [Outbox!Events -> Outbox!Row] /\ mishaps' \in 0..Mishaps /\ OutboxOutcomes'
  BY <1>1, OutboxTyped DEF OutboxInv, OutboxOutcomes, Outbox!GivenUp
<1> QED BY <1>1, <1>7, <1>8, OutboxLeavingIsSound

LEMMA OutboxGoingOn ==
  ASSUME Outbox!DispatchAssumption, OutboxInv, NEW w \in Dispatchers, dispatcher[w].pc # "idle",
         Outbox!Continue(w),
         \/ lock' = Outbox!Freed(w)
         \/ UNCHANGED lock /\ \A e \in Outbox!Events : ~OutboxHolding(w, e)
         \/ Outbox!Unlock(w) /\ dispatcher[w].pc \in Outbox!Working /\ dispatcher[w].linked,
         UNCHANGED <<handled, mishaps>>,
         outbox' \in [Outbox!Events -> Outbox!Row], OutboxOutcomes',
         \A e \in Outbox!Events : outbox'[e] # outbox[e] => lock[e] = w
  PROVE  OutboxInv'
<1>1. lock' = Outbox!Freed(w) BY OutboxFreedIs DEF Outbox!Unlock
<1>2. PICK p : OutboxLeaves(w, p) BY <1>1, OutboxContinues
<1>3. mishaps' \in 0..Mishaps BY OutboxTyped
<1> QED BY <1>2, <1>3, OutboxLeavingIsSound

LEMMA OutboxTryLockStep ==
  ASSUME Outbox!DispatchAssumption, OutboxInv, NEW w \in Dispatchers, Outbox!TryLock(w)
  PROVE  OutboxInv'
<1>1. dispatcher[w].pc = "next" /\ UNCHANGED <<outbox, handled, mishaps>> BY DEF Outbox!TryLock
<1>2. \A e \in Outbox!Events : ~OutboxHolding(w, e) BY <1>1 DEF OutboxHolding, Outbox!Working
<1>3. Outbox!Current(w) \in Outbox!Events BY <1>1, OutboxCurrentIsEvent
<1>4. CASE Outbox!Continue(w) /\ UNCHANGED lock
  BY <1>1, <1>2, <1>4, OutboxGoingOn, OutboxTyped DEF OutboxInv, OutboxOutcomes, Outbox!GivenUp
<1>5. CASE /\ lock[Outbox!Current(w)] = Outbox!Free
           /\ lock' = [lock EXCEPT ![Outbox!Current(w)] = w]
           /\ dispatcher' = [dispatcher EXCEPT ![w].pc = "locked"]
  <2> DEFINE p == [dispatcher[w] EXCEPT !.pc = "locked"]
  <2>1. dispatcher[w] \in OutboxProcesses /\ dispatcher \in [Dispatchers -> OutboxProcesses]
     /\ dispatcher[w].linked
    BY <1>1, OutboxTyped DEF OutboxInv, OutboxWorks
  <2>2. p \in OutboxProcesses /\ p.pc = "locked" /\ p.batch = dispatcher[w].batch /\ p.linked
    BY <2>1 DEF OutboxProcesses, Outbox!Working
  <2>3. dispatcher' = [dispatcher EXCEPT ![w] = p] BY <1>5, <2>1 DEF OutboxProcesses
  <2> HIDE DEF p
  <2>4. lock \in [Outbox!Events -> Dispatchers \cup {Outbox!Free}] /\ Outbox!Free \notin Dispatchers
    BY OutboxTyped DEF Outbox!DispatchAssumption
  <2>5. \A e \in Outbox!Events : lock[e] # w BY <1>2 DEF OutboxInv
  <2>6. /\ lock' \in [Outbox!Events -> Dispatchers \cup {Outbox!Free}]
        /\ \A e \in Outbox!Events : lock'[e] = w <=> e = Outbox!Current(w)
        /\ \A u \in Dispatchers \ {w}, e \in Outbox!Events : lock'[e] = u <=> lock[e] = u
    BY <1>3, <1>5, <2>4, <2>5
  <2> QED BY <1>1, <2>2, <2>3, <2>6, OutboxGoingIsSound, OutboxTyped DEF OutboxGoes
<1> QED BY <1>1, <1>4, <1>5 DEF Outbox!TryLock

LEMMA OutboxReadRowStep ==
  ASSUME Outbox!DispatchAssumption, OutboxInv, NEW w \in Dispatchers, Outbox!ReadRow(w)
  PROVE  OutboxInv'
<1>1. dispatcher[w].pc = "locked" /\ dispatcher[w].linked /\ UNCHANGED <<outbox, handled, mishaps>>
  BY DEF Outbox!ReadRow
<1>2. Outbox!Current(w) \in Outbox!Events BY <1>1, OutboxCurrentIsEvent
<1>3. CASE Outbox!Continue(w) /\ Outbox!Unlock(w)
  BY <1>1, <1>3, OutboxGoingOn, OutboxTyped DEF OutboxInv, OutboxOutcomes, Outbox!GivenUp, Outbox!Working
<1>4. CASE /\ Outbox!Due(Outbox!Current(w))
           /\ dispatcher' = [dispatcher EXCEPT ![w].pc = "handling", ![w].read = outbox[Outbox!Current(w)]]
           /\ UNCHANGED lock
  <2> DEFINE p == [dispatcher[w] EXCEPT !.pc = "handling", !.read = outbox[Outbox!Current(w)]]
  <2>1. dispatcher[w] \in OutboxProcesses /\ dispatcher \in [Dispatchers -> OutboxProcesses]
     /\ outbox[Outbox!Current(w)] \in Outbox!Row
    BY <1>2, OutboxTyped
  <2>2. /\ p \in OutboxProcesses /\ p.pc = "handling" /\ p.batch = dispatcher[w].batch
        /\ p.linked /\ p.read = outbox[Outbox!Current(w)]
    BY <1>1, <2>1 DEF OutboxProcesses, Outbox!Working
  <2>3. dispatcher' = [dispatcher EXCEPT ![w] = p] BY <1>4, <2>1 DEF OutboxProcesses
  <2> HIDE DEF p
  <2>4. \A e \in Outbox!Events : lock[e] = w <=> e = Outbox!Current(w)
    BY <1>1 DEF OutboxInv, OutboxHolding, Outbox!Working
  <2> QED BY <1>1, <1>4, <2>2, <2>3, <2>4, OutboxGoingIsSound, OutboxTyped DEF OutboxGoes
<1> QED BY <1>3, <1>4 DEF Outbox!ReadRow

LEMMA OutboxRunHandlerStep ==
  ASSUME Outbox!DispatchAssumption, OutboxInv, NEW w \in Dispatchers, Outbox!RunHandler(w)
  PROVE  OutboxInv'
<1>1. PICK effect \in BOOLEAN, outcome \in {"done", "threw"} :
        /\ dispatcher[w].pc = "handling" /\ UNCHANGED <<outbox, lock, mishaps>>
        /\ effect \/ outcome = "threw"
        /\ handled' = [handled EXCEPT ![Outbox!Current(w)] = @ \/ effect]
        /\ dispatcher' = [dispatcher EXCEPT ![w].pc = outcome]
  BY DEF Outbox!RunHandler
<1>2. Outbox!Current(w) \in Outbox!Events BY <1>1, OutboxCurrentIsEvent
<1> DEFINE p == [dispatcher[w] EXCEPT !.pc = outcome]
<1>3. dispatcher[w] \in OutboxProcesses /\ dispatcher \in [Dispatchers -> OutboxProcesses]  BY OutboxTyped
<1>4. /\ p \in OutboxProcesses /\ p.pc = outcome /\ p.batch = dispatcher[w].batch
      /\ p.linked = dispatcher[w].linked /\ p.read = dispatcher[w].read
  BY <1>3 DEF OutboxProcesses, Outbox!Working
<1>5. dispatcher' = [dispatcher EXCEPT ![w] = p] BY <1>1, <1>3 DEF OutboxProcesses
<1> HIDE DEF p
<1>6. handled \in [Outbox!Events -> BOOLEAN] BY OutboxTyped
<1>7. (handled[Outbox!Current(w)] \/ effect) \in BOOLEAN BY Zenon
<1>8. /\ handled' \in [Outbox!Events -> BOOLEAN]
      /\ \A e \in Outbox!Events : handled[e] => handled'[e]
      /\ effect => handled'[Outbox!Current(w)]
  BY <1>1, <1>2, <1>6, <1>7
<1>9. \A e \in Outbox!Events : lock[e] = w <=> dispatcher[w].linked /\ e = Outbox!Current(w)
  BY <1>1 DEF OutboxInv, OutboxHolding, Outbox!Working
<1>10. dispatcher[w].linked => outbox[Outbox!Current(w)] = dispatcher[w].read /\ Outbox!Due(Outbox!Current(w))
  BY <1>1 DEF OutboxInv, OutboxReadsDue
<1>11. OutboxGoes(w, p) BY <1>1, <1>4, <1>5 DEF OutboxGoes
<1>12. p.pc = "done" => handled'[Outbox!Current(w)] BY <1>1, <1>4, <1>8
<1>13. /\ dispatcher[w].pc # "idle" /\ UNCHANGED outbox
       /\ mishaps' \in 0..Mishaps /\ lock' \in [Outbox!Events -> Dispatchers \cup {Outbox!Free}]
       /\ \A e \in Outbox!Events : lock'[e] = w <=> p.linked /\ e = Outbox!Current(w)
       /\ \A u \in Dispatchers \ {w}, e \in Outbox!Events : lock'[e] = u <=> lock[e] = u
  BY <1>1, <1>4, <1>9, OutboxTyped
<1> QED BY <1>4, <1>8, <1>10, <1>11, <1>12, <1>13, OutboxGoingIsSound

\* What the lock's owner writes of an event that was due when it read it.
LEMMA OutboxOutcomeIs ==
  ASSUME Outbox!DispatchAssumption, OutboxInv, NEW w \in Dispatchers, Outbox!RecordOutcome(w)
  PROVE  \E e \in Outbox!Events :
           /\ Outbox!Due(e) /\ lock[e] = w
           /\ outbox' \in [Outbox!Events -> Outbox!Row]
           /\ \A d \in Outbox!Events \ {e} : outbox'[d] = outbox[d]
           /\ outbox'[e].status = "PUBLISHED" => handled[e] /\ outbox'[e].next = "NULL"
           /\ outbox'[e].status = "FAILED" /\ outbox'[e].next = "NULL"
                => e \notin Lasting /\ outbox'[e].retries = Retries
<1> PICK e : e = Outbox!Current(w)
  OBVIOUS
<1>1. dispatcher[w].pc \in {"done", "threw"} /\ dispatcher[w].linked BY DEF Outbox!RecordOutcome
<1>2. e \in Outbox!Events BY <1>1, OutboxCurrentIsEvent
<1>3. Outbox!Due(e) /\ lock[e] = w /\ outbox[e] = dispatcher[w].read /\ (dispatcher[w].pc = "done" => handled[e])
  BY <1>1, <1>2 DEF OutboxInv, OutboxReadsDue, OutboxWorks, OutboxHolding, Outbox!Working
<1>4. outbox \in [Outbox!Events -> Outbox!Row] /\ outbox[e] \in Outbox!Row BY <1>2, OutboxTyped
<1>5. outbox[e].status # "PUBLISHED" /\ outbox[e].retries \in Nat /\ outbox[e].retries <= Retries
      /\ Retries \in Nat
  BY <1>3, <1>4 DEF Outbox!Due, Outbox!Row, Outbox!DispatchAssumption
<1>6. CASE dispatcher[w].pc = "threw"
  <2> DEFINE terminal == outbox[e].retries + 1 >= Retries /\ e \notin Lasting
             r == Outbox!Min({outbox[e].retries + 1, Retries})
  <2>1. r = IF outbox[e].retries + 1 <= Retries THEN outbox[e].retries + 1 ELSE Retries
    BY <1>5, OutboxLeastOfTwo
  <2>2. r \in 0..Retries /\ (outbox[e].retries + 1 >= Retries => r = Retries) BY <1>5, <2>1
  <2>3. outbox' = [outbox EXCEPT ![e] = Outbox!Failed(e, outbox[e])]
    BY <1>2, <1>3, <1>4, <1>5, <1>6 DEF Outbox!RecordOutcome
  <2>4. Outbox!Failed(e, outbox[e]) = [status |-> "FAILED", retries |-> r,
                           next |-> IF terminal THEN "NULL" ELSE "LATER"]
    BY DEF Outbox!Failed
  <2> HIDE DEF r
  <2>5. Outbox!Failed(e, outbox[e]) \in Outbox!Row
    BY <2>2, <2>4 DEF Outbox!Row, Outbox!Status, Outbox!NextRetry
  <2>6. outbox'[e] = Outbox!Failed(e, outbox[e]) /\ outbox' \in [Outbox!Events -> Outbox!Row]
     /\ \A d \in Outbox!Events \ {e} : outbox'[d] = outbox[d]
    BY <1>2, <1>4, <2>3, <2>5
  <2> QED BY <1>2, <1>3, <1>5, <2>2, <2>4, <2>6
<1>7. CASE dispatcher[w].pc = "done"
  <2>1. outbox' = [outbox EXCEPT ![e] = [outbox[e] EXCEPT !.status = "PUBLISHED", !.next = "NULL"]]
    BY <1>2, <1>3, <1>4, <1>5, <1>7 DEF Outbox!RecordOutcome
  <2>2. [outbox[e] EXCEPT !.status = "PUBLISHED", !.next = "NULL"] \in Outbox!Row
    BY <1>4 DEF Outbox!Row, Outbox!Status, Outbox!NextRetry
  <2>3. /\ outbox'[e] = [outbox[e] EXCEPT !.status = "PUBLISHED", !.next = "NULL"]
        /\ outbox' \in [Outbox!Events -> Outbox!Row] /\ \A d \in Outbox!Events \ {e} : outbox'[d] = outbox[d]
    BY <1>2, <1>4, <2>1, <2>2
  <2> QED BY <1>2, <1>3, <1>4, <1>7, <2>3 DEF Outbox!Row
<1> QED BY <1>1, <1>6, <1>7

LEMMA OutboxRecordOutcomeStep ==
  ASSUME Outbox!DispatchAssumption, OutboxInv, NEW w \in Dispatchers, Outbox!RecordOutcome(w)
  PROVE  OutboxInv'
<1>1. /\ dispatcher[w].pc \in {"done", "threw"} /\ dispatcher[w].linked
      /\ Outbox!Unlock(w) /\ Outbox!Continue(w) /\ UNCHANGED <<handled, mishaps>>
  BY DEF Outbox!RecordOutcome
<1>2. PICK e \in Outbox!Events :
           /\ lock[e] = w
           /\ outbox' \in [Outbox!Events -> Outbox!Row]
           /\ \A d \in Outbox!Events \ {e} : outbox'[d] = outbox[d]
           /\ outbox'[e].status = "PUBLISHED" => handled[e] /\ outbox'[e].next = "NULL"
           /\ outbox'[e].status = "FAILED" /\ outbox'[e].next = "NULL"
                => e \notin Lasting /\ outbox'[e].retries = Retries
  BY OutboxOutcomeIs
<1>3. OutboxOutcomes' BY <1>1, <1>2 DEF OutboxInv, OutboxOutcomes, Outbox!GivenUp
<1>4. \A d \in Outbox!Events : outbox'[d] # outbox[d] => lock[d] = w BY <1>2
<1> QED BY <1>1, <1>2, <1>3, <1>4, OutboxGoingOn DEF Outbox!Working

LEMMA OutboxEndSteps ==
  ASSUME Outbox!DispatchAssumption, OutboxInv, NEW w \in Dispatchers,
         Outbox!FindConnectionLost(w) \/ Outbox!Crash(w) \/ Outbox!Restart(w)
  PROVE  OutboxInv'
<1>1. dispatcher[w] \in OutboxProcesses /\ UNCHANGED <<outbox, handled>> /\ mishaps \in 0..Mishaps
  BY OutboxTyped DEF Outbox!FindConnectionLost, Outbox!Crash, Outbox!Restart
<1>2. mishaps' \in 0..Mishaps
  BY <1>1 DEF Outbox!FindConnectionLost, Outbox!Crash, Outbox!Restart, Outbox!Fault, Outbox!DispatchAssumption
<1>3. PICK p : /\ dispatcher' = [dispatcher EXCEPT ![w] = p]
               /\ p = Outbox!Idle \/ \E stopping \in BOOLEAN : p = [Outbox!Idle EXCEPT !.stopping = stopping]
  BY <1>1 DEF Outbox!FindConnectionLost, Outbox!AbortPoll, Outbox!Crash, Outbox!Restart, OutboxProcesses
<1>4. lock' = Outbox!Freed(w)
  <2>1. CASE Outbox!FindConnectionLost(w)  BY <2>1, OutboxFreedIs DEF Outbox!FindConnectionLost, OutboxHolding
  <2>2. CASE Outbox!Crash(w) BY <2>2 DEF Outbox!Crash
  <2>3. CASE Outbox!Restart(w)  BY <2>3, OutboxFreedIs DEF Outbox!Restart, OutboxHolding, Outbox!Working
  <2> QED BY <2>1, <2>2, <2>3
<1>5. OutboxLeaves(w, p) BY <1>1, <1>3, <1>4, OutboxEnds
<1>6. outbox' \in [Outbox!Events -> Outbox!Row] /\ OutboxOutcomes'
  BY <1>1, OutboxTyped DEF OutboxInv, OutboxOutcomes, Outbox!GivenUp
<1> QED BY <1>1, <1>2, <1>5, <1>6, OutboxLeavingIsSound

LEMMA OutboxLoseConnectionStep ==
  ASSUME Outbox!DispatchAssumption, OutboxInv, NEW w \in Dispatchers, Outbox!LoseConnection(w)
  PROVE  OutboxInv'
<1>1. /\ dispatcher[w].pc \in Outbox!Working /\ dispatcher[w].linked
      /\ dispatcher' = [dispatcher EXCEPT ![w].linked = FALSE]
      /\ lock' = Outbox!Freed(w) /\ UNCHANGED <<outbox, handled>> /\ mishaps' \in 0..Mishaps
  BY OutboxTyped DEF Outbox!LoseConnection, Outbox!Fault, Outbox!DispatchAssumption
<1> DEFINE p == [dispatcher[w] EXCEPT !.linked = FALSE]
<1>2. dispatcher[w] \in OutboxProcesses /\ dispatcher \in [Dispatchers -> OutboxProcesses]  BY OutboxTyped
<1>3. p \in OutboxProcesses /\ p.pc = dispatcher[w].pc /\ p.batch = dispatcher[w].batch /\ p.linked = FALSE
  BY <1>2 DEF OutboxProcesses
<1>4. dispatcher' = [dispatcher EXCEPT ![w] = p] BY <1>1, <1>2 DEF OutboxProcesses
<1> HIDE DEF p
<1>5. dispatcher[w].pc \notin {"idle", "next"} /\ Outbox!Current(w) \in Outbox!Events
  BY <1>1, OutboxCurrentIsEvent DEF Outbox!Working
<1>6. /\ lock' \in [Outbox!Events -> Dispatchers \cup {Outbox!Free}]
      /\ \A e \in Outbox!Events : lock'[e] # w
      /\ \A u \in Dispatchers \ {w}, e \in Outbox!Events : lock'[e] = u <=> lock[e] = u
  BY <1>1, OutboxTyped DEF Outbox!Freed, Outbox!DispatchAssumption
<1>7. dispatcher[w].pc = "done" => handled[Outbox!Current(w)] BY DEF OutboxInv, OutboxWorks
<1>8. OutboxGoes(w, p) /\ \A e \in Outbox!Events : lock'[e] = w <=> p.linked /\ e = Outbox!Current(w)
  BY <1>3, <1>4, <1>5, <1>6 DEF OutboxGoes
<1>9. handled' \in [Outbox!Events -> BOOLEAN] /\ handled' = handled BY <1>1, OutboxTyped
<1> QED BY <1>1, <1>3, <1>5, <1>6, <1>7, <1>8, <1>9, OutboxGoingIsSound

LEMMA OutboxShutdownStep ==
  ASSUME Outbox!DispatchAssumption, OutboxInv, NEW w \in Dispatchers, Outbox!Shutdown(w)
  PROVE  OutboxInv'
<1>1. /\ dispatcher' = [dispatcher EXCEPT ![w].stopping = TRUE]
      /\ UNCHANGED <<outbox, handled, lock>> /\ mishaps' \in 0..Mishaps
  BY OutboxTyped DEF Outbox!Shutdown, Outbox!Fault, Outbox!DispatchAssumption
<1>2. dispatcher[w] \in OutboxProcesses /\ dispatcher \in [Dispatchers -> OutboxProcesses]  BY OutboxTyped
<1>3. /\ dispatcher' \in [Dispatchers -> OutboxProcesses]
      /\ \A u \in Dispatchers : /\ dispatcher'[u].pc = dispatcher[u].pc
                                    /\ dispatcher'[u].batch = dispatcher[u].batch
                                 /\ dispatcher'[u].linked = dispatcher[u].linked
                                     /\ dispatcher'[u].read = dispatcher[u].read
  BY <1>1, <1>2 DEF OutboxProcesses
<1>4. Outbox!TypeOK' BY <1>1, <1>3 DEF OutboxInv, Outbox!TypeOK, OutboxProcesses
<1>5. \A u \in Dispatchers : Outbox!Current(u)' = Outbox!Current(u) BY <1>3 DEF Outbox!Current
<1>6. \A u \in Dispatchers : OutboxWorks(u)' /\ OutboxReadsDue(u)'
  BY <1>1, <1>3, <1>5 DEF OutboxInv, OutboxWorks, OutboxReadsDue, Outbox!Due
<1>7. \A u \in Dispatchers, e \in Outbox!Events : lock'[e] = u <=> OutboxHolding(u, e)'
  BY <1>1, <1>3, <1>5 DEF OutboxInv, OutboxHolding
<1>8. OutboxOutcomes' BY <1>1 DEF OutboxInv, OutboxOutcomes, Outbox!GivenUp
<1> QED BY <1>4, <1>6, <1>7, <1>8 DEF OutboxInv

LEMMA OutboxStepwise == Outbox!DispatchAssumption /\ OutboxInv /\ [Outbox!Next]_Outbox!vars => OutboxInv'
<1> SUFFICES ASSUME Outbox!DispatchAssumption, OutboxInv, [Outbox!Next]_Outbox!vars PROVE OutboxInv'
  OBVIOUS
<1>1. CASE UNCHANGED Outbox!vars
  BY <1>1 DEF Outbox!vars, OutboxInv, Outbox!TypeOK, OutboxWorks, OutboxReadsDue, OutboxHolding,
     Outbox!Current, Outbox!Due, OutboxOutcomes, Outbox!GivenUp
<1>2. ASSUME NEW e \in Outbox!Events, Outbox!AppendEvent(e) \/ Outbox!ClockReaches(e) PROVE OutboxInv'
  BY <1>2, OutboxRowSteps
<1>3. ASSUME NEW w \in Dispatchers, Outbox!Step(w) PROVE OutboxInv'
  BY <1>3, OutboxPollStep, OutboxTryLockStep, OutboxReadRowStep, OutboxRunHandlerStep, OutboxRecordOutcomeStep,
     OutboxEndSteps DEF Outbox!Step
<1>4. ASSUME NEW w \in Dispatchers,
             Outbox!LoseConnection(w) \/ Outbox!Crash(w) \/ Outbox!Shutdown(w) PROVE OutboxInv'
  BY <1>4, OutboxLoseConnectionStep, OutboxEndSteps, OutboxShutdownStep
<1> QED BY <1>1, <1>2, <1>3, <1>4 DEF Outbox!Next

\* What the invariant says of the run's properties.
LEMMA OutboxMeans ==
  Outbox!DispatchAssumption /\ OutboxInv => Outbox!TypeOK /\ Outbox!ReadRowIsCurrent /\ Outbox!NoLockIsLeaked
     /\ Outbox!NoneForgotten
<1> SUFFICES ASSUME Outbox!DispatchAssumption, OutboxInv
             PROVE  Outbox!TypeOK /\ Outbox!ReadRowIsCurrent /\ Outbox!NoLockIsLeaked /\ Outbox!NoneForgotten
  OBVIOUS
<1>1. Outbox!ReadRowIsCurrent BY DEF OutboxInv, OutboxReadsDue, Outbox!ReadRowIsCurrent
<1>2. Outbox!NoLockIsLeaked
  <2> SUFFICES ASSUME NEW e \in Outbox!Events, lock[e] # Outbox!Free
               PROVE  LET w == lock[e] IN dispatcher[w].pc \in Outbox!Working /\ dispatcher[w].linked
                  /\ Outbox!Current(w) = e
    BY DEF Outbox!NoLockIsLeaked
  <2>1. lock[e] \in Dispatchers BY OutboxTyped
  <2>2. OutboxHolding(lock[e], e) BY <2>1 DEF OutboxInv
  <2> QED BY <2>2 DEF OutboxHolding
<1>3. Outbox!NoneForgotten BY DEF OutboxInv, OutboxOutcomes, Outbox!NoneForgotten
<1> QED BY <1>1, <1>2, <1>3 DEF OutboxInv

\* Only the row of a due event is written by the dispatcher.
LEMMA OutboxOutcomesStand ==
  ASSUME Outbox!DispatchAssumption, OutboxInv, [Outbox!Next]_Outbox!vars, NEW e \in Outbox!Events,
         outbox[e].status = "PUBLISHED" \/ Outbox!GivenUp(e)
  PROVE  outbox'[e] = outbox[e]
<1>1. outbox \in [Outbox!Events -> Outbox!Row] /\ ~Outbox!Due(e)
  BY OutboxTyped DEF Outbox!Due, Outbox!GivenUp
<1>2. CASE UNCHANGED outbox BY <1>2
<1>3. ASSUME NEW d \in Outbox!Events,
             Outbox!AppendEvent(d) \/ Outbox!ClockReaches(d) PROVE outbox'[e] = outbox[e]
  <2>1. d # e  BY <1>3 DEF Outbox!AppendEvent, Outbox!ClockReaches, Outbox!GivenUp, OutboxInv, OutboxOutcomes
  <2> QED BY <1>1, <1>3, <2>1 DEF Outbox!AppendEvent, Outbox!ClockReaches
<1>4. ASSUME NEW w \in Dispatchers, Outbox!RecordOutcome(w) PROVE outbox'[e] = outbox[e]
  BY <1>1, <1>4, OutboxOutcomeIs
<1> QED BY <1>2, <1>3, <1>4 DEF Outbox!Next, Outbox!vars, Outbox!Step, Outbox!Poll, Outbox!TryLock,
   Outbox!ReadRow, Outbox!RunHandler, Outbox!FindConnectionLost, Outbox!Restart, Outbox!LoseConnection,
   Outbox!Crash, Outbox!Shutdown

--------------------------------
\* The uploaded files: what a completion or a sweep has seen of the row
\* and deleted of the object is true while its lease stands.

\* The operators of the libraries, as the two instances name them.
LEMMA AssetsLeastOfTwo ==
  ASSUME NEW m \in Nat, NEW n \in Nat
  PROVE  Assets!Min({m, n}) = IF m <= n THEN m ELSE n
BY OutboxLeastOfTwo DEF Assets!Min, Outbox!Min

LEMMA AssetsFinitePart ==
  ASSUME NEW S, NEW T \in SUBSET S, Assets!IsFiniteSet(S)
  PROVE  Assets!IsFiniteSet(T) /\ Assets!Cardinality(T) \in Nat
<1>1. \A U : Assets!IsFiniteSet(U) = IsFiniteSet(U) BY DEF Assets!IsFiniteSet, IsFiniteSet
<1>2. Assets!Cardinality(T) = Cardinality(T) BY DEF Assets!Cardinality, Cardinality
<1>3. IsFiniteSet(T) /\ Cardinality(T) \in Nat BY <1>1, FS_Subset, FS_CardinalityType
<1> QED BY <1>1, <1>2, <1>3

AssetsGone(f) == file[f].status \in {"REJECTED", "DELETED"}

\* What a row says of its file: a READY one is stored, only such a one is
\* attached, and nothing is uploaded any more once it is rejected.
AssetsFileSound(f) ==
  /\ file[f].status = "READY" => object[f].final = "declared"
  /\ file[f].attached => file[f].status = "READY"
  /\ file[f].status = "DELETED" \/ (file[f].status = "REJECTED" /\ file[f].key = "staging")
       => object[f].staging = "none" /\ object[f].final = "none"
  /\ AssetsGone(f) => age[f] # "fresh"

\* While its lease stands, a completion finds the row as it inspected it, and
\* the object it copied.  A QR code has one request, and is not READY before it.
AssetsRequestSound(r) ==
  LET f == completion[r].file IN
  /\ IF completion[r].pc = "idle" THEN f = Nobody ELSE f \in Pictures
  /\ completion[r].pc \in {"inspected", "copied"} /\ fileLease[f] = r => file[f].status = "PENDING"
  /\ completion[r].pc = "copied" /\ fileLease[f] = r => object[f].final = "declared"
  /\ completion[r].pc = "replayed" => f \in Codes
  /\ completion[r].pc # "idle" /\ f \in Codes => file[f].status # "NONE"
  /\ completion[r].pc \notin {"idle", "committed", "done"} /\ f \in Codes => file[f].status # "READY"

AssetsOneRequest ==
  \A r, q \in Completions :
    completion[r].file = completion[q].file /\ completion[r].file \in Codes => r = q

\* While its lease stands, a sweep finds the row as it rechecked it, and what
\* it has deleted stays deleted.
AssetsSweepSound(w) ==
  LET f == Assets!Current(w) IN
  /\ cleaner[w].batch # <<>> => cleaner[w].phase # "idle"
  /\ cleaner[w].batch # <<>> /\ cleaner[w].pc = "checked" => cleaner[w].phase # "staging"
  /\ cleaner[w].batch # <<>> /\ cleaner[w].pc \in {"checked", "half", "bare"}
       /\ cleaner[w].phase # "staging" =>
      /\ age[f] # "fresh"
      /\ fileLease[f] = w =>
           /\ file[f].status = IF cleaner[w].phase = "pending" THEN "PENDING" ELSE "REJECTED"
           /\ cleaner[w].pc # "checked" => object[f].final = "none"
           /\ cleaner[w].pc = "bare" => object[f].staging = "none"

AssetsInv ==
  /\ Assets!TypeOK
  /\ \A f \in Pictures : AssetsFileSound(f)
  /\ \A r \in Completions : AssetsRequestSound(r)
  /\ AssetsOneRequest
  /\ \A w \in Cleaners : AssetsSweepSound(w)

--------------------------------
LEMMA AssetsTyped ==
  ASSUME AssetsInv
  PROVE  /\ file \in [Pictures -> Assets!Row] /\ object \in [Pictures -> Assets!Object]
         /\ age \in [Pictures -> {"fresh", "aged", "ripe"}] /\ event \in [Pictures -> Assets!Event]
         /\ ready \in Seq(Pictures) /\ fileLease \in [Pictures -> Completions \cup Cleaners \cup {Nobody}]
         /\ completion \in [Completions -> Assets!Request] /\ cleaner \in [Cleaners -> Assets!Worker]
         /\ slips \in 0..Slips
BY DEF AssetsInv, Assets!TypeOK

LEMMA AssetsCurrentIsFile ==
  ASSUME AssetsInv, NEW w \in Cleaners, cleaner[w].batch # <<>>
  PROVE  /\ Assets!Current(w) \in Pictures
         /\ Tail(cleaner[w].batch) \in Seq(Pictures)
<1>1. cleaner[w] \in Assets!Worker BY AssetsTyped
<1>2. cleaner[w].batch \in Seq(Pictures) BY <1>1 DEF Assets!Worker
<1> QED BY <1>2 DEF Assets!Current

\* What a phase finds is a batch of files.
LEMMA AssetsBatchIsOfFiles ==
  ASSUME Assets!FilesAssumption, AssetsInv, NEW phase, NEW batch \in Assets!Batches(Assets!Listed(phase))
  PROVE  batch \in Seq(Pictures) /\ (Assets!Listed(phase) = {} => batch = <<>>)
<1> DEFINE found == Assets!Listed(phase)
<1>1. ready \in Seq(Pictures) BY AssetsTyped
<1>2. Assets!ToSet(ready) \subseteq Pictures BY <1>1 DEF Assets!ToSet
<1>3. found \subseteq Pictures BY <1>2 DEF Assets!Listed
<1>4. Assets!IsFiniteSet(found) /\ Assets!Cardinality(found) \in Nat
  BY <1>3, AssetsFinitePart DEF Assets!FilesAssumption
<1>5. Assets!Min({Batch, Assets!Cardinality(found)}) \in Nat
  BY <1>4, AssetsLeastOfTwo DEF Assets!FilesAssumption
<1>6. batch \in [1..Assets!Min({Batch, Assets!Cardinality(found)}) -> found] BY DEF Assets!Batches
<1> HIDE DEF found
<1>7. batch \in Seq(Pictures)
  <2>1. PICK n \in Nat : n = Assets!Min({Batch, Assets!Cardinality(found)}) BY <1>5
  <2>2. batch \in [1..n -> Pictures] BY <1>3, <1>6, <2>1
  <2> QED BY <2>1, <2>2, SeqDef
<1>8. ASSUME found = {} PROVE batch = <<>>
  <2>1. DOMAIN batch = {} BY <1>6, <1>8
  <2> QED BY <1>7, <2>1
<1> QED BY <1>7, <1>8 DEF found

LEMMA AssetsInitially == Assets!FilesAssumption /\ Assets!Init => AssetsInv
<1> SUFFICES ASSUME Assets!FilesAssumption, Assets!Init PROVE AssetsInv
  OBVIOUS
<1>1. Assets!TypeOK
  BY DEF Assets!Init, Assets!TypeOK, Assets!Row, Assets!Statuses, Assets!Object, Assets!Event,
     Assets!Request, Assets!IdleRequest, Assets!Worker, Assets!Phases, Assets!IdleWorker,
     Assets!FilesAssumption
<1>2. \A f \in Pictures : AssetsFileSound(f) BY DEF Assets!Init, AssetsFileSound, AssetsGone
<1>3. \A r \in Completions : AssetsRequestSound(r)
  BY DEF Assets!Init, AssetsRequestSound, Assets!IdleRequest, Assets!FilesAssumption
<1>4. AssetsOneRequest  BY DEF Assets!Init, AssetsOneRequest, Assets!IdleRequest, Assets!FilesAssumption
<1>5. \A w \in Cleaners : AssetsSweepSound(w)  BY DEF Assets!Init, AssetsSweepSound, Assets!IdleWorker
<1> QED BY <1>1, <1>2, <1>3, <1>4, <1>5 DEF AssetsInv

--------------------------------
\* The uploader, the clock and the business rows.

LEMMA AssetsIntentStep ==
  ASSUME Assets!FilesAssumption, AssetsInv, NEW f \in Pictures, Assets!CreateIntent(f)
  PROVE  AssetsInv'
<1>1. /\ file[f].status = "NONE" /\ f \notin Codes
      /\ file' = [file EXCEPT ![f].status = "PENDING"]
      /\ UNCHANGED <<object, age, event, ready, fileLease, completion, cleaner, slips>>
  BY DEF Assets!CreateIntent
<1>2. file \in [Pictures -> Assets!Row] BY AssetsTyped
<1>3. /\ file' \in [Pictures -> Assets!Row]
      /\ file'[f].status = "PENDING" /\ file'[f].key = file[f].key /\ file'[f].attached = file[f].attached
      /\ \A g \in Pictures \ {f} : file'[g] = file[g]
  BY <1>1, <1>2 DEF Assets!Row, Assets!Statuses
<1>4. Assets!TypeOK' BY <1>1, <1>3 DEF AssetsInv, Assets!TypeOK
<1>5. \A g \in Pictures : AssetsFileSound(g)'  BY <1>1, <1>3 DEF AssetsInv, AssetsFileSound, AssetsGone
<1>6. \A r \in Completions : AssetsRequestSound(r)' BY <1>1, <1>3 DEF AssetsInv, AssetsRequestSound
<1>7. AssetsOneRequest' BY <1>1 DEF AssetsInv, AssetsOneRequest
<1>8. \A w \in Cleaners : AssetsSweepSound(w)'
  BY <1>1, <1>3, AssetsCurrentIsFile DEF AssetsInv, AssetsSweepSound, Assets!Current
<1> QED BY <1>4, <1>5, <1>6, <1>7, <1>8 DEF AssetsInv

LEMMA AssetsOutsideSteps ==
  ASSUME Assets!FilesAssumption, AssetsInv, NEW f \in Pictures,
         Assets!PutObject(f) \/ Assets!GrowOld(f) \/ Assets!EventComesDue(f)
  PROVE  AssetsInv'
<1>1. UNCHANGED <<file, ready, fileLease, completion, cleaner, slips>>
  BY DEF Assets!PutObject, Assets!GrowOld, Assets!EventComesDue
<1>2. /\ object \in [Pictures -> Assets!Object] /\ event \in [Pictures -> Assets!Event]
      /\ age \in [Pictures -> {"fresh", "aged", "ripe"}]
  BY AssetsTyped
<1>3. /\ age' \in [Pictures -> {"fresh", "aged", "ripe"}] /\ event' \in [Pictures -> Assets!Event]
      /\ object' \in [Pictures -> Assets!Object]
  BY <1>2 DEF Assets!PutObject, Assets!GrowOld, Assets!EventComesDue, Assets!Event, Assets!Object
<1>4. \A g \in Pictures : age[g] # "fresh" => age'[g] # "fresh"
  BY <1>2 DEF Assets!PutObject, Assets!GrowOld, Assets!EventComesDue
<1>5. \A g \in Pictures : /\ object'[g].final = object[g].final
                          /\ age[g] # "fresh" => object'[g] = object[g]
  BY <1>2 DEF Assets!PutObject, Assets!GrowOld, Assets!EventComesDue, Assets!Object
<1>6. Assets!TypeOK' BY <1>1, <1>3 DEF AssetsInv, Assets!TypeOK
<1>7. \A g \in Pictures : AssetsFileSound(g)'  BY <1>1, <1>4, <1>5 DEF AssetsInv, AssetsFileSound, AssetsGone
<1>8. \A r \in Completions : AssetsRequestSound(r)'
  <2> SUFFICES ASSUME NEW r \in Completions PROVE AssetsRequestSound(r)'
    OBVIOUS
  <2>1. AssetsRequestSound(r) BY DEF AssetsInv
  <2>2. completion[r].pc # "idle" => object'[completion[r].file].final = object[completion[r].file].final
    BY <1>5, <2>1 DEF AssetsRequestSound
  <2> QED BY <1>1, <2>1, <2>2 DEF AssetsRequestSound
<1>9. AssetsOneRequest' BY <1>1 DEF AssetsInv, AssetsOneRequest
<1>10. \A w \in Cleaners : AssetsSweepSound(w)'
  <2> SUFFICES ASSUME NEW w \in Cleaners PROVE AssetsSweepSound(w)'
    OBVIOUS
  <2>1. AssetsSweepSound(w) BY DEF AssetsInv
  <2>2. cleaner[w].batch # <<>> => Assets!Current(w) \in Pictures BY AssetsCurrentIsFile
  <2>3. Assets!Current(w)' = Assets!Current(w) BY <1>1 DEF Assets!Current
  <2> QED BY <1>1, <1>4, <1>5, <2>1, <2>2, <2>3 DEF AssetsSweepSound
<1> QED BY <1>6, <1>7, <1>8, <1>9, <1>10 DEF AssetsInv

LEMMA AssetsAttachSteps ==
  ASSUME Assets!FilesAssumption, AssetsInv, NEW f \in Pictures, Assets!Attach(f) \/ Assets!Detach(f)
  PROVE  AssetsInv'
<1>1. /\ file[f].attached \/ file[f].status = "READY"
      /\ \E b \in BOOLEAN : file' = [file EXCEPT ![f].attached = b]
      /\ UNCHANGED <<object, age, event, ready, fileLease, completion, cleaner, slips>>
  BY DEF Assets!Attach, Assets!Detach
<1>2. file \in [Pictures -> Assets!Row] /\ file[f].status = "READY"
  BY <1>1, AssetsTyped DEF AssetsInv, AssetsFileSound
<1>3. /\ file' \in [Pictures -> Assets!Row]
      /\ \A g \in Pictures : file'[g].status = file[g].status /\ file'[g].key = file[g].key
      /\ \A g \in Pictures \ {f} : file'[g] = file[g]
  BY <1>1, <1>2 DEF Assets!Row
<1>4. Assets!TypeOK' BY <1>1, <1>3 DEF AssetsInv, Assets!TypeOK
<1>5. \A g \in Pictures : AssetsFileSound(g)'  BY <1>1, <1>2, <1>3 DEF AssetsInv, AssetsFileSound, AssetsGone
<1>6. \A r \in Completions : AssetsRequestSound(r)'
  <2> SUFFICES ASSUME NEW r \in Completions PROVE AssetsRequestSound(r)'
    OBVIOUS
  <2>1. AssetsRequestSound(r) BY DEF AssetsInv
  <2> QED BY <1>1, <1>3, <2>1 DEF AssetsRequestSound
<1>7. AssetsOneRequest' BY <1>1 DEF AssetsInv, AssetsOneRequest
<1>8. \A w \in Cleaners : AssetsSweepSound(w)'
  BY <1>1, <1>3, AssetsCurrentIsFile DEF AssetsInv, AssetsSweepSound, Assets!Current
<1> QED BY <1>4, <1>5, <1>6, <1>7, <1>8 DEF AssetsInv

--------------------------------
\* Completing an upload.

\* A request goes on; no file but its own is touched.
AssetsRequestGoes(r, p) ==
  /\ p \in Assets!Request
  /\ completion' = [completion EXCEPT ![r] = p]
  /\ UNCHANGED <<age, cleaner>>
  /\ slips' \in 0..Slips

LEMMA AssetsRequestGoing ==
  ASSUME Assets!FilesAssumption, AssetsInv, NEW r \in Completions, NEW p, AssetsRequestGoes(r, p),
         NEW f \in Pictures,
         p.file = f,
         completion[r].pc # "idle" => completion[r].file = f,
         completion[r].pc = "idle" /\ f \in Codes => file[f].status = "NONE",
         file' \in [Pictures -> Assets!Row], object' \in [Pictures -> Assets!Object],
         event' \in [Pictures -> Assets!Event],
         ready' \in Seq(Pictures), fileLease' \in [Pictures -> Completions \cup Cleaners \cup {Nobody}],
         \A g \in Pictures \ {f} : file'[g] = file[g] /\ object'[g] = object[g] /\ fileLease'[g] = fileLease[g],
         AssetsFileSound(f)', AssetsRequestSound(r)',
         \A a \in (Completions \cup Cleaners) \ {r} : fileLease'[f] = a =>
           /\ fileLease[f] = a
           /\ object'[f].final = object[f].final \/ (f \in Codes /\ object'[f].final = "none")
           /\ file'[f].status = file[f].status \/ file[f].status = "NONE"
           /\ age[f] # "fresh" /\ object[f].staging = "none" => object'[f].staging = "none"
  PROVE  AssetsInv'
<1>1. completion \in [Completions -> Assets!Request] BY AssetsTyped
<1>2. /\ completion' \in [Completions -> Assets!Request] /\ completion'[r] = p
      /\ \A q \in Completions \ {r} : completion'[q] = completion[q]
  BY <1>1 DEF AssetsRequestGoes
<1>3. Assets!TypeOK' BY <1>2 DEF AssetsInv, Assets!TypeOK, AssetsRequestGoes
<1>4. \A g \in Pictures : AssetsFileSound(g)'
  BY DEF AssetsInv, AssetsFileSound, AssetsGone, AssetsRequestGoes
<1>5. \A q \in Completions \ {r} : completion[q].file = f /\ f \in Codes => FALSE
  <2> SUFFICES ASSUME NEW q \in Completions \ {r}, completion[q].file = f, f \in Codes PROVE FALSE
    OBVIOUS
  <2>1. CASE completion[r].pc # "idle" BY <2>1 DEF AssetsInv, AssetsOneRequest
  <2>2. CASE completion[r].pc = "idle"
    <3>1. file[f].status = "NONE" BY <2>2
    <3>2. AssetsRequestSound(q) BY DEF AssetsInv
    <3> QED BY <3>1, <3>2 DEF AssetsRequestSound, Assets!FilesAssumption
  <2> QED BY <2>1, <2>2
<1>6. \A q \in Completions : AssetsRequestSound(q)'
  <2> SUFFICES ASSUME NEW q \in Completions \ {r} PROVE AssetsRequestSound(q)'
    OBVIOUS
  <2>1. AssetsRequestSound(q) /\ completion'[q] = completion[q] BY <1>2 DEF AssetsInv
  <2>2. CASE completion[q].file = f
    <3>1. f \notin Codes BY <1>5, <2>2
    <3> QED BY <2>1, <2>2, <3>1 DEF AssetsRequestSound
  <2>3. CASE completion[q].file # f
    <3>1. CASE completion[q].pc = "idle" BY <2>1, <3>1 DEF AssetsRequestSound
    <3>2. CASE completion[q].file \in Pictures \ {f} BY <2>1, <3>2 DEF AssetsRequestSound
    <3> QED BY <2>1, <2>3, <3>1, <3>2 DEF AssetsRequestSound
  <2> QED BY <2>2, <2>3
<1>7. AssetsOneRequest' BY <1>2, <1>5 DEF AssetsInv, AssetsOneRequest
<1>8. \A w \in Cleaners : AssetsSweepSound(w)'
  <2> SUFFICES ASSUME NEW w \in Cleaners PROVE AssetsSweepSound(w)'
    OBVIOUS
  <2>1. AssetsSweepSound(w) /\ cleaner'[w] = cleaner[w] /\ Assets!Current(w)' = Assets!Current(w)
    BY DEF AssetsInv, AssetsRequestGoes, Assets!Current
  <2>2. w # r BY DEF Assets!FilesAssumption
  <2>3. cleaner[w].batch # <<>> => Assets!Current(w) \in Pictures BY AssetsCurrentIsFile
  <2>4. CASE Assets!Current(w) = f BY <2>1, <2>2, <2>4 DEF AssetsSweepSound, AssetsRequestGoes
  <2>5. CASE Assets!Current(w) # f BY <2>1, <2>3, <2>5 DEF AssetsSweepSound, AssetsRequestGoes
  <2> QED BY <2>4, <2>5
<1> QED BY <1>3, <1>4, <1>6, <1>7, <1>8 DEF AssetsInv

LEMMA AssetsRequestIs ==
  ASSUME AssetsInv, NEW r \in Completions
  PROVE  /\ completion[r] \in Assets!Request
         /\ completion[r].pc # "idle" => completion[r].file \in Pictures
         /\ AssetsRequestSound(r)
BY AssetsTyped DEF AssetsInv, AssetsRequestSound

\* The row of f is written, and the lease is not.
LEMMA AssetsAskSteps ==
  ASSUME Assets!FilesAssumption, AssetsInv, NEW r \in Completions, NEW f \in Pictures,
         Assets!AskCompletion(r, f) \/ Assets!AskPromotion(r, f)
  PROVE  AssetsInv'
<1> DEFINE p == [pc |-> "asked", file |-> f]
<1>1. /\ completion[r].pc = "idle" /\ completion' = [completion EXCEPT ![r] = p]
      /\ UNCHANGED <<object, age, event, ready, fileLease, cleaner, slips>>
  BY DEF Assets!AskCompletion, Assets!AskPromotion
<1>2. p \in Assets!Request /\ p.file = f /\ p.pc = "asked" BY DEF Assets!Request
<1> HIDE DEF p
<1>3. AssetsRequestGoes(r, p) BY <1>1, <1>2, AssetsTyped DEF AssetsRequestGoes
<1>4. file \in [Pictures -> Assets!Row] /\ completion \in [Completions -> Assets!Request]  BY AssetsTyped
<1>5. /\ file' \in [Pictures -> Assets!Row]
      /\ \A g \in Pictures \ {f} : file'[g] = file[g]
      /\ f \in Codes => file[f].status = "NONE"
      /\ file'[f].status = "PENDING" /\ file'[f].attached = file[f].attached
      /\ file[f].status \in {"NONE", "PENDING"}
  BY <1>4 DEF Assets!AskCompletion, Assets!AskPromotion, Assets!Row, Assets!Statuses
<1>6. AssetsFileSound(f)' BY <1>5 DEF AssetsInv, AssetsFileSound, AssetsGone
<1>7. AssetsRequestSound(r)' BY <1>1, <1>2, <1>4, <1>5 DEF AssetsRequestSound
<1>8. \A a \in (Completions \cup Cleaners) \ {r} : fileLease'[f] = a =>
        file'[f].status = file[f].status \/ file[f].status = "NONE"
  BY <1>5
<1> QED BY <1>1, <1>2, <1>3, <1>5, <1>6, <1>7, <1>8, AssetsRequestGoing, AssetsTyped

\* A request that goes on with its own file, to pc.
LEMMA AssetsRequestMoves ==
  ASSUME Assets!FilesAssumption, AssetsInv, NEW r \in Completions, completion[r].pc # "idle",
         NEW pc \in {"asked", "leased", "inspected", "copied", "committed", "replayed", "done"},
         completion' = [completion EXCEPT ![r].pc = pc],
         UNCHANGED <<age, cleaner>>, slips' \in 0..Slips
  PROVE  \E p : /\ AssetsRequestGoes(r, p) /\ completion' = [completion EXCEPT ![r] = p]
                /\ p.file = completion[r].file /\ p.pc = pc
<1> DEFINE p == [completion[r] EXCEPT !.pc = pc]
<1>1. completion \in [Completions -> Assets!Request] /\ completion[r] \in Assets!Request  BY AssetsTyped
<1>2. p \in Assets!Request /\ p.pc = pc /\ p.file = completion[r].file BY <1>1 DEF Assets!Request
<1>3. completion' = [completion EXCEPT ![r] = p] BY <1>1 DEF Assets!Request
<1> HIDE DEF p
<1> QED BY <1>2, <1>3 DEF AssetsRequestGoes

\* What is to be shown of a step of a request under way.
AssetsGoes(r, f, pc) ==
  /\ f = completion[r].file
  /\ pc \in {"asked", "leased", "inspected", "copied", "committed", "replayed", "done"}
  /\ completion' = [completion EXCEPT ![r].pc = pc]
  /\ UNCHANGED <<age, cleaner>> /\ slips' \in 0..Slips
  /\ event' \in [Pictures -> Assets!Event] /\ ready' \in Seq(Pictures)
  /\ file' \in [Pictures -> Assets!Row] /\ object' \in [Pictures -> Assets!Object]
  /\ fileLease' \in [Pictures -> Completions \cup Cleaners \cup {Nobody}]
  /\ \A g \in Pictures \ {f} : file'[g] = file[g] /\ object'[g] = object[g] /\ fileLease'[g] = fileLease[g]
  /\ \A a \in (Completions \cup Cleaners) \ {r} : fileLease'[f] = a =>
       /\ fileLease[f] = a
       /\ object'[f].final = object[f].final \/ (f \in Codes /\ object'[f].final = "none")
       /\ file'[f].status = file[f].status
       /\ age[f] # "fresh" /\ object[f].staging = "none" => object'[f].staging = "none"

LEMMA AssetsRequestGoesOn ==
  ASSUME Assets!FilesAssumption, AssetsInv, NEW r \in Completions, completion[r].pc # "idle", NEW f \in Pictures,
         NEW pc,
         AssetsGoes(r, f, pc), AssetsFileSound(f)',
         pc \in {"inspected", "copied"} /\ fileLease'[f] = r => file'[f].status = "PENDING",
         pc = "copied" /\ fileLease'[f] = r => object'[f].final = "declared",
         pc = "replayed" => f \in Codes,
         f \in Codes => file'[f].status # "NONE",
         f \in Codes /\ pc \notin {"committed", "done"} => file'[f].status # "READY"
  PROVE  AssetsInv'
<1>1. PICK p : /\ AssetsRequestGoes(r, p) /\ completion' = [completion EXCEPT ![r] = p]
               /\ p.file = f /\ p.pc = pc
  <2>1. /\ pc \in {"asked", "leased", "inspected", "copied", "committed", "replayed", "done"}
        /\ completion' = [completion EXCEPT ![r].pc = pc]
        /\ UNCHANGED <<age, cleaner>> /\ slips' \in 0..Slips /\ f = completion[r].file
    BY DEF AssetsGoes
  <2>2. \E p : /\ AssetsRequestGoes(r, p) /\ completion' = [completion EXCEPT ![r] = p]
               /\ p.file = completion[r].file /\ p.pc = pc
    BY <2>1, AssetsRequestMoves, Zenon
  <2> QED BY <2>1, <2>2, Zenon
<1>2. completion'[r] = p BY <1>1, AssetsTyped
<1>3. AssetsRequestSound(r)' BY <1>1, <1>2 DEF AssetsRequestSound, AssetsGoes
<1>4. /\ file' \in [Pictures -> Assets!Row] /\ object' \in [Pictures -> Assets!Object]
          /\ event' \in [Pictures -> Assets!Event]
      /\ ready' \in Seq(Pictures) /\ fileLease' \in [Pictures -> Completions \cup Cleaners \cup {Nobody}]
      /\ completion[r].file = f
      /\ \A g \in Pictures \ {f} : file'[g] = file[g] /\ object'[g] = object[g] /\ fileLease'[g] = fileLease[g]
      /\ \A a \in (Completions \cup Cleaners) \ {r} : fileLease'[f] = a =>
           /\ fileLease[f] = a
           /\ object'[f].final = object[f].final \/ (f \in Codes /\ object'[f].final = "none")
           /\ file'[f].status = file[f].status \/ file[f].status = "NONE"
           /\ age[f] # "fresh" /\ object[f].staging = "none" => object'[f].staging = "none"
  BY DEF AssetsGoes
<1> QED BY <1>1, <1>3, <1>4, AssetsRequestGoing

\* A request that ends gives the lease back, if it still has it.
LEMMA AssetsRequestEnds ==
  ASSUME Assets!FilesAssumption, AssetsInv, NEW r \in Completions, completion[r].pc # "idle",
         Assets!EndRequest(r),
         UNCHANGED <<file, object, age, event, ready, cleaner, slips>>
  PROVE  AssetsInv'
<1>1. PICK f \in Pictures : f = completion[r].file BY AssetsRequestIs
<1>2. fileLease' = [fileLease EXCEPT ![f] = IF @ = r THEN Nobody ELSE @]
  BY <1>1 DEF Assets!EndRequest, Assets!Freed
<1>3. /\ fileLease' \in [Pictures -> Completions \cup Cleaners \cup {Nobody}] /\ fileLease'[f] # r
      /\ \A g \in Pictures \ {f} : fileLease'[g] = fileLease[g]
      /\ \A a \in Completions \cup Cleaners : fileLease'[f] = a => fileLease[f] = a
  BY <1>1, <1>2, AssetsTyped DEF Assets!FilesAssumption
<1>4. AssetsGoes(r, f, "done") BY <1>1, <1>3, AssetsTyped DEF AssetsGoes, Assets!EndRequest
<1>5. AssetsFileSound(f)' /\ AssetsRequestSound(r) BY DEF AssetsInv, AssetsFileSound, AssetsGone
<1>6. f \in Codes => file'[f].status # "NONE" BY <1>1, <1>5 DEF AssetsRequestSound
<1> QED BY <1>3, <1>4, <1>5, <1>6, AssetsRequestGoesOn

LEMMA AssetsAcquireStep ==
  ASSUME Assets!FilesAssumption, AssetsInv, NEW r \in Completions, Assets!AcquireLease(r)
  PROVE  AssetsInv'
<1>1. completion[r].pc = "asked" /\ UNCHANGED <<file, object, age, event, ready, cleaner, slips>>
  BY DEF Assets!AcquireLease
<1>2. PICK f \in Pictures : f = completion[r].file BY <1>1, AssetsRequestIs
<1>3. CASE Assets!EndRequest(r) BY <1>1, <1>3, AssetsRequestEnds
<1>4. CASE /\ fileLease[f] = Nobody /\ fileLease' = [fileLease EXCEPT ![f] = r]
           /\ completion' = [completion EXCEPT ![r].pc = "leased"]
  <2>1. /\ fileLease' \in [Pictures -> Completions \cup Cleaners \cup {Nobody}] /\ fileLease'[f] = r
        /\ \A g \in Pictures \ {f} : fileLease'[g] = fileLease[g]
    BY <1>4, AssetsTyped
  <2>2. AssetsGoes(r, f, "leased") BY <1>1, <1>2, <1>4, <2>1, AssetsTyped DEF AssetsGoes
  <2>3. AssetsFileSound(f)' /\ AssetsRequestSound(r)  BY <1>1 DEF AssetsInv, AssetsFileSound, AssetsGone
  <2>4. f \in Codes => file'[f].status # "NONE" /\ file'[f].status # "READY"
    BY <1>1, <1>2, <2>3 DEF AssetsRequestSound
  <2> QED BY <1>1, <2>2, <2>3, <2>4, AssetsRequestGoesOn
<1> QED BY <1>2, <1>3, <1>4 DEF Assets!AcquireLease

LEMMA AssetsInspectStep ==
  ASSUME Assets!FilesAssumption, AssetsInv, NEW r \in Completions, Assets!Inspect(r)
  PROVE  AssetsInv'
<1>1. completion[r].pc = "leased" /\ UNCHANGED <<file, age, event, ready, cleaner, slips>>
  BY DEF Assets!Inspect
<1>2. PICK f \in Pictures : f = completion[r].file BY <1>1, AssetsRequestIs
<1>3. CASE Assets!EndRequest(r) /\ UNCHANGED object BY <1>1, <1>3, AssetsRequestEnds
<1>4. CASE \E staged : /\ file[f].status = "PENDING" /\ staged = "declared"
                       /\ staged = IF f \in Codes /\ age[f] = "fresh" THEN "declared" ELSE object[f].staging
                       /\ object' = [object EXCEPT ![f].staging = staged]
                       /\ completion' = [completion EXCEPT ![r].pc = "inspected"]
                       /\ UNCHANGED fileLease
  <2>1. object \in [Pictures -> Assets!Object] BY AssetsTyped
  <2>2. /\ object' \in [Pictures -> Assets!Object] /\ object'[f].final = object[f].final
        /\ object'[f].staging = object[f].staging \/ age[f] = "fresh"
        /\ \A g \in Pictures \ {f} : object'[g] = object[g]
    BY <1>4, <2>1 DEF Assets!Object
  <2>3. AssetsGoes(r, f, "inspected") BY <1>1, <1>2, <1>4, <2>2, AssetsTyped DEF AssetsGoes
  <2>4. file'[f] = file[f] /\ file[f].status = "PENDING" /\ AssetsFileSound(f)  BY <1>1, <1>4 DEF AssetsInv
  <2>5. AssetsFileSound(f)' BY <1>1, <2>2, <2>4 DEF AssetsFileSound, AssetsGone
  <2> QED BY <1>1, <2>3, <2>4, <2>5, AssetsRequestGoesOn
<1> QED BY <1>2, <1>3, <1>4 DEF Assets!Inspect

LEMMA AssetsCopyStep ==
  ASSUME Assets!FilesAssumption, AssetsInv, NEW r \in Completions, Assets!CopyObject(r)
  PROVE  AssetsInv'
<1>1. completion[r].pc = "inspected" /\ UNCHANGED <<file, age, event, ready, cleaner, slips>>
  BY DEF Assets!CopyObject
<1>2. PICK f \in Pictures : f = completion[r].file BY <1>1, AssetsRequestIs
<1>3. CASE Assets!EndRequest(r) /\ UNCHANGED object BY <1>1, <1>3, AssetsRequestEnds
<1>4. CASE /\ fileLease[f] = r
           /\ object' = [object EXCEPT ![f].final = "declared"]
           /\ completion' = [completion EXCEPT ![r].pc = "copied"]
           /\ UNCHANGED fileLease
  <2>1. object \in [Pictures -> Assets!Object] BY AssetsTyped
  <2>2. /\ object' \in [Pictures -> Assets!Object] /\ object'[f].final = "declared"
        /\ object'[f].staging = object[f].staging
        /\ \A g \in Pictures \ {f} : object'[g] = object[g]
    BY <1>4, <2>1 DEF Assets!Object
  <2>3. AssetsGoes(r, f, "copied") BY <1>1, <1>2, <1>4, <2>2, AssetsTyped DEF AssetsGoes
  <2>4. file'[f] = file[f] /\ file[f].status = "PENDING" /\ AssetsFileSound(f)
    BY <1>1, <1>2, <1>4 DEF AssetsInv, AssetsRequestSound
  <2>5. AssetsFileSound(f)' BY <1>1, <2>2, <2>4 DEF AssetsFileSound, AssetsGone
  <2> QED BY <1>1, <2>2, <2>3, <2>4, <2>5, AssetsRequestGoesOn
<1> QED BY <1>2, <1>3, <1>4 DEF Assets!CopyObject

LEMMA AssetsCommitStep ==
  ASSUME Assets!FilesAssumption, AssetsInv, NEW r \in Completions, Assets!CommitReady(r)
  PROVE  AssetsInv'
<1>1. completion[r].pc = "copied" /\ UNCHANGED <<object, age, cleaner, slips>>  BY DEF Assets!CommitReady
<1>2. PICK f \in Pictures : f = completion[r].file BY <1>1, AssetsRequestIs
<1>3. CASE Assets!EndRequest(r) /\ UNCHANGED <<file, event, ready>>  BY <1>1, <1>3, AssetsRequestEnds
<1>4. CASE /\ fileLease[f] = r /\ file[f].status = "PENDING"
           /\ file' = [file EXCEPT ![f] = Assets!Completed(f)]
           /\ event' = [event EXCEPT ![f].state = "later"]
           /\ ready' = Append(ready, f)
           /\ completion' = [completion EXCEPT ![r].pc = "committed"]
           /\ UNCHANGED fileLease
  <2>1. file \in [Pictures -> Assets!Row] /\ event \in [Pictures -> Assets!Event] /\ ready \in Seq(Pictures)
    BY AssetsTyped
  <2>2. Assets!Completed(f) \in Assets!Row /\ Assets!Completed(f).status = "READY"
     /\ Assets!Completed(f).key = "final"
    BY DEF Assets!Completed, Assets!Row, Assets!Statuses
  <2>3. /\ file' \in [Pictures -> Assets!Row] /\ file'[f] = Assets!Completed(f)
        /\ \A g \in Pictures \ {f} : file'[g] = file[g]
        /\ event' \in [Pictures -> Assets!Event] /\ ready' \in Seq(Pictures)
    BY <1>4, <2>1, <2>2 DEF Assets!Event
  <2>4. AssetsGoes(r, f, "committed") BY <1>1, <1>2, <1>4, <2>3, AssetsTyped DEF AssetsGoes
  <2>5. object'[f].final = "declared" BY <1>1, <1>2, <1>4 DEF AssetsInv, AssetsRequestSound
  <2>6. AssetsFileSound(f)' BY <2>2, <2>3, <2>5 DEF AssetsFileSound, AssetsGone
  <2> QED BY <1>1, <2>2, <2>3, <2>4, <2>6, AssetsRequestGoesOn
<1> QED BY <1>2, <1>3, <1>4 DEF Assets!CommitReady

LEMMA AssetsReplayStep ==
  ASSUME Assets!FilesAssumption, AssetsInv, NEW r \in Completions, Assets!CommitReplayed(r)
  PROVE  AssetsInv'
<1>1. /\ completion[r].pc = "copied" /\ completion[r].file \in Codes
      /\ completion' = [completion EXCEPT ![r].pc = "replayed"]
      /\ UNCHANGED <<file, object, age, event, ready, fileLease, cleaner, slips>>
  BY DEF Assets!CommitReplayed
<1>2. PICK f \in Pictures : f = completion[r].file BY <1>1, AssetsRequestIs
<1>3. AssetsGoes(r, f, "replayed") BY <1>1, <1>2, AssetsTyped DEF AssetsGoes
<1>4. AssetsFileSound(f)' /\ AssetsRequestSound(r)  BY <1>1 DEF AssetsInv, AssetsFileSound, AssetsGone
<1>5. f \in Codes /\ file'[f].status # "NONE" /\ file'[f].status # "READY"
  BY <1>1, <1>2, <1>4 DEF AssetsRequestSound
<1> QED BY <1>1, <1>3, <1>4, <1>5, AssetsRequestGoesOn

LEMMA AssetsDropStep ==
  ASSUME Assets!FilesAssumption, AssetsInv, NEW r \in Completions, Assets!DropStaging(r)
  PROVE  AssetsInv'
<1>1. /\ completion[r].pc \in {"committed", "replayed"} /\ Assets!EndRequest(r)
      /\ UNCHANGED <<file, age, event, ready, cleaner, slips>>
  BY DEF Assets!DropStaging
<1>2. PICK f \in Pictures : f = completion[r].file BY <1>1, AssetsRequestIs
<1>3. /\ completion' = [completion EXCEPT ![r].pc = "done"]
      /\ fileLease' = [fileLease EXCEPT ![f] = IF @ = r THEN Nobody ELSE @]
      /\ object' = [object EXCEPT ![f].staging = "none",
                                  ![f].final = IF completion[r].pc = "replayed" THEN "none" ELSE @]
  BY <1>1, <1>2 DEF Assets!EndRequest, Assets!Freed, Assets!DropStaging
<1>4. fileLease \in [Pictures -> Completions \cup Cleaners \cup {Nobody}]
   /\ object \in [Pictures -> Assets!Object]
  BY AssetsTyped
<1>5. /\ fileLease' \in [Pictures -> Completions \cup Cleaners \cup {Nobody}]
      /\ \A g \in Pictures \ {f} : fileLease'[g] = fileLease[g]
      /\ \A a \in (Completions \cup Cleaners) \ {r} : fileLease'[f] = a => fileLease[f] = a
  BY <1>3, <1>4 DEF Assets!FilesAssumption
<1>6. AssetsRequestSound(r) /\ AssetsFileSound(f) BY DEF AssetsInv
<1>7. /\ object'[f].staging = "none"
      /\ object'[f].final = IF completion[r].pc = "replayed" THEN "none" ELSE object[f].final
      /\ object'[f] \in Assets!Object
      /\ \A g \in Pictures \ {f} : object'[g] = object[g]
      /\ object' \in [Pictures -> Assets!Object]
  BY <1>3, <1>4 DEF Assets!Object
<1>8. object'[f].final = object[f].final \/ (f \in Codes /\ object'[f].final = "none")
  BY <1>1, <1>2, <1>6, <1>7 DEF AssetsRequestSound
<1>9. AssetsGoes(r, f, "done") BY <1>1, <1>2, <1>3, <1>5, <1>7, <1>8, AssetsTyped DEF AssetsGoes
<1>10. AssetsFileSound(f)'  BY <1>1, <1>2, <1>6, <1>7 DEF AssetsFileSound, AssetsGone, AssetsRequestSound
<1>11. f \in Codes => file'[f].status # "NONE" BY <1>1, <1>2, <1>6 DEF AssetsRequestSound
<1> QED BY <1>1, <1>9, <1>10, <1>11, AssetsRequestGoesOn

LEMMA AssetsCrashRequestStep ==
  ASSUME Assets!FilesAssumption, AssetsInv, NEW r \in Completions, Assets!CrashRequest(r)
  PROVE  AssetsInv'
<1>1. /\ completion[r].pc # "idle" /\ completion' = [completion EXCEPT ![r].pc = "done"]
      /\ UNCHANGED <<file, object, age, event, ready, fileLease, cleaner>> /\ slips' \in 0..Slips
  BY AssetsTyped DEF Assets!CrashRequest, Assets!Fault, Assets!FilesAssumption
<1>2. PICK f \in Pictures : f = completion[r].file BY <1>1, AssetsRequestIs
<1>3. AssetsGoes(r, f, "done") BY <1>1, <1>2, AssetsTyped DEF AssetsGoes
<1>4. AssetsFileSound(f)' /\ AssetsRequestSound(r)  BY <1>1 DEF AssetsInv, AssetsFileSound, AssetsGone
<1>5. f \in Codes => file'[f].status # "NONE" BY <1>1, <1>2, <1>4 DEF AssetsRequestSound
<1> QED BY <1>1, <1>3, <1>4, <1>5, AssetsRequestGoesOn

--------------------------------
\* The cleanup worker.

\* What is to be shown of a step of a worker; f is the file it works on.
AssetsSweeps(w, p, f) ==
  /\ p \in Assets!Worker
  /\ p.batch # <<>> => p.phase # "idle"
  /\ cleaner' = [cleaner EXCEPT ![w] = p]
  /\ UNCHANGED <<age, ready, completion>> /\ slips' \in 0..Slips
  /\ event' \in [Pictures -> Assets!Event]
  /\ file' \in [Pictures -> Assets!Row] /\ object' \in [Pictures -> Assets!Object]
  /\ fileLease' \in [Pictures -> Completions \cup Cleaners \cup {Nobody}]
  /\ \A g \in Pictures \ {f} : file'[g] = file[g] /\ object'[g] = object[g] /\ fileLease'[g] = fileLease[g]
  /\ \A a \in (Completions \cup Cleaners) \ {w} : fileLease'[f] = a =>
       /\ fileLease[f] = a
       /\ object'[f] = object[f]
       /\ file'[f].status \in {file[f].status, "REJECTED"}
       /\ file'[f].status # file[f].status => file[f].status = "READY"
  /\ file[f].status # "NONE" => file'[f].status # "NONE"
  /\ file'[f].status = "READY" => file[f].status = "READY"

LEMMA AssetsSweeping ==
  ASSUME Assets!FilesAssumption, AssetsInv, NEW w \in Cleaners, NEW p, NEW f \in Pictures, AssetsSweeps(w, p, f),
         AssetsFileSound(f)', AssetsSweepSound(w)'
  PROVE  AssetsInv'
<1>1. cleaner \in [Cleaners -> Assets!Worker] /\ completion' = completion  BY AssetsTyped DEF AssetsSweeps
<1>2. /\ cleaner' \in [Cleaners -> Assets!Worker] /\ cleaner'[w] = p
      /\ \A v \in Cleaners \ {w} : cleaner'[v] = cleaner[v]
  BY <1>1 DEF AssetsSweeps
<1>3. Assets!TypeOK' BY <1>2 DEF AssetsInv, Assets!TypeOK, AssetsSweeps
<1>4. \A g \in Pictures : AssetsFileSound(g)'  BY DEF AssetsInv, AssetsFileSound, AssetsGone, AssetsSweeps
<1>5. \A r \in Completions : AssetsRequestSound(r)'
  <2> SUFFICES ASSUME NEW r \in Completions PROVE AssetsRequestSound(r)'
    OBVIOUS
  <2>1. AssetsRequestSound(r) /\ r # w BY DEF AssetsInv, Assets!FilesAssumption
  <2>2. CASE completion[r].file = f BY <1>1, <2>1, <2>2 DEF AssetsRequestSound, AssetsSweeps
  <2>3. CASE completion[r].pc = "idle" BY <1>1, <2>1, <2>3 DEF AssetsRequestSound
  <2>4. CASE completion[r].file \in Pictures \ {f}  BY <1>1, <2>1, <2>4 DEF AssetsRequestSound, AssetsSweeps
  <2> QED BY <2>1, <2>2, <2>3, <2>4 DEF AssetsRequestSound
<1>6. AssetsOneRequest' BY <1>1 DEF AssetsInv, AssetsOneRequest
<1>7. \A v \in Cleaners \ {w} : AssetsSweepSound(v)'
  <2> SUFFICES ASSUME NEW v \in Cleaners \ {w} PROVE AssetsSweepSound(v)'
    OBVIOUS
  <2>1. AssetsSweepSound(v) /\ cleaner'[v] = cleaner[v] /\ Assets!Current(v)' = Assets!Current(v)
    BY <1>2 DEF AssetsInv, Assets!Current
  <2>2. cleaner[v].batch # <<>> => Assets!Current(v) \in Pictures BY AssetsCurrentIsFile
  <2>3. CASE Assets!Current(v) = f BY <2>1, <2>3 DEF AssetsSweepSound, AssetsSweeps
  <2>4. CASE Assets!Current(v) # f BY <2>1, <2>2, <2>4 DEF AssetsSweepSound, AssetsSweeps
  <2> QED BY <2>3, <2>4
<1> QED BY <1>3, <1>4, <1>5, <1>6, <1>7 DEF AssetsInv

LEMMA AssetsWorkerIs ==
  ASSUME AssetsInv, NEW w \in Cleaners
  PROVE  /\ cleaner \in [Cleaners -> Assets!Worker] /\ cleaner[w] \in Assets!Worker
         /\ cleaner[w].batch \in Seq(Pictures) /\ AssetsSweepSound(w)
BY AssetsTyped DEF AssetsInv, Assets!Worker

\* The worker's place after GoOn.
LEMMA AssetsGoesOn ==
  ASSUME AssetsInv, NEW w \in Cleaners, cleaner[w].batch # <<>>, Assets!GoOn(w)
  PROVE  \E p \in Assets!Worker :
           /\ cleaner' = [cleaner EXCEPT ![w] = p]
           /\ p.batch # <<>> => p.phase # "idle"
           /\ p.pc = "next"
<1> DEFINE p == [cleaner[w] EXCEPT !.batch = Tail(cleaner[w].batch), !.pc = "next"]
<1>1. Tail(cleaner[w].batch) \in Seq(Pictures) BY AssetsCurrentIsFile
<1>2. p \in Assets!Worker /\ p.phase = cleaner[w].phase /\ p.pc = "next"
  BY <1>1, AssetsWorkerIs DEF Assets!Worker
<1>3. cleaner' = [cleaner EXCEPT ![w] = p] BY AssetsWorkerIs DEF Assets!GoOn, Assets!Worker
<1> HIDE DEF p
<1> QED BY <1>2, <1>3, AssetsWorkerIs DEF AssetsSweepSound

LEMMA AssetsRetriedIsEvent ==
  ASSUME Assets!FilesAssumption, NEW e \in Assets!Event
  PROVE  Assets!Retried(e) \in Assets!Event
BY DEF Assets!Retried, Assets!Event, Assets!FilesAssumption

\* The worker is through with its file: it goes on with the next one.
LEMMA AssetsThrough ==
  ASSUME Assets!FilesAssumption, AssetsInv, NEW w \in Cleaners, cleaner[w].batch # <<>>, Assets!GoOn(w),
         NEW f \in Pictures, f = Assets!Current(w),
         UNCHANGED <<age, ready, completion>>, slips' \in 0..Slips,
         event' \in [Pictures -> Assets!Event], file' \in [Pictures -> Assets!Row], UNCHANGED object,
         fileLease' = fileLease \/ fileLease' = Assets!Freed(f, w),
         \A g \in Pictures \ {f} : file'[g] = file[g],
         AssetsFileSound(f)',
         file' = file \/ (fileLease[f] = w /\ file[f].status # "NONE" /\ file'[f].status \notin {"NONE", "READY"})
  PROVE  AssetsInv'
<1>1. PICK p \in Assets!Worker : /\ cleaner' = [cleaner EXCEPT ![w] = p]
                                 /\ p.batch # <<>> => p.phase # "idle"
                                 /\ p.pc = "next"
  BY AssetsGoesOn
<1>2. /\ fileLease \in [Pictures -> Completions \cup Cleaners \cup {Nobody}]
      /\ file \in [Pictures -> Assets!Row] /\ object \in [Pictures -> Assets!Object]
  BY AssetsTyped
<1>3. /\ fileLease' \in [Pictures -> Completions \cup Cleaners \cup {Nobody}]
      /\ \A g \in Pictures \ {f} : fileLease'[g] = fileLease[g]
      /\ \A a \in (Completions \cup Cleaners) \ {w} : fileLease'[f] = a => fileLease[f] = a
  BY <1>2 DEF Assets!Freed, Assets!FilesAssumption
<1>4. AssetsSweeps(w, p, f)
  <2>1. \A a \in (Completions \cup Cleaners) \ {w} : fileLease'[f] = a =>
          file'[f].status \in {file[f].status, "REJECTED"}
             /\ (file'[f].status # file[f].status => file[f].status = "READY")
    BY <1>3
  <2> QED BY <1>1, <1>2, <1>3, <2>1 DEF AssetsSweeps
<1>5. AssetsSweepSound(w)'
  <2>1. cleaner'[w] = p BY <1>1, AssetsWorkerIs
  <2> QED BY <1>1, <2>1 DEF AssetsSweepSound
<1> QED BY <1>4, <1>5, AssetsSweeping

LEMMA AssetsSkipStep ==
  ASSUME Assets!FilesAssumption, AssetsInv, NEW w \in Cleaners, cleaner[w].batch # <<>>, Assets!Skip(w),
         UNCHANGED <<file, object, age, ready, completion>>, slips' \in 0..Slips
  PROVE  AssetsInv'
<1>1. PICK f \in Pictures : f = Assets!Current(w) BY AssetsCurrentIsFile
<1>2. event \in [Pictures -> Assets!Event] BY AssetsTyped
<1>3. event' \in [Pictures -> Assets!Event] BY <1>1, <1>2, AssetsRetriedIsEvent DEF Assets!Skip
<1>4. Assets!GoOn(w) /\ fileLease' = Assets!Freed(f, w) BY <1>1 DEF Assets!Skip, Assets!Continue
<1>5. AssetsFileSound(f)' BY DEF AssetsInv, AssetsFileSound, AssetsGone
<1> QED BY <1>1, <1>3, <1>4, <1>5, AssetsThrough, AssetsTyped

LEMMA AssetsTakeStep ==
  ASSUME Assets!FilesAssumption, AssetsInv, NEW w \in Cleaners, Assets!TakeLease(w)
  PROVE  AssetsInv'
<1>1. /\ cleaner[w].batch # <<>> /\ cleaner[w].pc = "next"
      /\ UNCHANGED <<file, object, age, ready, completion, slips>> /\ slips' \in 0..Slips
  BY AssetsTyped DEF Assets!TakeLease, Assets!At
<1>2. PICK f \in Pictures : f = Assets!Current(w) BY <1>1, AssetsCurrentIsFile
<1>3. CASE Assets!Skip(w) BY <1>1, <1>3, AssetsSkipStep
<1>4. AssetsFileSound(f)' BY <1>1 DEF AssetsInv, AssetsFileSound, AssetsGone
<1>5. CASE Assets!GoOn(w) /\ UNCHANGED <<fileLease, event>>
  BY <1>1, <1>2, <1>4, <1>5, AssetsThrough, AssetsTyped
<1>6. CASE /\ fileLease[f] = Nobody
           /\ fileLease' = [fileLease EXCEPT ![f] = w]
           /\ cleaner' = [cleaner EXCEPT ![w].pc = "leased"]
           /\ UNCHANGED event
  <2> DEFINE p == [cleaner[w] EXCEPT !.pc = "leased"]
  <2>1. p \in Assets!Worker /\ p.pc = "leased" /\ p.phase = cleaner[w].phase /\ p.batch = cleaner[w].batch
    BY AssetsWorkerIs DEF Assets!Worker
  <2>2. cleaner' = [cleaner EXCEPT ![w] = p] BY <1>6, AssetsWorkerIs DEF Assets!Worker
  <2> HIDE DEF p
  <2>3. cleaner'[w] = p BY <2>2, AssetsWorkerIs
  <2>4. AssetsSweepSound(w)' BY <2>1, <2>3, AssetsWorkerIs DEF AssetsSweepSound
  <2>5. /\ fileLease' \in [Pictures -> Completions \cup Cleaners \cup {Nobody}] /\ fileLease'[f] = w
        /\ \A g \in Pictures \ {f} : fileLease'[g] = fileLease[g]
    BY <1>6, AssetsTyped
  <2>6. p.batch # <<>> => p.phase # "idle" BY <2>1, AssetsWorkerIs DEF AssetsSweepSound
  <2>7. AssetsSweeps(w, p, f) BY <1>1, <1>6, <2>1, <2>2, <2>5, <2>6, AssetsTyped DEF AssetsSweeps
  <2> QED BY <1>4, <2>4, <2>7, AssetsSweeping
<1> QED BY <1>2, <1>3, <1>5, <1>6 DEF Assets!TakeLease

\* A worker that goes on with the same file.
LEMMA AssetsStaying ==
  ASSUME Assets!FilesAssumption, AssetsInv, NEW w \in Cleaners, cleaner[w].batch # <<>>,
         NEW pc \in {"checked", "half", "bare"}, cleaner' = [cleaner EXCEPT ![w].pc = pc]
  PROVE  \E p \in Assets!Worker :
           /\ cleaner' = [cleaner EXCEPT ![w] = p] /\ cleaner'[w] = p
           /\ p.batch = cleaner[w].batch /\ p.phase = cleaner[w].phase /\ p.pc = pc
           /\ p.phase # "idle" /\ Assets!Current(w)' = Assets!Current(w)
<1> DEFINE p == [cleaner[w] EXCEPT !.pc = pc]
<1>1. p \in Assets!Worker /\ p.pc = pc /\ p.phase = cleaner[w].phase /\ p.batch = cleaner[w].batch
  BY AssetsWorkerIs DEF Assets!Worker
<1>2. cleaner' = [cleaner EXCEPT ![w] = p] BY AssetsWorkerIs DEF Assets!Worker
<1> HIDE DEF p
<1>3. cleaner'[w] = p /\ cleaner[w].phase # "idle" BY <1>2, AssetsWorkerIs DEF AssetsSweepSound
<1> QED BY <1>1, <1>2, <1>3 DEF Assets!Current

LEMMA AssetsRecheckStep ==
  ASSUME Assets!FilesAssumption, AssetsInv, NEW w \in Cleaners, Assets!Recheck(w)
  PROVE  AssetsInv'
<1>1. /\ cleaner[w].batch # <<>> /\ cleaner[w].pc = "leased"
      /\ UNCHANGED <<object, age, ready, completion, slips>> /\ slips' \in 0..Slips
  BY AssetsTyped DEF Assets!Recheck, Assets!At
<1>2. PICK f \in Pictures : f = Assets!Current(w) BY <1>1, AssetsCurrentIsFile
<1>3. PICK phase : phase = cleaner[w].phase
  OBVIOUS
<1>4. CASE /\ Assets!Continue(w) /\ UNCHANGED file
           /\ event' = IF phase = "staging" THEN [event EXCEPT ![f].state = "published"] ELSE event
  <2>1. event' \in [Pictures -> Assets!Event] BY <1>4, AssetsTyped DEF Assets!Event
  <2>2. AssetsFileSound(f)' BY <1>1, <1>4 DEF AssetsInv, AssetsFileSound, AssetsGone
  <2> QED BY <1>1, <1>2, <1>4, <2>1, <2>2, AssetsThrough, AssetsTyped DEF Assets!Continue
<1>5. CASE /\ CASE phase = "pending" -> Assets!PendingCandidate(f) /\ ~file[f].attached
                [] phase = "staging" -> file[f].status = "READY"
                [] OTHER -> Assets!OrphanStill(f)
           /\ file' = IF phase = "orphan" THEN [file EXCEPT ![f].status = "REJECTED"] ELSE file
           /\ cleaner' = [cleaner EXCEPT ![w].pc = IF phase = "staging" THEN "half" ELSE "checked"]
           /\ UNCHANGED <<event, fileLease>>
  <2>1. PICK p \in Assets!Worker :
          /\ cleaner' = [cleaner EXCEPT ![w] = p] /\ cleaner'[w] = p
          /\ p.batch = cleaner[w].batch /\ p.phase = phase
          /\ p.pc = IF phase = "staging" THEN "half" ELSE "checked"
          /\ p.phase # "idle" /\ Assets!Current(w)' = f
    BY <1>1, <1>2, <1>3, <1>5, AssetsStaying
  <2>2. phase \in {"pending", "staging", "orphan"}
    BY <1>3, <2>1, AssetsWorkerIs DEF Assets!Worker, Assets!Phases
  <2>3. file \in [Pictures -> Assets!Row] BY AssetsTyped
  <2>4. /\ file' \in [Pictures -> Assets!Row]
        /\ \A g \in Pictures \ {f} : file'[g] = file[g]
        /\ phase # "orphan" => file' = file
        /\ phase = "orphan" => /\ file'[f] = [file[f] EXCEPT !.status = "REJECTED"]
                               /\ file[f].status \in {"READY", "REJECTED"} /\ ~file[f].attached
                               /\ file[f].key = "final" /\ age[f] = "ripe"
        /\ phase = "pending" => file[f].status = "PENDING" /\ age[f] # "fresh"
    BY <1>5, <2>2, <2>3 DEF Assets!Row, Assets!Statuses, Assets!OrphanStill, Assets!OrphanCandidate,
       Assets!PendingCandidate
  <2>5. /\ phase = "orphan" => /\ file'[f].status = "REJECTED" /\ file'[f].key = "final"
                               /\ file'[f].attached = file[f].attached
    BY <2>3, <2>4 DEF Assets!Row
  <2>6. AssetsFileSound(f)' BY <1>1, <2>2, <2>4, <2>5 DEF AssetsInv, AssetsFileSound, AssetsGone
  <2>7. AssetsSweepSound(w)' BY <1>1, <2>1, <2>2, <2>4, <2>5 DEF AssetsSweepSound
  <2>8. AssetsSweeps(w, p, f) BY <1>1, <1>5, <2>1, <2>2, <2>4, <2>5, AssetsTyped DEF AssetsSweeps
  <2> QED BY <2>6, <2>7, <2>8, AssetsSweeping
<1> QED BY <1>2, <1>3, <1>4, <1>5 DEF Assets!Recheck

LEMMA AssetsDeleteSteps ==
  ASSUME Assets!FilesAssumption, AssetsInv, NEW w \in Cleaners, Assets!DeleteFinal(w) \/ Assets!DeleteStaging(w)
  PROVE  AssetsInv'
<1>1. /\ cleaner[w].batch # <<>>
      /\ UNCHANGED <<file, age, event, ready, fileLease, completion, slips>>
  BY DEF Assets!DeleteFinal, Assets!DeleteStaging, Assets!At
<1>2. PICK f \in Pictures : f = Assets!Current(w) BY <1>1, AssetsCurrentIsFile
<1>3. fileLease[f] = w /\ AssetsSweepSound(w) /\ AssetsFileSound(f)
  BY <1>2 DEF AssetsInv, Assets!DeleteFinal, Assets!DeleteStaging
<1>4. object \in [Pictures -> Assets!Object] BY AssetsTyped
<1>5. CASE Assets!DeleteFinal(w)
  <2>1. cleaner[w].pc = "checked" /\ cleaner' = [cleaner EXCEPT ![w].pc = "half"]
    BY <1>5 DEF Assets!DeleteFinal, Assets!At
  <2>2. PICK p \in Assets!Worker :
          /\ cleaner' = [cleaner EXCEPT ![w] = p] /\ cleaner'[w] = p
          /\ p.batch = cleaner[w].batch /\ p.phase = cleaner[w].phase /\ p.pc = "half"
          /\ p.phase # "idle" /\ Assets!Current(w)' = f
    BY <1>1, <1>2, <2>1, AssetsStaying
  <2>3. /\ object' \in [Pictures -> Assets!Object]
        /\ object'[f].final = "none" /\ object'[f].staging = object[f].staging
        /\ \A g \in Pictures \ {f} : object'[g] = object[g]
    BY <1>2, <1>4, <1>5 DEF Assets!DeleteFinal, Assets!Object
  <2>4. file[f].status \in {"PENDING", "REJECTED"}  BY <1>1, <1>2, <1>3, <2>1, <2>2 DEF AssetsSweepSound
  <2>5. AssetsFileSound(f)' BY <1>1, <1>3, <2>3, <2>4 DEF AssetsFileSound, AssetsGone
  <2>6. AssetsSweepSound(w)' BY <1>1, <1>2, <1>3, <2>1, <2>2, <2>3 DEF AssetsSweepSound
  <2>7. AssetsSweeps(w, p, f) BY <1>1, <1>3, <2>2, <2>3, AssetsTyped DEF AssetsSweeps
  <2> QED BY <2>5, <2>6, <2>7, AssetsSweeping
<1>6. CASE Assets!DeleteStaging(w)
  <2>1. cleaner[w].pc = "half" /\ cleaner' = [cleaner EXCEPT ![w].pc = "bare"]
    BY <1>6 DEF Assets!DeleteStaging, Assets!At
  <2>2. PICK p \in Assets!Worker :
          /\ cleaner' = [cleaner EXCEPT ![w] = p] /\ cleaner'[w] = p
          /\ p.batch = cleaner[w].batch /\ p.phase = cleaner[w].phase /\ p.pc = "bare"
          /\ p.phase # "idle" /\ Assets!Current(w)' = f
    BY <1>1, <1>2, <2>1, AssetsStaying
  <2>3. /\ object' \in [Pictures -> Assets!Object]
        /\ object'[f].staging = "none" /\ object'[f].final = object[f].final
        /\ \A g \in Pictures \ {f} : object'[g] = object[g]
    BY <1>2, <1>4, <1>6 DEF Assets!DeleteStaging, Assets!Object
  <2>5. AssetsFileSound(f)' BY <1>1, <1>3, <2>3 DEF AssetsFileSound, AssetsGone
  <2>6. AssetsSweepSound(w)' BY <1>1, <1>2, <1>3, <2>1, <2>2, <2>3 DEF AssetsSweepSound
  <2>7. AssetsSweeps(w, p, f) BY <1>1, <1>3, <2>2, <2>3, AssetsTyped DEF AssetsSweeps
  <2> QED BY <2>5, <2>6, <2>7, AssetsSweeping
<1> QED BY <1>5, <1>6

LEMMA AssetsRecordStep ==
  ASSUME Assets!FilesAssumption, AssetsInv, NEW w \in Cleaners, Assets!RecordCleanup(w)
  PROVE  AssetsInv'
<1>1. /\ cleaner[w].batch # <<>> /\ cleaner[w].pc = "bare"
      /\ UNCHANGED <<object, age, ready, completion, slips>> /\ slips' \in 0..Slips
  BY AssetsTyped DEF Assets!RecordCleanup, Assets!At
<1>2. PICK f \in Pictures : f = Assets!Current(w) BY <1>1, AssetsCurrentIsFile
<1>3. PICK phase : phase = cleaner[w].phase
  OBVIOUS
<1>4. /\ fileLease[f] = w /\ Assets!GoOn(w) /\ fileLease' = Assets!Freed(f, w)
      /\ event' = IF phase = "staging" THEN [event EXCEPT ![f].state = "published"] ELSE event
      /\ file' = CASE phase = "pending" /\ Assets!PendingCandidate(f) /\ ~file[f].attached ->
                       [file EXCEPT ![f].status = "REJECTED"]
                  [] phase = "orphan" /\ file[f].status = "REJECTED" /\ Assets!OrphanStill(f) ->
                       [file EXCEPT ![f].status = "DELETED"]
                  [] OTHER -> file
  BY <1>2, <1>3 DEF Assets!RecordCleanup, Assets!Continue
<1>5. /\ file \in [Pictures -> Assets!Row] /\ event \in [Pictures -> Assets!Event] /\ AssetsSweepSound(w)
          /\ AssetsFileSound(f)
  BY AssetsTyped DEF AssetsInv
<1>6. event' \in [Pictures -> Assets!Event] BY <1>4, <1>5 DEF Assets!Event
<1>7. CASE file' = file
  <2>1. AssetsFileSound(f)' BY <1>1, <1>5, <1>7 DEF AssetsFileSound, AssetsGone
  <2> QED BY <1>1, <1>2, <1>4, <1>5, <1>6, <1>7, <2>1, AssetsThrough
<1>8. ASSUME NEW status \in {"REJECTED", "DELETED"}, phase \in {"pending", "orphan"},
             file[f].status \in {"PENDING", "REJECTED"}, ~file[f].attached,
             file' = [file EXCEPT ![f].status = status]
      PROVE  AssetsInv'
  <2>1. /\ file' \in [Pictures -> Assets!Row]
        /\ \A g \in Pictures \ {f} : file'[g] = file[g]
        /\ file'[f].status = status /\ file'[f].attached = file[f].attached
    BY <1>5, <1>8 DEF Assets!Row, Assets!Statuses
  <2>2. age[f] # "fresh" /\ object[f].final = "none" /\ object[f].staging = "none"
    BY <1>1, <1>2, <1>3, <1>4, <1>5, <1>8 DEF AssetsSweepSound
  <2>3. AssetsFileSound(f)' BY <1>1, <1>8, <2>1, <2>2 DEF AssetsFileSound, AssetsGone
  <2> QED BY <1>1, <1>2, <1>4, <1>6, <1>8, <2>1, <2>3, AssetsThrough
<1>9. CASE phase = "pending" /\ Assets!PendingCandidate(f) /\ ~file[f].attached
  BY <1>4, <1>8, <1>9 DEF Assets!PendingCandidate
<1>10. CASE phase = "orphan" /\ file[f].status = "REJECTED" /\ Assets!OrphanStill(f)
  BY <1>4, <1>8, <1>10 DEF Assets!OrphanStill
<1> QED BY <1>4, <1>7, <1>9, <1>10

LEMMA AssetsLostStep ==
  ASSUME Assets!FilesAssumption, AssetsInv, NEW w \in Cleaners, Assets!LeaseWasLost(w) \/ Assets!StoreFails(w)
  PROVE  AssetsInv'
<1>1. /\ cleaner[w].batch # <<>> /\ Assets!Skip(w) /\ UNCHANGED <<file, object, age, ready, completion>>
      /\ slips' \in 0..Slips
  BY AssetsTyped DEF Assets!LeaseWasLost, Assets!StoreFails, Assets!Fault, Assets!FilesAssumption
<1> QED BY <1>1, AssetsSkipStep

\* A worker that is at no file: it starts a phase, or dies.
LEMMA AssetsElsewhere ==
  ASSUME Assets!FilesAssumption, AssetsInv, NEW w \in Cleaners, NEW p \in Assets!Worker,
         cleaner' = [cleaner EXCEPT ![w] = p], p.pc = "next", p.batch # <<>> => p.phase # "idle",
         UNCHANGED <<file, object, age, event, ready, fileLease, completion>>, slips' \in 0..Slips
  PROVE  AssetsInv'
<1>1. /\ cleaner' \in [Cleaners -> Assets!Worker] /\ cleaner'[w] = p
      /\ \A v \in Cleaners \ {w} : cleaner'[v] = cleaner[v]
  BY AssetsWorkerIs
<1>2. Assets!TypeOK' BY <1>1 DEF AssetsInv, Assets!TypeOK
<1>3. \A f \in Pictures : AssetsFileSound(f)' BY DEF AssetsInv, AssetsFileSound, AssetsGone
<1>4. \A r \in Completions : AssetsRequestSound(r)' BY DEF AssetsInv, AssetsRequestSound
<1>5. AssetsOneRequest' BY DEF AssetsInv, AssetsOneRequest
<1>6. \A v \in Cleaners : AssetsSweepSound(v)'  BY <1>1 DEF AssetsInv, AssetsSweepSound, Assets!Current
<1> QED BY <1>2, <1>3, <1>4, <1>5, <1>6 DEF AssetsInv

LEMMA AssetsStartStep ==
  ASSUME Assets!FilesAssumption, AssetsInv, NEW w \in Cleaners, Assets!StartPhase(w)
  PROVE  AssetsInv'
<1>1. PICK phase : phase = Assets!After(cleaner[w].phase)
  OBVIOUS
<1>2. PICK batch \in Assets!Batches(Assets!Listed(phase)) :
        cleaner' = [cleaner EXCEPT ![w] = [phase |-> phase, batch |-> batch, pc |-> "next"]]
  BY <1>1 DEF Assets!StartPhase
<1>3. phase \in Assets!Phases BY <1>1 DEF Assets!After, Assets!Phases
<1>4. batch \in Seq(Pictures) /\ (Assets!Listed(phase) = {} => batch = <<>>)  BY AssetsBatchIsOfFiles
<1>5. phase = "idle" => Assets!Listed(phase) = {} BY DEF Assets!Listed
<1>6. [phase |-> phase, batch |-> batch, pc |-> "next"] \in Assets!Worker  BY <1>3, <1>4 DEF Assets!Worker
<1> QED BY <1>2, <1>4, <1>5, <1>6, AssetsElsewhere, AssetsTyped DEF Assets!StartPhase

LEMMA AssetsCrashWorkerStep ==
  ASSUME Assets!FilesAssumption, AssetsInv, NEW w \in Cleaners, Assets!CrashWorker(w)
  PROVE  AssetsInv'
<1>1. Assets!IdleWorker \in Assets!Worker /\ Assets!IdleWorker.pc = "next" /\ Assets!IdleWorker.batch = <<>>
  BY DEF Assets!IdleWorker, Assets!Worker, Assets!Phases
<1>2. slips' \in 0..Slips  BY AssetsTyped DEF Assets!CrashWorker, Assets!Fault, Assets!FilesAssumption
<1> QED BY <1>1, <1>2, AssetsElsewhere DEF Assets!CrashWorker

LEMMA AssetsLapseStep ==
  ASSUME Assets!FilesAssumption, AssetsInv, NEW f \in Pictures, Assets!LeaseLapses(f)
  PROVE  AssetsInv'
<1>1. /\ UNCHANGED <<file, object, age, event, ready, completion, cleaner>> /\ slips' \in 0..Slips
      /\ fileLease' = [fileLease EXCEPT ![f] = Nobody]
  BY AssetsTyped DEF Assets!LeaseLapses, Assets!Fault, Assets!FilesAssumption
<1>2. /\ fileLease' \in [Pictures -> Completions \cup Cleaners \cup {Nobody}]
      /\ \A g \in Pictures, a \in Completions \cup Cleaners : fileLease'[g] = a => fileLease[g] = a
  BY <1>1, AssetsTyped DEF Assets!FilesAssumption
<1>3. Assets!TypeOK' BY <1>1, <1>2 DEF AssetsInv, Assets!TypeOK
<1>4. \A g \in Pictures : AssetsFileSound(g)' BY <1>1 DEF AssetsInv, AssetsFileSound, AssetsGone
<1>5. \A r \in Completions : AssetsRequestSound(r)'
  <2> SUFFICES ASSUME NEW r \in Completions PROVE AssetsRequestSound(r)'
    OBVIOUS
  <2>1. AssetsRequestSound(r) BY DEF AssetsInv
  <2>2. completion[r].pc # "idle" /\ fileLease'[completion[r].file] = r => fileLease[completion[r].file] = r
    BY <1>2, <2>1 DEF AssetsRequestSound
  <2> QED BY <1>1, <2>1, <2>2 DEF AssetsRequestSound
<1>6. AssetsOneRequest' BY <1>1 DEF AssetsInv, AssetsOneRequest
<1>7. \A w \in Cleaners : AssetsSweepSound(w)'
  <2> SUFFICES ASSUME NEW w \in Cleaners PROVE AssetsSweepSound(w)'
    OBVIOUS
  <2>1. AssetsSweepSound(w) /\ Assets!Current(w)' = Assets!Current(w)  BY <1>1 DEF AssetsInv, Assets!Current
  <2>2. cleaner[w].batch # <<>> /\ fileLease'[Assets!Current(w)] = w => fileLease[Assets!Current(w)] = w
    BY <1>2, AssetsCurrentIsFile
  <2> QED BY <1>1, <2>1, <2>2 DEF AssetsSweepSound
<1> QED BY <1>3, <1>4, <1>5, <1>6, <1>7 DEF AssetsInv

LEMMA AssetsStepwise == Assets!FilesAssumption /\ AssetsInv /\ [Assets!Next]_Assets!vars => AssetsInv'
<1> SUFFICES ASSUME Assets!FilesAssumption, AssetsInv, [Assets!Next]_Assets!vars PROVE AssetsInv'
  OBVIOUS
<1>1. CASE UNCHANGED Assets!vars
  BY <1>1 DEF Assets!vars, AssetsInv, Assets!TypeOK, AssetsFileSound, AssetsGone, AssetsRequestSound,
     AssetsOneRequest, AssetsSweepSound, Assets!Current
<1>2. ASSUME NEW f \in Pictures,
             Assets!CreateIntent(f) \/ Assets!PutObject(f) \/ Assets!GrowOld(f) \/ Assets!EventComesDue(f)
                              \/ Assets!Attach(f) \/ Assets!Detach(f) \/ Assets!LeaseLapses(f)
      PROVE  AssetsInv'
  BY <1>2, AssetsIntentStep, AssetsOutsideSteps, AssetsAttachSteps, AssetsLapseStep
<1>3. ASSUME NEW r \in Completions, NEW f \in Pictures, Assets!AskCompletion(r, f) \/ Assets!AskPromotion(r, f)
      PROVE  AssetsInv'
  BY <1>3, AssetsAskSteps
<1>4. ASSUME NEW r \in Completions, Assets!RequestStep(r) \/ Assets!CrashRequest(r)
      PROVE  AssetsInv'
  BY <1>4, AssetsAcquireStep, AssetsInspectStep, AssetsCopyStep, AssetsCommitStep, AssetsReplayStep,
     AssetsDropStep, AssetsCrashRequestStep DEF Assets!RequestStep
<1>5. ASSUME NEW w \in Cleaners, Assets!WorkerStep(w) \/ Assets!CrashWorker(w) \/ Assets!StoreFails(w)
      PROVE  AssetsInv'
  BY <1>5, AssetsStartStep, AssetsTakeStep, AssetsRecheckStep, AssetsDeleteSteps, AssetsRecordStep,
     AssetsLostStep, AssetsCrashWorkerStep DEF Assets!WorkerStep
<1> QED BY <1>1, <1>2, <1>3, <1>4, <1>5 DEF Assets!Next

\* What the invariant says of the run's properties.
LEMMA AssetsMeans ==
  Assets!FilesAssumption /\ AssetsInv => Assets!TypeOK /\ Assets!ReadyIsStored /\ Assets!AttachedIsReady
     /\ Assets!GoneIsGone
<1> SUFFICES ASSUME Assets!FilesAssumption, AssetsInv
             PROVE  Assets!TypeOK /\ Assets!ReadyIsStored /\ Assets!AttachedIsReady /\ Assets!GoneIsGone
  OBVIOUS
<1>1. Assets!GoneIsGone
  <2> SUFFICES ASSUME NEW f \in Pictures,
                      file[f].status = "DELETED" \/ (file[f].status = "REJECTED" /\ file[f].key = "staging")
               PROVE  object[f] = [staging |-> "none", final |-> "none"]
    BY DEF Assets!GoneIsGone
  <2>1. object[f] \in Assets!Object BY AssetsTyped
  <2>2. object[f].staging = "none" /\ object[f].final = "none" BY DEF AssetsInv, AssetsFileSound
  <2> QED BY <2>1, <2>2 DEF Assets!Object
<1> QED BY <1>1 DEF AssetsInv, AssetsFileSound, Assets!ReadyIsStored, Assets!AttachedIsReady

--------------------------------
\* The suite.  Prompt logins are LoginLimiter with its own limit.
PromptLogins == INSTANCE LoginLimiterProofs WITH Slow <- FALSE, Max <- PromptMax

LeasesInv ==
  /\ part # "prompt" => IInv
  /\ part = "prompt" => PromptLogins!IInv
  /\ OutboxInv /\ AssetsInv

LEMMA PromptAssumption == PromptLogins!LoginLimiterAssumption
BY LeasesAssumption, LoginLimiterAssumption DEF PromptLogins!LoginLimiterAssumption

\* The steps of the instance with theorems are those of the instance of the
\* suite.
LEMMA PromptSame == Prompt!Next <=> PromptLogins!Next
BY DEF Prompt!Next, PromptLogins!Next, Prompt!Send, PromptLogins!Send, Prompt!Serve, PromptLogins!Serve,
   Prompt!Claim, PromptLogins!Claim, Prompt!Check, PromptLogins!Check, Prompt!VerifyRight,
   PromptLogins!VerifyRight, Prompt!VerifyWrong, PromptLogins!VerifyWrong, Prompt!Complete,
   PromptLogins!Complete, Prompt!Release, PromptLogins!Release, Prompt!Fail, PromptLogins!Fail,
   Prompt!ReleaseFails, PromptLogins!ReleaseFails, Prompt!Die, PromptLogins!Die, Prompt!LeaseLapses,
   PromptLogins!LeaseLapses, Prompt!WindowEnds, PromptLogins!WindowEnds, Prompt!Finished,
   PromptLogins!Finished, Prompt!vars, PromptLogins!vars, Prompt!At, PromptLogins!At, Prompt!To,
   PromptLogins!To, Prompt!Outcome, PromptLogins!Outcome, Prompt!InflightKeys, PromptLogins!InflightKeys,
   Prompt!CountersOf, PromptLogins!CountersOf, Prompt!Full, PromptLogins!Full, Prompt!FirstFailure,
   PromptLogins!FirstFailure, Prompt!Leased, PromptLogins!Leased, Prompt!InFlight, PromptLogins!InFlight,
   Prompt!Keys, PromptLogins!Keys, Prompt!Counters, PromptLogins!Counters

\* One component moves, or none.
LEMMA LeasesMoving ==
  ASSUME [LeasesNext]_leaseVars
  PROVE  /\ part' = part
         /\ part # "prompt" => [Next]_vars
         /\ part = "prompt" => [PromptLogins!Next]_PromptLogins!vars
         /\ [Outbox!Next]_Outbox!vars /\ [Assets!Next]_Assets!vars
<1>1. CASE SlowStep BY <1>1 DEF SlowStep, outboxVars, fileVars, Outbox!vars, Assets!vars
<1>2. CASE PromptStep  BY <1>2, PromptSame DEF PromptStep, outboxVars, fileVars, Outbox!vars, Assets!vars
<1>3. CASE OutboxStep BY <1>3 DEF OutboxStep, vars, fileVars, PromptLogins!vars, Assets!vars
<1>4. CASE FileStep BY <1>4 DEF FileStep, vars, outboxVars, PromptLogins!vars, Outbox!vars
<1>5. CASE UNCHANGED leaseVars
  BY <1>5 DEF leaseVars, vars, outboxVars, fileVars, PromptLogins!vars, Outbox!vars, Assets!vars
<1> QED BY <1>1, <1>2, <1>3, <1>4, <1>5 DEF LeasesNext

LEMMA LeasesInitially == LeasesInit => LeasesInv
<1> SUFFICES ASSUME LeasesInit PROVE LeasesInv
  OBVIOUS
<1>1. IInv BY InitIInv DEF LeasesInit
<1>2. PromptLogins!Init
  BY DEF LeasesInit, Init, PromptLogins!Init, Idle, PromptLogins!Idle, Keys, PromptLogins!Keys, Counters,
     PromptLogins!Counters
<1>3. PromptLogins!IInv BY <1>2, PromptLogins!InitIInv, PromptAssumption
<1>4. OutboxInv BY OutboxInitially, LeasesAssumption DEF LeasesInit
<1>5. AssetsInv BY AssetsInitially, LeasesAssumption DEF LeasesInit
<1> QED BY <1>1, <1>3, <1>4, <1>5 DEF LeasesInv

LEMMA LeasesStepwise == LeasesInv /\ [LeasesNext]_leaseVars => LeasesInv'
<1> SUFFICES ASSUME LeasesInv, [LeasesNext]_leaseVars PROVE LeasesInv'
  OBVIOUS
<1>1. /\ part' = part
      /\ part # "prompt" => [Next]_vars
      /\ part = "prompt" => [PromptLogins!Next]_PromptLogins!vars
      /\ [Outbox!Next]_Outbox!vars /\ [Assets!Next]_Assets!vars
  BY LeasesMoving
<1>2. part # "prompt" => IInv' BY <1>1, NextIInv DEF LeasesInv
<1>3. part = "prompt" => PromptLogins!IInv'  BY <1>1, PromptLogins!NextIInv, PromptAssumption DEF LeasesInv
<1>4. OutboxInv' BY <1>1, OutboxStepwise, LeasesAssumption DEF LeasesInv
<1>5. AssetsInv' BY <1>1, AssetsStepwise, LeasesAssumption DEF LeasesInv
<1> QED BY <1>1, <1>2, <1>3, <1>4, <1>5 DEF LeasesInv

LEMMA LeasesInvariant == LeasesSpec => []LeasesInv
BY LeasesInitially, LeasesStepwise, PTL DEF LeasesSpec

\* What leases and locks guard is true for any number of tries, processes,
\* events and files and any number of faults: a counter of failed logins is
\* not passed while requests live less long than their leases, no event is
\* forgotten or locked for ever, and what a row says of a file is true of
\* the store (LeasesHold).
THEOREM LeasesAlwaysHold == LeasesSpec => []LeasesHold
<1>1. ASSUME LeasesInv PROVE LeasesHold
  <2>1. part = "prompt" => Prompt!NeverOverLimit
    BY <1>1 DEF LeasesInv, PromptLogins!IInv, PromptLogins!NeverOverLimit, Prompt!NeverOverLimit,
       PromptLogins!Counters, Prompt!Counters
  <2>2. Outbox!TypeOK /\ Outbox!ReadRowIsCurrent /\ Outbox!NoLockIsLeaked /\ Outbox!NoneForgotten
    BY <1>1, OutboxMeans, LeasesAssumption DEF LeasesInv
  <2>3. Assets!TypeOK /\ Assets!ReadyIsStored /\ Assets!AttachedIsReady /\ Assets!GoneIsGone
    BY <1>1, AssetsMeans, LeasesAssumption DEF LeasesInv
  <2> QED BY <2>1, <2>2, <2>3 DEF LeasesHold
<1> QED BY <1>1, LeasesInvariant, PTL

\* All tries of an attempt agree on its outcome, and its failure counts
\* once and before it is told, whether or not tries outlive their leases
\* (AttemptsAgree).
THEOREM AttemptsAlwaysAgree == LeasesSpec => []AttemptsAgree
<1>1. ASSUME LeasesInv, part # "prompt" PROVE AttemptsAgree
  BY <1>1 DEF LeasesInv, IInv, Shapes, Marked, Verdicts, AttemptsAgree, CountedOnce, AnsweredIsCounted
<1>2. ASSUME LeasesInv, part = "prompt" PROVE AttemptsAgree
  <2>1. PromptLogins!IInv BY <1>2 DEF LeasesInv
  <2>2. TypeOK
    BY <2>1 DEF TypeOK, PromptLogins!IInv, PromptLogins!Shapes, PromptLogins!TypeOK, At, PromptLogins!At,
       Keys, PromptLogins!Keys, Counters, PromptLogins!Counters, Answers, PromptLogins!Answers, Outcomes,
       PromptLogins!Outcomes
  <2>3. AnsweredIsCounted /\ CountedOnce
    BY <2>1 DEF AnsweredIsCounted, CountedOnce, PromptLogins!IInv, PromptLogins!Marked, PromptLogins!Verdicts
  <2>4. AnswersAgree
    BY <2>1 DEF AnswersAgree, PromptLogins!IInv, PromptLogins!AnswersAgree, Outcome, PromptLogins!Outcome,
       Outcomes, PromptLogins!Outcomes
  <2> QED BY <2>2, <2>3, <2>4 DEF AttemptsAgree
<1>3. LeasesInv => AttemptsAgree BY <1>1, <1>2
<1> QED BY <1>3, LeasesInvariant, PTL

\* Whoever is slow changes nothing of what has passed to somebody else, for
\* any number of tries, dispatchers and events: no session is opened over
\* the limit, no lease of another try is taken away, and an outcome of an
\* event is not overwritten (SlowIsHarmless).
THEOREM AlwaysHarmless == LeasesSpec => SlowIsHarmless
<1>1. LeasesInv /\ [LeasesNext]_leaseVars => [part = "prompt" => Prompt!OpensBelowLimit]_leaseVars
  <2> SUFFICES ASSUME LeasesInv, LeasesNext, part = "prompt" PROVE Prompt!OpensBelowLimit
    OBVIOUS
  <2>1. PromptLogins!IInv /\ [PromptLogins!Next]_PromptLogins!vars BY LeasesMoving DEF LeasesInv
  <2>2. [PromptLogins!OpensBelowLimit]_PromptLogins!vars  BY <2>1, PromptLogins!OpensStep, PromptAssumption
  <2> QED BY <2>2 DEF Prompt!OpensBelowLimit, PromptLogins!OpensBelowLimit, PromptLogins!vars,
     Prompt!CountersOf, PromptLogins!CountersOf
<1>2. LeasesInv /\ [LeasesNext]_leaseVars =>
        [\A k \in Keys : lease[k] # Nobody /\ lease'[k] # lease[k] =>
           \A t \in Tries \ {lease[k]} : try'[t] = try[t]]_vars
  <2> SUFFICES ASSUME LeasesInv, [LeasesNext]_leaseVars
               PROVE  [\A k \in Keys : lease[k] # Nobody /\ lease'[k] # lease[k] =>
                         \A t \in Tries \ {lease[k]} : try'[t] = try[t]]_vars
    OBVIOUS
  <2>1. CASE part # "prompt" BY <2>1, LeasesMoving, OwnerStep DEF LeasesInv
  <2>2. CASE part = "prompt"
    <3>1. PromptLogins!IInv /\ [PromptLogins!Next]_PromptLogins!vars  BY <2>2, LeasesMoving DEF LeasesInv
    <3> QED BY <3>1, PromptLogins!OwnerStep, PromptAssumption DEF vars, PromptLogins!vars, Keys,
       PromptLogins!Keys, Counters, PromptLogins!Counters
  <2> QED BY <2>1, <2>2
<1>3. LeasesInv /\ [LeasesNext]_leaseVars =>
        [\A e \in Outbox!Events :
           outbox[e].status = "PUBLISHED" \/ Outbox!GivenUp(e) => outbox'[e] = outbox[e]]_Outbox!vars
  BY LeasesMoving, OutboxOutcomesStand, LeasesAssumption DEF LeasesInv
<1>4. LeasesSpec => [][part = "prompt" => Prompt!OpensBelowLimit]_leaseVars
  BY <1>1, LeasesInvariant, PTL DEF LeasesSpec
<1>5. LeasesSpec => LeaseOfOwner BY <1>2, LeasesInvariant, PTL DEF LeasesSpec, LeaseOfOwner
<1>6. LeasesSpec => Outbox!OutcomeStands  BY <1>3, LeasesInvariant, PTL DEF LeasesSpec, Outbox!OutcomeStands
<1> QED BY <1>4, <1>5, <1>6 DEF SlowIsHarmless
=============================================================================
