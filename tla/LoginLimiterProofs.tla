------------------------- MODULE LoginLimiterProofs -------------------------
(***************************************************************************)
(* Theorems about LoginLimiter for every number of attempts, tries, names  *)
(* and sources and every limit.  What Redis counts and the database records*)
(* agree although tries outlive their leases (Marked, Verdicts); while they*)
(* do not, a try in flight holds its keys (Held) and what it saw of the    *)
(* counters stays true until it records its verdict (Room).                *)
(***************************************************************************)
EXTENDS LoginLimiter, TLAPS

Phases == {"IDLE", "CLAIM", "CHECK", "VERIFY", "COMPLETE", "RELEASE", "DONE"}
Try == [phase : Phases, attempt : Attempts \union {Nobody}, code : Answers \union {0}]

Shapes == TypeOK /\ try \in [Tries -> Try]

Marked == \A a \in Attempts : counted[a] = IF a \in marked THEN 1 ELSE 0

Verdicts ==
  /\ \A t \in Tries : At(t, "COMPLETE") => try[t].code \in Outcomes
  /\ \A t \in Tries : At(t, "COMPLETE") /\ try[t].code = 401 => try[t].attempt \in marked
  /\ \A a \in Attempts : recorded[a] = 401 => a \in marked

Held == \A t \in Tries : Leased(t) => \A k \in InflightKeys(try[t].attempt) : lease[k] = t

Allowed(t) == At(t, "VERIFY") \/ (At(t, "COMPLETE") /\ try[t].code = 200)
Room == \A t \in Tries : Allowed(t) => \A k \in CountersOf(try[t].attempt) : count[k] < Max

IInv ==
  /\ Shapes /\ Marked /\ Verdicts /\ AnswersAgree
  /\ ~Slow => Held /\ Room /\ NeverOverLimit

USE LoginLimiterAssumption

--------------------------------
\* A try that moves on keeps its attempt; the others stay where they are.
LEMMA Moves ==
  ASSUME Shapes, NEW t \in Tries, NEW phase \in Phases, NEW code \in Answers \union {0},
         To(t, phase, code), ~At(t, "IDLE"), phase # "IDLE"
  PROVE  /\ try' \in [Tries -> Try]
         /\ try'[t] = [phase |-> phase, attempt |-> try[t].attempt, code |-> code]
         /\ \A u \in Tries \ {t} : try'[u] = try[u]
         /\ try[t].attempt \in Attempts
         /\ \A u \in Tries : /\ try'[u].attempt = try[u].attempt
                             /\ try'[u].attempt \in Attempts <=> try'[u].phase # "IDLE"
<1>1. try \in [Tries -> Try] /\ \A u \in Tries : try[u].attempt \in Attempts <=> ~At(u, "IDLE")
  BY DEF Shapes, TypeOK
<1>2. try' = [try EXCEPT ![t] = [phase |-> phase, attempt |-> try[t].attempt, code |-> code]]
  BY <1>1 DEF To, Try
<1>3. try[t].attempt \in Attempts BY <1>1
<1>4. [phase |-> phase, attempt |-> try[t].attempt, code |-> code] \in Try BY <1>3 DEF Try
<1>5. /\ try' \in [Tries -> Try]
      /\ try'[t] = [phase |-> phase, attempt |-> try[t].attempt, code |-> code]
      /\ \A u \in Tries \ {t} : try'[u] = try[u]
  BY <1>1, <1>2, <1>4
<1> QED BY <1>1, <1>3, <1>5 DEF At

\* Keys, counters and requests are of their types.
LEMMA KeysOf ==
  ASSUME Shapes, NEW a \in Attempts
  PROVE  /\ CountersOf(a) \subseteq Counters
         /\ CountersOf(a) \subseteq InflightKeys(a)
         /\ InflightKeys(a) \subseteq Keys
         /\ request[a].subject \in CountersOf(a)
BY DEF Shapes, TypeOK, CountersOf, InflightKeys, Counters, Keys

\* No attempt is told 200 or 208 but by its record.
LEMMA OutcomeOf ==
  ASSUME NEW s \in Outcomes
  PROVE  Outcome(s) \in Answers /\ Outcome(s) # 200 /\ Outcome(s) # 0
BY DEF Outcome, Outcomes, Answers

LEMMA InitIInv == Init => IInv
BY DEF Init, Idle, IInv, Shapes, TypeOK, Try, Phases, Answers, Outcomes, Marked, Verdicts, AnswersAgree,
   Held, Leased, Room, Allowed, NeverOverLimit, At, Counters, Keys

--------------------------------
\* A try whose answer is none of the recorded ones spoils no agreement.
LEMMA Untold ==
  ASSUME IInv, NEW t \in Tries, NEW phase \in Phases, NEW code \in Answers \union {0},
         To(t, phase, code), ~At(t, "IDLE"), phase # "IDLE", recorded' = recorded,
         \/ phase \notin {"RELEASE", "DONE"}
         \/ code \notin Outcomes \union {208}
         \/ At(t, "RELEASE") /\ code = try[t].code
  PROVE  AnswersAgree'
<1> DEFINE told(u) == IF try[u].phase \in {"RELEASE", "DONE"} THEN try[u].code ELSE 0
           toldN(u) == IF try'[u].phase \in {"RELEASE", "DONE"} THEN try'[u].code ELSE 0
<1>0. /\ try' \in [Tries -> Try]
      /\ try'[t] = [phase |-> phase, attempt |-> try[t].attempt, code |-> code]
      /\ \A u \in Tries \ {t} : try'[u] = try[u]
      /\ try[t].attempt \in Attempts
      /\ \A u \in Tries : /\ try'[u].attempt = try[u].attempt
                          /\ try'[u].attempt \in Attempts <=> try'[u].phase # "IDLE"
  BY Moves DEF IInv
<1>1. Shapes /\ AnswersAgree BY DEF IInv
<1>2. \A u \in Tries : try'[u].attempt = try[u].attempt BY <1>0, <1>1
<1>3. \A u \in Tries : toldN(u) = told(u) \/ toldN(u) \notin Outcomes \union {208}
  <2>1. \A u \in Tries \ {t} : toldN(u) = told(u) BY <1>0, <1>1
  <2>2. toldN(t) = told(t) \/ toldN(t) \notin Outcomes \union {208} BY <1>0, <1>1 DEF Outcomes, At
  <2> QED BY <2>1, <2>2
<1>4. \A u \in Tries : told(u) \in Outcomes \union {208} =>
        told(u) \in {recorded[try[u].attempt], Outcome(recorded[try[u].attempt])}
  BY <1>1 DEF AnswersAgree
<1>5. \A u, v \in Tries : told(u) = 200 /\ told(v) = 200 /\ try[u].attempt = try[v].attempt => u = v
  BY <1>1 DEF AnswersAgree
<1>6. \A u \in Tries : toldN(u) \in Outcomes \union {208} =>
        toldN(u) \in {recorded'[try'[u].attempt], Outcome(recorded'[try'[u].attempt])}
  BY <1>2, <1>3, <1>4
<1>7. \A u, v \in Tries : toldN(u) = 200 /\ toldN(v) = 200 /\ try'[u].attempt = try'[v].attempt => u = v
  BY <1>2, <1>3, <1>5 DEF Outcomes
<1> QED BY <1>6, <1>7 DEF AnswersAgree, Outcome

\* Steps that move one try and change nothing but, perhaps, leases that
\* nobody in flight holds, or this try's when it ends or begins.
LEMMA Steps ==
  ASSUME IInv, NEW t \in Tries, NEW phase \in Phases, NEW code \in Answers \union {0},
         To(t, phase, code), ~At(t, "IDLE"), phase # "IDLE",
         UNCHANGED <<request, count, marked, recorded, counted, windows>>,
         lease' \in [Keys -> Tries \union {Nobody}],
         \/ phase \notin {"RELEASE", "DONE"}
         \/ code \notin Outcomes \union {208}
         \/ At(t, "RELEASE") /\ code = try[t].code,
         phase = "COMPLETE" => code \in {200, 429},
         ~Slow => /\ \A u \in Tries \ {t} : Leased(u) =>
                       \A k \in InflightKeys(try[u].attempt) : lease'[k] = u
                  /\ phase \in {"CHECK", "VERIFY", "COMPLETE", "RELEASE"} =>
                       \A k \in InflightKeys(try[t].attempt) : lease'[k] = t
                  /\ phase = "VERIFY" \/ (phase = "COMPLETE" /\ code = 200) =>
                       \A k \in CountersOf(try[t].attempt) : count[k] < Max
  PROVE  IInv'
<1>0. /\ try' \in [Tries -> Try]
      /\ try'[t] = [phase |-> phase, attempt |-> try[t].attempt, code |-> code]
      /\ \A u \in Tries \ {t} : try'[u] = try[u]
      /\ try[t].attempt \in Attempts
      /\ \A u \in Tries : /\ try'[u].attempt = try[u].attempt
                          /\ try'[u].attempt \in Attempts <=> try'[u].phase # "IDLE"
  BY Moves DEF IInv
<1>1. Shapes /\ Marked /\ Verdicts BY DEF IInv
<1>2. AnswersAgree' BY Untold
<1>3. Shapes' BY <1>0, <1>1 DEF Shapes, TypeOK, Try, Phases, At
<1>4. Marked' BY <1>1 DEF Marked
<1>5. Verdicts' BY <1>0, <1>1 DEF Verdicts, At, Outcomes
<1>6. ASSUME ~Slow PROVE Held' /\ Room' /\ NeverOverLimit'
  <2>1. Held /\ Room /\ NeverOverLimit BY <1>6 DEF IInv
  <2>2. \A a : InflightKeys(a)' = InflightKeys(a) /\ CountersOf(a)' = CountersOf(a)
    BY DEF InflightKeys, CountersOf
  <2>3. Held' BY <1>0, <1>1, <1>6, <2>1, <2>2 DEF Held, Leased
  <2>4. Room' BY <1>0, <1>1, <1>6, <2>1, <2>2 DEF Room, Allowed, At
  <2> QED BY <2>1, <2>3, <2>4 DEF NeverOverLimit
<1> QED BY <1>2, <1>3, <1>4, <1>5, <1>6 DEF IInv

--------------------------------
LEMMA ClaimStep == ASSUME IInv, NEW t \in Tries, Claim(t) PROVE IInv'
<1> DEFINE a == try[t].attempt
           free == \A k \in InflightKeys(a) : lease[k] = Nobody
<1>1. Shapes /\ At(t, "CLAIM") /\ ~At(t, "IDLE") /\ a \in Attempts  BY DEF IInv, Shapes, TypeOK, Claim, At
<1>2. lease \in [Keys -> Tries \union {Nobody}] /\ lease' \in [Keys -> Tries \union {Nobody}]
  BY <1>1 DEF Shapes, TypeOK, Claim
<1>3. InflightKeys(a) \subseteq Keys BY <1>1, KeysOf
<1>4. ASSUME ~Slow, NEW u \in Tries \ {t}, Leased(u), NEW k \in InflightKeys(try[u].attempt)
      PROVE  lease'[k] = u
  <2>1. try[u].attempt \in Attempts BY <1>1, <1>4 DEF Shapes, TypeOK, Leased, At
  <2>2. k \in Keys /\ lease[k] = u BY <1>1, <1>4, <2>1, KeysOf DEF IInv, Held
  <2> QED BY <1>2, <2>2 DEF Claim
<1>5. CASE free
  <2>1. To(t, "CHECK", 0) /\ \A k \in InflightKeys(a) : lease'[k] = t BY <1>3, <1>5 DEF Claim
  <2>2. "CHECK" \in Phases /\ UNCHANGED <<request, count, marked, recorded, counted, windows>>
    BY DEF Claim, Phases
  <2> QED BY <1>1, <1>2, <1>4, <2>1, <2>2, Steps
<1>6. CASE ~free
  <2>1. To(t, "DONE", 409) /\ UNCHANGED <<request, count, marked, recorded, counted, windows>>
    BY <1>6 DEF Claim
  <2>2. "DONE" \in Phases /\ 409 \in Answers /\ 409 \notin Outcomes \union {208}
    BY DEF Phases, Answers, Outcomes
  <2> QED BY <1>1, <1>2, <1>4, <2>1, <2>2, Steps
<1> QED BY <1>5, <1>6

LEMMA CheckStep == ASSUME IInv, NEW t \in Tries, Check(t) PROVE IInv'
<1>1. /\ At(t, "CHECK") /\ ~At(t, "IDLE") /\ Leased(t) /\ try[t].attempt \in Attempts
      /\ lease' \in [Keys -> Tries \union {Nobody}]
  BY DEF IInv, Shapes, TypeOK, Check, At, Leased
<1>2. ~Slow => \A u \in Tries : Leased(u) => \A k \in InflightKeys(try[u].attempt) : lease'[k] = u
  BY DEF IInv, Held, Check
<1>3. CASE Full(try[t].attempt)
  <2>1. To(t, "COMPLETE", 429) BY <1>3 DEF Check
  <2> QED BY <1>1, <1>2, <2>1, Steps DEF Check, Phases, Answers, Outcomes
<1>4. CASE ~Full(try[t].attempt)
  <2>1. To(t, "VERIFY", 0) BY <1>4 DEF Check
  <2>2. \A k \in CountersOf(try[t].attempt) : count[k] < Max
    <3>1. \A k \in CountersOf(try[t].attempt) : count[k] \in Nat  BY <1>1, KeysOf DEF IInv, Shapes, TypeOK
    <3> QED BY <1>4, <3>1 DEF Full
  <2> QED BY <1>1, <1>2, <2>1, <2>2, Steps DEF Check, Phases
<1> QED BY <1>3, <1>4

LEMMA VerifyRightStep == ASSUME IInv, NEW t \in Tries, VerifyRight(t) PROVE IInv'
<1>1. /\ At(t, "VERIFY") /\ ~At(t, "IDLE") /\ Leased(t)
      /\ To(t, "COMPLETE", 200)
      /\ lease' \in [Keys -> Tries \union {Nobody}]
  BY DEF IInv, Shapes, TypeOK, VerifyRight, At, Leased
<1>2. ~Slow => /\ \A u \in Tries : Leased(u) => \A k \in InflightKeys(try[u].attempt) : lease'[k] = u
               /\ \A k \in CountersOf(try[t].attempt) : count[k] < Max
  BY <1>1 DEF IInv, Held, Room, Allowed, VerifyRight
<1> QED BY <1>1, <1>2, Steps DEF VerifyRight, Phases, Answers, Outcomes

\* An error, and the ways in which a request ends.
LEMMA EndSteps ==
  ASSUME IInv, NEW t \in Tries, Fail(t) \/ Release(t) \/ ReleaseFails(t) \/ Die(t)
  PROVE  IInv'
<1>1. /\ ~At(t, "IDLE")
      /\ lease \in [Keys -> Tries \union {Nobody}]
      /\ try[t].code \in Answers \union {0}
  BY DEF IInv, Shapes, TypeOK, Fail, Release, ReleaseFails, Die, InFlight, Leased, At
<1>2. ~Slow => \A u \in Tries : Leased(u) => \A k \in InflightKeys(try[u].attempt) : lease[k] = u
  BY DEF IInv, Held
<1>3. CASE Fail(t)
  <2>1. To(t, "RELEASE", 500) /\ Leased(t) BY <1>3 DEF Fail
  <2> QED BY <1>1, <1>2, <1>3, <2>1, Steps DEF Fail, Phases, Answers, Outcomes
<1>4. CASE Release(t)
  <2>1. To(t, "DONE", try[t].code) /\ At(t, "RELEASE") /\ lease' \in [Keys -> Tries \union {Nobody}]
    BY <1>1, <1>4 DEF Release
  <2>2. ASSUME ~Slow, NEW u \in Tries \ {t}, Leased(u), NEW k \in InflightKeys(try[u].attempt)
        PROVE  lease'[k] = u
    <3>1. try[u].attempt \in Attempts BY <2>2 DEF IInv, Shapes, TypeOK, Leased, At
    <3>2. k \in Keys /\ lease[k] = u BY <1>2, <2>2, <3>1, KeysOf DEF IInv
    <3> QED BY <1>4, <3>2 DEF Release
  <2> QED BY <1>1, <1>4, <2>1, <2>2, Steps DEF Release, Phases
<1>5. CASE ReleaseFails(t)
  <2>1. To(t, "DONE", try[t].code) /\ At(t, "RELEASE") BY <1>5 DEF ReleaseFails
  <2> QED BY <1>1, <1>2, <1>5, <2>1, Steps DEF ReleaseFails, Phases
<1>6. CASE Die(t)
  <2>1. To(t, "DONE", 0) BY <1>6 DEF Die
  <2> QED BY <1>1, <1>2, <1>6, <2>1, Steps DEF Die, Phases, Outcomes
<1> QED BY <1>3, <1>4, <1>5, <1>6
--------------------------------
LEMMA SendStep == ASSUME IInv, NEW t \in Tries, NEW a \in Attempts, Send(t, a) PROVE IInv'
<1> DEFINE new == IF recorded[a] # 0
                    THEN [phase |-> "DONE", attempt |-> a, code |-> Outcome(recorded[a])]
                    ELSE [phase |-> "CLAIM", attempt |-> a, code |-> 0]
           told(u) == IF try[u].phase \in {"RELEASE", "DONE"} THEN try[u].code ELSE 0
           toldN(u) == IF try'[u].phase \in {"RELEASE", "DONE"} THEN try'[u].code ELSE 0
<1>1. /\ Shapes /\ Marked /\ Verdicts /\ AnswersAgree /\ At(t, "IDLE")
      /\ UNCHANGED <<request, lease, count, marked, recorded, counted, windows>>
  BY DEF IInv, Send
<1>2. recorded[a] \in Outcomes \union {0} /\ Nobody \notin Attempts BY <1>1 DEF Shapes, TypeOK
<1>3. new \in Try /\ new.attempt = a /\ new.phase \in {"CLAIM", "DONE"}  BY <1>2, OutcomeOf DEF Try, Phases
<1>4. try' = [try EXCEPT ![t] = new] /\ try \in [Tries -> Try] BY <1>1 DEF Send, Shapes
<1>5. /\ try' \in [Tries -> Try] /\ try'[t] = new
      /\ \A u \in Tries \ {t} : try'[u] = try[u]
  BY <1>3, <1>4
<1> HIDE DEF new
<1>6. Shapes' BY <1>1, <1>3, <1>5 DEF Shapes, TypeOK, Try, Phases, At
<1>7. Marked' /\ Verdicts' BY <1>1, <1>3, <1>5 DEF Marked, Verdicts, At
<1>8. AnswersAgree'
  <2>1. toldN(t) = 0 \/ (toldN(t) # 200 /\ toldN(t) = Outcome(recorded[a]))  BY <1>2, <1>5, OutcomeOf DEF new
  <2>2. \A u \in Tries \ {t} : toldN(u) = told(u) /\ try'[u].attempt = try[u].attempt BY <1>5
  <2>3. \A u \in Tries : toldN(u) \in Outcomes \union {208} =>
          toldN(u) \in {recorded'[try'[u].attempt], Outcome(recorded'[try'[u].attempt])}
    <3>1. \A u \in Tries \ {t} : told(u) \in Outcomes \union {208} =>
            told(u) \in {recorded[try[u].attempt], Outcome(recorded[try[u].attempt])}
      BY <1>1 DEF AnswersAgree
    <3>2. toldN(t) \in Outcomes \union {208} => toldN(t) = Outcome(recorded'[try'[t].attempt])
      BY <1>1, <1>3, <1>5, <2>1 DEF Outcomes
    <3> QED BY <1>1, <2>2, <3>1, <3>2
  <2>4. \A u, v \in Tries : toldN(u) = 200 /\ toldN(v) = 200 /\ try'[u].attempt = try'[v].attempt => u = v
    <3>1. \A u, v \in Tries : told(u) = 200 /\ told(v) = 200 /\ try[u].attempt = try[v].attempt => u = v
      BY <1>1 DEF AnswersAgree
    <3>2. toldN(t) # 200 BY <2>1
    <3> QED BY <2>2, <3>1, <3>2
  <2> QED BY <2>3, <2>4 DEF AnswersAgree, Outcome
<1>9. ASSUME ~Slow PROVE Held' /\ Room' /\ NeverOverLimit'
  <2>1. Held /\ Room /\ NeverOverLimit BY <1>9 DEF IInv
  <2>2. Held' BY <1>1, <1>3, <1>5, <2>1 DEF Held, Leased, InflightKeys, CountersOf
  <2>3. Room' BY <1>1, <1>3, <1>5, <2>1 DEF Room, Allowed, At, CountersOf
  <2> QED BY <1>1, <2>1, <2>2, <2>3 DEF NeverOverLimit
<1> QED BY <1>6, <1>7, <1>8, <1>9 DEF IInv

\* A counter that another try may rely on is not one of those this failure
\* counts in: both tries would hold its key.
LEMMA VerifyWrongStep == ASSUME IInv, NEW t \in Tries, VerifyWrong(t) PROVE IInv'
<1> DEFINE a == try[t].attempt
           added == IF FirstFailure(a) THEN 1 ELSE 0
           verdict == IF \E k \in CountersOf(a) : count'[k] >= Max THEN 429 ELSE 401
<1>1. /\ Shapes /\ Marked /\ Verdicts /\ ~At(t, "IDLE") /\ At(t, "VERIFY")
      /\ To(t, "COMPLETE", verdict)
      /\ UNCHANGED <<request, lease, recorded, windows>>
  BY DEF IInv, VerifyWrong, At
<1>2. verdict \in {401, 429} /\ verdict \in Answers \union {0} BY DEF Answers, Outcomes
<1>3. /\ marked' = marked \union {a}
      /\ count' = [k \in Counters |-> IF k \in CountersOf(a) THEN count[k] + added ELSE count[k]]
      /\ counted' = [counted EXCEPT ![a] = @ + added]
  BY DEF VerifyWrong
<1>4. added \in {0, 1} /\ (added = 1 <=> a \notin marked) BY DEF FirstFailure
<1> HIDE DEF added, verdict
<1>5. /\ try' \in [Tries -> Try]
      /\ try'[t] = [phase |-> "COMPLETE", attempt |-> a, code |-> verdict]
      /\ \A u \in Tries \ {t} : try'[u] = try[u]
      /\ a \in Attempts
      /\ \A u \in Tries : /\ try'[u].attempt = try[u].attempt
                          /\ try'[u].attempt \in Attempts <=> try'[u].phase # "IDLE"
  BY <1>1, <1>2, Moves DEF Phases
<1>6. count \in [Counters -> Nat] /\ counted \in [Attempts -> Nat] /\ marked \subseteq Attempts
  BY <1>1 DEF Shapes, TypeOK
<1>7. count' \in [Counters -> Nat] /\ counted' \in [Attempts -> Nat] /\ marked' \subseteq Attempts
  BY <1>3, <1>4, <1>5, <1>6
<1>8. Shapes' BY <1>1, <1>5, <1>7 DEF Shapes, TypeOK, Try, Phases, At
<1>9. Marked' BY <1>1, <1>3, <1>4, <1>5, <1>6 DEF Marked
<1>10. Verdicts' BY <1>1, <1>2, <1>3, <1>5 DEF Verdicts, At, Outcomes
<1>11. AnswersAgree' BY <1>1, <1>2, Untold DEF Phases
<1>12. ASSUME ~Slow PROVE Held' /\ Room' /\ NeverOverLimit'
  <2>1. Held /\ Room /\ NeverOverLimit BY <1>12 DEF IInv
  <2>2. Held' BY <1>1, <1>5, <2>1 DEF Held, Leased, At, InflightKeys, CountersOf
  <2>3. \A k \in CountersOf(a) : k \in Counters /\ lease[k] = t /\ count[k] < Max
    BY <1>1, <1>5, <2>1, KeysOf DEF Held, Leased, Room, Allowed, At
  <2>4. \A k \in Counters : count'[k] <= Max
    <3> SUFFICES ASSUME NEW k \in Counters PROVE count'[k] <= Max
      OBVIOUS
    <3>1. count[k] \in Nat /\ count[k] <= Max /\ Max \in Nat BY <1>6, <2>1 DEF NeverOverLimit
    <3>2. CASE k \in CountersOf(a) BY <1>3, <1>4, <2>3, <3>1, <3>2
    <3>3. CASE k \notin CountersOf(a) BY <1>3, <3>1, <3>3
    <3> QED BY <3>2, <3>3
  <2>5. ASSUME NEW u \in Tries, Allowed(u)', NEW k \in CountersOf(try[u].attempt)
        PROVE  count'[k] < Max
    <3>1. u # t BY <1>2, <1>5, <2>5 DEF Allowed, At
    <3>2. Allowed(u) /\ try[u].attempt \in Attempts BY <1>5, <2>5, <3>1 DEF Allowed, At
    <3>3. k \in Counters /\ lease[k] = u /\ count[k] < Max
      BY <1>1, <2>1, <2>5, <3>2, KeysOf DEF Held, Leased, Room, Allowed, At
    <3> QED BY <1>3, <2>3, <3>1, <3>3
  <2>6. Room' BY <1>1, <1>5, <2>5 DEF Room, CountersOf
  <2> QED BY <2>2, <2>4, <2>6 DEF NeverOverLimit
<1> QED BY <1>8, <1>9, <1>10, <1>11, <1>12 DEF IInv
--------------------------------
LEMMA CompleteStep == ASSUME IInv, NEW t \in Tries, Complete(t) PROVE IInv'
<1> DEFINE a == try[t].attempt
           answer == IF recorded[a] # 0 THEN Outcome(recorded[a]) ELSE try[t].code
           told(u) == IF try[u].phase \in {"RELEASE", "DONE"} THEN try[u].code ELSE 0
           toldN(u) == IF try'[u].phase \in {"RELEASE", "DONE"} THEN try'[u].code ELSE 0
<1>1. /\ Shapes /\ Marked /\ Verdicts /\ AnswersAgree /\ ~At(t, "IDLE") /\ At(t, "COMPLETE")
      /\ To(t, "RELEASE", answer)
      /\ UNCHANGED <<request, lease, count, marked, counted, windows>>
      /\ recorded' = IF recorded[a] # 0 THEN recorded ELSE [recorded EXCEPT ![a] = try[t].code]
  BY DEF IInv, Complete, At
<1>2. recorded \in [Attempts -> Outcomes \union {0}] /\ try[t].code \in Outcomes
  BY <1>1 DEF Shapes, TypeOK, Verdicts
<1>3. a \in Attempts BY <1>1 DEF Shapes, TypeOK
<1>4. answer \in Answers \union {0} BY <1>2, <1>3, OutcomeOf DEF Answers
<1>5. /\ try' \in [Tries -> Try]
      /\ try'[t] = [phase |-> "RELEASE", attempt |-> a, code |-> answer]
      /\ \A u \in Tries \ {t} : try'[u] = try[u]
      /\ \A u \in Tries : /\ try'[u].attempt = try[u].attempt
                          /\ try'[u].attempt \in Attempts <=> try'[u].phase # "IDLE"
  BY <1>1, <1>4, Moves DEF Phases
<1>6. /\ recorded' \in [Attempts -> Outcomes \union {0}]
      /\ \A b \in Attempts : recorded[b] # 0 => recorded'[b] = recorded[b]
      /\ recorded'[a] # 0 /\ answer \in {recorded'[a], Outcome(recorded'[a])}
      /\ answer = 200 => recorded[a] = 0
  <2>1. 0 \notin Outcomes BY DEF Outcomes
  <2>2. CASE recorded[a] # 0 BY <1>1, <1>2, <1>3, <2>2, OutcomeOf
  <2>3. CASE recorded[a] = 0 BY <1>1, <1>2, <1>3, <2>1, <2>3
  <2> QED BY <2>2, <2>3
<1> HIDE DEF answer
<1>7. Shapes' BY <1>1, <1>5, <1>6 DEF Shapes, TypeOK, Try, Phases, At
<1>8. Marked' BY <1>1 DEF Marked
<1>9. Verdicts'
  <2>1. ASSUME NEW b \in Attempts, recorded'[b] = 401 PROVE b \in marked'
    <3>1. recorded[b] = 401 \/ (b = a /\ try[t].code = 401) BY <1>1, <1>2, <1>3, <2>1
    <3> QED BY <1>1, <2>1, <3>1 DEF Verdicts
  <2> QED BY <1>1, <1>5, <2>1 DEF Verdicts, At
<1>10. AnswersAgree'
  <2>1. \A u \in Tries \ {t} : toldN(u) = told(u) /\ try'[u].attempt = try[u].attempt BY <1>5
  <2>2. \A u \in Tries : told(u) \in Outcomes \union {208} =>
          told(u) \in {recorded[try[u].attempt], Outcome(recorded[try[u].attempt])}
    BY <1>1 DEF AnswersAgree
  <2>3. ASSUME NEW u \in Tries \ {t}, told(u) \in Outcomes \union {208}
        PROVE  try[u].attempt \in Attempts /\ recorded[try[u].attempt] # 0
    <3>1. try[u].phase # "IDLE" /\ told(u) # 0 BY <2>3 DEF Outcomes
    <3>2. Outcome(0) = 0 BY DEF Outcome
    <3> QED BY <1>1, <2>2, <2>3, <3>1, <3>2 DEF Shapes, TypeOK, At
  <2>4. toldN(t) = answer BY <1>5
  <2>5. \A u \in Tries : toldN(u) \in Outcomes \union {208} =>
          toldN(u) \in {recorded'[try'[u].attempt], Outcome(recorded'[try'[u].attempt])}
    BY <1>5, <1>6, <2>1, <2>2, <2>3, <2>4
  <2>6. \A u, v \in Tries : toldN(u) = 200 /\ toldN(v) = 200 /\ try'[u].attempt = try'[v].attempt => u = v
    <3>1. \A u, v \in Tries : told(u) = 200 /\ told(v) = 200 /\ try[u].attempt = try[v].attempt => u = v
      BY <1>1 DEF AnswersAgree
    <3>2. \A u \in Tries \ {t} : toldN(u) = 200 => recorded[try[u].attempt] # 0  BY <2>1, <2>3 DEF Outcomes
    <3>3. toldN(t) = 200 => recorded[try[t].attempt] = 0 BY <1>6, <2>4
    <3> QED BY <1>5, <2>1, <3>1, <3>2, <3>3
  <2> QED BY <2>5, <2>6 DEF AnswersAgree, Outcome
<1>11. ASSUME ~Slow PROVE Held' /\ Room' /\ NeverOverLimit'
  <2>1. Held /\ Room /\ NeverOverLimit BY <1>11 DEF IInv
  <2>2. Held' BY <1>1, <1>5, <2>1 DEF Held, Leased, At, InflightKeys, CountersOf
  <2>3. Room' BY <1>1, <1>5, <2>1 DEF Room, Allowed, At, CountersOf
  <2> QED BY <1>1, <2>1, <2>2, <2>3 DEF NeverOverLimit
<1> QED BY <1>7, <1>8, <1>9, <1>10, <1>11 DEF IInv

\* Redis forgets: the lease of a try that is over, or a counter.
LEMMA RedisSteps ==
  ASSUME IInv, \/ \E t \in Tries : LeaseLapses(t)
               \/ \E k \in Counters : WindowEnds(k)
  PROVE  IInv'
<1>1. Shapes /\ Marked /\ Verdicts /\ AnswersAgree BY DEF IInv
<1>2. CASE \E t \in Tries : LeaseLapses(t)
  <2>1. PICK t \in Tries : LeaseLapses(t) BY <1>2
  <2>2. UNCHANGED <<request, try, count, marked, recorded, counted, windows>>  BY <2>1 DEF LeaseLapses
  <2>3. lease' = [k \in Keys |-> IF lease[k] = t THEN Nobody ELSE lease[k]] BY <2>1 DEF LeaseLapses
  <2>4. Shapes' BY <1>1, <2>2, <2>3 DEF Shapes, TypeOK, At
  <2>5. Marked' /\ Verdicts' /\ AnswersAgree'  BY <1>1, <2>2 DEF Marked, Verdicts, AnswersAgree, At, Outcome
  <2>6. ASSUME ~Slow PROVE Held' /\ Room' /\ NeverOverLimit'
    <3>1. Held /\ Room /\ NeverOverLimit BY <2>6 DEF IInv
    <3>2. ~Leased(t) BY <2>1, <2>6 DEF LeaseLapses, InFlight
    <3>3. ASSUME NEW u \in Tries, Leased(u), NEW k \in InflightKeys(try[u].attempt)
          PROVE  lease'[k] = u
      <4>1. try[u].attempt \in Attempts BY <1>1, <3>3 DEF Shapes, TypeOK, Leased, At
      <4>2. k \in Keys /\ lease[k] = u /\ u # t BY <1>1, <3>1, <3>2, <3>3, <4>1, KeysOf DEF Held
      <4> QED BY <2>3, <4>2
    <3>4. Held' BY <2>2, <3>3 DEF Held, Leased, InflightKeys, CountersOf
    <3> QED BY <2>2, <3>1, <3>4 DEF Room, Allowed, At, CountersOf, NeverOverLimit
  <2> QED BY <2>4, <2>5, <2>6 DEF IInv
<1>3. CASE \E k \in Counters : WindowEnds(k)
  <2>1. PICK k \in Counters : WindowEnds(k) BY <1>3
  <2>2. /\ UNCHANGED <<request, try, lease, marked, recorded, counted>>
        /\ count' = [count EXCEPT ![k] = 0] /\ windows' = windows + 1 /\ windows < MaxWindows
    BY <2>1 DEF WindowEnds
  <2>3. count \in [Counters -> Nat] BY <1>1 DEF Shapes, TypeOK
  <2>4. Shapes' BY <1>1, <2>2, <2>3 DEF Shapes, TypeOK, At
  <2>5. Marked' /\ Verdicts' /\ AnswersAgree'  BY <1>1, <2>2 DEF Marked, Verdicts, AnswersAgree, At, Outcome
  <2>6. ASSUME ~Slow PROVE Held' /\ Room' /\ NeverOverLimit'
    <3>1. Held /\ Room /\ NeverOverLimit BY <2>6 DEF IInv
    <3>2. \A c \in Counters : count'[c] = count[c] \/ count'[c] = 0 BY <2>2, <2>3
    <3>3. Held' /\ NeverOverLimit'
      BY <2>2, <2>3, <3>1, <3>2 DEF Held, Leased, InflightKeys, CountersOf, NeverOverLimit
    <3>4. ASSUME NEW u \in Tries, Allowed(u), NEW c \in CountersOf(try[u].attempt)
          PROVE  count'[c] < Max
      <4>1. try[u].attempt \in Attempts BY <1>1, <3>4 DEF Shapes, TypeOK, Allowed, At
      <4>2. c \in Counters /\ count[c] < Max BY <1>1, <3>1, <3>4, <4>1, KeysOf DEF Room
      <4> QED BY <3>2, <4>2
    <3>5. Room' BY <2>2, <3>4 DEF Room, Allowed, At, CountersOf
    <3> QED BY <3>3, <3>5
  <2> QED BY <2>4, <2>5, <2>6 DEF IInv
<1> QED BY <1>2, <1>3

LEMMA NextIInv == IInv /\ [Next]_vars => IInv'
<1> SUFFICES ASSUME IInv, [Next]_vars PROVE IInv'
  OBVIOUS
<1>1. CASE UNCHANGED vars
  BY <1>1 DEF vars, IInv, Shapes, TypeOK, Marked, Verdicts, AnswersAgree, Held, Leased, Room,
    Allowed, NeverOverLimit, At, InflightKeys, CountersOf, Outcome
<1>2. ASSUME NEW t \in Tries, NEW a \in Attempts, Send(t, a) PROVE IInv'
  BY <1>2, SendStep
<1>3. ASSUME NEW t \in Tries, Serve(t) PROVE IInv'
  BY <1>3, ClaimStep, CheckStep, VerifyRightStep, VerifyWrongStep, CompleteStep, EndSteps DEF Serve
<1>4. ASSUME NEW t \in Tries, Fail(t) \/ ReleaseFails(t) \/ Die(t) \/ LeaseLapses(t) PROVE IInv'
  BY <1>4, EndSteps, RedisSteps
<1>5. ASSUME NEW k \in Counters, WindowEnds(k) PROVE IInv'
  BY <1>5, RedisSteps
<1> QED BY <1>1, <1>2, <1>3, <1>4, <1>5 DEF Next, Finished

--------------------------------
\* The inductive invariant holds in every reachable state.
THEOREM Invariant == Spec => []IInv
BY InitIInv, NextIInv, PTL DEF Spec

\* Everything keeps its type, for any number of attempts, tries, names,
\* sources and lapsed windows (TypeOK).
THEOREM Typed == Spec => []TypeOK
<1>1. IInv => TypeOK BY DEF IInv, Shapes
<1> QED BY <1>1, Invariant, PTL

\* The failure of an attempt counts once, however often it is sent and
\* whatever fails between counting and recording (RECORD_SCRIPT).
THEOREM Once == Spec => []CountedOnce
<1>1. IInv => CountedOnce BY DEF IInv, Marked, CountedOnce
<1> QED BY <1>1, Invariant, PTL

\* An attempt that is answered 401 was counted (loginAfterClaim).
THEOREM Counted401 == Spec => []AnsweredIsCounted
<1>1. IInv => AnsweredIsCounted BY DEF IInv, Marked, Verdicts, AnsweredIsCounted
<1> QED BY <1>1, Invariant, PTL

\* All tries of an attempt are told one outcome and at most one of them is
\* given its session, with and without leases (IdempotencyRepository.claim)
THEOREM OneAnswer == Spec => []AnswersAgree
<1>1. IInv => AnswersAgree BY DEF IInv
<1> QED BY <1>1, Invariant, PTL

\* As long as no try outlives its lease, no counter passes the limit
\* (claimAttempt, assertAllowed, recordFailure).
THEOREM LimitHolds == ~Slow /\ Spec => []NeverOverLimit
<1>1. ~Slow /\ IInv => NeverOverLimit BY DEF IInv
<1>2. ASSUME ~Slow PROVE Spec => []NeverOverLimit
  <2>1. IInv => NeverOverLimit BY <1>1, <1>2
  <2> QED BY <2>1, Invariant, PTL
<1> QED BY <1>2

\* Whoever records a 200 verified the password with room in the counters.
LEMMA OpensStep == ~Slow /\ IInv /\ [Next]_vars => [OpensBelowLimit]_vars
<1> SUFFICES ASSUME ~Slow, IInv, Next, NEW a \in Attempts, recorded[a] = 0, recorded'[a] = 200
             PROVE  \A k \in CountersOf(a) : count[k] < Max
  BY DEF OpensBelowLimit
<1>1. PICK t \in Tries : Complete(t) /\ try[t].attempt = a /\ try[t].code = 200
  <2>1. recorded' # recorded
    OBVIOUS
  <2>2. PICK t \in Tries : Complete(t)
    BY <2>1 DEF Next, Send, Serve, Claim, Check, VerifyRight, VerifyWrong, Release, Fail,
      ReleaseFails, Die, LeaseLapses, WindowEnds, Finished, vars
  <2>3. recorded \in [Attempts -> Outcomes \union {0}] BY DEF IInv, Shapes, TypeOK
  <2>4. try[t].attempt = a /\ try[t].code = 200 BY <2>2, <2>3 DEF Complete
  <2> QED BY <2>2, <2>4
<1>2. Allowed(t) BY <1>1 DEF Allowed, Complete
<1> QED BY <1>1, <1>2 DEF IInv, Room

\* And no session is opened over the limit: what was looked up before the
\* password was verified still holds when the session is committed.
THEOREM OpenedInTime == ~Slow /\ Spec => OpenedBelowLimit
<1>1. ASSUME ~Slow PROVE Spec => OpenedBelowLimit
  <2>1. IInv /\ [Next]_vars => [OpensBelowLimit]_vars BY <1>1, OpensStep
  <2> QED BY <2>1, Invariant, PTL DEF Spec, OpenedBelowLimit
<1> QED BY <1>1

\* A held key changes only when its holder releases it or its lease ends.
LEMMA OwnerStep ==
  IInv /\ [Next]_vars =>
    [\A k \in Keys : lease[k] # Nobody /\ lease'[k] # lease[k] =>
       \A t \in Tries \ {lease[k]} : try'[t] = try[t]]_vars
<1> SUFFICES ASSUME IInv, Next, NEW k \in Keys, lease[k] # Nobody, lease'[k] # lease[k],
                    NEW t \in Tries, t # lease[k]
             PROVE  try'[t] = try[t]
  OBVIOUS
<1>1. try \in [Tries -> Try] /\ lease \in [Keys -> Tries \union {Nobody}]  BY DEF IInv, Shapes, TypeOK
<1>2. ASSUME NEW u \in Tries, Claim(u) PROVE FALSE
  BY <1>1, <1>2 DEF Claim
<1>3. ASSUME NEW u \in Tries, Release(u) PROVE try'[t] = try[t]
  BY <1>1, <1>3 DEF Release, To
<1>4. ASSUME NEW u \in Tries, LeaseLapses(u) PROVE try'[t] = try[t]
  BY <1>4 DEF LeaseLapses
<1> QED BY <1>2, <1>3, <1>4 DEF Next, Send, Serve, Check, VerifyRight, VerifyWrong, Complete, Fail,
   ReleaseFails, Die, WindowEnds, Finished, vars

\* A lease changes hands only through its holder or its end: no other try
\* takes it, not even one that once held the key (RELEASE_CLAIM_SCRIPT).
THEOREM LeaseIsOwners == Spec => LeaseOfOwner
BY OwnerStep, Invariant, PTL DEF Spec, LeaseOfOwner

\* Together: whatever dies and lapses, the tries of an attempt agree and
\* its failure counts once, before it is told.
THEOREM AttemptsDoAgree == Spec => []AttemptsAgree
BY Typed, Counted401, Once, OneAnswer, PTL DEF AttemptsAgree
=============================================================================
