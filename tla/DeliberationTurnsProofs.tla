---------------------- MODULE DeliberationTurnsProofs ----------------------
(***************************************************************************)
(* What a deliberation does with the work of its agents, for every         *)
(* configuration: how many are called, whose turn is accepted, what of a   *)
(* saved result is kept, who is heard by whom, and what a completed phase  *)
(* amounts to.                                                             *)
(***************************************************************************)
EXTENDS DeliberationProofs, FunctionTheorems

\* In a set of places every rank has its place: the ranks are an injection into as many
\* numbers as there are places.
LEMMA EveryRankHasItsPlace ==
  ASSUME NEW n \in Nat, NEW I \in SUBSET (1..n)
  PROVE  /\ IsFiniteSet(I) /\ Cardinality(I) \in Nat
         /\ \A k \in 1..Cardinality(I) : \E i \in I : Cardinality({j \in I : j <= i}) = k
<1>1. IsFiniteSet(I)
  <2>1. IsFiniteSet(1..n)
    BY FS_Interval
  <2>2. QED
    BY <2>1, FS_Subset
<1>2. Cardinality(I) \in Nat
  BY <1>1, FS_CardinalityType
<1> DEFINE below(i) == {j \in I : j <= i}
<1> DEFINE f == [i \in I |-> Cardinality(below(i))]
<1>3. \A i \in I : IsFiniteSet(below(i)) /\ Cardinality(below(i)) \in 1..Cardinality(I)
  <2> SUFFICES ASSUME NEW i \in I
               PROVE  IsFiniteSet(below(i)) /\ Cardinality(below(i)) \in 1..Cardinality(I)
    OBVIOUS
  <2>1. below(i) \subseteq I /\ i \in below(i)
    OBVIOUS
  <2> HIDE DEF below
  <2>2. IsFiniteSet(below(i)) /\ Cardinality(below(i)) <= Cardinality(I)
    BY <1>1, <2>1, FS_Subset
  <2>3. Cardinality(below(i)) \in Nat /\ Cardinality(below(i)) # 0
    BY <2>1, <2>2, FS_CardinalityType, FS_EmptySet
  <2>4. QED
    BY <1>2, <2>2, <2>3
<1>4. ASSUME NEW i \in I, NEW j \in I, i < j PROVE Cardinality(below(i)) # Cardinality(below(j))
  <2>1. I \subseteq Int /\ i \in Int /\ j \in Int /\ i < j
    BY <1>4
  <2>2. below(i) \subseteq below(j) /\ j \in below(j) /\ j \notin below(i)
    <3>1. \A x \in I : x <= i => x <= j
      BY <2>1
    <3>2. j <= j /\ ~(j <= i)
      BY <2>1
    <3>3. QED
      BY <3>1, <3>2
  <2> HIDE DEF below
  <2>3. QED
    BY <1>3, <2>2, FS_Subset
<1>5. f \in Injection(I, 1..Cardinality(I))
  <2>1. f \in [I -> 1..Cardinality(I)]
    BY <1>3
  <2>2. ASSUME NEW i \in I, NEW j \in I, f[i] = f[j] PROVE i = j
    <3>1. Cardinality(below(i)) = Cardinality(below(j))
      BY <2>2
    <3> HIDE DEF below
    <3>2. QED
      BY <1>4, <3>1
  <2> HIDE DEF f
  <2>3. QED
    BY <2>1, <2>2 DEF Injection, IsInjective
<1>6. f \in Surjection(I, 1..Cardinality(I))
  <2>1. IsFiniteSet(1..Cardinality(I)) /\ Cardinality(1..Cardinality(I)) = Cardinality(I)
    BY <1>2, FS_Interval
  <2> HIDE DEF f
  <2>2. QED
    BY <1>5, <2>1, FS_Injection
<1>7. \A k \in 1..Cardinality(I) : \E i \in I : f[i] = k
  BY <1>6 DEF Surjection
<1>8. QED
  BY <1>1, <1>2, <1>7

\* Who takes part, in the order of the roster: every participant is named at an eligible
\* place, and no two at the same.
LEMMA ParticipantsKnown ==
  ASSUME NEW p \in Phases, NEW outs
  PROVE  LET s == Participants(p, outs)
         IN /\ Len(s) \in Nat /\ Len(s) = Cardinality(Eligible(p, outs))
            /\ \A k \in 1..Len(s) : \E i \in Eligible(p, outs) :
                 s[k] = Roster[p][i] /\ Cardinality({j \in Eligible(p, outs) : j <= i}) = k
            /\ \A k, l \in 1..Len(s) : s[k] = s[l] => k = l
<1> DEFINE I == Eligible(p, outs)
<1> DEFINE place(k) == CHOOSE i \in I : Cardinality({j \in I : j <= i}) = k
<1>1. Roster[p] \in Seq(Agents) /\ Len(Roster[p]) \in Nat
  BY ConfigAssumption
<1>2. I \in SUBSET (1..Len(Roster[p])) /\ I \subseteq DOMAIN Roster[p]
  BY <1>1 DEF Eligible
<1>3. /\ Cardinality(I) \in Nat
      /\ \A k \in 1..Cardinality(I) : \E i \in I : Cardinality({j \in I : j <= i}) = k
  BY <1>1, <1>2, EveryRankHasItsPlace
<1>4. \A k \in 1..Cardinality(I) :
        place(k) \in I /\ Cardinality({j \in I : j <= place(k)}) = k
  BY <1>3
<1> DEFINE s == [k \in 1..Cardinality(I) |-> Roster[p][place(k)]]
<1>5. Participants(p, outs) = s
  BY DEF Participants
<1>6. Len(s) = Cardinality(I)
  BY <1>3
<1>7. \A k \in 1..Cardinality(I) : s[k] = Roster[p][place(k)]
  OBVIOUS
<1> HIDE DEF I, place, s
<1>8. IsInjective(Roster[p])
  BY ConfigAssumption
<1>9. ASSUME NEW k \in 1..Cardinality(I), NEW l \in 1..Cardinality(I), s[k] = s[l]
      PROVE  k = l
  <2>1. place(k) \in DOMAIN Roster[p] /\ place(l) \in DOMAIN Roster[p]
    BY <1>2, <1>4
  <2>2. place(k) = place(l)
    BY <1>7, <1>8, <1>9, <2>1 DEF IsInjective
  <2>3. QED
    BY <1>4, <2>2
<1>10. \A k \in 1..Cardinality(I) : \E i \in I :
         s[k] = Roster[p][i] /\ Cardinality({j \in I : j <= i}) = k
  BY <1>4, <1>7
<1>11. QED
  BY <1>3, <1>5, <1>6, <1>9, <1>10 DEF I

\* A sequential phase follows its roster.
LEMMA SequentialSchedule ==
  ASSUME NEW p \in Phases, NEW outs, Mode[p] = "sequential"
  PROVE  Schedule(p, outs) = [t \in 1..Len(Roster[p]) |-> [agent |-> Roster[p][t], round |-> 0]]
<1> DEFINE n == Len(Roster[p])
<1> DEFINE s == Participants(p, outs)
<1>1. Roster[p] \in Seq(Agents) /\ n \in Nat
  BY ConfigAssumption
<1>2. Eligible(p, outs) = 1..n
  BY <1>1 DEF Eligible
<1>3. Cardinality(1..n) = n
  BY <1>1, FS_Interval
<1>4. Len(s) = n
  BY <1>2, <1>3, ParticipantsKnown
<1>5. ASSUME NEW k \in 1..n PROVE s[k] = Roster[p][k]
  <2>1. PICK i \in 1..n : s[k] = Roster[p][i] /\ Cardinality({j \in 1..n : j <= i}) = k
    <3>1. \A m \in 1..Len(s) : \E i \in Eligible(p, outs) :
            s[m] = Roster[p][i] /\ Cardinality({j \in Eligible(p, outs) : j <= i}) = m
      BY ParticipantsKnown
    <3> HIDE DEF s, n
    <3>2. QED
      BY <1>2, <1>4, <3>1
  <2>2. {j \in 1..n : j <= i} = 1..i
    BY <1>1
  <2>3. Cardinality(1..i) = i
    BY <1>1, FS_Interval
  <2>4. QED
    BY <2>1, <2>2, <2>3
<1>6. Schedule(p, outs) = [t \in 1..Len(s) |-> [agent |-> s[t], round |-> 0]]
  BY DEF Schedule
<1> HIDE DEF s, n
<1>7. QED
  BY <1>4, <1>5, <1>6 DEF n

\* The turns of a discussion, written out.
LEMMA DiscussionSchedule ==
  ASSUME NEW p \in Phases, NEW outs, Mode[p] = "round_robin"
  PROVE  LET s == Participants(p, outs)
             n == Len(s)
         IN /\ Len(Schedule(p, outs)) = n * MaxRounds[p]
            /\ Len(Schedule(p, outs)) \in Nat
            /\ \A t \in 1..Len(Schedule(p, outs)) :
                 /\ n # 0
                 /\ Schedule(p, outs)[t] =
                      [agent |-> s[((((t - 1) \div n) + (t - 1)) % n) + 1],
                       round |-> ((t - 1) \div n) + 1]
<1> DEFINE s == Participants(p, outs)
<1> DEFINE n == Len(s)
<1> DEFINE m == n * MaxRounds[p]
<1>1. n \in Nat
  BY ParticipantsKnown
<1>2. MaxRounds[p] \in Nat
  <2>1. MaxRounds \in [Phases -> 0..20]
    BY ConfigAssumption DEF Rounds
  <2>2. QED
    BY <2>1
<1>3. m \in Nat
  <2>1. \A a, b \in Nat : a * b \in Nat
    OBVIOUS
  <2>2. QED
    BY <1>1, <1>2, <2>1
<1>4. n = 0 => m = 0
  BY <1>2
<1> DEFINE at(t) == LET r == ((t - 1) \div n) + 1
                    IN [agent |-> s[((r - 1 + t - 1) % n) + 1], round |-> r]
<1>5. Schedule(p, outs) = [t \in 1..m |-> at(t)]
  BY DEF Schedule
<1>6. ASSUME NEW t \in 1..m
      PROVE  n # 0 /\ at(t) = [agent |-> s[((((t - 1) \div n) + (t - 1)) % n) + 1],
                               round |-> ((t - 1) \div n) + 1]
  <2>1. n \in Nat \ {0} /\ t - 1 \in Nat
    BY <1>1, <1>3, <1>4
  <2>2. (t - 1) \div n \in Int
    BY <2>1
  <2> DEFINE d == (t - 1) \div n
  <2>3. d + 1 - 1 + t - 1 = d + (t - 1)
    <3> HIDE DEF d
    <3>1. d \in Int /\ t \in Int
      BY <1>3, <2>2 DEF d
    <3>2. QED
      BY <3>1
  <2>4. QED
    BY <2>1, <2>3
<1> HIDE DEF at, m
<1>7. Len(Schedule(p, outs)) = m
  BY <1>3, <1>5
<1>8. QED
  BY <1>3, <1>5, <1>6, <1>7 DEF m

\* Who opens a round changes from round to round, but nobody speaks twice in one.
LEMMA RotationDistinct ==
  ASSUME NEW n \in Nat \ {0}, NEW x \in Nat, NEW y \in Nat, x \div n = y \div n,
         ((x \div n) + x) % n = ((y \div n) + y) % n
  PROVE  x = y
BY SMTT(30)

\* No turn is in the schedule twice.
LEMMA ScheduleDistinct ==
  ASSUME NEW p \in Phases, NEW outs,
         NEW i \in 1..Len(Schedule(p, outs)), NEW j \in 1..Len(Schedule(p, outs)),
         Schedule(p, outs)[i] = Schedule(p, outs)[j]
  PROVE  i = j
<1> DEFINE s == Participants(p, outs)
<1> DEFINE n == Len(s)
<1>1. /\ n \in Nat
      /\ \A k, l \in 1..n : s[k] = s[l] => k = l
  BY ParticipantsKnown
<1>2. Len(Schedule(p, outs)) \in Nat
  BY ScheduleLength
<1>3. CASE Mode[p] = "round_robin"
  <2>1. /\ n # 0
        /\ \A t \in {i, j} :
             Schedule(p, outs)[t] = [agent |-> s[((((t - 1) \div n) + (t - 1)) % n) + 1],
                                     round |-> ((t - 1) \div n) + 1]
    BY <1>3, DiscussionSchedule
  <2> DEFINE d(x) == x \div n
  <2> DEFINE c(x) == (d(x) + x) % n
  <2>2. i - 1 \in Nat /\ j - 1 \in Nat /\ n \in Nat \ {0}
    <3>1. i \in Nat \ {0} /\ j \in Nat \ {0}
      BY <1>2
    <3> HIDE DEF n
    <3>2. i - 1 \in Nat /\ j - 1 \in Nat
      BY ONLY <3>1
    <3>3. n \in Nat \ {0}
      BY ONLY <1>1, <2>1
    <3>4. QED
      BY <3>2, <3>3
  <2>3. d(i - 1) + 1 = d(j - 1) + 1 /\ s[c(i - 1) + 1] = s[c(j - 1) + 1]
    <3> DEFINE turn(t) == [agent |-> s[c(t - 1) + 1], round |-> d(t - 1) + 1]
    <3>1. Schedule(p, outs)[i] = turn(i) /\ Schedule(p, outs)[j] = turn(j)
      BY ONLY <2>1, Zenon
    <3>2. turn(i) = turn(j)
      BY ONLY <3>1, Schedule(p, outs)[i] = Schedule(p, outs)[j], Zenon
    <3>3. /\ turn(i).agent = s[c(i - 1) + 1] /\ turn(i).round = d(i - 1) + 1
          /\ turn(j).agent = s[c(j - 1) + 1] /\ turn(j).round = d(j - 1) + 1
      <4> HIDE DEF c, d, n, s
      <4>1. QED
        BY ONLY TRUE
    <3> HIDE DEF turn
    <3>4. QED
      BY ONLY <3>2, <3>3, Zenon
  <2>4. \A x \in Nat : d(x) \in Nat
    BY <2>2
  <2>5. ASSUME NEW x \in Nat PROVE c(x) \in 0..(n - 1)
    <3>1. \A y \in Nat : y % n \in 0..(n - 1)
      BY <2>2
    <3>2. d(x) + x \in Nat
      <4>1. \A y, z \in Nat : y + z \in Nat
        OBVIOUS
      <4>2. QED
        BY <2>4, <4>1
    <3> HIDE DEF d
    <3>3. QED
      BY <3>1, <3>2
  <2>6. d(i - 1) = d(j - 1) /\ c(i - 1) = c(j - 1)
    <3> HIDE DEF c, d
    <3>1. /\ d(i - 1) \in Nat /\ d(j - 1) \in Nat
          /\ c(i - 1) \in 0..(n - 1) /\ c(j - 1) \in 0..(n - 1)
      BY <2>2, <2>4, <2>5
    <3> HIDE DEF n
    <3>2. c(i - 1) + 1 \in 1..n /\ c(j - 1) + 1 \in 1..n
      <4>1. n \in Nat
        BY <1>1
      <4>2. \A x \in 0..(n - 1) : x + 1 \in 1..n
        BY ONLY <4>1
      <4>3. QED
        BY ONLY <3>1, <4>2
    <3>3. c(i - 1) + 1 = c(j - 1) + 1
      BY <1>1, <2>3, <3>2
    <3>4. QED
      BY <2>3, <3>1, <3>3
  <2>7. i - 1 = j - 1
    BY <2>2, <2>6, RotationDistinct
  <2>8. QED
    BY <1>2, <2>7
<1>4. CASE Mode[p] # "round_robin"
  <2>1. Schedule(p, outs) = [t \in 1..n |-> [agent |-> s[t], round |-> 0]]
    BY <1>4 DEF Schedule
  <2> HIDE DEF s, n
  <2>2. QED
    BY <1>1, <2>1
<1>5. QED
  BY <1>3, <1>4

\* The speakers of a schedule are participants; in a discussion in independent
\* synthesis, authors of the independent assessments.
LEMMA SpeakersBelong ==
  ASSUME NEW p \in Phases, NEW outs, NEW i \in 1..Len(Schedule(p, outs)),
         Synthesis, Mode[p] = "round_robin", NEW q \in IndependentPhase(p)
  PROVE  Schedule(p, outs)[i].agent \in Authors(outs[q])
<1> DEFINE s == Participants(p, outs)
<1> DEFINE n == Len(s)
<1> DEFINE c == (((i - 1) \div n) + (i - 1)) % n
<1>1. n \in Nat /\ \A k \in 1..n : \E m \in Eligible(p, outs) : s[k] = Roster[p][m]
  <2>1. /\ Len(s) \in Nat
        /\ \A k \in 1..Len(s) : \E m \in Eligible(p, outs) :
             s[k] = Roster[p][m] /\ Cardinality({j \in Eligible(p, outs) : j <= m}) = k
    BY ParticipantsKnown, Zenon
  <2> HIDE DEF c, s
  <2>2. ASSUME NEW k \in 1..Len(s) PROVE \E m \in Eligible(p, outs) : s[k] = Roster[p][m]
    BY ONLY <2>1, <2>2, Zenon
  <2>3. QED
    BY ONLY <2>1, <2>2 DEF n
<1>2. n # 0 /\ Schedule(p, outs)[i].agent = s[c + 1]
  <2>1. /\ n # 0
        /\ Schedule(p, outs)[i] = [agent |-> s[c + 1], round |-> ((i - 1) \div n) + 1]
    <3>1. \A t \in 1..Len(Schedule(p, outs)) :
            /\ n # 0
            /\ Schedule(p, outs)[t] = [agent |-> s[((((t - 1) \div n) + (t - 1)) % n) + 1],
                                       round |-> ((t - 1) \div n) + 1]
      BY DiscussionSchedule, Zenon
    <3>2. QED
      BY ONLY <3>1, i \in 1..Len(Schedule(p, outs)), Zenon
  <2> HIDE DEF c, s, n
  <2>2. QED
    BY <2>1
<1>3. i \in Nat \ {0}
  BY ScheduleLength
<1>4. c \in 0..(n - 1)
  <2>1. i - 1 \in Nat /\ n \in Nat \ {0}
    BY <1>1, <1>2, <1>3
  <2>2. (i - 1) \div n \in Nat
    BY <2>1
  <2>3. \A x \in Nat : x % n \in 0..(n - 1)
    BY <2>1
  <2>4. ((i - 1) \div n) + (i - 1) \in Nat
    BY <2>1, <2>2
  <2>5. QED
    BY <2>3, <2>4
<1> HIDE DEF c, s, n
<1>5. c + 1 \in 1..n
  BY <1>1, <1>4
<1>6. PICK m \in Eligible(p, outs) : s[c + 1] = Roster[p][m]
  BY <1>1, <1>5
<1>7. Roster[p][m] \in Authors(outs[q])
  BY DEF Eligible
<1>8. QED
  BY <1>2, <1>6, <1>7

\* The schedule of a phase depends on the authors of the phases before it only.
LEMMA ScheduleSame ==
  ASSUME NEW p \in Phases, NEW outs, NEW new,
         \A q \in 1..(p - 1) : Authors(new[q]) = Authors(outs[q])
  PROVE  Schedule(p, new) = Schedule(p, outs)
<1>1. IndependentPhase(p) \subseteq 1..(p - 1)
  BY DEF IndependentPhase
<1>2. Eligible(p, new) = Eligible(p, outs)
  BY <1>1 DEF Eligible
<1>3. Participants(p, new) = Participants(p, outs)
  BY <1>2 DEF Participants
<1>4. QED
  BY <1>3 DEF Schedule
-----------------------------------------------------------------------------
(***************************************************************************)
(* The calls.  CallsAreBounded is inductive once it says that the calls in *)
(* flight are finitely many, which is all that is known of Agents.         *)
(***************************************************************************)
CallInv == IsFiniteSet(InFlight) /\ CallsAreBounded

\* No call, or one: what a phase that awaits turn after turn leaves behind.
LEMMA NoCallsInFlight ==
  ASSUME call' = NoCalls
  PROVE  InFlight' = {} /\ Outstanding' = {} /\ IsFiniteSet(InFlight') /\ Cardinality(InFlight') = 0
<1>1. InFlight' = {} /\ Outstanding' = {}
  BY DEF InFlight, Outstanding, NoCalls
<1>2. QED
  BY <1>1, FS_EmptySet

\* Entering a turn leaves one call at most, leaving the loop none.
LEMMA AwaitCalls ==
  ASSUME NEW i, NEW sched, Await(i, sched)
  PROVE  CallInv'
<1>1. MaxConcurrency \in Nat \ {0}
  BY ConfigAssumption
<1>2. CASE call' = NoCalls
  BY <1>1, <1>2, NoCallsInFlight DEF CallInv, CallsAreBounded
<1>3. CASE call' = [NoCalls EXCEPT ![sched[i].agent] = "held"] /\ pc' = "turns"
  <2>1. InFlight' \subseteq {sched[i].agent}
    BY <1>3 DEF InFlight, NoCalls
  <2>2. IsFiniteSet({sched[i].agent}) /\ Cardinality({sched[i].agent}) = 1
    BY FS_Singleton
  <2>3. IsFiniteSet(InFlight') /\ Cardinality(InFlight') \in Nat /\ Cardinality(InFlight') <= 1
    BY <2>1, <2>2, FS_Subset, FS_CardinalityType
  <2>4. QED
    BY <1>1, <1>3, <2>3 DEF CallInv, CallsAreBounded
<1>4. QED
  BY <1>2, <1>3 DEF Await

\* Fewer calls in flight are still bounded.
LEMMA FewerCalls ==
  ASSUME CallInv, InFlight' \subseteq InFlight
  PROVE  IsFiniteSet(InFlight') /\ Cardinality(InFlight') <= MaxConcurrency
<1>1. IsFiniteSet(InFlight') /\ Cardinality(InFlight') <= Cardinality(InFlight)
  BY FS_Subset DEF CallInv
<1>2. Cardinality(InFlight') \in Nat /\ Cardinality(InFlight) \in Nat /\ MaxConcurrency \in Nat
  BY <1>1, FS_CardinalityType, ConfigAssumption DEF CallInv
<1>3. QED
  BY <1>1, <1>2 DEF CallInv, CallsAreBounded

\* A step of one call: a seat is taken only when one is free.
LEMMA StepCalls ==
  ASSUME TypeInv, CallInv, NEW a \in Agents, Step(a)
  PROVE  CallInv'
<1>1. call \in [Agents -> {"none", "queued", "held", "calling", "answered", "failed"}]
  BY DEF TypeInv, TypeOK
<1>2. pc' = pc /\ pc \notin {"idle", "enter", "close", "settle"}
  BY DEF Step, Admit, BeginAttempt, Retry, Finish, Unwind
<1>3. CASE Admit(a)
  <2>1. InFlight' = InFlight \cup {a}
    BY <1>1, <1>3 DEF Admit, InFlight
  <2>2. Cardinality(InFlight) \in Nat /\ MaxConcurrency \in Nat
    BY FS_CardinalityType, ConfigAssumption DEF CallInv
  <2>3. Cardinality(InFlight) < MaxConcurrency
    BY <1>3 DEF Admit
  <2>4. IsFiniteSet(InFlight') /\ Cardinality(InFlight') <= MaxConcurrency
    <3>1. /\ IsFiniteSet(InFlight \cup {a})
          /\ Cardinality(InFlight \cup {a}) =
               IF a \in InFlight THEN Cardinality(InFlight) ELSE Cardinality(InFlight) + 1
      BY FS_AddElement DEF CallInv
    <3>2. QED
      BY <2>1, <2>2, <2>3, <3>1
  <2>5. QED
    BY <1>2, <2>4 DEF CallInv, CallsAreBounded
<1>4. CASE ~Admit(a)
  <2>1. InFlight' \subseteq InFlight
    BY <1>1, <1>4 DEF Step, BeginAttempt, Retry, Finish, Unwind, InFlight
  <2>2. QED
    BY <1>2, <2>1, FewerCalls DEF CallInv, CallsAreBounded
<1>5. QED
  BY <1>3, <1>4

\* Every step keeps the calls within bounds, and the end of a pattern without any.
LEMMA CallNext == TypeInv /\ CallInv /\ [Next]_vars => CallInv'
<1> SUFFICES ASSUME TypeInv, CallInv, [Next]_vars PROVE CallInv'
  OBVIOUS
<1>1. call \in [Agents -> {"none", "queued", "held", "calling", "answered", "failed"}]
  BY DEF TypeInv, TypeOK
<1>2. MaxConcurrency \in Nat \ {0}
  BY ConfigAssumption
\* The calls are dropped, or left as they are where none is outstanding.
<1>3. ASSUME call' = NoCalls PROVE CallInv'
  BY <1>2, <1>3, NoCallsInFlight DEF CallInv, CallsAreBounded
<1>4. ASSUME call' = call, pc' = pc \/ Outstanding = {} PROVE CallInv'
  BY <1>4 DEF CallInv, CallsAreBounded, InFlight, Outstanding
<1>5. ASSUME NEW cfg \in Configurations, NEW resume \in BOOLEAN, Start(cfg, resume)
      PROVE  CallInv'
  <2>1. call' = call /\ pc = "idle"
    BY <1>5 DEF Start
  <2>2. QED
    BY <1>4, <2>1 DEF CallInv, CallsAreBounded
<1>6. CASE Open
  <2>1. CASE ReplayPhase
    BY <1>4, <2>1 DEF ReplayPhase
  <2>2. CASE RefusePhase
    BY <1>3, <2>2 DEF RefusePhase, Abort
  <2>3. CASE OpenParallel
    <3>1. InFlight' = {} /\ pc' = "parallel"
      BY <2>3 DEF OpenParallel, InFlight
    <3>2. QED
      BY <1>2, <3>1, FS_EmptySet DEF CallInv, CallsAreBounded
  <2>4. CASE OpenSequential
    BY <2>4, AwaitCalls DEF OpenSequential
  <2>5. CASE OpenRoundRobin
    BY <2>5, AwaitCalls DEF OpenRoundRobin
  <2>6. QED
    BY <1>6, <2>1, <2>2, <2>3, <2>4, <2>5 DEF Open
<1>7. ASSUME NEW a \in Agents, Step(a) PROVE CallInv'
  BY <1>7, StepCalls
<1>8. CASE Collect
  <2>1. PICK a \in Agents : call' = [call EXCEPT ![a] = "none"]
    BY <1>8 DEF Collect
  <2>2. InFlight' \subseteq InFlight /\ pc' = pc /\ pc = "parallel"
    BY <1>1, <1>8, <2>1 DEF Collect, InFlight
  <2>3. QED
    BY <2>2, FewerCalls DEF CallInv, CallsAreBounded
<1>9. ASSUME NEW t \in Turn, TakeTurn(t) \/ LoseTurn(t) PROVE CallInv'
  BY <1>9, AwaitCalls DEF TakeTurn, LoseTurn
<1>10. CASE CompletePhase
  <2>1. call' = call /\ Returned # {}
    BY <1>10 DEF CompletePhase
  <2>2. Outstanding = {}
    BY <2>1 DEF Returned, Collected, CallInv, CallsAreBounded
  <2>3. QED
    BY <1>4, <2>1, <2>2
<1>11. CASE FailPhase \/ StopParallel \/ CancelTurn \/ Crash
  BY <1>3, <1>11 DEF FailPhase, StopParallel, CancelTurn, Crash, Abort
<1>12. CASE Conclude
  <2>1. call' = NoCalls \/ (call' = call /\ pc = "enter")
    BY <1>12 DEF Conclude, Abort
  <2>2. QED
    BY <1>3, <1>4, <2>1 DEF CallInv, CallsAreBounded
<1>13. CASE Settle
  <2>1. call' = call /\ pc = "settle"
    BY <1>13 DEF Settle
  <2>2. QED
    BY <1>4, <2>1 DEF CallInv, CallsAreBounded
<1>14. CASE CancelParallel
  <2>1. call' = call /\ pc' \in {"unwind", "unwind_unsorted"}
    BY <1>14 DEF CancelParallel, run
  <2>2. QED
    BY <2>1 DEF CallInv, CallsAreBounded, InFlight
<1>15. CASE UNCHANGED vars
  BY <1>4, <1>15 DEF vars, run
<1>16. QED
  BY <1>5, <1>6, <1>7, <1>8, <1>9, <1>10, <1>11, <1>12, <1>13, <1>14, <1>15
  DEF Next, Progress, Cancel

\* For any number of agents, and whatever is retried, cancelled or crashes: no more than
\* max_concurrency calls are in flight, and none when the session is released
\* (patterns.py:100-150).
THEOREM CallsStayBounded == Spec => []CallsAreBounded
<1>1. Init => CallInv
  <2> SUFFICES ASSUME Init PROVE CallInv
    OBVIOUS
  <2>1. InFlight = {} /\ Outstanding = {}
    BY DEF Init, NoCalls, InFlight, Outstanding
  <2>2. MaxConcurrency \in Nat \ {0}
    BY ConfigAssumption
  <2>3. IsFiniteSet(InFlight) /\ Cardinality(InFlight) = 0
    BY <2>1, FS_EmptySet
  <2>4. QED
    BY <2>1, <2>2, <2>3 DEF CallInv, CallsAreBounded
<1>2. CallInv => CallsAreBounded
  BY DEF CallInv
<1>3. QED
  BY <1>1, <1>2, CallNext, TypeAlways, PTL DEF Spec
-----------------------------------------------------------------------------
(***************************************************************************)
(* What is accepted.  Outputs are kept by phase: in the session file, in   *)
(* the result being built, in what is left of the saved one and in the     *)
(* context.  Fine says what is true of each of the first three.            *)
(***************************************************************************)
Once(outs) == \A p \in Phases : Distinct(outs[p])
Panel(outs) ==
  Synthesis =>
    \A p \in Phases : Mode[p] = "round_robin" =>
      \A q \in IndependentPhase(p) : Authors(outs[p]) \subseteq Authors(outs[q])
\* A sequential phase is answered in the order of its roster, without a gap.
Chain(p, s) ==
  /\ Len(s) <= Len(Roster[p])
  /\ \A i \in 1..Len(s) : TurnOf(s[i]) = [agent |-> Roster[p][i], round |-> 0]
Chained(outs) == \A p \in Phases : Mode[p] = "sequential" => Chain(p, outs[p])
Fine(outs) == Once(outs) /\ Panel(outs) /\ Chained(outs)

\* What RestoredWorkKept asks of the session file for one phase.
Kept(old, outs, p) ==
  IF Mode[p] # "round_robin"
  THEN ToSet(old[p]) \subseteq ToSet(outs[p])
  ELSE LET sched == Schedule(p, outs)
       IN \A k \in 0..Len(sched) :
            IsAcceptedPrefix(k, old[p], sched) =>
              \A i \in 1..k : sched[i] \in TurnsOf(outs[p])

Active == pc \in Running \cup {"enter"}
Reached(p) == p < phase \/ (p = phase /\ pc \in Running)

WorkInv ==
  /\ Fine(saved.outputs) /\ Fine(restored.outputs) /\ Fine(result.outputs) /\ Once(context)
  /\ pc # "idle" => \A p \in Phases : Kept(restored.outputs, saved.outputs, p)
  /\ Active => \A p \in Phases : Reached(p) => Kept(restored.outputs, result.outputs, p)

\* Where a pattern stands in its phase: what it shows is what it has, a participant of a
\* parallel phase is called only if it has not answered, and turns are taken in the order
\* of the plan.
Plan == Schedule(phase, result.outputs)
PlaceInv ==
  /\ pc \in {"parallel", "unwind", "unwind_unsorted"} => Mode[phase] = "parallel"
  /\ pc \in {"turns", "close"} => Mode[phase] \in {"sequential", "round_robin"}
  /\ pc \in Running => context[phase] = result.outputs[phase]
  /\ pc = "parallel" => \A a \in Agents : call[a] # "none" => a \notin Authors(context[phase])
  /\ pc = "turns" =>
       /\ cursor \in 1..Len(Plan)
       /\ \A t \in TurnsOf(context[phase]) : \E j \in 1..(cursor - 1) : Plan[j] = t
       /\ Mode[phase] = "sequential" => cursor = Len(result.outputs[phase]) + 1
  /\ pc = "close" /\ Mode[phase] = "sequential" =>
       result.failed[phase] # {} \/ Len(result.outputs[phase]) = Len(Roster[phase])

\* The same outputs have the same authors and turns, in whatever order.
LEMMA SameSet ==
  ASSUME NEW s, NEW u, ToSet(s) = ToSet(u)
  PROVE  Authors(s) = Authors(u) /\ TurnsOf(s) = TurnsOf(u)
<1>1. \A v : Authors(v) = {o.agent : o \in ToSet(v)} /\ TurnsOf(v) = {TurnOf(o) : o \in ToSet(v)}
  BY DEF Authors, TurnsOf, ToSet
<1>2. QED
  BY <1>1

\* What is contained has its authors and turns contained.
LEMMA Subsets ==
  ASSUME NEW s, NEW u, ToSet(s) \subseteq ToSet(u)
  PROVE  Authors(s) \subseteq Authors(u) /\ TurnsOf(s) \subseteq TurnsOf(u)
<1>1. \A v : Authors(v) = {o.agent : o \in ToSet(v)} /\ TurnsOf(v) = {TurnOf(o) : o \in ToSet(v)}
  BY DEF Authors, TurnsOf, ToSet
<1>2. QED
  BY <1>1

\* Nothing has no outputs, no turns and no authors, and repeats none.
LEMMA NothingIn ==
  ToSet(<<>>) = {} /\ TurnsOf(<<>>) = {} /\ Authors(<<>>) = {} /\ Distinct(<<>>)
BY DEF ToSet, TurnsOf, Authors, Distinct

\* One more output, of a turn that is not there yet.
LEMMA AppendOne ==
  ASSUME NEW s \in Seq(Output), NEW o \in Output
  PROVE  /\ ToSet(Append(s, o)) = ToSet(s) \cup {o}
         /\ TurnsOf(Append(s, o)) = TurnsOf(s) \cup {TurnOf(o)}
         /\ Authors(Append(s, o)) = Authors(s) \cup {o.agent}
         /\ Distinct(s) /\ TurnOf(o) \notin TurnsOf(s) => Distinct(Append(s, o))
<1> DEFINE u == Append(s, o)
<1> DEFINE n == Len(s)
<1>1. n \in Nat /\ DOMAIN s = 1..n /\ DOMAIN u = 1..(n + 1)
  OBVIOUS
<1>2. u[n + 1] = o /\ \A i \in 1..n : u[i] = s[i]
  OBVIOUS
<1> HIDE DEF u, n
<1>3. ToSet(u) = ToSet(s) \cup {o}
  BY <1>1, <1>2 DEF ToSet
<1>4. TurnsOf(u) = TurnsOf(s) \cup {TurnOf(o)} /\ Authors(u) = Authors(s) \cup {o.agent}
  BY <1>1, <1>2 DEF TurnsOf, Authors
<1>5. ASSUME Distinct(s), TurnOf(o) \notin TurnsOf(s) PROVE Distinct(u)
  <2>1. \A i \in 1..n : TurnOf(u[i]) \in TurnsOf(s)
    BY <1>1, <1>2 DEF TurnsOf
  <2>2. ASSUME NEW i \in 1..(n + 1), NEW j \in 1..(n + 1), TurnOf(u[i]) = TurnOf(u[j])
        PROVE  i = j
    <3>1. CASE i \in 1..n /\ j \in 1..n
      BY <1>1, <1>2, <1>5, <2>2, <3>1 DEF Distinct
    <3>2. CASE i = n + 1 /\ j = n + 1
      BY <3>2
    <3>3. CASE \/ i = n + 1 /\ j \in 1..n
               \/ i \in 1..n /\ j = n + 1
      BY <1>2, <1>5, <2>1, <2>2, <3>3
    <3>4. QED
      BY <1>1, <3>1, <3>2, <3>3
  <2>3. QED
    BY <1>1, <2>2 DEF Distinct
<1>6. QED
  BY <1>3, <1>4, <1>5 DEF u

\* Sorting a parallel phase rearranges it: the outputs are the same, each once.
LEMMA SortedSet ==
  ASSUME NEW r \in Results, NEW p \in Phases, NEW q \in Sorted(r, p)
  PROVE  /\ ToSet(q.outputs[p]) = ToSet(r.outputs[p])
         /\ Distinct(r.outputs[p]) => Distinct(q.outputs[p])
         /\ InRosterOrder(p, q.outputs[p])
         /\ \A m \in Phases : m # p => q.outputs[m] = r.outputs[m]
         /\ q.completed = r.completed /\ q.failed = r.failed
<1> DEFINE s == r.outputs[p]
<1>1. PICK f \in Rearrangements(s) :
        q = [r EXCEPT !.outputs[p] = [i \in DOMAIN @ |-> @[f[i]]]]
  BY DEF Sorted
<1>2. s \in Seq(Output) /\ r.outputs \in [Phases -> Seq(Output)]
  BY DEF Results
<1> DEFINE n == Len(s)
<1>3. n \in Nat /\ DOMAIN s = 1..n
  BY <1>2
<1>4. f \in [1..n -> 1..n] /\ IsInjective(f)
  BY <1>3 DEF Rearrangements
<1>5. q.outputs[p] = [i \in 1..n |-> s[f[i]]]
  BY <1>1, <1>2, <1>3 DEF Results
<1>6. /\ \A m \in Phases : m # p => q.outputs[m] = r.outputs[m]
      /\ q.completed = r.completed /\ q.failed = r.failed
  BY <1>1, <1>2 DEF Results
<1>7. InRosterOrder(p, q.outputs[p])
  BY DEF Sorted
<1> HIDE DEF n, s
<1>8. \A k \in 1..n : \E i \in 1..n : f[i] = k
  <2>1. f \in Injection(1..n, 1..n)
    BY <1>4 DEF Injection, IsInjective
  <2>2. IsFiniteSet(1..n)
    BY <1>3, FS_Interval
  <2>3. f \in Surjection(1..n, 1..n)
    BY <2>1, <2>2, FS_Injection
  <2>4. QED
    BY <2>3 DEF Surjection
<1>9. ToSet(q.outputs[p]) = ToSet(s)
  <2>1. ToSet(q.outputs[p]) = {s[f[i]] : i \in 1..n}
    BY <1>5 DEF ToSet
  <2>2. ToSet(s) = {s[k] : k \in 1..n}
    BY <1>3 DEF ToSet
  <2>3. ASSUME NEW i \in 1..n PROVE \E k \in 1..n : s[f[i]] = s[k]
    BY <1>4
  <2>4. ASSUME NEW k \in 1..n PROVE \E i \in 1..n : s[k] = s[f[i]]
    BY <1>8
  <2>5. QED
    BY <2>1, <2>2, <2>3, <2>4
<1>10. Distinct(s) => Distinct(q.outputs[p])
  BY <1>3, <1>4, <1>5 DEF Distinct, IsInjective
<1>11. QED
  BY <1>6, <1>7, <1>9, <1>10 DEF s

\* What a phase took over is kept when it is all there, and when it is nothing.
LEMMA KeptSelf ==
  ASSUME NEW p \in Phases, NEW old, NEW outs, old[p] = outs[p] \/ old[p] = <<>>
  PROVE  Kept(old, outs, p)
<1> DEFINE sched == Schedule(p, outs)
<1>1. Mode[p] # "round_robin" => ToSet(old[p]) \subseteq ToSet(outs[p])
  BY NothingIn
<1>2. ASSUME NEW k \in 0..Len(sched), IsAcceptedPrefix(k, old[p], sched), NEW i \in 1..k
      PROVE  sched[i] \in TurnsOf(outs[p])
  <2>1. sched[i] \in TurnsOf(old[p])
    BY <1>2 DEF IsAcceptedPrefix
  <2>2. QED
    BY <2>1, NothingIn
<1>3. QED
  BY <1>1, <1>2 DEF Kept

\* ... and stays so when the phase gains outputs and those before it keep their authors.
LEMMA KeptGrows ==
  ASSUME NEW p \in Phases, NEW old, NEW outs, NEW new, Kept(old, outs, p),
         \A q \in 1..(p - 1) : Authors(new[q]) = Authors(outs[q]),
         ToSet(outs[p]) \subseteq ToSet(new[p])
  PROVE  Kept(old, new, p)
<1>1. Schedule(p, new) = Schedule(p, outs)
  BY ScheduleSame
<1>2. TurnsOf(outs[p]) \subseteq TurnsOf(new[p])
  BY Subsets
<1>3. QED
  BY <1>1, <1>2 DEF Kept

\* A discussion keeps the turns up to the first gap, for there is one first gap.
LEMMA KeptReused ==
  ASSUME NEW p \in Phases, Mode[p] = "round_robin", NEW old, NEW outs, old[p] \in Seq(Output),
         NEW k \in 0..Len(Schedule(p, outs)), IsAcceptedPrefix(k, old[p], Schedule(p, outs)),
         outs[p] = Reuse(k, old[p], Schedule(p, outs))
  PROVE  Kept(old, outs, p)
<1> DEFINE sched == Schedule(p, outs)
<1> DEFINE n == Len(sched)
<1>1. n \in Nat /\ k \in Nat
  BY ScheduleLength
<1>2. Len(outs[p]) = k /\ \A i \in 1..k : TurnOf(outs[p][i]) = sched[i]
  BY <1>1, ReuseType
<1>3. outs[p] = [i \in 1..k |-> outs[p][i]]
  BY DEF Reuse
<1>4. \A i \in 1..k : sched[i] \in TurnsOf(outs[p])
  BY <1>2, <1>3 DEF TurnsOf
<1>5. ASSUME NEW m \in 0..n, IsAcceptedPrefix(m, old[p], sched) PROVE m <= k
  <2>1. /\ \A i \in 1..m : sched[i] \in TurnsOf(old[p])
        /\ k < n => sched[k + 1] \notin TurnsOf(old[p])
    BY <1>5 DEF IsAcceptedPrefix
  <2> HIDE DEF n, sched
  <2>2. m \in Nat /\ m <= n
    BY <1>1
  <2>3. k + 1 <= m => k < n /\ k + 1 \in 1..m
    BY <1>1, <2>2
  <2>4. QED
    BY <1>1, <2>1, <2>2, <2>3
<1>6. ASSUME NEW m \in 0..n, IsAcceptedPrefix(m, old[p], sched), NEW i \in 1..m
      PROVE  sched[i] \in TurnsOf(outs[p])
  <2>1. m <= k
    BY <1>5, <1>6
  <2> HIDE DEF n, sched
  <2>2. i \in 1..k
    BY <1>1, <2>1
  <2>3. QED
    BY <1>4, <2>2
<1>7. QED
  BY <1>6 DEF Kept

\* Phases are numbers, with those before each; its independent phase is one of them.
LEMMA EarlierPhases ==
  ASSUME NEW p \in Phases
  PROVE  /\ p \in Nat /\ 1..(p - 1) \subseteq Phases
         /\ \A q \in 1..(p - 1) : q \in Phases /\ q < p /\ q # p
         /\ \A q \in IndependentPhase(p) : q \in Phases /\ q < p /\ q # p /\ Mode[q] = "parallel"
<1>1. PhaseCount \in Nat /\ Phases = 1..PhaseCount
  BY PhasesAreNumbered
<1>2. QED
  BY <1>1 DEF IndependentPhase

\* A phase begins with outputs it took over, all of them or a reused prefix.
LEMMA FineTaken ==
  ASSUME NEW p \in Phases, NEW old, NEW outs, NEW new, Fine(old), Fine(outs),
         \A q \in Phases : q # p => new[q] = outs[q],
         \A q \in Phases : q > p => outs[q] = <<>>,
         \A q \in Phases : q < p => Kept(old, outs, q),
         ToSet(new[p]) \subseteq ToSet(old[p]), Distinct(new[p]),
         Mode[p] = "sequential" => new[p] = old[p]
  PROVE  Fine(new)
<1>1. Once(new)
  BY DEF Fine, Once
<1>2. Chained(new)
  BY DEF Fine, Chained
<1>3. Panel(new)
  <2> SUFFICES ASSUME Synthesis, NEW m \in Phases, Mode[m] = "round_robin",
                      NEW q \in IndependentPhase(m)
               PROVE  Authors(new[m]) \subseteq Authors(new[q])
    BY DEF Panel
  <2>1. q \in Phases /\ q \in Nat /\ m \in Nat /\ p \in Nat /\ q < m /\ q # m /\ Mode[q] = "parallel"
    BY EarlierPhases
  <2>2. CASE m = p
    <3>1. Authors(new[p]) \subseteq Authors(old[p])
      BY Subsets
    <3>2. Authors(old[p]) \subseteq Authors(old[q])
      BY <2>2 DEF Fine, Panel
    <3>3. Authors(old[q]) \subseteq Authors(outs[q])
      BY <2>1, <2>2, Subsets DEF Kept
    <3>4. new[q] = outs[q]
      BY <2>1, <2>2
    <3>5. QED
      BY <2>2, <3>1, <3>2, <3>3, <3>4
  <2>3. CASE m > p
    <3>1. new[m] = <<>>
      BY <2>1, <2>3
    <3>2. QED
      BY <3>1, NothingIn
  <2>4. CASE m < p
    <3>1. new[m] = outs[m] /\ new[q] = outs[q]
      BY <2>1, <2>4
    <3>2. QED
      BY <3>1 DEF Fine, Panel
  <2>5. QED
    BY <2>1, <2>2, <2>3, <2>4
<1>4. QED
  BY <1>1, <1>2, <1>3 DEF Fine

\* A phase gains the output of a turn that was its to take.
LEMMA FineAdded ==
  ASSUME NEW p \in Phases, NEW outs \in [Phases -> Seq(Output)], NEW new, NEW o \in Output,
         Fine(outs), \A q \in Phases : q # p => new[q] = outs[q], new[p] = Append(outs[p], o),
         TurnOf(o) \notin TurnsOf(outs[p]),
         Synthesis /\ Mode[p] = "round_robin" =>
           \A q \in IndependentPhase(p) : o.agent \in Authors(outs[q]),
         Mode[p] = "sequential" =>
           /\ Len(outs[p]) < Len(Roster[p])
           /\ TurnOf(o) = [agent |-> Roster[p][Len(outs[p]) + 1], round |-> 0]
  PROVE  Fine(new)
<1>1. Distinct(new[p]) /\ Authors(new[p]) = Authors(outs[p]) \cup {o.agent}
  BY AppendOne DEF Fine, Once
<1>2. Once(new)
  BY <1>1 DEF Fine, Once
<1>3. ASSUME Mode[p] = "sequential" PROVE Chain(p, new[p])
  <2> DEFINE s == outs[p]
  <2>1. s \in Seq(Output) /\ Chain(p, s) /\ Roster[p] \in Seq(Agents)
    BY <1>3, ConfigAssumption DEF Fine, Chained
  <2>2. Len(s) \in Nat /\ Len(Roster[p]) \in Nat /\ Len(s) < Len(Roster[p])
        /\ \A i \in 1..Len(s) : TurnOf(s[i]) = [agent |-> Roster[p][i], round |-> 0]
    BY <1>3, <2>1 DEF Chain
  <2>3. Len(Append(s, o)) = Len(s) + 1 /\ \A i \in 1..(Len(s) + 1) :
          Append(s, o)[i] = IF i = Len(s) + 1 THEN o ELSE s[i]
    BY <2>1
  <2>4. new[p] = Append(s, o) /\ TurnOf(o) = [agent |-> Roster[p][Len(s) + 1], round |-> 0]
    BY <1>3
  <2> HIDE DEF s
  <2>5. QED
    BY <2>2, <2>3, <2>4 DEF Chain
<1>4. Chained(new)
  BY <1>3 DEF Fine, Chained
<1>5. Panel(new)
  <2> SUFFICES ASSUME Synthesis, NEW m \in Phases, Mode[m] = "round_robin",
                      NEW q \in IndependentPhase(m)
               PROVE  Authors(new[m]) \subseteq Authors(new[q])
    BY DEF Panel
  <2>1. q \in Phases /\ q # m /\ Authors(outs[m]) \subseteq Authors(outs[q])
    BY EarlierPhases DEF Fine, Panel
  <2>2. Authors(outs[q]) \subseteq Authors(new[q])
    BY <1>1, <2>1
  <2>3. CASE m = p
    BY <1>1, <2>1, <2>2, <2>3
  <2>4. CASE m # p
    BY <2>1, <2>2, <2>4
  <2>5. QED
    BY <2>3, <2>4
<1>6. QED
  BY <1>2, <1>4, <1>5 DEF Fine

\* A parallel phase is put into the order of its roster.
LEMMA FineSorted ==
  ASSUME NEW r \in Results, NEW p \in Phases, Mode[p] = "parallel", NEW q \in Sorted(r, p),
         Fine(r.outputs)
  PROVE  Fine(q.outputs)
<1>1. /\ \A m \in Phases : m # p => q.outputs[m] = r.outputs[m]
      /\ Distinct(r.outputs[p]) => Distinct(q.outputs[p])
      /\ ToSet(q.outputs[p]) = ToSet(r.outputs[p])
  BY SortedSet
<1>2. \A m \in Phases : Authors(q.outputs[m]) = Authors(r.outputs[m])
  BY <1>1, SameSet
<1>3. Once(q.outputs)
  BY <1>1 DEF Fine, Once
<1>4. Chained(q.outputs)
  BY <1>1 DEF Fine, Chained
<1>5. Panel(q.outputs)
  BY <1>2, EarlierPhases DEF Fine, Panel
<1>6. QED
  BY <1>3, <1>4, <1>5 DEF Fine
-----------------------------------------------------------------------------
(***************************************************************************)
(* The steps, as far as outputs are concerned: a phase is taken over, an   *)
(* output is accepted, a result is wrapped up, or nothing of the kind.     *)
(***************************************************************************)
Sets(new, outs, s) == new[phase] = s /\ \A q \in Phases : q # phase => new[q] = outs[q]

Takes(s) ==
  /\ pc = "enter" /\ phase \in Phases /\ s \in Seq(Output)
  /\ UNCHANGED restored /\ result'.completed = result.completed
  /\ Sets(result'.outputs, result.outputs, s)
  /\ \/ s = restored.outputs[phase]
     \/ /\ Mode[phase] = "round_robin"
        /\ \E k \in 0..Len(Plan) : /\ IsAcceptedPrefix(k, restored.outputs[phase], Plan)
                                   /\ s = Reuse(k, restored.outputs[phase], Plan)
Replays(s) ==
  /\ Takes(s) /\ s = restored.outputs[phase] /\ phase \in result.completed
  /\ Sets(context', context, s) /\ saved' = saved /\ pc' = "enter" /\ phase' = phase + 1
Opened(s) ==
  /\ Takes(s) /\ phase \notin result.completed
  /\ Sets(context', context, s) /\ saved' = saved /\ pc' \in Running /\ phase' = phase
Refuses(s) ==
  /\ Takes(s) /\ phase \notin result.completed
  /\ Sets(context', context, s) \/ context' = context
  /\ saved'.outputs = result'.outputs /\ saved'.completed = result'.completed /\ pc' = "settle"

Adds(o) ==
  /\ pc \in Running /\ pc' \in Running /\ UNCHANGED <<phase, restored>> /\ o \in Output
  /\ saved' = result' /\ result'.completed = result.completed
  /\ Sets(result'.outputs, result.outputs, Append(result.outputs[phase], o))
  /\ Sets(context', context, Append(context[phase], o))
  /\ TurnOf(o) \notin TurnsOf(result.outputs[phase])
  /\ Synthesis /\ Mode[phase] = "round_robin" =>
       \A q \in IndependentPhase(phase) : o.agent \in Authors(result.outputs[q])
  /\ Mode[phase] = "sequential" =>
       /\ Len(result.outputs[phase]) < Len(Roster[phase])
       /\ TurnOf(o) = [agent |-> Roster[phase][Len(result.outputs[phase]) + 1], round |-> 0]

Quiet ==
  /\ UNCHANGED <<saved, restored, phase, context>>
  /\ result'.outputs = result.outputs /\ result'.completed = result.completed
  /\ pc' = pc \/ (pc \in Running /\ pc' \in Running)

\* The result a pattern leaves, whether it returned or was stopped.
Wraps(r) ==
  /\ pc \in Running /\ r \in Results
  /\ r = result \/ (Mode[phase] = "parallel" /\ r \in Sorted(result, phase))

\* What has been taken over is fine, and no phase up to this one lost anything.
LEMMA TakenFine ==
  ASSUME TypeInv, OrderInv, WorkInv, NEW s, Takes(s)
  PROVE  /\ Fine(result'.outputs) /\ Distinct(s) /\ ToSet(s) \subseteq ToSet(restored.outputs[phase])
         /\ \A p \in Phases : p <= phase => Kept(restored.outputs, result'.outputs, p)
         /\ phase \notin result.completed =>
              \A p \in Phases : Kept(restored.outputs, result'.outputs, p)
<1> DEFINE old == restored.outputs
<1> DEFINE new == result'.outputs
<1>1. /\ phase \in Phases /\ phase \in Nat /\ pc = "enter" /\ Active
      /\ \A q \in Phases : q \in Nat
  BY EarlierPhases DEF Takes, Active
<1>2. PICK n \in 0..PhaseCount : StandsAt(n)
  BY <1>1 DEF OrderInv
<1>3. /\ NothingFrom(old, n + 2) /\ NothingFrom(result.outputs, phase)
      /\ result.completed = 1..n /\ phase \in 1..(n + 1)
  BY <1>1, <1>2 DEF StandsAt
<1>4. \A p \in Phases : p < phase => Kept(old, result.outputs, p)
  BY <1>1 DEF WorkInv, Reached
<1>5. /\ new[phase] = s /\ \A q \in Phases : q # phase => new[q] = result.outputs[q]
      /\ s \in Seq(Output)
  BY DEF Takes, Sets
<1>6. old[phase] \in Seq(Output) /\ Distinct(old[phase])
  BY <1>1 DEF TypeInv, TypeOK, WorkInv, Fine, Once
<1>7. Schedule(phase, new) = Plan
  <2>1. \A q \in 1..(phase - 1) : Authors(new[q]) = Authors(result.outputs[q])
    BY <1>1, <1>5, EarlierPhases
  <2>2. QED
    BY <1>1, <2>1, ScheduleSame DEF Plan
<1>8. ASSUME NEW k \in 0..Len(Plan), IsAcceptedPrefix(k, old[phase], Plan),
             s = Reuse(k, old[phase], Plan), Mode[phase] = "round_robin"
      PROVE  ToSet(s) \subseteq ToSet(old[phase]) /\ Distinct(s) /\ Kept(old, new, phase)
  <2>1. Len(Plan) \in Nat /\ k \in Nat
    BY <1>1, ScheduleLength DEF Plan
  <2>2. /\ Len(s) = k
        /\ \A i \in 1..k : s[i] \in ToSet(old[phase]) /\ TurnOf(s[i]) = Plan[i]
    BY <1>6, <1>8, <2>1, ReuseType
  <2>3. DOMAIN s = 1..k
    BY <1>5, <2>2
  <2>4. ToSet(s) \subseteq ToSet(old[phase])
    BY <2>2, <2>3 DEF ToSet
  <2>5. \A i, j \in 1..k : Plan[i] = Plan[j] => i = j
    <3>1. \A i \in 1..k : i \in 1..Len(Plan)
      BY <2>1
    <3>2. QED
      BY <1>1, <3>1, ScheduleDistinct DEF Plan
  <2>6. Distinct(s)
    BY <2>2, <2>3, <2>5 DEF Distinct
  <2>7. Kept(old, new, phase)
    BY <1>1, <1>5, <1>6, <1>7, <1>8, KeptReused
  <2>8. QED
    BY <2>4, <2>6, <2>7
<1>9. ToSet(s) \subseteq ToSet(old[phase]) /\ Distinct(s) /\ Kept(old, new, phase)
  <2>1. CASE s = old[phase]
    BY <1>1, <1>5, <1>6, <2>1, KeptSelf
  <2>2. CASE s # old[phase]
    BY <1>8, <2>2 DEF Takes
  <2>3. QED
    BY <2>1, <2>2
<1>10. \A p \in Phases : p > phase => result.outputs[p] = <<>>
  BY <1>1, <1>3 DEF NothingFrom
<1>11. Mode[phase] = "sequential" => new[phase] = old[phase]
  BY <1>5 DEF Takes
<1>12. Fine(old) /\ Fine(result.outputs)
  BY DEF WorkInv
<1>13. Fine(new)
  <2> HIDE DEF old, new
  <2>1. QED
    BY <1>1, <1>4, <1>5, <1>9, <1>10, <1>11, <1>12, FineTaken
<1>14. ASSUME NEW p \in Phases, p < phase PROVE Kept(old, new, p)
  <2>1. Kept(old, result.outputs, p) /\ new[p] = result.outputs[p]
    <3>1. p \in Nat /\ p # phase
      BY <1>1, <1>14
    <3>2. QED
      BY <1>4, <1>5, <1>14, <3>1
  <2>2. \A q \in 1..(p - 1) : Authors(new[q]) = Authors(result.outputs[q])
    <3>1. \A q \in 1..(p - 1) : q \in Phases /\ q # phase
      BY <1>1, <1>14, EarlierPhases
    <3>2. QED
      BY <1>5, <3>1
  <2> HIDE DEF old, new
  <2>3. QED
    BY <2>1, <2>2, KeptGrows
<1>15. \A p \in Phases : p <= phase => Kept(old, new, p)
  BY <1>1, <1>9, <1>14
<1>16. ASSUME phase \notin result.completed, NEW p \in Phases, p > phase PROVE Kept(old, new, p)
  <2>1. phase = n + 1 /\ n \in Nat /\ p >= n + 2
    BY <1>1, <1>3, <1>16
  <2>2. old[p] = <<>>
    BY <1>3, <2>1 DEF NothingFrom
  <2>3. QED
    BY <2>2, KeptSelf
<1>17. QED
  BY <1>1, <1>9, <1>13, <1>15, <1>16

\* Every way to open a phase takes it over.
LEMMA OpenTakes ==
  ASSUME TypeInv, Open
  PROVE  \E s \in Seq(Output) : Replays(s) \/ Opened(s) \/ Refuses(s)
<1>1. result \in Results /\ context \in [Phases -> Seq(Output)]
  BY DEF TypeInv, TypeOK
<1>2. phase \in Phases /\ pc = "enter"
  <2>1. result.completed \subseteq Phases
    BY <1>1 DEF Results
  <2>2. QED
    BY <2>1 DEF Open, ReplayPhase, RefusePhase, OpenParallel, OpenSequential, OpenRoundRobin, Opens
<1> DEFINE old == restored.outputs[phase]
<1>3. old \in Seq(Output)
  BY <1>2, WithPhaseType
<1>4. /\ WithPhase(phase) \in Results
      /\ WithPhase(phase).completed = result.completed
      /\ Sets(WithPhase(phase).outputs, result.outputs, old)
  BY <1>2, WithPhaseType, WithPhaseOrder DEF Sets
<1>5. \A s : Sets([context EXCEPT ![phase] = s], context, s)
  BY <1>1, <1>2 DEF Sets
<1>6. CASE ReplayPhase
  <2>1. result' = WithPhase(phase) /\ context' = [context EXCEPT ![phase] = old]
        /\ phase \in result.completed /\ phase' = phase + 1 /\ pc' = "enter"
        /\ restored' = restored /\ saved' = saved
    BY <1>2, <1>6 DEF ReplayPhase, disk
  <2>2. Replays(old)
    BY <1>2, <1>3, <1>4, <1>5, <2>1 DEF Replays, Takes
  <2>3. QED
    BY <1>3, <2>2
<1>7. CASE RefusePhase
  <2>1. /\ result' = WithPhase(phase) /\ Abort(result', "failed")
        /\ context' = context \/ context' = [context EXCEPT ![phase] = old]
        /\ phase \notin result.completed
    BY <1>7 DEF RefusePhase, Opens
  <2>2. /\ saved'.outputs = result'.outputs /\ saved'.completed = result'.completed
        /\ pc' = "settle" /\ restored' = restored
    BY <1>4, <2>1 DEF Abort, Results
  <2>3. Refuses(old)
    BY <1>2, <1>3, <1>4, <1>5, <2>1, <2>2 DEF Refuses, Takes
  <2>4. QED
    BY <1>3, <2>3
<1> DEFINE opened == [WithPhase(phase) EXCEPT !.failed[phase] = {}]
<1>8. opened \in Results /\ opened.outputs = WithPhase(phase).outputs
      /\ opened.completed = result.completed
  <2>1. opened \in Results
    BY <1>4, FailedUpdate
  <2>2. QED
    BY <1>4, <2>1 DEF Results
<1>9. CASE OpenParallel \/ OpenSequential
  <2>1. /\ result' = opened /\ context' = [context EXCEPT ![phase] = old]
        /\ phase \notin result.completed /\ pc' \in Running
        /\ saved' = saved /\ phase' = phase /\ restored' = restored
    BY <1>9 DEF OpenParallel, OpenSequential, Opens, Await, Running, disk
  <2>2. Sets(result'.outputs, result.outputs, old) /\ result'.completed = result.completed
    BY <1>4, <1>8, <2>1 DEF Sets
  <2>3. Opened(old)
    BY <1>2, <1>3, <1>5, <2>1, <2>2 DEF Opened, Takes
  <2>4. QED
    BY <1>3, <2>3
<1>10. CASE OpenRoundRobin
  <2>1. PICK k \in 0..Len(Plan) :
          /\ IsAcceptedPrefix(k, old, Plan)
          /\ result' = [WithPhase(phase) EXCEPT !.failed[phase] = {},
                          !.outputs[phase] = Reuse(k, old, Plan)]
          /\ context' = [context EXCEPT ![phase] = Reuse(k, old, Plan)]
    BY <1>10 DEF OpenRoundRobin, Plan
  <2> DEFINE s == Reuse(k, old, Plan)
  <2>2. s \in Seq(Output)
    <3>1. Len(Plan) \in Nat
      BY <1>2, ScheduleLength DEF Plan
    <3>2. k \in Nat
      BY <3>1
    <3>3. QED
      BY <1>3, <2>1, <3>2, ReuseType
  <2>3. Mode[phase] = "round_robin" /\ phase \notin result.completed /\ pc' \in Running
        /\ saved' = saved /\ phase' = phase /\ restored' = restored
    BY <1>10 DEF OpenRoundRobin, Opens, Await, Running, disk
  <2>4. result' = [opened EXCEPT !.outputs[phase] = s]
    BY <2>1
  <2> HIDE DEF opened
  <2>5. /\ result'.outputs = [opened.outputs EXCEPT ![phase] = s]
        /\ result'.completed = result.completed
        /\ opened.outputs \in [Phases -> Seq(Output)]
    BY <1>8, <2>4 DEF Results
  <2> HIDE DEF s
  <2>6. Sets(result'.outputs, result.outputs, s)
    BY <1>2, <1>4, <1>8, <2>5 DEF Sets
  <2>7. Opened(s)
    BY <1>2, <1>5, <2>1, <2>2, <2>3, <2>5, <2>6 DEF Opened, Takes, s
  <2>8. QED
    BY <2>2, <2>7
<1>11. QED
  BY <1>6, <1>7, <1>9, <1>10 DEF Open

\* An accepted answer is the output of a turn that had none.
LEMMA CommitAdds ==
  ASSUME TypeInv, PlaceInv, pc \in Running, pc' \in Running, UNCHANGED <<phase, restored>>,
         NEW t \in Turn, Commit(t), t \notin TurnsOf(result.outputs[phase]),
         Synthesis /\ Mode[phase] = "round_robin" =>
           \A q \in IndependentPhase(phase) : t.agent \in Authors(result.outputs[q]),
         Mode[phase] = "sequential" =>
           /\ Len(result.outputs[phase]) < Len(Roster[phase])
           /\ t = [agent |-> Roster[phase][Len(result.outputs[phase]) + 1], round |-> 0]
  PROVE  \E o \in Output : Adds(o) /\ TurnOf(o) = t
<1> DEFINE o == [agent |-> t.agent, round |-> t.round, config |-> result.config]
<1>1. phase \in Phases /\ result \in Results /\ context \in [Phases -> Seq(Output)]
  BY DEF TypeInv, TypeOK, AtPhase
<1>2. o \in Output /\ TurnOf(o) = t /\ o.agent = t.agent
  BY DEF TypeInv, Labelled, Running, Turn, Output, TurnOf
<1>3. /\ result' = [result EXCEPT !.outputs[phase] = Append(result.outputs[phase], o)]
      /\ context' = [context EXCEPT ![phase] = Append(context[phase], o)]
      /\ saved' = result'
  BY <1>1 DEF Commit, Results
<1>4. /\ Sets(result'.outputs, result.outputs, Append(result.outputs[phase], o))
      /\ Sets(context', context, Append(context[phase], o))
      /\ result'.completed = result.completed
  BY <1>1, <1>3 DEF Sets, Results
<1> HIDE DEF o
<1>5. Adds(o)
  BY <1>2, <1>3, <1>4 DEF Adds
<1>6. QED
  BY <1>2, <1>5

\* A collected item is an output of a participant without one, or a failure.
LEMMA CollectAdds ==
  ASSUME TypeInv, PlaceInv, Collect
  PROVE  Quiet \/ \E o \in Output : Adds(o)
<1>1. pc = "parallel" /\ pc' = "parallel" /\ Mode[phase] = "parallel" /\ phase \in Phases
      /\ UNCHANGED <<phase, restored>>
  BY DEF Collect, PlaceInv, TypeInv, AtPhase, Running
<1>2. PICK a \in Agents :
        \/ call[a] = "answered" /\ Commit([agent |-> a, round |-> 0])
        \/ GiveUp([agent |-> a, round |-> 0])
  BY DEF Collect
<1> DEFINE t == [agent |-> a, round |-> 0]
<1>3. t \in Turn
  BY DEF Turn, Rounds
<1>4. CASE GiveUp(t)
  <2>1. result \in Results
    BY DEF TypeInv, TypeOK
  <2>2. result'.outputs = result.outputs /\ result'.completed = result.completed
    BY <1>4, <2>1 DEF GiveUp, Results
  <2>3. Quiet
    BY <1>1, <1>4, <2>2 DEF Quiet, GiveUp, disk
  <2>4. QED
    BY <2>3
<1>5. CASE call[a] = "answered" /\ Commit(t)
  <2>1. a \notin Authors(result.outputs[phase])
    BY <1>1, <1>5 DEF PlaceInv, Running
  <2>2. t \notin TurnsOf(result.outputs[phase])
    BY <2>1 DEF TurnsOf, Authors, TurnOf
  <2>3. pc \in Running /\ pc' \in Running
    BY <1>1 DEF Running
  <2> HIDE DEF t
  <2>4. QED
    BY <1>1, <1>3, <1>5, <2>2, <2>3, CommitAdds
<1>6. QED
  BY <1>2, <1>4, <1>5

\* The turn that is due is not among those that were heard.
LEMMA TurnIsDue ==
  ASSUME TypeInv, PlaceInv, pc = "turns"
  PROVE  /\ phase \in Phases /\ cursor \in Nat /\ Len(Plan) \in Nat /\ cursor \in 1..Len(Plan)
         /\ Plan[cursor] \notin TurnsOf(result.outputs[phase])
         /\ \A t \in TurnsOf(result.outputs[phase]) : \E j \in 1..(cursor - 1) : Plan[j] = t
<1>1. phase \in Phases /\ cursor \in Nat /\ context[phase] = result.outputs[phase]
  BY DEF TypeInv, TypeOK, AtPhase, Running, PlaceInv
<1>2. Len(Plan) \in Nat /\ cursor \in 1..Len(Plan)
  BY <1>1, ScheduleLength DEF Plan, PlaceInv
<1>3. \A t \in TurnsOf(result.outputs[phase]) : \E j \in 1..(cursor - 1) : Plan[j] = t
  BY <1>1 DEF PlaceInv
<1>4. ASSUME Plan[cursor] \in TurnsOf(result.outputs[phase]) PROVE FALSE
  <2>1. PICK j \in 1..(cursor - 1) : Plan[j] = Plan[cursor]
    BY <1>3, <1>4
  <2>2. j \in 1..Len(Plan) /\ j # cursor
    BY <1>2
  <2>3. QED
    BY <1>1, <1>2, <2>1, <2>2, ScheduleDistinct DEF Plan
<1>5. QED
  BY <1>1, <1>2, <1>3, <1>4

\* A turn that is taken is the one that is due, by somebody the discussion is open to.
LEMMA TakeTurnAdds ==
  ASSUME TypeInv, PlaceInv, NEW t \in Turn, TakeTurn(t)
  PROVE  \E o \in Output : Adds(o) /\ TurnOf(o) = t
<1>1. /\ pc = "turns" /\ pc \in Running /\ pc' \in Running /\ UNCHANGED <<phase, restored>>
      /\ t = Plan[cursor] /\ Commit(t)
  BY DEF TakeTurn, Await, Running, Plan
<1>2. /\ phase \in Phases /\ cursor \in 1..Len(Plan)
      /\ t \notin TurnsOf(result.outputs[phase])
  BY <1>1, TurnIsDue
<1>3. ASSUME Synthesis, Mode[phase] = "round_robin", NEW q \in IndependentPhase(phase)
      PROVE  t.agent \in Authors(result.outputs[q])
  BY <1>1, <1>2, <1>3, SpeakersBelong DEF Plan
<1>4. ASSUME Mode[phase] = "sequential"
      PROVE  /\ Len(result.outputs[phase]) < Len(Roster[phase])
             /\ t = [agent |-> Roster[phase][Len(result.outputs[phase]) + 1], round |-> 0]
  <2>1. Plan = [j \in 1..Len(Roster[phase]) |-> [agent |-> Roster[phase][j], round |-> 0]]
    BY <1>2, <1>4, SequentialSchedule DEF Plan
  <2>2. Len(Roster[phase]) \in Nat /\ Len(result.outputs[phase]) \in Nat
    BY <1>2, ConfigAssumption DEF TypeInv, TypeOK, Results
  <2>3. Len(Plan) = Len(Roster[phase])
    BY <2>1, <2>2
  <2>4. cursor = Len(result.outputs[phase]) + 1
    BY <1>1, <1>4 DEF PlaceInv
  <2>5. QED
    BY <1>1, <1>2, <2>1, <2>2, <2>3, <2>4
<1>5. QED
  BY <1>1, <1>2, <1>3, <1>4, CommitAdds

\* A turn that is lost changes no output.
LEMMA LoseTurnQuiet ==
  ASSUME TypeInv, NEW t, LoseTurn(t)
  PROVE  Quiet
<1>1. result \in Results
  BY DEF TypeInv, TypeOK
<1>2. result'.outputs = result.outputs /\ result'.completed = result.completed
  BY <1>1 DEF LoseTurn, GiveUp, Results
<1>3. pc \in Running /\ pc' \in Running
  BY DEF LoseTurn, Await, Running
<1>4. QED
  BY <1>2, <1>3 DEF LoseTurn, GiveUp, Quiet, disk
-----------------------------------------------------------------------------
\* The turns of a chain are the first of its schedule, as many as there are outputs.
LEMMA ChainTurns ==
  ASSUME NEW p \in Phases, NEW outs, Mode[p] = "sequential", NEW s \in Seq(Output), Chain(p, s)
  PROVE  /\ Len(s) \in Nat /\ Len(Schedule(p, outs)) = Len(Roster[p]) /\ Len(Roster[p]) \in Nat
         /\ Len(s) <= Len(Roster[p])
         /\ \A j \in 1..Len(s) : Schedule(p, outs)[j] \in TurnsOf(s)
         /\ \A t \in TurnsOf(s) : \E j \in 1..Len(s) : Schedule(p, outs)[j] = t
         /\ \A j \in 1..Len(Roster[p]) : Schedule(p, outs)[j] \in TurnsOf(s) => j <= Len(s)
<1> DEFINE sched == Schedule(p, outs)
<1> DEFINE n == Len(Roster[p])
<1> DEFINE m == Len(s)
<1>1. sched = [t \in 1..n |-> [agent |-> Roster[p][t], round |-> 0]]
  BY SequentialSchedule
<1>2. m \in Nat /\ n \in Nat /\ DOMAIN s = 1..m /\ m <= n
  BY ConfigAssumption DEF Chain
<1>3. Len(sched) = n
  BY <1>1, <1>2
<1>4. \A j \in 1..m : TurnOf(s[j]) = sched[j]
  BY <1>1, <1>2 DEF Chain
<1>5. \A i, j \in 1..n : sched[i] = sched[j] => i = j
  BY <1>3, ScheduleDistinct
<1> HIDE DEF sched, n, m
<1>6. \A j \in 1..m : sched[j] \in TurnsOf(s)
  BY <1>2, <1>4 DEF TurnsOf
<1>7. \A t \in TurnsOf(s) : \E j \in 1..m : sched[j] = t
  BY <1>2, <1>4 DEF TurnsOf
<1>8. ASSUME NEW j \in 1..n, sched[j] \in TurnsOf(s) PROVE j <= m
  <2>1. PICK i \in 1..m : sched[i] = sched[j]
    BY <1>7, <1>8
  <2>2. i \in 1..n
    BY <1>2
  <2>3. i = j
    BY <1>5, <2>1, <2>2
  <2>4. QED
    BY <1>2, <2>3
<1>9. QED
  BY <1>2, <1>3, <1>6, <1>7, <1>8 DEF sched, n, m

\* So the next turn is the one after them, or the one the loop has come to.
LEMMA ChainNext ==
  ASSUME NEW p \in Phases, NEW outs, Mode[p] = "sequential", NEW s \in Seq(Output), Chain(p, s),
         NEW from \in Nat \ {0}, NEW i, IsNextTurn(i, from, s, Schedule(p, outs))
  PROVE  i = IF from <= Len(s) + 1 THEN Len(s) + 1 ELSE from
<1> DEFINE sched == Schedule(p, outs)
<1> DEFINE n == Len(Roster[p])
<1> DEFINE m == Len(s)
<1>1. /\ m \in Nat /\ n \in Nat /\ Len(sched) = n /\ m <= n
      /\ \A j \in 1..m : sched[j] \in TurnsOf(s)
      /\ \A j \in 1..n : sched[j] \in TurnsOf(s) => j <= m
  BY ChainTurns
<1>2. /\ i \in from..(n + 1)
      /\ \A j \in from..(i - 1) : sched[j] \in TurnsOf(s)
      /\ i <= n => sched[i] \notin TurnsOf(s)
  BY <1>1 DEF IsNextTurn
<1> HIDE DEF sched, n, m
<1>3. i \in Nat /\ i > m
  <2>1. i \in Nat
    BY <1>1, <1>2
  <2>2. i \in 1..m => i <= n /\ sched[i] \in TurnsOf(s)
    BY <1>1
  <2>3. i >= 1
    BY <1>1, <1>2
  <2>4. QED
    BY <1>1, <1>2, <2>1, <2>2, <2>3
<1>4. ASSUME i > from, i > m + 1 PROVE FALSE
  <2>1. i - 1 \in from..(i - 1) /\ i - 1 \in 1..n
    BY <1>1, <1>2, <1>3, <1>4
  <2>2. i - 1 <= m
    BY <1>1, <1>2, <2>1
  <2>3. QED
    BY <1>1, <1>3, <1>4, <2>2
<1>5. QED
  BY <1>1, <1>2, <1>3, <1>4 DEF m

\* A pattern begins where its schedule has not been answered yet.
LEMMA PlaceOpen ==
  ASSUME TypeInv, WorkInv, OpenParallel \/ OpenSequential \/ OpenRoundRobin
  PROVE  PlaceInv'
<1> DEFINE old == restored.outputs[phase]
<1>1. result \in Results /\ phase \in Phases /\ context \in [Phases -> Seq(Output)]
  BY DEF TypeInv, TypeOK, OpenParallel, OpenSequential, OpenRoundRobin, Opens
<1>2. old \in Seq(Output) /\ WithPhase(phase) \in Results
  BY <1>1, WithPhaseType
<1>3. phase' = phase
  BY DEF OpenParallel, OpenSequential, OpenRoundRobin
<1>4. result' \in Results
  BY TypeOpen DEF TypeInv, TypeOK, Open
<1>5. PICK s \in Seq(Output) : Opened(s)
  <2>1. PICK s \in Seq(Output) : Replays(s) \/ Opened(s) \/ Refuses(s)
    BY OpenTakes DEF Open
  <2>2. pc' \in Running
    BY DEF OpenParallel, OpenSequential, OpenRoundRobin, Await, Running
  <2>3. QED
    BY <2>1, <2>2 DEF Replays, Refuses, Running
<1>6. result'.outputs[phase] = s /\ context'[phase] = s
  BY <1>5 DEF Opened, Takes, Sets
<1>7. Plan' = Plan
  <2>1. \A q \in 1..(phase - 1) : result'.outputs[q] = result.outputs[q]
    BY <1>1, <1>5, EarlierPhases DEF Opened, Takes, Sets
  <2>2. QED
    BY <1>1, <1>3, <2>1, ScheduleSame DEF Plan
<1>8. CASE OpenParallel
  <2>1. Mode[phase] = "parallel" /\ pc' = "parallel" /\ context' = [context EXCEPT ![phase] = old]
        /\ call' = [a \in Agents |-> IF a \in ToSet(Roster[phase]) \ Authors(old)
                                     THEN "queued" ELSE "none"]
    BY <1>8 DEF OpenParallel, Opens
  <2>2. context'[phase] = old
    BY <1>1, <2>1
  <2>3. \A a \in Agents : call'[a] # "none" => a \notin Authors(old)
    BY <2>1
  <2>4. QED
    BY <1>3, <1>6, <2>1, <2>2, <2>3 DEF PlaceInv
<1>9. CASE OpenSequential
  <2>1. PICK i \in 1..(Len(Plan) + 1) : IsNextTurn(i, 1, old, Plan) /\ Await(i, Plan)
    BY <1>9 DEF OpenSequential, Plan
  <2>2. Mode[phase] = "sequential" /\ context' = [context EXCEPT ![phase] = old]
    BY <1>9 DEF OpenSequential, Opens
  <2>3. s = old
    BY <1>1, <1>6, <2>2
  <2>4. Chain(phase, old)
    BY <1>1, <2>2 DEF WorkInv, Fine, Chained
  <2>5. /\ Len(old) \in Nat /\ Len(Plan) = Len(Roster[phase]) /\ Len(Roster[phase]) \in Nat
        /\ Len(old) <= Len(Roster[phase])
        /\ \A t \in TurnsOf(old) : \E j \in 1..Len(old) : Plan[j] = t
    BY <1>1, <1>2, <2>2, <2>4, ChainTurns DEF Plan
  <2>6. i = Len(old) + 1
    <3>1. i = IF 1 <= Len(old) + 1 THEN Len(old) + 1 ELSE 1
      BY <1>1, <1>2, <2>1, <2>2, <2>4, ChainNext DEF Plan
    <3>2. QED
      BY <2>5, <3>1
  <2>7. /\ cursor' = i
        /\ i > Len(Plan) => pc' = "close"
        /\ ~(i > Len(Plan)) => pc' = "turns"
    BY <2>1 DEF Await
  <2> HIDE DEF old
  <2>8. CASE i > Len(Plan)
    <3>1. Len(old) = Len(Roster[phase])
      BY <2>5, <2>6, <2>8
    <3>2. QED
      BY <1>3, <1>6, <2>2, <2>3, <2>7, <2>8, <3>1 DEF PlaceInv
  <2>9. CASE ~(i > Len(Plan))
    <3>1. i \in 1..Len(Plan) /\ 1..(i - 1) = 1..Len(old)
      BY <2>5, <2>6, <2>9
    <3>2. QED
      BY <1>3, <1>6, <1>7, <2>2, <2>3, <2>5, <2>6, <2>7, <2>9, <3>1 DEF PlaceInv
  <2>10. QED
    BY <2>8, <2>9
<1>10. CASE OpenRoundRobin
  <2>1. PICK k \in 0..Len(Plan) :
          /\ IsAcceptedPrefix(k, old, Plan)
          /\ context' = [context EXCEPT ![phase] = Reuse(k, old, Plan)]
          /\ Await(k + 1, Plan)
    BY <1>10 DEF OpenRoundRobin, Plan
  <2>2. Mode[phase] = "round_robin"
    BY <1>10 DEF OpenRoundRobin, Opens
  <2>3. s = Reuse(k, old, Plan)
    BY <1>1, <1>6, <2>1
  <2>4. Len(Plan) \in Nat /\ k \in Nat
    BY <1>1, ScheduleLength DEF Plan
  <2>5. Len(s) = k /\ \A i \in 1..k : TurnOf(s[i]) = Plan[i]
    BY <1>2, <2>1, <2>3, <2>4, ReuseType
  <2>6. DOMAIN s = 1..k
    BY <2>5
  <2>7. \A t \in TurnsOf(s) : \E j \in 1..k : Plan[j] = t
    BY <2>5, <2>6 DEF TurnsOf
  <2>8. /\ cursor' = k + 1
        /\ k + 1 > Len(Plan) => pc' = "close"
        /\ ~(k + 1 > Len(Plan)) => pc' = "turns"
    BY <2>1 DEF Await
  <2>9. CASE k + 1 > Len(Plan)
    BY <1>3, <1>6, <2>2, <2>8, <2>9 DEF PlaceInv
  <2>10. CASE ~(k + 1 > Len(Plan))
    <3>1. k + 1 \in 1..Len(Plan) /\ (k + 1) - 1 = k
      BY <2>4, <2>10
    <3>2. QED
      BY <1>3, <1>6, <1>7, <2>2, <2>7, <2>8, <2>10, <3>1 DEF PlaceInv
  <2>11. QED
    BY <2>9, <2>10
<1>11. QED
  BY <1>8, <1>9, <1>10

\* Nothing to say of a run that is not in a phase.
LEMMA PlaceElsewhere == pc' \notin Running => PlaceInv'
BY DEF PlaceInv, Running

\* Steps that accept nothing and call nobody who was not called.
LEMMA PlaceKept ==
  ASSUME PlaceInv, UNCHANGED <<phase, result, context, cursor>>,
         pc' = pc \/ (pc \in {"parallel", "unwind"} /\ pc' \in {"unwind", "unwind_unsorted"}),
         pc = "parallel" => \A a \in Agents : call'[a] # "none" => call[a] # "none"
  PROVE  PlaceInv'
<1>1. Plan' = Plan
  BY DEF Plan
<1>2. CASE pc' = pc
  BY <1>1, <1>2 DEF PlaceInv
<1>3. CASE pc \in {"parallel", "unwind"} /\ pc' \in {"unwind", "unwind_unsorted"}
  BY <1>1, <1>3 DEF PlaceInv, Running
<1>4. QED
  BY <1>2, <1>3

\* The steps of calls leave outputs alone and call nobody new.
LEMMA PlaceStep ==
  ASSUME TypeInv, PlaceInv, NEW b \in Agents, Step(b)
  PROVE  PlaceInv'
<1>1. call \in [Agents -> {"none", "queued", "held", "calling", "answered", "failed"}]
  BY DEF TypeInv, TypeOK
<1>2. UNCHANGED <<phase, result, context, cursor, pc>>
  BY DEF Step, Admit, BeginAttempt, Retry, Finish, Unwind
<1>3. ASSUME NEW a \in Agents, call'[a] # "none" PROVE call[a] # "none"
  BY <1>1, <1>3 DEF Step, Admit, BeginAttempt, Retry, Finish, Unwind
<1>4. QED
  BY <1>2, <1>3, PlaceKept

\* Collecting an item ends the call of its author.
LEMMA PlaceCollect ==
  ASSUME TypeInv, PlaceInv, Collect
  PROVE  PlaceInv'
<1>1. /\ pc = "parallel" /\ pc' = "parallel" /\ phase' = phase /\ phase \in Phases
      /\ Mode[phase] = "parallel" /\ context[phase] = result.outputs[phase]
      /\ result \in Results /\ context \in [Phases -> Seq(Output)]
  BY DEF Collect, PlaceInv, TypeInv, TypeOK, AtPhase, Running
<1>2. PICK b \in Agents :
        /\ Commit([agent |-> b, round |-> 0]) \/ GiveUp([agent |-> b, round |-> 0])
        /\ call' = [call EXCEPT ![b] = "none"]
  BY DEF Collect
<1>3. call \in [Agents -> {"none", "queued", "held", "calling", "answered", "failed"}]
  BY DEF TypeInv, TypeOK
<1>4. \A a \in Agents : call'[a] # "none" => call[a] # "none" /\ a # b
  BY <1>2, <1>3
<1>5. /\ context'[phase] = result'.outputs[phase]
      /\ Authors(context'[phase]) \subseteq Authors(context[phase]) \cup {b}
  <2>1. CASE GiveUp([agent |-> b, round |-> 0])
    BY <1>1, <2>1 DEF GiveUp, Results
  <2>2. CASE Commit([agent |-> b, round |-> 0])
    <3> DEFINE o == [agent |-> b, round |-> 0, config |-> result.config]
    <3>1. context'[phase] = Append(context[phase], o)
          /\ result'.outputs[phase] = Append(result.outputs[phase], o)
      BY <1>1, <2>2 DEF Commit, Results
    <3>2. o \in Output /\ o.agent = b
      BY <1>1 DEF TypeInv, Labelled, Output, Rounds
    <3> HIDE DEF o
    <3>3. QED
      BY <1>1, <3>1, <3>2, AppendOne
  <2>3. QED
    BY <1>2, <2>1, <2>2
<1>6. \A a \in Agents : call'[a] # "none" => a \notin Authors(context'[phase])
  BY <1>1, <1>4, <1>5 DEF PlaceInv
<1>7. QED
  BY <1>1, <1>5, <1>6 DEF PlaceInv

\* A turn that is taken moves the loop past it, in a chain by one.
LEMMA PlaceTakeTurn ==
  ASSUME TypeInv, PlaceInv, WorkInv, NEW t \in Turn, TakeTurn(t)
  PROVE  PlaceInv'
<1>1. /\ pc = "turns" /\ phase' = phase /\ t = Plan[cursor]
      /\ context[phase] = result.outputs[phase]
      /\ Mode[phase] \in {"sequential", "round_robin"}
  BY DEF TakeTurn, PlaceInv, Running, Plan
<1>2. /\ phase \in Phases /\ cursor \in Nat /\ Len(Plan) \in Nat /\ cursor \in 1..Len(Plan)
      /\ \A u \in TurnsOf(result.outputs[phase]) : \E j \in 1..(cursor - 1) : Plan[j] = u
  BY <1>1, TurnIsDue
<1>3. PICK o \in Output : Adds(o) /\ TurnOf(o) = t
  BY TakeTurnAdds
<1> DEFINE heard == result.outputs[phase]
<1>4. heard \in Seq(Output)
  BY <1>2 DEF TypeInv, TypeOK, Results
<1>5. result'.outputs[phase] = Append(heard, o) /\ context'[phase] = Append(heard, o)
  BY <1>1, <1>3 DEF Adds, Sets
<1>6. TurnsOf(context'[phase]) = TurnsOf(heard) \cup {t} /\ Len(result'.outputs[phase]) = Len(heard) + 1
  BY <1>3, <1>4, <1>5, AppendOne
<1>7. Plan' = Plan
  <2>1. \A q \in 1..(phase - 1) : result'.outputs[q] = result.outputs[q]
    BY <1>2, <1>3, EarlierPhases DEF Adds, Sets
  <2>2. \A q \in 1..(phase - 1) : Authors(result'.outputs[q]) = Authors(result.outputs[q])
    BY ONLY <2>1
  <2>3. Schedule(phase, result'.outputs) = Schedule(phase, result.outputs)
    BY <1>2, <2>2, ScheduleSame
  <2>4. phase' = phase
    BY <1>1
  <2>5. QED
    BY ONLY <2>3, <2>4 DEF Plan
<1>8. PICK i \in 1..(Len(Plan) + 1) : IsNextTurn(i, cursor + 1, heard, Plan) /\ Await(i, Plan)
  BY DEF TakeTurn, Plan
<1>9. i >= cursor + 1 /\ i \in Nat
  BY <1>2, <1>8 DEF IsNextTurn
<1>10. /\ cursor' = i
       /\ i > Len(Plan) => pc' = "close"
       /\ ~(i > Len(Plan)) => pc' = "turns"
  BY <1>8 DEF Await
<1>11. \A u \in TurnsOf(context'[phase]) : \E j \in 1..(i - 1) : Plan[j] = u
  <2>1. 1..(cursor - 1) \subseteq 1..(i - 1) /\ cursor \in 1..(i - 1)
    BY <1>2, <1>9
  <2>2. QED
    BY <1>1, <1>2, <1>6, <2>1
<1>12. ASSUME Mode[phase] = "sequential"
       PROVE  /\ i = Len(result'.outputs[phase]) + 1
              /\ i > Len(Plan) => Len(result'.outputs[phase]) = Len(Roster[phase])
  <2>1. Chain(phase, heard) /\ cursor = Len(heard) + 1
    BY <1>1, <1>2, <1>12 DEF WorkInv, Fine, Chained, PlaceInv
  <2>2. Len(Plan) = Len(Roster[phase]) /\ Len(heard) \in Nat
    BY <1>2, <1>4, <1>12, <2>1, ChainTurns DEF Plan
  <2>3. i = IF cursor + 1 <= Len(heard) + 1 THEN Len(heard) + 1 ELSE cursor + 1
    <3>1. cursor + 1 \in Nat \ {0}
      BY <1>2
    <3>2. QED
      BY <1>2, <1>4, <1>8, <1>12, <2>1, <3>1, ChainNext DEF Plan
  <2> HIDE DEF heard
  <2>4. i = cursor + 1
    BY <1>2, <2>1, <2>2, <2>3
  <2>5. i = Len(result'.outputs[phase]) + 1
    BY <1>6, <2>1, <2>2, <2>4
  <2>6. i > Len(Plan) => Len(result'.outputs[phase]) = Len(Roster[phase])
    BY <1>2, <1>6, <1>8, <2>1, <2>2, <2>4
  <2>7. QED
    BY <2>5, <2>6
<1> HIDE DEF heard
<1>13. CASE i > Len(Plan)
  BY <1>1, <1>5, <1>10, <1>12, <1>13 DEF PlaceInv
<1>14. CASE ~(i > Len(Plan))
  <2>1. i \in 1..Len(Plan)
    BY <1>2, <1>8, <1>14
  <2>2. QED
    BY <1>1, <1>5, <1>7, <1>10, <1>11, <1>12, <1>14, <2>1 DEF PlaceInv
<1>15. QED
  BY <1>13, <1>14

\* A turn that is lost moves a discussion on, and closes a chain that has a failure.
LEMMA PlaceLoseTurn ==
  ASSUME TypeInv, PlaceInv, NEW t \in Turn, LoseTurn(t)
  PROVE  PlaceInv'
<1>1. /\ pc = "turns" /\ phase' = phase /\ GiveUp(t)
      /\ Mode[phase] \in {"sequential", "round_robin"}
      /\ result \in Results /\ context[phase] = result.outputs[phase]
  BY DEF LoseTurn, PlaceInv, TypeInv, TypeOK, Running
<1>2. /\ phase \in Phases /\ cursor \in Nat /\ Len(Plan) \in Nat /\ cursor \in 1..Len(Plan)
      /\ \A u \in TurnsOf(result.outputs[phase]) : \E j \in 1..(cursor - 1) : Plan[j] = u
  BY <1>1, TurnIsDue
<1>3. /\ result'.outputs = result.outputs /\ context' = context
      /\ result'.failed[phase] # {}
  BY <1>1, <1>2 DEF GiveUp, Results
<1>4. Plan' = Plan
  BY <1>1, <1>3 DEF Plan
<1>5. CASE Mode[phase] = "sequential"
  <2>1. Await(Len(Plan) + 1, Plan)
    BY <1>5 DEF LoseTurn, Plan
  <2>2. pc' = "close"
    BY <1>2, <2>1 DEF Await
  <2>3. QED
    BY <1>1, <1>3, <1>5, <2>2 DEF PlaceInv
<1>6. CASE Mode[phase] # "sequential"
  <2>1. Await(cursor + 1, Plan)
    BY <1>6 DEF LoseTurn, Plan
  <2>2. /\ cursor' = cursor + 1
        /\ cursor + 1 > Len(Plan) => pc' = "close"
        /\ ~(cursor + 1 > Len(Plan)) => pc' = "turns"
    BY <2>1 DEF Await
  <2>3. CASE cursor + 1 > Len(Plan)
    BY <1>1, <1>3, <1>6, <2>2, <2>3 DEF PlaceInv
  <2>4. CASE ~(cursor + 1 > Len(Plan))
    <3>1. cursor + 1 \in 1..Len(Plan) /\ 1..(cursor - 1) \subseteq 1..((cursor + 1) - 1)
      BY <1>2, <2>4
    <3>2. QED
      BY <1>1, <1>2, <1>3, <1>4, <1>6, <2>2, <2>4, <3>1 DEF PlaceInv
  <2>5. QED
    BY <2>3, <2>4
<1>7. QED
  BY <1>5, <1>6

\* Every step keeps the place of the pattern.
LEMMA PlaceNext == TypeInv /\ WorkInv /\ PlaceInv /\ [Next]_vars => PlaceInv'
<1> SUFFICES ASSUME TypeInv, WorkInv, PlaceInv, [Next]_vars PROVE PlaceInv'
  OBVIOUS
<1>1. ASSUME NEW cfg \in Configurations, NEW resume \in BOOLEAN, Start(cfg, resume)
      PROVE  PlaceInv'
  BY <1>1, PlaceElsewhere DEF Start, Running
<1>2. CASE Open
  <2>1. CASE ReplayPhase \/ RefusePhase
    BY <2>1, PlaceElsewhere DEF ReplayPhase, RefusePhase, Abort, Running
  <2>2. QED
    BY <1>2, <2>1, PlaceOpen DEF Open
<1>3. ASSUME NEW a \in Agents, Step(a) PROVE PlaceInv'
  BY <1>3, PlaceStep
<1>4. CASE Collect
  BY <1>4, PlaceCollect
<1>5. ASSUME NEW t \in Turn, TakeTurn(t) \/ LoseTurn(t) PROVE PlaceInv'
  BY <1>5, PlaceTakeTurn, PlaceLoseTurn
<1>6. CASE CompletePhase \/ FailPhase \/ Conclude \/ StopParallel \/ Settle
  BY <1>6, PlaceElsewhere
  DEF CompletePhase, FailPhase, Conclude, StopParallel, Settle, Abort, Running
<1>7. CASE CancelTurn \/ Crash
  BY <1>7, PlaceElsewhere DEF CancelTurn, Crash, Abort, Running
<1>8. CASE CancelParallel
  <2>1. /\ UNCHANGED <<phase, result, context, cursor, call>>
        /\ pc \in {"parallel", "unwind"} /\ pc' \in {"unwind", "unwind_unsorted"}
    BY <1>8 DEF CancelParallel, disk, run
  <2>2. QED
    BY <2>1, PlaceKept
<1>9. CASE UNCHANGED vars
  BY <1>9, PlaceKept DEF vars, run
<1>10. QED
  BY <1>1, <1>2, <1>3, <1>4, <1>5, <1>6, <1>7, <1>8, <1>9 DEF Next, Progress, Cancel
-----------------------------------------------------------------------------
\* Where a run may write: the phases after this one have taken nothing over.
LEMMA NothingAhead ==
  ASSUME TypeInv, OrderInv, pc \in Running
  PROVE  /\ phase \in Phases /\ phase \in Nat /\ (\A p \in Phases : p \in Nat)
         /\ \A p \in Phases : p > phase => restored.outputs[p] = <<>>
<1>1. phase \in Phases /\ phase \in Nat /\ \A p \in Phases : p \in Nat
  BY EarlierPhases DEF TypeInv, AtPhase
<1>2. pc \notin {"idle", "enter", "settle"}
  BY DEF Running
<1>3. PICK n \in 0..PhaseCount : StandsAt(n)
  BY <1>2 DEF OrderInv
<1>4. phase = n + 1 /\ NothingFrom(restored.outputs, n + 2) /\ n \in Nat
  BY <1>3, PhasesAreNumbered DEF StandsAt
<1>5. ASSUME NEW p \in Phases, p > phase PROVE restored.outputs[p] = <<>>
  <2>1. p >= n + 2
    <3>1. p \in Nat
      BY <1>1
    <3>2. QED
      BY ONLY <1>4, <1>5, <3>1
  <2>2. QED
    BY ONLY <1>4, <1>5, <2>1 DEF NothingFrom
<1>6. QED
  BY <1>1, <1>5

\* What a pattern leaves is fine, and what the run took over is in it.
LEMMA WrappedFine ==
  ASSUME TypeInv, OrderInv, WorkInv, NEW r, Wraps(r)
  PROVE  /\ Fine(r.outputs) /\ r.completed = result.completed
         /\ \A p \in Phases : Kept(restored.outputs, r.outputs, p)
         /\ \A p \in Phases : ToSet(r.outputs[p]) = ToSet(result.outputs[p])
         /\ \A p \in Phases : p # phase => r.outputs[p] = result.outputs[p]
<1>1. /\ phase \in Phases /\ phase \in Nat /\ (\A p \in Phases : p \in Nat)
      /\ \A p \in Phases : p > phase => restored.outputs[p] = <<>>
  BY NothingAhead DEF Wraps
<1>2. result \in Results /\ Fine(result.outputs)
  BY DEF TypeInv, TypeOK, WorkInv
<1>3. /\ Fine(r.outputs) /\ r.completed = result.completed
      /\ \A p \in Phases : ToSet(r.outputs[p]) = ToSet(result.outputs[p])
      /\ \A p \in Phases : p # phase => r.outputs[p] = result.outputs[p]
  <2>1. CASE r = result
    BY <1>2, <2>1
  <2>2. CASE Mode[phase] = "parallel" /\ r \in Sorted(result, phase)
    <3>1. /\ \A p \in Phases : p # phase => r.outputs[p] = result.outputs[p]
          /\ ToSet(r.outputs[phase]) = ToSet(result.outputs[phase])
          /\ r.completed = result.completed
      BY <1>1, <1>2, <2>2, SortedSet
    <3>2. Fine(r.outputs)
      BY <1>1, <1>2, <2>2, FineSorted
    <3>3. QED
      BY <3>1, <3>2
  <2>3. QED
    BY <2>1, <2>2 DEF Wraps
<1>4. ASSUME NEW p \in Phases PROVE Kept(restored.outputs, r.outputs, p)
  <2>1. CASE p > phase
    BY <1>1, <2>1, KeptSelf
  <2>2. CASE ~(p > phase)
    <3>1. Kept(restored.outputs, result.outputs, p)
      BY <1>1, <2>2 DEF WorkInv, Active, Reached, Wraps
    <3>2. \A q \in 1..(p - 1) : Authors(r.outputs[q]) = Authors(result.outputs[q])
      BY <1>3, EarlierPhases, SameSet
    <3>3. QED
      BY <1>3, <3>1, <3>2, KeptGrows
  <2>3. QED
    BY <2>1, <2>2
<1>5. QED
  BY <1>3, <1>4

\* The patterns' results, and those of runs that stop.
LEMMA ReturnedWraps ==
  ASSUME TypeInv, PlaceInv, NEW r \in Returned
  PROVE  Wraps(r)
<1>1. r \in Results /\ pc \in Running
  BY ReturnedType
<1>2. r = result \/ (pc = "parallel" /\ r \in Sorted(result, phase))
  BY DEF Returned
<1>3. QED
  BY <1>1, <1>2 DEF Wraps, PlaceInv

\* A run that fails or is stopped writes what its pattern leaves.
LEMMA StopWraps ==
  ASSUME TypeInv, PlaceInv, FailPhase \/ StopParallel \/ CancelTurn
  PROVE  /\ Wraps(result') /\ saved'.outputs = result'.outputs
         /\ saved'.completed = result'.completed /\ pc' = "settle"
         /\ context' = context /\ restored' = restored
<1>1. \E why \in {"failed", "stopped"} : Abort(result', why) /\ context' = context
  BY DEF FailPhase, StopParallel, CancelTurn
<1>2. Wraps(result')
  <2>1. CASE FailPhase
    <3>1. PICK r \in Returned : result' = r
      BY <2>1 DEF FailPhase
    <3>2. QED
      BY <3>1, ReturnedWraps
  <2>2. CASE StopParallel
    <3>1. /\ result \in Results /\ phase \in Phases /\ Mode[phase] = "parallel" /\ pc \in Running
          /\ result' = result \/ result' \in Sorted(result, phase)
      BY <2>2 DEF StopParallel, TypeInv, TypeOK, AtPhase, PlaceInv, Running
    <3>2. result' \in Results
      BY <3>1, SortedType
    <3>3. QED
      BY <3>1, <3>2 DEF Wraps
  <2>3. CASE CancelTurn
    BY <2>3 DEF CancelTurn, TypeInv, TypeOK, Wraps, Running
  <2>4. QED
    BY <2>1, <2>2, <2>3
<1>3. saved'.outputs = result'.outputs /\ saved'.completed = result'.completed
  <2>1. result' \in Results
    BY <1>2 DEF Wraps
  <2>2. QED
    BY <1>1, <2>1 DEF Abort, Results
<1>4. QED
  BY <1>1, <1>2, <1>3 DEF Abort

\* So does a completed phase, and is listed.
LEMMA CompleteWraps ==
  ASSUME TypeInv, PlaceInv, CompletePhase
  PROVE  \E r \in Returned :
           /\ Wraps(r) /\ ~TooFew(r, phase) /\ ~Broken(r, phase)
           /\ result'.outputs = r.outputs /\ result'.completed = r.completed \cup {phase}
           /\ saved' = result' /\ pc' = "enter" /\ phase' = phase + 1
           /\ context' = context /\ restored' = restored
<1>1. PICK r \in Returned :
        /\ ~TooFew(r, phase) /\ ~Broken(r, phase)
        /\ result' = [r EXCEPT !.completed = @ \cup {phase}]
        /\ saved' = result' /\ pc' = "enter" /\ phase' = phase + 1
        /\ context' = context /\ restored' = restored
  BY DEF CompletePhase
<1>2. Wraps(r)
  BY ReturnedWraps
<1>3. result'.outputs = r.outputs /\ result'.completed = r.completed \cup {phase}
  BY <1>1, <1>2 DEF Wraps, Results
<1>4. QED
  BY <1>1, <1>2, <1>3

\* The end of the loop: every phase has been reached.
LEMMA ConcludeWrites ==
  ASSUME TypeInv, OrderInv, Conclude
  PROVE  /\ pc' = "settle" /\ context' = context /\ restored' = restored /\ result' = result
         /\ saved'.outputs = result.outputs /\ saved'.completed = result.completed
         /\ pc = "enter" /\ \A p \in Phases : p < phase
<1>1. result \in Results /\ phase \in Nat /\ pc = "enter" /\ phase \notin Phases
  BY DEF Conclude, TypeInv, TypeOK
<1>2. PICK n \in 0..PhaseCount : StandsAt(n)
  BY <1>1 DEF OrderInv
<1>3. \A p \in Phases : p < phase
  BY <1>1, <1>2, PhasesAreNumbered DEF StandsAt
<1>4. /\ pc' = "settle" /\ context' = context /\ restored' = restored /\ result' = result
      /\ \E why \in {"completed", "failed"} : saved' = [result EXCEPT !.status = why]
  BY DEF Conclude, Abort
<1>5. QED
  BY <1>1, <1>3, <1>4 DEF Results

\* Nothing is fine.
LEMMA FineEmpty == Fine(Empty)
<1>1. \A p \in Phases : Empty[p] = <<>>
  BY DEF Empty
<1>2. Once(Empty) /\ Panel(Empty)
  BY <1>1, NothingIn DEF Once, Panel
<1>3. Chained(Empty)
  <2>1. \A p \in Phases : Len(Roster[p]) \in Nat
    BY ConfigAssumption
  <2>2. Len(<<>>) = 0 /\ 1..0 = {}
    OBVIOUS
  <2>3. QED
    BY <1>1, <2>1, <2>2 DEF Chained, Chain
<1>4. QED
  BY <1>2, <1>3 DEF Fine

\* What the three records hold only changes where a step writes them; the last conjunct of
\* WorkInv is about the phases reached so far.
LEMMA WorkInit == Init => WorkInv /\ PlaceInv
<1> SUFFICES ASSUME Init PROVE WorkInv /\ PlaceInv
  OBVIOUS
<1>1. /\ saved.outputs = Empty /\ restored.outputs = Empty /\ result.outputs = Empty
      /\ context = Empty /\ pc = "idle"
  BY DEF Init, NoResult, NoPhases
<1>2. Fine(Empty) /\ Once(Empty)
  BY FineEmpty DEF Fine
<1>3. WorkInv
  BY <1>1, <1>2 DEF WorkInv, Active, Running
<1>4. PlaceInv
  BY <1>1 DEF PlaceInv, Running
<1>5. QED
  BY <1>3, <1>4

\* A run takes over the saved outputs, or nothing.
LEMMA WorkStart ==
  ASSUME TypeInv, WorkInv, NEW cfg, NEW resume, Start(cfg, resume)
  PROVE  WorkInv'
<1>1. /\ pc' = "enter" /\ phase' = 1 /\ saved' = saved
      /\ context' = Empty /\ result'.outputs = Empty
      /\ restored'.outputs = saved.outputs \/ restored'.outputs = Empty
  BY DEF Start, NoResult, NoPhases
<1>2. Fine(Empty) /\ Once(Empty) /\ Fine(saved.outputs)
  BY FineEmpty DEF Fine, WorkInv
<1>3. \A p \in Phases : restored'.outputs[p] = saved.outputs[p] \/ restored'.outputs[p] = <<>>
  BY <1>1 DEF Empty
<1>4. \A p \in Phases : Kept(restored'.outputs, saved.outputs, p)
  BY <1>3, KeptSelf
<1>5. \A p \in Phases : ~(p < 1)
  BY PhasesAreNumbered
<1>6. \A p \in Phases : ~Reached(p)'
  BY <1>1, <1>5 DEF Reached, Running
<1>7. QED
  BY <1>1, <1>2, <1>4, <1>6 DEF WorkInv

\* Setting one phase of the context leaves it without a repeated turn.
LEMMA OnceSet ==
  ASSUME Once(context), NEW s, Distinct(s), Sets(context', context, s)
  PROVE  Once(context')
BY DEF Once, Sets

\* The loop takes a phase over.
LEMMA WorkOpen ==
  ASSUME TypeInv, OrderInv, WorkInv, Open
  PROVE  WorkInv'
<1>1. PICK s \in Seq(Output) : Replays(s) \/ Opened(s) \/ Refuses(s)
  BY OpenTakes
<1>2. Takes(s) /\ restored' = restored /\ phase \in Phases /\ phase \in Nat /\ pc = "enter"
  BY <1>1 DEF Replays, Opened, Refuses, Takes, TypeInv, TypeOK
<1>3. /\ Fine(result'.outputs) /\ Distinct(s)
      /\ \A p \in Phases : p <= phase => Kept(restored.outputs, result'.outputs, p)
      /\ phase \notin result.completed =>
           \A p \in Phases : Kept(restored.outputs, result'.outputs, p)
  BY <1>2, TakenFine
<1>4. /\ Fine(saved.outputs) /\ Fine(restored.outputs) /\ Once(context)
      /\ \A p \in Phases : Kept(restored.outputs, saved.outputs, p)
  BY <1>2 DEF WorkInv
<1>5. Once(context')
  BY <1>1, <1>3, <1>4, OnceSet DEF Replays, Opened, Refuses
<1>6. CASE Replays(s)
  <2>1. /\ saved' = saved /\ pc' = "enter" /\ phase' = phase + 1
        /\ \A p \in Phases : p \in Nat
    BY <1>6, PhasesAreNumbered DEF Replays
  <2>2. \A p \in Phases : Reached(p)' => p <= phase
    BY <1>2, <2>1 DEF Reached, Running
  <2>3. QED
    BY <1>2, <1>3, <1>4, <1>5, <2>1, <2>2 DEF WorkInv
<1>7. CASE Opened(s)
  <2>1. saved' = saved /\ phase \notin result.completed
    BY <1>7 DEF Opened
  <2>2. QED
    BY <1>2, <1>3, <1>4, <1>5, <2>1 DEF WorkInv
<1>8. CASE Refuses(s)
  <2>1. saved'.outputs = result'.outputs /\ phase \notin result.completed /\ pc' = "settle"
    BY <1>8 DEF Refuses
  <2>2. QED
    BY <1>2, <1>3, <1>4, <1>5, <2>1 DEF WorkInv
<1>9. QED
  BY <1>1, <1>6, <1>7, <1>8

\* A step that is quiet changes nothing here.
LEMMA WorkQuiet ==
  ASSUME WorkInv, Quiet
  PROVE  WorkInv'
<1>1. /\ saved' = saved /\ restored' = restored /\ phase' = phase /\ context' = context
      /\ result'.outputs = result.outputs
      /\ pc' = pc \/ (pc \in Running /\ pc' \in Running)
  BY DEF Quiet
<1>2. (pc' # "idle" => pc # "idle") /\ (Active' => Active)
      /\ \A p \in Phases : Active' /\ Reached(p)' => Reached(p)
  BY <1>1 DEF Active, Reached, Running
<1>3. QED
  BY <1>1, <1>2 DEF WorkInv

\* An accepted answer is added.
LEMMA WorkAdds ==
  ASSUME TypeInv, OrderInv, WorkInv, PlaceInv, NEW o, Adds(o)
  PROVE  WorkInv'
<1> DEFINE outs == result.outputs
<1> DEFINE new == result'.outputs
<1>1. /\ pc \in Running /\ pc' \in Running /\ phase' = phase /\ restored' = restored
      /\ o \in Output /\ saved' = result'
      /\ \A q \in Phases : q # phase => new[q] = outs[q]
      /\ TurnOf(o) \notin TurnsOf(outs[phase])
  BY DEF Adds, Sets
<1>2. /\ phase \in Phases /\ phase \in Nat /\ (\A p \in Phases : p \in Nat)
      /\ \A p \in Phases : p > phase => restored.outputs[p] = <<>>
  BY <1>1, NothingAhead
<1>3. outs \in [Phases -> Seq(Output)] /\ new[phase] = Append(outs[phase], o)
  BY <1>2 DEF TypeInv, TypeOK, Results, Adds, Sets
<1>4. Fine(outs) /\ Fine(restored.outputs) /\ Once(context)
  BY DEF WorkInv
<1>5. Fine(new)
  <2>1. Synthesis /\ Mode[phase] = "round_robin" =>
          \A q \in IndependentPhase(phase) : o.agent \in Authors(outs[q])
    BY DEF Adds
  <2>2. Mode[phase] = "sequential" =>
          /\ Len(outs[phase]) < Len(Roster[phase])
          /\ TurnOf(o) = [agent |-> Roster[phase][Len(outs[phase]) + 1], round |-> 0]
    BY DEF Adds
  <2> HIDE DEF outs, new
  <2>3. QED
    BY <1>1, <1>2, <1>3, <1>4, <2>1, <2>2, FineAdded
<1>6. Once(context')
  <2>1. context[phase] = outs[phase] /\ Sets(context', context, Append(outs[phase], o))
    BY <1>1 DEF PlaceInv, Adds
  <2>2. outs[phase] \in Seq(Output) /\ Distinct(outs[phase])
    BY <1>2, <1>3, <1>4 DEF Fine, Once
  <2>3. Distinct(Append(outs[phase], o))
    BY <1>1, <2>2, AppendOne
  <2>4. QED
    BY <1>4, <2>1, <2>3, OnceSet
<1>7. ToSet(outs[phase]) \subseteq ToSet(new[phase])
  BY <1>1, <1>2, <1>3, AppendOne
<1>8. ASSUME NEW p \in Phases PROVE Kept(restored.outputs, new, p)
  <2>1. CASE p > phase
    BY <1>2, <2>1, KeptSelf
  <2>2. CASE ~(p > phase)
    <3>1. Kept(restored.outputs, outs, p)
      BY <1>1, <1>2, <2>2 DEF WorkInv, Active, Reached
    <3>2. \A q \in 1..(p - 1) : q \in Phases /\ q # phase
      BY <1>2, <2>2, EarlierPhases
    <3>3. \A q \in 1..(p - 1) : Authors(new[q]) = Authors(outs[q])
      BY <1>1, <3>2
    <3>4. ToSet(outs[p]) \subseteq ToSet(new[p])
      BY <1>1, <1>7
    <3> HIDE DEF outs, new
    <3>5. QED
      BY <3>1, <3>3, <3>4, KeptGrows
  <2>3. QED
    BY <2>1, <2>2
<1>9. QED
  BY <1>1, <1>4, <1>5, <1>6, <1>8 DEF WorkInv

\* The run ends, with what it has on disk.
LEMMA WorkStop ==
  ASSUME TypeInv, OrderInv, WorkInv, PlaceInv, FailPhase \/ StopParallel \/ CancelTurn
  PROVE  WorkInv'
<1>1. /\ Wraps(result') /\ saved'.outputs = result'.outputs /\ pc' = "settle"
      /\ context' = context /\ restored' = restored
  BY StopWraps
<1>2. Fine(result'.outputs) /\ \A p \in Phases : Kept(restored.outputs, result'.outputs, p)
  BY <1>1, WrappedFine
<1>3. QED
  BY <1>1, <1>2 DEF WorkInv, Active, Running

\* A completed phase is written.
LEMMA WorkComplete ==
  ASSUME TypeInv, OrderInv, WorkInv, PlaceInv, CompletePhase
  PROVE  WorkInv'
<1>1. PICK r \in Returned :
        /\ Wraps(r) /\ result'.outputs = r.outputs /\ saved' = result' /\ pc' = "enter"
        /\ context' = context /\ restored' = restored
  BY CompleteWraps
<1>2. Fine(r.outputs) /\ \A p \in Phases : Kept(restored.outputs, r.outputs, p)
  BY <1>1, WrappedFine
<1>3. QED
  BY <1>1, <1>2 DEF WorkInv

\* The end of the loop is written: every phase has been reached.
LEMMA WorkConclude ==
  ASSUME TypeInv, OrderInv, WorkInv, Conclude
  PROVE  WorkInv'
<1>1. /\ pc' = "settle" /\ context' = context /\ restored' = restored /\ result' = result
      /\ saved'.outputs = result.outputs /\ pc = "enter" /\ \A p \in Phases : p < phase
  BY ConcludeWrites
<1>2. \A p \in Phases : Kept(restored.outputs, result.outputs, p)
  BY <1>1 DEF WorkInv, Active, Reached
<1>3. QED
  BY <1>1, <1>2 DEF WorkInv, Active, Running

\* The run is over, or the process dies: only the session file is left.
LEMMA WorkOver ==
  ASSUME WorkInv, Settle \/ Crash
  PROVE  WorkInv'
<1>1. /\ pc' = "idle" /\ saved' = saved /\ result'.outputs = Empty
      /\ restored'.outputs = Empty
      /\ context' = context \/ context' = Empty
  BY DEF Settle, Crash, NoResult, NoPhases, disk
<1>2. Fine(Empty) /\ Once(Empty)
  BY FineEmpty DEF Fine
<1>3. QED
  BY <1>1, <1>2 DEF WorkInv, Active, Running

\* Every step keeps what is accepted fine, and what was taken over.
LEMMA WorkNext == TypeInv /\ OrderInv /\ WorkInv /\ PlaceInv /\ [Next]_vars => WorkInv'
<1> SUFFICES ASSUME TypeInv, OrderInv, WorkInv, PlaceInv, [Next]_vars PROVE WorkInv'
  OBVIOUS
<1>1. ASSUME NEW cfg \in Configurations, NEW resume \in BOOLEAN, Start(cfg, resume)
      PROVE  WorkInv'
  BY <1>1, WorkStart
<1>2. CASE Open
  BY <1>2, WorkOpen
<1>3. ASSUME NEW a \in Agents, Step(a) PROVE WorkInv'
  <2>1. /\ UNCHANGED <<saved, restored, phase, context, result, pc>>
    BY <1>3 DEF Step, Admit, BeginAttempt, Retry, Finish, Unwind, disk
  <2>2. QED
    BY <2>1, WorkQuiet DEF Quiet
<1>4. CASE Collect
  BY <1>4, CollectAdds, WorkQuiet, WorkAdds
<1>5. ASSUME NEW t \in Turn, TakeTurn(t) \/ LoseTurn(t) PROVE WorkInv'
  BY <1>5, TakeTurnAdds, LoseTurnQuiet, WorkQuiet, WorkAdds
<1>6. CASE CompletePhase
  BY <1>6, WorkComplete
<1>7. CASE FailPhase \/ StopParallel \/ CancelTurn
  BY <1>7, WorkStop
<1>8. CASE Conclude
  BY <1>8, WorkConclude
<1>9. CASE Settle \/ Crash
  BY <1>9, WorkOver
<1>10. CASE CancelParallel
  <2>1. /\ UNCHANGED <<saved, phase, result, restored, context>>
        /\ pc \in Running /\ pc' \in Running
    BY <1>10 DEF CancelParallel, disk, run, Running
  <2>2. QED
    BY <2>1, WorkQuiet DEF Quiet
<1>11. CASE UNCHANGED vars
  BY <1>11, WorkQuiet DEF vars, disk, run, Quiet
<1>12. QED
  BY <1>1, <1>2, <1>3, <1>4, <1>5, <1>6, <1>7, <1>8, <1>9, <1>10, <1>11
  DEF Next, Progress, Cancel

\* All that is true of the outputs, together.
AcceptedInv == TypeInv /\ OrderInv /\ WorkInv /\ PlaceInv

\* It is invariant.
LEMMA AcceptedAlways == Spec => []AcceptedInv
<1>1. Init => AcceptedInv
  BY TypeInit, OrderInit, WorkInit DEF AcceptedInv
<1>2. AcceptedInv /\ [Next]_vars => AcceptedInv'
  BY TypeNext, OrderNext, WorkNext, PlaceNext DEF AcceptedInv
<1>3. QED
  BY <1>1, <1>2, PTL DEF Spec

\* However a run is interrupted, resumed and crashes, the session file and the context hold
\* no turn twice, and no participant is asked who has answered (patterns.py:104-127, 206).
THEOREM EachTurnIsAcceptedOnce == Spec => []EachTurnOnce
<1>1. AcceptedInv => EachTurnOnce
  BY DEF AcceptedInv, WorkInv, Fine, Once, PlaceInv, EachTurnOnce
<1>2. QED
  BY <1>1, AcceptedAlways, PTL

\* What a run takes over from the session file is in every file it writes, whether it ends,
\* is stopped or dies: the file never holds less than the run began with, up to the first
\* gap of a discussion.
THEOREM NothingRestoredIsLost == Spec => []RestoredWorkKept
<1>1. AcceptedInv => RestoredWorkKept
  BY DEF AcceptedInv, WorkInv, Kept, RestoredWorkKept
<1>2. QED
  BY <1>1, AcceptedAlways, PTL

\* In an independent synthesis, whatever is restored from disk, the session file has no word
\* in the discussion from anyone without an accepted independent assessment.
THEOREM OnlyThePanelSpeaks == Spec => []PanelOnly
<1>1. AcceptedInv => PanelOnly
  BY DEF AcceptedInv, WorkInv, Fine, Panel, PanelOnly
<1>2. QED
  BY <1>1, AcceptedAlways, PTL
-----------------------------------------------------------------------------
(***************************************************************************)
(* What speakers are shown.  The loop leaves behind it, in the context,    *)
(* the outputs of every phase it has been through, and nothing ahead.      *)
(***************************************************************************)
HeardInv ==
  Active => \A p \in Phases :
    /\ p < phase => ToSet(context[p]) = ToSet(result.outputs[p])
    /\ p > phase \/ (p = phase /\ pc = "enter") => context[p] = <<>>

\* A step at one phase of the context and of the result, the loop staying or going on.
LEMMA HeardHere ==
  ASSUME TypeInv, HeardInv, Active, phase \in Phases, phase \in Nat, \A p \in Phases : p \in Nat,
         \A p \in Phases : p # phase =>
           context'[p] = context[p] /\ ToSet(result'.outputs[p]) = ToSet(result.outputs[p]),
         \/ phase' = phase /\ pc' \in Running
         \/ /\ phase' = phase + 1 /\ pc' = "enter"
            /\ ToSet(context'[phase]) = ToSet(result'.outputs[phase])
  PROVE  HeardInv'
<1>1. ASSUME NEW p \in Phases, p < phase'
      PROVE  ToSet(context'[p]) = ToSet(result'.outputs[p])
  <2>1. p \in Nat /\ (p = phase \/ p < phase)
    BY <1>1
  <2>2. CASE p = phase
    BY <1>1, <2>1, <2>2
  <2>3. CASE p < phase
    <3>1. p # phase
      BY <2>1, <2>3
    <3>2. QED
      BY <2>3, <3>1 DEF HeardInv
  <2>4. QED
    BY <2>1, <2>2, <2>3
<1>2. ASSUME NEW p \in Phases, p > phase' \/ (p = phase' /\ pc' = "enter")
      PROVE  context'[p] = <<>>
  <2>1. p \in Nat /\ p > phase /\ p # phase
    BY <1>2 DEF Running
  <2>2. QED
    BY <2>1 DEF HeardInv
<1>3. QED
  BY <1>1, <1>2 DEF HeardInv

\* A step that changes no output changes nothing that is heard.
LEMMA HeardQuiet ==
  ASSUME HeardInv, Quiet
  PROVE  HeardInv'
<1>1. /\ context' = context /\ phase' = phase /\ result'.outputs = result.outputs
      /\ pc' = pc \/ (pc \in Running /\ pc' \in Running)
  BY DEF Quiet
<1>2. Active' => Active /\ (pc' = "enter" => pc = "enter")
  BY <1>1 DEF Active, Running
<1>3. QED
  BY <1>1, <1>2 DEF HeardInv

\* A run that is not at a phase shows nothing.
LEMMA HeardElsewhere == pc' \in {"idle", "settle"} => HeardInv'
BY DEF HeardInv, Active, Running

\* Every step keeps the context true to what has been accepted.
LEMMA HeardNext == AcceptedInv /\ HeardInv /\ [Next]_vars => HeardInv'
<1> SUFFICES ASSUME AcceptedInv, HeardInv, [Next]_vars PROVE HeardInv'
  OBVIOUS
<1> USE DEF AcceptedInv
<1>0. /\ \A p \in Phases : p \in Nat
      /\ pc \in Running => phase \in Phases /\ phase \in Nat /\ Active
  BY PhasesAreNumbered DEF TypeInv, TypeOK, AtPhase, Active
<1>1. ASSUME NEW cfg \in Configurations, NEW resume \in BOOLEAN, Start(cfg, resume)
      PROVE  HeardInv'
  <2>1. context' = Empty /\ phase' = 1 /\ \A p \in Phases : ~(p < 1) /\ Empty[p] = <<>>
    BY <1>1, PhasesAreNumbered DEF Start, Empty
  <2>2. QED
    BY <2>1 DEF HeardInv
<1>2. CASE Open
  <2>1. PICK s \in Seq(Output) : Replays(s) \/ Opened(s) \/ Refuses(s)
    BY <1>2, OpenTakes
  <2>2. CASE Refuses(s)
    BY <2>2, HeardElsewhere DEF Refuses
  <2>3. CASE Replays(s) \/ Opened(s)
    <3>1. /\ phase \in Phases /\ phase \in Nat /\ Active
          /\ Sets(context', context, s) /\ Sets(result'.outputs, result.outputs, s)
      BY <1>0, <2>3 DEF Replays, Opened, Takes, Active
    <3>2. \/ phase' = phase /\ pc' \in Running
          \/ phase' = phase + 1 /\ pc' = "enter"
      BY <2>3 DEF Replays, Opened
    <3>3. /\ \A p \in Phases : p # phase =>
               context'[p] = context[p] /\ result'.outputs[p] = result.outputs[p]
          /\ context'[phase] = result'.outputs[phase]
      BY <3>1 DEF Sets
    <3>4. QED
      BY <1>0, <3>1, <3>2, <3>3, HeardHere
  <2>4. QED
    BY <2>1, <2>2, <2>3
<1>3. ASSUME NEW o, Adds(o) PROVE HeardInv'
  <2>1. /\ pc \in Running /\ pc' \in Running /\ phase' = phase
        /\ \A p \in Phases : p # phase =>
             context'[p] = context[p] /\ result'.outputs[p] = result.outputs[p]
    BY <1>3 DEF Adds, Sets
  <2>2. QED
    BY <1>0, <2>1, HeardHere
<1>4. ASSUME NEW a \in Agents, Step(a) PROVE HeardInv'
  <2>1. UNCHANGED <<saved, restored, phase, context, result, pc>>
    BY <1>4 DEF Step, Admit, BeginAttempt, Retry, Finish, Unwind, disk
  <2>2. QED
    BY <2>1, HeardQuiet DEF Quiet
<1>5. CASE Collect
  BY <1>3, <1>5, CollectAdds, HeardQuiet
<1>6. ASSUME NEW t \in Turn, TakeTurn(t) \/ LoseTurn(t) PROVE HeardInv'
  BY <1>3, <1>6, TakeTurnAdds, LoseTurnQuiet, HeardQuiet
<1>7. CASE CompletePhase
  <2>1. PICK r \in Returned :
          /\ Wraps(r) /\ result'.outputs = r.outputs /\ pc' = "enter" /\ phase' = phase + 1
          /\ context' = context
    BY <1>7, CompleteWraps
  <2>2. /\ \A p \in Phases : ToSet(r.outputs[p]) = ToSet(result.outputs[p])
        /\ pc \in Running /\ context[phase] = result.outputs[phase]
    BY <2>1, WrappedFine DEF Wraps, PlaceInv
  <2>3. QED
    BY <1>0, <2>1, <2>2, HeardHere
<1>8. CASE FailPhase \/ Conclude \/ StopParallel \/ Settle \/ CancelTurn \/ Crash
  BY <1>8, HeardElsewhere
  DEF FailPhase, Conclude, StopParallel, Settle, CancelTurn, Crash, Abort
<1>9. CASE CancelParallel
  <2>1. /\ UNCHANGED <<saved, phase, result, restored, context>>
        /\ pc \in Running /\ pc' \in Running
    BY <1>9 DEF CancelParallel, disk, run, Running
  <2>2. QED
    BY <2>1, HeardQuiet DEF Quiet
<1>10. CASE UNCHANGED vars
  BY <1>10, HeardQuiet DEF vars, disk, run, Quiet
<1>11. QED
  BY <1>1, <1>2, <1>4, <1>5, <1>6, <1>7, <1>8, <1>9, <1>10 DEF Next, Progress, Cancel

\* Whoever's turn it is, in any phase and after any restart, is shown the accepted outputs of
\* the phases before, none of later ones and, of this one, only turns scheduled before.
THEOREM SpeakersHearOnlyThePast == Spec => []SpeakersHearThePast
<1>1. Init => HeardInv
  BY DEF Init, HeardInv, Active, Running
<1>2. AcceptedInv /\ HeardInv => SpeakersHearThePast
  BY DEF AcceptedInv, PlaceInv, HeardInv, Active, Running, Plan, SpeakersHearThePast
<1>3. QED
  BY <1>1, <1>2, HeardNext, AcceptedAlways, PTL DEF Spec

-----------------------------------------------------------------------------
(* What a parallel phase is shown.  The snapshot its participants share is the *)
(* context, and what the interrupted run had saved of the phase itself.        *)

\* What the participants of a parallel phase are shown: what was accepted before it and, of
\* the phase itself, what an interrupted run had saved, but no answer given beside them.
ParallelHearsThePast ==
  pc = "parallel" =>
    /\ \A p \in Phases : /\ p < phase => ToSet(snapshot[p]) = ToSet(result.outputs[p])
                         /\ p > phase => snapshot[p] = <<>>
    /\ snapshot[phase] = restored.outputs[phase]

\* A parallel phase goes on: its snapshot stays, and what was accepted before it.
LEMMA SnapshotStays ==
  ASSUME ParallelHearsThePast, pc = "parallel", UNCHANGED <<phase, restored, snapshot>>,
         phase \in Nat, \A p \in Phases : p \in Nat,
         \A p \in Phases : p # phase => result'.outputs[p] = result.outputs[p]
  PROVE  ParallelHearsThePast'
<1>1. ASSUME NEW p \in Phases
      PROVE  /\ p < phase' => ToSet(snapshot'[p]) = ToSet(result'.outputs[p])
             /\ p > phase' => snapshot'[p] = <<>>
  <2>1. p \in Nat /\ (p < phase => p # phase)
    OBVIOUS
  <2>2. QED
    BY <2>1 DEF ParallelHearsThePast
<1>2. snapshot'[phase'] = restored'.outputs[phase']
  BY DEF ParallelHearsThePast
<1>3. QED
  BY <1>1, <1>2 DEF ParallelHearsThePast

LEMMA SnapshotElsewhere == pc' # "parallel" => ParallelHearsThePast'
BY DEF ParallelHearsThePast

LEMMA SnapshotTaken ==
  ASSUME TypeInv, HeardInv, OpenParallel PROVE ParallelHearsThePast'
<1>1. /\ result \in Results /\ context \in [Phases -> Seq(Output)]
      /\ pc = "enter" /\ phase \in Phases /\ Active
  BY DEF TypeInv, TypeOK, OpenParallel, Opens, Active
<1>2. \A p \in Phases : p \in Nat
  BY PhasesAreNumbered
<1>3. /\ snapshot' = [context EXCEPT ![phase] = restored.outputs[phase]]
      /\ phase' = phase /\ restored' = restored
      /\ \A p \in Phases : p # phase => result'.outputs[p] = result.outputs[p]
  BY <1>1 DEF OpenParallel, WithPhase, Results
<1>4. snapshot'[phase] = restored.outputs[phase] /\ \A p \in Phases : p # phase => snapshot'[p] = context[p]
  BY <1>1, <1>3
<1>5. ASSUME NEW p \in Phases
      PROVE  /\ p < phase => ToSet(snapshot'[p]) = ToSet(result'.outputs[p])
             /\ p > phase => snapshot'[p] = <<>>
  <2>1. p \in Nat /\ phase \in Nat /\ (p < phase \/ p > phase => p # phase)
    BY <1>1, <1>2
  <2>2. QED
    BY <1>1, <1>3, <1>4, <2>1 DEF HeardInv
<1>6. QED
  BY <1>3, <1>4, <1>5 DEF ParallelHearsThePast

LEMMA SnapshotNext ==
  AcceptedInv /\ HeardInv /\ ParallelHearsThePast /\ [Next]_vars => ParallelHearsThePast'
<1> SUFFICES ASSUME AcceptedInv, HeardInv, ParallelHearsThePast, [Next]_vars
             PROVE  ParallelHearsThePast'
  OBVIOUS
<1> USE DEF AcceptedInv
<1>1. /\ \A p \in Phases : p \in Nat
      /\ pc = "parallel" => phase \in Phases /\ phase \in Nat
  BY PhasesAreNumbered DEF TypeInv, TypeOK, AtPhase, Running
<1>2. CASE pc' # "parallel"
  BY <1>2, SnapshotElsewhere
<1>3. CASE OpenParallel
  BY <1>3, SnapshotTaken
<1>4. CASE Collect
  <2>1. pc = "parallel" /\ UNCHANGED <<phase, restored, snapshot>>
    BY <1>4 DEF Collect
  <2>2. result \in Results
    BY DEF TypeInv, TypeOK
  <2>3. \A p \in Phases : p # phase => result'.outputs[p] = result.outputs[p]
    <3>1. PICK a \in Agents : \/ Commit([agent |-> a, round |-> 0])
                              \/ GiveUp([agent |-> a, round |-> 0])
      BY <1>4 DEF Collect
    <3>2. QED
      BY <2>2, <3>1 DEF Commit, GiveUp, Results
  <2>4. QED
    BY <1>1, <2>1, <2>3, SnapshotStays
<1>5. ASSUME NEW a \in Agents, Step(a) PROVE ParallelHearsThePast'
  <2>1. UNCHANGED <<phase, result, restored, snapshot, pc>>
    BY <1>5 DEF Step, Admit, BeginAttempt, Retry, Finish, Unwind
  <2>2. QED
    BY <2>1 DEF ParallelHearsThePast
<1>6. CASE UNCHANGED vars
  BY <1>6 DEF vars, run, ParallelHearsThePast
<1>7. CASE ReplayPhase \/ CancelParallel
  BY <1>2, <1>7 DEF ReplayPhase, CancelParallel
<1>8. ASSUME NEW t \in Turn, TakeTurn(t) \/ LoseTurn(t) PROVE pc' # "parallel"
  BY <1>8 DEF TakeTurn, LoseTurn, Await
<1>9. ASSUME NEW cfg \in Configurations, NEW resume \in BOOLEAN, Start(cfg, resume)
      PROVE  pc' # "parallel"
  BY <1>9 DEF Start
<1>10. CASE \/ RefusePhase \/ OpenSequential \/ OpenRoundRobin \/ CompletePhase \/ FailPhase \/ Conclude
            \/ StopParallel \/ Settle \/ CancelTurn \/ Crash
  <2>1. pc' # "parallel"
    BY <1>10
    DEF RefusePhase, OpenSequential, OpenRoundRobin, Await, CompletePhase, FailPhase, Conclude,
        StopParallel, Settle, CancelTurn, Crash, Abort
  <2>2. QED
    BY <2>1, SnapshotElsewhere
<1>11. QED
  BY <1>2, <1>3, <1>4, <1>5, <1>6, <1>7, <1>8, <1>9, <1>10 DEF Next, Progress, Cancel, Open

\* However often a run was interrupted and resumed, the participants of a parallel phase are
\* shown the accepted outputs of the phases before, none of later ones, and no answer that a
\* peer gives beside them (patterns.py:126-127).
THEOREM ParticipantsHearOnlyThePast == Spec => []ParallelHearsThePast
<1>1. Init => HeardInv /\ ParallelHearsThePast
  BY DEF Init, HeardInv, Active, Running, ParallelHearsThePast
<1>2. QED
  BY <1>1, HeardNext, SnapshotNext, AcceptedAlways, PTL DEF Spec

\* "Each participant receives the same pre-phase state" (patterns.py:126) is true of every
\* phase of which no earlier run saved an output: what it reaches is the resumed phase.
THEOREM OnlyResumedPhasesLeak == Spec => [](restored.outputs[phase] = <<>> => SamePrePhaseState)
<1>1. ParallelHearsThePast => (restored.outputs[phase] = <<>> => SamePrePhaseState)
  BY DEF ParallelHearsThePast, SamePrePhaseState
<1>2. QED
  BY <1>1, ParticipantsHearOnlyThePast, PTL

-----------------------------------------------------------------------------
(***************************************************************************)
(* What a completed phase amounts to.  A phase listed as complete is       *)
(* fulfilled in the result once the loop has been through it, and until    *)
(* then in what was restored.                                              *)
(***************************************************************************)
DoneInv ==
  /\ \A p \in saved.completed : Fulfilled(saved, p)
  /\ Active => \A p \in result.completed :
       IF p < phase THEN Fulfilled(result, p) ELSE Fulfilled(restored, p)

\* Whether a phase is fulfilled is a matter of its outputs.
LEMMA FulfilledSame ==
  ASSUME NEW r, NEW q, NEW p, r.outputs[p] = q.outputs[p], Fulfilled(r, p)
  PROVE  Fulfilled(q, p)
BY DEF Fulfilled, TooFew

\* A chain as long as its roster is answered by all of it.
LEMMA WholeChain ==
  ASSUME NEW p \in Phases, NEW s \in Seq(Output), Chain(p, s), Len(s) = Len(Roster[p])
  PROVE  Authors(s) = ToSet(Roster[p])
<1> DEFINE n == Len(s)
<1>1. n \in Nat /\ DOMAIN s = 1..n /\ DOMAIN Roster[p] = 1..n
  BY ConfigAssumption
<1>2. \A i \in 1..n : s[i].agent = Roster[p][i]
  BY DEF Chain, TurnOf
<1> HIDE DEF n
<1>3. QED
  BY <1>1, <1>2 DEF Authors, ToSet

\* A phase that its pattern has ended well is fulfilled.
LEMMA ReturnFulfils ==
  ASSUME TypeInv, WorkInv, PlaceInv, NEW r \in Returned, ~TooFew(r, phase), ~Broken(r, phase)
  PROVE  Fulfilled(r, phase)
<1>1. result \in Results /\ phase \in Phases /\ result.outputs[phase] \in Seq(Output)
  BY ReturnedType DEF TypeInv, TypeOK, Results
<1>2. CASE pc = "close"
  <2>1. r = result /\ Mode[phase] # "parallel"
    BY <1>2 DEF Returned, PlaceInv
  <2>2. ASSUME Mode[phase] = "sequential"
        PROVE  Authors(result.outputs[phase]) = ToSet(Roster[phase])
    <3>1. Len(result.outputs[phase]) = Len(Roster[phase])
      BY <1>2, <2>1, <2>2 DEF PlaceInv, Broken
    <3>2. Chain(phase, result.outputs[phase])
      BY <1>1, <2>2 DEF WorkInv, Fine, Chained
    <3>3. QED
      BY <1>1, <3>1, <3>2, WholeChain
  <2>3. QED
    BY <2>1, <2>2 DEF Fulfilled
<1>3. CASE pc = "parallel"
  <2>1. r \in Sorted(result, phase) /\ Mode[phase] = "parallel"
    BY <1>3 DEF Returned, PlaceInv
  <2>2. InRosterOrder(phase, r.outputs[phase])
    BY <1>1, <2>1, SortedSet
  <2>3. QED
    BY <2>1, <2>2 DEF Fulfilled
<1>4. QED
  BY <1>2, <1>3 DEF Returned

\* A write of the session file that leaves the phases before this one as they are, when
\* those are the completed ones.
LEMMA DoneWrites ==
  ASSUME DoneInv, Active, NEW outs, NEW done,
         \A p \in done : p < phase /\ p \in result.completed,
         \A p \in done : outs[p] = result.outputs[p],
         saved'.outputs = outs, saved'.completed = done
  PROVE  \A p \in saved'.completed : Fulfilled(saved', p)
<1> SUFFICES ASSUME NEW p \in done PROVE Fulfilled(saved', p)
  OBVIOUS
<1>1. Fulfilled(result, p) /\ saved'.outputs[p] = result.outputs[p]
  BY DEF DoneInv
<1>2. QED
  BY <1>1, FulfilledSame

\* The completed phases are those the loop has been through, unless it is replaying them.
LEMMA DoneBehind ==
  ASSUME TypeInv, OrderInv,
         pc \in Running \/ (pc = "enter" /\ phase \notin result.completed)
  PROVE  /\ phase \in Nat /\ result.completed \subseteq Phases
         /\ \A p \in result.completed : p \in Nat /\ p < phase /\ p # phase
<1>1. pc \notin {"idle", "settle"} /\ result.completed \subseteq Phases
  BY DEF Running, TypeInv, TypeOK, Results
<1>2. PICK n \in 0..PhaseCount : StandsAt(n)
  BY <1>1 DEF OrderInv
<1>3. n \in Nat /\ result.completed = 1..n /\ phase = n + 1
  BY <1>2, PhasesAreNumbered DEF StandsAt, Running
<1>4. QED
  BY <1>1, <1>3

\* A run lists the saved phases as complete, with the saved outputs, or none.
LEMMA DoneStart ==
  ASSUME TypeInv, DoneInv, NEW cfg, NEW resume, Start(cfg, resume)
  PROVE  DoneInv'
<1> DEFINE reuse == resume /\ saved.config = cfg
<1>1. /\ phase' = 1 /\ saved' = saved
      /\ result'.completed = IF reuse THEN saved.completed ELSE {}
      /\ reuse => restored'.outputs = saved.outputs
  BY DEF Start, NoResult
<1>2. \A p \in saved.completed : p \in Nat /\ ~(p < 1)
  <2>1. saved.completed \subseteq Phases
    BY DEF TypeInv, TypeOK, Results
  <2>2. QED
    BY <2>1, PhasesAreNumbered
<1>3. ASSUME NEW p \in result'.completed PROVE Fulfilled(restored', p) /\ ~(p < phase')
  <2>1. restored'.outputs = saved.outputs /\ p \in saved.completed
    BY <1>1, <1>3
  <2>2. Fulfilled(saved, p) /\ restored'.outputs[p] = saved.outputs[p]
    BY <2>1 DEF DoneInv
  <2>3. Fulfilled(restored', p)
    BY <2>2, FulfilledSame
  <2>4. QED
    BY <1>1, <1>2, <2>1, <2>3
<1>4. ASSUME NEW p \in saved'.completed PROVE Fulfilled(saved', p)
  BY <1>1, <1>4 DEF DoneInv
<1>5. QED
  BY <1>3, <1>4 DEF DoneInv

\* A phase that is replayed moves from what was restored to the result.
LEMMA DoneOpen ==
  ASSUME TypeInv, OrderInv, DoneInv, Open
  PROVE  DoneInv'
<1>1. PICK s \in Seq(Output) : Replays(s) \/ Opened(s) \/ Refuses(s)
  BY OpenTakes
<1>2. /\ pc = "enter" /\ Active /\ phase \in Phases /\ phase \in Nat
      /\ restored' = restored /\ result'.completed = result.completed
      /\ result'.outputs[phase] = s
      /\ \A q \in Phases : q # phase => result'.outputs[q] = result.outputs[q]
      /\ \A q \in result.completed : q \in Phases /\ q \in Nat
  <2>1. Takes(s)
    BY <1>1 DEF Replays, Opened, Refuses
  <2>2. \A q \in Phases : q \in Nat
    BY PhasesAreNumbered
  <2>3. result.completed \subseteq Phases
    BY DEF TypeInv, TypeOK, Results
  <2>4. QED
    BY <2>1, <2>2, <2>3 DEF Takes, Sets, Active
<1>3. ASSUME NEW p \in result.completed, p < phase PROVE Fulfilled(result', p)
  <2>1. result'.outputs[p] = result.outputs[p]
    BY <1>2, <1>3
  <2>2. Fulfilled(result, p)
    BY <1>2, <1>3 DEF DoneInv
  <2>3. QED
    BY <2>1, <2>2, FulfilledSame
<1>4. ASSUME NEW p \in result.completed, ~(p < phase) PROVE Fulfilled(restored, p)
  BY <1>2, <1>4 DEF DoneInv
<1>5. CASE Replays(s)
  <2>1. s = restored.outputs[phase] /\ saved' = saved /\ phase' = phase + 1
        /\ phase \in result.completed
    BY <1>5 DEF Replays
  <2>2. Fulfilled(result', phase)
    <3>1. Fulfilled(restored, phase)
      BY <1>2, <1>4, <2>1
    <3>2. QED
      BY <1>2, <2>1, <3>1, FulfilledSame
  <2>3. ASSUME NEW p \in result.completed
        PROVE  IF p < phase' THEN Fulfilled(result', p) ELSE Fulfilled(restored', p)
    <3>1. p \in Nat /\ (p < phase' <=> p < phase \/ p = phase)
      BY <1>2, <2>1
    <3>2. QED
      BY <1>2, <1>3, <1>4, <2>2, <3>1
  <2>4. QED
    BY <1>2, <2>1, <2>3 DEF DoneInv
<1>6. CASE Opened(s)
  <2>1. saved' = saved /\ phase' = phase
    BY <1>6 DEF Opened
  <2>2. QED
    BY <1>2, <1>3, <1>4, <2>1 DEF DoneInv
<1>7. CASE Refuses(s)
  <2>1. /\ saved'.outputs = result'.outputs /\ saved'.completed = result.completed
        /\ pc' = "settle" /\ phase \notin result.completed
    BY <1>2, <1>7 DEF Refuses
  <2>2. \A p \in result.completed : p < phase
    BY <1>2, <2>1, DoneBehind
  <2>3. ASSUME NEW p \in result.completed PROVE Fulfilled(saved', p)
    <3>1. Fulfilled(result', p) /\ saved'.outputs[p] = result'.outputs[p]
      BY <1>3, <2>1, <2>2
    <3>2. QED
      BY <3>1, FulfilledSame
  <2>4. QED
    BY <2>1, <2>3 DEF DoneInv, Active, Running
<1>8. QED
  BY <1>1, <1>5, <1>6, <1>7

\* A step that is quiet changes nothing here.
LEMMA DoneQuiet ==
  ASSUME DoneInv, Quiet
  PROVE  DoneInv'
<1>1. /\ saved' = saved /\ restored' = restored /\ phase' = phase
      /\ result'.outputs = result.outputs /\ result'.completed = result.completed
      /\ pc' = pc \/ (pc \in Running /\ pc' \in Running)
  BY DEF Quiet
<1>2. Active' => Active
  BY <1>1 DEF Active
<1>3. ASSUME Active', NEW p \in result.completed
      PROVE  IF p < phase THEN Fulfilled(result', p) ELSE Fulfilled(restored, p)
  <2>1. IF p < phase THEN Fulfilled(result, p) ELSE Fulfilled(restored, p)
    BY <1>2, <1>3 DEF DoneInv
  <2>2. Fulfilled(result, p) => Fulfilled(result', p)
    BY <1>1, FulfilledSame
  <2>3. QED
    BY <2>1, <2>2
<1>4. QED
  BY <1>1, <1>3 DEF DoneInv

\* An answer is accepted beyond the completed phases.
LEMMA DoneAdds ==
  ASSUME TypeInv, OrderInv, DoneInv, NEW o, Adds(o)
  PROVE  DoneInv'
<1>1. /\ pc \in Running /\ phase' = phase /\ restored' = restored /\ saved' = result'
      /\ result'.completed = result.completed
      /\ \A q \in Phases : q # phase => result'.outputs[q] = result.outputs[q]
  BY DEF Adds, Sets
<1>2. Active /\ \A p \in result.completed : p \in Phases /\ p < phase /\ p # phase
  BY <1>1, DoneBehind DEF Active
<1>3. ASSUME NEW p \in result.completed PROVE Fulfilled(result', p)
  <2>1. Fulfilled(result, p) /\ result'.outputs[p] = result.outputs[p]
    BY <1>1, <1>2 DEF DoneInv
  <2>2. QED
    BY <2>1, FulfilledSame
<1>4. QED
  BY <1>1, <1>2, <1>3 DEF DoneInv

\* So is what a run writes that is stopped or fails.
LEMMA DoneStop ==
  ASSUME TypeInv, OrderInv, WorkInv, PlaceInv, DoneInv, FailPhase \/ StopParallel \/ CancelTurn
  PROVE  DoneInv'
<1>1. /\ Wraps(result') /\ saved'.outputs = result'.outputs
      /\ saved'.completed = result'.completed /\ pc' = "settle"
  BY StopWraps
<1>2. /\ result'.completed = result.completed
      /\ \A p \in Phases : p # phase => result'.outputs[p] = result.outputs[p]
  BY <1>1, WrappedFine
<1>3. Active /\ \A p \in result.completed : p \in Phases /\ p < phase /\ p # phase
  BY <1>1, DoneBehind DEF Active, Wraps
<1>4. \A p \in saved'.completed : Fulfilled(saved', p)
  <2> DEFINE outs == saved'.outputs
  <2> DEFINE done == saved'.completed
  <2>1. /\ \A p \in done : p < phase /\ p \in result.completed
        /\ \A p \in done : outs[p] = result.outputs[p]
    BY <1>1, <1>2, <1>3
  <2> HIDE DEF outs, done
  <2>2. \A p \in done : Fulfilled(saved', p)
    BY <1>3, <2>1, DoneWrites DEF outs, done
  <2>3. QED
    BY <2>2 DEF done
<1>5. QED
  BY <1>1, <1>4 DEF DoneInv, Active, Running

\* A completed phase is fulfilled as its pattern left it.
LEMMA DoneComplete ==
  ASSUME TypeInv, OrderInv, WorkInv, PlaceInv, DoneInv, CompletePhase
  PROVE  DoneInv'
<1>1. PICK r \in Returned :
        /\ Wraps(r) /\ ~TooFew(r, phase) /\ ~Broken(r, phase)
        /\ result'.outputs = r.outputs /\ result'.completed = r.completed \cup {phase}
        /\ saved' = result' /\ phase' = phase + 1 /\ restored' = restored
  BY CompleteWraps
<1>2. /\ r.completed = result.completed
      /\ \A p \in Phases : p # phase => r.outputs[p] = result.outputs[p]
  BY <1>1, WrappedFine
<1>3. /\ Active /\ phase \in Nat
      /\ \A p \in result.completed : p \in Phases /\ p \in Nat /\ p < phase /\ p # phase
  BY <1>1, DoneBehind DEF Active, Wraps
<1>4. Fulfilled(result', phase)
  <2>1. Fulfilled(r, phase) /\ result'.outputs[phase] = r.outputs[phase]
    BY <1>1, ReturnFulfils
  <2>2. QED
    BY <2>1, FulfilledSame
<1>5. ASSUME NEW p \in result.completed PROVE Fulfilled(result', p)
  <2>1. Fulfilled(result, p) /\ result'.outputs[p] = result.outputs[p]
    BY <1>1, <1>2, <1>3, <1>5 DEF DoneInv
  <2>2. QED
    BY <2>1, FulfilledSame
<1>6. \A p \in result'.completed : p < phase' /\ Fulfilled(result', p)
  BY <1>1, <1>2, <1>3, <1>4, <1>5
<1>7. QED
  BY <1>1, <1>6 DEF DoneInv

\* The last write lists the phases the loop has been through.
LEMMA DoneConclude ==
  ASSUME TypeInv, OrderInv, DoneInv, Conclude
  PROVE  DoneInv'
<1>1. /\ pc' = "settle" /\ saved'.outputs = result.outputs
      /\ saved'.completed = result.completed /\ pc = "enter" /\ \A p \in Phases : p < phase
  BY ConcludeWrites
<1>2. result.completed \subseteq Phases /\ Active
  BY <1>1 DEF TypeInv, TypeOK, Results, Active
<1>3. ASSUME NEW p \in result.completed PROVE Fulfilled(saved', p)
  <2>1. Fulfilled(result, p) /\ saved'.outputs[p] = result.outputs[p]
    BY <1>1, <1>2, <1>3 DEF DoneInv
  <2>2. QED
    BY <2>1, FulfilledSame
<1>4. QED
  BY <1>1, <1>3 DEF DoneInv, Active, Running

\* Every step lists as complete only what is fulfilled.
LEMMA DoneNext == AcceptedInv /\ DoneInv /\ [Next]_vars => DoneInv'
<1> SUFFICES ASSUME AcceptedInv, DoneInv, [Next]_vars PROVE DoneInv'
  OBVIOUS
<1> USE DEF AcceptedInv
<1>1. ASSUME NEW cfg \in Configurations, NEW resume \in BOOLEAN, Start(cfg, resume)
      PROVE  DoneInv'
  BY <1>1, DoneStart
<1>2. CASE Open
  BY <1>2, DoneOpen
<1>3. ASSUME NEW a \in Agents, Step(a) PROVE DoneInv'
  <2>1. UNCHANGED <<saved, restored, phase, context, result, pc>>
    BY <1>3 DEF Step, Admit, BeginAttempt, Retry, Finish, Unwind, disk
  <2>2. QED
    BY <2>1, DoneQuiet DEF Quiet
<1>4. CASE Collect
  BY <1>4, CollectAdds, DoneQuiet, DoneAdds
<1>5. ASSUME NEW t \in Turn, TakeTurn(t) \/ LoseTurn(t) PROVE DoneInv'
  BY <1>5, TakeTurnAdds, LoseTurnQuiet, DoneQuiet, DoneAdds
<1>6. CASE CompletePhase
  BY <1>6, DoneComplete
<1>7. CASE FailPhase \/ StopParallel \/ CancelTurn
  BY <1>7, DoneStop
<1>8. CASE Conclude
  BY <1>8, DoneConclude
<1>9. CASE Settle \/ Crash
  BY <1>9 DEF Settle, Crash, disk, DoneInv, Active, Running
<1>10. CASE CancelParallel
  <2>1. /\ UNCHANGED <<saved, phase, result, restored, context>>
        /\ pc \in Running /\ pc' \in Running
    BY <1>10 DEF CancelParallel, disk, run, Running
  <2>2. QED
    BY <2>1, DoneQuiet DEF Quiet
<1>11. CASE UNCHANGED vars
  BY <1>11, DoneQuiet DEF vars, disk, run, Quiet
<1>12. QED
  BY <1>1, <1>2, <1>3, <1>4, <1>5, <1>6, <1>7, <1>8, <1>9, <1>10, <1>11
  DEF Next, Progress, Cancel

\* A phase the session file lists as complete had enough participants, a chain every one of
\* its speakers, and a parallel phase is in the order of its roster: however the calls
\* finished, whatever was resumed, after every crash (engine.py:176-188).
THEOREM CompletedPhasesAreFulfilled == Spec => []CompletedPhasesFulfilled
<1>1. Init => DoneInv
  BY DEF Init, NoResult, DoneInv, Active, Running
<1>2. DoneInv => CompletedPhasesFulfilled
  BY DEF DoneInv, CompletedPhasesFulfilled
<1>3. QED
  BY <1>1, <1>2, DoneNext, AcceptedAlways, PTL DEF Spec
=============================================================================
