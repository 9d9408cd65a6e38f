------------------------- MODULE DeliberationProofs -------------------------
(***************************************************************************)
(* What holds of Deliberation for every configuration: the types, and the  *)
(* order in which phases reach the session file.                           *)
(***************************************************************************)
EXTENDS Deliberation, FiniteSetTheorems, TLAPS

\* A run that is not idle works under one of the configurations: its outputs
\* are labelled with it.
Labelled == pc # "idle" => result.config \in Configurations
\* While a pattern executes, the loop is at one of the phases.
Running == {"turns", "parallel", "close", "unwind", "unwind_unsorted"}
AtPhase == pc \in Running => phase \in Phases
TypeInv == TypeOK /\ Labelled /\ AtPhase

-----------------------------------------------------------------------------
\* The schedule of any phase is a finite sequence of known length.
LEMMA ScheduleLength ==
  ASSUME NEW p \in Phases, NEW outs
  PROVE  Len(Schedule(p, outs)) \in Nat
<1> DEFINE I == Eligible(p, outs)
<1>1. Roster[p] \in Seq(Agents) /\ Len(Roster[p]) \in Nat
  BY ConfigAssumption
<1>2. I \subseteq 1..Len(Roster[p])
  BY <1>1 DEF Eligible
<1>3. IsFiniteSet(I)
  <2>1. IsFiniteSet(1..Len(Roster[p]))
    BY <1>1, FS_Interval
  <2>2. QED
    BY <1>2, <2>1, FS_Subset
<1>4. Cardinality(I) \in Nat
  BY <1>3, FS_CardinalityType
<1>5. Len(Participants(p, outs)) = Cardinality(I)
  BY <1>4 DEF Participants
<1>6. CASE Mode[p] = "round_robin"
  <2>1. Cardinality(I) * MaxRounds[p] \in Nat
    <3>1. MaxRounds[p] \in Nat
      <4>1. MaxRounds \in [Phases -> 0..20]
        BY ConfigAssumption DEF Rounds
      <4>2. QED
        BY <4>1
    <3>2. \A m, n \in Nat : m * n \in Nat
      OBVIOUS
    <3>3. QED
      BY <1>4, <3>1, <3>2
  <2>2. QED
    BY <1>5, <1>6, <2>1 DEF Schedule
<1>7. CASE Mode[p] # "round_robin"
  BY <1>4, <1>5, <1>7 DEF Schedule
<1>8. QED
  BY <1>6, <1>7
-----------------------------------------------------------------------------
\* Rewriting one phase of a result leaves a result.
LEMMA ResultUpdate ==
  ASSUME NEW r \in Results, NEW p, NEW s \in Seq(Output), NEW F \in SUBSET Turn
  PROVE  /\ [r EXCEPT !.outputs[p] = s] \in Results
         /\ [r EXCEPT !.outputs[p] = s, !.failed[p] = F] \in Results
BY DEF Results

LEMMA FailedUpdate ==
  ASSUME NEW r \in Results, NEW p, NEW F \in SUBSET Turn
  PROVE  [r EXCEPT !.failed[p] = F] \in Results
BY DEF Results

LEMMA StatusUpdate ==
  ASSUME NEW r \in Results, NEW why \in {"running", "completed", "stopped", "failed"}
  PROVE  [r EXCEPT !.status = why] \in Results
BY DEF Results

\* What the loop takes over from the saved result.
LEMMA WithPhaseType ==
  ASSUME TypeInv, phase \in Phases
  PROVE  /\ WithPhase(phase) \in Results
         /\ WithPhase(phase).config = result.config
         /\ restored.outputs[phase] \in Seq(Output)
<1>1. restored.outputs[phase] \in Seq(Output) /\ restored.failed[phase] \in SUBSET Turn
  BY DEF TypeInv, TypeOK
<1>2. result \in Results
  BY DEF TypeInv, TypeOK
<1>3. WithPhase(phase) \in Results
  BY <1>1, <1>2, ResultUpdate DEF WithPhase
<1>4. WithPhase(phase).config = result.config
  BY <1>2 DEF WithPhase, Results
<1>5. QED
  BY <1>1, <1>3, <1>4

LEMMA SortedType ==
  ASSUME NEW r \in Results, NEW p \in Phases, NEW q \in Sorted(r, p)
  PROVE  q \in Results /\ q.config = r.config
<1>1. PICK f \in Rearrangements(r.outputs[p]) :
        q = [r EXCEPT !.outputs[p] = [i \in DOMAIN @ |-> @[f[i]]]]
  BY DEF Sorted
<1> DEFINE s == [i \in DOMAIN r.outputs[p] |-> r.outputs[p][f[i]]]
<1>2. r.outputs[p] \in Seq(Output)
  BY DEF Results
<1>3. f \in [DOMAIN r.outputs[p] -> DOMAIN r.outputs[p]]
  BY DEF Rearrangements
<1>4. s \in Seq(Output)
  <2> DEFINE n == Len(r.outputs[p])
  <2>1. n \in Nat /\ DOMAIN r.outputs[p] = 1..n
    BY <1>2
  <2>2. \A i \in 1..n : r.outputs[p][f[i]] \in Output
    BY <1>2, <1>3, <2>1
  <2>3. s = [i \in 1..n |-> r.outputs[p][f[i]]]
    BY <2>1
  <2> HIDE DEF n, s
  <2>4. QED
    BY <2>1, <2>2, <2>3
<1>5. q = [r EXCEPT !.outputs[p] = s]
  BY <1>1 DEF Results
<1>6. q \in Results
  BY <1>4, <1>5, ResultUpdate
<1>7. q.config = r.config
  BY <1>5 DEF Results
<1>8. QED
  BY <1>6, <1>7

\* The reused prefix of a discussion consists of saved outputs.
LEMMA ReuseType ==
  ASSUME NEW s \in Seq(Output), NEW sched, NEW k \in Nat, IsAcceptedPrefix(k, s, sched)
  PROVE  /\ Reuse(k, s, sched) \in Seq(Output)
         /\ Len(Reuse(k, s, sched)) = k
         /\ \A i \in 1..k : /\ Reuse(k, s, sched)[i] \in ToSet(s)
                            /\ TurnOf(Reuse(k, s, sched)[i]) = sched[i]
<1>1. ASSUME NEW i \in 1..k
      PROVE  \E o \in ToSet(s) : TurnOf(o) = sched[i]
  BY <1>1 DEF IsAcceptedPrefix, TurnsOf, ToSet
<1>2. \A i \in 1..k : /\ Reuse(k, s, sched)[i] \in ToSet(s)
                      /\ TurnOf(Reuse(k, s, sched)[i]) = sched[i]
  BY <1>1 DEF Reuse
<1>3. ToSet(s) \subseteq Output
  BY DEF ToSet
<1>4. QED
  BY <1>2, <1>3 DEF Reuse
-----------------------------------------------------------------------------
\* The effects that several actions share.
LEMMA AbortType ==
  ASSUME TypeInv, NEW r \in Results, NEW why \in {"stopped", "failed"}, Abort(r, why),
         result' \in Results, result'.config = result.config, pc # "idle",
         context' \in [Phases -> Seq(Output)]
  PROVE  TypeInv'
<1>1. saved' \in Results
  BY StatusUpdate DEF Abort
<1>2. NoCalls \in [Agents -> {"none", "queued", "held", "calling", "answered", "failed"}]
  BY DEF NoCalls
<1>3. NoAttempts \in [Agents -> 0..MaxAttempts]
  BY ConfigAssumption DEF NoAttempts
<1>4. QED
  BY <1>1, <1>2, <1>3 DEF TypeInv, TypeOK, Labelled, AtPhase, Running, Abort

LEMMA AwaitType ==
  ASSUME NEW p \in Phases, NEW outs, NEW i \in Nat, Await(i, Schedule(p, outs))
  PROVE  /\ cursor' \in Nat
         /\ pc' \in {"turns", "close"}
         /\ call' \in [Agents -> {"none", "queued", "held", "calling", "answered", "failed"}]
         /\ attempt' \in [Agents -> 0..MaxAttempts]
<1>1. MaxAttempts \in Nat \ {0}
  BY ConfigAssumption
<1>2. QED
  BY <1>1 DEF Await, NoCalls, NoAttempts

LEMMA CommitType ==
  ASSUME TypeInv, NEW t \in Turn, pc \in Running, Commit(t)
  PROVE  /\ result' \in Results /\ result'.config = result.config
         /\ saved' = result' /\ status' = status
         /\ context' \in [Phases -> Seq(Output)]
<1> DEFINE o == [agent |-> t.agent, round |-> t.round, config |-> result.config]
<1>1. phase \in Phases
  BY DEF TypeInv, AtPhase
<1>2. o \in Output
  BY DEF TypeInv, Labelled, Running, Turn, Output
<1>3. result \in Results /\ context \in [Phases -> Seq(Output)]
  BY DEF TypeInv, TypeOK
<1> DEFINE s == Append(result.outputs[phase], o)
<1>4. s \in Seq(Output) /\ Append(context[phase], o) \in Seq(Output)
  BY <1>1, <1>2, <1>3 DEF Results
<1>5. result' = [result EXCEPT !.outputs[phase] = s]
  BY <1>3 DEF Commit, Results
<1>6. result' \in Results
  BY <1>3, <1>4, <1>5, ResultUpdate
<1>7. result'.config = result.config
  BY <1>3, <1>5 DEF Results
<1>8. context' \in [Phases -> Seq(Output)]
  BY <1>3, <1>4 DEF Commit
<1>9. QED
  BY <1>6, <1>7, <1>8 DEF Commit

LEMMA GiveUpType ==
  ASSUME TypeInv, NEW t \in Turn, pc \in Running, GiveUp(t)
  PROVE  /\ result' \in Results /\ result'.config = result.config
         /\ saved' = saved /\ status' = status /\ context' = context
<1>1. phase \in Phases
  BY DEF TypeInv, AtPhase
<1>2. result \in Results
  BY DEF TypeInv, TypeOK
<1> DEFINE F == result.failed[phase] \cup {t}
<1>3. F \in SUBSET Turn
  BY <1>1, <1>2 DEF Results
<1>4. result' = [result EXCEPT !.failed[phase] = F]
  BY <1>2 DEF GiveUp, Results
<1>5. result' \in Results
  BY <1>2, <1>3, <1>4, FailedUpdate
<1>6. result'.config = result.config
  BY <1>2, <1>4 DEF Results
<1>7. QED
  BY <1>5, <1>6 DEF GiveUp, disk

LEMMA ReturnedType ==
  ASSUME TypeInv, NEW r \in Returned
  PROVE  r \in Results /\ r.config = result.config /\ pc \in Running /\ phase \in Phases
<1>1. result \in Results
  BY DEF TypeInv, TypeOK
<1>2. pc \in {"close", "parallel"}
  BY DEF Returned
<1>3. phase \in Phases
  BY <1>2 DEF TypeInv, AtPhase, Running
<1>4. CASE pc = "close"
  BY <1>1, <1>3, <1>4 DEF Returned, Running
<1>5. CASE pc = "parallel"
  <2>1. r \in Sorted(result, phase)
    BY <1>5 DEF Returned
  <2>2. QED
    BY <1>1, <1>3, <1>5, <2>1, SortedType DEF Running
<1>6. QED
  BY <1>2, <1>4, <1>5

-----------------------------------------------------------------------------
LEMMA TypeInit == Init => TypeInv
<1> SUFFICES ASSUME Init PROVE TypeInv
  OBVIOUS
<1>1. NoResult \in Results /\ Empty \in [Phases -> Seq(Output)]
  BY DEF NoResult, Results, Empty, NoFailures
<1>2. NoPhases \in [outputs : [Phases -> Seq(Output)], failed : [Phases -> SUBSET Turn]]
  BY DEF NoPhases, Empty, NoFailures
<1>3. NoAttempts \in [Agents -> 0..MaxAttempts]
  BY ConfigAssumption DEF NoAttempts
<1>4. QED
  BY <1>1, <1>2, <1>3 DEF Init, TypeInv, TypeOK, Labelled, AtPhase, Running, NoCalls

\* The actions that open a phase.
LEMMA TypeOpen ==
  ASSUME TypeInv, Open PROVE TypeInv'
<1> DEFINE Outputs == [Phases -> Seq(Output)]
<1> DEFINE CallStates == {"none", "queued", "held", "calling", "answered", "failed"}
<1>1. result \in Results /\ context \in Outputs
  BY DEF TypeInv, TypeOK
<1>2. phase \in Phases /\ pc = "enter"
  <2>1. result.completed \subseteq Phases
    BY <1>1 DEF Results
  <2>2. QED
    BY <2>1 DEF Open, ReplayPhase, RefusePhase, OpenParallel, OpenSequential, OpenRoundRobin, Opens
<1>3. /\ WithPhase(phase) \in Results
      /\ WithPhase(phase).config = result.config
      /\ restored.outputs[phase] \in Seq(Output)
  BY <1>2, WithPhaseType
<1>4. [context EXCEPT ![phase] = restored.outputs[phase]] \in Outputs
  BY <1>1, <1>3
<1> DEFINE opened == [WithPhase(phase) EXCEPT !.failed[phase] = {}]
<1>5. opened \in Results /\ opened.config = result.config
  <2>1. opened \in Results
    BY <1>3, FailedUpdate
  <2>2. QED
    BY <1>3, <2>1 DEF Results
<1>6. CASE ReplayPhase
  BY <1>2, <1>3, <1>4, <1>6 DEF ReplayPhase, TypeInv, TypeOK, Labelled, AtPhase, Running, disk
<1>7. CASE RefusePhase
  <2>1. context' \in Outputs
    BY <1>1, <1>4, <1>7 DEF RefusePhase
  <2>2. result' = WithPhase(phase) /\ Abort(result', "failed")
    BY <1>7 DEF RefusePhase
  <2>3. QED
    BY <1>2, <1>3, <2>1, <2>2, AbortType
<1>8. CASE OpenParallel
  <2>1. call' \in [Agents -> CallStates]
    BY <1>8 DEF OpenParallel
  <2>2. result' = opened /\ context' \in Outputs /\ snapshot' \in Outputs
    BY <1>4, <1>8 DEF OpenParallel
  <2>3. QED
    BY <1>2, <1>5, <1>8, <2>1, <2>2
    DEF OpenParallel, TypeInv, TypeOK, Labelled, AtPhase, Running, disk
<1>9. CASE OpenSequential
  <2>1. PICK i \in 1..(Len(Schedule(phase, result.outputs)) + 1) :
          Await(i, Schedule(phase, result.outputs))
    BY <1>9 DEF OpenSequential
  <2>2. i \in Nat
    BY <1>2, <2>1, ScheduleLength
  <2>3. /\ cursor' \in Nat
        /\ pc' \in {"turns", "close"}
        /\ call' \in [Agents -> CallStates]
        /\ attempt' \in [Agents -> 0..MaxAttempts]
    BY <1>2, <2>1, <2>2, AwaitType
  <2>4. result' = opened /\ context' \in Outputs
    BY <1>4, <1>9 DEF OpenSequential
  <2>5. QED
    BY <1>2, <1>5, <1>9, <2>3, <2>4
    DEF OpenSequential, TypeInv, TypeOK, Labelled, AtPhase, Running, disk
<1>10. CASE OpenRoundRobin
  <2> DEFINE sched == Schedule(phase, result.outputs)
  <2> DEFINE old == restored.outputs[phase]
  <2>1. PICK k \in 0..Len(sched) :
          /\ IsAcceptedPrefix(k, old, sched)
          /\ result' = [WithPhase(phase) EXCEPT !.failed[phase] = {},
                          !.outputs[phase] = Reuse(k, old, sched)]
          /\ context' = [context EXCEPT ![phase] = Reuse(k, old, sched)]
          /\ Await(k + 1, sched)
    BY <1>10 DEF OpenRoundRobin
  <2>2. k \in Nat
    BY <1>2, <2>1, ScheduleLength
  <2>3. Reuse(k, old, sched) \in Seq(Output)
    BY <1>3, <2>1, <2>2, ReuseType
  <2>4. result' \in Results /\ result'.config = result.config
    <3> DEFINE s == Reuse(k, old, sched)
    <3>1. result' = [opened EXCEPT !.outputs[phase] = s]
      BY <2>1
    <3> HIDE DEF s, opened
    <3>2. result' \in Results
      BY <1>5, <2>3, <3>1, ResultUpdate DEF s
    <3>3. QED
      BY <1>5, <3>1, <3>2 DEF Results
  <2>5. context' \in Outputs
    BY <1>1, <2>1, <2>3
  <2>6. k + 1 \in Nat
    BY <2>2
  <2>7. /\ cursor' \in Nat
        /\ pc' \in {"turns", "close"}
        /\ call' \in [Agents -> CallStates]
        /\ attempt' \in [Agents -> 0..MaxAttempts]
    BY <1>2, <2>1, <2>6, AwaitType
  <2>8. QED
    BY <1>2, <1>10, <2>4, <2>5, <2>7
    DEF OpenRoundRobin, TypeInv, TypeOK, Labelled, AtPhase, Running, disk
<1>11. QED
  BY <1>6, <1>7, <1>8, <1>9, <1>10 DEF Open

\* The calls, and what the phase makes of their outcomes.
LEMMA TypeStep ==
  ASSUME TypeInv, NEW a \in Agents, Step(a) PROVE TypeInv'
<1>1. call \in [Agents -> {"none", "queued", "held", "calling", "answered", "failed"}]
  BY DEF TypeInv, TypeOK
<1>2. attempt \in [Agents -> 0..MaxAttempts] /\ MaxAttempts \in Nat \ {0} /\ ready \in Seq(Agents)
  BY ConfigAssumption DEF TypeInv, TypeOK
<1>3. CASE Admit(a)
  BY <1>1, <1>2, <1>3 DEF Admit, TypeInv, TypeOK, Labelled, AtPhase, disk
<1>4. CASE BeginAttempt(a)
  BY <1>1, <1>4 DEF BeginAttempt, TypeInv, TypeOK, Labelled, AtPhase, disk
<1>5. CASE Retry(a)
  BY <1>1, <1>2, <1>5 DEF Retry, TypeInv, TypeOK, Labelled, AtPhase, disk
<1>6. ASSUME NEW how \in {"answered", "failed"}, Finish(a, how) PROVE TypeInv'
  BY <1>1, <1>2, <1>6 DEF Finish, TypeInv, TypeOK, Labelled, AtPhase, disk
<1>7. CASE Unwind(a)
  BY <1>1, <1>7 DEF Unwind, TypeInv, TypeOK, Labelled, AtPhase, disk
<1>8. QED
  BY <1>3, <1>4, <1>5, <1>6, <1>7 DEF Step

LEMMA TypeCollect ==
  ASSUME TypeInv, Collect PROVE TypeInv'
<1>1. PICK a \in Agents :
        /\ Commit([agent |-> a, round |-> 0]) \/ GiveUp([agent |-> a, round |-> 0])
        /\ call' = [call EXCEPT ![a] = "none"]
        /\ attempt' = [attempt EXCEPT ![a] = 0]
  BY DEF Collect
<1>2. [agent |-> a, round |-> 0] \in Turn /\ pc \in Running
  BY DEF Turn, Rounds, Collect, Running
<1>3. /\ result' \in Results /\ result'.config = result.config
      /\ saved' \in Results /\ status' = status
      /\ context' \in [Phases -> Seq(Output)]
  <2>1. saved \in Results /\ context \in [Phases -> Seq(Output)]
    BY DEF TypeInv, TypeOK
  <2>2. CASE Commit([agent |-> a, round |-> 0])
    BY <1>2, <2>2, CommitType
  <2>3. CASE GiveUp([agent |-> a, round |-> 0])
    BY <1>2, <2>1, <2>3, GiveUpType
  <2>4. QED
    BY <1>1, <2>2, <2>3
<1>4. ready' \in Seq(Agents)
  BY DEF Collect, TypeInv, TypeOK
<1>5. 0 \in 0..MaxAttempts
  BY ConfigAssumption
<1>6. attempt' \in [Agents -> 0..MaxAttempts]
  BY <1>1, <1>5 DEF TypeInv, TypeOK
<1>7. call' \in [Agents -> {"none", "queued", "held", "calling", "answered", "failed"}]
  BY <1>1 DEF TypeInv, TypeOK
<1>8. QED
  BY <1>3, <1>4, <1>6, <1>7 DEF Collect, TypeInv, TypeOK, Labelled, AtPhase

LEMMA TypeTurns ==
  ASSUME TypeInv, NEW t \in Turn, TakeTurn(t) \/ LoseTurn(t) PROVE TypeInv'
<1> DEFINE sched == Schedule(phase, result.outputs)
<1>1. pc \in Running /\ phase \in Phases
  BY DEF TakeTurn, LoseTurn, Running, TypeInv, AtPhase
<1>2. Len(sched) \in Nat /\ cursor \in Nat
  BY <1>1, ScheduleLength DEF TypeInv, TypeOK
<1>3. PICK i \in Nat : Await(i, sched)
  <2>1. CASE TakeTurn(t)
    <3>1. PICK j \in 1..(Len(sched) + 1) : Await(j, sched)
      BY <2>1 DEF TakeTurn
    <3>2. QED
      BY <1>2, <3>1
  <2>2. CASE LoseTurn(t)
    <3> DEFINE j == IF Mode[phase] = "sequential" THEN Len(sched) + 1 ELSE cursor + 1
    <3>1. Await(j, sched)
      BY <2>2 DEF LoseTurn
    <3>2. j \in Nat
      BY <1>2
    <3>3. QED
      BY <3>1, <3>2
  <2>3. QED
    BY <2>1, <2>2
<1>4. /\ cursor' \in Nat
      /\ pc' \in {"turns", "close"}
      /\ call' \in [Agents -> {"none", "queued", "held", "calling", "answered", "failed"}]
      /\ attempt' \in [Agents -> 0..MaxAttempts]
  BY <1>1, <1>3, AwaitType
<1>5. /\ result' \in Results /\ result'.config = result.config
      /\ saved' \in Results /\ status' = status
      /\ context' \in [Phases -> Seq(Output)]
  <2>1. saved \in Results /\ context \in [Phases -> Seq(Output)]
    BY DEF TypeInv, TypeOK
  <2>2. CASE TakeTurn(t)
    <3>1. Commit(t)
      BY <2>2 DEF TakeTurn
    <3>2. QED
      BY <1>1, <3>1, CommitType
  <2>3. CASE LoseTurn(t)
    <3>1. GiveUp(t)
      BY <2>3 DEF LoseTurn
    <3>2. QED
      BY <1>1, <2>1, <3>1, GiveUpType
  <2>4. QED
    BY <2>2, <2>3
<1>6. UNCHANGED <<phase, restored, snapshot, ready, outcome>>
  BY DEF TakeTurn, LoseTurn
<1> HIDE DEF sched
<1>7. QED
  BY <1>1, <1>4, <1>5, <1>6 DEF TypeInv, TypeOK, Labelled, AtPhase, Running

\* The end of a phase and of a run.
LEMMA TypeEnd ==
  ASSUME TypeInv, CompletePhase \/ FailPhase \/ Conclude \/ StopParallel \/ Settle
  PROVE  TypeInv'
<1>1. result \in Results /\ context \in [Phases -> Seq(Output)] /\ phase \in Nat
  BY DEF TypeInv, TypeOK
<1>2. NoResult \in Results /\ Empty \in [Phases -> Seq(Output)]
  BY DEF NoResult, Results, Empty, NoFailures
<1>3. NoPhases \in [outputs : [Phases -> Seq(Output)], failed : [Phases -> SUBSET Turn]]
  BY DEF NoPhases, Empty, NoFailures
<1>4. CASE CompletePhase
  <2>1. PICK r \in Returned :
          /\ result' = [r EXCEPT !.completed = @ \cup {phase}]
          /\ saved' = result'
          /\ pc' = "enter" /\ phase' = phase + 1 /\ cursor' = 1 /\ snapshot' = Empty
          /\ UNCHANGED <<status, restored, context, call, attempt, ready, outcome>>
    BY <1>4 DEF CompletePhase
  <2>2. r \in Results /\ r.config = result.config /\ pc \in Running /\ phase \in Phases
    BY <2>1, ReturnedType
  <2>3. result' \in Results /\ result'.config = r.config
    BY <2>1, <2>2 DEF Results
  <2>4. QED
    BY <1>1, <1>2, <2>1, <2>2, <2>3 DEF TypeInv, TypeOK, Labelled, AtPhase, Running
<1>5. CASE FailPhase
  <2>1. PICK r \in Returned : result' = r /\ Abort(r, "failed") /\ UNCHANGED context
    BY <1>5 DEF FailPhase
  <2>2. r \in Results /\ r.config = result.config /\ pc \in Running
    BY <2>1, ReturnedType
  <2>3. QED
    BY <1>1, <2>1, <2>2, AbortType DEF Running
<1>6. CASE Conclude
  <2>1. CASE \A p \in Phases : result.outputs[p] = <<>>
    <3>1. UNCHANGED <<result, context>> /\ Abort(result, "failed") /\ pc = "enter"
      BY <1>6, <2>1 DEF Conclude
    <3>2. QED
      BY <1>1, <3>1, AbortType
  <2>2. CASE ~(\A p \in Phases : result.outputs[p] = <<>>)
    <3>1. [result EXCEPT !.status = "completed"] \in Results
      BY <1>1, StatusUpdate
    <3>2. QED
      BY <1>6, <2>2, <3>1 DEF Conclude, TypeInv, TypeOK, Labelled, AtPhase, Running
  <2>3. QED
    BY <2>1, <2>2
<1>7. CASE StopParallel
  <2>1. pc \in {"unwind", "unwind_unsorted"} /\ phase \in Phases
    BY <1>7 DEF StopParallel, TypeInv, AtPhase, Running
  <2>2. result' \in Results /\ result'.config = result.config
    BY <1>1, <1>7, <2>1, SortedType DEF StopParallel
  <2>3. Abort(result', "stopped") /\ UNCHANGED context
    BY <1>7 DEF StopParallel
  <2>4. QED
    BY <1>1, <2>1, <2>2, <2>3, AbortType
<1>8. CASE Settle
  BY <1>2, <1>3, <1>8 DEF Settle, TypeInv, TypeOK, Labelled, AtPhase, Running
<1>9. QED
  BY <1>4, <1>5, <1>6, <1>7, <1>8

LEMMA TypeStart ==
  ASSUME TypeInv, NEW cfg \in Configurations, NEW resume \in BOOLEAN, Start(cfg, resume)
  PROVE  TypeInv'
<1>1. saved \in Results
  BY DEF TypeInv, TypeOK
<1>2. NoResult \in Results /\ Empty \in [Phases -> Seq(Output)]
  BY DEF NoResult, Results, Empty, NoFailures
<1>3. NoPhases \in [outputs : [Phases -> Seq(Output)], failed : [Phases -> SUBSET Turn]]
  BY DEF NoPhases, Empty, NoFailures
<1> DEFINE reuse == resume /\ saved.config = cfg
<1> DEFINE done == IF reuse THEN saved.completed ELSE {}
<1>4. result' = [NoResult EXCEPT !.config = cfg, !.status = "running", !.completed = done]
  BY DEF Start
<1>5. done \in SUBSET Phases
  BY <1>1 DEF Results
<1>6. result' \in Results /\ result'.config = cfg
  BY <1>2, <1>4, <1>5 DEF Results
<1>7. restored' \in [outputs : [Phases -> Seq(Output)], failed : [Phases -> SUBSET Turn]]
  BY <1>1, <1>3 DEF Start, Results
<1>8. QED
  BY <1>2, <1>6, <1>7 DEF Start, TypeInv, TypeOK, Labelled, AtPhase, Running

LEMMA TypeFault ==
  ASSUME TypeInv, Cancel \/ Crash PROVE TypeInv'
<1>1. result \in Results /\ context \in [Phases -> Seq(Output)]
  BY DEF TypeInv, TypeOK
<1>2. CASE CancelTurn
  <2>1. UNCHANGED <<result, context>> /\ Abort(result, "stopped") /\ pc = "turns"
    BY <1>2 DEF CancelTurn
  <2>2. QED
    BY <1>1, <2>1, AbortType
<1>3. CASE CancelParallel
  BY <1>3 DEF CancelParallel, TypeInv, TypeOK, Labelled, AtPhase, Running, disk, run
<1>4. CASE Crash
  <2>1. NoResult \in Results /\ Empty \in [Phases -> Seq(Output)]
    BY DEF NoResult, Results, Empty, NoFailures
  <2>2. NoPhases \in [outputs : [Phases -> Seq(Output)], failed : [Phases -> SUBSET Turn]]
    BY DEF NoPhases, Empty, NoFailures
  <2>3. NoAttempts \in [Agents -> 0..MaxAttempts]
    BY ConfigAssumption DEF NoAttempts
  <2>4. QED
    BY <1>4, <2>1, <2>2, <2>3
    DEF Crash, NoCalls, TypeInv, TypeOK, Labelled, AtPhase, Running, disk
<1>5. QED
  BY <1>2, <1>3, <1>4 DEF Cancel

LEMMA TypeNext == TypeInv /\ [Next]_vars => TypeInv'
<1> SUFFICES ASSUME TypeInv, [Next]_vars PROVE TypeInv'
  OBVIOUS
<1>1. ASSUME NEW cfg \in Configurations, NEW resume \in BOOLEAN, Start(cfg, resume)
      PROVE  TypeInv'
  BY <1>1, TypeStart
<1>2. CASE Open
  BY <1>2, TypeOpen
<1>3. ASSUME NEW a \in Agents, Step(a) PROVE TypeInv'
  BY <1>3, TypeStep
<1>4. CASE Collect
  BY <1>4, TypeCollect
<1>5. ASSUME NEW t \in Turn, TakeTurn(t) \/ LoseTurn(t) PROVE TypeInv'
  BY <1>5, TypeTurns
<1>6. CASE CompletePhase \/ FailPhase \/ Conclude \/ StopParallel \/ Settle
  BY <1>6, TypeEnd
<1>7. CASE Cancel \/ Crash
  BY <1>7, TypeFault
<1>8. CASE UNCHANGED vars
  BY <1>8 DEF vars, disk, run, TypeInv, TypeOK, Labelled, AtPhase
<1>9. QED
  BY <1>1, <1>2, <1>3, <1>4, <1>5, <1>6, <1>7, <1>8 DEF Next, Progress

LEMMA TypeAlways == Spec => []TypeInv
BY TypeInit, TypeNext, PTL DEF Spec

\* Every variable keeps to its type in every run of every configuration
\* (session.py, deliberation/result.py).
THEOREM TypeCorrect == Spec => []TypeOK
<1>1. TypeInv => TypeOK
  BY DEF TypeInv
<1>2. QED
  BY <1>1, TypeAlways, PTL
-----------------------------------------------------------------------------
(***************************************************************************)
(* The order of phases.  PhasesInOrder speaks of the session file; what    *)
(* keeps it is where the run stands: n phases are complete, the loop has   *)
(* not gone beyond the next one, and neither the result being built nor    *)
(* what is left of the saved one reaches further.                          *)
(***************************************************************************)
NothingFrom(outs, m) == \A p \in Phases : p >= m => outs[p] = <<>>
StandsAt(n) ==
  /\ result.completed = 1..n
  /\ NothingFrom(restored.outputs, n + 2)
  /\ pc = "enter" => phase \in 1..(n + 1) /\ NothingFrom(result.outputs, phase)
  /\ pc \in Running => phase = n + 1 /\ NothingFrom(result.outputs, n + 2)
OrderInv ==
  /\ PhasesInOrder
  /\ pc \notin {"idle", "settle"} => \E n \in 0..PhaseCount : StandsAt(n)

LEMMA PhasesAreNumbered == PhaseCount \in Nat /\ Phases = 1..PhaseCount
<1>1. IsFiniteSet(Phases) /\ Phases = 1..Cardinality(Phases)
  BY ConfigAssumption
<1>2. QED
  BY <1>1, FS_CardinalityType DEF PhaseCount

\* The session file keeps the order when it is written with a result that has
\* gone no further than the phase after the completed ones.
LEMMA InOrderIntro ==
  ASSUME NEW r \in Results, NEW n \in 0..PhaseCount,
         r.completed = 1..n, NothingFrom(r.outputs, n + 2)
  PROVE  /\ InOrder(r)
         /\ \A why \in {"running", "completed", "stopped", "failed"} :
              InOrder([r EXCEPT !.status = why])
<1>1. \A p \in Phases : p > n + 1 => r.outputs[p] = <<>>
  BY PhasesAreNumbered DEF NothingFrom
<1>2. InOrder(r)
  BY <1>1 DEF InOrder
<1>3. ASSUME NEW why \in {"running", "completed", "stopped", "failed"}
      PROVE  InOrder([r EXCEPT !.status = why])
  <2> DEFINE q == [r EXCEPT !.status = why]
  <2>1. q.completed = 1..n /\ q.outputs = r.outputs
    BY DEF Results
  <2> HIDE DEF q
  <2>2. InOrder(q)
    BY <1>1, <2>1 DEF InOrder
  <2>3. QED
    BY <2>2 DEF q
<1>4. QED
  BY <1>2, <1>3

LEMMA AbortOrder ==
  ASSUME TypeInv, NEW r \in Results, NEW n \in 0..PhaseCount,
         r.completed = 1..n, NothingFrom(r.outputs, n + 2),
         NEW why \in {"stopped", "failed"}, Abort(r, why)
  PROVE  OrderInv'
<1>1. InOrder(saved')
  BY InOrderIntro DEF Abort
<1>2. pc' = "settle"
  BY DEF Abort
<1>3. QED
  BY <1>1, <1>2 DEF OrderInv, PhasesInOrder, InOrder

\* Taking over phase p changes nothing beyond it.
LEMMA WithPhaseOrder ==
  ASSUME TypeInv, phase \in Phases
  PROVE  /\ WithPhase(phase).completed = result.completed
         /\ \A p \in Phases : p # phase => WithPhase(phase).outputs[p] = result.outputs[p]
         /\ WithPhase(phase).outputs[phase] = restored.outputs[phase]
<1>1. result \in Results
  BY DEF TypeInv, TypeOK
<1>2. QED
  BY <1>1 DEF WithPhase, Results

LEMMA SortedOrder ==
  ASSUME NEW r \in Results, NEW p \in Phases, NEW q \in Sorted(r, p)
  PROVE  /\ q.completed = r.completed
         /\ \A o \in Phases : o # p => q.outputs[o] = r.outputs[o]
<1>1. PICK f \in Rearrangements(r.outputs[p]) :
        q = [r EXCEPT !.outputs[p] = [i \in DOMAIN @ |-> @[f[i]]]]
  BY DEF Sorted
<1>2. QED
  BY <1>1 DEF Results

LEMMA OrderInit == Init => OrderInv
<1> SUFFICES ASSUME Init PROVE OrderInv
  OBVIOUS
<1>1. saved = NoResult /\ pc = "idle"
  BY DEF Init
<1>2. NoResult.completed = 1..0 /\ \A p \in Phases : NoResult.outputs[p] = <<>>
  BY DEF NoResult, Empty
<1>3. 0 \in 0..PhaseCount
  BY PhasesAreNumbered
<1>4. QED
  BY <1>1, <1>2, <1>3 DEF OrderInv, PhasesInOrder, InOrder

LEMMA OrderStart ==
  ASSUME TypeInv, OrderInv, NEW cfg \in Configurations, NEW resume \in BOOLEAN,
         Start(cfg, resume)
  PROVE  OrderInv'
<1> DEFINE reuse == resume /\ saved.config = cfg
<1> DEFINE done == IF reuse THEN saved.completed ELSE {}
<1>1. result' = [NoResult EXCEPT !.config = cfg, !.status = "running", !.completed = done]
  BY DEF Start
<1>2. result'.completed = done /\ \A p \in Phases : result'.outputs[p] = <<>>
  BY <1>1 DEF NoResult, Empty
<1>3. PICK n \in 0..PhaseCount :
        done = 1..n /\ \A p \in Phases : p > n + 1 => restored'.outputs[p] = <<>>
  <2>1. CASE reuse
    <3>1. PICK n \in 0..PhaseCount :
            saved.completed = 1..n /\ \A p \in Phases : p > n + 1 => saved.outputs[p] = <<>>
      BY DEF OrderInv, PhasesInOrder, InOrder
    <3>2. restored'.outputs = saved.outputs
      BY <2>1 DEF Start
    <3>3. QED
      BY <2>1, <3>1, <3>2
  <2>2. CASE ~reuse
    <3>1. restored' = NoPhases
      BY <2>2 DEF Start
    <3>2. 0 \in 0..PhaseCount /\ done = 1..0
      BY <2>2, PhasesAreNumbered
    <3>3. QED
      BY <3>1, <3>2 DEF NoPhases, Empty
  <2>3. QED
    BY <2>1, <2>2
<1>4. pc' = "enter" /\ phase' = 1 /\ saved' = saved
  BY DEF Start
<1>5. StandsAt(n)'
  BY <1>2, <1>3, <1>4, PhasesAreNumbered DEF StandsAt, NothingFrom, Running
<1>6. PhasesInOrder'
  BY <1>4 DEF OrderInv, PhasesInOrder, InOrder
<1>7. QED
  BY <1>5, <1>6 DEF OrderInv, PhaseCount

LEMMA OrderOpen ==
  ASSUME TypeInv, OrderInv, Open PROVE OrderInv'
<1>1. result \in Results
  BY DEF TypeInv, TypeOK
<1>2. phase \in Phases /\ phase \in Nat /\ pc = "enter"
  <2>1. result.completed \subseteq Phases
    BY <1>1 DEF Results
  <2>2. QED
    BY <2>1 DEF Open, ReplayPhase, RefusePhase, OpenParallel, OpenSequential, OpenRoundRobin,
                Opens, TypeInv, TypeOK
<1>3. PICK n \in 0..PhaseCount : StandsAt(n)
  BY <1>2 DEF OrderInv
<1>4. /\ result.completed = 1..n
      /\ NothingFrom(restored.outputs, n + 2)
      /\ phase \in 1..(n + 1)
      /\ NothingFrom(result.outputs, phase)
  BY <1>2, <1>3 DEF StandsAt
<1>5. n \in Nat /\ n <= PhaseCount /\ PhaseCount \in Nat
  BY PhasesAreNumbered
<1>6. CASE ReplayPhase
  <2>1. phase \in 1..n
    BY <1>4, <1>6 DEF ReplayPhase
  <2>2. result' = WithPhase(phase) /\ phase' = phase + 1 /\ pc' = "enter"
        /\ restored' = restored /\ saved' = saved
    BY <1>2, <1>6 DEF ReplayPhase, disk
  <2>3. \A p \in Phases : p >= phase + 1 => result'.outputs[p] = <<>>
    BY <1>2, <1>4, <2>2, WithPhaseOrder, PhasesAreNumbered DEF NothingFrom
  <2>4. result'.completed = 1..n
    BY <1>2, <1>4, <2>2, WithPhaseOrder
  <2>5. phase' \in 1..(n + 1)
    BY <1>5, <2>1, <2>2
  <2>6. StandsAt(n)'
    BY <1>4, <2>2, <2>3, <2>4, <2>5 DEF StandsAt, NothingFrom, Running
  <2>7. QED
    BY <2>2, <2>6 DEF OrderInv, PhasesInOrder, InOrder, PhaseCount
<1>7. CASE ~ReplayPhase
  <2>1. phase = n + 1
    <3>1. phase \notin result.completed
      BY <1>7 DEF Open, RefusePhase, OpenParallel, OpenSequential, OpenRoundRobin, Opens
    <3>2. QED
      BY <1>4, <1>5, <3>1
  \* Only the outputs of the phase itself differ from those before it.
  <2>2. ASSUME NEW r \in Results, r.completed = result.completed,
               \A p \in Phases : p # phase => r.outputs[p] = result.outputs[p]
        PROVE  r.completed = 1..n /\ NothingFrom(r.outputs, n + 2)
    BY <1>2, <1>4, <1>5, <2>1, <2>2, PhasesAreNumbered DEF NothingFrom
  <2>3. WithPhase(phase) \in Results
    BY <1>2, WithPhaseType
  <2>4. CASE RefusePhase
    <3>1. result' = WithPhase(phase) /\ Abort(result', "failed")
      BY <2>4 DEF RefusePhase
    <3>2. result'.completed = 1..n /\ NothingFrom(result'.outputs, n + 2)
      BY <1>2, <2>2, <2>3, <3>1, WithPhaseOrder
    <3>3. QED
      BY <2>3, <3>1, <3>2, AbortOrder
  <2>5. CASE ~RefusePhase
    <3> DEFINE sched == Schedule(phase, result.outputs)
    <3> DEFINE opened == [WithPhase(phase) EXCEPT !.failed[phase] = {}]
    <3>1. opened \in Results
      BY <2>3, FailedUpdate
    <3>2. opened.completed = result.completed
          /\ \A p \in Phases : p # phase => opened.outputs[p] = result.outputs[p]
      BY <1>2, <2>3, WithPhaseOrder DEF Results
    <3>3. /\ result'.completed = result.completed
          /\ \A p \in Phases : p # phase => result'.outputs[p] = result.outputs[p]
      <4>1. CASE OpenParallel \/ OpenSequential
        BY <3>2, <4>1 DEF OpenParallel, OpenSequential
      <4>2. CASE OpenRoundRobin
        <5>1. PICK s : result' = [opened EXCEPT !.outputs[phase] = s]
          BY <4>2 DEF OpenRoundRobin
        <5> HIDE DEF opened
        <5>2. QED
          BY <3>1, <3>2, <5>1 DEF Results
      <4>3. QED
        BY <1>7, <2>5, <4>1, <4>2 DEF Open
    <3>4. result' \in Results
      BY TypeOpen DEF TypeInv, TypeOK
    <3>5. result'.completed = 1..n /\ NothingFrom(result'.outputs, n + 2)
      BY <2>2, <3>3, <3>4
    <3>6. pc' \in Running /\ phase' = phase /\ restored' = restored /\ saved' = saved
      BY <1>7, <2>5
      DEF Open, OpenParallel, OpenSequential, OpenRoundRobin, Await, Running, disk
    <3>7. pc' # "enter"
      BY <3>6 DEF Running
    <3>8. StandsAt(n)'
      BY <1>4, <2>1, <3>5, <3>6, <3>7 DEF StandsAt, NothingFrom
    <3>9. QED
      BY <3>6, <3>8 DEF OrderInv, PhasesInOrder, InOrder, PhaseCount
  <2>6. QED
    BY <2>4, <2>5
<1>8. QED
  BY <1>6, <1>7

\* Outputs and failures of the current turn touch the current phase only, so
\* the result may be written at any time.
LEMMA OrderTurn ==
  ASSUME TypeInv, OrderInv, NEW t \in Turn, pc \in Running, Commit(t) \/ GiveUp(t),
         UNCHANGED <<phase, restored>>, pc' \in Running
  PROVE  OrderInv'
<1>1. result \in Results /\ phase \in Phases
  BY DEF TypeInv, TypeOK, AtPhase
<1>2. pc \notin {"idle", "enter", "settle"} /\ pc' \notin {"idle", "enter", "settle"}
  BY DEF Running
<1>3. PICK n \in 0..PhaseCount : StandsAt(n)
  BY <1>2 DEF OrderInv
<1>4. /\ result.completed = 1..n /\ phase = n + 1
      /\ NothingFrom(restored.outputs, n + 2) /\ NothingFrom(result.outputs, n + 2)
  BY <1>3 DEF StandsAt
<1>5. n \in Nat /\ PhaseCount \in Nat /\ Phases = 1..PhaseCount
  BY PhasesAreNumbered
<1>6. /\ result' \in Results
      /\ saved' = result' \/ saved' = saved
  BY CommitType, GiveUpType
<1>7. /\ result'.completed = result.completed
      /\ \A p \in Phases : p # phase => result'.outputs[p] = result.outputs[p]
  BY <1>1 DEF Commit, GiveUp, Results
<1>8. result'.completed = 1..n /\ NothingFrom(result'.outputs, n + 2)
  BY <1>4, <1>5, <1>7 DEF NothingFrom
<1>9. InOrder(result')
  BY <1>6, <1>8, InOrderIntro
<1>10. StandsAt(n)'
  BY <1>2, <1>4, <1>8 DEF StandsAt, NothingFrom
<1>11. PhasesInOrder'
  BY <1>6, <1>9 DEF OrderInv, PhasesInOrder, InOrder
<1>12. QED
  BY <1>3, <1>10, <1>11 DEF OrderInv, PhaseCount

LEMMA OrderEnd ==
  ASSUME TypeInv, OrderInv, CompletePhase \/ FailPhase \/ Conclude \/ StopParallel \/ Settle
  PROVE  OrderInv'
<1>1. result \in Results /\ phase \in Nat
  BY DEF TypeInv, TypeOK
<1>2. PhaseCount \in Nat /\ Phases = 1..PhaseCount
  BY PhasesAreNumbered
\* A result sorted at the end of a parallel phase stands where it stood.
<1>3. ASSUME NEW r \in Results, pc \in Running,
             r = result \/ r \in Sorted(result, phase)
      PROVE  \E n \in 0..PhaseCount :
               /\ phase = n + 1 /\ NothingFrom(restored.outputs, n + 2)
               /\ r.completed = 1..n /\ NothingFrom(r.outputs, n + 2)
  <2>1. pc \notin {"idle", "enter", "settle"} /\ phase \in Phases
    BY <1>3 DEF Running, TypeInv, AtPhase
  <2>2. PICK n \in 0..PhaseCount : StandsAt(n)
    BY <2>1 DEF OrderInv
  <2>3. /\ result.completed = 1..n /\ phase = n + 1
        /\ NothingFrom(restored.outputs, n + 2) /\ NothingFrom(result.outputs, n + 2)
    BY <1>3, <2>2 DEF StandsAt
  <2>4. /\ r.completed = result.completed
        /\ \A p \in Phases : p # phase => r.outputs[p] = result.outputs[p]
    BY <1>1, <1>3, <2>1, SortedOrder
  <2>5. NothingFrom(r.outputs, n + 2)
    BY <1>2, <2>3, <2>4 DEF NothingFrom
  <2>6. QED
    BY <2>3, <2>4, <2>5
<1>4. CASE CompletePhase
  <2>1. PICK r \in Returned :
          /\ result' = [r EXCEPT !.completed = @ \cup {phase}]
          /\ saved' = result' /\ pc' = "enter" /\ phase' = phase + 1
          /\ UNCHANGED restored
    BY <1>4 DEF CompletePhase
  <2>2. r \in Results /\ pc \in Running /\ phase \in Phases
    BY <2>1, ReturnedType
  <2>3. r = result \/ r \in Sorted(result, phase)
    BY <2>1 DEF Returned
  <2>4. PICK n \in 0..PhaseCount :
          /\ phase = n + 1 /\ NothingFrom(restored.outputs, n + 2)
          /\ r.completed = 1..n /\ NothingFrom(r.outputs, n + 2)
    BY <1>3, <2>2, <2>3
  <2>5. n \in Nat /\ n + 1 \in 0..PhaseCount
    BY <1>2, <2>2, <2>4
  <2>6. result'.completed = 1..(n + 1)
    <3>1. result'.completed = r.completed \cup {phase}
      BY <2>1, <2>2 DEF Results
    <3>2. QED
      BY <2>4, <2>5, <3>1
  <2>7. result'.outputs = r.outputs
    BY <2>1, <2>2 DEF Results
  <2>8. /\ NothingFrom(result'.outputs, n + 2) /\ NothingFrom(result'.outputs, (n + 1) + 2)
        /\ NothingFrom(restored'.outputs, (n + 1) + 2)
    BY <1>2, <2>1, <2>4, <2>5, <2>7 DEF NothingFrom
  <2>9. result' \in Results
    BY TypeEnd, <1>4 DEF TypeInv, TypeOK
  <2>10. InOrder(result')
    <3> DEFINE m == n + 1
    <3>1. m \in 0..PhaseCount /\ result'.completed = 1..m /\ NothingFrom(result'.outputs, m + 2)
      BY <2>5, <2>6, <2>8
    <3> HIDE DEF m
    <3>2. QED
      BY <2>9, <3>1, InOrderIntro
  <2>11. phase' = n + 2
    BY <2>1, <2>4, <2>5
  <2>12. StandsAt(n + 1)'
    BY <2>1, <2>5, <2>6, <2>8, <2>11 DEF StandsAt, NothingFrom, Running
  <2>13. PhasesInOrder'
    BY <2>1, <2>10 DEF PhasesInOrder, InOrder
  <2>14. QED
    BY <2>5, <2>12, <2>13 DEF OrderInv, PhaseCount
<1>5. CASE FailPhase
  <2>1. PICK r \in Returned : Abort(r, "failed")
    BY <1>5 DEF FailPhase
  <2>2. r \in Results /\ pc \in Running
    BY <2>1, ReturnedType
  <2>3. r = result \/ r \in Sorted(result, phase)
    BY <2>1 DEF Returned
  <2>4. QED
    BY <1>3, <2>1, <2>2, <2>3, AbortOrder
<1>6. CASE Conclude
  <2>1. pc = "enter" /\ phase \notin Phases
    BY <1>6 DEF Conclude
  <2>2. PICK n \in 0..PhaseCount : StandsAt(n)
    BY <2>1 DEF OrderInv
  <2>3. result.completed = 1..n /\ phase \in 1..(n + 1) /\ NothingFrom(result.outputs, phase)
    BY <2>1, <2>2 DEF StandsAt
  <2>4. NothingFrom(result.outputs, n + 2)
    BY <1>1, <1>2, <2>3 DEF NothingFrom
  <2>5. CASE \A p \in Phases : result.outputs[p] = <<>>
    <3>1. Abort(result, "failed")
      BY <1>6, <2>5 DEF Conclude
    <3>2. QED
      BY <1>1, <2>3, <2>4, <3>1, AbortOrder
  <2>6. CASE ~(\A p \in Phases : result.outputs[p] = <<>>)
    <3>1. saved' = [result EXCEPT !.status = "completed"] /\ pc' = "settle"
      BY <1>6, <2>6 DEF Conclude
    <3>2. InOrder(saved')
      BY <1>1, <2>3, <2>4, <3>1, InOrderIntro
    <3>3. QED
      BY <3>1, <3>2 DEF OrderInv, PhasesInOrder, InOrder
  <2>7. QED
    BY <2>5, <2>6
<1>7. CASE StopParallel
  <2>1. /\ pc \in Running
        /\ result' = result \/ result' \in Sorted(result, phase)
        /\ Abort(result', "stopped")
    BY <1>7 DEF StopParallel, Running
  <2>2. result' \in Results
    BY TypeEnd, <1>7 DEF TypeInv, TypeOK
  <2>3. QED
    BY <1>3, <2>1, <2>2, AbortOrder
<1>8. CASE Settle
  BY <1>8 DEF Settle, OrderInv, PhasesInOrder, InOrder
<1>9. QED
  BY <1>4, <1>5, <1>6, <1>7, <1>8

\* What leaves the result, the phase and the session file alone.
LEMMA OrderUnchanged ==
  ASSUME OrderInv, UNCHANGED <<saved, result, restored, phase>>,
         \/ pc' = pc
         \/ pc \in Running /\ pc' \in Running
  PROVE  OrderInv'
<1>1. PhasesInOrder'
  BY DEF OrderInv, PhasesInOrder, InOrder
<1>2. CASE pc' \in {"idle", "settle"}
  BY <1>1, <1>2 DEF OrderInv
<1>3. CASE pc' \notin {"idle", "settle"}
  <2>1. PICK n \in 0..PhaseCount : StandsAt(n)
    BY <1>3 DEF OrderInv, Running
  <2>2. StandsAt(n)'
    BY <2>1 DEF StandsAt, NothingFrom, Running
  <2>3. QED
    BY <1>1, <2>2 DEF OrderInv, PhaseCount
<1>4. QED
  BY <1>2, <1>3

LEMMA OrderNext == TypeInv /\ OrderInv /\ [Next]_vars => OrderInv'
<1> SUFFICES ASSUME TypeInv, OrderInv, [Next]_vars PROVE OrderInv'
  OBVIOUS
<1>1. ASSUME NEW cfg \in Configurations, NEW resume \in BOOLEAN, Start(cfg, resume)
      PROVE  OrderInv'
  BY <1>1, OrderStart
<1>2. CASE Open
  BY <1>2, OrderOpen
<1>3. ASSUME NEW a \in Agents, Step(a) PROVE OrderInv'
  <2>1. UNCHANGED <<saved, result, restored, phase, pc>>
    BY <1>3 DEF Step, Admit, BeginAttempt, Retry, Finish, Unwind, disk
  <2>2. QED
    BY <2>1, OrderUnchanged
<1>4. CASE Collect
  <2>1. PICK a \in Agents : Commit([agent |-> a, round |-> 0]) \/ GiveUp([agent |-> a, round |-> 0])
    BY <1>4 DEF Collect
  <2>2. [agent |-> a, round |-> 0] \in Turn
    BY DEF Turn, Rounds
  <2>3. pc \in Running /\ pc' \in Running /\ UNCHANGED <<phase, restored>>
    BY <1>4 DEF Collect, Running
  <2>4. QED
    BY <2>1, <2>2, <2>3, OrderTurn
<1>5. ASSUME NEW t \in Turn, TakeTurn(t) \/ LoseTurn(t) PROVE OrderInv'
  <2>1. Commit(t) \/ GiveUp(t)
    BY <1>5 DEF TakeTurn, LoseTurn
  <2>2. pc \in Running /\ pc' \in Running /\ UNCHANGED <<phase, restored>>
    BY <1>5 DEF TakeTurn, LoseTurn, Await, Running
  <2>3. QED
    BY <2>1, <2>2, OrderTurn
<1>6. CASE CompletePhase \/ FailPhase \/ Conclude \/ StopParallel \/ Settle
  BY <1>6, OrderEnd
<1>7. CASE CancelTurn
  <2>1. result \in Results /\ pc \in Running /\ pc \notin {"idle", "settle"}
    BY <1>7 DEF CancelTurn, Running, TypeInv, TypeOK
  <2>2. PICK n \in 0..PhaseCount : StandsAt(n)
    BY <2>1 DEF OrderInv
  <2>3. result.completed = 1..n /\ NothingFrom(result.outputs, n + 2)
    BY <2>1, <2>2 DEF StandsAt
  <2>4. Abort(result, "stopped")
    BY <1>7 DEF CancelTurn
  <2>5. QED
    BY <2>1, <2>3, <2>4, AbortOrder
<1>8. CASE CancelParallel
  <2>1. UNCHANGED <<saved, result, restored, phase>> /\ pc \in Running /\ pc' \in Running
    BY <1>8 DEF CancelParallel, Running, disk, run
  <2>2. QED
    BY <2>1, OrderUnchanged
<1>9. CASE Crash
  BY <1>9 DEF Crash, OrderInv, PhasesInOrder, InOrder, disk
<1>10. CASE UNCHANGED vars
  <2>1. UNCHANGED <<saved, result, restored, phase, pc>>
    BY <1>10 DEF vars, disk, run
  <2>2. QED
    BY <2>1, OrderUnchanged
<1>11. QED
  BY <1>1, <1>2, <1>3, <1>4, <1>5, <1>6, <1>7, <1>8, <1>9, <1>10 DEF Next, Progress, Cancel

\* For any number of phases, agents and rounds, and whatever is cancelled or
\* crashes: the session file records a prefix of the phases as complete and
\* holds no output beyond the first incomplete one (engine.py:117-130, 187-195).
THEOREM PhasesStayInOrder == Spec => []PhasesInOrder
<1>1. TypeInv /\ OrderInv /\ [Next]_vars => OrderInv'
  BY OrderNext
<1>2. OrderInv => PhasesInOrder
  BY DEF OrderInv
<1>3. QED
  BY <1>1, <1>2, TypeAlways, OrderInit, PTL DEF Spec
-----------------------------------------------------------------------------
(***************************************************************************)
(* One configuration.  Everything a run holds, whether it took it over or  *)
(* made it, was produced under the configuration of the run, which is the  *)
(* label the session file gets with it.                                    *)
(***************************************************************************)
AllFrom(outs, c) == \A p \in Phases : \A i \in DOMAIN outs[p] : outs[p][i].config = c
LabelInv ==
  /\ AllFrom(saved.outputs, saved.config)
  /\ pc # "idle" =>
       /\ AllFrom(restored.outputs, result.config)
       /\ AllFrom(result.outputs, result.config)
       /\ AllFrom(context, result.config)

LEMMA EmptyFrom == \A c : AllFrom(Empty, c)
BY DEF AllFrom, Empty

\* One phase replaced by outputs of the same configuration.
LEMMA FromUpdate ==
  ASSUME NEW outs, NEW new, NEW c, AllFrom(outs, c), NEW p \in Phases,
         \A o \in Phases : o # p => new[o] = outs[o],
         \A i \in DOMAIN new[p] : new[p][i].config = c
  PROVE  AllFrom(new, c)
BY DEF AllFrom

LEMMA FromAppend ==
  ASSUME NEW outs \in [Phases -> Seq(Output)], NEW c, AllFrom(outs, c),
         NEW p \in Phases, NEW o \in Output, o.config = c,
         NEW new, new[p] = Append(outs[p], o), \A q \in Phases : q # p => new[q] = outs[q]
  PROVE  AllFrom(new, c)
<1> DEFINE s == Append(outs[p], o)
<1>1. outs[p] \in Seq(Output) /\ \A i \in 1..Len(outs[p]) : outs[p][i].config = c
  BY DEF AllFrom
<1>2. \A i \in DOMAIN s : s[i].config = c
  <2>1. \A i \in 1..(Len(outs[p]) + 1) :
          s[i] = IF i = Len(outs[p]) + 1 THEN o ELSE outs[p][i]
    BY <1>1
  <2>2. DOMAIN s = 1..(Len(outs[p]) + 1) /\ Len(outs[p]) \in Nat
    BY <1>1
  <2> HIDE DEF s
  <2>3. QED
    BY <1>1, <2>1, <2>2
<1>3. new[p] = s /\ \A q \in Phases : q # p => new[q] = outs[q]
  OBVIOUS
<1> HIDE DEF s
<1>4. QED
  BY <1>2, <1>3 DEF AllFrom

LEMMA SortedFrom ==
  ASSUME NEW r \in Results, AllFrom(r.outputs, r.config), NEW p \in Phases, NEW q \in Sorted(r, p)
  PROVE  AllFrom(q.outputs, r.config)
<1>1. PICK f \in Rearrangements(r.outputs[p]) :
        q = [r EXCEPT !.outputs[p] = [i \in DOMAIN @ |-> @[f[i]]]]
  BY DEF Sorted
<1>2. f \in [DOMAIN r.outputs[p] -> DOMAIN r.outputs[p]]
  BY DEF Rearrangements
<1> DEFINE s == [i \in DOMAIN r.outputs[p] |-> r.outputs[p][f[i]]]
<1>3. \A i \in DOMAIN s : s[i].config = r.config
  BY <1>2 DEF AllFrom
<1>4. q.outputs = [r.outputs EXCEPT ![p] = s] /\ r.outputs \in [Phases -> Seq(Output)]
  BY <1>1 DEF Results
<1>5. q.outputs[p] = s /\ \A o \in Phases : o # p => q.outputs[o] = r.outputs[o]
  BY <1>4
<1> HIDE DEF s
<1>6. QED
  BY <1>3, <1>5, FromUpdate

\* What the loop takes over is of the run's configuration.
LEMMA WithPhaseFrom ==
  ASSUME TypeInv, LabelInv, phase \in Phases, pc # "idle"
  PROVE  /\ AllFrom(WithPhase(phase).outputs, result.config)
         /\ AllFrom([context EXCEPT ![phase] = restored.outputs[phase]], result.config)
         /\ \A i \in DOMAIN restored.outputs[phase] :
              restored.outputs[phase][i].config = result.config
<1>1. \A i \in DOMAIN restored.outputs[phase] :
        restored.outputs[phase][i].config = result.config
  BY DEF LabelInv, AllFrom
<1>2. result \in Results /\ context \in [Phases -> Seq(Output)]
  BY DEF TypeInv, TypeOK
<1>3. WithPhase(phase).outputs = [result.outputs EXCEPT ![phase] = restored.outputs[phase]]
      /\ result.outputs \in [Phases -> Seq(Output)]
  BY <1>2 DEF WithPhase, Results
<1>4. ASSUME NEW outs \in [Phases -> Seq(Output)], AllFrom(outs, result.config), NEW new,
             new = [outs EXCEPT ![phase] = restored.outputs[phase]]
      PROVE  AllFrom(new, result.config)
  <2>1. new[phase] = restored.outputs[phase] /\ \A o \in Phases : o # phase => new[o] = outs[o]
    BY <1>4
  <2>2. QED
    BY <1>1, <1>4, <2>1 DEF AllFrom
<1>5. QED
  BY <1>1, <1>2, <1>3, <1>4 DEF LabelInv

LEMMA AbortLabels ==
  ASSUME TypeInv, LabelInv, pc # "idle", NEW r \in Results, NEW why, Abort(r, why),
         r.config = result.config, AllFrom(r.outputs, result.config),
         result'.config = result.config, AllFrom(result'.outputs, result.config),
         AllFrom(context', result.config)
  PROVE  LabelInv'
<1>1. saved'.outputs = r.outputs /\ saved'.config = r.config
  BY DEF Abort, Results
<1>2. restored' = restored
  BY DEF Abort
<1>3. QED
  BY <1>1, <1>2 DEF LabelInv, AllFrom

LEMMA LabelInit == Init => LabelInv
BY DEF Init, LabelInv, AllFrom, NoResult, Empty

LEMMA LabelStart ==
  ASSUME TypeInv, LabelInv, NEW cfg \in Configurations, NEW resume \in BOOLEAN,
         Start(cfg, resume)
  PROVE  LabelInv'
<1> DEFINE reuse == resume /\ saved.config = cfg
<1>1. result'.outputs = Empty /\ result'.config = cfg /\ context' = Empty /\ saved' = saved
  BY DEF Start, NoResult
<1>2. AllFrom(restored'.outputs, cfg)
  <2>1. CASE reuse
    BY <2>1 DEF Start, LabelInv
  <2>2. CASE ~reuse
    BY <2>2 DEF Start, NoPhases, AllFrom, Empty
  <2>3. QED
    BY <2>1, <2>2
<1>3. QED
  BY <1>1, <1>2, EmptyFrom DEF LabelInv, AllFrom

LEMMA LabelOpen ==
  ASSUME TypeInv, LabelInv, Open PROVE LabelInv'
<1>1. result \in Results /\ context \in [Phases -> Seq(Output)]
  BY DEF TypeInv, TypeOK
<1>2. phase \in Phases /\ pc # "idle"
  <2>1. result.completed \subseteq Phases
    BY <1>1 DEF Results
  <2>2. QED
    BY <2>1 DEF Open, ReplayPhase, RefusePhase, OpenParallel, OpenSequential, OpenRoundRobin, Opens
<1>3. WithPhase(phase) \in Results /\ WithPhase(phase).config = result.config
  BY <1>2, WithPhaseType
<1> DEFINE opened == [WithPhase(phase) EXCEPT !.failed[phase] = {}]
<1>4. opened \in Results /\ opened.config = result.config
      /\ opened.outputs = WithPhase(phase).outputs
  <2>1. opened \in Results
    BY <1>3, FailedUpdate
  <2>2. QED
    BY <1>3, <2>1 DEF Results
\* A step that writes nothing and keeps to the run's configuration.
<1>5. ASSUME saved' = saved, restored' = restored, result'.config = result.config,
             AllFrom(result'.outputs, result.config), AllFrom(context', result.config)
      PROVE  LabelInv'
  BY <1>2, <1>5 DEF LabelInv, AllFrom
<1>6. CASE ReplayPhase
  BY <1>2, <1>3, <1>5, <1>6, WithPhaseFrom DEF ReplayPhase, disk
<1>7. CASE RefusePhase
  <2>1. result' = WithPhase(phase) /\ Abort(result', "failed")
        /\ (context' = context \/ context' = [context EXCEPT ![phase] = restored.outputs[phase]])
    BY <1>7 DEF RefusePhase
  <2>2. AllFrom(context', result.config)
    BY <1>2, <2>1, WithPhaseFrom DEF LabelInv
  <2>3. QED
    BY <1>2, <1>3, <2>1, <2>2, WithPhaseFrom, AbortLabels
<1>8. CASE OpenParallel \/ OpenSequential
  <2>1. result' = opened /\ context' = [context EXCEPT ![phase] = restored.outputs[phase]]
        /\ saved' = saved /\ restored' = restored
    BY <1>8 DEF OpenParallel, OpenSequential, disk
  <2>2. QED
    BY <1>2, <1>4, <1>5, <2>1, WithPhaseFrom
<1>9. CASE OpenRoundRobin
  <2> DEFINE sched == Schedule(phase, result.outputs)
  <2> DEFINE old == restored.outputs[phase]
  <2>1. PICK k \in 0..Len(sched) :
          /\ IsAcceptedPrefix(k, old, sched)
          /\ result' = [WithPhase(phase) EXCEPT !.failed[phase] = {},
                          !.outputs[phase] = Reuse(k, old, sched)]
          /\ context' = [context EXCEPT ![phase] = Reuse(k, old, sched)]
    BY <1>9 DEF OpenRoundRobin
  <2> DEFINE s == Reuse(k, old, sched)
  <2>2. k \in Nat /\ old \in Seq(Output)
    BY <1>2, <2>1, ScheduleLength, WithPhaseType
  <2>3. \A i \in DOMAIN s : s[i].config = result.config
    <3>1. \A i \in 1..k : s[i] \in ToSet(old)
      BY <2>1, <2>2, ReuseType
    <3>2. DOMAIN s = 1..k
      BY <2>2 DEF Reuse
    <3>3. \A o \in ToSet(old) : o.config = result.config
      BY <1>2, WithPhaseFrom DEF ToSet
    <3>4. QED
      BY <3>1, <3>2, <3>3
  <2>4. result' = [opened EXCEPT !.outputs[phase] = s]
    BY <2>1
  <2> HIDE DEF s, opened
  <2>5. /\ result'.config = result.config
        /\ result'.outputs = [opened.outputs EXCEPT ![phase] = s]
        /\ opened.outputs \in [Phases -> Seq(Output)]
    BY <1>4, <2>4 DEF Results
  <2>6. AllFrom(opened.outputs, result.config)
    BY <1>2, <1>4, WithPhaseFrom
  <2>7. AllFrom(result'.outputs, result.config)
    <3>1. result'.outputs[phase] = s
          /\ \A o \in Phases : o # phase => result'.outputs[o] = opened.outputs[o]
      BY <1>2, <2>5
    <3>2. QED
      BY <1>2, <2>3, <2>6, <3>1, FromUpdate
  <2>8. AllFrom(context', result.config)
    <3>1. context'[phase] = s /\ \A o \in Phases : o # phase => context'[o] = context[o]
      BY <1>1, <1>2, <2>1 DEF s
    <3>2. AllFrom(context, result.config)
      BY <1>2 DEF LabelInv
    <3>3. QED
      BY <1>2, <2>3, <3>1, <3>2, FromUpdate
  <2>9. saved' = saved /\ restored' = restored
    BY <1>9 DEF OpenRoundRobin, disk
  <2>10. QED
    BY <1>5, <2>5, <2>7, <2>8, <2>9
<1>10. QED
  BY <1>6, <1>7, <1>8, <1>9 DEF Open

\* An output is labelled with the run's configuration when it is committed.
LEMMA LabelTurn ==
  ASSUME TypeInv, LabelInv, NEW t \in Turn, pc \in Running, Commit(t) \/ GiveUp(t),
         UNCHANGED restored
  PROVE  LabelInv'
<1>1. /\ result \in Results /\ phase \in Phases /\ pc # "idle"
      /\ context \in [Phases -> Seq(Output)] /\ result.outputs \in [Phases -> Seq(Output)]
  BY DEF TypeInv, TypeOK, AtPhase, Running, Results
<1>2. CASE Commit(t)
  <2> DEFINE o == [agent |-> t.agent, round |-> t.round, config |-> result.config]
  <2>1. o \in Output /\ o.config = result.config
    BY <1>1 DEF TypeInv, Labelled, Turn, Output
  <2>2. /\ result' = [result EXCEPT !.outputs[phase] = Append(@, o)]
        /\ context' = [context EXCEPT ![phase] = Append(@, o)]
        /\ saved' = result'
    BY <1>2 DEF Commit
  <2> HIDE DEF o
  <2>3. result'.config = result.config
        /\ result'.outputs = [result.outputs EXCEPT ![phase] = Append(@, o)]
    BY <1>1, <2>2 DEF Results
  <2>4. AllFrom(result'.outputs, result.config) /\ AllFrom(context', result.config)
    <3>1. AllFrom(result.outputs, result.config) /\ AllFrom(context, result.config)
      BY <1>1 DEF LabelInv
    <3>2. AllFrom(result'.outputs, result.config)
      <4>1. result'.outputs[phase] = Append(result.outputs[phase], o)
            /\ \A q \in Phases : q # phase => result'.outputs[q] = result.outputs[q]
        BY <1>1, <2>3
      <4>2. QED
        BY <1>1, <2>1, <3>1, <4>1, FromAppend
    <3>3. AllFrom(context', result.config)
      <4>1. context'[phase] = Append(context[phase], o)
            /\ \A q \in Phases : q # phase => context'[q] = context[q]
        BY <1>1, <2>2
      <4>2. QED
        BY <1>1, <2>1, <3>1, <4>1, FromAppend
    <3>4. QED
      BY <3>2, <3>3
  <2>5. QED
    BY <1>1, <2>2, <2>3, <2>4 DEF LabelInv, AllFrom
<1>3. CASE GiveUp(t)
  <2>1. result'.config = result.config /\ result'.outputs = result.outputs
    BY <1>1, <1>3 DEF GiveUp, Results
  <2>2. saved' = saved /\ context' = context
    BY <1>3 DEF GiveUp, disk
  <2>3. QED
    BY <1>1, <2>1, <2>2 DEF LabelInv, AllFrom
<1>4. QED
  BY <1>2, <1>3

LEMMA LabelEnd ==
  ASSUME TypeInv, LabelInv, CompletePhase \/ FailPhase \/ Conclude \/ StopParallel \/ Settle
  PROVE  LabelInv'
<1>1. result \in Results
  BY DEF TypeInv, TypeOK
<1>2. ASSUME NEW r \in Results, pc \in Running, r = result \/ r \in Sorted(result, phase)
      PROVE  r.config = result.config /\ AllFrom(r.outputs, result.config)
  <2>1. phase \in Phases /\ AllFrom(result.outputs, result.config)
    BY <1>2 DEF TypeInv, AtPhase, LabelInv, Running
  <2>2. QED
    BY <1>1, <1>2, <2>1, SortedType, SortedFrom
<1>3. CASE CompletePhase
  <2>1. PICK r \in Returned :
          /\ result' = [r EXCEPT !.completed = @ \cup {phase}]
          /\ saved' = result' /\ UNCHANGED <<restored, context>>
    BY <1>3 DEF CompletePhase
  <2>2. r \in Results /\ pc \in Running /\ (r = result \/ r \in Sorted(result, phase))
    BY <2>1, ReturnedType DEF Returned
  <2>3. result'.config = result.config /\ AllFrom(result'.outputs, result.config)
    <3>1. result'.config = r.config /\ result'.outputs = r.outputs
      BY <2>1, <2>2 DEF Results
    <3>2. QED
      BY <1>2, <2>2, <3>1
  <2>4. QED
    BY <2>1, <2>2, <2>3 DEF LabelInv, AllFrom, Running
<1>4. CASE FailPhase
  <2>1. PICK r \in Returned : result' = r /\ Abort(r, "failed") /\ UNCHANGED context
    BY <1>4 DEF FailPhase
  <2>2. r \in Results /\ pc \in Running /\ (r = result \/ r \in Sorted(result, phase))
    BY <2>1, ReturnedType DEF Returned
  <2>3. r.config = result.config /\ AllFrom(r.outputs, result.config) /\ pc # "idle"
    BY <1>2, <2>2 DEF Running
  <2>4. AllFrom(context', result.config)
    BY <2>1, <2>3 DEF LabelInv
  <2>5. QED
    BY <2>1, <2>2, <2>3, <2>4, AbortLabels
<1>5. CASE Conclude
  <2>1. pc = "enter"
    BY <1>5 DEF Conclude
  <2>2. CASE \A p \in Phases : result.outputs[p] = <<>>
    <3>1. UNCHANGED <<result, context>> /\ Abort(result, "failed")
      BY <1>5, <2>2 DEF Conclude
    <3>2. QED
      BY <1>1, <2>1, <3>1, AbortLabels DEF LabelInv
  <2>3. CASE ~(\A p \in Phases : result.outputs[p] = <<>>)
    <3>1. saved' = [result EXCEPT !.status = "completed"] /\ UNCHANGED <<result, restored, context>>
      BY <1>5, <2>3 DEF Conclude
    <3>2. saved'.outputs = result.outputs /\ saved'.config = result.config
      BY <1>1, <3>1 DEF Results
    <3>3. QED
      BY <2>1, <3>1, <3>2 DEF LabelInv, AllFrom
  <2>4. QED
    BY <2>2, <2>3
<1>6. CASE StopParallel
  <2>1. /\ pc \in Running /\ pc # "idle"
        /\ result' = result \/ result' \in Sorted(result, phase)
        /\ Abort(result', "stopped") /\ UNCHANGED context
    BY <1>6 DEF StopParallel, Running
  <2>2. result' \in Results
    BY TypeEnd, <1>6 DEF TypeInv, TypeOK
  <2>3. AllFrom(context', result.config)
    BY <2>1 DEF LabelInv
  <2>4. QED
    BY <1>2, <2>1, <2>2, <2>3, AbortLabels
<1>7. CASE Settle
  BY <1>7 DEF Settle, LabelInv, AllFrom
<1>8. QED
  BY <1>3, <1>4, <1>5, <1>6, <1>7

LEMMA LabelNext == TypeInv /\ LabelInv /\ [Next]_vars => LabelInv'
<1> SUFFICES ASSUME TypeInv, LabelInv, [Next]_vars PROVE LabelInv'
  OBVIOUS
<1>1. ASSUME UNCHANGED <<saved, result, restored, context>>, pc # "idle" \/ pc' = "idle"
      PROVE  LabelInv'
  BY <1>1 DEF LabelInv, AllFrom
<1>2. ASSUME NEW a \in Agents, Step(a) PROVE LabelInv'
  <2>1. UNCHANGED <<saved, result, restored, context, pc>>
    BY <1>2 DEF Step, Admit, BeginAttempt, Retry, Finish, Unwind, disk
  <2>2. QED
    BY <1>1, <2>1
<1>3. CASE Collect
  <2>1. PICK a \in Agents : Commit([agent |-> a, round |-> 0]) \/ GiveUp([agent |-> a, round |-> 0])
    BY <1>3 DEF Collect
  <2>2. [agent |-> a, round |-> 0] \in Turn /\ pc \in Running /\ UNCHANGED restored
    BY <1>3 DEF Turn, Rounds, Collect, Running
  <2>3. QED
    BY <2>1, <2>2, LabelTurn
<1>4. ASSUME NEW t \in Turn, TakeTurn(t) \/ LoseTurn(t) PROVE LabelInv'
  <2>1. (Commit(t) \/ GiveUp(t)) /\ pc \in Running /\ UNCHANGED restored
    BY <1>4 DEF TakeTurn, LoseTurn, Running
  <2>2. QED
    BY <2>1, LabelTurn
<1>5. CASE CancelTurn
  <2>1. UNCHANGED <<result, context>> /\ Abort(result, "stopped") /\ pc = "turns"
    BY <1>5 DEF CancelTurn
  <2>2. result \in Results
    BY DEF TypeInv, TypeOK
  <2>3. QED
    BY <2>1, <2>2, AbortLabels DEF LabelInv
<1>6. CASE CancelParallel
  BY <1>1, <1>6 DEF CancelParallel, disk, run
<1>7. CASE Crash
  BY <1>7 DEF Crash, LabelInv, AllFrom, disk
<1>8. CASE UNCHANGED vars
  <2>1. UNCHANGED <<saved, result, restored, context, pc>>
    BY <1>8 DEF vars, disk, run
  <2>2. QED
    BY <1>1, <2>1
<1>9. QED
  BY <1>2, <1>3, <1>4, <1>5, <1>6, <1>7, <1>8, LabelStart, LabelOpen, LabelEnd
  DEF Next, Progress, Cancel

\* For any number of configurations and whatever is interrupted: every output in
\* the session file, and every output an agent is shown, was produced under the
\* configuration the result is labelled with (engine.py:76-108).
THEOREM OneConfigurationAtATime == Spec => []OneConfiguration
<1>1. LabelInv => OneConfiguration
  BY DEF LabelInv, AllFrom, OneConfiguration
<1>2. QED
  BY <1>1, TypeAlways, LabelInit, LabelNext, PTL DEF Spec
-----------------------------------------------------------------------------
(***************************************************************************)
(* The refinement.  While a run is alive the session is shown as running,  *)
(* the result being built is not completed, and a run that is going to     *)
(* show the session as completed has just completed the record.            *)
(***************************************************************************)
RunInv ==
  /\ pc # "idle" => status = "running" /\ result.status = "running"
  /\ outcome = "completed" =>
       pc = "settle" /\ saved.status = "completed" /\ saved.config = result.config

\* What a step may do to a live run that goes on: nothing to be seen, or a
\* write of the record as far as the result goes.
SameRun ==
  /\ pc # "idle" /\ pc' # "idle" /\ status' = status
  /\ result'.config = result.config /\ result'.status = result.status
  /\ result'.completed = result.completed
  /\ outcome' # "completed" \/ UNCHANGED <<pc, outcome, saved>>
Unseen == SameRun /\ saved' = saved
Written ==
  /\ SameRun
  /\ saved'.config = result.config /\ saved'.completed = result.completed
  /\ saved'.status # "completed"

LEMMA Represented ==
  ASSUME TypeInv
  PROVE  /\ pc # "idle" => result.config # NoConfiguration
         /\ saved \in Results /\ result \in Results
  BY ConfigAssumption DEF TypeInv, TypeOK, Labelled

LEMMA UnseenStutters ==
  ASSUME TypeInv, RunInv, Unseen
  PROVE  RunInv' /\ UNCHANGED Durable!vars
<1>1. RunInv'
  BY DEF RunInv, Unseen, SameRun
<1>2. QED
  BY <1>1 DEF Unseen, SameRun, Durable!vars

LEMMA WrittenSaves ==
  ASSUME TypeInv, RunInv, Written
  PROVE  RunInv' /\ Durable!Save
<1>1. RunInv'
  BY DEF RunInv, Written, SameRun
<1>2. QED
  BY <1>1, Represented DEF Written, SameRun, Durable!Save, Durable!Record, Durable!NoRun

LEMMA AbortWrites ==
  ASSUME TypeInv, pc # "idle", NEW r \in Results, NEW why \in {"stopped", "failed"},
         r.config = result.config, r.completed = result.completed,
         result' = r, result'.status = result.status, Abort(r, why)
  PROVE  Written
  BY DEF Abort, Written, SameRun, Results

LEMMA StartBegins ==
  ASSUME TypeInv, RunInv, NEW cfg \in Configurations, NEW resume \in BOOLEAN, Start(cfg, resume)
  PROVE  RunInv' /\ Durable!Begin(cfg, resume)
<1>1. /\ result'.config = cfg /\ result'.status = "running"
      /\ result'.completed = IF resume /\ saved.config = cfg THEN saved.completed ELSE {}
  BY DEF Start, NoResult
<1>2. pc = "idle" /\ pc' = "enter" /\ status' = "running" /\ UNCHANGED <<saved, outcome>>
  BY DEF Start
<1>3. Durable!Begin(cfg, resume)
  BY <1>1, <1>2 DEF Durable!Begin, Durable!NoRun
<1>4. QED
  BY <1>1, <1>2, <1>3 DEF RunInv

LEMMA OpenSteps ==
  ASSUME TypeInv, RunInv, Open PROVE Unseen \/ Written
<1>1. result \in Results /\ phase \in Nat /\ pc = "enter" /\ outcome # "completed"
  BY DEF TypeInv, TypeOK, RunInv, Open, ReplayPhase, RefusePhase, OpenParallel,
         OpenSequential, OpenRoundRobin, Opens
<1>2. phase \in Phases
  <2>1. result.completed \subseteq Phases
    BY <1>1 DEF Results
  <2>2. QED
    BY <2>1 DEF Open, ReplayPhase, RefusePhase, OpenParallel, OpenSequential, OpenRoundRobin,
                Opens
<1>3. WithPhase(phase) \in Results
  BY <1>2, WithPhaseType
<1>4. /\ WithPhase(phase).config = result.config
      /\ WithPhase(phase).status = result.status
      /\ WithPhase(phase).completed = result.completed
  BY <1>1 DEF WithPhase, Results
<1>5. CASE ReplayPhase
  BY <1>1, <1>4, <1>5 DEF ReplayPhase, Unseen, SameRun, disk
<1>6. CASE RefusePhase
  <2>1. result' = WithPhase(phase) /\ Abort(result', "failed")
    BY <1>6 DEF RefusePhase
  <2>2. Written
    BY <1>1, <1>3, <1>4, <2>1, AbortWrites
  <2>3. QED
    BY <2>2
<1>7. ASSUME result'.config = result.config, result'.status = result.status,
             result'.completed = result.completed, pc' # "idle", UNCHANGED <<disk, outcome>>
      PROVE  Unseen
  BY <1>1, <1>7 DEF Unseen, SameRun, disk
<1>8. CASE OpenParallel
  <2>1. result' = [WithPhase(phase) EXCEPT !.failed[phase] = {}]
    BY <1>8 DEF OpenParallel
  <2>2. QED
    BY <1>3, <1>4, <1>7, <1>8, <2>1 DEF OpenParallel, Results
<1>9. CASE OpenSequential
  <2>1. result' = [WithPhase(phase) EXCEPT !.failed[phase] = {}] /\ pc' # "idle"
    BY <1>9 DEF OpenSequential, Await
  <2>2. QED
    BY <1>3, <1>4, <1>7, <1>9, <2>1 DEF OpenSequential, Results
<1>10. CASE OpenRoundRobin
  <2>1. PICK s : result' = [WithPhase(phase) EXCEPT !.failed[phase] = {}, !.outputs[phase] = s]
    BY <1>10 DEF OpenRoundRobin
  <2>2. pc' # "idle" /\ UNCHANGED <<disk, outcome>>
    BY <1>10 DEF OpenRoundRobin, Await
  <2>3. QED
    BY <1>3, <1>4, <1>7, <2>1, <2>2 DEF Results
<1>11. QED
  BY <1>5, <1>6, <1>8, <1>9, <1>10 DEF Open

LEMMA TurnSteps ==
  ASSUME TypeInv, RunInv, NEW t \in Turn, pc \in Running, pc' \in Running, outcome' = outcome,
         Commit(t) \/ GiveUp(t)
  PROVE  Unseen \/ Written
<1>1. result \in Results /\ phase \in Phases /\ outcome # "completed"
  BY DEF TypeInv, TypeOK, AtPhase, RunInv, Running
<1>2. CASE Commit(t)
  <2>1. PICK o : result' = [result EXCEPT !.outputs[phase] = Append(@, o)]
    BY <1>2 DEF Commit
  <2>2. /\ result'.config = result.config /\ result'.status = result.status
        /\ result'.completed = result.completed
    BY <1>1, <2>1 DEF Results
  <2>3. saved' = result' /\ status' = status
    BY <1>2 DEF Commit
  <2>4. QED
    BY <1>1, <2>2, <2>3 DEF RunInv, Written, SameRun, Running
<1>3. CASE GiveUp(t)
  <2>1. /\ result'.config = result.config /\ result'.status = result.status
        /\ result'.completed = result.completed
    BY <1>1, <1>3 DEF GiveUp, Results
  <2>2. QED
    BY <1>1, <1>3, <2>1 DEF GiveUp, disk, Unseen, SameRun, Running
<1>4. QED
  BY <1>2, <1>3

LEMMA SortedSame ==
  ASSUME NEW r \in Results, NEW p \in Phases, NEW q \in Sorted(r, p)
  PROVE  q.config = r.config /\ q.status = r.status /\ q.completed = r.completed
<1>1. PICK f \in Rearrangements(r.outputs[p]) :
        q = [r EXCEPT !.outputs[p] = [i \in DOMAIN @ |-> @[f[i]]]]
  BY DEF Sorted
<1>2. QED
  BY <1>1 DEF Results

LEMMA ReturnedSame ==
  ASSUME TypeInv, NEW r \in Returned
  PROVE  /\ pc \in {"close", "parallel"} /\ phase \in Phases /\ r \in Results
         /\ r.config = result.config /\ r.status = result.status
         /\ r.completed = result.completed
<1>1. pc \in {"close", "parallel"} /\ result \in Results
  BY DEF Returned, TypeInv, TypeOK
<1>2. phase \in Phases
  BY <1>1 DEF TypeInv, AtPhase, Running
<1>3. r = result \/ r \in Sorted(result, phase)
  BY DEF Returned
<1>4. QED
  BY <1>1, <1>2, <1>3, SortedSame, SortedType

LEMMA CompletePhaseAdvances ==
  ASSUME TypeInv, OrderInv, RunInv, CompletePhase
  PROVE  RunInv' /\ Durable!Advance(phase) /\ phase \in Phases
<1>1. PICK r \in Returned :
        /\ result' = [r EXCEPT !.completed = @ \cup {phase}] /\ saved' = result'
        /\ pc' = "enter" /\ UNCHANGED <<status, outcome>>
  BY DEF CompletePhase
<1>2. /\ pc \in {"close", "parallel"} /\ phase \in Phases /\ r \in Results
      /\ r.config = result.config /\ r.status = result.status
      /\ r.completed = result.completed
  BY ReturnedSame
<1>3. /\ result'.config = result.config /\ result'.status = result.status
      /\ result'.completed = result.completed \cup {phase}
  BY <1>1, <1>2 DEF Results
<1>4. phase \notin result.completed /\ \A q \in Phases : q < phase => q \in result.completed
  <2>1. PICK n \in 0..PhaseCount : StandsAt(n)
    BY <1>2 DEF OrderInv
  <2>2. result.completed = 1..n /\ phase = n + 1
    BY <1>2, <2>1 DEF StandsAt, Running
  <2>3. QED
    BY <2>2, PhasesAreNumbered
<1>5. RunInv'
  BY <1>1, <1>2, <1>3 DEF RunInv
<1>6. result.config # NoConfiguration /\ result.status # "completed"
  BY <1>2, Represented DEF RunInv
<1>7. Durable!Advance(phase)
  <2> DEFINE before == [config |-> result.config, done |-> result.completed]
  <2>1. [before EXCEPT !.done = @ \cup {phase}] =
          [config |-> result'.config, done |-> result'.completed]
    BY <1>3
  <2>2. pc # "idle" /\ pc' # "idle" /\ saved'.status # "completed" /\ saved' = result'
        /\ status' = status
    BY <1>1, <1>2, <1>3, <1>6
  <2>3. QED
    BY <1>3, <1>4, <1>6, <2>1, <2>2 DEF Durable!Advance, Durable!Record, Durable!NoRun
<1>8. QED
  BY <1>2, <1>5, <1>7

LEMMA ConcludeCompletes ==
  ASSUME TypeInv, OrderInv, RunInv, Conclude
  PROVE  Written \/ (RunInv' /\ Durable!Complete)
<1>1. result \in Results /\ pc = "enter" /\ phase \notin Phases
  BY DEF Conclude, TypeInv, TypeOK
<1>2. result.completed = Phases
  <2>1. PICK n \in 0..PhaseCount : StandsAt(n)
    BY <1>1 DEF OrderInv
  <2>2. QED
    BY <1>1, <2>1, PhasesAreNumbered DEF StandsAt
<1>3. CASE result' = result /\ Abort(result, "failed")
  <2>1. Written
    BY <1>1, <1>3, AbortWrites
  <2>2. QED
    BY <2>1
<1>4. CASE /\ saved' = [result EXCEPT !.status = "completed"]
           /\ outcome' = IF FinalizeSession THEN "completed" ELSE "running"
           /\ pc' = "settle" /\ UNCHANGED <<status, result>>
  <2>1. /\ saved'.config = result.config /\ saved'.completed = result.completed
        /\ saved'.status = "completed"
    BY <1>1, <1>4 DEF Results
  <2>2. RunInv'
    BY <1>1, <1>4, <2>1 DEF RunInv
  <2>3. Durable!Complete
    BY <1>1, <1>2, <1>4, <2>1, Represented DEF Durable!Complete, Durable!Record, Durable!NoRun
  <2>4. QED
    BY <2>2, <2>3
<1>5. QED
  BY <1>3, <1>4 DEF Conclude

LEMMA Ends ==
  ASSUME TypeInv, RunInv, pc # "idle", pc' = "idle", saved' = saved, outcome' = "running",
         status' = status \/ (pc = "settle" /\ status' = outcome)
  PROVE  RunInv' /\ Durable!End
<1>1. RunInv'
  BY DEF RunInv
<1>2. status' = "completed" => saved.status = "completed" /\ saved.config = result.config
  BY DEF RunInv
<1>3. QED
  BY <1>1, <1>2, Represented DEF Durable!End, Durable!NoRun

LEMMA StepImplements ==
  ASSUME TypeInv, OrderInv, RunInv, [Next]_vars
  PROVE  RunInv' /\ [Durable!Next]_(Durable!vars)
<1>1. ASSUME Unseen \/ Written PROVE RunInv' /\ [Durable!Next]_(Durable!vars)
  BY <1>1, UnseenStutters, WrittenSaves DEF Durable!Next
<1>2. ASSUME NEW cfg \in Configurations, NEW resume \in BOOLEAN, Start(cfg, resume)
      PROVE  RunInv' /\ Durable!Next
  BY <1>2, StartBegins DEF Durable!Next
<1>3. CASE Open
  BY <1>1, <1>3, OpenSteps
<1>4. ASSUME NEW a \in Agents, Step(a) PROVE Unseen
  BY <1>4 DEF Step, Admit, BeginAttempt, Retry, Finish, Unwind, disk, Unseen, SameRun, RunInv
<1>5. CASE Collect
  <2>1. PICK a \in Agents : Commit([agent |-> a, round |-> 0]) \/ GiveUp([agent |-> a, round |-> 0])
    BY <1>5 DEF Collect
  <2>2. [agent |-> a, round |-> 0] \in Turn
    BY DEF Turn, Rounds
  <2>3. pc \in Running /\ pc' \in Running /\ outcome' = outcome
    BY <1>5 DEF Collect, Running
  <2>4. QED
    BY <1>1, <2>1, <2>2, <2>3, TurnSteps
<1>6. ASSUME NEW t \in Turn, TakeTurn(t) \/ LoseTurn(t) PROVE Unseen \/ Written
  <2>1. Commit(t) \/ GiveUp(t)
    BY <1>6 DEF TakeTurn, LoseTurn
  <2>2. pc \in Running /\ pc' \in Running /\ outcome' = outcome
    BY <1>6 DEF TakeTurn, LoseTurn, Await, Running
  <2>3. QED
    BY <2>1, <2>2, TurnSteps
<1>7. CASE CompletePhase
  BY <1>7, CompletePhaseAdvances DEF Durable!Next
<1>8. CASE FailPhase
  <2>1. PICK r \in Returned : result' = r /\ Abort(r, "failed")
    BY <1>8 DEF FailPhase
  <2>2. Written
    BY <2>1, ReturnedSame, AbortWrites
  <2>3. QED
    BY <1>1, <2>2
<1>9. CASE Conclude
  BY <1>1, <1>9, ConcludeCompletes DEF Durable!Next
<1>10. CASE StopParallel
  <2>1. /\ pc \in {"unwind", "unwind_unsorted"} /\ result \in Results /\ phase \in Phases
        /\ Abort(result', "stopped") /\ (result' = result \/ result' \in Sorted(result, phase))
    BY <1>10 DEF StopParallel, TypeInv, TypeOK, AtPhase, Running
  <2>2. Written
    BY <2>1, SortedSame, SortedType, AbortWrites
  <2>3. QED
    BY <1>1, <2>2
<1>11. CASE Settle
  <2>1. pc = "settle" /\ pc' = "idle" /\ saved' = saved /\ outcome' = "running"
        /\ status' = outcome
    BY <1>11 DEF Settle
  <2>2. QED
    BY <2>1, Ends DEF Durable!Next
<1>12. CASE CancelTurn
  <2>1. pc = "turns" /\ result' = result /\ result \in Results /\ Abort(result, "stopped")
    BY <1>12 DEF CancelTurn, TypeInv, TypeOK
  <2>2. QED
    BY <1>1, <2>1, AbortWrites
<1>13. CASE CancelParallel
  <2>1. Unseen
    BY <1>13 DEF CancelParallel, disk, run, Unseen, SameRun, RunInv
  <2>2. QED
    BY <1>1, <2>1
<1>14. CASE Crash
  <2>1. pc # "idle" /\ pc' = "idle" /\ UNCHANGED <<saved, status>> /\ outcome' = "running"
    BY <1>14 DEF Crash, disk
  <2>2. RunInv' /\ Durable!End
    BY <2>1, Ends
  <2>3. QED
    BY <2>2 DEF Durable!Next
<1>15. CASE UNCHANGED vars
  BY <1>15 DEF vars, disk, run, RunInv, Durable!vars
<1>16. QED
  BY <1>1, <1>2, <1>3, <1>4, <1>5, <1>6, <1>7, <1>8, <1>9, <1>10, <1>11, <1>12, <1>13,
     <1>14, <1>15 DEF Next, Progress, Cancel

\* For any agents, phases and configurations, and whatever is cancelled or
\* crashes, the engine is a durable review to those who start and read it.
THEOREM ImplementsDurable == Spec => IsDurable
<1>1. Init => RunInv /\ Durable!Init
  <2>1. Init => RunInv
    BY DEF Init, RunInv
  <2>2. Init => /\ saved.config = NoConfiguration /\ saved.completed = {}
                /\ ~(saved.status = "completed") /\ ~(status = "completed") /\ pc = "idle"
    BY DEF Init, NoResult
  <2>3. QED
    BY <2>1, <2>2 DEF Durable!Init, Durable!NoRun
<1>2. TypeInv /\ OrderInv /\ RunInv /\ [Next]_vars => RunInv' /\ [Durable!Next]_(Durable!vars)
  BY StepImplements
<1>3. TypeInv /\ OrderInv /\ [Next]_vars => OrderInv'
  BY OrderNext
<1>4. QED
  BY <1>1, <1>2, <1>3, TypeAlways, OrderInit, PTL DEF Spec, IsDurable, Durable!Spec
-----------------------------------------------------------------------------
\* What holds of every durable review: what is shown as completed is whole, for any
\* configurations and phases.
LEMMA WholeAlways == Durable!Spec => []Durable!Whole
<1>1. Durable!Init => Durable!WholeInv
  BY DEF Durable!Init, Durable!WholeInv
<1>2. Durable!WholeInv /\ [Durable!Next]_(Durable!vars) => Durable!WholeInv'
  <2> SUFFICES ASSUME Durable!WholeInv, [Durable!Next]_(Durable!vars) PROVE Durable!WholeInv'
    OBVIOUS
  <2>1. ASSUME NEW cfg \in Configurations, NEW resume \in BOOLEAN, Durable!Begin(cfg, resume)
        PROVE  Durable!WholeInv'
    BY <2>1 DEF Durable!Begin, Durable!WholeInv
  <2>2. CASE Durable!Save
    BY <2>2 DEF Durable!Save, Durable!Record, Durable!WholeInv
  <2>3. CASE Durable!Complete
    BY <2>3 DEF Durable!Complete, Durable!Record, Durable!WholeInv
  <2>4. CASE Durable!End
    BY <2>4 DEF Durable!End, Durable!WholeInv, Durable!NoRun
  <2>5. ASSUME NEW p \in Phases, Durable!Advance(p) PROVE Durable!WholeInv'
    BY <2>5 DEF Durable!Advance, Durable!Record, Durable!WholeInv
  <2>6. CASE UNCHANGED Durable!vars
    BY <2>6 DEF Durable!vars, Durable!WholeInv, Durable!NoRun
  <2>7. QED
    BY <2>1, <2>2, <2>3, <2>4, <2>5, <2>6 DEF Durable!Next
<1>3. Durable!WholeInv => Durable!Whole
  BY DEF Durable!WholeInv, Durable!Whole
<1>4. QED
  BY <1>1, <1>2, <1>3, PTL DEF Durable!Spec

\* Recovery never declares an unfinished review complete (README.md:115): what
\* holds of every durable review.
THEOREM CompletedStaysWhole == Spec => []CompletedIsWhole
<1>1. Durable!Whole => CompletedIsWhole
  BY DEF Durable!Whole, CompletedIsWhole
<1>2. QED
  BY <1>1, WholeAlways, ImplementsDurable, PTL DEF IsDurable
=============================================================================
