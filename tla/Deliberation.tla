---------------------------- MODULE Deliberation ----------------------------
(***************************************************************************)
(* One session's deliberation: DeliberationEngine.run                      *)
(* (protoneo/deliberation/engine.py) driving ParallelPattern,              *)
(* SequentialPattern and RoundRobinPattern (patterns.py) over the durable  *)
(* session record (session.py).                                            *)
(*                                                                         *)
(* The engine is a coroutine on one event loop.  A step of this module is  *)
(* a stretch of it that no other coroutine can interrupt, cut again after  *)
(* every write of the session file, because the process may die there.     *)
(* Cancel is enabled exactly where the coroutine is suspended.             *)
(*                                                                         *)
(* Abstracted: prompts and answers (an answer is accepted or not), the     *)
(* wording of errors, events, durations and cost.                          *)
(***************************************************************************)
EXTENDS Integers, FiniteSets, SequencesExt

CONSTANTS
  Agents,           \* agent ids of AgentConfig
  Configurations,   \* execution fingerprints a run may be asked for
  NoConfiguration,  \* the fingerprint of a session that has no result
  Phases,           \* DeliberationConfig.phases, as 1..number of phases
  Mode,             \* PhaseConfig.mode of each phase
  Roster,           \* PhaseConfig.agents of each phase, a sequence
  MaxRounds,        \* PhaseConfig.max_rounds of each phase
  MinSuccessful,    \* PhaseConfig.min_successful_agents of each phase
  NeedsPrevious,    \* the phases whose input selector is "previous_output"
  Synthesis,        \* pattern = "independent_synthesis"
  MaxConcurrency,   \* DeliberationConfig.max_concurrency
  MaxAttempts,      \* DeliberationConfig.max_attempts
  FinalizeSession   \* run's finalize_session argument

Modes == {"parallel", "sequential", "round_robin"}
Rounds == 0..20   \* schema.py bounds max_rounds by 20; 0 is a turn outside rounds

\* What validate_config and the bounds of config/schema.py admit.
ASSUME ConfigAssumption ==
  /\ IsFiniteSet(Phases) /\ Phases # {} /\ Phases = 1..Cardinality(Phases)
  /\ Mode \in [Phases -> Modes]
  /\ Roster \in [Phases -> Seq(Agents) \ {<<>>}]
  /\ \A p \in Phases : IsInjective(Roster[p])
  /\ MaxRounds \in [Phases -> Rounds]
  /\ MinSuccessful \in [Phases -> Nat \ {0}]
  /\ NeedsPrevious \subseteq Phases
  /\ Synthesis \in BOOLEAN
  /\ MaxConcurrency \in Nat \ {0}
  /\ MaxAttempts \in Nat \ {0}
  /\ FinalizeSession \in BOOLEAN
  /\ NoConfiguration \notin Configurations

VARIABLES
  status,    \* disk: Session.status
  saved,     \* disk: Session.result
  pc,        \* where run stands; "idle" is the session not in engine._active
  phase,     \* index of the phase the loop is at
  result,    \* the DeliberationResult being built
  restored,  \* the phases of the saved result, not reached yet
  context,   \* SessionContext: outputs and messages shown to agents, per phase
  snapshot,  \* the copy of context a parallel phase hands its participants
  call,      \* state of each agent's _run_agent
  attempt,   \* its attempt number
  ready,     \* finished participants of a parallel phase, in completion order
  cursor,    \* position in the schedule of a sequential or round-robin phase
  outcome    \* the status that ends the run

disk == <<status, saved>>
run == <<phase, result, restored, snapshot, call, attempt, ready, cursor, outcome>>
vars == <<disk, pc, run, context>>
-----------------------------------------------------------------------------
Turn == [agent : Agents, round : Rounds]
\* AgentOutput, with the configuration under which it was produced.
Output == [agent : Agents, round : Rounds, config : Configurations]
Results ==
  [config : Configurations \cup {NoConfiguration},
   status : {"none", "running", "completed", "stopped", "failed"},
   completed : SUBSET Phases,              \* metadata["completed_phases"]
   outputs : [Phases -> Seq(Output)],      \* PhaseResult.outputs and .messages
   failed : [Phases -> SUBSET Turn]]       \* PhaseResult.failed_agents

Empty == [p \in Phases |-> <<>>]
NoFailures == [p \in Phases |-> {}]
NoResult == [config |-> NoConfiguration, status |-> "none", completed |-> {},
             outputs |-> Empty, failed |-> NoFailures]
NoPhases == [outputs |-> Empty, failed |-> NoFailures]
NoCalls == [a \in Agents |-> "none"]
NoAttempts == [a \in Agents |-> 0]

TurnOf(o) == [agent |-> o.agent, round |-> o.round]
TurnsOf(s) == {TurnOf(s[i]) : i \in DOMAIN s}
Authors(s) == {s[i].agent : i \in DOMAIN s}
PhaseCount == Cardinality(Phases)

\* The parallel phase whose authors are independent_ids when phase p runs.
IndependentPhase(p) ==
  {q \in 1..(p - 1) : Mode[q] = "parallel" /\ \A r \in 1..(q - 1) : Mode[r] # "parallel"}

WholeRoster(p, outs) == DOMAIN Roster[p]   \* (mutant: whoever answered)

\* The places of the roster that take part in phase p: a discussion in
\* independent synthesis is open to those whose assessment was accepted.
Eligible(p, outs) ==
  {i \in DOMAIN Roster[p] : Synthesis /\ Mode[p] = "round_robin" =>
     \A q \in IndependentPhase(p) : Roster[p][i] \in Authors(outs[q])}
Participants(p, outs) ==
  LET I == Eligible(p, outs)
      place(k) == CHOOSE i \in I : Cardinality({j \in I : j <= i}) = k
  IN [k \in 1..Cardinality(I) |-> Roster[p][place(k)]]

\* The order of turns.  A discussion rotates who opens each round.
Schedule(p, outs) ==
  LET s == Participants(p, outs)
      n == Len(s)
  IN IF Mode[p] = "round_robin"
     THEN [t \in 1..(n * MaxRounds[p]) |->
            LET r == ((t - 1) \div n) + 1
            IN [agent |-> s[((r - 1 + t - 1) % n) + 1], round |-> r]]
     ELSE [t \in 1..n |-> [agent |-> s[t], round |-> 0]]

\* The first k turns of the schedule are exactly those answered without a gap.
IsAcceptedPrefix(k, s, sched) ==
  /\ \A i \in 1..k : sched[i] \in TurnsOf(s)
  /\ k < Len(sched) => sched[k + 1] \notin TurnsOf(s)

ReuseEverything(k, s, sched) == s   \* (mutant: keep turns beyond the gap)

Reuse(k, s, sched) ==
  [i \in 1..k |-> CHOOSE o \in ToSet(s) : TurnOf(o) = sched[i]]

\* The sort in ParallelPattern's finally clause, by place in the roster.
Rank(p, a) == CHOOSE i \in DOMAIN Roster[p] : Roster[p][i] = a
InRosterOrder(p, s) ==
  \A i, j \in DOMAIN s : i < j => Rank(p, s[i].agent) < Rank(p, s[j].agent)
Rearrangements(s) == {f \in [DOMAIN s -> DOMAIN s] : IsInjective(f)}

Unsorted(r, p) == {r}   \* (mutant: completion order)

Sorted(r, p) ==
  {q \in {[r EXCEPT !.outputs[p] = [i \in DOMAIN @ |-> @[f[i]]]] :
            f \in Rearrangements(r.outputs[p])} :
     InRosterOrder(p, q.outputs[p])}

Outstanding == {a \in Agents : call[a] \in {"queued", "held", "calling"}}
InFlight == {a \in Agents : call[a] \in {"held", "calling"}}
Collected == Outstanding = {} /\ ready = <<>>
-----------------------------------------------------------------------------
Init ==
  /\ status = "created"
  /\ saved = NoResult
  /\ pc = "idle"
  /\ phase = 1
  /\ result = NoResult
  /\ restored = NoPhases
  /\ context = Empty
  /\ snapshot = Empty
  /\ call = NoCalls
  /\ attempt = NoAttempts
  /\ ready = <<>>
  /\ cursor = 1
  /\ outcome = "running"

StartAnyConfiguration(cfg, resume) ==   \* (mutant: the fingerprint is not compared)
  /\ pc = "idle"
  /\ result' = [NoResult EXCEPT !.config = cfg, !.status = "running",
                  !.completed = IF resume THEN saved.completed ELSE {}]
  /\ restored' = IF resume THEN [outputs |-> saved.outputs, failed |-> saved.failed] ELSE NoPhases
  /\ context' = Empty /\ status' = "running" /\ pc' = "enter" /\ phase' = 1
  /\ UNCHANGED <<saved, snapshot, call, attempt, ready, cursor, outcome>>
StartWhereSaved(cfg, resume) ==   \* (mutant: a fresh run skips to the saved position)
  /\ pc = "idle"
  /\ result' = [NoResult EXCEPT !.config = cfg, !.status = "running"]
  /\ phase' = Cardinality(saved.completed) + 1
  /\ restored' = NoPhases
  /\ context' = Empty /\ status' = "running" /\ pc' = "enter"
  /\ UNCHANGED <<saved, snapshot, call, attempt, ready, cursor, outcome>>

\* run's prologue: refuse a session already executing, reuse the saved result
\* only if resuming under the same fingerprint, and mark the session running.
\* The saved result stays on disk until the first persist.
Start(cfg, resume) ==
  LET reuse == resume /\ saved.config = cfg
  IN /\ pc = "idle"
     /\ result' = [NoResult EXCEPT !.config = cfg, !.status = "running",
                     !.completed = IF reuse THEN saved.completed ELSE {}]
     /\ restored' = IF reuse THEN [outputs |-> saved.outputs, failed |-> saved.failed]
                             ELSE NoPhases
     /\ context' = Empty
     /\ status' = "running"
     /\ pc' = "enter"
     /\ phase' = 1
     /\ UNCHANGED <<saved, snapshot, call, attempt, ready, cursor, outcome>>

WithFreshPhase(p) ==   \* (mutant: only completed phases are taken over)
  IF p \in result.completed
  THEN [result EXCEPT !.outputs[p] = restored.outputs[p], !.failed[p] = restored.failed[p]]
  ELSE result

\* The result once the loop has appended phase p, restored or new.
WithPhase(p) ==
  [result EXCEPT !.outputs[p] = restored.outputs[p], !.failed[p] = restored.failed[p]]

AbortAsDone(r, why) ==   \* (mutant: an interrupted run with an answer is complete)
  /\ saved' = [r EXCEPT !.status = why]
  /\ outcome' = IF \E p \in Phases : r.outputs[p] # <<>> THEN "completed" ELSE why
  /\ pc' = "settle"
  /\ call' = NoCalls /\ attempt' = NoAttempts /\ ready' = <<>>
  /\ UNCHANGED <<status, phase, restored, snapshot, cursor>>

\* The except clause: persist the result with the reason, then set the status.
Abort(r, why) ==
  /\ saved' = [r EXCEPT !.status = why]
  /\ outcome' = why
  /\ pc' = "settle"
  /\ call' = NoCalls
  /\ attempt' = NoAttempts
  /\ ready' = <<>>
  /\ UNCHANGED <<status, phase, restored, snapshot, cursor>>

\* A phase that is already complete is replayed into the context.
ReplayPhase ==
  /\ pc = "enter"
  /\ phase \in result.completed
  /\ result' = WithPhase(phase)
  /\ context' = [context EXCEPT ![phase] = restored.outputs[phase]]
  /\ phase' = phase + 1
  /\ UNCHANGED <<disk, pc, restored, snapshot, call, attempt, ready, cursor, outcome>>

\* The phase cannot run: nobody may take part, or it asks for the previous
\* output and there is none.
CannotRun(p) ==
  \/ Participants(p, result.outputs) = <<>>
  \/ p \in NeedsPrevious /\ \A q \in 1..(p - 1) : result.outputs[q] = <<>>

Opens(mode) ==
  /\ pc = "enter"
  /\ phase \in Phases \ result.completed
  /\ Mode[phase] = mode

RefusePhase ==
  /\ \E mode \in Modes : Opens(mode)
  /\ CannotRun(phase)
  /\ result' = WithPhase(phase)
  /\ context' = IF Mode[phase] = "round_robin" THEN context
                ELSE [context EXCEPT ![phase] = restored.outputs[phase]]
  /\ Abort(result', "failed")

\* ParallelPattern.execute up to its first await: the context already holds
\* the phase's own saved outputs when the snapshot is taken.
OpenParallel ==
  /\ Opens("parallel")
  /\ ~CannotRun(phase)
  /\ LET todo == ToSet(Roster[phase]) \ Authors(restored.outputs[phase])
     IN call' = [a \in Agents |-> IF a \in todo THEN "queued" ELSE "none"]
  /\ result' = [WithPhase(phase) EXCEPT !.failed[phase] = {}]
  /\ context' = [context EXCEPT ![phase] = restored.outputs[phase]]
  /\ snapshot' = context'
  /\ pc' = "parallel"
  /\ UNCHANGED <<disk, phase, restored, attempt, ready, cursor, outcome>>

NextWithoutSkip(i, from, s, sched) == i = from   \* (mutant: accepted turns are not skipped)

\* Turn i is the next one the loop does not skip; past the end the loop is over.
IsNextTurn(i, from, s, sched) ==
  /\ i \in from..(Len(sched) + 1)
  /\ \A j \in from..(i - 1) : sched[j] \in TurnsOf(s)
  /\ i <= Len(sched) => sched[i] \notin TurnsOf(s)

\* Enter _run_agent for turn i, or leave the loop.
Await(i, sched) ==
  /\ cursor' = i
  /\ IF i > Len(sched)
     THEN pc' = "close" /\ call' = NoCalls /\ attempt' = NoAttempts
     ELSE /\ pc' = "turns"
          /\ call' = [NoCalls EXCEPT ![sched[i].agent] = "held"]
          /\ attempt' = [NoAttempts EXCEPT ![sched[i].agent] = 1]

OpenSequentialKeepingFailures ==   \* (mutant: failed_agents is not reset)
  /\ Opens("sequential")
  /\ ~CannotRun(phase)
  /\ result' = WithPhase(phase)
  /\ context' = [context EXCEPT ![phase] = restored.outputs[phase]]
  /\ LET sched == Schedule(phase, result.outputs)
     IN \E i \in 1..(Len(sched) + 1) :
          IsNextTurn(i, 1, restored.outputs[phase], sched) /\ Await(i, sched)
  /\ UNCHANGED <<disk, phase, restored, snapshot, ready, outcome>>

\* SequentialPattern.execute up to its first await.
OpenSequential ==
  /\ Opens("sequential")
  /\ ~CannotRun(phase)
  /\ result' = [WithPhase(phase) EXCEPT !.failed[phase] = {}]
  /\ context' = [context EXCEPT ![phase] = restored.outputs[phase]]
  /\ LET sched == Schedule(phase, result.outputs)
     IN \E i \in 1..(Len(sched) + 1) :
          IsNextTurn(i, 1, restored.outputs[phase], sched) /\ Await(i, sched)
  /\ UNCHANGED <<disk, phase, restored, snapshot, ready, outcome>>

\* RoundRobinPattern.execute up to its first await: keep the accepted prefix of
\* the schedule, drop the rest, and hydrate the context with it turn by turn.
OpenRoundRobin ==
  /\ Opens("round_robin")
  /\ ~CannotRun(phase)
  /\ LET sched == Schedule(phase, result.outputs)
         old == restored.outputs[phase]
     IN \E k \in 0..Len(sched) :
          /\ IsAcceptedPrefix(k, old, sched)
          /\ result' = [WithPhase(phase) EXCEPT !.failed[phase] = {},
                          !.outputs[phase] = Reuse(k, old, sched)]
          /\ context' = [context EXCEPT ![phase] = Reuse(k, old, sched)]
          /\ Await(k + 1, sched)
  /\ UNCHANGED <<disk, phase, restored, snapshot, ready, outcome>>
-----------------------------------------------------------------------------
AdmitOneMore(a) ==   \* (mutant: off by one)
  /\ pc = "parallel"
  /\ call[a] = "queued"
  /\ Cardinality(InFlight) <= MaxConcurrency
  /\ call' = [call EXCEPT ![a] = "held"]
  /\ attempt' = [attempt EXCEPT ![a] = 1]
  /\ UNCHANGED <<disk, pc, phase, result, restored, context, snapshot, ready, cursor, outcome>>

\* A participant's task gets the semaphore; waiters are served in roster order.
Admit(a) ==
  /\ pc = "parallel"
  /\ call[a] = "queued"
  /\ Cardinality(InFlight) < MaxConcurrency
  /\ \A b \in Agents : call[b] = "queued" => Rank(phase, a) <= Rank(phase, b)
  /\ call' = [call EXCEPT ![a] = "held"]
  /\ attempt' = [attempt EXCEPT ![a] = 1]
  /\ UNCHANGED <<disk, pc, phase, result, restored, context, snapshot, ready, cursor, outcome>>

\* before_turn lets the attempt go ahead: the model is called.
BeginAttempt(a) ==
  /\ pc \in {"parallel", "turns"}
  /\ call[a] = "held"
  /\ call' = [call EXCEPT ![a] = "calling"]
  /\ UNCHANGED <<disk, pc, phase, result, restored, context, snapshot, attempt, ready,
                 cursor, outcome>>

RetryForever(a) ==   \* (mutant: a timeout does not use up an attempt)
  /\ pc \in {"parallel", "turns"}
  /\ call[a] = "calling"
  /\ call' = [call EXCEPT ![a] = "held"]
  /\ UNCHANGED <<disk, pc, phase, result, restored, context, snapshot, attempt, ready, cursor,
                 outcome>>

\* The answer is invalid, late or an error, and an attempt is left.
Retry(a) ==
  /\ pc \in {"parallel", "turns"}
  /\ call[a] = "calling"
  /\ attempt[a] < MaxAttempts
  /\ call' = [call EXCEPT ![a] = "held"]
  /\ attempt' = [attempt EXCEPT ![a] = @ + 1]
  /\ UNCHANGED <<disk, pc, phase, result, restored, context, snapshot, ready, cursor, outcome>>

\* A participant's task ends and frees the semaphore; as_completed will hand
\* its item to the phase.
Finish(a, how) ==
  /\ pc = "parallel"
  /\ call[a] = "calling"
  /\ how = "failed" => attempt[a] = MaxAttempts
  /\ call' = [call EXCEPT ![a] = how]
  /\ ready' = Append(ready, a)
  /\ UNCHANGED <<disk, pc, phase, result, restored, context, snapshot, attempt, cursor, outcome>>

\* _commit: the context, the phase and the session file gain the output.
Commit(t) ==
  LET o == [agent |-> t.agent, round |-> t.round, config |-> result.config]
  IN /\ result' = [result EXCEPT !.outputs[phase] = Append(@, o)]
     /\ context' = [context EXCEPT ![phase] = Append(@, o)]
     /\ saved' = result'
     /\ UNCHANGED status

\* The turn is given up: failed_agents gains it, in memory.
GiveUp(t) ==
  /\ result' = [result EXCEPT !.failed[phase] = @ \cup {t}]
  /\ UNCHANGED <<disk, context>>

\* The phase takes the next finished participant's item.
Collect ==
  /\ pc = "parallel"
  /\ ready # <<>>
  /\ \E a \in Agents :
       /\ a = Head(ready)
       /\ \/ call[a] = "answered" /\ Commit([agent |-> a, round |-> 0])
          \/ call[a] = "failed" /\ GiveUp([agent |-> a, round |-> 0])
       /\ call' = [call EXCEPT ![a] = "none"]
       /\ attempt' = [attempt EXCEPT ![a] = 0]
  /\ ready' = Tail(ready)
  /\ UNCHANGED <<pc, phase, restored, snapshot, cursor, outcome>>

\* The speaker's answer is accepted; the loop goes on to the next open turn.
TakeTurn(t) ==
  LET sched == Schedule(phase, result.outputs)
  IN /\ pc = "turns"
     /\ t = sched[cursor]
     /\ call[t.agent] = "calling"
     /\ Commit(t)
     /\ \E i \in 1..(Len(sched) + 1) :
          IsNextTurn(i, cursor + 1, result.outputs[phase], sched) /\ Await(i, sched)
     /\ UNCHANGED <<phase, restored, snapshot, ready, outcome>>

\* The speaker's last attempt failed: a discussion goes on to the next turn, a
\* sequential phase stops.
LoseTurn(t) ==
  LET sched == Schedule(phase, result.outputs)
  IN /\ pc = "turns"
     /\ t = sched[cursor]
     /\ call[t.agent] = "calling"
     /\ attempt[t.agent] = MaxAttempts
     /\ GiveUp(t)
     /\ Await(IF Mode[phase] = "sequential" THEN Len(sched) + 1 ELSE cursor + 1, sched)
     /\ UNCHANGED <<phase, restored, snapshot, ready, outcome>>
-----------------------------------------------------------------------------
\* What the phase holds when its pattern has returned.
Returned ==
  CASE pc = "close" -> {result}
    [] pc = "parallel" /\ Collected -> Sorted(result, phase)
    [] OTHER -> {}

Disabled(p) == Mode[p] = "round_robin" /\ MaxRounds[p] = 0
TooFew(r, p) == ~Disabled(p) /\ Cardinality(Authors(r.outputs[p])) < MinSuccessful[p]
Broken(r, p) == Mode[p] = "sequential" /\ r.failed[p] # {}

CompletePhaseUnsaved ==   \* (mutant: a completed phase is not persisted)
  \E r \in Returned :
    /\ ~TooFew(r, phase) /\ ~Broken(r, phase)
    /\ result' = [r EXCEPT !.completed = @ \cup {phase}]
    /\ pc' = "enter" /\ phase' = phase + 1 /\ cursor' = 1 /\ snapshot' = Empty
    /\ UNCHANGED <<disk, restored, context, call, attempt, ready, outcome>>

\* The phase counts as complete: recorded and persisted.
CompletePhase ==
  \E r \in Returned :
    /\ ~TooFew(r, phase) /\ ~Broken(r, phase)
    /\ result' = [r EXCEPT !.completed = @ \cup {phase}]
    /\ saved' = result'
    /\ pc' = "enter"
    /\ phase' = phase + 1
    /\ cursor' = 1
    /\ snapshot' = Empty
    /\ UNCHANGED <<status, restored, context, call, attempt, ready, outcome>>

\* The phase fell short: the run fails, with what it has on disk.
FailPhase ==
  \E r \in Returned :
    /\ TooFew(r, phase) \/ Broken(r, phase)
    /\ result' = r
    /\ UNCHANGED context
    /\ Abort(r, "failed")

\* After the last phase: a final output makes the deliberation complete.
Conclude ==
  /\ pc = "enter"
  /\ phase \notin Phases
  /\ IF \A p \in Phases : result.outputs[p] = <<>>
     THEN UNCHANGED <<result, context>> /\ Abort(result, "failed")
     ELSE /\ saved' = [result EXCEPT !.status = "completed"]
          /\ outcome' = IF FinalizeSession THEN "completed" ELSE "running"
          /\ pc' = "settle"
          /\ UNCHANGED <<status, phase, result, restored, context, snapshot, call, attempt,
                         ready, cursor>>

\* The last write of the run, then engine._active forgets the session.
Settle ==
  /\ pc = "settle"
  /\ status' = outcome
  /\ pc' = "idle"
  /\ phase' = 1 /\ result' = NoResult /\ restored' = NoPhases /\ snapshot' = Empty
  /\ cursor' = 1 /\ outcome' = "running"
  /\ UNCHANGED <<saved, context, call, attempt, ready>>
-----------------------------------------------------------------------------
\* The run's task is cancelled while suspended in a turn.
CancelTurn ==
  /\ pc = "turns"
  /\ UNCHANGED <<result, context>>
  /\ Abort(result, "stopped")

\* ... while a parallel phase waits: its participants are cancelled and awaited.
\* A second cancellation reaches the wait itself and skips the sort after it.
CancelParallel ==
  /\ pc \in {"parallel", "unwind"}
  /\ IF pc = "parallel" THEN ~Collected ELSE Outstanding # {}
  /\ pc' = IF pc = "parallel" THEN "unwind" ELSE "unwind_unsorted"
  /\ UNCHANGED <<disk, run, context>>

\* A cancelled participant's task ends; its answer, if any, is lost.
Unwind(a) ==
  /\ pc \in {"unwind", "unwind_unsorted"}
  /\ a \in Outstanding
  /\ call' = [call EXCEPT ![a] = "none"]
  /\ UNCHANGED <<disk, pc, phase, result, restored, context, snapshot, attempt, ready,
                 cursor, outcome>>

\* All participants have ended; items not collected are dropped.
StopParallel ==
  /\ Outstanding = {}
  /\ \/ pc = "unwind" /\ result' \in Sorted(result, phase)
     \/ pc = "unwind_unsorted" /\ result' = result
  /\ UNCHANGED context
  /\ Abort(result', "stopped")

\* The process dies: only the session file is left.
Crash ==
  /\ pc # "idle"
  /\ pc' = "idle"
  /\ phase' = 1 /\ result' = NoResult /\ restored' = NoPhases
  /\ context' = Empty /\ snapshot' = Empty
  /\ call' = NoCalls /\ attempt' = NoAttempts /\ ready' = <<>>
  /\ cursor' = 1 /\ outcome' = "running"
  /\ UNCHANGED disk
-----------------------------------------------------------------------------
Open == ReplayPhase \/ RefusePhase \/ OpenParallel \/ OpenSequential \/ OpenRoundRobin
Step(a) ==
  \/ Admit(a) \/ BeginAttempt(a) \/ Retry(a)
  \/ Finish(a, "answered") \/ Finish(a, "failed")
  \/ Unwind(a)
Progress ==
  \/ Open
  \/ \E a \in Agents : Step(a)
  \/ Collect
  \/ \E t \in Turn : TakeTurn(t) \/ LoseTurn(t)
  \/ CompletePhase \/ FailPhase \/ Conclude \/ StopParallel \/ Settle
Cancel == CancelTurn \/ CancelParallel
Next ==
  \/ \E cfg \in Configurations, resume \in BOOLEAN : Start(cfg, resume)
  \/ Progress
  \/ Cancel
  \/ Crash

Spec == Init /\ [][Next]_vars
-----------------------------------------------------------------------------
\* Every attempt is bounded by asyncio.timeout and the event loop runs what is
\* ready, so a run that before_turn does not hold keeps moving.  Starting,
\* cancelling and crashing are nobody's duty.
FairSpec == Spec /\ WF_vars(Progress)

TypeOK ==
  /\ status \in {"created", "running", "completed", "failed", "stopped"}
  /\ saved \in Results /\ result \in Results
  /\ pc \in {"idle", "enter", "turns", "parallel", "close", "unwind", "unwind_unsorted",
             "settle"}
  /\ phase \in Nat
  /\ restored \in [outputs : [Phases -> Seq(Output)], failed : [Phases -> SUBSET Turn]]
  /\ context \in [Phases -> Seq(Output)] /\ snapshot \in [Phases -> Seq(Output)]
  /\ call \in [Agents -> {"none", "queued", "held", "calling", "answered", "failed"}]
  /\ attempt \in [Agents -> 0..MaxAttempts]
  /\ ready \in Seq(Agents)
  /\ cursor \in Nat
  /\ outcome \in {"running", "completed", "failed", "stopped"}

\* Recovery can trust the session file whatever interrupted the last run: the
\* completed phases are a prefix of the configured ones, and no work is saved
\* beyond the first incomplete phase (engine.py:117-130).
InOrder(r) ==
  \E n \in 0..PhaseCount :
    /\ r.completed = 1..n
    /\ \A p \in Phases : p > n + 1 => r.outputs[p] = <<>>
PhasesInOrder == InOrder(saved)

\* A phase recorded as complete met its contract: enough participants, every
\* step of a chain, and outputs in the configured order however the calls
\* finished (engine.py:176-188, patterns.py:147-150).
Fulfilled(r, p) ==
  /\ ~TooFew(r, p)
  /\ Mode[p] = "sequential" => Authors(r.outputs[p]) = ToSet(Roster[p])
  /\ Mode[p] = "parallel" => InRosterOrder(p, r.outputs[p])
CompletedPhasesFulfilled == \A p \in saved.completed : Fulfilled(saved, p)

\* Recovery never declares an unfinished review complete (README.md:115).
CompletedIsWhole ==
  status = "completed" \/ saved.status = "completed" => saved.completed = Phases

\* A speaker is shown exactly the accepted outputs of the phases reached and, in
\* its own discussion, of turns scheduled before its own (README.md:113).
SpeakersHearThePast ==
  pc = "turns" =>
    /\ \A p \in Phases : p < phase => ToSet(context[p]) = ToSet(result.outputs[p])
    /\ \A p \in Phases : p > phase => context[p] = <<>>
    /\ \A t \in TurnsOf(context[phase]) :
         \E j \in 1..(cursor - 1) : Schedule(phase, result.outputs)[j] = t

\* No turn is accepted twice, nor shown twice, nor asked for once accepted.
Distinct(s) == \A i, j \in DOMAIN s : TurnOf(s[i]) = TurnOf(s[j]) => i = j
EachTurnOnce ==
  /\ \A p \in Phases : Distinct(saved.outputs[p]) /\ Distinct(context[p])
  /\ pc = "parallel" =>
       \A a \in Agents : call[a] # "none" => a \notin Authors(context[phase])

\* A resumed run never loses what it took over: at every write the session file
\* still holds each restored output, in a discussion each one up to the first
\* gap (README.md:113, README.md:192).
RestoredWorkKept ==
  pc # "idle" =>
    \A p \in Phases :
      IF Mode[p] # "round_robin"
      THEN ToSet(restored.outputs[p]) \subseteq ToSet(saved.outputs[p])
      ELSE LET sched == Schedule(p, saved.outputs)
           IN \A k \in 0..Len(sched) :
                IsAcceptedPrefix(k, restored.outputs[p], sched) =>
                  \A i \in 1..k : sched[i] \in TurnsOf(saved.outputs[p])

\* Every output in the session file, and every output an agent is shown, was
\* produced under the configuration the result is labelled with.
OneConfiguration ==
  \A p \in Phases :
    /\ \A i \in DOMAIN saved.outputs[p] : saved.outputs[p][i].config = saved.config
    /\ pc # "idle" =>
         \A i \in DOMAIN context[p] : context[p][i].config = result.config

\* Only the authors of accepted independent assessments join the discussion,
\* also when the panel is restored from disk (engine.py:135-137, 189-190).
PanelOnly ==
  Synthesis =>
    \A p \in Phases : Mode[p] = "round_robin" =>
      \A q \in IndependentPhase(p) :
        Authors(saved.outputs[p]) \subseteq Authors(saved.outputs[q])

\* Calls in flight stay within max_concurrency, and none outlives the run:
\* cancellation leaves no participant running when the session is released.
CallsAreBounded ==
  /\ Cardinality(InFlight) <= MaxConcurrency
  /\ pc \in {"idle", "enter", "close", "settle"} => Outstanding = {}

\* A run that is not held comes to an end.
RunSettles == pc # "idle" ~> pc = "idle"

\* Faults and changes of mind stop: the run is resumed under one configuration
\* and every answer is accepted.
Benign(cfg) ==
  /\ ~Cancel /\ ~Crash
  /\ \A a \in Agents : ~Retry(a) /\ ~Finish(a, "failed")
  /\ \A t \in Turn : ~LoseTurn(t)
  /\ \A c \in Configurations, resume \in BOOLEAN : Start(c, resume) => c = cfg /\ resume

\* Whatever interrupted it before, a deliberation that is retried under one
\* configuration completes once the faults stop.
RetryCompletes ==
  \A cfg \in Configurations :
    <>[][Benign(cfg)]_vars /\ []<>(pc # "idle") =>
      []<>(saved.status = "completed" /\ saved.config = cfg)

\* The session as those see it who start, stop, retry and read it.
Durable == INSTANCE DurableReview WITH
  kept <- [config |-> saved.config, done |-> saved.completed,
           whole |-> saved.status = "completed"],
  live <- IF pc = "idle" THEN [config |-> NoConfiguration, done |-> {}]
          ELSE [config |-> result.config, done |-> result.completed],
  told <- status = "completed"

\* Interrupted, retried and crashing at any write, with any number of calls in
\* flight, the engine keeps one record that gains the phases in order, goes on
\* from it under the same configuration only, and is completed when it is whole.
IsDurable == Durable!Spec

\* patterns.py:126: "Each participant receives the same pre-phase state,
\* including on retry."
SamePrePhaseState == pc = "parallel" => snapshot[phase] = <<>>
=============================================================================
