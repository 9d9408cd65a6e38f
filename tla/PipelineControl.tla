-------------------------- MODULE PipelineControl ---------------------------
(***************************************************************************)
(* A user's pause, advance, resume and cancel against a pipeline that is   *)
(* running (protoneo/api/pipeline_control.py): the task of the pipeline    *)
(* itself, which stops before every step and at the inspection gate, and   *)
(* the participants of its review panel, which share a semaphore and stop  *)
(* before every attempt (before_turn in deliberation/patterns.py).         *)
(*                                                                         *)
(* A step is what one task does between two awaits.  The gate is an        *)
(* asyncio.Event: set() releases everyone waiting at that moment, each of  *)
(* them runs later, whatever became of the event meanwhile.                *)
(***************************************************************************)
EXTENDS Naturals, FiniteSets

CONSTANTS
  Main,            \* the pipeline's task
  Panel,           \* the participants of the parallel phase
  MaxConcurrency,  \* of the panel's semaphore
  StepsBefore,     \* stops before the gate
  CallsEach,       \* stops of each participant, one per attempt
  StepsAfter       \* stops after the panel

ASSUME ControlAssumption ==
  /\ IsFiniteSet(Panel) /\ Main \notin Panel
  /\ MaxConcurrency \in Nat \ {0}
  /\ StepsBefore \in Nat /\ CallsEach \in Nat \ {0} /\ StepsAfter \in Nat

VARIABLES
  autoAdvance, skipGate, paused, cancelled, advancePending,  \* the flags of PipelineControl
  gate,         \* whether the event is set
  stage,        \* where the pipeline's task is in its program
  at,           \* what each task is doing
  todo,         \* stops each task has left in the current stage
  interrupted,  \* tasks with a CancelledError on its way
  acted,        \* history: advance or resume since the last stop that was enforced
  extra         \* history: tasks that began work since the user's last word, unless resumed

control == <<autoAdvance, skipGate, cancelled>>
history == <<acted, extra>>
vars == <<control, paused, advancePending, gate, stage, at, todo, interrupted, history>>

Workers == {Main} \cup Panel
Positions == {"absent", "queued", "working", "waiting", "woken", "panel", "unwinding", "done"}
Busy == {r \in Panel : at[r] \in {"working", "waiting", "woken"}}   \* holds the semaphore

Init ==
  /\ autoAdvance = TRUE /\ skipGate \in BOOLEAN /\ paused = FALSE
  /\ cancelled = FALSE /\ advancePending = FALSE /\ gate = TRUE
  /\ stage = "pre_review"
  /\ at = [w \in Workers |-> IF w = Main THEN "working" ELSE "absent"]
  /\ todo = [w \in Workers |-> IF w = Main THEN StepsBefore ELSE CallsEach]
  /\ interrupted = [w \in Workers |-> FALSE]
  /\ acted = FALSE /\ extra = {}
-----------------------------------------------------------------------------
\* A task begins its next piece of work; the stop before it was enforced if the
\* user had to let it pass.
Begin(w, enforced) ==
  /\ at' = [at EXCEPT ![w] = "working"]
  /\ acted' = (acted /\ ~enforced)
  /\ extra' = IF autoAdvance THEN extra ELSE extra \cup {w}

\* CancelledError: the task ends, and its semaphore slot is free.
Raise(w) ==
  /\ at' = [at EXCEPT ![w] = "done"]
  /\ UNCHANGED history

HoldWithoutClear(w) ==   \* (mutant: the event is not cleared before it is awaited)
  /\ gate' = gate
  /\ paused' = TRUE
  /\ at' = [at EXCEPT ![w] = IF gate THEN "woken" ELSE "waiting"]
  /\ UNCHANGED <<advancePending, history>>

Hold(w) ==
  /\ gate' = FALSE
  /\ paused' = TRUE
  /\ at' = [at EXCEPT ![w] = "waiting"]
  /\ UNCHANGED <<advancePending, history>>

WaitIfPausedKeepingToken(w) ==   \* (mutant: the early return leaves the token)
  \/ /\ autoAdvance
     /\ IF cancelled THEN Raise(w) ELSE Begin(w, FALSE)
     /\ UNCHANGED <<paused, advancePending, gate>>
  \/ /\ ~autoAdvance /\ advancePending /\ ~cancelled
     /\ Begin(w, TRUE)
     /\ UNCHANGED <<paused, advancePending, gate>>
  \/ ~autoAdvance /\ (cancelled \/ ~advancePending) /\ Hold(w)

\* wait_if_paused up to its await.
WaitIfPaused(w) ==
  \/ /\ autoAdvance
     /\ IF cancelled THEN Raise(w) ELSE Begin(w, FALSE)
     /\ UNCHANGED <<paused, advancePending, gate>>
  \/ /\ ~autoAdvance /\ advancePending /\ ~cancelled
     /\ advancePending' = FALSE
     /\ Begin(w, TRUE)
     /\ UNCHANGED <<paused, gate>>
  \/ ~autoAdvance /\ (cancelled \/ ~advancePending) /\ Hold(w)

\* Past the gate, the pipeline starts the panel's tasks and awaits them.
OpenPanel ==
  /\ stage' = "panel"
  /\ at' = [w \in Workers |-> IF w = Main THEN "panel" ELSE "queued"]

\* wait_for_gate up to its await.
WaitForGate ==
  IF cancelled
  THEN Raise(Main) /\ UNCHANGED <<paused, advancePending, gate, stage>>
  ELSE \/ /\ skipGate \/ advancePending
          /\ advancePending' = FALSE
          /\ OpenPanel
          /\ acted' = (acted /\ skipGate)
          /\ UNCHANGED <<paused, gate, extra>>
       \/ /\ ~skipGate /\ ~advancePending
          /\ stage' = "gate"
          /\ Hold(Main)
-----------------------------------------------------------------------------
\* A task reaches its next stop.
FinishStep(w) ==
  /\ at[w] = "working" /\ ~interrupted[w]
  /\ todo[w] > 0
  /\ todo' = [todo EXCEPT ![w] = @ - 1]
  /\ WaitIfPaused(w)
  /\ UNCHANGED <<control, stage, interrupted>>

ReachGate ==
  /\ at[Main] = "working" /\ ~interrupted[Main]
  /\ stage = "pre_review" /\ todo[Main] = 0
  /\ WaitForGate
  /\ UNCHANGED <<control, todo, interrupted>>

\* A task returns: a participant with its answer, the pipeline at its end.
Return(w) ==
  /\ at[w] = "working" /\ ~interrupted[w]
  /\ todo[w] = 0
  /\ w = Main => stage = "after"
  /\ at' = [at EXCEPT ![w] = "done"]
  /\ UNCHANGED <<control, paused, advancePending, gate, stage, todo, interrupted, history>>

\* A participant gets the semaphore and comes to its first stop.
Admit(r) ==
  /\ at[r] = "queued" /\ ~interrupted[r]
  /\ Cardinality(Busy) < MaxConcurrency
  /\ todo' = [todo EXCEPT ![r] = @ - 1]
  /\ WaitIfPaused(r)
  /\ UNCHANGED <<control, stage, interrupted>>

PanelDone ==
  /\ at[Main] = "panel" /\ ~interrupted[Main]
  /\ \A r \in Panel : at[r] = "done"
  /\ stage' = "after"
  /\ at' = [at EXCEPT ![Main] = "working"]
  /\ todo' = [todo EXCEPT ![Main] = StepsAfter]
  /\ UNCHANGED <<control, paused, advancePending, gate, interrupted, history>>

WakeUnaware(w) ==   \* (mutant: cancellation is not looked at after the wait)
  /\ at[w] = "woken" /\ ~interrupted[w]
  /\ paused' = FALSE /\ advancePending' = FALSE
  /\ IF w = Main /\ stage = "gate"
     THEN OpenPanel /\ acted' = FALSE /\ UNCHANGED extra
     ELSE Begin(w, TRUE) /\ UNCHANGED stage
  /\ UNCHANGED <<control, gate, todo, interrupted>>
WakeAndCheckAgain(w) ==   \* (mutant: a condition is waited for, not an event)
  /\ at[w] = "woken" /\ ~interrupted[w]
  /\ IF autoAdvance
     THEN /\ paused' = FALSE /\ advancePending' = FALSE
          /\ IF cancelled
             THEN Raise(w) /\ UNCHANGED stage
             ELSE IF w = Main /\ stage = "gate"
                  THEN OpenPanel /\ acted' = FALSE /\ UNCHANGED extra
                  ELSE Begin(w, TRUE) /\ UNCHANGED stage
          /\ UNCHANGED gate
     ELSE Hold(w) /\ UNCHANGED stage
  /\ UNCHANGED <<control, todo, interrupted>>

\* wait_if_paused or wait_for_gate after its await.
Wake(w) ==
  /\ at[w] = "woken" /\ ~interrupted[w]
  /\ paused' = FALSE /\ advancePending' = FALSE
  /\ IF cancelled
     THEN Raise(w) /\ UNCHANGED stage
     ELSE IF w = Main /\ stage = "gate"
          THEN OpenPanel /\ acted' = FALSE /\ UNCHANGED extra
          ELSE Begin(w, TRUE) /\ UNCHANGED stage
  /\ UNCHANGED <<control, gate, todo, interrupted>>

\* The CancelledError arrives.  A pipeline that awaits its panel cancels the
\* participants and awaits their end.
Deliver(w) ==
  /\ interrupted[w]
  /\ at[w] \notin {"absent", "unwinding", "done"}
  /\ IF at[w] = "panel"
     THEN /\ at' = [at EXCEPT ![w] = "unwinding"]
          /\ interrupted' = [v \in Workers |-> interrupted[v] \/ v \in Panel]
     ELSE /\ at' = [at EXCEPT ![w] = "done"]
          /\ UNCHANGED interrupted
  /\ UNCHANGED <<control, paused, advancePending, gate, stage, todo, history>>

Unwound ==
  /\ at[Main] = "unwinding"
  /\ \A r \in Panel : at[r] = "done"
  /\ at' = [at EXCEPT ![Main] = "done"]
  /\ UNCHANGED <<control, paused, advancePending, gate, stage, todo, interrupted, history>>
-----------------------------------------------------------------------------
\* The control is registered, and reached by the API, until the pipeline ends.
Registered == at[Main] # "done"

Set == gate' = TRUE /\ at' = [w \in Workers |-> IF at[w] = "waiting" THEN "woken" ELSE at[w]]

Advance ==
  /\ Registered
  /\ advancePending' = TRUE /\ paused' = FALSE
  /\ Set
  /\ acted' = TRUE /\ extra' = {}
  /\ UNCHANGED <<control, stage, todo, interrupted>>

Pause ==
  /\ Registered
  /\ autoAdvance' = FALSE /\ paused' = TRUE /\ gate' = FALSE
  /\ extra' = {}
  /\ UNCHANGED <<skipGate, cancelled, advancePending, stage, at, todo, interrupted, acted>>

Resume ==
  /\ Registered
  /\ autoAdvance' = TRUE /\ paused' = FALSE
  /\ Set
  /\ acted' = TRUE /\ extra' = {}
  /\ UNCHANGED <<skipGate, cancelled, advancePending, stage, todo, interrupted>>

CancelGateOnly ==   \* (mutant: the task is left to notice by itself)
  /\ Registered
  /\ cancelled' = TRUE /\ paused' = FALSE
  /\ Set
  /\ UNCHANGED <<autoAdvance, skipGate, advancePending, stage, todo, interrupted, history>>

Cancel ==
  /\ Registered
  /\ cancelled' = TRUE /\ paused' = FALSE
  /\ Set
  /\ interrupted' = [interrupted EXCEPT ![Main] = TRUE]
  /\ UNCHANGED <<autoAdvance, skipGate, advancePending, stage, todo, history>>
-----------------------------------------------------------------------------
Run(w) == FinishStep(w) \/ Return(w) \/ Wake(w) \/ Deliver(w)
Progress ==
  \/ \E w \in Workers : Run(w)
  \/ \E r \in Panel : Admit(r)
  \/ ReachGate \/ PanelDone \/ Unwound
User == Advance \/ Pause \/ Resume \/ Cancel
Next == Progress \/ User
Spec == Init /\ [][Next]_vars

\* Every piece of work is bounded by a timeout and the event loop runs whatever
\* is ready.  The user owes the pipeline nothing.
FairSpec == Spec /\ WF_vars(Progress)

TypeOK ==
  /\ autoAdvance \in BOOLEAN /\ skipGate \in BOOLEAN /\ paused \in BOOLEAN
  /\ cancelled \in BOOLEAN /\ advancePending \in BOOLEAN /\ gate \in BOOLEAN
  /\ stage \in {"pre_review", "gate", "panel", "after"}
  /\ at \in [Workers -> Positions]
  /\ todo \in [Workers -> Nat]
  /\ interrupted \in [Workers -> BOOLEAN]
  /\ acted \in BOOLEAN /\ extra \subseteq Workers

\* The pipeline's task never passes two enforced stops on one word of the user:
\* since the last one it passed, advance or resume was called.  In particular
\* the review begins behind an inspection gate only if the user acted after the
\* last pause that was passed (pipeline_control.py:46-77).
PassesStop ==
  \/ at[Main] = "woken" /\ at'[Main] \in {"working", "panel"}
  \/ at[Main] = "working" /\ at'[Main] = "working" /\ advancePending /\ ~advancePending'
  \/ at[Main] = "working" /\ at'[Main] = "panel" /\ ~skipGate
OneStopPerAdvance == [][PassesStop => acted]_vars

\* A task gets past a stop, or past the semaphore and its first stop.
Begins(w) ==
  /\ at'[w] = "working"
  /\ \/ at[w] \in {"queued", "woken"}
     \/ at[w] = "working" /\ todo'[w] # todo[w]

\* Pausing takes hold: after the user's last word, unless it was resume, each
\* task begins at most one more piece of work (pipeline_control.py:65-77).
OncePerWord == ~autoAdvance => \A w \in Workers : Begins(w) => w \notin extra
PauseTakesHold == [][OncePerWord]_vars

\* A cancelled pipeline begins no work, neither in a participant that was held
\* at a stop nor in one admitted to the semaphore afterwards
\* (pipeline_control.py:59-77, 94-99).
NoWorkAfterCancel == [][cancelled => \A w \in Workers : ~Begins(w)]_vars

\* A cancelled pipeline ends, paused or not, and so do its participants.
CancelledPipelineEnds ==
  cancelled ~> \A w \in Workers : at[w] \in {"absent", "done"}

\* A pipeline whose stops are always released in the end comes to its end: no
\* release is lost, however pauses and releases interleave.
AnsweredPipelineEnds ==
  []<>(\A w \in Workers : at[w] # "waiting") => <>(at[Main] = "done")
=============================================================================
