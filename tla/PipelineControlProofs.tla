----------------------- MODULE PipelineControlProofs ------------------------
(***************************************************************************)
(* What a user's word means to a running pipeline, for any panel and any   *)
(* number of steps: one advance lets the pipeline pass one stop, a pause   *)
(* lets each task begin one more piece of work, and a cancelled pipeline   *)
(* begins nothing.                                                         *)
(***************************************************************************)
EXTENDS PipelineControl, TLAPS

\* Only the panel runs while the pipeline awaits it, and the pipeline runs
\* alone otherwise; it queues for nothing itself.
Alone ==
  /\ at[Main] \in {"working", "waiting", "woken"} =>
       \A r \in Panel : at[r] \in {"absent", "done"}
  /\ at[Main] # "queued"
\* What lets a stop pass is the user's word: the token, or having been woken.
Earned ==
  /\ advancePending => acted
  /\ at[Main] = "woken" => acted \/ cancelled
\* The panel's tasks do not exist before the gate, and begin with all their stops.
Fresh ==
  /\ stage \in {"pre_review", "gate"} => \A r \in Panel : at[r] = "absent"
  /\ \A r \in Panel : at[r] \in {"absent", "queued"} => todo[r] = CallsEach
ControlInv == TypeOK /\ Alone /\ Earned /\ Fresh

-----------------------------------------------------------------------------
LEMMA Typing ==
  ASSUME ControlInv
  PROVE  /\ Main \in Workers /\ Panel \subseteq Workers /\ Workers = {Main} \cup Panel
         /\ at \in [Workers -> Positions] /\ todo \in [Workers -> Nat]
         /\ interrupted \in [Workers -> BOOLEAN]
BY DEF ControlInv, TypeOK, Workers

LEMMA ControlInit == Init => ControlInv
<1> SUFFICES ASSUME Init PROVE ControlInv
  OBVIOUS
<1>1. Main \in Workers /\ \A r \in Panel : r \in Workers /\ r # Main
  BY ControlAssumption DEF Workers
<1>2. TypeOK
  BY ControlAssumption DEF Init, TypeOK, Positions
<1>3. at[Main] = "working" /\ \A r \in Panel : at[r] = "absent" /\ todo[r] = CallsEach
  BY <1>1 DEF Init
<1>4. QED
  BY <1>2, <1>3 DEF Init, ControlInv, Alone, Earned, Fresh

\* What a stop does to the flags.
LEMMA StopFlags ==
  ASSUME ControlInv, NEW w \in Workers, WaitIfPaused(w)
  PROVE  /\ at' \in [Workers -> Positions]
         /\ at'[w] \in {"working", "waiting", "done"}
         /\ \A v \in Workers : v # w => at'[v] = at[v]
         /\ advancePending' \in BOOLEAN /\ paused' \in BOOLEAN /\ gate' \in BOOLEAN
         /\ acted' \in BOOLEAN /\ extra' \subseteq Workers
         /\ advancePending' => acted'
<1>1. advancePending => acted
  BY DEF ControlInv, Earned
<1>2. /\ at \in [Workers -> Positions] /\ extra \subseteq Workers
      /\ advancePending \in BOOLEAN /\ paused \in BOOLEAN /\ gate \in BOOLEAN
      /\ acted \in BOOLEAN
  BY DEF ControlInv, TypeOK
<1>3. CASE /\ autoAdvance
           /\ IF cancelled THEN Raise(w) ELSE Begin(w, FALSE)
           /\ UNCHANGED <<paused, advancePending, gate>>
  <2>1. CASE cancelled
    BY <1>1, <1>2, <1>3, <2>1 DEF Raise, history, Positions
  <2>2. CASE ~cancelled
    <3>1. /\ at' = [at EXCEPT ![w] = "working"]
          /\ acted' = (acted /\ ~FALSE) /\ extra' = extra
      BY <1>3, <2>2 DEF Begin
    <3>2. acted' = acted
      BY <1>2, <3>1
    <3>3. QED
      BY <1>1, <1>2, <1>3, <3>1, <3>2 DEF Positions
  <2>3. QED
    BY <2>1, <2>2
<1>4. CASE /\ ~autoAdvance /\ advancePending /\ ~cancelled
           /\ advancePending' = FALSE
           /\ Begin(w, TRUE)
           /\ UNCHANGED <<paused, gate>>
  <2>1. acted' = (acted /\ ~TRUE) /\ at' = [at EXCEPT ![w] = "working"]
        /\ extra' = extra \cup {w}
    BY <1>4 DEF Begin
  <2>2. acted' = FALSE
    BY <2>1
  <2>3. QED
    BY <1>2, <1>4, <2>1, <2>2 DEF Positions
<1>5. CASE Hold(w)
  BY <1>1, <1>2, <1>5 DEF Hold, history, Positions
<1>6. QED
  BY <1>3, <1>4, <1>5 DEF WaitIfPaused

\* A stop, wherever a task comes to it.
LEMMA StopInv ==
  ASSUME ControlInv, NEW w \in Workers, at[w] \in {"working", "queued"}, WaitIfPaused(w),
         UNCHANGED <<control, stage, interrupted>>,
         todo' = [todo EXCEPT ![w] = @ - 1], todo[w] > 0
  PROVE  ControlInv'
<1>1. todo' \in [Workers -> Nat] /\ \A v \in Workers : v # w => todo'[v] = todo[v]
  BY Typing
<1>2. TypeOK'
  BY <1>1, StopFlags DEF ControlInv, TypeOK, control
<1>3. Fresh'
  BY <1>1, StopFlags, Typing DEF ControlInv, Fresh
<1>4. CASE w = Main
  <2>1. \A r \in Panel : at[r] \in {"absent", "done"} /\ at'[r] = at[r]
    BY <1>4, StopFlags, Typing, ControlAssumption DEF ControlInv, Alone
  <2>2. QED
    BY <1>2, <1>3, <1>4, <2>1, StopFlags DEF ControlInv, Alone, Earned
<1>5. CASE w # Main
  <2>1. w \in Panel /\ at[Main] \notin {"working", "waiting", "woken"} /\ at'[Main] = at[Main]
    BY <1>5, StopFlags, Typing DEF ControlInv, Alone
  <2>2. QED
    BY <1>2, <1>3, <2>1, StopFlags DEF ControlInv, Alone, Earned
<1>6. QED
  BY <1>4, <1>5

\* The panel is opened by a pipeline that runs alone.
LEMMA OpenPanelInv ==
  ASSUME ControlInv, OpenPanel, stage \in {"pre_review", "gate"}, advancePending' = FALSE,
         paused' \in BOOLEAN, gate' \in BOOLEAN, acted' \in BOOLEAN,
         UNCHANGED <<control, todo, interrupted, extra>>
  PROVE  ControlInv'
<1>1. at' \in [Workers -> Positions] /\ at'[Main] = "panel"
  BY Typing DEF OpenPanel, Positions
<1>2. \A r \in Panel : todo[r] = CallsEach
  BY DEF ControlInv, Fresh
<1>3. QED
  BY <1>1, <1>2 DEF OpenPanel, ControlInv, TypeOK, Alone, Earned, Fresh, control

\* A task that ends.
LEMMA EndInv ==
  ASSUME ControlInv, NEW w \in Workers, at[w] # "absent", at' = [at EXCEPT ![w] = "done"],
         UNCHANGED <<control, gate, stage, todo, interrupted, acted, extra>>,
         paused' \in BOOLEAN, advancePending' = advancePending \/ advancePending' = FALSE
  PROVE  ControlInv'
<1>1. at' \in [Workers -> Positions]
  BY Typing DEF Positions
<1>2. at'[Main] \in {at[Main], "done"} /\ \A r \in Panel : at'[r] \in {at[r], "done"}
  BY Typing
<1>3. \A r \in Panel : at[r] = "absent" => at'[r] = "absent"
  BY Typing
<1>4. TypeOK'
  <2>1. advancePending' \in BOOLEAN
    BY DEF ControlInv, TypeOK
  <2>2. QED
    BY <1>1, <2>1 DEF ControlInv, TypeOK, control
<1>5. Alone'
  BY <1>2 DEF ControlInv, Alone
<1>6. Earned'
  BY <1>2 DEF ControlInv, Earned, control
<1>7. Fresh'
  <2>1. ASSUME stage' \in {"pre_review", "gate"}, NEW r \in Panel PROVE at'[r] = "absent"
    BY <1>3, <2>1 DEF ControlInv, Fresh
  <2>2. ASSUME NEW r \in Panel, at'[r] \in {"absent", "queued"} PROVE todo'[r] = CallsEach
    BY <1>2, <2>2 DEF ControlInv, Fresh
  <2>3. QED
    BY <2>1, <2>2 DEF Fresh
<1>8. QED
  BY <1>4, <1>5, <1>6, <1>7 DEF ControlInv

LEMMA WakeInv ==
  ASSUME ControlInv, NEW w \in Workers, Wake(w) PROVE ControlInv'
<1>1. CASE cancelled
  BY <1>1, EndInv DEF Wake, Raise, control, history
<1>2. CASE ~cancelled /\ w = Main /\ stage = "gate"
  <2>1. /\ OpenPanel /\ stage \in {"pre_review", "gate"} /\ advancePending' = FALSE
        /\ paused' = FALSE /\ acted' = FALSE /\ gate' = gate
        /\ UNCHANGED <<control, todo, interrupted, extra>>
    BY <1>2 DEF Wake
  <2>2. paused' \in BOOLEAN /\ acted' \in BOOLEAN /\ gate' \in BOOLEAN
    BY <2>1 DEF ControlInv, TypeOK
  <2>3. QED
    BY <2>1, <2>2, OpenPanelInv
<1>3. CASE ~cancelled /\ ~(w = Main /\ stage = "gate")
  <2>1. /\ at' = [at EXCEPT ![w] = "working"] /\ at[w] = "woken"
        /\ advancePending' = FALSE /\ paused' = FALSE
        /\ acted' = (acted /\ ~TRUE)
        /\ extra' \in {extra, extra \cup {w}}
        /\ UNCHANGED <<control, gate, stage, todo, interrupted>>
    BY <1>3 DEF Wake, Begin
  <2>2. acted' = FALSE
    BY <2>1
  <2>3. at' \in [Workers -> Positions] /\ at'[w] = "working"
        /\ \A v \in Workers : v # w => at'[v] = at[v]
    BY <2>1, Typing DEF Positions
  <2>4. TypeOK'
    BY <2>1, <2>2, <2>3 DEF ControlInv, TypeOK, control
  <2>5. Fresh'
    BY <2>1, <2>3, Typing DEF ControlInv, Fresh
  <2>6. CASE w = Main
    <3>1. \A r \in Panel : at[r] \in {"absent", "done"} /\ at'[r] = at[r]
      BY <2>1, <2>3, <2>6, Typing, ControlAssumption DEF ControlInv, Alone
    <3>2. QED
      BY <2>1, <2>3, <2>4, <2>5, <2>6, <3>1 DEF ControlInv, Alone, Earned
  <2>7. CASE w # Main
    <3>1. at[Main] \notin {"working", "waiting", "woken"} /\ at'[Main] = at[Main]
      BY <2>1, <2>3, <2>7, Typing DEF ControlInv, Alone
    <3>2. QED
      BY <2>1, <2>4, <2>5, <3>1 DEF ControlInv, Alone, Earned
  <2>8. QED
    BY <2>6, <2>7
<1>4. QED
  BY <1>1, <1>2, <1>3

LEMMA UserInv ==
  ASSUME ControlInv, User PROVE ControlInv'
<1>1. CASE Pause
  BY <1>1 DEF Pause, ControlInv, TypeOK, Alone, Earned, Fresh
<1>2. CASE Advance \/ Resume \/ Cancel
  <2>1. Set /\ UNCHANGED <<stage, todo, skipGate>>
    BY <1>2 DEF Advance, Resume, Cancel, control
  <2>2. at' \in [Workers -> Positions] /\ gate' = TRUE
    BY <2>1, Typing DEF Set, Positions
  <2>3. \A w \in Workers : at'[w] = IF at[w] = "waiting" THEN "woken" ELSE at[w]
    BY <2>1 DEF Set
  <2>4. Alone'
    BY <2>3, Typing DEF ControlInv, Alone
  <2>5. Fresh'
    BY <2>1, <2>3, Typing DEF ControlInv, Fresh
  <2>6. CASE Advance
    <3>1. /\ advancePending' = TRUE /\ paused' = FALSE /\ acted' = TRUE /\ extra' = {}
          /\ UNCHANGED <<autoAdvance, skipGate, cancelled, stage, todo, interrupted>>
      BY <2>6 DEF Advance, control
    <3>2. QED
      BY <2>2, <2>4, <2>5, <3>1 DEF ControlInv, TypeOK, Earned
  <2>7. CASE Resume
    <3>1. /\ autoAdvance' = TRUE /\ paused' = FALSE /\ acted' = TRUE /\ extra' = {}
          /\ UNCHANGED <<skipGate, cancelled, advancePending, stage, todo, interrupted>>
      BY <2>7 DEF Resume
    <3>2. QED
      BY <2>2, <2>4, <2>5, <3>1 DEF ControlInv, TypeOK, Earned
  <2>8. CASE Cancel
    <3>1. /\ cancelled' = TRUE /\ paused' = FALSE
          /\ interrupted' \in [Workers -> BOOLEAN]
          /\ UNCHANGED <<autoAdvance, skipGate, advancePending, stage, todo, acted, extra>>
      BY <2>8, Typing DEF Cancel, history
    <3>2. QED
      BY <2>2, <2>4, <2>5, <3>1 DEF ControlInv, TypeOK, Earned
  <2>9. QED
    BY <1>2, <2>6, <2>7, <2>8
<1>3. QED
  BY <1>1, <1>2 DEF User

LEMMA GateInv ==
  ASSUME ControlInv, ReachGate PROVE ControlInv'
<1>1. at[Main] = "working" /\ stage = "pre_review" /\ UNCHANGED <<control, todo, interrupted>>
  BY DEF ReachGate
<1>2. CASE cancelled
  BY <1>1, <1>2, EndInv, Typing
  DEF ReachGate, WaitForGate, Raise, history, ControlInv, TypeOK
<1>3. CASE ~cancelled /\ (skipGate \/ advancePending)
  <2>1. /\ advancePending' = FALSE /\ OpenPanel /\ acted' = (acted /\ skipGate)
        /\ UNCHANGED <<paused, gate, extra>>
    BY <1>3 DEF ReachGate, WaitForGate
  <2>2. acted' \in BOOLEAN
    BY <2>1
  <2>3. paused' \in BOOLEAN /\ gate' \in BOOLEAN
    BY <2>1 DEF ControlInv, TypeOK
  <2>4. QED
    BY <1>1, <2>1, <2>2, <2>3, OpenPanelInv
<1>4. CASE ~cancelled /\ ~skipGate /\ ~advancePending
  <2>1. stage' = "gate" /\ Hold(Main)
    BY <1>4 DEF ReachGate, WaitForGate
  <2>2. /\ at' = [at EXCEPT ![Main] = "waiting"] /\ gate' = FALSE /\ paused' = TRUE
        /\ UNCHANGED <<advancePending, acted, extra>>
    BY <2>1 DEF Hold, history
  <2>3. /\ at' \in [Workers -> Positions] /\ at'[Main] = "waiting"
        /\ \A r \in Panel : at'[r] = at[r]
    BY <2>2, Typing, ControlAssumption DEF Positions
  <2>4. QED
    BY <1>1, <2>1, <2>2, <2>3 DEF ControlInv, TypeOK, Alone, Earned, Fresh, control
<1>5. QED
  BY <1>2, <1>3, <1>4

LEMMA ControlNext == ControlInv /\ [Next]_vars => ControlInv'
<1> SUFFICES ASSUME ControlInv, [Next]_vars PROVE ControlInv'
  OBVIOUS
<1>1. ASSUME NEW w \in Workers, FinishStep(w) PROVE ControlInv'
  BY <1>1, StopInv DEF FinishStep
<1>2. ASSUME NEW w \in Workers, Return(w) PROVE ControlInv'
  BY <1>2, EndInv DEF Return, history, ControlInv, TypeOK
<1>3. ASSUME NEW w \in Workers, Wake(w) PROVE ControlInv'
  BY <1>3, WakeInv
<1>4. ASSUME NEW w \in Workers, Deliver(w) PROVE ControlInv'
  <2>1. CASE at[w] = "panel"
    <3>1. /\ at' = [at EXCEPT ![w] = "unwinding"]
          /\ interrupted' \in [Workers -> BOOLEAN]
          /\ UNCHANGED <<control, paused, advancePending, gate, stage, todo, acted, extra>>
      BY <1>4, <2>1 DEF Deliver, history
    <3>2. at' \in [Workers -> Positions] /\ at'[w] = "unwinding"
          /\ \A v \in Workers : v # w => at'[v] = at[v]
      BY <3>1, Typing DEF Positions
    <3>3. at'[Main] \in {at[Main], "unwinding"}
          /\ \A r \in Panel : /\ at[r] \in {"absent", "done"} => at'[r] = at[r]
                              /\ at'[r] \in {"absent", "queued"} => at'[r] = at[r]
      BY <2>1, <3>2, Typing
    <3>4. TypeOK'
      BY <3>1, <3>2 DEF ControlInv, TypeOK, control
    <3>5. Alone' /\ Earned'
      BY <3>1, <3>3 DEF ControlInv, Alone, Earned, control
    <3>6. Fresh'
      BY <3>1, <3>3 DEF ControlInv, Fresh
    <3>7. QED
      BY <3>4, <3>5, <3>6 DEF ControlInv
  <2>2. CASE at[w] # "panel"
    BY <1>4, <2>2, EndInv DEF Deliver, history, ControlInv, TypeOK
  <2>3. QED
    BY <2>1, <2>2
<1>5. ASSUME NEW r \in Panel, Admit(r) PROVE ControlInv'
  <2>1. r \in Workers /\ todo[r] > 0
    BY <1>5, Typing, ControlAssumption DEF Admit, ControlInv, Fresh
  <2>2. QED
    BY <1>5, <2>1, StopInv DEF Admit
<1>6. CASE ReachGate
  BY <1>6, GateInv
<1>7. CASE PanelDone
  <2>1. /\ \A r \in Panel : at[r] = "done" /\ at'[r] = "done"
        /\ stage' = "after" /\ at'[Main] = "working"
        /\ at' \in [Workers -> Positions] /\ todo' \in [Workers -> Nat]
        /\ UNCHANGED <<control, paused, advancePending, gate, interrupted, acted, extra>>
    BY <1>7, Typing, ControlAssumption DEF PanelDone, history, Positions
  <2>2. QED
    BY <2>1 DEF ControlInv, TypeOK, Alone, Earned, Fresh, control
<1>8. CASE Unwound
  BY <1>8, EndInv, Typing DEF Unwound, history, ControlInv, TypeOK
<1>9. CASE User
  BY <1>9, UserInv
<1>10. CASE UNCHANGED vars
  BY <1>10 DEF vars, control, history, ControlInv, TypeOK, Alone, Earned, Fresh
<1>11. QED
  BY <1>1, <1>2, <1>3, <1>4, <1>5, <1>6, <1>7, <1>8, <1>9, <1>10 DEF Next, Progress, Run

LEMMA ControlAlways == Spec => []ControlInv
BY ControlInit, ControlNext, PTL DEF Spec

\* Every reachable state is typed, for any panel and any number of steps.
THEOREM ControlIsTyped == Spec => []TypeOK
<1>1. ControlInv => TypeOK
  BY DEF ControlInv
<1>2. QED
  BY <1>1, ControlAlways, PTL
-----------------------------------------------------------------------------
\* OncePerWord cancelled, a stop lets no task begin.
LEMMA CancelledStop ==
  ASSUME ControlInv, cancelled, NEW w \in Workers, WaitIfPaused(w)
  PROVE  at'[w] # "working"
BY Typing DEF WaitIfPaused, Raise, Hold

LEMMA NothingBegins ==
  ASSUME ControlInv, [Next]_vars, cancelled, NEW w \in Workers
  PROVE  ~Begins(w)
<1> SUFFICES ASSUME Begins(w) PROVE FALSE
  OBVIOUS
<1>1. /\ at'[w] = "working"
      /\ at[w] # "working" \/ todo'[w] # todo[w]
      /\ at[w] \in {"queued", "woken", "working"}
  BY DEF Begins
<1>2. ASSUME at'[w] = at[w], todo'[w] = todo[w] PROVE FALSE
  BY <1>1, <1>2
<1>3. ASSUME NEW v \in Workers, FinishStep(v) \/ (v \in Panel /\ Admit(v)) PROVE FALSE
  <2>1. WaitIfPaused(v) /\ todo' = [todo EXCEPT ![v] = @ - 1]
    BY <1>3 DEF FinishStep, Admit
  <2>2. CASE v = w
    BY <1>1, <2>1, <2>2, CancelledStop
  <2>3. CASE v # w
    BY <1>2, <2>1, <2>3, StopFlags, Typing
  <2>4. QED
    BY <2>2, <2>3
<1>4. ASSUME NEW v \in Workers, Wake(v) PROVE FALSE
  <2>1. at' = [at EXCEPT ![v] = "done"] /\ todo' = todo
    BY <1>4 DEF Wake, Raise
  <2>2. QED
    BY <1>1, <1>2, <2>1, Typing
<1>5. ASSUME NEW v \in Workers, Return(v) \/ Deliver(v) PROVE FALSE
  <2>1. /\ \/ at' = [at EXCEPT ![v] = "done"]
           \/ at' = [at EXCEPT ![v] = "unwinding"]
        /\ todo' = todo
    BY <1>5 DEF Return, Deliver
  <2>2. QED
    BY <1>1, <1>2, <2>1, Typing
<1>6. CASE ReachGate
  <2>1. at' = [at EXCEPT ![Main] = "done"] /\ todo' = todo
    BY <1>6 DEF ReachGate, WaitForGate, Raise
  <2>2. QED
    BY <1>1, <1>2, <2>1, Typing
<1>7. CASE PanelDone
  <2>1. at[Main] = "panel" /\ at' = [at EXCEPT ![Main] = "working"]
        /\ todo' = [todo EXCEPT ![Main] = StepsAfter]
    BY <1>7 DEF PanelDone
  <2>2. QED
    BY <1>1, <1>2, <2>1, Typing
<1>8. CASE Unwound
  <2>1. at' = [at EXCEPT ![Main] = "done"] /\ todo' = todo
    BY <1>8 DEF Unwound
  <2>2. QED
    BY <1>1, <1>2, <2>1, Typing
<1>9. CASE User
  <2>1. at' = at \/ at' = [v \in Workers |-> IF at[v] = "waiting" THEN "woken" ELSE at[v]]
    BY <1>9 DEF User, Advance, Pause, Resume, Cancel, Set
  <2>2. todo' = todo
    BY <1>9 DEF User, Advance, Pause, Resume, Cancel
  <2>3. QED
    BY <1>1, <1>2, <2>1, <2>2, Typing
<1>10. CASE UNCHANGED vars
  BY <1>2, <1>10 DEF vars
<1>11. QED
  BY <1>3, <1>4, <1>5, <1>6, <1>7, <1>8, <1>9, <1>10, Typing DEF Next, Progress, Run

\* For any panel and any number of steps: once cancelled, no task of the
\* pipeline gets past a stop or the semaphore to begin work
\* (pipeline_control.py:59-77, 94-99).
THEOREM CancelStops == Spec => NoWorkAfterCancel
<1>1. ControlInv /\ [Next]_vars => [cancelled => \A w \in Workers : ~Begins(w)]_vars
  BY NothingBegins
<1>2. QED
  BY <1>1, ControlAlways, PTL DEF Spec, NoWorkAfterCancel
-----------------------------------------------------------------------------
\* Main comes to await the panel in two ways.
LEMMA PanelOpens ==
  ASSUME ControlInv, [Next]_vars, at[Main] \in {"working", "woken"}, at'[Main] = "panel"
  PROVE  /\ ~cancelled
         /\ at[Main] = "working" => skipGate \/ advancePending
<1>1. ASSUME NEW v \in Workers, FinishStep(v) \/ (v \in Panel /\ Admit(v)) PROVE FALSE
  <2>1. WaitIfPaused(v)
    BY <1>1 DEF FinishStep, Admit
  <2>2. at'[Main] \in {at[Main], "working", "waiting", "done"}
    BY <2>1, StopFlags, Typing
  <2>3. QED
    BY <2>2
<1>2. ASSUME NEW v \in Workers, Wake(v) PROVE ~cancelled /\ at[Main] # "working"
  <2>1. CASE v = Main /\ stage = "gate" /\ ~cancelled
    BY <1>2, <2>1 DEF Wake
  <2>2. CASE ~(v = Main /\ stage = "gate" /\ ~cancelled)
    <3>1. \/ at' = [at EXCEPT ![v] = "done"]
          \/ at' = [at EXCEPT ![v] = "working"]
      BY <1>2, <2>2 DEF Wake, Raise, Begin
    <3>2. QED
      BY <3>1, Typing
  <2>3. QED
    BY <2>1, <2>2
<1>3. ASSUME NEW v \in Workers, Return(v) \/ Deliver(v) PROVE FALSE
  <2>1. \/ at' = [at EXCEPT ![v] = "done"]
        \/ at' = [at EXCEPT ![v] = "unwinding"]
    BY <1>3 DEF Return, Deliver
  <2>2. QED
    BY <2>1, Typing
<1>4. CASE ReachGate
  <2>1. ~cancelled
    <3>1. cancelled => at' = [at EXCEPT ![Main] = "done"]
      BY <1>4 DEF ReachGate, WaitForGate, Raise
    <3>2. QED
      BY <3>1, Typing
  <2>2. skipGate \/ advancePending
    <3>1. ~skipGate /\ ~advancePending => at' = [at EXCEPT ![Main] = "waiting"]
      BY <1>4, <2>1 DEF ReachGate, WaitForGate, Hold
    <3>2. QED
      BY <3>1, Typing
  <2>3. QED
    BY <2>1, <2>2
<1>5. CASE PanelDone \/ Unwound
  BY <1>5 DEF PanelDone, Unwound
<1>6. CASE User
  <2>1. at' = at \/ at' = [v \in Workers |-> IF at[v] = "waiting" THEN "woken" ELSE at[v]]
    BY <1>6 DEF User, Advance, Pause, Resume, Cancel, Set
  <2>2. QED
    BY <2>1, Typing
<1>7. CASE UNCHANGED vars
  BY <1>7 DEF vars
<1>8. QED
  BY <1>1, <1>2, <1>3, <1>4, <1>5, <1>6, <1>7, Typing DEF Next, Progress, Run

LEMMA PassIsEarned ==
  ASSUME ControlInv, [Next]_vars, PassesStop PROVE acted
<1>1. CASE advancePending
  BY <1>1 DEF ControlInv, Earned
<1>2. CASE at[Main] = "woken" /\ at'[Main] \in {"working", "panel"}
  <2>1. CASE ~cancelled
    BY <1>2, <2>1 DEF ControlInv, Earned
  <2>2. CASE cancelled
    <3>1. at'[Main] # "working"
      BY <1>2, <2>2, NothingBegins, Typing DEF Begins
    <3>2. at'[Main] # "panel"
      BY <1>2, <2>2, PanelOpens
    <3>3. QED
      BY <1>2, <3>1, <3>2
  <2>3. QED
    BY <2>1, <2>2
<1>3. CASE at[Main] = "working" /\ at'[Main] = "panel" /\ ~skipGate
  BY <1>1, <1>3, PanelOpens
<1>4. QED
  BY <1>1, <1>2, <1>3 DEF PassesStop

\* For any panel and any number of steps: the pipeline's task passes a stop the
\* user enforced, the inspection gate among them, only if advance or resume was
\* called since the last one (pipeline_control.py:46-77).
THEOREM OneAdvanceOneStop == Spec => OneStopPerAdvance
<1>1. ControlInv /\ [Next]_vars => [PassesStop => acted]_vars
  BY PassIsEarned
<1>2. QED
  BY <1>1, ControlAlways, PTL DEF Spec, OneStopPerAdvance
-----------------------------------------------------------------------------
\* A task that has begun since the user's last word finds no way past a stop:
\* the token is spent, and whoever was released by that word is past it.
Held ==
  /\ autoAdvance \/ advancePending => extra = {}
  /\ \A w \in extra : at[w] \notin {"absent", "queued"} /\ (at[w] = "woken" => cancelled)

\* What a task does at a stop it may pass.
LEMMA HeldBegins ==
  ASSUME ControlInv, Held, NEW w \in Workers, NEW enforced, Begin(w, enforced),
         autoAdvance \/ (advancePending' = FALSE /\ w \notin extra),
         UNCHANGED <<autoAdvance, cancelled>>
  PROVE  Held'
<1>1. /\ at'[w] = "working" /\ \A v \in Workers : v # w => at'[v] = at[v]
      /\ extra \subseteq Workers /\ autoAdvance \in BOOLEAN
      /\ extra' = IF autoAdvance THEN extra ELSE extra \cup {w}
  BY Typing DEF Begin, ControlInv, TypeOK
<1>2. CASE autoAdvance
  BY <1>1, <1>2 DEF Held
<1>3. CASE ~autoAdvance
  <2>1. extra' = extra \cup {w} /\ advancePending' = FALSE
    BY <1>1, <1>3
  <2>2. \A v \in extra' : at'[v] \notin {"absent", "queued"} /\ (at'[v] = "woken" => cancelled')
    BY <1>1, <2>1 DEF Held
  <2> QED
    BY <1>3, <2>1, <2>2 DEF Held
<1> QED
  BY <1>2, <1>3

LEMMA HeldAtStop ==
  ASSUME ControlInv, Held, NEW w \in Workers, WaitIfPaused(w), UNCHANGED control
  PROVE  /\ Held'
         /\ ~autoAdvance /\ at'[w] = "working" => extra = {}
<1>1. /\ UNCHANGED <<autoAdvance, cancelled>>
      /\ autoAdvance \in BOOLEAN /\ extra \subseteq Workers
  BY DEF control, ControlInv, TypeOK
<1>2. CASE autoAdvance /\ cancelled
  <2>1. extra = {} /\ extra' = extra
    BY <1>2 DEF Held, WaitIfPaused, Raise, history
  <2> QED
    BY <1>2, <2>1 DEF Held
<1>3. CASE autoAdvance /\ ~cancelled
  <2>1. Begin(w, FALSE)
    BY <1>3 DEF WaitIfPaused
  <2> QED
    BY <1>1, <1>3, <2>1, HeldBegins
<1>4. CASE ~autoAdvance /\ advancePending /\ ~cancelled /\ advancePending' = FALSE /\ Begin(w, TRUE)
  <2>1. extra = {}
    BY <1>4 DEF Held
  <2> QED
    BY <1>1, <1>4, <2>1, HeldBegins
<1>5. CASE Hold(w)
  <2>1. /\ extra' = extra /\ advancePending' = advancePending
        /\ at' = [at EXCEPT ![w] = "waiting"]
    BY <1>5 DEF Hold, history
  <2>2. at'[w] = "waiting" /\ \A v \in Workers : v # w => at'[v] = at[v]
    BY <2>1, Typing
  <2>3. Held'
    BY <1>1, <2>1, <2>2 DEF Held
  <2> QED
    BY <2>2, <2>3
<1> QED
  BY <1>2, <1>3, <1>4, <1>5 DEF WaitIfPaused

\* The panel is opened by the pipeline alone; nobody in it has begun.
LEMMA HeldAtOpening ==
  ASSUME ControlInv, Held, OpenPanel, stage \in {"pre_review", "gate"},
         advancePending' = FALSE, UNCHANGED <<autoAdvance, cancelled, extra>>
  PROVE  Held'
<1>1. \A r \in Panel : r \notin extra
  BY DEF ControlInv, Fresh, Held
<1>2. extra \subseteq {Main} /\ at'[Main] = "panel"
  BY <1>1, Typing DEF ControlInv, TypeOK, OpenPanel
<1> QED
  BY <1>2 DEF Held

LEMMA HeldNext ==
  ASSUME ControlInv, Held, [Next]_vars
  PROVE  Held' /\ OncePerWord
<1>1. ASSUME NEW v \in Workers, FinishStep(v) \/ (v \in Panel /\ Admit(v))
      PROVE  Held' /\ OncePerWord
  <2>1. WaitIfPaused(v) /\ UNCHANGED control /\ todo' = [todo EXCEPT ![v] = @ - 1]
    BY <1>1 DEF FinishStep, Admit
  <2>2. Held' /\ (~autoAdvance /\ at'[v] = "working" => extra = {})
    BY <2>1, HeldAtStop
  <2>3. ASSUME NEW w \in Workers, Begins(w) PROVE w = v /\ at'[v] = "working"
    <3>1. w # v => at'[w] = at[w] /\ todo'[w] = todo[w]
      BY <2>1, StopFlags, Typing
    <3> QED
      BY <2>3, <3>1 DEF Begins, OncePerWord
  <2> QED
    BY <2>2, <2>3 DEF OncePerWord
<1>2. ASSUME NEW v \in Workers, Wake(v)
      PROVE  Held' /\ OncePerWord
  <2>1. /\ at[v] = "woken" /\ advancePending' = FALSE /\ todo' = todo
        /\ UNCHANGED <<autoAdvance, cancelled>>
    BY <1>2 DEF Wake, control
  <2>2. CASE cancelled
    <3>1. at' = [at EXCEPT ![v] = "done"] /\ extra' = extra
      BY <1>2, <2>2 DEF Wake, Raise, history
    <3>2. at'[v] = "done" /\ \A w \in Workers : w # v => at'[w] = at[w]
      BY <3>1, Typing
    <3>3. Held'
      BY <2>1, <3>1, <3>2 DEF Held
    <3> QED
      BY <2>2, <3>3, NothingBegins DEF OncePerWord
  <2>3. CASE ~cancelled /\ v = Main /\ stage = "gate"
    <3>1. OpenPanel /\ extra' = extra
      BY <1>2, <2>3 DEF Wake
    <3>2. Held'
      BY <2>1, <2>3, <3>1, HeldAtOpening
    <3>3. \A w \in Workers : at'[w] # "working"
      BY <3>1 DEF OpenPanel
    <3> QED
      BY <3>2, <3>3 DEF Begins, OncePerWord
  <2>4. CASE ~cancelled /\ ~(v = Main /\ stage = "gate")
    <3>1. Begin(v, TRUE)
      BY <1>2, <2>4 DEF Wake
    <3>2. v \notin extra
      BY <2>1, <2>4 DEF Held
    <3>3. Held'
      BY <2>1, <3>1, <3>2, HeldBegins
    <3>4. \A w \in Workers : w # v => at'[w] = at[w] /\ todo'[w] = todo[w]
      BY <2>1, <3>1, Typing DEF Begin
    <3> QED
      BY <3>2, <3>3, <3>4 DEF Begins, OncePerWord
  <2> QED
    BY <2>2, <2>3, <2>4
<1>3. ASSUME at' \in [Workers -> Positions], UNCHANGED <<autoAdvance, cancelled, advancePending, extra>>,
             NEW v \in Workers, \A w \in Workers : w # v => at'[w] = at[w] /\ todo'[w] = todo[w],
             at'[v] \in {"done", "unwinding"} \/ (at[v] = "panel" /\ at'[v] = "working")
      PROVE  Held' /\ OncePerWord
  <2>1. extra \subseteq Workers
    BY DEF ControlInv, TypeOK
  <2>2. Held'
    BY <1>3, <2>1 DEF Held
  <2>3. \A w \in Workers : ~Begins(w)
    BY <1>3 DEF Begins, OncePerWord
  <2> QED
    BY <2>2, <2>3 DEF OncePerWord
<1>4. ASSUME NEW v \in Workers, Return(v) \/ Deliver(v)
      PROVE  Held' /\ OncePerWord
  <2>1. /\ \/ at' = [at EXCEPT ![v] = "done"]
           \/ at' = [at EXCEPT ![v] = "unwinding"]
        /\ UNCHANGED <<autoAdvance, cancelled, advancePending, extra, todo>>
    BY <1>4 DEF Return, Deliver, control, history
  <2> QED
    BY <1>3, <2>1, Typing DEF Positions
<1>5. CASE ReachGate
  <2>1. /\ at[Main] = "working" /\ stage = "pre_review" /\ todo' = todo
        /\ UNCHANGED <<autoAdvance, cancelled>>
    BY <1>5 DEF ReachGate, control
  <2>2. CASE cancelled
    <3>1. at' = [at EXCEPT ![Main] = "done"] /\ UNCHANGED <<advancePending, extra>>
      BY <1>5, <2>2 DEF ReachGate, WaitForGate, Raise, history
    <3> QED
      BY <1>3, <2>1, <3>1, Typing DEF Positions
  <2>3. CASE ~cancelled /\ (skipGate \/ advancePending)
    <3>1. OpenPanel /\ advancePending' = FALSE /\ extra' = extra
      BY <1>5, <2>3 DEF ReachGate, WaitForGate
    <3>2. Held'
      BY <2>1, <3>1, HeldAtOpening
    <3>3. \A w \in Workers : at'[w] # "working"
      BY <3>1 DEF OpenPanel
    <3> QED
      BY <3>2, <3>3 DEF Begins, OncePerWord
  <2>4. CASE ~cancelled /\ ~skipGate /\ ~advancePending
    <3>1. at' = [at EXCEPT ![Main] = "waiting"] /\ UNCHANGED <<advancePending, extra>>
      BY <1>5, <2>4 DEF ReachGate, WaitForGate, Hold, history
    <3>2. at'[Main] = "waiting" /\ \A w \in Workers : w # Main => at'[w] = at[w]
      BY <3>1, Typing
    <3>3. Held'
      BY <2>1, <3>1, <3>2, Typing DEF Held, ControlInv, TypeOK
    <3> QED
      BY <2>1, <3>2, <3>3 DEF Begins, OncePerWord
  <2> QED
    BY <2>2, <2>3, <2>4
<1>6. CASE PanelDone
  <2>1. /\ at[Main] = "panel" /\ at' = [at EXCEPT ![Main] = "working"]
        /\ todo' = [todo EXCEPT ![Main] = StepsAfter]
        /\ UNCHANGED <<autoAdvance, cancelled, advancePending, extra>>
    BY <1>6 DEF PanelDone, control, history
  <2> QED
    BY <1>3, <2>1, Typing DEF Positions
<1>7. CASE Unwound
  <2>1. /\ at' = [at EXCEPT ![Main] = "done"]
        /\ UNCHANGED <<autoAdvance, cancelled, advancePending, extra, todo>>
    BY <1>7 DEF Unwound, control, history
  <2> QED
    BY <1>3, <2>1, Typing DEF Positions
<1>8. CASE User
  <2>1. \A w \in Workers : at'[w] = IF at[w] = "waiting" /\ ~Pause THEN "woken" ELSE at[w]
    BY <1>8, Typing DEF User, Advance, Pause, Resume, Cancel, Set
  <2>2. todo' = todo
    BY <1>8 DEF User, Advance, Pause, Resume, Cancel
  <2>3. Held'
    <3>1. CASE Advance \/ Pause \/ Resume
      <4>1. extra' = {}
        BY <3>1 DEF Advance, Pause, Resume
      <4> QED
        BY <4>1 DEF Held
    <3>2. CASE Cancel
      <4>1. cancelled' = TRUE /\ UNCHANGED <<autoAdvance, advancePending, extra>>
        BY <3>2 DEF Cancel, history
      <4>2. extra \subseteq Workers
        BY DEF ControlInv, TypeOK
      <4>3. \A w \in extra : at'[w] \in {"woken", at[w]}
        BY <2>1, <4>2
      <4> QED
        BY <4>1, <4>3 DEF Held
    <3> QED
      BY <1>8, <3>1, <3>2 DEF User
  <2>4. \A w \in Workers : ~Begins(w)
    BY <2>1, <2>2 DEF Begins, OncePerWord
  <2> QED
    BY <2>3, <2>4 DEF OncePerWord
<1>9. CASE UNCHANGED vars
  BY <1>9 DEF vars, control, history, Held, Begins, OncePerWord
<1> QED
  BY <1>1, <1>2, <1>4, <1>5, <1>6, <1>7, <1>8, <1>9, Typing DEF Next, Progress, Run

\* For any panel and any number of steps: after the user's last word, unless it
\* was resume, each task of the pipeline begins at most one more piece of work
\* (pipeline_control.py:46-77).
THEOREM PausesTakeHold == Spec => PauseTakesHold
<1>1. Init => Held
  BY DEF Init, Held
<1>2. ControlInv /\ Held /\ [Next]_vars => Held' /\ [OncePerWord]_vars
  BY HeldNext
<1>3. QED
  BY <1>1, <1>2, ControlAlways, PTL DEF Spec, PauseTakesHold
=============================================================================
