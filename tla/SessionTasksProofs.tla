------------------------- MODULE SessionTasksProofs -------------------------
(***************************************************************************)
(* What the tasks of a session keep true, for any number of runs: an idle  *)
(* session is settled, a registered control leads to a live run, a live    *)
(* run is the registered one unless a retry or a batch overlapped it, and  *)
(* what the user stopped stays stopped.                                    *)
(*                                                                         *)
(* A step starts a run, moves one, ends one, or concerns them all (cancel, *)
(* shutdown, restart); there is one lemma for each of the first three.     *)
(***************************************************************************)
EXTENDS SessionTasks, TLAPS

IsLive(r) == at[r] \notin {"none", "done"}

\* Somebody is going to write another status.
Busy ==
  status = "running" =>
    \E r \in Runs : /\ IsLive(r)
                    /\ stopping \/ ~asked[r] \/ at[r] \in {"deliberating", "leaving"}
AskedRuns ==
  \A r \in Runs : (at[r] = "dropped" => asked[r]) /\ (at[r] = "none" => ~asked[r])
Registered == ~stopping => controls = NoRun \/ IsLive(controls)
Alone == ~overlapped => \A r \in Runs : IsLive(r) => controls = r
\* A stop reaches every run there is.
StopHolds ==
  stopped /\ ~overlapped =>
    status = "stopped" /\ \A r \in Runs : IsLive(r) => asked[r]

TaskInv == Busy /\ AskedRuns /\ Registered /\ Alone /\ StopHolds
-----------------------------------------------------------------------------
LEMMA LiveRuns == \A r : r \in Live <=> r \in Runs /\ IsLive(r)
BY DEF Live, IsLive

LEMMA RunsAreNumbers == NoRun \notin Runs /\ \A r \in Runs : r \in Nat
BY SessionAssumption DEF Runs, NoRun

\* A run that is started: alone, or beside another that is noted.
LEMMA RunStarts ==
  ASSUME TypeOK, TaskInv, NEW r \in Runs, at[r] = "none",
         NEW position \in {"uploaded", "created"},
         at' = [at EXCEPT ![r] = position], controls' = r, asked' = asked, stopping' = stopping,
         overlapped' \in BOOLEAN,
         overlapped' \/ \A s \in Runs : ~IsLive(s),
         ~stopped' \/ (stopped' = stopped /\ status # "stopped"),
         overlapped => overlapped' \/ ~stopped'
  PROVE  TaskInv'
<1>1. /\ at'[r] = position /\ \A s \in Runs : s # r => at'[s] = at[s]
      /\ r \in Nat /\ ~asked'[r]
  BY RunsAreNumbers DEF TypeOK, TaskInv, AskedRuns
<1>2. IsLive(r)' /\ \A s \in Runs : s # r => (IsLive(s)' <=> IsLive(s))
  BY <1>1 DEF IsLive
<1>3. Busy'
  BY <1>1, <1>2 DEF Busy
<1>4. AskedRuns'
  BY <1>1 DEF TaskInv, AskedRuns
<1>5. Registered'
  BY <1>1, <1>2 DEF Registered
<1>6. Alone'
  BY <1>1, <1>2 DEF Alone
<1>7. StopHolds'
  BY <1>1, <1>2 DEF TaskInv, StopHolds
<1>8. QED
  BY <1>3, <1>4, <1>5, <1>6, <1>7 DEF TaskInv

\* A run that moves on.
LEMMA RunMoves ==
  ASSUME TypeOK, TaskInv, NEW r \in Runs, IsLive(r),
         NEW position \in Positions \ {"none", "done"},
         at' = [at EXCEPT ![r] = position],
         UNCHANGED <<controls, asked, stopping, stopped, overlapped>>,
         position = "dropped" => asked[r],
         at[r] \in {"deliberating", "leaving"} => position \in {"deliberating", "leaving"},
         status' = status \/ (status' = "running" /\ ~asked[r])
  PROVE  TaskInv'
<1>1. at'[r] = position /\ \A s \in Runs : s # r => at'[s] = at[s]
  BY DEF TypeOK
<1>2. \A s \in Runs : IsLive(s)' <=> IsLive(s)
  BY <1>1 DEF IsLive, Positions
<1>3. Busy'
  BY <1>1, <1>2 DEF TaskInv, Busy
<1>4. AskedRuns'
  BY <1>1 DEF TaskInv, AskedRuns
<1>5. Registered'
  BY <1>2, RunsAreNumbers DEF TypeOK, TaskInv, Registered
<1>6. Alone'
  BY <1>2 DEF TaskInv, Alone
<1>7. StopHolds'
  BY <1>2 DEF TaskInv, StopHolds
<1>8. QED
  BY <1>3, <1>4, <1>5, <1>6, <1>7 DEF TaskInv

\* A run that ends.  One the engine refused may leave the status to the run the
\* engine executes.
LEMMA RunEnds ==
  ASSUME TypeOK, TaskInv, NEW r \in Runs, IsLive(r),
         at' = [at EXCEPT ![r] = "done"],
         controls' = NoRun \/ (controls' = controls /\ controls # r),
         UNCHANGED <<asked, stopping, stopped, overlapped>>,
         asked[r] => status' = "stopped",
         \/ status' \in {"completed", "failed", "stopped"}
         \/ /\ status' = status
            /\ \E s \in Runs : s # r /\ at[s] \in {"deliberating", "leaving"}
  PROVE  TaskInv'
<1>1. at'[r] = "done" /\ \A s \in Runs : s # r => at'[s] = at[s]
  BY DEF TypeOK
<1>2. ~IsLive(r)' /\ \A s \in Runs : s # r => (IsLive(s)' <=> IsLive(s))
  BY <1>1 DEF IsLive
<1>3. Busy'
  <2>1. CASE status' \in {"completed", "failed", "stopped"}
    BY <2>1 DEF Busy
  <2>2. CASE \E s \in Runs : s # r /\ at[s] \in {"deliberating", "leaving"}
    BY <1>1, <2>2 DEF Busy, IsLive
  <2>3. QED
    BY <2>1, <2>2
<1>4. AskedRuns'
  BY <1>1 DEF TaskInv, AskedRuns
<1>5. Registered'
  <2>1. CASE controls' = NoRun
    BY <2>1 DEF Registered
  <2>2. CASE controls' = controls /\ controls # r
    BY <1>2, <2>2, RunsAreNumbers DEF TypeOK, TaskInv, Registered
  <2>3. QED
    BY <2>1, <2>2
<1>6. Alone'
  BY <1>2 DEF TaskInv, Alone
<1>7. StopHolds'
  BY <1>2 DEF TaskInv, StopHolds
<1>8. QED
  BY <1>3, <1>4, <1>5, <1>6, <1>7 DEF TaskInv
-----------------------------------------------------------------------------
LEMMA InitInv == Init => TypeOK /\ TaskInv
<1> SUFFICES ASSUME Init PROVE TypeOK /\ TaskInv
  OBVIOUS
<1>1. PICK origin \in Origins :
        LET first == IF origin = "upload" THEN [r \in Runs |-> IF r = 1 THEN "uploaded" ELSE "none"]
                                          ELSE [r \in Runs |-> "none"]
        IN /\ at = first
           /\ kind = [r \in Runs |-> IF first[r] = "uploaded" THEN "full" ELSE "direct"]
           /\ asked = [r \in Runs |-> FALSE]
           /\ controls = IF origin = "upload" THEN 1 ELSE NoRun
  BY DEF Init
<1>2. 1 \in Runs
  BY SessionAssumption DEF Runs
<1>3. /\ batch \in BOOLEAN /\ mode \in Modes /\ parsed \in BOOLEAN /\ graph \in BOOLEAN
      /\ status = "created" /\ queued \in BOOLEAN
      /\ stopping = FALSE /\ stopped = FALSE /\ overlapped = FALSE
  BY SessionAssumption DEF Init, Modes
<1>4. CASE origin = "upload"
  <2>1. /\ at = [r \in Runs |-> IF r = 1 THEN "uploaded" ELSE "none"]
        /\ kind = [r \in Runs |-> IF at[r] = "uploaded" THEN "full" ELSE "direct"]
        /\ controls = 1
    BY <1>1, <1>4
  <2>2. TypeOK
    BY <1>1, <1>2, <1>3, <2>1 DEF TypeOK, Positions, Kinds, Statuses
  <2>3. \A r \in Runs : IsLive(r) <=> r = 1
    BY <2>1 DEF IsLive
  <2>4. QED
    BY <1>1, <1>2, <1>3, <2>1, <2>2, <2>3
    DEF TaskInv, Busy, AskedRuns, Registered, Alone, StopHolds
<1>5. CASE origin # "upload"
  <2>1. /\ at = [r \in Runs |-> "none"]
        /\ kind = [r \in Runs |-> "direct"]
        /\ controls = NoRun
    BY <1>1, <1>5
  <2>2. TypeOK
    BY <1>1, <1>3, <2>1 DEF TypeOK, Positions, Kinds, Statuses
  <2>3. \A r \in Runs : ~IsLive(r)
    BY <2>1 DEF IsLive
  <2>4. QED
    BY <1>1, <1>3, <2>1, <2>2, <2>3
    DEF TaskInv, Busy, AskedRuns, Registered, Alone, StopHolds
<1>6. QED
  BY <1>4, <1>5

-----------------------------------------------------------------------------
\* The user's calls.
\* Whoever checks the control finds nothing running, or the overlap is known.
LEMMA FreeOrKnown ==
  ASSUME TypeOK, TaskInv, controls = NoRun
  PROVE  (overlapped /\ Live # {}) \/ \A s \in Runs : ~IsLive(s)
<1>1. CASE overlapped /\ Live # {}
  BY <1>1
<1>2. CASE Live = {}
  BY <1>2, LiveRuns
<1>3. CASE ~overlapped
  BY <1>3, RunsAreNumbers DEF TaskInv, Alone
<1>4. QED
  BY <1>1, <1>2, <1>3 DEF TypeOK

\* The user's calls that check the control before they start a run.
LEMMA CheckedStart ==
  ASSUME TypeOK, TaskInv, NEW k \in Kinds, StartTask(k, "created"), Request,
         controls = NoRun, overlapped' = (overlapped /\ Live # {}), status' = "running",
         mode' \in Modes, parsed' \in BOOLEAN, graph' \in BOOLEAN
  PROVE  TypeOK' /\ TaskInv'
<1>1. PICK r \in Runs :
        /\ at[r] = "none" /\ at' = [at EXCEPT ![r] = "created"]
        /\ kind' = [kind EXCEPT ![r] = k] /\ controls' = r /\ asked' = asked
  BY DEF StartTask
<1>2. /\ stopping' = stopping /\ stopped' = FALSE /\ overlapped' \in BOOLEAN
      /\ UNCHANGED <<batch, queued>>
  BY DEF Request
<1>3. TypeOK'
  BY <1>1, <1>2 DEF TypeOK, Positions, Statuses
<1>4. overlapped' \/ \A s \in Runs : ~IsLive(s)
  BY FreeOrKnown
<1>5. QED
  BY <1>1, <1>2, <1>3, <1>4, RunStarts

LEMMA RequestInv ==
  ASSUME TypeOK, TaskInv, Start \/ LaunchReview \/ RebuildStep
  PROVE  TypeOK' /\ TaskInv'
<1>1. CASE Start
  BY <1>1, CheckedStart DEF Start, Kinds, TypeOK
<1>2. CASE LaunchReview
  BY <1>2, CheckedStart DEF LaunchReview, Kinds, TypeOK, Modes
<1>3. CASE RebuildStep
  BY <1>3, CheckedStart DEF RebuildStep, Kinds, TypeOK
<1>4. QED
  BY <1>1, <1>2, <1>3

\* Retry and the batch note whether somebody was live.
LEMMA UncheckedStart ==
  ASSUME TypeOK, TaskInv, NEW k \in Kinds, NEW position \in {"uploaded", "created"},
         StartTask(k, position), overlapped' \in BOOLEAN, Live # {} => overlapped',
         ~stopped' \/ (stopped' = stopped /\ status # "stopped"),
         overlapped => overlapped' \/ ~stopped',
         stopping' = stopping
  PROVE  /\ TaskInv'
         /\ at' \in [Runs -> Positions] /\ kind' \in [Runs -> Kinds]
         /\ asked' = asked /\ controls' \in Runs
<1>1. PICK r \in Runs :
        /\ at[r] = "none" /\ at' = [at EXCEPT ![r] = position]
        /\ kind' = [kind EXCEPT ![r] = k] /\ controls' = r /\ asked' = asked
  BY DEF StartTask
<1>2. overlapped' \/ \A s \in Runs : ~IsLive(s)
  BY LiveRuns
<1>3. TaskInv'
  BY <1>1, <1>2, RunStarts
<1>4. QED
  BY <1>1, <1>3 DEF TypeOK, Positions

LEMMA RetryInv == ASSUME TypeOK, TaskInv, Retry PROVE TypeOK' /\ TaskInv'
<1>1. /\ status' = "running" /\ overlapped' = (Live # {})
      /\ UNCHANGED <<mode, parsed, graph, batch, queued, stopping>> /\ stopped' = FALSE
  BY DEF Retry, Request
<1>2. \E k \in Kinds, position \in {"uploaded", "created"} : StartTask(k, position)
  <2>1. CASE mode = "graph_only"
    BY <2>1 DEF Retry, Kinds
  <2>2. CASE mode # "graph_only"
    BY <2>2 DEF Retry, Kinds
  <2>3. QED
    BY <2>1, <2>2
<1>3. PICK k \in Kinds, position \in {"uploaded", "created"} : StartTask(k, position)
  BY <1>2
<1>4. /\ TaskInv' /\ at' \in [Runs -> Positions] /\ kind' \in [Runs -> Kinds]
      /\ asked' = asked /\ controls' \in Runs
  BY <1>1, <1>3, UncheckedStart
<1>5. QED
  BY <1>1, <1>4 DEF TypeOK, Statuses

LEMMA BatchTurnInv == ASSUME TypeOK, TaskInv, BatchTurn PROVE TypeOK' /\ TaskInv'
<1>1. /\ queued' = FALSE /\ UNCHANGED <<session, stopping, stopped>>
  BY DEF BatchTurn
<1>2. CASE status = "stopped"
  <2>1. UNCHANGED <<tasks, overlapped>>
    BY <1>2 DEF BatchTurn
  <2>2. QED
    BY <1>1, <2>1
    DEF TypeOK, TaskInv, Busy, AskedRuns, Registered, Alone, StopHolds, IsLive, session, tasks
<1>3. CASE status # "stopped"
  <2>1. PICK k \in Kinds : StartTask(k, "uploaded")
    <3>1. CASE mode = "graph_only"
      BY <1>3, <3>1 DEF BatchTurn, Kinds
    <3>2. CASE mode # "graph_only"
      BY <1>3, <3>2 DEF BatchTurn, Kinds
    <3>3. QED
      BY <3>1, <3>2
  <2>2. overlapped' = (overlapped \/ Live # {})
    BY <1>3 DEF BatchTurn
  <2>3. overlapped' \in BOOLEAN /\ (Live # {} => overlapped') /\ (overlapped => overlapped')
    BY <2>2 DEF TypeOK
  <2>4. /\ TaskInv' /\ at' \in [Runs -> Positions] /\ kind' \in [Runs -> Kinds]
        /\ asked' = asked /\ controls' \in Runs
    BY <1>1, <1>3, <2>1, <2>3, UncheckedStart
  <2>5. QED
    BY <1>1, <2>3, <2>4 DEF TypeOK, session
<1>4. QED
  BY <1>2, <1>3

LEMMA CancelInv == ASSUME TypeOK, TaskInv, Cancel PROVE TypeOK' /\ TaskInv'
<1>1. /\ ~stopping /\ status' = "stopped" /\ stopped' = TRUE
      /\ asked' = [r \in Runs |-> asked[r] \/ r = controls]
      /\ UNCHANGED <<batch, mode, parsed, graph, at, kind, controls, queued, stopping, overlapped>>
  BY DEF Cancel
<1>2. \A r \in Runs : (asked[r] => asked'[r]) /\ (asked'[r] => asked[r] \/ r = controls)
                      /\ (r = controls => asked'[r])
  BY <1>1 DEF TypeOK
<1>3. \A r \in Runs : IsLive(r)' <=> IsLive(r)
  BY <1>1 DEF IsLive
<1>4. TypeOK'
  BY <1>1 DEF TypeOK, Statuses
<1>5. Busy'
  BY <1>1 DEF Busy
<1>6. AskedRuns'
  BY <1>1, <1>2, RunsAreNumbers DEF TaskInv, AskedRuns, Registered, IsLive
<1>7. Registered' /\ Alone'
  BY <1>1, <1>3, RunsAreNumbers DEF TypeOK, TaskInv, Registered, Alone
<1>8. StopHolds'
  BY <1>1, <1>2, <1>3 DEF TaskInv, Alone, StopHolds
<1>9. QED
  BY <1>4, <1>5, <1>6, <1>7, <1>8 DEF TaskInv
-----------------------------------------------------------------------------
\* The steps of a run.
LEMMA Removal ==
  ASSUME TypeOK, NEW r \in Runs, ReleaseOwn(r) \/ Release(r)
  PROVE  controls' = NoRun \/ (controls' = controls /\ controls # r)
BY DEF ReleaseOwn, Release

LEMMA MoveInv ==
  ASSUME TypeOK, TaskInv, NEW r \in Runs, Begin(r) \/ Parse(r) \/ Drop(r)
  PROVE  TypeOK' /\ TaskInv'
<1>1. CASE Begin(r)
  <2>1. PICK position \in {"parsing", "working"} :
          IsLive(r) /\ at[r] \in {"uploaded", "created"} /\ at' = [at EXCEPT ![r] = position]
    BY <1>1 DEF Begin, IsLive
  <2>2. /\ UNCHANGED <<batch, mode, parsed, graph, kind, asked, controls, queued, stopping>>
        /\ UNCHANGED <<stopped, overlapped>>
        /\ status' = status \/ (status' = "running" /\ ~asked[r])
    BY <1>1 DEF Begin, others
  <2>3. TypeOK'
    BY <2>1, <2>2 DEF TypeOK, Positions, Statuses
  <2>4. TaskInv'
    BY <2>1, <2>2, RunMoves DEF Positions
  <2>5. QED
    BY <2>3, <2>4
<1>2. CASE Parse(r)
  <2>1. /\ IsLive(r) /\ at[r] = "parsing" /\ at' = [at EXCEPT ![r] = "working"]
        /\ status' = "running" /\ ~asked[r] /\ parsed' = TRUE
        /\ UNCHANGED <<batch, mode, graph, kind, asked, controls, queued, stopping>>
        /\ UNCHANGED <<stopped, overlapped>>
    BY <1>2 DEF Parse, IsLive, others
  <2>2. TypeOK'
    BY <2>1 DEF TypeOK, Positions, Statuses
  <2>3. TaskInv'
    BY <2>1, RunMoves DEF Positions
  <2>4. QED
    BY <2>2, <2>3
<1>3. CASE Drop(r)
  <2>1. /\ IsLive(r) /\ at[r] \in {"uploaded", "created"} /\ asked[r]
        /\ at' = [at EXCEPT ![r] = "dropped"]
        /\ UNCHANGED <<session, kind, asked, controls, queued, stopping, stopped, overlapped>>
    BY <1>3 DEF Drop, IsLive
  <2>2. TypeOK'
    BY <2>1 DEF TypeOK, Positions, session
  <2>3. TaskInv'
    BY <2>1, RunMoves DEF Positions, session
  <2>4. QED
    BY <2>2, <2>3
<1>4. QED
  BY <1>1, <1>2, <1>3

LEMMA DeliberateInv ==
  ASSUME TypeOK, TaskInv, NEW r \in Runs, Deliberate(r)
  PROVE  TypeOK' /\ TaskInv'
<1>1. /\ IsLive(r) /\ at[r] = "working" /\ ~asked[r] /\ graph' \in BOOLEAN
      /\ UNCHANGED <<batch, mode, parsed, kind, asked, queued, stopping, stopped, overlapped>>
  BY DEF Deliberate, IsLive, others, TypeOK
<1>2. CASE Executing = {}
  <2>1. /\ at' = [at EXCEPT ![r] = "deliberating"] /\ status' = "running"
        /\ controls' = controls
    BY <1>2 DEF Deliberate
  <2>2. TypeOK'
    BY <1>1, <2>1 DEF TypeOK, Positions, Statuses
  <2>3. TaskInv'
    BY <1>1, <2>1, RunMoves DEF Positions
  <2>4. QED
    BY <2>2, <2>3
<1>3. CASE Executing # {}
  <2>1. at' = [at EXCEPT ![r] = "done"] /\ Release(r) /\ status' \in {status, "failed"}
    BY <1>3 DEF Deliberate, Ends
  <2>2. PICK s \in Runs : at[s] \in {"deliberating", "leaving"}
    BY <1>3 DEF Executing
  <2>3. s # r
    BY <1>1, <2>2
  <2>4. controls' = NoRun \/ (controls' = controls /\ controls # r)
    BY <2>1, Removal
  <2>5. TypeOK'
    BY <1>1, <2>1, <2>4 DEF TypeOK, Positions, Statuses
  <2>6. TaskInv'
    BY <1>1, <2>1, <2>2, <2>3, <2>4, RunEnds
  <2>7. QED
    BY <2>5, <2>6
<1>4. QED
  BY <1>2, <1>3

LEMMA EndInv ==
  ASSUME TypeOK, TaskInv, NEW r \in Runs, Finish(r) \/ Fail(r) \/ Finalize(r) \/ Unwound(r)
  PROVE  TypeOK' /\ TaskInv'
<1>1. /\ IsLive(r) /\ at' = [at EXCEPT ![r] = "done"]
      /\ UNCHANGED <<batch, parsed, kind, asked, queued, stopping, stopped, overlapped>>
  BY DEF Finish, Fail, Finalize, Unwound, IsLive, Ends, others
<1>2. /\ status' \in {"completed", "failed", "stopped"}
      /\ asked[r] => status' = "stopped"
      /\ ReleaseOwn(r) \/ Release(r)
  <2>1. CASE Finish(r)
    BY <2>1 DEF Finish, Ends
  <2>2. CASE Fail(r)
    <3>1. CASE at[r] = "parsing"
      BY <2>2, <3>1 DEF Fail, Ends
    <3>2. CASE at[r] # "parsing"
      BY <2>2, <3>2 DEF Fail, Ends
    <3>3. QED
      BY <3>1, <3>2
  <2>3. CASE Finalize(r) \/ Unwound(r)
    BY <2>3 DEF Finalize, Unwound, Ends
  <2>4. QED
    BY <2>1, <2>2, <2>3
<1>3. controls' = NoRun \/ (controls' = controls /\ controls # r)
  BY <1>2, Removal
<1>4. mode' \in Modes /\ graph' \in BOOLEAN
  BY DEF Finish, Fail, Finalize, Unwound, TypeOK, Modes
<1>5. TypeOK'
  BY <1>1, <1>2, <1>3, <1>4 DEF TypeOK, Positions, Statuses
<1>6. TaskInv'
  BY <1>1, <1>2, <1>3, RunEnds
<1>7. QED
  BY <1>5, <1>6

LEMMA InterruptInv ==
  ASSUME TypeOK, TaskInv, NEW r \in Runs, Interrupt(r)
  PROVE  TypeOK' /\ TaskInv'
<1>1. /\ asked[r]
      /\ UNCHANGED <<batch, mode, parsed, graph, kind, asked, queued, stopping>>
      /\ UNCHANGED <<stopped, overlapped>>
  BY DEF Interrupt, others
<1>2. CASE at[r] = "parsing" /\ Ends(r, "stopped") /\ ReleaseOwn(r)
  <2>1. IsLive(r) /\ at' = [at EXCEPT ![r] = "done"] /\ status' = "stopped"
    BY <1>2 DEF IsLive, Ends
  <2>2. controls' = NoRun \/ (controls' = controls /\ controls # r)
    BY <1>2, Removal
  <2>3. TypeOK'
    BY <1>1, <2>1, <2>2 DEF TypeOK, Positions, Statuses
  <2>4. TaskInv'
    BY <1>1, <2>1, <2>2, RunEnds
  <2>5. QED
    BY <2>3, <2>4
<1>3. CASE /\ at[r] \in {"working", "deliberating"}
           /\ at' = [at EXCEPT ![r] = IF @ = "working" THEN "unwinding" ELSE "leaving"]
           /\ UNCHANGED <<status, controls>>
  <2>1. PICK position \in {"unwinding", "leaving"} :
          /\ at' = [at EXCEPT ![r] = position]
          /\ at[r] = "deliberating" => position = "leaving"
    BY <1>3
  <2>2. IsLive(r)
    BY <1>3 DEF IsLive
  <2>3. TypeOK'
    BY <1>1, <1>3, <2>1 DEF TypeOK, Positions
  <2>4. TaskInv'
    BY <1>1, <1>3, <2>1, <2>2, RunMoves DEF Positions
  <2>5. QED
    BY <2>3, <2>4
<1>4. QED
  BY <1>2, <1>3 DEF Interrupt
-----------------------------------------------------------------------------
\* What concerns all runs.
LEMMA ShutdownInv == ASSUME TypeOK, TaskInv, Shutdown PROVE TypeOK' /\ TaskInv'
<1>1. /\ ~stopping /\ stopping' = TRUE
      /\ asked' = [r \in Runs |-> asked[r] \/ r \in Live]
      /\ at' = [r \in Runs |-> IF at[r] = "dropped" THEN "done" ELSE at[r]]
      /\ UNCHANGED <<session, kind, controls, queued, stopped, overlapped>>
  BY DEF Shutdown
<1>2. \A r \in Runs : /\ asked[r] => asked'[r]
                      /\ asked'[r] => asked[r] \/ IsLive(r)
                      /\ at[r] # "dropped" => at'[r] = at[r]
                      /\ at'[r] # "dropped"
                      /\ at'[r] = "none" => at[r] = "none"
                      /\ IsLive(r)' => IsLive(r)
                      /\ IsLive(r) => asked'[r]
  BY <1>1, LiveRuns DEF TypeOK, IsLive
<1>3. TypeOK'
  BY <1>1 DEF TypeOK, session, Positions
<1>4. Busy'
  <2>1. SUFFICES ASSUME status = "running"
                 PROVE  \E r \in Runs : IsLive(r)'
    BY <1>1 DEF Busy, session
  <2>2. PICK r \in Runs : IsLive(r) /\ (~asked[r] \/ at[r] \in {"deliberating", "leaving"})
    BY <1>1, <2>1 DEF TaskInv, Busy
  <2>3. at[r] # "dropped"
    BY <2>2 DEF TaskInv, AskedRuns
  <2>4. QED
    BY <1>2, <2>2, <2>3 DEF IsLive
<1>5. AskedRuns'
  BY <1>2 DEF TaskInv, AskedRuns, IsLive
<1>6. Registered'
  BY <1>1 DEF Registered
<1>7. Alone' /\ StopHolds'
  BY <1>1, <1>2 DEF TaskInv, Alone, StopHolds, session
<1>8. QED
  BY <1>3, <1>4, <1>5, <1>6, <1>7 DEF TaskInv

LEMMA RestartInv == ASSUME TypeOK, TaskInv, Restart PROVE TypeOK' /\ TaskInv'
<1>1. /\ at' = [r \in Runs |-> IF at[r] = "none" THEN "none" ELSE "done"]
      /\ controls' = NoRun /\ queued' = FALSE /\ stopping' = FALSE
      /\ UNCHANGED <<batch, mode, parsed, graph, kind, asked, stopped, overlapped>>
      /\ status' \in Statuses \ {"running"}
      /\ status = "stopped" => status' = "stopped"
  BY DEF Restart, TypeOK, Statuses
<1>2. \A r \in Runs : ~IsLive(r)' /\ (at'[r] = "none" => at[r] = "none") /\ at'[r] # "dropped"
  BY <1>1 DEF IsLive
<1>3. TypeOK'
  BY <1>1 DEF TypeOK, Positions
<1>4. TaskInv'
  BY <1>1, <1>2 DEF TaskInv, Busy, AskedRuns, Registered, Alone, StopHolds
<1>5. QED
  BY <1>3, <1>4

LEMMA StepInv == TypeOK /\ TaskInv /\ [Next]_vars => TypeOK' /\ TaskInv'
<1> SUFFICES ASSUME TypeOK, TaskInv, [Next]_vars PROVE TypeOK' /\ TaskInv'
  OBVIOUS
<1>1. CASE User
  BY <1>1, RequestInv, RetryInv, CancelInv DEF User
<1>2. CASE BatchTurn
  BY <1>2, BatchTurnInv
<1>3. CASE Housekeeping
  BY <1>3, MoveInv, EndInv, InterruptInv DEF Housekeeping
<1>4. CASE \E r \in Runs : Work(r)
  BY <1>4, MoveInv, DeliberateInv, EndInv DEF Work
<1>5. CASE Shutdown
  BY <1>5, ShutdownInv
<1>6. CASE ComeBack \/ Crash
  BY <1>6, RestartInv DEF ComeBack, Crash
<1>7. CASE UNCHANGED vars
  BY <1>7 DEF vars, session, tasks, TypeOK, TaskInv, Busy, AskedRuns, Registered, Alone,
              StopHolds, IsLive
<1>8. QED
  BY <1>1, <1>2, <1>3, <1>4, <1>5, <1>6, <1>7 DEF Next

LEMMA TasksAreSound == Spec => [](TypeOK /\ TaskInv)
<1>1. QED
  BY InitInv, StepInv, PTL DEF Spec
-----------------------------------------------------------------------------
\* Every reachable state is typed, for any number of runs.
THEOREM TasksAreTyped == Spec => []TypeOK
<1>1. QED
  BY TasksAreSound, PTL

\* A session nobody works on does not say it is running, whatever was cancelled,
\* retried, shut down or lost in a crash (tasks.py:27-100, api.py:587-606).
THEOREM IdleSessionsAreSettled == Spec => []IdleIsSettled
<1>1. TypeOK /\ TaskInv => IdleIsSettled
  BY LiveRuns DEF TaskInv, Busy, IdleIsSettled
<1>2. QED
  BY <1>1, TasksAreSound, PTL

\* A registered control belongs to a live run: no session is refused as active
\* after its run is gone (tasks.py:55-57, 71-72).
THEOREM ControlsLeadToLiveRuns == Spec => []ControlsAreOfLiveRuns
<1>1. TypeOK /\ TaskInv => ControlsAreOfLiveRuns
  BY LiveRuns DEF TypeOK, TaskInv, Registered, ControlsAreOfLiveRuns
<1>2. QED
  BY <1>1, TasksAreSound, PTL

\* Unless a retry or a batch overlapped it, a live run is alone and is the one
\* pause and cancel reach (tasks.py:79).
THEOREM LiveRunsAreRegistered == Spec => []LiveRunIsRegistered
<1>1. TypeOK /\ TaskInv => LiveRunIsRegistered
  BY LiveRuns DEF TaskInv, Alone, LiveRunIsRegistered
<1>2. QED
  BY <1>1, TasksAreSound, PTL

\* A stopped session stays stopped until the user starts it again
\* (routes.py:1443-1449, tasks.py:35-41).
THEOREM StopsAreFinal == Spec => []StopIsFinal
<1>1. TypeOK /\ TaskInv => StopIsFinal
  BY DEF TaskInv, StopHolds, StopIsFinal
<1>2. QED
  BY <1>1, TasksAreSound, PTL
=============================================================================
