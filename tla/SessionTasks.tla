---------------------------- MODULE SessionTasks ----------------------------
(***************************************************************************)
(* The life of one session's background tasks (protoneo/api/tasks.py, the  *)
(* session and pipeline routes, the endpoints of the paper review that     *)
(* start work): who may start a run, which control reaches it, what its    *)
(* end writes over, and what cancellation, shutdown and a restart leave    *)
(* behind.                                                                 *)
(*                                                                         *)
(* A step is what one handler or one task does between two awaits.  Reads  *)
(* and writes of the session file do not suspend (session.py), so a check, *)
(* the change of the status and the start of a task are one step.          *)
(***************************************************************************)
EXTENDS Naturals

CONSTANTS
  MaxRuns,   \* runs started in the life of the session (bound)
  Origins    \* how the session may have come to be

ASSUME SessionAssumption ==
  /\ MaxRuns \in Nat \ {0}
  /\ Origins \subseteq {"upload", "batch", "import", "kernel"}

Runs == 1..MaxRuns
NoRun == 0
Statuses == {"created", "running", "completed", "failed", "stopped"}
Modes == {"graph_only", "full_review", "imported_graph_review"}

\* What a run executes: the engine alone (_run_with_events), the graph pipeline
\* alone or followed by a review (_run_graph_pipeline), the graph steps of a
\* rebuild (run_pipeline_step), or the review of a finished graph, from
\* retry_session or from launch_review.
Kinds == {"direct", "graph", "full", "rebuild", "review", "launched"}

VARIABLES
  batch,      \* whether the session is a paper of a batch (batch_id)
  mode,       \* pipeline_mode of the session
  parsed,     \* whether the document's text is saved
  graph,      \* whether a finished knowledge graph is saved
  status,     \* status of the session
  at,         \* where each run is
  kind,       \* what each run executes
  asked,      \* runs whose task was cancelled
  controls,   \* the run whose control is registered for the session
  queued,     \* whether the batch has yet to come to this paper
  stopping,   \* whether the process is shutting down
  stopped,    \* history: the user stopped the session and started nothing since
  overlapped  \* history: a retry or a batch started a run beside a live one

session == <<batch, mode, parsed, graph, status>>
tasks == <<at, kind, asked, controls>>
vars == <<session, tasks, queued, stopping, stopped, overlapped>>

\* "uploaded" and "created" have not begun; "leaving" unwinds the engine,
\* "unwinding" anything else; "dropped" was cancelled before it began and
\* awaits its finalizer.
Positions == {"none", "uploaded", "created", "parsing", "working", "deliberating",
              "unwinding", "leaving", "dropped", "done"}
Live == {r \in Runs : at[r] \notin {"none", "done"}}
Executing == {r \in Runs : at[r] \in {"deliberating", "leaving"}}   \* engine._active

Init ==
  \E origin \in Origins :
    LET first == IF origin = "upload" THEN [r \in Runs |-> IF r = 1 THEN "uploaded" ELSE "none"]
                                      ELSE [r \in Runs |-> "none"]
    IN /\ batch = (origin = "batch")
       /\ \/ origin = "upload" /\ mode = "full_review" /\ parsed = FALSE /\ graph = FALSE
          \/ origin = "batch" /\ mode \in {"graph_only", "full_review"} /\ parsed = FALSE /\ graph = FALSE
          \/ origin = "import" /\ mode = "imported_graph_review" /\ parsed = TRUE /\ graph = TRUE
          \/ origin = "kernel" /\ mode = "full_review" /\ parsed = TRUE /\ graph = FALSE
       /\ status = "created"
       /\ at = first
       /\ kind = [r \in Runs |-> IF first[r] = "uploaded" THEN "full" ELSE "direct"]
       /\ asked = [r \in Runs |-> FALSE]
       /\ controls = IF origin = "upload" THEN 1 ELSE NoRun
       /\ queued = (origin = "batch")
       /\ stopping = FALSE /\ stopped = FALSE /\ overlapped = FALSE
-----------------------------------------------------------------------------
\* start_session_task: a new task and its control.
StartTask(k, position) ==
  \E r \in Runs :
    /\ at[r] = "none" /\ \A s \in 1..(r - 1) : at[s] # "none"
    /\ at' = [at EXCEPT ![r] = position]
    /\ kind' = [kind EXCEPT ![r] = k]
    /\ controls' = r
    /\ UNCHANGED asked

\* The user's calls that start something: a later stop is a new one.
Request == ~stopping /\ stopped' = FALSE /\ UNCHANGED <<batch, queued, stopping>>

StartUnlessRunning ==   \* (mutant: only the status is looked at)
  /\ Request
  /\ status # "running"
  /\ status' = "running"
  /\ StartTask("direct", "created")
  /\ overlapped' = (overlapped /\ Live # {})
  /\ UNCHANGED <<mode, parsed, graph>>

\* start_session and the start action of the WebSocket.
Start ==
  /\ Request
  /\ status # "running" /\ controls = NoRun
  /\ status' = "running"
  /\ StartTask("direct", "created")
  /\ overlapped' = (overlapped /\ Live # {})
  /\ UNCHANGED <<mode, parsed, graph>>

\* retry_session looks at the status only.
Retry ==
  /\ Request
  /\ status \in {"failed", "stopped"}
  /\ status' = "running"
  /\ LET pipeline == IF mode = "graph_only" THEN "graph" ELSE "full" IN
     \/ ~parsed /\ StartTask(pipeline, "uploaded")
     \/ parsed /\ mode = "imported_graph_review" /\ graph /\ StartTask("review", "created")
     \/ parsed /\ ~(mode = "imported_graph_review" /\ graph) /\ StartTask(pipeline, "created")
  /\ overlapped' = (Live # {})
  /\ UNCHANGED <<mode, parsed, graph>>

LaunchReview ==
  /\ Request
  /\ graph /\ controls = NoRun /\ status # "running"
  /\ status' = "running"
  /\ mode' = "imported_graph_review"
  /\ StartTask("launched", "created")
  /\ overlapped' = (overlapped /\ Live # {})
  /\ UNCHANGED <<parsed, graph>>

\* run_pipeline_step drops what was built from the step on.
RebuildStep ==
  /\ Request
  /\ parsed /\ controls = NoRun /\ status # "running"
  /\ status' = "running"
  /\ graph' = FALSE
  /\ StartTask("rebuild", "created")
  /\ overlapped' = (overlapped /\ Live # {})
  /\ UNCHANGED <<mode, parsed>>

\* The batch comes to this paper: it skips a stopped one, and looks at nothing
\* else.
BatchTurn ==
  /\ queued /\ ~stopping
  /\ queued' = FALSE
  /\ IF status = "stopped"
     THEN UNCHANGED <<tasks, overlapped>>
     ELSE /\ StartTask(IF mode = "graph_only" THEN "graph" ELSE "full", "uploaded")
          /\ overlapped' = (overlapped \/ Live # {})
  /\ UNCHANGED <<session, stopping, stopped>>

\* pipeline_cancel, stop_session and cancel_pipeline_step.
Cancel ==
  /\ ~stopping
  /\ status' = "stopped" /\ stopped' = TRUE
  /\ asked' = [r \in Runs |-> asked[r] \/ r = controls]
  /\ UNCHANGED <<batch, mode, parsed, graph, at, kind, controls, queued, stopping, overlapped>>
-----------------------------------------------------------------------------
\* What the end of a run does to the registered control: its own is removed, and
\* _run_graph_pipeline and launch_review remove whichever is there.
ReleaseOwn(r) == controls' = IF controls = r THEN NoRun ELSE controls
Release(r) ==
  IF kind[r] \in {"graph", "full", "launched"} THEN controls' = NoRun ELSE ReleaseOwn(r)

Ends(r, outcome) ==
  /\ at' = [at EXCEPT ![r] = "done"]
  /\ status' = outcome

others == <<batch, queued, stopping, stopped, overlapped>>

\* A task's first step.
Begin(r) ==
  /\ ~asked[r]
  /\ \/ at[r] = "uploaded" /\ at' = [at EXCEPT ![r] = "parsing"]
     \/ at[r] = "created" /\ at' = [at EXCEPT ![r] = "working"]
  /\ status' = IF kind[r] \in {"graph", "full"} THEN "running" ELSE status
  /\ UNCHANGED <<mode, parsed, graph, kind, asked, controls, others>>

Parse(r) ==
  /\ at[r] = "parsing" /\ ~asked[r]
  /\ parsed' = TRUE
  /\ at' = [at EXCEPT ![r] = "working"]
  /\ status' = "running"
  /\ UNCHANGED <<mode, graph, kind, asked, controls, others>>

\* A run enters the engine, which refuses a session it executes already; of that
\* refusal _run_with_events tells the event bus only.
Deliberate(r) ==
  /\ at[r] = "working" /\ ~asked[r]
  /\ kind[r] \notin {"graph", "rebuild"}
  /\ graph' = (graph \/ kind[r] = "full")
  /\ IF Executing = {}
     THEN at' = [at EXCEPT ![r] = "deliberating"] /\ status' = "running" /\ UNCHANGED controls
     ELSE Ends(r, IF kind[r] = "direct" THEN status ELSE "failed") /\ Release(r)
  /\ UNCHANGED <<mode, parsed, kind, asked, others>>

FinishStillRegistered(r) ==   \* (mutant: the control stays registered)
  /\ ~asked[r]
  /\ \/ at[r] = "working" /\ kind[r] \in {"graph", "rebuild"} /\ graph' = TRUE
     \/ at[r] = "deliberating" /\ UNCHANGED graph
  /\ mode' = IF kind[r] = "rebuild" THEN "graph_only" ELSE mode
  /\ Ends(r, "completed")
  /\ UNCHANGED <<parsed, kind, asked, controls, others>>

Finish(r) ==
  /\ ~asked[r]
  /\ \/ at[r] = "working" /\ kind[r] \in {"graph", "rebuild"} /\ graph' = TRUE
     \/ at[r] = "deliberating" /\ UNCHANGED graph
  /\ mode' = IF kind[r] = "rebuild" THEN "graph_only" ELSE mode
  /\ Ends(r, "completed")
  /\ Release(r)
  /\ UNCHANGED <<parsed, kind, asked, others>>

\* An error in any of it.
Fail(r) ==
  /\ ~asked[r]
  /\ at[r] \in {"parsing", "working", "deliberating"}
  /\ at[r] = "working" => kind[r] # "direct"
  /\ Ends(r, "failed")
  /\ IF at[r] = "parsing" THEN ReleaseOwn(r) ELSE Release(r)
  /\ UNCHANGED <<mode, parsed, graph, kind, asked, others>>

DropAtOnce(r) ==   \* (mutant: the done callback schedules no finalizer)
  /\ at[r] \in {"uploaded", "created"} /\ asked[r]
  /\ at' = [at EXCEPT ![r] = "done"]
  /\ ReleaseOwn(r)
  /\ UNCHANGED <<session, kind, asked, queued, stopping, stopped, overlapped>>

\* Cancelled before its first step, the coroutine never runs; a callback starts
\* the finalizer in its place.
Drop(r) ==
  /\ at[r] \in {"uploaded", "created"} /\ asked[r]
  /\ at' = [at EXCEPT ![r] = "dropped"]
  /\ UNCHANGED <<session, kind, asked, controls, queued, stopping, stopped, overlapped>>

Finalize(r) ==
  /\ at[r] = "dropped"
  /\ Ends(r, "stopped")
  /\ ReleaseOwn(r)
  /\ UNCHANGED <<mode, parsed, graph, kind, asked, others>>

\* The CancelledError arrives at the await; what the task started is cancelled
\* and awaited in its turn.  Parsing runs in a thread nobody waits for.
Interrupt(r) ==
  /\ asked[r]
  /\ \/ at[r] = "parsing" /\ Ends(r, "stopped") /\ ReleaseOwn(r)
     \/ /\ at[r] \in {"working", "deliberating"}
        /\ at' = [at EXCEPT ![r] = IF @ = "working" THEN "unwinding" ELSE "leaving"]
        /\ UNCHANGED <<status, controls>>
  /\ UNCHANGED <<mode, parsed, graph, kind, asked, others>>

UnwoundAsFailure(r) ==   \* (mutant: cancellation is handled like any error)
  /\ at[r] \in {"unwinding", "leaving"}
  /\ Ends(r, "failed")
  /\ Release(r)
  /\ UNCHANGED <<mode, parsed, graph, kind, asked, others>>

Unwound(r) ==
  /\ at[r] \in {"unwinding", "leaving"}
  /\ Ends(r, "stopped")
  /\ Release(r)
  /\ UNCHANGED <<mode, parsed, graph, kind, asked, others>>
-----------------------------------------------------------------------------
ShutdownRegistered ==   \* (mutant: tasks no control leads to are forgotten)
  /\ ~stopping
  /\ stopping' = TRUE
  /\ asked' = [r \in Runs |-> asked[r] \/ r = controls]
  /\ UNCHANGED <<session, at, kind, controls, queued, stopped, overlapped>>

\* stop_session_tasks cancels every background task, the finalizers that have
\* not run among them, and waits for all to end.
Shutdown ==
  /\ ~stopping
  /\ stopping' = TRUE
  /\ asked' = [r \in Runs |-> asked[r] \/ r \in Live]
  /\ at' = [r \in Runs |-> IF at[r] = "dropped" THEN "done" ELSE at[r]]
  /\ UNCHANGED <<session, kind, controls, queued, stopped, overlapped>>

\* Whatever was in memory is gone; _recover_stale_sessions runs before the
\* first request.
Restart ==
  /\ at' = [r \in Runs |-> IF at[r] = "none" THEN "none" ELSE "done"]
  /\ controls' = NoRun
  /\ queued' = FALSE /\ stopping' = FALSE
  /\ status' = IF status = "running" \/ (status = "created" /\ batch) THEN "stopped" ELSE status
  /\ UNCHANGED <<batch, mode, parsed, graph, kind, asked, stopped, overlapped>>

Crash == Restart
ComeBack == stopping /\ Live = {} /\ Restart
-----------------------------------------------------------------------------
User == Start \/ Retry \/ LaunchReview \/ RebuildStep \/ Cancel
Work(r) == Parse(r) \/ Deliberate(r) \/ Finish(r) \/ Fail(r)
Housekeeping == \E r \in Runs : Begin(r) \/ Drop(r) \/ Finalize(r) \/ Interrupt(r) \/ Unwound(r)
Next ==
  \/ User \/ BatchTurn \/ Housekeeping
  \/ \E r \in Runs : Work(r)
  \/ Shutdown \/ ComeBack \/ Crash
Spec == Init /\ [][Next]_vars

\* The event loop runs what is ready, and cancelled children end.  A run may be
\* held at a pause for ever, and nobody has to call anything.
FairSpec == Spec /\ WF_vars(Housekeeping)
-----------------------------------------------------------------------------
TypeOK ==
  /\ batch \in BOOLEAN /\ mode \in Modes /\ parsed \in BOOLEAN /\ graph \in BOOLEAN
  /\ status \in Statuses
  /\ at \in [Runs -> Positions]
  /\ kind \in [Runs -> Kinds]
  /\ asked \in [Runs -> BOOLEAN]
  /\ controls \in Runs \cup {NoRun}
  /\ queued \in BOOLEAN /\ stopping \in BOOLEAN
  /\ stopped \in BOOLEAN /\ overlapped \in BOOLEAN

\* A session nobody works on does not say it is running: otherwise no call would
\* ever start it again (routes.py:969, api.py:1212, 1382).
IdleIsSettled == Live = {} => status # "running"

\* A registered control belongs to a run that has yet to end, so a session is
\* never refused as active after its run is gone (tasks.py:55-57, 71-72).
ControlsAreOfLiveRuns == ~stopping => controls = NoRun \/ controls \in Live

\* Unless a retry or a batch started a run beside a live one, every live run is
\* the registered one: it is alone, and pause and cancel reach it (tasks.py:79).
LiveRunIsRegistered == ~overlapped => \A r \in Live : controls = r

\* What the user stopped stays stopped until the user starts it again: neither
\* the run that is still ending, nor its batch, nor a restart says otherwise.
StopIsFinal == stopped /\ ~overlapped => status = "stopped"

\* A cancelled run ends, whether it had begun or not; shutting down ends every run,
\* also those no control leads to.
RunsEndWhenTold == (\A r \in Runs : asked[r] ~> at[r] = "done") /\ (stopping ~> Live = {})

\* "Pause, resume, step, and cancellation controls apply to background
\* execution" (README.md:115): a run that was not cancelled is the registered
\* one.
EveryRunIsReachable == \A r \in Live : ~asked[r] => controls = r

\* "Process papers sequentially in a single background task.  Local LLMs cannot
\* handle parallel pipelines" (api.py:939): the batch does not start a paper
\* that is being worked on.
PapersOneAtATime == \A r, s \in Live : ~asked[r] /\ ~asked[s] => r = s
=============================================================================
