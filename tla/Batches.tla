------------------------------- MODULE Batches -------------------------------
(***************************************************************************)
(* The papers of a batch, the loops that run them one after another        *)
(* (start_batch, start_batch_review and retry_failed_in_batch of           *)
(* apps/paper_review/api.py), the user who retries or cancels a paper      *)
(* beside them, a crash and the recovery at start-up, and the status that  *)
(* get_batch derives and stores.                                           *)
(*                                                                         *)
(* A loop suspends only while it awaits the task of its current paper.     *)
(* What a task does between its start and its end is the subject of        *)
(* SessionTasks and GraphPipeline.                                         *)
(***************************************************************************)
EXTENDS Naturals, Sequences, Functions

CONSTANTS Papers,    \* the papers of the batch, a sequence of sessions
          MaxTasks, MaxLoops  \* bounds: tasks and loops of the batch's life

ASSUME BatchAssumption ==
  Papers \in Seq(Range(Papers)) /\ MaxTasks \in Nat /\ MaxLoops \in Nat \ {0}

VARIABLES paper,   \* the status of each paper's session
          task,    \* the tasks made so far
          control, \* the task whose control is registered for a paper
          loop,    \* the loops made so far
          batch,   \* the status stored in the batch
          orphan   \* history: a loop died of a task that was cancelled too early

batchVars == <<paper, task, control, loop, batch, orphan>>

PaperSet == Range(Papers)
Tasks == 1 .. Len(task)
Loops == 1 .. Len(loop)
NoTask == 0

\* The first loop is that of the upload, which has just created its papers.
BatchInit ==
  /\ paper = [p \in PaperSet |-> "created"]
  /\ task = <<>> /\ control = [p \in PaperSet |-> NoTask]
  /\ loop = <<[retry |-> FALSE, todo |-> Papers, awaits |-> NoTask, pc |-> "running"]>>
  /\ batch = "running" /\ orphan = FALSE

-----------------------------------------------------------------------------
(* The status of the batch. *)

Terminated == {"completed", "failed", "stopped"}

Aggregate(p) ==
  LET are(s) == \A q \in PaperSet : p[q] \in s
      some(s) == \E q \in PaperSet : p[q] = s
  IN  IF are({"completed"}) THEN "completed"
      ELSE IF are({"failed"}) THEN "failed"
      ELSE IF ~are(Terminated) THEN "running"
      ELSE IF some("failed") \/ some("completed") THEN "partial" ELSE "stopped"

GetBatch ==
  /\ batch' = Aggregate(paper)
  /\ UNCHANGED <<paper, task, control, loop, orphan>>

-----------------------------------------------------------------------------
(* Tasks. *)

\* A task for p is made and its control registered; its first step comes later.
Started(p) ==
  /\ Len(task) < MaxTasks
  /\ task' = Append(task, [paper |-> p, pc |-> "new", asked |-> FALSE])
  /\ control' = [control EXCEPT ![p] = Len(task')]

BeginTask(t) ==
  /\ task[t].pc = "new" /\ ~task[t].asked
  /\ task' = [task EXCEPT ![t].pc = "working"]
  /\ paper' = [paper EXCEPT ![task[t].paper] = "running"]
  /\ UNCHANGED <<control, loop, batch, orphan>>

TaskOver(t) == [t EXCEPT !.pc = "done", !.asked = FALSE]
DeadLoop(l) == [l EXCEPT !.pc = "dead", !.awaits = NoTask, !.todo = <<>>]

\* The end of a task: whatever control its paper has is dropped (pipeline.py).
Over(t, status) ==
  /\ task' = [task EXCEPT ![t] = TaskOver(@)]
  /\ paper' = [paper EXCEPT ![task[t].paper] = status]
  /\ control' = [control EXCEPT ![task[t].paper] = NoTask]

EndTask(t, status) ==
  /\ task[t].pc = "working" /\ ~task[t].asked
  /\ Over(t, status)
  /\ UNCHANGED <<loop, batch, orphan>>

\* A task that was cancelled at work swallows the cancellation.
UnwindTask(t) ==
  /\ task[t].pc = "working" /\ task[t].asked
  /\ Over(t, "stopped")
  /\ UNCHANGED <<loop, batch, orphan>>

\* One that never began is cancelled for whoever awaits it: `except Exception`
\* does not catch that, and the loop is gone.  A finalizer will stop the paper.
DropTask(t) ==
  /\ task[t].pc = "new" /\ task[t].asked
  /\ task' = [task EXCEPT ![t].pc = "dropped"]
  /\ loop' = [l \in Loops |-> IF loop[l].awaits = t
                              THEN DeadLoop(loop[l])
                              ELSE loop[l]]
  /\ orphan' = (orphan \/ loop' # loop)
  /\ UNCHANGED <<paper, control, batch>>

FinalizeTask(t) ==
  /\ task[t].pc = "dropped"
  /\ task' = [task EXCEPT ![t] = TaskOver(@)]
  /\ paper' = [paper EXCEPT ![task[t].paper] = "stopped"]
  /\ control' = [control EXCEPT ![task[t].paper] = IF @ = t THEN NoTask ELSE @]
  /\ UNCHANGED <<loop, batch, orphan>>

-----------------------------------------------------------------------------
(* Loops. *)

Resting(l) ==
  /\ loop[l].pc = "running"
  /\ loop[l].awaits \in {NoTask} \cup {t \in Tasks : task[t].pc = "done"}

Upcoming(l) == Head(loop[l].todo)
Advanced(l, t) ==
  loop' = [loop EXCEPT ![l].todo = Tail(@), ![l].awaits = t]

\* The upload's loop passes over a stopped paper and runs any other.
NextPaper(l) ==
  /\ Resting(l) /\ ~loop[l].retry /\ loop[l].todo # <<>>
  /\ IF paper[Upcoming(l)] = "stopped"
     THEN Advanced(l, NoTask) /\ UNCHANGED <<task, control>>
     ELSE Started(Upcoming(l)) /\ Advanced(l, Len(task'))
  /\ UNCHANGED <<paper, batch, orphan>>

\* Retrying a paper that is neither failed nor stopped any more is refused, and
\* the loop goes on; else it awaits the task registered for the paper.
NextRetry(l) ==
  /\ Resting(l) /\ loop[l].retry /\ loop[l].todo # <<>>
  /\ IF paper[Upcoming(l)] \in {"failed", "stopped"}
     THEN /\ Started(Upcoming(l)) /\ Advanced(l, control'[Upcoming(l)])
          /\ paper' = [paper EXCEPT ![Upcoming(l)] = "running"]
     ELSE Advanced(l, NoTask) /\ UNCHANGED <<paper, task, control>>
  /\ UNCHANGED <<batch, orphan>>

\* batch_complete is told after the status has been stored.
EndLoop(l) ==
  /\ Resting(l) /\ loop[l].todo = <<>>
  /\ loop' = [loop EXCEPT ![l].pc = "done", ![l].awaits = NoTask]
  /\ batch' = Aggregate(paper)
  /\ UNCHANGED <<paper, task, control, orphan>>

-----------------------------------------------------------------------------
(* The user, and the process. *)

RetryFailed ==
  /\ Len(loop) < MaxLoops
  /\ LET failed == SelectSeq(Papers, LAMBDA p : paper[p] \in {"failed", "stopped"})
     IN  /\ failed # <<>>
         /\ loop' = Append(loop, [retry |-> TRUE, todo |-> failed,
                                  awaits |-> NoTask, pc |-> "running"])
  /\ UNCHANGED <<paper, task, control, batch, orphan>>

RetryPaper(p) ==
  /\ paper[p] \in {"failed", "stopped"}
  /\ Started(p)
  /\ paper' = [paper EXCEPT ![p] = "running"]
  /\ UNCHANGED <<loop, batch, orphan>>

\* pipeline/cancel stops any session, and the registered task of this one.
CancelPaper(p) ==
  /\ paper[p] # "stopped" \/ control[p] # NoTask
  /\ paper' = [paper EXCEPT ![p] = "stopped"]
  /\ task' = [t \in Tasks |-> IF t = control[p] THEN [task[t] EXCEPT !.asked = TRUE] ELSE task[t]]
  /\ UNCHANGED <<control, loop, batch, orphan>>

Died ==
  /\ task' = [t \in Tasks |-> TaskOver(task[t])]
  /\ control' = [p \in PaperSet |-> NoTask]
  /\ loop' = [l \in Loops |-> IF loop[l].pc = "done" THEN loop[l]
                              ELSE DeadLoop(loop[l])]
  /\ UNCHANGED <<batch, orphan>>

CrashBatchRunningOnly ==   \* (mutant: papers that wait for their loop are not recovered)
  /\ \E l \in Loops : loop[l].pc = "running"
  /\ Died
  /\ paper' = [p \in PaperSet |-> IF paper[p] = "running" THEN "stopped" ELSE paper[p]]

\* The process dies; the next one stops papers that ran, or waited for a loop.
CrashBatch ==
  /\ \E l \in Loops : loop[l].pc = "running"
  /\ Died
  /\ paper' = [p \in PaperSet |-> IF paper[p] \in {"running", "created"} THEN "stopped"
                                  ELSE paper[p]]

BatchNext ==
  \/ GetBatch \/ RetryFailed \/ CrashBatch
  \/ \E t \in Tasks :
       \/ BeginTask(t) \/ UnwindTask(t) \/ DropTask(t) \/ FinalizeTask(t)
       \/ \E status \in {"completed", "failed"} : EndTask(t, status)
  \/ \E l \in Loops : NextPaper(l) \/ NextRetry(l) \/ EndLoop(l)
  \/ \E p \in PaperSet : RetryPaper(p) \/ CancelPaper(p)

BatchSpec == BatchInit /\ [][BatchNext]_batchVars

-----------------------------------------------------------------------------
(* Properties. *)

LiveTasks(p) == {t \in Tasks : task[t].paper = p /\ task[t].pc # "done"}

\* A paper that waits will be reached by a loop, unless its loop died of a
\* cancellation; one that runs has a task; a dead loop awaits nothing.
PapersAreServed ==
  /\ \A p \in PaperSet :
       /\ paper[p] = "created" =>
            \/ orphan \/ LiveTasks(p) # {}
            \/ \E l \in Loops : loop[l].pc = "running" /\ p \in Range(loop[l].todo)
       /\ paper[p] = "running" => LiveTasks(p) # {}
  /\ \A l \in Loops : loop[l].pc = "dead" => loop[l].awaits = NoTask

\* No paper of a batch is forgotten, and a batch that a loop reports complete
\* is stored as running only when another loop or a paper runs beside it, or a
\* paper waits for a loop that died.
BatchesSettle ==
  [][/\ PapersAreServed'
     /\ \A l \in Loops : loop[l].pc = "running" /\ loop'[l].pc = "done" =>
          \/ batch' # "running" \/ orphan \/ \E k \in Loops : loop'[k].pc = "running"
          \/ \E p \in PaperSet : LiveTasks(p) # {}
    ]_batchVars
=============================================================================
