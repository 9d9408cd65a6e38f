---------------------------- MODULE ServicesProofs ----------------------------
(***************************************************************************)
(* What holds of the application services, one after the other: batches,   *)
(* reviews of packet folders, the choice of models and credentials, what   *)
(* model calls cost, the plan of a review, the desk where a review is      *)
(* edited, and the types of a graph.  The services share no state, so each *)
(* part has an inductive invariant of its own.                             *)
(***************************************************************************)
EXTENDS ReviewDesk, Batches, PacketReviews, ModelProviders, ModelAccess, ReviewPlan,
        OntologyDiscovery, Integers, FiniteSetTheorems, WellFoundedInduction, TLAPS

-----------------------------------------------------------------------------
(***************************************************************************)
(* No paper of a batch is forgotten: for any papers, any number of tasks,  *)
(* loops, retries and cancellations, and crashes at any time.              *)
(*                                                                         *)
(* The argument: only the upload's loop serves papers that were never run, *)
(* and a paper leaves its list when it was stopped or gets a task; a list  *)
(* is lost only with its loop, to a crash, which stops the papers that     *)
(* wait, or to a cancellation, which the history notes.  A paper that runs *)
(* has a task that has not ended, for the end of any of its tasks, even of *)
(* one beside another, ends the paper's running too.                       *)
(***************************************************************************)
Statuses == {"created", "running", "completed", "failed", "stopped"}
IsLive(t) == task[t].pc # "done"
Waits(p, l) ==
  loop[l].pc = "running" /\ ~loop[l].retry /\ p \in Range(loop[l].todo)

TasksOK ==
  /\ Len(task) \in Nat /\ task = [t \in Tasks |-> task[t]]
  /\ \A t \in Tasks : task[t] = [f \in {"paper", "pc", "asked"} |-> task[t][f]]
LoopOK(l) ==
  /\ l = [f \in {"retry", "todo", "awaits", "pc"} |-> l[f]]
  /\ ~l.retry => l.todo \in Seq(PaperSet)
  /\ l.pc = "dead" => l.awaits = NoTask
LoopsOK ==
  /\ Len(loop) \in Nat /\ loop = [l \in Loops |-> loop[l]]
  /\ \A l \in Loops : LoopOK(loop[l])

WaitingAreServed ==
  \A p \in PaperSet : paper[p] = "created" =>
     \/ orphan
     \/ \E t \in Tasks : task[t].paper = p /\ IsLive(t)
     \/ \E l \in Loops : Waits(p, l)
RunningHaveTasks ==
  \A p \in PaperSet : paper[p] = "running" =>
     \E t \in Tasks : task[t].paper = p /\ IsLive(t)

BatchInv ==
  /\ paper \in [PaperSet -> Statuses] /\ orphan \in BOOLEAN
  /\ TasksOK /\ LoopsOK /\ WaitingAreServed /\ RunningHaveTasks

\* No step but EndLoop ends a loop.
NoLoopEnds ==
  \A l \in Loops : loop[l].pc = "running" => loop'[l].pc # "done"
-----------------------------------------------------------------------------
LEMMA LiveTasksOf == \A p : LiveTasks(p) # {} <=> \E t \in Tasks : task[t].paper = p /\ IsLive(t)
BY DEF LiveTasks, IsLive

LEMMA InvServes == ASSUME BatchInv PROVE PapersAreServed
BY LiveTasksOf DEF BatchInv, PapersAreServed, WaitingAreServed, RunningHaveTasks, Waits,
                   LoopsOK, LoopOK

LEMMA NoPapers == ASSUME NEW s, s = <<>> PROVE s \in Seq(PaperSet)
<1>1. <<>> \in Seq(PaperSet)
  OBVIOUS
<1> QED
  BY <1>1

\* A sequence one longer; its type does not matter.
LEMMA Appending ==
  ASSUME NEW s, NEW e, Len(s) \in Nat, s = [i \in 1 .. Len(s) |-> s[i]]
  PROVE  LET t == Append(s, e)
         IN  /\ Len(t) = Len(s) + 1 /\ Len(t) \in Nat /\ t = [i \in 1 .. Len(t) |-> t[i]]
             /\ \A i \in 1 .. Len(s) : i \in 1 .. Len(t) /\ t[i] = s[i]
             /\ Len(t) \in 1 .. Len(t) /\ t[Len(t)] = e
             /\ \A i \in 1 .. Len(t) : i \in 1 .. Len(s) \/ i = Len(t)
<1> DEFINE S == {s[i] : i \in 1 .. Len(s)} \cup {e}
<1>1. s \in Seq(S) /\ e \in S
  OBVIOUS
<1> HIDE DEF S
<1> DEFINE t == Append(s, e)
<1>2. /\ t \in Seq(S) /\ Len(t) = Len(s) + 1
      /\ \A i \in 1 .. Len(s) : t[i] = s[i]
      /\ t[Len(s) + 1] = e
  BY <1>1
<1> HIDE DEF t
<1>3. t = [i \in 1 .. Len(t) |-> t[i]]
  BY <1>2
<1>4. /\ \A i \in 1 .. Len(s) : i \in 1 .. Len(t)
      /\ Len(t) \in 1 .. Len(t) /\ Len(t) \in Nat
      /\ \A i \in 1 .. Len(t) : i \in 1 .. Len(s) \/ i = Len(t)
  BY <1>2
<1> QED
  BY <1>2, <1>3, <1>4 DEF t

LEMMA Measured ==
  ASSUME NEW s, NEW n \in Nat, s = [i \in 1 .. n |-> s[i]] PROVE Len(s) = n
<1> DEFINE S == {s[i] : i \in 1 .. n}
<1>1. s \in [1 .. n -> S]
  OBVIOUS
<1> HIDE DEF S
<1> QED
  BY <1>1
-----------------------------------------------------------------------------
(* Steps of the parts. *)

\* The tasks change in place: none is added.
TasksStay ==
  /\ task' = [t \in Tasks |-> task'[t]]
  /\ \A t \in Tasks : task'[t] = [f \in {"paper", "pc", "asked"} |-> task'[t][f]]
  /\ \A t \in Tasks : task'[t].paper = task[t].paper

LEMMA SameTasks ==
  ASSUME TasksOK, TasksStay PROVE TasksOK' /\ Tasks' = Tasks
<1>1. Len(task') = Len(task)
  BY Measured DEF TasksOK, TasksStay, Tasks
<1> QED
  BY <1>1 DEF TasksOK, TasksStay, Tasks

\* The loops change in place.
LoopsStay ==
  /\ loop' = [l \in Loops |-> loop'[l]]
  /\ \A l \in Loops : LoopOK(loop'[l])

LEMMA SameLoops ==
  ASSUME LoopsOK, LoopsStay PROVE LoopsOK' /\ Loops' = Loops
<1>1. Len(loop') = Len(loop)
  BY Measured DEF LoopsOK, LoopsStay, Loops
<1> QED
  BY <1>1 DEF LoopsOK, LoopsStay, Loops, LoopOK

\* One task of the batch changes, to x.
LEMMA OneTask ==
  ASSUME TasksOK, NEW t \in Tasks, NEW x, task' = [task EXCEPT ![t] = x],
         x = [f \in {"paper", "pc", "asked"} |-> x[f]], x.paper = task[t].paper
  PROVE  /\ TasksStay /\ task'[t] = x
         /\ \A u \in Tasks : u # t => task'[u] = task[u]
<1>1. /\ task' = [u \in Tasks |-> task'[u]] /\ task'[t] = x
      /\ \A u \in Tasks : u # t => task'[u] = task[u]
  BY DEF TasksOK
<1> QED
  BY <1>1 DEF TasksOK, TasksStay

\* The task begins, ends or is finalized, and says so of its paper.
LEMMA TaskMoves ==
  ASSUME BatchInv, NEW t \in Tasks, NEW x, task' = [task EXCEPT ![t] = x],
         x = [f \in {"paper", "pc", "asked"} |-> x[f]], x.paper = task[t].paper,
         NEW status \in Statuses \ {"created"}, status = "running" => x.pc # "done",
         paper' = [paper EXCEPT ![task[t].paper] = status],
         UNCHANGED <<loop, orphan>>
  PROVE  BatchInv' /\ NoLoopEnds
<1>1. /\ TasksStay /\ task'[t] = x /\ \A u \in Tasks : u # t => task'[u] = task[u]
  BY OneTask DEF BatchInv
<1>2. TasksOK' /\ Tasks' = Tasks
  BY <1>1, SameTasks DEF BatchInv
<1>3. LoopsOK' /\ NoLoopEnds /\ Loops' = Loops
  BY DEF BatchInv, LoopsOK, LoopOK, Loops, NoLoopEnds
<1>4. /\ paper' \in [PaperSet -> Statuses]
      /\ \A p \in PaperSet : p # task[t].paper => paper'[p] = paper[p]
      /\ task[t].paper \in PaperSet => paper'[task[t].paper] = status
  BY DEF BatchInv
<1>5. ASSUME NEW p \in PaperSet, p # task[t].paper, \E u \in Tasks : task[u].paper = p /\ IsLive(u)
      PROVE  \E u \in Tasks : task'[u].paper = p /\ IsLive(u)'
  BY <1>1, <1>5 DEF IsLive
<1>6. WaitingAreServed'
  BY <1>2, <1>3, <1>4, <1>5 DEF BatchInv, WaitingAreServed, Waits
<1>7. RunningHaveTasks'
  <2>1. SUFFICES ASSUME NEW p \in PaperSet, paper'[p] = "running"
                 PROVE  \E u \in Tasks : task'[u].paper = p /\ IsLive(u)'
    BY <1>2 DEF RunningHaveTasks
  <2>2. CASE p = task[t].paper
    BY <1>1, <1>4, <2>1, <2>2 DEF IsLive
  <2>3. CASE p # task[t].paper
    BY <1>4, <1>5, <2>1, <2>3 DEF BatchInv, RunningHaveTasks
  <2> QED
    BY <2>2, <2>3
<1> QED
  BY <1>2, <1>3, <1>4, <1>6, <1>7 DEF BatchInv

LEMMA TaskInv ==
  ASSUME BatchInv, NEW t \in Tasks,
         \/ BeginTask(t) \/ UnwindTask(t) \/ FinalizeTask(t)
         \/ \E status \in {"completed", "failed"} : EndTask(t, status)
  PROVE  BatchInv' /\ NoLoopEnds
<1>1. /\ task[t] = [f \in {"paper", "pc", "asked"} |-> task[t][f]]
      /\ UNCHANGED <<loop, orphan>>
  BY DEF BatchInv, TasksOK, BeginTask, UnwindTask, FinalizeTask, EndTask
<1>2. CASE BeginTask(t)
  <2> DEFINE x == [task[t] EXCEPT !.pc = "working"]
  <2>1. x = [f \in {"paper", "pc", "asked"} |-> x[f]] /\ x.paper = task[t].paper /\ x.pc = "working"
    BY <1>1
  <2>2. task' = [task EXCEPT ![t] = x] /\ paper' = [paper EXCEPT ![task[t].paper] = "running"]
    BY <1>2 DEF BeginTask
  <2>3. "running" \in Statuses \ {"created"}
    BY DEF Statuses
  <2> HIDE DEF x
  <2> QED
    BY <1>1, <2>1, <2>2, <2>3, TaskMoves
<1>3. CASE \/ UnwindTask(t) \/ FinalizeTask(t)
           \/ \E status \in {"completed", "failed"} : EndTask(t, status)
  <2> DEFINE x == [task[t] EXCEPT !.pc = "done", !.asked = FALSE]
  <2>1. x = [f \in {"paper", "pc", "asked"} |-> x[f]] /\ x.paper = task[t].paper
    BY <1>1
  <2>2. PICK status \in {"completed", "failed", "stopped"} :
          task' = [task EXCEPT ![t] = x] /\ paper' = [paper EXCEPT ![task[t].paper] = status]
    BY <1>3 DEF UnwindTask, FinalizeTask, EndTask, Over, TaskOver
  <2>3. status \in Statuses \ {"created"} /\ status # "running"
    BY DEF Statuses
  <2> HIDE DEF x
  <2> QED
    BY <1>1, <2>1, <2>2, <2>3, TaskMoves
<1> QED
  BY <1>2, <1>3

\* A task cancelled before it began takes with it the loop that awaits it.
LEMMA DropInv == ASSUME BatchInv, NEW t \in Tasks, DropTask(t) PROVE BatchInv' /\ NoLoopEnds
<1> DEFINE x == [task[t] EXCEPT !.pc = "dropped"]
<1>1. task[t] = [f \in {"paper", "pc", "asked"} |-> task[t][f]]
  BY DEF BatchInv, TasksOK
<1>2. x = [f \in {"paper", "pc", "asked"} |-> x[f]] /\ x.paper = task[t].paper /\ x.pc = "dropped"
  BY <1>1
<1>3. /\ task' = [task EXCEPT ![t] = x] /\ paper' = paper
      /\ loop' = [l \in Loops |-> IF loop[l].awaits = t THEN DeadLoop(loop[l]) ELSE loop[l]]
      /\ orphan' = (orphan \/ loop' # loop)
  BY DEF DropTask
<1> HIDE DEF x
<1>4. /\ TasksStay /\ task'[t] = x /\ \A u \in Tasks : u # t => task'[u] = task[u]
  BY <1>2, <1>3, OneTask DEF BatchInv
<1>5. TasksOK' /\ Tasks' = Tasks
  BY <1>4, SameTasks DEF BatchInv
<1>6. ASSUME NEW l \in Loops
      PROVE  LoopOK(loop'[l]) /\ (loop'[l] = loop[l] \/ loop'[l].pc = "dead")
  <2>1. LoopOK(loop[l])
    BY DEF BatchInv, LoopsOK
  <2>2. CASE loop[l].awaits = t
    <3> DEFINE d == DeadLoop(loop[l])
    <3>1. /\ d = [f \in {"retry", "todo", "awaits", "pc"} |-> d[f]]
          /\ d.pc = "dead" /\ d.awaits = NoTask /\ d.todo = <<>>
      BY <2>1 DEF DeadLoop, LoopOK
    <3>2. loop'[l] = d
      BY <1>3, <2>2
    <3> HIDE DEF d
    <3>3. d.todo \in Seq(PaperSet)
      BY <3>1, NoPapers
    <3>4. LoopOK(d)
      BY <3>1, <3>3 DEF LoopOK
    <3> QED
      BY <3>1, <3>2, <3>4
  <2>3. CASE loop[l].awaits # t
    BY <1>3, <2>1, <2>3
  <2> QED
    BY <2>2, <2>3
<1>7. LoopsStay
  BY <1>3, <1>6 DEF LoopsStay
<1>8. LoopsOK' /\ Loops' = Loops
  BY <1>7, SameLoops DEF BatchInv
<1>9. NoLoopEnds
  BY <1>6 DEF NoLoopEnds
<1>10. \A p : (\E u \in Tasks : task[u].paper = p /\ IsLive(u)) =>
              (\E u \in Tasks : task'[u].paper = p /\ IsLive(u)')
  BY <1>2, <1>4 DEF IsLive, TasksStay
<1>11. /\ orphan' <=> (orphan \/ loop' # loop)
       /\ orphan' \in BOOLEAN
  BY <1>3
<1>12. WaitingAreServed' /\ RunningHaveTasks'
  BY <1>3, <1>5, <1>8, <1>10, <1>11
     DEF BatchInv, WaitingAreServed, RunningHaveTasks, Waits
<1> QED
  BY <1>3, <1>5, <1>8, <1>9, <1>11, <1>12 DEF BatchInv

-----------------------------------------------------------------------------
(* Loops. *)

\* A task is made for p; what its paper's status becomes is the caller's.
LEMMA TaskStarts ==
  ASSUME TasksOK, NEW p, Started(p)
  PROVE  /\ TasksOK'
         /\ \A q : (\E u \in Tasks : task[u].paper = q /\ IsLive(u)) =>
                   (\E u \in Tasks' : task'[u].paper = q /\ IsLive(u)')
         /\ \E u \in Tasks' : task'[u].paper = p /\ IsLive(u)'
<1> DEFINE x == [paper |-> p, pc |-> "new", asked |-> FALSE]
<1>1. task' = Append(task, x)
  BY DEF Started
<1>2. x = [f \in {"paper", "pc", "asked"} |-> x[f]] /\ x.paper = p /\ x.pc = "new"
  OBVIOUS
<1> HIDE DEF x
<1>3. /\ Len(task') = Len(task) + 1 /\ Len(task') \in Nat
      /\ task' = [t \in 1 .. Len(task') |-> task'[t]]
      /\ \A t \in 1 .. Len(task) : t \in 1 .. Len(task') /\ task'[t] = task[t]
      /\ Len(task') \in 1 .. Len(task') /\ task'[Len(task')] = x
      /\ \A t \in 1 .. Len(task') : t \in 1 .. Len(task) \/ t = Len(task')
  BY <1>1, Appending DEF TasksOK, Tasks
<1>4. TasksOK'
  BY <1>2, <1>3 DEF TasksOK, Tasks
<1> QED
  BY <1>2, <1>3, <1>4 DEF IsLive, Tasks

\* A loop goes on with the rest of its papers.
LEMMA LoopAdvances ==
  ASSUME LoopsOK, NEW l \in Loops, NEW t, loop[l].pc = "running", loop[l].todo # <<>>,
         Advanced(l, t)
  PROVE  /\ LoopsOK' /\ Loops' = Loops /\ NoLoopEnds
         /\ ~loop[l].retry => Upcoming(l) \in PaperSet
         /\ \A p : (\E k \in Loops : Waits(p, k)) =>
              \/ ~loop[l].retry /\ p = Upcoming(l)
              \/ \E k \in Loops : Waits(p, k)'
<1> DEFINE x == [loop[l] EXCEPT !.todo = Tail(@), !.awaits = t]
<1>1. LoopOK(loop[l])
  BY DEF LoopsOK
<1>2. /\ x = [f \in {"retry", "todo", "awaits", "pc"} |-> x[f]]
      /\ x.retry = loop[l].retry /\ x.todo = Tail(loop[l].todo) /\ x.pc = "running"
  BY <1>1 DEF LoopOK
<1>3. loop' = [loop EXCEPT ![l] = x]
  BY DEF Advanced
<1> HIDE DEF x
<1>4. /\ loop' = [k \in Loops |-> loop'[k]] /\ loop'[l] = x
      /\ \A k \in Loops : k # l => loop'[k] = loop[k]
  BY <1>3 DEF LoopsOK
<1>5. ASSUME ~loop[l].retry
      PROVE  /\ Tail(loop[l].todo) \in Seq(PaperSet) /\ Upcoming(l) \in PaperSet
             /\ \A p \in Range(loop[l].todo) :
                  p = Upcoming(l) \/ p \in Range(Tail(loop[l].todo))
  <2> DEFINE s == loop[l].todo
  <2>1. s \in Seq(PaperSet) /\ s # <<>>
    BY <1>1, <1>5 DEF LoopOK
  <2> HIDE DEF s
  <2>2. Tail(s) \in Seq(PaperSet) /\ Head(s) \in PaperSet /\ Head(s) = s[1]
    BY <2>1
  <2>3. /\ DOMAIN s = 1 .. Len(s) /\ Len(s) \in Nat /\ Len(Tail(s)) = Len(s) - 1
        /\ DOMAIN Tail(s) = 1 .. Len(s) - 1
        /\ \A i \in 1 .. Len(s) - 1 : Tail(s)[i] = s[i + 1]
    BY <2>1
  <2>4. ASSUME NEW i \in DOMAIN s, i # 1 PROVE s[i] \in Range(Tail(s))
    <3>1. i - 1 \in DOMAIN Tail(s) /\ Tail(s)[i - 1] = s[i]
      BY <2>3, <2>4
    <3> QED
      BY <3>1 DEF Range
  <2> QED
    BY <2>2, <2>4 DEF s, Upcoming, Range
<1>6. LoopOK(x)
  BY <1>2, <1>5 DEF LoopOK
<1>7. LoopsStay
  BY <1>4, <1>6 DEF LoopsStay, LoopsOK
<1>8. LoopsOK' /\ Loops' = Loops
  BY <1>7, SameLoops
<1>9. NoLoopEnds
  BY <1>2, <1>4 DEF NoLoopEnds
<1>10. ASSUME NEW p, NEW k \in Loops, Waits(p, k)
       PROVE  (~loop[l].retry /\ p = Upcoming(l)) \/ \E m \in Loops : Waits(p, m)'
  <2>1. CASE k # l
    BY <1>4, <1>10, <2>1 DEF Waits
  <2>2. CASE k = l
    BY <1>2, <1>4, <1>5, <1>10, <2>2 DEF Waits
  <2> QED
    BY <2>1, <2>2
<1> QED
  BY <1>5, <1>8, <1>9, <1>10

LEMMA NextPaperInv ==
  ASSUME BatchInv, NEW l \in Loops, NextPaper(l) PROVE BatchInv' /\ NoLoopEnds
<1> DEFINE p == Upcoming(l)
<1>1. /\ loop[l].pc = "running" /\ loop[l].todo # <<>> /\ ~loop[l].retry
      /\ UNCHANGED <<paper, orphan>>
  BY DEF NextPaper, Resting
<1>2. PICK t : Advanced(l, t)
  BY DEF NextPaper
<1>3. /\ LoopsOK' /\ Loops' = Loops /\ NoLoopEnds
      /\ \A q : (\E k \in Loops : Waits(q, k)) =>
           q = Upcoming(l) \/ \E k \in Loops : Waits(q, k)'
  BY <1>1, <1>2, LoopAdvances DEF BatchInv
<1> HIDE DEF p
<1>4. CASE paper[p] = "stopped" /\ task' = task
  <2>1. TasksOK' /\ Tasks' = Tasks
    BY <1>4 DEF BatchInv, TasksOK, Tasks
  <2>2. WaitingAreServed' /\ RunningHaveTasks'
    BY <1>1, <1>3, <1>4, <2>1
       DEF BatchInv, WaitingAreServed, RunningHaveTasks, IsLive, p
  <2> QED
    BY <1>1, <1>3, <2>1, <2>2 DEF BatchInv
<1>5. CASE Started(p)
  <2>1. /\ TasksOK'
        /\ \A q : (\E u \in Tasks : task[u].paper = q /\ IsLive(u)) =>
                  (\E u \in Tasks' : task'[u].paper = q /\ IsLive(u)')
        /\ \E u \in Tasks' : task'[u].paper = p /\ IsLive(u)'
    BY <1>5, TaskStarts DEF BatchInv
  <2>2. WaitingAreServed' /\ RunningHaveTasks'
    BY <1>1, <1>3, <2>1 DEF BatchInv, WaitingAreServed, RunningHaveTasks, p
  <2> QED
    BY <1>1, <1>3, <2>1, <2>2 DEF BatchInv
<1> QED
  BY <1>4, <1>5 DEF NextPaper, p

\* A paper is retried: it runs, and has a task.
LEMMA Retried ==
  ASSUME BatchInv, NEW p, Started(p), paper' = [paper EXCEPT ![p] = "running"],
         orphan' = orphan, LoopsOK', Loops' = Loops,
         \A q : (\E k \in Loops : Waits(q, k)) => \E k \in Loops : Waits(q, k)'
  PROVE  BatchInv'
<1>1. /\ TasksOK'
      /\ \A q : (\E u \in Tasks : task[u].paper = q /\ IsLive(u)) =>
                (\E u \in Tasks' : task'[u].paper = q /\ IsLive(u)')
      /\ \E u \in Tasks' : task'[u].paper = p /\ IsLive(u)'
  BY TaskStarts DEF BatchInv
<1>2. /\ paper' \in [PaperSet -> Statuses]
      /\ \A q \in PaperSet : q # p => paper'[q] = paper[q]
      /\ p \in PaperSet => paper'[p] = "running"
  BY DEF BatchInv, Statuses
<1>3. WaitingAreServed' /\ RunningHaveTasks'
  BY <1>1, <1>2 DEF BatchInv, WaitingAreServed, RunningHaveTasks
<1> QED
  BY <1>1, <1>2, <1>3 DEF BatchInv

LEMMA NextRetryInv ==
  ASSUME BatchInv, NEW l \in Loops, NextRetry(l) PROVE BatchInv' /\ NoLoopEnds
<1>1. /\ loop[l].pc = "running" /\ loop[l].todo # <<>> /\ loop[l].retry /\ orphan' = orphan
  BY DEF NextRetry, Resting
<1>2. PICK t : Advanced(l, t)
  BY DEF NextRetry
<1>3. /\ LoopsOK' /\ Loops' = Loops /\ NoLoopEnds
      /\ \A q : (\E k \in Loops : Waits(q, k)) => \E k \in Loops : Waits(q, k)'
  BY <1>1, <1>2, LoopAdvances DEF BatchInv
<1>4. CASE UNCHANGED <<paper, task>>
  <2>1. TasksOK' /\ Tasks' = Tasks
    BY <1>4 DEF BatchInv, TasksOK, Tasks
  <2>2. WaitingAreServed' /\ RunningHaveTasks'
    BY <1>1, <1>3, <1>4, <2>1 DEF BatchInv, WaitingAreServed, RunningHaveTasks, IsLive
  <2> QED
    BY <1>1, <1>3, <1>4, <2>1, <2>2 DEF BatchInv
<1>5. CASE /\ Started(Upcoming(l))
           /\ paper' = [paper EXCEPT ![Upcoming(l)] = "running"]
  BY <1>1, <1>3, <1>5, Retried
<1> QED
  BY <1>3, <1>4, <1>5 DEF NextRetry

LEMMA RetryPaperInv ==
  ASSUME BatchInv, NEW p \in PaperSet, RetryPaper(p) PROVE BatchInv' /\ NoLoopEnds
<1>1. /\ Started(p) /\ paper' = [paper EXCEPT ![p] = "running"]
      /\ UNCHANGED <<loop, orphan>>
  BY DEF RetryPaper
<1>2. LoopsOK' /\ Loops' = Loops /\ NoLoopEnds /\ \A q, k : Waits(q, k) <=> Waits(q, k)'
  BY <1>1 DEF BatchInv, LoopsOK, Loops, NoLoopEnds, Waits
<1> QED
  BY <1>1, <1>2, Retried

LEMMA EndLoopInv ==
  ASSUME BatchInv, NEW l \in Loops, EndLoop(l)
  PROVE  /\ BatchInv' /\ loop'[l].pc = "done"
         /\ \A k \in Loops : k # l => loop'[k] = loop[k]
<1> DEFINE x == [loop[l] EXCEPT !.pc = "done", !.awaits = NoTask]
<1>1. LoopOK(loop[l]) /\ loop[l].todo = <<>>
  BY DEF BatchInv, LoopsOK, EndLoop
<1>2. /\ x = [f \in {"retry", "todo", "awaits", "pc"} |-> x[f]]
      /\ x.retry = loop[l].retry /\ x.todo = <<>> /\ x.pc = "done"
  BY <1>1 DEF LoopOK
<1>3. loop' = [loop EXCEPT ![l] = x] /\ UNCHANGED <<paper, task, orphan>>
  BY DEF EndLoop
<1> HIDE DEF x
<1>4. /\ loop' = [k \in Loops |-> loop'[k]] /\ loop'[l] = x
      /\ \A k \in Loops : k # l => loop'[k] = loop[k]
  BY <1>3 DEF BatchInv, LoopsOK
<1>5. x.todo \in Seq(PaperSet)
  BY <1>2, NoPapers
<1>6. LoopOK(x)
  BY <1>2, <1>5 DEF LoopOK
<1>7. LoopsStay
  BY <1>4, <1>6 DEF LoopsStay, BatchInv, LoopsOK
<1>8. LoopsOK' /\ Loops' = Loops
  BY <1>7, SameLoops DEF BatchInv
<1>9. TasksOK' /\ Tasks' = Tasks
  BY <1>3 DEF BatchInv, TasksOK, Tasks
<1>10. \A p, k : k \in Loops /\ Waits(p, k) => k # l /\ Waits(p, k)'
  <2>1. \A p : p \notin Range(loop[l].todo)
    BY <1>1 DEF Range
  <2> QED
    BY <1>4, <2>1 DEF Waits
<1>11. WaitingAreServed' /\ RunningHaveTasks'
  BY <1>3, <1>8, <1>9, <1>10 DEF BatchInv, WaitingAreServed, RunningHaveTasks, IsLive
<1> QED
  BY <1>2, <1>3, <1>4, <1>8, <1>9, <1>11 DEF BatchInv

LEMMA RetryFailedInv == ASSUME BatchInv, RetryFailed PROVE BatchInv' /\ NoLoopEnds
<1>1. PICK x : /\ loop' = Append(loop, x) /\ x.retry = TRUE /\ x.pc = "running"
               /\ x = [f \in {"retry", "todo", "awaits", "pc"} |-> x[f]]
               /\ UNCHANGED <<paper, task, orphan>>
  <2> DEFINE failed == SelectSeq(Papers, LAMBDA p : paper[p] \in {"failed", "stopped"})
  <2>1. /\ loop' = Append(loop, [retry |-> TRUE, todo |-> failed,
                                 awaits |-> NoTask, pc |-> "running"])
        /\ UNCHANGED <<paper, task, orphan>>
    BY DEF RetryFailed
  <2> HIDE DEF failed
  <2> DEFINE x == [retry |-> TRUE, todo |-> failed, awaits |-> NoTask, pc |-> "running"]
  <2>2. /\ x.retry = TRUE /\ x.pc = "running"
        /\ x = [f \in {"retry", "todo", "awaits", "pc"} |-> x[f]]
    OBVIOUS
  <2> QED
    BY <2>1, <2>2
<1>2. /\ Len(loop') = Len(loop) + 1 /\ Len(loop') \in Nat
      /\ loop' = [l \in 1 .. Len(loop') |-> loop'[l]]
      /\ \A l \in 1 .. Len(loop) : l \in 1 .. Len(loop') /\ loop'[l] = loop[l]
      /\ loop'[Len(loop')] = x
      /\ \A l \in 1 .. Len(loop') : l \in 1 .. Len(loop) \/ l = Len(loop')
  BY <1>1, Appending DEF BatchInv, LoopsOK, Loops
<1>3. LoopOK(x)
  BY <1>1 DEF LoopOK
<1>4. LoopsOK'
  BY <1>2, <1>3 DEF BatchInv, LoopsOK, LoopOK, Loops
<1>5. NoLoopEnds /\ \A p : (\E l \in Loops : Waits(p, l)) => \E l \in Loops' : Waits(p, l)'
  BY <1>2 DEF NoLoopEnds, Waits, Loops
<1>6. TasksOK' /\ Tasks' = Tasks
  BY <1>1 DEF BatchInv, TasksOK, Tasks
<1>7. WaitingAreServed' /\ RunningHaveTasks'
  BY <1>1, <1>5, <1>6 DEF BatchInv, WaitingAreServed, RunningHaveTasks, IsLive
<1> QED
  BY <1>1, <1>4, <1>5, <1>6, <1>7 DEF BatchInv
-----------------------------------------------------------------------------
(* The user, and the process. *)

LEMMA CancelPaperInv ==
  ASSUME BatchInv, NEW p \in PaperSet, CancelPaper(p) PROVE BatchInv' /\ NoLoopEnds
<1>1. /\ paper' = [paper EXCEPT ![p] = "stopped"]
      /\ task' = [t \in Tasks |-> IF t = control[p] THEN [task[t] EXCEPT !.asked = TRUE]
                                  ELSE task[t]]
      /\ UNCHANGED <<loop, orphan>>
  BY DEF CancelPaper
<1>2. ASSUME NEW t \in Tasks
      PROVE  /\ task'[t] = [f \in {"paper", "pc", "asked"} |-> task'[t][f]]
             /\ task'[t].paper = task[t].paper /\ task'[t].pc = task[t].pc
  <2>1. task[t] = [f \in {"paper", "pc", "asked"} |-> task[t][f]]
    BY DEF BatchInv, TasksOK
  <2>2. task'[t] = [task[t] EXCEPT !.asked = TRUE] \/ task'[t] = task[t]
    BY <1>1
  <2> QED
    BY <2>1, <2>2
<1>3. TasksStay
  BY <1>1, <1>2 DEF TasksStay
<1>4. TasksOK' /\ Tasks' = Tasks
  BY <1>3, SameTasks DEF BatchInv
<1>5. LoopsOK' /\ Loops' = Loops /\ NoLoopEnds /\ \A q, k : Waits(q, k) <=> Waits(q, k)'
  BY <1>1 DEF BatchInv, LoopsOK, Loops, NoLoopEnds, Waits
<1>6. /\ paper' \in [PaperSet -> Statuses]
      /\ \A q \in PaperSet : paper'[q] = IF q = p THEN "stopped" ELSE paper[q]
  BY <1>1 DEF BatchInv, Statuses
<1>7. WaitingAreServed' /\ RunningHaveTasks'
  BY <1>1, <1>2, <1>4, <1>5, <1>6
     DEF BatchInv, WaitingAreServed, RunningHaveTasks, IsLive
<1> QED
  BY <1>1, <1>4, <1>5, <1>6, <1>7 DEF BatchInv

\* After a crash no paper runs, and none waits.
LEMMA CrashInv == ASSUME BatchInv, CrashBatch PROVE BatchInv' /\ NoLoopEnds
<1>1. /\ paper' = [p \in PaperSet |-> IF paper[p] \in {"running", "created"} THEN "stopped"
                                      ELSE paper[p]]
      /\ task' = [t \in Tasks |-> TaskOver(task[t])]
      /\ loop' = [l \in Loops |-> IF loop[l].pc = "done" THEN loop[l] ELSE DeadLoop(loop[l])]
      /\ orphan' = orphan
  BY DEF CrashBatch, Died
<1>2. ASSUME NEW t \in Tasks
      PROVE  /\ task'[t] = [f \in {"paper", "pc", "asked"} |-> task'[t][f]]
             /\ task'[t].paper = task[t].paper
  BY <1>1 DEF BatchInv, TasksOK, TaskOver
<1>3. TasksOK' /\ Tasks' = Tasks
  BY <1>1, <1>2, SameTasks DEF TasksStay, BatchInv
<1>4. ASSUME NEW l \in Loops
      PROVE  LoopOK(loop'[l]) /\ (loop'[l] = loop[l] \/ loop'[l].pc = "dead")
  <2>1. LoopOK(loop[l])
    BY DEF BatchInv, LoopsOK
  <2>2. CASE loop[l].pc # "done"
    <3> DEFINE d == DeadLoop(loop[l])
    <3>1. /\ d = [f \in {"retry", "todo", "awaits", "pc"} |-> d[f]]
          /\ d.pc = "dead" /\ d.awaits = NoTask /\ d.todo = <<>>
      BY <2>1 DEF DeadLoop, LoopOK
    <3>2. loop'[l] = d
      BY <1>1, <2>2
    <3> HIDE DEF d
    <3>3. d.todo \in Seq(PaperSet)
      BY <3>1, NoPapers
    <3>4. LoopOK(d)
      BY <3>1, <3>3 DEF LoopOK
    <3> QED
      BY <3>1, <3>2, <3>4
  <2>3. CASE loop[l].pc = "done"
    BY <1>1, <2>1, <2>3
  <2> QED
    BY <2>2, <2>3
<1>5. LoopsStay
  BY <1>1, <1>4 DEF LoopsStay
<1>6. LoopsOK' /\ Loops' = Loops
  BY <1>5, SameLoops DEF BatchInv
<1>7. NoLoopEnds
  BY <1>4 DEF NoLoopEnds
<1>8. /\ paper' \in [PaperSet -> Statuses]
      /\ \A p \in PaperSet : paper'[p] \notin {"running", "created"}
  BY <1>1 DEF BatchInv, Statuses
<1>9. WaitingAreServed' /\ RunningHaveTasks'
  BY <1>8 DEF WaitingAreServed, RunningHaveTasks
<1> QED
  BY <1>1, <1>3, <1>6, <1>7, <1>8, <1>9 DEF BatchInv

LEMMA BatchRests ==
  ASSUME BatchInv, UNCHANGED <<paper, task, loop, orphan>> PROVE BatchInv' /\ NoLoopEnds
BY DEF BatchInv, TasksOK, Tasks, LoopsOK, Loops, LoopOK, WaitingAreServed,
       RunningHaveTasks, Waits, IsLive, NoLoopEnds

LEMMA InitServed == BatchInit => BatchInv
<1> SUFFICES ASSUME BatchInit PROVE BatchInv
  OBVIOUS
<1> DEFINE x == [retry |-> FALSE, todo |-> Papers, awaits |-> NoTask, pc |-> "running"]
<1>1. /\ x.retry = FALSE /\ x.todo = Papers /\ x.pc = "running"
      /\ x = [f \in {"retry", "todo", "awaits", "pc"} |-> x[f]]
  OBVIOUS
<1>2. loop = <<x>>
  BY DEF BatchInit
<1> HIDE DEF x
<1>3. Len(loop) = 1 /\ loop = [l \in 1 .. 1 |-> loop[l]] /\ loop[1] = x
  BY <1>2
<1>4. LoopsOK
  BY <1>1, <1>3, BatchAssumption DEF LoopsOK, LoopOK, Loops, PaperSet
<1>5. \A p \in PaperSet : Waits(p, 1)
  BY <1>1, <1>3 DEF Waits, PaperSet
<1>6. 1 \in Loops
  BY <1>3 DEF Loops
<1>7. TasksOK
  BY DEF BatchInit, TasksOK, Tasks
<1>8. paper = [p \in PaperSet |-> "created"] /\ orphan = FALSE
  BY DEF BatchInit
<1>9. paper \in [PaperSet -> Statuses] /\ orphan \in BOOLEAN
  BY <1>8 DEF Statuses
<1>10. WaitingAreServed /\ RunningHaveTasks
  BY <1>5, <1>6, <1>8 DEF WaitingAreServed, RunningHaveTasks
<1> QED
  BY <1>4, <1>7, <1>9, <1>10 DEF BatchInv
-----------------------------------------------------------------------------
\* What a step keeps; and only EndLoop ends a loop.
Kept == BatchInv' /\ (NoLoopEnds \/ \E l \in Loops : EndLoop(l))

LEMMA BatchStep == ASSUME BatchInv, [BatchNext]_batchVars PROVE Kept
<1>1. CASE GetBatch \/ RetryFailed \/ CrashBatch
  BY <1>1, BatchRests, RetryFailedInv, CrashInv DEF GetBatch, Kept
<1>2. ASSUME NEW t \in Tasks,
             \/ BeginTask(t) \/ UnwindTask(t) \/ DropTask(t) \/ FinalizeTask(t)
             \/ \E status \in {"completed", "failed"} : EndTask(t, status)
      PROVE  Kept
  BY <1>2, TaskInv, DropInv DEF Kept
<1>3. ASSUME NEW l \in Loops, NextPaper(l) \/ NextRetry(l) \/ EndLoop(l) PROVE Kept
  BY <1>3, NextPaperInv, NextRetryInv, EndLoopInv DEF Kept
<1>4. ASSUME NEW p \in PaperSet, RetryPaper(p) \/ CancelPaper(p) PROVE Kept
  BY <1>4, RetryPaperInv, CancelPaperInv DEF Kept
<1>5. CASE UNCHANGED batchVars
  BY <1>5, BatchRests DEF batchVars, Kept
<1> QED
  BY <1>1, <1>2, <1>3, <1>4, <1>5 DEF BatchNext

\* A batch that is told complete is stored as running only for a reason.
LEMMA ToldCompleteForAReason ==
  ASSUME BatchInv, NEW l \in Loops, EndLoop(l)
  PROVE  \/ batch' # "running" \/ orphan \/ \E k \in Loops : loop'[k].pc = "running"
         \/ \E p \in PaperSet : LiveTasks(p) # {}
<1>1. SUFFICES ASSUME batch' = "running", ~orphan
               PROVE  \/ \E k \in Loops : loop'[k].pc = "running"
                      \/ \E p \in PaperSet : LiveTasks(p) # {}
  OBVIOUS
<1>2. \E p \in PaperSet : paper[p] \notin Terminated
  BY <1>1 DEF EndLoop, Aggregate
<1>3. PICK p \in PaperSet : paper[p] \in {"created", "running"}
  BY <1>2 DEF BatchInv, Statuses, Terminated
<1>4. \/ \E t \in Tasks : task[t].paper = p /\ IsLive(t)
      \/ \E k \in Loops : Waits(p, k)
  BY <1>1, <1>3 DEF BatchInv, WaitingAreServed, RunningHaveTasks
<1>5. CASE \E t \in Tasks : task[t].paper = p /\ IsLive(t)
  BY <1>5, LiveTasksOf
<1>6. CASE \E k \in Loops : Waits(p, k)
  <2>1. PICK k \in Loops : Waits(p, k)
    BY <1>6
  <2>2. k # l
    BY <2>1 DEF EndLoop, Waits, Range
  <2> QED
    BY <2>1, <2>2, EndLoopInv DEF Waits
<1> QED
  BY <1>4, <1>5, <1>6

\* For any papers, tasks, loops, retries, cancellations and crashes: no paper is
\* forgotten, and none is reported complete beside one that still waits, but for
\* the loop that a cancelled task takes with it (apps/paper_review/
\* api.py:587-622, 876-1051, 1200-1350).
THEOREM BatchesAlwaysSettle == BatchSpec => BatchesSettle
<1> DEFINE Settles ==
      /\ PapersAreServed'
      /\ \A l \in Loops : loop[l].pc = "running" /\ loop'[l].pc = "done" =>
           \/ batch' # "running" \/ orphan \/ \E k \in Loops : loop'[k].pc = "running"
           \/ \E p \in PaperSet : LiveTasks(p) # {}
<1>1. BatchInit => BatchInv
  BY InitServed
<1>2. BatchInv /\ [BatchNext]_batchVars => BatchInv'
  BY BatchStep DEF Kept
<1>3. BatchInv => PapersAreServed
  BY InvServes
<1>4. BatchInv /\ BatchInv' /\ PapersAreServed' /\ [BatchNext]_batchVars => [Settles]_batchVars
  <2> SUFFICES ASSUME BatchInv, PapersAreServed', [BatchNext]_batchVars,
                      NEW l \in Loops, loop[l].pc = "running", loop'[l].pc = "done"
               PROVE  \/ batch' # "running" \/ orphan
                      \/ \E k \in Loops : loop'[k].pc = "running"
                      \/ \E p \in PaperSet : LiveTasks(p) # {}
    OBVIOUS
  <2>1. PICK k \in Loops : EndLoop(k)
    BY BatchStep DEF Kept, NoLoopEnds
  <2> QED
    BY <2>1, ToldCompleteForAReason
<1> HIDE DEF Settles
<1>5. BatchSpec => [][Settles]_batchVars
  BY <1>1, <1>2, <1>3, <1>4, PTL DEF BatchSpec
<1> QED
  BY <1>5 DEF BatchesSettle, Settles

-----------------------------------------------------------------------------
(***************************************************************************)
(* What the next run skips as complete is whole, for any packets, any      *)
(* number of requests and reviews, and crashes anywhere in the writing.    *)
(*                                                                         *)
(* The argument: the files of a folder are written in their order and never*)
(* removed, so a folder with a manifest has all of them.  A folder that    *)
(* becomes complete got its manifest, the last file, from the review that  *)
(* wrote all others just before; a folder that is written to when it is    *)
(* complete is noted as rewritten.                                         *)
(***************************************************************************)
Slots == 1 .. 5
SessionStatuses == {"running", "completed", "failed", "stopped"}
Marks == [by : Nat, torn : BOOLEAN]
Places == Range(Packets) \X Folders
RequestsOf ==
  {Idle} \cup [pc : {"next", "reviewing"}, force : BOOLEAN, folder : Folders,
               todo : Seq(Range(Packets)), at : Nat]

PacketsTypeOK ==
  /\ file \in [Places -> [Slots -> Marks]]
  /\ request \in [Requests -> RequestsOf]
  /\ review \in Seq([packet : Range(Packets), folder : Folders, status : SessionStatuses])
  /\ \A q \in Requests : request[q].pc = "reviewing" =>
       request[q].at \in DOMAIN review /\ request[q].todo # <<>>

Whole(f) == \A i \in Slots : f[i].by # 0
OfOne(f) == \A i \in Slots : f[i].by = f[1].by /\ ~f[i].torn
WroteAll(f, r) == \A i \in Slots : f[i].by = r /\ ~f[i].torn
\* Who reads a folder looks at the form and the manifest only.
LooksComplete(f) == f[5].by # 0 /\ ~f[5].torn /\ f[3].by # 0

InOrder ==
  \A pd \in Places : \A i, j \in Slots : i < j /\ file[pd][j].by # 0 => file[pd][i].by # 0
CompleteIsOfOne ==
  \A pd \in Places : LooksComplete(file[pd]) /\ pd \notin rewritten => OfOne(file[pd])
CompletedWrote ==
  \A r \in DOMAIN review : review[r].status = "completed" =>
    LET pd == <<review[r].packet, review[r].folder>>
    IN  /\ Whole(file[pd])
        /\ pd \in rewritten \/ WroteAll(file[pd], r)

PacketsInv == PacketsTypeOK /\ InOrder /\ CompleteIsOfOne /\ CompletedWrote
-----------------------------------------------------------------------------
LEMMA Slotting ==
  /\ DOMAIN Files = Slots /\ Len(Files) = 5
  /\ Position("form") = 3 /\ Position("manifest") = 5
<1>1. DOMAIN Files = Slots /\ Len(Files) = 5
  BY DEF Files, Slots
<1>2. /\ Files[1] = "graph" /\ Files[2] = "reviews" /\ Files[3] = "form"
      /\ Files[4] = "final" /\ Files[5] = "manifest"
  BY DEF Files
<1>3. \A i \in Slots : (Files[i] = "form" <=> i = 3) /\ (Files[i] = "manifest" <=> i = 5)
  BY <1>2 DEF Slots
<1>4. 3 \in Slots /\ 5 \in Slots
  BY DEF Slots
<1> HIDE DEF Files, Slots
<1>5. Position("form") = 3
  BY <1>1, <1>3, <1>4 DEF Position
<1>6. Position("manifest") = 5
  BY <1>1, <1>3, <1>4 DEF Position
<1> QED
  BY <1>1, <1>5, <1>6

LEMMA Completeness ==
  ASSUME NEW p \in Range(Packets), NEW d \in Folders
  PROVE  Complete(p, d) <=> LooksComplete(file[<<p, d>>])
BY Slotting DEF Complete, There, Torn, LooksComplete

LEMMA ReviewsHavePlaces ==
  ASSUME PacketsTypeOK, NEW s \in DOMAIN review
  PROVE  /\ s \in Nat \ {0}
         /\ review[s].packet \in Range(Packets) /\ review[s].folder \in Folders
         /\ <<review[s].packet, review[s].folder>> \in Places
<1> DEFINE Reviews == [packet : Range(Packets), folder : Folders, status : SessionStatuses]
<1>1. review \in Seq(Reviews)
  BY DEF PacketsTypeOK
<1>2. \A r \in Reviews : r.packet \in Range(Packets) /\ r.folder \in Folders
  OBVIOUS
<1> HIDE DEF Reviews
<1>3. s \in 1 .. Len(review) /\ Len(review) \in Nat /\ review[s] \in Reviews
  BY <1>1
<1> QED
  BY <1>2, <1>3 DEF Places

\* Review r writes the first n files of its folder.
LEMMA WritingIsSafe ==
  ASSUME PacketsInv,
         NEW r \in DOMAIN review, NEW n \in Slots, NEW cut \in BOOLEAN,
         Written(review[r].packet, review[r].folder, r, n, cut),
         DOMAIN review' = DOMAIN review,
         \A s \in DOMAIN review : /\ review'[s].packet = review[s].packet
                                  /\ review'[s].folder = review[s].folder,
         \A s \in DOMAIN review : review'[s].status = "completed" =>
            review[s].status = "completed" \/ (s = r /\ n = 5 /\ ~cut)
  PROVE  /\ file' \in [Places -> [Slots -> Marks]]
         /\ InOrder' /\ CompleteIsOfOne' /\ CompletedWrote'
<1> DEFINE here == <<review[r].packet, review[r].folder>>
<1>1. /\ here \in Places /\ review[r].packet \in Range(Packets) /\ review[r].folder \in Folders
      /\ r \in Nat \ {0}
  BY ReviewsHavePlaces DEF PacketsInv
<1>2. file \in [Places -> [Slots -> Marks]]
  BY DEF PacketsInv, PacketsTypeOK
<1>3. file' = [file EXCEPT ![here] =
         [i \in Slots |-> IF i <= n THEN [by |-> r, torn |-> i = n /\ cut] ELSE @[i]]]
  BY Slotting DEF Written
<1>4. /\ \A pd \in Places : pd # here => file'[pd] = file[pd]
      /\ \A i \in Slots : ~(i <= n) => file'[here][i] = file[here][i]
  BY <1>1, <1>2, <1>3
<1>11. ASSUME NEW i \in Slots, i <= n
       PROVE  file'[here][i].by = r /\ (file'[here][i].torn <=> i = n /\ cut)
  <2> DEFINE torn == i = n /\ cut
  <2>1. torn \in BOOLEAN
    OBVIOUS
  <2>2. file'[here][i] = [by |-> r, torn |-> torn]
    BY <1>1, <1>2, <1>3, <1>11
  <2> HIDE DEF torn
  <2>3. file'[here][i].by = r /\ file'[here][i].torn = torn
    BY <2>1, <2>2
  <2> QED
    BY <2>3 DEF torn
<1>5. rewritten' = IF LooksComplete(file[here]) THEN rewritten \cup {here} ELSE rewritten
  BY <1>1, Completeness DEF Written, Slots
<1>6. file' \in [Places -> [Slots -> Marks]]
  <2>1. \A i \in Slots : (IF i <= n THEN [by |-> r, torn |-> i = n /\ cut] ELSE file[here][i])
                            \in Marks
    BY <1>1, <1>2 DEF Marks
  <2> QED
    BY <1>1, <1>2, <1>3, <2>1
<1> HIDE DEF here
<1>7. \A i \in Slots : i \in Nat
  BY DEF Slots
<1>8. InOrder'
  <2>1. SUFFICES ASSUME NEW pd \in Places, NEW i \in Slots, NEW j \in Slots,
                        i < j, file'[pd][j].by # 0
                 PROVE  file'[pd][i].by # 0
    BY DEF InOrder
  <2>2. CASE pd # here
    BY <1>4, <2>1, <2>2 DEF PacketsInv, InOrder
  <2>3. CASE pd = here /\ i <= n
    BY <1>1, <1>11, <2>3
  <2>4. CASE pd = here /\ ~(i <= n)
    <3>1. ~(j <= n)
      BY <1>7, <2>1, <2>4
    <3> QED
      BY <1>4, <2>1, <2>4, <3>1 DEF PacketsInv, InOrder
  <2> QED
    BY <2>2, <2>3, <2>4
<1>9. CompleteIsOfOne'
  <2>1. SUFFICES ASSUME NEW pd \in Places, LooksComplete(file'[pd]), pd \notin rewritten'
                 PROVE  OfOne(file'[pd])
    BY DEF CompleteIsOfOne
  <2>2. CASE pd # here
    BY <1>4, <1>5, <2>1, <2>2 DEF PacketsInv, CompleteIsOfOne
  <2>3. CASE pd = here /\ n = 5
    <3>1. \A i \in Slots : file'[here][i].by = r /\ (file'[here][i].torn <=> i = 5 /\ cut)
      BY <1>11, <2>3 DEF Slots
    <3>2. 5 \in Slots /\ 1 \in Slots
      BY DEF Slots
    <3>3. ~cut
      BY <2>1, <2>3, <3>1, <3>2 DEF LooksComplete
    <3> QED
      BY <2>3, <3>1, <3>2, <3>3 DEF OfOne
  <2>4. CASE pd = here /\ n # 5
    <3>1. n < 5 /\ 5 \in Slots /\ 3 \in Slots /\ 3 < 5
      BY <2>4 DEF Slots
    <3>2. file'[here][5] = file[here][5]
      BY <1>4, <1>7, <3>1
    <3>3. file[here][5].by # 0 /\ ~file[here][5].torn
      BY <2>1, <2>4, <3>2 DEF LooksComplete
    <3>4. file[here][3].by # 0
      BY <1>1, <3>1, <3>3 DEF PacketsInv, InOrder
    <3>5. LooksComplete(file[here])
      BY <3>3, <3>4 DEF LooksComplete
    <3> QED
      BY <1>5, <2>1, <2>4, <3>5
  <2> QED
    BY <2>2, <2>3, <2>4
<1>10. CompletedWrote'
  <2>1. SUFFICES ASSUME NEW s \in DOMAIN review, review'[s].status = "completed",
                        NEW pd, pd = <<review[s].packet, review[s].folder>>
                 PROVE  /\ Whole(file'[pd])
                        /\ pd \in rewritten' \/ WroteAll(file'[pd], s)
    BY DEF CompletedWrote
  <2>2. pd \in Places
    BY <2>1, ReviewsHavePlaces DEF PacketsInv
  <2>3. CASE review[s].status = "completed"
    <3>1. /\ Whole(file[pd])
          /\ pd \in rewritten \/ WroteAll(file[pd], s)
      BY <2>1, <2>3 DEF PacketsInv, CompletedWrote
    <3>2. Whole(file'[pd])
      <4>1. CASE pd # here
        BY <1>4, <2>2, <3>1, <4>1
      <4>2. CASE pd = here
        BY <1>1, <1>4, <1>11, <3>1, <4>2 DEF Whole
      <4> QED
        BY <4>1, <4>2
    <3>3. CASE pd # here
      BY <1>4, <1>5, <2>2, <3>1, <3>2, <3>3
    <3>4. CASE pd = here /\ pd \notin rewritten
      <4>1. 3 \in Slots /\ 5 \in Slots
        BY DEF Slots
      <4>2. ~file[here][5].torn /\ file[here][5].by # 0 /\ file[here][3].by # 0
        BY <3>1, <3>4, <4>1 DEF Whole, WroteAll
      <4>3. LooksComplete(file[here])
        BY <4>2 DEF LooksComplete
      <4> QED
        BY <1>5, <3>2, <3>4, <4>3
    <3> QED
      BY <1>5, <3>2, <3>3, <3>4
  <2>4. CASE review[s].status # "completed"
    <3>1. s = r /\ n = 5 /\ ~cut
      BY <2>1, <2>4
    <3>2. pd = here
      BY <2>1, <3>1 DEF here
    <3>3. \A i \in Slots : file'[pd][i].by = r /\ ~file'[pd][i].torn
      BY <1>11, <3>1, <3>2 DEF Slots
    <3> QED
      BY <1>1, <3>1, <3>3 DEF Whole, WroteAll
  <2> QED
    BY <2>3, <2>4
<1> QED
  BY <1>6, <1>8, <1>9, <1>10
-----------------------------------------------------------------------------
LEMMA InitWhole == PacketsInit => PacketsInv
<1> SUFFICES ASSUME PacketsInit PROVE PacketsInv
  OBVIOUS
<1>1. file = [pd \in Places |-> [i \in Slots |-> Absent]]
  BY Slotting DEF PacketsInit, Places
<1>2. Absent \in Marks /\ Absent.by = 0 /\ 5 \in Slots
  BY DEF Absent, Marks, Slots
<1>3. PacketsTypeOK
  <2>1. file \in [Places -> [Slots -> Marks]]
    BY <1>1, <1>2
  <2>2. request \in [Requests -> RequestsOf] /\ \A q \in Requests : request[q].pc # "reviewing"
    BY DEF PacketsInit, RequestsOf, Idle
  <2>3. review \in Seq([packet : Range(Packets), folder : Folders, status : SessionStatuses])
    BY DEF PacketsInit
  <2> QED
    BY <2>1, <2>2, <2>3 DEF PacketsTypeOK
<1>4. InOrder /\ CompleteIsOfOne
  BY <1>1, <1>2 DEF InOrder, CompleteIsOfOne, LooksComplete
<1>5. CompletedWrote
  BY DEF PacketsInit, CompletedWrote
<1> QED
  BY <1>3, <1>4, <1>5 DEF PacketsInv

\* The request of q becomes another; no review changes, and no file.
LEMMA RequestMoves ==
  ASSUME PacketsInv, NEW q \in Requests, NEW to \in RequestsOf,
         request' = [request EXCEPT ![q] = to],
         to.pc # "reviewing",
         UNCHANGED <<file, review, rewritten>>
  PROVE  PacketsInv'
<1>1. PacketsTypeOK'
  BY DEF PacketsInv, PacketsTypeOK
<1> QED
  BY <1>1 DEF PacketsInv, InOrder, CompleteIsOfOne, CompletedWrote

LEMMA PassedOn ==
  ASSUME PacketsTypeOK, NEW q \in Requests, request[q].pc \in {"next", "reviewing"},
         request[q].todo # <<>>
  PROVE  Passed(q) \in RequestsOf /\ Passed(q).pc = "next"
<1>1. request[q] \in RequestsOf
  BY DEF PacketsTypeOK
<1>2. request[q] \in [pc : {"next", "reviewing"}, force : BOOLEAN, folder : Folders,
                      todo : Seq(Range(Packets)), at : Nat]
  BY <1>1 DEF RequestsOf, Idle
<1>3. Tail(request[q].todo) \in Seq(Range(Packets))
  BY <1>2
<1> QED
  BY <1>2, <1>3 DEF Passed, RequestsOf

LEMMA NowReviewing ==
  ASSUME NEW Pcs, NEW Forces, NEW Todos, NEW Ats, NEW pc \in Pcs, NEW at \in Ats,
         NEW r \in [pc : Pcs, force : Forces, folder : Folders, todo : Todos, at : Ats], NEW s,
         s = [r EXCEPT !.pc = pc, !.at = at]
  PROVE  /\ s \in [pc : Pcs, force : Forces, folder : Folders, todo : Todos, at : Ats]
         /\ s.at = at /\ s.todo = r.todo
  OBVIOUS

\* One more review begins; its files are still to come.
LEMMA ReviewBegins ==
  ASSUME PacketsInv, NEW q \in Requests, NEW p \in Range(Packets), NEW d \in Folders,
         request[q].pc = "next", request[q].todo # <<>>,
         review' = Append(review, [packet |-> p, folder |-> d, status |-> "running"]),
         request' = [request EXCEPT ![q].pc = "reviewing", ![q].at = Len(review')],
         UNCHANGED <<file, rewritten>>
  PROVE  PacketsInv'
<1> DEFINE Reviews == [packet : Range(Packets), folder : Folders, status : SessionStatuses]
<1>1. review \in Seq(Reviews) /\ request[q] \in RequestsOf /\ request \in [Requests -> RequestsOf]
  BY DEF PacketsInv, PacketsTypeOK
<1>2. [packet |-> p, folder |-> d, status |-> "running"] \in Reviews
  BY DEF SessionStatuses
<1>3. /\ review' \in Seq(Reviews) /\ Len(review') = Len(review) + 1 /\ Len(review) \in Nat
      /\ DOMAIN review = 1 .. Len(review) /\ DOMAIN review' = 1 .. Len(review) + 1
      /\ \A s \in DOMAIN review : review'[s] = review[s]
      /\ review'[Len(review) + 1] = [packet |-> p, folder |-> d, status |-> "running"]
  <2> HIDE DEF Reviews
  <2> QED
    BY <1>1, <1>2
<1>4. request[q] \in [pc : {"next", "reviewing"}, force : BOOLEAN, folder : Folders,
                      todo : Seq(Range(Packets)), at : Nat]
  BY <1>1 DEF RequestsOf, Idle
<1>5. request'[q] = [request[q] EXCEPT !.pc = "reviewing", !.at = Len(review) + 1]
  BY <1>1, <1>3
<1>6. /\ request'[q] \in RequestsOf
      /\ request'[q].at \in DOMAIN review' /\ request'[q].todo # <<>>
  <2>1. Len(review) + 1 \in Nat /\ Len(review) + 1 \in DOMAIN review'
    BY <1>3
  <2> DEFINE Rows == [pc : {"next", "reviewing"}, force : BOOLEAN, folder : Folders,
                      todo : Seq(Range(Packets)), at : Nat]
  <2>2. /\ request'[q] \in Rows
        /\ request'[q].at = Len(review) + 1 /\ request'[q].todo = request[q].todo
    <3>1. "reviewing" \in {"next", "reviewing"}
      OBVIOUS
    <3> QED
      BY ONLY <1>4, <1>5, <2>1, <3>1, NowReviewing, Zenon
  <2> QED
    BY <2>1, <2>2 DEF RequestsOf
<1>7. \A k \in Requests : k # q => request'[k] = request[k]
  BY <1>1
<1>8. request' \in [Requests -> RequestsOf]
  BY <1>1, <1>6, <1>7
<1>9. PacketsTypeOK'
  BY <1>3, <1>6, <1>7, <1>8 DEF PacketsInv, PacketsTypeOK
<1>10. CompletedWrote'
  <2> SUFFICES ASSUME NEW s \in DOMAIN review', review'[s].status = "completed"
               PROVE  s \in DOMAIN review /\ review'[s] = review[s]
    BY DEF PacketsInv, CompletedWrote
  <2> QED
    BY <1>3
<1> QED
  BY <1>9, <1>10 DEF PacketsInv, InOrder, CompleteIsOfOne

-----------------------------------------------------------------------------
(* Reviews end: each keeps its folder. *)

SameReviews ==
  /\ review' \in Seq([packet : Range(Packets), folder : Folders, status : SessionStatuses])
  /\ DOMAIN review' = DOMAIN review
  /\ \A s \in DOMAIN review : /\ review'[s].packet = review[s].packet
                              /\ review'[s].folder = review[s].folder
SameRequests ==
  /\ request' \in [Requests -> RequestsOf]
  /\ \A k \in Requests : request'[k].pc = "reviewing" => request'[k] = request[k]

LEMMA SettingAStatus ==
  ASSUME PacketsTypeOK, NEW r \in DOMAIN review, NEW status \in SessionStatuses,
         review' = [review EXCEPT ![r].status = status]
  PROVE  /\ SameReviews
         /\ review'[r].status = status
         /\ \A s \in DOMAIN review : s # r => review'[s] = review[s]
<1> DEFINE Reviews == [packet : Range(Packets), folder : Folders, status : SessionStatuses]
           ended == [review[r] EXCEPT !.status = status]
<1>1. review \in Seq(Reviews)
  BY DEF PacketsTypeOK
<1>2. review[r] \in Reviews
  <2> HIDE DEF Reviews
  <2> QED
    BY <1>1
<1>3. /\ ended \in Reviews /\ ended.status = status
      /\ ended.packet = review[r].packet /\ ended.folder = review[r].folder
  BY <1>2
<1>4. review' = [review EXCEPT ![r] = ended]
  OBVIOUS
<1> HIDE DEF Reviews, ended
<1>5. /\ review' \in Seq(Reviews) /\ DOMAIN review' = DOMAIN review
      /\ review'[r] = ended /\ \A s \in DOMAIN review : s # r => review'[s] = review[s]
  BY <1>1, <1>3, <1>4
<1> QED
  BY <1>3, <1>5 DEF SameReviews, Reviews

LEMMA RestartingAll ==
  ASSUME PacketsTypeOK, Restarted
  PROVE  /\ SameReviews /\ SameRequests
         /\ \A s \in DOMAIN review : review'[s].status # "running"
         /\ \A s \in DOMAIN review :
              review'[s].status = "completed" => review[s].status = "completed"
<1> DEFINE Reviews == [packet : Range(Packets), folder : Folders, status : SessionStatuses]
           after(s) == IF review[s].status = "running"
                       THEN [review[s] EXCEPT !.status = "stopped"] ELSE review[s]
<1>1. review \in Seq(Reviews)
  BY DEF PacketsTypeOK
<1>2. \A s \in DOMAIN review : review[s] \in Reviews
  <2> HIDE DEF Reviews
  <2> QED
    BY <1>1
<1>3. ASSUME NEW s \in DOMAIN review
      PROVE  /\ after(s) \in Reviews /\ after(s).packet = review[s].packet
             /\ after(s).folder = review[s].folder /\ after(s).status # "running"
             /\ after(s).status = "completed" => review[s].status = "completed"
  BY <1>2, <1>3 DEF SessionStatuses
<1>4. review' = [s \in DOMAIN review |-> after(s)]
  BY DEF Restarted
<1> HIDE DEF Reviews, after
<1>5. DOMAIN review = 1 .. Len(review) /\ Len(review) \in Nat
  BY <1>1
<1>6. /\ review' \in Seq(Reviews) /\ DOMAIN review' = DOMAIN review
      /\ \A s \in DOMAIN review : review'[s] = after(s)
  BY <1>3, <1>4, <1>5
<1>7. SameRequests
  BY DEF Restarted, SameRequests, RequestsOf, Idle
<1> QED
  BY <1>3, <1>6, <1>7 DEF SameReviews, Reviews

LEMMA PassingIsSame ==
  ASSUME PacketsTypeOK, NEW q \in Reviewing,
         request' = [request EXCEPT ![q] = Passed(q)]
  PROVE  SameRequests
<1>1. q \in Requests /\ request[q].pc = "reviewing" /\ request[q].todo # <<>>
  BY DEF Reviewing, PacketsTypeOK
<1>2. Passed(q) \in RequestsOf /\ Passed(q).pc = "next"
  BY <1>1, PassedOn
<1> QED
  BY <1>1, <1>2 DEF PacketsTypeOK, SameRequests

\* No file is written.
LEMMA EndingIsSafe ==
  ASSUME PacketsInv, SameReviews, SameRequests, UNCHANGED <<file, rewritten>>,
         \A s \in DOMAIN review :
           review'[s].status = "completed" => review[s].status = "completed"
  PROVE  PacketsInv'
<1>1. PacketsTypeOK'
  BY DEF PacketsInv, PacketsTypeOK, SameReviews, SameRequests
<1>2. CompletedWrote'
  BY DEF PacketsInv, CompletedWrote, SameReviews
<1> QED
  BY <1>1, <1>2 DEF PacketsInv, InOrder, CompleteIsOfOne

\* The first n files are written; n = 5, uncut, if the review completes.
LEMMA WritingKeepsAll ==
  ASSUME PacketsInv, SameReviews, SameRequests, NEW q \in Reviewing,
         NEW n \in Slots, NEW cut \in BOOLEAN, NEW r, r = request[q].at,
         Written(review[r].packet, review[r].folder, r, n, cut),
         \A s \in DOMAIN review : review'[s].status = "completed" =>
            review[s].status = "completed" \/ (s = r /\ n = 5 /\ ~cut)
  PROVE  PacketsInv'
<1>1. r \in DOMAIN review
  BY DEF Reviewing, PacketsInv, PacketsTypeOK
<1>2. file' \in [Places -> [Slots -> Marks]] /\ InOrder' /\ CompleteIsOfOne' /\ CompletedWrote'
  BY <1>1, WritingIsSafe DEF SameReviews
<1>3. PacketsTypeOK'
  BY <1>2 DEF PacketsInv, PacketsTypeOK, SameReviews, SameRequests
<1> QED
  BY <1>2, <1>3 DEF PacketsInv

-----------------------------------------------------------------------------
LEMMA NextPacketInv == ASSUME PacketsInv, NEW q \in Requests, NextPacket(q) PROVE PacketsInv'
<1>1. request[q].pc = "next" /\ request[q].todo # <<>>
  BY DEF NextPacket
<1>2. /\ Head(request[q].todo) \in Range(Packets) /\ request[q].folder \in Folders
      /\ request[q].pc = "next" /\ request[q].todo # <<>>
  <2>1. request[q] \in RequestsOf
    BY DEF PacketsInv, PacketsTypeOK
  <2>2. request[q].todo \in Seq(Range(Packets)) /\ request[q].folder \in Folders
    BY <1>1, <2>1 DEF RequestsOf, Idle
  <2> QED
    BY <1>1, <2>2
<1>3. CASE request' = [request EXCEPT ![q] = Passed(q)] /\ UNCHANGED review
  <2>1. Passed(q) \in RequestsOf /\ Passed(q).pc = "next"
    BY <1>1, PassedOn DEF PacketsInv
  <2>2. UNCHANGED <<file, review, rewritten>>
    BY <1>3 DEF NextPacket
  <2> HIDE DEF Passed
  <2> QED
    BY <1>3, <2>1, <2>2, RequestMoves
<1>4. CASE /\ review' = Append(review, [packet |-> Head(request[q].todo),
                                        folder |-> request[q].folder, status |-> "running"])
           /\ request' = [request EXCEPT ![q].pc = "reviewing", ![q].at = Len(review')]
  <2>1. UNCHANGED <<file, rewritten>>
    BY DEF NextPacket
  <2> QED
    BY <1>2, <1>4, <2>1, ReviewBegins
<1> QED
  BY <1>3, <1>4 DEF NextPacket

LEMMA WriteArtifactsInv ==
  ASSUME PacketsInv, NEW q \in Requests, NEW assessed \in BOOLEAN, WriteArtifacts(q, assessed)
  PROVE  PacketsInv'
<1> DEFINE r == request[q].at
           n == IF assessed THEN 5 ELSE 2
           cut == FALSE
           status == IF assessed THEN "completed" ELSE "failed"
<1>1. q \in Reviewing /\ r \in DOMAIN review
  BY DEF WriteArtifacts, Reviewing, PacketsInv, PacketsTypeOK
<1>2. n \in Slots /\ status \in SessionStatuses /\ cut \in BOOLEAN /\ ~cut
  BY DEF Slots, SessionStatuses
<1>3. /\ Written(review[r].packet, review[r].folder, r, n, cut)
      /\ review' = [review EXCEPT ![r].status = status]
      /\ request' = [request EXCEPT ![q] = Passed(q)]
  <2>1. (IF assessed THEN Len(Files) ELSE Position("form") - 1) = n
    BY Slotting
  <2> HIDE DEF n
  <2> QED
    BY <2>1 DEF WriteArtifacts
<1>4. assessed => n = 5
  OBVIOUS
<1>5. status = "completed" => assessed
  OBVIOUS
<1> HIDE DEF r, n, status, cut
<1>6. SameRequests
  BY <1>1, <1>3, PassingIsSame DEF PacketsInv
<1>7. /\ SameReviews /\ review'[r].status = status
      /\ \A s \in DOMAIN review : s # r => review'[s] = review[s]
  BY <1>1, <1>2, <1>3, SettingAStatus DEF PacketsInv
<1>8. \A s \in DOMAIN review : review'[s].status = "completed" =>
        review[s].status = "completed" \/ (s = r /\ n = 5 /\ ~cut)
  BY <1>2, <1>4, <1>5, <1>7
<1> QED
  BY <1>1, <1>2, <1>3, <1>6, <1>7, <1>8, WritingKeepsAll DEF r

LEMMA FailPacketInv ==
  ASSUME PacketsInv, NEW q \in Requests, NEW status \in {"failed", "stopped"},
         FailPacket(q, status)
  PROVE  PacketsInv'
<1> DEFINE r == request[q].at
<1>1. q \in Reviewing /\ r \in DOMAIN review /\ status \in SessionStatuses /\ status # "completed"
  BY DEF FailPacket, Reviewing, PacketsInv, PacketsTypeOK, SessionStatuses
<1>2. /\ review' = [review EXCEPT ![r].status = status]
      /\ request' = [request EXCEPT ![q] = Passed(q)]
      /\ UNCHANGED <<file, rewritten>>
  BY DEF FailPacket
<1> HIDE DEF r
<1>3. SameRequests
  BY <1>1, <1>2, PassingIsSame DEF PacketsInv
<1>4. /\ SameReviews /\ review'[r].status = status
      /\ \A s \in DOMAIN review : s # r => review'[s] = review[s]
  BY <1>1, <1>2, SettingAStatus DEF PacketsInv
<1> QED
  BY <1>1, <1>2, <1>3, <1>4, EndingIsSafe

LEMMA PacketsCrashInv ==
  ASSUME PacketsInv, CrashPackets \/ \E q \in Requests : CrashWriting(q)
  PROVE  PacketsInv'
<1>1. CASE CrashPackets
  <2>1. Restarted /\ UNCHANGED <<file, rewritten>>
    BY <1>1 DEF CrashPackets
  <2> QED
    BY <2>1, RestartingAll, EndingIsSafe DEF PacketsInv
<1>2. CASE \E q \in Requests : CrashWriting(q)
  <2>1. PICK q \in Requests : CrashWriting(q)
    BY <1>2
  <2>2. q \in Reviewing /\ Restarted
    BY <2>1 DEF CrashWriting
  <2>3. PICK n \in Slots, cut \in BOOLEAN :
          Written(review[request[q].at].packet, review[request[q].at].folder,
                  request[q].at, n, cut)
    BY <2>1, Slotting DEF CrashWriting
  <2>4. /\ SameReviews /\ SameRequests
        /\ \A s \in DOMAIN review :
             review'[s].status = "completed" => review[s].status = "completed"
    BY <2>2, RestartingAll DEF PacketsInv
  <2> QED
    BY <2>2, <2>3, <2>4, WritingKeepsAll
<1> QED
  BY <1>1, <1>2

LEMMA PacketsStep == PacketsInv /\ [PacketsNext]_packetVars => PacketsInv'
<1> SUFFICES ASSUME PacketsInv, [PacketsNext]_packetVars PROVE PacketsInv'
  OBVIOUS
<1>1. ASSUME NEW q \in Requests, StartPacketReview(q) PROVE PacketsInv'
  <2>1. PICK force \in BOOLEAN, d \in Folders :
          request' = [request EXCEPT ![q] =
             [pc |-> "next", force |-> force, folder |-> d, todo |-> Packets, at |-> 0]]
    BY <1>1 DEF StartPacketReview
  <2>2. [pc |-> "next", force |-> force, folder |-> d, todo |-> Packets, at |-> 0]
          \in RequestsOf
    BY PacketAssumption DEF RequestsOf
  <2>3. UNCHANGED <<file, review, rewritten>>
    BY <1>1 DEF StartPacketReview
  <2> QED
    BY <2>1, <2>2, <2>3, RequestMoves
<1>2. ASSUME NEW q \in Requests, EndPackets(q) PROVE PacketsInv'
  <2>1. Idle \in RequestsOf /\ Idle.pc # "reviewing"
    BY DEF Idle, RequestsOf
  <2> QED
    BY <1>2, <2>1, RequestMoves DEF EndPackets
<1>3. CASE UNCHANGED packetVars
  BY <1>3 DEF packetVars, PacketsInv, PacketsTypeOK, InOrder, CompleteIsOfOne, CompletedWrote
<1> QED
  BY <1>1, <1>2, <1>3, NextPacketInv, WriteArtifactsInv, FailPacketInv, PacketsCrashInv
     DEF PacketsNext

LEMMA PacketsInvAlways == PacketsSpec => []PacketsInv
<1>1. QED
  BY InitWhole, PacketsStep, PTL DEF PacketsSpec

\* What the next run skips as complete is whole, and of one review unless it
\* was written over when complete; a completed session left its files
\* (apps/paper_review/api.py:2610-3019, export.py:345-480).
THEOREM SkippedPacketsAreWhole == PacketsSpec => []PacketsAreWhole
<1>1. PacketsInv => PacketsAreWhole
  <2> SUFFICES ASSUME PacketsInv PROVE PacketsAreWhole
    OBVIOUS
  <2>1. ASSUME NEW p \in Range(Packets), NEW d \in Folders, Complete(p, d)
        PROVE  /\ Whole(file[<<p, d>>])
               /\ <<p, d>> \notin rewritten => OfOne(file[<<p, d>>])
    <3>1. LooksComplete(file[<<p, d>>]) /\ <<p, d>> \in Places
      BY <2>1, Completeness DEF Places
    <3>2. 5 \in Slots /\ \A i \in Slots : i = 5 \/ i < 5
      BY DEF Slots
    <3>3. \A i \in Slots : i < 5 => file[<<p, d>>][i].by # 0
      BY <3>1, <3>2 DEF PacketsInv, InOrder, LooksComplete
    <3>4. Whole(file[<<p, d>>])
      BY <3>1, <3>2, <3>3 DEF Whole, LooksComplete
    <3> QED
      BY <3>1, <3>4 DEF PacketsInv, CompleteIsOfOne
  <2>2. ASSUME NEW r \in DOMAIN review, review[r].status = "completed",
               NEW pd, pd = <<review[r].packet, review[r].folder>>
        PROVE  /\ Whole(file[pd])
               /\ r \in {file[pd][i].by : i \in Slots} \/ pd \in rewritten
    <3>1. Whole(file[pd]) /\ (pd \in rewritten \/ WroteAll(file[pd], r))
      BY <2>2 DEF PacketsInv, CompletedWrote
    <3>2. 1 \in Slots
      BY DEF Slots
    <3> QED
      BY <3>1, <3>2 DEF WroteAll
  <2> QED
    BY <2>1, <2>2, Slotting DEF PacketsAreWhole, Whole, OfOne
<1>2. QED
  BY <1>1, PacketsInvAlways, PTL
-----------------------------------------------------------------------------
(***************************************************************************)
(* What a user chose of models and credentials survives, for any servers,  *)
(* models and any number of discoveries, refreshes and logins at once.     *)
(*                                                                         *)
(* The argument: whoever waited reads the settings again, and touches only *)
(* the cache and endpoints without a choice; only the benchmark writes     *)
(* back what it read before.                                               *)
(***************************************************************************)
Lists == SUBSET (Models \cup {NoModel})
Settings ==
  [on : [Endpoints -> {"on", "off"}], active : [Providers -> Models \cup {NoModel}],
   known : [Providers -> Lists]]

\* A cache of some providers' models, as a discovery keeps it.
CacheOK(cached) ==
  /\ DOMAIN cached \subseteq Providers
  /\ \A p \in DOMAIN cached : cached[p] \in Lists

\* Whoever waits has read settings that were once saved, and the client's
\* registry is built from those that are.
ProvidersInv ==
  /\ settings \in Settings /\ registry = settings
  /\ DOMAIN probe = Probes /\ \A j \in Probes : CacheOK(probe[j].cached)
  /\ bench.pc = "probing" => bench.read \in Settings
  /\ DOMAIN refresh = Refreshes /\ choices \in Nat

-----------------------------------------------------------------------------
\* What an answer brings: lists of models for those that were asked.
LEMMA AnswerOf ==
  ASSUME NEW cached, NEW answer \in Answers(cached), NEW p \in DOMAIN cached
  PROVE  answer[p].models \in SUBSET Models
<1>1. answer[p] \in (UNION {[live : {TRUE}, models : {ms}, loaded : ms \cup {NoModel}] : ms \in SUBSET Models})
                     \cup {[live |-> FALSE, models |-> {}, loaded |-> NoModel]}
  BY DEF Answers
<1>2. CASE answer[p] = [live |-> FALSE, models |-> {}, loaded |-> NoModel]
  BY <1>2
<1>3. CASE \E ms \in SUBSET Models : answer[p] \in [live : {TRUE}, models : {ms}, loaded : ms \cup {NoModel}]
  <2>1. PICK ms \in SUBSET Models : answer[p] \in [live : {TRUE}, models : {ms}, loaded : ms \cup {NoModel}]
    BY <1>3
  <2>2. QED
    BY <2>1
<1>4. QED
  BY <1>1, <1>2, <1>3

\* The cache, after an answer: what was not asked stays as it was.
LEMMA CachedIs ==
  ASSUME NEW known \in [Providers -> Lists], NEW cached, CacheOK(cached),
         NEW answer \in Answers(cached)
  PROVE  /\ Cached(known, cached, answer) \in [Providers -> Lists]
         /\ \A p \in Providers : Cached(known, cached, answer)[p] # known[p] => p \in DOMAIN cached
         /\ \A p \in DOMAIN cached : answer[p].live => Cached(known, cached, answer)[p] = answer[p].models
<1>1. \A p \in DOMAIN cached : answer[p].models \in SUBSET Models
  BY AnswerOf
<1>2. \A p \in DOMAIN cached : Found(cached, answer)[p] \in Lists
  BY <1>1 DEF Found, CacheOK, Lists
<1>3. \A p \in DOMAIN cached : answer[p].live => Found(cached, answer)[p] = answer[p].models
  BY DEF Found
<1>4. QED
  BY <1>2, <1>3 DEF Cached, CacheOK

\* An endpoint that is given a model had none, and is given one it listed.
LEMMA ChosenIs ==
  ASSUME NEW active \in [Providers -> Models \cup {NoModel}], NEW cached, CacheOK(cached),
         NEW answer \in Answers(cached)
  PROVE  /\ Chosen(active, cached, answer) \in [Providers -> Models \cup {NoModel}]
         /\ \A p \in Providers : Chosen(active, cached, answer)[p] # active[p] =>
              /\ p \in DOMAIN cached \ {Cloud} /\ active[p] = NoModel /\ answer[p].live
              /\ Chosen(active, cached, answer)[p] \in answer[p].models
<1>1. \A p \in DOMAIN cached : answer[p].models \in SUBSET Models
  BY AnswerOf
<1>2. QED
  BY <1>1 DEF Chosen

\* The caches a discovery may start with.
LEMMA ProbesRead ==
  ASSUME NEW s \in Settings, NEW loggedIn \in BOOLEAN
  PROVE  CacheOK([p \in Probed(s, loggedIn) |-> s.known[p]])
BY DEF Probed, CacheOK, Settings, Providers

LEMMA DiscoveryStarts ==
  ASSUME ProvidersInv, NEW assign
  PROVE  CacheOK(Discovering(assign).cached)
<1>1. CacheOK([p \in Probed(settings, creds'.login # 0) |-> settings.known[p]])
  BY ProbesRead DEF ProvidersInv
<1>2. QED
  BY <1>1 DEF Discovering

-----------------------------------------------------------------------------
Stays == ProvidersInv' /\ OnlyChosenChanges

LEMMA PutSettingsStays == ASSUME ProvidersInv, PutSettings PROVE Stays
<1>1. settings' \in Settings /\ registry' = settings' /\ settings'.known = settings.known
  BY DEF ProvidersInv, PutSettings, Saved, Settings
<1>2. choices' \in Nat /\ choices' # choices
  BY DEF ProvidersInv, PutSettings
<1>3. QED
  BY <1>1, <1>2 DEF ProvidersInv, PutSettings, loginVars, Stays, OnlyChosenChanges

LEMMA EndDiscoveryStays == ASSUME ProvidersInv, NEW j \in Probes, EndDiscovery(j) PROVE Stays
<1> DEFINE cached == probe[j].cached
<1>1. PICK answer \in Answers(cached) :
        Saved([settings EXCEPT
             !.known = Cached(@, cached, answer),
             !.active = IF probe[j].assign THEN Chosen(@, cached, answer) ELSE @])
  BY DEF EndDiscovery
<1>2. /\ settings \in Settings /\ CacheOK(cached)
      /\ settings.known \in [Providers -> Lists]
      /\ settings.active \in [Providers -> Models \cup {NoModel}]
  BY DEF ProvidersInv, Settings
<1> DEFINE known == Cached(settings.known, cached, answer)
           active == Chosen(settings.active, cached, answer)
<1>3. /\ known \in [Providers -> Lists]
      /\ \A p \in Providers : known[p] # settings.known[p] => p \in DOMAIN cached
      /\ \A p \in DOMAIN cached : answer[p].live => known[p] = answer[p].models
  BY <1>2, CachedIs
<1>4. /\ active \in [Providers -> Models \cup {NoModel}]
      /\ \A p \in Providers : active[p] # settings.active[p] =>
           /\ p \in DOMAIN cached \ {Cloud} /\ settings.active[p] = NoModel /\ answer[p].live
           /\ active[p] \in answer[p].models
  BY <1>2, ChosenIs
<1>5. /\ settings'.on = settings.on /\ settings'.known = known
      /\ settings'.active = active \/ settings'.active = settings.active
      /\ settings' \in Settings /\ registry' = settings'
  BY <1>1, <1>2, <1>3, <1>4 DEF Saved, Settings
<1>6. /\ probe' = [probe EXCEPT ![j] = NoProbe] /\ probe[j].pc = "probing"
      /\ UNCHANGED <<bench, creds, refresh, logins, choices>>
  BY DEF EndDiscovery, loginVars
<1>7. CacheOK(NoProbe.cached) /\ NoProbe.pc = "idle"
  BY DEF CacheOK, NoProbe
<1>8. DOMAIN probe' = Probes /\ (\A k \in Probes : CacheOK(probe'[k].cached)) /\ probe'[j] # probe[j]
  BY <1>6, <1>7 DEF ProvidersInv
<1> HIDE DEF cached, known, active
<1>9. ProvidersInv'
  BY <1>5, <1>6, <1>8 DEF ProvidersInv
<1>10. \A p \in Providers : settings'.active[p] # settings.active[p] =>
         /\ p \in Endpoints /\ settings.active[p] = NoModel
         /\ settings'.active[p] \in settings'.known[p]
  BY <1>3, <1>4, <1>5 DEF Providers
<1>11. \A p \in Providers : settings'.known[p] # settings.known[p] =>
         probe'[j] # probe[j] /\ p \in DOMAIN probe[j].cached
  BY <1>3, <1>5, <1>8 DEF cached
<1>12. QED
  BY <1>5, <1>6, <1>9, <1>10, <1>11 DEF Stays, OnlyChosenChanges

LEMMA SaveBenchmarkStays == ASSUME ProvidersInv, SaveBenchmark PROVE Stays
<1> DEFINE read == bench.read
           cached == [p \in Probed(read, FALSE) |-> read.known[p]]
<1>1. PICK answer \in Answers(cached) : Saved([read EXCEPT !.known = Cached(@, cached, answer)])
  BY DEF SaveBenchmark
<1>2. read \in Settings /\ read.known \in [Providers -> Lists] /\ bench.pc = "probing"
  BY DEF ProvidersInv, SaveBenchmark, Settings
<1>3. CacheOK(cached)
  BY <1>2, ProbesRead
<1>4. bench' = NoBench /\ UNCHANGED <<probe, creds, refresh, logins, choices>>
  BY DEF SaveBenchmark, loginVars
<1> HIDE DEF read, cached
<1>5. Cached(read.known, cached, answer) \in [Providers -> Lists]
  BY <1>2, <1>3, CachedIs
<1>6. /\ settings'.on = read.on /\ settings'.active = read.active
      /\ settings' \in Settings /\ registry' = settings'
  BY <1>1, <1>2, <1>5 DEF Saved, Settings
<1>7. bench'.pc = "idle" /\ bench' # bench
  BY <1>2, <1>4 DEF NoBench
<1>8. ProvidersInv'
  BY <1>4, <1>6, <1>7 DEF ProvidersInv
<1>9. QED
  BY <1>2, <1>4, <1>6, <1>7, <1>8 DEF Stays, OnlyChosenChanges, read

LEMMA DiscoverStays == ASSUME ProvidersInv, NEW j \in Probes, DiscoverModels(j) PROVE Stays
<1>1. CacheOK(Discovering(TRUE).cached)
  BY DiscoveryStarts
<1>2. DOMAIN probe' = Probes /\ \A k \in Probes : CacheOK(probe'[k].cached)
  BY <1>1 DEF ProvidersInv, DiscoverModels
<1>3. QED
  BY <1>2 DEF ProvidersInv, DiscoverModels, loginVars, Stays, OnlyChosenChanges

\* A login keeps the caches, and its number is the newest.
LEMMA LoginStarts ==
  ASSUME ProvidersInv, LoggedIn
  PROVE  /\ DOMAIN probe' = Probes /\ \A k \in Probes : CacheOK(probe'[k].cached)
         /\ creds'.login = logins'
<1>1. PICK j \in Probes : probe' = [probe EXCEPT ![j] = Discovering(FALSE)]
  BY DEF LoggedIn
<1>2. CacheOK(Discovering(FALSE).cached)
  BY DiscoveryStarts
<1>3. \A k \in Probes : CacheOK(probe'[k].cached)
  BY <1>1, <1>2 DEF ProvidersInv
<1>4. QED
  BY <1>1, <1>3 DEF ProvidersInv, LoggedIn

LEMMA ProvidersStep == ASSUME ProvidersInv, [ProvidersNext]_providerVars PROVE Stays
<1>1. CASE PutSettings
  BY <1>1, PutSettingsStays
<1>2. CASE \E j \in Probes : DiscoverModels(j) \/ EndDiscovery(j)
  BY <1>2, DiscoverStays, EndDiscoveryStays
<1>3. CASE StartBenchmark \/ BenchmarkFails
  BY <1>3 DEF ProvidersInv, StartBenchmark, BenchmarkFails, NoBench, loginVars, Stays, OnlyChosenChanges
<1>4. CASE EndModels
  BY <1>4 DEF ProvidersInv, EndModels, loginVars, Stays, OnlyChosenChanges
<1>5. CASE SaveBenchmark
  BY <1>5, SaveBenchmarkStays
<1>6. CASE Logout
  BY <1>6 DEF ProvidersInv, Logout, Stays, OnlyChosenChanges
<1>7. CASE Expire
  <2>1. creds'.login = creds.login
    BY <1>7 DEF Expire
  <2>2. QED
    BY <1>7, <2>1 DEF ProvidersInv, Expire, Stays, OnlyChosenChanges
<1>8. CASE BeginLogin \/ PollLogin \/ PasteCode \/ \E status \in {"captured", "timeout"} : Capture(status)
  BY <1>8 DEF ProvidersInv, BeginLogin, PollLogin, PasteCode, Capture, Stays, OnlyChosenChanges
<1>9. CASE \E r \in Refreshes : BeginRefresh(r)
  BY <1>9 DEF ProvidersInv, BeginRefresh, Stays, OnlyChosenChanges
<1>10. CASE \E r \in Refreshes, ok \in BOOLEAN : EndRefresh(r, ok)
  BY <1>10 DEF ProvidersInv, EndRefresh, Stays, OnlyChosenChanges
<1>11. CASE \E ok \in BOOLEAN : EndExchange(ok) \/ EndPaste(ok)
  <2>1. LoggedIn \/ UNCHANGED <<creds, probe, logins>>
    BY <1>11 DEF EndExchange, EndPaste
  <2>2. UNCHANGED <<settings, registry, bench, refresh, choices>>
    BY <1>11 DEF EndExchange, EndPaste
  <2>3. DOMAIN probe' = Probes /\ \A k \in Probes : CacheOK(probe'[k].cached)
    BY <2>1, LoginStarts DEF ProvidersInv
  <2>4. creds'.login = logins' \/ creds'.login = creds.login
    BY <2>1, LoginStarts
  <2>5. QED
    BY <2>2, <2>3, <2>4 DEF ProvidersInv, Stays, OnlyChosenChanges
<1>12. CASE UNCHANGED providerVars
  BY <1>12 DEF ProvidersInv, providerVars, Stays, OnlyChosenChanges
<1>13. QED
  BY <1>1, <1>2, <1>3, <1>4, <1>5, <1>6, <1>7, <1>8, <1>9, <1>10, <1>11, <1>12 DEF ProvidersNext

LEMMA ProvidersStart == ProvidersInit => ProvidersInv
<1> SUFFICES ASSUME ProvidersInit PROVE ProvidersInv
  OBVIOUS
<1>1. settings \in Settings
  BY DEF ProvidersInit, Settings, Lists, Unknown
<1>2. CacheOK(NoProbe.cached)
  BY DEF CacheOK, NoProbe
<1>3. QED
  BY <1>1, <1>2 DEF ProvidersInit, ProvidersInv, NoBench

\* Whatever waits on the network meanwhile, only a choice of the user's (or the
\* benchmark's write-back of settings it read before) changes what he chose.
THEOREM ChoicesAlwaysSurvive == ProvidersSpec => ChoicesSurvive
<1>1. ProvidersInv /\ [ProvidersNext]_providerVars => ProvidersInv' /\ OnlyChosenChanges
  BY ProvidersStep DEF Stays
<1>2. QED
  BY <1>1, ProvidersStart, PTL DEF ProvidersSpec, ChoicesSurvive
-----------------------------------------------------------------------------
(***************************************************************************)
(* The costs of a session add up, for any number of calls at a time, any   *)
(* usage and any number of runs, resumptions and restarts.                 *)
(*                                                                         *)
(* The argument: what was billed covers what is charged and, beside it,    *)
(* what every open stream has generated, since a stream that ends is       *)
(* charged with no more than that.  So a proof has to sum over the open    *)
(* calls.  It does so without a recursive definition: the calls are put in *)
(* an order, and there is a sequence of partial sums; when the usage of    *)
(* one call changes, the sums from its place on change by as much.         *)
(***************************************************************************)
N == Cardinality(Calls)
Order == CHOOSE f \in [1 .. N -> Calls] :
           /\ \A c \in Calls : \E i \in 1 .. N : f[i] = c
           /\ \A i, j \in 1 .. N : f[i] = f[j] => i = j

\* s[i] is what the first i calls have used.
PartialSums(s, use) ==
  /\ s \in [0 .. N -> Nat] /\ s[0] = 0
  /\ \A i \in 1 .. N : s[i] = s[i - 1] + use[Order[i]]
  /\ \A i, j \in 0 .. N : i <= j => s[i] <= s[j]

\* A call that is open.
OpenCalls ==
  {v \in [pc : {"resolving", "direct", "building", "asking", "waiting", "streaming"},
          kind : {"complete", "stream"}, local : BOOLEAN, session : BOOLEAN,
          turn : BOOLEAN, attempt : Nat, used : Nat, reported : Nat] :
     v.reported <= v.used /\ (v.turn => v.session)}

Used(v) == IF v.pc = "idle" THEN 0 ELSE v.used
Usage == [c \in Calls |-> Used(call[c])]

\* What was billed pays for what is counted and for r besides.
Counts(r) ==
  /\ cost + r <= billed /\ stored.total + r <= billed
  /\ engine.on => engine.prior + cost - engine.start + r <= billed

AccessInv ==
  /\ call \in [Calls -> OpenCalls \cup {NoCall}]
  /\ cost \in Nat /\ billed \in Nat /\ spent \in Nat
  /\ stored \in [total : Nat, spent : Nat] /\ stored.spent <= stored.total
  /\ engine \in [on : BOOLEAN, prior : Nat, start : Nat]
  /\ engine.on => /\ engine.start <= cost
                  /\ spent <= engine.prior + cost - engine.start
  /\ \A c \in Calls : call[c].turn => engine.on
  /\ \E s : PartialSums(s, Usage) /\ Counts(s[N])

-----------------------------------------------------------------------------
LEMMA Ordered ==
  /\ N \in Nat /\ Order \in [1 .. N -> Calls]
  /\ \A c \in Calls : \E i \in 1 .. N : Order[i] = c
  /\ \A i, j \in 1 .. N : Order[i] = Order[j] => i = j
<1>1. N \in Nat
  BY AccessAssumption, FS_CardinalityType DEF N
<1>2. \E f : f \in Bijection(1 .. N, Calls)
  BY AccessAssumption, FS_NatBijection, FS_CountingElements, FS_CardinalityType DEF N, ExistsBijection
<1>3. \E f \in [1 .. N -> Calls] :
           /\ \A c \in Calls : \E i \in 1 .. N : f[i] = c
           /\ \A i, j \in 1 .. N : f[i] = f[j] => i = j
  BY <1>2 DEF Bijection, Injection, Surjection, IsInjective
<1>4. QED
  BY <1>1, <1>3 DEF Order

\* One call's usage changes: so do the sums from its place on.
LEMMA SumsChange ==
  ASSUME NEW use \in [Calls -> Nat], NEW s, PartialSums(s, use), NEW c \in Calls, NEW w \in Nat
  PROVE  \E t : PartialSums(t, [use EXCEPT ![c] = w]) /\ t[N] = s[N] + w - use[c]
<1>1. PICK k \in 1 .. N : Order[k] = c
  BY Ordered
<1> DEFINE d == w - use[c]
           new == [use EXCEPT ![c] = w]
           t == [i \in 0 .. N |-> IF i < k THEN s[i] ELSE s[i] + d]
<1>2. /\ N \in Nat /\ k \in 1 .. N /\ Order \in [1 .. N -> Calls] /\ use[c] \in Nat /\ d \in Int
      /\ \A i \in 1 .. N : Order[i] = c => i = k
  BY <1>1, Ordered
<1>3. /\ s \in [0 .. N -> Nat] /\ s[0] = 0
      /\ \A i \in 1 .. N : s[i] = s[i - 1] + use[Order[i]]
      /\ \A i, j \in 0 .. N : i <= j => s[i] <= s[j]
  BY DEF PartialSums
<1>4. \A i \in 1 .. N : i # k => new[Order[i]] = use[Order[i]]
  BY <1>2
<1>5. new[Order[k]] = w /\ w = use[c] + d
  BY <1>1, <1>2
<1>6. /\ k \in Nat /\ k >= 1 /\ k \in 0 .. N /\ k - 1 \in 0 .. N
      /\ s[k] = s[k - 1] + use[c] /\ s[k] \in Nat /\ s[k - 1] \in Nat
  <2>1. /\ k \in Nat /\ k >= 1 /\ k \in 0 .. N /\ k - 1 \in 0 .. N
    BY <1>2
  <2>2. s[k] = s[k - 1] + use[c]
    BY <1>1, <1>3
  <2>3. QED
    BY <2>1, <2>2, <1>3
<1>7. \A i \in 1 .. N : use[Order[i]] \in Nat
  BY <1>2
<1> HIDE DEF d, new
<1>8. s[k] + d \in Nat /\ s[k] + d = s[k - 1] + w
  <2>1. w = use[c] + d /\ use[c] \in Nat /\ d \in Int
    BY <1>2, <1>5
  <2>2. \A x, y \in Nat : x = y + use[c] => x + d \in Nat /\ x + d = y + w
    BY ONLY <2>1, w \in Nat
  <2>3. QED
    BY ONLY <1>6, <2>2
<1>9. \A i \in 0 .. N : i >= k => s[i] + d \in Nat /\ s[i] + d >= s[k] + d
  <2> SUFFICES ASSUME NEW i \in 0 .. N, i >= k PROVE s[i] + d \in Nat /\ s[i] + d >= s[k] + d
    OBVIOUS
  <2>1. s[k] <= s[i] /\ s[i] \in Nat
    <3>1. k \in 0 .. N /\ k <= i
      BY <1>2
    <3> QED
      BY ONLY <1>3, <3>1
  <2>2. s[k] \in Nat /\ d \in Int /\ s[k] + d \in Nat
    BY <1>2, <1>6, <1>8
  <2>3. QED
    BY <2>1, <2>2
<1>10. t \in [0 .. N -> Nat] /\ t[0] = 0
  <2>1. \A i \in 0 .. N : i < k \/ i >= k
    BY <1>6
  <2>2. 0 \in 0 .. N /\ 0 < k
    BY <1>2, <1>6
  <2>3. QED
    BY <2>1, <2>2, <1>3, <1>9
<1>11. \A i \in 1 .. N : t[i] = t[i - 1] + new[Order[i]]
  <2> SUFFICES ASSUME NEW i \in 1 .. N PROVE t[i] = t[i - 1] + new[Order[i]]
    OBVIOUS
  <2>1. i \in Nat /\ i \in 0 .. N /\ i - 1 \in 0 .. N /\ s[i] = s[i - 1] + use[Order[i]] /\ s[i - 1] \in Nat /\ s[i] \in Nat
    BY <1>2, <1>3
  <2>2. CASE i = k
    BY <2>1, <2>2, <1>2, <1>5, <1>8
  <2>3. CASE i < k
    <3>1. i - 1 < k /\ t[i] = s[i] /\ t[i - 1] = s[i - 1]
      BY <2>1, <2>3, <1>2
    <3>2. QED
      BY <3>1, <2>1, <2>3, <1>2, <1>4
  <2>4. CASE i > k
    <3>1. ~(i - 1 < k) /\ ~(i < k)
      BY <2>1, <2>4, <1>2
    <3>2. t[i] = s[i] + d /\ t[i - 1] = s[i - 1] + d
      BY <3>1, <2>1
    <3>3. new[Order[i]] = use[Order[i]] /\ use[Order[i]] \in Nat
      BY <2>4, <1>2, <1>4, <1>7
    <3>4. QED
      BY <3>2, <3>3, <2>1, <1>2
  <2>5. QED
    BY <2>1, <2>2, <2>3, <2>4, <1>2
<1>12. ASSUME NEW i \in 0 .. N, NEW j \in 0 .. N, i <= j PROVE t[i] <= t[j]
  <2>1. CASE j < k
    BY <1>2, <1>3, <1>12, <2>1
  <2>2. CASE i < k /\ j >= k
    <3>1. s[i] <= s[k - 1]
      BY <1>2, <1>3, <1>6, <2>2
    <3>2. s[k - 1] <= s[k] + d /\ s[k] + d <= s[j] + d /\ s[j] + d \in Nat
      BY <1>6, <1>8, <1>9, <2>2
    <3>3. t[i] = s[i] /\ t[j] = s[j] + d /\ s[i] \in Nat /\ s[k - 1] \in Nat /\ s[k] + d \in Nat
      BY <1>3, <1>6, <1>8, <2>2, ~(j < k)
    <3>4. QED
      BY <3>1, <3>2, <3>3
  <2>3. CASE i >= k
    <3>1. t[i] = s[i] + d /\ t[j] = s[j] + d /\ s[i] <= s[j] /\ s[i] \in Nat /\ s[j] \in Nat
      BY <1>2, <1>3, <1>12, <2>3
    <3>2. QED
      BY <3>1, <1>2
  <2>4. QED
    BY <2>1, <2>2, <2>3, <1>2
<1>13. t[N] = s[N] + d /\ s[N] + d = s[N] + w - use[c]
  BY <1>2, <1>3 DEF d
<1> HIDE DEF t
<1>14. QED
  BY <1>10, <1>11, <1>12, <1>13 DEF PartialSums, new
\* A call takes a step: it is charged with no more than it has used and what is
\* billed with the step, and its caller is told of no more than it is charged.
LEMMA CallSteps ==
  ASSUME AccessInv, NEW c \in Calls, NEW v \in OpenCalls \cup {NoCall},
         call' = [call EXCEPT ![c] = v], v.turn => engine.on,
         NEW charge \in Nat, NEW told \in Nat, NEW extra \in Nat,
         billed' = billed + extra, cost' \in {cost, cost + charge},
         spent' = spent \/ (spent' = spent + told /\ cost' = cost + charge),
         told <= charge, charge + Used(v) <= Used(call[c]) + extra,
         stored' = stored, engine' = engine
  PROVE  AccessInv'
<1>1. call' \in [Calls -> OpenCalls \cup {NoCall}]
  BY DEF AccessInv
<1>2. \A x \in OpenCalls \cup {NoCall} : Used(x) \in Nat
  BY DEF Used, OpenCalls, NoCall
<1>3. Usage \in [Calls -> Nat] /\ Usage[c] = Used(call[c]) /\ Usage[c] \in Nat /\ Used(v) \in Nat
  BY <1>2 DEF Usage, AccessInv
<1>4. Usage' = [Usage EXCEPT ![c] = Used(v)]
  BY DEF Usage, AccessInv
<1>5. PICK s : PartialSums(s, Usage) /\ Counts(s[N])
  BY DEF AccessInv
<1>6. PICK t : PartialSums(t, [Usage EXCEPT ![c] = Used(v)]) /\ t[N] = s[N] + Used(v) - Usage[c]
  <2>1. Usage \in [Calls -> Nat] /\ PartialSums(s, Usage)
    BY <1>3, <1>5
  <2>2. \A w \in Nat : \E t : PartialSums(t, [Usage EXCEPT ![c] = w]) /\ t[N] = s[N] + w - Usage[c]
    BY ONLY <2>1, SumsChange, c \in Calls
  <2>3. QED
    BY <2>2, <1>3
<1>7. s[N] \in Nat /\ t[N] \in Nat
  <2>1. N \in 0 .. N
    BY Ordered
  <2>2. s \in [0 .. N -> Nat] /\ t \in [0 .. N -> Nat]
    BY <1>5, <1>6 DEF PartialSums
  <2>3. QED
    BY <2>1, <2>2
<1> DEFINE owed == engine.prior + cost - engine.start
<1>8. /\ cost \in Nat /\ billed \in Nat /\ spent \in Nat
      /\ stored.total \in Nat /\ engine.prior \in Nat /\ engine.start \in Nat /\ owed \in Int
      /\ engine.on => engine.start <= cost /\ spent <= owed
  BY DEF AccessInv
<1>9. /\ cost + s[N] <= billed /\ stored.total + s[N] <= billed
      /\ engine.on => owed + s[N] <= billed
  BY <1>5 DEF Counts
<1>10. t[N] + charge <= s[N] + extra
  BY <1>3, <1>6, <1>7
<1>11. PICK more \in {0, charge} : cost' = cost + more
  BY <1>8
<1>12. /\ cost' \in Nat /\ billed' \in Nat /\ spent' \in Nat
       /\ engine'.prior + cost' - engine'.start = owed + more
  BY <1>8, <1>11
<1>13. PartialSums(t, Usage)'
  BY <1>4, <1>6, Ordered DEF PartialSums
<1>14. Counts(t[N])'
  <2>1. cost' + t[N] <= billed'
    BY <1>7, <1>8, <1>9, <1>10, <1>11
  <2>2. stored'.total + t[N] <= billed'
    BY <1>7, <1>8, <1>9, <1>10
  <2>3. engine.on => owed + more + t[N] <= billed'
    <3> HIDE DEF owed
    <3>1. QED
      BY <1>7, <1>8, <1>9, <1>10, <1>11
  <2>4. QED
    BY <2>1, <2>2, <2>3, <1>12 DEF Counts
<1>15. engine'.on => engine'.start <= cost' /\ spent' <= owed + more
  <2> HIDE DEF owed
  <2>1. QED
    BY <1>8, <1>11
<1>16. \A k \in Calls : call'[k].turn => engine'.on
  BY DEF AccessInv
<1>17. QED
  BY <1>1, <1>12, <1>13, <1>14, <1>15, <1>16 DEF AccessInv

\* The ways a call goes on: it ends, or moves to another place.
LEMMA EndedSteps ==
  ASSUME AccessInv, NEW c \in Calls, call[c] \in OpenCalls,
         NEW charge \in Nat, NEW told \in Nat, NEW extra \in Nat,
         Ended(c, charge, told), billed' = billed + extra,
         told <= charge, charge <= Used(call[c]) + extra, UNCHANGED <<stored, engine>>
  PROVE  AccessInv'
<1>1. NoCall \in OpenCalls \cup {NoCall} /\ ~NoCall.turn /\ Used(NoCall) = 0
  BY DEF NoCall, Used
<1>2. call[c].turn => call[c].session
  BY DEF OpenCalls
<1>3. /\ call' = [call EXCEPT ![c] = NoCall] /\ cost' \in {cost, cost + charge}
      /\ spent' = spent \/ (spent' = spent + told /\ cost' = cost + charge)
  BY <1>2 DEF Ended
<1>4. charge + Used(NoCall) <= Used(call[c]) + extra
  BY <1>1
<1>5. QED
  BY <1>1, <1>3, <1>4, CallSteps

LEMMA MovedSteps ==
  ASSUME AccessInv, NEW c \in Calls, call[c] \in OpenCalls,
         NEW v \in OpenCalls, NEW extra \in Nat, v.turn = call[c].turn,
         call' = [call EXCEPT ![c] = v], billed' = billed + extra,
         v.used <= call[c].used + extra, UNCHANGED <<cost, spent, stored, engine>>
  PROVE  AccessInv'
<1>1. Used(v) = v.used /\ Used(call[c]) = call[c].used /\ v.used \in Nat /\ call[c].used \in Nat
  BY DEF Used, OpenCalls
<1>2. v.turn => engine.on
  BY DEF AccessInv
<1>3. 0 + Used(v) <= Used(call[c]) + extra
  BY <1>1
<1>4. v \in OpenCalls \cup {NoCall} /\ 0 \in Nat /\ 0 <= 0
  OBVIOUS
<1>5. spent' = spent /\ cost' \in {cost, cost + 0} /\ stored' = stored /\ engine' = engine
  OBVIOUS
<1>6. QED
  BY <1>2, <1>3, <1>4, <1>5, CallSteps
-----------------------------------------------------------------------------
\* What the state of a call says of it.
LEMMA OpenIs ==
  ASSUME AccessInv, NEW c \in Calls, call[c].pc # "idle"
  PROVE  /\ call[c] \in OpenCalls /\ Used(call[c]) = call[c].used
         /\ call[c].used \in Nat /\ call[c].reported \in Nat /\ call[c].reported <= call[c].used
         /\ 0 <= Used(call[c])
<1>1. call[c] \in OpenCalls
  BY DEF AccessInv, NoCall
<1>2. QED
  BY <1>1 DEF OpenCalls, Used

\* A call that only changes its place.
LEMMA PlaceChanges ==
  ASSUME AccessInv, NEW c \in Calls, call[c].pc # "idle",
         NEW pc \in {"building", "direct", "asking", "waiting", "streaming"},
         Moved(c, pc), UNCHANGED <<stored, engine, billed>>
  PROVE  AccessInv'
<1>1. call[c] \in OpenCalls /\ call[c].used \in Nat /\ billed \in Nat
  BY OpenIs DEF AccessInv
<1> DEFINE v == [call[c] EXCEPT !.pc = pc]
<1>2. v \in OpenCalls /\ v.turn = call[c].turn /\ v.used = call[c].used
  BY <1>1 DEF OpenCalls
<1>3. call' = [call EXCEPT ![c] = v]
  BY DEF Moved
<1> HIDE DEF v
<1>4. 0 \in Nat /\ billed' = billed + 0 /\ v.used <= call[c].used + 0 /\ UNCHANGED <<cost, spent, stored, engine>>
  BY <1>1, <1>2 DEF Moved
<1>5. QED
  BY <1>1, <1>2, <1>3, <1>4, MovedSteps

\* A call that ends with nothing charged, whatever is billed for it.
LEMMA FreeEnd ==
  ASSUME AccessInv, NEW c \in Calls, call[c].pc # "idle", Ended(c, 0, 0),
         NEW extra \in Nat, billed' = billed + extra, UNCHANGED <<stored, engine>>
  PROVE  AccessInv'
<1>1. 0 \in Nat /\ 0 <= 0 /\ 0 <= Used(call[c]) + extra
  BY OpenIs
<1>2. call[c] \in OpenCalls
  BY OpenIs
<1>3. QED
  BY <1>1, <1>2, EndedSteps

LEMMA BilledIs == ASSUME AccessInv, billed' = billed PROVE billed' = billed + 0
BY DEF AccessInv

LEMMA CallInv ==
  ASSUME AccessInv, NEW c \in Calls, NEW kind \in {"complete", "stream"}, Call(c, kind)
  PROVE  AccessInv'
<1>1. PICK local \in BOOLEAN, seen \in BOOLEAN, turn \in {FALSE, engine.on} :
        /\ turn => seen
        /\ call' = [call EXCEPT ![c] =
             [pc |-> "resolving", kind |-> kind, local |-> local, session |-> seen,
              turn |-> turn, attempt |-> 1, used |-> 0, reported |-> 0]]
  BY DEF Call
<1> DEFINE v == [pc |-> "resolving", kind |-> kind, local |-> local, session |-> seen,
                 turn |-> turn, attempt |-> 1, used |-> 0, reported |-> 0]
<1>2. engine.on \in BOOLEAN /\ call[c] = NoCall
  BY DEF AccessInv, Call, OpenCalls
<1>3. v \in OpenCalls /\ (v.turn => engine.on) /\ Used(v) = 0 /\ Used(call[c]) = 0
  <2>1. turn \in BOOLEAN /\ (turn => engine.on)
    BY <1>2, Zenon
  <2>2. v \in OpenCalls
    BY <1>1, <2>1 DEF OpenCalls
  <2>3. v.turn = turn /\ Used(v) = 0 /\ Used(call[c]) = 0
    BY <1>2 DEF Used, NoCall
  <2>4. QED
    BY <2>1, <2>2, <2>3
<1>4. call' = [call EXCEPT ![c] = v]
  BY <1>1
<1>5. /\ cost \in Nat /\ billed \in Nat
      /\ UNCHANGED <<cost, stored, engine, billed, spent>>
  BY DEF AccessInv, Call
<1> HIDE DEF v
<1>6. /\ v \in OpenCalls \cup {NoCall} /\ 0 \in Nat /\ billed' = billed + 0 /\ cost' \in {cost, cost + 0}
      /\ spent' = spent \/ (spent' = spent + 0 /\ cost' = cost + 0)
      /\ 0 <= 0 /\ 0 + Used(v) <= Used(call[c]) + 0 /\ stored' = stored /\ engine' = engine
  BY <1>3, <1>5
<1>7. QED
  BY <1>3, <1>4, <1>6, CallSteps

LEMMA AnswerInv ==
  ASSUME AccessInv, NEW c \in Calls, NEW right \in BOOLEAN, AnswerCall(c, right)
  PROVE  AccessInv'
<1>1. PICK u \in 0 .. MaxUsage : billed' = billed + u /\ IF right THEN Ended(c, u, u) ELSE Ended(c, 0, 0)
  BY DEF AnswerCall
<1>2. call[c].pc # "idle" /\ UNCHANGED <<stored, engine>> /\ u \in Nat
  BY AccessAssumption DEF AnswerCall
<1>3. CASE ~right
  BY <1>1, <1>2, <1>3, FreeEnd
<1>4. CASE right
  <2>1. call[c] \in OpenCalls /\ u <= u /\ u <= Used(call[c]) + u
    BY <1>2, OpenIs
  <2>2. QED
    BY <1>1, <1>2, <1>4, <2>1, EndedSteps
<1>5. QED
  BY <1>3, <1>4

LEMMA GenerateInv == ASSUME AccessInv, NEW c \in Calls, Generate(c) PROVE AccessInv'
<1>1. call[c].pc # "idle" /\ UNCHANGED <<cost, spent, stored, engine>> /\ billed' = billed + 1 /\ 1 \in Nat
  BY DEF Generate
<1>2. call[c] \in OpenCalls /\ call[c].used \in Nat
  BY <1>1, OpenIs
<1> DEFINE v == [call[c] EXCEPT !.used = @ + 1]
<1>3. v \in OpenCalls /\ v.turn = call[c].turn /\ v.used <= call[c].used + 1
  BY <1>2 DEF OpenCalls
<1>4. call' = [call EXCEPT ![c] = v]
  BY DEF Generate
<1> HIDE DEF v
<1>5. QED
  BY <1>1, <1>2, <1>3, <1>4, MovedSteps

LEMMA ReportInv == ASSUME AccessInv, NEW c \in Calls, ReportUsage(c) PROVE AccessInv'
<1>1. call[c].pc # "idle" /\ UNCHANGED <<cost, spent, stored, engine>> /\ billed' = billed + 0 /\ 0 \in Nat
  BY BilledIs DEF ReportUsage
<1>2. call[c] \in OpenCalls /\ call[c].used \in Nat
  BY <1>1, OpenIs
<1> DEFINE v == [call[c] EXCEPT !.reported = call[c].used]
<1>3. v \in OpenCalls /\ v.turn = call[c].turn /\ v.used <= call[c].used + 0
  BY <1>2 DEF OpenCalls
<1>4. call' = [call EXCEPT ![c] = v]
  BY DEF ReportUsage
<1> HIDE DEF v
<1>5. QED
  BY <1>1, <1>2, <1>3, <1>4, MovedSteps

LEMMA TryAgainInv == ASSUME AccessInv, NEW c \in Calls, TryAgain(c) PROVE AccessInv'
<1>1. call[c].pc # "idle" /\ UNCHANGED <<cost, spent, stored, engine>> /\ billed' = billed + 0 /\ 0 \in Nat
  BY BilledIs DEF TryAgain
<1>2. call[c] \in OpenCalls /\ call[c].used \in Nat
  BY <1>1, OpenIs
<1> DEFINE w == [call[c] EXCEPT !.pc = "asking"]
           v == [w EXCEPT !.attempt = call[c].attempt + 1]
<1>3. w \in OpenCalls /\ w.turn = call[c].turn /\ w.used = call[c].used /\ call[c].attempt + 1 \in Nat
  BY <1>2 DEF OpenCalls
<1>4. call' = [call EXCEPT ![c] = v]
  BY <1>2 DEF TryAgain
<1> HIDE DEF w
<1>5. v \in OpenCalls /\ v.turn = call[c].turn /\ v.used <= call[c].used + 0
  BY <1>2, <1>3 DEF OpenCalls
<1> HIDE DEF v
<1>6. QED
  BY <1>1, <1>2, <1>4, <1>5, MovedSteps

LEMMA EndStreamInv == ASSUME AccessInv, NEW c \in Calls, EndStream(c) PROVE AccessInv'
<1>1. /\ call[c].pc # "idle" /\ UNCHANGED <<stored, engine>> /\ billed' = billed + 0 /\ 0 \in Nat
      /\ Ended(c, call[c].reported, call[c].reported) \/ Ended(c, call[c].reported, 0)
  BY BilledIs DEF EndStream
<1>2. /\ call[c] \in OpenCalls /\ call[c].reported \in Nat
      /\ call[c].reported <= Used(call[c]) + 0 /\ call[c].reported <= call[c].reported
      /\ 0 <= call[c].reported
  BY <1>1, OpenIs
<1>3. QED
  BY <1>1, <1>2, EndedSteps

LEMMA AbandonInv == ASSUME AccessInv, NEW c \in Calls, Abandon(c) PROVE AccessInv'
<1>1. PICK u \in {0, MaxUsage} : billed' = billed + u
  BY DEF Abandon
<1>2. u \in Nat /\ 0 \in Nat
  BY AccessAssumption
<1>3. call[c].pc # "idle" /\ UNCHANGED <<stored, engine>> /\ Ended(c, call[c].reported, 0)
  BY DEF Abandon
<1>4. /\ call[c] \in OpenCalls /\ call[c].reported \in Nat
      /\ call[c].reported <= Used(call[c]) + u /\ 0 <= call[c].reported
  BY <1>2, <1>3, OpenIs
<1>5. QED
  BY <1>1, <1>2, <1>3, <1>4, EndedSteps

\* The other steps of a call change no account.
LEMMA QuietCallInv ==
  ASSUME AccessInv, NEW c \in Calls, NEW transient \in BOOLEAN,
         ResolveKey(c) \/ Direct(c) \/ Build(c) \/ OpenStream(c) \/ Refuse(c, transient)
  PROVE  AccessInv'
<1>1. call[c].pc # "idle" /\ UNCHANGED <<stored, engine, billed>> /\ billed' = billed + 0 /\ 0 \in Nat
  BY BilledIs DEF ResolveKey, Direct, Build, OpenStream, Refuse
<1>2. \/ Ended(c, 0, 0)
      \/ \E pc \in {"building", "direct", "asking", "waiting", "streaming"} : Moved(c, pc)
  BY DEF ResolveKey, Direct, Build, OpenStream, Refuse
<1>3. QED
  BY <1>1, <1>2, FreeEnd, PlaceChanges

-----------------------------------------------------------------------------
LEMMA BeginRunInv == ASSUME AccessInv, NEW resume \in BOOLEAN, BeginRun(resume) PROVE AccessInv'
<1>1. PICK s : PartialSums(s, Usage) /\ Counts(s[N])
  BY DEF AccessInv
<1>2. Usage' = Usage /\ UNCHANGED <<call, cost, billed>>
  BY DEF BeginRun, Usage
<1>3. s[N] \in Nat
  BY <1>1, Ordered DEF PartialSums
<1>4. /\ cost \in Nat /\ billed \in Nat /\ stored.total \in Nat /\ stored.spent \in Nat
      /\ stored.spent <= stored.total /\ cost + s[N] <= billed /\ stored.total + s[N] <= billed
  BY <1>1 DEF AccessInv, Counts
<1>5. PICK prior \in Nat :
        /\ engine' = [on |-> TRUE, start |-> cost, prior |-> prior]
        /\ prior + s[N] <= billed /\ spent' \in Nat /\ spent' <= prior
  <2>1. CASE resume
    <3>1. engine' = [on |-> TRUE, start |-> cost, prior |-> Greater(stored.total, cost)] /\ spent' = stored.spent
      BY <2>1 DEF BeginRun
    <3>2. /\ Greater(stored.total, cost) \in Nat /\ stored.total <= Greater(stored.total, cost)
          /\ Greater(stored.total, cost) + s[N] <= billed
      BY <1>3, <1>4 DEF Greater
    <3>3. spent' <= Greater(stored.total, cost)
      BY <1>4, <3>1, <3>2
    <3>4. PICK p \in Nat : p = Greater(stored.total, cost)
      BY <3>2
    <3>5. engine' = [on |-> TRUE, start |-> cost, prior |-> p] /\ p + s[N] <= billed /\ spent' \in Nat /\ spent' <= p
      BY <1>4, <3>1, <3>2, <3>3, <3>4
    <3>6. QED
      BY <3>5
  <2>2. CASE ~resume
    <3>1. engine' = [on |-> TRUE, start |-> cost, prior |-> cost] /\ spent' = 0
      BY <2>2 DEF BeginRun
    <3>2. cost \in Nat /\ cost + s[N] <= billed /\ spent' \in Nat /\ spent' <= cost
      BY <1>4, <3>1
    <3>3. cost \in Nat
      BY <1>4
    <3>4. WITNESS cost \in Nat
    <3>5. QED
      BY <3>1, <3>2
  <2>3. QED
    BY <2>1, <2>2
<1>6. /\ stored' \in [total : Nat, spent : Nat] /\ stored'.spent <= stored'.total
      /\ stored'.total + s[N] <= billed
  <2>1. CASE stored' = stored
    BY <2>1, <1>4 DEF AccessInv
  <2>2. CASE stored' = NoResult
    BY <2>2, <1>3, <1>4 DEF NoResult
  <2>3. QED
    BY <2>1, <2>2 DEF BeginRun
<1>7. engine'.on /\ engine'.start = cost /\ engine'.prior = prior /\ engine' \in [on : BOOLEAN, prior : Nat, start : Nat]
  BY <1>4, <1>5
<1>8. engine'.prior + cost' - engine'.start = prior
  BY <1>2, <1>4, <1>7
<1>9. Counts(s[N])'
  BY <1>2, <1>4, <1>5, <1>6, <1>8, <1>1 DEF Counts
<1>10. PartialSums(s, Usage)'
  BY <1>1, <1>2 DEF PartialSums
<1>11. engine'.on => engine'.start <= cost' /\ spent' <= engine'.prior + cost' - engine'.start
  BY <1>2, <1>4, <1>5, <1>7, <1>8
<1>12. call' \in [Calls -> OpenCalls \cup {NoCall}] /\ \A c \in Calls : call'[c].turn => engine'.on
  BY <1>2, <1>7 DEF AccessInv
<1>13. QED
  BY <1>2, <1>4, <1>5, <1>6, <1>7, <1>9, <1>10, <1>11, <1>12 DEF AccessInv

LEMMA PersistInv == ASSUME AccessInv, NEW last \in BOOLEAN, Persist(last) PROVE AccessInv'
<1>1. PICK s : PartialSums(s, Usage) /\ Counts(s[N])
  BY DEF AccessInv
<1>2. Usage' = Usage /\ UNCHANGED <<call, cost, billed, spent>> /\ engine.on
  BY DEF Persist, Usage
<1> DEFINE owed == engine.prior + cost - engine.start
<1>3. /\ cost \in Nat /\ billed \in Nat /\ spent \in Nat /\ engine.prior \in Nat /\ engine.start \in Nat
      /\ owed \in Nat /\ spent <= owed /\ owed + s[N] <= billed
  BY <1>1, <1>2 DEF AccessInv, Counts
<1>4. stored' = [total |-> owed, spent |-> spent]
  BY DEF Persist
<1>5. engine' = engine \/ (last /\ engine' = NoEngine)
  BY DEF Persist
<1>6. /\ engine' \in [on : BOOLEAN, prior : Nat, start : Nat]
      /\ engine'.on => engine' = engine
  <2>1. ~NoEngine.on /\ NoEngine \in [on : BOOLEAN, prior : Nat, start : Nat]
    BY DEF NoEngine
  <2>2. engine \in [on : BOOLEAN, prior : Nat, start : Nat]
    BY DEF AccessInv
  <2>3. QED
    BY <1>5, <2>1, <2>2
<1>7. stored' \in [total : Nat, spent : Nat] /\ stored'.spent <= stored'.total /\ stored'.total = owed
  BY <1>3, <1>4
<1> HIDE DEF owed
<1>8. Counts(s[N])'
  BY <1>1, <1>2, <1>3, <1>6, <1>7 DEF Counts
<1>9. PartialSums(s, Usage)'
  BY <1>1, <1>2 DEF PartialSums
<1>10. \A c \in Calls : call'[c].turn => engine'.on
  BY <1>2, <1>5 DEF AccessInv, Persist
<1>11. engine'.on => engine'.start <= cost' /\ spent' <= engine'.prior + cost' - engine'.start
  BY <1>2, <1>6 DEF AccessInv
<1>12. QED
  BY <1>2, <1>3, <1>6, <1>7, <1>8, <1>9, <1>10, <1>11 DEF AccessInv

\* No call is open: nothing is owed.
LEMMA NothingUsed ==
  PartialSums([i \in 0 .. N |-> 0], [c \in Calls |-> 0])
BY Ordered DEF PartialSums

LEMMA RestartInv == ASSUME AccessInv, RestartServer PROVE AccessInv'
<1>1. PICK s : PartialSums(s, Usage) /\ Counts(s[N])
  BY DEF AccessInv
<1>2. s[N] \in Nat /\ N \in 0 .. N
  BY <1>1, Ordered DEF PartialSums
<1> DEFINE z == [i \in 0 .. N |-> 0]
<1>3. Usage' = [c \in Calls |-> 0]
  BY DEF RestartServer, Usage, Used, NoCall
<1>4. PartialSums(z, Usage)' /\ z[N] = 0
  BY <1>2, <1>3, NothingUsed DEF PartialSums
<1>5. /\ billed \in Nat /\ stored.total \in Nat /\ stored.spent \in Nat
      /\ stored.total + s[N] <= billed
  BY <1>1 DEF AccessInv, Counts
<1>6. /\ call' \in [Calls -> OpenCalls \cup {NoCall}] /\ (\A c \in Calls : ~call'[c].turn)
      /\ cost' = 0 /\ ~engine'.on /\ engine' \in [on : BOOLEAN, prior : Nat, start : Nat]
      /\ stored' = stored /\ billed' = billed /\ spent' \in Nat
  BY <1>5 DEF RestartServer, NoCall, NoEngine
<1> HIDE DEF z
<1>7. Counts(z[N])'
  <2>1. cost' + 0 <= billed' /\ stored'.total + 0 <= billed'
    BY <1>2, <1>5, <1>6
  <2>2. z[N]' = 0
    BY <1>4 DEF z
  <2>3. QED
    BY <2>1, <2>2, <1>6 DEF Counts
<1>8. QED
  BY <1>4, <1>5, <1>6, <1>7 DEF AccessInv, z

LEMMA AccessStarts == AccessInit => AccessInv
<1> SUFFICES ASSUME AccessInit PROVE AccessInv
  OBVIOUS
<1> DEFINE z == [i \in 0 .. N |-> 0]
<1>1. Usage = [c \in Calls |-> 0]
  BY DEF AccessInit, Usage, Used, NoCall
<1>2. PartialSums(z, Usage) /\ z[N] = 0
  BY <1>1, NothingUsed, Ordered
<1>3. Counts(z[N])
  BY <1>2 DEF AccessInit, Counts, NoResult, NoEngine
<1> HIDE DEF z
<1>4. QED
  BY <1>2, <1>3 DEF AccessInit, AccessInv, NoCall, NoResult, NoEngine

LEMMA AccessStep == ASSUME AccessInv, [AccessNext]_accessVars PROVE AccessInv'
<1>1. CASE \E c \in Calls, kind \in {"complete", "stream"} : Call(c, kind)
  BY <1>1, CallInv
<1>2. CASE \E c \in Calls, transient \in BOOLEAN :
        ResolveKey(c) \/ Direct(c) \/ Build(c) \/ OpenStream(c) \/ Refuse(c, transient)
  BY <1>2, QuietCallInv
<1>3. CASE \E c \in Calls, right \in BOOLEAN : AnswerCall(c, right)
  BY <1>3, AnswerInv
<1>4. CASE \E c \in Calls : TryAgain(c) \/ Generate(c) \/ ReportUsage(c) \/ EndStream(c) \/ Abandon(c)
  BY <1>4, TryAgainInv, GenerateInv, ReportInv, EndStreamInv, AbandonInv
<1>5. CASE Relogin \/ UNCHANGED accessVars
  BY <1>5 DEF Relogin, accessVars, AccessInv, Usage, Counts, PartialSums
<1>6. CASE \E resume \in BOOLEAN : BeginRun(resume)
  BY <1>6, BeginRunInv
<1>7. CASE \E last \in BOOLEAN : Persist(last)
  BY <1>7, PersistInv
<1>8. CASE RestartServer
  BY <1>8, RestartInv
<1>9. QED
  BY <1>1, <1>2, <1>3, <1>4, <1>5, <1>6, <1>7, <1>8 DEF AccessNext

\* What a session is shown to cost was delivered, and what a run stores covers every
\* turn its result builds on, however many calls are open, cancelled or retried.
THEOREM CostsAlwaysAddUp == AccessSpec => []CostsAddUp
<1>1. ASSUME AccessInv PROVE CostsAddUp
  <2>1. PICK s : PartialSums(s, Usage) /\ Counts(s[N])
    BY <1>1 DEF AccessInv
  <2>2. s[N] \in Nat
    BY <2>1, Ordered DEF PartialSums
  <2>3. cost \in Nat /\ billed \in Nat /\ stored.total \in Nat /\ stored.spent \in Nat
    BY <1>1 DEF AccessInv
  <2>4. cost <= billed /\ stored.total \in stored.spent .. billed
    BY <1>1, <2>1, <2>2, <2>3 DEF AccessInv, Counts
  <2>5. ASSUME engine.on PROVE engine.prior + cost - engine.start \in spent .. billed
    BY <1>1, <2>1, <2>2, <2>3, <2>5 DEF AccessInv, Counts
  <2>6. QED
    BY <2>4, <2>5 DEF CostsAddUp
<1>2. QED
  BY <1>1, AccessStarts, AccessStep, PTL DEF AccessSpec
-----------------------------------------------------------------------------
(***************************************************************************)
(* A plan is honoured: for any venue, providers, models, presets and model *)
(* maps, and settings that change at any time.                             *)
(*                                                                         *)
(* The argument: a request's own choice is resolved before anything else,  *)
(* a graph step is otherwise only given a model that suits it, which is a  *)
(* local one, and an upload that makes a graph names a model for every     *)
(* step, so that resolving them again changes nothing.                     *)
(***************************************************************************)
PlanFields == {"status", "agents", "map", "panel", "graphOnly", "skip", "graph", "review"}

AgentsAsAsked(agents, map) ==
  \A r \in DOMAIN agents : Wish(map, r) # Unassigned => agents[r] = Wish(map, r)

PlanOK ==
  /\ plan = [f \in PlanFields |-> plan[f]] /\ plan.status # "none"
  /\ plan.map = [k \in DOMAIN plan.map |-> plan.map[k]]
  /\ ~plan.skip => \A step \in Steps : Names(plan.map, step)
  /\ AgentsAsAsked(plan.agents, asked)
  /\ plan.panel = NoPanel \/ loose \/ plan.panel = DOMAIN plan.agents \ {"meta"}

RoutingOK ==
  /\ DOMAIN routing = {"on", "active", "preset", "connected"}
  /\ routing = [f \in {"on", "active", "preset", "connected"} |-> routing[f]]
  /\ routing.active \in [Range(ProviderOrder) -> DOMAIN Routes \cup {Unassigned}]

PlanInv == RoutingOK /\ (plan = NoPlan \/ PlanOK)

-----------------------------------------------------------------------------
\* A set of natural numbers has a least one.
LEMMA Least == ASSUME NEW S \in SUBSET Nat, S # {} PROVE \E n \in S : \A m \in S : n <= m
<1>1. PICK n \in S : \A m \in S : ~(<<m, n>> \in OpToRel(<, Nat))
  BY NatLessThanWellFounded, WFMin
<1>2. \A m \in S : ~(m < n)
  BY <1>1 DEF OpToRel
<1>3. QED
  BY <1>2

LEMMA ScoreIs == ASSUME NEW m, NEW graph PROVE Score(m, graph) \in 0 .. 150
BY DEF Score

\* The best candidate is one of them, and suits.
LEMMA BestSuits ==
  ASSUME NEW s, NEW cand, DOMAIN cand \subseteq Nat, NEW graph, NEW last
  PROVE  \/ Best(s, cand, graph, last) = Unassigned
         \/ \E i \in DOMAIN cand : Best(s, cand, graph, last) = cand[i] /\ Suits(s, cand[i], graph, last)
<1> DEFINE ok == {i \in DOMAIN cand : Suits(s, cand[i], graph, last)}
           worth(i) == 100 * Score(cand[i], graph)
           wins(i) == \A j \in ok : worth(i) > worth(j) \/ (worth(i) = worth(j) /\ i <= j)
<1>1. CASE ok = {}
  BY <1>1 DEF Best
<1>2. CASE ok # {}
  <2>1. \A i \in ok : worth(i) \in Nat /\ worth(i) <= 15000
    BY ScoreIs
  <2>2. ok \in SUBSET Nat
    OBVIOUS
  <2> HIDE DEF worth
  <2> DEFINE lacks == {15000 - worth(i) : i \in ok}
  <2>3. lacks \in SUBSET Nat /\ lacks # {}
    BY <2>1, <1>2
  <2>4. PICK n \in lacks : \A m \in lacks : n <= m
    <3> HIDE DEF lacks
    <3>1. QED
      BY <2>3, Least
  <2>5. PICK b \in ok : n = 15000 - worth(b)
    OBVIOUS
  <2>6. \A j \in ok : worth(b) >= worth(j)
    <3> SUFFICES ASSUME NEW j \in ok PROVE worth(b) >= worth(j)
      OBVIOUS
    <3>1. 15000 - worth(b) <= 15000 - worth(j)
      BY <2>4, <2>5
    <3>2. QED
      BY <3>1, <2>1
  <2> DEFINE equals == {i \in ok : worth(i) = worth(b)}
  <2>7. equals \in SUBSET Nat /\ b \in equals
    BY <2>2
  <2>8. PICK i \in equals : \A j \in equals : i <= j
    <3> HIDE DEF equals, ok
    <3>1. QED
      BY <2>7, Least
  <2>9. \A j \in ok : worth(i) > worth(j) \/ (worth(i) = worth(j) /\ i <= j)
    <3> SUFFICES ASSUME NEW j \in ok PROVE worth(i) > worth(j) \/ (worth(i) = worth(j) /\ i <= j)
      OBVIOUS
    <3>1. CASE worth(j) = worth(b)
      BY <2>8, <3>1
    <3>2. CASE worth(j) # worth(b)
      BY <2>1, <2>6, <2>8, <3>2
    <3>3. QED
      BY <3>1, <3>2
  <2>10. \E k \in ok : wins(k)
    BY <2>8, <2>9
  <2> DEFINE best == CHOOSE k \in ok : wins(k)
  <2>11. best \in ok
    <3> HIDE DEF wins
    <3>1. QED
      BY <2>10
  <2>12. Best(s, cand, graph, last) = cand[best]
    BY <1>2 DEF Best, worth
  <2>13. best \in DOMAIN cand /\ Suits(s, cand[best], graph, last)
    BY <2>11
  <2> HIDE DEF best
  <2>14. QED
    BY <2>12, <2>13
<1>3. QED
  BY <1>1, <1>2

\* What is resolved: the first choice of the request, or a model that suits.
LEMMA FirstChosen ==
  ASSUME NEW map, NEW keys, DOMAIN keys \in SUBSET Nat,
         \E i \in DOMAIN keys : Names(map, keys[i])
  PROVE  /\ FirstNamed(map, keys) \in DOMAIN keys
         /\ Names(map, keys[FirstNamed(map, keys)])
         /\ \A j \in DOMAIN keys : Names(map, keys[j]) => FirstNamed(map, keys) <= j
<1> DEFINE given == {i \in DOMAIN keys : Names(map, keys[i])}
<1>1. given \in SUBSET Nat /\ given # {}
  OBVIOUS
<1>2. PICK i \in given : \A j \in given : i <= j
  BY <1>1, Least
<1>3. \E k \in DOMAIN keys : Names(map, keys[k]) /\ \A j \in DOMAIN keys : Names(map, keys[j]) => k <= j
  BY <1>2
<1>4. QED
  BY <1>3 DEF FirstNamed

\* A key that names a model and comes first decides.
LEMMA FirstDecides ==
  ASSUME NEW s, NEW map, NEW keys, DOMAIN keys \in SUBSET Nat, NEW graph,
         1 \in DOMAIN keys, 0 \notin DOMAIN keys, Names(map, keys[1])
  PROVE  Resolved(s, map, keys, graph) = map[keys[1]]
<1>1. FirstNamed(map, keys) \in DOMAIN keys /\ FirstNamed(map, keys) <= 1
  BY FirstChosen
<1>2. FirstNamed(map, keys) = 1
  BY <1>1
<1>3. QED
  BY <1>2 DEF Resolved

LEMMA ResolvedIs ==
  ASSUME NEW map, NEW keys, DOMAIN keys \in SUBSET (Nat \ {0}), RoutingOK, NEW graph \in BOOLEAN
  PROVE  LET m == Resolved(routing, map, keys, graph)
         IN  \/ \E k \in DOMAIN map : Names(map, k) /\ m = map[k]
             \/ m = Unassigned
             \/ m \notin {Null, Unassigned} /\ (graph => IsLocal(m))
<1> DEFINE presets == [i \in {k \in DOMAIN keys : Names(routing.preset, keys[k])} |-> routing.preset[keys[i]]]
           active == ActiveModels(routing, graph)
           n == Len(ProviderOrder)
           every == [i \in DOMAIN active \cup {n + j : j \in DOMAIN presets} |->
                       IF i <= n THEN active[i] ELSE presets[i - n]]
           m == Resolved(routing, map, keys, graph)
           good(x) == x = Unassigned \/ (x \notin {Null, Unassigned} /\ (graph => IsLocal(x)))
<1>1. CASE \E i \in DOMAIN keys : Names(map, keys[i])
  <2>1. m = map[keys[FirstNamed(map, keys)]]
    BY <1>1 DEF Resolved
  <2>2. DOMAIN keys \in SUBSET Nat
    OBVIOUS
  <2>3. Names(map, keys[FirstNamed(map, keys)])
    BY <1>1, <2>2, FirstChosen
  <2>4. keys[FirstNamed(map, keys)] \in DOMAIN map
    BY <2>3 DEF Names
  <2>5. QED
    BY <2>1, <2>3, <2>4
<1>2. CASE ~\E i \in DOMAIN keys : Names(map, keys[i])
  <2>1. DOMAIN presets \subseteq Nat \ {0} /\ \A i \in DOMAIN presets : presets[i] \notin {Null, Unassigned}
    BY DEF Names
  <2>2. /\ ProviderOrder \in Seq(Range(ProviderOrder)) /\ n \in Nat
        /\ DOMAIN ProviderOrder = 1 .. n
        /\ \A i \in DOMAIN ProviderOrder : ProviderOrder[i] \in Range(ProviderOrder)
    BY PlanAssumption DEF Range
  <2>3. DOMAIN active \subseteq 1 .. n /\ \A i \in DOMAIN active : active[i] \notin {Null, Unassigned}
    <3>1. /\ DOMAIN active \subseteq DOMAIN ProviderOrder
          /\ \A i \in DOMAIN active : active[i] = routing.active[ProviderOrder[i]] /\ active[i] # Unassigned
      BY DEF ActiveModels
    <3>2. \A i \in DOMAIN active : active[i] \in DOMAIN Routes \cup {Unassigned}
      BY <2>2, <3>1 DEF RoutingOK
    <3>3. QED
      BY <2>2, <3>1, <3>2, PlanAssumption
  <2> HIDE DEF presets, active, n
  <2>4. DOMAIN every \subseteq Nat /\ \A i \in DOMAIN every : every[i] \notin {Null, Unassigned}
    <3>1. \A i \in DOMAIN every : \/ i \in DOMAIN active /\ i \in 1 .. n
                                  \/ \E j \in DOMAIN presets : i = n + j
      BY <2>3
    <3>2. ASSUME NEW i \in DOMAIN active, i \in 1 .. n PROVE i \in Nat /\ every[i] \notin {Null, Unassigned}
      BY <3>2, <2>2, <2>3
    <3>3. ASSUME NEW j \in DOMAIN presets PROVE n + j \in Nat /\ every[n + j] \notin {Null, Unassigned}
      <4>1. j \in Nat /\ j > 0 /\ n \in Nat
        BY <2>1, <2>2
      <4>2. ~(n + j <= n) /\ n + j - n = j /\ n + j \in Nat
        BY <4>1
      <4>3. every[n + j] = presets[j]
        <5> DEFINE D == DOMAIN active \cup {n + k : k \in DOMAIN presets}
        <5>1. n + j \in D
          OBVIOUS
        <5>2. \A x \in D : ~(x <= n) => every[x] = presets[x - n]
          OBVIOUS
        <5> HIDE DEF D, every
        <5>3. PICK x \in D : x = n + j
          BY <5>1
        <5>4. ~(x <= n) /\ x - n = j
          BY <5>3, <4>1
        <5>5. every[x] = presets[j]
          BY <5>2, <5>4
        <5>6. QED
          BY <5>3, <5>5
      <4>4. QED
        BY <4>2, <4>3, <2>1
    <3>4. QED
      BY <3>1, <3>2, <3>3
  <2> HIDE DEF every
  <2>5. ASSUME NEW cand, DOMAIN cand \subseteq Nat, NEW last,
               \A i \in DOMAIN cand : cand[i] \notin {Null, Unassigned}
        PROVE  good(Best(routing, cand, graph, last))
    <3>1. CASE Best(routing, cand, graph, last) = Unassigned
      BY <3>1
    <3>2. CASE \E i \in DOMAIN cand : /\ Best(routing, cand, graph, last) = cand[i]
                                      /\ Suits(routing, cand[i], graph, last)
      BY <2>5, <3>2 DEF Suits
    <3>3. QED
      BY <2>5, <3>1, <3>2, BestSuits
  <2>6. \/ m = Best(routing, presets, graph, FALSE) \/ m = Best(routing, active, graph, FALSE)
        \/ m = Best(routing, every, graph, TRUE) \/ m = Unassigned
    BY <1>2 DEF Resolved, presets, active, every, n
  <2>7. DOMAIN active \subseteq Nat /\ DOMAIN presets \subseteq Nat
    BY <2>1, <2>2, <2>3
  <2>8. good(Best(routing, presets, graph, FALSE))
    BY <2>1, <2>5, <2>7
  <2>9. good(Best(routing, active, graph, FALSE))
    BY <2>3, <2>5, <2>7
  <2>10. good(Best(routing, every, graph, TRUE))
    BY <2>4, <2>5
  <2>11. good(m)
    <3> HIDE DEF m, good
    <3>1. QED
      BY <2>6, <2>8, <2>9, <2>10 DEF good
  <2>12. QED
    BY <2>11
<1>3. QED
  BY <1>1, <1>2
-----------------------------------------------------------------------------
\* An agent whose model the map names is given that model.
LEMMA AgentsAreAsked ==
  ASSUME NEW s, NEW map
  PROVE  /\ AgentsAsAsked(PanelAgents(s, map), map)
         /\ DOMAIN PanelAgents(s, map) \ {"meta"} = Roster(map)
<1> DEFINE model(r) == IF Names(map, r) THEN map[r]
                       ELSE IF r \in Roster(map) THEN Resolved(s, map, <<r>>, FALSE)
                       ELSE Unassigned
           meta == IF Names(map, "meta_reviewer") THEN map["meta_reviewer"]
                   ELSE Resolved(s, map, <<"meta", "meta_reviewer">>, FALSE)
           instead(m) == IF m = Unassigned THEN model("technical") ELSE m
           agents == PanelAgents(s, map)
<1>1. agents = [a \in Roster(map) \cup {"meta"} |-> instead(IF a = "meta" THEN meta ELSE model(a))]
  BY DEF PanelAgents
<1>2. \A k : Names(map, k) => map[k] # Unassigned
  BY DEF Names
<1>3. ASSUME ~Names(map, "meta_reviewer"), Names(map, "meta")
      PROVE  meta = map["meta"]
  <2> DEFINE keys == <<"meta", "meta_reviewer">>
  <2>1. DOMAIN keys \in SUBSET Nat /\ 1 \in DOMAIN keys /\ 0 \notin DOMAIN keys /\ keys[1] = "meta"
    OBVIOUS
  <2>2. meta = Resolved(s, map, keys, FALSE)
    BY <1>3
  <2> HIDE DEF keys, meta
  <2>3. Resolved(s, map, keys, FALSE) = map[keys[1]]
    BY <2>1, <1>3, FirstDecides
  <2>4. QED
    BY <2>1, <2>2, <2>3
<1> HIDE DEF meta, model
<1>4. ASSUME NEW r \in DOMAIN agents, Wish(map, r) # Unassigned PROVE agents[r] = Wish(map, r)
  <2>1. r \in Roster(map) \cup {"meta"}
    BY <1>1
  <2>2. CASE r = "meta"
    <3>1. CASE Names(map, "meta_reviewer")
      <4>1. Wish(map, r) = map["meta_reviewer"] /\ meta = map["meta_reviewer"]
        BY <2>2, <3>1 DEF Wish, meta
      <4>2. QED
        BY <1>1, <1>2, <2>1, <2>2, <3>1, <4>1
    <3>2. CASE ~Names(map, "meta_reviewer")
      <4>1. Names(map, "meta") /\ Wish(map, r) = map["meta"]
        BY <1>4, <2>2, <3>2 DEF Wish
      <4>2. QED
        BY <1>1, <1>2, <1>3, <2>1, <2>2, <3>2, <4>1
    <3>3. QED
      BY <3>1, <3>2
  <2>3. CASE r # "meta"
    <3>1. Names(map, r) /\ Wish(map, r) = map[r]
      BY <1>4, <2>3 DEF Wish
    <3>2. model(r) = map[r]
      BY <3>1 DEF model
    <3>3. QED
      BY <1>1, <1>2, <2>1, <2>3, <3>1, <3>2
  <2>4. QED
    BY <2>2, <2>3
<1>5. DOMAIN agents \ {"meta"} = Roster(map)
  BY <1>1, PlanAssumption DEF Roster
<1> HIDE DEF agents
<1>6. QED
  BY <1>4, <1>5 DEF AgentsAsAsked, agents

\* The graph's models: one asked for, or one in the house.
LEMMA StepModel ==
  ASSUME RoutingOK, NEW map, NEW step \in Steps
  PROVE  LET m == GraphModels(routing, map)[step]
         IN  /\ \/ \E k \in DOMAIN map : Names(map, k) /\ m = map[k]
                \/ m = Unassigned
                \/ m \notin {Null, Unassigned} /\ IsLocal(m)
             /\ Names(map, step) => m = map[step]
<1> DEFINE keys == <<step, "ontology", "graph">>
           m == GraphModels(routing, map)[step]
<1>1. m = Resolved(routing, map, keys, TRUE)
  BY DEF GraphModels
<1>2. /\ DOMAIN keys \in SUBSET (Nat \ {0}) /\ DOMAIN keys \in SUBSET Nat
      /\ 1 \in DOMAIN keys /\ 0 \notin DOMAIN keys /\ keys[1] = step
  OBVIOUS
<1> HIDE DEF keys, m
<1>3. \/ \E k \in DOMAIN map : Names(map, k) /\ m = map[k]
      \/ m = Unassigned
      \/ m \notin {Null, Unassigned} /\ (TRUE => IsLocal(m))
  <2>1. TRUE \in BOOLEAN
    OBVIOUS
  <2>2. QED
    BY <1>1, <1>2, <2>1, ResolvedIs
<1>4. Names(map, step) => m = map[step]
  BY <1>1, <1>2, FirstDecides
<1>5. QED
  BY <1>3, <1>4 DEF m

\* Resolving them again changes nothing once every step has a model.
LEMMA ResolvedAgain ==
  ASSUME RoutingOK, NEW map, map = [k \in DOMAIN map |-> map[k]], \A step \in Steps : Names(map, step)
  PROVE  WithGraphModels(map, GraphModels(routing, map)) = map
<1>1. DOMAIN GraphModels(routing, map) = Steps
  BY DEF GraphModels
<1>2. \A step \in Steps : GraphModels(routing, map)[step] = map[step]
  BY StepModel
<1>3. Steps \subseteq DOMAIN map
  BY DEF Names
<1>4. WithGraphModels(map, GraphModels(routing, map)) =
        [k \in DOMAIN map |-> IF k \in Steps THEN map[k] ELSE map[k]]
  BY <1>1, <1>2, <1>3 DEF WithGraphModels
<1>5. QED
  BY <1>4

-----------------------------------------------------------------------------
Held == PlanInv' /\ PlanIsHonoured

LEMMA ChangeHolds == ASSUME PlanInv, ChangeSettings PROVE Held
<1>1. RoutingOK'
  <2>1. CASE \E p \in Range(ProviderOrder) :
               routing' = [routing EXCEPT !.on = IF p \in @ THEN @ \ {p} ELSE @ \cup {p}]
    BY <2>1 DEF PlanInv, RoutingOK
  <2>2. CASE \E p \in Range(ProviderOrder) : \E m \in {m \in DOMAIN Routes : Routes[m] = p} \cup {Unassigned} :
               routing' = [routing EXCEPT !.active[p] = m]
    BY <2>2 DEF PlanInv, RoutingOK
  <2>3. CASE \/ \E preset \in Presets : routing' = [routing EXCEPT !.preset = preset]
             \/ routing' = [routing EXCEPT !.connected = ~@]
    BY <2>3 DEF PlanInv, RoutingOK
  <2>4. QED
    BY <2>1, <2>2, <2>3 DEF ChangeSettings
<1>2. UNCHANGED <<plan, asked, loose>>
  BY DEF ChangeSettings
<1>3. QED
  BY <1>1, <1>2 DEF PlanInv, PlanOK, AgentsAsAsked, NoPlan, PlanIsHonoured, Held

LEMMA UploadHolds ==
  ASSUME PlanInv, NEW map, NEW graphOnly \in BOOLEAN, NEW skipGraph \in BOOLEAN,
         Upload(map, graphOnly, skipGraph)
  PROVE  Held
<1> DEFINE agents == PanelAgents(routing, map)
           graph == IF skipGraph THEN [k \in {} |-> Null] ELSE GraphModels(routing, map)
           whole == WithGraphModels(map, graph)
<1>1. /\ ReadyAll(routing, graph) /\ plan = NoPlan /\ asked' = map
      /\ plan' = [status |-> "running", agents |-> agents, map |-> whole,
                  panel |-> IF graphOnly THEN NoPanel ELSE Roster(map),
                  graphOnly |-> graphOnly, skip |-> skipGraph,
                  graph |-> FALSE, review |-> FALSE]
      /\ UNCHANGED <<routing, loose>>
  BY DEF Upload
<1>2. RoutingOK /\ RoutingOK'
  BY <1>1 DEF PlanInv, RoutingOK
<1>3. AgentsAsAsked(agents, map) /\ DOMAIN agents \ {"meta"} = Roster(map)
  BY AgentsAreAsked
<1>4. whole = [k \in DOMAIN map \cup DOMAIN graph |-> IF k \in DOMAIN graph THEN graph[k] ELSE map[k]]
  BY DEF WithGraphModels
<1>5. DOMAIN graph = IF skipGraph THEN {} ELSE Steps
  BY DEF GraphModels
<1>6. ASSUME NEW step \in Steps, ~skipGraph
      PROVE  /\ Names(whole, step)
             /\ IsLocal(whole[step]) \/ \E k \in DOMAIN map : map[k] = whole[step]
  <2>1. step \in DOMAIN graph /\ whole[step] = graph[step] /\ step \in DOMAIN whole
    BY <1>4, <1>5, <1>6
  <2>2. graph[step] # Unassigned
    BY <1>1, <2>1 DEF ReadyAll, Ready
  <2>3. graph[step] = GraphModels(routing, map)[step]
    BY <1>6
  <2> HIDE DEF graph, whole
  <2>4. \/ \E k \in DOMAIN map : Names(map, k) /\ graph[step] = map[k]
        \/ graph[step] = Unassigned
        \/ graph[step] \notin {Null, Unassigned} /\ IsLocal(graph[step])
    BY <1>2, <2>3, StepModel
  <2>5. QED
    BY <2>1, <2>2, <2>4 DEF Names
<1>7. ASSUME NEW step \in Steps, skipGraph, Names(whole, step)
      PROVE  \E k \in DOMAIN map : map[k] = whole[step]
  BY <1>4, <1>5, <1>7 DEF Names
<1>8. whole = [k \in DOMAIN whole |-> whole[k]]
  BY <1>4
<1> HIDE DEF agents, whole, graph
<1>9. /\ plan'.status = "running" /\ plan'.agents = agents /\ plan'.map = whole /\ plan'.skip = skipGraph
      /\ plan'.panel = IF graphOnly THEN NoPanel ELSE Roster(map)
      /\ plan' = [f \in PlanFields |-> plan'[f]]
  BY <1>1 DEF PlanFields
<1>10. PlanOK'
  <2>1. ~plan'.skip => \A step \in Steps : Names(plan'.map, step)
    BY <1>6, <1>9
  <2>2. plan'.map = [k \in DOMAIN plan'.map |-> plan'.map[k]]
    BY <1>8, <1>9
  <2>3. AgentsAsAsked(plan'.agents, asked')
    BY <1>1, <1>3, <1>9
  <2>4. plan'.panel = NoPanel \/ plan'.panel = DOMAIN plan'.agents \ {"meta"}
    BY <1>3, <1>9
  <2>5. QED
    BY <1>9, <2>1, <2>2, <2>3, <2>4 DEF PlanOK
<1>11. \A step \in Steps : Names(plan'.map, step) =>
         IsLocal(plan'.map[step]) \/ \E k \in DOMAIN asked' : asked'[k] = plan'.map[step]
  BY <1>1, <1>6, <1>7, <1>9
<1>12. PlanIsHonoured
  BY <1>1, <1>10, <1>11 DEF PlanIsHonoured, PlanOK, AgentsAsAsked
<1>13. QED
  BY <1>2, <1>10, <1>12 DEF Held, PlanInv

\* The steps of a plan that leave its map, its agents and its panel alone.
LEMMA SamePlan ==
  ASSUME PlanInv, plan # NoPlan, UNCHANGED <<routing, asked, loose>>,
         plan'.status # "none", plan' = [f \in PlanFields |-> plan'[f]],
         \A f \in {"agents", "map", "panel", "skip"} : plan'[f] = plan[f]
  PROVE  Held
<1>1. PlanOK /\ RoutingOK'
  BY DEF PlanInv, RoutingOK
<1>2. plan'.agents = plan.agents /\ plan'.map = plan.map /\ plan'.panel = plan.panel /\ plan'.skip = plan.skip
  OBVIOUS
<1>3. PlanOK'
  BY <1>1, <1>2 DEF PlanOK, AgentsAsAsked
<1>4. QED
  BY <1>1, <1>2, <1>3 DEF Held, PlanInv, PlanIsHonoured, PlanOK, AgentsAsAsked

LEMMA RunGraphHolds == ASSUME PlanInv, RunGraph PROVE Held
<1>1. PlanOK /\ RoutingOK /\ ~plan.skip /\ plan # NoPlan
  BY DEF RunGraph, PlanInv, NoPlan
<1>2. WithGraphModels(plan.map, GraphModels(routing, plan.map)) = plan.map
  BY <1>1, ResolvedAgain DEF PlanOK
<1>3. /\ plan' = [plan EXCEPT
             !.map = WithGraphModels(@, GraphModels(routing, @)), !.graph = TRUE,
             !.status = IF plan.graphOnly THEN "completed" ELSE "reviewing"]
      /\ UNCHANGED <<routing, asked, loose>>
  BY DEF RunGraph
<1>4. plan = [f \in PlanFields |-> plan[f]]
  BY <1>1 DEF PlanOK
<1>5. /\ plan' = [f \in PlanFields |-> plan'[f]] /\ plan'.status \in {"completed", "reviewing"}
      /\ plan'.map = WithGraphModels(plan.map, GraphModels(routing, plan.map))
      /\ \A f \in {"agents", "panel", "skip"} : plan'[f] = plan[f]
  BY <1>3, <1>4 DEF PlanFields
<1>6. plan'.map = plan.map /\ plan'.status # "none"
  BY <1>2, <1>5
<1>7. \A f \in {"agents", "map", "panel", "skip"} : plan'[f] = plan[f]
  BY <1>5, <1>6
<1>8. QED
  BY <1>1, <1>3, <1>5, <1>6, <1>7, SamePlan

LEMMA QuietPlan ==
  ASSUME PlanInv, SkipGraph \/ FailGraph \/ Retry \/ \E status \in {"completed", "failed"} : EndReview(status)
  PROVE  Held
<1>1. plan # NoPlan /\ UNCHANGED <<routing, asked, loose>>
  <2>1. plan.status \in {"running", "failed", "reviewing"}
    BY DEF SkipGraph, FailGraph, Retry, EndReview
  <2>2. UNCHANGED <<routing, asked, loose>>
    BY DEF SkipGraph, FailGraph, Retry, EndReview
  <2>3. QED
    BY <2>1, <2>2 DEF NoPlan
<1>2. plan = [f \in PlanFields |-> plan[f]]
  BY <1>1 DEF PlanInv, PlanOK
<1>3. /\ plan' = [f \in PlanFields |-> plan'[f]]
      /\ plan'.status \in {"reviewing", "completed", "failed", "running"}
      /\ \A f \in {"agents", "map", "panel", "skip"} : plan'[f] = plan[f]
  BY <1>2 DEF SkipGraph, FailGraph, Retry, EndReview, PlanFields
<1>4. QED
  BY <1>1, <1>3, SamePlan

LEMMA LaunchHolds ==
  ASSUME PlanInv, NEW map, NEW other, NEW live \in BOOLEAN, LaunchPanel(map, other, live)
  PROVE  Held
<1> DEFINE rebuilt == DOMAIN map # {} \/ other # "nothing"
           agents == IF rebuilt THEN PanelAgents(routing, map) ELSE plan.agents
           panel == IF plan.panel = NoPanel \/ DOMAIN map # {} \/ other = "venue"
                    THEN DOMAIN agents \ {"meta"} ELSE plan.panel
           ready == ReadyAll(routing, agents)
<1>1. PlanOK /\ RoutingOK /\ RoutingOK' /\ plan # NoPlan /\ plan.status \in {"completed", "failed"}
  BY DEF LaunchPanel, PlanInv, RoutingOK, NoPlan
<1>2. /\ plan' = IF ready
                 THEN [plan EXCEPT !.agents = agents, !.panel = panel,
                         !.review = TRUE, !.status = IF live THEN "running" ELSE @]
                 ELSE [plan EXCEPT !.agents = agents]
      /\ asked' = IF rebuilt THEN map ELSE asked
      /\ loose' = IF ready /\ (DOMAIN map # {} \/ other = "venue") THEN FALSE
                  ELSE loose \/ rebuilt
  BY DEF LaunchPanel
<1>3. AgentsAsAsked(agents, asked')
  BY <1>1, <1>2, AgentsAreAsked DEF PlanOK
<1>4. ~rebuilt => agents = plan.agents
  OBVIOUS
<1>5. panel = NoPanel \/ panel = DOMAIN agents \ {"meta"} \/ (panel = plan.panel /\ plan.panel # NoPanel /\ DOMAIN map = {} /\ other # "venue")
  OBVIOUS
<1>6. plan = [f \in PlanFields |-> plan[f]]
  BY <1>1 DEF PlanOK
<1> HIDE DEF agents, panel, ready
<1>7. /\ plan' = [f \in PlanFields |-> plan'[f]]
      /\ plan'.status \in {"running", plan.status} /\ plan'.agents = agents
      /\ plan'.panel = IF ready THEN panel ELSE plan.panel
      /\ plan'.map = plan.map /\ plan'.skip = plan.skip
  <2>1. CASE ready
    BY <1>2, <1>6, <2>1 DEF PlanFields
  <2>2. CASE ~ready
    BY <1>2, <1>6, <2>2 DEF PlanFields
  <2>3. QED
    BY <2>1, <2>2
<1>8. plan'.status # "none"
  BY <1>1, <1>7
<1>9. plan.panel = NoPanel \/ loose \/ plan.panel = DOMAIN plan.agents \ {"meta"}
  BY <1>1 DEF PlanOK
<1>10. plan'.panel = NoPanel \/ loose' \/ plan'.panel = DOMAIN plan'.agents \ {"meta"}
  <2>1. CASE ready
    BY <1>2, <1>4, <1>5, <1>7, <1>9, <2>1
  <2>2. CASE ~ready
    BY <1>2, <1>4, <1>7, <1>9, <2>2
  <2>3. QED
    BY <2>1, <2>2
<1>11. PlanOK'
  BY <1>1, <1>3, <1>7, <1>8, <1>10 DEF PlanOK
<1>12. PlanIsHonoured
  BY <1>1, <1>3, <1>7, <1>10 DEF PlanIsHonoured, AgentsAsAsked
<1>13. QED
  BY <1>1, <1>11, <1>12 DEF Held, PlanInv

LEMMA PlanStep == ASSUME PlanInv, [PlanNext]_planVars PROVE Held
<1>1. CASE ChangeSettings
  BY <1>1, ChangeHolds
<1>2. CASE \E map \in Maps, graphOnly, skipGraph \in BOOLEAN : Upload(map, graphOnly, skipGraph)
  BY <1>2, UploadHolds
<1>3. CASE \E map \in Maps, other \in {"nothing", "instructions", "venue"}, live \in BOOLEAN :
             LaunchPanel(map, other, live)
  BY <1>3, LaunchHolds
<1>4. CASE RunGraph
  BY <1>4, RunGraphHolds
<1>5. CASE SkipGraph \/ FailGraph \/ Retry \/ \E status \in {"completed", "failed"} : EndReview(status)
  BY <1>5, QuietPlan
<1>6. CASE UNCHANGED planVars
  <2>1. PlanInv'
    BY <1>6 DEF planVars, PlanInv, RoutingOK, PlanOK, AgentsAsAsked
  <2>2. PlanIsHonoured
    BY <1>6 DEF planVars, PlanInv, PlanOK, AgentsAsAsked, NoPlan, PlanIsHonoured
  <2>3. QED
    BY <2>1, <2>2 DEF Held
<1>7. QED
  BY <1>1, <1>2, <1>3, <1>4, <1>5, <1>6 DEF PlanNext

LEMMA PlanStarts == PlanInit => PlanInv
<1> SUFFICES ASSUME PlanInit PROVE PlanInv
  OBVIOUS
<1>1. PICK preset \in Presets, connected \in BOOLEAN, active \in Assignments :
        routing = [on |-> Range(ProviderOrder), active |-> active,
                   preset |-> preset, connected |-> connected]
  BY DEF PlanInit
<1>2. active \in [Range(ProviderOrder) -> DOMAIN Routes \cup {Unassigned}]
  BY DEF Assignments
<1>3. RoutingOK
  BY <1>1, <1>2 DEF RoutingOK
<1>4. QED
  BY <1>3 DEF PlanInit, PlanInv

\* Agents and graph steps keep the models they were asked to have, and no step leaves
\* the house unasked, whatever the settings become while a session runs, is retried
\* or launched again.
THEOREM PlansAreHonoured == PlanSpec => PlanHonoured
<1>1. PlanInv /\ [PlanNext]_planVars => PlanInv' /\ PlanIsHonoured
  BY PlanStep DEF Held
<1>2. QED
  BY <1>1, PlanStarts, PTL DEF PlanSpec, PlanHonoured
-----------------------------------------------------------------------------
(***************************************************************************)
(* Whoever writes to a review, the session holds one document, and what is *)
(* saved is lost only to a writer that may take it: for any tabs, ratings, *)
(* patches and numbers of edits, runs and questions.                       *)
(*                                                                         *)
(* A review of its own is canonical after one pass, whatever filled what   *)
(* in, and one nested in a draft or an answer is so but for a recommended  *)
(* action that the wrapper held back; hence what is stored is sanitised,   *)
(* and every packet of it shows it.  A session that a run has read is      *)
(* still the one that is stored when the run writes it back.               *)
(***************************************************************************)
Values == Scores \cup {Empty}
Canonical(r) == IsReview(r) /\ Sanitized(r) = r

\* Canonical, but that a review which was nested may lack the recommended action.
KeptAs(nested, r) ==
  /\ IsReview(r)
  /\ \A k \in Keys : \/ Sanitized(r)[k] = r[k]
                     \/ nested /\ k = "recommended_action" /\ r[k] = Empty
-----------------------------------------------------------------------------
(* The review as a document. *)

LEMMA KeysAreDistinct ==
  /\ Ratings \subseteq Keys /\ "comments" \in Keys /\ "final_review" \in Keys
  /\ "comments" \notin Ratings /\ "final_review" \notin Ratings
  /\ "overall_merit" \in Ratings /\ "final_recommendation" \in Ratings
  /\ "recommended_action" \in Ratings /\ "technical_soundness" \in Ratings
  /\ "soundness" \in Ratings
BY DEF Ratings, Keys

LEMMA FirstOfValues ==
  ASSUME NEW a \in Values, NEW b \in Values, NEW c \in Values
  PROVE  /\ First(a, b, c) \in Values
         /\ First(a, b, c) = Empty <=> a = Empty /\ b = Empty /\ c = Empty
BY DEF First, Values, Empty

\* One pass over a payload whose review is s.
LEMMA NormalizedKeys ==
  ASSUME NEW p, NEW s, NEW outer, outer = p["final_recommendation"],
         s = (IF p["final_review"] = NoReview THEN p ELSE p["final_review"])
  PROVE  LET n == Normalized(p)
         IN  /\ n = [k \in Keys |-> n[k]]
             /\ n["overall_merit"] =
                  First(s["overall_merit"], s["final_recommendation"], outer)
             /\ n["final_recommendation"] =
                  First(s["final_recommendation"], outer, s["overall_merit"])
             /\ n["recommended_action"] =
                  First(s["recommended_action"], s["overall_merit"], outer)
             /\ n["technical_soundness"] =
                  First(s["technical_soundness"], s["soundness"], Empty)
             /\ n["soundness"] = s["soundness"]
             /\ n["comments"] = s["comments"]
             /\ n["final_review"] = NoReview
<1> HIDE DEF NoReview
<1> QED
  BY DEF Normalized, Keys, Ratings

LEMMA SanitizedKeys ==
  ASSUME NEW p
  PROVE  LET n == Normalized(p)
             q == Sanitized(p)
         IN  /\ q = [k \in Keys |-> q[k]]
             /\ q["overall_merit"] =
                  First(n["overall_merit"], n["final_recommendation"], Empty)
             /\ q["final_recommendation"] =
                  First(n["final_recommendation"], n["overall_merit"], Empty)
             /\ \A k \in Keys \ {"overall_merit", "final_recommendation"} : q[k] = n[k]
<1> DEFINE n == Normalized(p)
<1>1. n = [k \in Keys |-> n[k]]
  BY NormalizedKeys
<1>2. "overall_merit" \in Keys /\ "final_recommendation" \in Keys
  BY DEF Keys, Ratings
<1>3. Sanitized(p) =
        [n EXCEPT !["overall_merit"] = First(@, n["final_recommendation"], Empty),
                  !["final_recommendation"] = First(@, n["overall_merit"], Empty)]
  BY DEF Sanitized
<1> HIDE DEF n
<1> QED
  BY <1>1, <1>2, <1>3 DEF n

\* Whatever is wrapped, one pass makes a review of the venue's scale.
LEMMA SanitizedIsReview ==
  ASSUME NEW p, IsPayload(p) PROVE IsReview(Sanitized(p))
<1> DEFINE s == IF p["final_review"] = NoReview THEN p ELSE p["final_review"]
           n == Normalized(p)
           q == Sanitized(p)
<1>1. /\ \A k \in Ratings : s[k] \in Values
      /\ s["comments"] \subseteq Edits
      /\ p["final_recommendation"] \in Values
  BY KeysAreDistinct DEF IsPayload, IsReview, IsForm, Wraps, Values
<1>2. Empty \in Values
  BY DEF Values
<1> HIDE DEF s, n, q
<1>3. \A k \in Ratings : n[k] \in Values
  <2>1. /\ n["overall_merit"] \in Values /\ n["final_recommendation"] \in Values
        /\ n["recommended_action"] \in Values /\ n["technical_soundness"] \in Values
        /\ n["soundness"] \in Values
    BY <1>1, <1>2, NormalizedKeys, FirstOfValues, KeysAreDistinct DEF n, s
  <2> QED
    BY <2>1 DEF Ratings
<1>4. n["comments"] = s["comments"] /\ n["final_review"] = NoReview
  BY NormalizedKeys DEF n, s
<1>5. q = [k \in Keys |-> q[k]]
  BY SanitizedKeys DEF q
<1>6. \A k \in Ratings : q[k] \in Values
  <2>1. \A k \in Keys \ {"overall_merit", "final_recommendation"} : q[k] = n[k]
    BY SanitizedKeys DEF q, n
  <2>2. q["overall_merit"] \in Values /\ q["final_recommendation"] \in Values
    BY <1>2, <1>3, SanitizedKeys, FirstOfValues, KeysAreDistinct DEF q, n
  <2> QED
    BY <1>3, <2>1, <2>2, KeysAreDistinct
<1>7. q["comments"] = n["comments"] /\ q["final_review"] = n["final_review"]
  BY SanitizedKeys DEF q, n, Keys
<1>8. IsReview(q)
  BY <1>1, <1>4, <1>5, <1>6, <1>7 DEF IsReview, IsForm, Wraps, Values
<1> QED
  BY <1>8 DEF q

\* The values of the filled review, of one that wraps nothing.
LEMMA FilledIn ==
  ASSUME NEW r, IsReview(r)
  PROVE  LET q == Sanitized(r)
         IN  /\ q["overall_merit"] =
                  First(r["overall_merit"], r["final_recommendation"], Empty)
             /\ q["final_recommendation"] =
                  First(r["final_recommendation"], r["overall_merit"], Empty)
             /\ q["recommended_action"] =
                  First(r["recommended_action"], r["overall_merit"], r["final_recommendation"])
             /\ q["technical_soundness"] =
                  First(r["technical_soundness"], r["soundness"], Empty)
             /\ q["soundness"] = r["soundness"]
             /\ q["comments"] = r["comments"]
             /\ q["final_review"] = NoReview
<1> DEFINE n == Normalized(r)
           q == Sanitized(r)
           merit == r["overall_merit"]
           rec == r["final_recommendation"]
<1>1. r["final_review"] = NoReview /\ merit \in Values /\ rec \in Values
  BY KeysAreDistinct DEF IsReview, IsForm, Wraps, Values
<1>2. /\ n["overall_merit"] = First(merit, rec, rec)
      /\ n["final_recommendation"] = First(rec, rec, merit)
      /\ n["recommended_action"] = First(r["recommended_action"], merit, rec)
      /\ n["technical_soundness"] = First(r["technical_soundness"], r["soundness"], Empty)
      /\ n["soundness"] = r["soundness"] /\ n["comments"] = r["comments"]
      /\ n["final_review"] = NoReview
  BY <1>1, NormalizedKeys
<1>3. /\ q["overall_merit"] = First(n["overall_merit"], n["final_recommendation"], Empty)
      /\ q["final_recommendation"] = First(n["final_recommendation"], n["overall_merit"], Empty)
  BY SanitizedKeys
<1>4. /\ q["recommended_action"] = n["recommended_action"]
      /\ q["technical_soundness"] = n["technical_soundness"]
      /\ q["soundness"] = n["soundness"] /\ q["comments"] = n["comments"]
      /\ q["final_review"] = n["final_review"]
  BY SanitizedKeys, KeysAreDistinct
<1> HIDE DEF n, q, merit, rec, NoReview
<1>5. /\ q["overall_merit"] = First(merit, rec, Empty)
      /\ q["final_recommendation"] = First(rec, merit, Empty)
  BY <1>1, <1>2, <1>3 DEF First, Values, Empty
<1> QED
  BY <1>2, <1>4, <1>5 DEF q, merit, rec

LEMMA SanitizingTwice ==
  ASSUME NEW r, IsReview(r)
  PROVE  Canonical(Sanitized(r))
<1> DEFINE q == Sanitized(r)
           t == Sanitized(q)
<1>1. IsReview(q)
  BY SanitizedIsReview DEF IsReview, IsPayload
<1>2. \A k \in Ratings : r[k] \in Values
  BY DEF IsReview, IsForm, Wraps, Values
<1>3. t["overall_merit"] = q["overall_merit"]
  BY <1>1, <1>2, FilledIn, KeysAreDistinct DEF First, Values, Empty
<1>4. t["final_recommendation"] = q["final_recommendation"]
  BY <1>1, <1>2, FilledIn, KeysAreDistinct DEF First, Values, Empty
<1>5. t["recommended_action"] = q["recommended_action"]
  BY <1>1, <1>2, FilledIn, KeysAreDistinct DEF First, Values, Empty
<1>6. t["technical_soundness"] = q["technical_soundness"]
  BY <1>1, <1>2, FilledIn, KeysAreDistinct DEF First, Values, Empty
<1>7. /\ t["soundness"] = q["soundness"] /\ t["comments"] = q["comments"]
      /\ t["final_review"] = q["final_review"]
  BY <1>1, FilledIn
<1>8. t = [k \in Keys |-> t[k]] /\ q = [k \in Keys |-> q[k]]
  BY SanitizedKeys
<1> HIDE DEF q, t
<1>9. \A k \in Keys : t[k] = q[k]
  BY <1>3, <1>4, <1>5, <1>6, <1>7 DEF Keys, Ratings
<1>10. t = q
  BY <1>8, <1>9
<1> QED
  BY <1>1, <1>10 DEF Canonical, t, q

\* A review that the wrapper held back is canonical but for the recommended action.
LEMMA SanitizedIsKept ==
  ASSUME NEW p, IsPayload(p)
  PROVE  KeptAs(Wraps(p), Sanitized(p)) /\ (~Wraps(p) => Canonical(Sanitized(p)))
<1> DEFINE n == Normalized(p)
           q == Sanitized(p)
           t == Sanitized(q)
<1>1. IsReview(q) /\ \A k \in Ratings : q[k] \in Values
  BY SanitizedIsReview DEF IsReview, IsForm, Values
<1>2. CASE ~Wraps(p)
  <2>1. Canonical(q)
    BY <1>2, SanitizingTwice DEF IsPayload, IsReview
  <2> HIDE DEF q
  <2>2. KeptAs(Wraps(p), q)
    BY <2>1 DEF Canonical, KeptAs
  <2> QED
    BY <2>1, <2>2 DEF q
<1>3. CASE Wraps(p)
  <2> DEFINE s == p["final_review"]
  <2>1. /\ n["overall_merit"] \in Values /\ n["final_recommendation"] \in Values
        /\ n["technical_soundness"] = First(s["technical_soundness"], s["soundness"], Empty)
        /\ n["soundness"] = s["soundness"]
        /\ s["technical_soundness"] \in Values /\ s["soundness"] \in Values
    <3>1. /\ \A k \in Ratings : s[k] \in Values
          /\ p["final_recommendation"] \in Values
      BY <1>3, KeysAreDistinct DEF IsPayload, IsReview, IsForm, Values
    <3>2. s = (IF p["final_review"] = NoReview THEN p ELSE p["final_review"])
      BY <1>3 DEF Wraps
    <3> HIDE DEF s, n
    <3>3. /\ n["overall_merit"] =
               First(s["overall_merit"], s["final_recommendation"], p["final_recommendation"])
          /\ n["final_recommendation"] =
               First(s["final_recommendation"], p["final_recommendation"], s["overall_merit"])
          /\ n["technical_soundness"] = First(s["technical_soundness"], s["soundness"], Empty)
          /\ n["soundness"] = s["soundness"]
      BY <3>2, NormalizedKeys DEF n
    <3> QED
      BY <3>1, <3>3, FirstOfValues, KeysAreDistinct
  <2> HIDE DEF s, n
  <2>2. /\ q["overall_merit"] = First(n["overall_merit"], n["final_recommendation"], Empty)
        /\ q["final_recommendation"] = First(n["final_recommendation"], n["overall_merit"], Empty)
        /\ q["technical_soundness"] = n["technical_soundness"]
        /\ q["soundness"] = n["soundness"]
    BY SanitizedKeys, KeysAreDistinct DEF n
  <2>3. /\ t["overall_merit"] = First(q["overall_merit"], q["final_recommendation"], Empty)
        /\ t["final_recommendation"] = First(q["final_recommendation"], q["overall_merit"], Empty)
        /\ t["recommended_action"] = First(q["recommended_action"], q["overall_merit"],
                                           q["final_recommendation"])
        /\ t["technical_soundness"] = First(q["technical_soundness"], q["soundness"], Empty)
        /\ t["soundness"] = q["soundness"] /\ t["comments"] = q["comments"]
        /\ t["final_review"] = NoReview
    BY <1>1, FilledIn
  <2>4. q["final_review"] = NoReview
    BY <1>1 DEF IsReview, Wraps
  <2> HIDE DEF q, t
  <2>5. /\ t["overall_merit"] = q["overall_merit"]
        /\ t["final_recommendation"] = q["final_recommendation"]
    BY <2>1, <2>2, <2>3 DEF First, Values, Empty
  <2>6. t["technical_soundness"] = q["technical_soundness"]
    BY <2>1, <2>2, <2>3 DEF First, Values, Empty
  <2>7. \/ t["recommended_action"] = q["recommended_action"]
        \/ q["recommended_action"] = Empty
    BY <2>3 DEF First
  <2>8. \A k \in Keys : t[k] = q[k] \/ (k = "recommended_action" /\ q[k] = Empty)
    BY <2>3, <2>4, <2>5, <2>6, <2>7 DEF Keys, Ratings
  <2>9. KeptAs(Wraps(p), q)
    <3>1. t = Sanitized(q)
      BY DEF t
    <3>2. IsReview(q)
      BY <1>1 DEF q
    <3> QED
      BY <1>3, <2>8, <3>1, <3>2 DEF KeptAs, Wraps
  <2> QED
    BY <1>3, <2>9 DEF q
<1> QED
  BY <1>2, <1>3

\* What the meta-reviewer writes is canonical once stored.
LEMMA SynthesesAreCanonical ==
  ASSUME NEW p \in Syntheses PROVE Canonical(Sanitized(Sanitized(p)))
BY SanitizedIsReview, SanitizingTwice, DeskAssumption

-----------------------------------------------------------------------------
(* Patches. *)

IsPatch(p) ==
  /\ DOMAIN p \subseteq Keys
  /\ \A k \in DOMAIN p \cap Ratings : p[k] \in Values
  /\ "comments" \in DOMAIN p => p["comments"] \subseteq Edits
  /\ "final_review" \in DOMAIN p => p["final_review"] = NoReview \/ IsReview(p["final_review"])

LEMMA MergedIsPayload ==
  ASSUME NEW d, IsPayload(d), NEW p, IsPatch(p)
  PROVE  /\ IsPayload(Merged(d, p))
         /\ "final_review" \notin DOMAIN p => (Wraps(Merged(d, p)) <=> Wraps(d))
<1> DEFINE m == Merged(d, p)
<1>1. m = [k \in Keys |-> m[k]] /\ \A k \in Keys :
        m[k] = IF k \in DOMAIN p THEN p[k] ELSE d[k]
  BY DEF Merged
<1> HIDE DEF m
<1>2. \A k \in Ratings : m[k] \in Scores \cup {Empty}
  BY <1>1, KeysAreDistinct DEF IsPayload, IsForm, IsPatch, Values
<1>3. m["comments"] \subseteq Edits
  BY <1>1, KeysAreDistinct DEF IsPayload, IsForm, IsPatch
<1>4. m["final_review"] = IF "final_review" \in DOMAIN p THEN p["final_review"] ELSE d["final_review"]
  BY <1>1, KeysAreDistinct
<1>5. m["final_review"] = NoReview \/ IsReview(m["final_review"])
  BY <1>4 DEF IsPayload, Wraps, IsPatch
<1>6. IsPayload(m)
  BY <1>1, <1>2, <1>3, <1>5 DEF IsPayload, IsForm, Wraps
<1>7. "final_review" \notin DOMAIN p => (Wraps(m) <=> Wraps(d))
  BY <1>4 DEF Wraps
<1> QED
  BY <1>6, <1>7 DEF m

LEMMA ReviewsArePayloads == ASSUME NEW r, IsReview(r) PROVE IsPayload(r) /\ ~Wraps(r)
BY DEF IsReview, IsPayload

\* What the chair proposes, and what is left of it.
LEMMA ProposalsArePatches ==
  ASSUME NEW base, IsReview(base), asks \in 1 .. MaxAsks,
         NEW proposal \in Proposals(base), NEW requested \in BOOLEAN
  PROVE  /\ IsPatch(Filtered(proposal, requested))
         /\ "comments" \in DOMAIN Filtered(proposal, requested) =>
              base["comments"] \subseteq Filtered(proposal, requested)["comments"]
         /\ Wrappings = {} => "final_review" \notin DOMAIN Filtered(proposal, requested)
<1> DEFINE patch == Filtered(proposal, requested)
           text == [comments |-> base["comments"] \cup {MaxEdits + asks}]
<1>1. /\ IsPatch(proposal)
      /\ "comments" \in DOMAIN proposal => base["comments"] \subseteq proposal["comments"]
      /\ Wrappings = {} => "final_review" \notin DOMAIN proposal
  <2>1. CASE proposal \in ChairRatings
    BY <2>1, DeskAssumption, KeysAreDistinct DEF IsPatch, Values
  <2>2. CASE proposal = text
    <3>1. MaxEdits + asks \in Edits
      BY DeskAssumption DEF Edits
    <3>2. text["comments"] \subseteq Edits /\ DOMAIN text = {"comments"}
      BY <3>1 DEF IsReview, IsForm
    <3> QED
      BY <2>2, <3>2, KeysAreDistinct DEF IsPatch
  <2>3. CASE proposal = NoPatch
    BY <2>3 DEF IsPatch, NoPatch
  <2>4. ASSUME NEW r \in Wrappings, proposal = [final_review |-> r]
        PROVE  IsPatch(proposal) /\ "comments" \notin DOMAIN proposal /\ Wrappings # {}
    <3>1. DOMAIN proposal = {"final_review"} /\ proposal["final_review"] = r
      BY <2>4
    <3> QED
      BY <3>1, DeskAssumption, KeysAreDistinct DEF IsPatch
  <2> QED
    BY <2>1, <2>2, <2>3, <2>4 DEF Proposals
<1>2. /\ DOMAIN patch \subseteq DOMAIN proposal
      /\ \A k \in DOMAIN patch : patch[k] = proposal[k]
  BY DEF Filtered
<1> HIDE DEF patch
<1>3. IsPatch(patch)
  BY <1>1, <1>2 DEF IsPatch
<1> QED
  BY <1>1, <1>2, <1>3 DEF patch

\* The chair takes none of the prose, unless its patch nests a review.
LEMMA ChairKeepsProse ==
  ASSUME NEW base, IsReview(base), NEW patch, IsPatch(patch),
         "comments" \in DOMAIN patch => base["comments"] \subseteq patch["comments"],
         ~Wraps(Merged(base, patch))
  PROVE  base["comments"] \subseteq Sanitized(Merged(base, patch))["comments"]
<1> DEFINE m == Merged(base, patch)
<1>1. m["comments"] = IF "comments" \in DOMAIN patch THEN patch["comments"] ELSE base["comments"]
  BY KeysAreDistinct DEF Merged
<1>2. IsReview(m)
  BY MergedIsPayload, ReviewsArePayloads DEF IsPayload, IsReview
<1> HIDE DEF m
<1>3. Sanitized(m)["comments"] = m["comments"]
  BY <1>2, FilledIn
<1> QED
  BY <1>1, <1>3 DEF m
-----------------------------------------------------------------------------
(* The session and its writers. *)

States == {"created", "running", "completed", "failed", "stopped"}
SessionFields == {"status", "result", "copy", "packet", "web", "turns"}
\* The chair's history: patches, one after the other.
TurnsOK(turns) ==
  /\ Len(turns) \in Nat /\ turns = [n \in 1 .. Len(turns) |-> turns[n]]
  /\ \A n \in 1 .. Len(turns) : IsPatch(turns[n])
SessionOK(s) ==
  /\ s = [f \in SessionFields |-> s[f]]
  /\ s.status \in States /\ s.web \in BOOLEAN /\ TurnsOK(s.turns)
  /\ s.result = NoReview \/ IsReview(s.result)
  /\ s.copy = s.result
  /\ s.packet = NoReview \/ (s.result # NoReview /\ s.packet = Sanitized(s.result))
ResultOK == session.result = NoReview \/ KeptAs(unwrapped, session.result)
\* A run has searched before it deliberates, and no result is stored unsearched;
\* a run that searches has read the session as it still is: with no result
\* stored, nothing but the run itself writes to it.
Searched ==
  SearchOn /\ (session.result # NoReview \/ run.pc = "engine") => session.web
RunOK ==
  /\ run = [f \in {"pc", "read"} |-> run[f]]
  /\ run.pc \in {"idle", "started", "search", "engine", "cancelled"}
  /\ run.pc = "search" => run.read = session /\ session.result = NoReview
AskOK(ask) ==
  ask # NoAsk => IsReview(ask.base) /\ ask.requested \in BOOLEAN
TabsOK ==
  /\ tab = [t \in Tabs |-> tab[t]]
  /\ \A t \in Tabs : /\ tab[t] = [f \in {"draft", "dirty", "ask"} |-> tab[t][f]]
                     /\ tab[t].draft = NoReview \/ IsPayload(tab[t].draft)
                     /\ AskOK(tab[t].ask)
                     /\ tab[t].ask # NoAsk => asks \in 1 .. MaxAsks
CountsOK == edits \in 0 .. MaxEdits /\ runs \in 0 .. MaxRuns /\ asks \in 0 .. MaxAsks

DeskInv ==
  SessionOK(session) /\ ResultOK /\ unwrapped \in BOOLEAN /\ RunOK /\ Searched /\ TabsOK /\ CountsOK

LEMMA InitSound == DeskInit => DeskInv
<1> SUFFICES ASSUME DeskInit PROVE DeskInv
  OBVIOUS
<1>1. SessionOK(session) /\ ResultOK /\ unwrapped \in BOOLEAN
  <2>1. TurnsOK(<<>>)
    BY DEF TurnsOK
  <2>2. /\ session = [f \in SessionFields |-> session[f]] /\ session.turns = <<>>
        /\ session.status = "created" /\ session.web = FALSE /\ unwrapped = FALSE
        /\ session.result = NoReview /\ session.copy = NoReview /\ session.packet = NoReview
    BY DEF DeskInit, SessionFields
  <2> HIDE DEF NoReview
  <2>3. session.status \in States /\ session.web \in BOOLEAN /\ unwrapped \in BOOLEAN
    BY <2>2 DEF States
  <2>4. SessionOK(session)
    BY <2>1, <2>2, <2>3 DEF SessionOK
  <2> QED
    BY <2>2, <2>3, <2>4 DEF ResultOK
<1>2. RunOK /\ Searched
  BY DEF DeskInit, RunOK, Searched
<1>3. TabsOK
  BY DEF DeskInit, TabsOK, AskOK
<1>4. CountsOK
  BY DeskAssumption DEF DeskInit, CountsOK
<1> QED
  BY <1>1, <1>2, <1>3, <1>4 DEF DeskInv

\* A review is written to its three places; nothing else changes but the status.
LEMMA StoringIsSound ==
  ASSUME NEW s, SessionOK(s), NEW doc, doc = NoReview \/ IsReview(doc)
  PROVE  /\ SessionOK(Stored(s, doc))
         /\ Stored(s, doc).result = doc /\ Stored(s, doc).web = s.web
<1> DEFINE e == Stored(s, doc)
<1>1. /\ e = [f \in SessionFields |-> e[f]]
      /\ e.result = doc /\ e.copy = doc /\ e.packet = NoReview
      /\ e.status = s.status /\ e.web = s.web /\ e.turns = s.turns
  BY DEF SessionOK, SessionFields, Stored
<1> HIDE DEF e, NoReview
<1>2. e.status \in States /\ e.web \in BOOLEAN /\ TurnsOK(e.turns)
  BY <1>1 DEF SessionOK
<1>3. SessionOK(e)
  BY <1>1, <1>2 DEF SessionOK
<1> QED
  BY <1>1, <1>3 DEF e

LEMMA StatusIsFree ==
  ASSUME NEW s, SessionOK(s), NEW status \in States
  PROVE  LET e == [s EXCEPT !.status = status]
         IN  SessionOK(e) /\ e.result = s.result /\ e.web = s.web
<1> DEFINE e == [s EXCEPT !.status = status]
<1>1. /\ e = [f \in SessionFields |-> e[f]] /\ e.status = status
      /\ \A f \in SessionFields \ {"status"} : e[f] = s[f]
  BY DEF SessionOK, SessionFields
<1> HIDE DEF e
<1>2. SessionOK(e)
  BY <1>1 DEF SessionOK, SessionFields
<1> QED
  BY <1>1, <1>2 DEF e, SessionFields

-----------------------------------------------------------------------------
(* The run. *)

\* What concerns the tabs and the counters, for the actions that leave them alone.
LEMMA TabsRest ==
  ASSUME DeskInv, UNCHANGED <<tab, edits, asks>>, runs' \in 0 .. MaxRuns
  PROVE  TabsOK' /\ CountsOK'
BY DEF DeskInv, TabsOK, CountsOK, AskOK

LEMMA StartInv == ASSUME DeskInv, LaunchReview \/ RetrySession PROVE DeskInv'
<1>1. /\ SessionOK(session) /\ ResultOK /\ unwrapped \in BOOLEAN /\ RunOK /\ Searched
      /\ run' = [run EXCEPT !.pc = "started"] /\ runs < MaxRuns /\ runs' = runs + 1
      /\ UNCHANGED <<tab, edits, asks>>
  BY DEF DeskInv, LaunchReview, RetrySession
<1>2. RunOK' /\ run'.pc = "started"
  BY <1>1 DEF RunOK
<1>3. SessionOK(session') /\ ResultOK' /\ unwrapped' \in BOOLEAN /\ Searched'
  <2>1. "running" \in States
    BY DEF States
  <2>2. CASE /\ session' = [Stored(session, NoReview) EXCEPT !.status = "running"]
             /\ unwrapped' = FALSE
    <3>1. SessionOK(session') /\ session'.result = NoReview
      BY <1>1, <2>1, <2>2, StoringIsSound, StatusIsFree
    <3> QED
      BY <1>2, <2>2, <3>1 DEF Searched, ResultOK
  <2>3. CASE session' = [session EXCEPT !.status = "running"] /\ unwrapped' = unwrapped
    <3>1. /\ SessionOK(session') /\ session'.result = session.result
          /\ session'.web = session.web
      BY <1>1, <2>1, <2>3, StatusIsFree
    <3> QED
      BY <1>1, <1>2, <2>3, <3>1 DEF Searched, ResultOK
  <2> QED
    BY <2>2, <2>3 DEF LaunchReview, RetrySession
<1>4. runs' \in 0 .. MaxRuns
  BY <1>1, DeskAssumption DEF DeskInv, CountsOK
<1> QED
  BY <1>1, <1>2, <1>3, <1>4, TabsRest DEF DeskInv

LEMMA SearchInv == ASSUME DeskInv, BeginSearch \/ EndSearch PROVE DeskInv'
<1>1. /\ SessionOK(session) /\ ResultOK /\ unwrapped \in BOOLEAN /\ RunOK /\ Searched
      /\ UNCHANGED <<tab, edits, unwrapped, runs, asks>> /\ runs \in 0 .. MaxRuns
  BY DEF DeskInv, BeginSearch, EndSearch, CountsOK
<1>2. CASE BeginSearch
  <2>1. session' = session /\ run.pc = "started"
    BY <1>2 DEF BeginSearch
  <2>2. CASE /\ ~SearchOn \/ (session.result # NoReview /\ session.web)
             /\ run' = [run EXCEPT !.pc = "engine"]
    <3>1. RunOK' /\ Searched'
      BY <1>1, <2>1, <2>2 DEF RunOK, Searched
    <3> QED
      BY <1>1, <2>1, <3>1, TabsRest DEF DeskInv, ResultOK
  <2>3. CASE /\ ~(~SearchOn \/ (session.result # NoReview /\ session.web))
             /\ run' = [pc |-> "search", read |-> session]
    <3>1. run' = [f \in {"pc", "read"} |-> run'[f]] /\ run'.pc = "search" /\ run'.read = session
      BY <2>3
    <3>2. RunOK'
      BY <1>1, <2>1, <2>3, <3>1 DEF RunOK, Searched
    <3>3. Searched'
      BY <1>1, <2>1, <3>1 DEF Searched
    <3> QED
      BY <1>1, <2>1, <3>2, <3>3, TabsRest DEF DeskInv, ResultOK
  <2> QED
    BY <1>2, <2>2, <2>3 DEF BeginSearch
<1>3. CASE EndSearch
  <2> DEFINE s == session
  <2>1. SessionOK(s) /\ session' = [s EXCEPT !.web = TRUE]
    BY <1>1, <1>3 DEF EndSearch, RunOK
  <2>2. /\ session' = [f \in SessionFields |-> session'[f]] /\ session'.web = TRUE
        /\ \A f \in SessionFields \ {"web"} : session'[f] = s[f]
    BY <2>1 DEF SessionOK, SessionFields
  <2>3. SessionOK(session')
    BY <2>1, <2>2 DEF SessionOK, SessionFields
  <2>4. /\ run' = [f \in {"pc", "read"} |-> run'[f]] /\ run'.pc = "engine"
    BY <1>3 DEF EndSearch
  <2>5. RunOK' /\ Searched'
    BY <2>2, <2>4 DEF RunOK, Searched
  <2>6. ResultOK'
    BY <1>1, <2>2 DEF ResultOK, SessionFields
  <2> QED
    BY <1>1, <2>3, <2>5, <2>6, TabsRest DEF DeskInv
<1> QED
  BY <1>2, <1>3

LEMMA SynthesizeInv == ASSUME DeskInv, Synthesize PROVE DeskInv'
<1>1. PICK payload \in Syntheses :
        session' = [Stored(session, Sanitized(Sanitized(payload)))
                      EXCEPT !.status = "completed"]
  BY DEF Synthesize
<1> DEFINE doc == Sanitized(Sanitized(payload))
<1>2. SessionOK(session) /\ RunOK /\ Searched /\ run.pc = "engine"
  BY DEF DeskInv, Synthesize
<1>3. Canonical(doc) /\ "completed" \in States
  BY SynthesesAreCanonical DEF States
<1> HIDE DEF doc
<1>4. /\ SessionOK(session') /\ session'.web = session.web
      /\ session'.result = doc
  BY <1>1, <1>2, <1>3, StoringIsSound, StatusIsFree DEF doc, Canonical
<1>5. /\ run' = [run EXCEPT !.pc = "idle"] /\ unwrapped' = FALSE
      /\ UNCHANGED <<tab, edits, runs, asks>>
  BY DEF Synthesize
<1>6. RunOK' /\ Searched'
  BY <1>2, <1>4, <1>5 DEF RunOK, Searched
<1>7. ResultOK' /\ unwrapped' \in BOOLEAN
  BY <1>3, <1>4, <1>5 DEF ResultOK, KeptAs, Canonical
<1> QED
  BY <1>4, <1>5, <1>6, <1>7, TabsRest DEF DeskInv, CountsOK

\* The run fails, is cancelled or ends cancelled.
LEMMA EndRunInv ==
  ASSUME DeskInv, FailRun \/ CancelPipeline \/ EndCancelled PROVE DeskInv'
<1>1. PICK status \in States : session' = [session EXCEPT !.status = status]
  BY DEF FailRun, CancelPipeline, EndCancelled, States
<1>2. /\ SessionOK(session) /\ ResultOK /\ unwrapped \in BOOLEAN /\ RunOK /\ Searched
      /\ UNCHANGED <<tab, edits, unwrapped, runs, asks>>
  BY DEF DeskInv, FailRun, CancelPipeline, EndCancelled
<1>3. SessionOK(session') /\ session'.result = session.result /\ session'.web = session.web
  BY <1>1, <1>2, StatusIsFree
<1>4. /\ run' = [f \in {"pc", "read"} |-> run'[f]]
      /\ run'.pc \in {"idle", "cancelled"}
  BY <1>2 DEF FailRun, CancelPipeline, EndCancelled, RunOK
<1>5. RunOK' /\ Searched' /\ ResultOK'
  BY <1>2, <1>3, <1>4 DEF RunOK, Searched, ResultOK
<1> QED
  BY <1>2, <1>3, <1>5, TabsRest DEF DeskInv, CountsOK

LEMMA DeskRestartInv == ASSUME DeskInv, Restart PROVE DeskInv'
<1>1. /\ SessionOK(session) /\ ResultOK /\ unwrapped \in BOOLEAN
      /\ RunOK /\ Searched /\ TabsOK /\ CountsOK
  BY DEF DeskInv
<1>2. /\ SessionOK(session') /\ session'.result = session.result
      /\ session'.web = session.web
  <2>1. session' = session \/ session' = [session EXCEPT !.status = "stopped"]
    <3>1. session' = IF session.status = "running"
                     THEN [session EXCEPT !.status = "stopped"] ELSE session
      BY DEF Restart
    <3>2. CASE session.status = "running"
      BY <3>1, <3>2
    <3>3. CASE session.status # "running"
      BY <3>1, <3>3
    <3> QED
      BY <3>2, <3>3
  <2>2. "stopped" \in States
    BY DEF States
  <2>3. CASE session' = session
    BY <1>1, <2>3
  <2>4. CASE session' = [session EXCEPT !.status = "stopped"]
    BY <1>1, <2>2, <2>4, StatusIsFree
  <2> QED
    BY <2>1, <2>3, <2>4
<1>3. run' = [f \in {"pc", "read"} |-> run'[f]] /\ run'.pc = "idle"
  BY DEF Restart
<1>5. /\ tab' = [t \in Tabs |-> [tab[t] EXCEPT !.ask = NoAsk]]
      /\ UNCHANGED <<edits, unwrapped, runs, asks>>
  BY DEF Restart
<1>4. RunOK' /\ Searched' /\ ResultOK'
  BY <1>1, <1>2, <1>3, <1>5 DEF RunOK, Searched, ResultOK
<1>6. \A t \in Tabs : /\ tab'[t] = [f \in {"draft", "dirty", "ask"} |-> tab'[t][f]]
                      /\ tab'[t].draft = tab[t].draft /\ tab'[t].ask = NoAsk
  BY <1>1, <1>5 DEF TabsOK
<1>7. TabsOK' /\ CountsOK'
  BY <1>1, <1>5, <1>6 DEF TabsOK, AskOK, CountsOK
<1> QED
  BY <1>1, <1>2, <1>4, <1>5, <1>7 DEF DeskInv

-----------------------------------------------------------------------------
(* The tabs. *)

\* What concerns the run, for the actions of a tab, which never write the search.
LEMMA RunRests ==
  ASSUME DeskInv, UNCHANGED run, session'.web = session.web,
         session' = session \/ session.result # NoReview
  PROVE  RunOK' /\ Searched'
BY DEF DeskInv, RunOK, Searched

\* One tab changes, and what it now shows is a review.
LEMMA TabChanges ==
  ASSUME TabsOK, NEW t \in Tabs, tab' = [tab EXCEPT ![t] = tab'[t]],
         tab'[t] = [f \in {"draft", "dirty", "ask"} |-> tab'[t][f]],
         tab'[t].draft = NoReview \/ IsPayload(tab'[t].draft),
         AskOK(tab'[t].ask), tab'[t].ask # NoAsk => asks' \in 1 .. MaxAsks,
         asks \in Nat, asks' = asks \/ (asks' = asks + 1 /\ asks' \in 0 .. MaxAsks)
  PROVE  TabsOK'
<1>1. tab = [u \in Tabs |-> tab[u]]
  BY DEF TabsOK
<1>2. tab' = [u \in Tabs |-> tab'[u]] /\ \A u \in Tabs : u # t => tab'[u] = tab[u]
  BY <1>1
<1>3. \A u \in Tabs : tab[u].ask # NoAsk => asks' \in 1 .. MaxAsks
  BY DEF TabsOK
<1> QED
  BY <1>2, <1>3 DEF TabsOK, AskOK

\* The draft of one tab becomes another review.
LEMMA DraftChanges ==
  ASSUME TabsOK, NEW t \in Tabs, NEW edited, IsPayload(edited), NEW dirty,
         \/ tab' = [tab EXCEPT ![t].draft = edited]
         \/ tab' = [tab EXCEPT ![t].draft = edited, ![t].dirty = dirty],
         asks' = asks, asks \in Nat
  PROVE  TabsOK'
<1>1. /\ tab[t] = [f \in {"draft", "dirty", "ask"} |-> tab[t][f]] /\ AskOK(tab[t].ask)
      /\ tab[t].ask # NoAsk => asks \in 1 .. MaxAsks
      /\ tab = [u \in Tabs |-> tab[u]]
  BY DEF TabsOK
<1>2. CASE tab' = [tab EXCEPT ![t].draft = edited]
  <2>1. tab'[t] = [tab[t] EXCEPT !.draft = edited] /\ tab' = [tab EXCEPT ![t] = tab'[t]]
    BY <1>1, <1>2
  <2>2. /\ tab'[t] = [f \in {"draft", "dirty", "ask"} |-> tab'[t][f]]
        /\ tab'[t].draft = edited /\ tab'[t].ask = tab[t].ask
    BY <1>1, <2>1
  <2> QED
    BY <1>1, <2>1, <2>2, TabChanges
<1>3. CASE tab' = [tab EXCEPT ![t].draft = edited, ![t].dirty = dirty]
  <2>1. /\ tab'[t] = [tab[t] EXCEPT !.draft = edited, !.dirty = dirty]
        /\ tab' = [tab EXCEPT ![t] = tab'[t]]
    BY <1>1, <1>3
  <2>2. /\ tab'[t] = [f \in {"draft", "dirty", "ask"} |-> tab'[t][f]]
        /\ tab'[t].draft = edited /\ tab'[t].ask = tab[t].ask
    BY <1>1, <2>1
  <2> QED
    BY <1>1, <2>1, <2>2, TabChanges
<1> QED
  BY <1>2, <1>3

\* A tab asks, or its question is over.
LEMMA AskChanges ==
  ASSUME TabsOK, NEW t \in Tabs, NEW ask, AskOK(ask),
         tab' = [tab EXCEPT ![t].ask = ask], asks \in Nat,
         ask # NoAsk => asks' \in 1 .. MaxAsks,
         asks' = asks \/ (asks' = asks + 1 /\ asks' \in 0 .. MaxAsks)
  PROVE  TabsOK'
<1>1. /\ tab[t] = [f \in {"draft", "dirty", "ask"} |-> tab[t][f]]
      /\ tab[t].draft = NoReview \/ IsPayload(tab[t].draft)
      /\ tab = [u \in Tabs |-> tab[u]]
  BY DEF TabsOK
<1>2. tab'[t] = [tab[t] EXCEPT !.ask = ask] /\ tab' = [tab EXCEPT ![t] = tab'[t]]
  BY <1>1
<1>3. /\ tab'[t] = [f \in {"draft", "dirty", "ask"} |-> tab'[t][f]]
      /\ tab'[t].draft = tab[t].draft /\ tab'[t].ask = ask
  BY <1>1, <1>2
<1>4. /\ tab'[t].draft = NoReview \/ IsPayload(tab'[t].draft)
      /\ AskOK(tab'[t].ask) /\ (tab'[t].ask # NoAsk => asks' \in 1 .. MaxAsks)
  BY <1>1, <1>3
<1> HIDE DEF NoAsk, NoReview
<1> QED
  BY <1>2, <1>3, <1>4, TabChanges

\* A draft that is edited stays a draft.
LEMMA EditedIsPayload ==
  ASSUME NEW old, IsPayload(old), NEW edited, DOMAIN edited = DOMAIN old,
         edited = [k \in DOMAIN old |-> edited[k]],
         \A k \in Ratings : edited[k] \in Values, edited["comments"] \subseteq Edits,
         edited["final_review"] = old["final_review"]
  PROVE  IsPayload(edited)
<1>1. DOMAIN old = Keys
  BY DEF IsPayload, IsForm
<1> QED
  BY <1>1 DEF IsPayload, IsForm, Wraps, Values

\* Nothing but the draft of a tab.
LEMMA EditInv ==
  ASSUME DeskInv, NEW t \in Tabs,
         Open(t) \/ EditText(t) \/ EditScore(t) \/ EditRating(t) \/ ApplyPatch(t)
  PROVE  DeskInv'
<1>1. /\ SessionOK(session) /\ ResultOK /\ unwrapped \in BOOLEAN
      /\ TabsOK /\ CountsOK /\ asks \in Nat
      /\ UNCHANGED <<session, run, unwrapped, runs, asks>>
  BY DeskAssumption DEF DeskInv, CountsOK, Open, EditText, EditScore, EditRating, ApplyPatch
<1>2. /\ tab[t].draft = NoReview \/ IsPayload(tab[t].draft)
      /\ ~Open(t) => tab[t].draft # NoReview
  BY <1>1 DEF TabsOK, EditText, EditScore, EditRating, ApplyPatch
<1>3. edits' \in 0 .. MaxEdits
  BY <1>1, DeskAssumption DEF CountsOK, Open, EditText, EditScore, EditRating, ApplyPatch
<1>4. RunOK' /\ Searched'
  BY <1>1, RunRests DEF DeskInv
<1>5. SUFFICES TabsOK'
  BY <1>1, <1>3, <1>4 DEF DeskInv, CountsOK, ResultOK
<1>6. ASSUME NEW edited, IsPayload(edited), Edited(t, edited) PROVE TabsOK'
  BY <1>1, <1>6, DraftChanges DEF Edited
<1> DEFINE old == tab[t].draft
<1>7. CASE Open(t)
  <2>1. IsPayload(session.result) /\ tab' = [tab EXCEPT ![t].draft = session.result]
    BY <1>1, <1>7, ReviewsArePayloads DEF Open, SessionOK
  <2> QED
    BY <1>1, <2>1, DraftChanges
<1>8. CASE EditText(t)
  <2> DEFINE edited == [old EXCEPT !["comments"] = @ \cup {edits + 1}]
  <2>1. IsPayload(old)
    BY <1>2, <1>8 DEF EditText
  <2>2. edits + 1 \in Edits
    BY <1>1, <1>8, DeskAssumption DEF EditText, CountsOK, Edits
  <2>3. Edited(t, edited)
    BY <1>8 DEF EditText
  <2> HIDE DEF old
  <2>4. /\ DOMAIN edited = DOMAIN old /\ edited = [k \in DOMAIN old |-> edited[k]]
        /\ edited["comments"] = old["comments"] \cup {edits + 1}
        /\ \A k \in Keys \ {"comments"} : edited[k] = old[k]
    BY <2>1, KeysAreDistinct DEF IsPayload, IsForm
  <2> HIDE DEF edited
  <2>5. /\ \A k \in Ratings : edited[k] \in Values
        /\ edited["comments"] \subseteq Edits
        /\ edited["final_review"] = old["final_review"]
    BY <2>1, <2>2, <2>4, KeysAreDistinct DEF IsPayload, IsForm, Values
  <2>6. IsPayload(edited)
    BY <2>1, <2>4, <2>5, EditedIsPayload
  <2> QED
    BY <1>6, <2>3, <2>6
<1>9. CASE EditScore(t)
  <2>1. PICK s \in Scores :
          Edited(t, [old EXCEPT !["overall_merit"] = s, !["final_recommendation"] = s,
                                !["recommended_action"] = Empty])
    BY <1>9 DEF EditScore
  <2> DEFINE edited == [old EXCEPT !["overall_merit"] = s, !["final_recommendation"] = s,
                                   !["recommended_action"] = Empty]
  <2>2. IsPayload(old)
    BY <1>2, <1>9 DEF EditScore
  <2>3. Edited(t, edited)
    BY <2>1
  <2> HIDE DEF old
  <2>4. /\ DOMAIN edited = DOMAIN old /\ edited = [k \in DOMAIN old |-> edited[k]]
        /\ \A k \in Keys : edited[k] \in {s, Empty, old[k]}
        /\ edited["comments"] = old["comments"]
        /\ edited["final_review"] = old["final_review"]
    BY <2>2, KeysAreDistinct DEF IsPayload, IsForm
  <2> HIDE DEF edited
  <2>5. /\ \A k \in Ratings : edited[k] \in Values
        /\ edited["comments"] \subseteq Edits
    BY <2>2, <2>4, KeysAreDistinct DEF IsPayload, IsForm, Values
  <2>6. IsPayload(edited)
    BY <2>2, <2>4, <2>5, EditedIsPayload
  <2> QED
    BY <1>6, <2>3, <2>6
<1>10. CASE EditRating(t)
  <2>1. PICK p \in FormRatings : Edited(t, Merged(old, p))
    BY <1>10 DEF EditRating
  <2>2. IsPayload(old) /\ IsPatch(p)
    BY <1>2, <1>10, DeskAssumption, KeysAreDistinct DEF EditRating, IsPatch, Values
  <2> QED
    BY <1>6, <2>1, <2>2, MergedIsPayload
<1>11. CASE ApplyPatch(t)
  <2>1. PICK n \in DOMAIN session.turns : Edited(t, Merged(old, session.turns[n]))
    BY <1>11 DEF ApplyPatch
  <2>2. IsPayload(old)
    BY <1>2, <1>11 DEF ApplyPatch
  <2>3. TurnsOK(session.turns)
    BY <1>1 DEF SessionOK
  <2>4. IsPatch(session.turns[n])
    <3>1. DOMAIN session.turns = 1 .. Len(session.turns)
      BY <2>3 DEF TurnsOK
    <3> QED
      BY <2>3, <3>1 DEF TurnsOK
  <2> QED
    BY <1>6, <2>1, <2>2, <2>4, MergedIsPayload
<1> QED
  BY <1>7, <1>8, <1>9, <1>10, <1>11

LEMMA UpdateInv == ASSUME DeskInv, NEW t \in Tabs, UpdateFinalReview(t) PROVE DeskInv'
<1> DEFINE doc == Sanitized(tab[t].draft)
           nested == Wraps(tab[t].draft)
<1>1. /\ SessionOK(session) /\ TabsOK /\ CountsOK /\ asks \in Nat
      /\ UNCHANGED <<run, edits, runs, asks>>
      /\ session.result # NoReview /\ IsPayload(tab[t].draft)
  BY DeskAssumption DEF DeskInv, CountsOK, UpdateFinalReview, TabsOK
<1>2. KeptAs(nested, doc) /\ IsReview(doc) /\ IsPayload(doc) /\ nested \in BOOLEAN
  BY <1>1, SanitizedIsKept, ReviewsArePayloads DEF KeptAs, Wraps
<1>3. /\ session' = Stored(session, doc) /\ unwrapped' = nested
      /\ tab' = [tab EXCEPT ![t].draft = doc, ![t].dirty = FALSE] \/ tab' = tab
  BY DEF UpdateFinalReview
<1> HIDE DEF doc, nested
<1>4. SessionOK(session') /\ session'.web = session.web /\ session'.result = doc
  BY <1>1, <1>2, <1>3, StoringIsSound
<1>5. TabsOK'
  <2>1. CASE tab' = tab
    BY <1>1, <2>1 DEF TabsOK, AskOK
  <2>2. CASE tab' = [tab EXCEPT ![t].draft = doc, ![t].dirty = FALSE]
    BY <1>1, <1>2, <2>2, DraftChanges
  <2> QED
    BY <1>3, <2>1, <2>2
<1>6. RunOK' /\ Searched'
  BY <1>1, <1>4, RunRests
<1>7. ResultOK' /\ unwrapped' \in BOOLEAN
  BY <1>2, <1>3, <1>4 DEF ResultOK
<1> QED
  BY <1>1, <1>4, <1>5, <1>6, <1>7 DEF DeskInv, CountsOK

LEMMA AskInv == ASSUME DeskInv, NEW t \in Tabs, Ask(t) PROVE DeskInv'
<1>1. /\ SessionOK(session) /\ ResultOK /\ unwrapped \in BOOLEAN
      /\ TabsOK /\ CountsOK /\ asks \in Nat
      /\ UNCHANGED <<session, run, edits, unwrapped, runs>>
      /\ session.result # NoReview /\ asks < MaxAsks /\ asks' = asks + 1
  BY DeskAssumption DEF DeskInv, CountsOK, Ask
<1> DEFINE shown == IF tab[t].draft = NoReview THEN session.result ELSE tab[t].draft
<1>2. PICK requested \in BOOLEAN, apply \in BOOLEAN :
        tab' = [tab EXCEPT ![t].ask =
                  [asking |-> TRUE, requested |-> requested, apply |-> apply,
                   base |-> Sanitized(shown), original |-> session.result]]
  BY DEF Ask
<1>3. IsPayload(shown)
  BY <1>1, ReviewsArePayloads DEF TabsOK, SessionOK
<1>4. IsReview(Sanitized(shown))
  BY <1>3, SanitizedIsReview
<1> HIDE DEF shown
<1> DEFINE ask == [asking |-> TRUE, requested |-> requested, apply |-> apply,
                   base |-> Sanitized(shown), original |-> session.result]
<1>5. AskOK(ask)
  BY <1>4 DEF AskOK
<1>6. tab' = [tab EXCEPT ![t].ask = ask]
  BY <1>2
<1> HIDE DEF ask
<1>7. asks' \in 1 .. MaxAsks /\ asks' \in 0 .. MaxAsks
  BY <1>1, DeskAssumption
<1>8. TabsOK'
  BY <1>1, <1>5, <1>6, <1>7, AskChanges
<1>9. RunOK' /\ Searched'
  BY <1>1, RunRests
<1> QED
  BY <1>1, <1>7, <1>8, <1>9 DEF DeskInv, CountsOK, ResultOK

\* A turn of the chair is noted in the session.
LEMMA TurnIsFree ==
  ASSUME NEW s, SessionOK(s), NEW patch, IsPatch(patch)
  PROVE  LET e == Turned(s, patch)
         IN  /\ SessionOK(e) /\ e.result = s.result /\ e.web = s.web
             /\ \A n \in DOMAIN s.turns : n \in DOMAIN e.turns /\ e.turns[n] = s.turns[n]
<1> DEFINE turns == Append(s.turns, patch)
           e == [s EXCEPT !.turns = turns]
<1>1. /\ TurnsOK(turns)
      /\ \A n \in DOMAIN s.turns : n \in DOMAIN turns /\ turns[n] = s.turns[n]
  <2>1. TurnsOK(s.turns)
    BY DEF SessionOK
  <2>2. /\ Len(turns) \in Nat /\ turns = [n \in 1 .. Len(turns) |-> turns[n]]
        /\ \A n \in 1 .. Len(s.turns) : n \in 1 .. Len(turns) /\ turns[n] = s.turns[n]
        /\ turns[Len(turns)] = patch
        /\ \A n \in 1 .. Len(turns) : n \in 1 .. Len(s.turns) \/ n = Len(turns)
    BY <2>1, Appending DEF TurnsOK
  <2> HIDE DEF turns
  <2>3. DOMAIN turns = 1 .. Len(turns) /\ DOMAIN s.turns = 1 .. Len(s.turns)
    BY <2>1, <2>2 DEF TurnsOK
  <2>4. \A n \in 1 .. Len(turns) : IsPatch(turns[n])
    BY <2>1, <2>2 DEF TurnsOK
  <2> QED
    BY <2>2, <2>3, <2>4 DEF TurnsOK
<1> HIDE DEF turns
<1>2. /\ e = [f \in SessionFields |-> e[f]] /\ e.turns = turns
      /\ \A f \in SessionFields \ {"turns"} : e[f] = s[f]
  BY DEF SessionOK, SessionFields
<1> HIDE DEF e
<1>3. SessionOK(e) /\ e.result = s.result /\ e.web = s.web
  BY <1>1, <1>2 DEF SessionOK, SessionFields
<1>4. e = Turned(s, patch)
  BY DEF e, turns, Turned
<1> QED
  BY <1>1, <1>2, <1>3, <1>4

\* How an answer ends: nothing is written, a turn, or a turn and the merged review.
LEMMA AnswersAre ==
  ASSUME DeskInv, NEW t \in Tabs, Answer(t)
  PROVE  LET ask == tab[t].ask
         IN  \E proposal \in Proposals(ask.base) :
               LET patch == Filtered(proposal, ask.requested)
                   merged == Merged(ask.base, patch)
               IN  \/ session' = session /\ unwrapped' = unwrapped
                   \/ /\ session.result # NoReview /\ unwrapped' = unwrapped
                      /\ session' = Turned(session, patch)
                   \/ /\ session.result # NoReview /\ session.result = ask.original
                      /\ session' = Stored(Turned(session, patch), Sanitized(merged))
                      /\ unwrapped' = Wraps(merged)
BY DEF Answer

LEMMA DeskAnswerInv ==
  ASSUME DeskInv, NEW t \in Tabs, Answer(t) \/ AnswerFails(t) PROVE DeskInv'
<1>1. /\ SessionOK(session) /\ ResultOK /\ unwrapped \in BOOLEAN
      /\ TabsOK /\ CountsOK /\ asks \in Nat
      /\ UNCHANGED <<run, edits, runs, asks>>
      /\ tab' = [tab EXCEPT ![t].ask = NoAsk] /\ tab[t].ask # NoAsk
  BY DeskAssumption DEF DeskInv, CountsOK, Answer, AnswerFails
<1>2. TabsOK'
  <2>1. AskOK(NoAsk)
    BY DEF AskOK
  <2> HIDE DEF NoAsk
  <2> QED
    BY <1>1, <2>1, AskChanges
<1> DEFINE ask == tab[t].ask
<1>3. IsReview(ask.base) /\ ask.requested \in BOOLEAN /\ asks \in 1 .. MaxAsks
  BY <1>1 DEF TabsOK, AskOK
<1>4. /\ SessionOK(session') /\ session'.web = session.web
      /\ session' = session \/ session.result # NoReview
      /\ ResultOK' /\ unwrapped' \in BOOLEAN
  <2>1. CASE session' = session /\ unwrapped' = unwrapped
    BY <1>1, <2>1 DEF ResultOK
  <2>2. ASSUME NEW patch, IsPatch(patch), session.result # NoReview, unwrapped' = unwrapped,
               session' = Turned(session, patch)
        PROVE  /\ SessionOK(session') /\ session'.web = session.web
               /\ ResultOK' /\ unwrapped' \in BOOLEAN
    BY <1>1, <2>2, TurnIsFree DEF ResultOK
  <2>3. ASSUME NEW patch, IsPatch(patch), session.result # NoReview,
               session' = Stored(Turned(session, patch), Sanitized(Merged(ask.base, patch))),
               unwrapped' = Wraps(Merged(ask.base, patch))
        PROVE  /\ SessionOK(session') /\ session'.web = session.web
               /\ ResultOK' /\ unwrapped' \in BOOLEAN
    <3> DEFINE merged == Merged(ask.base, patch)
               turn == Turned(session, patch)
               doc == Sanitized(merged)
               nested == Wraps(merged)
    <3>1. IsPayload(merged)
      BY <1>3, <2>3, MergedIsPayload, ReviewsArePayloads
    <3>2. KeptAs(nested, doc) /\ IsReview(doc) /\ nested \in BOOLEAN
      BY <3>1, SanitizedIsKept DEF KeptAs, Wraps
    <3>3. SessionOK(turn) /\ turn.web = session.web
      BY <1>1, <2>3, TurnIsFree
    <3>4. session' = Stored(turn, doc) /\ unwrapped' = nested
      BY <2>3
    <3> HIDE DEF turn, doc, nested
    <3>5. SessionOK(session') /\ session'.web = session.web /\ session'.result = doc
      BY <3>2, <3>3, <3>4, StoringIsSound
    <3> QED
      BY <3>2, <3>4, <3>5 DEF ResultOK
  <2>4. CASE Answer(t)
    <3> DEFINE patchOf(proposal) == Filtered(proposal, ask.requested)
    <3>1. PICK proposal \in Proposals(ask.base) :
            \/ session' = session /\ unwrapped' = unwrapped
            \/ /\ session.result # NoReview /\ unwrapped' = unwrapped
               /\ session' = Turned(session, patchOf(proposal))
            \/ /\ session.result # NoReview
               /\ session' = Stored(Turned(session, patchOf(proposal)),
                                    Sanitized(Merged(ask.base, patchOf(proposal))))
               /\ unwrapped' = Wraps(Merged(ask.base, patchOf(proposal)))
      BY <2>4, AnswersAre
    <3>2. IsPatch(patchOf(proposal))
      BY <1>3, ProposalsArePatches
    <3> HIDE DEF patchOf
    <3> QED
      BY <2>1, <2>2, <2>3, <3>1, <3>2
  <2>5. CASE AnswerFails(t)
    BY <2>1, <2>5 DEF AnswerFails
  <2> QED
    BY <2>4, <2>5
<1>6. RunOK' /\ Searched'
  BY <1>1, <1>4, RunRests
<1> QED
  BY <1>1, <1>2, <1>4, <1>6 DEF DeskInv, CountsOK

LEMMA PacketInv == ASSUME DeskInv, GetReviewPacket PROVE DeskInv'
<1>1. /\ SessionOK(session) /\ ResultOK /\ unwrapped \in BOOLEAN /\ TabsOK /\ CountsOK
      /\ UNCHANGED <<run, tab, edits, unwrapped, runs, asks>>
      /\ session.result # NoReview
  BY DEF DeskInv, GetReviewPacket
<1> DEFINE shown == Sanitized(session.result)
<1>2. session' = [session EXCEPT !.packet = shown]
  BY <1>1 DEF GetReviewPacket, Packet
<1> HIDE DEF shown
<1>3. /\ session' = [f \in SessionFields |-> session'[f]] /\ session'.packet = shown
      /\ \A f \in SessionFields \ {"packet"} : session'[f] = session[f]
  BY <1>1, <1>2 DEF SessionOK, SessionFields
<1>4. SessionOK(session') /\ session'.web = session.web /\ session'.result = session.result
  BY <1>1, <1>3 DEF SessionOK, SessionFields, shown
<1>5. RunOK' /\ Searched'
  BY <1>1, <1>4, RunRests
<1> QED
  BY <1>1, <1>4, <1>5, TabsRest DEF DeskInv, CountsOK, ResultOK

LEMMA DeskStep == DeskInv /\ [DeskNext]_deskVars => DeskInv'
<1> SUFFICES ASSUME DeskInv, [DeskNext]_deskVars PROVE DeskInv'
  OBVIOUS
<1>1. CASE \/ LaunchReview \/ RetrySession \/ BeginSearch \/ EndSearch \/ Synthesize
           \/ FailRun \/ CancelPipeline \/ EndCancelled \/ Restart
  BY <1>1, StartInv, SearchInv, SynthesizeInv, EndRunInv, DeskRestartInv
<1>2. ASSUME NEW t \in Tabs,
             \/ Open(t) \/ EditText(t) \/ EditScore(t) \/ EditRating(t)
             \/ ApplyPatch(t) \/ UpdateFinalReview(t)
             \/ Ask(t) \/ Answer(t) \/ AnswerFails(t)
      PROVE  DeskInv'
  BY <1>2, EditInv, UpdateInv, AskInv, DeskAnswerInv
<1>3. CASE GetReviewPacket
  BY <1>3, PacketInv
<1>4. CASE UNCHANGED deskVars
  BY <1>4 DEF deskVars, DeskInv, SessionOK, ResultOK, RunOK, Searched, TabsOK, AskOK, CountsOK
<1> QED
  BY <1>1, <1>2, <1>3, <1>4 DEF DeskNext

\* What is kept is shown, by the packet that is cached and by one made now.
LEMMA KeptIsShown ==
  ASSUME SessionOK(session), ResultOK PROVE OneReview
<1>1. CASE session.result = NoReview
  BY <1>1 DEF SessionOK, OneReview
<1>2. CASE session.result # NoReview
  <2>1. IsReview(session.result) /\ KeptAs(unwrapped, session.result)
    BY <1>2 DEF SessionOK, ResultOK
  <2>2. Shows(Packet(session.result), session.result)
    BY <2>1 DEF Shows, Packet, KeptAs
  <2>3. Packet(Sanitized(session.result)) = Sanitized(session.result)
    BY <2>1, SanitizingTwice DEF Packet, Canonical
  <2> QED
    BY <1>2, <2>2, <2>3 DEF SessionOK, OneReview, Packet
<1> QED
  BY <1>1, <1>2

\* For any tabs, syntheses, patches and numbers of edits, runs and questions:
\* every review is of the venue's scale, the session holds one review, canonical
\* but that one which was nested may lack the recommended action, every packet
\* shows it, and none is stored that was not searched for (schemas.py:511-806,
\* api.py:1809-2284, pipeline.py:238-460, ResultEditor.vue:352-558).
THEOREM DeskStaysSound == DeskSpec => []DeskSound
<1>1. DeskInv => DeskSound
  <2> SUFFICES ASSUME DeskInv PROVE DeskSound
    OBVIOUS
  <2>1. /\ SessionOK(session) /\ ResultOK /\ unwrapped \in BOOLEAN
        /\ RunOK /\ Searched /\ TabsOK /\ CountsOK
    BY DEF DeskInv
  <2>2. \A r \in {session.result, session.copy, session.packet} :
           r = NoReview \/ IsReview(r)
    BY <2>1, SanitizedIsReview, ReviewsArePayloads DEF SessionOK
  <2>3. \A t \in Tabs : tab[t].draft = NoReview \/ IsPayload(tab[t].draft)
    BY <2>1 DEF TabsOK
  <2>4. DeskTypeOK
    BY <2>1, <2>2, <2>3 DEF DeskTypeOK, SessionOK, States, RunOK, CountsOK
  <2>5. OneReview
    BY <2>1, KeptIsShown
  <2> QED
    BY <2>1, <2>4, <2>5 DEF DeskSound, Searched
<1>2. DeskInv /\ [DeskNext]_deskVars => DeskInv'
  BY DeskStep
<1>3. QED
  BY <1>1, <1>2, InitSound, PTL DEF DeskSpec
-----------------------------------------------------------------------------
(* What is saved is kept. *)

\* A step that leaves the review as it is, and its turns where they are.
LEMMA NothingTaken ==
  ASSUME session'.result = session.result,
         \A n \in DOMAIN session.turns :
           n \in DOMAIN session'.turns /\ session'.turns[n] = session.turns[n]
  PROVE  TextIsKept
BY DEF TextIsKept

\* Storing a review, or a status, changes nothing else.
LEMMA StoredFields ==
  ASSUME NEW s, SessionOK(s), NEW doc, NEW status
  PROVE  /\ Stored(s, doc).result = doc /\ Stored(s, doc).turns = s.turns
         /\ LET e == [s EXCEPT !.status = status]
            IN  e.result = s.result /\ e.turns = s.turns /\ e.status = status
         /\ LET e == [Stored(s, doc) EXCEPT !.status = status]
            IN  e.result = doc /\ e.turns = s.turns /\ e.status = status
BY DEF SessionOK, SessionFields, Stored

LEMMA RunKeeps ==
  ASSUME DeskInv,
         \/ LaunchReview \/ RetrySession \/ BeginSearch \/ EndSearch \/ Synthesize
         \/ FailRun \/ CancelPipeline \/ EndCancelled \/ Restart
  PROVE  TextIsKept
<1>1. SessionOK(session) /\ RunOK /\ run = [f \in {"pc", "read"} |-> run[f]]
  BY DEF DeskInv, RunOK
<1>2. CASE LaunchReview
  <2>1. session'.result = NoReview /\ session'.turns = session.turns
    BY <1>1, <1>2, StoredFields DEF LaunchReview
  <2>2. run'.pc = "started"
    BY <1>1, <1>2 DEF LaunchReview
  <2> QED
    BY <2>1, <2>2 DEF TextIsKept
<1>3. CASE RetrySession \/ FailRun \/ CancelPipeline \/ EndCancelled
  <2>1. PICK status : session' = [session EXCEPT !.status = status]
    BY <1>3 DEF RetrySession, FailRun, CancelPipeline, EndCancelled
  <2>2. session'.result = session.result /\ session'.turns = session.turns
    BY <1>1, <2>1, StoredFields
  <2> QED
    BY <2>2, NothingTaken
<1>4. CASE BeginSearch
  BY <1>4, NothingTaken DEF BeginSearch
<1>5. CASE EndSearch
  <2>1. session' = [session EXCEPT !.web = TRUE]
    BY <1>1, <1>5 DEF EndSearch, RunOK
  <2>2. session'.result = session.result /\ session'.turns = session.turns
    BY <1>1, <2>1 DEF SessionOK, SessionFields
  <2> QED
    BY <2>2, NothingTaken
<1>6. CASE Synthesize
  <2>1. session'.status = "completed" /\ session'.turns = session.turns
    BY <1>1, <1>6, StoredFields DEF Synthesize
  <2>2. run.pc = "engine"
    BY <1>6 DEF Synthesize
  <2> QED
    BY <2>1, <2>2 DEF TextIsKept
<1>7. CASE Restart
  <2>1. session' = IF session.status = "running"
                   THEN [session EXCEPT !.status = "stopped"] ELSE session
    BY <1>7 DEF Restart
  <2>2. session'.result = session.result /\ session'.turns = session.turns
    <3>1. CASE session.status = "running"
      BY <1>1, <2>1, <3>1, StoredFields
    <3>2. CASE session.status # "running"
      BY <2>1, <3>2
    <3> QED
      BY <3>1, <3>2
  <2> QED
    BY <2>2, NothingTaken
<1> QED
  BY <1>2, <1>3, <1>4, <1>5, <1>6, <1>7

LEMMA ReviewsAreThere == ASSUME NEW r, IsReview(r) PROVE r # NoReview /\ Prose(r) = r["comments"]
BY DEF IsReview, IsForm, NoReview, Keys, Ratings, Prose

LEMMA DraftsAreThere == ASSUME NEW d, IsPayload(d) PROVE d # NoReview /\ Prose(d) = d["comments"]
BY DEF IsPayload, IsForm, NoReview, Keys, Ratings, Prose

\* A tab saves its draft: what is lost it had not seen, or nested.
LEMMA UpdateKeeps ==
  ASSUME DeskInv, NEW t \in Tabs, UpdateFinalReview(t) PROVE TextIsKept
<1> DEFINE old == tab[t].draft
           doc == Sanitized(old)
<1>1. /\ SessionOK(session) /\ run' = run /\ asks' = asks
      /\ IsPayload(old) /\ session' = Stored(session, doc)
      /\ tab = [u \in Tabs |-> tab[u]] /\ tab[t] = [f \in {"draft", "dirty", "ask"} |-> tab[t][f]]
      /\ tab' = [tab EXCEPT ![t].draft = doc, ![t].dirty = FALSE] \/ tab' = tab
  BY DEF DeskInv, TabsOK, UpdateFinalReview
<1> HIDE DEF doc
<1>2. session'.result = doc /\ session'.turns = session.turns
  BY <1>1, StoredFields
<1>3. tab'[t].ask = tab[t].ask
  BY <1>1
<1>4. Saves(t)
  BY <1>1, <1>2, <1>3, DraftsAreThere DEF Saves, doc
<1>5. ~Wraps(old) => Prose(doc) = Prose(old)
  <2> SUFFICES ASSUME ~Wraps(old) PROVE Prose(doc) = Prose(old)
    OBVIOUS
  <2>1. IsReview(old)
    BY <1>1 DEF IsPayload, IsReview
  <2> HIDE DEF old
  <2>2. doc["comments"] = old["comments"] /\ IsReview(doc)
    BY <2>1, FilledIn, SanitizingTwice DEF Canonical, doc
  <2> QED
    BY <2>1, <2>2, ReviewsAreThere
<1>6. \A e \in Prose(session.result) \ Prose(session'.result) :
        e \notin Prose(old) \/ Wraps(old)
  BY <1>2, <1>5
<1> HIDE DEF Saves
<1> QED
  BY <1>2, <1>3, <1>4, <1>6 DEF TextIsKept

\* The chair answers: the patch is merged into the very review that is stored.
LEMMA AnswerKeeps ==
  ASSUME DeskInv, NEW t \in Tabs, Answer(t) PROVE TextIsKept
<1> DEFINE ask == tab[t].ask
           patchOf(proposal) == Filtered(proposal, ask.requested)
           mergedOf(proposal) == Merged(ask.base, patchOf(proposal))
<1>1. /\ SessionOK(session) /\ ask # NoAsk
      /\ IsReview(ask.base) /\ ask.requested \in BOOLEAN /\ asks \in 1 .. MaxAsks
      /\ tab = [u \in Tabs |-> tab[u]] /\ tab[t] = [f \in {"draft", "dirty", "ask"} |-> tab[t][f]]
      /\ tab' = [tab EXCEPT ![t].ask = NoAsk]
  BY DEF DeskInv, TabsOK, AskOK, Answer
<1>2. tab[t].ask # tab'[t].ask
  BY <1>1
<1>3. PICK proposal \in Proposals(ask.base) :
        \/ session' = session
        \/ session' = Turned(session, patchOf(proposal))
        \/ /\ session.result = ask.original
           /\ session' = Stored(Turned(session, patchOf(proposal)),
                                Sanitized(mergedOf(proposal)))
           /\ unwrapped' = Wraps(mergedOf(proposal))
  BY AnswersAre
<1> DEFINE patch == patchOf(proposal)
           turn == Turned(session, patch)
<1>4. /\ IsPatch(patch)
      /\ "comments" \in DOMAIN patch => ask.base["comments"] \subseteq patch["comments"]
  BY <1>1, ProposalsArePatches
<1> HIDE DEF patchOf
<1>5. /\ SessionOK(turn) /\ turn.result = session.result
      /\ \A n \in DOMAIN session.turns :
           n \in DOMAIN turn.turns /\ turn.turns[n] = session.turns[n]
  BY <1>1, <1>4, TurnIsFree
<1> HIDE DEF turn
<1>6. CASE session' = session
  BY <1>6, NothingTaken
<1>7. CASE session' = turn
  BY <1>5, <1>7, NothingTaken
<1>8. CASE /\ session.result = ask.original
           /\ session' = Stored(turn, Sanitized(mergedOf(proposal)))
           /\ unwrapped' = Wraps(mergedOf(proposal))
  <2> DEFINE m == mergedOf(proposal)
             doc == Sanitized(m)
  <2>1. session'.result = doc /\ session'.turns = turn.turns
    BY <1>5, <1>8, StoredFields
  <2>2. IsPayload(m) /\ IsReview(doc)
    BY <1>1, <1>4, MergedIsPayload, ReviewsArePayloads, SanitizedIsReview
  <2>3. ~Wraps(m) => Prose(ask.base) \subseteq Prose(doc)
    <3>1. ~Wraps(m) => ask.base["comments"] \subseteq doc["comments"]
      BY <1>1, <1>4, ChairKeepsProse
    <3> HIDE DEF doc, m
    <3> QED
      BY <1>1, <2>2, <3>1, ReviewsAreThere
  <2>4. unwrapped' = Wraps(m)
    BY <1>8
  <2> HIDE DEF m, doc
  <2>5. \A e \in Prose(session.result) \ Prose(session'.result) :
          e \notin Prose(ask.base) \/ unwrapped'
    BY <2>1, <2>3, <2>4
  <2> QED
    BY <1>2, <1>5, <1>8, <2>1, <2>5 DEF TextIsKept
<1> QED
  BY <1>3, <1>6, <1>7, <1>8 DEF turn

LEMMA DeskKeeps == ASSUME DeskInv, [DeskNext]_deskVars PROVE [TextIsKept]_deskVars
<1>1. SessionOK(session)
  BY DEF DeskInv
<1>2. CASE \/ LaunchReview \/ RetrySession \/ BeginSearch \/ EndSearch \/ Synthesize
           \/ FailRun \/ CancelPipeline \/ EndCancelled \/ Restart
  BY <1>2, RunKeeps
<1>3. ASSUME NEW t \in Tabs, UpdateFinalReview(t) \/ Answer(t) PROVE TextIsKept
  BY <1>3, UpdateKeeps, AnswerKeeps
<1>4. ASSUME NEW t \in Tabs,
             \/ Open(t) \/ EditText(t) \/ EditScore(t) \/ EditRating(t)
             \/ ApplyPatch(t) \/ Ask(t) \/ AnswerFails(t)
      PROVE  TextIsKept
  <2>1. session' = session
    BY <1>4 DEF Open, EditText, EditScore, EditRating, ApplyPatch, Ask, AnswerFails
  <2> QED
    BY <2>1, NothingTaken
<1>5. CASE GetReviewPacket
  <2>1. session'.result = session.result /\ session'.turns = session.turns
    BY <1>1, <1>5 DEF GetReviewPacket, SessionOK, SessionFields
  <2> QED
    BY <2>1, NothingTaken
<1>6. CASE UNCHANGED deskVars
  BY <1>6
<1> QED
  BY <1>2, <1>3, <1>4, <1>5, <1>6 DEF DeskNext

\* For any tabs, syntheses, patches and numbers of edits, runs and questions: a
\* saved text is lost only to a new run, to a tab or a question that had not
\* seen it, or to a review that was nested when it was sent; never to a late
\* answer, to the search that writes back what it read, or to an export; and
\* no turn of the chair is lost (api.py:1809-2284, schemas.py:511-519,
\* pipeline.py:238-460).
THEOREM SavedTextIsKept == DeskSpec => EditsSurvive
<1>1. DeskInv /\ [DeskNext]_deskVars => DeskInv'
  BY DeskStep
<1>2. DeskInv /\ [DeskNext]_deskVars => [TextIsKept]_deskVars
  BY DeskKeeps
<1>3. QED
  BY <1>1, <1>2, InitSound, PTL DEF DeskSpec, EditsSurvive
-----------------------------------------------------------------------------
(* What the guard of decisions is good for. *)

\* The chair answers as it is asked to: a patch wraps no review and names the
\* fields of the review by their own names.
PlainPatches == Wrappings = {} /\ \A p \in ChairRatings : "soundness" \notin DOMAIN p

\* Then no draft wraps a review, and what a question shows is canonical.
ShownAreCanonical ==
  /\ \A n \in 1 .. Len(session.turns) : "final_review" \notin DOMAIN session.turns[n]
  /\ \A t \in Tabs : tab[t].draft # NoReview => ~Wraps(tab[t].draft)
  /\ \A t \in Tabs : tab[t].ask # NoAsk => Canonical(tab[t].ask.base)

\* A patch from which the decisions were held back decides nothing, also after
\* the ratings have filled each other in.
LEMMA HeldBack ==
  ASSUME PlainPatches, NEW base, Canonical(base), asks \in 1 .. MaxAsks,
         NEW proposal \in Proposals(base)
  PROVE  \A k \in ProtectedFields :
           Sanitized(Merged(base, Filtered(proposal, FALSE)))[k] = base[k]
<1> DEFINE patch == Filtered(proposal, FALSE)
           m == Merged(base, patch)
<1>1. IsReview(base) /\ Sanitized(base) = base /\ IsPatch(patch)
      /\ "final_review" \notin DOMAIN patch
  BY ProposalsArePatches DEF Canonical, PlainPatches
<1>2. IsReview(m)
  BY <1>1, MergedIsPayload, ReviewsArePayloads DEF IsPayload, IsReview
<1>3. DOMAIN patch \cap Ratings = {}
  <2>1. DOMAIN proposal \cap Ratings \subseteq ProtectedFields
    <3>1. CASE proposal \in ChairRatings
      BY <3>1, DeskAssumption DEF PlainPatches, ProtectedFields
    <3>2. CASE proposal = [comments |-> base["comments"] \cup {MaxEdits + asks}]
      BY <3>2, KeysAreDistinct
    <3>3. CASE proposal = NoPatch
      BY <3>3 DEF NoPatch
    <3>4. Wrappings = {}
      BY DEF PlainPatches
    <3> QED
      BY <3>1, <3>2, <3>3, <3>4 DEF Proposals
  <2>2. DOMAIN patch = DOMAIN proposal \ ProtectedFields
    BY DEF Filtered
  <2> QED
    BY <2>1, <2>2
<1> HIDE DEF patch
<1>4. \A k \in Ratings : m[k] = base[k]
  BY <1>3, KeysAreDistinct DEF Merged
<1> HIDE DEF m
<1>5. \A k \in ProtectedFields : Sanitized(m)[k] = Sanitized(base)[k]
  <2>1. /\ Sanitized(m)["overall_merit"] = Sanitized(base)["overall_merit"]
        /\ Sanitized(m)["final_recommendation"] = Sanitized(base)["final_recommendation"]
        /\ Sanitized(m)["recommended_action"] = Sanitized(base)["recommended_action"]
        /\ Sanitized(m)["technical_soundness"] = Sanitized(base)["technical_soundness"]
    BY <1>1, <1>2, <1>4, FilledIn, KeysAreDistinct
  <2> QED
    BY <2>1 DEF ProtectedFields, Ratings
<1> QED
  BY <1>1, <1>5 DEF m, patch

\* The chair's history never gets a patch that wraps a review.
LEMMA TurnsArePlain ==
  ASSUME PlainPatches, DeskInv, ShownAreCanonical, [DeskNext]_deskVars
  PROVE  \A n \in 1 .. Len(session'.turns) : "final_review" \notin DOMAIN session'.turns[n]
<1> DEFINE Plain(turns) == \A n \in 1 .. Len(turns) : "final_review" \notin DOMAIN turns[n]
<1>1. SessionOK(session) /\ RunOK /\ TabsOK /\ Plain(session.turns)
  BY DEF DeskInv, ShownAreCanonical
<1>2. CASE session'.turns = session.turns
  BY <1>1, <1>2
<1>3. ASSUME NEW t \in Tabs, Answer(t) PROVE Plain(session'.turns)
  <2> DEFINE ask == tab[t].ask
             patchOf(proposal) == Filtered(proposal, ask.requested)
  <2>1. IsReview(ask.base) /\ ask.requested \in BOOLEAN /\ asks \in 1 .. MaxAsks
    BY <1>1, <1>3 DEF TabsOK, AskOK, Answer
  <2>2. PICK proposal \in Proposals(ask.base) :
          \/ session' = session
          \/ session' = Turned(session, patchOf(proposal))
          \/ \E doc : session' = Stored(Turned(session, patchOf(proposal)), doc)
    BY <1>3, AnswersAre
  <2> DEFINE patch == patchOf(proposal)
             turns == Append(session.turns, patch)
  <2>3. IsPatch(patch) /\ "final_review" \notin DOMAIN patch
    BY <2>1, ProposalsArePatches DEF PlainPatches
  <2> HIDE DEF patchOf
  <2>4. SessionOK(Turned(session, patch))
    BY <1>1, <2>3, TurnIsFree
  <2>5. Turned(session, patch).turns = turns
    BY <1>1 DEF Turned, SessionOK, SessionFields
  <2>6. session'.turns = session.turns \/ session'.turns = turns
    BY <2>2, <2>4, <2>5, StoredFields
  <2>7. /\ turns[Len(turns)] = patch
        /\ \A n \in 1 .. Len(session.turns) : turns[n] = session.turns[n]
        /\ \A n \in 1 .. Len(turns) : n \in 1 .. Len(session.turns) \/ n = Len(turns)
    BY <1>1, Appending DEF SessionOK, TurnsOK
  <2> HIDE DEF turns, patch
  <2>8. Plain(turns)
    BY <1>1, <2>3, <2>7
  <2> QED
    BY <1>1, <2>6, <2>8
<1>4. ASSUME NEW t \in Tabs, UpdateFinalReview(t) PROVE session'.turns = session.turns
  BY <1>1, <1>4, StoredFields DEF UpdateFinalReview
<1>5. ASSUME NEW t \in Tabs,
             \/ Open(t) \/ EditText(t) \/ EditScore(t) \/ EditRating(t)
             \/ ApplyPatch(t) \/ Ask(t) \/ AnswerFails(t)
      PROVE  session'.turns = session.turns
  BY <1>5 DEF Open, EditText, EditScore, EditRating, ApplyPatch, Ask, AnswerFails
<1>6. CASE LaunchReview \/ Synthesize
  <2>1. PICK doc, status : session' = [Stored(session, doc) EXCEPT !.status = status]
    BY <1>6 DEF LaunchReview, Synthesize
  <2>2. session'.turns = session.turns
    BY <1>1, <2>1, StoredFields
  <2> QED
    BY <1>2, <2>2
<1>7. CASE RetrySession \/ FailRun \/ CancelPipeline \/ EndCancelled
  <2>1. PICK status : session' = [session EXCEPT !.status = status]
    BY <1>7 DEF RetrySession, FailRun, CancelPipeline, EndCancelled
  <2>2. session'.turns = session.turns
    BY <1>1, <2>1, StoredFields
  <2> QED
    BY <1>2, <2>2
<1>8. CASE Restart
  <2>1. session' = session \/ session' = [session EXCEPT !.status = "stopped"]
    BY <1>8 DEF Restart
  <2>2. [session EXCEPT !.status = "stopped"].turns = session.turns
    BY <1>1, StoredFields
  <2>3. session'.turns = session.turns
    BY <2>1, <2>2
  <2> QED
    BY <1>2, <2>3
<1>9. CASE EndSearch
  <2>1. session' = [session EXCEPT !.web = TRUE]
    BY <1>1, <1>9 DEF EndSearch, RunOK
  <2>2. session'.turns = session.turns
    BY <1>1, <2>1 DEF SessionOK, SessionFields
  <2> QED
    BY <1>2, <2>2
<1>10. CASE GetReviewPacket
  <2>1. session'.turns = session.turns
    BY <1>1, <1>10 DEF GetReviewPacket, SessionOK, SessionFields
  <2> QED
    BY <1>2, <2>1
<1>11. CASE BeginSearch \/ UNCHANGED deskVars
  <2>1. session' = session
    BY <1>11 DEF BeginSearch, deskVars
  <2> QED
    BY <1>2, <2>1
<1> QED
  BY <1>2, <1>3, <1>4, <1>5, <1>6, <1>7, <1>8, <1>9, <1>10, <1>11 DEF DeskNext

\* What one tab does leaves the drafts plain and the questions canonical.
LEMMA PlainTab ==
  ASSUME PlainPatches, DeskInv, ShownAreCanonical, NEW t \in Tabs,
         \/ Open(t) \/ EditText(t) \/ EditScore(t) \/ EditRating(t)
         \/ ApplyPatch(t) \/ UpdateFinalReview(t)
         \/ Ask(t) \/ Answer(t) \/ AnswerFails(t)
  PROVE  /\ \A u \in Tabs \ {t} : tab'[u] = tab[u]
         /\ tab'[t].draft # NoReview => ~Wraps(tab'[t].draft)
         /\ tab'[t].ask # NoAsk => Canonical(tab'[t].ask.base)
<1> DEFINE old == tab[t].draft
<1>1. /\ SessionOK(session) /\ TabsOK /\ tab = [u \in Tabs |-> tab[u]]
      /\ tab[t] = [f \in {"draft", "dirty", "ask"} |-> tab[t][f]]
      /\ old = NoReview \/ (IsPayload(old) /\ ~Wraps(old))
      /\ tab[t].ask # NoAsk => Canonical(tab[t].ask.base)
  BY DEF DeskInv, TabsOK, ShownAreCanonical
<1>2. ASSUME NEW form, ~Wraps(form),
             \/ tab' = [tab EXCEPT ![t].draft = form]
             \/ tab' = [tab EXCEPT ![t].draft = form, ![t].dirty = TRUE]
             \/ tab' = [tab EXCEPT ![t].draft = form, ![t].dirty = FALSE]
      PROVE  /\ \A u \in Tabs \ {t} : tab'[u] = tab[u]
             /\ ~Wraps(tab'[t].draft) /\ tab'[t].ask = tab[t].ask
  <2>1. tab'[t].draft = form /\ tab'[t].ask = tab[t].ask
    BY <1>1, <1>2
  <2>2. \A u \in Tabs \ {t} : tab'[u] = tab[u]
    BY <1>1, <1>2
  <2> QED
    BY <1>2, <2>1, <2>2
<1>3. CASE Open(t)
  <2>1. ~Wraps(session.result) /\ tab' = [tab EXCEPT ![t].draft = session.result]
    BY <1>1, <1>3 DEF Open, SessionOK, IsReview
  <2> QED
    BY <1>1, <1>2, <2>1
<1>4. CASE EditText(t)
  <2> DEFINE edited == [old EXCEPT !["comments"] = @ \cup {edits + 1}]
  <2>1. IsPayload(old) /\ ~Wraps(old) /\ Edited(t, edited)
    BY <1>1, <1>4 DEF EditText
  <2> HIDE DEF old
  <2>2. edited["final_review"] = old["final_review"]
    BY <2>1, KeysAreDistinct DEF IsPayload, IsForm
  <2> HIDE DEF edited
  <2> QED
    BY <1>1, <1>2, <2>1, <2>2 DEF Edited, Wraps
<1>5. CASE EditScore(t)
  <2>1. PICK s \in Scores :
          Edited(t, [old EXCEPT !["overall_merit"] = s, !["final_recommendation"] = s,
                                !["recommended_action"] = Empty])
    BY <1>5 DEF EditScore
  <2> DEFINE edited == [old EXCEPT !["overall_merit"] = s, !["final_recommendation"] = s,
                                   !["recommended_action"] = Empty]
  <2>2. IsPayload(old) /\ ~Wraps(old) /\ Edited(t, edited)
    BY <1>1, <1>5, <2>1 DEF EditScore
  <2> HIDE DEF old
  <2>3. edited["final_review"] = old["final_review"]
    BY <2>2, KeysAreDistinct DEF IsPayload, IsForm
  <2> HIDE DEF edited
  <2> QED
    BY <1>1, <1>2, <2>2, <2>3 DEF Edited, Wraps
<1>6. CASE EditRating(t) \/ ApplyPatch(t)
  <2>1. PICK p : IsPatch(p) /\ "final_review" \notin DOMAIN p /\ Edited(t, Merged(old, p))
    <3>1. CASE EditRating(t)
      <4>1. PICK p \in FormRatings : Edited(t, Merged(old, p))
        BY <3>1 DEF EditRating
      <4>2. IsPatch(p) /\ "final_review" \notin DOMAIN p
        BY DeskAssumption, KeysAreDistinct DEF IsPatch, Values
      <4> QED
        BY <4>1, <4>2
    <3>2. CASE ApplyPatch(t)
      <4>1. PICK n \in DOMAIN session.turns : Edited(t, Merged(old, session.turns[n]))
        BY <3>2 DEF ApplyPatch
      <4>2. TurnsOK(session.turns) /\ n \in 1 .. Len(session.turns)
        BY <1>1, <4>1 DEF SessionOK, TurnsOK
      <4>3. IsPatch(session.turns[n]) /\ "final_review" \notin DOMAIN session.turns[n]
        BY <4>2 DEF TurnsOK, ShownAreCanonical
      <4> QED
        BY <4>1, <4>3
    <3> QED
      BY <1>6, <3>1, <3>2
  <2>2. IsPayload(old) /\ ~Wraps(old)
    BY <1>1, <1>6 DEF EditRating, ApplyPatch
  <2>3. ~Wraps(Merged(old, p))
    BY <2>1, <2>2, MergedIsPayload
  <2> QED
    BY <1>1, <1>2, <2>1, <2>3 DEF Edited
<1>7. CASE UpdateFinalReview(t)
  <2> DEFINE doc == Sanitized(old)
  <2>1. IsPayload(old) /\ (tab' = [tab EXCEPT ![t].draft = doc, ![t].dirty = FALSE] \/ tab' = tab)
    BY <1>1, <1>7 DEF UpdateFinalReview
  <2>2. ~Wraps(doc)
    BY <2>1, SanitizedIsReview, ReviewsArePayloads
  <2> HIDE DEF doc, old
  <2> QED
    BY <1>1, <1>2, <2>1, <2>2 DEF old
<1>8. CASE Ask(t)
  <2> DEFINE shown == IF tab[t].draft = NoReview THEN session.result ELSE tab[t].draft
  <2>1. IsReview(shown)
    BY <1>1, <1>8 DEF SessionOK, Ask, IsPayload, IsReview
  <2>2. Canonical(Sanitized(shown))
    BY <2>1, SanitizingTwice
  <2>3. PICK ask : ask.base = Sanitized(shown) /\ tab' = [tab EXCEPT ![t].ask = ask]
    BY <1>8 DEF Ask
  <2> HIDE DEF shown
  <2>4. /\ tab'[t].ask = ask /\ tab'[t].draft = old
        /\ \A u \in Tabs \ {t} : tab'[u] = tab[u]
    BY <1>1, <2>3
  <2> QED
    BY <1>1, <2>2, <2>3, <2>4
<1>9. CASE Answer(t) \/ AnswerFails(t)
  <2>1. tab' = [tab EXCEPT ![t].ask = NoAsk]
    BY <1>9 DEF Answer, AnswerFails
  <2>2. /\ tab'[t].ask = NoAsk /\ tab'[t].draft = old
        /\ \A u \in Tabs \ {t} : tab'[u] = tab[u]
    BY <1>1, <2>1
  <2> QED
    BY <1>1, <2>2
<1> QED
  BY <1>3, <1>4, <1>5, <1>6, <1>7, <1>8, <1>9

LEMMA ShownNext ==
  ASSUME PlainPatches, DeskInv, ShownAreCanonical, [DeskNext]_deskVars
  PROVE  ShownAreCanonical'
<1>1. SUFFICES /\ \A t \in Tabs : tab'[t].draft # NoReview => ~Wraps(tab'[t].draft)
               /\ \A t \in Tabs : tab'[t].ask # NoAsk => Canonical(tab'[t].ask.base)
  BY TurnsArePlain DEF ShownAreCanonical
<1>2. CASE tab' = tab
  BY <1>2 DEF ShownAreCanonical
<1>3. CASE Restart
  <2>1. \A t \in Tabs : /\ tab'[t] = [tab[t] EXCEPT !.ask = NoAsk]
                        /\ tab[t] = [f \in {"draft", "dirty", "ask"} |-> tab[t][f]]
    BY <1>3 DEF Restart, DeskInv, TabsOK
  <2>2. \A t \in Tabs : tab'[t].ask = NoAsk /\ tab'[t].draft = tab[t].draft
    BY <2>1
  <2> QED
    BY <2>2 DEF ShownAreCanonical
<1>4. ASSUME NEW t \in Tabs,
             \/ Open(t) \/ EditText(t) \/ EditScore(t) \/ EditRating(t)
             \/ ApplyPatch(t) \/ UpdateFinalReview(t)
             \/ Ask(t) \/ Answer(t) \/ AnswerFails(t)
      PROVE  /\ \A u \in Tabs : tab'[u].draft # NoReview => ~Wraps(tab'[u].draft)
             /\ \A u \in Tabs : tab'[u].ask # NoAsk => Canonical(tab'[u].ask.base)
  <2>1. /\ \A u \in Tabs \ {t} : tab'[u] = tab[u]
        /\ tab'[t].draft # NoReview => ~Wraps(tab'[t].draft)
        /\ tab'[t].ask # NoAsk => Canonical(tab'[t].ask.base)
    BY <1>4, PlainTab
  <2> QED
    BY <2>1 DEF ShownAreCanonical
<1>5. CASE \/ LaunchReview \/ RetrySession \/ BeginSearch \/ EndSearch \/ Synthesize
           \/ FailRun \/ CancelPipeline \/ EndCancelled \/ GetReviewPacket \/ UNCHANGED deskVars
  <2>1. tab' = tab
    BY <1>5 DEF LaunchReview, RetrySession, BeginSearch, EndSearch, Synthesize, FailRun,
                CancelPipeline, EndCancelled, GetReviewPacket, deskVars
  <2> QED
    BY <1>2, <2>1
<1> QED
  BY <1>3, <1>4, <1>5 DEF DeskNext

LEMMA AnswerHolds ==
  ASSUME PlainPatches, DeskInv, ShownAreCanonical, NEW t \in Tabs, Answer(t)
  PROVE  DecisionsHeld
<1> DEFINE ask == tab[t].ask
           patchOf(proposal) == Filtered(proposal, ask.requested)
           merged(proposal) == Sanitized(Merged(ask.base, patchOf(proposal)))
<1>1. /\ SessionOK(session) /\ ask # NoAsk /\ Canonical(ask.base)
      /\ ask.requested \in BOOLEAN /\ asks \in 1 .. MaxAsks /\ TabsOK
      /\ tab' = [tab EXCEPT ![t].ask = NoAsk]
  BY DEF DeskInv, TabsOK, AskOK, Answer, ShownAreCanonical
<1>2. PICK proposal \in Proposals(ask.base) :
        \/ session' = session
        \/ session' = Turned(session, patchOf(proposal))
        \/ session' = Stored(Turned(session, patchOf(proposal)), merged(proposal))
  BY AnswersAre
<1> DEFINE turn == Turned(session, patchOf(proposal))
<1>3. SessionOK(turn) /\ turn.result = session.result
  <2>1. IsPatch(patchOf(proposal))
    BY <1>1, ProposalsArePatches DEF Canonical
  <2> HIDE DEF patchOf
  <2> QED
    BY <1>1, <2>1, TurnIsFree
<1>4. ~ask.requested => \A k \in ProtectedFields : merged(proposal)[k] = ask.base[k]
  <2> SUFFICES ASSUME ~ask.requested
               PROVE  \A k \in ProtectedFields : merged(proposal)[k] = ask.base[k]
    OBVIOUS
  <2>1. ask.requested = FALSE
    BY <1>1
  <2> QED
    BY <1>1, <2>1, HeldBack
<1> HIDE DEF turn, merged
<1>5. session'.result # session.result => session'.result = merged(proposal)
  BY <1>2, <1>3, StoredFields DEF turn
<1>6. \A u \in Tabs : tab[u].ask # NoAsk /\ tab'[u].ask = NoAsk => u = t
  BY <1>1 DEF TabsOK
<1> QED
  BY <1>4, <1>5, <1>6 DEF DecisionsHeld

LEMMA DecisionsStay ==
  ASSUME PlainPatches, DeskInv, ShownAreCanonical, [DeskNext]_deskVars
  PROVE  [DecisionsHeld]_deskVars
<1>1. TabsOK /\ SessionOK(session)
  BY DEF DeskInv
<1>2. ASSUME NEW t \in Tabs, Answer(t) PROVE DecisionsHeld
  BY <1>2, AnswerHolds
<1>3. CASE Restart
  <2>1. session' = session \/ session' = [session EXCEPT !.status = "stopped"]
    BY <1>3 DEF Restart
  <2>2. [session EXCEPT !.status = "stopped"].result = session.result
    BY <1>1, StoredFields
  <2>3. session'.result = session.result
    BY <2>1, <2>2
  <2> QED
    BY <2>3 DEF DecisionsHeld
<1>4. ASSUME NEW t \in Tabs,
             \/ Open(t) \/ EditText(t) \/ EditScore(t) \/ EditRating(t)
             \/ ApplyPatch(t) \/ Ask(t) \/ AnswerFails(t)
      PROVE  DecisionsHeld
  BY <1>4 DEF Open, EditText, EditScore, EditRating, ApplyPatch, Ask, AnswerFails,
              DecisionsHeld
<1>5. ASSUME NEW t \in Tabs, UpdateFinalReview(t) PROVE DecisionsHeld
  <2>1. \A u \in Tabs : tab'[u].ask = tab[u].ask
    BY <1>1, <1>5 DEF TabsOK, UpdateFinalReview
  <2> QED
    BY <2>1 DEF DecisionsHeld
<1>6. CASE \/ LaunchReview \/ RetrySession \/ BeginSearch \/ EndSearch \/ Synthesize
           \/ FailRun \/ CancelPipeline \/ EndCancelled \/ GetReviewPacket
  <2>1. tab' = tab
    BY <1>6 DEF LaunchReview, RetrySession, BeginSearch, EndSearch, Synthesize, FailRun,
                CancelPipeline, EndCancelled, GetReviewPacket
  <2> QED
    BY <2>1 DEF DecisionsHeld
<1> QED
  BY <1>2, <1>3, <1>4, <1>5, <1>6 DEF DeskNext

\* For any tabs, ratings and numbers of edits, runs and questions: a chair who
\* was not asked to decide decides nothing ("decision fields are protected",
\* README.md:107; api.py:1957-1988), also where one rating fills in for
\* another.  Assumed: a patch wraps no review and uses no alias, the two forms
\* that the guard does not see.
THEOREM PlainPatchesDecideNothing ==
  ASSUME PlainPatches PROVE DeskSpec => DecisionsOnlyOnRequest
<1>1. DeskInit => ShownAreCanonical
  BY DEF DeskInit, ShownAreCanonical
<1>2. DeskInv /\ [DeskNext]_deskVars => DeskInv'
  BY DeskStep
<1>3. DeskInv /\ ShownAreCanonical /\ [DeskNext]_deskVars =>
        ShownAreCanonical' /\ [DecisionsHeld]_deskVars
  BY ShownNext, DecisionsStay
<1>4. QED
  BY <1>1, <1>2, <1>3, InitSound, PTL DEF DeskSpec, DecisionsOnlyOnRequest

-----------------------------------------------------------------------------
(***************************************************************************)
(* An ontology is sound: for any answers, required types and seeds, any    *)
(* number of samples, and calls that fail or are cut off at any time.      *)
(*                                                                         *)
(* The argument: the keys with enough votes are in a total order, so each  *)
(* has one place in the draft and the keys before it have as many votes;   *)
(* what is kept of the draft keeps its order, so what the cap cuts off     *)
(* comes after all that is added; and enough votes are those of two        *)
(* samples, or of one that says a name twice.                              *)
(***************************************************************************)
IsOrder(S, R) ==
  /\ \A x \in S : <<x, x>> \notin R
  /\ \A x, y \in S : x # y => <<x, y>> \in R \/ <<y, x>> \in R
  /\ \A x, y, z \in S : <<x, y>> \in R /\ <<y, z>> \in R => <<x, z>> \in R

\* In an order every member of a finite set has its place, after those before it.
LEMMA RankedIs ==
  ASSUME NEW S, IsFiniteSet(S), NEW R, IsOrder(S, R)
  PROVE  LET n == Cardinality(S)
             s == Ranked(S, R)
         IN  /\ n \in Nat /\ s \in [1..n -> S]
             /\ \A x \in S : \E k \in 1..n : s[k] = x
             /\ \A j, k \in 1..n : j < k => <<s[j], s[k]>> \in R /\ s[j] # s[k]
<1> DEFINE n == Cardinality(S)
<1> DEFINE below(x) == {y \in S : <<y, x>> \in R}
<1> DEFINE f == [x \in S |-> Cardinality(below(x))]
<1> DEFINE s == Ranked(S, R)
<1>1. n \in Nat
  BY FS_CardinalityType
<1>2. \A x \in S : below(x) \subseteq S /\ x \notin below(x)
  BY DEF IsOrder
<1>3. \A x \in S : IsFiniteSet(below(x)) /\ f[x] \in 0..(n - 1)
  <2> SUFFICES ASSUME NEW x \in S PROVE IsFiniteSet(below(x)) /\ Cardinality(below(x)) \in 0..(n - 1)
    OBVIOUS
  <2>1. below(x) \subseteq S /\ x \notin below(x)
    BY <1>2
  <2> HIDE DEF below
  <2>2. IsFiniteSet(below(x)) /\ Cardinality(below(x)) <= n /\ Cardinality(below(x)) # n
    BY <2>1, FS_Subset
  <2>3. Cardinality(below(x)) \in Nat
    BY <2>2, FS_CardinalityType
  <2>4. QED
    BY <1>1, <2>2, <2>3
<1>4. ASSUME NEW x \in S, NEW y \in S, <<x, y>> \in R PROVE f[x] < f[y]
  <2>1. below(x) \subseteq below(y) /\ x \in below(y) /\ x \notin below(x)
    BY <1>4 DEF IsOrder
  <2>2. IsFiniteSet(below(y)) /\ IsFiniteSet(below(x))
    BY <1>3
  <2> HIDE DEF below
  <2>3. Cardinality(below(x)) <= Cardinality(below(y)) /\ Cardinality(below(x)) # Cardinality(below(y))
    BY <2>1, <2>2, FS_Subset
  <2>4. Cardinality(below(x)) \in Nat /\ Cardinality(below(y)) \in Nat
    BY <2>2, FS_CardinalityType
  <2>5. QED
    BY <2>3, <2>4
<1>5. \A x, y \in S : x # y => f[x] # f[y]
  <2> SUFFICES ASSUME NEW x \in S, NEW y \in S, x # y PROVE f[x] # f[y]
    OBVIOUS
  <2>1. f[x] \in Int /\ f[y] \in Int
    BY <1>1, <1>3
  <2> HIDE DEF f
  <2>2. f[x] < f[y] \/ f[y] < f[x]
    BY <1>4 DEF IsOrder
  <2>3. QED
    BY <2>1, <2>2
<1>6. f \in Injection(S, 0..(n - 1))
  <2>1. f \in [S -> 0..(n - 1)]
    BY <1>3
  <2> HIDE DEF f
  <2>2. QED
    BY <1>5, <2>1 DEF Injection, IsInjective
<1>7. \A k \in 0..(n - 1) : \E x \in S : f[x] = k
  <2>1. IsFiniteSet(0..(n - 1)) /\ Cardinality(0..(n - 1)) = n
    BY <1>1, FS_Interval
  <2> HIDE DEF f
  <2>2. f \in Surjection(S, 0..(n - 1))
    BY <1>6, <2>1, FS_Injection
  <2>3. QED
    BY <2>2 DEF Surjection
<1>8. \A k \in 1..n : s[k] \in S /\ f[s[k]] = k - 1
  <2> SUFFICES ASSUME NEW k \in 1..n PROVE s[k] \in S /\ f[s[k]] = k - 1
    OBVIOUS
  <2>1. s[k] = CHOOSE x \in S : Cardinality(below(x)) = k - 1
    BY DEF Ranked
  <2>2. k - 1 \in 0..(n - 1)
    BY <1>1
  <2>3. \E x \in S : Cardinality(below(x)) = k - 1
    BY <1>7, <2>2
  <2> HIDE DEF s, below
  <2>4. s[k] \in S /\ Cardinality(below(s[k])) = k - 1
    BY <2>1, <2>3
  <2>5. QED
    BY <2>4
<1>9. s \in [1..n -> S]
  <2> DEFINE at(k) == CHOOSE x \in S : Cardinality(below(x)) = k - 1
  <2>1. s = [k \in 1..n |-> at(k)]
    BY DEF Ranked
  <2> HIDE DEF s, f, at, n
  <2>2. \A k \in 1..n : at(k) \in S
    BY <1>8, <2>1
  <2>3. QED
    BY <2>1, <2>2
<1> HIDE DEF f, s, below
<1>10. ASSUME NEW x \in S PROVE \E k \in 1..n : s[k] = x
  <2>1. f[x] + 1 \in 1..n /\ (f[x] + 1) - 1 = f[x]
    BY <1>1, <1>3
  <2>2. s[f[x] + 1] \in S /\ f[s[f[x] + 1]] = f[x]
    BY <1>8, <2>1
  <2>3. s[f[x] + 1] = x
    BY <1>5, <2>2
  <2>4. QED
    BY <2>1, <2>3
<1>11. ASSUME NEW j \in 1..n, NEW k \in 1..n, j < k PROVE <<s[j], s[k]>> \in R /\ s[j] # s[k]
  <2>1. s[j] \in S /\ s[k] \in S /\ f[s[j]] = j - 1 /\ f[s[k]] = k - 1
    BY <1>8
  <2>2. f[s[j]] < f[s[k]]
    BY <1>1, <1>11, <2>1
  <2>3. ~(f[s[k]] < f[s[j]]) /\ f[s[j]] # f[s[k]]
    BY <1>1, <2>1, <2>2
  <2>4. QED
    BY <1>4, <2>1, <2>3 DEF IsOrder
<1>12. QED
  BY <1>1, <1>9, <1>10, <1>11 DEF s

IsSeq(s) == Len(s) \in Nat /\ DOMAIN s = 1..Len(s)

\* What is kept of a sequence, by its places there.
OnlyAt(s, seq, W, p) ==
  /\ IsSeq(s) /\ p \in [1..Len(s) -> 1..Len(seq)]
  /\ \A k \in 1..Len(s) : s[k] = seq[p[k]] /\ s[k] \in W
  /\ \A j, k \in 1..Len(s) : j < k => p[j] < p[k]
  /\ \A i \in 1..Len(seq) : seq[i] \in W => \E k \in 1..Len(s) : p[k] = i

\* What is kept of a sequence stays in order, and all that is wanted is kept.
LEMMA OnlyOfIs ==
  ASSUME NEW seq, IsSeq(seq), NEW W
  PROVE  \E p : OnlyAt(OnlyOf(seq, W), seq, W, p)
<1> DEFINE at == {i \in DOMAIN seq : seq[i] \in W}
<1> DEFINE R == {q \in at \X at : q[1] < q[2]}
<1> DEFINE p == Ranked(at, R)
<1> DEFINE s == OnlyOf(seq, W)
<1>1. at \subseteq 1..Len(seq) /\ Len(seq) \in Nat /\ \A i \in at : seq[i] \in W
  BY DEF IsSeq
<1>2. \A i, j \in at : <<i, j>> \in R <=> i < j
  OBVIOUS
<1>3. \A i \in 1..Len(seq) : seq[i] \in W => i \in at
  BY DEF IsSeq
<1>4. s = [k \in DOMAIN p |-> seq[p[k]]]
  BY DEF OnlyOf
<1> HIDE DEF at, R, s
<1>5. IsFiniteSet(at)
  <2>1. IsFiniteSet(1..Len(seq))
    BY <1>1, FS_Interval
  <2>2. QED
    BY <1>1, <2>1, FS_Subset
<1>6. IsOrder(at, R)
  BY <1>1, <1>2 DEF IsOrder
<1> DEFINE n == Cardinality(at)
<1>7. /\ n \in Nat /\ p \in [1..n -> at]
      /\ \A x \in at : \E k \in 1..n : p[k] = x
      /\ \A j, k \in 1..n : j < k => <<p[j], p[k]>> \in R
  BY <1>5, <1>6, RankedIs
<1> HIDE DEF p, n
<1>8. s = [k \in 1..n |-> seq[p[k]]]
  BY <1>4, <1>7
<1>9. Len(s) = n /\ DOMAIN s = 1..n
  BY <1>7, <1>8
<1>10. p \in [1..n -> 1..Len(seq)]
  BY <1>1, <1>7
<1>11. \A k \in 1..n : s[k] = seq[p[k]] /\ s[k] \in W
  BY <1>1, <1>7, <1>8
<1>12. \A j, k \in 1..n : j < k => p[j] < p[k]
  BY <1>2, <1>7
<1>13. OnlyAt(s, seq, W, p)
  BY <1>3, <1>7, <1>9, <1>10, <1>11, <1>12 DEF OnlyAt, IsSeq
<1>14. QED
  BY <1>13 DEF s

\* How names came of a draft: with the required ones, without those left out, and with
\* none missing but for others, before it in the draft, that fill the cap.
Beside(names, required) == {n \in ToSet(names) : n \notin ToSet(required)}
MergedOf(names, src, required, out) ==
  /\ IsInjective(names) /\ ToSet(required) \subseteq ToSet(names)
  /\ IsFiniteSet(ToSet(names)) /\ Cardinality(Beside(names, required)) <= Cap
  /\ \A n \in Beside(names, required) : n \notin out /\ \E j \in 1..Len(src) : src[j] = n
  /\ \A i \in 1..Len(src) :
       \/ src[i] \in out \cup ToSet(names)
       \/ /\ Cardinality(Beside(names, required)) = Cap
          /\ \A n \in Beside(names, required) : \E j \in 1..Len(src) : j < i /\ src[j] = n

LEMMA CappedIs ==
  ASSUME NEW s, IsSeq(s)
  PROVE  LET c == Capped(s)
             m == IF Len(s) < Cap THEN Len(s) ELSE Cap
         IN  m \in Nat /\ Len(c) = m /\ DOMAIN c = 1..m /\ \A k \in 1..m : c[k] = s[k]
<1> DEFINE m == IF Len(s) < Cap THEN Len(s) ELSE Cap
<1>1. m \in Nat /\ m <= Len(s) /\ Len(s) \in Nat
  BY OntologyAssumption DEF IsSeq
<1>2. Capped(s) = SubSeq(s, 1, m)
  BY DEF Capped
<1>3. SubSeq(s, 1, m) = [k \in 1..m |-> s[k]]
  <2> HIDE DEF m
  <2>1. SubSeq(s, 1, m) = [k \in 1..(1 + m - 1) |-> s[k + 1 - 1]]
    BY <1>1
  <2>2. (1 + m) - 1 = m /\ \A k \in 1..m : (k + 1) - 1 = k
    BY <1>1
  <2>3. QED
    BY <2>1, <2>2
<1> HIDE DEF m
<1>4. Len([k \in 1..m |-> s[k]]) = m
  BY <1>1
<1>5. QED
  BY <1>1, <1>2, <1>3, <1>4 DEF m

\* The first of what is kept.
LEMMA AddedIs ==
  ASSUME NEW own, IsSeq(own), NEW required
  PROVE  \E p : LET a == Added(own, required)
                    m == Len(a)
                IN  /\ m \in Nat /\ m <= Cap /\ DOMAIN a = 1..m /\ p \in [1..m -> 1..Len(own)]
                    /\ \A k \in 1..m : a[k] = own[p[k]] /\ a[k] \notin ToSet(required)
                    /\ \A j, k \in 1..m : j < k => p[j] < p[k]
                    /\ \A i \in 1..Len(own) : own[i] \notin ToSet(required) =>
                         \/ \E k \in 1..m : p[k] = i
                         \/ m = Cap /\ \A k \in 1..m : p[k] < i
<1> DEFINE W == ToSet(own) \ ToSet(required)
<1> DEFINE s == OnlyOf(own, W)
<1> DEFINE a == Capped(s)
<1> DEFINE m == Len(a)
<1>1. Added(own, required) = a
  BY DEF Added
<1>2. \A i \in 1..Len(own) : own[i] \in ToSet(own)
  BY DEF ToSet, IsSeq
<1>3. \A i \in 1..Len(own) : own[i] \notin ToSet(required) => own[i] \in W
  BY <1>2
<1>4. \A x \in W : x \notin ToSet(required)
  OBVIOUS
<1> HIDE DEF W
<1>5. PICK p : OnlyAt(s, own, W, p)
  BY OnlyOfIs
<1> HIDE DEF s
<1>6. IsSeq(s)
  BY <1>5 DEF OnlyAt
<1>7. /\ m = (IF Len(s) < Cap THEN Len(s) ELSE Cap) /\ m \in Nat
      /\ DOMAIN a = 1..m /\ \A k \in 1..m : a[k] = s[k]
  BY <1>6, CappedIs
<1> HIDE DEF a, m
<1>8. Len(s) \in Nat /\ Cap \in Nat /\ m <= Cap /\ m <= Len(s) /\ Len(own) \in Nat
  <2>1. Cap \in Nat
    BY OntologyAssumption
  <2>2. Len(s) \in Nat /\ Len(own) \in Nat
    BY <1>6 DEF IsSeq
  <2>3. m = (IF Len(s) < Cap THEN Len(s) ELSE Cap)
    BY <1>7
  <2>4. QED
    BY ONLY <2>1, <2>2, <2>3
<1>9. /\ p \in [1..Len(s) -> 1..Len(own)]
      /\ \A k \in 1..Len(s) : s[k] = own[p[k]] /\ s[k] \in W
      /\ \A j, k \in 1..Len(s) : j < k => p[j] < p[k]
      /\ \A i \in 1..Len(own) : own[i] \in W => \E k \in 1..Len(s) : p[k] = i
  BY <1>5 DEF OnlyAt
<1>10. 1..m \subseteq 1..Len(s)
  BY <1>7, <1>8
<1> DEFINE q == [k \in 1..m |-> p[k]]
<1>11. q \in [1..m -> 1..Len(own)]
  BY <1>9, <1>10
<1>12. \A k \in 1..m : q[k] = p[k]
  OBVIOUS
<1> HIDE DEF q
<1>13. \A k \in 1..m : a[k] = own[q[k]] /\ a[k] \notin ToSet(required)
  BY <1>4, <1>7, <1>9, <1>10, <1>12
<1>14. \A j, k \in 1..m : j < k => q[j] < q[k]
  BY <1>9, <1>10, <1>12
<1>15. ASSUME NEW i \in 1..Len(own), own[i] \notin ToSet(required)
       PROVE  \/ \E k \in 1..m : q[k] = i
              \/ m = Cap /\ \A k \in 1..m : q[k] < i
  <2>1. PICK j \in 1..Len(s) : p[j] = i
    BY <1>3, <1>9, <1>15
  <2>2. CASE j \in 1..m
    BY <1>12, <2>1, <2>2
  <2>3. CASE j \notin 1..m
    <3>1. m = Cap
      BY <1>7, <1>8, <2>3
    <3>2. \A k \in 1..m : k < j
      BY ONLY <1>7, <1>8, <2>3, j \in 1..Len(s)
    <3>3. \A k \in 1..m : q[k] < i
      BY <1>9, <1>10, <1>12, <2>1, <3>2
    <3>4. QED
      BY <3>1, <3>3
  <2>4. QED
    BY <2>2, <2>3
<1>16. QED
  <2>1. /\ m \in Nat /\ m <= Cap /\ DOMAIN a = 1..m /\ q \in [1..m -> 1..Len(own)]
        /\ \A k \in 1..m : a[k] = own[q[k]] /\ a[k] \notin ToSet(required)
        /\ \A j, k \in 1..m : j < k => q[j] < q[k]
        /\ \A i \in 1..Len(own) : own[i] \notin ToSet(required) =>
             \/ \E k \in 1..m : q[k] = i
             \/ m = Cap /\ \A k \in 1..m : q[k] < i
    BY <1>7, <1>8, <1>11, <1>13, <1>14, <1>15
  <2>2. Len(Added(own, required)) = m
    BY <1>1 DEF m
  <2>3. QED
    BY <1>1, <2>1, <2>2

LEMMA JoinedIs ==
  ASSUME NEW s, IsSeq(s), NEW t, IsSeq(t)
  PROVE  LET n == Len(s) + Len(t)
         IN  /\ n \in Nat /\ DOMAIN (s \o t) = 1..n
             /\ \A k \in 1..n : (s \o t)[k] = IF k <= Len(s) THEN s[k] ELSE t[k - Len(s)]
BY DEF IsSeq

\* The names that are added are not required ones, and none of them comes twice.
LEMMA Merges ==
  ASSUME NEW src, IsSeq(src), IsInjective(src), NEW required, IsSeq(required), IsInjective(required),
         NEW own, NEW W, NEW q, OnlyAt(own, src, W, q),
         NEW out, \A x \in W : x \notin out, \A i \in 1..Len(src) : src[i] \in W \cup out
  PROVE  MergedOf(required \o Added(own, required), src, required, out)
<1> DEFINE a == Added(own, required)
<1> DEFINE names == required \o a
<1> DEFINE m == Len(a)
<1> DEFINE size == Len(src)
<1> DEFINE K == Len(own)
<1>1. /\ K \in Nat /\ q \in [1..K -> 1..size]
      /\ \A k \in 1..K : own[k] = src[q[k]] /\ own[k] \in W
      /\ \A j, k \in 1..K : j < k => q[j] < q[k]
      /\ \A i \in 1..size : src[i] \in W => \E k \in 1..K : q[k] = i
  BY DEF OnlyAt, IsSeq
<1>2. IsSeq(own) /\ size \in Nat
  BY DEF OnlyAt, IsSeq
<1>3. PICK p : /\ m \in Nat /\ m <= Cap /\ DOMAIN a = 1..m /\ p \in [1..m -> 1..K]
               /\ \A k \in 1..m : a[k] = own[p[k]] /\ a[k] \notin ToSet(required)
               /\ \A j, k \in 1..m : j < k => p[j] < p[k]
               /\ \A i \in 1..K : own[i] \notin ToSet(required) =>
                    \/ \E k \in 1..m : p[k] = i
                    \/ m = Cap /\ \A k \in 1..m : p[k] < i
  BY <1>2, AddedIs
<1> DEFINE L == Len(required)
<1>4. IsSeq(a) /\ L \in Nat /\ DOMAIN required = 1..L /\ DOMAIN src = 1..size
  BY <1>3 DEF IsSeq
<1>5. /\ DOMAIN names = 1..(L + m)
      /\ \A k \in 1..(L + m) : names[k] = IF k <= L THEN required[k] ELSE a[k - L]
  BY <1>4, JoinedIs
<1> HIDE DEF a, names, m, size, K, L
<1> DEFINE r(k) == q[p[k]]
<1>6. /\ \A k \in 1..m : r(k) \in 1..size /\ a[k] = src[r(k)] /\ a[k] \in W
      /\ \A j, k \in 1..m : j < k => r(j) < r(k)
  BY <1>1, <1>3
<1>7. \A i \in 1..size : src[i] \in W /\ src[i] \notin ToSet(required) =>
        \/ \E k \in 1..m : r(k) = i
        \/ m = Cap /\ \A k \in 1..m : r(k) < i
  <2> SUFFICES ASSUME NEW i \in 1..size, src[i] \in W, src[i] \notin ToSet(required)
               PROVE  \/ \E k \in 1..m : r(k) = i
                      \/ m = Cap /\ \A k \in 1..m : r(k) < i
    OBVIOUS
  <2>1. PICK k \in 1..K : q[k] = i
    BY <1>1
  <2>2. own[k] \notin ToSet(required)
    BY <1>1, <2>1
  <2>3. \/ \E j \in 1..m : p[j] = k
        \/ m = Cap /\ \A j \in 1..m : p[j] < k
    BY <1>3, <2>2
  <2>4. \A j \in 1..m : p[j] < k => q[p[j]] < i
    BY <1>1, <1>3, <2>1
  <2>5. QED
    BY <2>1, <2>3, <2>4
<1> HIDE DEF r
<1>8. \A j, k \in 1..m : a[j] = a[k] => j = k
  <2> SUFFICES ASSUME NEW j \in 1..m, NEW k \in 1..m, a[j] = a[k] PROVE j = k
    OBVIOUS
  <2>1. r(j) = r(k) /\ r(j) \in 1..size
    BY <1>4, <1>6 DEF IsInjective
  <2>2. (j < k => r(j) < r(k)) /\ (k < j => r(k) < r(j))
    BY <1>6
  <2>3. ~(r(j) < r(j))
    BY <2>1
  <2>4. ~(j < k) /\ ~(k < j)
    BY <2>1, <2>2, <2>3
  <2>5. QED
    BY <2>4
<1>9. ToSet(required) = {required[k] : k \in 1..L}
  BY <1>4 DEF ToSet
<1>10. ToSet(names) = ToSet(required) \cup {a[k] : k \in 1..m}
  <2>1. ToSet(names) = {names[k] : k \in 1..(L + m)}
    BY <1>5 DEF ToSet
  <2>2. \A k \in 1..(L + m) : names[k] \in ToSet(required) \cup {a[j] : j \in 1..m}
    BY <1>3, <1>4, <1>5, <1>9
  <2>3. \A k \in 1..L : k \in 1..(L + m) /\ required[k] = names[k]
    BY <1>3, <1>4, <1>5
  <2>4. \A k \in 1..m : L + k \in 1..(L + m) /\ a[k] = names[L + k]
    BY <1>3, <1>4, <1>5
  <2>5. QED
    BY <1>9, <2>1, <2>2, <2>3, <2>4
<1>11. IsInjective(names)
  <2> SUFFICES ASSUME NEW j \in 1..(L + m), NEW k \in 1..(L + m), names[j] = names[k], j < k PROVE FALSE
    BY <1>3, <1>4, <1>5 DEF IsInjective
  <2>1. CASE k <= L
    <3>1. j \in 1..L /\ k \in 1..L
      BY <1>3, <1>4, <2>1
    <3>2. required[j] = required[k]
      BY <1>5, <3>1
    <3>3. QED
      BY <1>3, <1>4, <3>1, <3>2 DEF IsInjective
  <2>2. CASE ~(k <= L) /\ j <= L
    <3>1. j \in 1..L /\ k - L \in 1..m
      BY <1>3, <1>4, <2>2
    <3>2. names[j] = required[j] /\ names[k] = a[k - L]
      BY <1>5, <2>2
    <3>3. required[j] \in ToSet(required)
      BY <1>9, <3>1
    <3>4. QED
      BY <1>3, <3>1, <3>2, <3>3
  <2>3. CASE ~(j <= L)
    <3>1. j - L \in 1..m /\ k - L \in 1..m /\ ~(k <= L)
      BY <1>3, <1>4, <2>3
    <3>2. names[j] = a[j - L] /\ names[k] = a[k - L]
      BY <1>5, <2>3, <3>1
    <3>3. j - L = k - L
      BY <1>8, <3>1, <3>2
    <3>4. QED
      BY <1>3, <1>4, <3>3
  <2>4. QED
    BY <2>1, <2>2, <2>3
<1>12. Beside(names, required) = {a[k] : k \in 1..m}
  BY <1>3, <1>10 DEF Beside
<1> DEFINE B == {a[k] : k \in 1..m}
<1>13. IsFiniteSet(B) /\ Cardinality(B) = m
  <2> DEFINE g == [k \in 1..m |-> a[k]]
  <2>1. g \in Bijection(1..m, B)
    BY <1>8 DEF Bijection, Injection, Surjection, IsInjective
  <2>2. IsFiniteSet(1..m) /\ Cardinality(1..m) = m
    BY <1>3, FS_Interval
  <2> HIDE DEF g, B
  <2>3. ExistsBijection(1..m, B)
    BY <2>1 DEF ExistsBijection
  <2>4. QED
    BY <2>2, <2>3, FS_Bijection
<1>14. IsFiniteSet(ToSet(required))
  <2> DEFINE g == [k \in 1..L |-> required[k]]
  <2>1. g \in Surjection(1..L, ToSet(required))
    BY <1>9 DEF Surjection
  <2>2. IsFiniteSet(1..L)
    BY <1>4, FS_Interval
  <2> HIDE DEF g
  <2>3. QED
    BY <2>1, <2>2, FS_Surjection
<1>15. IsFiniteSet(ToSet(names))
  BY <1>10, <1>13, <1>14, FS_Union
<1>16. Cardinality(Beside(names, required)) = m
  BY <1>12, <1>13
<1>17. \A n \in Beside(names, required) : n \notin out /\ \E j \in 1..size : src[j] = n
  BY <1>6, <1>12
<1>18. ASSUME NEW i \in 1..size, src[i] \notin out \cup ToSet(names)
       PROVE  m = Cap /\ \A n \in Beside(names, required) : \E j \in 1..size : j < i /\ src[j] = n
  <2>1. src[i] \in W
    BY <1>18 DEF size
  <2>2. ~ \E k \in 1..m : r(k) = i
    BY <1>6, <1>10, <1>18
  <2>3. m = Cap /\ \A k \in 1..m : r(k) < i
    BY <1>7, <1>10, <1>18, <2>1, <2>2
  <2>4. QED
    BY <1>6, <1>12, <2>3
<1>19. MergedOf(names, src, required, out)
  BY <1>3, <1>10, <1>11, <1>15, <1>16, <1>17, <1>18 DEF MergedOf, size
<1>20. QED
  BY <1>19 DEF names, a

\* A sequence is all kept of itself.
LEMMA MergedWhole ==
  ASSUME NEW src, IsSeq(src), IsInjective(src), NEW required, IsSeq(required), IsInjective(required)
  PROVE  MergedOf(required \o Added(src, required), src, required, {})
<1> DEFINE W == ToSet(src)
<1> DEFINE q == [k \in 1..Len(src) |-> k]
<1>1. \A i \in 1..Len(src) : src[i] \in W
  BY DEF ToSet, IsSeq
<1> HIDE DEF W
<1>2. OnlyAt(src, src, W, q)
  BY <1>1 DEF OnlyAt, IsSeq
<1> HIDE DEF q
<1>3. (\A x \in W : x \notin {}) /\ \A i \in 1..Len(src) : src[i] \in W \cup {}
  BY <1>1
<1>4. QED
  BY <1>2, <1>3, Merges

LEMMA MergedPart ==
  ASSUME NEW src, IsSeq(src), IsInjective(src), NEW required, IsSeq(required), IsInjective(required), NEW W
  PROVE  MergedOf(required \o Added(OnlyOf(src, W), required), src, required, ToSet(src) \ W)
<1> DEFINE out == ToSet(src) \ W
<1>1. PICK q : OnlyAt(OnlyOf(src, W), src, W, q)
  BY OnlyOfIs
<1>2. (\A x \in W : x \notin out) /\ \A i \in 1..Len(src) : src[i] \in W \cup out
  BY DEF ToSet, IsSeq
<1> HIDE DEF out
<1>3. MergedOf(required \o Added(OnlyOf(src, W), required), src, required, out)
  BY <1>1, <1>2, Merges
<1>4. QED
  BY <1>3 DEF out

-----------------------------------------------------------------------------
(* Votes. *)

Fields == {"types", "edges"}
Discoveries == [types : Seq(DOMAIN Key), edges : Seq(DOMAIN Key)]
SamplesOK ==
  IsSeq(sample) /\ \A i \in 1..Len(sample) : sample[i] = Asked \/ sample[i] \in Discoveries
Heard == IsSeq(sample) /\ \A i \in 1..Len(sample) : sample[i] \in Discoveries

LEMMA CountedAre ==
  ASSUME Heard
  PROVE  /\ IsFiniteSet(Counted) /\ Threshold \in {1, 2}
         /\ \A i \in Counted : i \in Nat /\ \A f \in Fields : IsSeq(sample[i][f])
<1>1. Counted \subseteq 1..Len(sample) /\ Len(sample) \in Nat
  BY DEF Heard, IsSeq, Counted
<1>2. IsFiniteSet(1..Len(sample))
  BY <1>1, FS_Interval
<1>3. IsFiniteSet(Counted)
  BY <1>1, <1>2, FS_Subset
<1>4. \A i \in Counted : i \in Nat /\ sample[i] \in Discoveries
  BY <1>1 DEF Heard
<1>5. \A i \in Counted : \A f \in Fields : IsSeq(sample[i][f])
  BY <1>4 DEF Discoveries, Fields, IsSeq
<1>6. QED
  BY <1>3, <1>4, <1>5 DEF Threshold

LEMMA VotesAre ==
  ASSUME Heard, NEW f \in Fields, NEW k
  PROVE  /\ IsFiniteSet(Votes(f, k)) /\ Votes(f, k) \subseteq Nat \X Nat
         /\ \A p \in Votes(f, k) : Key[sample[p[1]][f][p[2]]] = k
         /\ \A i \in Counted : \A j \in 1..Len(sample[i][f]) :
              Key[sample[i][f][j]] = k => <<i, j>> \in Votes(f, k)
<1> DEFINE J(i) == {j \in DOMAIN sample[i][f] : Key[sample[i][f][j]] = k}
<1> DEFINE G == {{i} \X J(i) : i \in Counted}
<1> DEFINE g == [i \in Counted |-> {i} \X J(i)]
<1>1. IsFiniteSet(Counted) /\ \A i \in Counted : i \in Nat /\ IsSeq(sample[i][f])
  BY CountedAre
<1>2. \A i \in Counted : J(i) \subseteq 1..Len(sample[i][f]) /\ Len(sample[i][f]) \in Nat
  BY <1>1 DEF IsSeq
<1>3. Votes(f, k) = UNION G
  BY DEF Votes
<1>4. IsFiniteSet(G)
  <2>1. g \in Surjection(Counted, G)
    BY DEF Surjection
  <2> HIDE DEF g, G
  <2>2. QED
    BY <1>1, <2>1, FS_Surjection
<1>5. ASSUME NEW i \in Counted PROVE IsFiniteSet({i} \X J(i))
  <2>1. IsFiniteSet(1..Len(sample[i][f]))
    BY <1>2, FS_Interval
  <2>2. IsFiniteSet({i})
    BY FS_Singleton
  <2>3. J(i) \subseteq 1..Len(sample[i][f])
    BY <1>2
  <2> HIDE DEF J
  <2>4. IsFiniteSet(J(i))
    BY <2>1, <2>3, FS_Subset
  <2>5. QED
    BY <2>2, <2>4, FS_Product
<1>6. IsFiniteSet(UNION G)
  <2>1. \A T \in G : IsFiniteSet(T)
    BY <1>5
  <2> HIDE DEF G
  <2>2. QED
    BY <1>4, <2>1, FS_UNION
<1>7. ASSUME NEW p \in Votes(f, k)
      PROVE  p \in Nat \X Nat /\ Key[sample[p[1]][f][p[2]]] = k
  <2>1. PICK i \in Counted : p \in {i} \X J(i)
    BY <1>3, <1>7
  <2>2. p = <<p[1], p[2]>> /\ p[1] = i /\ p[2] \in J(i)
    BY <2>1
  <2>3. p[2] \in 1..Len(sample[i][f])
    BY <1>2, <2>2
  <2>4. p[1] \in Nat /\ p[2] \in Nat
    BY <1>1, <1>2, <2>2, <2>3
  <2>5. QED
    BY <2>2, <2>4
<1>8. ASSUME NEW i \in Counted, NEW j \in 1..Len(sample[i][f]), Key[sample[i][f][j]] = k
      PROVE  <<i, j>> \in Votes(f, k)
  <2>1. j \in J(i)
    BY <1>1, <1>8 DEF IsSeq
  <2> HIDE DEF J
  <2>2. <<i, j>> \in {i} \X J(i)
    BY <2>1
  <2>3. QED
    BY <1>3, <2>2
<1>9. QED
  BY <1>3, <1>6, <1>7, <1>8

\* Enough votes are those of two samples of three, of one of fewer, or of one that says a
\* name twice.
LEMMA EnoughAgree ==
  ASSUME Heard, NEW f \in Fields, NEW k
  PROVE  /\ Cardinality(Voters(f, k)) >= Threshold => Cardinality(Votes(f, k)) >= Threshold
         /\ Cardinality(Votes(f, k)) >= Threshold =>
              Cardinality(Voters(f, k)) >= Threshold \/ Repeated(f, k)
<1> DEFINE V == Votes(f, k)
<1> DEFINE S == Voters(f, k)
<1> DEFINE g == [p \in V |-> p[1]]
<1>1. IsFiniteSet(V)
  BY VotesAre
<1>2. g \in Surjection(V, S)
  BY DEF Surjection, Voters
<1>3. Threshold \in Nat
  BY CountedAre
<1>4. ~Repeated(f, k) => g \in Injection(V, S)
  <2> SUFFICES ASSUME ~Repeated(f, k) PROVE g \in Injection(V, S)
    OBVIOUS
  <2>1. \A p, q \in V : p[1] = q[1] => p = q
    BY DEF Repeated
  <2>2. g \in [V -> S]
    BY DEF Voters
  <2> HIDE DEF V, S
  <2>3. QED
    BY <2>1, <2>2 DEF Injection, IsInjective
<1> HIDE DEF g, V, S
<1>5. /\ IsFiniteSet(S) /\ Cardinality(S) <= Cardinality(V)
      /\ (Cardinality(S) = Cardinality(V) <=> g \in Injection(V, S))
  BY <1>1, <1>2, FS_Surjection
<1>6. Cardinality(S) \in Nat /\ Cardinality(V) \in Nat
  BY <1>1, <1>5, FS_CardinalityType
<1>7. /\ Cardinality(S) >= Threshold => Cardinality(V) >= Threshold
      /\ Cardinality(V) >= Threshold => Cardinality(S) >= Threshold \/ Repeated(f, k)
  BY <1>3, <1>4, <1>5, <1>6
<1>8. QED
  BY <1>7 DEF S, V

\* Of some votes one is the earliest.
LEMMA EarliestVote ==
  ASSUME NEW V \in SUBSET (Nat \X Nat), V # {}
  PROVE  \E p \in V : \A q \in V : q = p \/ Earlier(p, q)
<1> DEFINE I == {p[1] : p \in V}
<1>1. I \subseteq Nat /\ I # {}
  OBVIOUS
<1> HIDE DEF I
<1>2. PICK i \in I : \A j \in I : i <= j
  BY <1>1, Least
<1> DEFINE J == {p[2] : p \in {q \in V : q[1] = i}}
<1>3. J \subseteq Nat /\ J # {}
  BY DEF I
<1> HIDE DEF J
<1>4. PICK j \in J : \A m \in J : j <= m
  BY <1>3, Least
<1>5. PICK p \in V : p[1] = i /\ p[2] = j
  BY <1>4 DEF J
<1>6. ASSUME NEW q \in V PROVE q = p \/ Earlier(p, q)
  <2>1. q = <<q[1], q[2]>> /\ p = <<p[1], p[2]>> /\ q[1] \in Nat /\ q[2] \in Nat /\ i \in Nat /\ j \in Nat
    BY <1>1, <1>2, <1>3, <1>4
  <2>2. i <= q[1]
    BY <1>2 DEF I
  <2>3. q[1] = i => j <= q[2]
    BY <1>4 DEF J
  <2>4. QED
    BY <1>5, <2>1, <2>2, <2>3 DEF Earlier
<1>7. QED
  BY <1>6

LEMMA NamedAre ==
  ASSUME Heard, NEW f \in Fields
  PROVE  /\ IsFiniteSet(Named(f))
         /\ \A n \in Named(f) : Votes(f, Key[n]) # {}
<1> DEFINE G == {ToSet(sample[i][f]) : i \in Counted}
<1> DEFINE g == [i \in Counted |-> ToSet(sample[i][f])]
<1>1. IsFiniteSet(Counted) /\ \A i \in Counted : IsSeq(sample[i][f])
  BY CountedAre
<1>2. IsFiniteSet(G)
  <2>1. g \in Surjection(Counted, G)
    BY DEF Surjection
  <2> HIDE DEF g, G
  <2>2. QED
    BY <1>1, <2>1, FS_Surjection
<1>3. ASSUME NEW i \in Counted PROVE IsFiniteSet(ToSet(sample[i][f]))
  <2> DEFINE t == sample[i][f]
  <2> DEFINE h == [j \in 1..Len(t) |-> t[j]]
  <2>1. Len(t) \in Nat /\ DOMAIN t = 1..Len(t)
    BY <1>1 DEF IsSeq
  <2> HIDE DEF t
  <2>2. h \in Surjection(1..Len(t), ToSet(t))
    BY <2>1 DEF Surjection, ToSet
  <2>3. IsFiniteSet(1..Len(t))
    BY <2>1, FS_Interval
  <2> HIDE DEF h
  <2>4. IsFiniteSet(ToSet(t))
    BY <2>2, <2>3, FS_Surjection
  <2>5. QED
    BY <2>4 DEF t
<1>4. IsFiniteSet(UNION G)
  <2>1. \A T \in G : IsFiniteSet(T)
    BY <1>3
  <2> HIDE DEF G
  <2>2. QED
    BY <1>2, <2>1, FS_UNION
<1>5. Named(f) = UNION G
  BY DEF Named
<1>6. ASSUME NEW n \in Named(f) PROVE Votes(f, Key[n]) # {}
  <2>1. PICK i \in Counted : n \in ToSet(sample[i][f])
    BY <1>6 DEF Named
  <2>2. PICK j \in 1..Len(sample[i][f]) : sample[i][f][j] = n
    BY <1>1, <2>1 DEF ToSet, IsSeq
  <2>3. <<i, j>> \in Votes(f, Key[n])
    BY <2>2, VotesAre
  <2>4. QED
    BY <2>3
<1>7. QED
  BY <1>4, <1>5, <1>6

\* The keys with enough votes are in a total order: no two have their first vote at once.
LEMMA EnoughIsOrdered ==
  ASSUME Heard, NEW f \in Fields
  PROVE  /\ IsFiniteSet(Enough(f))
         /\ IsOrder(Enough(f), {p \in Enough(f) \X Enough(f) : Precedes(f, p[1], p[2])})
<1> DEFINE E == Enough(f)
<1> DEFINE R == {p \in E \X E : Precedes(f, p[1], p[2])}
<1> DEFINE c(k) == Cardinality(Votes(f, k))
<1> DEFINE ahead(j, k) == \E p \in Votes(f, j) : \A q \in Votes(f, k) : Earlier(p, q)
<1>1. IsFiniteSet(E)
  <2> DEFINE K == {Key[n] : n \in Named(f)}
  <2> DEFINE g == [n \in Named(f) |-> Key[n]]
  <2>1. g \in Surjection(Named(f), K)
    BY DEF Surjection
  <2>2. E \subseteq K
    BY DEF Enough
  <2> HIDE DEF g, K, E
  <2>3. IsFiniteSet(K)
    BY <2>1, NamedAre, FS_Surjection
  <2>4. QED
    BY <2>2, <2>3, FS_Subset
<1>2. \A k \in E : Votes(f, k) # {}
  BY NamedAre DEF Enough
<1>3. \A k \in E : c(k) \in Nat /\ Votes(f, k) \subseteq Nat \X Nat
  BY VotesAre, FS_CardinalityType
<1>4. \A j, k \in E : <<j, k>> \in R <=> c(j) > c(k) \/ (c(j) = c(k) /\ ahead(j, k))
  BY DEF Precedes
<1>5. \A k \in E : ~ahead(k, k)
  <2> SUFFICES ASSUME NEW k \in E, NEW p \in Votes(f, k), \A q \in Votes(f, k) : Earlier(p, q)
               PROVE  FALSE
    OBVIOUS
  <2>1. Earlier(p, p) /\ p[1] \in Nat /\ p[2] \in Nat
    BY <1>3
  <2>2. QED
    BY <2>1 DEF Earlier
<1>6. ASSUME NEW j \in E, NEW k \in E, NEW m \in E, ahead(j, k), ahead(k, m) PROVE ahead(j, m)
  <2>1. PICK p \in Votes(f, j) : \A q \in Votes(f, k) : Earlier(p, q)
    BY <1>6
  <2>2. PICK q \in Votes(f, k) : \A r \in Votes(f, m) : Earlier(q, r)
    BY <1>6
  <2>3. ASSUME NEW r \in Votes(f, m) PROVE Earlier(p, r)
    <3>1. Earlier(p, q) /\ Earlier(q, r)
      BY <2>1, <2>2
    <3>2. /\ p[1] \in Nat /\ p[2] \in Nat /\ q[1] \in Nat /\ q[2] \in Nat
          /\ r[1] \in Nat /\ r[2] \in Nat
      BY <1>3
    <3>3. QED
      BY <3>1, <3>2 DEF Earlier
  <2>4. QED
    BY <2>3
<1>7. ASSUME NEW j \in E, NEW k \in E, j # k PROVE ahead(j, k) \/ ahead(k, j)
  <2>1. PICK p \in Votes(f, j) : \A q \in Votes(f, j) : q = p \/ Earlier(p, q)
    BY <1>2, <1>3, EarliestVote
  <2>2. PICK q \in Votes(f, k) : \A r \in Votes(f, k) : r = q \/ Earlier(q, r)
    BY <1>2, <1>3, EarliestVote
  <2>3. p # q
    BY <1>7, VotesAre
  <2>4. p = <<p[1], p[2]>> /\ q = <<q[1], q[2]>> /\ p[1] \in Nat /\ p[2] \in Nat
        /\ q[1] \in Nat /\ q[2] \in Nat
    BY <1>3
  <2>5. Earlier(p, q) \/ Earlier(q, p)
    <3>1. p[1] # q[1] \/ p[2] # q[2]
      BY <2>3, <2>4
    <3>2. QED
      BY <2>4, <3>1 DEF Earlier
  <2>6. ASSUME Earlier(p, q), NEW r \in Votes(f, k) PROVE Earlier(p, r)
    <3>1. r = q \/ Earlier(q, r)
      BY <2>2
    <3>2. r[1] \in Nat /\ r[2] \in Nat
      BY <1>3
    <3>3. QED
      BY <2>4, <2>6, <3>1, <3>2 DEF Earlier
  <2>7. ASSUME Earlier(q, p), NEW r \in Votes(f, j) PROVE Earlier(q, r)
    <3>1. r = p \/ Earlier(p, r)
      BY <2>1
    <3>2. r[1] \in Nat /\ r[2] \in Nat
      BY <1>3
    <3>3. QED
      BY <2>4, <2>7, <3>1, <3>2 DEF Earlier
  <2>8. QED
    BY <2>5, <2>6, <2>7
<1> HIDE DEF ahead, c, R, E
<1>8. IsOrder(E, R)
  <2>1. \A x \in E : <<x, x>> \notin R
    BY <1>3, <1>4, <1>5
  <2>2. \A x, y \in E : x # y => <<x, y>> \in R \/ <<y, x>> \in R
    BY <1>3, <1>4, <1>7
  <2>3. \A x, y, z \in E : <<x, y>> \in R /\ <<y, z>> \in R => <<x, z>> \in R
    BY <1>3, <1>4, <1>6
  <2>4. QED
    BY <2>1, <2>2, <2>3 DEF IsOrder
<1>9. QED
  BY <1>1, <1>8 DEF E, R

\* A draft has one name for every key with enough votes, and the most votes come first.
Drafted(d, f) ==
  /\ IsSeq(d) /\ IsInjective(d)
  /\ \A i \in 1..Len(d) : Key[d[i]] \in Enough(f)
  /\ \A k \in Enough(f) : \E i \in 1..Len(d) : Key[d[i]] = k
  /\ \A i, j \in 1..Len(d) :
       i < j => Cardinality(Votes(f, Key[d[i]])) >= Cardinality(Votes(f, Key[d[j]]))

LEMMA SpelledAre ==
  ASSUME Heard, NEW f \in Fields, NEW d \in Spelled(f)
  PROVE  Drafted(d, f)
<1> DEFINE E == Enough(f)
<1> DEFINE R == {p \in E \X E : Precedes(f, p[1], p[2])}
<1> DEFINE s == Confirmed(f)
<1> DEFINE n == Cardinality(E)
<1> DEFINE c(k) == Cardinality(Votes(f, k))
<1>1. /\ n \in Nat /\ s \in [1..n -> E]
      /\ \A x \in E : \E k \in 1..n : s[k] = x
      /\ \A j, k \in 1..n : j < k => <<s[j], s[k]>> \in R /\ s[j] # s[k]
  <2>1. IsFiniteSet(E) /\ IsOrder(E, R)
    BY EnoughIsOrdered
  <2>2. s = Ranked(E, R)
    BY DEF Confirmed
  <2> HIDE DEF E, R, s
  <2>3. QED
    BY <2>1, <2>2, RankedIs
<1>2. \A j, k \in E : <<j, k>> \in R => c(j) >= c(k)
  <2>1. \A k \in E : c(k) \in Nat
    BY VotesAre, FS_CardinalityType
  <2>2. \A j, k \in E : <<j, k>> \in R => c(j) > c(k) \/ c(j) = c(k)
    BY DEF Precedes
  <2> HIDE DEF c, E, R
  <2>3. QED
    BY <2>1, <2>2
<1>3. d \in [DOMAIN s -> Named(f)] /\ \A i \in DOMAIN s : Key[d[i]] = s[i]
  BY DEF Spelled
<1> HIDE DEF E, R, s, n, c
<1>4. DOMAIN d = 1..n /\ Len(d) = n /\ \A i \in 1..n : Key[d[i]] = s[i]
  BY <1>1, <1>3
<1>5. IsInjective(d)
  <2> SUFFICES ASSUME NEW i \in 1..n, NEW j \in 1..n, d[i] = d[j] PROVE i = j
    BY <1>4 DEF IsInjective
  <2>1. s[i] = s[j]
    BY <1>4
  <2>2. ~(i < j) /\ ~(j < i)
    BY <1>1, <2>1
  <2>3. QED
    BY <1>1, <2>2
<1>6. ASSUME NEW i \in 1..n, NEW j \in 1..n, i < j PROVE c(Key[d[i]]) >= c(Key[d[j]])
  <2>1. s[i] \in E /\ s[j] \in E /\ <<s[i], s[j]>> \in R
    BY <1>1, <1>6
  <2>2. c(s[i]) >= c(s[j])
    BY <1>2, <2>1
  <2>3. QED
    BY <1>4, <2>2
<1>7. (\A i \in 1..n : Key[d[i]] \in E) /\ \A k \in E : \E i \in 1..n : Key[d[i]] = k
  BY <1>1, <1>4
<1>8. QED
  BY <1>1, <1>4, <1>5, <1>6, <1>7 DEF Drafted, IsSeq, c, E

-----------------------------------------------------------------------------
(* The workflow. *)

Elected ==
  IF draft = Silence THEN SeedOntology
  ELSE IF judged.answered THEN [draft EXCEPT !.types = OnlyOf(@, judged.grounded)]
  ELSE draft

OntologyInv ==
  /\ SamplesOK
  /\ stage \in {"idle", "discovery", "grounding", "done"}
  /\ stage = "idle" => sample = <<>>
  /\ stage # "done" => judged = NoVerdict
  /\ stage \in {"idle", "discovery"} => draft = Silence
  /\ stage \in {"grounding", "done"} =>
       /\ Heard /\ draft = [types |-> draft.types, edges |-> draft.edges]
       /\ Drafted(draft.types, "types") /\ Drafted(draft.edges, "edges")
  /\ stage = "grounding" => draft # Silence
  /\ stage = "done" =>
       /\ ontology = Validated(Elected) /\ judged.answered \in BOOLEAN
       /\ draft = Silence => judged = NoVerdict

LEMMA ConstantsAre ==
  /\ Cap \in Nat /\ IsSeq(Seeds) /\ IsInjective(Seeds)
  /\ \A f \in Fields : IsSeq(Required[f]) /\ IsInjective(Required[f])
<1>1. Required.types \in Seq(DOMAIN Key) /\ Required.edges \in Seq(DOMAIN Key)
  BY OntologyAssumption
<1>2. QED
  BY <1>1, OntologyAssumption DEF Fields, IsSeq

LEMMA EmptyIs == IsSeq(<<>>) /\ IsInjective(<<>>) /\ Len(<<>>) = 0
BY DEF IsSeq, IsInjective

\* What the result was merged of.
Source(f) ==
  IF draft = Silence THEN IF f = "types" THEN Seeds ELSE <<>>
  ELSE draft[f]
Rejected(f) ==
  IF f = "types" /\ judged.answered THEN ToSet(draft.types) \ judged.grounded ELSE {}

LEMMA ResultIs ==
  ASSUME OntologyInv, stage = "done", NEW f \in Fields
  PROVE  MergedOf(ontology[f], Source(f), Required[f], Rejected(f))
<1>1. IsSeq(Required[f]) /\ IsInjective(Required[f])
  BY ConstantsAre
<1>2. /\ ontology = Validated(Elected) /\ judged.answered \in BOOLEAN
      /\ draft = Silence => judged = NoVerdict
      /\ draft = [types |-> draft.types, edges |-> draft.edges]
      /\ Drafted(draft.types, "types") /\ Drafted(draft.edges, "edges")
  BY DEF OntologyInv
<1>3. ontology[f] = Required[f] \o Added(Elected[f], Required[f])
  <2>1. /\ Validated(Elected).types = Required.types \o Added(Elected.types, Required.types)
        /\ Validated(Elected).edges = Required.edges \o Added(Elected.edges, Required.edges)
    BY DEF Validated
  <2>2. f = "types" \/ f = "edges"
    BY DEF Fields
  <2>3. QED
    BY <1>2, <2>1, <2>2
<1>4. IsSeq(draft[f]) /\ IsInjective(draft[f])
  BY <1>2 DEF Drafted, Fields
<1>5. CASE draft = Silence
  <2>1. Rejected(f) = {}
    BY <1>2, <1>5 DEF Rejected, NoVerdict
  <2>2. Elected[f] = Source(f)
    BY <1>5 DEF Elected, Source, SeedOntology, Fields
  <2>3. IsSeq(Source(f)) /\ IsInjective(Source(f))
    BY <1>5, ConstantsAre, EmptyIs DEF Source
  <2>4. QED
    BY <1>1, <1>3, <2>1, <2>2, <2>3, MergedWhole
<1>6. CASE draft # Silence /\ judged.answered /\ f = "types"
  <2>1. Rejected(f) = ToSet(draft[f]) \ judged.grounded
    BY <1>6 DEF Rejected
  <2>2. Elected[f] = OnlyOf(draft[f], judged.grounded) /\ Source(f) = draft[f]
    BY <1>2, <1>6 DEF Elected, Source
  <2>3. QED
    BY <1>1, <1>3, <1>4, <2>1, <2>2, MergedPart
<1>7. CASE draft # Silence /\ ~(judged.answered /\ f = "types")
  <2>1. Rejected(f) = {} /\ Source(f) = draft[f]
    BY <1>7 DEF Rejected, Source
  <2>2. Elected[f] = draft[f]
    BY <1>2, <1>7 DEF Elected, Fields
  <2>3. QED
    BY <1>1, <1>3, <1>4, <2>1, <2>2, MergedWhole
<1>8. QED
  BY <1>5, <1>6, <1>7

LEMMA InvIsSound == ASSUME OntologyInv PROVE OntologySound
<1> SUFFICES ASSUME stage = "done" PROVE OntologySound
  BY DEF OntologySound
<1>1. /\ Heard /\ judged.answered \in BOOLEAN
      /\ draft = [types |-> draft.types, edges |-> draft.edges]
      /\ Drafted(draft.types, "types") /\ Drafted(draft.edges, "edges")
  BY DEF OntologyInv
<1> DEFINE Own(f) == {n \in ToSet(ontology[f]) : n \notin ToSet(Required[f])}
<1> DEFINE agreed(f, k) == Cardinality(Voters(f, k)) >= Threshold
<1> DEFINE rejected(f, n) == f = "types" /\ judged.answered /\ n \notin judged.grounded
<1> DEFINE c(f, k) == Cardinality(Votes(f, k))
<1>2. ASSUME NEW f \in Fields
      PROVE  /\ IsInjective(ontology[f]) /\ ToSet(Required[f]) \subseteq ToSet(ontology[f])
             /\ IsFiniteSet(ToSet(ontology[f])) /\ Cardinality(Own(f)) <= Cap
             /\ \A n \in Own(f) : n \notin Rejected(f) /\ \E j \in 1..Len(Source(f)) : Source(f)[j] = n
             /\ \A i \in 1..Len(Source(f)) :
                  \/ Source(f)[i] \in Rejected(f) \cup ToSet(ontology[f])
                  \/ /\ Cardinality(Own(f)) = Cap
                     /\ \A n \in Own(f) : \E j \in 1..Len(Source(f)) : j < i /\ Source(f)[j] = n
  <2>1. MergedOf(ontology[f], Source(f), Required[f], Rejected(f))
    BY ResultIs
  <2>2. Beside(ontology[f], Required[f]) = Own(f)
    BY DEF Beside
  <2> HIDE DEF Own
  <2>3. QED
    BY <2>1, <2>2 DEF MergedOf
<1>3. \A f \in Fields : Drafted(draft[f], f)
  BY <1>1 DEF Fields
<1>4. \A f \in Fields : \A i \in 1..Len(draft[f]) : draft[f][i] \in ToSet(draft[f])
  BY <1>3 DEF Drafted, IsSeq, ToSet
<1>5. ASSUME NEW f \in Fields, NEW n \in ToSet(draft[f]) PROVE rejected(f, n) <=> n \in Rejected(f)
  BY <1>5 DEF Rejected
<1>6. \A f \in Fields : \A k : k \in Enough(f) => c(f, k) >= Threshold
  BY DEF Enough
<1>7. \A f \in Fields : \A n \in Named(f) : c(f, Key[n]) >= Threshold => Key[n] \in Enough(f)
  BY DEF Enough
<1>8. ASSUME NEW f \in Fields, draft # Silence, NEW n \in Own(f)
      PROVE  ~rejected(f, n) /\ (agreed(f, Key[n]) \/ Repeated(f, Key[n]))
  <2>1. Source(f) = draft[f]
    BY <1>8 DEF Source
  <2>2. PICK j \in 1..Len(draft[f]) : draft[f][j] = n
    <3> HIDE DEF Own
    <3>1. \E j \in 1..Len(Source(f)) : Source(f)[j] = n
      BY <1>2
    <3>2. QED
      BY <2>1, <3>1
  <2>3. n \in ToSet(draft[f]) /\ n \notin Rejected(f)
    BY <1>2, <1>4, <2>2
  <2>4. c(f, Key[n]) >= Threshold
    BY <1>3, <1>6, <2>2 DEF Drafted
  <2> HIDE DEF rejected
  <2>5. QED
    BY <1>1, <1>5, <2>3, <2>4, EnoughAgree
<1>9. ASSUME NEW f \in Fields, NEW k \in {Key[n] : n \in Named(f)}, agreed(f, k)
      PROVE  \/ \E n \in ToSet(draft[f]) :
                  Key[n] = k /\ (n \in ToSet(ontology[f]) \/ rejected(f, n))
             \/ /\ Cardinality(Own(f)) = Cap
                /\ \A n \in Own(f) : c(f, Key[n]) >= c(f, k)
  <2>1. c(f, k) >= Threshold
    BY <1>1, <1>9, EnoughAgree
  <2>2. k \in Enough(f)
    BY <1>7, <2>1
  <2>3. PICK i \in 1..Len(draft[f]) : Key[draft[f][i]] = k
    BY <1>3, <2>2 DEF Drafted
  <2>4. draft # Silence
    BY <2>3, EmptyIs DEF Silence, Fields
  <2>5. Source(f) = draft[f]
    BY <2>4 DEF Source
  <2> DEFINE n == draft[f][i]
  <2>6. n \in ToSet(draft[f])
    BY <1>4
  <2>7. CASE n \in Rejected(f) \cup ToSet(ontology[f])
    <3> HIDE DEF rejected
    <3>1. n \in ToSet(ontology[f]) \/ rejected(f, n)
      BY <1>5, <2>6, <2>7
    <3>2. QED
      BY <2>3, <2>6, <3>1
  <2>8. CASE /\ Cardinality(Own(f)) = Cap
             /\ \A m \in Own(f) : \E j \in 1..Len(draft[f]) : j < i /\ draft[f][j] = m
    <3>1. \A j \in 1..Len(draft[f]) : j < i => c(f, Key[draft[f][j]]) >= c(f, Key[draft[f][i]])
      BY <1>3 DEF Drafted
    <3> HIDE DEF c, Own
    <3>2. QED
      BY <2>3, <2>8, <3>1
  <2>9. \/ n \in Rejected(f) \cup ToSet(ontology[f])
        \/ /\ Cardinality(Own(f)) = Cap
           /\ \A m \in Own(f) : \E j \in 1..Len(draft[f]) : j < i /\ draft[f][j] = m
    <3> HIDE DEF Own
    <3>1. \A l \in 1..Len(Source(f)) :
            \/ Source(f)[l] \in Rejected(f) \cup ToSet(ontology[f])
            \/ /\ Cardinality(Own(f)) = Cap
               /\ \A m \in Own(f) : \E j \in 1..Len(Source(f)) : j < l /\ Source(f)[j] = m
      BY <1>2
    <3>2. QED
      BY <2>5, <3>1
  <2>10. QED
    BY <2>7, <2>8, <2>9
<1>10. ASSUME draft = Silence, NEW n \in ToSet(Seeds)
       PROVE  n \in ToSet(ontology.types) \/ Cardinality(ToSet(ontology.types)) >= Cap
  <2>1. Source("types") = Seeds /\ "types" \in Fields
    BY <1>10 DEF Source, Fields
  <2>2. Rejected("types") = {}
    BY <1>10 DEF Rejected, OntologyInv, NoVerdict
  <2>3. PICK i \in 1..Len(Seeds) : Seeds[i] = n
    BY ConstantsAre DEF ToSet, IsSeq
  <2>4. CASE Cardinality(Own("types")) = Cap
    <3>1. Own("types") \subseteq ToSet(ontology.types)
      OBVIOUS
    <3>2. IsFiniteSet(ToSet(ontology.types))
      BY <1>2, <2>1
    <3> HIDE DEF Own
    <3>3. Cardinality(Own("types")) <= Cardinality(ToSet(ontology.types))
      BY <3>1, <3>2, FS_Subset
    <3>4. Cardinality(ToSet(ontology.types)) \in Nat /\ Cap \in Nat
      BY <3>2, FS_CardinalityType, ConstantsAre
    <3>5. QED
      BY <2>4, <3>3, <3>4
  <2>5. CASE n \in ToSet(ontology.types)
    BY <2>5
  <2>6. QED
    BY <1>2, <2>1, <2>2, <2>3, <2>4, <2>5
<1>11. QED
  BY <1>2, <1>8, <1>9, <1>10 DEF OntologySound, Fields

LEMMA ParsedAre == \A reply \in Replies : Parsed(reply) \subseteq Discoveries
<1> SUFFICES ASSUME NEW reply \in Replies PROVE Parsed(reply) \subseteq Discoveries
  OBVIOUS
<1>1. reply \in Discoveries
  BY OntologyAssumption DEF Discoveries
<1>2. reply.types \in Seq(DOMAIN Key) /\ reply.edges \in Seq(DOMAIN Key)
  BY <1>1 DEF Discoveries
<1>3. Silence \in Discoveries
  BY DEF Silence, Discoveries
<1>4. /\ \A n \in 0..Len(reply.types) : SubSeq(reply.types, 1, n) \in Seq(DOMAIN Key)
      /\ \A n \in 0..Len(reply.edges) : SubSeq(reply.edges, 1, n) \in Seq(DOMAIN Key)
  BY <1>2
<1>5. Salvaged(reply) \subseteq Discoveries
  <2>1. \A n \in 0..Len(reply.types) :
          [types |-> SubSeq(reply.types, 1, n), edges |-> SubSeq(reply.types, 1, n)] \in Discoveries
    BY <1>4 DEF Discoveries
  <2>2. \A n \in 0..Len(reply.edges) :
          [types |-> reply.types, edges |-> SubSeq(reply.edges, 1, n)] \in Discoveries
    BY <1>2, <1>4 DEF Discoveries
  <2>3. QED
    BY <2>1, <2>2 DEF Salvaged
<1>6. QED
  BY <1>1, <1>3, <1>5 DEF Parsed

LEMMA SomeAsked == \A a \in Discoveries : a # Asked
BY DEF Discoveries, Asked

\* No sample, no votes.
LEMMA NothingHeard ==
  ASSUME sample = <<>>
  PROVE  Heard /\ \A f \in Fields : Drafted(<<>>, f)
<1>1. Heard
  BY DEF Heard, IsSeq
<1>2. Counted = {}
  BY DEF Counted
<1>3. \A f : Enough(f) = {}
  BY <1>2 DEF Enough, Named
<1>4. \A f : Drafted(<<>>, f)
  BY <1>3, EmptyIs DEF Drafted
<1>5. QED
  BY <1>1, <1>4

LEMMA SameDraft ==
  ASSUME UNCHANGED sample
  PROVE  /\ SamplesOK' <=> SamplesOK
         /\ Heard' <=> Heard
         /\ \A d, f : Drafted(d, f)' <=> Drafted(d, f)
BY DEF SamplesOK, Heard, Drafted, Enough, Votes, Named, Counted, Threshold

LEMMA OntologyStarts == OntologyInit => OntologyInv
BY DEF OntologyInit, OntologyInv, SamplesOK, IsSeq

LEMMA GenerateOntologyInv == ASSUME OntologyInv, GenerateOntology PROVE OntologyInv'
<1>1. stage = "idle" /\ sample = <<>> /\ draft = Silence /\ judged = NoVerdict
      /\ draft' = Silence /\ judged' = NoVerdict
  BY DEF OntologyInv, GenerateOntology
<1>2. CASE Validate(SeedOntology) /\ UNCHANGED sample
  <2>1. Heard /\ Drafted(<<>>, "types") /\ Drafted(<<>>, "edges")
    BY <1>1, NothingHeard DEF Fields
  <2>2. SamplesOK' /\ Heard' /\ Drafted(<<>>, "types")' /\ Drafted(<<>>, "edges")'
    BY <1>2, <2>1, SameDraft DEF OntologyInv
  <2>3. draft'.types = <<>> /\ draft'.edges = <<>> /\ draft' = [types |-> draft'.types, edges |-> draft'.edges]
    BY <1>1 DEF Silence
  <2>4. Drafted(draft.types, "types")' /\ Drafted(draft.edges, "edges")'
    BY <2>2, <2>3
  <2>5. ontology' = Validated(Elected)' /\ stage' = "done" /\ judged.answered' \in BOOLEAN
    BY <1>1, <1>2 DEF Validate, Validated, Elected, SeedOntology, NoVerdict, Added, Capped
  <2>6. QED
    BY <1>1, <2>2, <2>3, <2>4, <2>5 DEF OntologyInv
<1>3. CASE \E n \in {1, RemoteSamples} :
             stage' = "discovery" /\ sample' = [i \in 1..n |-> Asked] /\ UNCHANGED ontology
  <2>1. PICK n \in {1, RemoteSamples} : stage' = "discovery" /\ sample' = [i \in 1..n |-> Asked]
    BY <1>3
  <2>2. n \in Nat
    BY OntologyAssumption
  <2>3. SamplesOK'
    BY <2>1, <2>2 DEF SamplesOK, IsSeq
  <2>4. QED
    BY <1>1, <2>1, <2>3 DEF OntologyInv
<1>4. QED
  BY <1>2, <1>3 DEF GenerateOntology

LEMMA AnswerSampleInv ==
  ASSUME OntologyInv, NEW i \in DOMAIN sample, AnswerSample(i) PROVE OntologyInv'
<1>1. PICK reply \in Replies : \E answer \in Parsed(reply) : sample' = [sample EXCEPT ![i] = answer]
  BY DEF AnswerSample
<1>2. PICK answer \in Parsed(reply) : sample' = [sample EXCEPT ![i] = answer]
  BY <1>1
<1>3. answer \in Discoveries
  BY ParsedAre
<1>4. SamplesOK'
  BY <1>2, <1>3 DEF SamplesOK, IsSeq, OntologyInv
<1>5. stage = "discovery" /\ UNCHANGED <<stage, draft, judged, ontology>>
  BY DEF AnswerSample
<1>6. QED
  BY <1>4, <1>5 DEF OntologyInv

LEMMA EndDiscoveryVoteInv == ASSUME OntologyInv, EndDiscoveryVote PROVE OntologyInv'
<1>1. stage = "discovery" /\ UNCHANGED <<sample, judged>> /\ judged = NoVerdict
      /\ \A i \in DOMAIN sample : sample[i] # Asked
  BY DEF EndDiscoveryVote, OntologyInv
<1>2. Heard
  BY <1>1 DEF OntologyInv, SamplesOK, Heard, IsSeq
<1>3. PICK types \in Spelled("types"), edges \in Spelled("edges") :
        LET o == [types |-> types, edges |-> edges]
        IN  /\ draft' = o
            /\ IF o = Silence THEN Validate(SeedOntology)
               ELSE IF types = <<>> THEN Validate(o)
               ELSE stage' = "grounding" /\ UNCHANGED ontology
  BY DEF EndDiscoveryVote
<1>4. Drafted(types, "types") /\ Drafted(edges, "edges")
  BY <1>2, SpelledAre DEF Fields
<1>5. SamplesOK' /\ Heard' /\ Drafted(types, "types")' /\ Drafted(edges, "edges")'
  BY <1>1, <1>2, <1>4, SameDraft DEF OntologyInv
<1>6. draft'.types = types /\ draft'.edges = edges /\ draft' = [types |-> draft'.types, edges |-> draft'.edges]
  BY <1>3
<1>7. Drafted(draft.types, "types")' /\ Drafted(draft.edges, "edges")'
  BY <1>5, <1>6
<1>8. judged' = NoVerdict /\ ~judged'.answered /\ judged'.answered \in BOOLEAN
  BY <1>1 DEF NoVerdict
<1>9. CASE draft' = Silence
  <2>1. stage' = "done" /\ ontology' = Validated(SeedOntology)
    BY <1>3, <1>9 DEF Validate
  <2>2. ontology' = Validated(Elected)'
    BY <1>9, <2>1 DEF Validated, Elected, Added, Capped
  <2>3. QED
    BY <1>5, <1>6, <1>7, <1>8, <1>9, <2>1, <2>2 DEF OntologyInv
<1>10. CASE draft' # Silence /\ types = <<>>
  <2>1. stage' = "done" /\ ontology' = Validated([types |-> types, edges |-> edges])
    BY <1>3, <1>10 DEF Validate
  <2>2. ontology' = Validated(Elected)'
    BY <1>3, <1>8, <1>10, <2>1 DEF Validated, Elected, Added, Capped
  <2>3. QED
    BY <1>5, <1>6, <1>7, <1>8, <1>10, <2>1, <2>2 DEF OntologyInv
<1>11. CASE draft' # Silence /\ types # <<>>
  <2>1. stage' = "grounding"
    BY <1>3, <1>11
  <2>2. QED
    BY <1>5, <1>6, <1>7, <1>8, <1>11, <2>1 DEF OntologyInv
<1>12. QED
  BY <1>9, <1>10, <1>11

LEMMA GroundInv == ASSUME OntologyInv, Ground PROVE OntologyInv'
<1>1. stage = "grounding" /\ stage' = "done" /\ UNCHANGED <<sample, draft>> /\ judged' \in Verdicts
      /\ draft # Silence
  BY DEF Ground, Validate, OntologyInv
<1>2. SamplesOK' /\ Heard' /\ Drafted(draft.types, "types")' /\ Drafted(draft.edges, "edges")'
  BY <1>1, SameDraft DEF OntologyInv
<1>3. judged'.answered \in BOOLEAN
  <2>1. judged' = NoVerdict \/ judged' \in [answered : {TRUE}, grounded : SUBSET ToSet(draft.types)]
    BY <1>1 DEF Verdicts
  <2>2. judged' = NoVerdict => judged'.answered = FALSE
    BY DEF NoVerdict
  <2>3. judged' \in [answered : {TRUE}, grounded : SUBSET ToSet(draft.types)] => judged'.answered = TRUE
    OBVIOUS
  <2>4. QED
    BY <2>1, <2>2, <2>3
<1>4. ontology' = Validated(IF ~judged'.answered THEN draft
                            ELSE [draft EXCEPT !.types = OnlyOf(@, judged'.grounded)])
  BY DEF Ground, Validate
<1>5. Elected' = IF ~judged'.answered THEN draft
                ELSE [draft EXCEPT !.types = OnlyOf(@, judged'.grounded)]
  BY <1>1, <1>3 DEF Elected
<1>6. ontology' = Validated(Elected)'
  BY <1>4, <1>5 DEF Validated, Added, Capped
<1>7. draft' = [types |-> draft'.types, edges |-> draft'.edges]
  BY <1>1 DEF OntologyInv
<1>8. QED
  BY <1>1, <1>2, <1>3, <1>6, <1>7 DEF OntologyInv

LEMMA OntologyStep == ASSUME OntologyInv, [OntologyNext]_ontologyVars PROVE OntologyInv'
<1>1. CASE UNCHANGED ontologyVars
  <2>1. UNCHANGED <<stage, sample, draft, judged, ontology>>
    BY <1>1 DEF ontologyVars
  <2>2. /\ SamplesOK' <=> SamplesOK
        /\ Heard' <=> Heard
        /\ Drafted(draft.types, "types")' <=> Drafted(draft.types, "types")
        /\ Drafted(draft.edges, "edges")' <=> Drafted(draft.edges, "edges")
    BY <2>1, SameDraft
  <2>3. Validated(Elected)' = Validated(Elected)
    BY <2>1 DEF Validated, Elected, Added, Capped
  <2>4. QED
    BY <2>1, <2>2, <2>3 DEF OntologyInv
<1>2. QED
  BY <1>1, GenerateOntologyInv, AnswerSampleInv, EndDiscoveryVoteInv, GroundInv DEF OntologyNext

\* The ontology of a paper is sound whichever calls fail, come back empty or are cut off
\* (ontology.py:475-600, 801-866): each required type is there, no name comes twice, at
\* most Cap are added, each of them agreed on and not rejected, and none that was agreed
\* on is missing but for names with as many votes.
THEOREM OntologiesAreSound == OntologySpec => []OntologySound
BY OntologyStarts, OntologyStep, InvIsSound, PTL DEF OntologySpec
==============================================================================
