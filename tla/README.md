# ProtoNeo in TLA+

ProtoNeo runs panels of language-model agents over a document (its shipped application reviews
papers). This directory models the parts of it whose correctness depends on order: what a session
file holds after any interruption, what a resumed run may reuse, who hears what, how many calls
are in flight, how a user's pause, advance and cancel meet tasks that are already running, what
overlapping writers of a review, of the settings or of an artifact leave behind; and the graph and
ontology that models' answers, whatever they are, make of a paper.

## 1. The system

One Python process runs one asyncio event loop. State lives in three places: JSON files, one per
session, replaced atomically (`_atomic_save`); dictionaries in memory, one entry per session
(contexts, controls, event buses, graph and ontology caches, cost counters); and the locals of
running coroutines. `SessionManager.get` and `update` are declared `async` but never suspend, so a
read, a change and a write with nothing else awaited between them is one atomic step. The real
suspension points are model calls, gate waits, `asyncio.to_thread`, semaphores and `gather`.

| Component | State | Operations | What makes it correct |
|---|---|---|---|
| Deliberation engine and patterns (`deliberation/`) | session file; the result, context and calls of the run | run, resume, attempt, retry, commit, cancel, crash | completed phases form a prefix and met their contract; one configuration per result; speakers hear accepted earlier turns only; nothing accepted is lost on resume; a retry completes |
| Pipeline control (`api/pipeline_control.py`) | pause, skip, cancel flags, one event, a pending advance | wait_for_gate, wait_if_paused, advance, pause, resume, cancel | one advance lets one stop pass; a cancelled pipeline does no more work; a waiter can always be released |
| Event bus (`api/events.py`, the socket in `api/routes.py`) | bounded history, subscriber queues, stream tails | emit, subscribe, unsubscribe, reset, replace | a subscriber sees a suffix without gaps, in order, whenever it joined; an older event is dropped before a newer one |
| Session tasks (`api/tasks.py`, session routes of `api/routes.py`, `apps/paper_review/api.py`) | task set, controls map, session status | start, cancel, fail, finish, shut down | one run per session; a control belongs to the task that registered it; the final status is the run's outcome |
| Graph pipeline (`knowledge/pipeline.py`, review stage of `apps/paper_review/pipeline.py`) | checkpoints, step states, graph and ontology on disk and in caches | seven steps, each with a checkpoint; restore; step re-run; ontology edit | a checkpoint implies its artifact is on disk; restored work is not redone; no write loses another's |
| Batches (`apps/paper_review/api.py`) | batch record, one session per paper | start, per-paper run, retry failed, status | every paper reaches an outcome, one failure does not stop the others |
| Packet folders (`apps/paper_review/api.py`, `export.py`) | artifact files per packet and folder, requests | review or skip a packet, write its artifacts | what is skipped as complete is whole and of one review |
| Chair edits (`apps/paper_review/api.py`, `schemas.py`) | final review, its copy, review packet, chat turns | manual edit, question and answer, normalisation, protected fields | one canonical review; no saved text lost to a late writer; no decision changed unasked |
| Review plan (`apps/paper_review/review.py`, `readiness.py`) | agents, model map and panel of a session | upload, launch, retry, readiness | the models the user asked for, kept for the life of the session; the panel is the agents |
| LLM client (`llm/client.py`) | cost counters | complete, stream, retries with back-off | what is counted was delivered, once; a stored total covers all its turns |
| LLM configuration (`llm/settings.py`, `discovery.py`, `benchmark.py`, `providers/`) | settings file, discovery cache, tokens, log-in server | load, save, probe, log in, refresh | no choice is lost to a probe, no login to a refresh |
| Knowledge graph (`knowledge/graph.py` and the steps that change it) | nodes, edges, counts, annotations | metadata, extract, merge, verify, prune, import, query | edges refer to nodes; a merge is a quotient; only doubted nodes are dropped; reports agree |
| Ontology (`knowledge/ontology.py`) | none beyond one call | sample, vote, check, validate | required types present, no name twice, what is added was agreed on |
| Readers and writers (parsers, exporters, prompts, tools, UI) | none | pure functions and I/O | conversions |


How they interact. An endpoint starts a run with `start_session_task`, which registers a
`PipelineControl` under the session's id and owns the asyncio task. The run builds the knowledge
graph (`GraphPipeline`), waits at the inspection gate, and hands the panel to
`DeliberationEngine.run`, whose participants stop at the same control before every attempt. All of
them write the one session file and emit to the session's bus. The user's other calls (pause,
advance, cancel, edit the ontology, rebuild a step, retry) change the control, the caches or the
file while a run is suspended somewhere in the middle.

What is hard here: a cancellation that reaches a task at any await, including one that has not run
its first step; a cancelled run that goes on unwinding beside its successor; a process that dies
between two writes; results that come back in any order; an event that is set and cleared again
before its waiters run; an object that the cache, a graph and a coroutine share and one of them
changes. `PROJECT.json` lists each of these hazards at its line.

## 2. Modules

| Module | Models | Checked by | Proofs |
|---|---|---|---|
| `Deliberation`, `MCDeliberation` | `engine.py`, `patterns.py` and the session record | `Deliberation_review.cfg`, `Deliberation_partial.cfg`, `Deliberation_snapshot.cfg` | `DeliberationProofs`, `DeliberationTurnsProofs` |
| `PipelineControl` | `pipeline_control.py`, the pipeline's task and its panel | `PipelineControl.cfg` | `PipelineControlProofs` |
| `SessionTasks` | `tasks.py`, the endpoints that start and stop runs, recovery | `SessionTasks.cfg`, `SessionTasks_retry.cfg`, `SessionTasks_batch.cfg` | `SessionTasksProofs` |
| `GraphPipeline` | `knowledge/pipeline.py`, batches of `graph_extractor.py`, step rebuild, ontology edits | `GraphPipeline.cfg`, `GraphPipeline_edit.cfg` | `GraphPipelineProofs` |
| `DurableReview` | abstract: the record of one review that gains phases and completes | `Deliberation_review.cfg` (as `IsDurable`) | `DeliberationProofs` |
| `KnowledgeGraph`, `GraphReports`, `ReviewContext`, `MCKnowledge` | `knowledge/graph.py`, `coref_resolver.py`, `graph_verifier.py`; the statistics and queries; `review_context.py` | `KnowledgeGraph.cfg` | `KnowledgeGraphProofs` |
| `ReviewForms`, `ReviewDesk` | the final review's form (`schemas.py`) and everybody who writes to a session | `Services.cfg`, `Services_decisions.cfg` | `ServicesProofs` |
| `EventBus` | `api/events.py` and the socket | `Services.cfg` | `EventBusProofs` |
| `ModelProviders` | settings, discovery, benchmark, log-in | `Services.cfg` | `ServicesProofs` |
| `ModelAccess` | `llm/client.py` and the total the engine stores | `Services.cfg` | `ServicesProofs` |
| `Batches` | the papers of a batch and its loops | `Services.cfg` | `ServicesProofs` |
| `PacketReviews` | packet folders and their artifacts | `Services.cfg` | `ServicesProofs` |
| `ReviewPlan` | models, agents and panel of a session | `Services.cfg` | `ServicesProofs` |
| `OntologyDiscovery` | `generate_ontology` | `Services.cfg` | `ServicesProofs` |

`MCServices` instantiates the eight services of the last group, which share no variable.

In all of them one action is what one handler or one coroutine does between two suspension points,
cut again after each write of a file, since the process may die there. Definitions whose comment
says "(mutant: ...)" are deliberate faults: each property is known to fail when the code is changed
that way, and `PROJECT.json` says which replaces which. They are not part of any specification.

### Deliberation

The state is the session file (`status`, `saved`) and the locals of the run (`phase`, `result`,
`restored`, `context`, `call`, `attempt`, `ready`, `cursor`). A configuration is a fingerprint; an
output is its author, its round and the configuration that produced it. `Start` is the prologue of
`run` with its refusal of an active session; `Open*` is each pattern's `execute` up to its first
await; `Admit`, `BeginAttempt`, `Retry` and `Finish` are `_run_agent` in one participant's task,
whose item `Collect` takes in completion order; `TakeTurn` and `LoseTurn` are a turn of a chain or
of a discussion; `CompletePhase`, `FailPhase`, `Conclude` and `Settle` are the engine's loop and
its last writes; `CancelTurn`, `CancelParallel`, `Unwind` and `StopParallel` follow a
CancelledError through the patterns; `Crash` leaves only the file. Prompts, answers, events and
cost are left out. The panel's semaphore is first come, first served, and participants queue in
roster order.

### PipelineControl

The state is the flags and the event of one `PipelineControl`, and where each task is. `Hold`
clears the event before the task awaits it; `Set` (advance, resume, cancel) makes every waiter
runnable, and each runs later (`Wake`) whatever the event is by then, as `asyncio.Event` does. The
pipeline's task stops before `StepsBefore` steps, at the gate, then awaits a panel whose members
share a semaphore and stop before each of `CallsEach` attempts. `Deliver` is the CancelledError
that `pipeline_cancel` sends besides setting the flag. Waiters for the semaphore are admitted in
any order, which includes the order they came in.

### SessionTasks

One session from its creation on, with up to `MaxRuns` runs. `controls` is the session's entry in
`_pipeline_controls`, `at` and `kind` say where each task is and which coroutine it executes, and
therefore which `finally` clauses its end goes through: `ReleaseOwn` compares identity first,
`Release` does not. `Start`, `Retry`, `LaunchReview`, `RebuildStep` and `BatchTurn` each have the
guard their endpoint has, no more. `Restart` is `_recover_stale_sessions`.

### GraphPipeline

One session's graph: the file (`checkpoints`, `saved`), the ontology cache, and one run. A graph is
what was applied to it, the ontology it names, and the ontologies its entities were coerced to
(the verification's entities, which keep the type a model suggests, count as of none).
The ontology is one mutable object, and `holders` says who shares it with the run, so that `Edit`,
which changes it in place, changes it for exactly those. `Restore` is the restoration from the last
checkpoint with the passing over of finished steps; `Begin` is a step past its stop; `Answer` and
`Ingest` are the concurrent extraction of a batch; `Save` is the copy, the checkpoint and the write
that end each step. `Rebuild` is `run_pipeline_step`, `Unwound` the `finally` of a cancelled run,
which may come after its successor has begun. One run works and one unwinds at a time. `KeepBefore`
uses that checkpoints are in order, which `CheckpointsHaveGraphs` establishes. A cancellation that
reaches no run still writes its status. What `generate-ontology` puts into the cache beside a run is
in no saved graph; `beside` remembers that, and the edits that came too late.

### DurableReview

What the engine promises those who start, stop, retry and read a session: one record of one
configuration that gains phases one at a time, and counts as completed only when it is whole.
`Deliberation` maps its session file to the record, the result being built to the abstract run,
and its status to what readers are told; everything else the engine does is a stutter.

### KnowledgeGraph, GraphReports and ReviewContext

The state is one paper's nodes and edges, the counts kept beside them, and what a step has read
but not applied yet. Each action is a step, or one answer or merge of a step: `Metadata` ingests
sections, figures and equations; `Ontology` the contributions; `Extract` one section's answer, with
types outside the ontology made generic; `Resolve` and `Merge` the co-references, several lists
long; `Verify` the three passes of the verification, which ask no ontology; `Summarize` the clean-up
and the briefing; `Import` a graph from a file; `Annotate` the reviews. Models may name any label
they were shown, the title and sections included, give it any type an ontology or the code knows,
"Section" and "Equation" too, and relate two labels by any relation, the structural ones an ontology
offers included (`Named3`). The history variable `loose` remembers the structural edges that did
not come from the code's own building: answered by a model, moved by a merge, or in a file.
`GraphReports` is what is read: `graph_stats`, `to_d3_format`, the tool's queries and the
utilisation report, three lists of types that must agree. `ReviewContext` is what reviewers
are shown: the stored briefing next to an analysis, a ledger and a digest that are computed when a
review starts, and the sections of each context mode.

### ReviewForms and ReviewDesk

`ReviewForms` is the final review as a function from its fields to ratings, text and one nested
document; `Normalized` and `Sanitized` are the two passes of `schemas.py` (unwrapping, aliases,
filling one rating from another), `Filtered` and `Merged` what happens to the chair's patch. In
`ReviewDesk` two tabs open, edit and save the review or put a question to the chair (`Ask`,
`Answer`), while a run searches the web, deliberates and stores its synthesis. Only a run and the
chair suspend; everything else is one action. A text edit is a number, and the review keeps the set
of those it holds, so that a lost one is seen. The tabs follow `ResultEditor.vue`: a dirty draft is
not replaced by what another writer stored (`Open`), the merit takes the recommendation along and
the recommended action back (`EditScore`), and `ApplyPatch` merges any patch of the chair's history
(`session.turns`) into the draft. A payload, a draft or a patch may nest a whole review under
"final_review" (`Wrappings`); the history variable `unwrapped` says that the stored review was
sent that way.

### EventBus

A bus has a bounded history and a bounded tail per speaking agent; each socket has a queue that
drops its oldest. An event carries the positions in the log of what it tells, which shows gaps and
repetitions. `Subscribe` replays the history and then the tails (`Filled` puts them into the queue
one by one), `Connect` and `Greet` are the
socket's two steps before it, `StartSession`, `StartOverSocket` and `Launch` replace or reset the
bus, and the run that emits (`Speak`, `Tell`, `Finish`) keeps the one it began with.

### ModelProviders and ModelAccess

`ModelProviders` has the settings file, what each request read of it before it waited
(`DiscoverModels`/`EndDiscovery`, `StartBenchmark`/`EndModels`/`SaveBenchmark`), and a login that
is exchanged by the callback server or by a pasted code while refreshes are under way. `ModelAccess`
follows a call from the key through attempts, refusals of another model's answer and a stream's
last chunk to the counted cost, and the engine's stored total across runs and restarts.

### Batches and PacketReviews

In `Batches` a paper is the status of its session, a task goes from its start to its end through
`DropTask` (cancelled before its first step), `UnwindTask` or `EndTask`, and a loop takes one paper
after another. `GetBatch` stores the status it derives. In `PacketReviews` a file is who wrote it
and whether it is torn; `WriteArtifacts` writes a folder in one go, `CrashWriting` dies in the
middle of any file, and `NextPacket` decides by the files.

### ReviewPlan and OntologyDiscovery

`Resolved` is how a role gets its model: the request's map, the preset, the active model of a
provider, the best candidate of the policy. `Upload`, `LaunchPanel` and `Retry` are the endpoints,
`RunGraph` and `SkipGraph` what the pipeline does with the plan. `OntologyDiscovery` asks for
samples at the same time, votes, checks and validates; `Salvaged` is what may be read from an
answer that was cut off.

## 3. What the runs show

| Run | Bounds | Shows |
|---|---|---|
| `deliberation_review` | 2 reviewers and a chair, 3 phases (parallel, discussion, chain), 2 configurations, 1 attempt | the session file can be trusted after any interruption: phases in order, nothing declared whole that is not, restored work kept, one configuration, only the panel speaks, speakers hear the past; a retry completes |
| `deliberation_partial` | 3 reviewers, semaphore of 2, 2 attempts, phases that need fewer than all | contracts of completed phases, each turn once, calls bounded and none left behind; a run settles |
| `deliberation_snapshot` | as the first | finding: a retried parallel phase shows participants the phase's own saved outputs |
| `pipeline_control` | pipeline and 3 participants, semaphore of 2, 2 stops before the gate, 2 attempts each, 1 stop after | one advance passes one stop; a pause takes hold; a cancelled pipeline does no work and ends; no release is lost |
| `session_tasks` | 3 runs; all four origins | idle sessions are settled, controls lead to live runs and live runs to controls, a stop is final; cancellations and shutdowns end |
| `session_retry` | 2 runs, uploaded session | finding: a retried run loses its control to the run that unwinds |
| `session_batch` | 2 runs, a paper of a batch | finding: the batch starts a paper that is already being worked on |
| `graph_pipeline` | 2 versions of the ontology, 2 sections in 2 batches, 2 troubles | checkpoints have their graphs, what was extracted is of the one ontology its graph names, edits are used; a retried build completes |
| `graph_edit` | 3 sections, 2 at a time, no trouble | finding: an edit during or after the extraction leaves entities outside the graph's ontology |
| `knowledge_graph` | 2 papers; one section, figure and equation each; 4 entities; relations of four structural kinds among the answers; 2 answers; up to 2 merges of up to 2 nodes each; imported files | labels are unique and edges end at nodes through any answers; a merge is a quotient; nothing grounded is dropped; all reports agree, before and after an export; the stored briefing is of the final graph, and the digest never states the structure that the code itself built |
| `application_services` | desk: 2 tabs, 2 edits, 2 runs, 1 question, 1 review to nest, 1 rating to take back; bus: 2 buses, 4 events, history 2, queue 3, tail 2; providers: 1 server, 1 probe, 1 refresh, 1 login; access: 2 calls, 2 attempts; batch: 2 papers, 3 tasks, 2 loops; packets: 3 packets, 2 requests, 2 reviews; plan: 2 reviewers and an optional one, 6 maps, 1 change of settings; ontology: 1 or 3 samples | one review, canonical and whole unless a wrapped patch nested it; whole stories for every subscriber; choices and logins kept; costs that add up; no paper forgotten; whole packets; the plan that was asked for; an agreed ontology |
| `desk_decisions` | the desk alone, with the same bounds | finding: the chair changes a decision it was not asked to change |

Why the bounds suffice. A deliberation's steps depend on the phase reached and on what is saved for
it, so three phases give a finished one, the current one and one to come, and two reviewers with
two rounds give a discussion in which who opens rotates; two configurations tell reuse from a fresh
start. In `PipelineControl` a third participant is one that waits for the semaphore while two are
held, and the second stop is the one after a release. Three runs of a session give one that
unwinds, its successor and one started after both; no guard looks further back. In `GraphPipeline`
two troubles interrupt a resumed run or rebuild an interrupted one, and two versions make an edit
visible. Two merges whose nodes overlap in any role show what one leaves to the next. At the
desk one tab edits while the other waits for the chair, or a run for the web, and one question is
enough for a patch that both tabs may apply later; the bus overruns its
history, its tails and a queue within four events; two loops and three tasks give a batch and the
retry of its failed papers, with a paper that is retried by hand besides; and two requests over three
packets meet in one folder. The properties of section 4 are moreover proved without any bound.

In `MCServices` a behaviour is one of a single service, chosen at the start, while the others stay
in an initial state. They share no variable, and no property speaks of two, so the interleavings of
different services that are left out could show nothing else.

`CHECK_DEADLOCK FALSE` stands in `PipelineControl.cfg`, since a pipeline that has ended has no
control left to act on, and in `Services.cfg` and `Services_decisions.cfg`, whose services stop
when their bounded edits, events, calls or reviews are used up.

### Fairness

* `Deliberation`: weak fairness of `Progress`. Each attempt is under `asyncio.timeout`, and the
  event loop runs whatever is ready; starting, cancelling and crashing are nobody's duty.
  `RetryCompletes` assumes in its own statement that faults stop and the run is resumed.
* `PipelineControl`: weak fairness of `Progress`. The user owes nothing: a held pipeline may wait
  for ever, and `AnsweredPipelineEnds` says so in its premise.
* `SessionTasks`: weak fairness of `Housekeeping` only, the steps of the event loop and of a
  cancellation. A run may be paused for ever, so its work is not fair.
* `GraphPipeline`: weak fairness of `Work`, `Start` and `Unwound`: models answer or fail, the user
  lets a held step go on and retries a failed one, a cancelled run unwinds. Troubles are finite by
  their bound.
* The graph's content and the services state no fairness and no liveness: what they promise is what
  may never be lost, and who answers, retries or reconnects is up to users and models.

### Findings

1. `deliberation_snapshot`: patterns.py:126 says every participant receives the same state as
   before the phase, also on a retry. The saved outputs of the phase are put into the context
   before the copy is taken, so those asked again see what the others answered.
2. `session_retry`: README.md:115 says that pause and cancel apply to background execution. A run
   retried while the cancelled one unwinds is removed from the map of controls by the older run's
   `finally` (`pipeline.py:756`), which does not compare identity as `tasks.py` does.
3. `session_batch`: api.py:939 says that papers are processed one at a time. The loop skips only
   stopped papers, so one that was started by hand is started again beside its live run.
4. `graph_edit`: graph_extractor.py:15 says that only types of the ontology are accepted, and the
   endpoint's docstring that the edit comes before the step is passed. The endpoint does not check
   that, and changes the object that the running extraction and its graph share.
5. `desk_decisions`: api.py:1962 says "Prevent accidental decision-field changes unless explicitly
   requested." The filter looks at the patch's top-level keys; the merged review then has a wrapped
   review unwrapped and its aliases renamed (`schemas.py:511`), and the ratings change.

Not failures of a documented promise, but worth knowing; the properties state them as exceptions or
the models show them:

* A final review that is nested under "final_review", in a chair's patch or in a draft to which one
  was applied, is unwrapped when it is stored (`schemas.py:514-519`): prose that was saved outside
  the nested review is gone (the exception in `TextIsKept`), and a recommended action that only the
  wrapper could supply stays empty until the next pass, so that a packet may show one where the
  stored review has none (`Shows`; `schemas.py:622-627`).
* The interface always asks with `applyEdits` false and lets a tab apply the patch
  (`PcChairChat.vue:242`), so that a decision held back from the patch is held back there too, while
  one that was nested or aliased comes with it.
* The digest that calls what it lists "positive facts" reads structural edges too
  (`graph_query.py:67`), which are not counted when the graph is judged good enough. An extraction or
  a verification may answer them between any two labels (`ontology.py:222-243`,
  `graph_verifier.py:271-284`), a merge may move them, and a file may have them: then an entity is
  listed as evidence by a relation that only says where something stands (`loose`).
* The verification's completeness pass adds entities with the type the model suggests
  (`graph_verifier.py:367-376`), and its connectivity pass with any relation: neither is asked of the
  ontology that the extraction is held to (`NoOntology` in `OneOntology`).
* The benchmark writes back the settings it read before it probed: what is saved meanwhile is lost
  (`stale` in `ChoicesSurvive`). Discovery reads again before it writes, and loses nothing.
* A batch loop dies of the CancelledError of a paper that was cancelled before its first step; the
  papers after it stay created until a restart (`orphan` in `BatchesSettle`).
* A forced review of a complete packet that is cut short leaves files of two reviews, which later
  runs skip (`rewritten` in `PacketsAreWhole`). A retried packet session completes without writing
  artifacts, and a torn `imported_graph.json` fails a packet on every later run.
* A launch that readiness refuses, or that has user instructions only, has replaced the agents and
  kept the panel (`loose` in `PlanHonoured`); a launch with a venue or instructions and no map goes
  back to the default models.
* The vote counts an ontology type once per occurrence, not per sample, so an answer that repeats
  itself agrees with itself; and an answer that ends before its edges has its entity types read as
  edges as well (`ontology.py:985`).
* `update_final_review` requires the overall merit to equal the recommendation; the chair's answer
  is merged without that check (`api.py:1834`).
* A comment says that the graph-only and the briefing mode "deliberately withhold the manuscript"
  (`review_context.py:135`); the briefing mode shows it, in both phases. Below the threshold of three
  relations the digest is withheld, but the briefing still lists the relations; and contributions
  of the ontology count as relations, so three of them make a graph good enough.
* Contributions carry the section "ontology", which is counted among the sections covered: the
  briefing of a paper with one section can say 2/1 (`graph.py:258`, 1127).
* An ontology regenerated beside a session goes into the cache only: after a restart or a rebuild
  the graph is extracted with the earlier one (`routes.py:1243`; `beside` in `GraphPipeline`).
* `start_session` replaces the bus before it refuses an invalid configuration, so that open sockets
  stay with one that nobody will emit to (`routes.py:981`).
* The pause shown to the user may be stale: a released waiter clears it though a later one already
  waits (`pipeline_control.py:74`).

## 4. What is proved

The proofs assume only the named assumptions on the constants, which a run evaluates, and what a
theorem states besides. They hold for every panel, number of phases, runs, papers, packets, tabs,
sockets, calls, samples and troubles. Every safety and every action property that the passing runs
check is proved.

What is assumed of a constant is what the code gives: the lists of required types and of seeds name
nothing twice (`ontology.py:73`, 252); a paper, a model's answer and an imported file are lists, so
finitely many nodes and edges come of each.

* `DeliberationProofs`. `TypeCorrect`; `PhasesStayInOrder`; `OneConfigurationAtATime`. The file
  alone does not say why the next write is right, so the invariant also follows the run's memory:
  the result being built has the phases before `phase` completed and nothing after it, what is
  restored agrees with what was saved, and every output in the result, in what is restored and in
  the context carries the configuration of the result.
* The refinement. `ImplementsDurable` proves that every step of `Deliberation` is a step of
  `DurableReview` or a stutter, which needs the two invariants above and one about the run itself
  (`RunInv`: where a run that works has its result, and what of it has been accomplished). A lemma
  about the abstract record alone (`WholeAlways`) carries over to the session file:
  `CompletedStaysWhole`.
* `DeliberationTurnsProofs`. What the agents' work amounts to. `CallsStayBounded` is
  inductive once it says that the calls in flight are finitely many (`CallInv`).
  `EachTurnIsAcceptedOnce`, `NothingRestoredIsLost` and `OnlyThePanelSpeaks` come from one
  invariant, `AcceptedInv`: what is restored is kept in the file and, of every phase the loop has
  reached, in the result (`WorkInv`); a participant is called only if it has not answered, and the
  turns taken are those before the cursor in the plan (`PlaceInv`). That the k-th of those
  who may speak is one participant, and another for another k, is a lemma about counting
  (`EveryRankHasItsPlace`). `SpeakersHearOnlyThePast`
  adds that the context is what the phases before this one accepted, and nothing of later ones
  (`HeardInv`). `CompletedPhasesAreFulfilled` says of a phase listed as complete that it is fulfilled
  in the result once the loop has been through it, and until then in what was restored (`DoneInv`).
  Two theorems say how far finding 1 goes. `ParticipantsHearOnlyThePast`: what a parallel phase
  shows its participants is what the phases before accepted, nothing of later ones, and of the phase
  itself just what an interrupted run had saved, so never an answer given beside them.
  `OnlyResumedPhasesLeak`: where nothing of the phase was restored, the promise of patterns.py:126
  (`SamePrePhaseState`) is kept.
* `PipelineControlProofs`. `CancelStops`, `OneAdvanceOneStop` and `PausesTakeHold`, action
  properties. The invariant says that the panel runs only while the pipeline awaits it (`Alone`),
  that panel tasks do not exist before the gate and begin with all their stops (`Fresh`), and that
  a pending advance, or a pipeline already woken and not cancelled, comes with `acted` (`Earned`).
  `CancelStops` then goes through the ways a task can come to work: each looks at `cancelled` after
  its wait. `PausesTakeHold` needs that a task which has used up what a pause allows it is past its
  stop, and not woken again unless it is cancelled (`Held`).
* `SessionTasksProofs`. `IdleSessionsAreSettled`, `ControlsLeadToLiveRuns`, `LiveRunsAreRegistered`
  and `StopsAreFinal`. The properties are nearly inductive: the invariant adds that a session that
  says it is running has a live run that is going to write another status (`Busy`), that only
  cancelled runs are dropped (`AskedRuns`), and that a stop has reached every live run
  (`StopHolds`).
* `GraphPipelineProofs`. `BuildIsSound` proves the invariant `IInv`, from which
  `CheckpointsHaveTheirGraphs`, `GraphsAreOfOneOntology` and `EditsReachTheGraph` follow. `IInv`
  adds to the three properties where the run is (`RunBuilds`: its graph has exactly the stages up to
  its step), what its ontology, its answers and its graph owe each other (`RunFits`), and that
  until the extraction is saved the cache agrees with the file (`CacheFits`). Without the last, a
  resumed run could prefer a stale cache to an edited file.
* `KnowledgeGraphProofs`. `GraphStaysWellFormed`, `MergesAreQuotients`, `WellGroundedNodesStay` (an
  action property), `ReviewersSeeTheGraph` and `ReportsAreOneAccount` (`ReportsAgree`).
  The invariant `GraphInv` says which labels and ids the nodes may have by the step that made them,
  so that a new node never takes the name of an old one (`Sound`); that from the first merge on the
  graph is the image of the one before under a function of ids (`Quotient`); and that until the
  summary a node below the threshold was doubted by the verification or is bare evidence
  (`Trustworthy`). That reports agree rests on two more facts: graphs stay finite through every step
  (`FiniteGraph`), so that the counts by kind, sums of cardinalities of disjoint sets, add up to
  the whole (`KindsAddUp`), stored counts included (`StoredCountsAreCurrent`); and a graph and the copy
  an export and an import make of it answer every query alike.
* `EventBusProofs`. `SubscribersSeeTheSession`. What a client shows is a function of what it hears,
  and a bus keeps the newest of what that function shows of its log (`Keeps`); the replay of history
  and tails shows just that (`ReplayTells`), so whoever subscribes mirrors the log as far back as
  the bus remembers, and two pictures that mirror each other still do when both hear the same. A
  queue that overflowed has the newest emission at least. The assumption is that fewer agents speak
  than a queue takes events (2048 in the code): otherwise the tails could push out all the history.
* `ServicesProofs`, one part per service.
  `BatchesAlwaysSettle`, an action property: only the upload's loop serves papers that never ran,
  and a paper leaves its list when it was stopped or gets a task; a list is lost only with its loop,
  to a crash, which stops the papers that wait, or to a cancellation, which the history notes. A
  paper that runs has a task that has not ended.
  `SkippedPacketsAreWhole`: files of a folder are written in their order and never removed
  (`InOrder`), so a folder with a manifest has all of them; a folder becomes complete only through
  the review that wrote all other files just before (`CompleteIsOfOne`); and a completed session
  left its files (`CompletedWrote`).
  `ChoicesAlwaysSurvive`: whoever waited reads the settings again and touches only the cache and the
  endpoints without a choice; what the benchmark writes back stale is marked as such.
  `CostsAlwaysAddUp`: what was billed covers what is charged and what every open stream has
  generated; the sum over the open calls is a sequence of partial sums along an order of the calls,
  which changes from one place on when one call does.
  `PlansAreHonoured`: the user's choice of a model is resolved before any other, so that resolving
  a map again changes nothing in it; where the interface and the API name the meta-reviewer
  differently, the interface's name wins (`Wish`).
  `DeskStaysSound` and `SavedTextIsKept`: the heart are two lemmas about data, that sanitising a
  review twice is sanitising it once, whatever one rating filled in for another (`SanitizingTwice`),
  and that of a payload which nests its review the same is true but for the recommended action
  (`SanitizedIsKept`). The invariant (`DeskInv`) adds that what a run read before its search is
  still the session when it writes it back (`RunOK`), that drafts are of the venue's scale, and that
  every patch in the chair's history is one (`TurnsOK`), since a tab may apply it at any time. What a
  nested review may cost is in the properties themselves (`Shows`, `TextIsKept`), not in an
  assumption.
  `PlainPatchesDecideNothing` says how far finding 5 goes: it assumes of the constants that patches
  wrap no review and use no alias (`PlainPatches`), and proves the action property the finding
  breaks. The filling in of ratings, which comes after the guard, does not undo it: then no draft
  wraps a review, so one that is shown is canonical (`ShownAreCanonical`), and a patch without
  ratings leaves it so (`HeldBack`).
  `OntologiesAreSound`: precedence among the names with enough votes is a total order, so each has
  one place in the draft (`RankedIs`), and what is kept of a draft keeps its order; hence what the
  cap cuts off comes after all that is added, a required type is never cut off, and what was
  added had the votes of two samples, or of one that said it twice.
* Types. `TasksAreTyped`, `BuildIsTyped` and `ControlIsTyped` prove `TypeOK` of `SessionTasks`,
  `GraphPipeline` and `PipelineControl`; the runs leave it to the proofs.

The provers have no induction over data. Where a proof needs it for a number, it is done by hand: a
set of numbers that is not empty has a least one (`Least`), so a set that has 0 and the successor of
each of its numbers has them all (`Upto`); recursive functions are handled by their values up to a
number. That does not reach definitions that recur over sets.

Only model-checked: the liveness properties, which TLAPS cannot reach, and the five runs that end in
a finding, where the code breaks what is promised; theorems delimit the first and the fifth.

## 5. Not modelled

Prompts, the text of answers and artifacts, the parsers of documents, benchmark scores and catalogue
tables, wire formats and the user interface have no state that an order of events could break;
`PROJECT.json` says so for each. Of the modelled components these operations are left out:

* In the review editor: the nomination for best paper, reviewers' expertise, the light pass and the
  refinement of a field (each changes the draft only, as `EditText` and `EditRating` do), the loss of
  a dirty draft to a reload of the page, and texts that a user deletes.
* A review that is nested twice; the code unwraps one level, and the second is an unknown field.
* Preflight jobs: a table of a hundred jobs that feeds nothing else.
* Loading damaged session files at start, and a write that fails for want of space.
* Anthropic's log-in, which has no callback server; back-off times; the parsing of structured
  answers.
* The graph pipeline's fallback for a paper without sections, which is one call in place of a
  batch.

Next, in this order: liveness of a batch (its loop reaches every paper when runs end), the graph
pipeline's fallback for a paper without sections, and preflight.
