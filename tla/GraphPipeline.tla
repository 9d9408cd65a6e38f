---------------------------- MODULE GraphPipeline ----------------------------
(***************************************************************************)
(* Building the knowledge graph of one session (knowledge/pipeline.py):    *)
(* six steps, each saved with a checkpoint, resumed after any interruption *)
(* and rebuilt from a chosen step (run_pipeline_step), while the user may  *)
(* edit the ontology the extraction is bound to.                           *)
(*                                                                         *)
(* The run changes one graph in place while it waits for models; what is   *)
(* saved is a copy.  The ontology is one mutable object that the run, its  *)
(* graph and the cache may share (holders), and that an edit changes in    *)
(* place.  Only one run works at a time here; SessionTasks says when that  *)
(* is so.  A cancelled run still unwinds beside its successor.             *)
(***************************************************************************)
EXTENDS Integers, Sequences

CONSTANTS
  Versions,      \* what an ontology may say
  NoOntology,
  Sections,      \* number of sections of the document
  BatchSize,     \* sections extracted at a time
  MaxTroubles    \* failures, cancellations, crashes and rebuilds (bound)

ASSUME GraphAssumption ==
  /\ NoOntology \notin Versions
  /\ Sections \in Nat \ {0} /\ BatchSize \in Nat \ {0} /\ MaxTroubles \in Nat

\* The stages, by their place in KERNEL_STAGES.
Metadata == 1
Ontology == 2
Extraction == 3
Verification == 5   \* after coref
Summary == 6
Stages == 1..6

\* What a graph is made of: the stages applied to it, in order; the ontology it
\* names; and the ontologies its entities were coerced to, NoOntology for those
\* that keep the type a model gave them.
Graphs == [built : Seq(Stages), ontology : Versions \cup {NoOntology},
           typed : SUBSET (Versions \cup {NoOntology})]
NewGraph == [built |-> <<>>, ontology |-> NoOntology, typed |-> {}]

VARIABLES
  full,        \* whether a review follows the graph
  status,      \* status of the session
  checkpoints, \* stages recorded as done, in the order recorded
  saved,       \* the graph saved for a stage; the summary's is knowledge_graph
  cache,       \* _session_ontologies
  control,     \* whether a control is registered
  at,          \* where the run is
  rebuild,     \* whether the run is one of run_pipeline_step
  step,        \* its stage
  graph,       \* its graph
  ontology,    \* its local variable
  holders,     \* who else holds that very object: the cache, the graph
  batch,       \* the batch of sections it extracts
  waiting,     \* the sections of the batch not yet answered
  heard,       \* the ontologies the answers of the batch were coerced to
  leaving,     \* the cancelled run that still unwinds
  beside,      \* history: what happened to the ontology behind the run's back
  troubles

file == <<full, status, checkpoints, saved>>
run == <<at, rebuild, step, graph, ontology, holders>>
extraction == <<batch, waiting, heard>>
vars == <<file, cache, control, run, extraction, leaving, beside, troubles>>

Done == {checkpoints[i] : i \in DOMAIN checkpoints}

Idle ==
  /\ at' = "idle" /\ rebuild' = FALSE /\ step' = 0 /\ graph' = NewGraph
  /\ ontology' = NoOntology /\ holders' = {}
NoExtraction == batch' = 0 /\ waiting' = {} /\ heard' = {}

Init ==
  /\ full \in BOOLEAN
  /\ status = "created" /\ checkpoints = <<>> /\ saved = <<>>
  /\ cache = NoOntology /\ control = FALSE
  /\ at = "idle" /\ rebuild = FALSE /\ step = 0 /\ graph = NewGraph
  /\ ontology = NoOntology /\ holders = {}
  /\ batch = 0 /\ waiting = {} /\ heard = {}
  /\ leaving = "none" /\ beside = {} /\ troubles = 0

Trouble == troubles < MaxTroubles /\ troubles' = troubles + 1
-----------------------------------------------------------------------------
\* _run_graph_pipeline, for the first time or from retry_session.
Start ==
  /\ at = "idle" /\ status \in {"created", "failed", "stopped"}
  /\ status' = "running" /\ control' = TRUE
  /\ at' = "starting"
  /\ UNCHANGED <<full, checkpoints, saved, cache, rebuild, step, graph, ontology, holders,
                 extraction, leaving, beside, troubles>>

\* The checkpoints of the stages before s are kept: they are recorded in order.
KeepBefore(s) ==
  \E kept \in 0..Len(checkpoints) :
    /\ \A i \in 1..Len(checkpoints) : checkpoints[i] < s <=> i <= kept
    /\ checkpoints' = SubSeq(checkpoints, 1, kept)

RebuildOffByOne(s) ==   \* (mutant: the checkpoint of the stage itself is kept)
  /\ at = "idle" /\ ~control /\ status # "running"
  /\ Trouble
  /\ KeepBefore(s + 1)
  /\ saved' = [c \in {d \in DOMAIN saved : d < s} |-> saved[c]]
  /\ cache' = NoOntology
  /\ status' = "running" /\ control' = TRUE
  /\ at' = "starting" /\ rebuild' = TRUE
  /\ UNCHANGED <<full, step, graph, ontology, holders, extraction, leaving, beside>>

\* run_pipeline_step: everything built from the stage on is dropped.
Rebuild(s) ==
  /\ at = "idle" /\ ~control /\ status # "running"
  /\ Trouble
  /\ KeepBefore(s)
  /\ saved' = [c \in {d \in DOMAIN saved : d < s} |-> saved[c]]
  /\ cache' = NoOntology
  /\ status' = "running" /\ control' = TRUE
  /\ at' = "starting" /\ rebuild' = TRUE
  /\ UNCHANGED <<full, step, graph, ontology, holders, extraction, leaving, beside>>

\* The end of GraphPipeline.run with graph g: a review follows, or the task ends,
\* and _run_graph_pipeline forgets the cached ontology.
Conclude(g) ==
  /\ NoExtraction
  /\ IF full /\ ~rebuild
     THEN /\ at' = "reviewing"
          /\ cache' = g.ontology
          /\ graph' = g /\ ontology' = g.ontology /\ holders' = {"cache", "graph"}
          /\ UNCHANGED <<status, control, rebuild, step>>
     ELSE /\ Idle
          /\ status' = "completed" /\ control' = FALSE
          /\ cache' = IF rebuild THEN g.ontology ELSE NoOntology

\* The first stage after s without a checkpoint.
IsNext(n, s, done) ==
  /\ n \in (s + 1)..(Summary + 1) /\ n \notin done
  /\ \A m \in (s + 1)..(n - 1) : m \in done

LastSaved == IF checkpoints = <<>> THEN NewGraph ELSE saved[checkpoints[Len(checkpoints)]]

\* A run goes on with stage n and graph g.
GoOn(n, g) ==
  IF n > Summary THEN Conclude(g)
  ELSE /\ at' = "held" /\ step' = n /\ graph' = g
       /\ NoExtraction
       /\ UNCHANGED <<status, control, rebuild>>

\* The models answer; the last saved graph is restored and finished stages are
\* passed over, the ontology taken from the cache or else from its saved graph.
Restore ==
  /\ at = "starting"
  /\ \E n \in 1..(Summary + 1) :
       /\ IsNext(n, 0, Done)
       /\ GoOn(n, LastSaved)
       /\ n <= Summary =>
            LET known == IF Ontology \notin Done THEN NoOntology
                         ELSE IF cache # NoOntology THEN cache ELSE saved[Ontology].ontology
            IN /\ ontology' = known
               /\ cache' = IF known = NoOntology THEN cache ELSE known
               /\ holders' = IF known = NoOntology THEN {} ELSE {"cache"}
  /\ beside' = IF Extraction \in Done THEN beside
               ELSE IF Ontology \in Done /\ cache # NoOntology THEN beside \ {"late"} ELSE {}
  /\ UNCHANGED <<full, checkpoints, saved, leaving, troubles>>

BatchOf(b) == {s \in 1..Sections : (b - 1) * BatchSize < s /\ s <= b * BatchSize}

\* A stage begins, when no pause holds it, and from then on changes the graph in
\* place.
Begin ==
  /\ at = "held" /\ step # Extraction
  /\ at' = "working"
  /\ graph' = [graph EXCEPT !.built = Append(@, step)]
  /\ UNCHANGED <<file, cache, control, rebuild, step, ontology, holders, extraction,
                 leaving, beside, troubles>>

BeginExtractionForRun ==   \* (mutant: the graph is not told the ontology)
  /\ at = "held" /\ step = Extraction
  /\ at' = "extracting"
  /\ ontology' = IF cache # NoOntology THEN cache ELSE ontology
  /\ graph' = [graph EXCEPT !.built = Append(@, step)]
  /\ holders' = IF cache # NoOntology THEN {"cache"} ELSE {}
  /\ batch' = 1 /\ waiting' = BatchOf(1) /\ heard' = {}
  /\ UNCHANGED <<file, cache, control, rebuild, step, leaving, beside, troubles>>

\* The extraction takes the ontology as it is by then.
BeginExtraction ==
  /\ at = "held" /\ step = Extraction
  /\ at' = "extracting"
  /\ ontology' = IF cache # NoOntology THEN cache ELSE ontology
  /\ graph' = [graph EXCEPT !.built = Append(@, step), !.ontology = ontology']
  /\ holders' = IF cache # NoOntology THEN {"cache", "graph"} ELSE {"graph"}
  /\ batch' = 1 /\ waiting' = BatchOf(1) /\ heard' = {}
  /\ UNCHANGED <<file, cache, control, rebuild, step, leaving, beside, troubles>>

\* A section is answered: its entities are coerced to what the ontology says at
\* that moment.  One that fails adds nothing.
Answer(s) ==
  /\ s \in waiting
  /\ waiting' = waiting \ {s}
  /\ heard' \in {heard, heard \cup {ontology}}
  /\ UNCHANGED <<file, cache, control, run, batch, leaving, beside, troubles>>

\* The stage is saved with its checkpoint, and the run goes on.
Save(g) ==
  /\ checkpoints' = Append(checkpoints, step)
  /\ saved' = [s \in DOMAIN saved \cup {step} |-> IF s = step THEN g ELSE saved[s]]
  /\ \E n \in Stages \cup {Summary + 1} : IsNext(n, step, Done) /\ GoOn(n, g)

\* The answers of a batch are merged; the last batch ends the stage.
Ingest ==
  /\ at = "extracting" /\ waiting = {}
  /\ LET g == [graph EXCEPT !.typed = @ \cup heard] IN
     IF BatchOf(batch + 1) # {}
     THEN /\ graph' = g
          /\ batch' = batch + 1 /\ waiting' = BatchOf(batch + 1) /\ heard' = {}
          /\ UNCHANGED <<file, cache, control, at, rebuild, step, ontology, holders>>
     ELSE Save(g) /\ UNCHANGED <<full, cache, ontology, holders>>
  /\ UNCHANGED <<leaving, beside, troubles>>

\* The ontology is generated.
Generate(v) ==
  /\ at = "working" /\ step = Ontology
  /\ ontology' = v /\ cache' = v /\ holders' = {"cache", "graph"}
  /\ Save([graph EXCEPT !.ontology = v])
  /\ UNCHANGED <<full, leaving, beside, troubles>>

\* Another stage ends.  The verification's completeness pass may have added
\* entities, with whatever type was suggested.
FinishStep ==
  /\ at = "working" /\ step # Ontology
  /\ \/ Save(graph)
     \/ step = Verification /\ Save([graph EXCEPT !.typed = @ \cup {NoOntology}])
  /\ step < Summary => UNCHANGED <<cache, ontology, holders>>
  /\ UNCHANGED <<full, leaving, beside, troubles>>

\* The review ends and its findings are written into the graph.
EndReview ==
  /\ at = "reviewing"
  /\ saved' = [saved EXCEPT ![Summary] = graph]
  /\ status' = "completed" /\ control' = FALSE /\ cache' = NoOntology
  /\ Idle
  /\ UNCHANGED <<full, checkpoints, extraction, leaving, beside, troubles>>
-----------------------------------------------------------------------------
Fail ==
  /\ at \in {"starting", "working", "extracting", "reviewing"}
  /\ Trouble
  /\ status' = "failed" /\ control' = FALSE
  /\ cache' = IF rebuild THEN cache ELSE NoOntology
  /\ Idle /\ NoExtraction
  /\ UNCHANGED <<full, checkpoints, saved, leaving, beside>>

\* pipeline_cancel: the file says stopped, whatever is going on; a run that the
\* control reaches begins to unwind, one at a time (bound).
Cancel ==
  /\ leaving = "none"
  /\ Trouble
  /\ status' = "stopped"
  /\ IF control /\ at # "idle"
     THEN leaving' = (IF rebuild THEN "rebuild" ELSE "pipeline") /\ Idle /\ NoExtraction
     ELSE UNCHANGED <<run, extraction, leaving>>
  /\ UNCHANGED <<full, checkpoints, saved, cache, control, beside>>

\* The cancelled run has unwound, maybe after another began: _run_graph_pipeline
\* removes control and ontology whosever they are.
Unwound ==
  /\ leaving # "none"
  /\ leaving' = "none"
  /\ status' = "stopped"
  /\ IF leaving = "pipeline"
     THEN control' = FALSE /\ cache' = NoOntology /\ holders' = holders \ {"cache"}
     ELSE control' = (control /\ at # "idle") /\ UNCHANGED <<cache, holders>>
  /\ UNCHANGED <<full, checkpoints, saved, at, rebuild, step, graph, ontology, extraction,
                 beside, troubles>>

CrashUnrecovered ==   \* (mutant: no _recover_stale_sessions)
  /\ Trouble
  /\ cache' = NoOntology /\ control' = FALSE /\ leaving' = "none"
  /\ Idle /\ NoExtraction
  /\ UNCHANGED <<full, status, checkpoints, saved, beside>>

Crash ==
  /\ Trouble
  /\ status' = IF status = "running" THEN "stopped" ELSE status
  /\ cache' = NoOntology /\ control' = FALSE /\ leaving' = "none"
  /\ Idle /\ NoExtraction
  /\ UNCHANGED <<full, checkpoints, saved, beside>>

\* The object in the cache changes, for all that hold it.
Change(v) ==
  /\ cache # NoOntology /\ v # cache
  /\ cache' = v
  /\ ontology' = IF "cache" \in holders THEN v ELSE ontology
  /\ graph' = IF {"cache", "graph"} \subseteq holders THEN [graph EXCEPT !.ontology = v] ELSE graph
  /\ beside' = IF at = "extracting" \/ Extraction \in Done THEN beside \cup {"late"} ELSE beside
  /\ UNCHANGED <<full, status, checkpoints, control, at, rebuild, step, holders, extraction,
                 leaving, troubles>>

EditInMemory(v) == Change(v) /\ UNCHANGED saved   \* (mutant: nothing is saved)

\* pipeline_edit_ontology.
Edit(v) ==
  /\ Change(v)
  /\ saved' = IF Ontology \in DOMAIN saved THEN [saved EXCEPT ![Ontology].ontology = v] ELSE saved

\* generate_ontology_endpoint puts another object into the cache.
Regenerate(v) ==
  /\ cache' = v
  /\ holders' = holders \ {"cache"}
  /\ beside' = beside \cup {"regenerated"}
  /\ UNCHANGED <<file, control, at, rebuild, step, graph, ontology, extraction, leaving, troubles>>
-----------------------------------------------------------------------------
Work ==
  \/ Restore \/ Begin \/ BeginExtraction \/ Ingest \/ FinishStep \/ EndReview
  \/ \E s \in 1..Sections : Answer(s)
  \/ \E v \in Versions : Generate(v)
Next ==
  \/ Start \/ Work \/ Fail \/ Cancel \/ Unwound \/ Crash
  \/ \E s \in Stages : Rebuild(s)
  \/ \E v \in Versions : Edit(v) \/ Regenerate(v)
Spec == Init /\ [][Next]_vars

\* Models answer in time or fail, the user lets held stages go on and retries,
\* and a cancelled run unwinds.
FairSpec == Spec /\ WF_vars(Work) /\ WF_vars(Start) /\ WF_vars(Unwound)
-----------------------------------------------------------------------------
TypeOK ==
  /\ full \in BOOLEAN
  /\ status \in {"created", "running", "completed", "failed", "stopped"}
  /\ checkpoints \in Seq(Stages)
  /\ DOMAIN saved \subseteq Stages /\ \A s \in DOMAIN saved : saved[s] \in Graphs
  /\ cache \in Versions \cup {NoOntology} /\ control \in BOOLEAN
  /\ at \in {"idle", "starting", "held", "working", "extracting", "reviewing"}
  /\ rebuild \in BOOLEAN /\ step \in 0..Summary /\ graph \in Graphs
  /\ ontology \in Versions \cup {NoOntology} /\ holders \subseteq {"cache", "graph"}
  /\ batch \in Nat /\ waiting \subseteq 1..Sections /\ heard \subseteq Versions
  /\ leaving \in {"none", "pipeline", "rebuild"}
  /\ beside \subseteq {"late", "regenerated"} /\ troubles \in 0..MaxTroubles

\* The stages 1 to n were applied to g, each once and in order.
BuiltTo(g, n) == g.built = [i \in 1..n |-> i]

\* Whatever was interrupted, rebuilt or retried, the checkpoints are the first
\* stages in order, and for each the file holds a graph with exactly the stages
\* up to it: a resumed run never misses a graph ("has no saved graph",
\* pipeline.py:132) and never applies a stage to its own leftovers.
CheckpointsHaveGraphs ==
  /\ checkpoints = [i \in 1..Len(checkpoints) |-> i]
  /\ \A s \in Done : s \in DOMAIN saved /\ BuiltTo(saved[s], s)

\* Up to the verification every entity of a saved graph was coerced to the
\* ontology the graph names (graph_extractor.py:15-17), whatever was interrupted,
\* edited or rebuilt before; after it, every entity but those the verification
\* added (graph_verifier.py:367-376).  Excepted is an edit after the extraction
\* began.
OneOntology ==
  "late" \notin beside =>
    \A s \in Done :
      s >= Extraction =>
        saved[s].typed \subseteq {saved[s].ontology}
                               \cup (IF s >= Verification THEN {NoOntology} ELSE {})

\* An edit acknowledged before the extraction is in the finished graph, whatever
\* was interrupted in between (pipeline.py:290, routes.py:1476-1481).
EditsAreUsed ==
  Summary \in Done /\ beside = {} => saved[Summary].ontology = saved[Ontology].ontology

\* A build that is retried is completed.
BuildCompletes == <>[](status = "completed")

\* "only entity types and relationship types defined in the ontology are
\* accepted" (graph_extractor.py:15), for "Edit the generated ontology before
\* advancing past it" (routes.py:1463).
\* For what the extraction accepted; the verification asks no ontology.
GraphFitsItsOntology ==
  Summary \in Done => saved[Summary].typed \subseteq {saved[Summary].ontology, NoOntology}
=============================================================================
