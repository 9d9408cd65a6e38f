------------------------- MODULE GraphPipelineProofs -------------------------
(***************************************************************************)
(* What GraphPipeline guarantees for every document, batch size, set of    *)
(* ontologies and number of troubles: a checkpoint has its graph, and what *)
(* was extracted is of one ontology, the one the user saw last.            *)
(***************************************************************************)
EXTENDS GraphPipeline, TLAPS

N == Len(checkpoints)

\* What a graph with entities promises about its ontology when the stages up to s
\* are done.
FitsThen(g, s, then, named) ==
  /\ "late" \notin then =>
       g.typed \subseteq {g.ontology} \cup (IF s >= Verification THEN {NoOntology} ELSE {})
  /\ then = {} => g.ontology = named
Fits(g, s) == FitsThen(g, s, beside, saved[Ontology].ontology)

Recorded ==
  /\ \A i \in 1..N : checkpoints[i] = i
  /\ N <= Summary
  /\ \A s \in 1..N : s \in DOMAIN saved /\ BuiltTo(saved[s], s)

FileFits ==
  /\ N >= Ontology => saved[Ontology].ontology \in Versions
  /\ \A s \in 1..N : IF s < Extraction THEN saved[s].typed = {} ELSE Fits(saved[s], s)

\* Until the extraction is saved the cache, where it holds anything, agrees with
\* the file.
CacheFits ==
  /\ N >= Ontology /\ cache # NoOntology /\ "regenerated" \notin beside
  /\ N >= Extraction => "late" \notin beside
  => cache = saved[Ontology].ontology

\* Where the run is, and what it has applied to its graph.
RunBuilds ==
  /\ at \in {"held", "working", "extracting"} => step = N + 1 /\ step \in Stages
  /\ at = "held" => BuiltTo(graph, step - 1)
  /\ at \in {"working", "extracting"} => BuiltTo(graph, step)
  /\ at = "working" => step # Extraction
  /\ at = "extracting" => step = Extraction
  /\ at = "reviewing" => N = Summary /\ BuiltTo(graph, Summary)
  /\ at # "extracting" => waiting = {}

RunFits ==
  /\ at \in {"held", "working"} => IF step <= Extraction THEN graph.typed = {} ELSE Fits(graph, step - 1)
  /\ at = "reviewing" => Fits(graph, Summary)
  /\ at = "held" /\ step = Extraction =>
       /\ ontology \in Versions
       /\ "regenerated" \notin beside =>
            /\ ontology = saved[Ontology].ontology
            /\ cache # NoOntology => "cache" \in holders
  /\ at = "extracting" =>
       /\ ontology \in Versions /\ "graph" \in holders /\ graph.ontology = ontology
       /\ "late" \notin beside => graph.typed \cup heard \subseteq {ontology}
       /\ beside = {} => ontology = saved[Ontology].ontology

IInv == TypeOK /\ Recorded /\ FileFits /\ CacheFits /\ RunBuilds /\ RunFits

-----------------------------------------------------------------------------
USE DEF Metadata, Ontology, Extraction, Verification, Summary, Stages, file, run, extraction

\* What every proof reads off the invariant first: the stages done are 1 to N.
LEMMA DoneIsPrefix ==
  ASSUME TypeOK, Recorded
  PROVE  N \in 0..Summary /\ Done = 1..N
<1>1. N \in Nat /\ DOMAIN checkpoints = 1..N
  BY DEF TypeOK, N
<1> QED
  BY <1>1 DEF Recorded, Done

LEMMA AppendBuilt ==
  ASSUME NEW g \in Graphs, NEW n \in Stages, BuiltTo(g, n - 1)
  PROVE  Append(g.built, n) \in Seq(Stages) /\ Append(g.built, n) = [i \in 1..n |-> i]
<1>1. g.built \in Seq(Stages) /\ Len(g.built) = n - 1 /\ \A i \in 1..(n - 1) : g.built[i] = i
  BY DEF BuiltTo, Graphs
<1> QED
  BY <1>1

LEMMA NewGraphIsGraph == NewGraph \in Graphs
BY DEF NewGraph, Graphs

LEMMA IdleIsTyped ==
  ASSUME Idle
  PROVE  /\ at' = "idle" /\ rebuild' \in BOOLEAN /\ step' \in 0..Summary /\ graph' \in Graphs
         /\ ontology' \in Versions \cup {NoOntology} /\ holders' \subseteq {"cache", "graph"}
<1>1. rebuild' \in BOOLEAN
  BY DEF Idle
<1>2. /\ at' = "idle" /\ step' \in 0..Summary /\ graph' \in Graphs
      /\ ontology' \in Versions \cup {NoOntology} /\ holders' \subseteq {"cache", "graph"}
  BY NewGraphIsGraph DEF Idle
<1> QED
  BY <1>1, <1>2

LEMMA InitFits == ASSUME Init PROVE IInv
<1>1. checkpoints \in Seq(Stages) /\ N = 0
  BY DEF Init, N
<1>2. DOMAIN saved = {} /\ graph \in Graphs
  BY NewGraphIsGraph DEF Init
<1>3. rebuild \in BOOLEAN /\ control \in BOOLEAN
  BY DEF Init
<1>5. /\ step \in 0..Summary /\ holders \subseteq {"cache", "graph"}
      /\ troubles \in 0..MaxTroubles
  BY GraphAssumption DEF Init
<1>4. TypeOK
  BY <1>1, <1>2, <1>3, <1>5 DEF Init, TypeOK
<1> QED
  BY <1>1, <1>4 DEF Init, IInv, Recorded, FileFits, CacheFits, RunBuilds, RunFits

-----------------------------------------------------------------------------
\* Steps that start, end or interrupt a run and leave the file's graphs alone.

LEMMA StartFits == ASSUME IInv, Start PROVE IInv'
<1>1. N' = N
  BY DEF Start, N
<1>2. TypeOK'
  BY DEF IInv, Start, TypeOK
<1> QED
  BY <1>1, <1>2 DEF IInv, Start, Recorded, FileFits, Fits, FitsThen, BuiltTo, CacheFits,
                    RunBuilds, RunFits

\* A run that ends in any way leaves nothing behind it that the file relies on.
LEMMA EndFits ==
  ASSUME IInv, Idle, NoExtraction,
         UNCHANGED <<full, checkpoints, saved, beside>>,
         status' \in {"created", "running", "completed", "failed", "stopped"},
         cache' \in {cache, NoOntology}, control' \in BOOLEAN,
         leaving' \in {"none", "pipeline", "rebuild"}, troubles' \in 0..MaxTroubles
  PROVE  IInv'
<1>1. N' = N
  BY DEF N
<1>2. TypeOK'
  BY IdleIsTyped DEF IInv, TypeOK, NoExtraction
<1> QED
  BY <1>1, <1>2 DEF IInv, Idle, NoExtraction, Recorded, FileFits, Fits, FitsThen, BuiltTo, CacheFits,
                    RunBuilds, RunFits

LEMMA FailFits == ASSUME IInv, Fail PROVE IInv'
<1>1. troubles' \in 0..MaxTroubles
  BY GraphAssumption DEF IInv, TypeOK, Fail, Trouble
<1> QED
  BY <1>1, EndFits DEF IInv, TypeOK, Fail

LEMMA CancelFits == ASSUME IInv, Cancel PROVE IInv'
<1>1. troubles' \in 0..MaxTroubles
  BY GraphAssumption DEF IInv, TypeOK, Cancel, Trouble
<1>2. CASE control /\ at # "idle"
  BY <1>1, <1>2, EndFits DEF IInv, TypeOK, Cancel
<1>3. CASE ~(control /\ at # "idle")
  <2>1. UNCHANGED <<full, checkpoints, saved, cache, control, beside, run, extraction, leaving>>
        /\ status' = "stopped" /\ N' = N
    BY <1>3 DEF Cancel, N
  <2>2. TypeOK'
    BY <1>1, <2>1 DEF IInv, TypeOK
  <2> QED
    BY <2>1, <2>2 DEF IInv, Recorded, FileFits, Fits, FitsThen, BuiltTo, CacheFits, RunBuilds,
                      RunFits
<1> QED
  BY <1>2, <1>3

LEMMA CrashFits == ASSUME IInv, Crash PROVE IInv'
<1>1. troubles' \in 0..MaxTroubles
  BY GraphAssumption DEF IInv, TypeOK, Crash, Trouble
<1> QED
  BY <1>1, EndFits DEF IInv, TypeOK, Crash

LEMMA UnwoundFits == ASSUME IInv, Unwound PROVE IInv'
<1>1. N' = N
  BY DEF Unwound, N
<1>2. control' \in BOOLEAN
  <2>1. CASE leaving = "pipeline"
    BY <2>1 DEF Unwound
  <2>2. CASE leaving # "pipeline" /\ at = "idle"
    BY <2>2 DEF Unwound
  <2>3. CASE leaving # "pipeline" /\ at # "idle"
    <3>1. control' = control
      BY <2>3 DEF Unwound, IInv, TypeOK
    <3> QED
      BY <3>1 DEF IInv, TypeOK
  <2> QED
    BY <2>1, <2>2, <2>3
<1>3. TypeOK'
  BY <1>2 DEF IInv, Unwound, TypeOK
<1> QED
  BY <1>1, <1>3 DEF IInv, Unwound, Recorded, FileFits, Fits, FitsThen, BuiltTo, CacheFits,
                    RunBuilds, RunFits

LEMMA EndReviewFits == ASSUME IInv, EndReview PROVE IInv'
<1>1. N' = N
  BY DEF EndReview, N
<1>2. N = Summary /\ BuiltTo(graph, Summary) /\ Fits(graph, Summary) /\ graph \in Graphs
  BY DEF IInv, TypeOK, EndReview, RunBuilds, RunFits
<1>3. Summary \in DOMAIN saved
  BY <1>2 DEF IInv, Recorded
<1>4. DOMAIN saved' \subseteq Stages /\ \A s \in DOMAIN saved' : saved'[s] \in Graphs
  BY <1>2, <1>3 DEF IInv, TypeOK, EndReview
<1>9. TypeOK'
  BY <1>4, IdleIsTyped DEF IInv, EndReview, TypeOK
<1>5. saved'[Summary] = graph /\ \A s \in DOMAIN saved : s # Summary => saved'[s] = saved[s]
  BY <1>3 DEF EndReview
<1>6. DOMAIN saved' = DOMAIN saved
  BY DEF EndReview
<1>7. Recorded'
  BY <1>1, <1>2, <1>5, <1>6 DEF IInv, EndReview, Recorded, BuiltTo
<1>8. FileFits' /\ CacheFits'
  BY <1>1, <1>2, <1>5 DEF IInv, EndReview, FileFits, Fits, FitsThen, CacheFits, Recorded
<1> QED
  BY <1>7, <1>8, <1>9 DEF IInv, EndReview, Idle, RunBuilds, RunFits

-----------------------------------------------------------------------------
\* A rebuild cuts the file back to the stages before the chosen one.
LEMMA RebuildFits == ASSUME IInv, NEW s \in Stages, Rebuild(s) PROVE IInv'
<1>1. PICK kept \in 0..N : checkpoints' = SubSeq(checkpoints, 1, kept)
                           /\ \A i \in 1..N : checkpoints[i] < s <=> i <= kept
  BY DEF Rebuild, KeepBefore, N
<1>2. checkpoints \in Seq(Stages) /\ N \in 0..Summary /\ \A i \in 1..N : checkpoints[i] = i
  BY DoneIsPrefix DEF IInv, TypeOK, Recorded
<1>3. /\ checkpoints' \in Seq(Stages) /\ N' = kept
      /\ \A i \in 1..kept : checkpoints'[i] = i /\ i < s
  BY <1>1, <1>2 DEF N
<1>4. /\ DOMAIN saved' \subseteq DOMAIN saved
      /\ \A c \in DOMAIN saved' : saved'[c] = saved[c]
      /\ \A c \in DOMAIN saved : c < s => c \in DOMAIN saved'
  BY DEF Rebuild
<1>5. troubles' \in 0..MaxTroubles
  BY GraphAssumption DEF IInv, TypeOK, Rebuild, Trouble
<1>6. TypeOK'
  BY <1>3, <1>4, <1>5 DEF IInv, TypeOK, Rebuild
<1>7. \A c \in 1..N' : c \in 1..N /\ c \in DOMAIN saved' /\ saved'[c] = saved[c]
  BY <1>2, <1>3, <1>4 DEF IInv, Recorded
<1>8. Recorded'
  BY <1>2, <1>3, <1>7 DEF IInv, Recorded, BuiltTo
<1>9. FileFits'
  BY <1>2, <1>3, <1>7 DEF IInv, FileFits, Fits, FitsThen, Rebuild
<1>10. CacheFits' /\ RunBuilds' /\ RunFits'
  BY DEF IInv, Rebuild, CacheFits, RunBuilds, RunFits
<1> QED
  BY <1>6, <1>8, <1>9, <1>10 DEF IInv

\* Edits and regenerations change the ontology under a file and a run at rest.
LEMMA EditFits == ASSUME IInv, NEW v \in Versions, Edit(v) PROVE IInv'
<1>1. N' = N /\ Done = 1..N /\ N \in 0..Summary
  BY DoneIsPrefix DEF Edit, Change, N, IInv
<1>2. /\ DOMAIN saved' = DOMAIN saved
      /\ \A s \in DOMAIN saved : s # Ontology => saved'[s] = saved[s]
      /\ Ontology \in DOMAIN saved =>
           /\ saved'[Ontology].built = saved[Ontology].built
           /\ saved'[Ontology].typed = saved[Ontology].typed
           /\ saved'[Ontology].ontology = v
           /\ saved'[Ontology] \in Graphs
  BY DEF Edit, Change, IInv, TypeOK, Graphs
<1>3. /\ graph' \in Graphs /\ graph'.built = graph.built /\ graph'.typed = graph.typed
      /\ graph'.ontology = IF {"cache", "graph"} \subseteq holders THEN v ELSE graph.ontology
  BY DEF Edit, Change, IInv, TypeOK, Graphs
<1>4. TypeOK'
  BY <1>2, <1>3 DEF IInv, TypeOK, Edit, Change
<1>5. Recorded'
  BY <1>1, <1>2 DEF IInv, Recorded, BuiltTo, Edit, Change
<1>6. \A s \in 1..N : s \in DOMAIN saved
  BY DEF IInv, Recorded
<1>7. N >= Extraction \/ at = "extracting" => "late" \in beside'
  BY <1>1 DEF Edit, Change
<1>8. cache' = v /\ beside \subseteq beside'
  BY DEF Edit, Change
<1>9. FileFits'
  BY <1>1, <1>2, <1>6, <1>7, <1>8 DEF IInv, FileFits, Fits, FitsThen
<1>10. CacheFits'
  BY <1>1, <1>2, <1>6, <1>8 DEF CacheFits
<1>11. RunBuilds'
  BY <1>1, <1>3 DEF IInv, RunBuilds, BuiltTo, Edit, Change
<1>12. RunFits'
  <2>1. UNCHANGED <<at, step, holders, heard>>
        /\ ontology' = IF "cache" \in holders THEN v ELSE ontology
    BY DEF Edit, Change
  <2>2. at' \in {"held", "working"} => IF step' <= Extraction THEN graph'.typed = {} ELSE Fits(graph, step - 1)'
    BY <1>1, <1>3, <1>7, <1>8, <2>1 DEF IInv, RunFits, RunBuilds, Fits, FitsThen
  <2>3. at' = "reviewing" => Fits(graph, Summary)'
    BY <1>1, <1>7, <1>8, <2>1 DEF IInv, RunBuilds, Fits, FitsThen
  <2>4. at' = "held" /\ step' = Extraction =>
          /\ ontology' \in Versions
          /\ "regenerated" \notin beside' =>
               /\ ontology' = saved'[Ontology].ontology
               /\ cache' # NoOntology => "cache" \in holders'
    <3>1. SUFFICES ASSUME at = "held", step = Extraction
                   PROVE  /\ ontology' \in Versions
                          /\ "regenerated" \notin beside' =>
                               /\ ontology' = saved'[Ontology].ontology
                               /\ cache' # NoOntology => "cache" \in holders'
      BY <2>1
    <3>2. N = Ontology /\ Ontology \in DOMAIN saved
      BY <1>1, <1>6, <3>1 DEF IInv, RunBuilds
    <3>3. cache # NoOntology
      BY DEF Edit, Change
    <3> QED
      BY <1>2, <1>8, <2>1, <3>1, <3>2, <3>3 DEF IInv, RunFits
  <2>5. at' = "extracting" =>
          /\ ontology' \in Versions /\ "graph" \in holders' /\ graph'.ontology = ontology'
          /\ "late" \notin beside' => graph'.typed \cup heard' \subseteq {ontology'}
          /\ beside' = {} => ontology' = saved'[Ontology].ontology
    BY <1>3, <1>7, <2>1 DEF IInv, RunFits
  <2> QED
    BY <2>2, <2>3, <2>4, <2>5 DEF RunFits
<1> QED
  BY <1>4, <1>5, <1>9, <1>10, <1>11, <1>12 DEF IInv

LEMMA RegenerateFits == ASSUME IInv, NEW v \in Versions, Regenerate(v) PROVE IInv'
<1>1. N' = N
  BY DEF Regenerate, N
<1>2. TypeOK'
  BY DEF IInv, Regenerate, TypeOK
<1>3. "regenerated" \in beside' /\ beside \subseteq beside'
  BY DEF Regenerate
<1> QED
  BY <1>1, <1>2, <1>3 DEF IInv, Regenerate, Recorded, FileFits, Fits, FitsThen, BuiltTo, CacheFits,
                          RunBuilds, RunFits

-----------------------------------------------------------------------------
\* The steps of a run.

LEMMA BeginFits == ASSUME IInv, Begin PROVE IInv'
<1>1. N' = N
  BY DEF Begin, N
<1>2. step \in Stages /\ graph \in Graphs /\ BuiltTo(graph, step - 1)
  BY DEF Begin, IInv, TypeOK, RunBuilds
<1>3. /\ Append(graph.built, step) \in Seq(Stages)
      /\ Append(graph.built, step) = [i \in 1..step |-> i]
  BY <1>2, AppendBuilt
<1>4. /\ graph' \in Graphs /\ BuiltTo(graph', step)
      /\ graph'.typed = graph.typed /\ graph'.ontology = graph.ontology
  <2>1. /\ graph'.built = Append(graph.built, step)
        /\ graph'.typed = graph.typed /\ graph'.ontology = graph.ontology
        /\ graph' = [built |-> graph'.built, ontology |-> graph'.ontology, typed |-> graph'.typed]
    BY <1>2 DEF Begin, Graphs
  <2>2. graph' \in Graphs
    BY <1>2, <1>3, <2>1 DEF Graphs
  <2> QED
    BY <1>3, <2>1, <2>2 DEF BuiltTo
<1>5. TypeOK'
  BY <1>4 DEF IInv, Begin, TypeOK
<1> QED
  BY <1>1, <1>4, <1>5 DEF IInv, Begin, Recorded, FileFits, Fits, FitsThen, BuiltTo, CacheFits,
                          RunBuilds, RunFits

LEMMA BeginExtractionFits == ASSUME IInv, BeginExtraction PROVE IInv'
<1>1. N' = N
  BY DEF BeginExtraction, N
<1>10. step \in Stages /\ graph \in Graphs /\ BuiltTo(graph, step - 1)
  BY DEF BeginExtraction, IInv, TypeOK, RunBuilds
<1>2. step = Extraction /\ N = Ontology /\ graph \in Graphs
  BY DoneIsPrefix DEF BeginExtraction, IInv, TypeOK, RunBuilds
<1>3. /\ Append(graph.built, step) \in Seq(Stages)
      /\ Append(graph.built, step) = [i \in 1..step |-> i]
  BY <1>10, AppendBuilt
<1>4. ontology' \in Versions /\ (beside = {} => ontology' = saved[Ontology].ontology)
  BY <1>2 DEF BeginExtraction, IInv, TypeOK, RunFits, CacheFits
<1>5. graph' = [graph EXCEPT !.built = Append(@, step), !.ontology = ontology']
  BY DEF BeginExtraction
<1>7. graph.typed = {}
  BY <1>2 DEF IInv, RunFits, BeginExtraction
<1>8. /\ graph' \in Graphs /\ BuiltTo(graph', step)
      /\ graph'.typed = {} /\ graph'.ontology = ontology'
  <2>1. /\ graph'.built = Append(graph.built, step) /\ graph'.typed = graph.typed
        /\ graph'.ontology = ontology'
        /\ graph' = [built |-> graph'.built, ontology |-> graph'.ontology, typed |-> graph'.typed]
    BY <1>2, <1>5 DEF Graphs
  <2>2. graph' \in Graphs
    BY <1>2, <1>3, <1>4, <1>7, <2>1 DEF Graphs
  <2> QED
    BY <1>3, <1>7, <2>1, <2>2 DEF BuiltTo
<1>9. batch' \in Nat /\ waiting' \subseteq 1..Sections /\ heard' = {}
  BY DEF BeginExtraction, BatchOf
<1>6. TypeOK'
  BY <1>4, <1>8, <1>9 DEF IInv, BeginExtraction, TypeOK
<1> QED
  BY <1>1, <1>2, <1>4, <1>8, <1>6 DEF IInv, BeginExtraction, Recorded, FileFits, Fits, FitsThen, BuiltTo,
                                      CacheFits, RunBuilds, RunFits

LEMMA AnswerFits == ASSUME IInv, NEW s, Answer(s) PROVE IInv'
<1>1. N' = N
  BY DEF Answer, N
<1>2. at = "extracting" /\ ontology \in Versions
  BY DEF Answer, IInv, RunBuilds, RunFits
<1>3. heard' \subseteq heard \cup {ontology} /\ waiting' \subseteq waiting
  BY DEF Answer
<1>4. TypeOK'
  BY <1>2, <1>3 DEF IInv, Answer, TypeOK
<1> QED
  BY <1>1, <1>2, <1>3, <1>4 DEF IInv, Answer, Recorded, FileFits, Fits, FitsThen, BuiltTo, CacheFits,
                                RunBuilds, RunFits

\* A run that goes on with a whole graph, the file being as it should be.
LEMMA GoOnFits ==
  ASSUME IInv, NEW n \in 1..(Summary + 1), NEW g \in Graphs, GoOn(n, g),
         Recorded', FileFits', checkpoints' \in Seq(Stages), N' = n - 1,
         BuiltTo(g, n - 1),
         DOMAIN saved' \subseteq Stages, \A s \in DOMAIN saved' : saved'[s] \in Graphs,
         IF n <= Extraction THEN g.typed = {}
         ELSE FitsThen(g, n - 1, beside', saved'[Ontology].ontology),
         n <= Summary =>
           /\ cache' \in Versions \cup {NoOntology} /\ CacheFits'
           /\ ontology' \in Versions \cup {NoOntology} /\ holders' \subseteq {"cache", "graph"},
         n = Extraction =>
           /\ ontology' \in Versions
           /\ "regenerated" \notin beside' =>
                /\ ontology' = saved'[Ontology].ontology
                /\ cache' # NoOntology => "cache" \in holders',
         beside' \subseteq {"late", "regenerated"},
         UNCHANGED <<full, leaving, troubles>>
  PROVE  IInv'
<1>1. NoExtraction
  BY DEF GoOn, Conclude
<1>2. CASE n <= Summary
  <2>1. at' = "held" /\ step' = n /\ graph' = g /\ UNCHANGED <<status, control, rebuild>>
    BY <1>2 DEF GoOn
  <2>2. TypeOK'
    BY <1>1, <1>2, <2>1 DEF IInv, TypeOK, NoExtraction
  <2> QED
    BY <1>1, <1>2, <2>1, <2>2 DEF IInv, NoExtraction, RunBuilds, RunFits, Fits
<1>3. CASE n = Summary + 1 /\ full /\ ~rebuild
  <2>1. /\ at' = "reviewing" /\ cache' = g.ontology /\ graph' = g /\ ontology' = g.ontology
        /\ holders' = {"cache", "graph"} /\ UNCHANGED <<status, control, rebuild, step>>
    BY <1>3 DEF GoOn, Conclude
  <2>2. TypeOK'
    BY <1>1, <2>1 DEF IInv, TypeOK, NoExtraction, Graphs
  <2>3. CacheFits'
    BY <1>3, <2>1 DEF CacheFits, Fits, FitsThen
  <2> QED
    BY <1>1, <1>3, <2>1, <2>2, <2>3 DEF IInv, NoExtraction, RunBuilds, RunFits, Fits
<1>4. CASE n = Summary + 1 /\ ~(full /\ ~rebuild)
  <2>1. /\ Idle /\ status' = "completed" /\ control' = FALSE
        /\ cache' = IF rebuild THEN g.ontology ELSE NoOntology
    BY <1>4 DEF GoOn, Conclude
  <2>2. TypeOK'
    BY <1>1, <2>1, IdleIsTyped DEF IInv, TypeOK, NoExtraction, Graphs
  <2>3. CacheFits'
    BY <1>4, <2>1 DEF CacheFits, Fits, FitsThen
  <2> QED
    BY <1>1, <2>1, <2>2, <2>3, IdleIsTyped DEF IInv, NoExtraction, RunBuilds, RunFits
<1> QED
  BY <1>2, <1>3, <1>4

\* A stage that is saved: the file grows by one checkpoint and its graph.
LEMMA SaveFits ==
  ASSUME IInv, at \in {"working", "extracting"}, NEW g \in Graphs, Save(g),
         g.built = graph.built,
         IF step < Extraction THEN g.typed = {} ELSE FitsThen(g, step, beside', saved'[Ontology].ontology),
         step = Ontology => g.ontology \in Versions /\ ontology' = g.ontology
                            /\ cache' = g.ontology /\ holders' = {"cache", "graph"},
         step # Ontology /\ step < Summary => UNCHANGED <<cache, ontology, holders>>,
         UNCHANGED <<full, leaving, beside, troubles>>
  PROVE  IInv'
<1>1. N \in 0..Summary /\ Done = 1..N /\ step = N + 1 /\ step \in Stages
  BY DoneIsPrefix DEF IInv, RunBuilds
<1>2. /\ checkpoints' \in Seq(Stages) /\ N' = step
      /\ checkpoints'[step] = step /\ \A i \in 1..N : checkpoints'[i] = checkpoints[i]
  BY <1>1 DEF Save, N, IInv, TypeOK
<1>3. /\ DOMAIN saved' = DOMAIN saved \cup {step} /\ saved'[step] = g
      /\ \A s \in DOMAIN saved : s # step => saved'[s] = saved[s]
  BY DEF Save
<1>4. DOMAIN saved' \subseteq Stages /\ \A s \in DOMAIN saved' : saved'[s] \in Graphs
  BY <1>1, <1>3 DEF IInv, TypeOK
<1>5. PICK n \in Stages \cup {Summary + 1} : IsNext(n, step, Done) /\ GoOn(n, g)
  BY DEF Save
<1>6. n = step + 1
  BY <1>1, <1>5 DEF IsNext
<1>7. BuiltTo(g, step)
  BY DEF IInv, RunBuilds, BuiltTo
<1>8. \A s \in 1..N : s \in DOMAIN saved /\ s # step /\ saved'[s] = saved[s]
  BY <1>1, <1>3 DEF IInv, Recorded
<1>9. Recorded'
  <2>1. \A i \in 1..N' : checkpoints'[i] = i
    BY <1>1, <1>2 DEF IInv, Recorded
  <2>2. \A s \in 1..N' : s \in DOMAIN saved' /\ BuiltTo(saved'[s], s)
    BY <1>1, <1>2, <1>3, <1>7, <1>8 DEF IInv, Recorded
  <2>3. N' <= Summary
    BY <1>1, <1>2
  <2>4. \A s \in 1..N' : s \in DOMAIN saved' /\ BuiltTo(saved[s], s)'
    BY <2>2 DEF BuiltTo
  <2> QED
    BY <2>1, <2>3, <2>4 DEF Recorded
<1>10. step > Ontology => saved'[Ontology] = saved[Ontology]
  BY <1>1, <1>8
<1>11. FileFits'
  <2>1. N' >= Ontology => saved'[Ontology].ontology \in Versions
    BY <1>1, <1>2, <1>3, <1>10 DEF IInv, FileFits
  <2>2. ASSUME NEW s \in 1..N'
        PROVE  IF s < Extraction THEN saved'[s].typed = {} ELSE Fits(saved[s], s)'
    <3>1. CASE s = step
      BY <1>3, <3>1 DEF Fits
    <3>2. CASE s # step
      BY <1>1, <1>2, <1>8, <1>10, <3>2 DEF IInv, FileFits, Fits, FitsThen
    <3> QED
      BY <3>1, <3>2
  <2> QED
    BY <2>1, <2>2 DEF FileFits
<1>12. n <= Summary => CacheFits'
  BY <1>1, <1>2, <1>3, <1>6, <1>10 DEF IInv, CacheFits
<1>13. n = Extraction =>
         /\ ontology' \in Versions
         /\ ontology' = saved'[Ontology].ontology /\ "cache" \in holders'
  BY <1>1, <1>3, <1>6
<1>14. n <= Summary => /\ cache' \in Versions \cup {NoOntology}
                       /\ ontology' \in Versions \cup {NoOntology}
                       /\ holders' \subseteq {"cache", "graph"}
  <2>1. CASE step = Ontology
    BY <2>1
  <2>2. CASE step # Ontology /\ step < Summary
    BY <2>2 DEF IInv, TypeOK
  <2> QED
    BY <1>1, <1>6, <2>1, <2>2
<1>15. n - 1 = step /\ n \in 1..(Summary + 1) /\ beside' \subseteq {"late", "regenerated"}
  BY <1>1, <1>6 DEF IInv, TypeOK
<1>16. IF n <= Extraction THEN g.typed = {} ELSE FitsThen(g, n - 1, beside', saved'[Ontology].ontology)
  BY <1>15
<1> QED
  BY <1>2, <1>4, <1>5, <1>7, <1>9, <1>11, <1>12, <1>13, <1>14, <1>15, <1>16, GoOnFits

\* A run restored from the last saved graph.
LEMMA RestoreFits == ASSUME IInv, Restore PROVE IInv'
<1>1. N \in 0..Summary /\ Done = 1..N
  BY DoneIsPrefix DEF IInv
<1>2. /\ UNCHANGED <<full, checkpoints, saved, leaving, troubles>> /\ N' = N /\ at = "starting"
      /\ beside' = IF Extraction \in Done THEN beside
                   ELSE IF Ontology \in Done /\ cache # NoOntology THEN beside \ {"late"} ELSE {}
  BY DEF Restore, N
<1>3. PICK n \in 1..(Summary + 1) :
        /\ IsNext(n, 0, Done) /\ GoOn(n, LastSaved)
        /\ n <= Summary =>
             LET known == IF Ontology \notin Done THEN NoOntology
                          ELSE IF cache # NoOntology THEN cache ELSE saved[Ontology].ontology
             IN /\ ontology' = known
                /\ cache' = IF known = NoOntology THEN cache ELSE known
                /\ holders' = IF known = NoOntology THEN {} ELSE {"cache"}
  BY DEF Restore
<1>4. n = N + 1
  BY <1>1, <1>3 DEF IsNext
<1>5. N >= Ontology => saved[Ontology].ontology \in Versions
  BY DEF IInv, FileFits
<1>6. LastSaved \in Graphs /\ BuiltTo(LastSaved, N) /\ (N > 0 => LastSaved = saved[N])
  <2>1. CASE N = 0
    BY <2>1, NewGraphIsGraph DEF LastSaved, NewGraph, BuiltTo, N
  <2>2. CASE N > 0
    <3>1. checkpoints # <<>> /\ checkpoints[N] = N /\ N \in DOMAIN saved /\ BuiltTo(saved[N], N)
      BY <1>1, <2>2 DEF IInv, TypeOK, Recorded, N
    <3> QED
      BY <2>2, <3>1 DEF LastSaved, IInv, TypeOK, N
  <2> QED
    BY <1>1, <2>1, <2>2
<1>7. beside' \subseteq beside /\ (N >= Extraction => beside' = beside)
  BY <1>1, <1>2
<1>8. Recorded'
  BY <1>2 DEF IInv, Recorded, BuiltTo
<1>9. FileFits'
  BY <1>1, <1>2, <1>7 DEF IInv, FileFits, Fits, FitsThen
<1>10. IF n <= Extraction THEN LastSaved.typed = {}
       ELSE FitsThen(LastSaved, n - 1, beside', saved'[Ontology].ontology)
  <2>1. CASE N = 0
    BY <1>4, <2>1 DEF LastSaved, NewGraph, N, IInv, TypeOK
  <2>2. CASE N \in 1..Ontology
    BY <1>4, <1>6, <2>2 DEF IInv, FileFits
  <2>3. CASE N >= Extraction
    <3>1. Fits(saved[N], N)
      BY <1>1, <2>3 DEF IInv, FileFits
    <3> QED
      BY <1>1, <1>2, <1>4, <1>6, <1>7, <2>3, <3>1 DEF Fits
  <2> QED
    BY <1>1, <2>1, <2>2, <2>3
<1>11. n <= Summary =>
         /\ cache' \in Versions \cup {NoOntology} /\ CacheFits'
         /\ ontology' \in Versions \cup {NoOntology} /\ holders' \subseteq {"cache", "graph"}
  <2>1. CASE N < Ontology
    BY <1>1, <1>2, <1>3, <2>1 DEF CacheFits, IInv, TypeOK
  <2>2. CASE N >= Ontology /\ n <= Summary
    <3>1. Ontology \in Done
      BY <1>1, <2>2
    <3>2. /\ ontology' = IF cache # NoOntology THEN cache ELSE saved[Ontology].ontology
          /\ ontology' \in Versions /\ cache' = ontology' /\ holders' = {"cache"}
      BY <1>3, <1>5, <2>2, <3>1, GraphAssumption DEF IInv, TypeOK
    <3>3. CacheFits'
      BY <1>1, <1>2, <1>7, <2>2, <3>1, <3>2 DEF IInv, CacheFits
    <3> QED
      BY <3>2, <3>3
  <2> QED
    BY <1>1, <2>1, <2>2
<1>12. n = Extraction =>
         /\ ontology' \in Versions
         /\ "regenerated" \notin beside' =>
              /\ ontology' = saved'[Ontology].ontology
              /\ cache' # NoOntology => "cache" \in holders'
  <2>1. SUFFICES ASSUME n = Extraction
                 PROVE  /\ ontology' \in Versions
                        /\ "regenerated" \notin beside' =>
                             /\ ontology' = saved'[Ontology].ontology
                             /\ cache' # NoOntology => "cache" \in holders'
    OBVIOUS
  <2>2. Ontology \in Done /\ N = Ontology
    BY <1>1, <1>4, <2>1
  <2>3. /\ ontology' = IF cache # NoOntology THEN cache ELSE saved[Ontology].ontology
        /\ ontology' \in Versions /\ cache' = ontology' /\ holders' = {"cache"}
    BY <1>3, <1>5, <2>1, <2>2, GraphAssumption DEF IInv, TypeOK
  <2> QED
    BY <1>2, <1>11, <2>1, <2>2, <2>3 DEF CacheFits
<1>13. /\ checkpoints' \in Seq(Stages) /\ N' = n - 1 /\ beside' \subseteq {"late", "regenerated"}
       /\ DOMAIN saved' \subseteq Stages /\ \A s \in DOMAIN saved' : saved'[s] \in Graphs
  BY <1>1, <1>2, <1>4, <1>7 DEF IInv, TypeOK
<1>14. LastSaved' = LastSaved
  BY <1>2 DEF LastSaved
<1> QED
  BY <1>1, <1>2, <1>3, <1>4, <1>6, <1>8, <1>9, <1>10, <1>11, <1>12, <1>13, GoOnFits

\* The answers of a batch, all coerced to the ontology of the graph.
LEMMA IngestFits == ASSUME IInv, Ingest PROVE IInv'
<1> DEFINE g == [graph EXCEPT !.typed = @ \cup heard]
<1>1. graph \in Graphs /\ heard \subseteq Versions /\ step = Extraction /\ N = Ontology
  BY DoneIsPrefix DEF IInv, TypeOK, Ingest, RunBuilds
<1>2. /\ g \in Graphs /\ g.built = graph.built /\ g.ontology = graph.ontology
      /\ g.typed = graph.typed \cup heard
  BY <1>1 DEF Graphs
<1>3. Fits(g, Extraction)
  BY <1>2 DEF IInv, Ingest, RunFits, Fits, FitsThen
<1>4. CASE BatchOf(batch + 1) # {}
  <2>1. /\ graph' = g /\ batch' = batch + 1 /\ waiting' = BatchOf(batch + 1) /\ heard' = {}
        /\ UNCHANGED <<file, cache, control, at, rebuild, step, ontology, holders>>
        /\ UNCHANGED <<leaving, beside, troubles>>
    BY <1>4 DEF Ingest
  <2>2. N' = N
    BY <2>1 DEF N
  <2>3. batch' \in Nat /\ waiting' \subseteq 1..Sections /\ heard' = {}
    BY <2>1 DEF BatchOf, IInv, TypeOK
  <2>4. TypeOK'
    BY <1>2, <2>1, <2>3 DEF IInv, TypeOK
  <2>5. at = "extracting"
    BY DEF Ingest
  <2>6. Recorded' /\ FileFits' /\ CacheFits'
    BY <2>1, <2>2 DEF IInv, Recorded, FileFits, Fits, FitsThen, BuiltTo, CacheFits
  <2>7. RunBuilds' /\ RunFits'
    BY <1>2, <2>1, <2>2, <2>5 DEF IInv, RunBuilds, RunFits, BuiltTo
  <2> QED
    BY <2>4, <2>6, <2>7 DEF IInv
<1>5. CASE BatchOf(batch + 1) = {}
  <2>1. Save(g) /\ UNCHANGED <<full, cache, ontology, holders, leaving, beside, troubles>>
        /\ at = "extracting"
    BY <1>5 DEF Ingest
  <2>3. saved'[Ontology] = saved[Ontology]
    BY <1>1, <2>1 DEF Save, IInv, Recorded
  <2>4. FitsThen(g, step, beside', saved'[Ontology].ontology)
    BY <1>1, <1>3, <2>1, <2>3 DEF Fits
  <2>5. step = 3 /\ at \in {"working", "extracting"} /\ UNCHANGED <<full, leaving, beside, troubles>>
        /\ UNCHANGED <<cache, ontology, holders>>
    BY <1>1, <2>1
  <2> HIDE DEF g
  <2> QED
    BY <1>2, <2>1, <2>4, <2>5, SaveFits
<1> QED
  BY <1>4, <1>5

LEMMA GenerateFits == ASSUME IInv, NEW v \in Versions, Generate(v) PROVE IInv'
<1> DEFINE g == [graph EXCEPT !.ontology = v]
<1>1. graph \in Graphs /\ step = Ontology /\ graph.typed = {} /\ at = "working"
  BY DEF IInv, TypeOK, Generate, RunFits
<1>2. g \in Graphs /\ g.built = graph.built /\ g.ontology = v /\ g.typed = {}
  BY <1>1 DEF Graphs
<1>3. /\ Save(g) /\ ontology' = v /\ cache' = v /\ holders' = {"cache", "graph"}
      /\ UNCHANGED <<full, leaving, beside, troubles>>
  BY DEF Generate
<1> HIDE DEF g
<1> QED
  BY <1>1, <1>2, <1>3, SaveFits

\* The verification's additions are what a graph may hold from that stage on.
LEMMA FinishStepFits == ASSUME IInv, FinishStep PROVE IInv'
<1>1. /\ at = "working" /\ step # Ontology /\ graph \in Graphs
      /\ step < Summary => UNCHANGED <<cache, ontology, holders>>
      /\ UNCHANGED <<full, leaving, beside, troubles>>
  BY DEF FinishStep, IInv, TypeOK
<1>2. PICK g \in {graph, [graph EXCEPT !.typed = @ \cup {NoOntology}]} :
        Save(g) /\ (g # graph => step = Verification)
  BY DEF FinishStep
<1>3. /\ g \in Graphs /\ g.built = graph.built /\ g.ontology = graph.ontology
      /\ g.typed \subseteq graph.typed \cup (IF step = Verification THEN {NoOntology} ELSE {})
  <2>1. CASE g = graph
    BY <1>1, <2>1
  <2>2. CASE g = [graph EXCEPT !.typed = @ \cup {NoOntology}] /\ step = Verification
    BY <1>1, <2>2 DEF Graphs
  <2> QED
    BY <1>2, <2>1, <2>2
<1>4. N \in 0..Summary /\ step = N + 1 /\ step # Extraction
  BY <1>1, DoneIsPrefix DEF IInv, RunBuilds
<1>5. step < Extraction => g.typed = {}
  BY <1>1, <1>3, <1>4 DEF IInv, RunFits
<1>6. ~(step < Extraction) => FitsThen(g, step, beside', saved'[Ontology].ontology)
  <2>1. SUFFICES ASSUME ~(step < Extraction)
                 PROVE  FitsThen(g, step, beside', saved'[Ontology].ontology)
    OBVIOUS
  <2>2. Fits(graph, step - 1)
    BY <1>1, <1>4, <2>1 DEF IInv, RunFits
  <2>3. Ontology \in DOMAIN saved /\ step # Ontology
    BY <1>4, <2>1 DEF IInv, Recorded
  <2>4. saved'[Ontology] = saved[Ontology]
    BY <1>2, <2>3 DEF Save
  <2> QED
    BY <1>1, <1>3, <1>4, <2>2, <2>4 DEF Fits, FitsThen
<1>7. IF step < Extraction THEN g.typed = {}
      ELSE FitsThen(g, step, beside', saved'[Ontology].ontology)
  BY <1>5, <1>6
<1> HIDE DEF Metadata, Ontology, Extraction, Verification, Summary, Stages
<1> QED
  BY <1>1, <1>2, <1>3, <1>7, SaveFits

-----------------------------------------------------------------------------
\* Whatever the order of steps, failures, restarts and edits, the invariant holds.
THEOREM BuildIsSound == Spec => []IInv
<1>1. Init => IInv
  BY InitFits
<1>2. IInv /\ [Next]_vars => IInv'
  <2>1. SUFFICES ASSUME IInv, [Next]_vars PROVE IInv'
    OBVIOUS
  <2>2. CASE Start \/ Fail \/ Cancel \/ Unwound \/ Crash
    BY <2>1, <2>2, StartFits, FailFits, CancelFits, UnwoundFits, CrashFits
  <2>3. CASE Work
    <3>1. CASE Restore \/ Begin \/ BeginExtraction \/ Ingest \/ FinishStep \/ EndReview
      BY <2>1, <3>1, RestoreFits, BeginFits, BeginExtractionFits, IngestFits, FinishStepFits,
         EndReviewFits
    <3>2. CASE \E s \in 1..Sections : Answer(s)
      BY <2>1, <3>2, AnswerFits
    <3>3. CASE \E v \in Versions : Generate(v)
      BY <2>1, <3>3, GenerateFits
    <3> QED
      BY <2>3, <3>1, <3>2, <3>3 DEF Work
  <2>4. CASE \E s \in Stages : Rebuild(s)
    BY <2>1, <2>4, RebuildFits
  <2>5. CASE \E v \in Versions : Edit(v) \/ Regenerate(v)
    BY <2>1, <2>5, EditFits, RegenerateFits
  <2>6. CASE UNCHANGED vars
    <3>1. N' = N
      BY <2>6 DEF vars, N
    <3>2. TypeOK'
      BY <2>1, <2>6 DEF vars, IInv, TypeOK
    <3> QED
      BY <2>1, <2>6, <3>1, <3>2 DEF vars, IInv, Recorded, FileFits, Fits, FitsThen, BuiltTo,
                                    CacheFits, RunBuilds, RunFits
  <2> QED
    BY <2>1, <2>2, <2>3, <2>4, <2>5, <2>6 DEF Next
<1> QED
  BY <1>1, <1>2, PTL DEF Spec

\* Every reachable state is typed, for any numbers of sections and versions.
THEOREM BuildIsTyped == Spec => []TypeOK
<1>1. IInv => TypeOK
  BY DEF IInv
<1> QED
  BY <1>1, BuildIsSound, PTL

\* A checkpoint always has its graph, with the stages up to it applied once each
\* (knowledge/pipeline.py:104-133), through any number of interruptions and rebuilds.
THEOREM CheckpointsHaveTheirGraphs == Spec => []CheckpointsHaveGraphs
<1>1. IInv => CheckpointsHaveGraphs
  <2>1. SUFFICES ASSUME IInv PROVE CheckpointsHaveGraphs
    OBVIOUS
  <2>2. N \in 0..Summary /\ Done = 1..N /\ checkpoints \in Seq(Stages)
    BY <2>1, DoneIsPrefix DEF IInv, TypeOK
  <2>3. checkpoints = [i \in 1..Len(checkpoints) |-> i]
    BY <2>1, <2>2 DEF IInv, Recorded, N
  <2> QED
    BY <2>1, <2>2, <2>3 DEF IInv, Recorded, CheckpointsHaveGraphs
<1> QED
  BY <1>1, BuildIsSound, PTL

\* Every entity of a saved graph was coerced to the ontology the graph names
\* (graph_extractor.py:322-348), but for those the verification adds
\* (graph_verifier.py:367-376), unless an edit came after the extraction began.
THEOREM GraphsAreOfOneOntology == Spec => []OneOntology
<1>1. IInv => OneOntology
  <2>1. SUFFICES ASSUME IInv, "late" \notin beside, NEW s \in Done, s >= Extraction
                 PROVE  saved[s].typed \subseteq {saved[s].ontology}
                               \cup (IF s >= Verification THEN {NoOntology} ELSE {})
    BY DEF OneOntology
  <2>2. s \in 1..N
    BY <2>1, DoneIsPrefix DEF IInv
  <2> QED
    BY <2>1, <2>2, DoneIsPrefix DEF IInv, FileFits, Fits, FitsThen
<1> QED
  BY <1>1, BuildIsSound, PTL

\* An edit acknowledged before the extraction is in the finished graph
\* (routes.py:1476-1481), across interruptions and restarts.
THEOREM EditsReachTheGraph == Spec => []EditsAreUsed
<1>1. IInv => EditsAreUsed
  <2>1. SUFFICES ASSUME IInv, Summary \in Done, beside = {}
                 PROVE  saved[Summary].ontology = saved[Ontology].ontology
    BY DEF EditsAreUsed
  <2>2. N = Summary
    BY <2>1, DoneIsPrefix DEF IInv
  <2> QED
    BY <2>1, <2>2 DEF IInv, FileFits, Fits, FitsThen
<1> QED
  BY <1>1, BuildIsSound, PTL
=============================================================================
