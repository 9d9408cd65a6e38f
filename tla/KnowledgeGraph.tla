---------------------------- MODULE KnowledgeGraph ----------------------------
(***************************************************************************)
(* The knowledge graph of one paper (knowledge/graph.py) and the steps     *)
(* that change it: metadata and evidence, the ontology's contributions,    *)
(* the extraction, the resolution of co-references, the verification, the  *)
(* summary's clean-up, and the annotation by reviews.  GraphPipeline says  *)
(* when each step runs and what is saved; here is what it does.            *)
(*                                                                         *)
(* What a model answers is arbitrary: it may name any label it was shown,  *)
(* those of the paper and its sections included.  Labels stand for their   *)
(* lower-case form, the key under which the code looks nodes up; lists of  *)
(* nodes and edges are sets, for labels are unique (WellFormed) and        *)
(* add_edge ignores an edge it has.                                        *)
(***************************************************************************)
EXTENDS Integers, Sequences, FiniteSets

CONSTANTS
  Title,        \* the paper's label
  SectionNames,
  Figures,      \* labels of placeholders, "figure 1"
  Equations,    \* labels of equations
  Entities,     \* labels only models use
  Caption,      \* the label a figure has once its image was extracted
  Papers,       \* what the metadata step reads
  Contributions,\* sets of labels an ontology may call contributions
  Extractions,  \* answers about a section
  Merges,       \* lists of merges, one for a kept label
  Aliases,      \* sets of pairs: an abbreviation and what it stands for
  Audits,       \* answers of the three passes of the verification
  Files,        \* graphs in GraphPanel's format
  MaxAnswers    \* sections extracted, findings annotated (bound)

Labels == {Title} \cup SectionNames \cup Figures \cup Equations \cup Entities
            \cup {Caption[f] : f \in Figures}

ASSUME LabelsAssumption ==
  /\ MaxAnswers \in Nat
  /\ Figures \cap Equations = {}   \* "Figure 1" and "Eq. 1"
  /\ \A f \in Figures : Caption[f] \notin {Title} \cup SectionNames \cup Figures \cup Equations
                                            \cup Entities
  /\ \A f, g \in Figures : Caption[f] = Caption[g] => f = g

\* "Method", "Claim" and "Result" stand for the types an ontology defines; it may
\* define structural ones too, and has "Equation".
Generic == {"Concept", "Reference", "Equation"}
Structural == {"Paper", "Section", "Diagram", "Figure", "Table", "Reference", "Equation"}
Types == {"Concept", "Method", "Claim", "Result"} \cup Structural
Relations == {"USES", "PART_OF", "ALIAS_OF", "APPEARS_IN", "HAS_SECTION", "CONTAINS", "HAS_ARTIFACT"}
StructuralEdgeTypes == {"HAS_SECTION", "CONTAINS", "HAS_ARTIFACT", "APPEARS_IN"}

\* Confidence, in tenths; the threshold is the domain's.
Confidence == 0..10
Threshold == 3

Steps == {"metadata", "ontology", "extraction", "coref", "merging", "verify", "summary", "done"}
\* A new node's id is its label and the step that made it, or the imported file:
\* uuids are fresh.
Ids == Labels \X {"metadata", "ontology", "extraction", "verify", "file", "paper-root"}
Root == <<Title, "paper-root">>

Evidence == {"plain", "described"}   \* extracted from a page; described or decoded as well
Grounding == Evidence \cup {"none"}
Nodes == [id : Ids, label : Labels, type : Types, confidence : Confidence,
          section : SectionNames \cup {"", "ontology"}, grounding : Grounding]
Edges == Ids \X Ids \X Relations

\* f maps some members of S to members of T.
IsPartial(f, S, T) == DOMAIN f \subseteq S /\ f \in [DOMAIN f -> T]
\* A relation as a model answers it: an ontology offers it the structural ones too
\* (ontology.py:222-243), and the verification asks no ontology.
Named3 == Labels \X Labels \X Relations

\* What is read, answered or imported is a list, so there is an end to it.
ASSUME PapersAssumption ==
  \A p \in Papers :
    /\ p.sections \subseteq SectionNames /\ p.mentioned \subseteq Figures /\ p.numbered \subseteq Equations
    /\ IsPartial(p.images, Figures, Evidence) /\ IsPartial(p.formulas, Equations, Evidence)
    /\ \A S \in {p.sections, p.mentioned, p.numbered, DOMAIN p.images, DOMAIN p.formulas} : IsFiniteSet(S)

ASSUME AnswersAssumption ==
  /\ Contributions \subseteq SUBSET Labels /\ \A c \in Contributions : IsFiniteSet(c)
  /\ \A x \in Extractions : /\ x.section \in SectionNames /\ IsPartial(x.types, Labels, Types)
                            /\ x.relations \subseteq Named3 /\ IsFiniteSet(DOMAIN x.types)
  /\ Merges \subseteq Seq([keep : Labels, remove : SUBSET Labels])
  /\ \A al \in Aliases : al \subseteq Labels \X Labels
  /\ \A a \in Audits : /\ a.connections \subseteq Named3
                       /\ IsPartial(a.missing, Labels, [section : SectionNames \cup {""}, type : Types])
                       /\ IsPartial(a.doubts, Labels, Confidence) /\ IsFiniteSet(DOMAIN a.missing)

ASSUME FilesAssumption ==
  \A f \in Files :
    /\ \A d \in f.nodes : /\ d.uuid \in Ids /\ d.name \in Labels /\ d.type \in Types
                        /\ d.grounding \in Grounding
    /\ \A d, c \in f.nodes : d.uuid = c.uuid => d = c
    /\ f.edges \subseteq Edges /\ IsFiniteSet(f.nodes)

VARIABLES
  nodes, edges,
  counts,       \* node_count_by_type and the number of edges of each type
  summary,      \* the stored briefing, {} if there is none
  contributions,\* the contributions of the graph's ontology
  step,         \* the step in progress
  merges,       \* merges of the answers not yet applied
  aliases,      \* their aliases
  answers,      \* sections extracted, or reviews annotated
  annotations,  \* <<node, finding>>
  findings,     \* history: the findings annotate_from_review counted
  found,        \* history: the graph the resolution started from
  into,         \* history: the node that each of its nodes became
  doubted,      \* history: the nodes that the grounding pass flagged
  loose         \* history: structural edges that a model answered, a merge moved or
                \* a file has

graph == <<nodes, edges, counts, summary, contributions>>
history == <<findings, found, into, doubted, loose>>
vars == <<graph, step, merges, aliases, answers, annotations, history>>

-----------------------------------------------------------------------------
(* The operations of KnowledgeGraph, on a set of nodes or of edges.        *)

New(l, s, t, sec, c, g) ==
  [id |-> <<l, s>>, label |-> l, type |-> t, confidence |-> c, section |-> sec, grounding |-> g]

LabelOnly(ns, news) ==   \* (mutant: only a node of the same type is the same)
  ns \cup {e \in news : \A n \in ns : n.label # e.label \/ n.type # e.type}

\* add_node for nodes of different labels.  A label that exists keeps its node; a
\* specific type replaces a generic one.
AddNodes(ns, news) ==
  {LET better == {e \in news : e.label = n.label /\ n.type \in Generic /\ e.type \notin Generic}
   IN IF better = {} THEN n
      ELSE LET e == CHOOSE e \in better : TRUE
           IN [n EXCEPT !.type = e.type, !.section = IF @ = "" THEN e.section ELSE @] : n \in ns}
  \cup {e \in news : \A n \in ns : n.label # e.label}

\* node_by_label: the id, if there is one.
Called(ns, l) == {n.id : n \in {m \in ns : m.label = l}}
Semantic(ns) == {n \in ns : n.type \notin Structural}
IdsOf(ns) == {n.id : n \in ns}

\* The edges of relations named by labels; a name nobody has is skipped.
Named(ns, relations) ==
  UNION {Called(ns, r[1]) \X Called(ns, r[2]) \X {r[3]} : r \in relations}

\* The edges that redirect_edges moves and remove_node drops.
Touching(es, gone) == {e \in es : e[1] \in gone \/ e[2] \in gone}

\* redirect_edges
Redirect(es, gone, keep) ==
  LET To(i) == IF i \in gone THEN keep ELSE i
  IN {<<To(e[1]), To(e[2]), e[3]>> : e \in es}

\* remove_node, and the last lines of prune_ungrounded
WithoutNodes(es, gone) == {e \in es : e[1] \notin gone /\ e[2] \notin gone}

\* update_stats
Counts(ns, es) ==
  [types |-> [t \in Types |-> Cardinality({n \in ns : n.type = t})],
   relations |-> [r \in Relations |-> Cardinality({e \in es : e[3] = r})]]

\* graph_stats; the ratio and the number of all sections are left to the reader.
Facts(es) == {e \in es : e[3] \notin StructuralEdgeTypes}
Structure(es) == {e \in es : e[3] \in StructuralEdgeTypes}
Stats(ns, es) ==
  LET facts == Facts(es)
  IN [semantic |-> Cardinality(Semantic(ns)),
      facts |-> Cardinality(facts),
      connected |-> Cardinality({n \in Semantic(ns) : \E e \in facts : n.id \in {e[1], e[2]}}),
      sections |-> Cardinality({n.section : n \in Semantic(ns)} \ {""}),
      entityTypes |-> Cardinality({n.type : n \in Semantic(ns)}),
      edgeTypes |-> Cardinality({e[3] : e \in facts})]

\* to_agent_briefing, without the limits on listed rows.  A graph without entities has
\* none; an end of an edge that is gone has no label.
Briefing(ns, es, stated) ==
  LET Of(types) == {n \in ns : n.type \in types}
      LabelsOf(set) == {n.label : n \in set}
      LabelOf(i) == LabelsOf({n \in ns : n.id = i})
      claims == stated \cup LabelsOf(Of({"Claim"}))
      uses == {<<LabelOf(e[1]), LabelOf(e[2])>> : e \in {f \in Facts(es) : f[3] = "USES"}}
      visual == Of({"Diagram", "Figure", "Table"})
      Beside(e) == IF e[1] \in IdsOf(visual) THEN <<LabelOf(e[1]), LabelOf(e[2])>>
                   ELSE <<LabelOf(e[2]), LabelOf(e[1])>>
  IN IF Semantic(ns) = {} THEN {}
     ELSE {[claims |-> claims, uses |-> uses,
            methods |-> IF claims = {} \/ uses = {} THEN LabelsOf(Of({"Method"})) ELSE {},
            results |-> LabelsOf(Of({"Result"})),
            artifacts |-> {b \in {Beside(e) : e \in {f \in Facts(es) : {f[1], f[2]} \cap IdsOf(visual) # {}}} :
                             b[2] # {}},
            doubtful |-> LabelsOf({n \in Semantic(ns) : n.confidence < 5}),
            described |-> LabelsOf({n \in Of({"Figure", "Table"}) : n.grounding = "described"}),
            equations |-> {<<n.label, n.grounding>> : n \in {m \in Of({"Equation"}) : m.grounding # "none"}},
            stats |-> Stats(ns, es)]}

\* to_d3_format: the confidence, the section and the annotations are not exported.
Exported(ns, es) ==
  [nodes |-> {[uuid |-> n.id, name |-> n.label, type |-> n.type, grounding |-> n.grounding] : n \in ns},
   edges |-> es]

\* ingest_d3_data into an empty graph: the first node of a name stays, with the type
\* that add_node would give it, and stands for the others; an edge with an unknown
\* end is left out.
Ingested(d3) ==
  LET names == {d.name : d \in d3.nodes}
      First == [l \in names |-> CHOOSE d \in d3.nodes : d.name = l]
      Better(l) == {d \in d3.nodes : d.name = l /\ First[l].type \in Generic /\ d.type \notin Generic}
      Type(l) == IF Better(l) = {} THEN First[l].type ELSE (CHOOSE d \in Better(l) : TRUE).type
      Node(i) == {First[d.name].uuid : d \in {c \in d3.nodes : c.uuid = i}}
  IN [nodes |-> {[id |-> First[l].uuid, label |-> l, type |-> Type(l), confidence |-> 10,
                  section |-> "", grounding |-> First[l].grounding] : l \in names},
      edges |-> UNION {Node(e[1]) \X Node(e[2]) \X {e[3]} : e \in d3.edges}]
-----------------------------------------------------------------------------
Init ==
  /\ nodes = {} /\ edges = {} /\ counts = Counts({}, {}) /\ summary = {} /\ contributions = {}
  /\ step = "metadata" /\ merges = <<>> /\ aliases = {} /\ answers = 0
  /\ annotations = {} /\ findings = 0
  /\ found = [nodes |-> {}, edges |-> {}] /\ into = <<>> /\ doubted = {} /\ loose = {}

Update(ns, es) == nodes' = ns /\ edges' = es /\ counts' = Counts(ns, es)

\* ingest_visual_evidence (images) after ingest_metadata: a placeholder becomes the
\* figure; a figure the text does not number gets a node of its own.
WithImages(ns, images) ==
  {IF n.label \in DOMAIN images /\ n.type = "Diagram"
   THEN [n EXCEPT !.label = Caption[n.label], !.type = "Figure", !.grounding = images[n.label],
                  !.confidence = IF images[n.label] = "described" THEN 8 ELSE @]
   ELSE n : n \in ns}
  \cup {New(Caption[f], "metadata", "Figure", "", IF images[f] = "described" THEN 8 ELSE 0, images[f])
          : f \in {g \in DOMAIN images : \A n \in ns : n.label = g => n.type # "Diagram"}}

\* ingest_equation_evidence: an equation the text mentions is the same node.
WithFormulas(ns, formulas) ==
  {IF n.label \in DOMAIN formulas THEN [n EXCEPT !.grounding = formulas[n.label]] ELSE n : n \in ns}
  \cup {New(q, "metadata", "Equation", "", IF formulas[q] = "described" THEN 8 ELSE 0, formulas[q])
          : q \in {p \in DOMAIN formulas : Called(ns, p) = {}}}

\* The metadata step: ingest_metadata, then the evidence extracted from the pages.
Metadata ==
  /\ step = "metadata" /\ nodes = {}
  /\ \E p \in Papers :
       LET root == New(Title, "paper-root", "Paper", "", 10, "none")
           heads == {New(s, "metadata", "Section", "", 10, "none") : s \in p.sections}
           parts == {New(f, "metadata", "Diagram", "", 10, "none") : f \in p.mentioned}
                      \cup {New(q, "metadata", "Equation", "", 10, "none") : q \in p.numbered}
           headed == AddNodes({root}, heads)
           listed == AddNodes(headed, parts)
           Linked(ns, labels, r) == {Root} \X (UNION {Called(ns, l) : l \in labels}) \X {r}
           all == WithFormulas(WithImages(listed, p.images), p.formulas)
           evidence == {n \in all : n.grounding # "none" /\ n.id # Root}
       IN Update(all, Linked(headed, p.sections, "HAS_SECTION")
                        \cup Linked(listed, p.mentioned \cup p.numbered, "CONTAINS")
                        \cup ({Root} \X IdsOf(evidence) \X {"HAS_ARTIFACT"}))
  /\ step' = "ontology"
  /\ UNCHANGED <<summary, contributions, merges, aliases, answers, annotations, history>>

\* add_ontology_nodes
Ontology ==
  /\ step = "ontology"
  /\ \E stated \in Contributions :
       LET all == AddNodes(nodes, {New(c, "ontology", "Concept", "ontology", 10, "none") : c \in stated})
       IN /\ Update(all, edges \cup ({Root} \X (UNION {Called(all, c) : c \in stated}) \X {"PART_OF"}))
          /\ contributions' = stated
  /\ step' = "extraction"
  /\ UNCHANGED <<summary, merges, aliases, answers, annotations, history>>

\* _ingest_result of one section, after _normalize_entities (one entity of a label)
\* and _validate_against_ontology (types and relations of the ontology, Concept,
\* Reference or RELATED_TO, which "USES" stands for).  No label is part of another or
\* of a section's name.  The counts wait for the last section.
Extract ==
  /\ step = "extraction" /\ answers < MaxAnswers
  /\ \E x \in Extractions :
       LET all == AddNodes(nodes, {New(l, "extraction", x.types[l], x.section, 10, "none") : l \in DOMAIN x.types})
           headed == {n \in all : n.label = x.section /\ n.type = "Section"}
           here == {n \in Semantic(all) : n.label \in DOMAIN x.types}
           answered == Named(all, x.relations)
       IN /\ nodes' = all
          /\ edges' = edges \cup answered \cup (IdsOf(here) \X IdsOf(headed) \X {"APPEARS_IN"})
          /\ loose' = loose \cup (Structure(answered) \ edges)
  /\ answers' = answers + 1
  /\ UNCHANGED <<counts, summary, contributions, step, merges, aliases, annotations,
                 findings, found, into, doubted>>

EndExtraction ==
  /\ step = "extraction"
  /\ Update(nodes, edges)
  /\ step' = "coref" /\ answers' = 0
  /\ UNCHANGED <<summary, contributions, merges, aliases, annotations, history>>

\* resolve_coreferences: too few entities, or no usable answer, and nothing changes.
SkipCoref ==
  /\ step = "coref"
  /\ step' = "verify"
  /\ UNCHANGED <<graph, merges, aliases, answers, annotations, history>>

Resolve ==
  /\ step = "coref" /\ Cardinality(Semantic(nodes)) >= 3
  /\ \E ms \in Merges : merges' = ms
  /\ \E al \in Aliases : aliases' = al
  /\ step' = "merging"
  /\ found' = [nodes |-> nodes, edges |-> edges] /\ into' = [i \in IdsOf(nodes) |-> i]
  /\ UNCHANGED <<graph, answers, annotations, findings, doubted, loose>>

MergeForgettingTargets ==   \* (mutant: only the edges that leave a merged node are redirected)
  /\ step = "merging" /\ merges # <<>>
  /\ LET m == Head(merges)
         gone == (UNION {Called(nodes, l) : l \in m.remove}) \ Called(nodes, m.keep)
     IN IF Called(nodes, m.keep) = {}
        THEN UNCHANGED <<nodes, edges, into, loose>>
        ELSE LET keep == CHOOSE i \in Called(nodes, m.keep) : TRUE
             IN /\ nodes' = {n \in nodes : n.id \notin gone}
                /\ edges' = {<<IF e[1] \in gone THEN keep ELSE e[1], e[2], e[3]>> : e \in edges}
                /\ UNCHANGED loose
                /\ into' = [i \in DOMAIN into |-> IF into[i] \in gone THEN keep ELSE into[i]]
  /\ merges' = Tail(merges)
  /\ UNCHANGED <<counts, summary, contributions, step, aliases, answers, annotations, findings, found, doubted>>

\* One merge of the loop: a kept label that nobody has is passed over; a label merged
\* away earlier is not found again.
Merge ==
  /\ step = "merging" /\ merges # <<>>
  /\ LET m == Head(merges)
         gone == (UNION {Called(nodes, l) : l \in m.remove}) \ Called(nodes, m.keep)
     IN IF Called(nodes, m.keep) = {}
        THEN UNCHANGED <<nodes, edges, into, loose>>
        ELSE LET keep == CHOOSE i \in Called(nodes, m.keep) : TRUE
             IN /\ nodes' = {n \in nodes : n.id \notin gone}
                /\ edges' = Redirect(edges, gone, keep)
                /\ loose' = Redirect(loose \cup Structure(Touching(edges, gone)), gone, keep)
                /\ into' = [i \in DOMAIN into |-> IF into[i] \in gone THEN keep ELSE into[i]]
  /\ merges' = Tail(merges)
  /\ UNCHANGED <<counts, summary, contributions, step, aliases, answers, annotations, findings, found, doubted>>

EndCorefUncounted ==   \* (mutant: update_stats is not called)
  /\ step = "merging" /\ merges = <<>>
  /\ LET plain == {e \in edges : e[1] # e[2]}
         linked == {e \in Named(nodes, {<<a[1], a[2], "ALIAS_OF">> : a \in aliases}) : e[1] # e[2]}
     IN edges' = plain \cup linked /\ UNCHANGED <<nodes, counts>>
  /\ step' = "verify" /\ aliases' = {}
  /\ found' = [nodes |-> {}, edges |-> {}] /\ into' = <<>>
  /\ UNCHANGED <<summary, contributions, merges, answers, annotations, findings, doubted, loose>>

\* The rest of resolve_coreferences: self-loops go, aliases are linked.
EndCoref ==
  /\ step = "merging" /\ merges = <<>>
  /\ LET plain == {e \in edges : e[1] # e[2]}
         linked == {e \in Named(nodes, {<<a[1], a[2], "ALIAS_OF">> : a \in aliases}) : e[1] # e[2]}
     IN Update(nodes, plain \cup linked)
  /\ step' = "verify" /\ aliases' = {}
  /\ found' = [nodes |-> {}, edges |-> {}] /\ into' = <<>>
  /\ UNCHANGED <<summary, contributions, merges, answers, annotations, findings, doubted, loose>>

\* verify_graph: pass 1 adds connections, pass 2 concepts that are missing (linked to
\* their section, or to the paper), pass 3 doubts what it does not find in the text.
\* Relations and types are taken as they are suggested.
\* A pass that fails adds nothing; 2 and 3 fail together.
Verify ==
  /\ step = "verify" /\ Semantic(nodes) # {}
  /\ \E a \in Audits :
       LET connected == {e \in Named(nodes, a.connections) : e[1] # e[2]}
           new == {New(l, "verify", a.missing[l].type, a.missing[l].section, 7, "none")
                     : l \in DOMAIN a.missing \ {n.label : n \in nodes}}
           Section(n) == {m.id : m \in {k \in nodes : k.type = "Section" /\ k.label = n.section}}
           links == UNION {IF Section(n) = {} THEN {<<n.id, Root, "PART_OF">>}
                           ELSE {n.id} \X Section(n) \X {"APPEARS_IN"} : n \in new}
           Lowered(n) == IF a.doubts[n.label] < 1 THEN 1
                         ELSE IF a.doubts[n.label] < n.confidence THEN a.doubts[n.label]
                         ELSE n.confidence
           all == nodes \cup new
       IN /\ Update({IF n.label \in DOMAIN a.doubts THEN [n EXCEPT !.confidence = Lowered(n)] ELSE n
                       : n \in all}, edges \cup connected \cup links)
          /\ loose' = loose \cup (Structure(connected) \ edges)
          /\ doubted' = doubted \cup {n.id : n \in {m \in all : m.label \in DOMAIN a.doubts}}
  /\ step' = "summary"
  /\ UNCHANGED <<summary, contributions, merges, aliases, answers, annotations, findings, found, into>>

SkipVerify ==
  /\ step = "verify"
  /\ step' = "summary"
  /\ IF Semantic(nodes) = {} THEN UNCHANGED counts ELSE counts' = Counts(nodes, edges)
  /\ UNCHANGED <<nodes, edges, summary, contributions, merges, aliases, answers, annotations, history>>

PruneOrphans ==   \* (mutant: prune_orphans instead of prune_ungrounded)
  /\ step = "summary"
  /\ LET linked == UNION {{e[1], e[2]} : e \in edges}
         kept == {n \in nodes : n.type \in Structural \/ n.id \in linked}
     IN Update(kept, edges) /\ summary' = Briefing(kept, edges, contributions)
  /\ step' = "done"
  /\ UNCHANGED <<contributions, merges, aliases, answers, annotations, history>>

\* Semantic nodes linked to their sections (ensure_structural_links); no section is named
\* with a part of another's name or of "ontology".
Bridges(ns) ==
  {e \in IdsOf(ns) \X IdsOf(ns) \X {"APPEARS_IN"} :
     \E n \in Semantic(ns), s \in ns :
       s.type = "Section" /\ n.section = s.label /\ e = <<n.id, s.id, "APPEARS_IN">>}

\* What prune_ungrounded keeps.
Grounded(ns) == {n \in ns : n.type \in Structural \/ n.confidence >= Threshold}

SummarizeUnpruned ==   \* (mutant: the briefing is written before the graph is pruned)
  /\ step = "summary"
  /\ LET linked == edges \cup Bridges(nodes)
         kept == Grounded(nodes)
     IN /\ Update(kept, WithoutNodes(linked, IdsOf(nodes) \ IdsOf(kept)))
        /\ summary' = Briefing(nodes, linked, contributions)
  /\ step' = "done"
  /\ UNCHANGED <<contributions, merges, aliases, answers, annotations, history>>

\* The summary step: ensure_structural_links, prune_ungrounded, the briefing.
Summarize ==
  /\ step = "summary"
  /\ LET kept == Grounded(nodes)
         left == WithoutNodes(edges \cup Bridges(nodes), IdsOf(nodes) \ IdsOf(kept))
     IN Update(kept, left) /\ summary' = Briefing(kept, left, contributions)
  /\ step' = "done"
  /\ UNCHANGED <<contributions, merges, aliases, answers, annotations, history>>

\* _parse_imported_graph_payload: the file may lack the paper's node, repeat names and
\* have edges to nodes it lacks.  Without a briefing its size is the summary.
Sized(ns, es) == {[nodes |-> Cardinality(ns), edges |-> Cardinality(es)]}
Import ==
  /\ step = "metadata" /\ nodes = {}
  /\ \E d3 \in Files :
       LET g == Ingested(d3)
           briefing == Briefing(g.nodes, g.edges, {})
       IN /\ Update(g.nodes, g.edges)
          /\ loose' = Structure(g.edges)
          /\ summary' = IF briefing = {} THEN Sized(g.nodes, g.edges) ELSE briefing
  /\ step' = "done"
  /\ UNCHANGED <<contributions, merges, aliases, answers, annotations, findings, found, into, doubted>>

\* annotate_from_review, one finding: the first node whose label the finding mentions,
\* or else the paper's, if the graph has it.  It is counted either way.
Annotate ==
  /\ step = "done" /\ answers < MaxAnswers
  /\ \E target \in IdsOf(nodes) \cup {Root} :
       annotations' = annotations \cup (({target} \cap IdsOf(nodes)) \X {answers})
  /\ answers' = answers + 1 /\ findings' = findings + 1
  /\ UNCHANGED <<graph, step, merges, aliases, found, into, doubted, loose>>

Finished == step = "done" /\ answers = MaxAnswers /\ UNCHANGED vars

Next ==
  \/ Metadata \/ Ontology \/ Extract \/ EndExtraction \/ SkipCoref \/ Resolve \/ Merge \/ EndCoref
  \/ Verify \/ SkipVerify \/ Summarize \/ Import \/ Annotate \/ Finished

Spec == Init /\ [][Next]_vars
-----------------------------------------------------------------------------
\* Types of all variables (graph.py:27-69).
TypeOK ==
  /\ nodes \subseteq Nodes /\ edges \subseteq Edges
  /\ step \in Steps /\ answers \in 0..MaxAnswers /\ findings \in 0..MaxAnswers
  /\ merges \in Seq([keep : Labels, remove : SUBSET Labels]) /\ aliases \subseteq Labels \X Labels
  /\ annotations \subseteq Ids \X (0..MaxAnswers) /\ doubted \subseteq Ids /\ loose \subseteq Edges
  /\ contributions \subseteq Labels /\ Cardinality(summary) \in 0..1

\* A label names one node, and an id too: looking a node up by either finds the node
\* that was meant, whatever models answered and in whichever order the steps merged,
\* renamed and re-typed nodes (add_node's promise to deduplicate, graph.py:80).
OneNodePerLabel == \A m, n \in nodes : m.label = n.label \/ m.id = n.id => m = n

\* Edges join nodes of the graph.  The paper's node alone may be missing: a
\* co-reference answer can name the title as a duplicate, and the verification then
\* links new concepts to a node that is gone (graph_verifier.py:396).
EdgesAnchored == \A e \in edges : {e[1], e[2]} \subseteq IdsOf(nodes) \cup {Root}

WellFormed == TypeOK /\ OneNodePerLabel /\ EdgesAnchored

\* Resolving co-references takes the quotient of the graph: every entity is still
\* there or became one that is, and two different entities are related afterwards
\* exactly if the entities they stand for were (coref_resolver.py:308-350).
MergesKeepRelations ==
  step = "merging" /\ merges = <<>> =>
    /\ IdsOf(nodes) = {into[i] : i \in DOMAIN into}
    /\ edges = {<<into[e[1]], into[e[2]], e[3]>> : e \in found.edges}

\* A node leaves the graph only by a merge, or because the grounding pass doubted it:
\* what extraction and evidence brought is otherwise kept to the end ("preserves
\* orphans that are well-grounded", graph.py:1033).  An equation that was not decoded
\* and that a model then called an entity also goes: its confidence is 0.
OnlyDoubtedAreDropped ==
  [][\A n \in nodes : n.id \notin IdsOf(nodes') =>
       \/ step = "merging"
       \/ n.id \in doubted /\ n.confidence < Threshold
       \/ n.grounding = "plain"]_vars
=============================================================================
