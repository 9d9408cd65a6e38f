----------------------------- MODULE GraphReports -----------------------------
(***************************************************************************)
(* What is read from a knowledge graph: its statistics, the answers of the *)
(* query_graph tool (tools/graph_query.py), the context that later         *)
(* sections are extracted with, and how far the reviews used it.  The code *)
(* computes these in three places, each with its own lists of types.       *)
(***************************************************************************)
EXTENDS KnowledgeGraph

\* graph_query.py:25-39, among the types of the model.
EvidenceTypes == {"Result", "Figure", "Table", "Equation"}
EvaluationTypes == {"Result"}

\* grounding_summary
GroundingSummary(ns) ==
  LET visual == {n \in ns : n.type \in {"Figure", "Table"}}
      described == {n \in visual : n.grounding = "described"}
      formulas == {n \in ns : n.type = "Equation" /\ n.grounding # "none"}
  IN [mode |-> IF visual = {} THEN "none"
               ELSE IF described = {} THEN "text_only"
               ELSE IF described = visual THEN "vision_grounded" ELSE "mixed",
      described |-> Cardinality(described),
      undescribed |-> Cardinality(visual) - Cardinality(described),
      decoded |-> Cardinality({n \in formulas : n.grounding = "described"}),
      total |-> Cardinality(visual) + Cardinality(formulas)]

\* _neighbors: the type at the other end, if the node exists, and the edge's type; an
\* edge from a node to itself is seen once.
Neighbours(ns, es, i) ==
  LET Other(e) == IF e[1] = i THEN e[2] ELSE e[1]
  IN {[other |-> Other(e), edge |-> e[3], out |-> e[1] = i,
       type |-> {n.type : n \in {m \in ns : m.id = Other(e)}}] : e \in {d \in es : i \in {d[1], d[2]}}}
LinkedTo(ns, es, n, types) ==
  {x.other : x \in {y \in Neighbours(ns, es, n.id) : y.type \cap types # {}}}

\* The queries, without the limit on listed rows.
Overview(ns, es) ==
  [semantic |-> [t \in {n.type : n \in Semantic(ns)} |-> Cardinality({n \in ns : n.type = t})],
   relations |-> [r \in {e[3] : e \in Facts(es)} |-> Cardinality({e \in es : e[3] = r})]]
Claims(ns) == {n \in ns : n.type = "Claim"}
ClaimsWithoutSupport(ns, es) == {n.id : n \in {c \in Claims(ns) : LinkedTo(ns, es, c, EvidenceTypes) = {}}}
ClaimEvidence(ns, es) == [i \in IdsOf(Claims(ns)) |->
  UNION {LinkedTo(ns, es, c, EvidenceTypes) : c \in {k \in Claims(ns) : k.id = i}}]
MethodsEvaluation(ns, es) == [i \in {n.id : n \in {m \in ns : m.type = "Method"}} |->
  UNION {LinkedTo(ns, es, m, EvaluationTypes) : m \in {k \in ns : k.id = i}}]
SectionCoverage(ns) == [s \in {n.section : n \in Semantic(ns)} |->
  Cardinality({n \in Semantic(ns) : n.section = s})]
Entity(ns, target) == {n.id : n \in {m \in ns : m.label = target}}

\* graph_fact_digest: what methods are evaluated with and what backs claims.
Digest(ns, es) ==
  LET NonEmpty(f) == [i \in {j \in DOMAIN f : f[j] # {}} |-> f[i]]
  IN <<NonEmpty(MethodsEvaluation(ns, es)), NonEmpty(ClaimEvidence(ns, es))>>

\* get_accumulated_context: references are shown to later sections.
Shown(ns, es) ==
  LET visible == {n \in ns : n.type \notin Structural \/ n.type = "Reference"}
  IN [entities |-> {n.label : n \in visible},
      relations |-> {e \in es : /\ e[3] \notin {"APPEARS_IN", "HAS_SECTION", "CONTAINS"}
                                /\ {e[1], e[2]} \subseteq IdsOf(visible)}]

\* compute_utilization and compute_review_graph_utilization: by[r] are the labels in
\* the text of reviewer r.
Utilization(ns, by) ==
  LET Readers(n) == {r \in DOMAIN by : n.label \in by[r]}
      used == {n \in Semantic(ns) : Readers(n) # {}}
  IN [referenced |-> IdsOf(used), unreferenced |-> IdsOf(Semantic(ns)) \ IdsOf(used),
      covered |-> [r \in DOMAIN by |-> Cardinality({n \in Semantic(ns) : r \in Readers(n)})],
      types |-> [t \in {n.type : n \in Semantic(ns)} |->
                   [total |-> Cardinality({n \in Semantic(ns) : n.type = t}),
                    referenced |-> Cardinality({n \in used : n.type = t})]]]
-----------------------------------------------------------------------------
\* The sum of the values of a function, as so many pairs.
Sum(f) == Cardinality(UNION {{x} \X (1 .. f[x]) : x \in DOMAIN f})

\* The stored counts are those of the graph once a step is over: update_stats was not
\* forgotten (graph.py:27-69).
CountsAreCurrent == step \notin {"extraction", "merging"} => counts = Counts(nodes, edges)

\* The reports of one graph agree ("so the query results align with the rendered graph
\* briefings reviewers already see", graph_query.py:23): the stored counts are
\* current; the tool's overview and section coverage add up to the statistics of the
\* briefing; every claim is either listed as unsupported or has evidence in the digest.
StatisticsAgree ==
  /\ CountsAreCurrent
  /\ LET stats == Stats(nodes, edges)
         overview == Overview(nodes, edges)
     IN /\ stats.semantic = Sum(overview.semantic) /\ stats.facts = Sum(overview.relations)
        /\ stats.semantic = Sum(SectionCoverage(nodes))
        /\ stats.entityTypes = Cardinality(DOMAIN overview.semantic)
  /\ ClaimsWithoutSupport(nodes, edges) = IdsOf(Claims(nodes)) \ DOMAIN Digest(nodes, edges)[2]

\* A graph that is exported and imported again (the cached copy the page is served
\* while a graph is built, or a file) answers the same: no two nodes are taken for
\* one, and the only edges lost are those to a paper's node that is gone.
ExportKeepsAnswers ==
  LET g == Ingested(Exported(nodes, edges))
      kept == {e \in edges : {e[1], e[2]} \subseteq IdsOf(nodes)}
  IN /\ GroundingSummary(g.nodes) = GroundingSummary(nodes)
     /\ Digest(g.nodes, g.edges) = Digest(nodes, kept)
     /\ Shown(g.nodes, g.edges) = Shown(nodes, kept)
     /\ \A l \in Labels : Entity(g.nodes, l) = Entity(nodes, l)
     /\ \A r \in {Labels, {Title} \cup Entities} :
          Utilization(g.nodes, [reviewer \in {"r1", "r2"} |-> r])
            = Utilization(nodes, [reviewer \in {"r1", "r2"} |-> r])
\* Both of these: what is reported of a graph is one account, wherever it is computed.
ReportsAgree == StatisticsAgree /\ ExportKeepsAnswers
=============================================================================
