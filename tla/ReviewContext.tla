----------------------------- MODULE ReviewContext -----------------------------
(***************************************************************************)
(* What reviewers are shown of a knowledge graph                           *)
(* (apps/paper_review/review_context.py): whether its relations count as   *)
(* evidence, the sections of the context, and the sections that each       *)
(* context mode shows, in the independent reviews and in the deliberation. *)
(* The briefing was written when the graph was finished or imported; all   *)
(* the rest is computed from the graph at hand.                            *)
(***************************************************************************)
EXTENDS GraphReports

MinReviewSemanticEdges == 3

\* review_graph_quality
Quality(ns, es) ==
  [usable |-> Cardinality(Facts(es)) >= MinReviewSemanticEdges,
   mode |-> IF ns = {} THEN "unavailable"
            ELSE IF Cardinality(Facts(es)) >= MinReviewSemanticEdges THEN "relational"
            ELSE "index_only"]

\* _build_graph_policy_context
Policy(quality) ==
  IF quality.usable THEN {"use relations listed"}
  ELSE IF quality.mode = "index_only" THEN {"use as an index"} ELSE {"no graph"}

LabelsOfType(ns, t) == {n.label : n \in {m \in ns : m.type = t}}

\* _build_review_graph_analysis, without the limits on listed rows and the sections'
\* names.  A graph whose relations do not count is an index of its types.
Analysis(ns, es, quality) ==
  LET semantic == Semantic(ns)
      None == [relations |-> {}, claims |-> {}, methods |-> {}, results |-> {}, types |-> {}, coverage |-> <<>>]
      End(i) == {n.label : n \in {m \in ns : m.id = i}}
      Here(s) == {n \in semantic : n.section = s}
  IN CASE quality.mode = "unavailable" \/ (quality.mode = "relational" /\ semantic = {}) -> None
       [] quality.mode = "index_only" -> [None EXCEPT !.types = {n.type : n \in semantic}]
       [] OTHER ->
            [relations |-> {<<End(e[1]), e[3], End(e[2])>> : e \in Facts(es)},
             claims |-> LabelsOfType(ns, "Claim"), methods |-> LabelsOfType(ns, "Method"),
             results |-> LabelsOfType(ns, "Result"), types |-> {},
             coverage |-> [s \in {n.section : n \in semantic} \ {""} |-> Cardinality(Here(s))]]

\* _build_visual_evidence_ledger
Ledger(ns) ==
  {<<n.label, n.grounding>> : n \in {m \in ns :
     \/ m.type \in {"Figure", "Table"} /\ m.grounding = "described"
     \/ m.type = "Equation" /\ m.grounding # "none"}}

\* build_review_context_payload: every section as a set of what it states.  The digest
\* is withheld from a graph whose relations do not count.
Payload(ns, es, stored, stated) ==
  LET quality == Quality(ns, es)
      digest == Digest(ns, es)
  IN [policy |-> Policy(quality),
      briefing |-> IF stored # {} THEN stored ELSE Briefing(ns, es, stated),
      analysis |-> {Analysis(ns, es, quality)},
      ledger |-> Ledger(ns),
      digest |-> IF quality.usable
                 THEN UNION {UNION {{i} \X facts[i] : i \in DOMAIN facts} : facts \in {digest[1], digest[2]}}
                 ELSE {},
      instructions |-> {"cite"}, notice |-> {"graph only"}, manuscript |-> {"manuscript"}]

Modes == {"markdown_only", "graph_only", "markdown_plus_graph_briefing",
          "markdown_plus_structured_graph_evidence", "markdown_plus_required_graph_citations",
          "full_deliberation_context"}
Coerce(value) == IF value \in Modes THEN value ELSE "markdown_plus_structured_graph_evidence"

FromGraph == {"policy", "briefing", "analysis", "ledger"}

\* render_for_independent_review: the sections of a mode.
Independent(mode) ==
  CASE mode = "markdown_only" -> {"manuscript"}
    [] mode = "graph_only" -> {"notice"} \cup FromGraph
    [] mode = "markdown_plus_graph_briefing" -> {"manuscript", "policy", "briefing"}
    [] mode = "markdown_plus_structured_graph_evidence" -> {"manuscript"} \cup FromGraph
    [] OTHER -> {"manuscript", "instructions"} \cup FromGraph

\* render_for_deliberation
Deliberated(mode) ==
  CASE mode = "markdown_only" -> {"manuscript"}
    [] mode = "graph_only" -> FromGraph \cup {"digest"}
    [] mode = "markdown_plus_graph_briefing" -> {"manuscript", "policy", "briefing"}
    [] mode = "markdown_plus_structured_graph_evidence" -> {"manuscript", "digest"} \cup FromGraph
    [] OTHER -> {"manuscript", "instructions", "digest"} \cup FromGraph

\* _join_parts: empty sections are left out.
Rendered(payload, sections) == {<<s, payload[s]>> : s \in {x \in sections : payload[x] # {}}}
-----------------------------------------------------------------------------
\* The briefing that was stored with a graph says what the graph says now: it was
\* written after the last step that changed the graph, pruning included, and nothing
\* it lists was removed since (pipeline.py:444, review_context.py:289).
BriefingIsCurrent ==
  summary # {} => summary \in {Briefing(nodes, edges, contributions), Sized(nodes, edges)}

\* Structural relations that the code made join what they were made for, and no merge,
\* re-typing or pruning changes that: the paper and its parts, an entity and its section.
StructureInPlace ==
  LET Typed(i, t) == \E n \in nodes : n.id = i /\ n.type = t
  IN \A e \in Structure(edges) \ loose :
       IF e[3] = "APPEARS_IN" THEN Typed(e[2], "Section") ELSE e[1] = Root /\ Typed(Root, "Paper")

\* The digest that settles disputes states "positive facts" only (graph_query.py:401).
\* It looks at all edges, the structural ones too (graph_query.py:67), and structural
\* ones are not counted when the graph is judged good enough.  Still, what it links is
\* linked by a relation that was counted, or by a structural one that a model answered,
\* a merge moved or a file has: never by the structure the code built itself.
DigestIsCounted ==
  /\ StructureInPlace
  /\ \A link \in Payload(nodes, edges, summary, contributions).digest :
       \E e \in Facts(edges) \cup (edges \cap loose) : {e[1], e[2]} = {link[1], link[2]}

\* What a reviewer was shown can be looked up when it is disputed, whatever mode a
\* request names; only the graph-only mode keeps the paper from the panel.
DisputesCanBeSettled ==
  LET payload == Payload(nodes, edges, summary, contributions)
  IN \A value \in Modes \cup {""} :
       LET mode == Coerce(value)
           seen == Rendered(payload, Independent(mode))
           again == Rendered(payload, Deliberated(mode))
       IN /\ {x \in seen : x[1] # "notice"} \subseteq again
          /\ (\E x \in again : x[1] = "manuscript") <=> mode # "graph_only"
          /\ mode = "markdown_only" => \A x \in seen \cup again : x[1] = "manuscript"

\* All three: reviewers and panel argue from the graph as it is.
ContextIsCurrent == BriefingIsCurrent /\ DigestIsCounted /\ DisputesCanBeSettled
=============================================================================
