------------------------ MODULE KnowledgeGraphProofs ------------------------
(***************************************************************************)
(* What holds of a paper's knowledge graph for every paper, ontology and   *)
(* answer of a model: its labels and edges are sound, merging is a         *)
(* quotient, what is grounded stays, what reviewers are shown is the graph *)
(* as it is, and what is reported of it is one account.                    *)
(*                                                                         *)
(* The argument: a step's new nodes get ids that name their label and the  *)
(* step, and no earlier step made such an id; a node keeps its id for as   *)
(* long as it lives, and its label once the metadata step is over.  Until  *)
(* the merges begin the paper's node is there and every edge joins nodes;  *)
(* from then on the merges are a function of the ids.                      *)
(***************************************************************************)
EXTENDS ReviewContext, FiniteSetTheorems, TLAPS

Unique(ns) == \A m, n \in ns : m.label = n.label \/ m.id = n.id => m = n
\* Two nodes, before and after, that are one: what no step changes of a node.
Same(m, n) == m.id = n.id /\ m.label = n.label /\ m.confidence = n.confidence /\ m.grounding = n.grounding
Anchored(ns, es) == \A e \in es : {e[1], e[2]} \subseteq IdsOf(ns) \cup {Root}

\* The paper, an ontology and an answer bring what is typed.
LEMMA LabelsAreTyped ==
  /\ Title \in Labels /\ SectionNames \subseteq Labels /\ Figures \subseteq Labels
  /\ Equations \subseteq Labels /\ \A f \in Figures : Caption[f] \in Labels
  /\ Root \in Ids
BY DEF Labels, Root, Ids

\* A new node is a node, called as it says.
LEMMA NewNode ==
  ASSUME NEW l \in Labels, NEW s \in {"metadata", "ontology", "extraction", "verify", "paper-root"},
         NEW t \in Types, NEW sec \in SectionNames \cup {"", "ontology"}, NEW c \in Confidence,
         NEW g \in Grounding
  PROVE  LET n == New(l, s, t, sec, c, g)
         IN /\ n \in Nodes /\ n.id = <<l, s>> /\ n.label = l /\ n.type = t
            /\ n.section = sec /\ n.confidence = c /\ n.grounding = g
BY DEF New, Nodes, Ids

\* Edges are triples.
LEMMA EdgeParts ==
  /\ \A e \in Edges : e[1] \in Ids /\ e[2] \in Ids /\ e[3] \in Relations /\ e = <<e[1], e[2], e[3]>>
  /\ \A i, j \in Ids, r \in Relations : <<i, j, r>> \in Edges
BY DEF Edges

\* What add_node makes of a node whose label is added again.
Improved(n, news) ==
  LET better == {e \in news : e.label = n.label /\ n.type \in Generic /\ e.type \notin Generic}
  IN IF better = {} THEN n
     ELSE LET e == CHOOSE e \in better : TRUE
          IN [n EXCEPT !.type = e.type, !.section = IF @ = "" THEN e.section ELSE @]

LEMMA ImprovedNode ==
  ASSUME NEW n \in Nodes, NEW news \in SUBSET Nodes
  PROVE  /\ Improved(n, news) \in Nodes /\ Same(Improved(n, news), n)
         /\ n.type \notin Generic => Improved(n, news).type = n.type
<1> DEFINE better == {e \in news : e.label = n.label /\ n.type \in Generic /\ e.type \notin Generic}
<1>1. CASE better = {}
  BY <1>1 DEF Improved, Same
<1>2. CASE better # {}
  <2> DEFINE e == CHOOSE e \in better : TRUE
  <2> DEFINE m == [n EXCEPT !.type = e.type, !.section = IF @ = "" THEN e.section ELSE @]
  <2>1. e \in news /\ n.type \in Generic
    BY <1>2
  <2>2. e.type \in Types /\ e.section \in SectionNames \cup {"", "ontology"}
    BY <2>1 DEF Nodes
  <2>3. Improved(n, news) = m
    BY <1>2 DEF Improved
  <2> HIDE DEF e
  <2>4. m \in Nodes /\ Same(m, n)
    BY <2>2 DEF Nodes, Same
  <2>5. QED
    BY <2>1, <2>3, <2>4
<1>3. QED
  BY <1>1, <1>2

\* add_node, for a set of labels that are new or known: labels and ids stay unique, and
\* every node is an old one, improved at most, or one of the new.
LEMMA Added ==
  ASSUME NEW ns \in SUBSET Nodes, NEW news \in SUBSET Nodes, Unique(ns), Unique(news),
         \A e \in news, n \in ns : e.id = n.id => e.label = n.label
  PROVE  LET all == AddNodes(ns, news)
         IN /\ all \subseteq Nodes /\ Unique(all) /\ IdsOf(ns) \subseteq IdsOf(all)
            /\ \A m \in all : m \in news \/ \E n \in ns : Same(m, n) /\ (n.type \notin Generic => m.type = n.type)
            /\ \A n \in ns : \E m \in all : Same(m, n) /\ (n.type \notin Generic => m.type = n.type)
            /\ \A e \in news : \E m \in all : m.label = e.label
            /\ \A l : Called(all, l) \subseteq IdsOf(all)
<1> DEFINE all == AddNodes(ns, news)
<1> DEFINE fresh == {e \in news : \A n \in ns : n.label # e.label}
<1>1. all = {Improved(n, news) : n \in ns} \cup fresh
  BY DEF AddNodes, Improved
<1>2. \A n \in ns : /\ Improved(n, news) \in Nodes /\ Same(Improved(n, news), n)
                    /\ n.type \notin Generic => Improved(n, news).type = n.type
  BY ImprovedNode
<1>3. \A e \in fresh, n \in ns : e.label # n.label /\ e.id # n.id
  OBVIOUS
<1> HIDE DEF all
<1>4. all \subseteq Nodes
  BY <1>1, <1>2
<1>5. \A m \in all : m \in news \/ \E n \in ns : Same(m, n) /\ (n.type \notin Generic => m.type = n.type)
  BY <1>1, <1>2
<1>6. \A n \in ns : \E m \in all : Same(m, n) /\ (n.type \notin Generic => m.type = n.type)
  BY <1>1, <1>2
<1>7. IdsOf(ns) \subseteq IdsOf(all)
  BY <1>6 DEF IdsOf, Same
<1>8. ASSUME NEW e \in news PROVE \E m \in all : m.label = e.label
  <2>1. CASE e \in fresh
    BY <1>1, <2>1
  <2>2. CASE e \notin fresh
    <3>1. PICK n \in ns : n.label = e.label
      BY <2>2
    <3>2. QED
      BY <1>6, <3>1 DEF Same
  <2>3. QED
    BY <2>1, <2>2
<1>9. Unique(all)
  <2> SUFFICES ASSUME NEW m \in all, NEW k \in all, m.label = k.label \/ m.id = k.id
               PROVE  m = k
    BY DEF Unique
  <2>1. CASE m \in fresh /\ k \in fresh
    BY <2>1 DEF Unique
  <2>2. ASSUME NEW n \in ns, m = Improved(n, news), NEW o \in ns, k = Improved(o, news)
        PROVE  m = k
    <3>1. n = o
      BY <1>2, <2>2 DEF Unique, Same
    <3>2. QED
      BY <2>2, <3>1
  <2>3. ASSUME NEW n \in ns, m = Improved(n, news), k \in fresh
        PROVE  m = k
    BY <1>2, <1>3, <2>3 DEF Same
  <2>4. ASSUME NEW n \in ns, k = Improved(n, news), m \in fresh
        PROVE  m = k
    BY <1>2, <1>3, <2>4 DEF Same
  <2>5. QED
    BY <1>1, <2>1, <2>2, <2>3, <2>4
<1>10. \A l : Called(all, l) \subseteq IdsOf(all)
  BY DEF Called, IdsOf
<1>11. QED
  BY <1>4, <1>5, <1>6, <1>7, <1>8, <1>9, <1>10 DEF all

-----------------------------------------------------------------------------
(* The metadata step. *)

\* What is certain, or evidence that was not described: the condition the summary step
\* drops nodes by, before anything was doubted.
Trusted(ns) == \A n \in ns : n.confidence < Threshold => n.grounding = "plain"
\* The nodes of the text: the paper's, and those whose id names their label.
OfTheText(n) == n.id = Root \/ n.id = <<n.label, "metadata">>

Imaged(n, images) ==
  IF n.label \in DOMAIN images /\ n.type = "Diagram"
  THEN [n EXCEPT !.label = Caption[n.label], !.type = "Figure", !.grounding = images[n.label],
                 !.confidence = IF images[n.label] = "described" THEN 8 ELSE @]
  ELSE n

LEMMA ImagedNode ==
  ASSUME NEW n \in Nodes, NEW images, IsPartial(images, Figures, Evidence),
         n.confidence < Threshold => n.grounding = "plain"
  PROVE  LET m == Imaged(n, images)
         IN /\ m \in Nodes /\ m.id = n.id /\ (m.confidence < Threshold => m.grounding = "plain")
            /\ m = n \/ (n.type = "Diagram" /\ n.label \in DOMAIN images /\ m.label = Caption[n.label])
            /\ n.type # "Diagram" => m = n
<1>1. CASE n.label \in DOMAIN images /\ n.type = "Diagram"
  <2> DEFINE g == images[n.label]
  <2> DEFINE c == Caption[n.label]
  <2> DEFINE x == IF g = "described" THEN 8 ELSE n.confidence
  <2> DEFINE m == [n EXCEPT !.label = c, !.type = "Figure", !.grounding = g, !.confidence = x]
  <2>1. n.label \in Figures /\ g \in Evidence
    BY <1>1 DEF IsPartial
  <2>2. c \in Labels /\ g \in Grounding /\ "Figure" \in Types
    BY <2>1, LabelsAreTyped DEF Grounding, Types, Structural
  <2>3. Imaged(n, images) = m
    BY <1>1 DEF Imaged
  <2> HIDE DEF g, c
  <2>4. n.confidence \in 0..10
    BY DEF Nodes, Confidence
  <2>5. g = "plain" \/ g = "described"
    BY <2>1 DEF Evidence
  <2>6. x \in Confidence /\ (x < Threshold => g = "plain")
    BY <2>4, <2>5 DEF Confidence, Threshold
  <2> HIDE DEF x
  <2>7. m \in Nodes /\ m.id = n.id /\ m.label = c /\ m.confidence = x /\ m.grounding = g
    BY <2>2, <2>6 DEF Nodes
  <2>8. QED
    BY <1>1, <2>3, <2>6, <2>7 DEF c
<1>2. CASE ~(n.label \in DOMAIN images /\ n.type = "Diagram")
  BY <1>2 DEF Imaged
<1>3. QED
  BY <1>1, <1>2

\* ingest_visual_evidence: a placeholder becomes its figure, a figure without one is new.
LEMMA ImagesIngested ==
  ASSUME NEW ns \in SUBSET Nodes, NEW images, IsPartial(images, Figures, Evidence), Unique(ns),
         \A n \in ns : OfTheText(n), \A n \in ns, f \in Figures : n.label # Caption[f],
         \A n \in ns : n.confidence >= Threshold
  PROVE  LET all == WithImages(ns, images)
         IN /\ all \subseteq Nodes /\ Unique(all) /\ IdsOf(ns) \subseteq IdsOf(all) /\ Trusted(all)
            /\ \A m \in all : m.id = Root \/ m.id[2] = "metadata"
            /\ \A m \in all, q \in Equations : m.id = <<q, "metadata">> => m.label = q
            /\ \A m \in all : m.label \in Equations => m.confidence >= Threshold
            /\ \A n \in ns : n.type # "Diagram" => n \in all
<1> DEFINE all == WithImages(ns, images)
<1> DEFINE bare == {g \in DOMAIN images : \A n \in ns : n.label = g => n.type # "Diagram"}
<1> DEFINE figure(f) == New(Caption[f], "metadata", "Figure", "",
                            IF images[f] = "described" THEN 8 ELSE 0, images[f])
<1>1. all = {Imaged(n, images) : n \in ns} \cup {figure(f) : f \in bare}
  BY DEF WithImages, Imaged
<1>2a. \A n \in ns : n \in Nodes /\ (n.confidence < Threshold => n.grounding = "plain")
  <2> SUFFICES ASSUME NEW n \in ns
               PROVE  n \in Nodes /\ (n.confidence < Threshold => n.grounding = "plain")
    OBVIOUS
  <2>1. n \in Nodes /\ n.confidence \in 0..10 /\ n.confidence >= Threshold
    BY DEF Nodes, Confidence
  <2>2. ~(n.confidence < Threshold)
    BY <2>1 DEF Threshold
  <2>3. QED
    BY <2>1, <2>2
<1>2. \A n \in ns : LET m == Imaged(n, images)
                    IN /\ m \in Nodes /\ m.id = n.id /\ (m.confidence < Threshold => m.grounding = "plain")
                       /\ m = n \/ (n.type = "Diagram" /\ n.label \in DOMAIN images /\ m.label = Caption[n.label])
                       /\ n.type # "Diagram" => m = n
  BY <1>2a, ImagedNode
<1>3. DOMAIN images \subseteq Figures /\ \A f \in DOMAIN images : images[f] \in Evidence
  BY DEF IsPartial
<1>4. \A f \in bare : /\ f \in Figures /\ figure(f) \in Nodes
                      /\ figure(f).id = <<Caption[f], "metadata">> /\ figure(f).label = Caption[f]
                      /\ figure(f).confidence < Threshold => figure(f).grounding = "plain"
                      /\ \A n \in ns : n.label = f => n.type # "Diagram"
  <2> SUFFICES ASSUME NEW f \in bare
               PROVE  /\ f \in Figures /\ figure(f) \in Nodes
                      /\ figure(f).id = <<Caption[f], "metadata">> /\ figure(f).label = Caption[f]
                      /\ figure(f).confidence < Threshold => figure(f).grounding = "plain"
                      /\ \A n \in ns : n.label = f => n.type # "Diagram"
    OBVIOUS
  <2> DEFINE c == IF images[f] = "described" THEN 8 ELSE 0
  <2>1. f \in Figures /\ images[f] \in Evidence /\ Caption[f] \in Labels
    BY <1>3, LabelsAreTyped
  <2>2. c \in Confidence /\ images[f] \in Grounding /\ "Figure" \in Types
    BY <2>1 DEF Confidence, Grounding, Types, Structural
  <2>3. c < Threshold => images[f] = "plain"
    BY <2>1 DEF Evidence, Threshold
  <2> HIDE DEF c
  <2>4. LET k == New(Caption[f], "metadata", "Figure", "", c, images[f])
        IN /\ k \in Nodes /\ k.id = <<Caption[f], "metadata">> /\ k.label = Caption[f]
           /\ k.confidence = c /\ k.grounding = images[f]
    BY <2>1, <2>2 DEF New, Nodes, Ids
  <2>5. QED
    BY <2>1, <2>3, <2>4 DEF c
<1>5. /\ \A f \in Figures : Caption[f] \notin Figures \cup Equations
      /\ \A f, g \in Figures : Caption[f] = Caption[g] => f = g
      /\ Figures \cap Equations = {}
  BY LabelsAssumption
<1> HIDE DEF all, bare, figure
<1>6. all \subseteq Nodes /\ Trusted(all)
  BY <1>1, <1>2, <1>4 DEF Trusted
<1>7. IdsOf(ns) \subseteq IdsOf(all)
  BY <1>1, <1>2 DEF IdsOf
<1>8. \A n \in ns : n.type # "Diagram" => n \in all
  BY <1>1, <1>2
<1>9. \A m \in all : m.id = Root \/ m.id[2] = "metadata"
  BY <1>1, <1>2, <1>4 DEF OfTheText
<1>10. ASSUME NEW m \in all, NEW q \in Equations, m.id = <<q, "metadata">> PROVE m.label = q
  <2>1. ASSUME NEW n \in ns, m = Imaged(n, images) PROVE m.label = q
    <3>1. n.id = <<q, "metadata">>
      BY <1>2, <1>10, <2>1
    <3>2. n.label = q
      BY <3>1 DEF OfTheText, Root
    <3>3. n.label \notin DOMAIN images
      BY <1>3, <1>5, <3>2
    <3>4. QED
      BY <1>2, <2>1, <3>2, <3>3
  <2>2. ASSUME NEW f \in bare, m = figure(f) PROVE FALSE
    <3>1. Caption[f] = q
      BY <1>4, <1>10, <2>2
    <3>2. QED
      BY <1>4, <1>5, <3>1
  <2>3. QED
    BY <1>1, <2>1, <2>2
<1>11. ASSUME NEW n \in ns, NEW f \in bare
       PROVE  Imaged(n, images).label # figure(f).label /\ Imaged(n, images).id # figure(f).id
  <2>1. Imaged(n, images).id # figure(f).id
    <3>1. ASSUME n.id = <<Caption[f], "metadata">> PROVE FALSE
      <4>1. n.label = Caption[f]
        BY <3>1 DEF OfTheText, Root
      <4>2. QED
        BY <1>4, <4>1
    <3>2. QED
      BY <1>2, <1>4, <3>1
  <2>2. CASE Imaged(n, images) = n
    BY <1>4, <2>1, <2>2
  <2>3. CASE n.type = "Diagram" /\ n.label \in DOMAIN images /\ Imaged(n, images).label = Caption[n.label]
    <3>1. n.label # f
      BY <1>4, <2>3
    <3>2. QED
      BY <1>3, <1>4, <1>5, <2>1, <2>3, <3>1
  <2>4. QED
    BY <1>2, <2>2, <2>3
<1>12. ASSUME NEW n \in ns, NEW o \in ns,
              LET m == Imaged(n, images)
                  k == Imaged(o, images)
              IN m.label = k.label \/ m.id = k.id
       PROVE  n = o
  <2> DEFINE m == Imaged(n, images)
  <2> DEFINE k == Imaged(o, images)
  <2>1. /\ m.id = n.id /\ k.id = o.id
        /\ m = n \/ (n.label \in Figures /\ m.label = Caption[n.label])
        /\ k = o \/ (o.label \in Figures /\ k.label = Caption[o.label])
    BY <1>2, <1>3
  <2>2. m.label = k.label \/ m.id = k.id
    BY <1>12
  <2> HIDE DEF m, k
  <2>3. CASE m.id = k.id
    BY <2>1, <2>3 DEF Unique
  <2>4. CASE m.label = k.label
    <3>1. n.label = o.label
      BY <1>5, <2>1, <2>4
    <3>2. QED
      BY <3>1 DEF Unique
  <2>5. QED
    BY <2>2, <2>3, <2>4
<1>13. ASSUME NEW f \in bare, NEW g \in bare,
              figure(f).label = figure(g).label \/ figure(f).id = figure(g).id
       PROVE  f = g
  BY <1>4, <1>5, <1>13
<1>14. Unique(all)
  BY <1>1, <1>11, <1>12, <1>13 DEF Unique
<1>15. ASSUME NEW m \in all, m.label \in Equations PROVE m.confidence >= Threshold
  <2>1. ASSUME NEW n \in ns, m = Imaged(n, images) PROVE m = n
    BY <1>2, <1>3, <1>5, <1>15, <2>1
  <2>2. ASSUME NEW f \in bare, m = figure(f) PROVE FALSE
    BY <1>4, <1>5, <1>15, <2>2
  <2>3. QED
    BY <1>1, <2>1, <2>2
<1>16. QED
  BY <1>6, <1>7, <1>8, <1>9, <1>10, <1>14, <1>15 DEF all

Decoded(n, formulas) ==
  IF n.label \in DOMAIN formulas THEN [n EXCEPT !.grounding = formulas[n.label]] ELSE n

\* ingest_equation_evidence: an equation that the text mentions is the same node.
LEMMA FormulasIngested ==
  ASSUME NEW ns \in SUBSET Nodes, NEW formulas, IsPartial(formulas, Equations, Evidence), Unique(ns),
         \A m \in ns : m.id = Root \/ m.id[2] = "metadata",
         \A m \in ns, q \in Equations : m.id = <<q, "metadata">> => m.label = q,
         \A m \in ns : m.label \in Equations => m.confidence >= Threshold, Trusted(ns)
  PROVE  LET all == WithFormulas(ns, formulas)
         IN /\ all \subseteq Nodes /\ Unique(all) /\ IdsOf(ns) \subseteq IdsOf(all) /\ Trusted(all)
            /\ \A m \in all : m.id = Root \/ m.id[2] = "metadata"
            /\ \A n \in ns : \E m \in all : m.id = n.id /\ m.type = n.type
<1> DEFINE all == WithFormulas(ns, formulas)
<1> DEFINE bare == {p \in DOMAIN formulas : Called(ns, p) = {}}
<1> DEFINE equation(q) == New(q, "metadata", "Equation", "",
                              IF formulas[q] = "described" THEN 8 ELSE 0, formulas[q])
<1>1. all = {Decoded(n, formulas) : n \in ns} \cup {equation(q) : q \in bare}
  BY DEF WithFormulas, Decoded
<1>2. DOMAIN formulas \subseteq Equations /\ \A q \in DOMAIN formulas : formulas[q] \in Evidence
  BY DEF IsPartial
<1>3. ASSUME NEW n \in ns
      PROVE  LET m == Decoded(n, formulas)
             IN /\ m \in Nodes /\ m.id = n.id /\ m.label = n.label /\ m.type = n.type
                /\ m.confidence < Threshold => m.grounding = "plain"
  <2>1. CASE n.label \in DOMAIN formulas
    <3> DEFINE g == formulas[n.label]
    <3>1. g \in Grounding /\ n.confidence \in 0..10 /\ n.confidence >= Threshold
      BY <1>2, <2>1 DEF Grounding, Nodes, Confidence
    <3>2. Decoded(n, formulas) = [n EXCEPT !.grounding = g]
      BY <2>1 DEF Decoded
    <3> HIDE DEF g
    <3>3. ~(n.confidence < Threshold)
      BY <3>1 DEF Threshold
    <3>4. QED
      BY <3>1, <3>2, <3>3 DEF Nodes
  <2>2. CASE n.label \notin DOMAIN formulas
    BY <2>2 DEF Decoded, Trusted
  <2>3. QED
    BY <2>1, <2>2
<1>4. ASSUME NEW q \in bare
      PROVE  /\ q \in Equations /\ equation(q) \in Nodes
             /\ equation(q).id = <<q, "metadata">> /\ equation(q).label = q
             /\ equation(q).confidence < Threshold => equation(q).grounding = "plain"
             /\ \A n \in ns : n.label # q
  <2> DEFINE c == IF formulas[q] = "described" THEN 8 ELSE 0
  <2>1. q \in Equations /\ formulas[q] \in Evidence /\ q \in Labels
    BY <1>2, LabelsAreTyped
  <2>2. c \in Confidence /\ formulas[q] \in Grounding /\ "Equation" \in Types
    BY <2>1 DEF Confidence, Grounding, Types, Structural
  <2>3. c < Threshold => formulas[q] = "plain"
    BY <2>1 DEF Evidence, Threshold
  <2> HIDE DEF c
  <2>4. LET k == New(q, "metadata", "Equation", "", c, formulas[q])
        IN /\ k \in Nodes /\ k.id = <<q, "metadata">> /\ k.label = q
           /\ k.confidence = c /\ k.grounding = formulas[q]
    BY <2>1, <2>2 DEF New, Nodes, Ids
  <2>5. \A n \in ns : n.label # q
    BY DEF Called
  <2>6. QED
    BY <2>1, <2>3, <2>4, <2>5 DEF c
<1> HIDE DEF all, bare, equation
<1>5. all \subseteq Nodes /\ Trusted(all)
  BY <1>1, <1>3, <1>4 DEF Trusted
<1>6. IdsOf(ns) \subseteq IdsOf(all) /\ \A n \in ns : \E m \in all : m.id = n.id /\ m.type = n.type
  BY <1>1, <1>3 DEF IdsOf
<1>7. \A m \in all : m.id = Root \/ m.id[2] = "metadata"
  BY <1>1, <1>3, <1>4
<1>8. \A n \in ns, q \in bare :
        Decoded(n, formulas).label # equation(q).label /\ Decoded(n, formulas).id # equation(q).id
  BY <1>3, <1>4
<1>9. \A q, p \in bare :
        equation(q).label = equation(p).label \/ equation(q).id = equation(p).id => q = p
  BY <1>4
<1>10. \A n, o \in ns :
         LET m == Decoded(n, formulas)
             k == Decoded(o, formulas)
         IN m.label = k.label \/ m.id = k.id => n = o
  BY <1>3 DEF Unique
<1>11. Unique(all)
  BY <1>1, <1>8, <1>9, <1>10 DEF Unique
<1>12. QED
  BY <1>5, <1>6, <1>7, <1>11 DEF all

\* The paper's node is there, edges join nodes; structural edges what they are for.
HasPaper(ns) == \E n \in ns : n.id = Root /\ n.type = "Paper"
Joined(ns, es) == \A e \in es : {e[1], e[2]} \subseteq IdsOf(ns)
Rooted(ns, es) == HasPaper(ns) /\ Joined(ns, es)
Placed(ns, e) ==
  IF e[3] = "APPEARS_IN" THEN \E n \in ns : n.id = e[2] /\ n.type = "Section"
  ELSE e[1] = Root /\ HasPaper(ns)
InPlace(ns, es) == \A e \in Structure(es) : Placed(ns, e)

\* A step that keeps the paper and the sections and adds structure where it belongs, or
\* on record as loose.
Builds ==
  /\ \A n \in nodes : n.type \in {"Paper", "Section"} => \E m \in nodes' : m.id = n.id /\ m.type = n.type
  /\ \A e \in Structure(edges' \ loose') : e \in edges \ loose \/ Placed(nodes', e)

LEMMA BuiltInPlace ==
  ASSUME InPlace(nodes, edges \ loose), Builds
  PROVE  InPlace(nodes', edges' \ loose')
<1> SUFFICES ASSUME NEW e \in Structure(edges' \ loose') PROVE Placed(nodes', e)
  BY DEF InPlace
<1>1. CASE e \in edges \ loose
  <2>1. Placed(nodes, e)
    BY <1>1 DEF InPlace, Structure
  <2>2. QED
    BY <2>1 DEF Builds, Placed, HasPaper
<1>2. QED
  BY <1>1 DEF Builds

\* The nodes of a text that is read: placeholders and equations under their own names.
LEMMA TextNodes ==
  ASSUME NEW p \in Papers
  PROVE  LET root == New(Title, "paper-root", "Paper", "", 10, "none")
             heads == {New(s, "metadata", "Section", "", 10, "none") : s \in p.sections}
             parts == {New(f, "metadata", "Diagram", "", 10, "none") : f \in p.mentioned}
                        \cup {New(q, "metadata", "Equation", "", 10, "none") : q \in p.numbered}
             headed == AddNodes({root}, heads)
             listed == AddNodes(headed, parts)
         IN /\ listed \subseteq Nodes /\ Unique(listed) /\ IdsOf(headed) \subseteq IdsOf(listed)
            /\ \A n \in listed : OfTheText(n) /\ n.confidence = 10
            /\ \A n \in listed, f \in Figures : n.label # Caption[f]
            /\ HasPaper(listed)
<1> DEFINE root == New(Title, "paper-root", "Paper", "", 10, "none")
<1> DEFINE heads == {New(s, "metadata", "Section", "", 10, "none") : s \in p.sections}
<1> DEFINE parts == {New(f, "metadata", "Diagram", "", 10, "none") : f \in p.mentioned}
                      \cup {New(q, "metadata", "Equation", "", 10, "none") : q \in p.numbered}
<1> DEFINE headed == AddNodes({root}, heads)
<1> DEFINE listed == AddNodes(headed, parts)
<1> DEFINE Text(ns) == \A n \in ns : OfTheText(n) /\ n.confidence = 10
<1> DEFINE Own == {Title} \cup SectionNames \cup Figures \cup Equations
<1>1. p.sections \subseteq SectionNames /\ p.mentioned \subseteq Figures /\ p.numbered \subseteq Equations
  BY PapersAssumption
<1>2. 10 \in Confidence /\ "none" \in Grounding /\ {"Section", "Diagram", "Equation", "Paper"} \subseteq Types
  BY DEF Confidence, Grounding, Types, Structural
<1>3. Own \subseteq Labels /\ \A f \in Figures : Caption[f] \notin Own
  BY LabelsAreTyped, LabelsAssumption
<1>4. /\ root \in Nodes /\ root.id = Root /\ root.label = Title /\ root.type = "Paper"
      /\ root.confidence = 10
  BY <1>2, LabelsAreTyped DEF New, Nodes, Ids, Root
<1>5. ASSUME NEW l \in Own, NEW t \in {"Section", "Diagram", "Equation"}
      PROVE  LET n == New(l, "metadata", t, "", 10, "none")
             IN n \in Nodes /\ n.id = <<l, "metadata">> /\ n.label = l /\ n.type = t /\ n.confidence = 10
  BY <1>2, <1>3 DEF New, Nodes, Ids
<1>6. /\ heads \subseteq Nodes
      /\ \A n \in heads : n.label \in Own /\ n.id = <<n.label, "metadata">> /\ n.confidence = 10
      /\ Unique(heads)
  <2>1. \A l \in p.sections :
          LET n == New(l, "metadata", "Section", "", 10, "none")
          IN n \in Nodes /\ n.id = <<l, "metadata">> /\ n.label = l /\ n.confidence = 10 /\ l \in Own
    BY <1>1, <1>5
  <2> DEFINE head(l) == New(l, "metadata", "Section", "", 10, "none")
  <2>2. \A l \in p.sections : /\ head(l) \in Nodes /\ head(l).id = <<l, "metadata">> /\ head(l).label = l
                              /\ head(l).confidence = 10 /\ l \in Own
    BY <2>1
  <2>3. heads = {head(l) : l \in p.sections}
    OBVIOUS
  <2> HIDE DEF head, heads
  <2>4. \A n \in heads : n.id = <<n.label, "metadata">>
    BY <2>2, <2>3
  <2>5. heads \subseteq Nodes /\ \A n \in heads : n.label \in Own /\ n.confidence = 10
    BY <2>2, <2>3
  <2>6. Unique(heads)
    BY <2>2, <2>3 DEF Unique
  <2>7. QED
    BY <2>4, <2>5, <2>6
<1>7. /\ parts \subseteq Nodes
      /\ \A n \in parts : n.label \in Own /\ n.id = <<n.label, "metadata">> /\ n.confidence = 10
      /\ Unique(parts)
  <2>1. \A l \in p.mentioned :
          LET n == New(l, "metadata", "Diagram", "", 10, "none")
          IN n \in Nodes /\ n.id = <<l, "metadata">> /\ n.label = l /\ n.confidence = 10 /\ l \in Own
    BY <1>1, <1>5
  <2>2. \A l \in p.numbered :
          LET n == New(l, "metadata", "Equation", "", 10, "none")
          IN n \in Nodes /\ n.id = <<l, "metadata">> /\ n.label = l /\ n.confidence = 10 /\ l \in Own
    BY <1>1, <1>5
  <2>3. p.mentioned \cap p.numbered = {}
    BY <1>1, LabelsAssumption
  <2> DEFINE figure(l) == New(l, "metadata", "Diagram", "", 10, "none")
  <2> DEFINE equation(l) == New(l, "metadata", "Equation", "", 10, "none")
  <2>4. /\ \A l \in p.mentioned : /\ figure(l) \in Nodes /\ figure(l).id = <<l, "metadata">>
                                  /\ figure(l).label = l /\ figure(l).confidence = 10 /\ l \in Own
        /\ \A l \in p.numbered : /\ equation(l) \in Nodes /\ equation(l).id = <<l, "metadata">>
                                 /\ equation(l).label = l /\ equation(l).confidence = 10 /\ l \in Own
    BY <2>1, <2>2
  <2>5. parts = {figure(l) : l \in p.mentioned} \cup {equation(l) : l \in p.numbered}
    OBVIOUS
  <2> HIDE DEF figure, equation, parts
  <2>6. \A n \in parts : n.id = <<n.label, "metadata">>
    BY <2>4, <2>5
  <2>7. parts \subseteq Nodes /\ \A n \in parts : n.label \in Own /\ n.confidence = 10
    BY <2>4, <2>5
  <2>8. Unique(parts)
    BY <2>3, <2>4, <2>5 DEF Unique
  <2>9. QED
    BY <2>6, <2>7, <2>8
<1>8. Root[2] = "paper-root" /\ \A l \in Own : Root # <<l, "metadata">>
  BY DEF Root
<1> HIDE DEF root, heads, parts
<1>9. Unique({root}) /\ \A e \in heads, n \in {root} : e.id # n.id
  BY <1>4, <1>6, <1>8 DEF Unique
<1>10. /\ headed \subseteq Nodes /\ Unique(headed)
       /\ \A m \in headed : m \in heads \/ \E n \in {root} : Same(m, n)
       /\ \E m \in headed : Same(m, root) /\ m.type = "Paper"
  <2>1. root.type \notin Generic
    BY <1>4 DEF Generic
  <2>2. {root} \in SUBSET Nodes /\ heads \in SUBSET Nodes
    BY <1>4, <1>6
  <2>3. \A e \in heads, n \in {root} : e.id = n.id => e.label = n.label
    BY <1>9
  <2> HIDE DEF headed
  <2>4. /\ headed \subseteq Nodes /\ Unique(headed)
        /\ \A m \in headed : m \in heads \/ \E n \in {root} : Same(m, n) /\ (n.type \notin Generic => m.type = n.type)
        /\ \A n \in {root} : \E m \in headed : Same(m, n) /\ (n.type \notin Generic => m.type = n.type)
    BY <1>6, <1>9, <2>2, <2>3, Added DEF headed
  <2>5. QED
    BY <1>4, <2>1, <2>4
<1> HIDE DEF headed
<1>11. \A m \in headed : OfTheText(m) /\ m.confidence = 10 /\ m.label \in Own
  BY <1>4, <1>6, <1>10 DEF OfTheText, Same
<1>12. \A e \in parts, n \in headed : e.id = n.id => e.label = n.label
  <2>1. ASSUME NEW e \in parts, NEW n \in headed, e.id = n.id PROVE e.label = n.label
    <3>1. e.id = <<e.label, "metadata">> /\ e.label \in Own
      BY <1>7
    <3>2. n.id # Root
      BY <1>8, <2>1, <3>1
    <3>3. n.id = <<n.label, "metadata">>
      BY <1>11, <3>2 DEF OfTheText
    <3>4. <<e.label, "metadata">> = <<n.label, "metadata">>
      BY <2>1, <3>1, <3>3, Zenon
    <3>5. QED
      BY <3>4, SMT
  <2>2. QED
    BY <2>1
<1>13. /\ listed \subseteq Nodes /\ Unique(listed) /\ IdsOf(headed) \subseteq IdsOf(listed)
       /\ \A m \in listed : m \in parts \/ \E n \in headed : Same(m, n)
       /\ \A n \in headed : \E m \in listed : Same(m, n) /\ (n.type \notin Generic => m.type = n.type)
  <2>1. headed \in SUBSET Nodes /\ parts \in SUBSET Nodes
    BY <1>7, <1>10
  <2> HIDE DEF listed
  <2>2. QED
    BY <1>7, <1>10, <1>12, <2>1, Added DEF listed
<1> HIDE DEF listed
<1>14. \A m \in listed : OfTheText(m) /\ m.confidence = 10 /\ m.label \in Own
  BY <1>7, <1>11, <1>13 DEF OfTheText, Same
<1>15. HasPaper(listed)
  <2>1. PICK m \in headed : Same(m, root) /\ m.type = "Paper"
    BY <1>10
  <2>2. PICK k \in listed : Same(k, m) /\ (m.type \notin Generic => k.type = m.type)
    BY <1>13
  <2>3. k.id = Root /\ k.type = "Paper"
    BY <1>4, <2>1, <2>2 DEF Same, Generic
  <2>4. QED
    BY <2>3 DEF HasPaper
<1>16. QED
  BY <1>3, <1>13, <1>14, <1>15 DEF root, heads, parts, headed, listed

\* The metadata step leaves a sound graph in which nothing is doubtful but bare evidence.
LEMMA MetadataStep ==
  ASSUME Metadata
  PROVE  /\ nodes' \subseteq Nodes /\ edges' \subseteq Edges /\ Unique(nodes') /\ Trusted(nodes')
         /\ \A n \in nodes' : n.id[2] \in {"metadata", "paper-root"}
         /\ Rooted(nodes', edges') /\ InPlace(nodes', edges')
<1>1. PICK p \in Papers :
        LET root == New(Title, "paper-root", "Paper", "", 10, "none")
            heads == {New(s, "metadata", "Section", "", 10, "none") : s \in p.sections}
            parts == {New(f, "metadata", "Diagram", "", 10, "none") : f \in p.mentioned}
                       \cup {New(q, "metadata", "Equation", "", 10, "none") : q \in p.numbered}
            headed == AddNodes({root}, heads)
            listed == AddNodes(headed, parts)
            Linked(ns, labels, r) == {Root} \X (UNION {Called(ns, l) : l \in labels}) \X {r}
            all == WithFormulas(WithImages(listed, p.images), p.formulas)
            evidence == {n \in all : n.grounding # "none" /\ n.id # Root}
        IN /\ nodes' = all
           /\ edges' = Linked(headed, p.sections, "HAS_SECTION")
                         \cup Linked(listed, p.mentioned \cup p.numbered, "CONTAINS")
                         \cup ({Root} \X IdsOf(evidence) \X {"HAS_ARTIFACT"})
  BY DEF Metadata, Update
<1> DEFINE root == New(Title, "paper-root", "Paper", "", 10, "none")
<1> DEFINE heads == {New(s, "metadata", "Section", "", 10, "none") : s \in p.sections}
<1> DEFINE parts == {New(f, "metadata", "Diagram", "", 10, "none") : f \in p.mentioned}
                      \cup {New(q, "metadata", "Equation", "", 10, "none") : q \in p.numbered}
<1> DEFINE headed == AddNodes({root}, heads)
<1> DEFINE listed == AddNodes(headed, parts)
<1> DEFINE pictured == WithImages(listed, p.images)
<1> DEFINE evidence == {n \in nodes' : n.grounding # "none" /\ n.id # Root}
<1>2. /\ nodes' = WithFormulas(pictured, p.formulas)
      /\ edges' = ({Root} \X (UNION {Called(headed, l) : l \in p.sections}) \X {"HAS_SECTION"})
                    \cup ({Root} \X (UNION {Called(listed, l) : l \in p.mentioned \cup p.numbered}) \X {"CONTAINS"})
                    \cup ({Root} \X IdsOf(evidence) \X {"HAS_ARTIFACT"})
  BY <1>1
<1>3. /\ listed \subseteq Nodes /\ Unique(listed) /\ IdsOf(headed) \subseteq IdsOf(listed)
      /\ \A n \in listed : OfTheText(n) /\ n.confidence = 10
      /\ \A n \in listed, f \in Figures : n.label # Caption[f]
      /\ HasPaper(listed)
  BY TextNodes
<1>4. IsPartial(p.images, Figures, Evidence) /\ IsPartial(p.formulas, Equations, Evidence)
  BY PapersAssumption
<1> HIDE DEF headed, listed
<1>5. /\ pictured \subseteq Nodes /\ Unique(pictured) /\ IdsOf(listed) \subseteq IdsOf(pictured) /\ Trusted(pictured)
      /\ \A m \in pictured : m.id = Root \/ m.id[2] = "metadata"
      /\ \A m \in pictured, q \in Equations : m.id = <<q, "metadata">> => m.label = q
      /\ \A m \in pictured : m.label \in Equations => m.confidence >= Threshold
      /\ \A n \in listed : n.type # "Diagram" => n \in pictured
  <2>1. listed \in SUBSET Nodes /\ \A n \in listed : OfTheText(n)
    BY <1>3
  <2>2. \A n \in listed : n.confidence >= Threshold
    BY <1>3 DEF Threshold
  <2> HIDE DEF pictured
  <2>3. QED
    BY <1>3, <1>4, <2>1, <2>2, ImagesIngested DEF pictured
<1> HIDE DEF pictured
<1>6. /\ nodes' \subseteq Nodes /\ Unique(nodes') /\ IdsOf(pictured) \subseteq IdsOf(nodes') /\ Trusted(nodes')
      /\ \A m \in nodes' : m.id = Root \/ m.id[2] = "metadata"
      /\ \A n \in pictured : \E m \in nodes' : m.id = n.id /\ m.type = n.type
  <2>1. pictured \in SUBSET Nodes
    BY <1>5
  <2>2. QED
    BY <1>2, <1>4, <1>5, <2>1, FormulasIngested
<1>7. HasPaper(nodes')
  <2>1. PICK n \in listed : n.id = Root /\ n.type = "Paper"
    BY <1>3 DEF HasPaper
  <2>2. n \in pictured
    BY <1>5, <2>1
  <2>3. QED
    BY <1>6, <2>1, <2>2 DEF HasPaper
<1>8. \A e \in edges' : /\ e[1] = Root /\ e[2] \in IdsOf(nodes')
                        /\ e[3] \in {"HAS_SECTION", "CONTAINS", "HAS_ARTIFACT"}
                        /\ e = <<e[1], e[2], e[3]>>
  <2>1. \A l : Called(headed, l) \subseteq IdsOf(nodes') /\ Called(listed, l) \subseteq IdsOf(nodes')
    <3>1. \A l : Called(headed, l) \subseteq IdsOf(headed) /\ Called(listed, l) \subseteq IdsOf(listed)
      BY DEF Called, IdsOf
    <3>2. QED
      BY <1>3, <1>5, <1>6, <3>1
  <2>2. IdsOf(evidence) \subseteq IdsOf(nodes')
    BY DEF IdsOf
  <2>3. UNION {Called(headed, l) : l \in p.sections} \subseteq IdsOf(nodes')
    BY <2>1
  <2>4. UNION {Called(listed, l) : l \in p.mentioned \cup p.numbered} \subseteq IdsOf(nodes')
    BY <2>1
  <2> HIDE DEF evidence
  <2>5. ASSUME NEW X \in SUBSET IdsOf(nodes'), NEW r \in {"HAS_SECTION", "CONTAINS", "HAS_ARTIFACT"},
               NEW e \in {Root} \X X \X {r}
        PROVE  /\ e[1] = Root /\ e[2] \in IdsOf(nodes')
               /\ e[3] \in {"HAS_SECTION", "CONTAINS", "HAS_ARTIFACT"} /\ e = <<e[1], e[2], e[3]>>
    OBVIOUS
  <2>6. QED
    BY <1>2, <2>2, <2>3, <2>4, <2>5
<1>9. IdsOf(nodes') \subseteq Ids
  BY <1>6 DEF IdsOf, Nodes
<1>10. Root \in IdsOf(nodes')
  BY <1>7 DEF HasPaper, IdsOf
<1>11. edges' \subseteq Edges
  BY <1>8, <1>9, LabelsAreTyped DEF Edges, Relations
<1>12. Joined(nodes', edges') /\ InPlace(nodes', edges')
  BY <1>7, <1>8, <1>10 DEF Joined, InPlace, Placed, Structure
<1>13. \A n \in nodes' : n.id[2] \in {"metadata", "paper-root"}
  BY <1>6 DEF Root
<1>14. QED
  BY <1>6, <1>7, <1>11, <1>12, <1>13 DEF Rooted

-----------------------------------------------------------------------------
(* The ontology and the extraction. *)

\* No id of an earlier step can be made again.
Fresh(ns, s) ==
  \A n \in ns :
    /\ s = "ontology" => n.id[2] \in {"metadata", "paper-root"}
    /\ s = "extraction" => n.id[2] \in {"metadata", "paper-root", "ontology"} \/ n.id = <<n.label, "extraction">>
    /\ s \in {"coref", "merging", "verify"} => n.id[2] # "verify"

\* What every step keeps of a graph, s the step that is next.
Sound(ns, es, s) ==
  /\ ns \subseteq Nodes /\ es \subseteq Edges /\ Unique(ns) /\ Anchored(ns, es) /\ Fresh(ns, s)
  /\ s \in {"ontology", "extraction", "coref"} => Rooted(ns, es)

\* The nodes ms of a later graph are those of ns, or are not doubtful.
Follows(ms, ns) == \A m \in ms : (\E n \in ns : Same(m, n)) \/ m.confidence >= Threshold

\* A graph whose paper is there stays sound when nodes and relations of them are added.
LEMMA Grown ==
  ASSUME NEW ns \in SUBSET Nodes, NEW es \in SUBSET Edges, Unique(ns), Rooted(ns, es),
         NEW news \in SUBSET Nodes, Unique(news), \A e \in news : e.confidence = 10,
         \A e \in news, n \in ns : e.id = n.id => e.label = n.label,
         NEW links \in SUBSET Edges, Joined(AddNodes(ns, news), links)
  PROVE  LET all == AddNodes(ns, news)
         IN /\ all \subseteq Nodes /\ es \cup links \subseteq Edges /\ Unique(all)
            /\ Rooted(all, es \cup links) /\ Anchored(all, es \cup links)
            /\ IdsOf(ns) \subseteq IdsOf(all) /\ Follows(all, ns)
            /\ \A m \in all : m \in news \/ \E n \in ns : Same(m, n)
            /\ \A n \in ns : n.type \in {"Paper", "Section"} => \E m \in all : m.id = n.id /\ m.type = n.type
<1> DEFINE all == AddNodes(ns, news)
<1>1. /\ all \subseteq Nodes /\ Unique(all) /\ IdsOf(ns) \subseteq IdsOf(all)
      /\ \A m \in all : m \in news \/ \E n \in ns : Same(m, n)
      /\ \A n \in ns : \E m \in all : Same(m, n) /\ (n.type \notin Generic => m.type = n.type)
  <2> HIDE DEF all
  <2>1. QED
    BY Added DEF all
<1>2. Joined(all, links)
  OBVIOUS
<1> HIDE DEF all
<1>3. \A n \in ns : n.type \in {"Paper", "Section"} => \E m \in all : m.id = n.id /\ m.type = n.type
  BY <1>1 DEF Same, Generic
<1>4. HasPaper(all)
  BY <1>3 DEF Rooted, HasPaper
<1>5. Joined(all, es \cup links)
  <2>1. \A e \in es : {e[1], e[2]} \subseteq IdsOf(all)
    BY <1>1 DEF Rooted, Joined
  <2>2. QED
    BY <1>2, <2>1 DEF Joined
<1>6. Anchored(all, es \cup links)
  BY <1>5 DEF Anchored, Joined
<1>7. Follows(all, ns)
  BY <1>1 DEF Follows, Threshold
<1>8. QED
  BY <1>1, <1>3, <1>4, <1>5, <1>6, <1>7 DEF Rooted, all

\* Relations named by labels join nodes that are called so.
LEMMA NamedEdges ==
  ASSUME NEW ns \in SUBSET Nodes, NEW relations \in SUBSET Named3
  PROVE  /\ Named(ns, relations) \subseteq Edges /\ Joined(ns, Named(ns, relations))
         /\ \A e \in Named(ns, relations) : \E x \in relations : e[3] = x[3]
<1>1. IdsOf(ns) \subseteq Ids /\ \A l : Called(ns, l) \subseteq IdsOf(ns)
  BY DEF IdsOf, Nodes, Called
<1>2. ASSUME NEW e \in Named(ns, relations)
      PROVE  \E x \in relations : e \in IdsOf(ns) \X IdsOf(ns) \X {x[3]} /\ x[3] \in Relations
  <2>1. PICK x \in relations : e \in Called(ns, x[1]) \X Called(ns, x[2]) \X {x[3]}
    BY DEF Named
  <2>2. x[3] \in Relations
    BY DEF Named3
  <2>3. QED
    BY <1>1, <2>1, <2>2
<1>3. QED
  BY <1>1, <1>2 DEF Edges, Joined

LEMMA OntologyStep ==
  ASSUME Sound(nodes, edges, step), Ontology
  PROVE  /\ Sound(nodes', edges', step') /\ IdsOf(nodes) \subseteq IdsOf(nodes') /\ Follows(nodes', nodes)
         /\ contributions' \subseteq Labels /\ Builds
<1>1. PICK stated \in Contributions :
        LET all == AddNodes(nodes, {New(c, "ontology", "Concept", "ontology", 10, "none") : c \in stated})
        IN /\ Update(all, edges \cup ({Root} \X (UNION {Called(all, c) : c \in stated}) \X {"PART_OF"}))
           /\ contributions' = stated
  BY DEF Ontology
<1> DEFINE new(c) == New(c, "ontology", "Concept", "ontology", 10, "none")
<1> DEFINE news == {new(c) : c \in stated}
<1> DEFINE all == AddNodes(nodes, news)
<1> DEFINE links == {Root} \X (UNION {Called(all, c) : c \in stated}) \X {"PART_OF"}
<1>2. nodes' = all /\ edges' = edges \cup links /\ contributions' = stated
  BY <1>1 DEF Update
<1>3. stated \subseteq Labels
  BY AnswersAssumption
<1>4. step = "ontology" /\ step' = "extraction"
  BY DEF Ontology
<1>5. \A c \in stated : /\ new(c) \in Nodes /\ new(c).id = <<c, "ontology">> /\ new(c).label = c
                        /\ new(c).confidence = 10
  <2>1. 10 \in Confidence /\ "none" \in Grounding /\ "Concept" \in Types
    BY DEF Confidence, Grounding, Types
  <2>2. QED
    BY <1>3, <2>1 DEF New, Nodes, Ids
<1>6. nodes \in SUBSET Nodes /\ edges \in SUBSET Edges /\ Unique(nodes) /\ Rooted(nodes, edges) /\ Fresh(nodes, "ontology")
  BY <1>4 DEF Sound
<1> HIDE DEF new
<1>7. /\ news \in SUBSET Nodes /\ Unique(news)
      /\ \A e \in news : e.confidence = 10 /\ e.id[2] = "ontology"
  BY <1>5 DEF Unique
<1> HIDE DEF news
<1>8. \A e \in news, n \in nodes : e.id = n.id => e.label = n.label
  BY <1>6, <1>7 DEF Fresh
<1>9. all \subseteq Nodes /\ IdsOf(nodes) \subseteq IdsOf(all)
  <2> HIDE DEF all
  <2>1. QED
    BY <1>6, <1>7, <1>8, Added DEF all
<1> HIDE DEF all
<1>10. \A e \in links : {e[1], e[2]} \subseteq IdsOf(all) /\ e[3] = "PART_OF" /\ e \in Edges
  <2>1. Root \in IdsOf(all)
    BY <1>6, <1>9 DEF Rooted, HasPaper, IdsOf
  <2>2. UNION {Called(all, c) : c \in stated} \subseteq IdsOf(all)
    BY DEF Called, IdsOf
  <2>3. IdsOf(all) \subseteq Ids
    BY <1>9 DEF IdsOf, Nodes
  <2>4. QED
    BY <2>1, <2>2, <2>3 DEF Edges, Relations
<1> HIDE DEF links
<1>11. /\ all \subseteq Nodes /\ edges \cup links \subseteq Edges /\ Unique(all)
       /\ Rooted(all, edges \cup links) /\ Anchored(all, edges \cup links)
       /\ IdsOf(nodes) \subseteq IdsOf(all) /\ Follows(all, nodes)
       /\ \A m \in all : m \in news \/ \E n \in nodes : Same(m, n)
       /\ \A n \in nodes : n.type \in {"Paper", "Section"} => \E m \in all : m.id = n.id /\ m.type = n.type
  <2>1. links \in SUBSET Edges /\ \A e \in news : e.confidence = 10
    BY <1>7, <1>10
  <2>2. Joined(all, links)
    BY <1>10 DEF Joined
  <2>3. QED
    BY <1>6, <1>7, <1>8, <2>1, <2>2, Grown DEF all
<1>12. Fresh(all, "extraction")
  BY <1>6, <1>7, <1>11 DEF Fresh, Same
<1>13. Builds
  <2>1. loose' = loose
    BY DEF Ontology, history
  <2>2. QED
    BY <1>2, <1>10, <1>11, <2>1 DEF Builds, Structure, StructuralEdgeTypes
<1>14. QED
  BY <1>2, <1>3, <1>4, <1>11, <1>12, <1>13 DEF Sound

LEMMA ExtractStep ==
  ASSUME Sound(nodes, edges, step), Extract
  PROVE  /\ Sound(nodes', edges', step') /\ IdsOf(nodes) \subseteq IdsOf(nodes') /\ Follows(nodes', nodes)
         /\ Builds /\ loose' \subseteq loose \cup edges'
<1>1. PICK x \in Extractions :
        LET all == AddNodes(nodes, {New(l, "extraction", x.types[l], x.section, 10, "none") : l \in DOMAIN x.types})
            headed == {n \in all : n.label = x.section /\ n.type = "Section"}
            here == {n \in Semantic(all) : n.label \in DOMAIN x.types}
        IN /\ nodes' = all
           /\ edges' = edges \cup Named(all, x.relations) \cup (IdsOf(here) \X IdsOf(headed) \X {"APPEARS_IN"})
           /\ loose' = loose \cup (Structure(Named(all, x.relations)) \ edges)
  BY DEF Extract
<1> DEFINE new(l) == New(l, "extraction", x.types[l], x.section, 10, "none")
<1> DEFINE news == {new(l) : l \in DOMAIN x.types}
<1> DEFINE all == AddNodes(nodes, news)
<1> DEFINE headed == {n \in all : n.label = x.section /\ n.type = "Section"}
<1> DEFINE here == {n \in Semantic(all) : n.label \in DOMAIN x.types}
<1> DEFINE links == Named(all, x.relations) \cup (IdsOf(here) \X IdsOf(headed) \X {"APPEARS_IN"})
<1>2. nodes' = all /\ edges' = edges \cup links /\ loose' = loose \cup (Structure(Named(all, x.relations)) \ edges)
  BY <1>1
<1>3. /\ x.section \in SectionNames /\ DOMAIN x.types \subseteq Labels /\ x.relations \subseteq Named3
      /\ \A l \in DOMAIN x.types : x.types[l] \in Types
  BY AnswersAssumption DEF IsPartial
<1>4. step = "extraction" /\ step' = "extraction"
  BY DEF Extract
<1>5. \A l \in DOMAIN x.types : /\ new(l) \in Nodes /\ new(l).id = <<l, "extraction">> /\ new(l).label = l
                                /\ new(l).confidence = 10
  <2> SUFFICES ASSUME NEW l \in DOMAIN x.types
               PROVE  /\ new(l) \in Nodes /\ new(l).id = <<l, "extraction">> /\ new(l).label = l
                      /\ new(l).confidence = 10
    OBVIOUS
  <2>1. 10 \in Confidence /\ "none" \in Grounding /\ x.types[l] \in Types
    BY <1>3 DEF Confidence, Grounding
  <2>2. QED
    BY <1>3, <2>1 DEF New, Nodes, Ids
<1>6. nodes \in SUBSET Nodes /\ edges \in SUBSET Edges /\ Unique(nodes) /\ Rooted(nodes, edges) /\ Fresh(nodes, "extraction")
  BY <1>4 DEF Sound
<1> HIDE DEF new
<1>7. /\ news \in SUBSET Nodes /\ Unique(news)
      /\ \A e \in news : e.confidence = 10 /\ e.id = <<e.label, "extraction">>
  BY <1>5 DEF Unique
<1> HIDE DEF news
<1>8. \A e \in news, n \in nodes : e.id = n.id => e.label = n.label
  <2> SUFFICES ASSUME NEW e \in news, NEW n \in nodes, e.id = n.id PROVE e.label = n.label
    OBVIOUS
  <2>1. e.id = <<e.label, "extraction">> /\ e.id[2] = "extraction"
    BY <1>7
  <2>2. n.id = <<n.label, "extraction">>
    BY <1>6, <2>1 DEF Fresh
  <2>3. <<e.label, "extraction">> = <<n.label, "extraction">>
    BY <2>1, <2>2, Zenon
  <2>4. QED
    BY <2>3, SMT
<1>9. all \subseteq Nodes
  <2> HIDE DEF all
  <2>1. QED
    BY <1>6, <1>7, <1>8, Added DEF all
<1> HIDE DEF all
<1>10. IdsOf(all) \subseteq Ids /\ \A l : Called(all, l) \subseteq IdsOf(all)
  BY <1>9 DEF IdsOf, Nodes, Called
<1>11. Named(all, x.relations) \subseteq Edges /\ Joined(all, Named(all, x.relations))
  <2>1. all \in SUBSET Nodes /\ x.relations \in SUBSET Named3
    BY <1>3, <1>9
  <2>2. QED
    BY <2>1, NamedEdges
<1>12. \A e \in IdsOf(here) \X IdsOf(headed) \X {"APPEARS_IN"} :
         /\ {e[1], e[2]} \subseteq IdsOf(all) /\ e[3] = "APPEARS_IN" /\ e \in Edges
         /\ \E n \in all : n.id = e[2] /\ n.type = "Section"
  <2>1. IdsOf(here) \subseteq IdsOf(all) /\ IdsOf(headed) \subseteq IdsOf(all)
    BY DEF IdsOf, Semantic
  <2>2. \A i \in IdsOf(headed) : \E n \in all : n.id = i /\ n.type = "Section"
    BY DEF IdsOf
  <2> HIDE DEF here, headed
  <2>3. QED
    BY <1>10, <2>1, <2>2 DEF Edges, Relations
<1> HIDE DEF here, headed
<1>13. links \in SUBSET Edges /\ Joined(all, links)
  BY <1>11, <1>12 DEF Joined
<1>17. \A e \in Structure(edges' \ loose') : e \in edges \ loose \/ Placed(nodes', e)
  <2> SUFFICES ASSUME NEW e \in Structure(edges' \ loose'), e \notin edges \ loose
               PROVE  Placed(nodes', e)
    OBVIOUS
  <2>1. e \in edges' /\ e \notin loose' /\ e[3] \in StructuralEdgeTypes
    BY DEF Structure
  <2>2. e \notin Named(all, x.relations)
    BY <1>2, <2>1 DEF Structure
  <2>3. e \in IdsOf(here) \X IdsOf(headed) \X {"APPEARS_IN"}
    BY <1>2, <2>1, <2>2
  <2>4. QED
    BY <1>2, <1>12, <2>3 DEF Placed
<1>18. loose' \subseteq loose \cup edges'
  BY <1>2 DEF Structure
<1> HIDE DEF links
<1>14. /\ all \subseteq Nodes /\ edges \cup links \subseteq Edges /\ Unique(all)
       /\ Rooted(all, edges \cup links) /\ Anchored(all, edges \cup links)
       /\ IdsOf(nodes) \subseteq IdsOf(all) /\ Follows(all, nodes)
       /\ \A m \in all : m \in news \/ \E n \in nodes : Same(m, n)
       /\ \A n \in nodes : n.type \in {"Paper", "Section"} => \E m \in all : m.id = n.id /\ m.type = n.type
  <2>1. \A e \in news : e.confidence = 10
    BY <1>7
  <2>2. QED
    BY <1>6, <1>7, <1>8, <1>13, <2>1, Grown DEF all
<1>15. Fresh(all, "extraction")
  BY <1>6, <1>7, <1>14 DEF Fresh, Same
<1>16. Builds
  BY <1>2, <1>14, <1>17 DEF Builds
<1>19. QED
  BY <1>2, <1>4, <1>14, <1>15, <1>16, <1>18 DEF Sound

-----------------------------------------------------------------------------
(* Co-references. *)

\* The graph, as long as merges last, is the quotient of the graph they started from.
Quotient ==
  step = "merging" =>
    /\ \A e \in found.edges : e[1] \in DOMAIN into /\ e[2] \in DOMAIN into
    /\ IdsOf(nodes) = {into[i] : i \in DOMAIN into}
    /\ edges = {<<into[e[1]], into[e[2]], e[3]>> : e \in found.edges}

\* The identity is a quotient.
LEMMA ResolveStep ==
  ASSUME Sound(nodes, edges, step), Resolve
  PROVE  Sound(nodes', edges', step') /\ Quotient'
<1>1. step = "coref" /\ step' = "merging" /\ nodes' = nodes /\ edges' = edges
  BY DEF Resolve, graph
<1>2. Rooted(nodes, edges) /\ edges \subseteq Edges
  BY <1>1 DEF Sound
<1>3. Fresh(nodes, "merging")
  BY <1>1 DEF Sound, Fresh
<1>4. Sound(nodes', edges', step')
  BY <1>1, <1>3 DEF Sound
<1>5. into' = [i \in IdsOf(nodes) |-> i] /\ found'.edges = edges
  BY DEF Resolve
<1>6. \A e \in edges : e[1] \in IdsOf(nodes) /\ e[2] \in IdsOf(nodes)
  BY <1>2 DEF Rooted, Joined
<1>7. IdsOf(nodes) = {into'[i] : i \in DOMAIN into'}
  BY <1>5
<1>8. edges = {<<into'[e[1]], into'[e[2]], e[3]>> : e \in edges}
  <2>1. \A e \in edges : e = <<into'[e[1]], into'[e[2]], e[3]>>
    BY <1>2, <1>5, <1>6, EdgeParts
  <2>2. QED
    BY <2>1
<1>9. QED
  BY <1>1, <1>4, <1>5, <1>6, <1>7, <1>8 DEF Quotient

\* One merge: the nodes that go are others than the one that is kept, the edges follow.
LEMMA MergeStep ==
  ASSUME Sound(nodes, edges, step), Quotient, loose \subseteq Edges, Merge
  PROVE  /\ Sound(nodes', edges', step') /\ Quotient' /\ Follows(nodes', nodes)
         /\ loose' \subseteq Edges
         /\ InPlace(nodes, edges \ loose) => InPlace(nodes', edges' \ loose')
<1> DEFINE m == Head(merges)
<1> DEFINE gone == (UNION {Called(nodes, l) : l \in m.remove}) \ Called(nodes, m.keep)
<1> DEFINE keep == CHOOSE i \in Called(nodes, m.keep) : TRUE
<1>1. step = "merging" /\ step' = "merging" /\ found' = found
  BY DEF Merge
<1>2. CASE Called(nodes, m.keep) = {}
  <2>1. nodes' = nodes /\ edges' = edges /\ into' = into /\ loose' = loose
    BY <1>2 DEF Merge
  <2>2. QED
    BY <1>1, <2>1 DEF Quotient, Sound, Follows, Same
<1>3. CASE Called(nodes, m.keep) # {}
  <2>1. /\ nodes' = {n \in nodes : n.id \notin gone}
        /\ edges' = Redirect(edges, gone, keep)
        /\ into' = [i \in DOMAIN into |-> IF into[i] \in gone THEN keep ELSE into[i]]
        /\ loose' = Redirect(loose \cup Structure(Touching(edges, gone)), gone, keep)
    BY <1>3 DEF Merge
  <2>2. keep \in IdsOf(nodes) /\ keep \notin gone
    <3>1. keep \in Called(nodes, m.keep)
      BY <1>3
    <3>2. Called(nodes, m.keep) \subseteq IdsOf(nodes)
      BY DEF Called, IdsOf
    <3>3. \A i \in Called(nodes, m.keep) : i \notin gone
      OBVIOUS
    <3> HIDE DEF keep, gone
    <3>4. QED
      BY <3>1, <3>2, <3>3
  <2>3. /\ nodes \subseteq Nodes /\ edges \subseteq Edges /\ Unique(nodes) /\ Anchored(nodes, edges)
        /\ Fresh(nodes, "merging")
    BY <1>1 DEF Sound
  <2>4. /\ \A e \in found.edges : e[1] \in DOMAIN into /\ e[2] \in DOMAIN into
        /\ IdsOf(nodes) = {into[i] : i \in DOMAIN into}
        /\ edges = {<<into[e[1]], into[e[2]], e[3]>> : e \in found.edges}
    BY <1>1 DEF Quotient
  <2> DEFINE To(i) == IF i \in gone THEN keep ELSE i
  <2>5. edges' = {<<To(e[1]), To(e[2]), e[3]>> : e \in edges}
    BY <2>1 DEF Redirect
  <2>17. loose' = {<<To(e[1]), To(e[2]), e[3]>> : e \in loose \cup Structure(Touching(edges, gone))}
    BY <2>1 DEF Redirect
  <2> HIDE DEF keep, gone
  <2>6. IdsOf(nodes') = {i \in IdsOf(nodes) : i \notin gone}
    BY <2>1 DEF IdsOf
  <2>7. \A i \in IdsOf(nodes) \cup {Root} : To(i) \in IdsOf(nodes') \cup {Root}
    BY <2>2, <2>6
  <2>8. IdsOf(nodes) \subseteq Ids
    BY <2>3 DEF IdsOf, Nodes
  <2>9. \A i \in Ids : To(i) \in Ids
    BY <2>2, <2>8
  <2>10. DOMAIN into' = DOMAIN into /\ \A i \in DOMAIN into : into'[i] = To(into[i])
    BY <2>1
  <2>18. \A i : i \notin gone => To(i) = i
    OBVIOUS
  <2> HIDE DEF To
  <2>11. edges' \subseteq Edges /\ Anchored(nodes', edges')
    <3>1. \A e \in edges : LET f == <<To(e[1]), To(e[2]), e[3]>>
                           IN f \in Edges /\ {f[1], f[2]} \subseteq IdsOf(nodes') \cup {Root}
      <4> SUFFICES ASSUME NEW e \in edges
                   PROVE  LET f == <<To(e[1]), To(e[2]), e[3]>>
                          IN f \in Edges /\ {f[1], f[2]} \subseteq IdsOf(nodes') \cup {Root}
        OBVIOUS
      <4>1. e[1] \in Ids /\ e[2] \in Ids /\ e[3] \in Relations
        BY <2>3, EdgeParts
      <4>2. e[1] \in IdsOf(nodes) \cup {Root} /\ e[2] \in IdsOf(nodes) \cup {Root}
        BY <2>3 DEF Anchored
      <4>3. QED
        BY <2>7, <2>9, <4>1, <4>2, EdgeParts
    <3>2. QED
      BY <2>5, <3>1 DEF Anchored
  <2>12. nodes' \subseteq Nodes /\ Unique(nodes') /\ Fresh(nodes', "merging") /\ Follows(nodes', nodes)
    BY <2>1, <2>3 DEF Unique, Fresh, Follows, Same
  <2>13. Sound(nodes', edges', step')
    BY <1>1, <2>11, <2>12 DEF Sound
  <2>14. IdsOf(nodes') = {into'[i] : i \in DOMAIN into'}
    <3>1. ASSUME NEW i \in DOMAIN into PROVE into'[i] \in IdsOf(nodes')
      BY <2>2, <2>4, <2>6, <2>10 DEF To
    <3>2. ASSUME NEW j \in IdsOf(nodes') PROVE \E i \in DOMAIN into : j = into'[i]
      <4>1. PICK i \in DOMAIN into : j = into[i]
        BY <2>4, <2>6
      <4>2. QED
        BY <2>6, <2>10, <4>1 DEF To
    <3>3. QED
      BY <2>10, <3>1, <3>2
  <2>15. edges' = {<<into'[e[1]], into'[e[2]], e[3]>> : e \in found'.edges}
    <3>1. \A e \in found.edges : <<into'[e[1]], into'[e[2]], e[3]>> = <<To(into[e[1]]), To(into[e[2]]), e[3]>>
      BY <2>4, <2>10
    <3>2. edges' = {<<To(into[e[1]]), To(into[e[2]]), e[3]>> : e \in found.edges}
      <4> DEFINE was(e) == <<into[e[1]], into[e[2]], e[3]>>
      <4> DEFINE now(f) == <<To(f[1]), To(f[2]), f[3]>>
      <4>1. edges = {was(e) : e \in found.edges} /\ edges' = {now(f) : f \in edges}
        BY <2>4, <2>5
      <4>2. \A e \in found.edges : now(was(e)) = <<To(into[e[1]]), To(into[e[2]]), e[3]>>
        OBVIOUS
      <4> HIDE DEF was, now
      <4>3. edges' = {now(was(e)) : e \in found.edges}
        BY <4>1
      <4>4. QED
        BY <4>2, <4>3
    <3>3. QED
      BY <1>1, <3>1, <3>2
  <2>19. loose' \subseteq Edges
    <3> SUFFICES ASSUME NEW e \in Edges PROVE <<To(e[1]), To(e[2]), e[3]>> \in Edges
      BY <2>3, <2>17 DEF Structure, Touching
    <3>1. e[1] \in Ids /\ e[2] \in Ids /\ e[3] \in Relations
      BY EdgeParts
    <3>2. QED
      BY <2>9, <3>1 DEF Edges
  <2>20. ASSUME InPlace(nodes, edges \ loose), NEW e \in Structure(edges' \ loose')
         PROVE  Placed(nodes', e)
    <3>1. PICK f \in edges : e = <<To(f[1]), To(f[2]), f[3]>>
      BY <2>5 DEF Structure
    <3>2. e \notin loose' /\ e[3] \in StructuralEdgeTypes /\ f[3] \in StructuralEdgeTypes
      BY <3>1 DEF Structure
    <3>3. f \notin loose /\ f \notin Structure(Touching(edges, gone))
      BY <2>17, <3>1, <3>2
    <3>4. f[1] \notin gone /\ f[2] \notin gone
      BY <3>2, <3>3 DEF Structure, Touching
    <3>5. e = f
      BY <2>3, <2>18, <3>1, <3>4, EdgeParts
    <3>6. Placed(nodes, f)
      BY <2>20, <3>2, <3>3 DEF InPlace, Structure
    <3>7. \A n \in nodes : n.id \in {f[1], f[2]} => n \in nodes'
      BY <2>1, <3>4
    <3>8. QED
      BY <3>5, <3>6, <3>7 DEF Placed, HasPaper
  <2>16. QED
    BY <1>1, <2>4, <2>10, <2>12, <2>13, <2>14, <2>15, <2>19, <2>20 DEF Quotient, InPlace
<1>4. QED
  BY <1>2, <1>3

\* The aliases are linked, edges from a node to itself go.
LEMMA EndCorefStep ==
  ASSUME Sound(nodes, edges, step), aliases \subseteq Labels \X Labels, EndCoref
  PROVE  Sound(nodes', edges', step') /\ nodes' = nodes /\ Builds
<1> DEFINE named == Named(nodes, {<<a[1], a[2], "ALIAS_OF">> : a \in aliases})
<1>1. /\ step = "merging" /\ step' = "verify" /\ nodes' = nodes
      /\ edges' = {e \in edges : e[1] # e[2]} \cup {e \in named : e[1] # e[2]}
  BY DEF EndCoref, Update
<1>2. /\ nodes \subseteq Nodes /\ edges \subseteq Edges /\ Unique(nodes) /\ Anchored(nodes, edges)
      /\ Fresh(nodes, "merging")
  BY <1>1 DEF Sound
<1>3. named \subseteq Edges /\ Anchored(nodes, named) /\ \A e \in named : e[3] = "ALIAS_OF"
  <2> DEFINE relations == {<<a[1], a[2], "ALIAS_OF">> : a \in aliases}
  <2>1. relations \in SUBSET Named3 /\ \A x \in relations : x[3] = "ALIAS_OF"
    BY DEF Relations, Named3
  <2> HIDE DEF relations
  <2>2. /\ Named(nodes, relations) \subseteq Edges /\ Joined(nodes, Named(nodes, relations))
        /\ \A e \in Named(nodes, relations) : \E x \in relations : e[3] = x[3]
    BY <1>2, <2>1, NamedEdges
  <2>3. QED
    BY <2>1, <2>2 DEF Joined, Anchored, relations
<1> HIDE DEF named
<1>4. edges' \subseteq Edges /\ Anchored(nodes, edges')
  BY <1>1, <1>2, <1>3 DEF Anchored
<1>5. Fresh(nodes, "verify")
  BY <1>2 DEF Fresh
<1>6. Builds
  <2>1. loose' = loose
    BY DEF EndCoref
  <2>2. QED
    BY <1>1, <1>3, <2>1 DEF Builds, Structure, StructuralEdgeTypes
<1>7. QED
  BY <1>1, <1>2, <1>4, <1>5, <1>6 DEF Sound

-----------------------------------------------------------------------------
(* The verification, the summary and the import. *)

\* The verification doubts what it flags and only that; new concepts are linked.
LEMMA VerifyStep ==
  ASSUME Sound(nodes, edges, step), doubted \subseteq Ids, Verify
  PROVE  /\ Sound(nodes', edges', step') /\ IdsOf(nodes) \subseteq IdsOf(nodes')
         /\ doubted \subseteq doubted' /\ doubted' \subseteq Ids
         /\ \A m \in nodes' : \/ \E n \in nodes : Same(m, n)
                              \/ m.confidence >= Threshold \/ m.id \in doubted'
         /\ Builds /\ loose' \subseteq loose \cup edges'
<1>1. PICK a \in Audits :
        LET connected == {e \in Named(nodes, a.connections) : e[1] # e[2]}
            new == {New(l, "verify", a.missing[l].type, a.missing[l].section, 7, "none")
                      : l \in DOMAIN a.missing \ {n.label : n \in nodes}}
            Section(n) == {m.id : m \in {k \in nodes : k.type = "Section" /\ k.label = n.section}}
            links == UNION {IF Section(n) = {} THEN {<<n.id, Root, "PART_OF">>}
                            ELSE {n.id} \X Section(n) \X {"APPEARS_IN"} : n \in new}
            Lowered(n) == IF a.doubts[n.label] < 1 THEN 1
                          ELSE IF a.doubts[n.label] < n.confidence THEN a.doubts[n.label]
                          ELSE n.confidence
            all == nodes \cup new
        IN /\ Update({IF n.label \in DOMAIN a.doubts THEN [n EXCEPT !.confidence = Lowered(n)] ELSE n
                        : n \in all}, edges \cup connected \cup links)
           /\ loose' = loose \cup (Structure(connected) \ edges)
           /\ doubted' = doubted \cup {n.id : n \in {m \in all : m.label \in DOMAIN a.doubts}}
  BY DEF Verify
<1> DEFINE named == Named(nodes, a.connections)
<1> DEFINE connected == {e \in named : e[1] # e[2]}
<1> DEFINE made(l) == New(l, "verify", a.missing[l].type, a.missing[l].section, 7, "none")
<1> DEFINE missing == DOMAIN a.missing \ {n.label : n \in nodes}
<1> DEFINE new == {made(l) : l \in missing}
<1> DEFINE Section(n) == {m.id : m \in {k \in nodes : k.type = "Section" /\ k.label = n.section}}
<1> DEFINE link(n) == IF Section(n) = {} THEN {<<n.id, Root, "PART_OF">>}
                      ELSE {n.id} \X Section(n) \X {"APPEARS_IN"}
<1> DEFINE links == UNION {link(n) : n \in new}
<1> DEFINE Lowered(n) == IF a.doubts[n.label] < 1 THEN 1
                         ELSE IF a.doubts[n.label] < n.confidence THEN a.doubts[n.label]
                         ELSE n.confidence
<1> DEFINE all == nodes \cup new
<1> DEFINE flagged(n) == n.label \in DOMAIN a.doubts
<1> DEFINE audited(n) == IF flagged(n) THEN [n EXCEPT !.confidence = Lowered(n)] ELSE n
<1>2. /\ nodes' = {audited(n) : n \in all}
      /\ edges' = (edges \cup connected) \cup links
      /\ loose' = loose \cup (Structure(connected) \ edges)
      /\ doubted' = doubted \cup {n.id : n \in {m \in all : flagged(m)}}
      /\ step = "verify" /\ step' = "summary"
  BY <1>1 DEF Update, Verify
<1>3. /\ a.connections \subseteq Named3 /\ DOMAIN a.missing \subseteq Labels /\ DOMAIN a.doubts \subseteq Labels
      /\ \A l \in DOMAIN a.missing : a.missing[l] \in [section : SectionNames \cup {""}, type : Types]
      /\ \A l \in DOMAIN a.doubts : a.doubts[l] \in 0..10
  BY AnswersAssumption DEF IsPartial, Confidence
<1>4. /\ nodes \subseteq Nodes /\ edges \subseteq Edges /\ Unique(nodes) /\ Anchored(nodes, edges)
      /\ \A n \in nodes : n.id[2] # "verify"
  BY <1>2 DEF Sound, Fresh
<1>5. named \subseteq Edges /\ Anchored(nodes, named)
  <2>1. nodes \in SUBSET Nodes /\ a.connections \in SUBSET Named3
    BY <1>3, <1>4
  <2>2. QED
    BY <2>1, NamedEdges DEF Joined, Anchored
<1>6. \A l \in missing : /\ made(l) \in Nodes /\ made(l).id = <<l, "verify">> /\ made(l).label = l
                         /\ made(l).confidence = 7 /\ \A n \in nodes : n.label # l
  <2> SUFFICES ASSUME NEW l \in missing
               PROVE  /\ made(l) \in Nodes /\ made(l).id = <<l, "verify">> /\ made(l).label = l
                      /\ made(l).confidence = 7 /\ \A n \in nodes : n.label # l
    OBVIOUS
  <2>1. /\ l \in Labels /\ a.missing[l].section \in SectionNames \cup {"", "ontology"}
        /\ a.missing[l].type \in Types
    BY <1>3
  <2>2. 7 \in Confidence /\ "none" \in Grounding
    BY DEF Confidence, Grounding
  <2>3. QED
    BY <2>1, <2>2 DEF New, Nodes, Ids
<1> HIDE DEF named, made, missing
<1>7. /\ new \subseteq Nodes /\ Unique(new)
      /\ \A n \in new : n.confidence = 7 /\ n.id[2] = "verify" /\ \A m \in nodes : m.label # n.label
  BY <1>6 DEF Unique
<1> HIDE DEF new
<1>8. all \subseteq Nodes /\ Unique(all)
  BY <1>4, <1>7 DEF Unique
<1>9. \A n \in all : /\ audited(n) \in Nodes /\ audited(n).id = n.id /\ audited(n).label = n.label
                     /\ audited(n).type = n.type /\ (~flagged(n) => audited(n) = n)
  <2> SUFFICES ASSUME NEW n \in all
               PROVE  /\ audited(n) \in Nodes /\ audited(n).id = n.id /\ audited(n).label = n.label
                      /\ audited(n).type = n.type /\ (~flagged(n) => audited(n) = n)
    OBVIOUS
  <2>1. n \in Nodes
    BY <1>8
  <2>2. CASE flagged(n)
    <3>1. n.confidence \in 0..10 /\ a.doubts[n.label] \in 0..10
      BY <1>3, <2>1, <2>2 DEF Nodes, Confidence
    <3>2. Lowered(n) \in Confidence
      BY <3>1 DEF Confidence
    <3> HIDE DEF Lowered
    <3>3. QED
      BY <2>1, <2>2, <3>2 DEF Nodes
  <2>3. CASE ~flagged(n)
    BY <2>1, <2>3
  <2>4. QED
    BY <2>2, <2>3
<1> HIDE DEF all, audited
<1>10. nodes' \subseteq Nodes /\ IdsOf(nodes') = IdsOf(all)
  BY <1>2, <1>9 DEF IdsOf
<1>11. Unique(nodes')
  <2> SUFFICES ASSUME NEW m \in nodes', NEW k \in nodes', m.label = k.label \/ m.id = k.id
               PROVE  m = k
    BY DEF Unique
  <2>1. PICK n \in all : m = audited(n)
    BY <1>2
  <2>2. PICK o \in all : k = audited(o)
    BY <1>2
  <2>3. n = o
    BY <1>8, <1>9, <2>1, <2>2 DEF Unique
  <2>4. QED
    BY <2>1, <2>2, <2>3
<1>12. IdsOf(nodes) \subseteq IdsOf(nodes') /\ IdsOf(new) \subseteq IdsOf(nodes') /\ IdsOf(nodes') \subseteq Ids
  BY <1>10 DEF IdsOf, Nodes, all
<1>19. \A n \in nodes : \E m \in nodes' : m.id = n.id /\ m.type = n.type
  BY <1>2, <1>9 DEF all
<1>20. \A e \in links : e[3] # "PART_OF" => e[3] = "APPEARS_IN" /\ Placed(nodes', e)
  <2>1. ASSUME NEW n \in new, NEW e \in link(n), e[3] # "PART_OF"
        PROVE  e[3] = "APPEARS_IN" /\ \E m \in nodes : m.id = e[2] /\ m.type = "Section"
    <3>1. Section(n) # {} /\ e \in {n.id} \X Section(n) \X {"APPEARS_IN"}
      BY <2>1
    <3>2. \A k \in Section(n) : \E m \in nodes : m.id = k /\ m.type = "Section"
      OBVIOUS
    <3> HIDE DEF Section
    <3>3. QED
      BY <3>1, <3>2
  <2> HIDE DEF link
  <2>2. \A e \in links : e[3] # "PART_OF" =>
          e[3] = "APPEARS_IN" /\ \E m \in nodes : m.id = e[2] /\ m.type = "Section"
    BY <2>1
  <2>3. QED
    BY <1>19, <2>2 DEF Placed
<1>13. links \subseteq Edges /\ Anchored(nodes', links)
  <2>1. ASSUME NEW n \in new, NEW e \in link(n)
        PROVE  e \in Edges /\ {e[1], e[2]} \subseteq IdsOf(nodes') \cup {Root}
    <3>1. n.id \in IdsOf(nodes') /\ Section(n) \subseteq IdsOf(nodes')
      BY <1>12 DEF IdsOf
    <3>2. n.id \in Ids /\ Section(n) \subseteq Ids /\ Root \in Ids
      BY <1>12, <3>1, LabelsAreTyped
    <3> HIDE DEF Section
    <3>3. CASE Section(n) = {}
      BY <2>1, <3>1, <3>2, <3>3 DEF Edges, Relations
    <3>4. CASE Section(n) # {}
      BY <2>1, <3>1, <3>2, <3>4 DEF Edges, Relations
    <3>5. QED
      BY <3>3, <3>4
  <2> HIDE DEF link
  <2>2. QED
    BY <2>1 DEF Anchored
<1> HIDE DEF links
<1>21. Builds
  <2> SUFFICES ASSUME NEW e \in Structure(edges' \ loose'), e \notin edges \ loose
               PROVE  Placed(nodes', e)
    BY <1>19 DEF Builds
  <2>1. e \in edges' /\ e \notin loose' /\ e[3] \in StructuralEdgeTypes
    BY DEF Structure
  <2>2. e \notin edges /\ e \notin connected
    BY <1>2, <2>1 DEF Structure
  <2>3. QED
    BY <1>2, <1>20, <2>1, <2>2 DEF StructuralEdgeTypes
<1>22. loose' \subseteq loose \cup edges'
  BY <1>2 DEF Structure
<1>14. edges' \subseteq Edges /\ Anchored(nodes', edges')
  BY <1>2, <1>4, <1>5, <1>12, <1>13 DEF Anchored
<1>15. doubted' \subseteq Ids /\ doubted \subseteq doubted'
  BY <1>2, <1>8 DEF Nodes
<1>16. ASSUME NEW m \in nodes'
       PROVE  \/ \E n \in nodes : Same(m, n)
              \/ m.confidence >= Threshold \/ m.id \in doubted'
  <2>1. PICK n \in all : m = audited(n)
    BY <1>2
  <2>2. CASE flagged(n)
    BY <1>2, <1>9, <2>1, <2>2
  <2>3. CASE ~flagged(n) /\ n \in nodes
    BY <1>9, <2>1, <2>3 DEF Same
  <2>4. CASE ~flagged(n) /\ n \in new
    BY <1>7, <1>9, <2>1, <2>4 DEF Threshold
  <2>5. QED
    BY <2>2, <2>3, <2>4 DEF all
<1>17. Fresh(nodes', "summary")
  BY DEF Fresh
<1>18. QED
  BY <1>2, <1>10, <1>11, <1>12, <1>14, <1>15, <1>16, <1>17, <1>21, <1>22 DEF Sound

\* Pruning takes the edges of what it drops along.
LEMMA SummarizeStep ==
  ASSUME Sound(nodes, edges, step), Summarize
  PROVE  /\ Sound(nodes', edges', step') /\ summary' = Briefing(nodes', edges', contributions')
         /\ \A n \in nodes : n.id \notin IdsOf(nodes') => n.confidence < Threshold
         /\ Builds
<1> DEFINE kept == Grounded(nodes)
<1> DEFINE dropped == IdsOf(nodes) \ IdsOf(kept)
<1> DEFINE left == WithoutNodes(edges \cup Bridges(nodes), dropped)
<1>1. /\ nodes' = kept /\ edges' = left /\ contributions' = contributions
      /\ summary' = Briefing(kept, left, contributions) /\ step' = "done"
  BY DEF Summarize, Update
<1>2. /\ nodes \subseteq Nodes /\ edges \subseteq Edges /\ Unique(nodes) /\ Anchored(nodes, edges)
  BY DEF Sound
<1>3. kept \subseteq nodes /\ \A n \in nodes \ kept : ~(n.confidence >= Threshold)
  BY DEF Grounded
<1>4. Bridges(nodes) \subseteq Edges /\ Anchored(nodes, Bridges(nodes))
  <2>1. IdsOf(nodes) \subseteq Ids
    BY <1>2 DEF IdsOf, Nodes
  <2>2. Bridges(nodes) \subseteq IdsOf(nodes) \X IdsOf(nodes) \X {"APPEARS_IN"}
    BY DEF Bridges
  <2>3. QED
    BY <2>1, <2>2 DEF Edges, Relations, Anchored
<1>9. {n \in nodes : n.type \in {"Paper", "Section"}} \subseteq kept
  BY DEF Grounded, Structural
<1>10. \A e \in Bridges(nodes) : e[3] = "APPEARS_IN" /\ \E n \in nodes : n.id = e[2] /\ n.type = "Section"
  BY DEF Bridges
<1>11. left \subseteq edges \cup Bridges(nodes)
  BY DEF WithoutNodes
<1> HIDE DEF kept
<1>5. left \subseteq Edges /\ Anchored(kept, left)
  <2>1. \A e \in left : e \in edges \cup Bridges(nodes) /\ e[1] \notin dropped /\ e[2] \notin dropped
    BY DEF WithoutNodes
  <2> HIDE DEF left
  <2>2. QED
    BY <1>2, <1>4, <2>1 DEF Anchored
<1> HIDE DEF left
<1>6. Unique(kept) /\ kept \subseteq Nodes /\ Fresh(kept, "done")
  BY <1>2, <1>3 DEF Unique, Fresh
<1>7. ASSUME NEW n \in nodes, n.id \notin IdsOf(nodes') PROVE n.confidence < Threshold
  <2>1. n \notin kept
    BY <1>1, <1>7 DEF IdsOf
  <2>2. n.confidence \in 0..10 /\ ~(n.confidence >= Threshold)
    BY <1>2, <1>3, <2>1 DEF Nodes, Confidence
  <2>3. QED
    BY <2>2 DEF Threshold
<1>12. Builds
  <2>1. loose' = loose
    BY DEF Summarize, history
  <2>2. \A e \in Bridges(nodes) : Placed(nodes', e)
    BY <1>1, <1>9, <1>10 DEF Placed
  <2>3. QED
    BY <1>1, <1>9, <1>11, <2>1, <2>2 DEF Builds, Structure
<1>8. QED
  BY <1>1, <1>5, <1>6, <1>7, <1>12 DEF Sound

\* An imported file: one node for a name, edges that have both ends.
LEMMA ImportStep ==
  ASSUME contributions = {}, Import
  PROVE  /\ Sound(nodes', edges', step') /\ contributions' = {}
         /\ \/ summary' = Briefing(nodes', edges', contributions')
            \/ summary' = Sized(nodes', edges')
<1>1. PICK d3 \in Files :
        LET g == Ingested(d3)
            briefing == Briefing(g.nodes, g.edges, {})
        IN /\ Update(g.nodes, g.edges)
           /\ summary' = IF briefing = {} THEN Sized(g.nodes, g.edges) ELSE briefing
  BY DEF Import
<1> DEFINE names == {d.name : d \in d3.nodes}
<1> DEFINE First == [l \in names |-> CHOOSE d \in d3.nodes : d.name = l]
<1> DEFINE Better(l) == {d \in d3.nodes : d.name = l /\ First[l].type \in Generic /\ d.type \notin Generic}
<1> DEFINE Type(l) == IF Better(l) = {} THEN First[l].type ELSE (CHOOSE d \in Better(l) : TRUE).type
<1> DEFINE Node(i) == {First[d.name].uuid : d \in {c \in d3.nodes : c.uuid = i}}
<1> DEFINE made(l) == [id |-> First[l].uuid, label |-> l, type |-> Type(l), confidence |-> 10,
                       section |-> "", grounding |-> First[l].grounding]
<1>2. /\ nodes' = {made(l) : l \in names}
      /\ edges' = UNION {Node(e[1]) \X Node(e[2]) \X {e[3]} : e \in d3.edges}
      /\ contributions' = contributions /\ step' = "done"
      /\ \/ summary' = Briefing(nodes', edges', {})
         \/ summary' = Sized(nodes', edges')
  BY <1>1 DEF Ingested, Update, Import
<1>3. /\ \A d \in d3.nodes : d.uuid \in Ids /\ d.name \in Labels /\ d.type \in Types /\ d.grounding \in Grounding
      /\ \A d, c \in d3.nodes : d.uuid = c.uuid => d = c
      /\ d3.edges \subseteq Edges
  BY FilesAssumption
<1>4. \A l \in names : First[l] \in d3.nodes /\ First[l].name = l
  OBVIOUS
<1> HIDE DEF First
<1>5. \A l \in names : Type(l) \in Types
  <2> SUFFICES ASSUME NEW l \in names PROVE Type(l) \in Types
    OBVIOUS
  <2>1. CASE Better(l) = {}
    BY <1>3, <1>4, <2>1
  <2>2. CASE Better(l) # {}
    <3>1. (CHOOSE d \in Better(l) : TRUE) \in Better(l)
      BY <2>2
    <3>2. QED
      BY <1>3, <2>2, <3>1
  <2>3. QED
    BY <2>1, <2>2
<1> HIDE DEF Type, Better
<1>6. \A l \in names : made(l) \in Nodes /\ made(l).id = First[l].uuid /\ made(l).label = l
  <2>1. 10 \in Confidence
    BY DEF Confidence
  <2>2. QED
    BY <1>3, <1>4, <1>5, <2>1 DEF Nodes
<1> HIDE DEF made
<1>7. nodes' \subseteq Nodes
  BY <1>2, <1>6
<1>8. Unique(nodes')
  BY <1>2, <1>3, <1>4, <1>6 DEF Unique
<1>9. \A i : Node(i) \subseteq IdsOf(nodes')
  <2> SUFFICES ASSUME NEW i, NEW d \in d3.nodes PROVE First[d.name].uuid \in IdsOf(nodes')
    OBVIOUS
  <2>1. d.name \in names /\ made(d.name) \in nodes'
    BY <1>2
  <2>2. QED
    BY <1>6, <2>1 DEF IdsOf
<1> HIDE DEF Node
<1>10. IdsOf(nodes') \subseteq Ids
  BY <1>7 DEF IdsOf, Nodes
<1>11. \A e \in edges' : e \in Edges /\ {e[1], e[2]} \subseteq IdsOf(nodes')
  <2> SUFFICES ASSUME NEW e \in edges' PROVE e \in Edges /\ {e[1], e[2]} \subseteq IdsOf(nodes')
    OBVIOUS
  <2>1. PICK x \in d3.edges : e \in Node(x[1]) \X Node(x[2]) \X {x[3]}
    BY <1>2
  <2>2. x[3] \in Relations
    BY <1>3, EdgeParts
  <2>3. QED
    BY <1>9, <1>10, <2>1, <2>2 DEF Edges
<1>12. Anchored(nodes', edges') /\ edges' \subseteq Edges /\ Fresh(nodes', "done")
  BY <1>11 DEF Anchored, Fresh
<1>13. QED
  BY <1>2, <1>7, <1>8, <1>12 DEF Sound

-----------------------------------------------------------------------------
(* The invariant. *)

\* Sections are counted while they are extracted, findings when the graph is done.
Counted ==
  /\ step \notin {"extraction", "done"} => answers = 0
  /\ findings = IF step = "done" THEN answers ELSE 0

\* Before the summary, what is doubtful was doubted or is bare evidence.
Trustworthy(ns, flagged) ==
  \A n \in ns : n.confidence < Threshold => n.id \in flagged \/ n.grounding = "plain"

\* The inductive invariant.
GraphInv ==
  /\ TypeOK /\ Counted
  /\ Sound(nodes, edges, step) /\ Quotient
  /\ step # "done" => Trustworthy(nodes, doubted) /\ summary = {}
  /\ step = "metadata" => contributions = {}
  /\ BriefingIsCurrent
  /\ InPlace(nodes, edges \ loose)

\* There is one briefing or none.
LEMMA OneBriefing ==
  /\ \A ns, es, stated : Cardinality(Briefing(ns, es, stated)) \in 0..1
  /\ \A ns, es : Cardinality(Sized(ns, es)) \in 0..1
  /\ Cardinality({}) \in 0..1
<1>1. Cardinality({}) = 0 /\ \A x : Cardinality({x}) = 1
  BY FS_EmptySet, FS_Singleton
<1>2. ASSUME NEW ns, NEW es, NEW stated PROVE Briefing(ns, es, stated) = {} \/ \E x : Briefing(ns, es, stated) = {x}
  BY Zenon DEF Briefing
<1>3. \A ns, es, stated : Cardinality(Briefing(ns, es, stated)) \in {0, 1}
  <2> SUFFICES ASSUME NEW ns, NEW es, NEW stated
               PROVE  Cardinality(Briefing(ns, es, stated)) \in {0, 1}
    OBVIOUS
  <2>1. CASE Briefing(ns, es, stated) = {}
    BY <1>1, <2>1
  <2>2. CASE Briefing(ns, es, stated) # {}
    <3>1. PICK x : Briefing(ns, es, stated) = {x}
      BY <1>2, <2>2
    <3>2. QED
      BY <1>1, <3>1
  <2>3. QED
    BY <2>1, <2>2
<1>4. \A ns, es : Cardinality(Sized(ns, es)) = 1
  BY <1>1 DEF Sized
<1>5. {0, 1} = 0..1
  OBVIOUS
<1>6. QED
  BY <1>1, <1>3, <1>4, <1>5

\* The steps that leave the graph as it is.
LEMMA Kept ==
  ASSUME Sound(nodes, edges, step), nodes' = nodes, edges' = edges,
         \/ step' = step
         \/ step = "extraction" /\ step' = "coref"
         \/ step = "coref" /\ step' = "verify"
         \/ step = "verify" /\ step' = "summary"
  PROVE  Sound(nodes', edges', step') /\ Follows(nodes', nodes)
<1>1. Fresh(nodes, step')
  BY DEF Sound, Fresh
<1>2. QED
  BY <1>1 DEF Sound, Follows, Same

\* Every step keeps the graph sound.
LEMMA SoundStep ==
  ASSUME GraphInv, Next
  PROVE  Sound(nodes', edges', step') /\ Quotient'
<1>1. Sound(nodes, edges, step) /\ Quotient /\ aliases \subseteq Labels \X Labels /\ doubted \subseteq Ids
      /\ loose \subseteq Edges
  BY DEF GraphInv, TypeOK
<1>2. CASE Metadata
  <2>1. step' = "ontology"
    BY <1>2 DEF Metadata
  <2>2. Anchored(nodes', edges') /\ Fresh(nodes', "ontology")
    BY <1>2, MetadataStep DEF Rooted, Joined, Anchored, Fresh
  <2>3. QED
    BY <1>2, <2>1, <2>2, MetadataStep DEF Sound, Quotient
<1>3. CASE Ontology
  BY <1>1, <1>3, OntologyStep DEF Ontology, Quotient
<1>4. CASE Extract
  BY <1>1, <1>4, ExtractStep DEF Extract, Quotient
<1>5. CASE EndExtraction
  BY <1>1, <1>5, Kept DEF EndExtraction, Update, Quotient
<1>6. CASE SkipCoref
  BY <1>1, <1>6, Kept DEF SkipCoref, graph, Quotient
<1>7. CASE Resolve
  BY <1>1, <1>7, ResolveStep
<1>8. CASE Merge
  BY <1>1, <1>8, MergeStep
<1>9. CASE EndCoref
  BY <1>1, <1>9, EndCorefStep DEF EndCoref, Quotient
<1>10. CASE Verify
  BY <1>1, <1>10, VerifyStep DEF Verify, Quotient
<1>11. CASE SkipVerify
  BY <1>1, <1>11, Kept DEF SkipVerify, Quotient
<1>12. CASE Summarize
  BY <1>1, <1>12, SummarizeStep DEF Summarize, Quotient
<1>13. CASE Import
  <2>1. contributions = {}
    BY <1>13 DEF GraphInv, Import
  <2>2. QED
    BY <1>13, <2>1, ImportStep DEF Import, Quotient
<1>14. CASE Annotate
  BY <1>1, <1>14, Kept DEF Annotate, graph, Quotient
<1>15. CASE Finished
  BY <1>1, <1>15, Kept DEF Finished, vars, graph, history, Quotient
<1>16. QED
  BY <1>2, <1>3, <1>4, <1>5, <1>6, <1>7, <1>8, <1>9, <1>10, <1>11, <1>12, <1>13, <1>14, <1>15 DEF Next

\* Until the summary, doubts are on record.
LEMMA TrustStep ==
  ASSUME GraphInv, Next, step' # "done"
  PROVE  Trustworthy(nodes', doubted')
<1>1. Sound(nodes, edges, step) /\ Quotient /\ aliases \subseteq Labels \X Labels /\ doubted \subseteq Ids
      /\ loose \subseteq Edges
  BY DEF GraphInv, TypeOK
<1>2. CASE Metadata
  BY <1>2, MetadataStep DEF Trusted, Trustworthy
<1>3. ASSUME step # "done", Follows(nodes', nodes), doubted' = doubted, nodes' \subseteq Nodes
      PROVE  Trustworthy(nodes', doubted')
  <2> SUFFICES ASSUME NEW m \in nodes', m.confidence < Threshold
               PROVE  m.id \in doubted' \/ m.grounding = "plain"
    BY DEF Trustworthy
  <2>1. m.confidence \in 0..10
    BY <1>3 DEF Nodes, Confidence
  <2>2. PICK n \in nodes : Same(m, n)
    BY <1>3, <2>1 DEF Follows, Threshold
  <2>3. Trustworthy(nodes, doubted)
    BY <1>3 DEF GraphInv
  <2>4. QED
    BY <1>3, <2>2, <2>3 DEF Trustworthy, Same
<1>4. nodes' \subseteq Nodes
  BY SoundStep DEF Sound
<1>5. CASE Ontology
  BY <1>1, <1>3, <1>4, <1>5, OntologyStep DEF Ontology, history
<1>6. CASE Extract
  BY <1>1, <1>3, <1>4, <1>6, ExtractStep DEF Extract, history
<1>7. CASE EndExtraction
  BY <1>1, <1>3, <1>4, <1>7, Kept DEF EndExtraction, Update, history
<1>8. CASE SkipCoref
  BY <1>1, <1>3, <1>4, <1>8, Kept DEF SkipCoref, graph, history
<1>9. CASE Resolve
  BY <1>3, <1>4, <1>9 DEF Resolve, graph, Follows, Same
<1>10. CASE Merge
  BY <1>1, <1>3, <1>4, <1>10, MergeStep DEF Merge
<1>11. CASE EndCoref
  BY <1>3, <1>4, <1>11 DEF EndCoref, Update, Follows, Same
<1>12. CASE Verify
  <2>1. /\ doubted \subseteq doubted'
        /\ \A m \in nodes' : \/ \E n \in nodes : Same(m, n)
                             \/ m.confidence >= Threshold \/ m.id \in doubted'
    BY <1>1, <1>12, VerifyStep
  <2>2. Trustworthy(nodes, doubted)
    BY <1>12 DEF GraphInv, Verify
  <2> SUFFICES ASSUME NEW m \in nodes', m.confidence < Threshold
               PROVE  m.id \in doubted' \/ m.grounding = "plain"
    BY DEF Trustworthy
  <2>3. m.confidence \in 0..10
    BY <1>4 DEF Nodes, Confidence
  <2>4. (\E n \in nodes : Same(m, n)) \/ m.id \in doubted'
    BY <2>1, <2>3 DEF Threshold
  <2>5. QED
    BY <2>1, <2>2, <2>4 DEF Trustworthy, Same
<1>13. CASE SkipVerify
  BY <1>1, <1>3, <1>4, <1>13, Kept DEF SkipVerify, history
<1>14. CASE Summarize \/ Import \/ Annotate \/ Finished
  BY <1>14 DEF Summarize, Import, Annotate, Finished, vars
<1>15. QED
  BY <1>2, <1>5, <1>6, <1>7, <1>8, <1>9, <1>10, <1>11, <1>12, <1>13, <1>14 DEF Next

\* The briefing is written last.
LEMMA BriefingStep ==
  ASSUME GraphInv, Next
  PROVE  /\ BriefingIsCurrent' /\ (step' # "done" => summary' = {})
         /\ (step' = "metadata" => contributions' = {}) /\ Cardinality(summary') \in 0..1
         /\ contributions' \subseteq Labels
<1>1. /\ Sound(nodes, edges, step) /\ contributions \subseteq Labels
      /\ step # "done" => summary = {}
      /\ BriefingIsCurrent /\ Cardinality(summary) \in 0..1
  BY DEF GraphInv, TypeOK
<1>2. CASE Metadata
  BY <1>1, <1>2 DEF Metadata, BriefingIsCurrent
<1>3. CASE Ontology
  BY <1>1, <1>3, OntologyStep DEF Ontology, BriefingIsCurrent
<1>4. CASE Extract \/ EndExtraction \/ SkipCoref \/ Resolve \/ Merge \/ EndCoref \/ Verify \/ SkipVerify
  BY <1>1, <1>4
  DEF Extract, EndExtraction, SkipCoref, Resolve, Merge, EndCoref, Verify, SkipVerify, graph, BriefingIsCurrent
<1>5. CASE Summarize
  BY <1>1, <1>5, SummarizeStep, OneBriefing DEF Summarize, BriefingIsCurrent
<1>6. CASE Import
  <2>1. contributions = {}
    BY <1>6 DEF GraphInv, Import
  <2>2. QED
    BY <1>6, <2>1, ImportStep, OneBriefing DEF Import, BriefingIsCurrent
<1>7. CASE Annotate
  BY <1>1, <1>7 DEF Annotate, graph, BriefingIsCurrent
<1>8. CASE Finished
  BY <1>1, <1>8 DEF Finished, vars, graph, BriefingIsCurrent
<1>9. QED
  BY <1>2, <1>3, <1>4, <1>5, <1>6, <1>7, <1>8 DEF Next

\* Code-made structure stays where it belongs.
LEMMA PlaceStep ==
  ASSUME GraphInv, Next
  PROVE  InPlace(nodes', edges' \ loose') /\ loose' \subseteq Edges
<1>1. /\ Sound(nodes, edges, step) /\ Quotient /\ aliases \subseteq Labels \X Labels
      /\ doubted \subseteq Ids /\ loose \subseteq Edges /\ InPlace(nodes, edges \ loose)
  BY DEF GraphInv, TypeOK
<1>2. edges' \subseteq Edges
  BY SoundStep DEF Sound
<1>3. CASE Metadata
  <2>1. loose' = loose
    BY <1>3 DEF Metadata, history
  <2>2. QED
    BY <1>1, <1>3, <2>1, MetadataStep DEF InPlace, Structure
<1>4. CASE Ontology
  BY <1>1, <1>4, OntologyStep, BuiltInPlace DEF Ontology, history
<1>5. CASE Extract
  BY <1>1, <1>2, <1>5, ExtractStep, BuiltInPlace
<1>6. CASE Merge
  BY <1>1, <1>6, MergeStep
<1>7. CASE EndCoref
  BY <1>1, <1>7, EndCorefStep, BuiltInPlace DEF EndCoref
<1>8. CASE Verify
  BY <1>1, <1>2, <1>8, VerifyStep, BuiltInPlace
<1>9. CASE Summarize
  BY <1>1, <1>9, SummarizeStep, BuiltInPlace DEF Summarize, history
<1>10. CASE Import
  <2>1. PICK es : edges' = es /\ loose' = Structure(es)
    BY <1>10 DEF Import, Update
  <2>2. QED
    BY <1>2, <2>1 DEF InPlace, Structure
<1>11. CASE EndExtraction \/ SkipCoref \/ Resolve \/ SkipVerify \/ Annotate \/ Finished
  <2>1. nodes' = nodes /\ edges' = edges /\ loose' = loose
    BY <1>11
    DEF EndExtraction, SkipCoref, Resolve, SkipVerify, Annotate, Finished, Update, vars, graph, history
  <2>2. QED
    BY <1>1, <2>1 DEF InPlace, Placed, HasPaper
<1>12. QED
  BY <1>3, <1>4, <1>5, <1>6, <1>7, <1>8, <1>9, <1>10, <1>11 DEF Next

\* The types of the rest.
LEMMA TypeStep ==
  ASSUME GraphInv, Next
  PROVE  TypeOK' /\ Counted'
<1>1. TypeOK /\ Counted /\ MaxAnswers \in Nat
  BY LabelsAssumption DEF GraphInv
<1>2. nodes' \subseteq Nodes /\ edges' \subseteq Edges
  BY SoundStep DEF Sound
<1>3. contributions' \subseteq Labels /\ Cardinality(summary') \in 0..1
  BY BriefingStep
<1>4. /\ merges' \in Seq([keep : Labels, remove : SUBSET Labels])
      /\ aliases' \subseteq Labels \X Labels
  <2>1. CASE Resolve
    BY <2>1, AnswersAssumption DEF Resolve
  <2>2. CASE Merge
    BY <1>1, <2>2 DEF Merge, TypeOK
  <2>3. CASE EndCoref
    BY <1>1, <2>3 DEF EndCoref, TypeOK
  <2>4. CASE \/ Metadata \/ Ontology \/ Extract \/ EndExtraction \/ SkipCoref \/ Verify \/ SkipVerify
             \/ Summarize \/ Import \/ Annotate \/ Finished
    BY <1>1, <2>4
    DEF TypeOK, Metadata, Ontology, Extract, EndExtraction, SkipCoref, Verify, SkipVerify,
        Summarize, Import, Annotate, Finished, vars, graph
  <2>5. QED
    BY <2>1, <2>2, <2>3, <2>4 DEF Next
<1>5. doubted' \subseteq Ids
  <2>1. CASE Verify
    BY <1>1, <2>1, VerifyStep DEF GraphInv, TypeOK
  <2>2. CASE \/ Metadata \/ Ontology \/ Extract \/ EndExtraction \/ SkipCoref \/ SkipVerify
             \/ Summarize \/ Import \/ Annotate \/ Finished \/ Resolve \/ Merge \/ EndCoref
    BY <1>1, <2>2
    DEF TypeOK, Metadata, Ontology, Extract, EndExtraction, SkipCoref, SkipVerify, Resolve, Merge, EndCoref,
        Summarize, Import, Annotate, Finished, vars, graph, history
  <2>3. QED
    BY <2>1, <2>2 DEF Next
<1>6. step' \in Steps /\ answers' \in 0..MaxAnswers /\ findings' \in 0..MaxAnswers /\ Counted'
  <2>1. CASE Extract
    BY <1>1, <2>1 DEF Extract, TypeOK, Counted, history
  <2>2. CASE Annotate
    BY <1>1, <2>2 DEF Annotate, TypeOK, Counted
  <2>3. CASE Metadata \/ Ontology \/ EndExtraction \/ SkipCoref \/ Resolve
    BY <1>1, <2>3 DEF Metadata, Ontology, EndExtraction, SkipCoref, Resolve, TypeOK, Counted, Steps, history
  <2>4. CASE Merge \/ EndCoref \/ Verify \/ SkipVerify
    BY <1>1, <2>4 DEF Merge, EndCoref, Verify, SkipVerify, TypeOK, Counted, Steps, history
  <2>5. CASE Summarize \/ Import \/ Finished
    BY <1>1, <2>5 DEF Summarize, Import, Finished, TypeOK, Counted, Steps, vars, history
  <2>6. QED
    BY <2>1, <2>2, <2>3, <2>4, <2>5 DEF Next
<1>7. annotations' \subseteq Ids \X (0..MaxAnswers)
  <2>1. CASE Annotate
    <3>1. PICK target \in IdsOf(nodes) \cup {Root} :
            annotations' = annotations \cup (({target} \cap IdsOf(nodes)) \X {answers})
      BY <2>1 DEF Annotate
    <3>2. IdsOf(nodes) \subseteq Ids
      BY <1>1 DEF TypeOK, IdsOf, Nodes
    <3>3. QED
      BY <1>1, <3>1, <3>2 DEF TypeOK
  <2>2. CASE \/ Metadata \/ Ontology \/ Extract \/ EndExtraction \/ SkipCoref \/ SkipVerify
             \/ Summarize \/ Import \/ Verify \/ Finished \/ Resolve \/ Merge \/ EndCoref
    BY <1>1, <2>2
    DEF TypeOK, Metadata, Ontology, Extract, EndExtraction, SkipCoref, SkipVerify, Resolve, Merge, EndCoref,
        Summarize, Import, Verify, Finished, vars
  <2>3. QED
    BY <2>1, <2>2 DEF Next
<1>8. loose' \subseteq Edges
  BY PlaceStep
<1>9. QED
  BY <1>2, <1>3, <1>4, <1>5, <1>6, <1>7, <1>8 DEF TypeOK

\* The empty graph.
LEMMA GraphInit == Init => GraphInv
<1> SUFFICES ASSUME Init PROVE GraphInv
  OBVIOUS
<1>1. TypeOK
  BY LabelsAssumption, OneBriefing DEF Init, TypeOK, Steps
<1>2. Sound(nodes, edges, step)
  BY DEF Init, Sound, Unique, Anchored, Fresh
<1>3. QED
  BY <1>1, <1>2 DEF Init, GraphInv, Counted, Quotient, Trustworthy, BriefingIsCurrent, InPlace, Structure

LEMMA GraphStep == GraphInv /\ [Next]_vars => GraphInv'
<1> SUFFICES ASSUME GraphInv, [Next]_vars PROVE GraphInv'
  OBVIOUS
<1>1. CASE Next
  BY <1>1, SoundStep, TrustStep, BriefingStep, TypeStep, PlaceStep DEF GraphInv
<1>2. CASE UNCHANGED vars
  BY <1>2
  DEF GraphInv, vars, graph, history, TypeOK, Counted, Quotient, Trustworthy, BriefingIsCurrent, InPlace, Placed,
      HasPaper
<1>3. QED
  BY <1>1, <1>2

LEMMA GraphAlways == Spec => []GraphInv
<1>1. QED
  BY GraphInit, GraphStep, PTL DEF Spec

-----------------------------------------------------------------------------
\* However a model answers and in whichever order steps merge, rename and re-type
\* nodes: labels and ids name one node, and edges join nodes of the graph (or the
\* paper's, which a merge may take away).
THEOREM GraphStaysWellFormed == Spec => []WellFormed
<1>1. GraphInv => WellFormed
  BY DEF GraphInv, Sound, WellFormed, Unique, OneNodePerLabel, Anchored, EdgesAnchored
<1>2. QED
  BY <1>1, GraphAlways, PTL

\* Resolving co-references takes a quotient of the graph, whatever list of merges is
\* answered: chains, cycles and labels that are already gone included.
THEOREM MergesAreQuotients == Spec => []MergesKeepRelations
<1>1. GraphInv => MergesKeepRelations
  BY DEF GraphInv, Quotient, MergesKeepRelations
<1>2. QED
  BY <1>1, GraphAlways, PTL

\* Only merges, the grounding pass and the pruning of bare evidence remove nodes.
THEOREM WellGroundedNodesStay == Spec => OnlyDoubtedAreDropped
<1>1. ASSUME GraphInv, [Next]_vars
      PROVE  [\A n \in nodes : n.id \notin IdsOf(nodes') =>
                 \/ step = "merging"
                 \/ n.id \in doubted /\ n.confidence < Threshold
                 \/ n.grounding = "plain"]_vars
  <2> SUFFICES ASSUME Next, NEW n \in nodes, n.id \notin IdsOf(nodes'), step # "merging"
               PROVE  (n.id \in doubted /\ n.confidence < Threshold) \/ n.grounding = "plain"
    BY <1>1
  <2>1. /\ Sound(nodes, edges, step) /\ doubted \subseteq Ids
        /\ step # "done" => Trustworthy(nodes, doubted)
    BY <1>1 DEF GraphInv, TypeOK
  <2>2. n.id \in IdsOf(nodes)
    BY DEF IdsOf
  <2>3. CASE Summarize
    BY <2>1, <2>3, SummarizeStep DEF Trustworthy, Summarize
  <2>4. CASE Ontology
    BY <2>1, <2>2, <2>4, OntologyStep
  <2>5. CASE Extract
    BY <2>1, <2>2, <2>5, ExtractStep
  <2>6. CASE Verify
    BY <2>1, <2>2, <2>6, VerifyStep
  <2>7. CASE Metadata \/ Import \/ Merge \/ EndCoref
    BY <2>7 DEF Metadata, Import, Merge, EndCoref
  <2>8. CASE EndExtraction \/ SkipCoref \/ Resolve \/ SkipVerify \/ Annotate \/ Finished
    BY <2>2, <2>8 DEF EndExtraction, Update, SkipCoref, Resolve, SkipVerify, Annotate, Finished, vars, graph
  <2>9. QED
    BY <2>3, <2>4, <2>5, <2>6, <2>7, <2>8 DEF Next
<1>2. QED
  BY <1>1, GraphAlways, PTL DEF Spec, OnlyDoubtedAreDropped

-----------------------------------------------------------------------------
(* What reviewers are shown. *)

\* What the digest links to a claim or to a method is linked by a fact or on record as
\* loose: other structural edges end at the paper or at a section, which are neither
\* claims nor evidence.
LEMMA LinkedByFact ==
  ASSUME Unique(nodes), InPlace(nodes, edges \ loose), NEW types \in SUBSET EvidenceTypes,
         NEW c \in nodes, c.type \in {"Claim", "Method"}, NEW j \in LinkedTo(nodes, edges, c, types)
  PROVE  \E e \in Facts(edges) \cup (edges \cap loose) : {e[1], e[2]} = {c.id, j}
<1> DEFINE Other(e) == IF e[1] = c.id THEN e[2] ELSE e[1]
<1>1. PICK e \in edges :
        /\ c.id \in {e[1], e[2]} /\ j = Other(e)
        /\ {n.type : n \in {m \in nodes : m.id = Other(e)}} \cap types # {}
  <2> DEFINE seen == {[other |-> Other(e), edge |-> e[3], out |-> e[1] = c.id,
                       type |-> {n.type : n \in {m \in nodes : m.id = Other(e)}}]
                        : e \in {d \in edges : c.id \in {d[1], d[2]}}}
  <2>1. seen = Neighbours(nodes, edges, c.id)
    BY DEF Neighbours
  <2>2. PICK x \in seen : x.type \cap types # {} /\ j = x.other
    BY <2>1 DEF LinkedTo
  <2>3. PICK e \in {d \in edges : c.id \in {d[1], d[2]}} :
          x = [other |-> Other(e), edge |-> e[3], out |-> e[1] = c.id,
               type |-> {n.type : n \in {m \in nodes : m.id = Other(e)}}]
    OBVIOUS
  <2>4. x.other = Other(e) /\ x.type = {n.type : n \in {m \in nodes : m.id = Other(e)}}
    BY <2>3
  <2>5. QED
    BY <2>2, <2>4
<1>2. {e[1], e[2]} = {c.id, j}
  BY <1>1
<1>3. PICK n \in nodes : n.id = j /\ n.type \in EvidenceTypes
  BY <1>1
<1>4. ASSUME NEW k \in nodes, k.id \in {e[1], e[2]} PROVE k.type \notin {"Paper", "Section"}
  BY <1>2, <1>3, <1>4 DEF Unique, EvidenceTypes
<1>5. e \in Facts(edges) \cup (edges \cap loose)
  <2> SUFFICES ASSUME e \in Structure(edges), e \notin loose PROVE FALSE
    BY DEF Facts, Structure
  <2>1. Placed(nodes, e)
    BY DEF InPlace, Structure
  <2>2. \E k \in nodes : k.id \in {e[1], e[2]} /\ k.type \in {"Paper", "Section"}
    BY <2>1 DEF Placed, HasPaper
  <2>3. QED
    BY <1>4, <2>2
<1>6. QED
  BY <1>2, <1>5

\* The whole digest.
LEMMA DigestOfFacts ==
  ASSUME Unique(nodes), InPlace(nodes, edges \ loose),
         NEW link \in Payload(nodes, edges, summary, contributions).digest
  PROVE  \E e \in Facts(edges) \cup (edges \cap loose) : {e[1], e[2]} = {link[1], link[2]}
<1> DEFINE M == MethodsEvaluation(nodes, edges)
<1> DEFINE C == ClaimEvidence(nodes, edges)
<1> DEFINE NonEmpty(f) == [i \in {j \in DOMAIN f : f[j] # {}} |-> f[i]]
<1> DEFINE Links(f) == UNION {{i} \X f[i] : i \in DOMAIN f}
<1>1. link \in Links(NonEmpty(M)) \/ link \in Links(NonEmpty(C))
  <2>1. Digest(nodes, edges) = <<NonEmpty(M), NonEmpty(C)>>
    BY DEF Digest
  <2> HIDE DEF M, C, NonEmpty
  <2>2. Digest(nodes, edges)[1] = NonEmpty(M) /\ Digest(nodes, edges)[2] = NonEmpty(C)
    BY <2>1
  <2>3. link \in UNION {Links(f) : f \in {Digest(nodes, edges)[1], Digest(nodes, edges)[2]}}
    <3>1. Payload(nodes, edges, summary, contributions).digest
            \subseteq UNION {Links(f) : f \in {Digest(nodes, edges)[1], Digest(nodes, edges)[2]}}
      BY DEF Payload
    <3>2. QED
      BY <3>1
  <2>4. QED
    BY <2>2, <2>3
<1>2. ASSUME NEW f, link \in Links(NonEmpty(f))
      PROVE  link[1] \in DOMAIN f /\ link[2] \in f[link[1]]
  <2>1. PICK i \in DOMAIN NonEmpty(f) : link \in {i} \X NonEmpty(f)[i]
    BY <1>2
  <2>2. i \in DOMAIN f /\ NonEmpty(f)[i] = f[i]
    BY <2>1
  <2>3. link[1] = i /\ link[2] \in f[i]
    BY <2>1, <2>2
  <2>4. QED
    BY <2>2, <2>3
<1>3. CASE link \in Links(NonEmpty(M))
  <2>1. link[1] \in DOMAIN M /\ link[2] \in M[link[1]]
    BY <1>2, <1>3
  <2>2. PICK c \in nodes : c.type = "Method" /\ c.id = link[1] /\ link[2] \in LinkedTo(nodes, edges, c, EvaluationTypes)
    <3>1. PICK c \in nodes : c.id = link[1] /\ link[2] \in LinkedTo(nodes, edges, c, EvaluationTypes)
      BY <2>1 DEF MethodsEvaluation
    <3>2. PICK k \in nodes : k.type = "Method" /\ k.id = link[1]
      BY <2>1 DEF MethodsEvaluation
    <3>3. c = k
      BY <3>1, <3>2 DEF Unique
    <3>4. QED
      BY <3>1, <3>2, <3>3
  <2>3. EvaluationTypes \subseteq EvidenceTypes /\ c.type \in {"Claim", "Method"}
    BY <2>2 DEF EvaluationTypes, EvidenceTypes
  <2> HIDE DEF M
  <2>4. \A types \in SUBSET EvidenceTypes : \A j \in LinkedTo(nodes, edges, c, types) :
          \E e \in Facts(edges) \cup (edges \cap loose) : {e[1], e[2]} = {c.id, j}
    BY <2>3, LinkedByFact
  <2>5. QED
    BY <2>2, <2>3, <2>4
<1>4. CASE link \in Links(NonEmpty(C))
  <2>1. link[1] \in DOMAIN C /\ link[2] \in C[link[1]]
    BY <1>2, <1>4
  <2>2. PICK c \in nodes : c.type = "Claim" /\ c.id = link[1] /\ link[2] \in LinkedTo(nodes, edges, c, EvidenceTypes)
    BY <2>1 DEF ClaimEvidence, Claims
  <2>3. EvidenceTypes \in SUBSET EvidenceTypes /\ c.type \in {"Claim", "Method"}
    BY <2>2
  <2> HIDE DEF C
  <2>4. \A types \in SUBSET EvidenceTypes : \A j \in LinkedTo(nodes, edges, c, types) :
          \E e \in Facts(edges) \cup (edges \cap loose) : {e[1], e[2]} = {c.id, j}
    BY <2>3, LinkedByFact
  <2>5. QED
    BY <2>2, <2>3, <2>4
<1>5. QED
  BY <1>1, <1>3, <1>4

\* What the modes show.
LEMMA ModesAgree ==
  ASSUME NEW mode \in Modes
  PROVE  /\ Independent(mode) \ {"notice"} \subseteq Deliberated(mode)
         /\ "manuscript" \in Deliberated(mode) <=> mode # "graph_only"
         /\ mode = "markdown_only" => Independent(mode) = {"manuscript"} /\ Deliberated(mode) = {"manuscript"}
<1>1. CASE mode = "markdown_only"
  BY <1>1 DEF Independent, Deliberated
<1>2. CASE mode = "graph_only"
  BY <1>2 DEF Independent, Deliberated, FromGraph
<1>3. CASE mode = "markdown_plus_graph_briefing"
  BY <1>3 DEF Independent, Deliberated
<1>4. CASE mode = "markdown_plus_structured_graph_evidence"
  BY <1>4 DEF Independent, Deliberated
<1>5. CASE mode \in {"markdown_plus_required_graph_citations", "full_deliberation_context"}
  BY <1>5 DEF Independent, Deliberated
<1>6. QED
  BY <1>1, <1>2, <1>3, <1>4, <1>5 DEF Modes

LEMMA DisputesSettled == DisputesCanBeSettled
<1> DEFINE payload == Payload(nodes, edges, summary, contributions)
<1>1. payload["manuscript"] # {}
  BY DEF Payload
<1> HIDE DEF payload
<1>2. ASSUME NEW value \in Modes \cup {""}
      PROVE  LET mode == Coerce(value)
                 seen == Rendered(payload, Independent(mode))
                 again == Rendered(payload, Deliberated(mode))
             IN /\ {x \in seen : x[1] # "notice"} \subseteq again
                /\ (\E x \in again : x[1] = "manuscript") <=> mode # "graph_only"
                /\ mode = "markdown_only" => \A x \in seen \cup again : x[1] = "manuscript"
  <2> DEFINE mode == Coerce(value)
  <2> DEFINE I == Independent(mode)
  <2> DEFINE D == Deliberated(mode)
  <2>1. mode \in Modes
    BY DEF Coerce, Modes
  <2> HIDE DEF mode
  <2>2. /\ I \ {"notice"} \subseteq D
        /\ "manuscript" \in D <=> mode # "graph_only"
        /\ mode = "markdown_only" => I = {"manuscript"} /\ D = {"manuscript"}
    BY <2>1, ModesAgree
  <2> DEFINE seen == Rendered(payload, I)
  <2> DEFINE again == Rendered(payload, D)
  <2> DEFINE Row(s) == <<s, payload[s]>>
  <2>3. /\ seen = {Row(s) : s \in {x \in I : payload[x] # {}}}
        /\ again = {Row(s) : s \in {x \in D : payload[x] # {}}}
    BY DEF Rendered
  <2>4. \A s : Row(s)[1] = s
    OBVIOUS
  <2> HIDE DEF I, D, seen, again, Row
  <2>5. {x \in seen : x[1] # "notice"} \subseteq again
    BY <2>2, <2>3, <2>4
  <2>6. (\E x \in again : x[1] = "manuscript") <=> "manuscript" \in D
    <3>1. ASSUME NEW x \in again, x[1] = "manuscript" PROVE "manuscript" \in D
      <4>1. PICK s \in D : x = Row(s)
        BY <2>3
      <4> QED
        BY ONLY <2>4, <3>1, <4>1
    <3>2. ASSUME "manuscript" \in D PROVE \E x \in again : x[1] = "manuscript"
      <4>1. Row("manuscript") \in again
        BY ONLY <1>1, <2>3, <3>2
      <4> QED
        BY ONLY <2>4, <4>1
    <3> QED
      BY ONLY <3>1, <3>2
  <2>7. mode = "markdown_only" => \A x \in seen \cup again : x[1] = "manuscript"
    BY <2>2, <2>3, <2>4
  <2>8. /\ {x \in seen : x[1] # "notice"} \subseteq again
        /\ (\E x \in again : x[1] = "manuscript") <=> mode # "graph_only"
        /\ mode = "markdown_only" => \A x \in seen \cup again : x[1] = "manuscript"
    BY <2>2, <2>5, <2>6, <2>7
  <2>9. QED
    BY <2>8, Zenon DEF mode, I, D, seen, again
<1>3. QED
  BY <1>2 DEF DisputesCanBeSettled, payload

\* Reviewers and panel argue from the graph as it is: the briefing was written last, what
\* the code itself put into the graph's structure is never shown as evidence, and what a
\* reviewer was shown can be looked up.
THEOREM ReviewersSeeTheGraph == Spec => []ContextIsCurrent
<1>1. ASSUME GraphInv PROVE ContextIsCurrent
  <2>1. BriefingIsCurrent /\ Unique(nodes) /\ InPlace(nodes, edges \ loose)
    BY <1>1 DEF GraphInv, Sound
  <2>2. StructureInPlace
    BY <2>1 DEF InPlace, Placed, HasPaper, StructureInPlace, Structure
  <2>3. DigestIsCounted
    BY <2>1, <2>2, DigestOfFacts DEF DigestIsCounted
  <2>4. QED
    BY <2>1, <2>3, DisputesSettled DEF ContextIsCurrent
<1>2. QED
  BY <1>1, GraphAlways, PTL

\* update_stats is never forgotten: what the graph's page and the readiness checks read
\* is what a count of the graph would give.
THEOREM StoredCountsAreCurrent == Spec => []CountsAreCurrent
<1>1. Init => CountsAreCurrent
  BY DEF Init, CountsAreCurrent
<1>2. CountsAreCurrent /\ [Next]_vars => CountsAreCurrent'
  <2> SUFFICES ASSUME CountsAreCurrent, [Next]_vars PROVE CountsAreCurrent'
    OBVIOUS
  <2>1. CASE Metadata \/ Ontology \/ EndExtraction \/ EndCoref \/ Verify \/ Summarize \/ Import
    BY <2>1
    DEF Metadata, Ontology, EndExtraction, EndCoref, Verify, Summarize, Import, Update, CountsAreCurrent
  <2>2. CASE Extract \/ Resolve \/ Merge
    BY <2>2 DEF Extract, Resolve, Merge, CountsAreCurrent
  <2>3. CASE SkipCoref \/ SkipVerify \/ Annotate \/ UNCHANGED vars
    BY <2>3 DEF SkipCoref, SkipVerify, Annotate, vars, graph, CountsAreCurrent
  <2>4. QED
    BY <2>1, <2>2, <2>3 DEF Next, Finished
<1>3. QED
  BY <1>1, <1>2, PTL DEF Spec

-----------------------------------------------------------------------------
(* Graphs are finite. *)

\* As many as there are names is as many as there are things that have them.
LEMMA FiniteImage ==
  ASSUME NEW S, IsFiniteSet(S), NEW f, DOMAIN f = S
  PROVE  IsFiniteSet({f[x] : x \in S}) /\ Cardinality({f[x] : x \in S}) <= Cardinality(S)
<1> DEFINE T == {f[x] : x \in S}
<1> DEFINE g == [x \in S |-> f[x]]
<1>1. g \in Surjection(S, T)
  BY DEF Surjection
<1> HIDE DEF g, T
<1>2. QED
  BY <1>1, FS_Surjection DEF T

\* Counted by kind, the members of a finite set are as many as counted at once.
LEMMA KindsAddUp ==
  ASSUME NEW S, IsFiniteSet(S), NEW f, DOMAIN f = S
  PROVE  Sum([t \in {f[x] : x \in S} |-> Cardinality({x \in S : f[x] = t})]) = Cardinality(S)
<1> DEFINE T == {f[x] : x \in S}
<1> DEFINE kind(t) == {x \in S : f[x] = t}
<1> DEFINE size == [t \in T |-> Cardinality(kind(t))]
<1> DEFINE b(t) == CHOOSE h \in Bijection(1..Cardinality(kind(t)), kind(t)) : TRUE
<1> DEFINE P == UNION {{t} \X (1..size[t]) : t \in T}
<1> DEFINE g == [p \in P |-> b(p[1])[p[2]]]
<1>1. ASSUME NEW t \in T PROVE b(t) \in Bijection(1..size[t], kind(t))
  <2>1. kind(t) \subseteq S
    OBVIOUS
  <2> HIDE DEF kind
  <2>2. IsFiniteSet(kind(t))
    BY <2>1, FS_Subset
  <2>3. ExistsBijection(1..Cardinality(kind(t)), kind(t))
    BY <2>2, FS_CardinalityType
  <2>4. \E h \in Bijection(1..Cardinality(kind(t)), kind(t)) : TRUE
    BY <2>3 DEF ExistsBijection
  <2>5. b(t) \in Bijection(1..Cardinality(kind(t)), kind(t))
    BY <2>4
  <2>6. QED
    BY <2>5
<1>2. \A x \in S : f[x] \in T /\ x \in kind(f[x])
  OBVIOUS
<1>3. \A t \in T : \A x \in kind(t) : x \in S /\ f[x] = t
  OBVIOUS
<1>4. /\ \A p \in P : p[1] \in T /\ p[2] \in 1..size[p[1]] /\ p = <<p[1], p[2]>>
      /\ \A t \in T : \A i \in 1..size[t] : <<t, i>> \in P
  <2> HIDE DEF size, T
  <2>1. QED
    OBVIOUS
<1> HIDE DEF T, kind, size, b, P
<1>5. ASSUME NEW t \in T
      PROVE  /\ \A i \in 1..size[t] : b(t)[i] \in kind(t)
             /\ \A i, j \in 1..size[t] : b(t)[i] = b(t)[j] => i = j
             /\ \A x \in kind(t) : \E i \in 1..size[t] : b(t)[i] = x
  BY <1>1 DEF Bijection, Injection, Surjection, IsInjective
<1>6. \A p \in P : g[p] \in kind(p[1]) /\ g[p] \in S /\ f[g[p]] = p[1]
  BY <1>3, <1>4, <1>5
<1>7. ASSUME NEW p \in P, NEW q \in P, g[p] = g[q] PROVE p = q
  <2>1. p[1] = q[1]
    BY <1>6, <1>7
  <2>2. b(p[1])[p[2]] = b(p[1])[q[2]]
    BY <1>7, <2>1
  <2>3. p[2] = q[2]
    BY <1>4, <1>5, <2>1, <2>2
  <2>4. QED
    BY <1>4, <2>1, <2>3
<1>8. ASSUME NEW x \in S PROVE \E p \in P : g[p] = x
  <2>1. PICK i \in 1..size[f[x]] : b(f[x])[i] = x
    BY <1>2, <1>5
  <2>2. <<f[x], i>> \in P
    BY <1>2, <1>4
  <2>3. g[<<f[x], i>>] = x
    BY <2>1, <2>2
  <2>4. QED
    BY <2>2, <2>3
<1>9. g \in Injection(P, S) /\ g \in Surjection(P, S)
  <2>1. g \in [P -> S]
    BY <1>6
  <2> HIDE DEF g
  <2>2. QED
    BY <1>7, <1>8, <2>1 DEF Injection, Surjection, IsInjective
<1> HIDE DEF g
<1>10. Cardinality(P) = Cardinality(S)
  BY <1>9, FS_Injection
<1>11. Sum(size) = Cardinality(P)
  BY DEF Sum, P, size
<1>12. QED
  BY <1>10, <1>11 DEF size, kind, T

\* A node or an edge is the work of a step, and no step reads, is answered or adds
\* without end.
LEMMA AddedIsFinite ==
  ASSUME NEW ns, IsFiniteSet(ns), NEW news, IsFiniteSet(news)
  PROVE  IsFiniteSet(AddNodes(ns, news))
<1> DEFINE f == [n \in ns |-> Improved(n, news)]
<1> DEFINE fresh == {e \in news : \A n \in ns : n.label # e.label}
<1>1. AddNodes(ns, news) = {Improved(n, news) : n \in ns} \cup fresh
  BY DEF AddNodes, Improved
<1>2. {Improved(n, news) : n \in ns} = {f[n] : n \in ns} /\ DOMAIN f = ns
  OBVIOUS
<1>3. fresh \subseteq news
  OBVIOUS
<1> HIDE DEF f, fresh
<1>4. IsFiniteSet({f[n] : n \in ns})
  BY <1>2, FiniteImage
<1>5. IsFiniteSet(fresh)
  BY <1>3, FS_Subset
<1>6. IsFiniteSet({f[n] : n \in ns} \cup fresh)
  BY <1>4, <1>5, FS_Union
<1>7. QED
  BY <1>1, <1>2, <1>6

LEMMA ImagedIsFinite ==
  ASSUME NEW ns, IsFiniteSet(ns), NEW images, IsFiniteSet(DOMAIN images)
  PROVE  IsFiniteSet(WithImages(ns, images))
<1> DEFINE shown == {g \in DOMAIN images : \A n \in ns : n.label = g => n.type # "Diagram"}
<1> DEFINE new(f) == New(Caption[f], "metadata", "Figure", "",
                         IF images[f] = "described" THEN 8 ELSE 0, images[f])
<1> DEFINE old(n) == IF n.label \in DOMAIN images /\ n.type = "Diagram"
   THEN [n EXCEPT !.label = Caption[n.label], !.type = "Figure", !.grounding = images[n.label],
                  !.confidence = IF images[n.label] = "described" THEN 8 ELSE @]
   ELSE n
<1> DEFINE g == [n \in ns |-> old(n)]
<1> DEFINE h == [f \in shown |-> new(f)]
<1>1. WithImages(ns, images) = {old(n) : n \in ns} \cup {new(f) : f \in shown}
  BY DEF WithImages
<1>2. shown \subseteq DOMAIN images
  OBVIOUS
<1> HIDE DEF old, new, shown
<1>3. {old(n) : n \in ns} = {g[n] : n \in ns} /\ DOMAIN g = ns
  OBVIOUS
<1>4. {new(f) : f \in shown} = {h[f] : f \in shown} /\ DOMAIN h = shown
  OBVIOUS
<1>5. IsFiniteSet(shown)
  BY <1>2, FS_Subset
<1> HIDE DEF g, h
<1>6. IsFiniteSet({g[n] : n \in ns}) /\ IsFiniteSet({h[f] : f \in shown})
  BY <1>3, <1>4, <1>5, FiniteImage
<1>7. IsFiniteSet({g[n] : n \in ns} \cup {h[f] : f \in shown})
  BY <1>6, FS_Union
<1>8. QED
  BY <1>1, <1>3, <1>4, <1>7

LEMMA DecodedIsFinite ==
  ASSUME NEW ns, IsFiniteSet(ns), NEW formulas, IsFiniteSet(DOMAIN formulas)
  PROVE  IsFiniteSet(WithFormulas(ns, formulas))
<1> DEFINE shown == {p \in DOMAIN formulas : Called(ns, p) = {}}
<1> DEFINE new(q) == New(q, "metadata", "Equation", "",
                         IF formulas[q] = "described" THEN 8 ELSE 0, formulas[q])
<1> DEFINE old(n) == IF n.label \in DOMAIN formulas THEN [n EXCEPT !.grounding = formulas[n.label]] ELSE n
<1> DEFINE g == [n \in ns |-> old(n)]
<1> DEFINE h == [f \in shown |-> new(f)]
<1>1. WithFormulas(ns, formulas) = {old(n) : n \in ns} \cup {new(f) : f \in shown}
  BY DEF WithFormulas
<1>2. shown \subseteq DOMAIN formulas
  OBVIOUS
<1> HIDE DEF old, new, shown
<1>3. {old(n) : n \in ns} = {g[n] : n \in ns} /\ DOMAIN g = ns
  OBVIOUS
<1>4. {new(f) : f \in shown} = {h[f] : f \in shown} /\ DOMAIN h = shown
  OBVIOUS
<1>5. IsFiniteSet(shown)
  BY <1>2, FS_Subset
<1> HIDE DEF g, h
<1>6. IsFiniteSet({g[n] : n \in ns}) /\ IsFiniteSet({h[f] : f \in shown})
  BY <1>3, <1>4, <1>5, FiniteImage
<1>7. IsFiniteSet({g[n] : n \in ns} \cup {h[f] : f \in shown})
  BY <1>6, FS_Union
<1>8. QED
  BY <1>1, <1>3, <1>4, <1>7

LEMMA MetadataIsFinite == ASSUME Metadata PROVE IsFiniteSet(nodes')
<1> DEFINE root == New(Title, "paper-root", "Paper", "", 10, "none")
<1> DEFINE heads(p) == {New(s, "metadata", "Section", "", 10, "none") : s \in p.sections}
<1> DEFINE parts(p) == {New(f, "metadata", "Diagram", "", 10, "none") : f \in p.mentioned}
                         \cup {New(q, "metadata", "Equation", "", 10, "none") : q \in p.numbered}
<1> DEFINE all(p) == WithFormulas(WithImages(AddNodes(AddNodes({root}, heads(p)), parts(p)), p.images), p.formulas)
<1>1. PICK p \in Papers : nodes' = all(p)
  BY DEF Metadata, Update
<1>2. /\ IsFiniteSet(p.sections) /\ IsFiniteSet(p.mentioned) /\ IsFiniteSet(p.numbered)
      /\ IsFiniteSet(DOMAIN p.images) /\ IsFiniteSet(DOMAIN p.formulas)
  BY PapersAssumption
<1> DEFINE made(t) == [l \in CASE t = "Section" -> p.sections [] t = "Diagram" -> p.mentioned
                              [] OTHER -> p.numbered |-> New(l, "metadata", t, "", 10, "none")]
<1>3. IsFiniteSet(heads(p)) /\ IsFiniteSet({root})
  <2>1. heads(p) = {made("Section")[l] : l \in p.sections} /\ DOMAIN made("Section") = p.sections
    OBVIOUS
  <2> HIDE DEF made, heads, root
  <2>2. IsFiniteSet(heads(p))
    BY <1>2, <2>1, FiniteImage
  <2>3. IsFiniteSet({root})
    BY FS_Singleton
  <2>4. QED
    BY <2>2, <2>3
<1>4. IsFiniteSet(parts(p))
  <2>1. /\ parts(p) = {made("Diagram")[l] : l \in p.mentioned} \cup {made("Equation")[l] : l \in p.numbered}
        /\ DOMAIN made("Diagram") = p.mentioned /\ DOMAIN made("Equation") = p.numbered
    OBVIOUS
  <2> HIDE DEF made, parts
  <2>2. IsFiniteSet({made("Diagram")[l] : l \in p.mentioned}) /\ IsFiniteSet({made("Equation")[l] : l \in p.numbered})
    BY <1>2, <2>1, FiniteImage
  <2>3. IsFiniteSet({made("Diagram")[l] : l \in p.mentioned} \cup {made("Equation")[l] : l \in p.numbered})
    BY <2>2, FS_Union
  <2>4. QED
    BY <2>1, <2>3
<1> HIDE DEF heads, parts, root
<1>5. IsFiniteSet(AddNodes({root}, heads(p)))
  BY <1>3, AddedIsFinite
<1>6. IsFiniteSet(AddNodes(AddNodes({root}, heads(p)), parts(p)))
  BY <1>4, <1>5, AddedIsFinite
<1>7. IsFiniteSet(WithImages(AddNodes(AddNodes({root}, heads(p)), parts(p)), p.images))
  BY <1>2, <1>6, ImagedIsFinite
<1>8. QED
  BY <1>1, <1>2, <1>7, DecodedIsFinite

LEMMA GraphStaysFinite == ASSUME IsFiniteSet(nodes), Next PROVE IsFiniteSet(nodes')
<1>1. CASE Metadata
  BY <1>1, MetadataIsFinite
<1>2. CASE Ontology
  <2>1. PICK stated \in Contributions :
          nodes' = AddNodes(nodes, {New(c, "ontology", "Concept", "ontology", 10, "none") : c \in stated})
    BY <1>2 DEF Ontology, Update
  <2>2. IsFiniteSet({New(c, "ontology", "Concept", "ontology", 10, "none") : c \in stated})
    <3> DEFINE f == [l \in stated |-> New(l, "ontology", "Concept", "ontology", 10, "none")]
    <3>1. {New(l, "ontology", "Concept", "ontology", 10, "none") : l \in stated} = {f[l] : l \in stated} /\ DOMAIN f = stated
      OBVIOUS
    <3>2. IsFiniteSet(stated)
      BY AnswersAssumption
    <3> HIDE DEF f
    <3>3. QED
      BY <3>1, <3>2, FiniteImage
  <2>3. QED
    BY <2>1, <2>2, AddedIsFinite
<1>3. CASE Extract
  <2>1. PICK x \in Extractions :
          nodes' = AddNodes(nodes, {New(l, "extraction", x.types[l], x.section, 10, "none") : l \in DOMAIN x.types})
    BY <1>3 DEF Extract
  <2>2. IsFiniteSet(DOMAIN x.types)
    BY AnswersAssumption
  <2>3. IsFiniteSet({New(l, "extraction", x.types[l], x.section, 10, "none") : l \in DOMAIN x.types})
    <3> DEFINE f == [l \in DOMAIN x.types |-> New(l, "extraction", x.types[l], x.section, 10, "none")]
    <3>1. {New(l, "extraction", x.types[l], x.section, 10, "none") : l \in DOMAIN x.types} = {f[l] : l \in DOMAIN x.types} /\ DOMAIN f = DOMAIN x.types
      OBVIOUS
    <3>2. IsFiniteSet(DOMAIN x.types)
      BY <2>2
    <3> HIDE DEF f
    <3>3. QED
      BY <3>1, <3>2, FiniteImage
  <2>4. QED
    BY <2>1, <2>3, AddedIsFinite
<1>4. CASE Merge \/ Summarize
  <2>1. nodes' \subseteq nodes
    BY <1>4 DEF Merge, Summarize, Update, Grounded
  <2>2. QED
    BY <2>1, FS_Subset
<1>5. CASE Verify
  <2> DEFINE Lowered(a, n) == IF a.doubts[n.label] < 1 THEN 1
                              ELSE IF a.doubts[n.label] < n.confidence THEN a.doubts[n.label]
                              ELSE n.confidence
  <2> DEFINE new(a) == {New(l, "verify", a.missing[l].type, a.missing[l].section, 7, "none")
                          : l \in DOMAIN a.missing \ {n.label : n \in nodes}}
  <2> DEFINE marked(a, n) == IF n.label \in DOMAIN a.doubts THEN [n EXCEPT !.confidence = Lowered(a, n)] ELSE n
  <2>1. PICK a \in Audits : nodes' = {marked(a, n) : n \in nodes \cup new(a)}
    BY <1>5 DEF Verify, Update
  <2>2. IsFiniteSet(DOMAIN a.missing)
    BY AnswersAssumption
  <2>3. IsFiniteSet(DOMAIN a.missing \ {n.label : n \in nodes})
    BY <2>2, FS_Difference
  <2>4. IsFiniteSet(new(a))
    <3> DEFINE made == [l \in DOMAIN a.missing \ {n.label : n \in nodes} |-> New(l, "verify", a.missing[l].type, a.missing[l].section, 7, "none")]
    <3>1. {New(l, "verify", a.missing[l].type, a.missing[l].section, 7, "none") : l \in DOMAIN a.missing \ {n.label : n \in nodes}} = {made[l] : l \in DOMAIN a.missing \ {n.label : n \in nodes}} /\ DOMAIN made = DOMAIN a.missing \ {n.label : n \in nodes}
      OBVIOUS
    <3>2. IsFiniteSet(DOMAIN a.missing \ {n.label : n \in nodes})
      BY <2>3
    <3> HIDE DEF made
    <3>3. QED
      BY <3>1, <3>2, FiniteImage
  <2> HIDE DEF new, marked
  <2> DEFINE all == nodes \cup new(a)
             f == [n \in all |-> marked(a, n)]
  <2>5. IsFiniteSet(all)
    BY <2>4, FS_Union
  <2> HIDE DEF all
  <2>6. {marked(a, n) : n \in all} = {f[n] : n \in all} /\ DOMAIN f = all
    OBVIOUS
  <2> HIDE DEF f
  <2>7. QED
    BY <2>1, <2>5, <2>6, FiniteImage DEF all
<1>6. CASE Import
  <2> DEFINE made(d3) == Ingested(d3).nodes
  <2>1. PICK d3 \in Files : nodes' = made(d3)
    BY <1>6 DEF Import, Update
  <2>2. IsFiniteSet(d3.nodes)
    BY FilesAssumption
  <2> DEFINE names == {d.name : d \in d3.nodes}
  <2> DEFINE First == [l \in names |-> CHOOSE d \in d3.nodes : d.name = l]
  <2> DEFINE Better(l) == {d \in d3.nodes : d.name = l /\ First[l].type \in Generic /\ d.type \notin Generic}
  <2> DEFINE Type(l) == IF Better(l) = {} THEN First[l].type ELSE (CHOOSE d \in Better(l) : TRUE).type
  <2> DEFINE node(l) == [id |-> First[l].uuid, label |-> l, type |-> Type(l), confidence |-> 10,
                         section |-> "", grounding |-> First[l].grounding]
  <2> DEFINE f == [l \in names |-> node(l)]
  <2> DEFINE g == [d \in d3.nodes |-> d.name]
  <2>3. made(d3) = {node(l) : l \in names}
    BY DEF Ingested
  <2>4. names = {g[d] : d \in d3.nodes} /\ DOMAIN g = d3.nodes
    OBVIOUS
  <2> HIDE DEF node, made, g, names
  <2>5. IsFiniteSet(names)
    BY <2>2, <2>4, FiniteImage
  <2>6. {node(l) : l \in names} = {f[l] : l \in names} /\ DOMAIN f = names
    OBVIOUS
  <2> HIDE DEF f
  <2>7. QED
    BY <2>1, <2>3, <2>5, <2>6, FiniteImage
<1>7. CASE EndExtraction \/ SkipCoref \/ Resolve \/ EndCoref \/ SkipVerify \/ Annotate \/ Finished
  <2>1. nodes' = nodes
    BY <1>7
    DEF EndExtraction, SkipCoref, Resolve, EndCoref, SkipVerify, Annotate, Finished, Update, vars, graph
  <2>2. QED
    BY <2>1
<1>8. QED
  BY <1>1, <1>2, <1>3, <1>4, <1>5, <1>6, <1>7 DEF Next

FiniteGraph == IsFiniteSet(nodes)

LEMMA GraphIsFinite == Spec => []FiniteGraph
<1>1. Init => FiniteGraph
  BY FS_EmptySet DEF Init, FiniteGraph
<1>2. FiniteGraph /\ [Next]_vars => FiniteGraph'
  <2>1. UNCHANGED vars => nodes' = nodes
    BY DEF vars, graph
  <2>2. QED
    BY <2>1, GraphStaysFinite DEF FiniteGraph
<1>3. QED
  BY <1>1, <1>2, PTL DEF Spec

-----------------------------------------------------------------------------
(* What is reported of a graph adds up. *)

LEMMA EdgesAreFinite ==
  ASSUME TypeOK, EdgesAnchored, IsFiniteSet(nodes)
  PROVE  IsFiniteSet(edges)
<1> DEFINE ends == IdsOf(nodes) \cup {Root}
<1> DEFINE pairs == (ends \X ends) \X Relations
<1> DEFINE edge == [p \in pairs |-> <<p[1][1], p[1][2], p[2]>>]
<1> DEFINE idOf == [n \in nodes |-> n.id]
<1> DEFINE rel == <<"USES", "PART_OF", "ALIAS_OF", "APPEARS_IN", "HAS_SECTION", "CONTAINS", "HAS_ARTIFACT">>
<1>1. IsFiniteSet(Relations)
  <2>1. Relations = {rel[i] : i \in 1..7} /\ DOMAIN rel = 1..7
    BY DEF Relations
  <2> HIDE DEF rel
  <2>2. IsFiniteSet(1..7)
    <3>1. 1 \in Int /\ 7 \in Int
      OBVIOUS
    <3>2. QED
      BY ONLY <3>1, FS_Interval
  <2>3. QED
    BY <2>1, <2>2, FiniteImage
<1>2. IsFiniteSet(ends)
  <2>1. IdsOf(nodes) = {idOf[n] : n \in nodes} /\ DOMAIN idOf = nodes
    BY DEF IdsOf
  <2> HIDE DEF idOf
  <2>2. IsFiniteSet(IdsOf(nodes))
    BY <2>1, FiniteImage
  <2>3. QED
    BY <2>2, FS_AddElement
<1>3. \A e \in edges : <<<<e[1], e[2]>>, e[3]>> \in pairs /\ e = <<e[1], e[2], e[3]>>
  BY EdgeParts DEF TypeOK, EdgesAnchored
<1> HIDE DEF ends
<1>4. IsFiniteSet(pairs)
  <2>1. IsFiniteSet(ends \X ends)
    BY <1>2, FS_Product
  <2>2. QED
    BY <1>1, <2>1, FS_Product
<1>5. edges \subseteq {edge[p] : p \in pairs} /\ DOMAIN edge = pairs
  <2> HIDE DEF pairs
  <2>1. ASSUME NEW e \in edges PROVE \E p \in pairs : edge[p] = e
    <3>1. edge[<<<<e[1], e[2]>>, e[3]>>] = e
      BY <1>3
    <3>2. QED
      BY <1>3, <3>1
  <2>2. QED
    BY <2>1
<1> HIDE DEF pairs, edge
<1>6. IsFiniteSet({edge[p] : p \in pairs})
  BY <1>4, <1>5, FiniteImage
<1>7. QED
  BY <1>5, <1>6, FS_Subset

LEMMA StatisticsAddUp ==
  ASSUME CountsAreCurrent, OneNodePerLabel, IsFiniteSet(nodes), IsFiniteSet(edges)
  PROVE  StatisticsAgree
<1> DEFINE typeOf == [n \in Semantic(nodes) |-> n.type]
<1> DEFINE sectionOf == [n \in Semantic(nodes) |-> n.section]
<1> DEFINE relationOf == [e \in Facts(edges) |-> e[3]]
<1> DEFINE overview == Overview(nodes, edges)
<1>1. IsFiniteSet(Semantic(nodes)) /\ IsFiniteSet(Facts(edges))
  <2>1. Semantic(nodes) \subseteq nodes /\ Facts(edges) \subseteq edges
    BY DEF Semantic, Facts
  <2>2. QED
    BY <2>1, FS_Subset
<1>2. Sum(overview.semantic) = Cardinality(Semantic(nodes))
  <2>1. overview.semantic = [t \in {typeOf[n] : n \in Semantic(nodes)}
                               |-> Cardinality({n \in Semantic(nodes) : typeOf[n] = t})]
    <3>1. {n.type : n \in Semantic(nodes)} = {typeOf[n] : n \in Semantic(nodes)}
      OBVIOUS
    <3>2. \A t \in {typeOf[n] : n \in Semantic(nodes)} :
            {n \in nodes : n.type = t} = {n \in Semantic(nodes) : typeOf[n] = t}
      BY DEF Semantic
    <3>3. overview.semantic = [t \in {n.type : n \in Semantic(nodes)} |-> Cardinality({n \in nodes : n.type = t})]
      BY DEF Overview
    <3> HIDE DEF typeOf, overview
    <3>4. QED
      BY <3>1, <3>2, <3>3
  <2>2. DOMAIN typeOf = Semantic(nodes)
    OBVIOUS
  <2> HIDE DEF typeOf, overview
  <2>3. QED
    BY <1>1, <2>1, <2>2, KindsAddUp
<1>3. Sum(overview.relations) = Cardinality(Facts(edges))
  <2>1. overview.relations = [r \in {relationOf[e] : e \in Facts(edges)}
                                |-> Cardinality({e \in Facts(edges) : relationOf[e] = r})]
    <3>1. {e[3] : e \in Facts(edges)} = {relationOf[e] : e \in Facts(edges)}
      OBVIOUS
    <3>2. \A r \in {relationOf[e] : e \in Facts(edges)} :
            {e \in edges : e[3] = r} = {e \in Facts(edges) : relationOf[e] = r}
      BY DEF Facts
    <3>3. overview.relations = [r \in {e[3] : e \in Facts(edges)} |-> Cardinality({e \in edges : e[3] = r})]
      BY DEF Overview
    <3> HIDE DEF relationOf, overview
    <3>4. QED
      BY <3>1, <3>2, <3>3
  <2>2. DOMAIN relationOf = Facts(edges)
    OBVIOUS
  <2> HIDE DEF relationOf, overview
  <2>3. QED
    BY <1>1, <2>1, <2>2, KindsAddUp
<1>4. Sum(SectionCoverage(nodes)) = Cardinality(Semantic(nodes))
  <2>1. SectionCoverage(nodes) = [s \in {sectionOf[n] : n \in Semantic(nodes)}
                                    |-> Cardinality({n \in Semantic(nodes) : sectionOf[n] = s})]
    <3>1. {n.section : n \in Semantic(nodes)} = {sectionOf[n] : n \in Semantic(nodes)}
      OBVIOUS
    <3>2. \A s : {n \in Semantic(nodes) : n.section = s} = {n \in Semantic(nodes) : sectionOf[n] = s}
      OBVIOUS
    <3> HIDE DEF sectionOf
    <3>3. QED
      BY <3>1, <3>2 DEF SectionCoverage
  <2>2. DOMAIN sectionOf = Semantic(nodes)
    OBVIOUS
  <2> HIDE DEF sectionOf
  <2>3. QED
    BY <1>1, <2>1, <2>2, KindsAddUp
<1>5. /\ Stats(nodes, edges).semantic = Cardinality(Semantic(nodes))
      /\ Stats(nodes, edges).facts = Cardinality(Facts(edges))
      /\ Stats(nodes, edges).entityTypes = Cardinality({n.type : n \in Semantic(nodes)})
  BY DEF Stats
<1>6. DOMAIN overview.semantic = {n.type : n \in Semantic(nodes)}
  BY DEF Overview
<1>7. ClaimsWithoutSupport(nodes, edges) = IdsOf(Claims(nodes)) \ DOMAIN Digest(nodes, edges)[2]
  <2> DEFINE support(c) == LinkedTo(nodes, edges, c, EvidenceTypes)
  <2> DEFINE all(i) == UNION {support(c) : c \in {k \in Claims(nodes) : k.id = i}}
  <2>1. ASSUME NEW c \in Claims(nodes) PROVE all(c.id) = support(c)
    <3>1. {k \in Claims(nodes) : k.id = c.id} = {c}
      BY <2>1 DEF Claims, OneNodePerLabel
    <3> HIDE DEF support
    <3>2. QED
      BY <3>1
  <2>2. DOMAIN Digest(nodes, edges)[2] = {j \in IdsOf(Claims(nodes)) : all(j) # {}}
    BY DEF Digest, ClaimEvidence
  <2>3. ClaimsWithoutSupport(nodes, edges) = {n.id : n \in {c \in Claims(nodes) : support(c) = {}}}
    BY DEF ClaimsWithoutSupport
  <2> HIDE DEF support, all
  <2>4. QED
    BY <2>1, <2>2, <2>3 DEF IdsOf
<1> HIDE DEF overview
<1>8. QED
  BY <1>2, <1>3, <1>4, <1>5, <1>6, <1>7 DEF StatisticsAgree, overview

-----------------------------------------------------------------------------
(* A graph and the copy that an export and an import make of it.           *)

Copy(n) == [id |-> n.id, label |-> n.label, type |-> n.type, confidence |-> 10, section |-> "",
            grounding |-> n.grounding]
Copies(ns) == {Copy(n) : n \in ns}
EdgesWithin(ns, es) == {e \in es : {e[1], e[2]} \subseteq IdsOf(ns)}

LEMMA CopyFields ==
  \A n : Copy(n).id = n.id /\ Copy(n).label = n.label /\ Copy(n).type = n.type /\ Copy(n).grounding = n.grounding
<1>1. QED
  BY DEF Copy

\* No two nodes are taken for one, and only edges to a node that is gone are lost.
LEMMA ImportedCopy ==
  ASSUME NEW ns, Unique(ns), NEW es, \A e \in es : e = <<e[1], e[2], e[3]>>
  PROVE  /\ Ingested(Exported(ns, es)).nodes = Copies(ns)
         /\ Ingested(Exported(ns, es)).edges = EdgesWithin(ns, es)
<1> DEFINE row(n) == [uuid |-> n.id, name |-> n.label, type |-> n.type, grounding |-> n.grounding]
<1> DEFINE rows == {row(n) : n \in ns}
<1> DEFINE names == {d.name : d \in rows}
<1> DEFINE First == [l \in names |-> CHOOSE d \in rows : d.name = l]
<1> DEFINE Better(l) == {d \in rows : d.name = l /\ First[l].type \in Generic /\ d.type \notin Generic}
<1> DEFINE Type(l) == IF Better(l) = {} THEN First[l].type ELSE (CHOOSE d \in Better(l) : TRUE).type
<1> DEFINE Node(i) == {First[d.name].uuid : d \in {c \in rows : c.uuid = i}}
<1> DEFINE made(l) == [id |-> First[l].uuid, label |-> l, type |-> Type(l), confidence |-> 10,
                       section |-> "", grounding |-> First[l].grounding]
<1>1. /\ Exported(ns, es).nodes = rows /\ Exported(ns, es).edges = es
      /\ Ingested(Exported(ns, es)).nodes = {made(l) : l \in names}
      /\ Ingested(Exported(ns, es)).edges = UNION {Node(e[1]) \X Node(e[2]) \X {e[3]} : e \in es}
  BY DEF Exported, Ingested
<1>2. \A n : row(n).uuid = n.id /\ row(n).name = n.label /\ row(n).type = n.type /\ row(n).grounding = n.grounding
  OBVIOUS
<1>3. /\ \A n \in ns : row(n) \in rows
      /\ \A d \in rows : \E n \in ns : d = row(n)
  OBVIOUS
<1> HIDE DEF row, rows
<1>4. \A m, n \in ns : m.label = n.label \/ m.id = n.id => m = n
  BY DEF Unique
<1>5. \A n \in ns : n.label \in names
  BY <1>2, <1>3
<1>6. \A l \in names : \E n \in ns : l = n.label
  BY <1>2, <1>3
<1>7. ASSUME NEW n \in ns PROVE First[n.label] = row(n)
  <2>1. \A d \in rows : d.name = n.label => d = row(n)
    BY <1>2, <1>3, <1>4
  <2>2. First[n.label] = CHOOSE d \in rows : d.name = n.label
    BY <1>5
  <2> HIDE DEF First
  <2>3. QED
    BY <1>2, <1>3, <2>1, <2>2
<1>8. ASSUME NEW n \in ns PROVE Better(n.label) = {}
  <2>1. \A d \in rows : d.name = n.label => d = row(n)
    BY <1>2, <1>3, <1>4
  <2> HIDE DEF First
  <2>2. QED
    BY <1>7, <2>1
<1> HIDE DEF First, Better, names
<1>9. ASSUME NEW n \in ns PROVE made(n.label) = Copy(n)
  BY <1>2, <1>7, <1>8 DEF Copy
<1>10. ASSUME NEW n \in ns PROVE Node(n.id) = {n.id}
  <2>1. \A d \in rows : d.uuid = n.id => d = row(n)
    BY <1>2, <1>3, <1>4
  <2>2. {c \in rows : c.uuid = n.id} = {row(n)}
    BY <1>2, <1>3, <2>1
  <2>3. First[row(n).name].uuid = n.id
    BY <1>2, <1>7
  <2>4. QED
    BY <2>2, <2>3
<1>11. ASSUME NEW i, i \notin IdsOf(ns) PROVE Node(i) = {}
  <2>1. {c \in rows : c.uuid = i} = {}
    BY <1>2, <1>3, <1>11 DEF IdsOf
  <2>2. QED
    BY <2>1
<1> HIDE DEF made, Node
<1>12. {made(l) : l \in names} = Copies(ns)
  BY <1>5, <1>6, <1>9 DEF Copies
<1>13. UNION {Node(e[1]) \X Node(e[2]) \X {e[3]} : e \in es} = EdgesWithin(ns, es)
  <2> DEFINE ends(e) == Node(e[1]) \X Node(e[2]) \X {e[3]}
  <2>1. ASSUME NEW e \in es, {e[1], e[2]} \subseteq IdsOf(ns) PROVE ends(e) = {e}
    <3>1. Node(e[1]) = {e[1]} /\ Node(e[2]) = {e[2]}
      BY <1>10, <2>1 DEF IdsOf
    <3>2. ends(e) = {<<e[1], e[2], e[3]>>}
      BY <3>1
    <3>3. QED
      BY <3>2
  <2>2. ASSUME NEW e \in es, ~ ({e[1], e[2]} \subseteq IdsOf(ns)) PROVE ends(e) = {}
    <3>1. Node(e[1]) = {} \/ Node(e[2]) = {}
      BY <1>11, <2>2
    <3>2. QED
      BY <3>1
  <2> HIDE DEF ends
  <2>3. UNION {ends(e) : e \in es} = EdgesWithin(ns, es)
    BY <2>1, <2>2 DEF EdgesWithin
  <2>4. QED
    BY <2>3 DEF ends
<1>14. QED
  BY <1>1, <1>12, <1>13

\* Nodes are as many as their copies, and as many of a kind.
LEMMA CopyCount ==
  ASSUME NEW ns, Unique(ns), IsFiniteSet(ns), NEW S, S \subseteq ns
  PROVE  Cardinality(Copies(S)) = Cardinality(S)
<1> DEFINE c == [n \in S |-> Copy(n)]
<1>1. \A m, n \in S : Copy(m) = Copy(n) => m = n
  BY CopyFields DEF Unique
<1>2. c \in [S -> Copies(S)] /\ (\A n \in S : c[n] = Copy(n)) /\ (\A x \in Copies(S) : \E n \in S : c[n] = x)
  BY DEF Copies
<1> HIDE DEF c
<1>3. c \in Injection(S, Copies(S)) /\ c \in Surjection(S, Copies(S))
  BY <1>1, <1>2 DEF Injection, Surjection, IsInjective
<1>4. IsFiniteSet(S)
  BY FS_Subset
<1>5. QED
  BY <1>3, <1>4, FS_Injection, FS_Surjection

LEMMA CopiesReadAlike ==
  \A ns : /\ IdsOf(Copies(ns)) = IdsOf(ns)
          /\ {n.label : n \in Copies(ns)} = {n.label : n \in ns}
          /\ {n.type : n \in Copies(ns)} = {n.type : n \in ns}
          /\ Copies(ns) = {} <=> ns = {}
<1>1. QED
  BY CopyFields DEF Copies, IdsOf

LEMMA SemanticCopies == \A ns : Semantic(Copies(ns)) = Copies(Semantic(ns))
<1>1. QED
  BY CopyFields DEF Copies, Semantic

LEMMA NeighboursOfCopies ==
  ASSUME NEW ns, NEW es, NEW i PROVE Neighbours(Copies(ns), es, i) = Neighbours(ns, es, i)
<1> DEFINE typesOf(S, j) == {n.type : n \in {m \in S : m.id = j}}
<1>1. \A j : typesOf(Copies(ns), j) = typesOf(ns, j)
  BY CopyFields DEF Copies
<1> DEFINE end(e) == IF e[1] = i THEN e[2] ELSE e[1]
<1> DEFINE seen(S, e) == [other |-> end(e), edge |-> e[3], out |-> e[1] = i, type |-> typesOf(S, end(e))]
<1>2. \A e : seen(Copies(ns), e) = seen(ns, e)
  <2> HIDE DEF typesOf, end
  <2>1. QED
    BY <1>1
<1>3. \A S : Neighbours(S, es, i) = {seen(S, e) : e \in {d \in es : i \in {d[1], d[2]}}}
  BY DEF Neighbours
<1> HIDE DEF seen
<1>4. QED
  BY <1>2, <1>3

LEMMA LinksOfCopies ==
  ASSUME NEW ns, NEW es, NEW n, NEW types
  PROVE  LinkedTo(Copies(ns), es, Copy(n), types) = LinkedTo(ns, es, n, types)
<1>1. QED
  BY CopyFields, NeighboursOfCopies DEF LinkedTo

LEMMA DigestOfCopies == \A ns, es : Digest(Copies(ns), es) = Digest(ns, es)
<1> SUFFICES ASSUME NEW ns, NEW es PROVE Digest(Copies(ns), es) = Digest(ns, es)
  OBVIOUS
<1>1. MethodsEvaluation(Copies(ns), es) = MethodsEvaluation(ns, es)
  <2> DEFINE methods(S) == {n.id : n \in {m \in S : m.type = "Method"}}
  <2> DEFINE link(S, m) == LinkedTo(S, es, m, EvaluationTypes)
  <2> DEFINE called(S, i) == {k \in S : k.id = i}
  <2> DEFINE linked(S, i) == {link(S, m) : m \in called(S, i)}
  <2>1. methods(Copies(ns)) = methods(ns)
    BY CopyFields DEF Copies
  <2>2. \A i : linked(Copies(ns), i) = linked(ns, i)
    <3>1. \A i : called(Copies(ns), i) = Copies(called(ns, i))
      BY CopyFields DEF Copies
    <3>2. \A n : link(Copies(ns), Copy(n)) = link(ns, n)
      BY LinksOfCopies
    <3> HIDE DEF link, called
    <3>3. \A A : {link(Copies(ns), m) : m \in Copies(A)} = {link(ns, n) : n \in A}
      BY <3>2 DEF Copies
    <3>4. QED
      BY <3>1, <3>3
  <2>3. \A S : MethodsEvaluation(S, es) = [i \in methods(S) |-> UNION linked(S, i)]
    BY DEF MethodsEvaluation
  <2> HIDE DEF methods, called, link
  <2>4. QED
    BY <2>1, <2>2, <2>3
<1>2. ClaimEvidence(Copies(ns), es) = ClaimEvidence(ns, es)
  <2> DEFINE claimed(S) == IdsOf(Claims(S))
  <2> DEFINE link(S, m) == LinkedTo(S, es, m, EvidenceTypes)
  <2> DEFINE called(S, i) == {k \in Claims(S) : k.id = i}
  <2> DEFINE linked(S, i) == {link(S, m) : m \in called(S, i)}
  <2>1. claimed(Copies(ns)) = claimed(ns)
    BY CopyFields DEF Copies, IdsOf, Claims
  <2>2. \A i : linked(Copies(ns), i) = linked(ns, i)
    <3>1. \A i : called(Copies(ns), i) = Copies(called(ns, i))
      BY CopyFields DEF Copies, Claims
    <3>2. \A n : link(Copies(ns), Copy(n)) = link(ns, n)
      BY LinksOfCopies
    <3> HIDE DEF link, called
    <3>3. \A A : {link(Copies(ns), m) : m \in Copies(A)} = {link(ns, n) : n \in A}
      BY <3>2 DEF Copies
    <3>4. QED
      BY <3>1, <3>3
  <2>3. \A S : ClaimEvidence(S, es) = [i \in claimed(S) |-> UNION linked(S, i)]
    BY DEF ClaimEvidence
  <2> HIDE DEF claimed, called, link
  <2>4. QED
    BY <2>1, <2>2, <2>3
<1>3. QED
  BY <1>1, <1>2 DEF Digest

LEMMA ShownOfCopies == \A ns, es : Shown(Copies(ns), es) = Shown(ns, es)
<1> SUFFICES ASSUME NEW ns, NEW es PROVE Shown(Copies(ns), es) = Shown(ns, es)
  OBVIOUS
<1> DEFINE visible(S) == {n \in S : n.type \notin Structural \/ n.type = "Reference"}
<1> DEFINE related(I) == {e \in es : /\ e[3] \notin {"APPEARS_IN", "HAS_SECTION", "CONTAINS"}
                                     /\ {e[1], e[2]} \subseteq I}
<1>1. visible(Copies(ns)) = Copies(visible(ns))
  BY CopyFields DEF Copies
<1>2. \A S : Shown(S, es) = [entities |-> {n.label : n \in visible(S)}, relations |-> related(IdsOf(visible(S)))]
  BY DEF Shown
<1> HIDE DEF visible, related
<1>3. QED
  BY <1>1, <1>2, CopiesReadAlike

LEMMA EntityOfCopies == \A ns, l : Entity(Copies(ns), l) = Entity(ns, l)
<1>1. QED
  BY CopyFields DEF Copies, Entity

LEMMA GroundingOfCopies ==
  ASSUME NEW ns, Unique(ns), IsFiniteSet(ns)
  PROVE  GroundingSummary(Copies(ns)) = GroundingSummary(ns)
<1> DEFINE visual(S) == {n \in S : n.type \in {"Figure", "Table"}}
<1> DEFINE described(S) == {n \in S : n.grounding = "described"}
<1> DEFINE formulas(S) == {n \in S : n.type = "Equation" /\ n.grounding # "none"}
<1>1. /\ visual(Copies(ns)) = Copies(visual(ns))
      /\ formulas(Copies(ns)) = Copies(formulas(ns))
      /\ described(Copies(visual(ns))) = Copies(described(visual(ns)))
      /\ described(Copies(formulas(ns))) = Copies(described(formulas(ns)))
  BY CopyFields DEF Copies
<1>2. \A S : GroundingSummary(S) =
        [mode |-> IF visual(S) = {} THEN "none"
                  ELSE IF described(visual(S)) = {} THEN "text_only"
                  ELSE IF described(visual(S)) = visual(S) THEN "vision_grounded" ELSE "mixed",
         described |-> Cardinality(described(visual(S))),
         undescribed |-> Cardinality(visual(S)) - Cardinality(described(visual(S))),
         decoded |-> Cardinality(described(formulas(S))),
         total |-> Cardinality(visual(S)) + Cardinality(formulas(S))]
  BY DEF GroundingSummary
<1>3. /\ visual(ns) \subseteq ns /\ described(visual(ns)) \subseteq ns
      /\ formulas(ns) \subseteq ns /\ described(formulas(ns)) \subseteq ns
  OBVIOUS
<1>4. Copies(described(visual(ns))) = Copies(visual(ns)) => described(visual(ns)) = visual(ns)
  <2> SUFFICES ASSUME Copies(described(visual(ns))) = Copies(visual(ns)), NEW n \in visual(ns)
               PROVE  n \in described(visual(ns))
    OBVIOUS
  <2>1. PICK m \in described(visual(ns)) : Copy(m) = Copy(n)
    BY DEF Copies
  <2>2. m.grounding = n.grounding
    BY <2>1, CopyFields
  <2>3. QED
    BY <2>1, <2>2
<1> HIDE DEF visual, described, formulas
<1>5. /\ Cardinality(Copies(visual(ns))) = Cardinality(visual(ns))
      /\ Cardinality(Copies(described(visual(ns)))) = Cardinality(described(visual(ns)))
      /\ Cardinality(Copies(formulas(ns))) = Cardinality(formulas(ns))
      /\ Cardinality(Copies(described(formulas(ns)))) = Cardinality(described(formulas(ns)))
  BY <1>3, CopyCount
<1>6. /\ Copies(visual(ns)) = {} <=> visual(ns) = {}
      /\ Copies(described(visual(ns))) = {} <=> described(visual(ns)) = {}
  BY CopiesReadAlike
<1>7. QED
  BY <1>1, <1>2, <1>4, <1>5, <1>6

LEMMA UtilizationOfCopies ==
  ASSUME NEW ns, Unique(ns), IsFiniteSet(ns), NEW by
  PROVE  Utilization(Copies(ns), by) = Utilization(ns, by)
<1> DEFINE readers(n) == {r \in DOMAIN by : n.label \in by[r]}
<1> DEFINE used(S) == {n \in Semantic(S) : readers(n) # {}}
<1> DEFINE readBy(S, r) == {n \in Semantic(S) : r \in readers(n)}
<1> DEFINE ofType(S, t) == {n \in Semantic(S) : n.type = t}
<1> DEFINE usedOf(S, t) == {n \in used(S) : n.type = t}
<1>1. \A S : Utilization(S, by) =
        [referenced |-> IdsOf(used(S)), unreferenced |-> IdsOf(Semantic(S)) \ IdsOf(used(S)),
         covered |-> [r \in DOMAIN by |-> Cardinality(readBy(S, r))],
         types |-> [t \in {n.type : n \in Semantic(S)} |->
                      [total |-> Cardinality(ofType(S, t)), referenced |-> Cardinality(usedOf(S, t))]]]
  BY DEF Utilization
<1>2. \A n : readers(Copy(n)) = readers(n)
  BY CopyFields
<1> HIDE DEF readers
<1>3. /\ used(Copies(ns)) = Copies(used(ns))
      /\ \A r : readBy(Copies(ns), r) = Copies(readBy(ns, r))
      /\ \A t : ofType(Copies(ns), t) = Copies(ofType(ns, t))
  BY <1>2, SemanticCopies, CopyFields DEF Copies
<1>4. \A t : usedOf(Copies(ns), t) = Copies(usedOf(ns, t))
  <2> HIDE DEF used
  <2>1. QED
    BY <1>3, CopyFields DEF Copies
<1>5. Semantic(ns) \subseteq ns /\ used(ns) \subseteq ns /\ (\A r : readBy(ns, r) \subseteq ns)
      /\ \A t : ofType(ns, t) \subseteq ns /\ usedOf(ns, t) \subseteq ns
  BY DEF Semantic
<1> HIDE DEF used, readBy, ofType, usedOf
<1>6. /\ \A r : Cardinality(Copies(readBy(ns, r))) = Cardinality(readBy(ns, r))
      /\ \A t : /\ Cardinality(Copies(ofType(ns, t))) = Cardinality(ofType(ns, t))
                /\ Cardinality(Copies(usedOf(ns, t))) = Cardinality(usedOf(ns, t))
  BY <1>5, CopyCount
<1>7. /\ IdsOf(used(Copies(ns))) = IdsOf(used(ns)) /\ IdsOf(Semantic(Copies(ns))) = IdsOf(Semantic(ns))
      /\ {n.type : n \in Semantic(Copies(ns))} = {n.type : n \in Semantic(ns)}
  BY <1>3, SemanticCopies, CopiesReadAlike
<1> DEFINE covered(S) == [r \in DOMAIN by |-> Cardinality(readBy(S, r))]
<1> DEFINE types(S) == [t \in {n.type : n \in Semantic(S)} |->
                          [total |-> Cardinality(ofType(S, t)), referenced |-> Cardinality(usedOf(S, t))]]
<1>8. covered(Copies(ns)) = covered(ns)
  BY <1>3, <1>6
<1>9. types(Copies(ns)) = types(ns)
  BY <1>3, <1>4, <1>6, <1>7
<1>10. \A S : Utilization(S, by) =
        [referenced |-> IdsOf(used(S)), unreferenced |-> IdsOf(Semantic(S)) \ IdsOf(used(S)),
         covered |-> covered(S), types |-> types(S)]
  BY <1>1
<1> HIDE DEF covered, types
<1>11. QED
  BY <1>7, <1>8, <1>9, <1>10

LEMMA CopiesAnswerAlike ==
  ASSUME TypeOK, Unique(nodes), IsFiniteSet(nodes) PROVE ExportKeepsAnswers
<1> DEFINE g == Ingested(Exported(nodes, edges))
<1>1. \A e \in edges : e = <<e[1], e[2], e[3]>>
  BY EdgeParts DEF TypeOK
<1>2. g.nodes = Copies(nodes) /\ g.edges = EdgesWithin(nodes, edges)
  BY <1>1, ImportedCopy
<1> HIDE DEF g
<1>3. GroundingSummary(g.nodes) = GroundingSummary(nodes)
  BY <1>2, GroundingOfCopies
<1>4. \A r \in {Labels, {Title} \cup Entities} :
        Utilization(g.nodes, [reviewer \in {"r1", "r2"} |-> r])
          = Utilization(nodes, [reviewer \in {"r1", "r2"} |-> r])
  BY <1>2, UtilizationOfCopies
<1>5. QED
  BY <1>2, <1>3, <1>4, DigestOfCopies, ShownOfCopies, EntityOfCopies
  DEF ExportKeepsAnswers, EdgesWithin, g

\* What is reported of a graph is one account: the stored counts, the briefing's
\* statistics and the tool's overview and coverage add up, a claim is unsupported or has
\* evidence, and a graph that was exported and imported answers as it did.
THEOREM ReportsAreOneAccount == Spec => []ReportsAgree
<1>1. ASSUME GraphInv, FiniteGraph, CountsAreCurrent PROVE ReportsAgree
  <2>1. TypeOK /\ Unique(nodes) /\ OneNodePerLabel /\ EdgesAnchored /\ IsFiniteSet(nodes)
    BY <1>1 DEF GraphInv, Sound, Unique, OneNodePerLabel, Anchored, EdgesAnchored, FiniteGraph
  <2>2. IsFiniteSet(edges)
    BY <2>1, EdgesAreFinite
  <2>3. QED
    BY <1>1, <2>1, <2>2, StatisticsAddUp, CopiesAnswerAlike DEF ReportsAgree
<1>2. QED
  BY <1>1, GraphAlways, GraphIsFinite, StoredCountsAreCurrent, PTL
=============================================================================
