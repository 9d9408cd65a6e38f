----------------------------- MODULE MCServices -----------------------------
(***************************************************************************)
(* The application services, one at a time: a behaviour is one of a single *)
(* part, chosen at the start, while the others rest in an initial state.   *)
(* The parts share no variable, so nothing is lost by not interleaving     *)
(* them; what one part takes from another is in its own constants.         *)
(***************************************************************************)
EXTENDS ReviewDesk, EventBus, ModelProviders, ModelAccess, Batches,
        PacketReviews, ReviewPlan, OntologyDiscovery, TLC

CONSTANT Parts
VARIABLE part

vars == <<part, deskVars, busVars, providerVars, accessVars, batchVars, packetVars, planVars,
          ontologyVars>>

\* Of the parts that rest, one initial state is as good as another.
Init ==
  /\ part \in Parts
  /\ DeskInit /\ BusInit /\ ProvidersInit /\ AccessInit /\ BatchInit /\ PacketsInit /\ PlanInit
  /\ OntologyInit
  /\ part # "bus" => status = "created"
  /\ part # "providers" => settings.on = [e \in Endpoints |-> "on"]
  /\ part # "access" => account = "key"
  /\ part # "plan" => /\ ~routing.connected /\ DOMAIN routing.preset = {}
                      /\ Range(routing.active) = {Unassigned}

Desk == part = "desk" /\ DeskNext
        /\ UNCHANGED <<part, busVars, providerVars, accessVars, batchVars,
                      packetVars, planVars, ontologyVars>>
EventStream == part = "bus" /\ BusNext
        /\ UNCHANGED <<part, deskVars, providerVars, accessVars, batchVars,
                      packetVars, planVars, ontologyVars>>
LLMProviders == part = "providers" /\ ProvidersNext
        /\ UNCHANGED <<part, deskVars, busVars, accessVars, batchVars,
                      packetVars, planVars, ontologyVars>>
Access == part = "access" /\ AccessNext
        /\ UNCHANGED <<part, deskVars, busVars, providerVars, batchVars,
                      packetVars, planVars, ontologyVars>>
Batch == part = "batch" /\ BatchNext
        /\ UNCHANGED <<part, deskVars, busVars, providerVars, accessVars,
                      packetVars, planVars, ontologyVars>>
PacketFolders == part = "packets" /\ PacketsNext
        /\ UNCHANGED <<part, deskVars, busVars, providerVars, accessVars,
                      batchVars, planVars, ontologyVars>>
Planning == part = "plan" /\ PlanNext
        /\ UNCHANGED <<part, deskVars, busVars, providerVars, accessVars,
                      batchVars, packetVars, ontologyVars>>
Ontologies == part = "ontology" /\ OntologyNext
        /\ UNCHANGED <<part, deskVars, busVars, providerVars, accessVars, batchVars,
                      packetVars, planVars>>

Next == Desk \/ EventStream \/ LLMProviders \/ Access \/ Batch \/ PacketFolders \/ Planning
        \/ Ontologies
Spec == Init /\ [][Next]_vars

-----------------------------------------------------------------------------
(* Instances. *)

Symmetry == Permutations(Tabs)

\* A nested review, beside an alias that is then not read; no merit, so that the
\* ratings fill each other in only when somebody sets one.
SomeSyntheses ==
  {[Review([soundness |-> 1], {}) EXCEPT
      !["final_review"] = Review([technical_soundness |-> 2], {})]}
NotAssessed == {[recommended_action |-> Empty]}
SomeRatings == {[overall_merit |-> 2], [soundness |-> 2]}
SomeReviews == {Review([final_recommendation |-> 1], {})}

TwoPapers == <<"p1", "p2">>
ThreePackets == <<"k1", "k2", "k3">>

Venue == {"technical", "skeptic"}
ByPreference == <<"lan-mini", "openai">>
SomeRoutes == [l1 |-> "lan-mini", l2 |-> "lan-mini", c1 |-> "openai"]
NoMap == [k \in {} |-> Null]
SomePresets == {NoMap, [technical |-> "l2", ontology |-> "c1"]}
SomeMaps ==
  {NoMap, [artifact |-> "c1", ontology |-> "c1"], [skeptic |-> Null, meta_reviewer |-> "l2"],
   [meta |-> "c1", meta_reviewer |-> "l1"],
   [technical |-> Null, skeptic |-> Null], [meta |-> Null]}

\* "Tool" and "tool" are one type, named twice in the second sample.
Spellings ==
  [Method |-> "method", Paper |-> "paper", Tool |-> "tool", tool |-> "tool",
   Node |-> "node", USES |-> "USES", HAS |-> "HAS"]
SomeReplies ==
  {[types |-> <<"Method", "Tool">>, edges |-> <<"USES">>],
   [types |-> <<"tool", "Node", "Tool">>, edges |-> <<"HAS", "USES">>],
   [types |-> <<"Node">>, edges |-> <<>>]}
BaseTypes == [types |-> <<"Method", "Paper">>, edges |-> <<"HAS">>]
SeedTypes == <<"Node", "Method">>
=============================================================================
