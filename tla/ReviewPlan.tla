----------------------------- MODULE ReviewPlan -----------------------------
(***************************************************************************)
(* Who reviews a paper and with which models: how a request's model map,   *)
(* the active preset and the active models become the plan of a session    *)
(* (resolve_paper_review_model, build_agent_configs and                    *)
(* build_deliberation_config of apps/paper_review/review.py), the          *)
(* readiness check, and what uploads, launches, retries and the pipeline   *)
(* do with the plan while the user goes on changing the settings.          *)
(*                                                                         *)
(* None of these operations suspends between reading the settings and      *)
(* writing the plan, so each is one action.  Rounds, prompts and sampling  *)
(* parameters are left out, models are members of a small set with the     *)
(* attributes that routing reads.                                          *)
(***************************************************************************)
EXTENDS Naturals, Sequences, Functions

CONSTANTS Panel, Optional, \* the venue's reviewers, and those on request
          ProviderOrder,   \* a sequence, in the order of preference
          LocalProviders,  \* the ids of endpoints
          Routes,          \* the models, each with the provider it is called at
          Thinking, Quick, \* models that reason; models measured as fast
          Unsupported,     \* models of the catalogue that reviews cannot call
          Presets,         \* assignments of presets that may be active
          Maps,            \* model maps a request may hold
          MaxSettings, MaxPlans  \* bounds

Unassigned == "no model"      \* the code's empty string
Null == "null"                \* an explicit null: the role is disabled

ASSUME PlanAssumption ==
  /\ "meta" \notin Panel \cup Optional
  /\ ProviderOrder \in Seq(Range(ProviderOrder)) /\ LocalProviders \subseteq Range(ProviderOrder)
  /\ \A m \in DOMAIN Routes : Routes[m] \in Range(ProviderOrder)
  /\ {Null, Unassigned} \cap DOMAIN Routes = {}
  /\ {MaxSettings, MaxPlans} \subseteq Nat

VARIABLES routing,  \* the settings that routing reads
          plan,     \* what the session's config says, and how far it is
          asked,    \* history: the map the session's agents were built from
          loose,    \* history: agents were replaced and the panel was not
          changed, planned  \* counters for the bounds

planVars == <<routing, plan, asked, loose, changed, planned>>

Steps == {"ontology", "extraction", "coref", "verification"}
RoleNames == Panel \cup Optional \cup {"meta", "meta_reviewer"} \cup Steps

NoPlan == [status |-> "none"]
NoPanel == {}                  \* a config without deliberation phases

\* An entry of a model map or of a preset that names a model.
Names(map, key) == key \in DOMAIN map /\ map[key] \notin {Null, Unassigned}

-----------------------------------------------------------------------------
(* Resolving one model. *)

IsLocal(m) == Routes[m] \in LocalProviders
On(s, m) == Routes[m] \in s.on

\* The score of evaluate_model_for_policy, for a graph step and for a review.
Score(m, graph) ==
  IF graph
  THEN IF m \in Thinking THEN IF m \in Quick THEN 20 ELSE 0
       ELSE 130 + IF m \in Quick THEN 20 ELSE 5
  ELSE IF m \in Thinking THEN 32 ELSE 0

\* May a candidate be taken?  Only a last resort lets a graph step reason.
Suits(s, m, graph, last) ==
  On(s, m) /\ (graph => IsLocal(m)) /\ (graph /\ m \in Thinking => last)

\* The candidate with the best score; of equal ones the first.
Best(s, candidates, graph, last) ==
  LET ok == {i \in DOMAIN candidates : Suits(s, candidates[i], graph, last)}
      worth(i) == 100 * Score(candidates[i], graph)
  IN  IF ok = {} THEN Unassigned
      ELSE candidates[CHOOSE i \in ok : \A j \in ok :
             worth(i) > worth(j) \/ (worth(i) = worth(j) /\ i <= j)]

\* The models in use, at their places in the order of preference.
ActiveModels(s, graph) ==
  LET model(i) == s.active[ProviderOrder[i]]
  IN  [i \in {i \in DOMAIN ProviderOrder :
                /\ model(i) # Unassigned /\ On(s, model(i))
                /\ graph => IsLocal(model(i))} |-> model(i)]

\* The first of some keys under which a map names a model.
FirstNamed(map, keys) ==
  CHOOSE i \in DOMAIN keys :
    Names(map, keys[i]) /\ \A j \in DOMAIN keys : Names(map, keys[j]) => i <= j

\* The model for a role or a step: the request's own choice, whatever it is;
\* else the preset's, the best one in use, or any that can run at all.
Resolved(s, map, keys, graph) ==
  LET presets == [i \in {i \in DOMAIN keys : Names(s.preset, keys[i])} |-> s.preset[keys[i]]]
      active == ActiveModels(s, graph)
      n == Len(ProviderOrder)
      every == [i \in DOMAIN active \cup {n + j : j \in DOMAIN presets} |->
                  IF i <= n THEN active[i] ELSE presets[i - n]]
      choices == <<Best(s, presets, graph, FALSE), Best(s, active, graph, FALSE)>>
  IN  IF \E i \in DOMAIN keys : Names(map, keys[i]) THEN map[keys[FirstNamed(map, keys)]]
      ELSE IF choices[1] # Unassigned THEN choices[1]
      ELSE IF DOMAIN active = {} THEN Unassigned
      ELSE IF choices[2] # Unassigned THEN choices[2]
      ELSE Best(s, every, graph, TRUE)

\* The graph's models never leave the house unless the request says so; a
\* choice for the ontology, or for the graph, is one for every step.
GraphModels(s, map) ==
  [step \in Steps |-> Resolved(s, map, <<step, "ontology", "graph">>, TRUE)]

WithGraphModels(map, graph) ==
  [k \in DOMAIN map \cup DOMAIN graph |->
     IF k \in DOMAIN graph THEN graph[k] ELSE map[k]]

-----------------------------------------------------------------------------
(* The panel. *)

\* An omitted role is the venue's, a null disables one, an optional reviewer
\* is asked for by name.
Roster(map) ==
  {r \in Panel : r \in DOMAIN map => map[r] # Null}
    \cup {r \in Optional : Names(map, r)}

Refused(map) ==
  Roster(map) = {} \/ \E k \in {"meta", "meta_reviewer"} : k \in DOMAIN map /\ map[k] = Null

\* The model of each agent; one without any takes the technical reviewer's.
PanelAgents(s, map) ==
  LET model(r) == IF Names(map, r) THEN map[r]
                  ELSE IF r \in Roster(map) THEN Resolved(s, map, <<r>>, FALSE)
                  ELSE Unassigned
      meta == IF Names(map, "meta_reviewer") THEN map["meta_reviewer"]
              ELSE Resolved(s, map, <<"meta", "meta_reviewer">>, FALSE)
      instead(m) == IF m = Unassigned THEN model("technical") ELSE m
  IN  [a \in Roster(map) \cup {"meta"} |-> instead(IF a = "meta" THEN meta ELSE model(a))]

\* What readiness asks of a model: chosen, enabled, supported, connected.
Ready(s, m) ==
  /\ m # Unassigned /\ On(s, m) /\ m \notin Unsupported
  /\ IsLocal(m) \/ s.connected

ReadyAll(s, agents) == \A a \in DOMAIN agents : Ready(s, agents[a])

-----------------------------------------------------------------------------
\* Each provider has a model in use or none.
Assignments ==
  {active \in [Range(ProviderOrder) -> DOMAIN Routes \cup {Unassigned}] :
     \A p \in Range(ProviderOrder) : active[p] = Unassigned \/ Routes[active[p]] = p}

PlanInit ==
  /\ \E preset \in Presets, connected \in BOOLEAN, active \in Assignments :
       routing = [on |-> Range(ProviderOrder), active |-> active,
                  preset |-> preset, connected |-> connected]
  /\ plan = NoPlan /\ asked = [k \in {} |-> Null] /\ loose = FALSE
  /\ changed = 0 /\ planned = 0

\* The user changes the settings, logs in or out (ModelProviders).
ChangeSettings ==
  /\ changed < MaxSettings /\ changed' = changed + 1
  /\ \/ \E p \in Range(ProviderOrder) :
          \/ routing' = [routing EXCEPT !.on = IF p \in @ THEN @ \ {p} ELSE @ \cup {p}]
          \/ \E m \in {m \in DOMAIN Routes : Routes[m] = p} \cup {Unassigned} :
               routing' = [routing EXCEPT !.active[p] = m]
     \/ \E preset \in Presets : routing' = [routing EXCEPT !.preset = preset]
     \/ routing' = [routing EXCEPT !.connected = ~@]
  /\ UNCHANGED <<plan, asked, loose, planned>>

\* An upload is refused with nothing created unless every model it needs is
\* ready: the graph's, and the agents' unless only a graph is asked for.  The
\* models found for the graph become part of the session's map.
Upload(map, graphOnly, skipGraph) ==
  /\ plan = NoPlan /\ ~Refused(map) /\ ~(graphOnly /\ skipGraph)
  /\ LET agents == PanelAgents(routing, map)
         graph == IF skipGraph THEN [k \in {} |-> Null] ELSE GraphModels(routing, map)
     IN  /\ ReadyAll(routing, graph) /\ (graphOnly \/ ReadyAll(routing, agents))
         /\ plan' = [status |-> "running", agents |-> agents,
                     map |-> WithGraphModels(map, graph),
                     panel |-> IF graphOnly THEN NoPanel ELSE Roster(map),
                     graphOnly |-> graphOnly, skip |-> skipGraph,
                     graph |-> FALSE, review |-> FALSE]
  /\ asked' = map
  /\ UNCHANGED <<routing, loose, changed, planned>>

\* The pipeline resolves the graph's models again, from the session's map.
RunGraph ==
  /\ plan.status = "running" /\ ~plan.review /\ ~plan.skip
  /\ plan' = [plan EXCEPT
       !.map = WithGraphModels(@, GraphModels(routing, @)), !.graph = TRUE,
       !.status = IF plan.graphOnly THEN "completed" ELSE "reviewing"]
  /\ UNCHANGED <<routing, asked, loose, changed, planned>>

\* A review without a graph of its own making: skipped, or launched on one.
SkipGraph ==
  /\ plan.status = "running" /\ (plan.review \/ plan.skip)
  /\ plan' = [plan EXCEPT !.status = "reviewing", !.graph = TRUE]
  /\ UNCHANGED <<routing, asked, loose, changed, planned>>

\* What validate_config asks of the agents of a panel.
Valid == plan.panel # NoPanel /\ plan.panel \subseteq DOMAIN plan.agents

\* The panel meets; one that names an unknown agent fails at once.
EndReview(status) ==
  /\ plan.status = "reviewing"
  /\ status = "completed" => Valid
  /\ plan' = [plan EXCEPT !.status = status]
  /\ UNCHANGED <<routing, asked, loose, changed, planned>>

\* Or it fails, perhaps after the first steps have saved a graph.
FailGraph ==
  /\ plan.status = "running"
  /\ \E saved \in BOOLEAN :
       plan' = [plan EXCEPT !.status = "failed", !.graph = @ \/ saved]
  /\ UNCHANGED <<routing, asked, loose, changed, planned>>

\* A retry runs on with the saved agents, map and panel, and checks nothing;
\* a launched review starts at the review.
Retry ==
  /\ plan.status = "failed" /\ planned < MaxPlans /\ planned' = planned + 1
  /\ plan' = [plan EXCEPT !.status = "running"]
  /\ UNCHANGED <<routing, asked, loose, changed>>

LaunchKeepingPanel(map, other, live) ==   \* (mutant: a new map leaves the panel as it was)
  /\ plan.status \in {"completed", "failed"} /\ plan.graph
  /\ planned < MaxPlans /\ planned' = planned + 1
  /\ LET rebuilt == DOMAIN map # {} \/ other # "nothing"
         agents == IF rebuilt THEN PanelAgents(routing, map) ELSE plan.agents
         panel == IF plan.panel = NoPanel \/ other = "venue"
                  THEN DOMAIN agents \ {"meta"} ELSE plan.panel
         ready == ReadyAll(routing, agents)
     IN  /\ rebuilt => ~Refused(map)
         /\ plan' = IF ready
                    THEN [plan EXCEPT !.agents = agents, !.panel = panel,
                            !.review = TRUE, !.status = IF live THEN "running" ELSE @]
                    ELSE [plan EXCEPT !.agents = agents]
         /\ asked' = IF rebuilt THEN map ELSE asked
         /\ loose' = IF ready /\ (DOMAIN map # {} \/ other = "venue") THEN FALSE
                     ELSE loose \/ rebuilt
  /\ UNCHANGED <<routing, changed>>

\* launch-review on a session that has a graph.  Any override rebuilds the
\* agents, from the map it names or from none at all, and they are saved
\* before readiness may refuse them; the panel is rebuilt, and saved, only
\* after that, for a new map or venue and for a session without one.
\* A launch that is not live stops there.
LaunchPanel(map, other, live) ==
  /\ plan.status \in {"completed", "failed"} /\ plan.graph
  /\ planned < MaxPlans /\ planned' = planned + 1
  /\ LET rebuilt == DOMAIN map # {} \/ other # "nothing"
         agents == IF rebuilt THEN PanelAgents(routing, map) ELSE plan.agents
         panel == IF plan.panel = NoPanel \/ DOMAIN map # {} \/ other = "venue"
                  THEN DOMAIN agents \ {"meta"} ELSE plan.panel
         ready == ReadyAll(routing, agents)
     IN  /\ rebuilt => ~Refused(map)
         /\ plan' = IF ready
                    THEN [plan EXCEPT !.agents = agents, !.panel = panel,
                            !.review = TRUE, !.status = IF live THEN "running" ELSE @]
                    ELSE [plan EXCEPT !.agents = agents]
         /\ asked' = IF rebuilt THEN map ELSE asked
         /\ loose' = IF ready /\ (DOMAIN map # {} \/ other = "venue") THEN FALSE
                     ELSE loose \/ rebuilt
  /\ UNCHANGED <<routing, changed>>

PlanNext ==
  \/ ChangeSettings \/ RunGraph \/ SkipGraph \/ FailGraph \/ Retry
  \/ \E map \in Maps, graphOnly, skipGraph \in BOOLEAN : Upload(map, graphOnly, skipGraph)
  \/ \E map \in Maps, other \in {"nothing", "instructions", "venue"}, live \in BOOLEAN :
       LaunchPanel(map, other, live)
  \/ \E status \in {"completed", "failed"} : EndReview(status)

PlanSpec == PlanInit /\ [][PlanNext]_planVars

-----------------------------------------------------------------------------
(* Properties. *)

\* What a map asks for an agent; the UI's name for the meta-reviewer wins.
Wish(map, agent) ==
  LET key == IF agent = "meta" /\ Names(map, "meta_reviewer") THEN "meta_reviewer" ELSE agent
  IN  IF Names(map, key) THEN map[key] ELSE Unassigned

\* Whatever is set, retried or launched meanwhile: an agent has the model its
\* user asked for, no graph step calls a model outside the house that he did
\* not ask for, a step keeps its model for the life of the session, and the
\* panel that meets is the agents but the meta-reviewer, unless the agents were
\* replaced by a launch that was refused, or that gave no map and no venue.
PlanIsHonoured ==
  plan'.status # "none" =>
    /\ \A r \in DOMAIN plan'.agents :
         Wish(asked', r) # Unassigned => plan'.agents[r] = Wish(asked', r)
    /\ \A step \in Steps : Names(plan'.map, step) =>
         \/ IsLocal(plan'.map[step])
         \/ plan = NoPlan /\ \E k \in DOMAIN asked' : asked'[k] = plan'.map[step]
         \/ plan # NoPlan /\ plan.map = plan'.map
    /\ plan # NoPlan /\ ~plan.skip => plan.map = plan'.map
    /\ plan'.panel = NoPanel \/ loose' \/ plan'.panel = DOMAIN plan'.agents \ {"meta"}

PlanHonoured == [][PlanIsHonoured]_planVars
=============================================================================
