----------------------------- MODULE MCKnowledge -----------------------------
(* KnowledgeGraph on papers of one section, figure and equation, and models *)
(* that name three entities, the title, the section and the equation, and   *)
(* relate them by structural relations too.                                 *)
EXTENDS ReviewContext, TLC

CaptionOf == [f \in Figures |-> "figure 1: caption"]

Paper(sections, mentioned, images, formulas) ==
  [sections |-> sections, mentioned |-> mentioned, numbered |-> {},
   images |-> images, formulas |-> formulas]

SomePapers ==
  {Paper({"method"}, {"figure 1"}, "figure 1" :> "described", "equation 1" :> "plain"),
   Paper({}, {}, "figure 1" :> "plain", <<>>)}

SomeContributions == {{}, {"a", "b"}, {"a", "title"}}

Typed == {"a" :> "Claim" @@ "b" :> "Result" @@ "c" :> "Method", "b" :> "Reference" @@ "c" :> "Concept",
          "equation 1" :> "Method", "title" :> "Concept" @@ "c" :> "Section"}
Related == {{<<"a", "b", "CONTAINS">>, <<"b", "c", "USES">>},
            {<<"c", "title", "HAS_SECTION">>, <<"a", "a", "USES">>}}
SomeExtractions == [section : {"method"}, types : Typed, relations : Related]

OneMerge ==
  {[keep |-> k, remove |-> r] : k \in {"a", "c", "title"}, r \in {{"a"}, {"title"}, {"method"}, {"b", "c"}}}
SomeMerges ==
  {<<>>} \cup {<<m>> : m \in OneMerge}
    \cup {<<p[1], p[2]>> : p \in {q \in OneMerge \X OneMerge : q[1].keep # q[2].keep}}
SomeAliases == {{}, {<<"a", "c">>}}

Missing(section, type) == [section |-> section, type |-> type]
SomeAudits ==
  [connections : {{}, {<<"a", "method", "APPEARS_IN">>, <<"c", "c", "USES">>, <<"b", "a", "HAS_ARTIFACT">>}},
   missing : {<<>>, "c" :> Missing("method", "Figure") @@ "d" :> Missing("", "Method")},
   doubts : {<<>>, "a" :> 0 @@ "equation 1" :> 9, "b" :> 2 @@ "title" :> 1}]

Listed(id, name, type) == [uuid |-> id, name |-> name, type |-> type, grounding |-> "none"]
SomeFiles ==
  [nodes : {{Listed(<<"a", "file">>, "a", "Concept"), Listed(<<"b", "file">>, "a", "Method"),
             Listed(<<"method", "file">>, "method", "Section")} \cup root
              : root \in SUBSET {Listed(Root, "title", "Paper")}},
   edges : {{<<<<"a", "file">>, Root, "USES">>, <<<<"b", "file">>, <<"method", "file">>, "APPEARS_IN">>}}]
=============================================================================
