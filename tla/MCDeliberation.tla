--------------------------- MODULE MCDeliberation ---------------------------
(* Two configurations of Deliberation: the paper review of                   *)
(* apps/paper_review/review.py (panel, discussion of two rounds, synthesis),  *)
(* and a larger panel with one discussant, who may be missing, and a chain.   *)
EXTENDS Deliberation

ReviewPhases == 1..3
ReviewMode == <<"parallel", "round_robin", "sequential">>
ReviewRoster == <<<<"a", "b">>, <<"a", "b">>, <<"meta">>>>
ReviewRounds == <<1, 2, 1>>
ReviewMinimum == <<1, 1, 1>>

PartialPhases == 1..3
PartialMode == <<"parallel", "round_robin", "sequential">>
PartialRoster == <<<<"c", "a", "b">>, <<"b">>, <<"b", "a">>>>
PartialRounds == <<1, 1, 1>>
PartialMinimum == <<2, 1, 1>>
=============================================================================
