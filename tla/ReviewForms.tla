---------------------------- MODULE ReviewForms ----------------------------
(***************************************************************************)
(* The structured final review of apps/paper_review: how a review document *)
(* is normalised and how a proposed patch is filtered and merged.          *)
(*                                                                         *)
(* A review maps the keys below to values; Empty stands for a missing or a *)
(* falsy rating, which the code's `or` chains do not tell apart.  A rating *)
(* is reduced to its score, the prose of the review to the set of the text *)
(* edits it holds, and each family of fields to one member: overall_merit  *)
(* and final_recommendation fill each other, recommended_action falls back *)
(* to them, technical_soundness has an alias of its own.                   *)
(***************************************************************************)
EXTENDS Naturals, FiniteSets

Empty == 0                        \* no rating
NoReview == [none |-> TRUE]       \* no review at all

Ratings == {"overall_merit", "final_recommendation", "recommended_action",
            "technical_soundness", "soundness"}
Keys == Ratings \cup {"comments", "final_review"}

\* Decision fields a patch may touch only on request; aliases are not among them.
ProtectedFields == Ratings \ {"soundness"}

\* The review with these ratings and this prose, and nothing nested in it.
Review(ratings, prose) ==
  [k \in Keys |-> IF k = "comments" THEN prose
                  ELSE IF k = "final_review" THEN NoReview
                  ELSE IF k \in DOMAIN ratings THEN ratings[k] ELSE Empty]

\* The first rating of a chain of fallbacks that is present.
First(a, b, c) == IF a # Empty THEN a ELSE IF b # Empty THEN b ELSE c

\* A payload that wraps the review under "final_review" is unwrapped; only
\* final_recommendation is also looked up in the wrapper.
Normalized(payload) ==
  LET source == IF payload["final_review"] = NoReview THEN payload
                ELSE payload["final_review"]
      outer == payload["final_recommendation"]
  IN  [k \in Keys |->
         CASE k = "overall_merit" ->
                First(source[k], source["final_recommendation"], outer)
           [] k = "final_recommendation" ->
                First(source[k], outer, source["overall_merit"])
           [] k = "recommended_action" ->
                First(source[k], source["overall_merit"], outer)
           [] k = "technical_soundness" ->
                First(source[k], source["soundness"], Empty)
           [] k = "final_review" -> NoReview
           [] OTHER -> source[k]]

\* Coercion of the normalised fields, and the last mutual copy of the merit
\* and the recommendation.
Sanitized(payload) ==
  LET review == Normalized(payload)
  IN  [review EXCEPT
         !["overall_merit"] =
            First(@, review["final_recommendation"], Empty),
         !["final_recommendation"] =
            First(@, review["overall_merit"], Empty)]

\* What remains of a patch of the PC chair: without an explicit request the
\* entries of decision fields are held back.
Filtered(patch, requested) ==
  IF requested THEN patch
  ELSE [k \in DOMAIN patch \ ProtectedFields |-> patch[k]]

Merged(base, patch) ==
  [k \in Keys |-> IF k \in DOMAIN patch THEN patch[k] ELSE base[k]]

\* What update-final-review accepts: both ratings present must agree.
MeritAgrees(review) ==
  \/ Empty \in {review["overall_merit"], review["final_recommendation"]}
  \/ review["overall_merit"] = review["final_recommendation"]
=============================================================================
