----------------------------- MODULE ReviewDesk -----------------------------
(***************************************************************************)
(* One finished (or rerun) panel review and everybody who writes to its    *)
(* session: the pipeline that searches the web, deliberates and stores the *)
(* synthesis (apps/paper_review/pipeline.py), the editors that save the    *)
(* final review, the PC chair whose answer takes a model call, the exports *)
(* and the cancel, retry and launch endpoints (apps/paper_review/api.py).  *)
(*                                                                         *)
(* A session is one file, read and written whole.  Between a read and its  *)
(* write only a model call or a network call suspends, so every endpoint   *)
(* is one action except the chair (Ask, Answer) and the run (BeginSearch,  *)
(* EndSearch, Synthesize).  A retry beside a run that still ends is the    *)
(* subject of SessionTasks; here a new run waits for the old one.          *)
(***************************************************************************)
EXTENDS ReviewForms, Sequences

CONSTANTS Tabs,        \* browser tabs that show the review
          Scores,      \* ratings of the venue's scale
          Syntheses,   \* payloads the meta-reviewer may produce
          FormRatings, \* ratings a user may choose beside the merit, or take back
          ChairRatings,\* rating patches the chair may propose
          Wrappings,   \* reviews the chair may nest under "final_review"
          SearchOn,    \* review_web_search_enabled()
          MaxEdits, MaxRuns, MaxAsks  \* bounds

VARIABLES session,     \* the stored session
          run,         \* the pipeline task
          tab,         \* what each tab edits and what it waits for
          edits,       \* edits made so far in the tabs, patches applied included
          unwrapped,   \* history: the stored review was nested when it was sent
          runs, asks   \* runs started and questions asked, for the bounds

deskVars == <<session, run, tab, edits, unwrapped, runs, asks>>

NoAsk == [asking |-> FALSE]
Edits == 1 .. MaxEdits + MaxAsks

Wraps(p) == p["final_review"] # NoReview

IsForm(p) ==
  /\ p = [k \in Keys |-> p[k]]
  /\ \A k \in Ratings : p[k] \in Scores \cup {Empty}
  /\ p["comments"] \subseteq Edits

\* A review as it is stored wraps no other; a payload or a draft may wrap one.
IsReview(r) == IsForm(r) /\ ~Wraps(r)
IsPayload(p) == IsForm(p) /\ (Wraps(p) => IsReview(p["final_review"]))

ASSUME DeskAssumption ==
  /\ Scores \subseteq Nat \ {Empty} /\ SearchOn \in BOOLEAN
  /\ MaxEdits \in Nat /\ MaxRuns \in Nat /\ MaxAsks \in Nat
  /\ \A p \in Syntheses : IsPayload(p)
  /\ \A p \in FormRatings :
       DOMAIN p \subseteq Ratings /\ \A k \in DOMAIN p : p[k] \in Scores \cup {Empty}
  /\ \A p \in ChairRatings : DOMAIN p \subseteq Ratings /\ \A k \in DOMAIN p : p[k] \in Scores
  /\ \A r \in Wrappings : IsReview(r)

Prose(review) == IF review = NoReview THEN {} ELSE review["comments"]

StoredBesidePacket(s, review) ==   \* (mutant: the cached packet is kept)
  [s EXCEPT !.result = review, !.copy = review]

\* The three places of a session that hold the review, written together.
Stored(s, review) ==
  [s EXCEPT !.result = review, !.copy = review, !.packet = NoReview]

DeskInit ==
  /\ session = [status |-> "created", result |-> NoReview, copy |-> NoReview,
                packet |-> NoReview, web |-> FALSE, turns |-> <<>>]
  /\ run = [pc |-> "idle", read |-> NoReview]
  /\ tab = [t \in Tabs |-> [draft |-> NoReview, dirty |-> FALSE, ask |-> NoAsk]]
  /\ unwrapped = FALSE
  /\ edits = 0 /\ runs = 0 /\ asks = 0

-----------------------------------------------------------------------------
(* The run. *)

\* A fresh review of the graph: what the last one left is cleared.
LaunchReview ==
  /\ run.pc = "idle" /\ session.status # "running" /\ runs < MaxRuns
  /\ session' = [Stored(session, NoReview) EXCEPT !.status = "running"]
  /\ run' = [run EXCEPT !.pc = "started"]
  /\ runs' = runs + 1 /\ unwrapped' = FALSE
  /\ UNCHANGED <<tab, edits, asks>>

\* A stopped or failed session goes on; its result, if any, stays.
RetrySession ==
  /\ run.pc = "idle" /\ session.status \in {"failed", "stopped"} /\ runs < MaxRuns
  /\ session' = [session EXCEPT !.status = "running"]
  /\ run' = [run EXCEPT !.pc = "started"]
  /\ runs' = runs + 1
  /\ UNCHANGED <<tab, edits, unwrapped, asks>>

\* A search saved with a result is used again, without suspending; otherwise
\* the session is read before the network is asked.
BeginSearch ==
  /\ run.pc = "started"
  /\ run' = IF ~SearchOn \/ (session.result # NoReview /\ session.web)
            THEN [run EXCEPT !.pc = "engine"]
            ELSE [pc |-> "search", read |-> session]
  /\ UNCHANGED <<session, tab, edits, unwrapped, runs, asks>>

\* The session that was read is written back, with the search in it.
EndSearch ==
  /\ run.pc = "search"
  /\ session' = [run.read EXCEPT !.web = TRUE]
  /\ run' = [pc |-> "engine", read |-> NoReview]
  /\ UNCHANGED <<tab, edits, unwrapped, runs, asks>>

\* The engine's answer is stored, parsed and completed without suspending.
\* The synthesis is sanitised when parsed and again after the graph guardrail.
Synthesize ==
  /\ run.pc = "engine"
  /\ \E payload \in Syntheses :
       session' = [Stored(session, Sanitized(Sanitized(payload)))
                     EXCEPT !.status = "completed"]
  /\ run' = [run EXCEPT !.pc = "idle"]
  /\ unwrapped' = FALSE
  /\ UNCHANGED <<tab, edits, runs, asks>>

\* An exception of the pipeline.
FailRun ==
  /\ run.pc \in {"started", "search", "engine"}
  /\ session' = [session EXCEPT !.status = "failed"]
  /\ run' = [pc |-> "idle", read |-> NoReview]
  /\ UNCHANGED <<tab, edits, unwrapped, runs, asks>>

\* A cancel stops any session, a completed one too, and cancels a live task.
CancelPipeline ==
  /\ session.status # "stopped" \/ run.pc \notin {"idle", "cancelled"}
  /\ session' = [session EXCEPT !.status = "stopped"]
  /\ run' = IF run.pc = "idle" THEN run ELSE [pc |-> "cancelled", read |-> NoReview]
  /\ UNCHANGED <<tab, edits, unwrapped, runs, asks>>

\* The cancelled task's handler.
EndCancelled ==
  /\ run.pc = "cancelled"
  /\ session' = [session EXCEPT !.status = "stopped"]
  /\ run' = [run EXCEPT !.pc = "idle"]
  /\ UNCHANGED <<tab, edits, unwrapped, runs, asks>>

\* The server restarts: tasks and open requests are gone, a running session
\* is marked stopped.
Restart ==
  /\ run.pc # "idle" \/ \E t \in Tabs : tab[t].ask # NoAsk
  /\ session' = IF session.status = "running"
                THEN [session EXCEPT !.status = "stopped"] ELSE session
  /\ run' = [pc |-> "idle", read |-> NoReview]
  /\ tab' = [t \in Tabs |-> [tab[t] EXCEPT !.ask = NoAsk]]
  /\ UNCHANGED <<edits, unwrapped, runs, asks>>

-----------------------------------------------------------------------------
(* Editors. *)

\* A tab loads the stored review; edits that were not saved are not replaced.
Open(t) ==
  /\ session.status = "completed" /\ session.result # NoReview /\ ~tab[t].dirty
  /\ tab' = [tab EXCEPT ![t].draft = session.result]
  /\ UNCHANGED <<session, run, edits, unwrapped, runs, asks>>

\* What a tab shows is changed and not yet saved.
Edited(t, draft) == tab' = [tab EXCEPT ![t].draft = draft, ![t].dirty = TRUE]

\* The user edits the draft: he writes into its prose ...
EditText(t) ==
  /\ tab[t].draft # NoReview /\ edits < MaxEdits
  /\ edits' = edits + 1
  /\ Edited(t, [tab[t].draft EXCEPT !["comments"] = @ \cup {edits + 1}])
  /\ UNCHANGED <<session, run, unwrapped, runs, asks>>

\* ... sets the overall merit, which is the recommendation too and takes the
\* recommended action back ...
EditScore(t) ==
  /\ tab[t].draft # NoReview /\ edits < MaxEdits
  /\ edits' = edits + 1
  /\ \E s \in Scores :
       Edited(t, [tab[t].draft EXCEPT !["overall_merit"] = s,
                                      !["final_recommendation"] = s,
                                      !["recommended_action"] = Empty])
  /\ UNCHANGED <<session, run, unwrapped, runs, asks>>

\* ... or chooses another rating of the form, or none.
EditRating(t) ==
  /\ tab[t].draft # NoReview /\ edits < MaxEdits
  /\ edits' = edits + 1
  /\ \E p \in FormRatings : Edited(t, Merged(tab[t].draft, p))
  /\ UNCHANGED <<session, run, unwrapped, runs, asks>>

\* A patch of any turn of the chair is merged into the draft, as it is.
ApplyPatch(t) ==
  /\ tab[t].draft # NoReview /\ edits < MaxEdits
  /\ edits' = edits + 1
  /\ \E n \in DOMAIN session.turns :
       /\ DOMAIN session.turns[n] # {}
       /\ Edited(t, Merged(tab[t].draft, session.turns[n]))
  /\ UNCHANGED <<session, run, unwrapped, runs, asks>>

\* update-final-review: a draft whose merit and recommendation disagree is
\* refused, another replaces the stored review.  The tab loads what was stored,
\* unless it is edited before the answer comes.  (A clean draft is saved too:
\* the chair's panel offers it after a patch that was saved in the editor.)
UpdateFinalReview(t) ==
  /\ session.result # NoReview /\ tab[t].draft # NoReview
  /\ LET review == Sanitized(tab[t].draft)
     IN  /\ MeritAgrees(review)
         /\ session' = Stored(session, review)
         /\ unwrapped' = Wraps(tab[t].draft)
         /\ \/ tab' = [tab EXCEPT ![t].draft = review, ![t].dirty = FALSE]
            \/ UNCHANGED tab
  /\ UNCHANGED <<run, edits, runs, asks>>

-----------------------------------------------------------------------------
(* The PC chair. *)

\* The question goes to the model with the tab's draft, or with the stored
\* review when the tab sends none; the stored review is remembered.
Ask(t) ==
  /\ session.result # NoReview /\ tab[t].ask = NoAsk /\ asks < MaxAsks
  /\ \E requested, apply \in BOOLEAN :
       tab' = [tab EXCEPT ![t].ask =
                 [asking |-> TRUE, requested |-> requested, apply |-> apply,
                  base |-> Sanitized(IF tab[t].draft = NoReview
                                     THEN session.result ELSE tab[t].draft),
                  original |-> session.result]]
  /\ asks' = asks + 1
  /\ UNCHANGED <<session, run, edits, unwrapped, runs>>

\* What the chair may propose for a review: ratings, the prose with one more
\* text, a whole review under "final_review", or nothing.
NoPatch == [k \in {} |-> Empty]
Proposals(base) ==
  ChairRatings
    \cup {[comments |-> base["comments"] \cup {MaxEdits + asks}], NoPatch}
    \cup {[final_review |-> r] : r \in Wrappings}

\* The session after a turn: the patch is in the chair's history, and in the
\* review when it is applied.
Turned(s, patch) == [s EXCEPT !.turns = Append(@, patch)]

AnswerUnread(t) ==   \* (mutant: the session is not read again)
  /\ tab[t].ask # NoAsk
  /\ LET ask == tab[t].ask IN
       \E proposal \in Proposals(ask.base) :
         LET patch == Filtered(proposal, ask.requested)
             merged == Merged(ask.base, patch)
             applied == ask.apply /\ DOMAIN patch # {}
         IN  IF session.result = NoReview THEN UNCHANGED <<session, unwrapped>>
             ELSE IF applied
             THEN /\ session' = Stored(Turned(session, patch), Sanitized(merged))
                  /\ unwrapped' = Wraps(merged)
             ELSE session' = Turned(session, patch) /\ UNCHANGED unwrapped
  /\ tab' = [tab EXCEPT ![t].ask = NoAsk]
  /\ UNCHANGED <<run, edits, runs, asks>>

\* The stored session is read again; a patch is applied only to the review
\* the question was asked about, and the turn is kept either way.
Answer(t) ==
  /\ tab[t].ask # NoAsk
  /\ LET ask == tab[t].ask IN
       \E proposal \in Proposals(ask.base) :
         LET patch == Filtered(proposal, ask.requested)
             merged == Merged(ask.base, patch)
             applied == ask.apply /\ DOMAIN patch # {} /\ session.result = ask.original
         IN  IF session.result = NoReview THEN UNCHANGED <<session, unwrapped>>
             ELSE IF applied
             THEN /\ session' = Stored(Turned(session, patch), Sanitized(merged))
                  /\ unwrapped' = Wraps(merged)
             ELSE session' = Turned(session, patch) /\ UNCHANGED unwrapped
  /\ tab' = [tab EXCEPT ![t].ask = NoAsk]
  /\ UNCHANGED <<run, edits, runs, asks>>

\* The model call fails: nothing is written.
AnswerFails(t) ==
  /\ tab[t].ask # NoAsk
  /\ tab' = [tab EXCEPT ![t].ask = NoAsk]
  /\ UNCHANGED <<session, run, edits, unwrapped, runs, asks>>

-----------------------------------------------------------------------------
(* Exports. *)

\* The review as a packet shows it, sanitised once more.
Packet(review) == Sanitized(review)

\* The packet is rebuilt from the result on every request and cached.
GetReviewPacket ==
  /\ session.status = "completed" /\ session.result # NoReview
  /\ session' = [session EXCEPT !.packet = Packet(session.result)]
  /\ UNCHANGED <<run, tab, edits, unwrapped, runs, asks>>

DeskNext ==
  \/ LaunchReview \/ RetrySession \/ BeginSearch \/ EndSearch \/ Synthesize
  \/ FailRun \/ CancelPipeline \/ EndCancelled \/ Restart
  \/ \E t \in Tabs :
       \/ Open(t) \/ EditText(t) \/ EditScore(t) \/ EditRating(t)
       \/ ApplyPatch(t) \/ UpdateFinalReview(t)
       \/ Ask(t) \/ Answer(t) \/ AnswerFails(t)
  \/ GetReviewPacket

DeskSpec == DeskInit /\ [][DeskNext]_deskVars

-----------------------------------------------------------------------------
(* Properties. *)

\* Every review is typed, the stored ones and those in the tabs.
DeskTypeOK ==
  /\ session.status \in {"created", "running", "completed", "failed", "stopped"}
  /\ \A r \in {session.result, session.copy, session.packet} : r = NoReview \/ IsReview(r)
  /\ \A t \in Tabs : tab[t].draft = NoReview \/ IsPayload(tab[t].draft)
  /\ session.web \in BOOLEAN /\ unwrapped \in BOOLEAN
  /\ run.pc \in {"idle", "started", "search", "engine", "cancelled"}
  /\ edits \in 0 .. MaxEdits /\ runs \in 0 .. MaxRuns /\ asks \in 0 .. MaxAsks

\* What is shown of a stored review is the review, but for the recommended
\* action that a review may lack which was nested when it was sent.
Shows(shown, review) ==
  \A k \in Keys :
    \/ shown[k] = review[k]
    \/ unwrapped /\ k = "recommended_action" /\ review[k] = Empty

\* Whoever wrote last, the session holds one review: the copy that the
\* exports' clients read is the result, a cached packet is canonical and shows
\* the result, so does the packet that an export would make of it now, and a
\* cleared result leaves none of them behind.
OneReview ==
  /\ session.copy = session.result
  /\ session.packet # NoReview =>
       /\ session.result # NoReview /\ Shows(session.packet, session.result)
       /\ Packet(session.packet) = session.packet
  /\ session.result # NoReview => Shows(Packet(session.result), session.result)

\* The review is of the venue's scale whatever chain of payloads, drafts and
\* patches produced it, and a search once stored with a result is found again.
DeskSound ==
  /\ DeskTypeOK
  /\ OneReview
  /\ SearchOn /\ session.result # NoReview => session.web

\* A tab saves its draft.
Saves(t) ==
  /\ asks' = asks /\ run' = run /\ tab'[t].ask = tab[t].ask
  /\ tab[t].draft # NoReview /\ session'.result = Sanitized(tab[t].draft)

\* A saved text is lost only to a new run or its synthesis, to a tab that
\* saves a draft without it, or to the answer to a question that was asked with
\* a draft without it; and to a review that a draft or an answer nests, which
\* is then all that is stored.  An answer takes nothing that was saved while
\* the chair was responding, the web search that writes back the session it
\* read and the exports take nothing at all, and no turn of the chair is lost.
TextIsKept ==
  /\ \A n \in DOMAIN session.turns :
       n \in DOMAIN session'.turns /\ session'.turns[n] = session.turns[n]
  /\ \A e \in Prose(session.result) \ Prose(session'.result) :
       \/ session'.result = NoReview /\ run'.pc = "started"
       \/ run.pc = "engine" /\ session'.status = "completed"
       \/ \E t \in Tabs :
            IF tab[t].ask # tab'[t].ask
            THEN /\ session.result = tab[t].ask.original
                 /\ e \notin Prose(tab[t].ask.base) \/ unwrapped'
            ELSE Saves(t) /\ (e \notin Prose(tab[t].draft) \/ Wraps(tab[t].draft))
EditsSurvive == [][TextIsKept]_deskVars

\* A chair who was not asked to change a decision changes none: after the
\* answer every decision field is what the review it was shown had.
DecisionsHeld ==
  \A t \in Tabs :
    (tab[t].ask # NoAsk /\ tab'[t].ask = NoAsk
       /\ session'.result # session.result /\ ~tab[t].ask.requested)
    => \A k \in ProtectedFields : session'.result[k] = tab[t].ask.base[k]
DecisionsOnlyOnRequest == [][DecisionsHeld]_deskVars
=============================================================================
