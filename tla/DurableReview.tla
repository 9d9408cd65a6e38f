--------------------------- MODULE DurableReview ---------------------------
(***************************************************************************)
(* What the deliberation engine promises those who start, stop, retry and  *)
(* read a session, whatever agents, calls and crashes do in between: there *)
(* is one durable record, of one configuration; it gains the phases one at *)
(* a time, in order; a retry under the same configuration goes on from it; *)
(* and it, and the session, count as completed only when it is whole.      *)
(*                                                                         *)
(* Deliberation implements this specification: see Durable there.          *)
(***************************************************************************)
EXTENDS Naturals

CONSTANTS Configurations, NoConfiguration, Phases

VARIABLES kept,  \* the record: its configuration, its phases, is it completed?
          live,  \* the run: its configuration and the phases it has accomplished
          told   \* the session is shown as completed

vars == <<kept, live, told>>

NoRun == [config |-> NoConfiguration, done |-> {}]

Init ==
  /\ kept = [config |-> NoConfiguration, done |-> {}, whole |-> FALSE]
  /\ live = NoRun /\ told = FALSE

\* A run goes on from the record if it is asked to and may; the record itself
\* stays until the run has something of its own to write.
Begin(cfg, resume) ==
  /\ live = NoRun
  /\ live' = [config |-> cfg,
              done |-> IF resume /\ kept.config = cfg THEN kept.done ELSE {}]
  /\ told' = FALSE
  /\ UNCHANGED kept

\* The run writes how far it is.
Record(done, whole) ==
  kept' = [config |-> live.config, done |-> done, whole |-> whole]

Save ==
  /\ live # NoRun /\ Record(live.done, FALSE)
  /\ UNCHANGED <<live, told>>

\* The first phase that is missing has been held.
Advance(p) ==
  /\ live # NoRun /\ p \notin live.done
  /\ \A q \in Phases : q < p => q \in live.done
  /\ live' = [live EXCEPT !.done = @ \cup {p}]
  /\ Record(live'.done, FALSE)
  /\ UNCHANGED told

\* All of them have.
Complete ==
  /\ live # NoRun /\ live.done = Phases /\ Record(Phases, TRUE)
  /\ UNCHANGED <<live, told>>

\* The run ends or dies; only a run that completed the record may say so.
End ==
  /\ live # NoRun /\ live' = NoRun
  /\ told' \in {FALSE, kept.whole /\ kept.config = live.config}
  /\ UNCHANGED kept

Next ==
  \/ \E cfg \in Configurations, resume \in BOOLEAN : Begin(cfg, resume)
  \/ Save \/ Complete \/ End
  \/ \E p \in Phases : Advance(p)

Spec == Init /\ [][Next]_vars

\* A record, or a session, that counts as completed has every phase.
Whole == told \/ kept.whole => kept.done = Phases

\* Whole, strengthened to an inductive invariant: told outlives the run that set it,
\* but no write of another run.
WholeInv ==
  /\ kept.whole \in BOOLEAN
  /\ kept.whole => kept.done = Phases
  /\ told => live = NoRun /\ kept.whole
=============================================================================
