---------------------------- MODULE PacketReviews ----------------------------
(***************************************************************************)
(* Reviews of packet folders (run_packet_reviews and                       *)
(* _run_one_packet_review of apps/paper_review/api.py): which packets are  *)
(* skipped as complete, where a packet's graph comes from, and the files   *)
(* that write_review_artifacts (apps/paper_review/export.py) leaves.       *)
(*                                                                         *)
(* A review suspends while its panel works.  The artifacts are then        *)
(* written in one go, file by file and in place: the process may die in    *)
(* the middle of any of them, and filling in the offline form fails when   *)
(* the review lacks an assessment.  The panel is that of ReviewDesk, the   *)
(* session's life that of SessionTasks.                                    *)
(***************************************************************************)
EXTENDS Naturals, Sequences, Functions

CONSTANTS Packets,   \* the folders, in the order they are reviewed in
          OwnGraph,  \* packets that hold a graph of their own
          Library,   \* packets for which a saved graph's title matches
          Requests,  \* packet-review requests that can be at work at a time
          MaxReviews \* bound on the reviews begun

ASSUME PacketAssumption ==
  /\ Packets \in Seq(Range(Packets)) /\ OwnGraph \cup Library \subseteq Range(Packets)
  /\ MaxReviews \in Nat

\* The files of a review in the order they are written; the manifest comes
\* after the form it says is there.  "graph" is imported_graph.json, "reviews"
\* the independent reviews, the transcript and the meta-review.
Files == <<"graph", "reviews", "form", "final", "manifest">>
Position(f) == CHOOSE i \in DOMAIN Files : Files[i] = f
Folders == {"main", "run"}   \* protoneo_outputs, and a run_id below it

VARIABLES file,     \* who wrote a file last, and whether it is torn
          request,  \* the requests at work
          review,   \* the reviews begun: folder and status of their session
          rewritten \* history: folders that were written to when complete

packetVars == <<file, request, review, rewritten>>

Absent == [by |-> 0, torn |-> FALSE]
Idle == [pc |-> "idle"]

PacketsInit ==
  /\ file = [pd \in Range(Packets) \X Folders |-> [i \in DOMAIN Files |-> Absent]]
  /\ request = [q \in Requests |-> Idle]
  /\ review = <<>> /\ rewritten = {}

There(p, d, f) == file[<<p, d>>][Position(f)].by # 0
Torn(p, d, f) == file[<<p, d>>][Position(f)].torn

-----------------------------------------------------------------------------
\* A readable manifest, which says completed, beside an offline review.
Complete(p, d) ==
  There(p, d, "manifest") /\ ~Torn(p, d, "manifest") /\ There(p, d, "form")

\* A packet's own graph, the graph of its last review, or one of the library.
GraphOf(p) ==
  IF p \in OwnGraph THEN "own"
  ELSE IF There(p, "main", "graph") THEN "written"
  ELSE IF p \in Library THEN "library" ELSE "missing"

StartPacketReview(q) ==
  /\ request[q].pc = "idle"
  /\ \E force \in BOOLEAN, d \in Folders :
       request' = [request EXCEPT ![q] =
                     [pc |-> "next", force |-> force, folder |-> d, todo |-> Packets, at |-> 0]]
  /\ UNCHANGED <<file, review, rewritten>>

Passed(q) == [request[q] EXCEPT !.pc = "next", !.todo = Tail(@), !.at = 0]

\* The next packet: skipped when complete, unless the run is forced or has a
\* folder of its own; left when it has no graph, or one that cannot be read;
\* else its panel begins.
NextPacket(q) ==
  /\ request[q].pc = "next" /\ request[q].todo # <<>>
  /\ LET p == Head(request[q].todo)
         d == request[q].folder
         skipped == ~request[q].force /\ d = "main" /\ Complete(p, d)
         failed == GraphOf(p) = "missing" \/ (GraphOf(p) = "written" /\ Torn(p, "main", "graph"))
     IN  IF skipped \/ failed
         THEN request' = [request EXCEPT ![q] = Passed(q)] /\ UNCHANGED review
         ELSE /\ Len(review) < MaxReviews
              /\ review' = Append(review, [packet |-> p, folder |-> d, status |-> "running"])
              /\ request' = [request EXCEPT ![q].pc = "reviewing", ![q].at = Len(review')]
  /\ UNCHANGED <<file, rewritten>>

EndPackets(q) ==
  /\ request[q].pc = "next" /\ request[q].todo = <<>>
  /\ request' = [request EXCEPT ![q] = Idle]
  /\ UNCHANGED <<file, review, rewritten>>

Reviewing == {q \in Requests : request[q].pc = "reviewing"}

\* The panel fails or is cancelled: the packet counts as failed.
FailPacket(q, status) ==
  /\ q \in Reviewing
  /\ review' = [review EXCEPT ![request[q].at].status = status]
  /\ request' = [request EXCEPT ![q] = Passed(q)]
  /\ UNCHANGED <<file, rewritten>>

WrittenManifestFirst(p, d, r, n, cut) ==   \* (mutant: the manifest is not the last file)
  /\ file' = [file EXCEPT ![<<p, d>>] =
       [i \in DOMAIN Files |-> IF i <= n \/ (i = Len(Files) /\ n > 0) THEN [by |-> r, torn |-> i = n /\ cut] ELSE @[i]]]
  /\ rewritten' = IF Complete(p, d) /\ n > 0 THEN rewritten \cup {<<p, d>>} ELSE rewritten

\* Review r has written the first n files, the last of them perhaps in part.
Written(p, d, r, n, cut) ==
  /\ file' = [file EXCEPT ![<<p, d>>] =
       [i \in DOMAIN Files |-> IF i <= n THEN [by |-> r, torn |-> i = n /\ cut] ELSE @[i]]]
  /\ rewritten' = IF Complete(p, d) /\ n > 0 THEN rewritten \cup {<<p, d>>} ELSE rewritten

\* The panel has ended: all files are written, or those before the form when
\* it cannot be filled in, and the session is completed, or failed.
WriteArtifacts(q, assessed) ==
  /\ q \in Reviewing
  /\ LET r == request[q].at
         n == IF assessed THEN Len(Files) ELSE Position("form") - 1
     IN  /\ Written(review[r].packet, review[r].folder, r, n, FALSE)
         /\ review' = [review EXCEPT ![r].status = IF assessed THEN "completed" ELSE "failed"]
  /\ request' = [request EXCEPT ![q] = Passed(q)]

Restarted ==
  /\ request' = [q \in Requests |-> Idle]
  /\ review' = [r \in DOMAIN review |->
                  IF review[r].status = "running" THEN [review[r] EXCEPT !.status = "stopped"]
                  ELSE review[r]]

\* The process dies while a panel works, or while the artifacts are written.
CrashPackets ==
  /\ \E q \in Requests : request[q].pc # "idle"
  /\ Restarted /\ UNCHANGED <<file, rewritten>>

CrashWriting(q) ==
  /\ q \in Reviewing
  /\ Restarted
  /\ LET r == request[q].at
     IN  \E n \in DOMAIN Files, cut \in BOOLEAN :
           Written(review[r].packet, review[r].folder, r, n, cut)

PacketsNext ==
  \/ \E q \in Requests :
       \/ StartPacketReview(q) \/ NextPacket(q) \/ EndPackets(q) \/ CrashWriting(q)
       \/ \E status \in {"failed", "stopped"} : FailPacket(q, status)
       \/ \E assessed \in BOOLEAN : WriteArtifacts(q, assessed)
  \/ CrashPackets

PacketsSpec == PacketsInit /\ [][PacketsNext]_packetVars

-----------------------------------------------------------------------------
(* Properties. *)

\* What the next run skips as complete is whole: every file is there, and all
\* are one review's and untorn unless the packet was reviewed again when it was
\* complete already; and a completed session left its files, or a later review
\* wrote over them.
PacketsAreWhole ==
  /\ \A p \in Range(Packets), d \in Folders :
       LET f == file[<<p, d>>]
       IN  Complete(p, d) =>
             /\ \A i \in DOMAIN Files : f[i].by # 0
             /\ <<p, d>> \notin rewritten =>
                  \A i \in DOMAIN Files : f[i].by = f[1].by /\ ~f[i].torn
  /\ \A r \in DOMAIN review : review[r].status = "completed" =>
       LET f == file[<<review[r].packet, review[r].folder>>]
       IN  /\ \A i \in DOMAIN Files : f[i].by # 0
           /\ r \in {f[i].by : i \in DOMAIN Files} \/ <<review[r].packet, review[r].folder>> \in rewritten
=============================================================================
