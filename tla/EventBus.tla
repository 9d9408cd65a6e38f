------------------------------ MODULE EventBus ------------------------------
(***************************************************************************)
(* protoneo.api.events.SessionEventBus and the WebSocket that streams it   *)
(* (protoneo.api.routes): a bounded history, the bounded tail of what each *)
(* agent is saying, and one bounded queue per subscriber that drops its    *)
(* oldest event when full.                                                 *)
(*                                                                         *)
(* Emitting, subscribing and resetting never suspend, so each is part of   *)
(* the action that does it.  A socket suspends on its queue, and once more *)
(* while it sends the result of a completed session, before it subscribes. *)
(* An event is its type, the agent it is about and the emissions it tells  *)
(* of: its own position in the log of its bus, or, for the joined tail a   *)
(* late subscriber gets, the positions of all the chunks in it.  The log   *)
(* and what a socket has heard are kept for the properties only.           *)
(***************************************************************************)
EXTENDS Naturals, FiniteSets, SequencesExt

CONSTANTS Agents, Sockets,
          HistoryLimit, QueueLimit, TailLimit, \* maxlen of the three deques
          MaxEvents, MaxBuses                  \* bounds

ASSUME BusAssumption ==
  /\ {HistoryLimit, QueueLimit, TailLimit, MaxBuses} \subseteq Nat \ {0}
  /\ MaxEvents \in Nat
  /\ IsFiniteSet(Agents) /\ Cardinality(Agents) < QueueLimit

VARIABLES buses,    \* history and streams of every bus ever made
          log,      \* what was emitted on each of them since its last reset
          cur,      \* the bus registered for the session, 0 when there is none
          status,   \* the session's status
          live,     \* the bus of the task that runs, 0 when none does
          speaking, \* agents between their start and their end
          sock      \* the connections

busVars == <<buses, log, cur, status, live, speaking, sock>>

Nobody == "nobody"
Terminal == {"completed", "error", "pipeline_cancelled"}
Turn == {"agent_start", "agent_done"}

EmptyBus == [history |-> <<>>, streams |-> [a \in Agents |-> <<>>]]

\* The bus registered for the session, or the one made on the spot.
Bus == IF cur = 0 THEN Len(log) + 1 ELSE cur
Registered(seq, new) == IF Bus > Len(seq) THEN Append(seq, new) ELSE seq

Emitted == FoldSeq(LAMBDA l, n : Len(l) + n, 0, log)
Offline == [pc |-> "off", bus |-> 0, queue |-> <<>>, heard |-> <<>>, lost |-> FALSE]

BusInit ==
  /\ buses = <<>> /\ log = <<>> /\ cur = 0 /\ live = 0
  /\ status \in {"created", "completed", "failed", "stopped"} /\ speaking = {}
  /\ sock = [s \in Sockets |-> Offline]

-----------------------------------------------------------------------------
(* The bus. *)

\* The last n elements: what a deque of that length keeps.
Newest(n, seq) == IF Len(seq) > n THEN SubSeq(seq, Len(seq) - n + 1, Len(seq)) ELSE seq

\* A socket's queue takes an event; a full one drops its oldest first.
Enqueue(k, event) ==
  [k EXCEPT !.queue = Append(Newest(QueueLimit - 1, @), event),
            !.lost = @ \/ Len(k.queue) >= QueueLimit]

Subscribed(k, b) == k.pc \in {"open", "gone"} /\ k.bus = b

\* What emit does to the history and the streams.
Recorded(bus, event) ==
  [history |-> IF event.type = "token" THEN bus.history
               ELSE Newest(HistoryLimit, Append(bus.history, event)),
   streams |-> [a \in Agents |->
                  IF event.type \in Terminal THEN <<>>
                  ELSE IF event.agent # a THEN bus.streams[a]
                  ELSE IF event.type = "token"
                  THEN Newest(TailLimit, bus.streams[a] \o event.ids)
                  ELSE IF event.type \in Turn THEN <<>> ELSE bus.streams[a]]]

\* emit on bus b: recorded, then put into every subscriber's queue.
Emit(b, type, agent) ==
  LET event == [type |-> type, agent |-> agent, ids |-> <<Len(log[b]) + 1>>]
  IN  /\ Emitted < MaxEvents
      /\ log' = [log EXCEPT ![b] = Append(@, event)]
      /\ buses' = [buses EXCEPT ![b] = Recorded(@, event)]
      /\ sock' = [s \in Sockets |-> IF Subscribed(sock[s], b)
                                    THEN Enqueue(sock[s], event) ELSE sock[s]]

\* reset: history, streams and queues are emptied, then session_reset is
\* emitted.  The log goes on: positions name an emission for good.
Reset(b) ==
  LET logs == Registered(log, <<>>)
      event == [type |-> "session_reset", agent |-> Nobody, ids |-> <<Len(logs[b]) + 1>>]
  IN  /\ Emitted < MaxEvents /\ Len(logs) <= MaxBuses
      /\ log' = [logs EXCEPT ![b] = Append(@, event)]
      /\ buses' = [Registered(buses, EmptyBus) EXCEPT ![b] = Recorded(EmptyBus, event)]
      /\ sock' = [s \in Sockets |->
                    IF Subscribed(sock[s], b)
                    THEN [Enqueue([sock[s] EXCEPT !.queue = <<>>], event)
                            EXCEPT !.lost = FALSE]
                    ELSE sock[s]]

\* A queue into which these events are put, one after the other.
Filled(k, events) ==
  LET filled[n \in 0 .. Len(events)] ==
        IF n = 0 THEN k ELSE Enqueue(filled[n - 1], events[n])
  IN  filled[Len(events)]

\* The agents that are speaking, and one event for the tail of each.
Speakers(bus) == SetToSeq({a \in Agents : bus.streams[a] # <<>>})
Joined(bus) ==
  [i \in DOMAIN Speakers(bus) |->
     [type |-> "token", agent |-> Speakers(bus)[i], ids |-> bus.streams[Speakers(bus)[i]]]]

SubscribeTailsFirst(k, b, bus) ==   \* (mutant: the streams are replayed before the history)
  Filled([k EXCEPT !.pc = "open", !.bus = b], Joined(bus) \o bus.history)

\* A queue filled with the history and then with one event per open stream.
Subscribe(k, b, bus) ==
  Filled([k EXCEPT !.pc = "open", !.bus = b], bus.history \o Joined(bus))

-----------------------------------------------------------------------------
(* The task of the session. *)

\* launch, retry and rebuild: the session's bus is reset.
Launch ==
  /\ live = 0 /\ status # "running"
  /\ Reset(Bus)
  /\ status' = "running" /\ cur' = Bus /\ live' = Bus /\ speaking' = {}

\* POST start: a new bus is registered, whether or not the configuration is
\* then found valid; who listens to the old one is not told.
StartSession(valid) ==
  /\ live = 0 /\ status # "running" /\ Len(log) < MaxBuses
  /\ buses' = Append(buses, EmptyBus) /\ log' = Append(log, <<>>)
  /\ cur' = Len(log) + 1 /\ speaking' = {}
  /\ IF valid THEN status' = "running" /\ live' = cur' ELSE UNCHANGED <<status, live>>
  /\ UNCHANGED sock

\* "start" over a socket: the run's events go to the bus of that socket.
StartOverSocket(s) ==
  /\ sock[s].pc = "open" /\ live = 0 /\ status \notin {"running", "completed"}
  /\ Reset(sock[s].bus)
  /\ status' = "running" /\ live' = sock[s].bus /\ speaking' = {}
  /\ UNCHANGED cur

\* A turn starts (again, after a retry), streams and ends.
Speak(a, type) ==
  /\ live # 0 /\ status = "running"
  /\ type # "agent_start" => a \in speaking
  /\ Emit(live, type, a)
  /\ speaking' = CASE type = "agent_start" -> speaking \cup {a}
                   [] type = "agent_done" -> speaking \ {a}
                   [] OTHER -> speaking
  /\ UNCHANGED <<cur, status, live>>

\* Any other event: steps and stages of a run, refinements and chat after it.
Tell ==
  /\ \E b \in {live, cur} \ {0} : Emit(b, "step", Nobody)
  /\ UNCHANGED <<cur, status, live, speaking>>

\* The task ends by itself; agents may still be speaking when it fails.
Finish(type) ==
  /\ live # 0 /\ status = "running"
  /\ type = "completed" => speaking = {}
  /\ Emit(live, type, Nobody)
  /\ status' = IF type = "completed" THEN "completed" ELSE "failed"
  /\ live' = 0 /\ speaking' = {}
  /\ UNCHANGED cur

\* pipeline/cancel stops the session and says so on the registered bus...
Cancel ==
  /\ status # "stopped"
  /\ IF cur = 0 THEN UNCHANGED <<buses, log, sock>>
     ELSE Emit(cur, "pipeline_cancelled", Nobody)
  /\ status' = "stopped" /\ speaking' = {}
  /\ UNCHANGED <<cur, live>>

\* ...and the cancelled task says so on its own when it ends.
CancelledTold ==
  /\ live # 0 /\ status = "stopped"
  /\ Emit(live, "pipeline_cancelled", Nobody)
  /\ live' = 0
  /\ UNCHANGED <<cur, status, speaking>>

-----------------------------------------------------------------------------
(* The sockets. *)

\* A failed session without a bus is answered with its error and closed; else
\* a bus is made if there is none.  The result of a completed session is sent
\* before the socket subscribes to the bus it found.
Connect(s) ==
  /\ sock[s].pc = "off"
  /\ cur = 0 => status # "failed"
  /\ Bus <= MaxBuses
  /\ cur' = Bus
  /\ buses' = Registered(buses, EmptyBus) /\ log' = Registered(log, <<>>)
  /\ sock' = [sock EXCEPT ![s] =
                IF status = "completed" THEN [@ EXCEPT !.pc = "greeting", !.bus = Bus]
                ELSE Subscribe(@, Bus, buses'[Bus])]
  /\ UNCHANGED <<status, live, speaking>>

Greet(s) ==
  /\ sock[s].pc = "greeting"
  /\ sock' = [sock EXCEPT ![s] = Subscribe(@, @.bus, buses[@.bus])]
  /\ UNCHANGED <<buses, log, cur, status, live, speaking>>

\* The next event is sent; after an error the connection is closed.
Deliver(s) ==
  /\ sock[s].pc = "open" /\ sock[s].queue # <<>>
  /\ LET k == sock[s]
         event == Head(k.queue)
     IN  sock' = [sock EXCEPT ![s] =
           IF event.type = "error" THEN [Offline EXCEPT !.pc = "closed"]
           ELSE [k EXCEPT !.queue = Tail(@), !.heard = Append(@, event)]]
  /\ UNCHANGED <<buses, log, cur, status, live, speaking>>

\* The client leaves: a last event wakes the loop up...
ClientGone(s) ==
  /\ sock[s].pc = "open"
  /\ sock' = [sock EXCEPT ![s] =
       [Enqueue(sock[s], [type |-> "_disconnected", agent |-> Nobody, ids |-> <<>>])
          EXCEPT !.pc = "gone"]]
  /\ UNCHANGED <<buses, log, cur, status, live, speaking>>

\* ...which unsubscribes at that event, or when sending another one fails.
Unsubscribe(s) ==
  /\ sock[s].pc = "gone" /\ sock[s].queue # <<>>
  /\ sock' = [sock EXCEPT ![s] = [Offline EXCEPT !.pc = "closed"]]
  /\ UNCHANGED <<buses, log, cur, status, live, speaking>>

BusNext ==
  \/ Launch \/ Tell \/ Cancel \/ CancelledTold
  \/ \E valid \in BOOLEAN : StartSession(valid)
  \/ \E a \in Agents, type \in Turn \cup {"token"} : Speak(a, type)
  \/ \E type \in {"completed", "error"} : Finish(type)
  \/ \E s \in Sockets :
       \/ StartOverSocket(s) \/ Connect(s) \/ Greet(s) \/ Deliver(s)
       \/ ClientGone(s) \/ Unsubscribe(s)

BusSpec == BusInit /\ [][BusNext]_busVars

-----------------------------------------------------------------------------
(* Properties. *)

\* What a client shows after hearing these events: the events since the last
\* reset that are no tokens, and what each speaking agent has said so far.
Nothing == [told |-> <<>>, text |-> [a \in Agents |-> <<>>]]

Heard(picture, event) ==
  IF event.type = "session_reset" THEN [Nothing EXCEPT !.told = event.ids]
  ELSE [told |-> IF event.type = "token" THEN picture.told ELSE picture.told \o event.ids,
        text |-> [a \in Agents |->
                    IF event.type \in Terminal \/ (event.type \in Turn /\ event.agent = a)
                    THEN <<>>
                    ELSE IF event.type = "token" /\ event.agent = a
                    THEN picture.text[a] \o event.ids ELSE picture.text[a]]]

Picture(events) ==
  LET shown[n \in 0 .. Len(events)] ==
        IF n = 0 THEN Nothing ELSE Heard(shown[n - 1], events[n])
  IN  shown[Len(events)]

\* Whenever it connected, and whatever it has not yet been sent, an open
\* socket that lost nothing to a full queue shows what its bus told since the
\* last reset: every event, or the newest HistoryLimit at least, in order and
\* once, and of each speaking agent the end of what it is saying, TailLimit
\* chunks of it at least.  One that did lose events has the newest all the same.
Delivery ==
  \A s \in Sockets : sock[s].pc = "open" =>
    LET all == sock[s].heard \o sock[s].queue
        mine == Picture(all)
        true == Picture(log[sock[s].bus])
    IN  IF sock[s].lost
        THEN \E i \in DOMAIN all : Len(log[sock[s].bus]) \in Range(all[i].ids)
        ELSE /\ IsSuffix(mine.told, true.told)
             /\ Len(mine.told) >= Len(Newest(HistoryLimit, true.told))
             /\ \A a \in Agents :
                  /\ IsSuffix(mine.text[a], true.text[a])
                  /\ Len(mine.text[a]) >= Len(Newest(TailLimit, true.text[a]))
=============================================================================
