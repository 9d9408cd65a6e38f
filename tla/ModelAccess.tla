----------------------------- MODULE ModelAccess -----------------------------
(***************************************************************************)
(* The model calls of one session and what they cost: LLMClient.complete   *)
(* and stream (protoneo.llm.client) with their retries, the direct call    *)
(* with a subscription token, the refusal of an answer by another model    *)
(* than the one asked for, and the total that the engine keeps in the      *)
(* session's result (protoneo.deliberation.engine).                        *)
(*                                                                         *)
(* A call suspends while a key is resolved, while it waits for the server  *)
(* and between attempts; its caller may cancel it at any of these places.  *)
(* Usage is counted in units of cost.  Prompts, answers and the parameters *)
(* of a request are left out.                                              *)
(***************************************************************************)
EXTENDS Naturals, FiniteSets

CONSTANTS Calls,       \* calls that can be open at a time
          MaxAttempts, \* _MAX_RETRIES
          MaxUsage, MaxCalls  \* bounds

ASSUME AccessAssumption ==
  /\ IsFiniteSet(Calls) /\ MaxAttempts \in Nat \ {0} /\ MaxUsage \in Nat /\ MaxCalls \in Nat

VARIABLES call,     \* the open calls
          account,  \* what resolving the provider's key yields now
          cost,     \* the session's cost in the client's memory
          stored,   \* the stored result: its total_cost, and its turns' usage
          engine,   \* the deliberation's run: what it counts from
          billed,   \* history: what the servers have delivered
          spent,    \* history: usage of the turns the result builds on
          made      \* calls made, for the bound

accessVars == <<call, account, cost, stored, engine, billed, spent, made>>

NoCall == [pc |-> "idle", turn |-> FALSE]
NoResult == [total |-> 0, spent |-> 0]
NoEngine == [on |-> FALSE, prior |-> 0, start |-> 0]
Accounts == {"token", "key", "none"}   \* "token": a subscription's JWT
Greater(a, b) == IF a > b THEN a ELSE b

AccessInit ==
  /\ call = [c \in Calls |-> NoCall]
  /\ account \in Accounts
  /\ cost = 0 /\ stored = NoResult /\ billed = 0 /\ spent = 0 /\ made = 0
  /\ engine = NoEngine

\* The call ends; what it costs is charged if it names the session, and the
\* usage its caller is told of counts as spent if it is a turn.
Ended(c, charge, told) ==
  /\ call' = [call EXCEPT ![c] = NoCall]
  /\ cost' = IF call[c].session THEN cost + charge ELSE cost
  /\ spent' = IF call[c].turn THEN spent + told ELSE spent

Moved(c, pc) == call' = [call EXCEPT ![c].pc = pc] /\ UNCHANGED <<cost, spent>>

-----------------------------------------------------------------------------
(* Calls. *)

\* complete or stream; a model with an api_base is local.  Turns of a run and
\* the chair name the session, the pings before a run do not.
Call(c, kind) ==
  /\ call[c].pc = "idle" /\ made < MaxCalls
  /\ made' = made + 1
  /\ \E local, session \in BOOLEAN, turn \in {FALSE, engine.on} :
       /\ turn => session
       /\ call' = [call EXCEPT ![c] =
            [pc |-> "resolving", kind |-> kind, local |-> local, session |-> session,
             turn |-> turn, attempt |-> 1, used |-> 0, reported |-> 0]]
  /\ UNCHANGED <<account, cost, stored, engine, billed, spent>>

\* A subscription's token takes the direct way, unless the model is local.
ResolveKey(c) ==
  /\ call[c].pc = "resolving"
  /\ Moved(c, IF account = "token" /\ ~call[c].local THEN "direct" ELSE "building")
  /\ UNCHANGED <<account, stored, engine, billed, made>>

\* The direct call has one attempt and no cost, streamed or not.
Direct(c) ==
  /\ call[c].pc = "direct"
  /\ Ended(c, 0, 0)
  /\ UNCHANGED <<account, stored, engine, billed, made>>

\* A prompt that leaves no room in the context is refused before the key is
\* resolved again and the request is sent.
Build(c) ==
  /\ call[c].pc = "building"
  /\ Ended(c, 0, 0) \/ Moved(c, "asking")
  /\ UNCHANGED <<account, stored, engine, billed, made>>

\* The server refuses, or cannot be reached.  A transient refusal of a
\* complete is waited out while there are attempts left, anything else raised.
Refuse(c, transient) ==
  /\ call[c].pc = "asking"
  /\ IF transient /\ call[c].kind = "complete" /\ call[c].attempt < MaxAttempts
     THEN Moved(c, "waiting") ELSE Ended(c, 0, 0)
  /\ UNCHANGED <<account, stored, engine, billed, made>>

\* The back-off of the attempt is over.
TryAgain(c) ==
  /\ call[c].pc = "waiting"
  /\ call' = [call EXCEPT ![c].pc = "asking", ![c].attempt = @ + 1]
  /\ UNCHANGED <<account, cost, stored, engine, billed, spent, made>>

\* The answer: of another model than the configured one it is refused, with
\* nothing charged; otherwise its usage is charged once.
AnswerCall(c, right) ==
  /\ call[c].pc = "asking" /\ call[c].kind = "complete"
  /\ right \/ call[c].local
  /\ \E u \in 0 .. MaxUsage :
       /\ billed' = billed + u
       /\ IF right THEN Ended(c, u, u) ELSE Ended(c, 0, 0)
  /\ UNCHANGED <<account, stored, engine, made>>

OpenStream(c) ==
  /\ call[c].pc = "asking" /\ call[c].kind = "stream"
  /\ Moved(c, "streaming")
  /\ UNCHANGED <<account, stored, engine, billed, made>>

\* The server goes on generating...
Generate(c) ==
  /\ call[c].pc = "streaming" /\ call[c].used < MaxUsage
  /\ call' = [call EXCEPT ![c].used = @ + 1]
  /\ billed' = billed + 1
  /\ UNCHANGED <<account, cost, stored, engine, spent, made>>

ReportCharged(c) ==   \* (mutant: every report is charged)
  /\ call[c].pc = "streaming" /\ call[c].reported < call[c].used
  /\ call' = [call EXCEPT ![c].reported = call[c].used]
  /\ cost' = IF call[c].session THEN cost + call[c].used ELSE cost
  /\ UNCHANGED <<account, stored, engine, billed, spent, made>>

\* ...and reports what was used so far, more than once if it likes.
ReportUsage(c) ==
  /\ call[c].pc = "streaming" /\ call[c].reported < call[c].used
  /\ call' = [call EXCEPT ![c].reported = call[c].used]
  /\ UNCHANGED <<account, cost, stored, engine, billed, spent, made>>

\* The stream ends, breaks off, or is that of another model, seen in its first
\* chunk: the last report is charged.
EndStream(c) ==
  /\ call[c].pc = "streaming"
  /\ \/ Ended(c, call[c].reported, call[c].reported)
     \/ Ended(c, call[c].reported, 0)
  /\ UNCHANGED <<account, stored, engine, billed, made>>

\* The caller is cancelled or times out.  A request that was sent may be
\* billed; a stream is charged with what it last reported.
Abandon(c) ==
  /\ call[c].pc # "idle"
  /\ Ended(c, call[c].reported, 0)
  /\ \E u \in IF call[c].pc = "asking" THEN {0, MaxUsage} ELSE {0} : billed' = billed + u
  /\ UNCHANGED <<account, stored, engine, made>>

\* The user logs in or out, or sets a key; a refresh fails or succeeds.
Relogin ==
  /\ account' \in Accounts \ {account}
  /\ UNCHANGED <<call, cost, stored, engine, billed, spent, made>>

-----------------------------------------------------------------------------
(* The engine's account of a deliberation. *)

\* A run starts afresh, the last result cleared or not, or goes on from it.
BeginRun(resume) ==
  /\ ~engine.on
  /\ engine' = [on |-> TRUE, start |-> cost,
                prior |-> IF resume THEN Greater(stored.total, cost) ELSE cost]
  /\ spent' = IF resume THEN stored.spent ELSE 0
  /\ stored' = stored \/ (~resume /\ stored' = NoResult)
  /\ UNCHANGED <<call, account, cost, billed, made>>

\* After a phase, and however the run ends: then its turns have ended.
Persist(last) ==
  /\ engine.on
  /\ last => \A c \in Calls : ~call[c].turn
  /\ stored' = [total |-> engine.prior + cost - engine.start, spent |-> spent]
  /\ engine' = IF last THEN NoEngine ELSE engine
  /\ UNCHANGED <<call, account, cost, billed, spent, made>>

\* The process dies: the costs in memory are gone, the stored result is not.
RestartServer ==
  /\ engine.on \/ cost > 0
  /\ call' = [c \in Calls |-> NoCall] /\ cost' = 0 /\ engine' = NoEngine
  /\ spent' = stored.spent
  /\ UNCHANGED <<account, stored, billed, made>>

AccessNext ==
  \/ \E c \in Calls :
       \/ \E kind \in {"complete", "stream"} : Call(c, kind)
       \/ ResolveKey(c) \/ Direct(c) \/ Build(c) \/ TryAgain(c) \/ OpenStream(c)
       \/ \E transient \in BOOLEAN : Refuse(c, transient)
       \/ \E right \in BOOLEAN : AnswerCall(c, right)
       \/ Generate(c) \/ ReportUsage(c) \/ EndStream(c) \/ Abandon(c)
  \/ Relogin \/ RestartServer
  \/ \E resume \in BOOLEAN : BeginRun(resume)
  \/ \E last \in BOOLEAN : Persist(last)

AccessSpec == AccessInit /\ [][AccessNext]_accessVars

-----------------------------------------------------------------------------
(* Properties. *)

\* What is shown as the cost of a session was delivered by a server, counted
\* once, whatever was retried, refused, cancelled or streamed; and what a run
\* stores covers every turn its result builds on, also those of the runs it
\* resumed, before and after a restart.
CostsAddUp ==
  /\ cost <= billed /\ stored.total \in stored.spent .. billed
  /\ engine.on => engine.prior + cost - engine.start \in spent .. billed
=============================================================================
