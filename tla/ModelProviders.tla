--------------------------- MODULE ModelProviders ---------------------------
(***************************************************************************)
(* Which models the server may call, and with which credentials: the       *)
(* settings file (protoneo.llm.settings), the endpoints that read it, wait *)
(* on the network and write it back (protoneo.api.routes: discovery, the   *)
(* benchmark, the discovery after a login), the registry that the client   *)
(* routes by, and the stored OAuth credentials (protoneo.llm.providers).   *)
(*                                                                         *)
(* Reading and writing the file never suspends; what lies between does     *)
(* when a server is probed, the benchmark runs, a code is exchanged or a   *)
(* token refreshed.  "openai" stands for the providers that are no local   *)
(* endpoints.  Presets, benchmark scores and parsing options are left out. *)
(***************************************************************************)
EXTENDS Naturals

CONSTANTS Endpoints,   \* ids of local and LAN servers
          Models,
          Probes,      \* requests that can be discovering at a time
          Refreshes,   \* calls that can be refreshing the token at a time
          MaxChoices, MaxLogins  \* bounds

Cloud == "openai"
Providers == Endpoints \cup {Cloud}
NoModel == "no model"
Unknown == {NoModel}   \* a provider that is not in the discovery cache

VARIABLES settings,  \* the file
          registry,  \* the settings the client's registry was built from
          probe,     \* the discoveries under way
          bench,     \* the benchmark, and the settings it read
          creds,     \* the stored login, 0 without one, and whether it is fresh
          refresh,   \* the login each refresh under way read
          server,    \* the callback server of a login
          pending,   \* the login the UI polls, and whether the server's
          paste,     \* a pasted code is being exchanged
          choices, logins  \* settings saved and logins made, for the bounds

providerVars == <<settings, registry, probe, bench, creds, refresh, server,
                  pending, paste, choices, logins>>
loginVars == <<creds, refresh, server, pending, paste, logins>>

NoProbe == [pc |-> "idle", cached |-> [p \in {} |-> {}], assign |-> FALSE]
NoBench == [pc |-> "idle"]

ProvidersInit ==
  /\ \E on \in [Endpoints -> {"on", "off"}] :
       settings = [on |-> on, active |-> [p \in Providers |-> NoModel],
                   known |-> [p \in Providers |-> Unknown]]
  /\ registry = settings
  /\ probe = [j \in Probes |-> NoProbe] /\ bench = NoBench
  /\ creds = [login |-> 0, fresh |-> FALSE] /\ refresh = [r \in Refreshes |-> 0]
  /\ server = "off" /\ pending = [status |-> "none", mine |-> FALSE]
  /\ paste = "off" /\ choices = 0 /\ logins = 0

\* save_settings, and the registry rebuilt from what was saved.
Saved(s) == settings' = s /\ registry' = s

-----------------------------------------------------------------------------
(* Settings. *)

\* PUT settings merges a patch: an endpoint is added, enabled or disabled, a
\* model chosen or cleared; nothing in a patch removes an endpoint.
PutSettings ==
  /\ choices < MaxChoices
  /\ \/ \E e \in Endpoints, on \in {"on", "off"} : Saved([settings EXCEPT !.on[e] = on])
     \/ \E p \in Providers, m \in Models \cup {NoModel} :
          Saved([settings EXCEPT !.active[p] = m])
  /\ choices' = choices + 1
  /\ UNCHANGED <<probe, bench, loginVars>>

\* Providers with a model in use: enabled, and with a model chosen.
Assigned ==
  {p \in Providers : settings.active[p] # NoModel
                     /\ (p \in Endpoints => settings.on[p] = "on")}

-----------------------------------------------------------------------------
(* Discovery. *)

\* What may be asked: enabled endpoints, and the cloud with a credential.
Probed(s, loggedIn) ==
  {e \in Endpoints : s.on[e] = "on"} \cup (IF loggedIn THEN {Cloud} ELSE {})

\* The answers of some providers, one of whose models may be loaded.  One that
\* is offline falls back on the models that were cached when it was asked.
Answers(cached) ==
  [DOMAIN cached ->
     (UNION {[live : {TRUE}, models : {ms}, loaded : ms \cup {NoModel}] : ms \in SUBSET Models})
       \cup {[live |-> FALSE, models |-> {}, loaded |-> NoModel]}]

Found(cached, answer) ==
  [p \in DOMAIN cached |-> IF answer[p].live \/ cached[p] = Unknown
                           THEN answer[p].models ELSE cached[p]]

\* The cache takes a live answer, and any answer about a new provider.
Cached(known, cached, answer) ==
  [p \in Providers |->
     IF p \in DOMAIN cached /\ (answer[p].live \/ known[p] = Unknown)
     THEN Found(cached, answer)[p] ELSE known[p]]

\* Discovery, asked for by the user (assign) or started after a login.
Discovering(assign) ==
  LET s == settings
  IN  [pc |-> "probing", assign |-> assign,
       cached |-> [p \in Probed(s, creds'.login # 0) |-> s.known[p]]]

DiscoverModels(j) ==
  /\ probe[j].pc = "idle"
  /\ UNCHANGED <<settings, registry, bench, loginVars, choices>>
  /\ probe' = [probe EXCEPT ![j] = Discovering(TRUE)]

\* An endpoint without a choice gets the model its live server has loaded.
Chosen(active, cached, answer) ==
  [p \in Providers |->
     IF /\ p \in DOMAIN cached \ {Cloud} /\ answer[p].live
        /\ answer[p].loaded \in answer[p].models /\ active[p] = NoModel
     THEN answer[p].loaded ELSE active[p]]

EndDiscoveryUnread(j) ==   \* (mutant: only the cache is read again, and merged)
  /\ probe[j].pc = "probing"
  /\ \E answer \in Answers(probe[j].cached) :
       LET cached == probe[j].cached
       IN  Saved([settings EXCEPT
             !.on = [e \in Endpoints |-> IF e \in DOMAIN cached THEN "on" ELSE @[e]],
             !.known = Cached(@, cached, answer),
             !.active = IF probe[j].assign THEN Chosen(@, cached, answer) ELSE @])
  /\ probe' = [probe EXCEPT ![j] = NoProbe]
  /\ UNCHANGED <<bench, loginVars, choices>>

\* The settings are read again when the answers are in, and merged with them.
EndDiscovery(j) ==
  /\ probe[j].pc = "probing"
  /\ \E answer \in Answers(probe[j].cached) :
       LET cached == probe[j].cached
       IN  Saved([settings EXCEPT
             !.known = Cached(@, cached, answer),
             !.active = IF probe[j].assign THEN Chosen(@, cached, answer) ELSE @])
  /\ probe' = [probe EXCEPT ![j] = NoProbe]
  /\ UNCHANGED <<bench, loginVars, choices>>

-----------------------------------------------------------------------------
(* The benchmark of the assigned models, one at a time. *)

StartBenchmark ==
  /\ bench.pc = "idle" /\ Assigned # {}
  /\ bench' = [pc |-> "running"]
  /\ UNCHANGED <<settings, registry, probe, loginVars, choices>>

\* The scores are in: the settings are read, and the local servers probed.
EndModels ==
  /\ bench.pc = "running"
  /\ bench' = [pc |-> "probing", read |-> settings]
  /\ UNCHANGED <<settings, registry, probe, loginVars, choices>>

\* What was read is saved with the answers in it; a probe that fails changes
\* nothing, and is not even waited for when no endpoint is enabled.
SaveBenchmark ==
  /\ bench.pc = "probing"
  /\ LET read == bench.read
         cached == [p \in Probed(read, FALSE) |-> read.known[p]]
     IN  /\ \E answer \in Answers(cached) :
              Saved([read EXCEPT !.known = Cached(@, cached, answer)])
         /\ bench' = NoBench
  /\ UNCHANGED <<probe, loginVars, choices>>

BenchmarkFails ==
  /\ bench.pc = "running"
  /\ bench' = NoBench
  /\ UNCHANGED <<settings, registry, probe, loginVars, choices>>

-----------------------------------------------------------------------------
(* Credentials. *)

Expire ==
  /\ creds.fresh
  /\ creds' = [creds EXCEPT !.fresh = FALSE]
  /\ UNCHANGED <<settings, registry, probe, bench, refresh, server, pending, paste,
                 choices, logins>>

\* A call that finds the token expired refreshes it...
BeginRefresh(r) ==
  /\ refresh[r] = 0 /\ creds.login # 0 /\ ~creds.fresh
  /\ refresh' = [refresh EXCEPT ![r] = creds.login]
  /\ UNCHANGED <<settings, registry, probe, bench, creds, server, pending, paste,
                 choices, logins>>

\* ...and saves what it gets; a refresh that fails leaves the stored token.
EndRefresh(r, ok) ==
  /\ refresh[r] # 0
  /\ creds' = IF ok THEN [login |-> refresh[r], fresh |-> TRUE] ELSE creds
  /\ refresh' = [refresh EXCEPT ![r] = 0]
  /\ UNCHANGED <<settings, registry, probe, bench, server, pending, paste,
                 choices, logins>>

Logout ==
  /\ creds.login # 0
  /\ creds' = [login |-> 0, fresh |-> FALSE]
  /\ UNCHANGED <<settings, registry, probe, bench, refresh, server, pending, paste,
                 choices, logins>>

\* A login opens the callback port; while another one holds it, it fails.
BeginLogin ==
  /\ logins < MaxLogins
  /\ server' = IF server = "off" THEN "waiting" ELSE server
  /\ pending' = IF server = "off" THEN [status |-> "waiting", mine |-> TRUE]
                ELSE [status |-> "error", mine |-> FALSE]
  /\ UNCHANGED <<settings, registry, probe, bench, creds, refresh, paste,
                 choices, logins>>

\* What the server reports reaches the UI if its login is the one polled.
Report(status) ==
  pending' = IF pending.mine THEN [pending EXCEPT !.status = status] ELSE pending

\* The browser's callback arrives, or does not within five minutes.
Capture(status) ==
  /\ server = "waiting"
  /\ server' = IF status = "captured" THEN "exchanging" ELSE "off"
  /\ Report(status)
  /\ UNCHANGED <<settings, registry, probe, bench, creds, refresh, paste,
                 choices, logins>>

\* A code exchanged for a token is a new login; a discovery is started.
LoggedIn ==
  /\ logins < MaxLogins
  /\ logins' = logins + 1
  /\ creds' = [login |-> logins', fresh |-> TRUE]
  /\ \E j \in Probes : probe[j].pc = "idle"
                       /\ probe' = [probe EXCEPT ![j] = Discovering(FALSE)]

EndExchange(ok) ==
  /\ server = "exchanging"
  /\ server' = "off"
  /\ Report(IF ok THEN "complete" ELSE "error")
  /\ IF ok THEN LoggedIn ELSE UNCHANGED <<creds, probe, logins>>
  /\ UNCHANGED <<settings, registry, bench, refresh, paste, choices>>

\* Polling forgets a login that has ended.
PollLogin ==
  /\ pending.status \in {"complete", "error", "timeout"}
  /\ pending' = [status |-> "none", mine |-> FALSE]
  /\ UNCHANGED <<settings, registry, probe, bench, creds, refresh, server, paste,
                 choices, logins>>

\* The user pastes the code himself; its verifier is that of the polled login.
PasteCode ==
  /\ paste = "off" /\ pending.status # "none"
  /\ paste' = "exchanging"
  /\ UNCHANGED <<settings, registry, probe, bench, creds, refresh, server, pending,
                 choices, logins>>

EndPaste(ok) ==
  /\ paste = "exchanging"
  /\ paste' = "off"
  /\ IF ok THEN LoggedIn /\ pending' = [status |-> "none", mine |-> FALSE]
     ELSE UNCHANGED <<creds, probe, logins, pending>>
  /\ UNCHANGED <<settings, registry, bench, refresh, server, choices>>

ProvidersNext ==
  \/ PutSettings \/ StartBenchmark \/ EndModels \/ SaveBenchmark \/ BenchmarkFails
  \/ Expire \/ Logout \/ BeginLogin \/ PollLogin \/ PasteCode
  \/ \E j \in Probes : DiscoverModels(j) \/ EndDiscovery(j)
  \/ \E r \in Refreshes : BeginRefresh(r) \/ \E ok \in BOOLEAN : EndRefresh(r, ok)
  \/ \E status \in {"captured", "timeout"} : Capture(status)
  \/ \E ok \in BOOLEAN : EndExchange(ok) \/ EndPaste(ok)

ProvidersSpec == ProvidersInit /\ [][ProvidersNext]_providerVars

-----------------------------------------------------------------------------
(* Properties. *)

\* What a user chose changes only by another choice of his, whatever waits on
\* the network meanwhile: an endpoint's switch and a chosen model stay, but
\* for the benchmark that writes back the settings it read before it probed;
\* the stored login is the newest or none, but for a refresh that was under
\* way at a login or logout; no discovery makes a known model unknown while
\* its server is not asked; and the client routes by what is saved.
OnlyChosenChanges ==
  LET stale == bench.pc = "probing" /\ bench'.pc = "idle" /\ bench.read # settings
      chosen == choices' # choices
  IN  /\ \A e \in Endpoints :
           settings'.on[e] # settings.on[e] => chosen \/ stale
      /\ \A p \in Providers :
           /\ settings'.active[p] # settings.active[p] =>
                \/ chosen \/ stale
                \/ /\ p \in Endpoints /\ settings.active[p] = NoModel
                   /\ settings'.active[p] \in settings'.known[p]
           /\ settings'.known[p] # settings.known[p] =>
                \/ stale \/ bench' # bench
                \/ \E j \in Probes : probe'[j] # probe[j] /\ p \in DOMAIN probe[j].cached
      /\ creds'.login # creds.login =>
           \/ creds'.login = 0 \/ creds'.login = logins'
           \/ \E r \in Refreshes : refresh[r] = creds'.login /\ refresh'[r] = 0
      /\ registry' = settings'

ChoicesSurvive == [][OnlyChosenChanges]_providerVars
=============================================================================
