\* Every application service on a small instance.
SPECIFICATION Spec
CONSTANTS
  Parts = {"desk", "bus", "providers", "access", "batch", "packets", "plan", "ontology"}
  Tabs = {t1, t2}
  Scores = {1, 2}
  Syntheses <- SomeSyntheses
  FormRatings <- NotAssessed
  ChairRatings <- SomeRatings
  Wrappings <- SomeReviews
  SearchOn = TRUE
  MaxEdits = 2
  MaxRuns = 2
  MaxAsks = 1
  Agents = {a1}
  Sockets = {s1}
  HistoryLimit = 2
  QueueLimit = 3
  TailLimit = 2
  MaxEvents = 4
  MaxBuses = 2
  Endpoints = {e1}
  Models = {m1}
  Probes = {j1}
  Refreshes = {r1}
  MaxChoices = 1
  MaxLogins = 1
  Calls = {c1, c2}
  MaxAttempts = 2
  MaxUsage = 2
  MaxCalls = 2
  Papers <- TwoPapers
  MaxTasks = 3
  MaxLoops = 2
  Packets <- ThreePackets
  OwnGraph = {"k1"}
  Library = {"k2"}
  Requests = {q1, q2}
  MaxReviews = 2
  Panel <- Venue
  Optional = {"artifact"}
  ProviderOrder <- ByPreference
  LocalProviders = {"lan-mini"}
  Routes <- SomeRoutes
  Thinking = {"l2"}
  Quick = {"l1"}
  Unsupported = {}
  Presets <- SomePresets
  Maps <- SomeMaps
  MaxSettings = 1
  MaxPlans = 2
  Key <- Spellings
  Replies <- SomeReplies
  Required <- BaseTypes
  Seeds <- SeedTypes
  RemoteSamples = 3
  Cap = 1
INVARIANT
  
  Delivery
  CostsAddUp
  PacketsAreWhole
  OntologySound
PROPERTY
  
  ChoicesSurvive
  BatchesSettle
  PlanHonoured
SYMMETRY Symmetry
CHECK_DEADLOCK FALSE
