\* the queue with every event, where a is a game master; pipelined messages; fights
SPECIFICATION Spec
CONSTANTS
  Scenes = {"queue", "messages", "hunt", "escape", "cast", "gesture", "pair", "duel"}
  Players = {a, b}
  Events = {"stray join", "role change", "admin sign-out", "skip message", "parameters", "transfer"}
  ParameterChoices <- AnyParameters
  Gms = {a}
  Skippers = {a, b}
  MaxConnections = 1
  RegionCount = 1
  Contents = {request}
  Senders = {1}
  Window = 2
  OrphansRun = TRUE
  StickyFailures = TRUE
  MaxMessages = 3
  MaxRelayRestarts = 1
  MaxModuleRestarts = 1
  MaxPanics = 1
  Fighters = {p, q}
  Duelists = {p, q}
  Enemies = {e}
  UpperBody = {"AbilityCustom"}
  Compatible = {"PlayerMove", "Attack"}
  MaxClears = 2
  MaxDuels = 3
  MaxHealth <- Healths
  Damages = {1}
  Prized = {e}
  Debuffs = TRUE
  NoElevator = FALSE
INVARIANT SignedInIsConnected InOrderOnce FailureIsReal CombatInOrder
CHECK_DEADLOCK FALSE
