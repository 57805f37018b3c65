SPECIFICATION CommandsSpec
CONSTANTS
  Settings <- TheSettings
  Keys = {"position", "chat"}
  Handlers = {h1, h2}
  NoHandler = NoHandler
  MaxHandlers = 2
  MaxRouted = 2
INVARIANTS
  ReportsAreTrue
PROPERTIES
  EverySessionEnds
CHECK_DEADLOCK FALSE
