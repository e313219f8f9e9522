SPECIFICATION StreamFair
CONSTANTS
  Clients = {k}
  Conns = {h1, h2}
  Hubs = {g1, g2, g3}
  None = None
  HistorySize = 1
  QueueSize = 1
  MaxSubscribers = 2
  PageSize = 2
  MaxReconnects = 1
  KeepTails = {1}
  MaxEvents = 1
INVARIANTS
  NoProtocolError
CHECK_DEADLOCK FALSE
PROPERTIES
  MappedHubRuns
  WatchEnds
