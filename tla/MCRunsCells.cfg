\* Two runs of one package, with one run ID or with two; a scan of two packages
\* and one dataset; two CloudQuery or dbt runs, with one run ID or with two; a
\* heartbeat of two lives.
SPECIFICATION AllSpec
CONSTANTS
  Runs = {1, 2}
  Ids = {i1, i2}
  NoId = NoId
  NumPackages = 2
  Namings <- MCNamings
  Datasets = {"d"}
  Interfaces <- MCInterfaces
  Cells = {"own", "east"}
  RunCell = "own"
  StoreOf <- MCStoreOf
  ConnectorOf <- MCConnectorOf
  Transforms <- MCTransforms
  Syncs = {"p", "q"}
  SyncIds = {s1, s2}
  HeartbeatCallers = {a, b}
  MaxHeartbeats = 2
  MaxRecords = 1
INVARIANTS
  RefsReachTheirStores
CHECK_DEADLOCK FALSE
