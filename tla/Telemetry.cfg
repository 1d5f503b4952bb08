\* Two Inits, two batches; export timeouts shorter and longer than the budget.
CONSTANTS
  i1 = i1  i2 = i2
  Inits = {i1, i2}
  Exporting = i1
  Tracing <- RequiredFirst
  Metrics <- RequiredSecond
  Batches = 2
  MaxShutdowns = 2
  InitialInterval = 2
  MaxInterval = 3
  MaxElapsed = 4
  Deadlines = {2, 5}
  Throttles = {0, 3}
  LoggerKeys = {"attempt", "grpc_code"}
SPECIFICATION FairTelemetry
INVARIANTS TelemetryTypeOK DropIsReported RetriesFitBudget NothingOutlivesShutdown HandlerIsLive
PROPERTIES ExportsEnd
CHECK_DEADLOCK FALSE
