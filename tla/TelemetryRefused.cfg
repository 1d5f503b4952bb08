\* One tracer over a logger that has not been told of the exporter's keys.
CONSTANTS
  i1 = i1  i2 = i2
  Inits = {i1}
  Exporting = i1
  Tracing <- RequiredFirst
  Metrics <- RequiredSecond
  Batches = 1
  MaxShutdowns = 1
  InitialInterval = 2
  MaxInterval = 3
  MaxElapsed = 4
  Deadlines = {5}
  Throttles = {0, 3}
  LoggerKeys = {}
SPECIFICATION TelemetrySpec
INVARIANTS DropIsReported
CHECK_DEADLOCK FALSE
