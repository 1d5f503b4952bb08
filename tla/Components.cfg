\* 8-bit durations, two starts, two callers, three helpers and a call.
CONSTANTS
  c1 = c1  c2 = c2
  ExtraKeys = {"tenant"}
  ExtraLabels = {"region"}
  StaticLabels <- TwoLabels
  InstanceID = "host"
  Attachments <- Helpers
  Calls <- CallSites
  ChainBound = 3
  Width = 8
  Initials = {0, 1, 3, 5, 8, 15, 16, 65, 127}
  Maxima = {0, 1, 4, 7, 60, 127}
  Sizes = {0, 1, 3}
  Queues = {0, 1, 100, 512, 513, 2048, 3000}
  AttemptBound = 12
  PoolMetrics = TRUE
  RelayMetrics = TRUE
  MaxStarts = 2
  Callers = {c1, c2}
  Keys = {"authorization", "serverless", "custom"}
  Lifetime = 1
  MaxNow = 1
SPECIFICATION Spec
CHECK_DEADLOCK FALSE
INVARIANTS LogMatchesReference SettingsAreUsable DefaultsAgree DelayFollowsPolicy GaugeSeesOpenPool StartLeavesNothing HandlerSeesValidClaims CallersShareOutcome
