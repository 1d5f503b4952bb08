\* Calls nested two deep: one commits before the call that made it fails.
CONSTANTS
  c1 = c1  c2 = c2  c3 = c3
  NoCall = NoCall  NoKey = NoKey
  Calls = {c1, c2, c3}
  Parent <- TwoNested
  Keys = {k1}
  MaxConns = 3
  DefaultTimeout = 0
  LockTimeout <- NoTimeouts
  Serializable = {c1}
  Faults = {}
SPECIFICATION Spec
CHECK_DEADLOCK FALSE
INVARIANTS RetryRepeatsNothing
