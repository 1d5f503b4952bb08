\* A nested call and another one compete for two connections and two rows.
CONSTANTS
  c1 = c1  c2 = c2  c3 = c3
  NoCall = NoCall  NoKey = NoKey
  Calls = {c1, c2, c3}
  Parent <- OneNested
  Keys = {k1, k2}
  MaxConns = 2
  DefaultTimeout = 0
  LockTimeout <- SomeTimeouts
  Serializable = {c1}
  Faults = {"db", "app", "panic"}
SPECIFICATION FairSpec
\* The system stops when every call has returned.
CHECK_DEADLOCK FALSE
INVARIANTS TypeOK OutcomeIsTruthful RetryIsSafe NothingLeaks ActiveIsExact
PROPERTIES EverythingIsReturned
