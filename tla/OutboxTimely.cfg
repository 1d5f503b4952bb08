\* A batch of two and one worker: two rounds of PublishTimeout take less than
\* LockTTL - MaxSkew.  Every fault, with a restart.
CONSTANTS
  e1 = e1  e2 = e2  p1 = p1  p2 = p2
  NoToken = NoToken
  Events = {e1, e2}
  Procs = {p1, p2}
  Width = 8
  BatchSize = 2
  Workers = 1
  LockTTL = 6
  InitialBackoff = 1
  MaxBackoff = 2
  PublishTimeout = 2
  EnqueueDelays = {0}
  Skew <- OneSkew
  MaxSkew = 1
  Faults = {"publish", "db", "crash", "cancel"}
  Prompt = {p1, p2}
  FailureBound = 1
  LateBound = 0
  DeliveryCap = 1
  MaxRestarts = 1
SPECIFICATION Spec
INVARIANTS SingleFlight
