\* Two instances with skewed clocks, one event, every fault; the one that is
\* prompt is needed for progress only, the other may stall at any step.
CONSTANTS
  e1 = e1  e2 = e2  p1 = p1  p2 = p2
  NoToken = NoToken
  Events = {e1}
  Procs = {p1, p2}
  Width = 8
  BatchSize = 1
  Workers = 2
  LockTTL = 2
  InitialBackoff = 1
  MaxBackoff = 2
  PublishTimeout = 1
  EnqueueDelays = {0}
  Skew <- OneSkew
  MaxSkew = 1
  Faults = {"publish", "db", "crash", "cancel"}
  Prompt = {p1}
  FailureBound = 2
  LateBound = 1
  DeliveryCap = 2
  MaxRestarts = 1
SPECIFICATION FairSpec
INVARIANTS TypeOK PublishedWasDelivered HolderCopyIsCurrent
PROPERTIES PublishedIsFinal OneResultPerLease ImplementsContract KeepsPromise
