\* Two messages of one event, callbacks of two processes, every fault.
CONSTANTS
  e1 = e1  e2 = e2  m1 = m1  m2 = m2  m3 = m3
  c1 = c1  c2 = c2  c3 = c3  p1 = p1  p2 = p2
  NoEvent = NoEvent  NoMessage = NoMessage  NoOwner = NoOwner
  Events = {e1}
  Messages = {m1, m2}
  EventOf <- Twice
  Poison = {}
  Procs = {p1, p2}
  Callbacks = {c1, c2, c3}
  Home <- TwoProcs
  MaxConcurrency = 2
  Snapshot = FALSE
  Faults = {"handler", "panic", "db", "session", "lost", "lease", "crash"}
SPECIFICATION Spec
\* The system stops when every message is acknowledged.
CHECK_DEADLOCK FALSE
INVARIANTS TypeOK EffectOnce AckedWasProcessed HandlersExclude CommittedIsProcessed
PROPERTIES ImplementsInbox
