\* A handler that fails, and what is left of its failure.
CONSTANTS
  e1 = e1  e2 = e2  m1 = m1  m2 = m2  m3 = m3
  c1 = c1  c2 = c2  c3 = c3  p1 = p1  p2 = p2
  NoEvent = NoEvent  NoMessage = NoMessage  NoOwner = NoOwner
  Events = {e1}
  Messages = {m1}
  EventOf <- Once
  Poison = {}
  Procs = {p1}
  Callbacks = {c1, c2}
  Home <- OneProc
  MaxConcurrency = 2
  Snapshot = FALSE
  Faults = {"handler"}
SPECIFICATION Spec
CHECK_DEADLOCK FALSE
INVARIANTS FailureStaysRecorded
