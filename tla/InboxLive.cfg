\* A semaphore slot per process; a poison and a malformed message that come back for
\* ever beside a good one, each delivered again while it is still being worked on.
CONSTANTS
  e1 = e1  e2 = e2  m1 = m1  m2 = m2  m3 = m3
  c1 = c1  c2 = c2  c3 = c3  p1 = p1  p2 = p2
  NoEvent = NoEvent  NoMessage = NoMessage  NoOwner = NoOwner
  Events = {e1, e2}
  Messages = {m1, m2, m3}
  EventOf <- GoodPoisonMalformed
  Poison = {m2}
  Procs = {p1, p2}
  Callbacks = {c1, c2, c3}
  Home <- TwoProcs
  MaxConcurrency = 1
  Snapshot = TRUE
  Faults = {"lease"}
SPECIFICATION FairSpec
\* The fair system stops when every message is acknowledged.
CHECK_DEADLOCK FALSE
PROPERTIES EventuallySettled
