\* Two instances that keep running, one failed send in each of them.
CONSTANTS
  e1 = e1  e2 = e2  a1 = a1
  NoProc = NoProc
  Events = {e1, e2}
  Aggregates = {a1}
  AggregateOf <- SameAggregate
  Ordering = TRUE
  Procs = {p1, p2}
  Workers = 2
  Faults = {"publish"}
  MaxFaults = 2
SPECIFICATION FairSpec
PROPERTIES EveryEventArrives
CHECK_DEADLOCK FALSE
