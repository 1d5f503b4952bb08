\* Two instances, two events of one aggregate, any two faults.
CONSTANTS
  e1 = e1  e2 = e2  a1 = a1
  NoProc = NoProc
  Events = {e1, e2}
  Aggregates = {a1}
  AggregateOf <- SameAggregate
  Ordering = TRUE
  Procs = {p1, p2}
  Workers = 2
  Faults = {"publish", "db", "steal", "exit", "crash"}
  MaxFaults = 2
SPECIFICATION FairSpec
INVARIANTS TypeOK NothingOvertakesAFailure ExitLeavesNothingBehind
PROPERTIES ImplementsOutbox OnlyAPauseHoldsBack
CHECK_DEADLOCK FALSE
