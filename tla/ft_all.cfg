\* Three sessions, two at a time, overlapping or not, every failure; process ids
\* are reused.
SPECIFICATION FairSpec
CONSTANTS
  Sessions = {s1, s2, s3}
  Pids = {101, 102}
  Faults = {"irq", "tracer", "filter", "pin", "exec", "disable", "interrupt"}
INVARIANTS
  NothingMissed
  OwnPidFiltered
  OffAtTheEnd
CHECK_DEADLOCK FALSE
PROPERTIES
  SessionsEnd
