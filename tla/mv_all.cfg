\* madvsnoop.py with and without -p 11; three threads, a map with room for two.
SPECIFICATION Spec
CONSTANTS
  Tids = {1, 2, 3}
  Pids = {11, 12}
  Rets = {0}
  Cpus = {c1}
  RingSize = 1
  Starts = {3, 12}
  Lengths = {1}
  MaxInt = 7
  PidFilters = {{11}, {11, 12}}
  MapSize = 2
INVARIANTS
  LinesTrue
  MissedOnlyIfFull
