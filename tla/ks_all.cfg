\* killsnoop.py with every choice of options, killsnoopTP.py -p 11 -s 9 with two of
\* its three calls.
SPECIFICATION Spec
CONSTANTS
  Tids = {1, 2}
  Pids = {11, 12}
  Rets = {0}
  Cpus = {c1}
  RingSize = 1
  Targets = {11, 12}
  Sigs = {9, 15}
  TpCalls = {"kill", "tkill"}
  Options <- MCOptions
INVARIANTS
  EventsTrue
PROPERTIES
  NoNewLeftovers
  NothingSkipped
