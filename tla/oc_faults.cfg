\* Two children, every fault once; Goal is not a multiple of Chunk.
SPECIFICATION Spec
CONSTANTS
  N = 2
  Goal = 3
  Chunk = 2
  LogCap = 2
  CmdCap = 1
  Faults = {"fork", "calloc", "mmap", "kill"}
  MaxKills = 1
INVARIANTS
  TypeOK
  TouchBarrier
  ParentKnows
  RoundRobin
PROPERTIES
  ReportsOnlyGrow
  ReservesThenTouches
