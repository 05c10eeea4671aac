\* Two children, every fault: what must still happen.
SPECIFICATION FairSpec
CONSTANTS
  N = 2
  Goal = 1
  Chunk = 1
  LogCap = 1
  CmdCap = 1
  Faults = {"fork", "calloc", "mmap", "kill"}
  MaxKills = 1
PROPERTIES
  EverythingTouched
  StuckOnlyByEarlyDeath
  NoOrphans
