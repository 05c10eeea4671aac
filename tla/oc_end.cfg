\* Two children, no faults: is the end of the test reported?
SPECIFICATION FairSpec
CONSTANTS
  N = 2
  Goal = 1
  Chunk = 1
  LogCap = 1
  CmdCap = 1
  Faults = {}
  MaxKills = 0
PROPERTIES
  EndReported
