SPECIFICATION Spec
CONSTANTS
  Type <- MCType
  Modules = "MODULES"
  Ordered <- MCOrdered
  Number <- MCNumber
  ChoiceSyms = {"C"}
  Optional = {}
  Sources <- MCSources
  Orders <- MCOrders
INVARIANTS
  ConditionsKept
  GatheredRight
  SubmenusDepend
  PrintedTrue
  CyclesFound
CHECK_DEADLOCK FALSE
