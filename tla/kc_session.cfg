SPECIFICATION GuiSpec
CONSTANTS
  Type <- MCType
  Modules = "MODULES"
  Ordered <- MCOrdered
  Number <- MCNumber
  ChoiceSyms = {"C", "K"}
  Optional = {}
  Hash <- MCHash
  HexOf <- MCHexOf
  Setups <- MCSetups
  Texts = {"5", "9"}
  Dice <- MCDice
  MaxStarts = 2
  GuiStarts = 1
  MaxEdits = 1
PROPERTY ValuesTrue
INVARIANT HeadersTouched
PROPERTY UpdatesHeaders
PROPERTY FilesReadBack
PROPERTY ShownTrue
PROPERTY TakesEffect
PROPERTY AskingEnds
CHECK_DEADLOCK FALSE
