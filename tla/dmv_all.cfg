\* The viewer, another writer and a reader of the probe; one frame changes, the
\* module is loaded or unloaded once.
SPECIFICATION Spec
CONSTANTS
  Frames <- Frames4
  Slots <- TwoSlots
  Objects <- TheObjects
  Writers = {"viewer", "shell"}
  Readers = {"reader"}
  Viewer = "viewer"
  Word = 128
  MaxSamples = 1
  Options <- TheOptions
  Layouts <- TheLayouts
  Uses <- TheUses
  Numbers = {0, 1}
  MaxChanges = 1
  MaxWrites = 1
  MaxReads = 1
  MaxLoads = 1
INVARIANTS
  ProbeTrue
  OutputTrue
  BoundariesProbed
  SuccessIsComplete
