\* Two processes, two frames that are neighbours, two writers at once.
SPECIFICATION Spec
CONSTANTS
  Tasks = {t1, t2}
  Frames = {1, 2}
  Zero = 9
  None = none
  Writers = {w1, w2}
  Values = {0, 1}
SYMMETRY Symmetry
INVARIANTS
  HoldsWhatItUses
  ZeroStaysZero
  ReachesTarget
