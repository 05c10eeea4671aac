\* Pages of two bytes; the default number of samples leaves no page out, and
\* up to four arguments; 17 numbers of eight bytes wrap; an access begins at the
\* first or at the last nanosecond of a second.
SPECIFICATION Spec
CONSTANTS
  PageSize = 2
  NumPages = 4
  NumSamples = 4
  BarWidth = 4
  Word = 128
  Giga = 10
  Numbers = {1, 3, 4, 5, 17}
  Moments = {0, 9}
  Elapsed = {0, 1, 11}
  MaxArgs = 4
INVARIANTS
  DemoTrue
CHECK_DEADLOCK FALSE
