\* Two restores and two control requests, with power lost at any point and one start after it.
SPECIFICATION FairSpec
CONSTANTS
  Restores = {a, b}
  Changes = {c, d}
  Original = original
  None = None
  MaxStarts = 2
CHECK_DEADLOCK FALSE
INVARIANTS SwapIsQuiet ToldChangesKept
PROPERTIES ImplementsDatabase RestoreEnds
