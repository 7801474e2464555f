\* Two slots and two channels, reads that fail, every end of a write, and one foreign write.
CONSTANTS
  Channels = {x, y}
  CAPACITY = 2
  READ_FAILS = TRUE
  WriteEnds <- MCEnds
  MAX_FOREIGN = 1
  MAX_FILE = 2
SYMMETRY MCSymmetry
SPECIFICATION Spec
INVARIANTS CopiesAreDevice AddOverwritesNothing RoundsKeepChannels
CHECK_DEADLOCK FALSE
