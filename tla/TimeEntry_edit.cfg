\* Every setter, start, stop, save and abort: the dirty flag covers every unsaved change.
CONSTANTS
  MaxTime = 3
  MaxSeconds = 2
  MaxFailures = 1
SPECIFICATION Spec
INVARIANT DirtyTracksChanges
