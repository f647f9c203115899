\* A stopped entry keeps stop = start + duration under the string setters.
CONSTANTS
  MaxTime = 3
  MaxSeconds = 2
  MaxFailures = 1
SPECIFICATION Spec
INVARIANT StoppedConsistent
