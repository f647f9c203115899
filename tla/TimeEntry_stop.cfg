\* User::Stop of an entry started in the same second.
CONSTANTS
  MaxTime = 3
  MaxSeconds = 2
  MaxFailures = 1
SPECIFICATION Spec
INVARIANT StopNeverAborts
