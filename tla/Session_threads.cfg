\* Two threads calling the session and deletion functions, with a failing
\* statement and a crash.
CONSTANTS
  th1 = th1
  th2 = th2
  u1 = u1
  NoUser = NoUser
  Threads <- MCThreads
  Users <- MCUsers
  MaxFailures = 1
  MaxCrashes = 1
SPECIFICATION Spec
INVARIANT LoginNeverRejected
PROPERTIES CallsReturn DeleteReportsLeftovers
