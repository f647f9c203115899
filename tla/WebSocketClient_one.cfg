\* One caller thread calling Start and Stop, a server that sends, goes
\* silent and closes.
CONSTANTS
  c1 = c1
  c2 = c2
  Callers <- OneCaller
  MaxInbox = 2
SPECIFICATION Spec
INVARIANTS NoUseAfterFree CallbackOfCurrentStart
PROPERTIES StopReturns Reconnects
