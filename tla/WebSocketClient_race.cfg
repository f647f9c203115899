\* Two caller threads: a Start racing the end of a Stop.
CONSTANTS
  c1 = c1
  c2 = c2
  Callers <- TwoCallers
  MaxInbox = 2
SPECIFICATION Spec
INVARIANT NoUseAfterFree
