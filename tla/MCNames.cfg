SPECIFICATION Spec
CONSTANTS
  t1 = t1
  t2 = t2
  t3 = t3
  Threads <- ThreeThreads
  up = 2
  MaxTmp = 4
CHECK_DEADLOCK FALSE
INVARIANT SomeoneResets
PROPERTY CounterComesBack
