CONSTANTS
  t1 = t1
  t2 = t2
  h1 = h1
  h2 = h2
  h3 = h3
  h4 = h4
  Tasks <- MCTasks
  Handles <- MCHandles
  InitialPoolSize = 1
  Capacity = 2
  DstSize = 5
  Total = 5
  NoHandle = NoHandle
  Unset = Unset
  Garbage = Garbage

SPECIFICATION FairSpec

INVARIANT TypeOK
INVARIANT NoSharedHandle
INVARIANT InFlightBufferOwned
INVARIANT CopiedWhenCallerDone
INVARIANT NoLeakedHandle
PROPERTY DeviceRefinesCopy
PROPERTY AllCopiesLand
