SPECIFICATION Spec
CONSTANTS
  Proto <- FileNames
  file <- Files
  Programs <- FourPrograms
  MaxObjects = 2
  MaxRemovals = 2
  MaxCalls = 2
INVARIANT Builds
INVARIANT NoClash
INVARIANT RightMethod
INVARIANT FirstServes
INVARIANT RemovedByClass
CHECK_DEADLOCK FALSE
