CONSTANTS
  Callers = {c1, c2}
  PageSize = 2
  NPages = 2
  FrameOf <- MCFrameOf
  Reclaimable <- MCReclaimable
  StrayFrameOf <- MCStrayFrameOf
  Vmas = {guard, heap}
  Readable = {heap}
  Writable = {heap}
  None = None
  Header = 3
  Requests <- MCRequests
  Calls <- MCCalls
  Faults = TRUE
SPECIFICATION ClientSpec
INVARIANT TransferExact
CHECK_DEADLOCK FALSE
