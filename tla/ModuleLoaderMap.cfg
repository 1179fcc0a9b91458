CONSTANTS
  Path = {"a", "b", "c", "s"}
  Name = {"a", "b", "c", "d", "s"}
  Prefix = {"pa", "pb", "pc", "x", "y"}
  Node = {"na", "nb", "nc", "ns", "n", "no", "d", "aa", "ab", "ca", "cb", "sa"}
  NoPath = "nowhere"
  NoPrefix = "none"
  Locate <- Located
  Disks <- Directories
  MaxCalls = 2
  MaxObjects = 14
SPECIFICATION Spec
CHECK_DEADLOCK FALSE
INVARIANT AugmentsReachTheMap
