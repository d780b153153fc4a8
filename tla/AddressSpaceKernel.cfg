SPECIFICATION Spec
CONSTANTS
  TableEntries = 64
  MaxPid = 4
  MaxAlive = 3
  StackRanges = 4
  Sizes = {1, 2}
INVARIANT KernelBranchesIgnored
