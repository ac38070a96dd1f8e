\* Blocks are given back from any offset on, as the code does it.
SPECIFICATION DSpec
CONSTANTS
  BLOCK_SIZE = 2
  DIRECT = 1
  PTRS = 2
  BLOCK_NUM = 11
  ENTRY = 3
  Files = {1}
  Dirs = {2}
  GiveBackFrom = 0
  Lens = {3, 5}
  Labels = {1, 2}
  Junk = {0}
  MaxSize = 12
  MaxOps = 4
INVARIANT BlocksAccounted
CHECK_DEADLOCK FALSE
