\* dup() and dup2() onto descriptors that are open.
SPECIFICATION SSpec
CONSTANTS
  Procs = {1}
  FD_NUM = 3
  STD = 1
  INODE_NUM = 5
  CHUNK = 4
  KERNEL_INODE_NUM = 3
  KERNEL_FILE_NUM = 3
  MaxSize = 2
  MaxOps = 9
  FilePaths <- OneFile
  DirPaths = {}
  Behind <- MCBehind
  Bounds = {"leftovers", "in use"}
INVARIANT EntryLeft
CHECK_DEADLOCK FALSE
