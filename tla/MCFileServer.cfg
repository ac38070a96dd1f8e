\* Stops at MaxOps and where every process has exited.
SPECIFICATION SSpec
CONSTANTS
  Procs = {1, 2}
  FD_NUM = 3
  STD = 1
  INODE_NUM = 5
  CHUNK = 4
  KERNEL_INODE_NUM = 3
  KERNEL_FILE_NUM = 4
  MaxSize = 2
  MaxOps = 7
  FilePaths <- MCFilePaths
  DirPaths <- MCDirPaths
  Behind <- MCBehind
  Bounds = {"open target", "leftovers", "in use"}
INVARIANTS CountsExact TreeSound
PROPERTY ImplementsOpenFiles
CHECK_DEADLOCK FALSE
