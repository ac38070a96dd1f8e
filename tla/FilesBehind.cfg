\* A name behind the end of the path of rmdir().
SPECIFICATION SSpec
CONSTANTS
  Procs = {1, 2}
  FD_NUM = 3
  STD = 1
  INODE_NUM = 5
  CHUNK = 4
  KERNEL_INODE_NUM = 3
  KERNEL_FILE_NUM = 4
  MaxSize = 2
  MaxOps = 7
  FilePaths <- MCFilePaths
  DirPaths <- MCDirPaths
  Behind <- DotDot
  Bounds = {"open target", "leftovers", "in use"}
INVARIANT TreeSound
CHECK_DEADLOCK FALSE
