SPECIFICATION CSpec
CONSTANTS
  Chars = {a, b}
  NUL = NUL
  Counts = {0, 1, 2, 9}
  LBUF_SZ = 4
  CBUF_SZ = 5
INVARIANT LineEnds
PROPERTY ImplementsLineEditor
CHECK_DEADLOCK FALSE
