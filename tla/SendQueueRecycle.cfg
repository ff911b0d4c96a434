CONSTANTS
  Conns = {c1}
  NoConn = NoConn
  MaxReqs = 2
  MsgLen = 2
SPECIFICATION Spec
PROPERTY RecycledQuiet
\* The clients' requests are used up and every connection may be recycled.
CHECK_DEADLOCK FALSE
