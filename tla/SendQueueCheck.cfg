\* Two clients, with two requests between them or one with both, share the queue
\* and the threads.
CONSTANTS
  Conns = {c1, c2}
  NoConn = NoConn
  MaxReqs = 2
  MsgLen = 2
SPECIFICATION FairSpec
INVARIANTS TypeOK FramedWire MessageOwned SendExclusive RestGuarded
PROPERTIES RestSent MessageExamined
\* The clients' requests are used up and every connection may be recycled.
CHECK_DEADLOCK FALSE
