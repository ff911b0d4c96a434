\* A handler can wait for another one of the same connection, or of the other.
CONSTANTS
  Main = Main
  Send = Send
  Recycler = Recycler
  PoolThreads = {t1, t2, t3}
  Conns = {c1, c2}
SPECIFICATION LocksSpec
INVARIANTS LocksTypeOK NoCircularWait
