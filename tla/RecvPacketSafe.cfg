\* Lengths below the header's, equal to it, with one byte of body, the longest
\* legal one and one more; streams that hold up to three packets.
CONSTANTS
  HeaderLen = 2
  MaxPkgLen = 4
  Bytes = {1, 2, 3, 4, 5}
  MaxBytes = 6
SPECIFICATION RecvSpec
INVARIANTS RecvTypeOK BufferBounds NoPacketLeaked Reassembled
