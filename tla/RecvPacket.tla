----------------------------- MODULE RecvPacket -----------------------------
(***************************************************************************)
(* How the event loop cuts the byte stream of a client into packets        *)
(* (ngx_read_request_handler and what it calls), for one connection object *)
(* and the clients that use it one after the other.                        *)
(*                                                                         *)
(* recv() delivers the stream in pieces nobody controls.  A packet is a    *)
(* header of HeaderLen bytes and a body; the length in the header counts   *)
(* both.  A header with an impossible length is dropped, and the bytes     *)
(* that follow it are taken for a header.  Of the header's fields only     *)
(* pkgLen matters here: it is the first byte, and a byte is a number.      *)
(***************************************************************************)
EXTENDS Naturals, Sequences

CONSTANTS
  HeaderLen,   \* m_iLenPkgHeader, sizeof(COMM_PKG_HEADER)
  MaxPkgLen,   \* _PKG_MAX_LENGTH - 1000
  Bytes,       \* the bytes clients send
  MaxBytes     \* bound on the bytes of one client

ASSUME RecvPacketAssumption ==
  /\ HeaderLen \in Nat \ {0}
  /\ MaxPkgLen \in Nat /\ HeaderLen <= MaxPkgLen
  /\ Bytes \subseteq Nat \ {0}
  /\ MaxBytes \in Nat

VARIABLES
  curStat,
  dataHeadInfo,      \* the header's bytes
  precvMemPointer,   \* the packet's bytes, <<>> for NULL
  precvbuf,          \* the buffer that is written and how much of it is
  irecvlen,
  phase,             \* where the connection object is: in "use", its client
                     \* "gone" but not recycled yet, or in the "pool"
  stream,            \* history: what recv() has returned for this client
  delivered          \* history: packets given to the thread pool for it

recvVars == <<curStat, dataHeadInfo, precvMemPointer, precvbuf, irecvlen, phase,
              stream, delivered>>

\* A byte of memory that has not been written: AllocMemory(..., false).
Garbage == 0
Head0 == [i \in 1..HeaderLen |-> Garbage]

\* GetOneToUse() on a connection object fresh from AllocMemory(..., true).
RecvInit ==
  /\ curStat = "HD_INIT"
  /\ dataHeadInfo = Head0
  /\ precvMemPointer = <<>>
  /\ precvbuf = [buf |-> "dataHeadInfo", off |-> 0]
  /\ irecvlen = HeaderLen
  /\ phase = "use"
  /\ stream = <<>>
  /\ delivered = <<>>

-----------------------------------------------------------------------------
\* memory with the chunk written behind its first off bytes.
Write(memory, off, chunk) ==
  [i \in DOMAIN memory |->
     IF i \in (off + 1)..(off + Len(chunk)) THEN chunk[i - off] ELSE memory[i]]

\* The next bytes are those of a header.
WaitForHeader ==
  /\ curStat' = "HD_INIT"
  /\ precvbuf' = [buf |-> "dataHeadInfo", off |-> 0]
  /\ irecvlen' = HeaderLen

\* Mutant of WaitForRest: irecvlen is not reduced.
WaitForRestTooLong(stat, n) ==
  /\ curStat' = stat
  /\ precvbuf' = [precvbuf EXCEPT !.off = @ + n]
  /\ UNCHANGED irecvlen

\* The buffer is not full yet.
WaitForRest(stat, n) ==
  /\ curStat' = stat
  /\ precvbuf' = [precvbuf EXCEPT !.off = @ + n]
  /\ irecvlen' = irecvlen - n

\* ngx_wait_request_handler_proc_plast(): the packet goes to the thread pool.
ProcPlast(packet) ==
  /\ delivered' = Append(delivered, packet)
  /\ precvMemPointer' = <<>>
  /\ WaitForHeader

\* Mutant of ProcP1: lengths above MaxPkgLen are accepted.
ProcP1AnyLength(header) ==
  LET pkgLen == header[1]
  IN  \/ /\ pkgLen < HeaderLen
         /\ WaitForHeader
         /\ UNCHANGED <<precvMemPointer, delivered>>
      \/ /\ pkgLen = HeaderLen
         /\ ProcPlast(header)
      \/ /\ pkgLen > HeaderLen
         /\ precvMemPointer' = Write([i \in 1..pkgLen |-> Garbage], 0, header)
         /\ curStat' = "BD_INIT"
         /\ precvbuf' = [buf |-> "precvMemPointer", off |-> HeaderLen]
         /\ irecvlen' = pkgLen - HeaderLen
         /\ UNCHANGED delivered

\* ngx_wait_request_handler_proc_p1(): the header is complete.
ProcP1(header) ==
  LET pkgLen == header[1]
  IN  \/ /\ pkgLen < HeaderLen \/ pkgLen > MaxPkgLen
         /\ WaitForHeader
         /\ UNCHANGED <<precvMemPointer, delivered>>
      \/ /\ pkgLen = HeaderLen
         /\ ProcPlast(header)
      \/ /\ pkgLen \in (HeaderLen + 1)..MaxPkgLen
         /\ precvMemPointer' = Write([i \in 1..pkgLen |-> Garbage], 0, header)
         /\ curStat' = "BD_INIT"
         /\ precvbuf' = [buf |-> "precvMemPointer", off |-> HeaderLen]
         /\ irecvlen' = pkgLen - HeaderLen
         /\ UNCHANGED delivered

\* ngx_read_request_handler() when recv() fills the header's buffer or a part
\* of it.  The two states of a header differ in the length they expect.
ReceiveHeader(chunk) ==
  LET header == Write(dataHeadInfo, precvbuf.off, chunk)
      complete == \/ curStat = "HD_INIT" /\ Len(chunk) = HeaderLen
                  \/ curStat = "HD_RECVING" /\ Len(chunk) = irecvlen
  IN  /\ curStat \in {"HD_INIT", "HD_RECVING"}
      /\ dataHeadInfo' = header
      /\ \/ complete /\ ProcP1(header)
         \/ /\ ~complete
            /\ WaitForRest("HD_RECVING", Len(chunk))
            /\ UNCHANGED <<precvMemPointer, delivered>>

\* Mutant of ReceiveBody: the header's bytes are overwritten by the body.
ReceiveBodyAtStart(chunk) ==
  LET packet == Write(precvMemPointer, precvbuf.off - HeaderLen, chunk)
  IN  /\ curStat \in {"BD_INIT", "BD_RECVING"}
      /\ \/ Len(chunk) = irecvlen /\ ProcPlast(packet)
         \/ /\ Len(chunk) # irecvlen
            /\ precvMemPointer' = packet
            /\ WaitForRest("BD_RECVING", Len(chunk))
            /\ UNCHANGED delivered
      /\ UNCHANGED dataHeadInfo

ReceiveBody(chunk) ==
  LET packet == Write(precvMemPointer, precvbuf.off, chunk)
  IN  /\ curStat \in {"BD_INIT", "BD_RECVING"}
      /\ \/ Len(chunk) = irecvlen /\ ProcPlast(packet)
         \/ /\ Len(chunk) # irecvlen
            /\ precvMemPointer' = packet
            /\ WaitForRest("BD_RECVING", Len(chunk))
            /\ UNCHANGED delivered
      /\ UNCHANGED dataHeadInfo

\* recvproc() returns 1 to irecvlen bytes.
Receive(chunk) ==
  /\ phase = "use"
  /\ Len(chunk) \in 1..irecvlen
  /\ Len(stream) + Len(chunk) <= MaxBytes
  /\ stream' = stream \o chunk
  /\ ReceiveHeader(chunk) \/ ReceiveBody(chunk)
  /\ UNCHANGED phase

\* recvproc() meets the end of the stream or an error: the connection is
\* queued for recycling as it is.
ClientGone ==
  /\ phase = "use"
  /\ phase' = "gone"
  /\ UNCHANGED <<curStat, dataHeadInfo, precvMemPointer, precvbuf, irecvlen,
                 stream, delivered>>

\* Mutant of PutOneToFree: precvMemPointer is left alone.
PutOneToFreeKeepsPacket ==
  /\ phase = "gone"
  /\ phase' = "pool"
  /\ UNCHANGED <<curStat, dataHeadInfo, precvMemPointer, precvbuf, irecvlen,
                 stream, delivered>>

\* The memory of a packet that was never completed is freed.
PutOneToFree ==
  /\ phase = "gone"
  /\ phase' = "pool"
  /\ precvMemPointer' = <<>>
  /\ UNCHANGED <<curStat, dataHeadInfo, precvbuf, irecvlen, stream, delivered>>

\* The next client: precvMemPointer is set to NULL without freeing anything.
GetOneToUse ==
  /\ phase = "pool"
  /\ phase' = "use"
  /\ WaitForHeader
  /\ precvMemPointer' = <<>>
  /\ stream' = <<>>
  /\ delivered' = <<>>
  /\ UNCHANGED dataHeadInfo

RecvNext ==
  \/ \E n \in 1..MaxPkgLen : \E chunk \in [1..n -> Bytes] : Receive(chunk)
  \/ ClientGone
  \/ PutOneToFree
  \/ GetOneToUse

RecvSpec == RecvInit /\ [][RecvNext]_recvVars
-----------------------------------------------------------------------------
(* Correctness *)

Memory == UNION {[1..n -> Bytes \cup {Garbage}] : n \in 0..MaxPkgLen}

\* Types of the connection's receive fields.
RecvTypeOK ==
  /\ curStat \in {"HD_INIT", "HD_RECVING", "BD_INIT", "BD_RECVING"}
  /\ dataHeadInfo \in [1..HeaderLen -> Bytes \cup {Garbage}]
  /\ precvMemPointer \in Memory
  /\ precvbuf \in [buf : {"dataHeadInfo", "precvMemPointer"}, off : 0..MaxPkgLen]
  /\ irecvlen \in 1..MaxPkgLen
  /\ phase \in {"use", "gone", "pool"}
  /\ stream \in Seq(Bytes)
  /\ delivered \in Seq(Memory)

\* What recv() may write always ends exactly where the buffer it writes ends,
\* whatever lengths the headers claim: it never runs over the buffer, and it is
\* never asked for 0 bytes, which would look like the end of the stream.
BufferBounds ==
  phase = "use" =>
    /\ irecvlen > 0
    /\ precvbuf.buf = "dataHeadInfo" => precvbuf.off + irecvlen = HeaderLen
    /\ precvbuf.buf = "precvMemPointer" =>
         precvbuf.off + irecvlen = Len(precvMemPointer)

\* Memory is allocated for a packet only while its body is being received: no
\* pointer to it is overwritten before the memory is freed or handed on.
NoPacketLeaked ==
  /\ (precvMemPointer # <<>> /\ phase = "use") =>
       curStat \in {"BD_INIT", "BD_RECVING"}
  /\ phase = "pool" => precvMemPointer = <<>>

\* The packets of a stream of bytes, by the definition of the protocol: for
\* every p those that begin at byte p or later, if one may begin there.
PacketsFrom(bytes) ==
  LET from[p \in 1..(Len(bytes) + 1)] ==
        IF p + HeaderLen - 1 > Len(bytes) THEN <<>>
        ELSE LET n == bytes[p]
             IN  IF n < HeaderLen \/ n > MaxPkgLen THEN from[p + HeaderLen]
                 ELSE IF p + n - 1 > Len(bytes) THEN <<>>
                 ELSE <<SubSeq(bytes, p, p + n - 1)>> \o from[p + n]
  IN  from

Packets(bytes) == PacketsFrom(bytes)[1]

\* However recv() cuts the stream, and whatever the connection object was used
\* for before, the packets delivered are those of the stream, bytes and all.
Reassembled == delivered = Packets(stream)
=============================================================================
