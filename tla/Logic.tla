------------------------------- MODULE Logic -------------------------------
(***************************************************************************)
(* The business logic (logic/ngx_c_slogic.cxx), from a packet that a pool  *)
(* thread takes to the reply that the send thread takes to send it.        *)
(*                                                                         *)
(* Packets are in network byte order: a 16-bit field is the number that    *)
(* the (little-endian) host sees in it, a 32-bit field a pair of such      *)
(* numbers, the higher one first.  A body is its length and its CRC.       *)
(* RecvPacket shows that a packet that gets here has the body its header   *)
(* announces, ThreadPool that it is taken once; SendQueue shows what       *)
(* becomes of a reply that the send thread has taken.                      *)
(***************************************************************************)
EXTENDS Naturals, Sequences, SequencesExt, FiniteSets

CONSTANTS
  Threads,        \* the threads of the pool
  Requests,       \* what clients may send
  Garbage,        \* the CRCs the uninitialised body of a reply may have
  MaxRequests,    \* bound on the packets received
  MaxClients,     \* bound on the clients that use the connection in turn
  NoThread

Half == 0..(2^16 - 1)                     \* unsigned short
Store16(n) == n % 2^16                    \* assignment of an int to one
Swap16(h) == 256 * (h % 256) + h \div 256       \* htons, ntohs
Swap32(w) == <<Swap16(w[2]), Swap16(w[1])>>      \* htonl, ntohl
Zero32 == <<0, 0>>

HeaderLen == 8            \* m_iLenPkgHeader = sizeof(COMM_PKG_HEADER)
RegisterLen == 100        \* sizeof(STRUCT_REGISTER)
SendLen == 65000          \* iSendLen
CmdRegister == 5
CmdLogin == 6
Commands == 7             \* AUTH_TOTAL_COMMANDS
HasHandler(code) == code \in {CmdRegister, CmdLogin}      \* statusHandler

Body == [len : 0..SendLen, crc : Half \X Half]
Packet == [pkgLen : Half, msgCode : Half, crc32 : Half \X Half, body : Body]

ASSUME LogicAssumption ==
  /\ NoThread \notin Threads
  /\ MaxRequests \in Nat /\ MaxClients \in Nat \ {0}
  /\ Garbage \subseteq Half \X Half
  /\ \A r \in Requests : r \in Packet /\ Swap16(r.pkgLen) = HeaderLen + r.body.len

VARIABLES
  client,         \* the client of the connection, by number
  open,           \* it has not been closed
  seq,            \* its iCurrsequence
  inbox,          \* the messages in the pool's queue
  asked,          \* number of messages so far; a message carries its own
  pc, msg,        \* of each pool thread: its place and the message it handles
  logicPorcMutex, \* of the connection
  sendQueue,      \* m_MsgSendQueue
  pos,            \* of the send thread: its place in the queue, 0 outside of a pass
  compared,       \* the client that the connection had when the sequence number
                  \* of the message at pos was compared and found equal
  taken           \* the replies taken to be sent: the client at the comparison,
                  \* the reply and isendlen

conn == <<client, open, seq>>
pool == <<inbox, asked, pc, msg>>
sender == <<pos, compared, taken>>
vars == <<conn, pool, logicPorcMutex, sendQueue, sender>>

NoMsg == [id |-> 0]
Nobody == 0               \* the connection has no client
NotCompared == MaxClients + 1

Init ==
  /\ client = 1 /\ open = TRUE /\ seq = 1
  /\ inbox = <<>> /\ asked = 0
  /\ pc = [t \in Threads |-> "idle"] /\ msg = [t \in Threads |-> NoMsg]
  /\ logicPorcMutex = NoThread
  /\ sendQueue = <<>> /\ pos = 0 /\ compared = NotCompared /\ taken = {}
-----------------------------------------------------------------------------
(* The connection and its clients *)

\* A whole packet has arrived: the message header gets the connection's
\* sequence number.  Its own number id and the client are there to state what is right.
Receive(request) ==
  /\ open /\ asked < MaxRequests
  /\ asked' = asked + 1
  /\ inbox' = Append(inbox, [id |-> asked + 1, iCurrsequence |-> seq,
                             client |-> client, packet |-> request])
  /\ UNCHANGED <<conn, pc, msg, logicPorcMutex, sendQueue, sender>>

Close ==
  /\ open /\ open' = FALSE
  /\ seq' = seq + 1
  /\ UNCHANGED <<client, pool, logicPorcMutex, sendQueue, sender>>

\* However soon: nothing here rests on the time a connection waits in between.
Reuse ==
  /\ ~open /\ client < MaxClients
  /\ open' = TRUE /\ client' = client + 1
  /\ seq' = seq + 1
  /\ UNCHANGED <<pool, logicPorcMutex, sendQueue, sender>>
-----------------------------------------------------------------------------
(* threadRecvProcFunc *)

Goto(t, place) == pc' = [pc EXCEPT ![t] = place]

\* A packet without a body has to say 0.
CrcAccepted(p) ==
  IF Swap16(p.pkgLen) = HeaderLen THEN p.crc32 = Zero32
                                  ELSE p.body.crc = Swap32(p.crc32)

TakeMessage(t) ==
  /\ pc[t] = "idle" /\ inbox # <<>>
  /\ inbox' = Tail(inbox)
  /\ IF CrcAccepted(Head(inbox).packet)
       THEN Goto(t, "check") /\ msg' = [msg EXCEPT ![t] = Head(inbox)]
       ELSE UNCHANGED <<pc, msg>>
  /\ UNCHANGED <<conn, asked, logicPorcMutex, sendQueue, sender>>

\* What _HandleRegister wants before it takes the mutex; _HandleLogIn only logs.
RegisterAccepts(p) ==
  LET iBodyLength == Store16(Swap16(p.pkgLen) - HeaderLen)
  IN  Swap16(p.pkgLen) # HeaderLen /\ iBodyLength = RegisterLen

\* The sequence number, the table of handlers, and the handler's own checks.
Dispatched(m) ==
  LET imsgCode == Swap16(m.packet.msgCode)
  IN  /\ seq = m.iCurrsequence
      /\ imsgCode < Commands /\ HasHandler(imsgCode)
      /\ imsgCode = CmdRegister /\ RegisterAccepts(m.packet)

CheckMessage(t) ==
  /\ pc[t] = "check"
  /\ IF Dispatched(msg[t])
       THEN Goto(t, "lock") /\ UNCHANGED msg
       ELSE Goto(t, "idle") /\ msg' = [msg EXCEPT ![t] = NoMsg]
  /\ UNCHANGED <<conn, inbox, asked, logicPorcMutex, sendQueue, sender>>

Lock(t) ==
  /\ pc[t] = "lock" /\ logicPorcMutex = NoThread
  /\ logicPorcMutex' = t
  /\ Goto(t, "reply")
  /\ UNCHANGED <<conn, inbox, asked, msg, sendQueue, sender>>

\* Mutants of ReplyHeader: the header's own length is forgotten; the sequence
\* number is the connection's at the time of the reply.
ReplyHeaderBodyOnly(m) ==
  [iCurrsequence |-> m.iCurrsequence, pkgLen |-> Swap16(Store16(SendLen))]
ReplyHeaderCurrent(m) ==
  [iCurrsequence |-> seq, pkgLen |-> Swap16(Store16(HeaderLen + SendLen))]

\* The message header is a copy of the request's.
ReplyHeader(m) ==
  [iCurrsequence |-> m.iCurrsequence, pkgLen |-> Swap16(Store16(HeaderLen + SendLen))]

\* _HandleRegister builds the reply and hands it to msgSend, which waits for the
\* mutex of the queue.  The memory of the body is not initialised: its CRC is any.
Reply(t) ==
  /\ pc[t] = "reply" /\ pos = 0
  /\ \E crc \in Garbage :
       LET header == ReplyHeader(msg[t])
       IN  sendQueue' = Append(sendQueue,
             [request |-> msg[t],
              iCurrsequence |-> header.iCurrsequence,
              packet |-> [pkgLen |-> header.pkgLen, msgCode |-> Swap16(CmdRegister),
                          crc32 |-> Swap32(crc),
                          body |-> [len |-> SendLen, crc |-> crc]]])
  /\ Goto(t, "unlock")
  /\ UNCHANGED <<conn, inbox, asked, msg, logicPorcMutex, sender>>

\* Mutant of Released: the handler returns with the mutex held.
ReleasedNever == logicPorcMutex
Released == NoThread

\* The CLock goes out of scope; the pool frees the message.
Unlock(t) ==
  /\ pc[t] = "unlock"
  /\ logicPorcMutex' = Released
  /\ Goto(t, "idle") /\ msg' = [msg EXCEPT ![t] = NoMsg]
  /\ UNCHANGED <<conn, inbox, asked, sendQueue, sender>>
-----------------------------------------------------------------------------
(* ServerSendQueueThread, up to the call of sendproc.  It holds the mutex of *)
(* the queue during a pass.                                                 *)

\* Of a pass for which SendQueue has the semaphore.
StartPass ==
  /\ pos = 0 /\ sendQueue # <<>>
  /\ pos' = 1
  /\ UNCHANGED <<conn, pool, logicPorcMutex, sendQueue, compared, taken>>

\* The sequence numbers are compared: a message whose connection has changed hands
\* is freed, and the next one is in its place.
Compare ==
  /\ pos \in DOMAIN sendQueue /\ compared = NotCompared
  /\ IF sendQueue[pos].iCurrsequence # seq
       THEN sendQueue' = RemoveAt(sendQueue, pos) /\ UNCHANGED compared
       ELSE compared' = (IF open THEN client ELSE Nobody) /\ UNCHANGED sendQueue
  /\ UNCHANGED <<conn, pool, logicPorcMutex, pos, taken>>

\* iThrowsendCount is not 0, as the rest of another message has to be sent first.
\* When it is, is the subject of SendQueue; here it may always be.
SkipMessage ==
  /\ pos > 0 /\ compared # NotCompared
  /\ pos' = pos + 1 /\ compared' = NotCompared
  /\ UNCHANGED <<conn, pool, logicPorcMutex, sendQueue, taken>>

\* iThrowsendCount is 0: the message leaves the queue, and as many bytes as pkgLen
\* says are to be sent.  Between the comparison and this, and before sendproc is
\* called, the connection may be closed and get another client.
TakeToSend ==
  /\ pos > 0 /\ compared # NotCompared
  /\ sendQueue' = RemoveAt(sendQueue, pos)
  /\ taken' = taken \cup {[to |-> compared, reply |-> sendQueue[pos],
                            isendlen |-> Swap16(sendQueue[pos].packet.pkgLen)]}
  /\ compared' = NotCompared
  /\ UNCHANGED <<conn, pool, logicPorcMutex, pos>>

EndPass ==
  /\ pos > Len(sendQueue)
  /\ pos' = 0
  /\ UNCHANGED <<conn, pool, logicPorcMutex, sendQueue, compared, taken>>

Pass == Compare \/ SkipMessage \/ TakeToSend \/ EndPass
-----------------------------------------------------------------------------
ThreadStep(t) == TakeMessage(t) \/ CheckMessage(t) \/ Lock(t) \/ Reply(t) \/ Unlock(t)

Next ==
  \/ \E r \in Requests : Receive(r)
  \/ Close
  \/ Reuse
  \/ \E t \in Threads : ThreadStep(t)
  \/ StartPass
  \/ Pass

Spec == Init /\ [][Next]_vars

\* Threads are scheduled; a mutex that is free again and again is obtained.  It
\* is left open whether a pass ever begins.
Fairness ==
  /\ \A t \in Threads :
       WF_vars(ThreadStep(t)) /\ SF_vars(Lock(t)) /\ SF_vars(Reply(t))
  /\ WF_vars(Pass)

FairSpec == Spec /\ Fairness
-----------------------------------------------------------------------------
(* Correctness *)

Message == [id : 1..MaxRequests, iCurrsequence : Nat \ {0},
            client : 1..MaxClients, packet : Packet]
ReplyMessage == [request : Message, iCurrsequence : Nat \ {0}, packet : Packet]

\* Fields that go through an unsigned short stay in one; a thread has a message
\* from the checksum to the end of the handler, and the mutex in the handler.
\* Whenever a comparison succeeds, the connection has a client, and what was
\* compared stays in its place, since nobody else touches the queue in a pass.
TypeOK ==
  /\ client \in 1..MaxClients /\ open \in BOOLEAN /\ seq \in 1..(2 * MaxClients)
  /\ inbox \in Seq(Message) /\ asked \in 0..MaxRequests
  /\ sendQueue \in Seq(ReplyMessage)
  /\ pos \in 0..(Len(sendQueue) + 1)
  /\ compared \in 1..(MaxClients + 1) /\ (compared # NotCompared => pos \in DOMAIN sendQueue)
  /\ taken \subseteq [to : 1..MaxClients, isendlen : Half, reply : ReplyMessage]
  /\ \A t \in Threads :
       /\ IF pc[t] = "idle" THEN msg[t] = NoMsg ELSE msg[t] \in Message
       /\ pc[t] \in {"reply", "unlock"} <=> logicPorcMutex = t

\* What the protocol of ngx_comm.h and ngx_logiccomm.h calls a registration.
Valid(packet) ==
  /\ packet.body.len = RegisterLen
  /\ packet.msgCode = Swap16(CmdRegister)
  /\ packet.crc32 = Swap32(packet.body.crc)

\* The header of a reply announces the bytes that follow it, and their CRC, in
\* network byte order; the send thread is to send exactly the memory of the reply.
\* That is 65008 bytes: the server does not hold the maximum length of a packet
\* (ngx_comm.h:5-6) against its own replies, and this does not either.
ReplyWellFormed ==
  \A d \in taken :
    LET packet == d.reply.packet
    IN  /\ Swap16(packet.msgCode) = CmdRegister
        /\ Swap32(packet.crc32) = packet.body.crc
        /\ d.isendlen = HeaderLen + packet.body.len

\* Only registrations are answered, once, and no answer passes the comparison of
\* the send thread (ngx_c_socket.cxx:520) when the connection has not the client
\* that asked, although it may have changed hands at any time, also after the
\* comparison of the pool thread (ngx_c_slogic.cxx:112).  Nothing is said of the
\* time after the comparison: a thread may then still use the connection of one
\* client for another (NoCrossTalk of ConnPool, a property that does not hold).
AskerThere ==
  /\ \A d \in taken : Valid(d.reply.request.packet) /\ d.to = d.reply.request.client
  /\ \A d, e \in taken : d.reply.request.id = e.reply.request.id => d = e

\* A registration gets a reply into the send queue unless its client leaves: no
\* handler is left waiting for the connection's mutex, or for that of the queue,
\* which the send thread has during its passes.  Whether the reply is then sent is
\* another matter, as a pass may skip it (SkipMessage).
ValidReplied ==
  \A id \in 1..MaxRequests, c \in 1..MaxClients :
    (\E k \in DOMAIN inbox : inbox[k].id = id /\ inbox[k].client = c
                              /\ Valid(inbox[k].packet))
      ~> (\/ client # c \/ ~open
          \/ \E k \in DOMAIN sendQueue : sendQueue[k].request.id = id
          \/ \E d \in taken : d.reply.request.id = id)
=============================================================================
