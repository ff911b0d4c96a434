-------------------------- MODULE SendQueueProofs --------------------------
(***************************************************************************)
(* Theorems about SendQueue, for any number of connections and requests    *)
(* and any number of pieces of a message.                                  *)
(***************************************************************************)
EXTENDS SendQueue, ListLemmas

(* The inductive invariant *)

\* Every request that has not been dropped is somewhere once.
CountInv ==
  \A c \in Conns : readable[c] + jobs[c] + checked[c] + replied[c] <= asked

\* What a place of the send thread or of the event loop says of the message, the
\* connection and the event in hand.
ThreadInv ==
  /\ msg \in Msgs <=> sendpc \in {"throw", "send", "sent", "rest", "watch"}
  /\ sendpc = "throw" => pos <= Len(m_MsgSendQueue) /\ msg = m_MsgSendQueue[pos]
  /\ conn = NoConn <=> mainpc = "wait"
  /\ mainpc = "write" => ev.out
  /\ mainpc # "wait" /\ ev.hup => hungup[conn]
  /\ mainpc = "read" => readable[conn] > 0 \/ ev.hup
  /\ mainpc = "inrecy" => ev.hup
  /\ \A c \in Conns : sock[c] # "open" => hungup[c]

\* The send thread has connection c in hand, the write handler has it past its
\* last piece, or the event loop has an EPOLLOUT for it that it will act upon.
SendHolds(c) == msg[1] = c /\ sendpc \in {"send", "sent", "rest", "watch"}
MainHolds(c) == conn = c /\ mainpc \in {"unwatch", "post", "free", "down"}
MainMay(c) == conn = c /\ mainpc \in {"read", "write"} /\ ev.out /\ ~ev.hup

\* Whatever the client does, iThrowsendCount is 1 as long as the event loop may
\* touch the send fields, and so the send thread does not.
HoldInv ==
  \A c \in Conns :
    /\ SendHolds(c) =>
         psendMemPointer[c] = msg[2] /\ ~MainHolds(c) /\ ~MainMay(c)
    /\ MainHolds(c) \/ MainMay(c) => iThrowsendCount[c] = 1
    /\ MainMay(c) => psendMemPointer[c] # 0

\* As long as the client stays, who has the connection determines its counter,
\* its events and its message.
GuardInv ==
  \A c \in Conns : ~hungup[c] =>
    /\ SendHolds(c) =>
         /\ iThrowsendCount[c] = IF sendpc = "watch" THEN 1 ELSE 0
         /\ ~epollout[c]
         /\ sendpc = "sent" => isendlen[c] = 0
    /\ MainHolds(c) =>
         /\ epollout[c] <=> mainpc = "unwatch"
         /\ psendMemPointer[c] = 0 <=> mainpc = "down"
         /\ isendlen[c] = 0
    /\ ~SendHolds(c) /\ ~MainHolds(c) =>
         /\ psendMemPointer[c] # 0 => iThrowsendCount[c] = 1 /\ epollout[c]
         /\ psendMemPointer[c] = 0 => iThrowsendCount[c] = 0 /\ ~epollout[c]

\* Ranks are given once, so that no new message is one that is allocated.
OwnInv ==
  /\ IsInjective(m_MsgSendQueue)
  /\ Queued \cup Kept \subseteq allocated
  /\ Queued \cap Kept = {}
  /\ \A m \in allocated : m \in Queued \cup Kept \/ hungup[m[1]]
  /\ \A m \in allocated : m[2] <= replied[m[1]]

\* Piece i of a wire belongs to its message number Block(i), from 0.
Block(i) == (i - 1) \div MsgLen

\* The wire of c ends with a whole message or, if a rest is kept, with the first
\* MsgLen - isendlen[c] pieces of its message, the only ones of it.
WholeOrRest(c) ==
  \E q \in Nat :
    /\ psendMemPointer[c] = 0 => Len(wire[c]) = q * MsgLen
    /\ psendMemPointer[c] # 0 =>
         /\ Len(wire[c]) + isendlen[c] = q * MsgLen + MsgLen
         /\ \A i \in 1..Len(wire[c]) :
              wire[c][i] = psendMemPointer[c] <=> i > q * MsgLen

\* What is on the wire has been replied and is not queued any more, and a piece of
\* one message is followed by the next of the same until all MsgLen are there.
Framed(c) ==
  /\ \A i \in 1..Len(wire[c]) :
       wire[c][i] <= replied[c] /\ <<c, wire[c][i]>> \notin Queued
  /\ \A i, j \in 1..Len(wire[c]) :
       wire[c][i] = wire[c][j] <=> Block(i) = Block(j)
  /\ WholeOrRest(c)

WireInv == \A c \in Conns : ~hungup[c] => Framed(c)

IInv ==
  TypeOK /\ CountInv /\ ThreadInv /\ HoldInv /\ GuardInv /\ OwnInv /\ WireInv

-----------------------------------------------------------------------------
(* Types *)

\* The socket takes n pieces of the message that c points to.
LEMMA AcceptsStep ==
  ASSUME TypeOK, NEW c \in Conns, psendMemPointer[c] # 0,
         NEW n \in 1..MsgLen, Accepts(c, n)
  PROVE  /\ wire' \in [Conns -> Seq(1..MaxReqs)]
         /\ isendlen' \in [Conns -> 0..MsgLen]
         /\ isendlen'[c] = isendlen[c] - n
         /\ \A d \in Conns \ {c} :
              wire'[d] = wire[d] /\ isendlen'[d] = isendlen[d]
         /\ Len(wire[c]) \in Nat /\ Len(wire'[c]) = Len(wire[c]) + n
         /\ \A i \in 1..Len(wire[c]) : wire'[c][i] = wire[c][i]
         /\ \A i \in 1..Len(wire'[c]) :
              i > Len(wire[c]) => wire'[c][i] = psendMemPointer[c]
<1>. DEFINE p == psendMemPointer[c]
            pieces == [i \in 1..n |-> p]
<1>1. /\ isendlen \in [Conns -> 0..MsgLen] /\ wire[c] \in Seq(1..MaxReqs)
      /\ wire \in [Conns -> Seq(1..MaxReqs)] /\ p \in 1..MaxReqs /\ n \in Nat
      /\ MsgLen \in Nat
  <2>1. /\ isendlen \in [Conns -> 0..MsgLen] /\ wire \in [Conns -> Seq(1..MaxReqs)]
        /\ psendMemPointer \in [Conns -> 0..MaxReqs] /\ MaxReqs \in Nat
        /\ MsgLen \in Nat
    BY SendQueueAssumption DEF TypeOK
  <2>2. p \in 0..MaxReqs /\ p # 0
    BY <2>1
  <2>3. p \in 1..MaxReqs
    BY <2>1, <2>2
  <2>. QED  BY <2>1, <2>3
<1>2. /\ n \in 1..isendlen[c] /\ wire' = [wire EXCEPT ![c] = @ \o pieces]
      /\ isendlen' = [isendlen EXCEPT ![c] = @ - n]
  BY DEF Accepts
<1>3. /\ pieces \in Seq(1..MaxReqs) /\ Len(pieces) = n
      /\ \A i \in 1..n : pieces[i] = p
  BY <1>1
<1>. HIDE DEF pieces, p
<1>4. /\ wire[c] \o pieces \in Seq(1..MaxReqs)
      /\ Len(wire[c]) \in Nat
      /\ Len(wire[c] \o pieces) = Len(wire[c]) + n
      /\ \A i \in 1..(Len(wire[c]) + n) :
           (wire[c] \o pieces)[i] =
             IF i <= Len(wire[c]) THEN wire[c][i] ELSE pieces[i - Len(wire[c])]
  <2>1. Len(wire[c]) \in Nat
    BY <1>1, LenProperties
  <2>. QED  BY <1>1, <1>3, <2>1, ConcatProperties
<1>5. wire'[c] = wire[c] \o pieces
  BY <1>1, <1>2
<1>6. \A i \in 1..(Len(wire[c]) + n) :
        i > Len(wire[c]) => i - Len(wire[c]) \in 1..n
  BY <1>1, <1>4
<1>7. \A i \in 1..Len(wire'[c]) : i > Len(wire[c]) => wire'[c][i] = p
  BY <1>1, <1>3, <1>4, <1>5, <1>6
<1>8. \A i \in 1..Len(wire[c]) : wire'[c][i] = wire[c][i]
  BY <1>1, <1>4, <1>5
<1>9. /\ wire' \in [Conns -> Seq(1..MaxReqs)]
      /\ \A d \in Conns \ {c} : wire'[d] = wire[d]
  BY <1>1, <1>2, <1>4
<1>10. /\ isendlen'[c] = isendlen[c] - n /\ isendlen' \in [Conns -> 0..MsgLen]
       /\ \A d \in Conns \ {c} : isendlen'[d] = isendlen[d]
  BY <1>1, <1>2
<1>. QED  BY <1>4, <1>5, <1>7, <1>8, <1>9, <1>10 DEF p

\* The message at the place of the pass leaves the queue.
LEMMA RemoveStep ==
  ASSUME TypeOK, OwnInv, NEW i \in 1..Len(m_MsgSendQueue),
         m_MsgSendQueue' = RemoveAt(m_MsgSendQueue, i)
  PROVE  /\ m_MsgSendQueue[i] \in Msgs /\ m_MsgSendQueue[i] \in Queued
         /\ m_MsgSendQueue' \in Seq(Msgs) /\ IsInjective(m_MsgSendQueue')
         /\ Queued' = Queued \ {m_MsgSendQueue[i]}
<1>1. m_MsgSendQueue \in Seq(Msgs) /\ IsInjective(m_MsgSendQueue)
  BY DEF TypeOK, OwnInv
<1>. QED  BY <1>1, RemoveFromList DEF Queued

\* The two threads act upon connections and messages that exist.
LEMMA InHand ==
  ASSUME TypeOK, ThreadInv, HoldInv
  PROVE  /\ sendpc \in {"throw", "send", "sent", "rest", "watch"} =>
              msg[1] \in Conns /\ msg[2] \in 1..MaxReqs /\ msg = <<msg[1], msg[2]>>
         /\ sendpc \in {"send", "sent", "rest", "watch"} =>
              SendHolds(msg[1]) /\ psendMemPointer[msg[1]] = msg[2]
         /\ mainpc # "wait" => conn \in Conns
         /\ mainpc = "write" /\ ~ev.hup => MainMay(conn)
         /\ mainpc \in {"unwatch", "post", "free", "down"} => MainHolds(conn)
         /\ sendpc = "throw" => pos \in 1..Len(m_MsgSendQueue)
<1>. USE DEF TypeOK, ThreadInv
<1>1. ASSUME sendpc \in {"throw", "send", "sent", "rest", "watch"}
      PROVE  msg[1] \in Conns /\ msg[2] \in 1..MaxReqs /\ msg = <<msg[1], msg[2]>>
  <2>1. msg \in Conns \X (1..MaxReqs)
    BY <1>1 DEF Msgs
  <2>. QED  BY <2>1
<1>2. ASSUME sendpc \in {"send", "sent", "rest", "watch"}
      PROVE  SendHolds(msg[1]) /\ psendMemPointer[msg[1]] = msg[2]
  BY <1>1, <1>2 DEF SendHolds, HoldInv
<1>3. mainpc # "wait" => conn \in Conns
  OBVIOUS
<1>4. mainpc = "write" /\ ~ev.hup => MainMay(conn)
  BY DEF MainMay
<1>5. mainpc \in {"unwatch", "post", "free", "down"} => MainHolds(conn)
  BY DEF MainHolds
<1>6. ASSUME sendpc = "throw" PROVE pos \in 1..Len(m_MsgSendQueue)
  <2>1. Len(m_MsgSendQueue) \in Nat
    BY LenProperties
  <2>. QED  BY <2>1, <1>6
<1>. QED  BY <1>1, <1>2, <1>3, <1>4, <1>5, <1>6

\* The event loop is done with its event, or goes on with it.
LEMMA EventTypes ==
  ASSUME TypeOK, DoneWithEvent \/ (mainpc \in {"read", "inrecy"} /\ AfterRead)
  PROVE  /\ mainpc' \in {"wait", "write"} /\ ev' \in [out : BOOLEAN, hup : BOOLEAN]
         /\ conn' \in Conns \cup {NoConn}
<1>1. CASE DoneWithEvent
  BY <1>1 DEF DoneWithEvent, NoEvent
<1>2. CASE ev.out /\ mainpc' = "write" /\ UNCHANGED <<ev, conn>>
  BY <1>2 DEF TypeOK
<1>. QED  BY <1>1, <1>2 DEF AfterRead

\* Every step leaves the variables in their types.
LEMMA TypeStep ==
  ASSUME TypeOK, CountInv, ThreadInv, HoldInv, OwnInv, Next
  PROVE  TypeOK'
<1>. USE SendQueueAssumption
<1>. USE DEF queueVars, slotVars, clientVars, poolVars, sendVars, mainVars
<1>1. /\ MaxReqs \in Nat /\ MsgLen \in Nat /\ MsgLen \in 0..MsgLen
      /\ NoMsg \in Msgs \cup {NoMsg}
      /\ 0 \in 0..MaxReqs /\ 0 \in Int /\ 1 \in Nat \ {0}
  OBVIOUS
<1>2. ASSUME NEW c \in Conns
      PROVE  /\ readable[c] \in Nat /\ jobs[c] \in Nat /\ checked[c] \in Nat
             /\ replied[c] \in Nat /\ asked \in Nat /\ asked <= MaxReqs
             /\ readable[c] + jobs[c] + checked[c] + replied[c] <= asked
  BY <1>1 DEF TypeOK, CountInv
<1>3. ASSUME NEW c \in Conns, Request(c) PROVE TypeOK'
  <2>1. readable[c] + 1 \in 0..MaxReqs /\ asked + 1 \in 0..MaxReqs
    BY <1>1, <1>2, <1>3 DEF Request
  <2>. QED  BY <2>1, <1>3 DEF TypeOK, Request
<1>4. ASSUME NEW c \in Conns, HangUp(c) PROVE TypeOK'
  BY <1>4 DEF TypeOK, HangUp
<1>5. ASSUME NEW c \in Conns, DropRequest(c) PROVE TypeOK'
  <2>1. jobs[c] - 1 \in 0..MaxReqs
    BY <1>1, <1>2, <1>5 DEF DropRequest
  <2>. QED  BY <2>1, <1>5 DEF TypeOK, DropRequest
<1>6. ASSUME NEW c \in Conns, CheckSequence(c) PROVE TypeOK'
  <2>1. jobs[c] - 1 \in 0..MaxReqs /\ checked[c] + 1 \in 0..MaxReqs
    BY <1>1, <1>2, <1>6 DEF CheckSequence
  <2>. QED  BY <2>1, <1>6 DEF TypeOK, CheckSequence
<1>7. ASSUME NEW c \in Conns, MsgSend(c) PROVE TypeOK'
  <2>1. checked[c] - 1 \in 0..MaxReqs /\ replied[c] + 1 \in 1..MaxReqs
    <3>1. checked[c] > 0
      BY <1>7 DEF MsgSend
    <3>. QED  BY <3>1, <1>1, <1>2
  <2>2. <<c, replied[c] + 1>> \in Msgs
    BY <2>1 DEF Msgs
  <2>3. Append(m_MsgSendQueue, <<c, replied[c] + 1>>) \in Seq(Msgs)
    BY <2>2, AppendProperties DEF TypeOK
  <2>4. m_semEventSendQueue + 1 \in Nat /\ replied[c] + 1 \in 0..MaxReqs
    BY <2>1 DEF TypeOK
  <2>. QED  BY <2>1, <2>2, <2>3, <2>4, <1>7 DEF TypeOK, MsgSend
<1>8. CASE SemWait
  <2>1. m_semEventSendQueue - 1 \in Nat
    BY <1>8 DEF SemWait, TypeOK
  <2>. QED  BY <2>1, <1>8 DEF TypeOK, SemWait
<1>9. CASE StartPass
  BY <1>9 DEF TypeOK, StartPass
<1>10. CASE EndPass
  <2>1. /\ sendpc' = "sem" /\ pos' = 1
        /\ UNCHANGED <<queueVars, slotVars, clientVars, poolVars, msg, mainVars,
                       iThrowsendCount, epollout, current, sock, wire, allocated>>
    BY <1>10 DEF EndPass
  <2>. QED  BY <2>1, <1>1 DEF TypeOK
<1>11. CASE DropMessage
  <2>1. pos \in 1..Len(m_MsgSendQueue)
    BY <1>11, LenProperties DEF DropMessage, TypeOK
  <2>2. m_MsgSendQueue' \in Seq(Msgs)
    BY <2>1, <1>11, RemoveStep DEF DropMessage
  <2>. QED  BY <2>2, <1>11 DEF TypeOK, DropMessage
<1>12. CASE KeepMessage
  <2>1. m_MsgSendQueue[pos] \in Msgs
    BY <1>12, LenProperties, ElementOfSeq DEF KeepMessage, TypeOK
  <2>. QED  BY <2>1, <1>12 DEF TypeOK, KeepMessage
<1>13. CASE SkipMessage
  <2>1. pos + 1 \in Nat \ {0}
    BY DEF TypeOK
  <2>. QED  BY <2>1, <1>1, <1>13 DEF TypeOK, SkipMessage
<1>14. CASE TakeMessage
  <2>1. m_MsgSendQueue' \in Seq(Msgs)
    BY <1>14, RemoveStep, InHand DEF TakeMessage
  <2>2. msg[1] \in Conns /\ msg[2] \in 0..MaxReqs
    BY <1>14, InHand DEF TakeMessage
  <2>. QED  BY <1>1, <2>1, <2>2, <1>14 DEF TypeOK, TakeMessage
<1>15. CASE SendMessage
  <2>1. msg[1] \in Conns /\ psendMemPointer[msg[1]] # 0
    BY <1>15, InHand DEF SendMessage
  <2>2. wire' \in [Conns -> Seq(1..MaxReqs)] /\ isendlen' \in [Conns -> 0..MsgLen]
    BY <1>15, <2>1, AcceptsStep DEF SendMessage, TypeOK
  <2>. QED  BY <2>2, <1>15 DEF TypeOK, SendMessage
<1>16. CASE FinishMessage
  <2>1. allocated' \subseteq Msgs
    BY <1>16 DEF TypeOK, FinishMessage
  <2>2. /\ psendMemPointer' \in [Conns -> 0..MaxReqs]
        /\ iThrowsendCount' \in [Conns -> Int]
    BY <1>1, <1>16 DEF TypeOK, FinishMessage
  <2>. QED  BY <2>1, <2>2, <1>1, <1>16 DEF TypeOK, FinishMessage
<1>17. CASE ThrowUp
  <2>1. msg[1] \in Conns /\ iThrowsendCount \in [Conns -> Int]
    BY <1>17, InHand DEF TypeOK, ThrowUp
  <2>2. iThrowsendCount' \in [Conns -> Int]
    <3>1. iThrowsendCount[msg[1]] + 1 \in Int
      BY <2>1
    <3>. QED  BY <1>17, <2>1, <3>1 DEF ThrowUp
  <2>. QED  BY <1>17, <2>2 DEF TypeOK, ThrowUp
<1>18. CASE WatchOut
  BY <1>1, <1>18 DEF TypeOK, WatchOut
<1>19. CASE SemInterrupted
  BY <1>19 DEF TypeOK, SemInterrupted
<1>20. ASSUME NEW c \in Conns, NEW out \in BOOLEAN, EpollWait(c, out) PROVE TypeOK'
  BY <1>20 DEF TypeOK, EpollWait
<1>21. CASE ReadRequest
  <2>1. conn \in Conns
    BY <1>21, InHand DEF ReadRequest
  <2>2. readable[conn] - 1 \in 0..MaxReqs /\ jobs[conn] + 1 \in 0..MaxReqs
    BY <1>1, <1>2, <1>21, <2>1 DEF ReadRequest
  <2>3. /\ mainpc' \in {"wait", "write"} /\ ev' \in [out : BOOLEAN, hup : BOOLEAN]
        /\ conn' \in Conns \cup {NoConn}
    BY <1>21, EventTypes DEF ReadRequest
  <2>. QED  BY <2>2, <2>3, <1>21 DEF TypeOK, ReadRequest
<1>22. CASE ReadEnd
  BY <1>22 DEF TypeOK, ReadEnd
<1>23. CASE InRecyConnectQueue
  <2>1. /\ mainpc' \in {"wait", "write"} /\ ev' \in [out : BOOLEAN, hup : BOOLEAN]
        /\ conn' \in Conns \cup {NoConn}
    BY <1>23, EventTypes DEF InRecyConnectQueue
  <2>. QED  BY <2>1, <1>23 DEF TypeOK, InRecyConnectQueue
<1>24. CASE HupThrowDown
  <2>1. conn \in Conns
    BY <1>24, InHand DEF HupThrowDown
  <2>2. iThrowsendCount[conn] - 1 \in Int
    BY <2>1 DEF TypeOK
  <2>3. /\ mainpc' \in {"wait", "write"} /\ ev' \in [out : BOOLEAN, hup : BOOLEAN]
        /\ conn' \in Conns \cup {NoConn}
    BY <1>24, EventTypes DEF HupThrowDown
  <2>. QED  BY <2>2, <2>3, <1>24 DEF TypeOK, HupThrowDown
<1>25. CASE WriteRest
  <2>1. conn \in Conns /\ psendMemPointer[conn] # 0
    BY <1>25, InHand DEF WriteRest, HoldInv
  <2>2. wire' \in [Conns -> Seq(1..MaxReqs)] /\ isendlen' \in [Conns -> 0..MsgLen]
    BY <1>25, <2>1, AcceptsStep DEF WriteRest
  <2>3. DoneWithEvent \/ (mainpc' = "unwatch" /\ UNCHANGED <<ev, conn>>)
    <3>1. PICK n \in 1..MsgLen :
            \/ n < isendlen[conn] /\ DoneWithEvent
            \/ n = isendlen[conn] /\ mainpc' = "unwatch" /\ UNCHANGED <<ev, conn>>
      BY <1>25 DEF WriteRest
    <3>. QED  BY <3>1
  <2>4. /\ mainpc' \in {"wait", "write", "unwatch"} /\ conn' \in Conns \cup {NoConn}
        /\ ev' \in [out : BOOLEAN, hup : BOOLEAN]
    BY <2>3, EventTypes DEF TypeOK
  <2>5. UNCHANGED <<queueVars, psendMemPointer, clientVars, poolVars, sendVars,
                    iThrowsendCount, epollout, current, sock, allocated>>
    BY <1>25 DEF WriteRest
  <2>. QED  BY <2>2, <2>4, <2>5 DEF TypeOK
<1>26. CASE WriteIsFull
  <2>1. /\ mainpc' \in {"wait", "write"} /\ ev' \in [out : BOOLEAN, hup : BOOLEAN]
        /\ conn' \in Conns \cup {NoConn}
    BY <1>26, EventTypes DEF WriteIsFull
  <2>. QED  BY <2>1, <1>26 DEF TypeOK, WriteIsFull
<1>27. CASE WriteFails
  BY <1>27 DEF TypeOK, WriteFails
<1>28. CASE Unwatch
  BY <1>28 DEF TypeOK, Unwatch
<1>29. CASE PostSem
  <2>1. m_semEventSendQueue + 1 \in Nat
    BY DEF TypeOK
  <2>. QED  BY <2>1, <1>29 DEF TypeOK, PostSem
<1>30. CASE FreeRest
  <2>1. allocated' \subseteq Msgs
    BY <1>30 DEF TypeOK, FreeRest
  <2>2. /\ psendMemPointer' \in [Conns -> 0..MaxReqs]
        /\ iThrowsendCount' \in [Conns -> Int]
    BY <1>1, <1>30 DEF TypeOK, FreeRest
  <2>. QED  BY <2>1, <2>2, <1>1, <1>30 DEF TypeOK, FreeRest
<1>31. CASE ThrowDown
  <2>1. conn \in Conns
    BY <1>31, InHand DEF ThrowDown
  <2>2. iThrowsendCount[conn] - 1 \in Int
    BY <2>1 DEF TypeOK
  <2>3. /\ mainpc' \in {"wait", "write"} /\ ev' \in [out : BOOLEAN, hup : BOOLEAN]
        /\ conn' \in Conns \cup {NoConn}
    BY <1>31, EventTypes DEF ThrowDown
  <2>. QED  BY <2>2, <2>3, <1>31 DEF TypeOK, ThrowDown
<1>32. ASSUME NEW c \in Conns, Recycle(c) PROVE TypeOK'
  <2>1. allocated' \subseteq Msgs
    BY <1>32 DEF TypeOK, Recycle
  <2>2. /\ psendMemPointer' \in [Conns -> 0..MaxReqs]
        /\ iThrowsendCount' \in [Conns -> Int]
    BY <1>1, <1>32 DEF TypeOK, Recycle
  <2>. QED  BY <2>1, <2>2, <1>1, <1>32 DEF TypeOK, Recycle
<1>. QED
  BY <1>3, <1>4, <1>5, <1>6, <1>7, <1>8, <1>9, <1>10, <1>11, <1>12, <1>13, <1>14,
     <1>15, <1>16, <1>17, <1>18, <1>19, <1>20, <1>21, <1>22, <1>23, <1>24, <1>25,
     <1>26, <1>27, <1>28, <1>29, <1>30, <1>31, <1>32
  DEF Next, SendStep, HandlerStep

\* A request moves on from place to place, or is dropped.
LEMMA CountStep ==
  ASSUME TypeOK, CountInv, ThreadInv, Next
  PROVE  CountInv'
<1>. SUFFICES ASSUME NEW d \in Conns
              PROVE  (readable[d] + jobs[d] + checked[d] + replied[d] <= asked)'
  BY DEF CountInv
<1>. USE SendQueueAssumption
<1>. USE DEF queueVars, slotVars, clientVars, poolVars, sendVars, mainVars
<1>1. /\ readable \in [Conns -> 0..MaxReqs] /\ jobs \in [Conns -> 0..MaxReqs]
      /\ checked \in [Conns -> 0..MaxReqs] /\ replied \in [Conns -> 0..MaxReqs]
      /\ asked \in 0..MaxReqs /\ MaxReqs \in Nat
      /\ readable[d] + jobs[d] + checked[d] + replied[d] <= asked
  BY DEF TypeOK, CountInv
<1>2. ASSUME NEW c \in Conns, Request(c)
      PROVE  (readable[d] + jobs[d] + checked[d] + replied[d] <= asked)'
  BY <1>1, <1>2 DEF Request
<1>3. ASSUME NEW c \in Conns, DropRequest(c)
      PROVE  (readable[d] + jobs[d] + checked[d] + replied[d] <= asked)'
  BY <1>1, <1>3 DEF DropRequest
<1>4. ASSUME NEW c \in Conns, CheckSequence(c)
      PROVE  (readable[d] + jobs[d] + checked[d] + replied[d] <= asked)'
  BY <1>1, <1>4 DEF CheckSequence
<1>5. ASSUME NEW c \in Conns, MsgSend(c)
      PROVE  (readable[d] + jobs[d] + checked[d] + replied[d] <= asked)'
  <2>1. /\ checked' = [checked EXCEPT ![c] = @ - 1] /\ readable' = readable
        /\ replied' = [replied EXCEPT ![c] = @ + 1] /\ jobs' = jobs /\ asked' = asked
    BY <1>5 DEF MsgSend
  <2>. QED  BY <1>1, <2>1
<1>6. CASE ReadRequest
  <2>1. conn \in Conns
    BY <1>6 DEF ReadRequest, TypeOK, ThreadInv
  <2>. QED  BY <1>1, <1>6, <2>1 DEF ReadRequest
<1>7. CASE UNCHANGED <<readable, asked, poolVars>>
  BY <1>1, <1>7
<1>8. ASSUME NEW c \in Conns,
             HangUp(c) \/ Recycle(c) \/ (\E out \in BOOLEAN : EpollWait(c, out))
      PROVE  UNCHANGED <<readable, asked, poolVars>>
  BY <1>8 DEF HangUp, Recycle, EpollWait
<1>9. ASSUME SendStep \/ SemInterrupted
      PROVE  UNCHANGED <<readable, asked, poolVars>>
  BY <1>9 DEF SendStep, SemInterrupted, SemWait, StartPass, EndPass, DropMessage,
     KeepMessage, SkipMessage, TakeMessage, SendMessage, FinishMessage, ThrowUp,
     WatchOut
<1>10. ASSUME HandlerStep, ~ReadRequest
       PROVE  UNCHANGED <<readable, asked, poolVars>>
  BY <1>10 DEF HandlerStep, ReadEnd, InRecyConnectQueue, HupThrowDown, WriteRest,
     WriteIsFull, WriteFails, Unwatch, PostSem, FreeRest, ThrowDown
<1>. QED
  BY <1>2, <1>3, <1>4, <1>5, <1>6, <1>7, <1>8, <1>9, <1>10 DEF Next

\* What a place of a thread says stays so until the thread moves on: nobody else
\* changes the queue during a pass, or reads from the event loop's connection.
LEMMA ThreadStep ==
  ASSUME TypeOK, ThreadInv, Next, TypeOK'
  PROVE  ThreadInv'
<1>. USE SendQueueAssumption
<1>. USE DEF queueVars, slotVars, clientVars, poolVars, sendVars, mainVars
<1>1. NoMsg \notin Msgs /\ (mainpc # "wait" => conn \in Conns)
  BY DEF NoMsg, Msgs, TypeOK, ThreadInv
<1>2. ASSUME NEW c \in Conns, Request(c) PROVE ThreadInv'
  <2>1. mainpc = "read" /\ readable[conn] > 0 => readable'[conn] > 0
    BY <1>1, <1>2 DEF Request, TypeOK
  <2>. QED  BY <1>2, <2>1 DEF ThreadInv, Request
<1>3. ASSUME NEW c \in Conns, HangUp(c) PROVE ThreadInv'
  <2>1. \A d \in Conns : hungup[d] => hungup'[d]
    BY <1>3 DEF HangUp, TypeOK
  <2>. QED  BY <1>1, <1>3, <2>1 DEF ThreadInv, HangUp
<1>4. ASSUME NEW c \in Conns, DropRequest(c) \/ CheckSequence(c) PROVE ThreadInv'
  BY <1>4 DEF ThreadInv, DropRequest, CheckSequence
<1>5. ASSUME NEW c \in Conns, MsgSend(c) PROVE ThreadInv'
  <2>1. sendpc' # "throw"
    BY <1>5 DEF MsgSend
  <2>2. /\ sendpc' = sendpc /\ msg' = msg /\ conn' = conn /\ mainpc' = mainpc
        /\ ev' = ev /\ hungup' = hungup /\ readable' = readable /\ sock' = sock
    BY <1>5 DEF MsgSend
  <2>. QED  BY <2>1, <2>2 DEF ThreadInv
<1>6. CASE SemWait \/ SemInterrupted
  BY <1>6 DEF ThreadInv, SemWait, SemInterrupted
<1>7. CASE StartPass
  BY <1>7 DEF ThreadInv, StartPass
<1>8. CASE EndPass
  <2>1. /\ sendpc = "scan" /\ sendpc' = "sem" /\ msg' = msg /\ UNCHANGED mainVars
        /\ hungup' = hungup /\ readable' = readable /\ sock' = sock
    BY <1>8 DEF EndPass
  <2>. QED  BY <2>1 DEF ThreadInv
<1>9. CASE DropMessage
  <2>1. /\ sendpc = "scan" /\ UNCHANGED sendVars /\ UNCHANGED mainVars
        /\ hungup' = hungup /\ readable' = readable /\ sock' = sock
    BY <1>9 DEF DropMessage
  <2>. QED  BY <2>1 DEF ThreadInv
<1>10. CASE KeepMessage
  <2>1. m_MsgSendQueue[pos] \in Msgs
    BY <1>10, LenProperties, ElementOfSeq DEF KeepMessage, TypeOK
  <2>. QED  BY <1>10, <2>1 DEF ThreadInv, KeepMessage
<1>11. CASE SkipMessage
  BY <1>1, <1>11 DEF ThreadInv, SkipMessage
<1>12. CASE TakeMessage
  <2>1. /\ sendpc = "throw" /\ sendpc' = "send" /\ msg' = msg /\ UNCHANGED mainVars
        /\ hungup' = hungup /\ readable' = readable /\ sock' = sock
    BY <1>12 DEF TakeMessage
  <2>. QED  BY <2>1 DEF ThreadInv
<1>13. CASE SendMessage
  <2>1. /\ sendpc = "send" /\ sendpc' \in {"sent", "rest"} /\ msg' = msg
        /\ UNCHANGED mainVars /\ hungup' = hungup /\ readable' = readable
        /\ sock' = sock
    BY <1>13 DEF SendMessage
  <2>. QED  BY <2>1 DEF ThreadInv
<1>14. CASE FinishMessage
  BY <1>1, <1>14 DEF ThreadInv, FinishMessage
<1>15. CASE ThrowUp
  BY <1>15 DEF ThreadInv, ThrowUp
<1>16. CASE WatchOut
  BY <1>1, <1>16 DEF ThreadInv, WatchOut
<1>17. ASSUME NEW c \in Conns, NEW out \in BOOLEAN, EpollWait(c, out) PROVE ThreadInv'
  BY <1>17 DEF ThreadInv, EpollWait, TypeOK
<1>18. CASE ReadRequest
  BY <1>1, <1>18 DEF ThreadInv, ReadRequest, AfterRead, DoneWithEvent, NoEvent
<1>19. CASE ReadEnd
  BY <1>1, <1>19 DEF ThreadInv, ReadEnd, TypeOK
<1>20. CASE InRecyConnectQueue
  BY <1>1, <1>20
  DEF ThreadInv, InRecyConnectQueue, AfterRead, DoneWithEvent, NoEvent
<1>21. CASE HupThrowDown
  BY <1>21 DEF ThreadInv, HupThrowDown, DoneWithEvent, NoEvent
<1>22. CASE WriteRest
  <2>1. \/ mainpc' = "wait" /\ conn' = NoConn
        \/ mainpc' = "unwatch" /\ UNCHANGED <<ev, conn>>
    BY <1>22 DEF WriteRest, DoneWithEvent
  <2>2. /\ mainpc = "write" /\ UNCHANGED queueVars /\ UNCHANGED sendVars
        /\ hungup' = hungup /\ readable' = readable /\ sock' = sock
    BY <1>22 DEF WriteRest
  <2>. QED  BY <2>1, <2>2 DEF ThreadInv
<1>23. CASE WriteIsFull
  BY <1>23 DEF ThreadInv, WriteIsFull, DoneWithEvent, NoEvent
<1>24. CASE WriteFails
  BY <1>24 DEF ThreadInv, WriteFails
<1>25. CASE Unwatch \/ PostSem \/ FreeRest
  BY <1>25 DEF ThreadInv, Unwatch, PostSem, FreeRest
<1>26. CASE ThrowDown
  BY <1>26 DEF ThreadInv, ThrowDown, DoneWithEvent, NoEvent
<1>27. ASSUME NEW c \in Conns, Recycle(c) PROVE ThreadInv'
  <2>1. /\ \A d \in Conns : sock'[d] # "open" => sock[d] # "open"
        /\ UNCHANGED queueVars /\ UNCHANGED sendVars /\ UNCHANGED mainVars
        /\ hungup' = hungup /\ readable' = readable
    BY <1>27 DEF Recycle, TypeOK
  <2>. QED  BY <2>1 DEF ThreadInv
<1>. QED
  BY <1>2, <1>3, <1>4, <1>5, <1>6, <1>7, <1>8, <1>9, <1>10, <1>11, <1>12, <1>13,
     <1>14, <1>15, <1>16, <1>17, <1>18, <1>19, <1>20, <1>21, <1>22, <1>23, <1>24,
     <1>25, <1>26, <1>27
  DEF Next, SendStep, HandlerStep

\* iThrowsendCount keeps the two threads apart: the send thread takes a connection
\* only when it is not above 0, and the event loop acts upon an EPOLLOUT that was
\* watched, which it is only while the counter is 1.
LEMMA HoldStep ==
  ASSUME TypeOK, ThreadInv, HoldInv, GuardInv, Next
  PROVE  HoldInv'
<1>. DEFINE Hold(d) ==
       /\ SendHolds(d) => psendMemPointer[d] = msg[2] /\ ~MainHolds(d) /\ ~MainMay(d)
       /\ MainHolds(d) \/ MainMay(d) => iThrowsendCount[d] = 1
       /\ MainMay(d) => psendMemPointer[d] # 0
<1>. SUFFICES ASSUME NEW d \in Conns PROVE Hold(d)'
  BY DEF HoldInv
<1>. USE SendQueueAssumption
<1>. USE DEF queueVars, slotVars, clientVars, poolVars, sendVars, mainVars
<1>1. /\ psendMemPointer \in [Conns -> 0..MaxReqs]
      /\ iThrowsendCount \in [Conns -> Int]
  BY DEF TypeOK
<1>2. Hold(d)
  BY DEF HoldInv
<1>. USE DEF SendHolds, MainHolds, MainMay
<1>3. ASSUME NEW c \in Conns,
             Request(c) \/ HangUp(c) \/ DropRequest(c) \/ CheckSequence(c) \/ MsgSend(c)
      PROVE  Hold(d)'
  <2>1. UNCHANGED <<sendVars, mainVars, psendMemPointer, iThrowsendCount>>
    BY <1>3 DEF Request, HangUp, DropRequest, CheckSequence, MsgSend
  <2>. QED  BY <2>1, <1>2
<1>4. CASE \/ SemWait \/ SemInterrupted \/ StartPass \/ EndPass \/ DropMessage
           \/ KeepMessage \/ SkipMessage
  <2>1. /\ UNCHANGED <<mainVars, psendMemPointer, iThrowsendCount>>
        /\ sendpc' \in {"sem", "count", "scan", "throw"}
    BY <1>4 DEF SemWait, SemInterrupted, StartPass, EndPass, DropMessage, KeepMessage,
       SkipMessage
  <2>. QED  BY <2>1, <1>2
<1>5. CASE TakeMessage
  <2>1. /\ iThrowsendCount[msg[1]] <= 0 /\ sendpc' = "send" /\ msg[1] \in Conns
        /\ psendMemPointer' = [psendMemPointer EXCEPT ![msg[1]] = msg[2]]
        /\ UNCHANGED <<mainVars, msg, iThrowsendCount>> /\ sendpc = "throw"
    BY <1>5, InHand DEF TakeMessage
  <2>2. CASE d = msg[1]
    <3>1. ~MainHolds(d) /\ ~MainMay(d)
      BY <1>2, <2>1, <2>2
    <3>. QED  BY <1>1, <2>1, <2>2, <3>1
  <2>3. CASE d # msg[1]
    BY <1>1, <1>2, <2>1, <2>3
  <2>. QED  BY <2>2, <2>3
<1>6. CASE SendMessage
  <2>1. /\ UNCHANGED <<mainVars, msg, psendMemPointer, iThrowsendCount>>
        /\ sendpc = "send" /\ sendpc' \in {"sent", "rest"}
    BY <1>6 DEF SendMessage
  <2>. QED  BY <2>1, <1>2
<1>7. CASE FinishMessage
  <2>1. /\ UNCHANGED mainVars /\ sendpc' = "scan" /\ SendHolds(msg[1])
        /\ psendMemPointer' = [psendMemPointer EXCEPT ![msg[1]] = 0]
        /\ iThrowsendCount' = [iThrowsendCount EXCEPT ![msg[1]] = 0]
    BY <1>7 DEF FinishMessage
  <2>2. CASE d = msg[1]
    BY <1>2, <2>1, <2>2
  <2>3. CASE d # msg[1]
    BY <1>1, <1>2, <2>1, <2>3
  <2>. QED  BY <2>2, <2>3
<1>8. CASE ThrowUp
  <2>1. /\ UNCHANGED <<mainVars, msg, psendMemPointer>> /\ SendHolds(msg[1])
        /\ sendpc = "rest" /\ sendpc' = "watch"
        /\ iThrowsendCount' = [iThrowsendCount EXCEPT ![msg[1]] = @ + 1]
    BY <1>8 DEF ThrowUp
  <2>2. CASE d = msg[1]
    BY <1>2, <2>1, <2>2
  <2>3. CASE d # msg[1]
    BY <1>1, <1>2, <2>1, <2>3
  <2>. QED  BY <2>2, <2>3
<1>9. CASE WatchOut
  BY <1>2, <1>9 DEF WatchOut
<1>10. ASSUME NEW c \in Conns, NEW out \in BOOLEAN, EpollWait(c, out) PROVE Hold(d)'
  <2>1. /\ UNCHANGED <<sendVars, psendMemPointer, iThrowsendCount>>
        /\ mainpc = "wait" /\ conn = NoConn /\ conn' = c
        /\ mainpc' \in {"read", "write"}
        /\ ev' = [out |-> out, hup |-> hungup[c]]
        /\ out => epollout[c]
    BY <1>10 DEF EpollWait, ThreadInv
  <2>2. ~MainHolds(d)'
    BY <2>1
  <2>3. ASSUME MainMay(d)'
        PROVE  iThrowsendCount[d] = 1 /\ psendMemPointer[d] # 0 /\ ~SendHolds(d)
    <3>1. d = c /\ ev'.out /\ ~ev'.hup
      BY <2>1, <2>3
    <3>2. ev' = [out |-> out, hup |-> hungup[c]]
      BY <2>1
    <3>3. ev'.out = out /\ ev'.hup = hungup[c]
      BY <3>2, Zenon
    <3>4. out /\ ~hungup[c]
      BY <3>1, <3>3
    <3>5. ~hungup[d] /\ epollout[d] /\ ~MainHolds(d)
      BY <2>1, <3>1, <3>4
    <3>. QED  BY <3>5 DEF GuardInv
  <2>4. SendHolds(d)' = SendHolds(d) /\ msg' = msg
    BY <2>1
  <2>. QED  BY <1>2, <2>1, <2>2, <2>3, <2>4
<1>11. CASE ReadRequest
  BY <1>2, <1>11 DEF ReadRequest, AfterRead, DoneWithEvent
<1>12. CASE ReadEnd
  BY <1>2, <1>12 DEF ReadEnd
<1>13. CASE InRecyConnectQueue
  <2>1. ev.hup
    BY <1>13 DEF InRecyConnectQueue, ThreadInv
  <2>2. mainpc' = "wait" \/ (mainpc' = "write" /\ ev' = ev)
    BY <1>13 DEF InRecyConnectQueue, AfterRead, DoneWithEvent
  <2>3. UNCHANGED <<sendVars, psendMemPointer, iThrowsendCount>>
    BY <1>13 DEF InRecyConnectQueue
  <2>. QED  BY <1>2, <2>1, <2>2, <2>3
<1>14. CASE HupThrowDown \/ ThrowDown
  <2>1. mainpc' = "wait" /\ UNCHANGED <<sendVars, psendMemPointer>>
    BY <1>14 DEF HupThrowDown, ThrowDown, DoneWithEvent
  <2>. QED  BY <1>2, <2>1
<1>15. CASE WriteRest
  <2>1. \/ mainpc' = "wait"
        \/ mainpc' = "unwatch" /\ UNCHANGED <<ev, conn>>
    BY <1>15 DEF WriteRest, DoneWithEvent
  <2>2. /\ UNCHANGED <<sendVars, psendMemPointer, iThrowsendCount>>
        /\ mainpc = "write" /\ ~ev.hup /\ ev.out
    BY <1>15 DEF WriteRest, ThreadInv
  <2>. QED  BY <1>2, <2>1, <2>2
<1>16. CASE WriteIsFull
  BY <1>2, <1>16 DEF WriteIsFull, DoneWithEvent
<1>17. CASE WriteFails
  BY <1>2, <1>17 DEF WriteFails, ThreadInv
<1>18. CASE Unwatch \/ PostSem
  BY <1>2, <1>18 DEF Unwatch, PostSem
<1>19. CASE FreeRest
  <2>1. /\ UNCHANGED <<sendVars, conn, iThrowsendCount>> /\ conn \in Conns
        /\ psendMemPointer' = [psendMemPointer EXCEPT ![conn] = 0]
        /\ mainpc = "free" /\ mainpc' = "down"
    BY <1>19, InHand DEF FreeRest
  <2>2. CASE d = conn
    BY <1>2, <2>1, <2>2
  <2>3. CASE d # conn
    BY <1>1, <1>2, <2>1, <2>3
  <2>. QED  BY <2>2, <2>3
<1>20. ASSUME NEW c \in Conns, Recycle(c) PROVE Hold(d)'
  <2>1. /\ UNCHANGED <<sendVars, mainVars>> /\ msg[1] # c /\ conn # c
        /\ psendMemPointer' = [psendMemPointer EXCEPT ![c] = 0]
        /\ iThrowsendCount' = [iThrowsendCount EXCEPT ![c] = 0]
    BY <1>20 DEF Recycle, InUse
  <2>. QED  BY <1>1, <1>2, <2>1
<1>. QED
  BY <1>3, <1>4, <1>5, <1>6, <1>7, <1>8, <1>9, <1>10, <1>11, <1>12, <1>13, <1>14,
     <1>15, <1>16, <1>17, <1>18, <1>19, <1>20
  DEF Next, SendStep, HandlerStep

\* Nobody comes back.
LEMMA HungUpStays ==
  ASSUME TypeOK, Next, NEW c \in Conns, hungup[c]
  PROVE  hungup'[c]
<1>1. ASSUME NEW d \in Conns, HangUp(d) PROVE hungup'[c]
  BY <1>1 DEF HangUp, TypeOK
<1>2. CASE UNCHANGED hungup
  BY <1>2
<1>. QED
  BY <1>1, <1>2 DEF Next, clientVars, Request, DropRequest, CheckSequence, MsgSend,
     SendStep, SemInterrupted, SemWait, StartPass, EndPass, DropMessage, KeepMessage,
     SkipMessage, TakeMessage, SendMessage, FinishMessage, ThrowUp, WatchOut,
     EpollWait, HandlerStep, ReadRequest, ReadEnd, InRecyConnectQueue, HupThrowDown,
     WriteRest, WriteIsFull, WriteFails, Unwatch, PostSem, FreeRest, ThrowDown,
     Recycle

\* The counter goes up before EPOLLOUT is watched and down after it is not.
LEMMA GuardStep ==
  ASSUME TypeOK, ThreadInv, HoldInv, GuardInv, Next
  PROVE  GuardInv'
<1>. DEFINE Guard(d) ==
       /\ SendHolds(d) =>
            /\ iThrowsendCount[d] = IF sendpc = "watch" THEN 1 ELSE 0
            /\ ~epollout[d]
            /\ sendpc = "sent" => isendlen[d] = 0
       /\ MainHolds(d) =>
            /\ epollout[d] <=> mainpc = "unwatch"
            /\ psendMemPointer[d] = 0 <=> mainpc = "down"
            /\ isendlen[d] = 0
       /\ ~SendHolds(d) /\ ~MainHolds(d) =>
            /\ psendMemPointer[d] # 0 => iThrowsendCount[d] = 1 /\ epollout[d]
            /\ psendMemPointer[d] = 0 => iThrowsendCount[d] = 0 /\ ~epollout[d]
<1>. SUFFICES ASSUME NEW d \in Conns, ~hungup'[d] PROVE Guard(d)'
  BY DEF GuardInv
<1>. USE SendQueueAssumption
<1>. USE DEF queueVars, slotVars, clientVars, poolVars, sendVars, mainVars
<1>1. /\ psendMemPointer \in [Conns -> 0..MaxReqs]
      /\ iThrowsendCount \in [Conns -> Int] /\ isendlen \in [Conns -> 0..MsgLen]
      /\ epollout \in [Conns -> BOOLEAN] /\ hungup \in [Conns -> BOOLEAN]
  BY DEF TypeOK
<1>2. ~hungup[d] /\ sock[d] = "open"
  BY HungUpStays DEF ThreadInv
<1>3. Guard(d)
  BY <1>2 DEF GuardInv
<1>4. /\ SendHolds(d) => psendMemPointer[d] = msg[2] /\ ~MainHolds(d) /\ ~MainMay(d)
      /\ MainHolds(d) \/ MainMay(d) => iThrowsendCount[d] = 1
      /\ MainMay(d) => psendMemPointer[d] # 0
  BY DEF HoldInv
<1>. USE DEF SendHolds, MainHolds, MainMay
<1>5. ASSUME NEW c \in Conns,
             Request(c) \/ HangUp(c) \/ DropRequest(c) \/ CheckSequence(c) \/ MsgSend(c)
      PROVE  Guard(d)'
  <2>1. UNCHANGED <<sendVars, mainVars, slotVars, iThrowsendCount, epollout>>
    BY <1>5 DEF Request, HangUp, DropRequest, CheckSequence, MsgSend
  <2>. QED  BY <2>1, <1>3
<1>6. CASE \/ SemWait \/ SemInterrupted \/ StartPass \/ EndPass \/ DropMessage
           \/ KeepMessage \/ SkipMessage
  <2>1. /\ UNCHANGED <<mainVars, slotVars, iThrowsendCount, epollout>>
        /\ sendpc \in {"sem", "count", "scan", "throw"}
        /\ sendpc' \in {"sem", "count", "scan", "throw"}
    BY <1>6 DEF SemWait, SemInterrupted, StartPass, EndPass, DropMessage, KeepMessage,
       SkipMessage
  <2>. QED  BY <2>1, <1>3
<1>7. CASE TakeMessage
  <2>1. /\ iThrowsendCount[msg[1]] <= 0 /\ sendpc' = "send" /\ msg[1] \in Conns
        /\ psendMemPointer' = [psendMemPointer EXCEPT ![msg[1]] = msg[2]]
        /\ isendlen' = [isendlen EXCEPT ![msg[1]] = MsgLen]
        /\ UNCHANGED <<mainVars, msg, iThrowsendCount, epollout>> /\ sendpc = "throw"
    BY <1>7, InHand DEF TakeMessage
  <2>2. CASE d = msg[1]
    <3>1. ~MainHolds(d) /\ ~SendHolds(d)
      BY <1>4, <2>1, <2>2
    <3>2. iThrowsendCount[d] = 0 /\ ~epollout[d]
      BY <1>1, <1>3, <2>1, <2>2, <3>1
    <3>. QED  BY <2>1, <2>2, <3>1, <3>2
  <2>3. CASE d # msg[1]
    BY <1>1, <1>3, <2>1, <2>3
  <2>. QED  BY <2>2, <2>3
<1>8. CASE SendMessage
  <2>1. /\ UNCHANGED <<mainVars, msg, psendMemPointer, iThrowsendCount, epollout>>
        /\ sendpc = "send" /\ sendpc' \in {"sent", "rest"} /\ SendHolds(msg[1])
        /\ msg[1] \in Conns
    BY <1>8, InHand DEF SendMessage
  <2>2. CASE d = msg[1]
    <3>1. ASSUME sendpc' = "sent" PROVE isendlen'[d] = 0
      <4>1. ~Fails(d)
        BY <1>2 DEF Fails
      <4>2. PICK n \in 1..MsgLen : Accepts(d, n) /\ n = isendlen[d]
        BY <1>8, <2>2, <3>1, <4>1 DEF SendMessage
      <4>3. isendlen' = [isendlen EXCEPT ![d] = @ - n]
        BY <4>2 DEF Accepts
      <4>4. isendlen'[d] = isendlen[d] - n /\ isendlen[d] \in Nat
        BY <1>1, <4>3
      <4>. QED  BY <4>2, <4>4
    <3>2. ~MainHolds(d)
      BY <1>4, <2>1, <2>2
    <3>. QED  BY <1>3, <2>1, <2>2, <3>1, <3>2
  <2>3. CASE d # msg[1]
    <3>1. isendlen'[d] = isendlen[d]
      BY <1>1, <1>8, <2>3 DEF SendMessage, Accepts
    <3>. QED  BY <1>3, <2>1, <2>3, <3>1
  <2>. QED  BY <2>2, <2>3
<1>9. CASE FinishMessage
  <2>1. /\ UNCHANGED <<mainVars, isendlen, epollout>> /\ SendHolds(msg[1])
        /\ sendpc = "sent" /\ sendpc' = "scan"
        /\ psendMemPointer' = [psendMemPointer EXCEPT ![msg[1]] = 0]
        /\ iThrowsendCount' = [iThrowsendCount EXCEPT ![msg[1]] = 0]
    BY <1>9 DEF FinishMessage
  <2>2. CASE d = msg[1]
    BY <1>1, <1>3, <1>4, <2>1, <2>2
  <2>3. CASE d # msg[1]
    BY <1>1, <1>3, <2>1, <2>3
  <2>. QED  BY <2>2, <2>3
<1>10. CASE ThrowUp
  <2>1. /\ UNCHANGED <<mainVars, msg, slotVars, epollout>> /\ SendHolds(msg[1])
        /\ sendpc = "rest" /\ sendpc' = "watch"
        /\ iThrowsendCount' = [iThrowsendCount EXCEPT ![msg[1]] = @ + 1]
    BY <1>10 DEF ThrowUp
  <2>2. CASE d = msg[1]
    BY <1>1, <1>3, <1>4, <2>1, <2>2
  <2>3. CASE d # msg[1]
    BY <1>1, <1>3, <2>1, <2>3
  <2>. QED  BY <2>2, <2>3
<1>11. CASE WatchOut
  <2>1. /\ UNCHANGED <<mainVars, slotVars, iThrowsendCount>> /\ SendHolds(msg[1])
        /\ sendpc = "watch" /\ sendpc' = "scan" /\ msg[2] \in 1..MaxReqs
        /\ epollout' = [epollout EXCEPT ![msg[1]] = TRUE]
    BY <1>11, InHand DEF WatchOut
  <2>2. CASE d = msg[1]
    BY <1>1, <1>3, <1>4, <2>1, <2>2
  <2>3. CASE d # msg[1]
    BY <1>1, <1>3, <2>1, <2>3
  <2>. QED  BY <2>2, <2>3
<1>12. ASSUME NEW c \in Conns, NEW out \in BOOLEAN, EpollWait(c, out) PROVE Guard(d)'
  <2>1. /\ UNCHANGED <<sendVars, slotVars, iThrowsendCount, epollout>>
        /\ mainpc = "wait" /\ mainpc' \in {"read", "write"}
    BY <1>12 DEF EpollWait
  <2>. QED  BY <1>3, <2>1
<1>13. CASE ReadRequest \/ ReadEnd \/ InRecyConnectQueue
  <2>1. /\ UNCHANGED <<sendVars, slotVars, iThrowsendCount, epollout>>
        /\ mainpc \in {"read", "inrecy"} /\ mainpc' \in {"wait", "write", "inrecy"}
    BY <1>13
    DEF ReadRequest, ReadEnd, InRecyConnectQueue, AfterRead, DoneWithEvent
  <2>. QED  BY <1>3, <2>1
<1>14. CASE HupThrowDown
  <2>1. /\ UNCHANGED <<sendVars, slotVars, epollout>> /\ hungup[conn]
        /\ iThrowsendCount' = [iThrowsendCount EXCEPT ![conn] = @ - 1]
        /\ mainpc = "write" /\ mainpc' = "wait"
    BY <1>14 DEF HupThrowDown, DoneWithEvent, ThreadInv
  <2>. QED  BY <1>1, <1>2, <1>3, <2>1
<1>15. CASE WriteRest
  <2>1. PICK n \in 1..MsgLen :
          /\ isendlen' = [isendlen EXCEPT ![conn] = @ - n]
          /\ \/ mainpc' = "wait"
             \/ n = isendlen[conn] /\ mainpc' = "unwatch" /\ UNCHANGED <<ev, conn>>
    BY <1>15 DEF WriteRest, DoneWithEvent, Accepts
  <2>2. /\ UNCHANGED <<sendVars, psendMemPointer, iThrowsendCount, epollout>>
        /\ mainpc = "write" /\ MainMay(conn) /\ conn \in Conns
    BY <1>15, InHand DEF WriteRest
  <2>3. CASE d = conn
    <3>1. ~SendHolds(d) /\ ~MainHolds(d) /\ psendMemPointer[d] # 0
      BY <1>4, <2>2, <2>3
    <3>2. epollout[d] /\ iThrowsendCount[d] = 1
      BY <1>3, <3>1
    <3>3. isendlen'[d] = isendlen[d] - n
      BY <1>1, <2>1, <2>3
    <3>. QED  BY <1>1, <2>1, <2>2, <2>3, <3>1, <3>2, <3>3
  <2>4. CASE d # conn
    BY <1>1, <1>3, <2>1, <2>2, <2>4
  <2>. QED  BY <2>3, <2>4
<1>16. CASE WriteIsFull
  <2>1. /\ UNCHANGED <<sendVars, slotVars, iThrowsendCount, epollout>>
        /\ mainpc = "write" /\ mainpc' = "wait"
    BY <1>16 DEF WriteIsFull, DoneWithEvent
  <2>. QED  BY <1>3, <2>1
<1>17. CASE WriteFails
  <2>1. /\ UNCHANGED <<sendVars, slotVars, iThrowsendCount, epollout, conn>>
        /\ mainpc = "write" /\ mainpc' = "post" /\ Fails(conn)
    BY <1>17 DEF WriteFails
  <2>2. d # conn
    BY <1>2, <2>1 DEF Fails
  <2>. QED  BY <1>3, <2>1, <2>2
<1>18. CASE Unwatch
  <2>1. /\ UNCHANGED <<sendVars, slotVars, iThrowsendCount, conn>>
        /\ epollout' = [epollout EXCEPT ![conn] = FALSE]
        /\ mainpc = "unwatch" /\ mainpc' = "post"
    BY <1>18 DEF Unwatch
  <2>. QED  BY <1>1, <1>3, <1>4, <2>1
<1>19. CASE PostSem
  <2>1. /\ UNCHANGED <<sendVars, slotVars, iThrowsendCount, conn, epollout>>
        /\ mainpc = "post" /\ mainpc' = "free"
    BY <1>19 DEF PostSem
  <2>. QED  BY <1>3, <2>1
<1>20. CASE FreeRest
  <2>1. /\ UNCHANGED <<sendVars, isendlen, iThrowsendCount, conn, epollout>>
        /\ psendMemPointer' = [psendMemPointer EXCEPT ![conn] = 0]
        /\ mainpc = "free" /\ mainpc' = "down" /\ conn \in Conns
    BY <1>20, InHand DEF FreeRest
  <2>. QED  BY <1>1, <1>3, <1>4, <2>1
<1>21. CASE ThrowDown
  <2>1. /\ UNCHANGED <<sendVars, slotVars, epollout>> /\ conn \in Conns
        /\ iThrowsendCount' = [iThrowsendCount EXCEPT ![conn] = @ - 1]
        /\ mainpc = "down" /\ mainpc' = "wait"
    BY <1>21, InHand DEF ThrowDown, DoneWithEvent
  <2>. QED  BY <1>1, <1>3, <1>4, <2>1
<1>22. ASSUME NEW c \in Conns, Recycle(c) PROVE Guard(d)'
  <2>1. /\ UNCHANGED <<sendVars, mainVars, isendlen, epollout>> /\ sock[c] = "closed"
        /\ psendMemPointer' = [psendMemPointer EXCEPT ![c] = 0]
        /\ iThrowsendCount' = [iThrowsendCount EXCEPT ![c] = 0]
    BY <1>22 DEF Recycle
  <2>. QED  BY <1>1, <1>2, <1>3, <2>1
<1>. QED
  BY <1>5, <1>6, <1>7, <1>8, <1>9, <1>10, <1>11, <1>12, <1>13, <1>14,
     <1>15, <1>16, <1>17, <1>18, <1>19, <1>20, <1>21, <1>22
  DEF Next, SendStep, HandlerStep

-----------------------------------------------------------------------------
(* Messages *)

\* A message is kept when its connection points to it.
LEMMA KeptMessages ==
  ASSUME NEW p \in [Conns -> 0..MaxReqs]
  PROVE  {<<c, p[c]>> : c \in Conns} \cap Msgs = {m \in Msgs : p[m[1]] = m[2]}
<1>1. ASSUME NEW m \in {<<c, p[c]>> : c \in Conns} \cap Msgs PROVE p[m[1]] = m[2]
  <2>1. PICK c \in Conns : m = <<c, p[c]>>
    BY <1>1
  <2>. QED  BY <2>1
<1>2. ASSUME NEW m \in Msgs, p[m[1]] = m[2] PROVE \E c \in Conns : m = <<c, p[c]>>
  <2>1. m[1] \in Conns /\ m = <<m[1], m[2]>>
    BY DEF Msgs
  <2>. QED  BY <1>2, <2>1
<1>. QED  BY <1>1, <1>2

\* The message that a connection points to is freed and the pointer set to NULL.
LEMMA FreeStep ==
  ASSUME TypeOK, OwnInv, NEW c \in Conns,
         allocated' = allocated \ {<<c, psendMemPointer[c]>>},
         psendMemPointer' = [psendMemPointer EXCEPT ![c] = 0],
         UNCHANGED <<m_MsgSendQueue, hungup, replied>>
  PROVE  OwnInv'
<1>1. /\ psendMemPointer \in [Conns -> 0..MaxReqs]
      /\ psendMemPointer' \in [Conns -> 0..MaxReqs]
  <2>1. psendMemPointer \in [Conns -> 0..MaxReqs]
    BY DEF TypeOK
  <2>. QED  BY <2>1, SendQueueAssumption
<1>2. /\ Kept = {m \in Msgs : psendMemPointer[m[1]] = m[2]}
      /\ Kept' = {m \in Msgs : psendMemPointer'[m[1]] = m[2]}
  BY <1>1, KeptMessages DEF Kept
<1>3. ASSUME NEW m \in Msgs PROVE m \in Kept' <=> m \in Kept /\ m[1] # c
  <2>1. m[1] \in Conns /\ m[2] # 0
    BY DEF Msgs
  <2>2. psendMemPointer'[m[1]] = IF m[1] = c THEN 0 ELSE psendMemPointer[m[1]]
    BY <1>1, <2>1
  <2>. QED  BY <1>2, <2>1, <2>2
<1>4. ASSUME NEW m \in Msgs
      PROVE  m = <<c, psendMemPointer[c]>> <=> m \in Kept /\ m[1] = c
  <2>1. m = <<m[1], m[2]>>
    BY DEF Msgs
  <2>. QED  BY <1>2, <2>1
<1>5. /\ Queued' = Queued /\ Queued \subseteq Msgs
      /\ Kept \subseteq Msgs /\ Kept' \subseteq Msgs
  BY <1>2, RangeOfSeq DEF Queued, TypeOK
<1>. QED  BY <1>3, <1>4, <1>5 DEF OwnInv, TypeOK

\* A message that is queued is a new one.
LEMMA MsgSendStep ==
  ASSUME TypeOK, CountInv, ThreadInv, HoldInv, OwnInv, Next,
         NEW c \in Conns, MsgSend(c)
  PROVE  /\ Queued' = Queued \cup {<<c, replied[c] + 1>>}
         /\ IsInjective(m_MsgSendQueue') /\ <<c, replied[c] + 1>> \notin allocated
<1>. DEFINE m == <<c, replied[c] + 1>>
<1>1. /\ m_MsgSendQueue' = Append(m_MsgSendQueue, m)
      /\ replied' = [replied EXCEPT ![c] = @ + 1]
  BY DEF MsgSend
<1>2. /\ replied \in [Conns -> 0..MaxReqs] /\ m[1] = c /\ m[2] = replied[c] + 1
      /\ m_MsgSendQueue \in Seq(Msgs) /\ IsInjective(m_MsgSendQueue)
  BY DEF TypeOK, OwnInv
<1>3. m \notin allocated
  BY <1>2, SendQueueAssumption DEF OwnInv
<1>4. m \notin Queued
  BY <1>3 DEF OwnInv
<1>5. m \in Msgs
  <2>1. replied' \in [Conns -> 0..MaxReqs]
    BY TypeStep DEF TypeOK
  <2>2. replied[c] + 1 \in 1..MaxReqs
    <3>1. replied'[c] = replied[c] + 1 /\ replied'[c] \in 0..MaxReqs
      BY <1>1, <1>2, <2>1
    <3>. QED  BY <1>2, <3>1, SendQueueAssumption
  <2>. QED  BY <2>2 DEF Msgs
<1>. HIDE DEF m
<1>6. IsInjective(m_MsgSendQueue') /\ Queued' = Queued \cup {m}
  BY <1>1, <1>2, <1>4, <1>5, AppendToList DEF Queued
<1>. QED  BY <1>3, <1>6 DEF m

\* The send thread takes a connection whose client is there only when it points
\* to no message.
LEMMA TakenIdle ==
  ASSUME TypeOK, HoldInv, GuardInv, sendpc = "throw", msg[1] \in Conns,
         iThrowsendCount[msg[1]] <= 0, ~hungup[msg[1]]
  PROVE  psendMemPointer[msg[1]] = 0
<1>1. ~SendHolds(msg[1]) /\ ~MainHolds(msg[1])
  BY DEF SendHolds, HoldInv
<1>. QED  BY <1>1 DEF GuardInv, TypeOK

\* A message belongs to the queue or to a connection from msgSend on until it is
\* freed; only a connection whose client has gone loses one.
LEMMA OwnStep ==
  ASSUME TypeOK, CountInv, ThreadInv, HoldInv, GuardInv, OwnInv, Next
  PROVE  OwnInv'
<1>. USE SendQueueAssumption
<1>. USE DEF queueVars, slotVars, clientVars, poolVars, sendVars, mainVars
<1>1. /\ psendMemPointer \in [Conns -> 0..MaxReqs] /\ m_MsgSendQueue \in Seq(Msgs)
      /\ Queued \subseteq Msgs /\ Kept \subseteq Msgs /\ allocated \subseteq Msgs
      /\ Kept = {m \in Msgs : psendMemPointer[m[1]] = m[2]}
  <2>1. psendMemPointer \in [Conns -> 0..MaxReqs]
    BY DEF TypeOK
  <2>. QED  BY <2>1, KeptMessages, RangeOfSeq DEF TypeOK, Kept, Queued
<1>2. CASE UNCHANGED <<m_MsgSendQueue, psendMemPointer, allocated, hungup, replied>>
  BY <1>2 DEF OwnInv, Queued, Kept
<1>3. ASSUME NEW c \in Conns, HangUp(c) PROVE OwnInv'
  <2>1. UNCHANGED <<m_MsgSendQueue, psendMemPointer, allocated, replied>>
    BY <1>3 DEF HangUp
  <2>2. \A m \in allocated : hungup[m[1]] => hungup'[m[1]]
    BY <1>1, HungUpStays DEF Msgs
  <2>. QED  BY <2>1, <2>2 DEF OwnInv, Queued, Kept
<1>4. ASSUME NEW c \in Conns, MsgSend(c) PROVE OwnInv'
  <2>. DEFINE m == <<c, replied[c] + 1>>
  <2>1. /\ allocated' = allocated \cup {m} /\ replied' = [replied EXCEPT ![c] = @ + 1]
        /\ UNCHANGED <<psendMemPointer, hungup>>
    BY <1>4 DEF MsgSend
  <2>2. /\ replied \in [Conns -> 0..MaxReqs] /\ MaxReqs \in Nat /\ m[1] = c
        /\ m[2] = replied[c] + 1
    BY DEF TypeOK
  <2>3. /\ m \notin Kept /\ IsInjective(m_MsgSendQueue')
        /\ Queued' = Queued \cup {m} /\ m \notin Queued
    BY <1>4, MsgSendStep DEF OwnInv
  <2>. HIDE DEF m
  <2>4. Kept' = Kept
    BY <2>1 DEF Kept
  <2>5. ASSUME NEW n \in allocated' PROVE n[2] <= replied'[n[1]]
    <3>1. CASE n = m
      BY <2>1, <2>2, <3>1
    <3>2. CASE n # m
      <4>1. n \in allocated /\ n[1] \in Conns /\ n[2] \in Nat /\ n[2] <= replied[n[1]]
        BY <1>1, <2>1, <3>2 DEF OwnInv, Msgs
      <4>. QED  BY <2>1, <2>2, <4>1
    <3>. QED  BY <3>1, <3>2
  <2>. QED  BY <2>1, <2>3, <2>4, <2>5 DEF OwnInv
<1>5. CASE DropMessage
  <2>1. /\ pos \in 1..Len(m_MsgSendQueue)
        /\ allocated' = allocated \ {m_MsgSendQueue[pos]}
        /\ m_MsgSendQueue' = RemoveAt(m_MsgSendQueue, pos)
        /\ UNCHANGED <<psendMemPointer, hungup, replied>>
    BY <1>5, LenProperties DEF DropMessage, TypeOK
  <2>2. /\ m_MsgSendQueue[pos] \in Queued /\ IsInjective(m_MsgSendQueue')
        /\ Queued' = Queued \ {m_MsgSendQueue[pos]}
    BY <2>1, RemoveStep
  <2>3. Kept' = Kept
    BY <2>1 DEF Kept
  <2>. QED  BY <2>1, <2>2, <2>3 DEF OwnInv
<1>6. CASE TakeMessage
  <2>1. /\ iThrowsendCount[msg[1]] <= 0 /\ sendpc = "throw"
        /\ psendMemPointer' = [psendMemPointer EXCEPT ![msg[1]] = msg[2]]
        /\ m_MsgSendQueue' = RemoveAt(m_MsgSendQueue, pos)
        /\ UNCHANGED <<allocated, hungup, replied>>
        /\ msg[1] \in Conns /\ msg[2] \in 1..MaxReqs /\ msg = <<msg[1], msg[2]>>
        /\ pos \in 1..Len(m_MsgSendQueue) /\ msg = m_MsgSendQueue[pos]
    BY <1>6, InHand DEF TakeMessage, ThreadInv
  <2>2. /\ msg \in Queued /\ IsInjective(m_MsgSendQueue')
        /\ Queued' = Queued \ {msg} /\ msg \in Msgs
    BY <2>1, RemoveStep
  <2>3. ~hungup[msg[1]] => psendMemPointer[msg[1]] = 0
    BY <2>1, TakenIdle
  <2>4. psendMemPointer' \in [Conns -> 0..MaxReqs]
    BY <1>1, <2>1
  <2>5. Kept' = {m \in Msgs : psendMemPointer'[m[1]] = m[2]}
    BY <2>4, KeptMessages DEF Kept
  <2>6. ASSUME NEW m \in Msgs
        PROVE  m \in Kept' <=> m = msg \/ (m \in Kept /\ m[1] # msg[1])
    <3>1. m[1] \in Conns /\ m = <<m[1], m[2]>>
      BY DEF Msgs
    <3>2. psendMemPointer'[m[1]] =
            IF m[1] = msg[1] THEN msg[2] ELSE psendMemPointer[m[1]]
      BY <1>1, <2>1, <3>1
    <3>. QED  BY <1>1, <2>1, <2>5, <3>1, <3>2
  <2>7. ASSUME NEW m \in Kept, m[1] = msg[1] PROVE hungup[m[1]]
    <3>1. psendMemPointer[m[1]] = m[2] /\ m[2] # 0
      BY <1>1 DEF Msgs
    <3>. QED  BY <2>3, <2>7, <3>1
  <2>8. msg \notin Kept
    BY <2>2 DEF OwnInv
  <2>9. Kept' \subseteq Msgs /\ UNCHANGED <<allocated, hungup, replied>>
    BY <2>1, <2>5
  <2>10. Queued' \cap Kept' = {} /\ Queued' \cup Kept' \subseteq allocated'
    BY <1>1, <2>2, <2>6, <2>9 DEF OwnInv
  <2>11. \A m \in allocated' : m \in Queued' \cup Kept' \/ hungup'[m[1]]
    BY <1>1, <2>2, <2>6, <2>7, <2>9 DEF OwnInv
  <2>. QED  BY <2>2, <2>9, <2>10, <2>11 DEF OwnInv
<1>7. CASE FinishMessage
  BY <1>7, InHand, FreeStep DEF FinishMessage
<1>8. CASE FreeRest
  BY <1>8, InHand, FreeStep DEF FreeRest
<1>9. ASSUME NEW c \in Conns, Recycle(c) PROVE OwnInv'
  BY <1>9, FreeStep DEF Recycle
<1>. QED
  BY <1>2, <1>3, <1>4, <1>5, <1>6, <1>7, <1>8, <1>9
  DEF Next, SendStep, HandlerStep, Request, DropRequest, CheckSequence, SemInterrupted,
      SemWait, StartPass, EndPass, KeepMessage, SkipMessage, SendMessage, ThrowUp,
      WatchOut, EpollWait, ReadRequest, ReadEnd, InRecyConnectQueue, HupThrowDown,
      WriteRest, WriteIsFull, WriteFails, Unwatch, PostSem, ThrowDown

-----------------------------------------------------------------------------
(* Wires *)

\* The pieces of message q, from 0, are those after q * MsgLen.
LEMMA BlockBounds ==
  ASSUME NEW q \in Nat, NEW i \in Nat \ {0}
  PROVE  Block(i) \in Nat /\ (i > q * MsgLen <=> Block(i) >= q)
<1>. DEFINE n == MsgLen
            b == (i - 1) \div n
<1>1. n \in Nat \ {0} /\ i - 1 \in Nat
  BY SendQueueAssumption
<1>. HIDE DEF n
<1>2. b \in Nat /\ n * b <= i - 1 /\ i - 1 < n * b + n
  BY <1>1
<1>. HIDE DEF b
<1>3. b >= q => n * q <= n * b
  BY <1>1, <1>2
<1>4. b < q => n * (b + 1) <= n * q
  BY <1>1, <1>2
<1>5. n * (b + 1) = n * b + n /\ n * q = q * n /\ n * q \in Nat /\ n * b \in Nat
  BY <1>1, <1>2
<1>6. i > q * n <=> b >= q
  <2>. DEFINE nq == n * q
              nb == n * b
  <2>1. /\ nq \in Nat /\ nb \in Nat /\ q * n = nq
        /\ nb <= i - 1 /\ i - 1 < nb + n
        /\ b >= q => nq <= nb
        /\ b < q => nb + n <= nq
    BY <1>2, <1>3, <1>4, <1>5
  <2>. HIDE DEF nq, nb
  <2>. QED  BY <1>1, <1>2, <2>1
<1>. QED  BY <1>2, <1>6 DEF b, n, Block

\* Message q ends where message q + 1 begins.
LEMMA NextBlock ==
  ASSUME NEW q \in Nat
  PROVE  /\ q * MsgLen \in Nat /\ q + 1 \in Nat
         /\ (q + 1) * MsgLen = q * MsgLen + MsgLen
BY SendQueueAssumption

\* More pieces of the message c points to leave a wire that is framed.
LEMMA GrowStep ==
  ASSUME TypeOK, OwnInv, NEW c \in Conns, psendMemPointer[c] # 0, Framed(c),
         NEW n \in 1..MsgLen, Accepts(c, n),
         UNCHANGED <<m_MsgSendQueue, psendMemPointer, replied>>
  PROVE  Framed(c)'
<1>. DEFINE p == psendMemPointer[c]
            L == Len(wire[c])
            w == wire'[c]
<1>1. PICK q \in Nat :
        /\ L + isendlen[c] = q * MsgLen + MsgLen
        /\ \A i \in 1..L : wire[c][i] = p <=> i > q * MsgLen
  BY DEF Framed, WholeOrRest
<1>2. /\ L \in Nat /\ Len(w) = L + n /\ isendlen'[c] = isendlen[c] - n
      /\ \A i \in 1..L : w[i] = wire[c][i]
      /\ \A i \in 1..Len(w) : i > L => w[i] = p
  BY AcceptsStep
<1>3. /\ n \in Nat /\ isendlen[c] \in Nat /\ n <= isendlen[c] /\ isendlen[c] <= MsgLen
      /\ MsgLen \in Nat \ {0} /\ q * MsgLen \in Nat
  BY SendQueueAssumption, NextBlock DEF Accepts, TypeOK
<1>4. p \in Nat /\ <<c, p>> \in Msgs /\ psendMemPointer'[c] = p
  BY SendQueueAssumption DEF TypeOK, Msgs
<1>. HIDE DEF p, L, w
<1>5. L >= q * MsgLen /\ Len(w) <= q * MsgLen + MsgLen
  <2>. DEFINE m == q * MsgLen
  <2>1. L + isendlen[c] = m + MsgLen /\ m \in Nat
    BY <1>1, <1>3
  <2>. HIDE DEF m
  <2>2. L >= m /\ Len(w) <= m + MsgLen
    BY <1>2, <1>3, <2>1
  <2>. QED  BY <2>2 DEF m
<1>6. ASSUME NEW i \in 1..Len(w) PROVE i \in 1..L \/ (i > L /\ w[i] = p)
  BY <1>2
<1>7. ASSUME NEW i \in 1..Len(w) PROVE w[i] = p <=> i > q * MsgLen
  <2>. DEFINE m == q * MsgLen
  <2>1. CASE i \in 1..L
    BY <1>1, <1>2, <2>1
  <2>2. CASE i > L /\ w[i] = p
    <3>1. L >= m /\ m \in Nat
      BY <1>3, <1>5
    <3>. HIDE DEF m
    <3>2. i > m
      BY <1>2, <2>2, <3>1
    <3>. QED  BY <2>2, <3>2 DEF m
  <2>. QED  BY <1>6, <2>1, <2>2
<1>8. ASSUME NEW i \in 1..Len(w) PROVE w[i] = p <=> Block(i) = q
  <2>1. i \in Nat \ {0} /\ ~(i > q * MsgLen + MsgLen)
    <3>. DEFINE m == q * MsgLen + MsgLen
    <3>1. i \in Nat \ {0} /\ i <= Len(w) /\ Len(w) <= m /\ Len(w) \in Nat /\ m \in Nat
      BY <1>2, <1>3, <1>5
    <3>. HIDE DEF m
    <3>2. ~(i > m)
      BY <3>1
    <3>. QED  BY <3>1, <3>2 DEF m
  <2>2. ~(Block(i) >= q + 1) /\ Block(i) \in Nat
    <3>1. q + 1 \in Nat /\ (q + 1) * MsgLen = q * MsgLen + MsgLen
      BY NextBlock
    <3>2. i > (q + 1) * MsgLen <=> Block(i) >= q + 1
      BY <2>1, <3>1, BlockBounds
    <3>3. ~(i > (q + 1) * MsgLen)
      BY <2>1, <3>1
    <3>. QED  BY <2>1, <3>2, <3>3, BlockBounds
  <2>3. i > q * MsgLen <=> Block(i) >= q
    BY <2>1, BlockBounds
  <2>. QED  BY <1>7, <2>2, <2>3
<1>9. ASSUME NEW i \in 1..Len(w), NEW j \in 1..Len(w)
      PROVE  w[i] = w[j] <=> Block(i) = Block(j)
  <2>1. CASE i \in 1..L /\ j \in 1..L
    BY <1>2, <2>1 DEF Framed, L
  <2>2. CASE w[i] = p
    BY <1>8, <2>2
  <2>3. CASE w[j] = p
    BY <1>8, <2>3
  <2>. QED  BY <1>6, <2>1, <2>2, <2>3
<1>10. <<c, p>> \in allocated /\ <<c, p>> \notin Queued
  BY <1>4 DEF OwnInv, Kept, p
<1>11. p <= replied[c]
  BY <1>10 DEF OwnInv
<1>12. ASSUME NEW i \in 1..Len(w) PROVE w[i] <= replied[c] /\ <<c, w[i]>> \notin Queued
  <2>1. CASE i \in 1..L
    BY <1>2, <2>1 DEF Framed, L
  <2>2. CASE w[i] = p
    BY <1>10, <1>11, <2>2
  <2>. QED  BY <1>6, <2>1, <2>2
<1>13. Len(w) + isendlen'[c] = q * MsgLen + MsgLen
  <2>. DEFINE m == q * MsgLen
  <2>1. L + isendlen[c] = m + MsgLen /\ m \in Nat
    BY <1>1, <1>3
  <2>. HIDE DEF m
  <2>2. Len(w) + isendlen'[c] = m + MsgLen
    BY <1>2, <1>3, <2>1
  <2>. QED  BY <2>2 DEF m
<1>14. WholeOrRest(c)'
  <2>1. psendMemPointer'[c] # 0
    BY <1>4 DEF p
  <2>. QED  BY <1>4, <1>7, <1>13, <2>1 DEF WholeOrRest, w
<1>15. Queued' = Queued
  BY DEF Queued
<1>. QED  BY <1>9, <1>12, <1>14, <1>15 DEF Framed, Block, w

\* The last piece has been sent, and the pointer is set to NULL.
LEMMA SentStep ==
  ASSUME NEW c \in Conns, Framed(c), psendMemPointer[c] # 0, isendlen[c] = 0,
         psendMemPointer'[c] = 0, Len(wire[c]) \in Nat,
         UNCHANGED <<m_MsgSendQueue, wire, replied>>
  PROVE  Framed(c)'
<1>1. PICK q \in Nat : Len(wire[c]) + isendlen[c] = q * MsgLen + MsgLen
  BY DEF Framed, WholeOrRest
<1>2. Len(wire[c]) = (q + 1) * MsgLen /\ q + 1 \in Nat
  BY <1>1, NextBlock
<1>3. WholeOrRest(c)'
  BY <1>2 DEF WholeOrRest
<1>. QED  BY <1>3 DEF Framed, Queued, Block

\* The wire of a client that stays is cut into whole messages.
LEMMA WireStep ==
  ASSUME TypeOK, CountInv, ThreadInv, HoldInv, GuardInv, OwnInv, WireInv, Next
  PROVE  WireInv'
<1>. SUFFICES ASSUME NEW d \in Conns, ~hungup'[d] PROVE Framed(d)'
  BY DEF WireInv
<1>. USE SendQueueAssumption
<1>. USE DEF queueVars, slotVars, clientVars, poolVars, sendVars, mainVars
<1>1. ~hungup[d] /\ sock[d] = "open" /\ Framed(d)
  BY HungUpStays DEF ThreadInv, WireInv
<1>2. /\ psendMemPointer \in [Conns -> 0..MaxReqs] /\ isendlen \in [Conns -> 0..MsgLen]
      /\ replied \in [Conns -> 0..MaxReqs] /\ wire \in [Conns -> Seq(1..MaxReqs)]
      /\ Len(wire[d]) \in Nat /\ \A i \in 1..Len(wire[d]) : wire[d][i] \in 1..MaxReqs
  <2>1. wire \in [Conns -> Seq(1..MaxReqs)]
    BY DEF TypeOK
  <2>. QED  BY <2>1, LenProperties, ElementOfSeq DEF TypeOK
<1>3. ASSUME wire'[d] = wire[d], psendMemPointer'[d] = psendMemPointer[d],
             isendlen'[d] = isendlen[d], replied[d] <= replied'[d],
             \A m \in Queued' : m \in Queued \/ m[2] > replied[d],
             replied'[d] \in Nat
      PROVE  Framed(d)'
  <2>1. WholeOrRest(d)'
    BY <1>1, <1>3 DEF Framed, WholeOrRest
  <2>2. ASSUME NEW i \in 1..Len(wire[d])
        PROVE  wire[d][i] <= replied'[d] /\ <<d, wire[d][i]>> \notin Queued'
    <3>1. /\ wire[d][i] <= replied[d] /\ <<d, wire[d][i]>> \notin Queued
          /\ wire[d][i] \in Nat /\ replied[d] \in Nat
      BY <1>1, <1>2 DEF Framed
    <3>2. ~(wire[d][i] > replied[d]) /\ wire[d][i] <= replied'[d]
      BY <1>3, <3>1
    <3>. QED  BY <1>3, <3>1, <3>2
  <2>3. \A i, j \in 1..Len(wire[d]) :
          wire[d][i] = wire[d][j] <=> Block(i) = Block(j)
    BY <1>1 DEF Framed
  <2>. QED  BY <1>3, <2>1, <2>2, <2>3 DEF Framed, Block
<1>4. ASSUME wire'[d] = wire[d], psendMemPointer'[d] = psendMemPointer[d],
             isendlen'[d] = isendlen[d], Queued' \subseteq Queued, replied' = replied
      PROVE  Framed(d)'
  BY <1>2, <1>3, <1>4
<1>5. ASSUME NEW c \in Conns, MsgSend(c) PROVE Framed(d)'
  <2>1. /\ replied' = [replied EXCEPT ![c] = @ + 1]
        /\ UNCHANGED <<slotVars, wire>>
    BY <1>5 DEF MsgSend
  <2>2. Queued' = Queued \cup {<<c, replied[c] + 1>>}
    BY <1>5, MsgSendStep
  <2>3. CASE c = d
    <3>1. replied'[d] = replied[d] + 1 /\ replied[d] \in Nat
      BY <1>2, <2>1, <2>3
    <3>2. \A m \in Queued' : m \in Queued \/ m[2] > replied[d]
      BY <2>2, <2>3, <3>1
    <3>. QED  BY <1>3, <2>1, <3>1, <3>2
  <2>4. CASE c # d
    <3>1. replied'[d] = replied[d]
      BY <1>2, <2>1, <2>4
    <3>2. \A i \in 1..Len(wire[d]) : <<d, wire[d][i]>> \notin Queued'
      BY <1>1, <2>2, <2>4 DEF Framed
    <3>. QED  BY <1>1, <2>1, <3>1, <3>2 DEF Framed, WholeOrRest, Block
  <2>. QED  BY <2>3, <2>4
<1>6. CASE DropMessage
  <2>1. /\ pos \in 1..Len(m_MsgSendQueue)
        /\ m_MsgSendQueue' = RemoveAt(m_MsgSendQueue, pos)
        /\ UNCHANGED <<slotVars, wire, replied>>
    BY <1>6, LenProperties DEF DropMessage, TypeOK
  <2>. QED  BY <1>4, <2>1, RemoveStep
<1>7. CASE TakeMessage
  <2>1. /\ iThrowsendCount[msg[1]] <= 0 /\ sendpc = "throw"
        /\ psendMemPointer' = [psendMemPointer EXCEPT ![msg[1]] = msg[2]]
        /\ isendlen' = [isendlen EXCEPT ![msg[1]] = MsgLen]
        /\ m_MsgSendQueue' = RemoveAt(m_MsgSendQueue, pos)
        /\ UNCHANGED <<wire, replied>>
        /\ msg[1] \in Conns /\ msg[2] \in 1..MaxReqs /\ msg = <<msg[1], msg[2]>>
        /\ pos \in 1..Len(m_MsgSendQueue) /\ msg = m_MsgSendQueue[pos]
    BY <1>7, InHand DEF TakeMessage, ThreadInv
  <2>2. msg \in Queued /\ Queued' = Queued \ {msg}
    BY <2>1, RemoveStep
  <2>3. CASE d = msg[1]
    <3>1. psendMemPointer[d] = 0
      BY <1>1, <2>1, <2>3, TakenIdle
    <3>2. PICK q \in Nat : Len(wire[d]) = q * MsgLen
      BY <1>1, <3>1 DEF Framed, WholeOrRest
    <3>3. psendMemPointer'[d] = msg[2] /\ isendlen'[d] = MsgLen /\ msg[2] # 0
      BY <1>2, <2>1, <2>3
    <3>4. ASSUME NEW i \in 1..Len(wire[d])
          PROVE  wire[d][i] # msg[2] /\ ~(i > q * MsgLen)
      <4>1. <<d, wire[d][i]>> \notin Queued
        BY <1>1 DEF Framed
      <4>2. <<d, msg[2]>> \in Queued
        BY <2>1, <2>2, <2>3
      <4>3. ~(i > Len(wire[d]))
        BY <1>2
      <4>. QED  BY <3>2, <4>1, <4>2, <4>3
    <3>5. WholeOrRest(d)'
      BY <2>1, <3>2, <3>3, <3>4 DEF WholeOrRest
    <3>. QED  BY <1>1, <2>1, <2>2, <3>5 DEF Framed, Block
  <2>4. CASE d # msg[1]
    <3>1. psendMemPointer'[d] = psendMemPointer[d] /\ isendlen'[d] = isendlen[d]
      BY <1>2, <2>1, <2>4
    <3>. QED  BY <1>4, <2>1, <2>2, <3>1
  <2>. QED  BY <2>3, <2>4
<1>8. CASE SendMessage
  <2>1. /\ UNCHANGED <<m_MsgSendQueue, psendMemPointer, replied>>
        /\ msg[1] \in Conns /\ psendMemPointer[msg[1]] # 0
    BY <1>8, InHand DEF SendMessage
  <2>2. Queued' = Queued
    BY <2>1 DEF Queued
  <2>3. CASE \E n \in 1..MsgLen : Accepts(msg[1], n)
    <3>1. PICK n \in 1..MsgLen : Accepts(msg[1], n)
      BY <2>3
    <3>2. CASE d = msg[1]
      BY <1>1, <2>1, <3>1, <3>2, GrowStep
    <3>3. CASE d # msg[1]
      BY <1>4, <2>1, <2>2, <3>1, <3>3, AcceptsStep
    <3>. QED  BY <3>2, <3>3
  <2>4. CASE UNCHANGED <<wire, isendlen>>
    BY <1>4, <2>1, <2>2, <2>4
  <2>. QED  BY <1>8, <2>3, <2>4 DEF SendMessage
<1>9. CASE FinishMessage
  <2>1. /\ UNCHANGED <<m_MsgSendQueue, isendlen, wire, replied>> /\ sendpc = "sent"
        /\ psendMemPointer' = [psendMemPointer EXCEPT ![msg[1]] = 0]
        /\ SendHolds(msg[1]) /\ psendMemPointer[msg[1]] # 0
    BY <1>9, InHand DEF FinishMessage
  <2>2. CASE d = msg[1]
    <3>1. isendlen[d] = 0
      BY <1>1, <2>1, <2>2 DEF GuardInv
    <3>. QED  BY <1>1, <1>2, <2>1, <2>2, <3>1, SentStep
  <2>3. CASE d # msg[1]
    BY <1>2, <1>4, <2>1, <2>3 DEF Queued
  <2>. QED  BY <2>2, <2>3
<1>10. CASE WriteRest
  <2>1. PICK n \in 1..MsgLen : Accepts(conn, n)
    BY <1>10 DEF WriteRest
  <2>2. /\ UNCHANGED <<m_MsgSendQueue, psendMemPointer, replied>>
        /\ conn \in Conns /\ psendMemPointer[conn] # 0
    BY <1>10, InHand DEF WriteRest, HoldInv
  <2>3. CASE d = conn
    BY <1>1, <2>1, <2>2, <2>3, GrowStep
  <2>4. CASE d # conn
    BY <1>4, <2>1, <2>2, <2>4, AcceptsStep DEF Queued
  <2>. QED  BY <2>3, <2>4
<1>11. CASE FreeRest
  <2>1. /\ UNCHANGED <<m_MsgSendQueue, isendlen, wire, replied>> /\ mainpc = "free"
        /\ psendMemPointer' = [psendMemPointer EXCEPT ![conn] = 0]
        /\ MainHolds(conn)
    BY <1>11, InHand DEF FreeRest
  <2>2. CASE d = conn
    <3>1. isendlen[d] = 0 /\ psendMemPointer[d] # 0
      BY <1>1, <2>1, <2>2 DEF GuardInv
    <3>. QED  BY <1>1, <1>2, <2>1, <2>2, <3>1, SentStep
  <2>3. CASE d # conn
    BY <1>2, <1>4, <2>1, <2>3 DEF Queued
  <2>. QED  BY <2>2, <2>3
<1>12. ASSUME NEW c \in Conns, Recycle(c) PROVE Framed(d)'
  <2>1. /\ UNCHANGED <<m_MsgSendQueue, isendlen, wire, replied>> /\ sock[c] = "closed"
        /\ psendMemPointer' = [psendMemPointer EXCEPT ![c] = 0]
    BY <1>12 DEF Recycle
  <2>. QED  BY <1>1, <1>2, <1>4, <2>1 DEF Queued
<1>13. CASE UNCHANGED <<m_MsgSendQueue, slotVars, wire, replied>>
  BY <1>4, <1>13 DEF Queued
<1>14. ASSUME NEW c \in Conns,
              \/ Request(c) \/ HangUp(c) \/ DropRequest(c) \/ CheckSequence(c)
              \/ \E out \in BOOLEAN : EpollWait(c, out)
       PROVE  UNCHANGED <<m_MsgSendQueue, slotVars, wire, replied>>
  BY <1>14 DEF Request, HangUp, DropRequest, CheckSequence, EpollWait
<1>15. ASSUME \/ SemInterrupted \/ SemWait \/ StartPass \/ EndPass \/ KeepMessage
              \/ SkipMessage \/ ThrowUp \/ WatchOut
       PROVE  UNCHANGED <<m_MsgSendQueue, slotVars, wire, replied>>
  BY <1>15 DEF SemInterrupted, SemWait, StartPass, EndPass, KeepMessage, SkipMessage,
     ThrowUp, WatchOut
<1>16. ASSUME \/ ReadRequest \/ ReadEnd \/ InRecyConnectQueue \/ HupThrowDown
              \/ WriteIsFull \/ WriteFails \/ Unwatch \/ PostSem \/ ThrowDown
       PROVE  UNCHANGED <<m_MsgSendQueue, slotVars, wire, replied>>
  BY <1>16 DEF ReadRequest, ReadEnd, InRecyConnectQueue, HupThrowDown, WriteIsFull,
     WriteFails, Unwatch, PostSem, ThrowDown
<1>. QED
  BY <1>5, <1>6, <1>7, <1>8, <1>9, <1>10, <1>11, <1>12, <1>13, <1>14, <1>15, <1>16
  DEF Next, SendStep, HandlerStep

-----------------------------------------------------------------------------
(* The theorems *)

\* The parts of the invariant hold together, in every state.
LEMMA Inductive == Spec => []IInv
<1>1. Init => IInv
  <2>. SUFFICES ASSUME Init PROVE IInv
    OBVIOUS
  <2>. USE SendQueueAssumption
  <2>1. TypeOK
    <3>1. /\ 0 \in 0..MaxReqs /\ 0 \in 0..MsgLen /\ <<>> \in Seq(Msgs)
          /\ <<>> \in Seq(1..MaxReqs)
      OBVIOUS
    <3>. QED  BY <3>1 DEF Init, TypeOK, NoEvent
  <2>2. CountInv /\ ThreadInv
    BY DEF Init, CountInv, ThreadInv, Msgs, NoMsg
  <2>3. HoldInv /\ GuardInv
    BY DEF Init, HoldInv, GuardInv, SendHolds, MainHolds, MainMay
  <2>4. Queued = {}
    BY DEF Init, Queued, Range
  <2>5. Kept = {}
    BY DEF Init, Kept, Msgs
  <2>6. OwnInv
    BY <2>4, <2>5 DEF Init, OwnInv, IsInjective
  <2>7. WireInv
    <3>. SUFFICES ASSUME NEW c \in Conns PROVE Framed(c)
      BY DEF WireInv
    <3>1. Len(wire[c]) = 0 * MsgLen /\ Len(wire[c]) = 0 /\ psendMemPointer[c] = 0
      BY DEF Init
    <3>. QED  BY <3>1 DEF Framed, WholeOrRest
  <2>. QED  BY <2>1, <2>2, <2>3, <2>6, <2>7 DEF IInv
<1>2. IInv /\ [Next]_vars => IInv'
  <2>. SUFFICES ASSUME IInv, [Next]_vars PROVE IInv'
    OBVIOUS
  <2>1. CASE Next
    BY <2>1, TypeStep, CountStep, ThreadStep, HoldStep, GuardStep, OwnStep, WireStep
    DEF IInv
  <2>2. CASE UNCHANGED vars
    <3>. USE <2>2
    <3>. USE DEF vars, queueVars, slotVars, clientVars, poolVars, sendVars, mainVars
    <3>1. TypeOK' /\ CountInv' /\ ThreadInv'
      BY DEF IInv, TypeOK, CountInv, ThreadInv
    <3>2. HoldInv' /\ GuardInv'
      BY DEF IInv, HoldInv, GuardInv, SendHolds, MainHolds, MainMay
    <3>3. OwnInv'
      BY DEF IInv, OwnInv, Queued, Kept
    <3>4. WireInv'
      BY DEF IInv, WireInv, Framed, WholeOrRest, Block, Queued
    <3>. QED  BY <3>1, <3>2, <3>3, <3>4 DEF IInv
  <2>. QED  BY <2>1, <2>2
<1>. QED  BY <1>1, <1>2, PTL DEF Spec

\* The queue, the send fields and the places of the threads keep their types: no
\* rank of a message is above the number of requests, and isendlen stays between 0
\* and the length of a message.
THEOREM TypeCorrect == Spec => []TypeOK
<1>1. IInv => TypeOK
  BY DEF IInv
<1>. QED  BY <1>1, Inductive, PTL

\* ServerSendQueueThread and ngx_write_request_handler are never at the send
\* fields, or at the events, of one connection together.
THEOREM NeverTogether == Spec => []SendExclusive
<1>1. IInv => SendExclusive
  <2>. SUFFICES ASSUME IInv, conn = msg[1], sendpc \in {"send", "sent", "rest", "watch"}
                PROVE  \/ mainpc \in {"wait", "read", "inrecy"}
                       \/ mainpc = "write" /\ ev.hup
    BY DEF SendExclusive
  <2>1. conn \in Conns /\ ~MainHolds(conn) /\ ~MainMay(conn)
    BY InHand DEF IInv, HoldInv, SendHolds
  <2>2. mainpc = "write" => ev.out
    BY DEF IInv, ThreadInv
  <2>. QED  BY <2>1, <2>2 DEF IInv, TypeOK, MainHolds, MainMay
<1>. QED  BY <1>1, Inductive, PTL

\* While its client stays, a connection with a rest has iThrowsendCount 1 and
\* EPOLLOUT watched, and one without has neither.
THEOREM RestsGuarded == Spec => []RestGuarded
<1>1. IInv => RestGuarded
  BY DEF IInv, GuardInv, RestGuarded, SendHolds, MainHolds
<1>. QED  BY <1>1, Inductive, PTL

\* No message is freed while the queue or a connection has it, none is freed
\* twice, and none is lost while its client stays.
THEOREM MessagesOwned == Spec => []MessageOwned
<1>1. IInv => MessageOwned
  <2>. SUFFICES ASSUME IInv PROVE MessageOwned
    OBVIOUS
  <2>1. Cardinality(Queued) = Len(m_MsgSendQueue)
    BY CardinalityOfList DEF IInv, TypeOK, OwnInv, Queued
  <2>. QED  BY <2>1 DEF IInv, OwnInv, MessageOwned
<1>. QED  BY <1>1, Inductive, PTL

\* A client that stays receives whole messages, one after the other and each once.
THEOREM WiresFramed == Spec => []FramedWire
<1>1. IInv => FramedWire
  BY DEF IInv, WireInv, Framed, Block, FramedWire
<1>. QED  BY <1>1, Inductive, PTL
=============================================================================
