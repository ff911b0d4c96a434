-------------------------- MODULE ConnectionProofs --------------------------
(***************************************************************************)
(* Theorems about the connections: ConnPool, for any number of             *)
(* connections, listening ports, descriptors, users and clients and any    *)
(* legal waiting time, and RecvPacket, for every header length, largest    *)
(* packet and set of bytes, and for streams of any length.                 *)
(***************************************************************************)
EXTENDS ConnPool, RecvPacket, ListLemmas

-----------------------------------------------------------------------------
(* The inductive invariant *)

\* No connection is twice in a list, and the counters are right.
ListInv ==
  /\ IsInjective(m_freeconnectionList) /\ IsInjective(m_recyconnectionList)
  /\ m_free_connection_n = Len(m_freeconnectionList)
  /\ m_totol_recyconnection_n = Len(m_recyconnectionList)

\* Each allocated connection is in one place.  A connection whose descriptor
\* ngx_close_connection() has still to close is in the free list already.
PlaceInv ==
  /\ Listeners \cup Free \cup Recycling \cup registered \cup InHand =
       1..m_total_connection_n
  /\ Listeners \cap (Free \cup Recycling \cup registered \cup InHand) = {}
  /\ Free \cap (Recycling \cup registered \cup InHand) = {}
  /\ Recycling \cap (registered \cup InHand) = {}
  /\ registered \cap InHand = {}
  /\ m_total_connection_n <= WorkerConnections + accepted
  /\ newc # 0 <=> mainpc # "wait"
  /\ mainpc = "close" => newc \in Free

\* A connection has a client from the time it leaves the free list to the time
\* it comes back, and clients are counted upwards.
TenantInv ==
  \A c \in Conns :
    /\ client[c] # 0 <=> c \in registered \cup Recycling \cup InHand
    /\ client[c] <= accepted

PoolInv == TypeOK /\ ListInv /\ PlaceInv /\ TenantInv

\* The number in a header is never ahead of its connection's, and every change
\* of the connection's client or lease moves the connection's ahead.
HeaderInv ==
  \A h \in headers :
    /\ h.iCurrsequence <= iCurrsequence[h.pConn]
    /\ iCurrsequence[h.pConn] = h.iCurrsequence =>
         client[h.pConn] = h.client /\ h.pConn \in Leased

\* The connections that will close their descriptors.
Holders == registered \cup (IF mainpc \in {"add", "close"} THEN {newc} ELSE {})

FdInv ==
  /\ \A c \in Holders : fd[c] \in Fds
  /\ \A f \in Fds : open[f] # 0 <=> \E c \in Holders : fd[c] = f
  /\ \A c, d \in Holders : fd[c] = fd[d] => c = d
  /\ \A c \in registered \cup (IF mainpc = "add" THEN {newc} ELSE {}) :
       open[fd[c]] = client[c]

\* A connection in use still has the client it is used for.  If that client has
\* left, it is in the recycling queue, since the use began or later.
UseInv ==
  /\ currtime <= now
  /\ \A u \in Users : \A b \in using[u] :
       /\ b.since <= now /\ now <= b.since + MaxBurst
       /\ client[b.pConn] = b.client
       /\ \/ b.pConn \in Leased
          \/ b.pConn \in Recycling /\ b.since <= inRecyTime[b.pConn]

IInv == PoolInv /\ HeaderInv /\ FdInv /\ UseInv

-----------------------------------------------------------------------------
(* Types and places *)

\* Every place holds connections that exist.
LEMMA PlacesAreConns ==
  ASSUME PoolInv
  PROVE  /\ Free \subseteq Conns /\ Recycling \subseteq Conns
         /\ registered \subseteq Conns /\ Listeners \subseteq Conns
         /\ mainpc # "wait" => newc \in Conns
         /\ \A c \in 1..m_total_connection_n : c \in Conns
<1>1. Free \subseteq Conns /\ Recycling \subseteq Conns
  BY RangeOfSeq DEF PoolInv, TypeOK, Free, Recycling
<1>2. registered \subseteq Conns /\ (mainpc # "wait" => newc \in Conns)
  BY DEF PoolInv, TypeOK, PlaceInv
<1>3. \A c \in 1..m_total_connection_n : c \in Conns
  BY ConnPoolAssumption DEF PoolInv, TypeOK, Conns
<1>. QED  BY <1>1, <1>2, <1>3 DEF PoolInv, PlaceInv

\* A connection outside the free list goes to its end.
LEMMA FreeConnectionStep ==
  ASSUME PoolInv, NEW c \in Conns, c \notin Free, FreeConnection(c)
  PROVE  /\ Free' = Free \cup {c}
         /\ m_freeconnectionList' \in Seq(Conns) /\ m_free_connection_n' \in Nat
         /\ IsInjective(m_freeconnectionList')
         /\ m_free_connection_n' = Len(m_freeconnectionList')
         /\ iCurrsequence' \in [Conns -> Nat]
         /\ client' \in [Conns -> Clients \cup {0}]
<1>1. /\ m_freeconnectionList \in Seq(Conns) /\ IsInjective(m_freeconnectionList)
      /\ m_free_connection_n = Len(m_freeconnectionList)
      /\ iCurrsequence \in [Conns -> Nat] /\ client \in [Conns -> Clients \cup {0}]
  BY DEF PoolInv, TypeOK, ListInv
<1>2. /\ m_freeconnectionList' = Append(m_freeconnectionList, c)
      /\ m_free_connection_n' = m_free_connection_n + 1
      /\ iCurrsequence' = [iCurrsequence EXCEPT ![c] = @ + 1]
      /\ client' = [client EXCEPT ![c] = 0]
  BY DEF FreeConnection
<1>3. /\ m_freeconnectionList' \in Seq(Conns) /\ IsInjective(m_freeconnectionList')
      /\ Free' = Free \cup {c} /\ Len(m_freeconnectionList) \in Nat
      /\ Len(m_freeconnectionList') = Len(m_freeconnectionList) + 1
  BY <1>1, <1>2, AppendToList DEF Free
<1>. QED  BY <1>1, <1>2, <1>3

\* The event loop takes a connection that is in no place, or from the free list.
LEMMA BindStep ==
  ASSUME PoolInv, mainpc = "wait", accepted < MaxAccepts,
         NEW c \in Conns, NEW s \in Fds, Bind(c, s),
         UNCHANGED <<recyVars, recyThreadVars, registered, userVars, now>>,
         c \notin Listeners \cup Recycling \cup registered, c \notin Free',
         Free' = Free \ {c}, m_freeconnectionList' \in Seq(Conns),
         IsInjective(m_freeconnectionList'), m_free_connection_n' \in Nat,
         m_free_connection_n' = Len(m_freeconnectionList'),
         m_total_connection_n' \in Nat,
         m_total_connection_n <= m_total_connection_n',
         m_total_connection_n' <= WorkerConnections + accepted',
         1..m_total_connection_n' = (1..m_total_connection_n) \cup {c}
  PROVE  PoolInv'
<1>. USE ConnPoolAssumption
<1>1. /\ accepted' = accepted + 1 /\ accepted \in 0..MaxAccepts
      /\ accepted' \in Clients /\ accepted' \in 0..MaxAccepts
      /\ client' = [client EXCEPT ![c] = accepted'] /\ newc' = c /\ mainpc' = "add"
      /\ open' = [open EXCEPT ![s] = accepted']
      /\ fd' = [fd EXCEPT ![c] = s]
      /\ iCurrsequence' = [iCurrsequence EXCEPT ![c] = @ + 1]
      /\ c # 0
  BY DEF Bind, PoolInv, TypeOK, Clients, Conns
<1>2. Recycling' = Recycling /\ registered' = registered /\ InHand = {} /\ InHand' = {c}
  BY <1>1 DEF Recycling, recyVars, InHand
<1>3. TypeOK'
  <2>1. m_total_connection_n' \in WorkerConnections..(WorkerConnections + MaxAccepts)
    BY <1>1 DEF PoolInv, TypeOK
  <2>2. open' \in [Fds -> Clients \cup {0}] /\ client' \in [Conns -> Clients \cup {0}]
    BY <1>1 DEF PoolInv, TypeOK
  <2>3. fd' \in [Conns -> Fds \cup {0}] /\ iCurrsequence' \in [Conns -> Nat]
    BY <1>1 DEF PoolInv, TypeOK
  <2>. QED
    BY <1>1, <2>1, <2>2, <2>3
    DEF PoolInv, TypeOK, recyVars, recyThreadVars, userVars
<1>4. ListInv'
  BY DEF PoolInv, ListInv, recyVars
<1>5. PlaceInv'
  <2>1. /\ Listeners \cup Free' \cup Recycling' \cup registered' \cup InHand' =
             1..m_total_connection_n'
        /\ Listeners \cap (Free' \cup Recycling' \cup registered' \cup InHand') = {}
        /\ Free' \cap (Recycling' \cup registered' \cup InHand') = {}
        /\ Recycling' \cap (registered' \cup InHand') = {}
        /\ registered' \cap InHand' = {}
    BY <1>2 DEF PoolInv, PlaceInv
  <2>. QED  BY <1>1, <2>1 DEF PlaceInv
<1>6. TenantInv'
  <2>. SUFFICES ASSUME NEW d \in Conns
                PROVE  /\ client'[d] # 0 <=>
                            d \in registered' \cup Recycling' \cup InHand'
                       /\ client'[d] <= accepted'
    BY DEF TenantInv
  <2>1. CASE d = c
    BY <1>1, <1>2, <2>1 DEF PoolInv, TypeOK, Clients
  <2>2. CASE d # c
    <3>1. client'[d] = client[d] /\ client[d] \in 0..MaxAccepts
      BY <1>1, <2>2 DEF PoolInv, TypeOK, Clients
    <3>. QED  BY <1>1, <1>2, <2>2, <3>1 DEF PoolInv, TenantInv
  <2>. QED  BY <2>1, <2>2
<1>. QED  BY <1>3, <1>4, <1>5, <1>6 DEF PoolInv

\* A client gets the first of the free list, or a new connection.
LEMMA AcceptStep ==
  ASSUME PoolInv, Accept
  PROVE  PoolInv'
<1>. USE ConnPoolAssumption
<1>1. PICK s \in FreeFds :
        \/ /\ m_freeconnectionList # <<>>
           /\ Bind(Head(m_freeconnectionList), s)
           /\ m_freeconnectionList' = Tail(m_freeconnectionList)
           /\ m_free_connection_n' = m_free_connection_n - 1
           /\ UNCHANGED m_total_connection_n
        \/ /\ m_freeconnectionList = <<>>
           /\ Bind(m_total_connection_n + 1, s)
           /\ m_total_connection_n' = m_total_connection_n + 1
           /\ UNCHANGED freeVars
  BY DEF Accept
<1>2. /\ mainpc = "wait" /\ accepted < MaxAccepts /\ s \in Fds
      /\ UNCHANGED <<recyVars, recyThreadVars, registered, userVars, now>>
  BY DEF Accept, FreeFds
<1>3. /\ m_freeconnectionList \in Seq(Conns) /\ IsInjective(m_freeconnectionList)
      /\ m_free_connection_n = Len(m_freeconnectionList)
      /\ m_total_connection_n \in Nat /\ accepted \in 0..MaxAccepts
      /\ m_total_connection_n <= WorkerConnections + accepted
  BY DEF PoolInv, TypeOK, ListInv, PlaceInv
<1>4. \A c, t : Bind(c, t) => accepted' = accepted + 1
  BY DEF Bind
<1>5. CASE /\ m_freeconnectionList # <<>>
           /\ Bind(Head(m_freeconnectionList), s)
           /\ m_freeconnectionList' = Tail(m_freeconnectionList)
           /\ m_free_connection_n' = m_free_connection_n - 1
           /\ UNCHANGED m_total_connection_n
  <2>. DEFINE c == Head(m_freeconnectionList)
  <2>1. /\ c \in Free /\ c \in Conns /\ Free' = Free \ {c}
        /\ m_freeconnectionList' \in Seq(Conns) /\ IsInjective(m_freeconnectionList')
        /\ m_free_connection_n' = Len(m_freeconnectionList')
        /\ m_free_connection_n' \in Nat
    BY <1>3, <1>5, TailOfList DEF Free
  <2>. HIDE DEF c
  <2>2. c \notin Listeners \cup Recycling \cup registered
    BY <2>1 DEF PoolInv, PlaceInv
  <2>3. c \in 1..m_total_connection_n
    BY <2>1 DEF PoolInv, PlaceInv
  <2>4. accepted' = accepted + 1 /\ Bind(c, s)
    BY <1>4, <1>5 DEF c
  <2>5. 1..m_total_connection_n' = (1..m_total_connection_n) \cup {c}
    BY <1>5, <2>3
  <2>6. m_total_connection_n' <= WorkerConnections + accepted'
    BY <1>3, <1>5, <2>4
  <2>. QED  BY <1>2, <1>3, <1>5, <2>1, <2>2, <2>4, <2>5, <2>6, BindStep
<1>6. CASE /\ m_freeconnectionList = <<>>
           /\ Bind(m_total_connection_n + 1, s)
           /\ m_total_connection_n' = m_total_connection_n + 1
           /\ UNCHANGED freeVars
  <2>. DEFINE c == m_total_connection_n + 1
  <2>1. c \in Conns /\ c \notin 1..m_total_connection_n
    BY <1>2, <1>3 DEF Conns
  <2>2. c \notin Free \cup Listeners \cup Recycling \cup registered
    BY <2>1 DEF PoolInv, PlaceInv
  <2>3. accepted' = accepted + 1
    BY <1>4, <1>6
  <2>4. 1..m_total_connection_n' = (1..m_total_connection_n) \cup {c}
    BY <1>3, <1>6
  <2>5. /\ m_total_connection_n' <= WorkerConnections + accepted'
        /\ m_total_connection_n <= m_total_connection_n'
        /\ m_total_connection_n' \in Nat
    BY <1>3, <1>6, <2>3
  <2>6. /\ Free' = Free /\ m_freeconnectionList' \in Seq(Conns)
        /\ IsInjective(m_freeconnectionList') /\ m_free_connection_n' \in Nat
        /\ m_free_connection_n' = Len(m_freeconnectionList')
    BY <1>3, <1>6 DEF Free, freeVars, PoolInv, TypeOK
  <2>7. Bind(c, s)
    BY <1>6
  <2>. HIDE DEF c
  <2>8. Free' = Free \ {c} /\ c \notin Free'
    BY <2>2, <2>6
  <2>9. c \notin Listeners \cup Recycling \cup registered
    BY <2>2
  <2>. QED  BY <1>2, <2>1, <2>4, <2>5, <2>6, <2>7, <2>8, <2>9, BindStep
<1>. QED  BY <1>1, <1>5, <1>6

\* A connection in the event loop's hands becomes a registered one.
LEMMA AddToEpollStep ==
  ASSUME PoolInv, AddToEpoll
  PROVE  PoolInv'
<1>1. /\ mainpc = "add" /\ mainpc' = "wait" /\ newc' = 0 /\ newc \in Conns
      /\ registered' = registered \cup {newc}
      /\ UNCHANGED <<freeVars, recyVars, client, accepted, m_total_connection_n>>
  BY PlacesAreConns DEF AddToEpoll
<1>2. Free' = Free /\ Recycling' = Recycling /\ InHand = {newc} /\ InHand' = {}
  BY <1>1 DEF Free, freeVars, Recycling, recyVars, InHand
<1>3. TypeOK'
  BY <1>1
  DEF AddToEpoll, PoolInv, TypeOK, freeVars, recyVars, recyThreadVars, userVars
<1>4. ListInv'
  BY <1>1 DEF PoolInv, ListInv, freeVars, recyVars
<1>5. PlaceInv'
  BY <1>1, <1>2 DEF PoolInv, PlaceInv
<1>6. TenantInv'
  BY <1>1, <1>2 DEF PoolInv, TenantInv
<1>. QED  BY <1>3, <1>4, <1>5, <1>6 DEF PoolInv

\* epoll_ctl fails: ngx_close_connection() puts the connection back first.
LEMMA AddFailsStep ==
  ASSUME PoolInv, AddFails
  PROVE  PoolInv'
<1>1. /\ mainpc = "add" /\ mainpc' = "close" /\ newc \in Conns /\ newc \notin Free
      /\ FreeConnection(newc) /\ newc # 0
      /\ UNCHANGED <<newc, recyVars, registered, accepted, m_total_connection_n>>
  BY PlacesAreConns DEF AddFails, kernelVars, PoolInv, PlaceInv, InHand
<1>2. Recycling' = Recycling /\ InHand = {newc} /\ InHand' = {}
  BY <1>1 DEF Recycling, recyVars, InHand
<1>3. /\ Free' = Free \cup {newc}
      /\ m_freeconnectionList' \in Seq(Conns) /\ m_free_connection_n' \in Nat
      /\ IsInjective(m_freeconnectionList')
      /\ m_free_connection_n' = Len(m_freeconnectionList')
      /\ iCurrsequence' \in [Conns -> Nat]
      /\ client' \in [Conns -> Clients \cup {0}]
  BY <1>1, FreeConnectionStep
<1>4. TypeOK'
  BY <1>1, <1>3
  DEF AddFails, PoolInv, TypeOK, recyVars, recyThreadVars, kernelVars, userVars
<1>5. ListInv'
  BY <1>1, <1>3 DEF PoolInv, ListInv, recyVars
<1>6. PlaceInv'
  BY <1>1, <1>2, <1>3 DEF PoolInv, PlaceInv
<1>7. TenantInv'
  <2>1. client' = [client EXCEPT ![newc] = 0] /\ client \in [Conns -> Clients \cup {0}]
    BY <1>1 DEF FreeConnection, PoolInv, TypeOK
  <2>2. 0 <= accepted /\ newc \notin registered \cup Recycling
    BY <1>1, <1>2 DEF PoolInv, TypeOK, PlaceInv
  <2>3. ASSUME NEW c \in Conns
        PROVE  /\ client'[c] # 0 <=> c \in registered' \cup Recycling' \cup InHand'
               /\ client'[c] <= accepted'
    <3>1. CASE c = newc
      BY <1>1, <1>2, <2>1, <2>2, <3>1
    <3>2. CASE c # newc
      <4>1. client'[c] = client[c]
        BY <2>1, <3>2
      <4>. QED  BY <1>1, <1>2, <3>2, <4>1 DEF PoolInv, TenantInv
    <3>. QED  BY <3>1, <3>2
  <2>. QED  BY <2>3 DEF TenantInv
<1>. QED  BY <1>4, <1>5, <1>6, <1>7 DEF PoolInv

\* ... and closes its descriptor then.
LEMMA CloseNewStep ==
  ASSUME PoolInv, CloseNew
  PROVE  PoolInv'
<1>1. /\ mainpc = "close" /\ mainpc' = "wait" /\ newc' = 0
      /\ open' = [open EXCEPT ![fd[newc]] = 0]
      /\ UNCHANGED <<freeVars, recyVars, registered, client, accepted,
                     m_total_connection_n>>
  BY DEF CloseNew
<1>2. Free' = Free /\ Recycling' = Recycling /\ InHand = {} /\ InHand' = {}
  BY <1>1 DEF Free, freeVars, Recycling, recyVars, InHand
<1>3. TypeOK'
  <2>1. open' \in [Fds -> Clients \cup {0}]
    BY <1>1 DEF PoolInv, TypeOK
  <2>. QED
    BY <1>1, <2>1
    DEF CloseNew, PoolInv, TypeOK, freeVars, recyVars, recyThreadVars, userVars
<1>4. ListInv'
  BY <1>1 DEF PoolInv, ListInv, freeVars, recyVars
<1>5. PlaceInv'
  BY <1>1, <1>2 DEF PoolInv, PlaceInv
<1>6. TenantInv'
  BY <1>1, <1>2 DEF PoolInv, TenantInv
<1>. QED  BY <1>3, <1>4, <1>5, <1>6 DEF PoolInv

\* A client leaves: its connection is in the event loop's hands once more.
LEMMA RecvEndStep ==
  ASSUME PoolInv, NEW c \in Conns, RecvEnd(c)
  PROVE  PoolInv'
<1>1. /\ mainpc = "wait" /\ mainpc' = "recy" /\ newc' = c /\ c # 0
      /\ c \in registered /\ registered' = registered \ {c}
      /\ open' = [open EXCEPT ![fd[c]] = 0]
      /\ UNCHANGED <<freeVars, recyVars, client, accepted, m_total_connection_n>>
  BY DEF RecvEnd, Conns
<1>2. Free' = Free /\ Recycling' = Recycling /\ InHand = {} /\ InHand' = {c}
  BY <1>1 DEF Free, freeVars, Recycling, recyVars, InHand
<1>3. TypeOK'
  <2>1. open' \in [Fds -> Clients \cup {0}]
    BY <1>1 DEF PoolInv, TypeOK
  <2>. QED
    BY <1>1, <2>1
    DEF RecvEnd, PoolInv, TypeOK, freeVars, recyVars, recyThreadVars, userVars
<1>4. ListInv'
  BY <1>1 DEF PoolInv, ListInv, freeVars, recyVars
<1>5. PlaceInv'
  BY <1>1, <1>2 DEF PoolInv, PlaceInv
<1>6. TenantInv'
  BY <1>1, <1>2 DEF PoolInv, TenantInv
<1>. QED  BY <1>3, <1>4, <1>5, <1>6 DEF PoolInv

\* The connection goes into the recycling queue, under a new number.
LEMMA InRecyConnectQueueStep ==
  ASSUME PoolInv, InRecyConnectQueue
  PROVE  PoolInv'
<1>1. /\ mainpc = "recy" /\ mainpc' = "wait" /\ newc' = 0 /\ newc \in Conns
      /\ inRecyTime' = [inRecyTime EXCEPT ![newc] = now]
      /\ iCurrsequence' = [iCurrsequence EXCEPT ![newc] = @ + 1]
      /\ m_recyconnectionList' = Append(m_recyconnectionList, newc)
      /\ m_totol_recyconnection_n' = m_totol_recyconnection_n + 1
      /\ UNCHANGED <<freeVars, registered, client, accepted, m_total_connection_n>>
  BY PlacesAreConns DEF InRecyConnectQueue, kernelVars
<1>2. /\ m_recyconnectionList \in Seq(Conns) /\ IsInjective(m_recyconnectionList)
      /\ m_totol_recyconnection_n = Len(m_recyconnectionList)
      /\ newc \notin Recycling
  BY <1>1 DEF PoolInv, TypeOK, ListInv, PlaceInv, InHand
<1>3. /\ m_recyconnectionList' \in Seq(Conns) /\ IsInjective(m_recyconnectionList')
      /\ m_totol_recyconnection_n' = Len(m_recyconnectionList')
      /\ m_totol_recyconnection_n' \in Nat
      /\ Recycling' = Recycling \cup {newc}
  BY <1>1, <1>2, AppendToList DEF Recycling
<1>4. Free' = Free /\ InHand = {newc} /\ InHand' = {}
  BY <1>1 DEF Free, freeVars, InHand
<1>5. TypeOK'
  <2>1. inRecyTime' \in [Conns -> 0..MaxTime] /\ iCurrsequence' \in [Conns -> Nat]
    BY <1>1 DEF PoolInv, TypeOK
  <2>. QED
    BY <1>1, <1>3, <2>1
    DEF InRecyConnectQueue, PoolInv, TypeOK, freeVars, recyThreadVars, kernelVars,
        userVars
<1>6. ListInv'
  BY <1>1, <1>3 DEF PoolInv, ListInv, freeVars
<1>7. PlaceInv'
  BY <1>1, <1>3, <1>4 DEF PoolInv, PlaceInv
<1>8. TenantInv'
  BY <1>1, <1>3, <1>4 DEF PoolInv, TenantInv
<1>. QED  BY <1>5, <1>6, <1>7, <1>8 DEF PoolInv

\* An expired connection goes from the recycling queue to the free list.
LEMMA RecyFreeStep ==
  ASSUME PoolInv, RecyFree
  PROVE  PoolInv'
<1>1. PICK i \in 1..Len(m_recyconnectionList) :
        /\ m_totol_recyconnection_n' = m_totol_recyconnection_n - 1
        /\ m_recyconnectionList' = RemoveAt(m_recyconnectionList, i)
        /\ FreeConnection(m_recyconnectionList[i])
  BY DEF RecyFree
<1>. DEFINE c == m_recyconnectionList[i]
<1>2. UNCHANGED <<mainpc, newc, registered, accepted, m_total_connection_n, inRecyTime>>
  BY DEF RecyFree, loopVars, kernelVars
<1>3. /\ m_recyconnectionList \in Seq(Conns) /\ IsInjective(m_recyconnectionList)
      /\ m_totol_recyconnection_n = Len(m_recyconnectionList)
  BY DEF PoolInv, TypeOK, ListInv
<1>4. /\ c \in Conns /\ c \in Recycling /\ Recycling' = Recycling \ {c}
      /\ m_recyconnectionList' \in Seq(Conns) /\ IsInjective(m_recyconnectionList')
      /\ m_totol_recyconnection_n' = Len(m_recyconnectionList')
      /\ m_totol_recyconnection_n' \in Nat
  BY <1>1, <1>3, RemoveFromList DEF Recycling
<1>. HIDE DEF c
<1>5. InHand' = InHand
  BY <1>2 DEF InHand
<1>6. c \notin Free \cup registered \cup InHand \cup Listeners /\ FreeConnection(c)
  BY <1>1, <1>4 DEF PoolInv, PlaceInv, c
<1>7. /\ Free' = Free \cup {c}
      /\ m_freeconnectionList' \in Seq(Conns) /\ m_free_connection_n' \in Nat
      /\ IsInjective(m_freeconnectionList')
      /\ m_free_connection_n' = Len(m_freeconnectionList')
      /\ iCurrsequence' \in [Conns -> Nat]
      /\ client' \in [Conns -> Clients \cup {0}]
  BY <1>4, <1>6, FreeConnectionStep
<1>8. TypeOK'
  BY <1>2, <1>4, <1>7
  DEF RecyFree, PoolInv, TypeOK, loopVars, recyThreadVars, kernelVars, userVars
<1>9. ListInv'
  BY <1>4, <1>7 DEF ListInv
<1>10. PlaceInv'
  BY <1>2, <1>4, <1>5, <1>6, <1>7 DEF PoolInv, PlaceInv
<1>11. TenantInv'
  <2>1. client' = [client EXCEPT ![c] = 0] /\ client \in [Conns -> Clients \cup {0}]
    BY <1>6 DEF FreeConnection, PoolInv, TypeOK
  <2>2. 0 <= accepted
    BY DEF PoolInv, TypeOK
  <2>3. ASSUME NEW d \in Conns
        PROVE  /\ client'[d] # 0 <=> d \in registered' \cup Recycling' \cup InHand'
               /\ client'[d] <= accepted'
    <3>1. CASE d = c
      BY <1>2, <1>4, <1>5, <1>6, <2>1, <2>2, <3>1
    <3>2. CASE d # c
      <4>1. client'[d] = client[d]
        BY <2>1, <3>2
      <4>. QED  BY <1>2, <1>4, <1>5, <3>2, <4>1 DEF PoolInv, TenantInv
    <3>. QED  BY <3>1, <3>2
  <2>. QED  BY <2>3 DEF TenantInv
<1>. QED  BY <1>8, <1>9, <1>10, <1>11 DEF PoolInv

\* What the lists and places do not depend on.
LEMMA ElsewhereStep ==
  ASSUME PoolInv, TypeOK',
         UNCHANGED <<mainpc, newc, freeVars, m_recyconnectionList,
                     m_totol_recyconnection_n, registered, client, accepted,
                     m_total_connection_n>>
  PROVE  PoolInv'
<1>1. Free' = Free /\ Recycling' = Recycling /\ InHand' = InHand
  BY DEF Free, freeVars, Recycling, InHand
<1>2. ListInv' /\ PlaceInv' /\ TenantInv'
  BY <1>1 DEF PoolInv, ListInv, PlaceInv, TenantInv, freeVars
<1>. QED  BY <1>2 DEF PoolInv

\* The other steps move no connection.
LEMMA ThreadsStep ==
  ASSUME PoolInv,
         \/ RecyWake \/ RecyLock \/ RecyUnlock \/ Tick \/ UNCHANGED vars
         \/ \E c \in Conns : ReceiveMessage(c)
         \/ \E u \in Users : DoneUsing(u) \/ \E h \in headers : Validate(u, h)
  PROVE  PoolInv'
<1>1. CASE RecyWake \/ RecyLock \/ RecyUnlock \/ UNCHANGED vars
  <2>0. /\ recypc' \in {"sleep", "lock", "scan"} /\ currtime' \in {currtime, now, 0}
        /\ UNCHANGED <<loopVars, freeVars, recyVars, kernelVars, userVars,
                       m_total_connection_n, iCurrsequence, fd, now, accepted, client>>
    BY <1>1 DEF PoolInv, TypeOK, RecyWake, RecyLock, RecyUnlock, recyThreadVars, vars
  <2>1. TypeOK'
    BY <2>0, ConnPoolAssumption
    DEF PoolInv, TypeOK, loopVars, freeVars, recyVars, kernelVars, userVars
  <2>. QED
    BY <1>1, <2>1, ElsewhereStep
    DEF RecyWake, RecyLock, RecyUnlock, loopVars, recyVars, kernelVars, vars
<1>2. CASE Tick
  <2>1. TypeOK'
    BY <1>2, ConnPoolAssumption
    DEF PoolInv, TypeOK, Tick, loopVars, freeVars, recyVars, kernelVars, userVars,
        recyThreadVars
  <2>. QED
    BY <1>2, <2>1, ElsewhereStep DEF Tick, loopVars, recyVars, kernelVars
<1>3. ASSUME NEW c \in Conns, ReceiveMessage(c)
      PROVE  PoolInv'
  <2>1. client[c] \in Clients /\ iCurrsequence[c] \in Nat
    BY <1>3 DEF PoolInv, TypeOK, TenantInv, ReceiveMessage
  <2>2. headers' \subseteq Headers
    BY <1>3, <2>1 DEF PoolInv, TypeOK, ReceiveMessage, Headers
  <2>3. TypeOK'
    BY <1>3, <2>2
    DEF PoolInv, TypeOK, ReceiveMessage, loopVars, freeVars, recyVars, kernelVars,
        recyThreadVars
  <2>. QED
    BY <1>3, <2>3, ElsewhereStep DEF ReceiveMessage, loopVars, recyVars, kernelVars
<1>4. ASSUME NEW u \in Users, DoneUsing(u) \/ \E h \in headers : Validate(u, h)
      PROVE  PoolInv'
  <2>1. using' \in [Users -> SUBSET Uses]
    <3>1. CASE DoneUsing(u)
      BY <3>1 DEF DoneUsing, PoolInv, TypeOK
    <3>2. ASSUME NEW h \in headers, Validate(u, h)
          PROVE  using' \in [Users -> SUBSET Uses]
      <4>1. Borrowed(h, now) \in Uses
        BY <3>2 DEF Borrowed, Uses, Headers, PoolInv, TypeOK
      <4>. QED  BY <3>2, <4>1 DEF Validate, PoolInv, TypeOK
    <3>. QED  BY <1>4, <3>1, <3>2
  <2>2. UNCHANGED <<loopVars, freeVars, recyVars, recyThreadVars, kernelVars,
                    headers, m_total_connection_n, iCurrsequence, fd, now,
                    accepted, client>>
    BY <1>4 DEF DoneUsing, Validate
  <2>3. TypeOK'
    BY <2>1, <2>2
    DEF PoolInv, TypeOK, loopVars, freeVars, recyVars, kernelVars, recyThreadVars
  <2>. QED
    BY <2>2, <2>3, ElsewhereStep DEF loopVars, recyVars, kernelVars
<1>. QED  BY <1>1, <1>2, <1>3, <1>4

\* The steps of the model.
LEMMA NextCases ==
  ASSUME [Next]_vars
  PROVE  \/ Accept \/ AddToEpoll \/ AddFails \/ CloseNew \/ InRecyConnectQueue
         \/ \E c \in Conns : RecvEnd(c)
         \/ RecyFree
         \/ RecyWake \/ RecyLock \/ RecyUnlock \/ Tick \/ UNCHANGED vars
         \/ \E c \in Conns : ReceiveMessage(c)
         \/ \E u \in Users : DoneUsing(u) \/ \E h \in headers : Validate(u, h)
BY DEF Next, LoopStep, RecyStep

\* The places, the lists and the clients of connections are right at any time.
LEMMA PoolInductive == Spec => []PoolInv
<1>. USE ConnPoolAssumption
<1>1. Init => PoolInv
  <2>. SUFFICES ASSUME Init PROVE PoolInv
    OBVIOUS
  <2>. DEFINE n == WorkerConnections - ListenPortCount
  <2>1. n \in Nat /\ \A i \in 1..n : ListenPortCount + i \in Conns
    BY DEF Conns
  <2>2. /\ m_freeconnectionList \in Seq(Conns) /\ Len(m_freeconnectionList) = n
        /\ m_freeconnectionList = [i \in 1..n |-> ListenPortCount + i]
        /\ DOMAIN m_freeconnectionList = 1..n
    <3>1. m_freeconnectionList = [i \in 1..n |-> ListenPortCount + i]
      BY DEF Init
    <3>. HIDE DEF n
    <3>2. m_freeconnectionList \in Seq(Conns)
      BY <2>1, <3>1, SeqDef
    <3>3. DOMAIN m_freeconnectionList = 1..n
      BY <3>1
    <3>4. Len(m_freeconnectionList) = n
      BY <2>1, <3>2, <3>3, LenProperties
    <3>. QED  BY <3>1, <3>2, <3>3, <3>4
  <2>3. Free = (ListenPortCount + 1)..WorkerConnections
    <3>1. ASSUME NEW x PROVE x \in Free <=> x \in (ListenPortCount + 1)..WorkerConnections
      <4>1. x \in Free => x \in (ListenPortCount + 1)..WorkerConnections
        BY <2>2 DEF Free, Range
      <4>2. ASSUME x \in (ListenPortCount + 1)..WorkerConnections PROVE x \in Free
        <5>1. x - ListenPortCount \in 1..n /\ x = ListenPortCount + (x - ListenPortCount)
          BY <4>2
        <5>. QED  BY <2>2, <5>1 DEF Free, Range
      <4>. QED  BY <4>1, <4>2
    <3>. QED  BY <3>1
  <2>4. m_recyconnectionList = <<>> /\ Recycling = {}
    BY DEF Init, Recycling, Range
  <2>5. IsInjective(m_freeconnectionList) /\ IsInjective(m_recyconnectionList)
    BY <2>1, <2>2, <2>4 DEF IsInjective
  <2>6. InHand = {} /\ registered = {}
    BY DEF InHand, Init
  <2>7. TypeOK
    <3>1. /\ iCurrsequence \in [Conns -> Nat] /\ fd \in [Conns -> Fds \cup {0}]
          /\ inRecyTime \in [Conns -> 0..MaxTime]
          /\ open \in [Fds -> Clients \cup {0}]
          /\ client \in [Conns -> Clients \cup {0}]
          /\ using \in [Users -> SUBSET Uses]
      BY DEF Init
    <3>2. m_recyconnectionList \in Seq(Conns)
      BY <2>4
    <3>. QED  BY <2>1, <2>2, <3>1, <3>2 DEF Init, TypeOK
  <2>8. ListInv
    BY <2>2, <2>4, <2>5, EmptySeq DEF Init, ListInv
  <2>9. PlaceInv
    BY <2>3, <2>4, <2>6 DEF Init, PlaceInv, Listeners
  <2>10. TenantInv
    BY <2>4, <2>6 DEF Init, TenantInv
  <2>. QED  BY <2>7, <2>8, <2>9, <2>10 DEF PoolInv
<1>2. PoolInv /\ [Next]_vars => PoolInv'
  BY NextCases, AcceptStep, AddToEpollStep, AddFailsStep, CloseNewStep, RecvEndStep,
     InRecyConnectQueueStep, RecyFreeStep, ThreadsStep
<1>. QED  BY <1>1, <1>2, PTL DEF Spec

\* The fields of the pool, the threads' places and the kernel's tables keep their
\* types.
THEOREM TypeCorrect == Spec => []TypeOK
<1>1. PoolInv => TypeOK
  BY DEF PoolInv
<1>. QED  BY <1>1, PoolInductive, PTL

\* Two finite sets with nothing in common.
LEMMA CardinalityOfDisjoint ==
  ASSUME NEW A, NEW B, IsFiniteSet(A), IsFiniteSet(B), A \cap B = {}
  PROVE  /\ IsFiniteSet(A \cup B)
         /\ Cardinality(A \cup B) = Cardinality(A) + Cardinality(B)
         /\ Cardinality(A) \in Nat /\ Cardinality(B) \in Nat
<1>1. Cardinality(A \cap B) = 0
  BY FS_EmptySet
<1>2. Cardinality(A) \in Nat /\ Cardinality(B) \in Nat
  BY FS_CardinalityType
<1>3. /\ IsFiniteSet(A \cup B)
      /\ Cardinality(A \cup B) = Cardinality(A) + Cardinality(B) - Cardinality(A \cap B)
  BY FS_Union
<1>. QED  BY <1>1, <1>2, <1>3

\* Every connection that has been allocated is in exactly one place, once, and
\* the counters that the threads read without a lock are right: no connection
\* is ever lost or leased twice, whatever the order of accepts, failures of
\* epoll_ctl, ends of streams and recycling rounds.
THEOREM Partitioned == Spec => []PoolPartition
<1>1. PoolInv => PoolPartition
  <2>. SUFFICES ASSUME PoolInv PROVE PoolPartition
    OBVIOUS
  <2>1. /\ m_freeconnectionList \in Seq(Conns) /\ IsInjective(m_freeconnectionList)
        /\ m_recyconnectionList \in Seq(Conns) /\ IsInjective(m_recyconnectionList)
        /\ m_free_connection_n = Len(m_freeconnectionList)
        /\ m_totol_recyconnection_n = Len(m_recyconnectionList)
    BY DEF PoolInv, TypeOK, ListInv
  <2>2. /\ IsFiniteSet(Free) /\ Cardinality(Free) = Len(m_freeconnectionList)
        /\ IsFiniteSet(Recycling) /\ Cardinality(Recycling) = Len(m_recyconnectionList)
    BY <2>1, CardinalityOfList DEF Free, Recycling
  <2>3. /\ IsFiniteSet(Listeners) /\ Cardinality(Listeners) = ListenPortCount
        /\ m_total_connection_n \in Nat
        /\ IsFiniteSet(1..m_total_connection_n)
        /\ Cardinality(1..m_total_connection_n) = m_total_connection_n
    <3>1. m_total_connection_n \in Nat /\ ListenPortCount \in Nat
      BY ConnPoolAssumption DEF PoolInv, TypeOK
    <3>. QED  BY <3>1, FS_Interval DEF Listeners
  <2>4. IsFiniteSet(registered) /\ IsFiniteSet(InHand)
    <3>1. /\ registered \subseteq 1..m_total_connection_n
          /\ InHand \subseteq 1..m_total_connection_n
      BY DEF PoolInv, PlaceInv
    <3>. QED  BY <2>3, <3>1, FS_Subset
  <2>. DEFINE A == Listeners \cup Free
              B == A \cup Recycling
              C == B \cup registered
  <2>5. A \cap Recycling = {} /\ B \cap registered = {} /\ C \cap InHand = {}
        /\ Listeners \cap Free = {} /\ C \cup InHand = 1..m_total_connection_n
    BY DEF PoolInv, PlaceInv
  <2>6. IsFiniteSet(A) /\ Cardinality(A) = ListenPortCount + Cardinality(Free)
    BY <2>2, <2>3, <2>5, CardinalityOfDisjoint
  <2>. HIDE DEF A
  <2>7. IsFiniteSet(B) /\ Cardinality(B) = Cardinality(A) + Cardinality(Recycling)
    BY <2>2, <2>5, <2>6, CardinalityOfDisjoint
  <2>. HIDE DEF B
  <2>8. IsFiniteSet(C) /\ Cardinality(C) = Cardinality(B) + Cardinality(registered)
    BY <2>4, <2>5, <2>7, CardinalityOfDisjoint
  <2>. HIDE DEF C
  <2>9. Cardinality(C \cup InHand) = Cardinality(C) + Cardinality(InHand)
    BY <2>4, <2>5, <2>8, CardinalityOfDisjoint
  <2>10. ListenPortCount + Cardinality(Free) + Cardinality(Recycling)
           + Cardinality(registered) + Cardinality(InHand) = m_total_connection_n
    BY <2>3, <2>5, <2>6, <2>7, <2>8, <2>9
  <2>. QED  BY <2>1, <2>2, <2>10 DEF PoolPartition, PoolInv, PlaceInv
<1>. QED  BY <1>1, PoolInductive, PTL

-----------------------------------------------------------------------------
(* Sequence numbers *)

\* A connection whose number moves ahead is named by no header any more.
LEMMA MovedAhead ==
  ASSUME PoolInv, HeaderInv, NEW c \in Conns, UNCHANGED headers,
         iCurrsequence' = [iCurrsequence EXCEPT ![c] = @ + 1],
         \A d \in Conns \ {c} : client'[d] = client[d] /\ (d \in Leased => d \in Leased')
  PROVE  HeaderInv'
<1>. SUFFICES ASSUME NEW h \in headers
              PROVE  /\ h.iCurrsequence <= iCurrsequence'[h.pConn]
                     /\ iCurrsequence'[h.pConn] = h.iCurrsequence =>
                          client'[h.pConn] = h.client /\ h.pConn \in Leased'
  BY DEF HeaderInv
<1>1. /\ h.pConn \in Conns /\ h.iCurrsequence \in Nat
      /\ iCurrsequence \in [Conns -> Nat]
  BY DEF PoolInv, TypeOK, Headers
<1>2. h.iCurrsequence <= iCurrsequence[h.pConn]
  BY DEF HeaderInv
<1>3. CASE h.pConn = c
  <2>1. iCurrsequence'[h.pConn] = iCurrsequence[h.pConn] + 1
    BY <1>1, <1>3
  <2>. QED  BY <1>1, <1>2, <2>1
<1>4. CASE h.pConn # c
  BY <1>1, <1>4 DEF HeaderInv
<1>. QED  BY <1>3, <1>4

\* A step that changes a connection's client or ends its lease raises its number;
\* a new header has the current one.
LEMMA HeaderStep ==
  ASSUME PoolInv, PoolInv', HeaderInv, [Next]_vars
  PROVE  HeaderInv'
<1>1. ASSUME UNCHANGED <<headers, iCurrsequence, client>>, Leased' = Leased
      PROVE  HeaderInv'
  BY <1>1 DEF HeaderInv
<1>2. CASE Accept
  <2>1. PICK c, s : Bind(c, s)
    BY <1>2 DEF Accept
  <2>2. /\ mainpc = "wait" /\ mainpc' = "add" /\ newc' = c
        /\ UNCHANGED <<headers, registered>>
        /\ iCurrsequence' = [iCurrsequence EXCEPT ![c] = @ + 1]
        /\ client' = [client EXCEPT ![c] = accepted + 1]
    BY <1>2, <2>1 DEF Accept, Bind, userVars
  <2>3. c \in Conns /\ client \in [Conns -> Clients \cup {0}]
    BY <2>2, PlacesAreConns DEF PoolInv, TypeOK, PlaceInv
  <2>4. Leased' = Leased
    BY <2>2 DEF Leased
  <2>. QED  BY <2>2, <2>3, <2>4, MovedAhead
<1>3. CASE AddToEpoll
  <2>1. /\ UNCHANGED <<headers, iCurrsequence, client>>
        /\ mainpc = "add" /\ mainpc' = "wait" /\ registered \subseteq registered'
    BY <1>3 DEF AddToEpoll, userVars
  <2>2. Leased \subseteq Leased'
    BY <2>1 DEF Leased
  <2>. QED  BY <2>1, <2>2 DEF HeaderInv
<1>4. CASE AddFails
  <2>1. /\ mainpc = "add" /\ mainpc' = "close" /\ newc \in Conns
        /\ UNCHANGED <<headers, registered>>
        /\ iCurrsequence' = [iCurrsequence EXCEPT ![newc] = @ + 1]
        /\ client' = [client EXCEPT ![newc] = 0]
        /\ client \in [Conns -> Clients \cup {0}]
    BY <1>4, PlacesAreConns
    DEF AddFails, FreeConnection, userVars, kernelVars, PoolInv, TypeOK
  <2>2. Leased' = Leased
    BY <2>1 DEF Leased
  <2>. QED  BY <2>1, <2>2, MovedAhead
<1>5. CASE CloseNew
  <2>1. /\ UNCHANGED <<headers, iCurrsequence, client, registered>>
        /\ mainpc = "close" /\ mainpc' = "wait"
    BY <1>5 DEF CloseNew, userVars
  <2>. QED  BY <1>1, <2>1 DEF Leased
<1>6. ASSUME NEW c \in Conns, RecvEnd(c)
      PROVE  HeaderInv'
  <2>1. /\ UNCHANGED <<headers, iCurrsequence, client>> /\ c \in registered
        /\ registered' = registered \ {c} /\ newc' = c
        /\ mainpc = "wait" /\ mainpc' = "recy"
    BY <1>6 DEF RecvEnd, userVars
  <2>. QED  BY <1>1, <2>1 DEF Leased
<1>7. CASE InRecyConnectQueue
  <2>1. /\ mainpc = "recy" /\ mainpc' = "wait" /\ newc \in Conns
        /\ UNCHANGED <<headers, registered, client>>
        /\ iCurrsequence' = [iCurrsequence EXCEPT ![newc] = @ + 1]
    BY <1>7, PlacesAreConns DEF InRecyConnectQueue, userVars, kernelVars
  <2>2. \A d \in Conns \ {newc} : d \in Leased => d \in Leased'
    BY <2>1 DEF Leased
  <2>. QED  BY <2>1, <2>2, MovedAhead
<1>8. CASE RecyFree
  <2>1. PICK i \in 1..Len(m_recyconnectionList) : FreeConnection(m_recyconnectionList[i])
    BY <1>8 DEF RecyFree
  <2>2. m_recyconnectionList[i] \in Conns /\ client \in [Conns -> Clients \cup {0}]
    BY ElementOfSeq DEF PoolInv, TypeOK
  <2>3. UNCHANGED <<headers, mainpc, newc, registered>>
    BY <1>8 DEF RecyFree, loopVars, userVars, kernelVars
  <2>4. Leased' = Leased
    BY <2>3 DEF Leased
  <2>. QED  BY <2>1, <2>2, <2>3, <2>4, MovedAhead DEF FreeConnection
<1>9. CASE RecyWake \/ RecyLock \/ RecyUnlock \/ Tick \/ UNCHANGED vars
  <2>1. UNCHANGED <<headers, iCurrsequence, client, mainpc, newc, registered>>
    BY <1>9
    DEF RecyWake, RecyLock, RecyUnlock, Tick, vars, loopVars, userVars, kernelVars
  <2>. QED  BY <1>1, <2>1 DEF Leased
<1>10. ASSUME NEW c \in Conns, ReceiveMessage(c)
       PROVE  HeaderInv'
  <2>. DEFINE new == [pConn |-> c, iCurrsequence |-> iCurrsequence[c],
                      client |-> client[c]]
  <2>1. /\ headers' = headers \cup {new} /\ c \in registered
        /\ UNCHANGED <<iCurrsequence, client, mainpc, newc, registered>>
    BY <1>10 DEF ReceiveMessage, loopVars, kernelVars
  <2>2. Leased' = Leased /\ c \in Leased /\ iCurrsequence[c] \in Nat
    BY <2>1 DEF Leased, PoolInv, TypeOK
  <2>3. new.iCurrsequence <= iCurrsequence[new.pConn] /\ client[new.pConn] = new.client
    BY <2>2
  <2>. QED  BY <2>1, <2>2, <2>3 DEF HeaderInv
<1>11. ASSUME NEW u \in Users, DoneUsing(u) \/ \E h \in headers : Validate(u, h)
       PROVE  HeaderInv'
  <2>1. UNCHANGED <<headers, iCurrsequence, client, mainpc, newc, registered>>
    BY <1>11 DEF DoneUsing, Validate, loopVars, kernelVars
  <2>. QED  BY <1>1, <2>1 DEF Leased
<1>. QED
  BY NextCases, <1>2, <1>3, <1>4, <1>5, <1>6, <1>7, <1>8, <1>9, <1>10, <1>11

\* The numbers in headers are right at any time.
LEMMA HeaderInductive == Spec => []HeaderInv
<1>1. Init => HeaderInv
  BY DEF Init, HeaderInv
<1>2. PoolInv /\ PoolInv' /\ HeaderInv /\ [Next]_vars => HeaderInv'
  BY HeaderStep
<1>. QED  BY <1>1, <1>2, PoolInductive, PTL DEF Spec

\* A message whose number is its connection's is a message of the client that
\* has the connection now, and that client has not left.
THEOREM HeadersFresh == Spec => []HeaderFresh
<1>1. HeaderInv => HeaderFresh
  BY DEF HeaderInv, HeaderFresh
<1>. QED  BY <1>1, HeaderInductive, PTL

-----------------------------------------------------------------------------
(* Descriptors *)

\* A descriptor is closed by the connection that holds it.
LEMMA CloseStep ==
  ASSUME PoolInv, FdInv, NEW c \in Holders, Holders' = registered', fd' = fd,
         client' = client, open' = [open EXCEPT ![fd[c]] = 0],
         registered' = Holders \ {c}, mainpc' # "add",
         registered' \subseteq registered
  PROVE  FdInv'
<1>1. /\ open \in [Fds -> Clients \cup {0}] /\ fd[c] \in Fds
      /\ \A d \in Holders : fd[d] = fd[c] => d = c
  BY DEF PoolInv, TypeOK, FdInv
<1>2. \A d \in Holders' : fd'[d] \in Fds
  BY DEF FdInv
<1>3. ASSUME NEW f \in Fds
      PROVE  open'[f] # 0 <=> \E d \in Holders' : fd'[d] = f
  <2>1. CASE f = fd[c]
    BY <1>1, <2>1
  <2>2. CASE f # fd[c]
    <3>1. open'[f] = open[f]
      BY <1>1, <2>2
    <3>. QED  BY <2>2, <3>1 DEF FdInv
  <2>. QED  BY <2>1, <2>2
<1>4. \A d, e \in Holders' : fd'[d] = fd'[e] => d = e
  BY DEF FdInv
<1>5. \A d \in registered' : open'[fd'[d]] = client'[d]
  <2>. SUFFICES ASSUME NEW d \in registered'
                PROVE  open'[fd'[d]] = client'[d]
    OBVIOUS
  <2>1. d \in registered /\ d \in Holders /\ d # c /\ fd[d] # fd[c] /\ fd[d] \in Fds
    BY <1>1 DEF FdInv
  <2>2. open'[fd[d]] = open[fd[d]]
    BY <1>1, <2>1
  <2>. QED  BY <2>1, <2>2 DEF FdInv
<1>. QED  BY <1>2, <1>3, <1>4, <1>5 DEF FdInv

\* A descriptor is opened for a connection that is nobody else's, and closed when
\* its connection is in the event loop's hands.
LEMMA FdStep ==
  ASSUME PoolInv, PoolInv', FdInv, [Next]_vars
  PROVE  FdInv'
<1>1. ASSUME UNCHANGED <<open, fd, mainpc, newc, registered>>,
             \A c \in registered \cup InHand : client'[c] = client[c]
      PROVE  FdInv'
  <2>1. Holders' = Holders
    BY <1>1 DEF Holders
  <2>2. \A c \in registered \cup (IF mainpc = "add" THEN {newc} ELSE {}) :
          client'[c] = client[c]
    BY <1>1 DEF InHand
  <2>. QED  BY <1>1, <2>1, <2>2 DEF FdInv
<1>2. CASE Accept
  <2>0. PICK s \in FreeFds : \E c : Bind(c, s)
    BY <1>2 DEF Accept
  <2>1. PICK c : Bind(c, s)
    BY <2>0
  <2>2. /\ mainpc = "wait" /\ mainpc' = "add" /\ newc' = c /\ registered' = registered
        /\ open' = [open EXCEPT ![s] = accepted + 1]
        /\ fd' = [fd EXCEPT ![c] = s]
        /\ client' = [client EXCEPT ![c] = accepted + 1]
        /\ s \in Fds /\ open[s] = 0
    BY <1>2, <2>1 DEF Accept, Bind, FreeFds
  <2>3. /\ c \in Conns /\ c \notin registered
        /\ open \in [Fds -> Clients \cup {0}] /\ fd \in [Conns -> Fds \cup {0}]
        /\ client \in [Conns -> Clients \cup {0}]
        /\ registered \subseteq Conns /\ accepted + 1 # 0
    <3>1. c \in Conns
      BY <2>2 DEF PoolInv, TypeOK, PlaceInv
    <3>2. c \notin registered
      <4>1. InHand' = {c}
        BY <2>2 DEF InHand
      <4>. QED  BY <2>2, <4>1 DEF PoolInv, PlaceInv
    <3>3. accepted + 1 # 0
      BY DEF PoolInv, TypeOK
    <3>. QED  BY <3>1, <3>2, <3>3 DEF PoolInv, TypeOK
  <2>4. Holders = registered /\ Holders' = registered \cup {c}
    BY <2>2 DEF Holders
  <2>5. \A d \in registered : /\ fd'[d] = fd[d] /\ client'[d] = client[d]
                              /\ fd[d] \in Fds /\ fd[d] # s
    BY <2>2, <2>3, <2>4 DEF FdInv
  <2>6. /\ fd'[c] = s /\ client'[c] = accepted + 1 /\ open'[s] = accepted + 1
        /\ \A f \in Fds \ {s} : open'[f] = open[f]
    BY <2>2, <2>3
  <2>7. \A f \in Fds : open'[f] # 0 <=> \E d \in Holders' : fd'[d] = f
    <3>. SUFFICES ASSUME NEW f \in Fds
                  PROVE  open'[f] # 0 <=> \E d \in Holders' : fd'[d] = f
      OBVIOUS
    <3>1. CASE f = s
      BY <2>3, <2>4, <2>6, <3>1
    <3>2. CASE f # s
      BY <2>4, <2>5, <2>6, <3>2 DEF FdInv
    <3>. QED  BY <3>1, <3>2
  <2>8. \A d, e \in Holders' : fd'[d] = fd'[e] => d = e
    BY <2>4, <2>5, <2>6 DEF FdInv
  <2>9. \A d \in registered' \cup (IF mainpc' = "add" THEN {newc'} ELSE {}) :
          open'[fd'[d]] = client'[d]
    BY <2>2, <2>5, <2>6 DEF FdInv
  <2>10. \A d \in Holders' : fd'[d] \in Fds
    BY <2>2, <2>4, <2>5, <2>6
  <2>. QED  BY <2>7, <2>8, <2>9, <2>10 DEF FdInv
<1>3. CASE AddToEpoll
  <2>1. /\ UNCHANGED <<open, fd, client>> /\ registered' = registered \cup {newc}
        /\ mainpc = "add" /\ mainpc' = "wait"
    BY <1>3 DEF AddToEpoll
  <2>2. Holders' = Holders
    BY <2>1 DEF Holders
  <2>. QED  BY <2>1, <2>2 DEF FdInv
<1>4. CASE AddFails
  <2>1. /\ UNCHANGED <<open, fd, newc, registered>> /\ mainpc = "add" /\ mainpc' = "close"
        /\ client' = [client EXCEPT ![newc] = 0]
    BY <1>4 DEF AddFails, FreeConnection, kernelVars
  <2>2. newc \notin registered /\ registered \subseteq Conns
        /\ client \in [Conns -> Clients \cup {0}]
    BY <2>1 DEF PoolInv, TypeOK, PlaceInv, InHand
  <2>3. Holders' = Holders /\ \A c \in registered : client'[c] = client[c]
    BY <2>1, <2>2 DEF Holders
  <2>. QED  BY <2>1, <2>3 DEF FdInv
<1>5. CASE CloseNew
  <2>1. /\ UNCHANGED <<fd, client, registered>> /\ mainpc = "close" /\ mainpc' = "wait"
        /\ open' = [open EXCEPT ![fd[newc]] = 0]
    BY <1>5 DEF CloseNew
  <2>2. newc \notin registered
    BY <2>1 DEF PoolInv, PlaceInv
  <2>3. newc \in Holders /\ Holders' = registered' /\ registered' = Holders \ {newc}
    BY <2>1, <2>2 DEF Holders
  <2>. QED  BY <2>1, <2>3, CloseStep
<1>6. ASSUME NEW c \in Conns, RecvEnd(c)
      PROVE  FdInv'
  <2>1. /\ UNCHANGED <<fd, client>> /\ mainpc = "wait" /\ mainpc' = "recy"
        /\ c \in registered /\ registered' = registered \ {c}
        /\ open' = [open EXCEPT ![fd[c]] = 0]
    BY <1>6 DEF RecvEnd
  <2>2. c \in Holders /\ Holders' = registered' /\ registered' = Holders \ {c}
    BY <2>1 DEF Holders
  <2>. QED  BY <2>1, <2>2, CloseStep
<1>7. CASE InRecyConnectQueue
  <2>1. /\ UNCHANGED <<open, fd, client, registered>>
        /\ mainpc = "recy" /\ mainpc' = "wait"
    BY <1>7 DEF InRecyConnectQueue, kernelVars
  <2>2. Holders' = Holders
    BY <2>1 DEF Holders
  <2>. QED  BY <2>1, <2>2 DEF FdInv
<1>8. CASE RecyFree
  <2>1. PICK i \in 1..Len(m_recyconnectionList) : FreeConnection(m_recyconnectionList[i])
    BY <1>8 DEF RecyFree
  <2>2. m_recyconnectionList[i] \in Recycling
    BY LenProperties DEF PoolInv, TypeOK, Recycling, Range
  <2>3. UNCHANGED <<open, fd, mainpc, newc, registered>>
    BY <1>8 DEF RecyFree, loopVars, kernelVars
  <2>4. \A c \in registered \cup InHand : c # m_recyconnectionList[i] /\ c \in Conns
    BY <2>2, PlacesAreConns DEF PoolInv, PlaceInv, InHand
  <2>5. \A c \in registered \cup InHand : client'[c] = client[c]
    BY <2>1, <2>4 DEF FreeConnection, PoolInv, TypeOK
  <2>. QED  BY <1>1, <2>3, <2>5
<1>9. CASE RecyWake \/ RecyLock \/ RecyUnlock \/ Tick \/ UNCHANGED vars
  <2>1. UNCHANGED <<open, fd, mainpc, newc, registered, client>>
    BY <1>9 DEF RecyWake, RecyLock, RecyUnlock, Tick, vars, loopVars, kernelVars
  <2>. QED  BY <1>1, <2>1
<1>10. ASSUME NEW c \in Conns, ReceiveMessage(c)
       PROVE  FdInv'
  <2>1. UNCHANGED <<open, fd, mainpc, newc, registered, client>>
    BY <1>10 DEF ReceiveMessage, loopVars, kernelVars
  <2>. QED  BY <1>1, <2>1
<1>11. ASSUME NEW u \in Users, DoneUsing(u) \/ \E h \in headers : Validate(u, h)
       PROVE  FdInv'
  <2>1. UNCHANGED <<open, fd, mainpc, newc, registered, client>>
    BY <1>11 DEF DoneUsing, Validate, loopVars, kernelVars
  <2>. QED  BY <1>1, <2>1
<1>. QED
  BY NextCases, <1>2, <1>3, <1>4, <1>5, <1>6, <1>7, <1>8, <1>9, <1>10, <1>11

\* Every open descriptor belongs to one connection that will close it, and a
\* connection in the epoll set has its own client behind its descriptor: a
\* descriptor is neither leaked nor closed twice, although
\* ngx_close_connection() closes it after it has freed the connection.
THEOREM DescriptorsOwned == Spec => []FdOwned
<1>1. Init => FdInv
  BY DEF Init, FdInv, Holders
<1>2. PoolInv /\ PoolInv' /\ FdInv /\ [Next]_vars => FdInv'
  BY FdStep
<1>3. FdInv => FdOwned
  BY DEF FdInv, FdOwned, Holders
<1>. QED  BY <1>1, <1>2, <1>3, PoolInductive, PTL DEF Spec

-----------------------------------------------------------------------------
(* Uses *)

\* A use is one of a connection for a client, since some time.
LEMMA UseTypes ==
  ASSUME PoolInv, NEW u \in Users, NEW b \in using[u]
  PROVE  b.pConn \in Conns /\ b.client \in Clients /\ b.since \in Nat
BY DEF PoolInv, TypeOK, Uses

\* A connection that leaves the recycling queue is in no use: its client had left
\* before it was queued, it has waited longer than any use lasts.
LEMMA ExpiredUnused ==
  ASSUME PoolInv, UseInv, NEW c \in Recycling, Expired(c),
         NEW u \in Users, NEW b \in using[u]
  PROVE  b.pConn # c
<1>. SUFFICES ASSUME b.pConn = c PROVE FALSE
  OBVIOUS
<1>1. c \in Conns /\ c \notin Leased
  BY PlacesAreConns DEF PoolInv, PlaceInv, Leased, InHand
<1>2. b.since <= inRecyTime[c] /\ now <= b.since + MaxBurst /\ currtime <= now
  BY <1>1 DEF UseInv
<1>3. /\ inRecyTime[c] + RecyConnectionWaitTime <= currtime
      /\ inRecyTime[c] \in Nat /\ currtime \in Nat /\ now \in Nat /\ b.since \in Nat
  BY <1>1, UseTypes DEF Expired, PoolInv, TypeOK
<1>. QED  BY <1>2, <1>3, ConnPoolAssumption

\* A use begins with a valid header and ends before its connection is freed.
LEMMA UseStep ==
  ASSUME PoolInv, PoolInv', HeaderInv, UseInv, [Next]_vars
  PROVE  UseInv'
<1>. USE ConnPoolAssumption
<1>1. ASSUME UNCHANGED <<using, now, currtime, m_recyconnectionList, inRecyTime>>,
             Leased \subseteq Leased',
             \A u \in Users : \A b \in using[u] : client'[b.pConn] = client[b.pConn]
      PROVE  UseInv'
  <2>1. Recycling' = Recycling
    BY <1>1 DEF Recycling
  <2>. QED  BY <1>1, <2>1 DEF UseInv
<1>2. \A u \in Users : \A b \in using[u] :
        b.pConn \in Conns /\ (b.pConn \in Leased \/ b.pConn \in Recycling)
  BY UseTypes DEF UseInv
<1>0. client \in [Conns -> Clients \cup {0}]
  BY DEF PoolInv, TypeOK
<1>3. CASE Accept
  <2>1. PICK c, s : Bind(c, s)
    BY <1>3 DEF Accept
  <2>2. /\ mainpc = "wait" /\ mainpc' = "add" /\ newc' = c
        /\ UNCHANGED <<using, now, recyVars, currtime, registered>>
        /\ client' = [client EXCEPT ![c] = accepted + 1]
    BY <1>3, <2>1 DEF Accept, Bind, userVars, recyThreadVars
  <2>3. c \notin registered /\ c \notin Recycling
    <3>1. InHand' = {c} /\ Recycling' = Recycling /\ registered' = registered
      BY <2>2 DEF InHand, Recycling, recyVars
    <3>. QED  BY <3>1 DEF PoolInv, PlaceInv
  <2>4. Leased = registered /\ Leased' = registered
    BY <2>2 DEF Leased
  <2>5. ASSUME NEW u \in Users, NEW b \in using[u]
        PROVE  client'[b.pConn] = client[b.pConn]
    <3>1. b.pConn \in Conns /\ b.pConn # c
      BY <1>2, <2>3, <2>4
    <3>. QED  BY <1>0, <2>2, <3>1
  <2>. QED  BY <1>1, <2>2, <2>4, <2>5 DEF recyVars
<1>4. CASE AddToEpoll
  <2>1. /\ UNCHANGED <<using, now, recyVars, currtime, client>>
        /\ mainpc = "add" /\ registered' = registered \cup {newc}
    BY <1>4 DEF AddToEpoll, userVars, recyThreadVars
  <2>2. Leased \subseteq Leased'
    BY <2>1 DEF Leased
  <2>. QED  BY <1>1, <2>1, <2>2 DEF recyVars
<1>5. CASE AddFails
  <2>1. /\ UNCHANGED <<using, now, recyVars, currtime, registered>>
        /\ mainpc = "add" /\ mainpc' = "close"
        /\ client' = [client EXCEPT ![newc] = 0]
    BY <1>5 DEF AddFails, FreeConnection, userVars, recyThreadVars, kernelVars
  <2>2. newc \notin registered /\ newc \notin Recycling
    BY <2>1 DEF PoolInv, PlaceInv, InHand
  <2>3. Leased = registered /\ Leased' = registered
    BY <2>1 DEF Leased
  <2>4. ASSUME NEW u \in Users, NEW b \in using[u]
        PROVE  client'[b.pConn] = client[b.pConn]
    <3>1. b.pConn \in Conns /\ b.pConn # newc
      BY <1>2, <2>2, <2>3
    <3>. QED  BY <1>0, <2>1, <3>1
  <2>. QED  BY <1>1, <2>1, <2>3, <2>4 DEF recyVars
<1>6. CASE CloseNew
  <2>1. /\ UNCHANGED <<using, now, recyVars, currtime, client, registered>>
        /\ mainpc = "close"
    BY <1>6 DEF CloseNew, userVars, recyThreadVars
  <2>2. Leased \subseteq Leased'
    BY <2>1 DEF Leased
  <2>. QED  BY <1>1, <2>1, <2>2 DEF recyVars
<1>7. ASSUME NEW c \in Conns, RecvEnd(c)
      PROVE  UseInv'
  <2>1. /\ UNCHANGED <<using, now, recyVars, currtime, client>> /\ newc' = c
        /\ mainpc = "wait" /\ mainpc' = "recy" /\ registered' = registered \ {c}
    BY <1>7 DEF RecvEnd, userVars, recyThreadVars
  <2>2. Leased \subseteq Leased'
    BY <2>1 DEF Leased
  <2>. QED  BY <1>1, <2>1, <2>2 DEF recyVars
<1>8. CASE InRecyConnectQueue
  <2>1. /\ UNCHANGED <<using, now, currtime, client, registered>>
        /\ mainpc = "recy" /\ mainpc' = "wait" /\ newc \in Conns
        /\ inRecyTime' = [inRecyTime EXCEPT ![newc] = now]
        /\ m_recyconnectionList' = Append(m_recyconnectionList, newc)
    BY <1>8, PlacesAreConns
    DEF InRecyConnectQueue, userVars, recyThreadVars, kernelVars
  <2>2. newc \notin Recycling /\ Recycling' = Recycling \cup {newc}
    <3>1. newc \notin Recycling
      BY <2>1 DEF PoolInv, PlaceInv, InHand
    <3>. QED  BY <2>1, <3>1, AppendToList DEF PoolInv, TypeOK, ListInv, Recycling
  <2>3. Leased = registered \cup {newc} /\ Leased' = registered
    BY <2>1 DEF Leased
  <2>4. ASSUME NEW u \in Users, NEW b \in using[u]
        PROVE  /\ b.since <= now /\ now <= b.since + MaxBurst
               /\ client'[b.pConn] = b.client
               /\ \/ b.pConn \in Leased'
                  \/ b.pConn \in Recycling' /\ b.since <= inRecyTime'[b.pConn]
    <3>1. /\ b.since <= now /\ now <= b.since + MaxBurst
          /\ client'[b.pConn] = b.client /\ b.pConn \in Conns
          /\ \/ b.pConn \in Leased
             \/ b.pConn \in Recycling /\ b.since <= inRecyTime[b.pConn]
      BY <1>2, <2>1 DEF UseInv
    <3>2. inRecyTime \in [Conns -> 0..MaxTime]
      BY DEF PoolInv, TypeOK
    <3>3. CASE b.pConn = newc
      BY <2>1, <2>2, <3>1, <3>2, <3>3
    <3>4. CASE b.pConn # newc
      BY <2>1, <2>2, <2>3, <3>1, <3>2, <3>4
    <3>. QED  BY <3>3, <3>4
  <2>. QED  BY <2>1, <2>4 DEF UseInv
<1>9. CASE RecyFree
  <2>1. PICK i \in 1..Len(m_recyconnectionList) :
          /\ Expired(m_recyconnectionList[i])
          /\ m_recyconnectionList' = RemoveAt(m_recyconnectionList, i)
          /\ FreeConnection(m_recyconnectionList[i])
    BY <1>9 DEF RecyFree
  <2>. DEFINE c == m_recyconnectionList[i]
  <2>2. c \in Recycling /\ Recycling' = Recycling \ {c}
    <3>1. m_recyconnectionList \in Seq(Conns) /\ IsInjective(m_recyconnectionList)
      BY DEF PoolInv, TypeOK, ListInv
    <3>. QED  BY <2>1, <3>1, RemoveFromList DEF Recycling
  <2>3. /\ UNCHANGED <<using, now, currtime, mainpc, newc, registered, inRecyTime>>
        /\ client' = [client EXCEPT ![c] = 0]
    BY <1>9, <2>1
    DEF RecyFree, FreeConnection, loopVars, userVars, kernelVars, recyThreadVars
  <2>4. Leased' = Leased
    BY <2>3 DEF Leased
  <2>5. \A u \in Users : \A b \in using[u] : b.pConn # c
    BY <2>1, <2>2, ExpiredUnused
  <2>. HIDE DEF c
  <2>6. \A u \in Users : \A b \in using[u] : client'[b.pConn] = client[b.pConn]
    BY <1>2, <2>3, <2>5 DEF PoolInv, TypeOK
  <2>. QED  BY <2>2, <2>3, <2>4, <2>5, <2>6 DEF UseInv
<1>10. CASE RecyWake \/ RecyLock \/ RecyUnlock \/ UNCHANGED vars
  <2>1. /\ UNCHANGED <<using, now, client, mainpc, newc, registered, inRecyTime,
                       m_recyconnectionList>>
        /\ currtime' \in {now, currtime, 0}
    BY <1>10
    DEF RecyWake, RecyLock, RecyUnlock, vars, loopVars, userVars, kernelVars,
        recyVars, recyThreadVars
  <2>2. Leased' = Leased /\ Recycling' = Recycling
    BY <2>1 DEF Leased, Recycling
  <2>3. currtime' <= now'
    BY <2>1 DEF UseInv, PoolInv, TypeOK
  <2>. QED  BY <2>1, <2>2, <2>3 DEF UseInv
<1>11. CASE Tick
  <2>1. /\ UNCHANGED <<using, client, mainpc, newc, registered, inRecyTime,
                       m_recyconnectionList, currtime>>
        /\ now' = now + 1 /\ now \in Nat /\ currtime \in Nat
        /\ \A u \in Users : \A b \in using[u] : now < b.since + MaxBurst
    BY <1>11
    DEF Tick, loopVars, userVars, kernelVars, recyVars, recyThreadVars, PoolInv,
        TypeOK
  <2>2. Leased' = Leased /\ Recycling' = Recycling
    BY <2>1 DEF Leased, Recycling
  <2>3. \A u \in Users : \A b \in using[u] :
          b.since <= now' /\ now' <= b.since + MaxBurst
    BY <2>1, UseTypes DEF UseInv
  <2>4. currtime' <= now'
    BY <2>1 DEF UseInv
  <2>. QED  BY <2>1, <2>2, <2>3, <2>4 DEF UseInv
<1>12. ASSUME NEW c \in Conns, ReceiveMessage(c)
       PROVE  UseInv'
  <2>1. UNCHANGED <<using, now, client, mainpc, newc, registered, inRecyTime,
                    m_recyconnectionList, currtime>>
    BY <1>12 DEF ReceiveMessage, loopVars, kernelVars, recyVars, recyThreadVars
  <2>2. Leased' = Leased
    BY <2>1 DEF Leased
  <2>. QED  BY <1>1, <2>1, <2>2
<1>13. ASSUME NEW v \in Users, DoneUsing(v) \/ \E h \in headers : Validate(v, h)
       PROVE  UseInv'
  <2>1. UNCHANGED <<now, client, mainpc, newc, registered, inRecyTime,
                    m_recyconnectionList, currtime>>
    BY <1>13 DEF DoneUsing, Validate, loopVars, kernelVars, recyVars, recyThreadVars
  <2>2. Leased' = Leased /\ Recycling' = Recycling /\ now \in Nat
    BY <2>1 DEF Leased, Recycling, PoolInv, TypeOK
  <2>3. ASSUME NEW u \in Users, NEW b \in using'[u]
        PROVE  /\ b.since <= now /\ now <= b.since + MaxBurst
               /\ client[b.pConn] = b.client
               /\ \/ b.pConn \in Leased
                  \/ b.pConn \in Recycling /\ b.since <= inRecyTime[b.pConn]
    <3>1. CASE b \in using[u]
      BY <3>1 DEF UseInv
    <3>2. CASE b \notin using[u]
      <4>1. PICK h \in headers : Validate(v, h) /\ b = Borrowed(h, now)
        <5>1. using \in [Users -> SUBSET Uses]
          BY DEF PoolInv, TypeOK
        <5>2. ~DoneUsing(v)
          BY <3>2, <5>1 DEF DoneUsing
        <5>3. PICK h \in headers : Validate(v, h)
          BY <1>13, <5>2
        <5>4. using' = [using EXCEPT ![v] = {Borrowed(h, now)}]
          BY <5>3 DEF Validate
        <5>. QED  BY <3>2, <5>1, <5>3, <5>4
      <4>2. client[h.pConn] = h.client /\ h.pConn \in Leased
        BY <4>1 DEF Validate, HeaderInv
      <4>. QED  BY <2>2, <4>1, <4>2 DEF Borrowed
    <3>. QED  BY <3>1, <3>2
  <2>. QED  BY <2>1, <2>2, <2>3 DEF UseInv
<1>. QED
  BY NextCases, <1>3, <1>4, <1>5, <1>6, <1>7, <1>8, <1>9, <1>10, <1>11, <1>12, <1>13

\* All parts of the invariant hold at any time, for any number of everything.
LEMMA Inductive == Spec => []IInv
<1>1. Init => UseInv
  BY DEF Init, UseInv
<1>2. PoolInv /\ PoolInv' /\ HeaderInv /\ UseInv /\ [Next]_vars => UseInv'
  BY UseStep
<1>3. Init => FdInv
  BY DEF Init, FdInv, Holders
<1>4. PoolInv /\ PoolInv' /\ FdInv /\ [Next]_vars => FdInv'
  BY FdStep
<1>. QED
  BY <1>1, <1>2, <1>3, <1>4, PoolInductive, HeaderInductive, PTL DEF Spec, IInv

-----------------------------------------------------------------------------
(* The refinement *)

Pooled == Conns \ Listeners
tenant == [c \in Pooled |-> client[c]]
uses == [u \in Users |-> {<<b.pConn, b.client>> : b \in using[u]}]

\* A change of the client of a connection that is not a listener's.
LEMMA TenantChange ==
  ASSUME PoolInv, NEW c \in Pooled, NEW k, client' = [client EXCEPT ![c] = k]
  PROVE  tenant' = [tenant EXCEPT ![c] = k] /\ tenant[c] = client[c]
BY DEF PoolInv, TypeOK, Pooled, tenant

\* The connections that come and go are not the listeners'.
LEMMA PlacesArePooled ==
  ASSUME PoolInv
  PROVE  /\ Free \subseteq Pooled /\ Recycling \subseteq Pooled
         /\ registered \subseteq Pooled /\ InHand \subseteq Pooled
         /\ Leased \subseteq Pooled
BY PlacesAreConns DEF PoolInv, PlaceInv, Pooled, InHand, Leased

\* A step of the pool is a step of LeasePool or leaves its state alone.
LEMMA StepSimulation ==
  ASSUME IInv, IInv', [Next]_vars
  PROVE  [Leases!Next]_(Leases!vars)
<1>. USE DEF IInv
<1>1. ASSUME UNCHANGED <<client, using>>, Leased' = Leased
      PROVE  UNCHANGED Leases!vars
  BY <1>1 DEF Leases!vars
<1>2. CASE Accept
  <2>1. PICK c, s : Bind(c, s)
    BY <1>2 DEF Accept
  <2>2. /\ mainpc = "wait" /\ mainpc' = "add" /\ newc' = c
        /\ UNCHANGED <<using, registered>>
        /\ client' = [client EXCEPT ![c] = accepted + 1]
        /\ accepted < MaxAccepts
    BY <1>2, <2>1 DEF Accept, Bind, userVars
  <2>3. Leased' = Leased /\ uses' = uses
    BY <2>2 DEF Leased, uses
  <2>4. c \in Pooled /\ c \notin registered \cup Recycling
    <3>1. InHand' = {c} /\ c \in Conns /\ UNCHANGED m_recyconnectionList
      BY <1>2, <2>2 DEF InHand, Accept, recyVars, PoolInv, TypeOK, PlaceInv
    <3>2. Recycling' = Recycling
      BY <3>1 DEF Recycling
    <3>. QED  BY <2>2, <3>1, <3>2 DEF PoolInv, PlaceInv, Pooled
  <2>5. client[c] = 0
    BY <2>2, <2>4 DEF PoolInv, TenantInv, InHand, Pooled
  <2>6. accepted + 1 \in Clients /\ accepted \in Nat
    BY <2>2, ConnPoolAssumption DEF PoolInv, TypeOK, Clients
  <2>7. \A d \in Pooled : tenant[d] # accepted + 1
    <3>1. \A d \in Conns : client[d] <= accepted /\ client[d] \in Nat
      <4>1. \A d \in Conns : client[d] \in Clients \cup {0}
        BY DEF PoolInv, TypeOK
      <4>2. Clients \cup {0} \subseteq Nat
        BY DEF Clients
      <4>. QED  BY <4>1, <4>2 DEF PoolInv, TenantInv
    <3>. QED  BY <2>6, <3>1 DEF tenant, Pooled
  <2>8. tenant' = [tenant EXCEPT ![c] = accepted + 1] /\ tenant[c] = 0
    BY <2>2, <2>4, <2>5, TenantChange
  <2>9. PICK d \in Pooled, k \in Clients : d = c /\ k = accepted + 1
    BY <2>4, <2>6
  <2>10. Leases!Give(d, k)
    BY <2>3, <2>7, <2>8, <2>9 DEF Leases!Give, tenant, uses, Pooled
  <2>. QED  BY <2>10 DEF Leases!Next, Pooled
<1>3. CASE AddToEpoll
  <2>1. /\ mainpc = "add" /\ mainpc' = "wait" /\ registered' = registered \cup {newc}
        /\ UNCHANGED <<client, using>>
    BY <1>3 DEF AddToEpoll, userVars
  <2>2. newc \in InHand /\ newc \in Pooled
    BY <2>1, PlacesArePooled DEF InHand
  <2>3. client[newc] # 0 /\ Leased' = Leased \cup {newc}
    BY <2>1, <2>2 DEF PoolInv, TenantInv, Pooled, Leased
  <2>4. Leases!Open(newc)
    BY <2>1, <2>2, <2>3 DEF Leases!Open, Pooled
  <2>. QED  BY <2>2, <2>4 DEF Leases!Next, Pooled
<1>4. CASE AddFails
  <2>1. /\ mainpc = "add" /\ mainpc' = "close" /\ UNCHANGED <<using, registered>>
        /\ client' = [client EXCEPT ![newc] = 0]
    BY <1>4 DEF AddFails, FreeConnection, userVars, kernelVars
  <2>2. newc \in InHand /\ newc \in Pooled
    BY <2>1, PlacesArePooled DEF InHand
  <2>3. client[newc] # 0 /\ newc \notin registered \cup Recycling
    BY <2>1, <2>2 DEF PoolInv, TenantInv, PlaceInv, Pooled
  <2>4. Leased = registered /\ Leased' = registered
    BY <2>1 DEF Leased
  <2>5. \A u \in Users : \A b \in using[u] : b.pConn # newc
    BY <2>3, <2>4 DEF UseInv
  <2>6. \A u \in Users : <<newc, client[newc]>> \notin uses[u]
    BY <2>5 DEF uses
  <2>7. tenant' = [tenant EXCEPT ![newc] = 0] /\ tenant[newc] = client[newc]
        /\ uses' = uses
    BY <2>1, <2>2, TenantChange DEF uses
  <2>8. PICK c \in Pooled : c = newc
    BY <2>2
  <2>9. Leases!Return(c)
    BY <2>3, <2>4, <2>6, <2>7, <2>8 DEF Leases!Return, tenant, uses, Pooled
  <2>. QED  BY <2>9 DEF Leases!Next, Pooled
<1>5. CASE CloseNew
  <2>1. /\ UNCHANGED <<client, using, registered>>
        /\ mainpc = "close" /\ mainpc' = "wait"
    BY <1>5 DEF CloseNew, userVars
  <2>. QED  BY <1>1, <2>1 DEF Leased
<1>6. ASSUME NEW c \in Conns, RecvEnd(c)
      PROVE  [Leases!Next]_(Leases!vars)
  <2>1. /\ UNCHANGED <<client, using>> /\ c \in registered
        /\ registered' = registered \ {c} /\ newc' = c
        /\ mainpc = "wait" /\ mainpc' = "recy"
    BY <1>6 DEF RecvEnd, userVars
  <2>. QED  BY <1>1, <2>1 DEF Leased
<1>7. CASE InRecyConnectQueue
  <2>1. /\ mainpc = "recy" /\ mainpc' = "wait" /\ UNCHANGED <<client, using, registered>>
    BY <1>7 DEF InRecyConnectQueue, userVars, kernelVars
  <2>2. newc \in InHand /\ newc \in Pooled /\ newc \notin registered
    BY <2>1, PlacesArePooled DEF InHand, PoolInv, PlaceInv
  <2>3. newc \in Leased /\ Leased' = Leased \ {newc}
    BY <2>1, <2>2 DEF Leased
  <2>4. Leases!End(newc)
    BY <2>1, <2>3 DEF Leases!End
  <2>. QED  BY <2>2, <2>4 DEF Leases!Next, Pooled
<1>8. CASE RecyFree
  <2>1. PICK i \in 1..Len(m_recyconnectionList) :
          Expired(m_recyconnectionList[i]) /\ FreeConnection(m_recyconnectionList[i])
    BY <1>8 DEF RecyFree
  <2>. DEFINE c == m_recyconnectionList[i]
  <2>2. c \in Recycling
    BY LenProperties DEF PoolInv, TypeOK, Recycling, Range
  <2>3. \A u \in Users : \A b \in using[u] : b.pConn # c
    BY <2>1, <2>2, ExpiredUnused
  <2>4. client' = [client EXCEPT ![c] = 0]
    BY <2>1 DEF FreeConnection
  <2>. HIDE DEF c
  <2>5. c \in Pooled
    BY <2>2, PlacesArePooled
  <2>6. client[c] # 0 /\ c \notin Leased
    <3>1. client[c] # 0
      BY <2>2, <2>5 DEF PoolInv, TenantInv, Pooled
    <3>2. c \notin registered /\ c \notin InHand
      BY <2>2 DEF PoolInv, PlaceInv
    <3>. QED  BY <3>1, <3>2 DEF Leased, InHand
  <2>7. UNCHANGED <<using, mainpc, newc, registered>>
    BY <1>8 DEF RecyFree, loopVars, userVars, kernelVars
  <2>8. Leased' = Leased /\ uses' = uses
    BY <2>7 DEF Leased, uses
  <2>9. \A u \in Users : <<c, client[c]>> \notin uses[u]
    BY <2>3 DEF uses
  <2>10. tenant' = [tenant EXCEPT ![c] = 0] /\ tenant[c] = client[c]
    BY <2>4, <2>5, TenantChange
  <2>11. PICK d \in Pooled : d = c
    BY <2>5
  <2>12. Leases!Return(d)
    BY <2>6, <2>8, <2>9, <2>10, <2>11 DEF Leases!Return, tenant, uses, Pooled
  <2>. QED  BY <2>12 DEF Leases!Next, Pooled
<1>9. CASE RecyWake \/ RecyLock \/ RecyUnlock \/ Tick \/ UNCHANGED vars
  <2>1. UNCHANGED <<client, using, mainpc, newc, registered>>
    BY <1>9
    DEF RecyWake, RecyLock, RecyUnlock, Tick, vars, loopVars, userVars, kernelVars
  <2>. QED  BY <1>1, <2>1 DEF Leased
<1>10. ASSUME NEW c \in Conns, ReceiveMessage(c)
       PROVE  [Leases!Next]_(Leases!vars)
  <2>1. UNCHANGED <<client, using, mainpc, newc, registered>>
    BY <1>10 DEF ReceiveMessage, loopVars, kernelVars
  <2>. QED  BY <1>1, <2>1 DEF Leased
<1>11. ASSUME NEW u \in Users, DoneUsing(u)
       PROVE  Leases!Next
  <2>1. /\ UNCHANGED <<client, mainpc, newc, registered>>
        /\ using' = [using EXCEPT ![u] = {}]
    BY <1>11 DEF DoneUsing, loopVars, kernelVars
  <2>2. Leased' = Leased /\ tenant' = tenant
    BY <2>1 DEF Leased, tenant
  <2>3. uses' = [uses EXCEPT ![u] = {}]
    BY <2>1 DEF uses, PoolInv, TypeOK
  <2>4. Leases!Done(u)
    BY <2>2, <2>3 DEF Leases!Done, tenant, uses, Pooled
  <2>. QED  BY <2>4 DEF Leases!Next
<1>12. ASSUME NEW u \in Users, NEW h \in headers, Validate(u, h)
       PROVE  Leases!Next
  <2>1. /\ UNCHANGED <<client, mainpc, newc, registered>> /\ using[u] = {}
        /\ using' = [using EXCEPT ![u] = {Borrowed(h, now)}]
        /\ iCurrsequence[h.pConn] = h.iCurrsequence
    BY <1>12 DEF Validate, loopVars, kernelVars
  <2>2. client[h.pConn] = h.client /\ h.pConn \in Leased /\ h.pConn \in Pooled
    BY <2>1, PlacesArePooled DEF HeaderInv
  <2>3. Leased' = Leased /\ tenant' = tenant /\ tenant[h.pConn] = h.client
    BY <2>1, <2>2 DEF Leased, tenant
  <2>4. uses[u] = {} /\ uses' = [uses EXCEPT ![u] = {<<h.pConn, h.client>>}]
    <3>1. using \in [Users -> SUBSET Uses]
      BY DEF PoolInv, TypeOK
    <3>2. {<<b.pConn, b.client>> : b \in {Borrowed(h, now)}} = {<<h.pConn, h.client>>}
      BY DEF Borrowed
    <3>. QED  BY <2>1, <3>1, <3>2 DEF uses
  <2>5. Leases!Use(u, h.pConn)
    BY <2>2, <2>3, <2>4 DEF Leases!Use, tenant, uses, Pooled
  <2>. QED  BY <2>2, <2>5 DEF Leases!Next, Pooled
<1>. QED
  BY NextCases, <1>2, <1>3, <1>4, <1>5, <1>6, <1>7, <1>8, <1>9, <1>10, <1>11, <1>12

\* The pool implements LeasePool: a connection is leased to one client at a time,
\* a thread begins to use it only for the client whose lease is open, and no
\* connection in use goes back to the free list, if no thread takes as long from
\* its test to its last use as a connection waits in the recycling queue.
THEOREM ImplementsLeasePool == Spec => LeasesHold
<1>1. Init => Leases!Init
  <2>. SUFFICES ASSUME Init PROVE Leases!Init
    OBVIOUS
  <2>1. Leased = {}
    BY DEF Init, Leased
  <2>. QED  BY <2>1 DEF Init, Leases!Init
<1>2. IInv /\ IInv' /\ [Next]_vars => [Leases!Next]_(Leases!vars)
  BY StepSimulation
<1>. QED
  BY <1>1, <1>2, Inductive, PTL DEF Spec, LeasesHold, Leases!Spec
-----------------------------------------------------------------------------
(* The reception of packets *)

Cells == Bytes \cup {Garbage}

\* The state of the machine names the buffer that is written, and a header that
\* has not begun is waited for as a whole.
StatInv ==
  phase = "use" =>
    /\ curStat \in {"HD_INIT", "HD_RECVING"} <=> precvbuf.buf = "dataHeadInfo"
    /\ curStat = "HD_INIT" => precvbuf.off = 0

RecvInv == RecvTypeOK /\ StatInv /\ BufferBounds /\ NoPacketLeaked

\* A function on 1..n is a sequence of n elements.
LEMMA FunctionIsSeq ==
  ASSUME NEW S, NEW n \in Nat, NEW f \in [1..n -> S]
  PROVE  f \in Seq(S) /\ Len(f) = n
<1>1. f \in Seq(S)
  BY SeqDef
<1>2. DOMAIN f = 1..n /\ DOMAIN f = 1..Len(f) /\ Len(f) \in Nat
  BY <1>1, LenProperties
<1>. QED  BY <1>1, <1>2

\* Writing bytes to memory keeps its length.
LEMMA WriteType ==
  ASSUME NEW n \in Nat, NEW memory \in [1..n -> Cells], NEW off \in Nat,
         NEW chunk \in Seq(Cells)
  PROVE  Write(memory, off, chunk) \in [1..n -> Cells]
<1>1. Len(chunk) \in Nat /\ \A i \in 1..Len(chunk) : chunk[i] \in Cells
  BY LenProperties, ElementOfSeq
<1>2. \A i \in (off + 1)..(off + Len(chunk)) : chunk[i - off] \in Cells
  BY <1>1
<1>. QED  BY <1>2 DEF Write

\* Memory of any legal length is Memory.
LEMMA MemoryOfLength ==
  ASSUME NEW n \in 0..MaxPkgLen, NEW memory \in [1..n -> Cells]
  PROVE  memory \in Memory /\ Len(memory) = n
<1>1. n \in Nat
  BY RecvPacketAssumption
<1>. QED  BY <1>1, FunctionIsSeq DEF Memory, Cells

\* Memory is a function on 1..n.
LEMMA MemoryLength ==
  ASSUME NEW memory \in Memory
  PROVE  /\ Len(memory) \in 0..MaxPkgLen
         /\ memory \in [1..Len(memory) -> Cells]
<1>1. PICK n \in 0..MaxPkgLen : memory \in [1..n -> Cells]
  BY DEF Memory, Cells
<1>. QED  BY <1>1, MemoryOfLength

\* The empty packet, NULL, is Memory.
LEMMA NullIsMemory == <<>> \in Memory /\ Len(<<>>) = 0
<1>1. <<>> \in [1..0 -> Cells] /\ 0 \in 0..MaxPkgLen
  BY RecvPacketAssumption
<1>. QED  BY <1>1, MemoryOfLength

-----------------------------------------------------------------------------
\* After a complete packet or an illegal header the invariant holds again.
LEMMA WaitForHeaderStep ==
  ASSUME RecvInv, WaitForHeader, UNCHANGED phase, phase = "use",
         precvMemPointer' = <<>>, dataHeadInfo' \in [1..HeaderLen -> Cells],
         stream' \in Seq(Bytes), delivered' \in Seq(Memory)
  PROVE  RecvInv'
BY NullIsMemory, RecvPacketAssumption
DEF WaitForHeader, RecvInv, RecvTypeOK, StatInv, BufferBounds, NoPacketLeaked, Cells

\* A packet that is handed to the thread pool leaves nothing behind.
LEMMA ProcPlastStep ==
  ASSUME RecvInv, NEW packet \in Memory, ProcPlast(packet), UNCHANGED phase,
         phase = "use", dataHeadInfo' \in [1..HeaderLen -> Cells],
         stream' \in Seq(Bytes)
  PROVE  RecvInv'
<1>1. delivered' \in Seq(Memory)
  BY DEF ProcPlast, RecvInv, RecvTypeOK
<1>. QED  BY <1>1, WaitForHeaderStep DEF ProcPlast

\* A header of any content is dropped, is a packet, or gets memory for one.
LEMMA ProcP1Step ==
  ASSUME RecvInv, NEW header \in [1..HeaderLen -> Cells], ProcP1(header),
         UNCHANGED phase, phase = "use", curStat \in {"HD_INIT", "HD_RECVING"},
         dataHeadInfo' = header, stream' \in Seq(Bytes)
  PROVE  RecvInv'
<1>. USE RecvPacketAssumption
<1>. DEFINE pkgLen == header[1]
<1>1. pkgLen \in Nat
  <2>1. 1 \in 1..HeaderLen
    OBVIOUS
  <2>2. header[1] \in Cells
    BY <2>1
  <2>3. Cells \subseteq Nat
    BY DEF Cells, Garbage
  <2>. QED  BY <2>2, <2>3
<1>2. precvMemPointer = <<>>
  BY DEF RecvInv, NoPacketLeaked
<1>3. delivered \in Seq(Memory)
  BY DEF RecvInv, RecvTypeOK
<1>4. CASE pkgLen < HeaderLen \/ pkgLen > MaxPkgLen
  <2>1. WaitForHeader /\ UNCHANGED <<precvMemPointer, delivered>>
    BY <1>1, <1>4 DEF ProcP1
  <2>. QED  BY <1>2, <1>3, <2>1, WaitForHeaderStep
<1>5. CASE pkgLen = HeaderLen
  <2>1. ProcPlast(header)
    BY <1>5 DEF ProcP1
  <2>2. header \in Memory
    BY MemoryOfLength
  <2>. QED  BY <2>1, <2>2, ProcPlastStep
<1>6. CASE pkgLen \in (HeaderLen + 1)..MaxPkgLen
  <2>. DEFINE fresh == [i \in 1..pkgLen |-> Garbage]
  <2>1. /\ precvMemPointer' = Write(fresh, 0, header)
        /\ curStat' = "BD_INIT"
        /\ precvbuf' = [buf |-> "precvMemPointer", off |-> HeaderLen]
        /\ irecvlen' = pkgLen - HeaderLen
        /\ UNCHANGED delivered
    BY <1>6 DEF ProcP1
  <2>2. header \in Seq(Cells)
    BY FunctionIsSeq
  <2>3. fresh \in [1..pkgLen -> Cells]
    BY DEF Cells
  <2>4. Write(fresh, 0, header) \in [1..pkgLen -> Cells]
    <3>. HIDE DEF fresh
    <3>. QED  BY <1>1, <2>2, <2>3, WriteType
  <2>5. precvMemPointer' \in Memory /\ Len(precvMemPointer') = pkgLen
    <3>. HIDE DEF fresh
    <3>1. pkgLen \in 0..MaxPkgLen
      BY <1>6
    <3>. HIDE DEF pkgLen
    <3>. QED  BY <2>1, <2>4, <3>1, MemoryOfLength
  <2>6. RecvTypeOK'
    BY <1>6, <2>1, <2>5, <1>3 DEF RecvInv, RecvTypeOK, Cells
  <2>7. StatInv' /\ BufferBounds' /\ NoPacketLeaked'
    BY <1>6, <2>1, <2>5 DEF StatInv, BufferBounds, NoPacketLeaked
  <2>. QED  BY <2>6, <2>7 DEF RecvInv
<1>. QED  BY <1>1, <1>4, <1>5, <1>6

\* A piece that does not fill the buffer leaves room for the rest of it.
LEMMA WaitForRestStep ==
  ASSUME RecvInv, phase = "use", UNCHANGED phase, NEW stat, NEW n \in Nat \ {0},
         WaitForRest(stat, n), n < irecvlen,
         stat = IF precvbuf.buf = "dataHeadInfo" THEN "HD_RECVING"
                ELSE "BD_RECVING",
         dataHeadInfo' \in [1..HeaderLen -> Cells], precvMemPointer' \in Memory,
         Len(precvMemPointer') = Len(precvMemPointer),
         precvbuf.buf = "dataHeadInfo" => precvMemPointer' = <<>>,
         stream' \in Seq(Bytes), UNCHANGED delivered
  PROVE  RecvInv'
<1>. USE RecvPacketAssumption
<1>1. /\ curStat' = stat
      /\ precvbuf' = [precvbuf EXCEPT !.off = @ + n]
      /\ irecvlen' = irecvlen - n
  BY DEF WaitForRest
<1>2. /\ precvbuf \in [buf : {"dataHeadInfo", "precvMemPointer"},
                       off : 0..MaxPkgLen]
      /\ irecvlen \in 1..MaxPkgLen
      /\ delivered \in Seq(Memory)
  BY DEF RecvInv, RecvTypeOK
<1>3. Len(precvMemPointer) \in 0..MaxPkgLen
  BY MemoryLength DEF RecvInv, RecvTypeOK
<1>4. /\ precvbuf'.buf = precvbuf.buf
      /\ precvbuf'.off = precvbuf.off + n
      /\ irecvlen' \in 1..MaxPkgLen
      /\ precvbuf'.off + irecvlen' = precvbuf.off + irecvlen
  BY <1>1, <1>2
<1>5. BufferBounds'
  BY <1>2, <1>4 DEF RecvInv, BufferBounds
<1>6. precvbuf.off + irecvlen <= MaxPkgLen
  BY <1>2, <1>3 DEF RecvInv, BufferBounds
<1>7. precvbuf'.off \in 0..MaxPkgLen
  BY <1>2, <1>4, <1>6
<1>8. precvbuf' \in [buf : {"dataHeadInfo", "precvMemPointer"},
                     off : 0..MaxPkgLen]
  BY <1>1, <1>2, <1>4, <1>7
<1>9. RecvTypeOK'
  BY <1>1, <1>2, <1>4, <1>8 DEF RecvInv, RecvTypeOK, Cells
<1>10. StatInv' /\ NoPacketLeaked'
  BY <1>1, <1>2, <1>4 DEF StatInv, NoPacketLeaked
<1>. QED  BY <1>5, <1>9, <1>10 DEF RecvInv

-----------------------------------------------------------------------------
\* recv() returns any number of the bytes it was asked for.
LEMMA ReceiveStep ==
  ASSUME RecvInv, NEW n \in 1..MaxPkgLen, NEW chunk \in [1..n -> Bytes],
         Receive(chunk)
  PROVE  RecvInv'
<1>. USE RecvPacketAssumption
<1>1. chunk \in Seq(Bytes) /\ chunk \in Seq(Cells) /\ Len(chunk) = n
  BY FunctionIsSeq DEF Cells
<1>2. /\ phase = "use" /\ UNCHANGED phase
      /\ n <= irecvlen
      /\ stream' = stream \o chunk
  BY <1>1 DEF Receive
<1>3. stream' \in Seq(Bytes)
  BY <1>1, <1>2 DEF RecvInv, RecvTypeOK
<1>4. precvbuf.off \in Nat /\ irecvlen \in Nat
  BY DEF RecvInv, RecvTypeOK
<1>5. CASE ReceiveHeader(chunk)
  <2>. DEFINE header == Write(dataHeadInfo, precvbuf.off, chunk)
              complete == \/ curStat = "HD_INIT" /\ Len(chunk) = HeaderLen
                          \/ curStat = "HD_RECVING" /\ Len(chunk) = irecvlen
  <2>1. /\ curStat \in {"HD_INIT", "HD_RECVING"}
        /\ dataHeadInfo' = header
        /\ \/ complete /\ ProcP1(header)
           \/ /\ ~complete
              /\ WaitForRest("HD_RECVING", Len(chunk))
              /\ UNCHANGED <<precvMemPointer, delivered>>
    BY <1>5 DEF ReceiveHeader
  <2>2. header \in [1..HeaderLen -> Cells]
    BY <1>1, <1>4, WriteType DEF RecvInv, RecvTypeOK, Cells
  <2>3. /\ precvbuf.buf = "dataHeadInfo" /\ precvMemPointer = <<>>
        /\ curStat = "HD_INIT" => irecvlen = HeaderLen
    BY <1>2, <1>4, <2>1 DEF RecvInv, StatInv, BufferBounds, NoPacketLeaked
  <2>4. CASE complete
    <3>1. ProcP1(header)
      BY <2>1, <2>4
    <3>. HIDE DEF header
    <3>. QED  BY <1>2, <1>3, <2>1, <2>2, <3>1, ProcP1Step
  <2>5. CASE ~complete
    <3>1. n # irecvlen
      BY <1>1, <2>1, <2>3, <2>5
    <3>2. WaitForRest("HD_RECVING", n) /\ UNCHANGED <<precvMemPointer, delivered>>
      BY <1>1, <2>1, <2>5
    <3>3. n < irecvlen /\ n \in Nat \ {0}
      BY <1>2, <1>4, <3>1
    <3>4. dataHeadInfo' \in [1..HeaderLen -> Cells] /\ precvMemPointer' \in Memory
      BY <2>1, <2>2, <3>2 DEF RecvInv, RecvTypeOK
    <3>. QED  BY <1>2, <1>3, <2>3, <3>2, <3>3, <3>4, WaitForRestStep
  <2>. QED  BY <2>4, <2>5
<1>6. CASE ReceiveBody(chunk)
  <2>. DEFINE packet == Write(precvMemPointer, precvbuf.off, chunk)
  <2>1. /\ curStat \in {"BD_INIT", "BD_RECVING"}
        /\ \/ Len(chunk) = irecvlen /\ ProcPlast(packet)
           \/ /\ Len(chunk) # irecvlen
              /\ precvMemPointer' = packet
              /\ WaitForRest("BD_RECVING", Len(chunk))
              /\ UNCHANGED delivered
        /\ UNCHANGED dataHeadInfo
    BY <1>6 DEF ReceiveBody
  <2>2. /\ Len(precvMemPointer) \in 0..MaxPkgLen
        /\ precvMemPointer \in [1..Len(precvMemPointer) -> Cells]
    BY MemoryLength DEF RecvInv, RecvTypeOK
  <2>3. packet \in [1..Len(precvMemPointer) -> Cells]
    <3>1. Len(precvMemPointer) \in Nat
      BY <2>2
    <3>. QED  BY <1>1, <1>4, <2>2, <3>1, WriteType
  <2>4. packet \in Memory /\ Len(packet) = Len(precvMemPointer)
    <3>. HIDE DEF packet
    <3>. QED  BY <2>2, <2>3, MemoryOfLength
  <2>5. dataHeadInfo' \in [1..HeaderLen -> Cells]
    BY <2>1 DEF RecvInv, RecvTypeOK, Cells
  <2>6. CASE n = irecvlen
    <3>1. ProcPlast(packet)
      BY <1>1, <2>1, <2>6
    <3>. HIDE DEF packet
    <3>. QED  BY <1>2, <1>3, <2>4, <2>5, <3>1, ProcPlastStep
  <2>7. CASE n # irecvlen
    <3>1. /\ precvMemPointer' = packet /\ UNCHANGED delivered
          /\ WaitForRest("BD_RECVING", n)
      BY <1>1, <2>1, <2>7
    <3>2. n < irecvlen /\ n \in Nat \ {0}
      BY <1>2, <1>4, <2>7
    <3>3. precvbuf.buf = "precvMemPointer"
      BY <1>2, <2>1 DEF RecvInv, StatInv, RecvTypeOK
    <3>. HIDE DEF packet
    <3>. QED  BY <1>2, <1>3, <2>4, <2>5, <3>1, <3>2, <3>3, WaitForRestStep
  <2>. QED  BY <2>6, <2>7
<1>. QED  BY <1>5, <1>6 DEF Receive

-----------------------------------------------------------------------------
(* The packets of a stream *)

\* PacketsFrom is defined by a recursion that ends: the number of bytes left
\* decreases.
LEMMA FromUnfolds ==
  ASSUME NEW bytes \in Seq(Bytes)
  PROVE  PacketsFrom(bytes) =
           [p \in 1..(Len(bytes) + 1) |->
              IF p + HeaderLen - 1 > Len(bytes) THEN <<>>
              ELSE IF bytes[p] < HeaderLen \/ bytes[p] > MaxPkgLen
                THEN PacketsFrom(bytes)[p + HeaderLen]
              ELSE IF p + bytes[p] - 1 > Len(bytes) THEN <<>>
              ELSE <<SubSeq(bytes, p, p + bytes[p] - 1)>>
                     \o PacketsFrom(bytes)[p + bytes[p]]]
<1>. USE RecvPacketAssumption
<1>. DEFINE L == Len(bytes)
            Body(f, p) == IF p + HeaderLen - 1 > L THEN <<>>
                          ELSE IF bytes[p] < HeaderLen \/ bytes[p] > MaxPkgLen
                            THEN f[p + HeaderLen]
                          ELSE IF p + bytes[p] - 1 > L THEN <<>>
                          ELSE <<SubSeq(bytes, p, p + bytes[p] - 1)>> \o f[p + bytes[p]]
            Solved(k) == \E g : g = [p \in (L + 1 - k)..(L + 1) |-> Body(g, p)]
            T == {k \in Nat : k <= L => Solved(k)}
<1>1. L \in Nat /\ \A p \in 1..L : bytes[p] \in Nat \ {0}
  BY LenProperties, ElementOfSeq
<1>2. ASSUME NEW p \in 1..(L + 1), NEW f, NEW g,
             \A i \in (p + 1)..(L + 1) : f[i] = g[i]
      PROVE  Body(f, p) = Body(g, p)
  <2>. HIDE DEF L
  <2>1. CASE p + HeaderLen - 1 > L
    BY <2>1
  <2>2. CASE ~(p + HeaderLen - 1 > L)
    <3>1. p \in 1..L /\ p + HeaderLen \in (p + 1)..(L + 1) /\ bytes[p] \in Nat \ {0}
      BY <1>1, <2>2
    <3>2. ~(p + bytes[p] - 1 > L) => p + bytes[p] \in (p + 1)..(L + 1)
      BY <1>1, <3>1
    <3>. QED  BY <1>2, <3>1, <3>2
  <2>. QED  BY <2>1, <2>2
<1>3. Solved(0)
  <2>. DEFINE g == [p \in (L + 1 - 0)..(L + 1) |-> <<>>]
  <2>1. \A p \in (L + 1 - 0)..(L + 1) : p + HeaderLen - 1 > L
    BY <1>1
  <2>2. g = [p \in (L + 1 - 0)..(L + 1) |-> Body(g, p)]
    BY <2>1
  <2>. QED  BY <2>2
<1>4. ASSUME NEW k \in Nat, k + 1 <= L, Solved(k) PROVE Solved(k + 1)
  <2>1. PICK g : g = [p \in (L + 1 - k)..(L + 1) |-> Body(g, p)]
    BY <1>4
  <2>. DEFINE q == L + 1 - (k + 1)
              h == [p \in q..(L + 1) |-> IF p = q THEN Body(g, q) ELSE g[p]]
  <2>2. q \in 1..L /\ q + 1 = L + 1 - k
    BY <1>1, <1>4
  <2>3. \A i \in (q + 1)..(L + 1) : h[i] = g[i]
    BY <1>1, <2>2
  <2>. HIDE DEF h, Body, L
  <2>4. ASSUME NEW p \in q..(L + 1) PROVE h[p] = Body(h, p)
    <3>1. p \in 1..(L + 1) /\ \A i \in (p + 1)..(L + 1) : h[i] = g[i]
      BY <1>1, <2>2, <2>3
    <3>2. Body(h, p) = Body(g, p)
      BY <1>2, <3>1
    <3>3. CASE p = q
      BY <3>2, <3>3 DEF h
    <3>4. CASE p # q
      <4>1. p \in (q + 1)..(L + 1)
        BY <1>1, <2>2, <3>4
      <4>2. g[p] = Body(g, p)
        BY <2>1, <2>2, <4>1
      <4>. QED  BY <2>3, <3>2, <4>1, <4>2
    <3>. QED  BY <3>3, <3>4
  <2>5. h = [p \in q..(L + 1) |-> h[p]]
    BY DEF h
  <2>6. h = [p \in q..(L + 1) |-> Body(h, p)]
    BY <2>4, <2>5
  <2>. QED  BY <2>6
<1>5. Solved(L)
  <2>. HIDE DEF Solved, L
  <2>1. \A k \in Nat : k \in T => k + 1 \in T
    BY <1>1, <1>4
  <2>2. 0 \in T
    BY <1>3
  <2>3. L \in T
    <3>. HIDE DEF T
    <3>. QED  BY <1>1, <2>1, <2>2, StepInduction
  <2>. QED  BY <1>1, <2>3
<1>6. \E g : g = [p \in 1..(L + 1) |-> Body(g, p)]
  <2>1. L + 1 - L = 1
    BY <1>1
  <2>. QED  BY <1>1, <1>5, <2>1
<1>7. PacketsFrom(bytes) = CHOOSE g : g = [p \in 1..(L + 1) |-> Body(g, p)]
  BY DEF PacketsFrom
<1>. QED
  <2>. HIDE DEF Body
  <2>1. PacketsFrom(bytes) = [p \in 1..(L + 1) |-> Body(PacketsFrom(bytes), p)]
    BY <1>6, <1>7
  <2>. QED  BY <2>1 DEF Body

\* The equation at one byte.
LEMMA FromAt ==
  ASSUME NEW bytes \in Seq(Bytes), NEW p \in 1..(Len(bytes) + 1)
  PROVE  /\ p + HeaderLen - 1 > Len(bytes) => PacketsFrom(bytes)[p] = <<>>
         /\ p + HeaderLen - 1 <= Len(bytes) =>
              LET n == bytes[p]
              IN  /\ p \in 1..Len(bytes) /\ n \in Nat
                  /\ (n < HeaderLen \/ n > MaxPkgLen) =>
                       PacketsFrom(bytes)[p] = PacketsFrom(bytes)[p + HeaderLen]
                  /\ n \in HeaderLen..MaxPkgLen =>
                       IF p + n - 1 > Len(bytes) THEN PacketsFrom(bytes)[p] = <<>>
                       ELSE PacketsFrom(bytes)[p] =
                              <<SubSeq(bytes, p, p + n - 1)>> \o PacketsFrom(bytes)[p + n]
<1>. USE RecvPacketAssumption
<1>1. Len(bytes) \in Nat /\ \A i \in 1..Len(bytes) : bytes[i] \in Nat \ {0}
  BY LenProperties, ElementOfSeq
<1>2. PacketsFrom(bytes)[p] =
        IF p + HeaderLen - 1 > Len(bytes) THEN <<>>
        ELSE IF bytes[p] < HeaderLen \/ bytes[p] > MaxPkgLen
          THEN PacketsFrom(bytes)[p + HeaderLen]
        ELSE IF p + bytes[p] - 1 > Len(bytes) THEN <<>>
        ELSE <<SubSeq(bytes, p, p + bytes[p] - 1)>> \o PacketsFrom(bytes)[p + bytes[p]]
  BY FromUnfolds
<1>3. CASE p + HeaderLen - 1 > Len(bytes)
  BY <1>1, <1>2, <1>3
<1>4. CASE p + HeaderLen - 1 <= Len(bytes)
  <2>1. p \in 1..Len(bytes) /\ bytes[p] \in Nat /\ ~(p + HeaderLen - 1 > Len(bytes))
    BY <1>1, <1>4
  <2>2. bytes[p] \in HeaderLen..MaxPkgLen => ~(bytes[p] < HeaderLen \/ bytes[p] > MaxPkgLen)
    BY <2>1
  <2>. QED  BY <1>2, <1>4, <2>1, <2>2
<1>. QED  BY <1>1, <1>3, <1>4

\* Packets are sequences of bytes.
LEMMA FromType ==
  ASSUME NEW bytes \in Seq(Bytes), NEW p \in 1..(Len(bytes) + 1)
  PROVE  PacketsFrom(bytes)[p] \in Seq(Seq(Bytes))
<1>. USE RecvPacketAssumption
<1>. DEFINE L == Len(bytes)
            Good(k) == PacketsFrom(bytes)[L + 1 - k] \in Seq(Seq(Bytes))
            T == {k \in Nat : k <= L => Good(k)}
<1>1. L \in Nat /\ <<>> \in Seq(Seq(Bytes)) /\ \A i \in 1..L : bytes[i] \in Bytes
  BY LenProperties, ElementOfSeq
<1>2. ASSUME NEW k \in Nat, k <= L, \A m \in 0..(k - 1) : Good(m) PROVE Good(k)
  <2>. DEFINE q == L + 1 - k
  <2>1. q \in 1..(L + 1)
    BY <1>1, <1>2
  <2>2. ASSUME NEW r \in (q + 1)..(L + 1) PROVE PacketsFrom(bytes)[r] \in Seq(Seq(Bytes))
    <3>1. L + 1 - r \in 0..(k - 1) /\ L + 1 - (L + 1 - r) = r
      BY <1>1, <1>2
    <3>. QED  BY <1>2, <3>1
  <2>. HIDE DEF q, L
  <2>3. CASE q + HeaderLen - 1 > L
    BY <1>1, <2>1, <2>3, FromAt DEF L, q
  <2>4. CASE q + HeaderLen - 1 <= L
    <3>. DEFINE n == bytes[q]
    <3>1. /\ q \in 1..L /\ n \in Nat
          /\ (n < HeaderLen \/ n > MaxPkgLen) =>
               PacketsFrom(bytes)[q] = PacketsFrom(bytes)[q + HeaderLen]
          /\ n \in HeaderLen..MaxPkgLen =>
               IF q + n - 1 > L THEN PacketsFrom(bytes)[q] = <<>>
               ELSE PacketsFrom(bytes)[q] =
                      <<SubSeq(bytes, q, q + n - 1)>> \o PacketsFrom(bytes)[q + n]
      BY <2>1, <2>4, FromAt DEF L
    <3>2. CASE n < HeaderLen \/ n > MaxPkgLen
      <4>1. q + HeaderLen \in (q + 1)..(L + 1)
        BY <1>1, <2>1, <2>4
      <4>. QED  BY <2>2, <3>1, <3>2, <4>1 DEF q
    <3>3. CASE n \in HeaderLen..MaxPkgLen /\ q + n - 1 > L
      BY <1>1, <3>1, <3>3 DEF q
    <3>4. CASE n \in HeaderLen..MaxPkgLen /\ q + n - 1 <= L
      <4>1. q + n \in (q + 1)..(L + 1) /\ q + n - 1 \in 1..L
        BY <1>1, <2>1, <3>4
      <4>2. SubSeq(bytes, q, q + n - 1) \in Seq(Bytes)
        <5>1. \A i \in q..(q + n - 1) : bytes[i] \in Bytes
          BY <1>1, <3>1, <3>4
        <5>. QED  BY <5>1, <2>1, <4>1, SubSeqProperties
      <4>3. PacketsFrom(bytes)[q] =
              <<SubSeq(bytes, q, q + n - 1)>> \o PacketsFrom(bytes)[q + n]
        <5>1. ~(q + n - 1 > L) /\ n \in HeaderLen..MaxPkgLen
          BY <1>1, <3>4, <4>1
        <5>. QED  BY <3>1, <5>1
      <4>4. <<SubSeq(bytes, q, q + n - 1)>> \in Seq(Seq(Bytes))
        BY <4>2
      <4>. QED  BY <2>2, <4>1, <4>3, <4>4, ConcatProperties DEF q
    <3>5. n < HeaderLen \/ n > MaxPkgLen \/ n \in HeaderLen..MaxPkgLen
      BY <3>1
    <3>6. q + n - 1 > L \/ q + n - 1 <= L
      BY <1>1, <2>1, <3>1
    <3>. QED  BY <3>2, <3>3, <3>4, <3>5, <3>6
  <2>5. q + HeaderLen - 1 > L \/ q + HeaderLen - 1 <= L
    BY <1>1, <2>1
  <2>. QED  BY <2>3, <2>4, <2>5
<1>3. \A k \in Nat : k \in T
  <2>. HIDE DEF Good, L
  <2>1. ASSUME NEW k \in Nat, \A m \in 0..(k - 1) : m \in T PROVE k \in T
    BY <1>1, <1>2, <2>1
  <2>. HIDE DEF T
  <2>. QED  BY <2>1, SetInduction
<1>4. L + 1 - p \in Nat /\ L + 1 - p <= L /\ L + 1 - (L + 1 - p) = p
  BY <1>1
<1>5. Good(L + 1 - p)
  BY <1>3, <1>4
<1>. QED  BY <1>4, <1>5

\* However the stream goes on behind bytes, out are the packets in front of byte
\* q + 1, and the others begin there.
Parsed(bytes, out, q) ==
  \A rest \in Seq(Bytes) :
    Packets(bytes \o rest) = out \o PacketsFrom(bytes \o rest)[q + 1]

\* What is behind bytes does not change bytes.
LEMMA BytesStay ==
  ASSUME NEW bytes \in Seq(Bytes), NEW rest \in Seq(Bytes)
  PROVE  /\ bytes \o rest \in Seq(Bytes)
         /\ Len(bytes) \in Nat /\ Len(rest) \in Nat
         /\ Len(bytes \o rest) = Len(bytes) + Len(rest)
         /\ \A i \in 1..Len(bytes) : (bytes \o rest)[i] = bytes[i]
         /\ \A i \in 1..Len(rest) : (bytes \o rest)[Len(bytes) + i] = rest[i]
<1>1. /\ bytes \o rest \in Seq(Bytes)
      /\ Len(bytes) \in Nat /\ Len(rest) \in Nat
      /\ Len(bytes \o rest) = Len(bytes) + Len(rest)
      /\ \A i \in 1..(Len(bytes) + Len(rest)) :
           (bytes \o rest)[i] = IF i <= Len(bytes) THEN bytes[i] ELSE rest[i - Len(bytes)]
  BY ConcatProperties, LenProperties
<1>2. \A i \in 1..Len(bytes) : i \in 1..(Len(bytes) + Len(rest)) /\ i <= Len(bytes)
  BY <1>1
<1>3. \A i \in 1..Len(rest) :
        /\ Len(bytes) + i \in 1..(Len(bytes) + Len(rest)) /\ ~(Len(bytes) + i <= Len(bytes))
        /\ Len(bytes) + i - Len(bytes) = i
  BY <1>1
<1>. QED  BY <1>1, <1>2, <1>3

\* A longer part of the stream is parsed as far.
LEMMA ParsedMore ==
  ASSUME NEW bytes \in Seq(Bytes), NEW out, NEW q, NEW chunk \in Seq(Bytes),
         Parsed(bytes, out, q)
  PROVE  Parsed(bytes \o chunk, out, q)
<1>. SUFFICES ASSUME NEW rest \in Seq(Bytes)
              PROVE  Packets((bytes \o chunk) \o rest) =
                       out \o PacketsFrom((bytes \o chunk) \o rest)[q + 1]
  BY DEF Parsed
<1>1. (bytes \o chunk) \o rest = bytes \o (chunk \o rest) /\ chunk \o rest \in Seq(Bytes)
  BY ConcatAssociative, ConcatProperties
<1>. QED  BY <1>1 DEF Parsed

\* A header with an impossible length is dropped.
LEMMA ParsedIllegal ==
  ASSUME NEW bytes \in Seq(Bytes), NEW out, NEW q \in Nat, Parsed(bytes, out, q),
         q + HeaderLen <= Len(bytes),
         bytes[q + 1] < HeaderLen \/ bytes[q + 1] > MaxPkgLen
  PROVE  Parsed(bytes, out, q + HeaderLen)
<1>. USE RecvPacketAssumption
<1>. SUFFICES ASSUME NEW rest \in Seq(Bytes)
              PROVE  Packets(bytes \o rest) =
                       out \o PacketsFrom(bytes \o rest)[q + HeaderLen + 1]
  BY DEF Parsed
<1>. DEFINE all == bytes \o rest
<1>1. /\ all \in Seq(Bytes) /\ Len(bytes) \in Nat /\ Len(rest) \in Nat
      /\ Len(all) = Len(bytes) + Len(rest)
      /\ q + 1 \in 1..Len(bytes) /\ all[q + 1] = bytes[q + 1]
  BY BytesStay
<1>2. Packets(all) = out \o PacketsFrom(all)[q + 1]
  BY DEF Parsed
<1>. HIDE DEF all
<1>3. q + 1 \in 1..(Len(all) + 1) /\ q + 1 + HeaderLen - 1 <= Len(all)
  BY <1>1
<1>4. PacketsFrom(all)[q + 1] = PacketsFrom(all)[q + 1 + HeaderLen]
  BY <1>1, <1>3, FromAt
<1>5. q + 1 + HeaderLen = q + HeaderLen + 1
  OBVIOUS
<1>. QED  BY <1>2, <1>4, <1>5 DEF all

\* Concatenation of lists of packets is associative.
LEMMA ListsOfPackets ==
  ASSUME NEW a \in Seq(Seq(Bytes)), NEW b \in Seq(Seq(Bytes)), NEW c \in Seq(Seq(Bytes))
  PROVE  (a \o b) \o c = a \o (b \o c)
BY ConcatAssociative

\* The n bytes after the first q of a stream.
LEMMA Stretch ==
  ASSUME NEW s \in Seq(Bytes), NEW q \in Nat, NEW n \in Nat, q + n <= Len(s)
  PROVE  /\ SubSeq(s, q + 1, q + n) \in Seq(Bytes) /\ Len(SubSeq(s, q + 1, q + n)) = n
         /\ \A i \in 1..n : SubSeq(s, q + 1, q + n)[i] = s[q + i]
<1>1. Len(s) \in Nat /\ \A i \in 1..Len(s) : s[i] \in Bytes
  BY LenProperties, ElementOfSeq
<1>2. \A i \in (q + 1)..(q + n) : s[i] \in Bytes
  BY <1>1
<1>3. q + 1 \in Int /\ q + n \in Int
  OBVIOUS
<1>. DEFINE a == q + 1
            b == q + n
<1>4. /\ SubSeq(s, a, b) \in Seq(Bytes)
      /\ Len(SubSeq(s, a, b)) = IF a <= b THEN b - a + 1 ELSE 0
      /\ \A i \in 1..(b - a + 1) : SubSeq(s, a, b)[i] = s[a + i - 1]
  <2>. HIDE DEF a, b
  <2>1. a \in Int /\ b \in Int /\ \A i \in a..b : s[i] \in Bytes
    BY <1>2, <1>3 DEF a, b
  <2>. QED  BY <2>1, SubSeqProperties, SMTT(20)
<1>. DEFINE cut == SubSeq(s, a, b)
<1>5. /\ b - a + 1 = n /\ (IF a <= b THEN b - a + 1 ELSE 0) = n
      /\ \A i \in 1..n : a + i - 1 = q + i
  OBVIOUS
<1>6. cut \in Seq(Bytes) /\ Len(cut) = n /\ \A i \in 1..n : cut[i] = s[q + i]
  <2>. HIDE DEF cut, a, b
  <2>1. /\ cut \in Seq(Bytes) /\ Len(cut) = IF a <= b THEN b - a + 1 ELSE 0
        /\ \A i \in 1..(b - a + 1) : cut[i] = s[a + i - 1]
    BY <1>4 DEF cut
  <2>. QED  BY <1>5, <2>1
<1>. QED  BY <1>6

\* A whole packet is the next one.
LEMMA ParsedPacket ==
  ASSUME NEW bytes \in Seq(Bytes), NEW out \in Seq(Seq(Bytes)), NEW q \in Nat,
         Parsed(bytes, out, q), NEW n \in HeaderLen..MaxPkgLen,
         q + n <= Len(bytes), bytes[q + 1] = n
  PROVE  /\ SubSeq(bytes, q + 1, q + n) \in Seq(Bytes)
         /\ Parsed(bytes, Append(out, SubSeq(bytes, q + 1, q + n)), q + n)
<1>. USE RecvPacketAssumption
<1>. DEFINE packet == SubSeq(bytes, q + 1, q + n)
<1>1. Len(bytes) \in Nat /\ \A i \in 1..Len(bytes) : bytes[i] \in Bytes
  BY LenProperties, ElementOfSeq
<1>2. packet \in Seq(Bytes) /\ Len(packet) = n /\ \A i \in 1..n : packet[i] = bytes[q + i]
  BY Stretch
<1>3. ASSUME NEW rest \in Seq(Bytes)
      PROVE  Packets(bytes \o rest) =
               Append(out, packet) \o PacketsFrom(bytes \o rest)[q + n + 1]
  <2>. DEFINE all == bytes \o rest
  <2>1. /\ all \in Seq(Bytes) /\ Len(bytes) \in Nat /\ Len(rest) \in Nat
        /\ Len(all) = Len(bytes) + Len(rest)
        /\ q + 1 \in 1..Len(bytes) /\ all[q + 1] = n
        /\ \A i \in 1..Len(bytes) : all[i] = bytes[i]
    BY BytesStay
  <2>2. Packets(all) = out \o PacketsFrom(all)[q + 1]
    BY DEF Parsed
  <2>. HIDE DEF all, packet
  <2>3. /\ q + 1 \in 1..(Len(all) + 1) /\ q + 1 + HeaderLen - 1 <= Len(all)
        /\ ~(q + 1 + n - 1 > Len(all))
    BY <2>1
  <2>4. PacketsFrom(all)[q + 1] =
          <<SubSeq(all, q + 1, q + 1 + n - 1)>> \o PacketsFrom(all)[q + 1 + n]
    <3>1. /\ all[q + 1] \in HeaderLen..MaxPkgLen
          /\ ~(q + 1 + all[q + 1] - 1 > Len(all))
      BY <2>1, <2>3
    <3>2. PacketsFrom(all)[q + 1] =
            <<SubSeq(all, q + 1, q + 1 + all[q + 1] - 1)>>
              \o PacketsFrom(all)[q + 1 + all[q + 1]]
      BY <2>1, <2>3, <3>1, FromAt
    <3>. QED  BY <2>1, <3>2
  <2>5. q + 1 + n - 1 = q + n /\ q + 1 + n = q + n + 1
    OBVIOUS
  <2>6. SubSeq(all, q + 1, q + n) = packet
    <3>. DEFINE cut == SubSeq(all, q + 1, q + n)
    <3>1. all \in Seq(Bytes) /\ n \in Nat /\ q + n <= Len(all)
      BY <2>1
    <3>2. cut \in Seq(Bytes) /\ Len(cut) = n /\ \A i \in 1..n : cut[i] = all[q + i]
      BY <3>1, Stretch
    <3>. HIDE DEF cut
    <3>3. \A i \in 1..n : all[q + i] = bytes[q + i]
      <4>1. \A i \in 1..n : q + i \in 1..Len(bytes)
        BY <1>1
      <4>. QED  BY <2>1, <4>1
    <3>4. \A i \in 1..n : cut[i] = packet[i]
      BY <1>2, <3>2, <3>3
    <3>5. cut \in Seq(Bytes) /\ packet \in Seq(Bytes) /\ Len(cut) = Len(packet)
          /\ \A i \in 1..Len(cut) : cut[i] = packet[i]
      BY <1>2, <3>2, <3>4
    <3>6. cut = packet
      BY <3>5, SeqEqual
    <3>. QED  BY <3>6 DEF cut
  <2>7. PacketsFrom(all)[q + n + 1] \in Seq(Seq(Bytes))
    <3>1. q + n + 1 \in 1..(Len(all) + 1)
      BY <2>1
    <3>. QED  BY <2>1, <3>1, FromType
  <2>8. out \o (<<packet>> \o PacketsFrom(all)[q + n + 1]) =
          Append(out, packet) \o PacketsFrom(all)[q + n + 1]
    <3>. DEFINE one == <<packet>>
                others == PacketsFrom(all)[q + n + 1]
    <3>1. one \in Seq(Seq(Bytes)) /\ Append(out, packet) = out \o one
      BY <1>2, AppendIsConcat
    <3>2. others \in Seq(Seq(Bytes))
      BY <2>7
    <3>. HIDE DEF one, others
    <3>3. (out \o one) \o others = out \o (one \o others)
      BY <3>1, <3>2, ListsOfPackets
    <3>. QED  BY <3>1, <3>3 DEF one, others
  <2>. QED  BY <2>2, <2>4, <2>5, <2>6, <2>8 DEF all
<1>. QED  BY <1>2, <1>3 DEF Parsed

\* What is left is not a packet yet.
LEMMA ParsedEnd ==
  ASSUME NEW bytes \in Seq(Bytes), NEW out \in Seq(Seq(Bytes)), NEW q \in 0..Len(bytes),
         Parsed(bytes, out, q),
         \/ q + HeaderLen > Len(bytes)
         \/ bytes[q + 1] \in HeaderLen..MaxPkgLen /\ q + bytes[q + 1] > Len(bytes)
  PROVE  Packets(bytes) = out
<1>. USE RecvPacketAssumption
<1>1. Len(bytes) \in Nat /\ <<>> \in Seq(Bytes) /\ bytes \o <<>> = bytes
  BY LenProperties, ConcatEmptySeq, EmptySeq
<1>2. Packets(bytes) = out \o PacketsFrom(bytes)[q + 1]
  BY <1>1 DEF Parsed
<1>3. PacketsFrom(bytes)[q + 1] = <<>>
  <2>1. q + 1 \in 1..(Len(bytes) + 1)
    BY <1>1
  <2>2. CASE q + HeaderLen > Len(bytes)
    <3>1. q + 1 + HeaderLen - 1 > Len(bytes)
      BY <1>1, <2>2
    <3>. QED  BY <2>1, <3>1, FromAt
  <2>3. CASE q + HeaderLen <= Len(bytes)
    <3>. DEFINE n == bytes[q + 1]
    <3>1. /\ q + 1 + HeaderLen - 1 <= Len(bytes)
          /\ n \in HeaderLen..MaxPkgLen /\ q + n > Len(bytes)
      BY <1>1, <2>3
    <3>2. q + 1 + n - 1 > Len(bytes)
      BY <1>1, <3>1
    <3>. QED  BY <2>1, <3>1, <3>2, FromAt
  <2>. QED  BY <1>1, <2>2, <2>3
<1>. QED  BY <1>2, <1>3, ConcatEmptySeq
\* Every step keeps the invariant, that of the pool included: what a connection
\* object was last used for does not matter to the next client.
LEMMA InductiveStep ==
  ASSUME RecvInv, [RecvNext]_recvVars
  PROVE  RecvInv'
<1>. USE RecvPacketAssumption
<1>1. CASE \E n \in 1..MaxPkgLen : \E chunk \in [1..n -> Bytes] : Receive(chunk)
  BY <1>1, ReceiveStep
<1>2. CASE ClientGone
  BY <1>2 DEF ClientGone, RecvInv, RecvTypeOK, StatInv, BufferBounds, NoPacketLeaked
<1>3. CASE PutOneToFree
  BY <1>3, NullIsMemory
  DEF PutOneToFree, RecvInv, RecvTypeOK, StatInv, BufferBounds, NoPacketLeaked
<1>4. CASE GetOneToUse
  BY <1>4, NullIsMemory
  DEF GetOneToUse, WaitForHeader, RecvInv, RecvTypeOK, StatInv, BufferBounds,
      NoPacketLeaked
<1>5. CASE UNCHANGED recvVars
  BY <1>5 DEF recvVars, RecvInv, RecvTypeOK, StatInv, BufferBounds, NoPacketLeaked, Memory
<1>. QED  BY <1>1, <1>2, <1>3, <1>4, <1>5 DEF RecvNext

\* The invariant is one of every reachable state.
LEMMA RecvInductive == RecvSpec => []RecvInv
<1>1. RecvInit => RecvInv
  BY NullIsMemory, RecvPacketAssumption
  DEF RecvInit, Head0, Garbage, RecvInv, RecvTypeOK, StatInv, BufferBounds, NoPacketLeaked
<1>. QED  BY <1>1, InductiveStep, PTL DEF RecvSpec

\* The connection's receive fields keep their types.
THEOREM RecvTypeCorrect == RecvSpec => []RecvTypeOK
<1>1. RecvInv => RecvTypeOK
  BY DEF RecvInv
<1>. QED  BY <1>1, RecvInductive, PTL

\* recv() is always asked for what is left of the buffer it writes to, and for
\* at least one byte (ngx_read_request_handler, ngx_wait_request_handler_proc_p1).
THEOREM BuffersRespected == RecvSpec => []BufferBounds
<1>1. RecvInv => BufferBounds
  BY DEF RecvInv
<1>. QED  BY <1>1, RecvInductive, PTL

\* No path through the state machine or the pool loses the memory of a packet
\* (PutOneToFree frees what a client that has gone left unfinished).
THEOREM PacketsNotLeaked == RecvSpec => []NoPacketLeaked
<1>1. RecvInv => NoPacketLeaked
  BY DEF RecvInv
<1>. QED  BY <1>1, RecvInductive, PTL
-----------------------------------------------------------------------------
(* Reassembled *)

\* What is being received, and the byte of the stream behind which it begins.
Buffer == IF precvbuf.buf = "dataHeadInfo" THEN dataHeadInfo ELSE precvMemPointer
Done == Len(stream) - precvbuf.off

\* The buffer has the bytes of the stream that belong to no packet yet, and the
\* memory for a packet is as long as its header says.
PartInv ==
  /\ precvbuf.off <= Len(stream)
  /\ \A i \in 1..precvbuf.off : Buffer[i] = stream[Done + i]
  /\ precvbuf.buf = "precvMemPointer" =>
       /\ HeaderLen <= precvbuf.off
       /\ precvMemPointer[1] = Len(precvMemPointer)
       /\ Len(precvMemPointer) \in HeaderLen..MaxPkgLen
  /\ Parsed(stream, delivered, Done)

StreamInv ==
  /\ delivered \in Seq(Seq(Bytes))
  /\ phase = "use" => PartInv
  /\ Reassembled

\* What is written behind the bytes received before continues the stream.
LEMMA WriteContinues ==
  ASSUME NEW n \in Nat, NEW memory \in [1..n -> Cells], NEW bytes \in Seq(Bytes),
         NEW off \in 0..Len(bytes), NEW chunk \in Seq(Bytes), off + Len(chunk) <= n,
         \A i \in 1..off : memory[i] = bytes[Len(bytes) - off + i]
  PROVE  \A i \in 1..(off + Len(chunk)) :
           Write(memory, off, chunk)[i] = (bytes \o chunk)[Len(bytes) - off + i]
<1>. DEFINE L == Len(bytes)
            m == Len(chunk)
<1>1. /\ L \in Nat /\ m \in Nat
      /\ \A i \in 1..L : (bytes \o chunk)[i] = bytes[i]
      /\ \A i \in 1..m : (bytes \o chunk)[L + i] = chunk[i]
  BY BytesStay
<1>2. ASSUME NEW i \in 1..(off + m)
      PROVE  Write(memory, off, chunk)[i] = (bytes \o chunk)[L - off + i]
  <2>1. i \in 1..n /\ DOMAIN memory = 1..n
    BY <1>1
  <2>2. Write(memory, off, chunk)[i] =
          IF i \in (off + 1)..(off + m) THEN chunk[i - off] ELSE memory[i]
    BY <2>1 DEF Write
  <2>. HIDE DEF L, m
  <2>3. CASE i <= off
    <3>1. i \in 1..off /\ ~(i \in (off + 1)..(off + m)) /\ L - off + i \in 1..L
      BY <1>1, <2>3 DEF L
    <3>. QED  BY <1>1, <2>2, <3>1 DEF L
  <2>4. CASE ~(i <= off)
    <3>1. i \in (off + 1)..(off + m) /\ i - off \in 1..m /\ L - off + i = L + (i - off)
      BY <1>1, <2>4 DEF L
    <3>. QED  BY <1>1, <2>2, <3>1
  <2>. QED  BY <2>3, <2>4
<1>. QED  BY <1>2

\* The next header is waited for behind what is parsed.
LEMMA ParsedUpToEnd ==
  ASSUME WaitForHeader, stream' \in Seq(Bytes), delivered' \in Seq(Seq(Bytes)),
         Parsed(stream', delivered', Len(stream'))
  PROVE  StreamInv'
<1>. USE RecvPacketAssumption
<1>1. Len(stream') \in Nat
  BY LenProperties
<1>2. /\ precvbuf'.buf = "dataHeadInfo" /\ precvbuf'.off = 0
  BY DEF WaitForHeader
<1>3. Len(stream') - precvbuf'.off = Len(stream')
  BY <1>1, <1>2
<1>4. PartInv'
  BY <1>1, <1>2, <1>3 DEF PartInv, Done, Buffer
<1>5. Packets(stream') = delivered'
  <2>1. Len(stream') \in 0..Len(stream') /\ Len(stream') + HeaderLen > Len(stream')
    BY <1>1
  <2>. QED  BY <2>1, ParsedEnd
<1>. QED  BY <1>4, <1>5 DEF StreamInv, Reassembled

\* What is handed to the thread pool is the next packet of the stream.
LEMMA PlastStream ==
  ASSUME stream' \in Seq(Bytes), delivered \in Seq(Seq(Bytes)), NEW q \in Nat,
         Parsed(stream', delivered, q), NEW n \in HeaderLen..MaxPkgLen,
         q + n = Len(stream'), NEW packet \in [1..n -> Cells],
         \A i \in 1..n : packet[i] = stream'[q + i], packet[1] = n,
         ProcPlast(packet)
  PROVE  StreamInv'
<1>. USE RecvPacketAssumption
<1>. DEFINE cut == SubSeq(stream', q + 1, q + n)
<1>1. Len(stream') \in Nat /\ \A i \in 1..Len(stream') : stream'[i] \in Bytes
  BY LenProperties, ElementOfSeq
<1>2. stream'[q + 1] = n
  <2>1. 1 \in 1..n
    OBVIOUS
  <2>. QED  BY <2>1
<1>3. cut \in Seq(Bytes) /\ Parsed(stream', Append(delivered, cut), q + n)
  <2>1. q + n <= Len(stream')
    BY <1>1
  <2>. QED  BY <1>2, <2>1, ParsedPacket
<1>4. packet = cut
  <2>1. n \in Nat /\ q + n <= Len(stream')
    BY <1>1
  <2>2. Len(cut) = n /\ \A i \in 1..n : cut[i] = stream'[q + i]
    BY <2>1, Stretch
  <2>. HIDE DEF cut
  <2>3. Len(cut) = n /\ \A i \in 1..n : cut[i] = packet[i]
    BY <2>2
  <2>4. packet \in Seq(Cells) /\ Len(packet) = n
    BY FunctionIsSeq
  <2>5. cut \in Seq(Cells)
    BY <1>3, SeqMonotonic DEF Cells
  <2>6. Len(packet) = Len(cut) /\ \A i \in 1..Len(packet) : packet[i] = cut[i]
    BY <2>3, <2>4
  <2>. QED  BY <2>4, <2>5, <2>6, SeqEqual
<1>. HIDE DEF cut
<1>5. delivered' = Append(delivered, cut) /\ WaitForHeader
  BY <1>4 DEF ProcPlast
<1>6. delivered' \in Seq(Seq(Bytes))
  BY <1>3, <1>5, AppendProperties
<1>. QED  BY <1>3, <1>5, <1>6, ParsedUpToEnd

\* A complete header begins where the parse is.
LEMMA ProcP1Stream ==
  ASSUME stream' \in Seq(Bytes), delivered \in Seq(Seq(Bytes)), NEW q \in Nat,
         Parsed(stream', delivered, q), q + HeaderLen = Len(stream'),
         NEW header \in [1..HeaderLen -> Cells],
         \A i \in 1..HeaderLen : header[i] = stream'[q + i],
         ProcP1(header)
  PROVE  StreamInv'
<1>. USE RecvPacketAssumption
<1>. DEFINE n == header[1]
<1>1. Len(stream') \in Nat /\ \A i \in 1..Len(stream') : stream'[i] \in Nat
  BY LenProperties, ElementOfSeq
<1>2. n = stream'[q + 1] /\ n \in Nat
  <2>1. 1 \in 1..HeaderLen /\ q + 1 \in 1..Len(stream')
    BY <1>1
  <2>. QED  BY <1>1, <2>1
<1>3. CASE n < HeaderLen \/ n > MaxPkgLen
  <2>1. WaitForHeader /\ delivered' = delivered
    BY <1>2, <1>3 DEF ProcP1
  <2>2. Parsed(stream', delivered, q + HeaderLen)
    <3>1. q + HeaderLen <= Len(stream') /\ (stream'[q + 1] < HeaderLen \/ stream'[q + 1] > MaxPkgLen)
      BY <1>1, <1>2, <1>3
    <3>. QED  BY <3>1, ParsedIllegal
  <2>. QED  BY <2>1, <2>2, ParsedUpToEnd
<1>4. CASE n = HeaderLen
  <2>1. ProcPlast(header)
    BY <1>4 DEF ProcP1
  <2>2. HeaderLen \in HeaderLen..MaxPkgLen
    OBVIOUS
  <2>. QED  BY <1>4, <2>1, <2>2, PlastStream
<1>5. CASE n \in (HeaderLen + 1)..MaxPkgLen
  <2>. DEFINE fresh == [i \in 1..n |-> Garbage]
  <2>1. /\ precvMemPointer' = Write(fresh, 0, header)
        /\ precvbuf' = [buf |-> "precvMemPointer", off |-> HeaderLen]
        /\ delivered' = delivered
    BY <1>5 DEF ProcP1
  <2>2. header \in Seq(Cells) /\ Len(header) = HeaderLen
    BY FunctionIsSeq
  <2>3. fresh \in [1..n -> Cells]
    BY DEF Cells
  <2>4. precvMemPointer' \in [1..n -> Cells]
    <3>. HIDE DEF fresh, n
    <3>. QED  BY <1>2, <2>1, <2>2, <2>3, WriteType
  <2>5. Len(precvMemPointer') = n
    <3>. HIDE DEF fresh, n
    <3>. QED  BY <1>2, <2>4, FunctionIsSeq
  <2>6. \A i \in 1..HeaderLen : precvMemPointer'[i] = header[i]
    <3>1. \A i \in 1..HeaderLen : i \in DOMAIN fresh /\ i \in (0 + 1)..(0 + Len(header)) /\ i - 0 = i
      BY <1>5, <2>2
    <3>. HIDE DEF fresh, n
    <3>. QED  BY <2>1, <3>1 DEF Write
  <2>. HIDE DEF n
  <2>7. Len(stream') - HeaderLen = q
    BY <1>1
  <2>8. precvMemPointer'[1] = n
    <3>1. 1 \in 1..HeaderLen
      OBVIOUS
    <3>. QED  BY <2>6, <3>1 DEF n
  <2>9. PartInv'
    <3>1. precvbuf'.buf = "precvMemPointer" /\ precvbuf'.off = HeaderLen
      BY <2>1
    <3>2. Buffer' = precvMemPointer' /\ Done' = q
      BY <2>7, <3>1 DEF Buffer, Done
    <3>3. HeaderLen <= Len(stream') /\ HeaderLen <= HeaderLen /\ n \in HeaderLen..MaxPkgLen
      BY <1>1, <1>5
    <3>4. \A i \in 1..HeaderLen : precvMemPointer'[i] = stream'[q + i]
      BY <2>6
    <3>. QED  BY <2>1, <2>5, <2>8, <3>1, <3>2, <3>3, <3>4 DEF PartInv
  <2>10. Packets(stream') = delivered
    <3>1. q \in 0..Len(stream') /\ stream'[q + 1] \in HeaderLen..MaxPkgLen
      BY <1>1, <1>2, <1>5
    <3>2. q + stream'[q + 1] > Len(stream')
      BY <1>1, <1>2, <1>5
    <3>. QED  BY <3>1, <3>2, ParsedEnd
  <2>. QED  BY <2>1, <2>9, <2>10 DEF StreamInv, Reassembled
<1>6. n < HeaderLen \/ n > MaxPkgLen \/ n = HeaderLen \/ n \in (HeaderLen + 1)..MaxPkgLen
  BY <1>2
<1>. QED  BY <1>3, <1>4, <1>5, <1>6

\* A piece of the stream is written behind what was received before, and the
\* rest is waited for or what it completes is handed on.
LEMMA ReceiveStream ==
  ASSUME RecvInv, StreamInv, NEW n \in 1..MaxPkgLen, NEW chunk \in [1..n -> Bytes],
         Receive(chunk)
  PROVE  StreamInv'
<1>. USE RecvPacketAssumption
<1>1. chunk \in Seq(Bytes) /\ Len(chunk) = n
  BY FunctionIsSeq
<1>2. /\ phase = "use" /\ n <= irecvlen /\ stream' = stream \o chunk
      /\ stream \in Seq(Bytes) /\ delivered \in Seq(Seq(Bytes)) /\ PartInv
  BY <1>1 DEF Receive, RecvInv, RecvTypeOK, StreamInv
<1>. DEFINE off == precvbuf.off
            q == Len(stream) - off
<1>3. /\ stream' \in Seq(Bytes) /\ Len(stream) \in Nat
      /\ Len(stream') = Len(stream) + n
      /\ \A i \in 1..Len(stream) : stream'[i] = stream[i]
  BY <1>1, <1>2, BytesStay
<1>4. /\ off \in 0..Len(stream) /\ q \in Nat /\ irecvlen \in Nat
      /\ \A i \in 1..off : Buffer[i] = stream[q + i]
      /\ precvbuf.buf = "precvMemPointer" =>
           /\ HeaderLen <= off
           /\ precvMemPointer[1] = Len(precvMemPointer)
           /\ Len(precvMemPointer) \in HeaderLen..MaxPkgLen
      /\ Parsed(stream, delivered, q)
  BY <1>2, <1>3 DEF PartInv, Done, RecvInv, RecvTypeOK
<1>5. Parsed(stream', delivered, q)
  BY <1>1, <1>2, <1>4, ParsedMore
<1>6. CASE ReceiveHeader(chunk)
  <2>. DEFINE header == Write(dataHeadInfo, off, chunk)
              complete == \/ curStat = "HD_INIT" /\ Len(chunk) = HeaderLen
                          \/ curStat = "HD_RECVING" /\ Len(chunk) = irecvlen
  <2>1. /\ curStat \in {"HD_INIT", "HD_RECVING"}
        /\ dataHeadInfo' = header
        /\ \/ complete /\ ProcP1(header)
           \/ /\ ~complete
              /\ WaitForRest("HD_RECVING", Len(chunk))
              /\ UNCHANGED <<precvMemPointer, delivered>>
    BY <1>6 DEF ReceiveHeader
  <2>2. /\ precvbuf.buf = "dataHeadInfo" /\ off + irecvlen = HeaderLen
        /\ curStat = "HD_INIT" => irecvlen = HeaderLen
        /\ dataHeadInfo \in [1..HeaderLen -> Cells]
    BY <1>2, <1>4, <2>1 DEF RecvInv, StatInv, BufferBounds, RecvTypeOK, Cells
  <2>3. header \in [1..HeaderLen -> Cells]
    <3>1. chunk \in Seq(Cells)
      BY <1>1, SeqMonotonic DEF Cells
    <3>2. off \in Nat /\ HeaderLen \in Nat
      BY <1>4
    <3>3. dataHeadInfo \in [1..HeaderLen -> Cells]
      BY <2>2
    <3>. HIDE DEF off
    <3>. QED  BY <3>1, <3>2, <3>3, WriteType DEF header
  <2>4. \A i \in 1..(off + n) : header[i] = stream'[q + i]
    <3>1. \A i \in 1..off : dataHeadInfo[i] = stream[Len(stream) - off + i]
      BY <1>4, <2>2 DEF Buffer
    <3>2. off + Len(chunk) <= HeaderLen
      BY <1>1, <1>2, <1>4, <2>2
    <3>3. HeaderLen \in Nat /\ off \in 0..Len(stream)
      BY <1>4
    <3>. HIDE DEF off
    <3>4. \A i \in 1..(off + Len(chunk)) :
            Write(dataHeadInfo, off, chunk)[i] = (stream \o chunk)[Len(stream) - off + i]
      <4>1. HeaderLen \in Nat
        BY <2>2
      <4>2. dataHeadInfo \in [1..HeaderLen -> Cells]
        BY <2>2
      <4>3. chunk \in Seq(Bytes)
        BY <1>1
      <4>4. stream \in Seq(Bytes)
        BY <1>2
      <4>5. off \in 0..Len(stream)
        BY <3>3
      <4>. QED  BY <3>1, <3>2, <4>1, <4>2, <4>3, <4>4, <4>5, WriteContinues, ZenonT(30)
    <3>. QED  BY <1>1, <1>2, <3>4
  <2>5. CASE complete
    <3>1. ProcP1(header) /\ off + n = HeaderLen
      BY <1>1, <1>4, <2>1, <2>2, <2>5
    <3>2. q + HeaderLen = Len(stream')
      BY <1>3, <1>4, <3>1
    <3>. HIDE DEF header, q, off
    <3>. QED  BY <1>2, <1>3, <1>4, <1>5, <2>3, <2>4, <3>1, <3>2, ProcP1Stream
  <2>6. CASE ~complete
    <3>1. n # irecvlen
      BY <1>1, <2>1, <2>2, <2>6
    <3>2. /\ precvbuf' = [precvbuf EXCEPT !.off = @ + n]
          /\ delivered' = delivered
      BY <1>1, <2>1, <2>6 DEF WaitForRest
    <3>3. precvbuf'.buf = "dataHeadInfo" /\ precvbuf'.off = off + n
      BY <2>2, <3>2 DEF RecvInv, RecvTypeOK
    <3>4. /\ off + n <= Len(stream') /\ Len(stream') - (off + n) = q
          /\ off + n < HeaderLen
      BY <1>2, <1>3, <1>4, <2>2, <3>1
    <3>5. Buffer' = header /\ Done' = q
      BY <2>1, <3>3, <3>4 DEF Buffer, Done
    <3>. HIDE DEF header, q, off
    <3>6. PartInv'
      BY <1>5, <2>4, <3>2, <3>3, <3>4, <3>5 DEF PartInv
    <3>7. Packets(stream') = delivered
      <4>1. q \in 0..Len(stream') /\ q + HeaderLen > Len(stream')
        BY <1>3, <1>4, <3>4
      <4>. QED  BY <1>2, <1>3, <1>5, <4>1, ParsedEnd
    <3>. QED  BY <1>2, <3>2, <3>6, <3>7 DEF StreamInv, Reassembled
  <2>. QED  BY <2>5, <2>6
<1>7. CASE ReceiveBody(chunk)
  <2>. DEFINE packet == Write(precvMemPointer, off, chunk)
              m == Len(precvMemPointer)
  <2>1. /\ curStat \in {"BD_INIT", "BD_RECVING"}
        /\ \/ Len(chunk) = irecvlen /\ ProcPlast(packet)
           \/ /\ Len(chunk) # irecvlen
              /\ precvMemPointer' = packet
              /\ WaitForRest("BD_RECVING", Len(chunk))
              /\ UNCHANGED delivered
    BY <1>7 DEF ReceiveBody
  <2>2. precvbuf.buf = "precvMemPointer"
    BY <1>2, <2>1 DEF RecvInv, StatInv, RecvTypeOK
  <2>3. /\ off + irecvlen = m /\ m \in HeaderLen..MaxPkgLen /\ HeaderLen <= off
        /\ precvMemPointer[1] = m /\ m \in Nat
        /\ precvMemPointer \in [1..m -> Cells]
    BY <1>2, <1>4, <2>2, MemoryLength DEF RecvInv, BufferBounds, RecvTypeOK
  <2>. HIDE DEF m
  <2>4. packet \in [1..m -> Cells]
    <3>1. chunk \in Seq(Cells)
      BY <1>1, SeqMonotonic DEF Cells
    <3>2. off \in Nat
      BY <1>3, <1>4
    <3>. HIDE DEF off
    <3>. QED  BY <2>3, <3>1, <3>2, WriteType
  <2>5. \A i \in 1..(off + n) : packet[i] = stream'[q + i]
    <3>1. \A i \in 1..off : precvMemPointer[i] = stream[Len(stream) - off + i]
      BY <1>4, <2>2 DEF Buffer
    <3>2. off + Len(chunk) <= m
      BY <1>1, <1>2, <1>4, <2>3
    <3>3. off \in 0..Len(stream)
      BY <1>4
    <3>. HIDE DEF off
    <3>4. \A i \in 1..(off + Len(chunk)) :
            Write(precvMemPointer, off, chunk)[i] = (stream \o chunk)[Len(stream) - off + i]
      <4>1. m \in Nat
        BY <2>3
      <4>2. precvMemPointer \in [1..m -> Cells]
        BY <2>3
      <4>3. chunk \in Seq(Bytes)
        BY <1>1
      <4>4. stream \in Seq(Bytes)
        BY <1>2
      <4>5. off \in 0..Len(stream)
        BY <3>3
      <4>. QED  BY <3>1, <3>2, <4>1, <4>2, <4>3, <4>4, <4>5, WriteContinues, ZenonT(30)
    <3>. QED  BY <1>1, <1>2, <3>4
  <2>6. packet[1] = m
    <3>1. 1 \in 1..m /\ ~(1 \in (off + 1)..(off + Len(chunk))) /\ DOMAIN precvMemPointer = 1..m
      BY <1>1, <1>4, <2>3
    <3>. QED  BY <2>3, <3>1 DEF Write
  <2>7. CASE n = irecvlen
    <3>1. ProcPlast(packet) /\ off + n = m
      BY <1>1, <1>4, <2>1, <2>3, <2>7
    <3>2. q + m = Len(stream')
      BY <1>3, <1>4, <3>1
    <3>3. \A i \in 1..m : packet[i] = stream'[q + i]
      BY <2>5, <3>1
    <3>4. q \in Nat /\ stream' \in Seq(Bytes) /\ delivered \in Seq(Seq(Bytes))
      BY <1>2, <1>3, <1>4
    <3>. HIDE DEF packet, q, off
    <3>. QED  BY <1>5, <2>3, <2>4, <2>6, <3>1, <3>2, <3>3, <3>4, PlastStream
  <2>8. CASE n # irecvlen
    <3>1. /\ precvMemPointer' = packet
          /\ precvbuf' = [precvbuf EXCEPT !.off = @ + n]
          /\ delivered' = delivered
      BY <1>1, <2>1, <2>8 DEF WaitForRest
    <3>2. precvbuf'.buf = "precvMemPointer" /\ precvbuf'.off = off + n
      BY <2>2, <3>1 DEF RecvInv, RecvTypeOK
    <3>3. /\ off + n <= Len(stream') /\ Len(stream') - (off + n) = q
          /\ off + n < m
      <4>. HIDE DEF m
      <4>1. n \in Nat /\ n < irecvlen
        BY <1>2, <1>4, <2>8
      <4>2. off \in Nat /\ off + irecvlen = m /\ Len(stream') = Len(stream) + n
        BY <1>3, <1>4, <2>3
      <4>3. off + n < m
        <5>. HIDE DEF off
        <5>. QED  BY <1>4, <2>3, <4>1, <4>2
      <4>4. off + n <= Len(stream') /\ Len(stream') - (off + n) = q
        BY <1>3, <1>4, <4>1, <4>2
      <4>. QED  BY <4>3, <4>4
    <3>4. Buffer' = packet /\ Done' = q
      BY <3>1, <3>2, <3>3 DEF Buffer, Done
    <3>. HIDE DEF packet, q, off
    <3>5. Len(packet) = m
      BY <2>3, <2>4, FunctionIsSeq
    <3>6. PartInv'
      <4>1. HeaderLen <= off + n
        BY <1>4, <2>3
      <4>. QED  BY <1>5, <2>3, <2>5, <2>6, <3>1, <3>2, <3>3, <3>4, <3>5, <4>1 DEF PartInv
    <3>7. Packets(stream') = delivered
      <4>1. stream'[q + 1] = m
        <5>1. 1 \in 1..(off + n)
          BY <1>4, <2>3
        <5>. QED  BY <2>5, <2>6, <5>1
      <4>2. q \in 0..Len(stream') /\ q + m > Len(stream')
        BY <1>3, <1>4, <2>3, <3>3
      <4>. QED  BY <1>2, <1>3, <1>5, <2>3, <4>1, <4>2, ParsedEnd
    <3>. QED  BY <1>2, <3>1, <3>6, <3>7 DEF StreamInv, Reassembled
  <2>. QED  BY <2>7, <2>8
<1>. QED  BY <1>6, <1>7 DEF Receive

\* An empty stream has no packets, and is parsed.
LEMMA NothingParsed ==
  Parsed(<<>>, <<>>, 0) /\ Packets(<<>>) = <<>> /\ <<>> \in Seq(Bytes) /\ Len(<<>>) = 0
  /\ <<>> \in Seq(Seq(Bytes))
<1>. USE RecvPacketAssumption
<1>1. <<>> \in Seq(Bytes) /\ Len(<<>>) = 0 /\ <<>> \in Seq(Seq(Bytes))
  BY EmptySeq
<1>2. ASSUME NEW rest \in Seq(Bytes)
      PROVE  Packets(<<>> \o rest) = <<>> \o PacketsFrom(<<>> \o rest)[0 + 1]
  <2>1. <<>> \o rest = rest /\ 1 \in 1..(Len(rest) + 1)
    BY ConcatEmptySeq, LenProperties
  <2>2. PacketsFrom(rest)[1] \in Seq(Seq(Bytes))
    BY <2>1, FromType
  <2>. DEFINE all == PacketsFrom(rest)[1]
  <2>3. <<>> \o all = all
    <3>. HIDE DEF all
    <3>. QED  BY <2>2, ConcatEmptySeq DEF all
  <2>. QED  BY <2>1, <2>3 DEF Packets
<1>3. Parsed(<<>>, <<>>, 0)
  BY <1>2 DEF Parsed
<1>4. 0 \in 0..Len(<<>>) /\ 0 + HeaderLen > Len(<<>>)
  BY <1>1
<1>5. Packets(<<>>) = <<>>
  BY <1>1, <1>3, <1>4, ParsedEnd
<1>. QED  BY <1>1, <1>3, <1>5

\* Every step keeps the packets those of the stream.
LEMMA StreamStep ==
  ASSUME RecvInv, StreamInv, [RecvNext]_recvVars
  PROVE  StreamInv'
<1>1. CASE \E n \in 1..MaxPkgLen : \E chunk \in [1..n -> Bytes] : Receive(chunk)
  BY <1>1, ReceiveStream
<1>2. CASE ClientGone
  BY <1>2 DEF ClientGone, StreamInv, Reassembled
<1>3. CASE PutOneToFree
  BY <1>3 DEF PutOneToFree, StreamInv, Reassembled
<1>4. CASE GetOneToUse
  <2>1. /\ WaitForHeader /\ stream' = <<>> /\ delivered' = <<>>
    BY <1>4 DEF GetOneToUse
  <2>. QED  BY <2>1, NothingParsed, ParsedUpToEnd
<1>5. CASE UNCHANGED recvVars
  BY <1>5 DEF recvVars, StreamInv, PartInv, Done, Buffer, Reassembled
<1>. QED  BY <1>1, <1>2, <1>3, <1>4, <1>5 DEF RecvNext

\* However recv() cuts the streams of the clients that use a connection object
\* one after the other, the thread pool gets the packets of each stream, whole
\* and in order: for any header length, any largest packet, any bytes.
THEOREM StreamsReassembled == RecvSpec => []Reassembled
<1>1. RecvInit => StreamInv
  BY NothingParsed DEF RecvInit, StreamInv, PartInv, Done, Buffer, Reassembled
<1>2. RecvInv /\ StreamInv /\ [RecvNext]_recvVars => StreamInv'
  BY StreamStep
<1>3. StreamInv => Reassembled
  BY DEF StreamInv
<1>. QED  BY <1>1, <1>2, <1>3, RecvInductive, PTL DEF RecvSpec
=============================================================================
