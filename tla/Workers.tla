------------------------------ MODULE Workers ------------------------------
(***************************************************************************)
(* The worker processes share the listening socket they inherit from the   *)
(* master: each has an epoll object and a loop of its own that takes       *)
(* events in batches (net/ngx_c_socket.cxx), accepts clients               *)
(* (net/ngx_c_socket_accept.cxx) and reads their requests.  A worker may   *)
(* die; the master does not replace it (Master).                           *)
(*                                                                         *)
(* ConnPool has the connection objects of one worker, RecvPacket what is   *)
(* read; here is which process gets a client, and when.                    *)
(***************************************************************************)
EXTENDS Naturals, FiniteSets, Sequences, SequencesExt

CONSTANTS
  Workers,      \* the worker processes
  Clients,      \* every client that ever connects
  Listener,     \* the listening socket
  MaxEvents,    \* NGX_MAX_EVENTS: events of one epoll_wait, for each worker, so
                \* that one instance has larger and smaller batches
  MaxFds        \* how many descriptors each worker has for clients

Sockets == Clients \cup {Listener}

ASSUME WorkersAssumption ==
  /\ Listener \notin Clients
  /\ MaxEvents \in [Workers -> Nat \ {0}] /\ MaxFds \in [Workers -> Nat]

VARIABLES
  hasAccept4,     \* whether the kernel has accept4
  backlog,        \* the clients whose connection is complete and not accepted
  gone,           \* the clients that have hung up
  unread,         \* the clients of which a request has not been read
  up,             \* the workers that live
  use_accept4,    \* the variable of that name, of each worker
  watched,        \* what each worker has in its epoll object
  fds,            \* the clients each worker has a descriptor for
  nonblocking,    \* the sockets that are not blocking
  batch,          \* the events of each worker's last epoll_wait still to handle
  accepted        \* the client each worker is setting up, <<>> or <<client>>

client == <<backlog, gone, unread>>
vars == <<hasAccept4, backlog, gone, unread, up, use_accept4, watched, fds,
          nonblocking, batch, accepted>>

\* Mutant of ListeningNonblocking: setnonblocking is forgotten.
ListeningBlocking == {}

\* setnonblocking in ngx_open_listening_sockets.
ListeningNonblocking == {Listener}

\* After ngx_open_listening_sockets, fork and ngx_epoll_init.
Init ==
  /\ hasAccept4 \in BOOLEAN
  /\ backlog = {} /\ gone = {} /\ unread = {}
  /\ up = Workers
  /\ use_accept4 = [w \in Workers |-> TRUE]
  /\ watched = [w \in Workers |-> {Listener}]
  /\ fds = [w \in Workers |-> {}]
  /\ nonblocking = ListeningNonblocking
  /\ batch = [w \in Workers |-> <<>>]
  /\ accepted = [w \in Workers |-> <<>>]

Served == UNION {fds[w] : w \in Workers}
Connected == backlog \cup Served
-----------------------------------------------------------------------------
(* Clients *)

Connect(c) ==
  /\ c \notin Connected \cup gone
  /\ backlog' = backlog \cup {c}
  /\ UNCHANGED <<hasAccept4, gone, unread, up, use_accept4, watched, fds,
                 nonblocking, batch, accepted>>

SendRequest(c) ==
  /\ c \in Connected \ (gone \cup unread)
  /\ unread' = unread \cup {c}
  /\ UNCHANGED <<hasAccept4, backlog, gone, up, use_accept4, watched, fds,
                 nonblocking, batch, accepted>>

HangUp(c) ==
  /\ c \in Connected \ gone
  /\ gone' = gone \cup {c}
  /\ UNCHANGED <<hasAccept4, backlog, unread, up, use_accept4, watched, fds,
                 nonblocking, batch, accepted>>
-----------------------------------------------------------------------------
(* Events of a worker *)

Ready(s) == IF s = Listener THEN backlog # {} ELSE s \in unread \cup gone

\* m_events, and the third argument of epoll_wait.
Room(w) == MaxEvents[w]

\* Level-triggered: whatever is ready is reported again.  If it does not fit in
\* m_events, some of it is.
EpollWait(w) ==
  LET ready == {s \in watched[w] : Ready(s)}
  IN  /\ w \in up /\ batch[w] = <<>> /\ ready # {}
      /\ \E events \in [1..Min({Cardinality(ready), Room(w)}) -> ready] :
           IsInjective(events) /\ batch' = [batch EXCEPT ![w] = events]
      /\ UNCHANGED <<hasAccept4, client, up, use_accept4, watched, fds,
                     nonblocking, accepted>>

Handles(w, s) ==
  /\ w \in up /\ batch[w] # <<>> /\ Head(batch[w]) = s /\ accepted[w] = <<>>
Handled(w) == batch' = [batch EXCEPT ![w] = Tail(@)]

\* ngx_close_connection and the end of recvproc: close takes the descriptor out
\* of the epoll object.
CloseClient(w, c) ==
  /\ fds' = [fds EXCEPT ![w] = @ \ {c}]
  /\ watched' = [watched EXCEPT ![w] = @ \ {c}]
  /\ unread' = unread \ {c} /\ gone' = gone \cup {c}

Read(w, c) ==
  /\ Handles(w, c) /\ c \in Clients
  /\ \/ /\ c \in unread
        /\ unread' = unread \ {c}
        /\ UNCHANGED <<gone, watched, fds>>
     \/ c \notin unread /\ c \in gone /\ CloseClient(w, c)
  /\ Handled(w)
  /\ UNCHANGED <<hasAccept4, backlog, up, use_accept4, nonblocking, accepted>>
-----------------------------------------------------------------------------
(* ngx_event_accept *)

HasFd(w) == Cardinality(fds[w]) < MaxFds[w]

\* accept4 is not there: the loop goes on with accept.
AcceptNoSys(w) ==
  /\ Handles(w, Listener) /\ use_accept4[w] /\ ~hasAccept4
  /\ use_accept4' = [use_accept4 EXCEPT ![w] = FALSE]
  /\ UNCHANGED <<hasAccept4, client, up, watched, fds, nonblocking, batch, accepted>>

\* accept4, or accept, is called and is there.
Accepts(w) == Handles(w, Listener) /\ (use_accept4[w] => hasAccept4)

\* Another worker was faster.
AcceptAgain(w) ==
  /\ Accepts(w) /\ backlog = {} /\ Listener \in nonblocking
  /\ Handled(w)
  /\ UNCHANGED <<hasAccept4, client, up, use_accept4, watched, fds, nonblocking, accepted>>

\* Mutants of AcceptFull: a client has to go to make room; a worker without
\* descriptors stops to listen.
AcceptFullEvicts(w) ==
  /\ Accepts(w) /\ backlog # {} /\ ~HasFd(w)
  /\ Handled(w)
  /\ \E c \in fds[w] : CloseClient(w, c)
  /\ UNCHANGED <<hasAccept4, backlog, up, use_accept4, nonblocking, accepted>>
AcceptFullUnwatch(w) ==
  /\ Accepts(w) /\ backlog # {} /\ ~HasFd(w)
  /\ Handled(w)
  /\ watched' = [watched EXCEPT ![w] = @ \ {Listener}]
  /\ UNCHANGED <<hasAccept4, client, up, use_accept4, fds, nonblocking, accepted>>

\* EMFILE: the error is logged, the event comes again at once.
AcceptFull(w) ==
  /\ Accepts(w) /\ backlog # {} /\ ~HasFd(w)
  /\ Handled(w)
  /\ UNCHANGED <<hasAccept4, client, up, use_accept4, watched, fds, nonblocking, accepted>>

\* ECONNABORTED
AcceptAborted(w) ==
  /\ Accepts(w)
  /\ \E c \in backlog \cap gone :
       backlog' = backlog \ {c} /\ unread' = unread \ {c}
  /\ Handled(w)
  /\ UNCHANGED <<hasAccept4, gone, up, use_accept4, watched, fds, nonblocking, accepted>>

Accept(w, c) ==
  /\ Accepts(w) /\ HasFd(w) /\ c \in backlog
  /\ backlog' = backlog \ {c}
  /\ fds' = [fds EXCEPT ![w] = @ \cup {c}]
  /\ nonblocking' = IF use_accept4[w] THEN nonblocking \cup {c} ELSE nonblocking
  /\ accepted' = [accepted EXCEPT ![w] = <<c>>]
  /\ UNCHANGED <<hasAccept4, gone, unread, up, use_accept4, watched, batch>>

SetsUp(w, c) == w \in up /\ accepted[w] = <<c>>
SetUp(w) == accepted' = [accepted EXCEPT ![w] = <<>>] /\ Handled(w)

\* Mutant of NeedsNonblocking: accept is taken to do what accept4 does.
NeedsNonblockingNever(w) == FALSE
NeedsNonblocking(w) == ~use_accept4[w]

\* setnonblocking if accept4 has not done it, and the client is watched.
WatchClient(w, c) ==
  /\ SetsUp(w, c) /\ SetUp(w)
  /\ nonblocking' = IF NeedsNonblocking(w) THEN nonblocking \cup {c} ELSE nonblocking
  /\ watched' = [watched EXCEPT ![w] = @ \cup {c}]
  /\ UNCHANGED <<hasAccept4, client, up, use_accept4, fds>>

\* ngx_get_connection, setnonblocking or epoll_ctl fails.
SetUpFails(w, c) ==
  /\ SetsUp(w, c) /\ SetUp(w)
  /\ CloseClient(w, c)
  /\ UNCHANGED <<hasAccept4, backlog, up, use_accept4, nonblocking>>
-----------------------------------------------------------------------------
\* The kernel closes what the process had.
Die(w) ==
  /\ w \in up
  /\ up' = up \ {w}
  /\ gone' = gone \cup fds[w] /\ unread' = unread \ fds[w]
  /\ fds' = [fds EXCEPT ![w] = {}] /\ watched' = [watched EXCEPT ![w] = {}]
  /\ batch' = [batch EXCEPT ![w] = <<>>] /\ accepted' = [accepted EXCEPT ![w] = <<>>]
  /\ UNCHANGED <<hasAccept4, backlog, use_accept4, nonblocking>>

WorkerStep(w) ==
  \/ EpollWait(w) \/ AcceptNoSys(w) \/ AcceptAgain(w) \/ AcceptFull(w) \/ AcceptAborted(w)
  \/ \E c \in Clients : Read(w, c) \/ Accept(w, c) \/ WatchClient(w, c) \/ SetUpFails(w, c)

Next ==
  \/ \E c \in Clients : Connect(c) \/ SendRequest(c) \/ HangUp(c)
  \/ \E w \in Workers : WorkerStep(w) \/ Die(w)

Spec == Init /\ [][Next]_vars

\* A worker runs while it can; epoll_wait reports what is ready in turn, so that
\* a socket that stays ready is reported.
Fairness ==
  \A w \in Workers :
    /\ WF_vars(WorkerStep(w))
    /\ \A s \in Sockets : SF_vars(EpollWait(w) /\ s \in Range(batch'[w]))

FairSpec == Spec /\ Fairness
-----------------------------------------------------------------------------
(* Correctness *)

\* A worker has no more descriptors and events than fit.  No thread can block on
\* a socket it is told of, whichever of accept4 and accept the worker has used
\* (accept.cxx:99).
TypeOK ==
  /\ hasAccept4 \in BOOLEAN
  /\ backlog \subseteq Clients /\ gone \subseteq Clients /\ unread \subseteq Connected
  /\ up \subseteq Workers /\ nonblocking \subseteq Sockets
  /\ \A w \in Workers :
       /\ use_accept4[w] \in BOOLEAN
       /\ fds[w] \subseteq Clients /\ Cardinality(fds[w]) <= MaxFds[w]
       /\ watched[w] \subseteq (fds[w] \cup {Listener}) \cap nonblocking
       /\ Range(batch[w]) \subseteq Sockets /\ Len(batch[w]) <= MaxEvents[w]
       /\ accepted[w] \in {<<>>} \cup {<<c>> : c \in fds[w]}

\* No event of a batch is out of date when its turn comes: what an earlier event
\* of the batch closes or accepts is never a socket of a later one.  The code has
\* no filter for such events (net/ngx_c_socket.cxx:441-443 is commented out).
EventsCurrent ==
  \A w \in Workers : \A k \in DOMAIN batch[w] :
    /\ batch[w][k] \in watched[w]
    /\ batch[w][k] \in Clients => Ready(batch[w][k])

\* A worker that lost the race for a client, or that has no descriptor left and
\* gets the same event again and again, still reads what its clients send.
RequestRead ==
  \A c \in Clients, w \in Workers :
    (c \in unread /\ c \in watched[w]) ~> (c \notin unread \/ w \notin up)

\* A client in the backlog is accepted unless every worker is dead or full,
\* however many of them are.
ClientAccepted ==
  \A c \in Clients :
    (c \in backlog) ~> (c \notin backlog \/ \A w \in up : ~HasFd(w))

\* Whoever races, is full or dies, clients are served (net/ngx_c_socket_accept.cxx).
ClientsServed == RequestRead /\ ClientAccepted
=============================================================================
