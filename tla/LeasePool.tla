----------------------------- MODULE LeasePool -----------------------------
(***************************************************************************)
(* What the connection pool of a worker process promises the threads that  *)
(* keep pointers to connections: a connection is leased to one client at a *)
(* time; a thread starts to use it only for the client it has in mind and  *)
(* only while that client's lease is open; and a connection in use does    *)
(* not go back to the pool.                                                *)
(***************************************************************************)
CONSTANTS
  Conns,     \* the connections
  Clients,   \* the clients they are leased to
  Users,     \* the threads that use them
  Nobody     \* the tenant of a connection that is in the pool

VARIABLES
  tenant,    \* the client each connection is leased to
  lease,     \* the connections whose lease is open
  uses       \* the <<connection, client>> each thread is using, if any

vars == <<tenant, lease, uses>>

Init ==
  /\ tenant = [c \in Conns |-> Nobody]
  /\ lease = {}
  /\ uses = [u \in Users |-> {}]

Give(c, k) ==
  /\ tenant[c] = Nobody
  /\ \A d \in Conns : tenant[d] # k
  /\ tenant' = [tenant EXCEPT ![c] = k]
  /\ UNCHANGED <<lease, uses>>

Open(c) ==
  /\ tenant[c] # Nobody
  /\ lease' = lease \cup {c}
  /\ UNCHANGED <<tenant, uses>>

\* The client is gone; a thread that uses its connection may go on.
End(c) ==
  /\ c \in lease
  /\ lease' = lease \ {c}
  /\ UNCHANGED <<tenant, uses>>

Use(u, c) ==
  /\ uses[u] = {}
  /\ c \in lease
  /\ uses' = [uses EXCEPT ![u] = {<<c, tenant[c]>>}]
  /\ UNCHANGED <<tenant, lease>>

Done(u) ==
  /\ uses' = [uses EXCEPT ![u] = {}]
  /\ UNCHANGED <<tenant, lease>>

Return(c) ==
  /\ c \notin lease
  /\ tenant[c] # Nobody
  /\ \A u \in Users : <<c, tenant[c]>> \notin uses[u]
  /\ tenant' = [tenant EXCEPT ![c] = Nobody]
  /\ UNCHANGED <<lease, uses>>

Next ==
  \/ \E c \in Conns : Open(c) \/ End(c) \/ Return(c)
  \/ \E c \in Conns, k \in Clients : Give(c, k)
  \/ \E u \in Users : Done(u) \/ \E c \in Conns : Use(u, c)

Spec == Init /\ [][Next]_vars
=============================================================================
