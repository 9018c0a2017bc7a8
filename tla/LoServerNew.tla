----------------------------- MODULE LoServerNew -----------------------------
(***************************************************************************)
(* How servers of liblo come and go (server.c): the descriptors that       *)
(* lo_server_new_with_proto_internal opens until one can be bound to a     *)
(* port, what every way out of it closes, and lo_client_sockets, the       *)
(* sockets of the latest servers, which lo_address sends from.             *)
(***************************************************************************)
EXTENDS Integers, FiniteSets

CONSTANTS Servers, Fds,
          MaxTries,   \* 16 in the code
          MaxNews     \* bound: servers ever asked for

NoFd == -1
Protocols == {"udp", "tcp", "unix"}

VARIABLES
  state,    \* of each server: "none", "trying", "binding", "live"
  proto, tries, socket,   \* its protocol, the ports tried, and sockets[0].fd
  open,     \* the descriptors that are open
  client,   \* lo_client_sockets
  retried,  \* how often a port was taken and another one was tried
  news

vars == <<state, proto, tries, socket, open, client, retried, news>>

Init ==
  /\ state = [s \in Servers |-> "none"] /\ proto = [s \in Servers |-> "udp"]
  /\ tries = [s \in Servers |-> 0] /\ socket = [s \in Servers |-> NoFd]
  /\ open = {} /\ client = [p \in {"udp", "tcp"} |-> NoFd] /\ retried = 0 /\ news = 0

\* Mutant: the socket stays the one that addresses send from.
Forget_Fault(s) == client
\* lo_server_free closes the socket, after it has seen to it that no address
\* sends from it.
Forget(s) ==
  [p \in {"udp", "tcp"} |->
     IF proto[s] = p /\ client[p] = socket[s] /\ socket[s] # NoFd THEN NoFd ELSE client[p]]
Free(s) ==
  /\ state' = [state EXCEPT ![s] = "none"]
  /\ client' = Forget(s)
  /\ open' = open \ {socket[s]} /\ socket' = [socket EXCEPT ![s] = NoFd]
  /\ UNCHANGED <<proto, tries, news>>

New(s, p) ==
  /\ state[s] = "none" /\ news < MaxNews /\ news' = news + 1
  /\ state' = [state EXCEPT ![s] = "trying"]
  /\ proto' = [proto EXCEPT ![s] = p] /\ tries' = [tries EXCEPT ![s] = 0]
  /\ UNCHANGED <<socket, open, client, retried>>

\* Each turn of the loop forgets the socket of the turn before.
OpenSocket(s) ==
  /\ state[s] = "trying"
  /\ \E f \in Fds \ open :
       /\ \A g \in Fds \ open : f <= g
       /\ open' = open \cup {f} /\ socket' = [socket EXCEPT ![s] = f]
  /\ state' = [state EXCEPT ![s] = "binding"]
  /\ UNCHANGED <<proto, tries, client, retried, news>>
\* getaddrinfo or socket fails.  The socket of the turn before was forgotten.
NoSocket(s) ==
  /\ state[s] = "trying" /\ Free(s) /\ UNCHANGED retried

\* A socket option, a multicast group or bind is refused.
Refused(s) == state[s] = "binding" /\ Free(s) /\ UNCHANGED retried
\* The port is taken: the next turn opens another socket, and after the last
\* one the server is given up.
PortTaken(s) ==
  /\ state[s] = "binding" /\ proto[s] # "unix"
  /\ IF tries[s] < MaxTries
     THEN /\ state' = [state EXCEPT ![s] = "trying"] /\ socket' = [socket EXCEPT ![s] = NoFd]
          /\ tries' = [tries EXCEPT ![s] = @ + 1] /\ retried' = retried + 1
          /\ UNCHANGED <<proto, open, client, news>>
     ELSE Free(s) /\ UNCHANGED retried
Bound(s) ==
  /\ state[s] = "binding" /\ state' = [state EXCEPT ![s] = "live"]
  /\ client' = IF proto[s] = "unix" THEN client ELSE [client EXCEPT ![proto[s]] = socket[s]]
  /\ UNCHANGED <<proto, tries, socket, open, retried, news>>

FreeServer(s) == state[s] = "live" /\ Free(s) /\ UNCHANGED retried

Next == \E s \in Servers :
  \/ \E p \in Protocols : New(s, p)
  \/ OpenSocket(s) \/ NoSocket(s) \/ Refused(s) \/ PortTaken(s) \/ Bound(s) \/ FreeServer(s)
Spec == Init /\ [][Next]_vars
----------------------------------------------------------------------------
\* An address never sends from a socket that was closed: lo_client_sockets
\* names the socket of a live server of that protocol, or nothing.
ClientSocketLive ==
  \A p \in {"udp", "tcp"} : client[p] # NoFd =>
    \E s \in Servers : state[s] = "live" /\ proto[s] = p /\ socket[s] = client[p]

\* Whatever fails, the only descriptors that no server has are those of ports
\* that were taken: one for each time another port was tried.
Accounted ==
  Cardinality(open) =
    Cardinality({ s \in Servers : state[s] \in {"binding", "live"} }) + retried
=============================================================================
