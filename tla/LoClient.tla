------------------------------ MODULE LoClient ------------------------------
(***************************************************************************)
(* Sending over TCP with liblo (send.c, address.c): one lo_address, used   *)
(* by the program with or without a server to send from, and the           *)
(* descriptors it shares with that server, whose own thread closes them    *)
(* when the peer does (server.c).  Nothing is locked.                      *)
(*                                                                         *)
(* A frame is a length and the data; what was written to a connection is   *)
(* a sequence of Length and of the number of the call whose data it is.  A  *)
(* socket that the server was given does not block, so that a part of the  *)
(* data may be written, which send_data takes for success.                 *)
(***************************************************************************)
EXTENDS Integers, Sequences, FiniteSets

CONSTANTS Fds,          \* descriptors the process may get, from 1
          MaxConns, MaxCalls   \* bounds

Free == 0          \* what a descriptor can be, besides a connection
Other == -1
Conns == 1 .. MaxConns
NoSock == 0
Length == -1       \* what is written, besides the data of a call
Part == -2

VARIABLES
  fd,        \* what each descriptor is: Free, Other, or a connection
  ai,        \* is the address resolved?
  sock, own, \* a->socket and a->ownsocket
  nodelay,   \* LO_NODELAY in a->flags
  option,    \* TCP_NODELAY of each connection
  sockets,   \* the descriptors in the server's list,
  sources,   \*   and those it keeps a sender's name for
  stream,    \* what was written to each connection
  shut,      \* the connections that the peer closed
  shared,    \* those that were added to the server's list
  inherited, \* those whose descriptor was in the list already when they got it
  conns,     \* how many there were
  pc,        \* where send_data is: "idle", "open", "length", "data", "fail"
  call,      \* [kind, from, try] of the call under way
  calls,     \* how many there were
  sent       \* the calls that returned success

vars == <<fd, ai, sock, own, nodelay, option, sockets, sources, stream, shut, shared,
          inherited, conns, pc, call, calls, sent>>
server == <<sockets, sources>>
world == <<shut, shared, inherited>>

Init ==
  /\ fd = [f \in Fds |-> Free] /\ ai = FALSE
  /\ sock = NoSock /\ own = TRUE /\ nodelay = FALSE /\ option = [c \in Conns |-> FALSE]
  /\ sockets = {} /\ sources = {} /\ stream = [c \in Conns |-> <<>>]
  /\ shut = {} /\ shared = {} /\ inherited = {} /\ conns = 0
  /\ pc = "idle" /\ call = [kind |-> "message", from |-> FALSE, try |-> 1]
  /\ calls = 0 /\ sent = {}

Connected(f) == f # NoSock /\ fd[f] \in Conns
Unused == { f \in Fds : fd[f] = Free }
Lowest == CHOOSE f \in Unused : \A g \in Unused : f <= g

----------------------------------------------------------------------------
\* lo_send_message_from, lo_send_bundle_from: the program gives a server to
\* send from, or does not.
Send(kind, from) ==
  /\ pc = "idle" /\ calls < MaxCalls
  /\ pc' = "open" /\ call' = [kind |-> kind, from |-> from, try |-> 1] /\ calls' = calls + 1
  /\ UNCHANGED <<fd, ai, sock, own, nodelay, option, server, stream, world, conns, sent>>

Return == pc' = "idle"
\* An address that cannot be resolved, and a server that cannot be reached, end
\* the attempt before there is a connection; a message is tried twice.
Retries == call.kind = "message" /\ call.try = 1
Again == IF Retries THEN pc' = "open" /\ call' = [call EXCEPT !.try = 2]
         ELSE Return /\ UNCHANGED call

Unresolved ==
  /\ pc = "open" /\ ~ai /\ Again
  /\ UNCHANGED <<fd, ai, sock, own, nodelay, option, server, stream, world, conns, calls, sent>>
Unreachable ==
  /\ pc = "open" /\ sock = NoSock /\ ai' = TRUE /\ Again
  /\ UNCHANGED <<fd, sock, own, nodelay, option, server, stream, world, conns, calls, sent>>

\* create_socket, and lo_server_add_socket when there is a server to send from
\* that does not know the descriptor
Open ==
  /\ pc = "open" /\ sock = NoSock /\ Unused # {} /\ conns < MaxConns
  /\ LET f == Lowest
         c == conns + 1
         given == call.from /\ f \notin sources
     IN  /\ fd' = [fd EXCEPT ![f] = c] /\ sock' = f
         /\ option' = [option EXCEPT ![c] = nodelay]
         /\ IF given
            THEN /\ sockets' = sockets \cup {f} /\ sources' = sources \cup {f}
                 /\ own' = FALSE /\ shared' = shared \cup {c}
            ELSE UNCHANGED <<server, own, shared>>
         /\ inherited' = IF f \in sockets THEN inherited \cup {c} ELSE inherited
  /\ conns' = conns + 1 /\ ai' = TRUE /\ pc' = "length"
  /\ UNCHANGED <<nodelay, stream, shut, call, calls, sent>>
Reuse ==
  /\ pc = "open" /\ sock # NoSock /\ pc' = "length" /\ ai' = TRUE
  /\ UNCHANGED <<fd, sock, own, nodelay, option, server, stream, world, conns, call, calls, sent>>

\* A write to a connection works until the peer's reset is known; to a closed
\* descriptor it fails; another's descriptor takes it.
MayFail == ~Connected(sock) \/ fd[sock] \in shut
MayWork == fd[sock] # Free
Writes(x) ==
  stream' = IF Connected(sock) THEN [stream EXCEPT ![fd[sock]] = Append(@, x)] ELSE stream

SendLength ==
  /\ pc = "length"
  /\ \/ MayWork /\ Writes(Length) /\ pc' = "data"
     \/ MayFail /\ pc' = "fail" /\ UNCHANGED stream
  /\ UNCHANGED <<fd, ai, sock, own, nodelay, option, server, world, conns, call, calls, sent>>
Done == Return /\ UNCHANGED call
Short == Connected(sock) /\ fd[sock] \in shared
SendAll ==
  /\ pc = "data" /\ MayWork
  /\ \/ Writes(calls)
     \/ Short /\ Writes(Part)
  /\ sent' = sent \cup {calls} /\ Done
  /\ UNCHANGED <<fd, ai, sock, own, nodelay, option, server, world, conns, calls>>
SendFails ==
  /\ pc = "data" /\ MayFail /\ pc' = "fail"
  /\ UNCHANGED <<fd, ai, sock, own, nodelay, option, server, stream, world, conns, call, calls, sent>>

\* Mutant: the next attempt goes on with the same connection.
Fail_Fault ==
  /\ pc = "fail" /\ Again
  /\ UNCHANGED <<fd, ai, sock, own, nodelay, option, server, stream, world, conns, calls, sent>>
\* After a failure the descriptor is closed, whatever it now is, and forgotten.
Fail ==
  /\ pc = "fail"
  /\ fd' = [fd EXCEPT ![sock] = Free] /\ sock' = NoSock
  /\ IF call.from /\ sock \in sockets
     THEN sockets' = sockets \ {sock} /\ sources' = sources \ {sock}
     ELSE UNCHANGED server
  /\ Again
  /\ UNCHANGED <<ai, own, nodelay, option, stream, world, conns, calls, sent>>

\* lo_address_set_flags: the option is set from the flags as they were.
SetNodelay(b) ==
  /\ pc = "idle" /\ nodelay # b /\ nodelay' = b
  /\ option' = IF Connected(sock) THEN [option EXCEPT ![fd[sock]] = nodelay] ELSE option
  /\ UNCHANGED <<fd, ai, sock, own, server, stream, world, conns, pc, call, calls, sent>>

\* lo_address_free closes the socket that the address owns; the program makes
\* another address for the peer (lo_address_new).
Renew ==
  /\ pc = "idle" /\ ai
  /\ fd' = IF own /\ sock # NoSock THEN [fd EXCEPT ![sock] = Free] ELSE fd
  /\ sock' = NoSock /\ own' = TRUE /\ ai' = FALSE /\ nodelay' = FALSE
  /\ UNCHANGED <<option, server, stream, world, conns, pc, call, calls, sent>>

----------------------------------------------------------------------------
(* the rest of the world *)

PeerCloses(c) ==
  /\ c \in 1 .. conns \ shut /\ shut' = shut \cup {c}
  /\ UNCHANGED <<fd, ai, sock, own, nodelay, option, server, stream, shared, inherited,
                 conns, pc, call, calls, sent>>
\* The server's thread reads the end of the stream and removes the socket; a
\* descriptor that is closed is removed as well.
ServerCloses(f) ==
  /\ f \in sockets /\ (fd[f] = Free \/ (fd[f] \in Conns /\ fd[f] \in shut))
  /\ fd' = [fd EXCEPT ![f] = Free]
  /\ sockets' = sockets \ {f} /\ sources' = sources \ {f}
  /\ UNCHANGED <<ai, sock, own, nodelay, option, stream, world, conns, pc, call, calls, sent>>
OtherOpens ==
  /\ Unused # {} /\ fd' = [fd EXCEPT ![Lowest] = Other]
  /\ UNCHANGED <<ai, sock, own, nodelay, option, server, stream, world, conns, pc, call, calls, sent>>
OtherCloses(f) ==
  /\ fd[f] = Other /\ fd' = [fd EXCEPT ![f] = Free]
  /\ UNCHANGED <<ai, sock, own, nodelay, option, server, stream, world, conns, pc, call, calls, sent>>

Attempt == Unresolved \/ Unreachable \/ Open \/ Reuse \/ SendLength \/ SendAll \/ SendFails \/ Fail
Next ==
  \/ \E k \in {"message", "bundle"}, b \in BOOLEAN : Send(k, b)
  \/ Attempt \/ Renew
  \/ \E b \in BOOLEAN : SetNodelay(b)
  \/ \E c \in Conns : PeerCloses(c)
  \/ \E f \in Fds : ServerCloses(f) \/ OtherCloses(f)
  \/ OtherOpens
Spec == Init /\ [][Next]_vars
----------------------------------------------------------------------------
\* On a connection that the server never had, the peer reads whole frames, and
\* at most a length whose data never comes: after a failure nothing more is
\* written to it.
FramesWhole ==
  \A c \in Conns \ shared :
    \A i \in 1 .. Len(stream[c]) :
      (i % 2 = 1) <=> (stream[c][i] = Length)
Carries(c, k) == \E i \in 1 .. Len(stream[c]) : stream[c][i] = k
\* A message that was tried again is not written twice.
Writings(k) ==
  { w \in Conns \X (1 .. 2 * MaxCalls) : w[2] <= Len(stream[w[1]]) /\ stream[w[1]][w[2]] = k }
AtMostOnce == \A k \in 1 .. calls : Cardinality(Writings(k)) <= 1

\* A call that reports success did write its message, as long as no descriptor
\* of the address was the server's to close.
SuccessIsWritten == shared = {} => \A k \in sent : \E c \in Conns : Carries(c, k)

\* As long as the address owns its socket, it is a connection of its own: only
\* a descriptor that the server may close becomes stale.  (The server may close
\* one that the address owns, if a message that was sent without it failed and
\* left the descriptor's number in its list.)
OwnedIsOpen == own /\ sock # NoSock /\ conns \notin inherited => fd[sock] = conns

\* send.c, where an address's socket is added to a server: "the server is now
\* responsible for closing it".
ServerResponsible == ~own /\ Connected(sock) => sock \in sockets

\* lo_lowlevel.h of lo_address_set_tcp_nodelay: "Set the TCP_NODELAY flag on
\* outgoing TCP connections."
NodelayApplied == Connected(sock) => option[fd[sock]] = nodelay
=============================================================================
