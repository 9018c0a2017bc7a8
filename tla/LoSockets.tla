----------------------------- MODULE LoSockets -----------------------------
(***************************************************************************)
(* The sockets of a TCP server of liblo (server.c): connections are        *)
(* accepted, messages are read from whichever socket has data, and the     *)
(* sockets of closed connections are taken out of the list.                *)
(*                                                                         *)
(* One thread runs the server: lo_server_recv dispatches a message that is *)
(* in a buffer if there is one, and otherwise polls.  TCP is external:     *)
(* what a peer writes arrives in order and in pieces of any size.          *)
(***************************************************************************)
EXTENDS LoFraming, FiniteSets

CONSTANTS
  Peers, SlipPeers,  \* the connections, and those that send SLIP
  Script             \* the messages each sends, one after the other

VARIABLES
  peer,       \* each peer's side: "new", "connected" or "closed"
  sent,       \* the messages it sent
  wire,       \* and the bytes of them that the server has not read
  sockets,    \* the server's list, without the listening socket before it
  contexts,   \* the contexts, by their index in the list
  taken,      \* the connections that were accepted
  again,      \* is EAGAIN left in errno?
  delivered,  \* the messages dispatched with each peer as their source
  shifted,    \* was a socket removed that had others behind it?
  lost,       \* how much of a SLIP stream was read before it was known as such
  wild        \* the connection at which the memory was damaged, if any

vars == <<peer, sent, wire, sockets, contexts, taken, again, delivered, shifted, lost, wild>>
world == <<peer, sent>>

\* sockets_alloc is doubled as needed: there is a context for everybody.
Slots == 1 .. Cardinality(Peers)

Init ==
  /\ peer = [p \in Peers |-> "new"]
  /\ sent = [p \in Peers |-> <<>>] /\ wire = [p \in Peers |-> <<>>]
  /\ sockets = <<>> /\ contexts = [i \in Slots |-> CleanupContext]
  /\ taken = {} /\ again = FALSE
  /\ delivered = [p \in Peers |-> <<>>]
  /\ shifted = FALSE /\ lost = [p \in Peers |-> 0] /\ wild = {}

----------------------------------------------------------------------------
(* The peers. *)

server == <<sockets, contexts, taken, again, delivered, shifted, lost, wild>>

Connect(p) == /\ peer[p] = "new" /\ peer' = [peer EXCEPT ![p] = "connected"]
              /\ UNCHANGED <<sent, wire, server>>
\* What is sent to a socket that the server closed is lost.
Send(p) ==
  /\ peer[p] = "connected" /\ Len(sent[p]) < Len(Script[p])
  /\ LET m == Script[p][Len(sent[p]) + 1]
     IN  /\ sent' = [sent EXCEPT ![p] = Append(@, m)]
         /\ wire' = IF p \in taken /\ p \notin ToSet(sockets) THEN wire
                    ELSE [wire EXCEPT ![p] = @ \o Encode(p \in SlipPeers, m)]
  /\ UNCHANGED <<peer, server>>
Close(p) == /\ peer[p] = "connected" /\ peer' = [peer EXCEPT ![p] = "closed"]
            /\ UNCHANGED <<sent, wire, server>>

----------------------------------------------------------------------------
(* The server. *)

Index(p) == CHOOSE i \in DOMAIN sockets : sockets[i] = p
Whole == { i \in DOMAIN sockets : ContainsMsg(contexts[i]) > 0 }

\* accept, lo_server_add_socket and init_context
AddSocket(p) ==
  /\ peer[p] # "new" /\ p \notin taken
  /\ Whole = {} /\ wild = {}
  /\ sockets' = Append(sockets, p)
  /\ contexts' = [contexts EXCEPT ![Len(sockets) + 1] = InitContext]
  /\ taken' = taken \cup {p}
  /\ UNCHANGED <<world, wire, again, delivered, shifted, lost, wild>>

\* lo_server_del_socket: the sockets behind it move up, the contexts do not.
DelSocket(i) ==
  /\ sockets' = RemoveAt(sockets, i)
  /\ contexts' = [contexts EXCEPT ![i] = CleanupContext]
  /\ shifted' = (shifted \/ i < Len(sockets))

\* The first whole message in a buffer is dispatched.
Dispatch(p) ==
  /\ p \in ToSet(sockets) /\ wild = {}
  /\ LET i == Index(p)
     IN  /\ i \in Whole /\ \A j \in Whole : i <= j
         /\ delivered' = [delivered EXCEPT ![p] = Append(@, FirstMsg(contexts[i]))]
         /\ contexts' = [contexts EXCEPT ![i] = AfterDispatch(@)]
  /\ UNCHANGED <<world, wire, sockets, taken, again, shifted, lost, wild>>

Ready(p) == p \in ToSet(sockets) /\ Whole = {} /\ wild = {}

\* lo_server_recv_raw_stream_socket, when k more bytes have arrived.  A recv
\* of 0 bytes, for want of room, closes the socket unless errno is EAGAIN.
Receive(p) ==
  /\ Ready(p)
  /\ \E k \in 1 .. Len(wire[p]) :
       LET i == Index(p)
           r == Received(contexts[i], SubSeq(wire[p], 1, k))
           rest == r.rest \o Drop(wire[p], k)
           ended == rest = <<>> /\ peer[p] = "closed"
       IN  /\ again' = (again \/ (r.again /\ ~ended))
           /\ lost' = IF p \in SlipPeers /\ contexts[i].slip = -1
                      THEN [lost EXCEPT ![p] = Len(contexts[i].buf)] ELSE lost
           /\ IF r.full /\ ~again
              THEN DelSocket(i) /\ wire' = [wire EXCEPT ![p] = <<>>]
              ELSE /\ contexts' = [contexts EXCEPT ![i] = r.sc]
                   /\ wire' = [wire EXCEPT ![p] = rest]
                   /\ UNCHANGED <<sockets, shifted>>
  /\ UNCHANGED <<world, taken, delivered, wild>>

\* The same at the end of the stream: recv returns 0 and leaves errno alone.
ReceiveEnd(p) ==
  /\ Ready(p) /\ wire[p] = <<>> /\ peer[p] = "closed"
  /\ ~again /\ DelSocket(Index(p))
  /\ UNCHANGED <<world, wire, taken, again, delivered, lost, wild>>

\* Either may do to the memory what is undefined; then nothing is known of the
\* server any more.
Damage(p) ==
  /\ Ready(p)
  /\ \E k \in 0 .. Len(wire[p]) :
       /\ k = 0 => wire[p] = <<>> /\ peer[p] = "closed"
       /\ Received(contexts[Index(p)], SubSeq(wire[p], 1, k)).risky
  /\ wild' = {p}
  /\ UNCHANGED <<world, wire, sockets, contexts, taken, again, delivered, shifted, lost>>

\* Another call of the thread fails.
OtherError == again /\ again' = FALSE
                /\ UNCHANGED <<world, wire, sockets, contexts, taken, delivered, shifted, lost, wild>>

Next ==
  \/ OtherError
  \/ \E p \in Peers :
       \/ Connect(p) \/ Send(p) \/ Close(p)
       \/ AddSocket(p) \/ Dispatch(p) \/ Receive(p) \/ ReceiveEnd(p) \/ Damage(p)

\* The thread calls lo_server_recv for ever, and poll and the loop over its
\* results reach every socket that has something.
Serve(p) == AddSocket(p) \/ Dispatch(p) \/ Receive(p) \/ ReceiveEnd(p) \/ Damage(p)
Fairness == \A p \in Peers : WF_vars(Serve(p))

Spec == Init /\ [][Next]_vars /\ Fairness

----------------------------------------------------------------------------
TypeOK ==
  /\ peer \in [Peers -> {"new", "connected", "closed"}]
  /\ ToSet(sockets) \subseteq taken /\ taken \subseteq Peers /\ Cardinality(ToSet(sockets)) = Len(sockets)
  /\ \A i \in Slots : contexts[i].slip \in {-1, 0, 1} /\ contexts[i].state \in {0, 1}
  /\ again \in BOOLEAN /\ shifted \in BOOLEAN /\ wild \subseteq taken

\* What a handler is to see of the messages of a connection: all as they were
\* sent, but the bytes that were read before the stream was known as SLIP are
\* zeros.  They are stored where the count goes, behind which a new header is
\* put, and never decoded.
Blanked(m, n) == [k \in 1 .. Len(m) |-> IF k <= n THEN 0 ELSE m[k]]
Arriving(p) ==
  [k \in 1 .. Len(sent[p]) |-> IF k = 1 THEN Blanked(sent[p][k], lost[p]) ELSE sent[p][k]]

\* The code is within its memory, and no context was left to another socket.
Sound == wild = {} /\ ~shifted

\* A handler sees the messages of a connection in the order they were sent,
\* whatever pieces the stream came in; at most three bytes are blank, and only
\* of the first message of a SLIP stream.
InOrder(p) ==
  /\ IsPrefix(delivered[p], Arriving(p))
  /\ lost[p] \in 0 .. 3 /\ (p \notin SlipPeers => lost[p] = 0)
IntactWhileSound == Sound => \A p \in Peers : InOrder(p)

\* Only what a SLIP peer sends makes the server damage its memory.
DamageIsSlip == ~shifted => wild \subseteq SlipPeers

\* The greatest buffer has no room for the message behind its count and, if
\* it is SLIP, for the byte that ends it, which is read before it is known.
Unfit(p, m) == Len(m) + (IF p \in SlipPeers THEN 5 ELSE 4) > MaxMsgSize
TooLong(p) == \E k \in DOMAIN sent[p] : Unfit(p, sent[p][k])

\* The server gives up a connection only when the peer closed it or sent a
\* message that does not fit into the greatest buffer.
DroppedWithCause ==
  Sound => \A p \in taken \ ToSet(sockets) : peer[p] = "closed" \/ TooLong(p)

\* The messages before the first that is too long.
Fitting(p) ==
  LET long == { k \in DOMAIN sent[p] : Unfit(p, sent[p][k]) }
  IN  { k \in DOMAIN sent[p] : \A l \in long : k < l }

\* A buffer of SLIP may outgrow the greatest size when a message ends in it.
AllDelivered ==
  Whole = {} => \A p \in taken :
                   wire[p] = <<>> =>
                     /\ Len(delivered[p]) >= Cardinality(Fitting(p))
                     /\ p \notin SlipPeers => Len(delivered[p]) = Cardinality(Fitting(p))

\* When the server has read every byte and waits, no message is stuck in a
\* buffer, neither after a part of the next one nor behind one that is lost;
\* while sockets are only removed from the end of the list.
NothingStuck == Sound => AllDelivered

\* Whatever sockets are removed: a context holds the "extra data needed per
\* open socket", and no message depends on another connection's.
ContextPerSocket == wild = {} => AllDelivered /\ \A p \in Peers : IsPrefix(delivered[p], Arriving(p))

\* "Error, or socket was closed. Either way, we remove it from the server."
ClosedIsRemoved ==
  \A p \in Peers : peer[p] = "closed" ~> (p \in taken /\ p \notin ToSet(sockets)) \/ wild # {}
=============================================================================
