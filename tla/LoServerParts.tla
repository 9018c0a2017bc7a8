---------------------------- MODULE LoServerParts ----------------------------
(***************************************************************************)
(* What surrounds the queue (LoQueue) and the thread (LoServerThread) of a *)
(* server of liblo: its methods (LoMethods), how servers come and go       *)
(* (LoServerNew), the wait for several of them (LoWait), and an address    *)
(* that sends to one by TCP (LoClient).  They share no state: each has the *)
(* parameters and variables here that its own do not name.  A program that *)
(* sends to a server is oscsendfile (OscSendFile).                         *)
(***************************************************************************)
EXTENDS LoQueue, LoServerThread

CONSTANTS
  Paths, Matched, Specs, Messages, MaxMethods, MaxMessages,
  Names, Fds, MaxTries, MaxNews,
  Descriptors, MaxConns, MaxCalls,
  Num, Tcp, Unit, WaitSlack, Longest, Timeouts, WaitTime, WaitArrivals, MaxClients,
  W, Speed, Files, MaxValues, FileStart, Micro, FileTime

VARIABLES
  heap, live, first, coerce, del, msg, it, ret, running, called, reply,
  registered, stayed, messages,
  state, proto, tries, socket, open, client, retried, news,
  fd, ai, sock, own, nodelay, option, listed, sources, stream, shut, shared,
  inherited, conns, sending, call, calls, succeeded,
  clock, queued, sockets_len, waiting, buffered, reached, at, index, status, timeout,
  sched_timeout, then, revents, begun, asked, accepted, seen,
  file, line_no, args, tts, this, tt_start, bundle, watch, bundles, made, step

Methods == INSTANCE LoMethods WITH arrivals <- messages

Servers == INSTANCE LoServerNew WITH Servers <- Names

Address == INSTANCE LoClient WITH
             Fds <- Descriptors, pc <- sending, sockets <- listed, sent <- succeeded

Several == INSTANCE LoWait WITH
             Slack <- WaitSlack, MaxTime <- WaitTime, MaxArrivals <- WaitArrivals,
             now <- clock, arrivals <- reached, pc <- at, j <- index

File == INSTANCE OscSendFile WITH
          Start <- FileStart, MaxTime <- FileTime,
          at <- line_no, first <- tt_start, b <- bundle, now <- watch, sent <- bundles,
          pc <- step

methods == <<heap, live, first, coerce, del, msg, it, ret, running, called, reply,
             registered, stayed, messages>>
servers == <<state, proto, tries, socket, open, client, retried, news>>
address == <<fd, ai, sock, own, nodelay, option, listed, sources, stream, shut,
             shared, inherited, conns, sending, call, calls, succeeded>>
wait == <<clock, queued, sockets_len, waiting, buffered, reached, at, index, status, timeout,
          sched_timeout, then, revents, begun, asked, accepted, seen>>
sender == <<file, line_no, args, tts, this, tt_start, bundle, watch, bundles, made, step>>

(* -1 is no descriptor.                                                    *)
ASSUME ServersAssumption == IsFiniteSet(Names) /\ Servers!NoFd \notin Fds

(* A hundredth of a second is more than a millisecond.                     *)
ASSUME WaitAssumption ==
  /\ Num \in Nat \ {0} /\ Tcp \subseteq 1 .. Num /\ MaxClients \in Nat
  /\ Unit \in Nat \ {0} /\ WaitSlack \in Nat /\ Unit <= WaitSlack
  /\ Longest \in Nat /\ Timeouts \subseteq Nat /\ WaitTime \in Nat

(* 0 is no descriptor that is given out.                                   *)
ASSUME AddressAssumption ==
  Descriptors \subseteq Nat \ {0} /\ MaxConns \in Nat /\ MaxCalls \in Nat

(* The times of a file do not go back, and as played they fit a time tag.  *)
(* What follows a path on its line is types first, and then values.        *)
FileLines ==
  [tt : {<<>>} \cup { <<sec>> : sec \in 0 .. W - 1 } \cup ((0 .. W - 1) \X (0 .. W - 1)),
   path : BOOLEAN, types : Seq(STRING), reads : Seq(STRING)]
ASSUME FileAssumption ==
  /\ W \in Nat \ {0, 1} /\ Speed \in Nat \ {0} /\ MaxValues \in Nat
  /\ FileStart \in 0 .. W * W - 1 /\ Micro \in Nat \ {0} /\ FileTime \in Nat
  /\ \A lines \in Files :
       /\ lines \in Seq(FileLines)
       /\ \A i \in 1 .. Len(lines) :
            /\ lines[i].types = <<>> => lines[i].reads = <<>>
       /\ \A i, j \in 1 .. Len(lines) :
            i < j /\ Len(lines[i].tt) = 2 /\ Len(lines[j].tt) = 2 =>
              LET d == File!Value(File!FirstTag(lines[j].tt))
                         - File!Value(File!FirstTag(lines[i].tt))
              IN  d >= 0 /\ FileStart + (d \div Speed) < W * W

-----------------------------------------------------------------------------
(* LoMethods: the list is what was registered, and each fitting method is  *)
(* called in turn.                                                         *)
MethodsExact == /\ Methods!ListExact /\ Methods!EachInTurn /\ Methods!WalkLive
                /\ Methods!ReplyExact
(* LoServerNew: lo_client_sockets names open sockets, and none is lost but *)
(* by the retry of a port.                                                 *)
SocketsAccounted == Servers!ClientSocketLive /\ Servers!Accounted
(* LoClient: frames stay whole and go once, whatever fails in between.     *)
Delivered == /\ Address!FramesWhole /\ Address!AtMostOnce /\ Address!SuccessIsWritten
             /\ Address!OwnedIsOpen
(* LoWait: who waits is told of all that have something to do, in time.    *)
WaitTells == Several!TellsBusy /\ Several!EndsInTime
(* OscSendFile: messages leave in order, on time, with their own values.   *)
FileAsWritten == File!InFileOrder /\ File!OnTime /\ File!OwnValues
(* OscSendFile, of a line with a path alone: "empty message is allowed".    *)
EmptyAllowed == File!EmptyAllowed
=============================================================================
