------------------------------- MODULE LoWait -------------------------------
(***************************************************************************)
(* How a program of liblo waits for several servers at once (server.c):    *)
(* lo_servers_wait polls all their sockets in one array, accepts           *)
(* connections on the way, and tells which servers have something to do;   *)
(* lo_servers_recv_noblock then has each of these receive once.            *)
(*                                                                         *)
(* The clock counts parts of a millisecond, Unit of them in one.  Running  *)
(* the code takes no time, only poll does.  accept succeeds, poll is not   *)
(* interrupted, and connections do not end: LoSockets has those.           *)
(***************************************************************************)
EXTENDS Integers, FiniteSets, FiniteSetsExt

CONSTANTS
  Num,         \* servers
  Tcp,         \* those of them with the protocol LO_TCP
  Unit, Slack, \* a millisecond and 0.01 seconds, which is more, in ticks of the clock
  Longest,     \* 100 seconds, in milliseconds
  Timeouts,    \* what the program waits for, in milliseconds
  MaxTime, MaxArrivals, MaxClients

Servers == 1 .. Num

VARIABLES
  now,
  queued,       \* the time of the next event of a server, if there is one
  sockets_len,  \* the listening socket 0 and the clients of each server
  waiting,      \* connections, datagrams or messages on each socket
  buffered,     \* whole messages in the contexts of each server
  arrivals,
  pc, j,        \* where the program is, and at which server
  status, timeout, sched_timeout, then,
  revents,      \* of all sockets of all servers, one after the other
  begun, asked, accepted, seen  \* history: the wait, and who was found busy

loop == <<pc, j>>
world == <<queued, waiting, buffered, sockets_len, arrivals>>
call == <<status, timeout, sched_timeout, then, revents>>
history == <<begun, asked, accepted, seen>>
vars == <<now, world, loop, call, history>>

Init ==
  /\ now = 0 /\ arrivals = 0
  /\ queued = [s \in Servers |-> {}] /\ buffered = [s \in Servers |-> 0]
  /\ sockets_len = [s \in Servers |-> 1]
  /\ waiting = [s \in Servers |-> [i \in 0 .. MaxClients |-> 0]]
  /\ pc = "out" /\ j = 1
  /\ status = [s \in Servers |-> FALSE]
  /\ timeout = 0 /\ sched_timeout = 0 /\ then = 0 /\ revents = <<>>
  /\ begun = 0 /\ asked = 0 /\ accepted = 0 /\ seen = {}

\* lo_server_next_event_delay
Delay(s) == Min({Longest * Unit} \cup { Max({0, t - now}) : t \in queued[s] })

Clients(s) == 1 .. sockets_len[s] - 1
Ready(s, i) == waiting[s][i] > 0
\* What lo_server_recv would find without waiting.
Busy(s) ==
  \/ buffered[s] > 0 \/ Delay(s) < Slack
  \/ \E i \in Clients(s) : Ready(s, i)
  \/ s \notin Tcp /\ Ready(s, 0)

Sockets == { si \in Servers \X (0 .. MaxClients) : si[2] < sockets_len[si[1]] }
\* The index in revents of a server's first socket.
First(s) == 1 + Cardinality({ si \in Sockets : si[1] < s })

-----------------------------------------------------------------------------
(* The network: connections and datagrams at socket 0, messages elsewhere. *)
Arrive(s, i) ==
  /\ arrivals < MaxArrivals /\ i < sockets_len[s]
  /\ s \in Tcp /\ i = 0 => sockets_len[s] + waiting[s][0] <= MaxClients
  /\ waiting' = [waiting EXCEPT ![s][i] = @ + 1] /\ arrivals' = arrivals + 1
  /\ UNCHANGED <<now, queued, buffered, sockets_len, loop, call, history>>

PollEnds ==
  \/ \E si \in Sockets : Ready(si[1], si[2])
  \/ now - then >= Min({timeout, sched_timeout}) * Unit
Tick ==
  /\ now < MaxTime /\ (pc = "out" \/ (pc = "poll" /\ ~PollEnds))
  /\ now' = now + 1
  /\ UNCHANGED <<world, loop, call, history>>

-----------------------------------------------------------------------------
(* lo_servers_wait *)
Wait(t) ==
  /\ pc = "out" /\ pc' = "again" /\ j' = 1
  /\ status' = [s \in Servers |-> FALSE] /\ timeout' = t
  /\ begun' = now /\ asked' = t /\ accepted' = 0 /\ seen' = {}
  /\ UNCHANGED <<now, world, sched_timeout, then, revents>>

Again ==
  /\ pc = "again" /\ pc' = "poll" /\ j' = 1
  /\ status' = [s \in Servers |-> status[s] \/ buffered[s] > 0]
  /\ sched_timeout' = Min({timeout} \cup { Delay(s) \div Unit : s \in Servers })
  /\ then' = now
  /\ UNCHANGED <<now, world, timeout, revents, history>>

Poll ==
  /\ pc = "poll" /\ PollEnds /\ pc' = "listening"
  /\ revents' = [k \in 1 .. Cardinality(Sockets) |->
                   \E si \in Sockets : k = First(si[1]) + si[2] /\ Ready(si[1], si[2])]
  /\ seen' = { s \in Servers : Busy(s) }
  /\ UNCHANGED <<now, world, j, status, timeout, sched_timeout, then, begun, asked, accepted>>

\* Mutant: the wait starts again with all of its time.
TimeLeft_Fault == timeout
TimeLeft == Max({0, timeout - (now - then) \div Unit})
\* A listening socket that is ready has a connection to accept, after which
\* everything starts again with what is left of the time; whole milliseconds
\* of it, that is.
Accept ==
  /\ pc = "listening" /\ j \in Tcp /\ revents[First(j)]
  /\ waiting' = [waiting EXCEPT ![j][0] = @ - 1]
  /\ sockets_len' = [sockets_len EXCEPT ![j] = @ + 1]
  /\ timeout' = TimeLeft
  /\ pc' = "again" /\ accepted' = accepted + 1
  /\ UNCHANGED <<now, queued, buffered, arrivals, j, status, sched_timeout, then, revents,
                 begun, asked, seen>>

Onwards(here, next) ==
  IF j < Num THEN pc' = here /\ j' = j + 1 ELSE pc' = next /\ j' = 1
Listening ==
  /\ pc = "listening" /\ ~(j \in Tcp /\ revents[First(j)])
  /\ status' = [status EXCEPT ![j] = @ \/ revents[First(j)]]
  /\ Onwards("listening", "clients")
  /\ UNCHANGED <<now, world, timeout, sched_timeout, then, revents, history>>

Return ==
  /\ pc = "clients"
  /\ status' = [s \in Servers |-> \/ status[s] \/ Delay(s) < Slack
                                  \/ \E i \in Clients(s) : revents[First(s) + i]]
  /\ pc' = "recv"
  /\ UNCHANGED <<now, world, j, timeout, sched_timeout, then, revents, history>>

-----------------------------------------------------------------------------
(* lo_servers_recv_noblock.  lo_server_recv serves its queue, a message it  *)
(* has or a socket; a message may be a bundle that goes to the queue.       *)
Later(s) == queued' = queued \/ \E t \in now .. MaxTime :
              queued' = [queued EXCEPT ![s] = IF @ = {} THEN {t} ELSE { Min(@ \cup {t}) }]
ServesQueue(s) ==
  /\ Delay(s) <= Slack /\ queued' = [queued EXCEPT ![s] = {}]
  /\ UNCHANGED <<buffered, waiting>>
ServesMessage(s) ==
  /\ Delay(s) > Slack /\ buffered[s] > 0
  /\ buffered' = [buffered EXCEPT ![s] = @ - 1] /\ Later(s)
  /\ UNCHANGED waiting
\* A stream is read as far as it has come, a datagram at a time.
ServesSocket(s, i) ==
  /\ Delay(s) > Slack /\ buffered[s] = 0 /\ Ready(s, i)
  /\ IF s \in Tcp
     THEN /\ i # 0
          /\ buffered' = [buffered EXCEPT ![s] = waiting[s][i] - 1]
          /\ waiting' = [waiting EXCEPT ![s][i] = 0]
     ELSE waiting' = [waiting EXCEPT ![s][i] = @ - 1] /\ UNCHANGED buffered
  /\ Later(s)
Recv ==
  /\ pc = "recv"
  /\ IF status[j] THEN \/ ServesQueue(j) \/ ServesMessage(j)
                      \/ \E i \in 0 .. sockets_len[j] - 1 : ServesSocket(j, i)
     ELSE UNCHANGED <<queued, buffered, waiting>>
  /\ Onwards("recv", "out")
  /\ UNCHANGED <<now, sockets_len, arrivals, call, history>>

Step == Again \/ Poll \/ Accept \/ Listening \/ Return \/ Recv
Next ==
  \/ Tick \/ Step
  \/ \E t \in Timeouts : Wait(t)
  \/ \E s \in Servers, i \in 0 .. MaxClients : Arrive(s, i)
Spec == Init /\ [][Next]_vars

-----------------------------------------------------------------------------
Returned == pc = "recv" /\ j = 1
Waited == now - begun

\* Whoever was busy when poll returned is told, and who is told is busy still
\* when its turn to receive comes, so that lo_server_recv does not block.
TellsBusy ==
  /\ Returned => \A s \in seen : status[s]
  /\ pc = "recv" => \A s \in j .. Num : status[s] => Busy(s)

\* A wait returns by its timeout, plus less than a millisecond per connection it
\* accepted, and by the time of every event; and it tells nothing only when the
\* timeout, or 100 seconds of it, has passed.
EndsInTime ==
  Returned =>
    /\ Waited <= asked * Unit + accepted * (Unit - 1)
    /\ \A s \in Servers : \A t \in queued[s] : now <= Max({t, begun})
    /\ (\A s \in Servers : ~status[s]) => Waited >= Min({asked, Longest}) * Unit
=============================================================================
