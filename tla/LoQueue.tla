------------------------------ MODULE LoQueue ------------------------------
(***************************************************************************)
(* When a server of liblo hands messages to the program (server.c): the    *)
(* walk of dispatch_data over a packet, the queue of messages whose time   *)
(* is yet to come, and the loop of lo_server_recv that serves both.        *)
(*                                                                         *)
(* A packet is the sequence of what dispatch_data meets: the beginning     *)
(* ("open", with a time tag) and end ("close") of a bundle, messages       *)
(* ("msg"), elements that are no message ("bad") and nested bundles that   *)
(* are not valid ("badbundle").  Time is counted in ticks of 10 ms.        *)
(***************************************************************************)
EXTENDS Integers, Sequences, FiniteSets

CONSTANTS
  Packets,       \* what may arrive
  Slack,         \* lo_server_recv takes an event as due this much before
  MaxTime, MaxArrivals, MaxNested   \* bounds

Immediate == -1         \* LO_TT_IMMEDIATE, which is before every time
Times == 0 .. MaxTime
Tags == Times \cup {Immediate}
Elements == [kind : {"open"}, ts : Tags]
              \cup [kind : {"msg", "bad", "badbundle", "close"}, ts : {Immediate}]

ASSUME QueueAssumption ==
  /\ MaxTime \in Nat /\ Slack \in Nat /\ MaxArrivals \in Nat /\ MaxNested \in Nat
  /\ Packets \subseteq Seq(Elements)
  \* the walk of a bundle comes to its end
  /\ \A p \in Packets : \A i \in 1 .. Len(p) :
       p[i].kind = "open" => \E j \in i + 1 .. Len(p) : p[j].kind = "close"

None == [id |-> 0, ts |-> Immediate]   \* no event

VARIABLES
  now,
  enqueue,   \* is LO_SERVER_ENQUEUE set?
  todo,      \* what is left of the packet
  stack,     \* the bundles that dispatch_data is in: tag, and time of arrival
  opened,    \* the tags that the program pushed and did not pop (bundle handlers)
  bundled, tt_bundle,   \* the variables of oscdump.c, which is such a program
  skipped,   \* was an end handler ever left out?
  queue,     \* s->queued
  current,   \* the queued message whose handler runs, or None,
  tailhead,  \*   and the id of the one behind it, as dispatch_queued noted it
  round,     \* disp_time while dispatch_queued loops, or Immediate
  drain,     \* does it go on to the end of the queue (dispatch_all)?
  handled,   \* the messages handed to the program, each with the time
  lastid, arrivals, nested   \* counters: messages, packets, bundles from handlers

vars == <<now, enqueue, todo, stack, opened, bundled, tt_bundle, skipped,
          queue, current, tailhead, round, drain,
          handled, lastid, arrivals, nested>>
dump == <<opened, bundled, tt_bundle>>
packet == <<todo, stack, dump, skipped>>
looping == <<current, tailhead, round, drain>>

Init ==
  /\ now = 0 /\ enqueue = TRUE
  /\ todo = <<>> /\ stack = <<>> /\ opened = <<>>
  /\ bundled = FALSE /\ tt_bundle = 0 /\ skipped = FALSE
  /\ queue = <<>> /\ current = None /\ tailhead = 0 /\ round = Immediate /\ drain = FALSE
  /\ handled = <<>>
  /\ lastid = 0 /\ arrivals = 0 /\ nested = 0

Pop(s) == SubSeq(s, 1, Len(s) - 1)
Top(s) == s[Len(s)]
Idle == todo = <<>> /\ current = None /\ round = Immediate

\* lo_server_next_event_delay is what lo_server_recv looks at first.
Due == queue # <<>> /\ queue[1].ts - now <= Slack

Tick == now < MaxTime /\ now' = now + 1
          /\ UNCHANGED <<enqueue, packet, queue, looping, handled, lastid, arrivals, nested>>

----------------------------------------------------------------------------
(* dispatch_data *)

Arrive(p) ==
  /\ Idle /\ ~Due /\ arrivals < MaxArrivals
  /\ todo' = p /\ arrivals' = arrivals + 1
  /\ UNCHANGED <<now, enqueue, stack, dump, skipped, queue, looping, handled, lastid, nested>>

Meets(kind) == todo # <<>> /\ Head(todo).kind = kind

\* bundleStartHandler and bundleEndHandler of oscdump are not about nesting: an
\* inner bundle's end is the end.
Open ==
  /\ Meets("open")
  /\ stack' = Append(stack, [ts |-> Head(todo).ts, at |-> now])
  /\ opened' = Append(opened, Head(todo).ts) /\ bundled' = TRUE
  /\ tt_bundle' = IF Head(todo).ts = Immediate THEN now ELSE Head(todo).ts
  /\ todo' = Tail(todo)
  /\ UNCHANGED <<now, enqueue, skipped, queue, looping, handled, lastid, arrivals, nested>>
Close ==
  /\ Meets("close")
  /\ stack' = Pop(stack) /\ todo' = Tail(todo)
  /\ opened' = Pop(opened) /\ bundled' = FALSE
  /\ UNCHANGED <<now, enqueue, tt_bundle, skipped, queue, looping, handled, lastid, arrivals, nested>>

\* A message outside of a bundle, of one whose time had come when it arrived,
\* or of a server that does not queue.
AtOnce == IF stack = <<>> THEN TRUE ELSE Top(stack).ts <= Top(stack).at \/ ~enqueue
Tag == IF stack = <<>> THEN Immediate ELSE Top(stack).ts

\* messageHandler of oscdump: the time that it prints
Shown(ts) == IF bundled THEN tt_bundle ELSE IF ts = Immediate THEN now ELSE ts
HandTo(id, ts) == handled' = Append(handled, [id |-> id, ts |-> ts, at |-> now, shown |-> Shown(ts)])

Dispatch ==
  /\ Meets("msg") /\ AtOnce
  /\ HandTo(lastid + 1, Tag)
  /\ lastid' = lastid + 1 /\ todo' = Tail(todo)
  /\ UNCHANGED <<now, enqueue, stack, dump, skipped, queue, looping, arrivals, nested>>

\* Mutant: a message goes before those of its own time.
Before_Fault(q, ts) == { i \in 1 .. Len(q) : \A j \in 1 .. i : q[j].ts < ts }
\* queue_data: before the first event that is later
Before(q, ts) == { i \in 1 .. Len(q) : \A j \in 1 .. i : q[j].ts <= ts }
Place(q, ts) == Cardinality(Before(q, ts)) + 1
QueueData(q, e) ==
  LET k == Place(q, e.ts)
  IN  [i \in 1 .. Len(q) + 1 |-> IF i < k THEN q[i] ELSE IF i = k THEN e ELSE q[i - 1]]

Enqueue ==
  /\ Meets("msg") /\ ~AtOnce
  /\ queue' = QueueData(queue, [id |-> lastid + 1, ts |-> Tag])
  /\ lastid' = lastid + 1 /\ todo' = Tail(todo)
  /\ UNCHANGED <<now, enqueue, stack, dump, skipped, looping, handled, arrivals, nested>>

\* An element that is no message ends its bundle: the rest is left out, and
\* the end handler is not called.  The bundle around it goes on.
Count(kind, k) == Cardinality({ i \in 1 .. k : todo[i].kind = kind })
Closes(k) == k \in 1 .. Len(todo) /\ Count("close", k) = Count("open", k) + 1
Bad ==
  /\ Meets("bad")
  /\ IF stack = <<>>
     THEN todo' = <<>> /\ UNCHANGED <<stack, skipped>>
     ELSE /\ stack' = Pop(stack) /\ skipped' = TRUE
          /\ \E k \in 1 .. Len(todo) :
               /\ Closes(k) /\ \A i \in 1 .. k - 1 : ~Closes(i)
               /\ todo' = SubSeq(todo, k + 1, Len(todo))
  /\ UNCHANGED <<now, enqueue, dump, queue, looping, handled, lastid, arrivals, nested>>
BadBundle ==
  /\ Meets("badbundle") /\ todo' = Tail(todo)
  /\ UNCHANGED <<now, enqueue, stack, dump, skipped, queue, looping, handled, lastid, arrivals, nested>>

----------------------------------------------------------------------------
(* dispatch_queued *)

Looping == round # Immediate
\* The head of the queue, and what is behind it, are noted before the handler
\* runs.
Take ==
  /\ current' = Head(queue)
  /\ tailhead' = IF Len(queue) > 1 THEN queue[2].id ELSE 0
  /\ UNCHANGED <<now, enqueue, packet, queue, handled, lastid, arrivals, nested>>
StartRound ==
  /\ Idle /\ Due
  /\ round' = Head(queue).ts /\ drain' = FALSE /\ Take
NextInRound ==
  /\ Looping /\ current = None /\ Take /\ UNCHANGED <<round, drain>>

\* A handler may hand a bundle for later to lo_server_dispatch_data.  One that
\* calls lo_server_recv is not modelled: dispatch_queued would begin again with
\* the same head, which both would then free.
HandlerQueues(ts) ==
  /\ current # None /\ nested < MaxNested /\ enqueue /\ ts > now
  /\ queue' = QueueData(queue, [id |-> lastid + 1, ts |-> ts])
  /\ lastid' = lastid + 1 /\ nested' = nested + 1
  /\ UNCHANGED <<now, enqueue, packet, looping, handled, arrivals>>

\* Mutant: the event stays in the queue if a later one is there.
From_Fault(q, id) == IF id = 0 THEN <<>> ELSE q
\* The queue then begins with the event that was noted, whatever is before it.
From(q, id) ==
  LET S == { i \in 1 .. Len(q) : q[i].id = id }
  IN  IF S = {} THEN <<>> ELSE SubSeq(q, CHOOSE i \in S : TRUE, Len(q))
\* Mutant: a round goes on while anything is queued.
Goes_Fault(q) == q # <<>>
Goes(q) == q # <<>> /\ (q[1].ts <= round \/ drain)
Handled ==
  /\ current # None
  /\ HandTo(current.id, current.ts)
  /\ LET q == From(queue, tailhead)
     IN  /\ queue' = q
         /\ IF Goes(q) THEN UNCHANGED <<round, drain>>
            ELSE round' = Immediate /\ drain' = FALSE
  /\ current' = None /\ tailhead' = 0
  /\ UNCHANGED <<now, enqueue, packet, lastid, arrivals, nested>>

\* lo_server_enable_queue, which may dispatch everything at once
EnableQueue == /\ Idle /\ ~enqueue /\ enqueue' = TRUE
               /\ UNCHANGED <<now, packet, queue, looping, handled, lastid, arrivals, nested>>
DisableQueue ==
  /\ Idle /\ enqueue /\ enqueue' = FALSE
  /\ \/ UNCHANGED <<now, packet, queue, looping, handled, lastid, arrivals, nested>>
     \/ /\ queue # <<>> /\ round' = Head(queue).ts /\ drain' = TRUE
        /\ current' = Head(queue)
        /\ tailhead' = IF Len(queue) > 1 THEN queue[2].id ELSE 0
        /\ UNCHANGED <<now, packet, queue, handled, lastid, arrivals, nested>>

Recv == \/ Open \/ Close \/ Dispatch \/ Enqueue \/ Bad \/ BadBundle
        \/ StartRound \/ NextInRound \/ Handled
Next ==
  \/ Tick \/ Recv \/ EnableQueue \/ DisableQueue
  \/ \E p \in Packets : Arrive(p)
  \/ \E ts \in Times : HandlerQueues(ts)

\* Time goes on, and the thread calls lo_server_recv again and again.
Fairness == WF_vars(Tick) /\ WF_vars(Recv)
Spec == Init /\ [][Next]_vars /\ Fairness

----------------------------------------------------------------------------
Event == [id : Nat, ts : Tags]
TypeOK ==
  /\ now \in Times /\ enqueue \in BOOLEAN
  /\ stack \in Seq([ts : Tags, at : Times])
  /\ queue \in Seq(Event) /\ current \in Event
  /\ round \in Tags /\ handled \in Seq([id : Nat, ts : Tags, at : Times, shown : Tags])
  /\ lastid \in Nat

\* The queue is in the order of time, and of arrival where times are equal.
InOrder ==
  \A i, j \in 1 .. Len(queue) :
    i < j => \/ queue[i].ts < queue[j].ts
             \/ queue[i].ts = queue[j].ts /\ queue[i].id < queue[j].id

Ids(s) == { s[i].id : i \in 1 .. Len(s) }

\* No message is lost or handled twice: each is waiting or was handed to the
\* program, unless a handler queued something while the queue was dispatched.
NothingLost ==
  nested = 0 => /\ Ids(queue) \cup Ids(handled) = 1 .. lastid
                /\ Len(queue) + Len(handled) = lastid

\* A message is never handled before its time, up to the slack of
\* lo_server_recv, as long as the program does not turn the queue off.
NeverEarly ==
  [][enqueue /\ ~drain /\ Len(handled') > Len(handled) =>
       handled'[Len(handled')].ts - now <= Slack]_vars

\* What was queued is handled in the end.
QueueDrains == (nested = 0 /\ queue # <<>>) ~> (nested # 0 \/ queue = <<>> \/ todo # <<>>)

\* oscdump prints each message with the tag of its own bundle, or with a time
\* that has come where the tag is immediate; but not once an element that is no
\* message has made the server leave out an end handler.
DumpShows ==
  [][Len(handled') > Len(handled) /\ ~skipped =>
       LET e == handled'[Len(handled')]
       IN  IF e.ts = Immediate THEN e.shown \in 0 .. now ELSE e.shown = e.ts]_vars

\* What a handler gets, it gets when it is due and with its own time.
Handover == NeverEarly /\ DumpShows

\* "Nested bundles: push and pop": when a message is handled, the tag on top of
\* the program's stack is that of the message's bundle.
MessagesInBundles ==
  [][Len(handled') > Len(handled) =>
       LET e == handled'[Len(handled')]
       IN  IF opened = <<>> THEN e.ts = Immediate ELSE Top(opened) = e.ts]_vars
=============================================================================
