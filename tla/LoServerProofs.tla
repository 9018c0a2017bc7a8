--------------------------- MODULE LoServerProofs ---------------------------
(* What a server of liblo and the senders to it guarantee, for every value *)
(* of the parameters: its queue, its thread, its sockets, its methods and  *)
(* the addresses that send to it.                                          *)
EXTENDS LoServerParts, FiniteSetTheorems, SequenceTheorems, WellFoundedInduction,
        NaturalsInduction, TLAPS

-----------------------------------------------------------------------------
(* A set of numbers has a least element, a bounded one a greatest.         *)
LEMMA NatLeast ==
  ASSUME NEW S \in SUBSET Nat, S # {}
  PROVE  \E x \in S : \A y \in S : x <= y
<1> DEFINE less == {ss \in Nat \X Nat : ss[1] < ss[2]}
<1>1. IsWellFoundedOn(less, Nat)
  BY NatLessThanWellFounded DEF OpToRel
<1>2. PICK x \in S : \A y \in S : ~ (<<y, x>> \in less)
  BY <1>1, WFMin
<1>3. ASSUME NEW y \in S, ~ (x <= y) PROVE FALSE
  <2>1. x \in Nat /\ y \in Nat /\ y < x
    BY <1>3
  <2>2. <<y, x>> \in less
    BY <2>1
  <2>. QED
    BY <1>2, <2>2
<1>. QED
  BY <1>3

LEMMA Greatest ==
  ASSUME NEW k \in Nat, NEW S \in SUBSET (1 .. k), S # {}
  PROVE  \E x \in S : \A y \in S : y <= x
<1> DEFINE Above == {u \in Nat : \A y \in S : y <= u}
<1>1. k \in Above
  OBVIOUS
<1>2. PICK u \in Above : \A v \in Above : u <= v
  BY <1>1, NatLeast
<1>3. ASSUME u \notin S PROVE FALSE
  <2>1. PICK y \in S : TRUE
    OBVIOUS
  <2>2. u \in Nat \ {0}
    BY <2>1
  <2>3. \A z \in S : z <= u - 1
    BY <1>3, <2>2
  <2>4. u - 1 \in Above
    BY <2>2, <2>3
  <2>. QED
    BY <1>2, <2>2, <2>4
<1>. QED
  BY <1>3

LEMMA SetInduction ==
  ASSUME NEW S, 0 \in S, \A n \in Nat : n \in S => n + 1 \in S
  PROVE  Nat \subseteq S
<1>1. SUFFICES ASSUME Nat \ S # {} PROVE FALSE
  OBVIOUS
<1>2. PICK x \in Nat \ S : \A y \in Nat \ S : x <= y
  BY <1>1, NatLeast
<1>3. x # 0 /\ x - 1 \in Nat /\ ~ (x <= x - 1)
  OBVIOUS
<1>4. x - 1 \in S
  BY <1>2, <1>3
<1>. QED
  BY <1>3, <1>4

-----------------------------------------------------------------------------
(* queue_data.                                                             *)

(* What waits has a number and a time of its own, never LO_TT_IMMEDIATE.   *)
Waiting == [id : Nat \ {0}, ts : Times]

Ordered(q) ==
  \A i, j \in 1 .. Len(q) :
    i < j => q[i].ts < q[j].ts \/ (q[i].ts = q[j].ts /\ q[i].id < q[j].id)

(* The events that a new one goes behind are the first ones.               *)
LEMMA BeforeIsPrefix ==
  ASSUME NEW q \in Seq(Waiting), NEW ts \in Times
  PROVE  /\ Cardinality(Before(q, ts)) \in 0 .. Len(q)
         /\ Before(q, ts) = 1 .. Cardinality(Before(q, ts))
<1> DEFINE B == Before(q, ts)
           c == Cardinality(B)
<1>1. IsFiniteSet(1 .. Len(q)) /\ Cardinality(1 .. Len(q)) = Len(q)
  <2>1. Len(q) \in Nat
    OBVIOUS
  <2>. QED
    BY <2>1, FS_Interval
<1>2. B \in SUBSET (1 .. Len(q))
  BY DEF Before
<1>3. IsFiniteSet(B) /\ c \in Nat /\ c <= Len(q)
  BY <1>1, <1>2, FS_Subset, FS_CardinalityType
<1>4. ASSUME NEW i \in B PROVE i <= c
  <2>1. 1 .. i \in SUBSET B
    BY <1>4 DEF Before
  <2>2. Cardinality(1 .. i) <= c
    BY <1>3, <2>1, FS_Subset
  <2>3. Cardinality(1 .. i) = i /\ i \in Nat
    BY <1>2, FS_Interval
  <2>. QED
    BY <2>2, <2>3
<1>5. B \in SUBSET (1 .. c)
  BY <1>2, <1>4
<1>6. IsFiniteSet(1 .. c) /\ Cardinality(1 .. c) = c
  BY <1>3, FS_Interval
<1>7. B = 1 .. c
  BY <1>5, <1>6, FS_Subset
<1>. QED
  BY <1>3, <1>7

(* An event that is newer than those of a queue in order leaves it in      *)
(* order.                                                                  *)
LEMMA QueueDataOrdered ==
  ASSUME NEW q \in Seq(Waiting), Ordered(q), NEW e \in Waiting,
         \A i \in 1 .. Len(q) : q[i].id < e.id
  PROVE  /\ QueueData(q, e) \in Seq(Waiting)
         /\ Len(QueueData(q, e)) = Len(q) + 1
         /\ Ordered(QueueData(q, e))
         /\ Ids(QueueData(q, e)) = Ids(q) \cup {e.id}
<1> DEFINE c == Cardinality(Before(q, e.ts))
           d == QueueData(q, e)
<1>1. c \in 0 .. Len(q) /\ Before(q, e.ts) = 1 .. c /\ e.ts \in Times
  BY BeforeIsPrefix DEF Waiting
<1>2. Len(q) \in Nat /\ \A i \in 1 .. Len(q) : q[i] \in Waiting
  OBVIOUS
<1>3. d = [i \in 1 .. Len(q) + 1 |->
             IF i < c + 1 THEN q[i] ELSE IF i = c + 1 THEN e ELSE q[i - 1]]
  BY DEF QueueData, Place
<1>4. d \in Seq(Waiting) /\ Len(d) = Len(q) + 1
  <2>1. d \in [1 .. Len(q) + 1 -> Waiting]
    BY <1>1, <1>2, <1>3
  <2>. QED
    BY <1>2, <2>1
<1>5. \A i \in 1 .. Len(q) :
        /\ i <= c => d[i] = q[i]
        /\ i > c => d[i + 1] = q[i]
  BY <1>1, <1>2, <1>3
<1>6. d[c + 1] = e
  BY <1>1, <1>2, <1>3
<1>7. \A i \in 1 .. c : q[i].ts <= e.ts
  BY <1>1 DEF Before
<1>8. \A i \in c + 1 .. Len(q) : e.ts < q[i].ts
  <2>1. CASE c = Len(q)
    BY <1>2, <2>1
  <2>2. CASE c < Len(q)
    <3>1. c + 1 \in 1 .. Len(q) /\ c + 1 \notin Before(q, e.ts)
      BY <1>1, <1>2, <2>2
    <3>2. PICK j \in 1 .. c + 1 : ~(q[j].ts <= e.ts)
      BY <3>1 DEF Before
    <3>3. j = c + 1
      BY <1>1, <1>7, <3>2
    <3>4. \A i \in 1 .. Len(q) : q[i].ts \in Int
      BY <1>2 DEF Waiting, Times
    <3>5. e.ts < q[c + 1].ts
      BY <1>1, <3>1, <3>2, <3>3, <3>4 DEF Times
    <3>6. \A i \in c + 1 .. Len(q) : q[c + 1].ts <= q[i].ts
      BY <1>1, <1>2, <3>1, <3>4 DEF Ordered
    <3>. QED
      BY <1>1, <1>2, <3>1, <3>4, <3>5, <3>6 DEF Times
  <2>. QED
    BY <1>1, <1>2, <2>1, <2>2
<1>9. Ordered(d)
  <2>1. SUFFICES ASSUME NEW i \in 1 .. Len(q) + 1, NEW j \in 1 .. Len(q) + 1, i < j
                 PROVE  d[i].ts < d[j].ts \/ (d[i].ts = d[j].ts /\ d[i].id < d[j].id)
    BY <1>4 DEF Ordered
  <2>2. CASE j <= c
    BY <1>1, <1>2, <1>5, <2>1, <2>2 DEF Ordered
  <2>3. CASE j = c + 1
    <3>1. i \in 1 .. c /\ i \in 1 .. Len(q)
      BY <1>1, <1>2, <2>1, <2>3
    <3>2. d[i] = q[i] /\ d[j] = e
      BY <1>1, <1>5, <1>6, <2>3, <3>1
    <3>3. q[i].ts <= e.ts /\ q[i].id < e.id /\ q[i].ts \in Int /\ e.ts \in Int
      BY <1>2, <1>7, <3>1 DEF Waiting, Times
    <3>. QED
      BY <3>2, <3>3
  <2>4. CASE j > c + 1
    <3>1. j - 1 \in 1 .. Len(q) /\ j - 1 \in c + 1 .. Len(q) /\ d[j] = q[j - 1]
      BY <1>1, <1>2, <1>3, <2>1, <2>4
    <3>2. CASE i <= c
      <4>1. i \in 1 .. Len(q) /\ d[i] = q[i] /\ i < j - 1
        BY <1>1, <1>2, <1>5, <2>1, <2>4, <3>2
      <4>. QED
        BY <3>1, <4>1 DEF Ordered
    <3>3. CASE i = c + 1
      <4>1. d[i] = e
        BY <1>6, <3>3
      <4>. QED
        BY <1>8, <3>1, <4>1
    <3>4. CASE i > c + 1
      <4>1. i - 1 \in 1 .. Len(q) /\ d[i] = q[i - 1] /\ i - 1 < j - 1
        BY <1>1, <1>2, <1>3, <2>1, <3>4
      <4>. QED
        BY <3>1, <4>1 DEF Ordered
    <3>. QED
      BY <1>1, <2>1, <3>2, <3>3, <3>4
  <2>. QED
    BY <1>1, <2>1, <2>2, <2>3, <2>4
<1>10. Ids(d) = Ids(q) \cup {e.id}
  <2>1. ASSUME NEW i \in 1 .. Len(q) + 1 PROVE d[i].id \in Ids(q) \cup {e.id}
    <3>1. CASE i <= c
      BY <1>1, <1>2, <1>3, <2>1, <3>1 DEF Ids
    <3>2. CASE i = c + 1
      BY <1>6, <3>2
    <3>3. CASE i > c + 1
      <4>1. d[i] = q[i - 1] /\ i - 1 \in 1 .. Len(q)
        BY <1>1, <1>2, <1>3, <2>1, <3>3
      <4>. QED
        BY <4>1 DEF Ids
    <3>. QED
      BY <1>1, <2>1, <3>1, <3>2, <3>3
  <2>2. ASSUME NEW i \in 1 .. Len(q) PROVE q[i].id \in Ids(d)
    <3>1. CASE i <= c
      BY <1>1, <1>2, <1>4, <1>5, <2>2, <3>1 DEF Ids
    <3>2. CASE i > c
      <4>1. d[i + 1] = q[i] /\ i + 1 \in 1 .. Len(d)
        BY <1>1, <1>2, <1>4, <1>5, <2>2, <3>2
      <4>. QED
        BY <4>1 DEF Ids
    <3>. QED
      BY <1>1, <2>2, <3>1, <3>2
  <2>3. e.id \in Ids(d)
    <3>1. c + 1 \in 1 .. Len(d)
      BY <1>1, <1>2, <1>4
    <3>. QED
      BY <1>6, <3>1 DEF Ids
  <2>. QED
    BY <1>4, <2>1, <2>2, <2>3 DEF Ids
<1>. QED
  BY <1>4, <1>9, <1>10

-----------------------------------------------------------------------------
(* dispatch_queued: the queue from the event that was noted on.            *)

LEMMA FromOrdered ==
  ASSUME NEW q \in Seq(Waiting), Ordered(q), NEW id \in Nat
  PROVE  /\ From(q, id) \in Seq(Waiting)
         /\ Ordered(From(q, id))
         /\ Ids(From(q, id)) \subseteq Ids(q)
<1> DEFINE S == { i \in 1 .. Len(q) : q[i].id = id }
<1>1. Len(q) \in Nat /\ \A i \in 1 .. Len(q) : q[i] \in Waiting
  OBVIOUS
<1>2. CASE S = {}
  <2>1. From(q, id) = <<>>
    BY <1>2 DEF From
  <2>. QED
    BY <2>1 DEF Ordered, Ids
<1>3. CASE S # {}
  <2> DEFINE k == CHOOSE i \in S : TRUE
             r == SubSeq(q, k, Len(q))
  <2>1. k \in 1 .. Len(q) /\ From(q, id) = r
    BY <1>3 DEF From
  <2> HIDE DEF k
  <2>2. /\ r \in Seq(Waiting) /\ Len(r) = Len(q) - k + 1
        /\ \A i \in 1 .. Len(r) : r[i] = q[k + i - 1]
    BY <1>1, <2>1, SubSeqProperties
  <2>3. \A i \in 1 .. Len(r) : k + i - 1 \in 1 .. Len(q)
    BY <1>1, <2>1, <2>2
  <2>4. Ordered(r)
    <3>1. SUFFICES ASSUME NEW i \in 1 .. Len(r), NEW j \in 1 .. Len(r), i < j
                   PROVE  \/ r[i].ts < r[j].ts
                          \/ r[i].ts = r[j].ts /\ r[i].id < r[j].id
      BY DEF Ordered
    <3>2. k + i - 1 < k + j - 1
      BY <1>1, <2>1, <2>2, <3>1
    <3>3. k + i - 1 \in 1 .. Len(q) /\ k + j - 1 \in 1 .. Len(q)
      BY <2>3
    <3>4. r[i] = q[k + i - 1] /\ r[j] = q[k + j - 1]
      BY <2>2
    <3>5. ASSUME NEW a \in 1 .. Len(q), NEW b \in 1 .. Len(q), a < b
          PROVE  q[a].ts < q[b].ts \/ (q[a].ts = q[b].ts /\ q[a].id < q[b].id)
      BY <3>5 DEF Ordered
    <3>6. \/ q[k + i - 1].ts < q[k + j - 1].ts
          \/ q[k + i - 1].ts = q[k + j - 1].ts /\ q[k + i - 1].id < q[k + j - 1].id
      BY <3>2, <3>3, <3>5
    <3>. QED
      BY <3>4, <3>6
  <2>5. Ids(r) \subseteq Ids(q)
    BY <2>2, <2>3 DEF Ids
  <2>. QED
    BY <2>1, <2>2, <2>4, <2>5
<1>. QED
  BY <1>2, <1>3

-----------------------------------------------------------------------------
(* The invariant.                                                          *)

QueueTypeOK ==
  /\ now \in Times
  /\ todo \in Seq(Elements)
  /\ stack \in Seq([ts : Tags, at : Times])
  /\ queue \in Seq(Waiting)
  /\ current \in Waiting \cup {None}
  /\ tailhead \in Nat /\ round \in Tags /\ lastid \in Nat

(* A bundle's time of arrival is not in the future.                        *)
Arrived == \A i \in 1 .. Len(stack) : stack[i].at <= now

Numbered == \A i \in 1 .. Len(queue) : queue[i].id <= lastid

(* While dispatch_queued loops, no packet is being dispatched, and what it *)
(* handles or is about to handle has come, unless it drains the queue.     *)
RoundDue ==
  /\ current # None => Looping
  /\ Looping => todo = <<>>
  /\ Looping /\ ~drain => round - now <= Slack
  /\ current # None /\ ~drain => current.ts <= round
  /\ Looping /\ current = None => queue # <<>> /\ (drain \/ queue[1].ts <= round)

QueueInv == QueueTypeOK /\ Arrived /\ Numbered /\ Ordered(queue) /\ RoundDue

LEMMA QueueInitInv == Init => QueueInv
  BY QueueAssumption DEF Init, QueueInv, QueueTypeOK, Arrived, Numbered, Ordered, RoundDue,
     Looping, Times, Tags

(* One event more.                                                         *)
LEMMA QueueMore ==
  ASSUME QueueInv, NEW ts \in Times,
         queue' = QueueData(queue, [id |-> lastid + 1, ts |-> ts]), lastid' = lastid + 1
  PROVE  queue' \in Seq(Waiting) /\ Numbered' /\ Ordered(queue')
<1> DEFINE e == [id |-> lastid + 1, ts |-> ts]
<1>1. e \in Waiting /\ lastid \in Nat /\ queue \in Seq(Waiting) /\ Ordered(queue)
  BY DEF QueueInv, QueueTypeOK, Waiting
<1>2. \A i \in 1 .. Len(queue) : queue[i].id < e.id /\ queue[i].id \in Nat
  <2>1. \A i \in 1 .. Len(queue) : queue[i] \in Waiting /\ queue[i].id <= lastid
    BY <1>1 DEF QueueInv, Numbered
  <2>. QED
    BY <1>1, <2>1 DEF Waiting
<1>3. /\ queue' \in Seq(Waiting) /\ Ordered(queue')
      /\ Ids(queue') = Ids(queue) \cup {e.id}
  BY <1>1, <1>2, QueueDataOrdered
<1>4. \A n \in Ids(queue') : n <= lastid'
  <2>1. \A n \in Ids(queue) : n \in Nat /\ n < lastid + 1
    BY <1>2 DEF Ids
  <2>. QED
    BY <1>1, <1>3, <2>1
<1>5. Numbered'
  BY <1>4 DEF Ids, Numbered
<1>. QED
  BY <1>3, <1>5

(* The head of a queue, and the number of the event behind it.             *)
LEMMA HeadWaits ==
  ASSUME QueueInv, queue # <<>>
  PROVE  /\ Head(queue) = queue[1] /\ Head(queue) \in Waiting /\ Head(queue) # None
         /\ (IF Len(queue) > 1 THEN queue[2].id ELSE 0) \in Nat
<1>1. queue \in Seq(Waiting)
  BY DEF QueueInv, QueueTypeOK
<1>2. Head(queue) = queue[1] /\ Head(queue) \in Waiting
  BY <1>1
<1>3. Len(queue) > 1 => queue[2].id \in Nat
  <2>1. Len(queue) > 1 => queue[2] \in Waiting
    BY <1>1
  <2>. QED
    BY <2>1 DEF Waiting
<1>. QED
  BY <1>2, <1>3 DEF Waiting, None

(* What the program hands to a bundle's elements while it is walked: the   *)
(* queue and its loop are not touched.                                     *)
LEMMA WalkInv ==
  ASSUME QueueInv, todo # <<>>,
         todo' \in Seq(Elements), stack' \in Seq([ts : Tags, at : Times]), Arrived',
         UNCHANGED <<now, queue, current, tailhead, round, drain>>, lastid' \in {lastid, lastid + 1}
  PROVE  QueueInv'
<1>1. \A i \in 1 .. Len(queue) : queue[i] \in Waiting /\ queue[i].id <= lastid
  BY DEF QueueInv, QueueTypeOK, Numbered
<1>2. Numbered'
  BY <1>1 DEF QueueInv, QueueTypeOK, Numbered, Waiting
<1>3. ~Looping /\ RoundDue'
  BY DEF QueueInv, RoundDue, Looping
<1>. QED
  BY <1>2, <1>3 DEF QueueInv, QueueTypeOK

(* What is queued has a time of its own.                                   *)
LEMMA TagWaits ==
  ASSUME QueueInv, Enqueue
  PROVE  Tag \in Times
<1>1. stack # <<>> /\ ~(Top(stack).ts <= Top(stack).at)
  BY DEF Enqueue, AtOnce
<1>2. stack \in Seq([ts : Tags, at : Times])
  BY DEF QueueInv, QueueTypeOK
<1>3. Top(stack) \in [ts : Tags, at : Times]
  <2>1. Len(stack) \in 1 .. Len(stack)
    BY <1>1, <1>2
  <2>. QED
    BY <1>2, <2>1, ElementOfSeq DEF Top
<1>4. Tag = Top(stack).ts
  BY <1>1 DEF Tag
<1>. QED
  BY <1>1, <1>3, <1>4, QueueAssumption DEF Tags, Times, Immediate

LEMMA QueueNextInv == QueueInv /\ [Next]_vars => QueueInv'
<1>. SUFFICES ASSUME QueueInv, [Next]_vars PROVE QueueInv'
  OBVIOUS
<1> DEFINE Frame == [ts : Tags, at : Times]
<1>0. /\ todo \in Seq(Elements) /\ stack \in Seq(Frame) /\ now \in Times
      /\ lastid \in Nat /\ queue \in Seq(Waiting)
  BY DEF QueueInv, QueueTypeOK
<1>a. ASSUME todo # <<>>
      PROVE  /\ Head(todo).ts \in Tags /\ Tail(todo) \in Seq(Elements)
  <2>1. Head(todo) \in Elements /\ Tail(todo) \in Seq(Elements)
    BY <1>0, <1>a
  <2>. QED
    BY <2>1 DEF Elements, Tags
<1>b. ASSUME todo # <<>>, stack' = Pop(stack), UNCHANGED now
      PROVE  stack' \in Seq(Frame) /\ Arrived'
  <2>1. \A i \in 1 .. Len(stack) - 1 : stack[i] \in Frame
    <3>1. Len(stack) \in Nat /\ \A i \in 1 .. Len(stack) : stack[i] \in Frame
      <4>1. Len(stack) \in Nat
        BY <1>0
      <4>2. \A i \in 1 .. Len(stack) : stack[i] \in Frame
        BY <1>0, ElementOfSeq
      <4>. QED
        BY <4>1, <4>2
    <3>. QED
      BY <3>1
  <2>2. /\ Pop(stack) \in Seq(Frame)
        /\ Len(Pop(stack)) = IF 1 <= Len(stack) - 1 THEN Len(stack) - 1 ELSE 0
        /\ \A i \in 1 .. Len(stack) - 1 : Pop(stack)[i] = stack[i]
    <3>1. Len(stack) - 1 \in Int
      BY <1>0
    <3>. QED
      BY <2>1, <3>1, SubSeqProperties DEF Pop
  <2>. QED
    BY <1>0, <1>b, <2>2 DEF QueueInv, Arrived
<1>1. CASE UNCHANGED vars
  BY <1>1 DEF vars, QueueInv, QueueTypeOK, Arrived, Numbered, RoundDue, Looping
<1>2. CASE Tick
  <2>1. now' \in Times /\ now' = now + 1
    BY <1>2, QueueAssumption DEF Tick, QueueInv, QueueTypeOK, Times
  <2>2. /\ now \in Int /\ round \in Int
        /\ UNCHANGED <<todo, stack, queue, current, tailhead, round, drain, lastid>>
    BY <1>0, <1>2, QueueAssumption DEF Tick, QueueInv, QueueTypeOK, packet, looping, Times,
       Tags, Immediate
  <2>3. Arrived'
    <3>1. \A i \in 1 .. Len(stack) : stack[i].at \in Int /\ stack[i].at <= now
      <4>1. \A i \in 1 .. Len(stack) : stack[i] \in Frame /\ stack[i].at <= now
        BY <1>0, ElementOfSeq DEF QueueInv, Arrived
      <4>. QED
        BY <4>1 DEF Times
    <3>. QED
      BY <2>1, <2>2, <3>1 DEF Arrived
  <2>4. RoundDue'
    BY <2>1, <2>2, QueueAssumption DEF QueueInv, RoundDue, Looping
  <2>. QED
    BY <2>1, <2>2, <2>3, <2>4 DEF QueueInv, QueueTypeOK, Numbered
<1>3. ASSUME NEW p \in Packets, Arrive(p) PROVE QueueInv'
  <2>1. todo' \in Seq(Elements) /\ current = None /\ round = Immediate
    BY <1>3, QueueAssumption DEF Arrive, Idle
  <2>. QED
    BY <1>3, <2>1 DEF Arrive, QueueInv, QueueTypeOK, Arrived, Numbered,
       RoundDue, Looping, looping
<1>4. CASE Open
  <2>1. todo # <<>> /\ todo' \in Seq(Elements)
    BY <1>4, <1>a DEF Open, Meets
  <2>2. stack' = Append(stack, [ts |-> Head(todo).ts, at |-> now])
    BY <1>4 DEF Open
  <2>3. stack' \in Seq(Frame) /\ Arrived'
    <3>1. [ts |-> Head(todo).ts, at |-> now] \in Frame
      BY <1>0, <1>a, <2>1
    <3>2. UNCHANGED now /\ now \in Int
      BY <1>0, <1>4 DEF Open, Times
    <3>. QED
      BY <1>0, <2>2, <3>1, <3>2, AppendProperties DEF QueueInv, Arrived
  <2>. QED
    BY <1>4, <2>1, <2>3, WalkInv DEF Open, looping
<1>5. CASE Close
  <2>1. todo # <<>> /\ todo' \in Seq(Elements)
    BY <1>5, <1>a DEF Close, Meets
  <2>. QED
    BY <1>5, <1>b, <2>1, WalkInv DEF Close, looping
<1>6. CASE Dispatch
  <2>1. todo # <<>> /\ todo' \in Seq(Elements)
    BY <1>6, <1>a DEF Dispatch, Meets
  <2>2. stack' \in Seq(Frame) /\ Arrived'
    BY <1>0, <1>6 DEF Dispatch, QueueInv, Arrived
  <2>. QED
    BY <1>6, <2>1, <2>2, WalkInv DEF Dispatch, looping
<1>7. CASE Enqueue
  <2>1. todo # <<>> /\ todo' \in Seq(Elements)
    BY <1>7, <1>a DEF Enqueue, Meets
  <2>2. Tag \in Times
    BY <1>7, TagWaits
  <2>3. queue' \in Seq(Waiting) /\ Numbered' /\ Ordered(queue')
    BY <1>7, <2>2, QueueMore DEF Enqueue
  <2>4. current = None /\ round = Immediate
    BY <2>1 DEF QueueInv, RoundDue, Looping
  <2>. QED
    BY <1>0, <1>7, <2>1, <2>3, <2>4 DEF Enqueue, QueueInv, QueueTypeOK, Arrived, RoundDue,
       Looping, looping
<1>8. CASE Bad
  <2>1. todo # <<>>
    BY <1>8 DEF Bad, Meets
  <2>2. todo' \in Seq(Elements) /\ stack' \in Seq(Frame) /\ Arrived'
    <3>1. CASE stack = <<>>
      BY <1>0, <1>8, <3>1 DEF Bad, QueueInv, Arrived
    <3>2. CASE stack # <<>>
      <4>1. PICK k \in 1 .. Len(todo) : todo' = SubSeq(todo, k + 1, Len(todo))
        BY <1>8, <3>2 DEF Bad
      <4>2. \A i \in k + 1 .. Len(todo) : todo[i] \in Elements
        BY <1>0
      <4>3. todo' \in Seq(Elements)
        BY <1>0, <4>1, <4>2, SubSeqProperties
      <4>. QED
        BY <1>8, <1>b, <2>1, <3>2, <4>3 DEF Bad
    <3>. QED
      BY <3>1, <3>2
  <2>. QED
    BY <1>8, <2>1, <2>2, WalkInv DEF Bad, looping
<1>9. CASE BadBundle
  <2>1. todo # <<>> /\ todo' \in Seq(Elements)
    BY <1>9, <1>a DEF BadBundle, Meets
  <2>2. stack' \in Seq(Frame) /\ Arrived'
    BY <1>0, <1>9 DEF BadBundle, QueueInv, Arrived
  <2>. QED
    BY <1>9, <2>1, <2>2, WalkInv DEF BadBundle, looping
<1>10. CASE StartRound
  <2>1. queue # <<>> /\ queue[1].ts - now <= Slack /\ todo = <<>>
    BY <1>10 DEF StartRound, Due, Idle
  <2>2. /\ Head(queue) = queue[1] /\ Head(queue) \in Waiting
        /\ (IF Len(queue) > 1 THEN queue[2].id ELSE 0) \in Nat
    BY <2>1, HeadWaits
  <2>3. /\ current' = Head(queue) /\ round' = Head(queue).ts /\ drain' = FALSE
        /\ tailhead' = IF Len(queue) > 1 THEN queue[2].id ELSE 0
        /\ UNCHANGED <<now, enqueue, packet, queue, handled, lastid, arrivals, nested>>
    BY <1>10 DEF StartRound, Take
  <2>4. round' \in Times /\ round' # Immediate
    BY <2>2, <2>3, QueueAssumption DEF Waiting, Times, Immediate
  <2>5. QueueTypeOK'
    BY <1>0, <2>2, <2>3, <2>4 DEF QueueTypeOK, Tags, packet
  <2>6. RoundDue'
    BY <2>1, <2>2, <2>3, <2>4, HeadWaits DEF RoundDue, Looping, packet, Times, Waiting
  <2>. QED
    BY <2>3, <2>5, <2>6 DEF QueueInv, Arrived, Numbered, packet
<1>11. CASE NextInRound
  <2>1. /\ Looping /\ current = None /\ queue # <<>>
        /\ drain \/ queue[1].ts <= round
    BY <1>11 DEF NextInRound, QueueInv, RoundDue
  <2>2. /\ Head(queue) = queue[1] /\ Head(queue) \in Waiting /\ Head(queue) # None
        /\ (IF Len(queue) > 1 THEN queue[2].id ELSE 0) \in Nat
    BY <2>1, HeadWaits
  <2>3. /\ current' = Head(queue)
        /\ tailhead' = IF Len(queue) > 1 THEN queue[2].id ELSE 0
        /\ UNCHANGED <<now, enqueue, packet, queue, handled, lastid, arrivals, nested,
                       round, drain>>
    BY <1>11 DEF NextInRound, Take
  <2>4. QueueTypeOK'
    BY <2>2, <2>3 DEF QueueInv, QueueTypeOK, packet
  <2>5. RoundDue'
    BY <2>1, <2>2, <2>3 DEF QueueInv, RoundDue, Looping, packet
  <2>. QED
    BY <2>3, <2>4, <2>5 DEF QueueInv, Arrived, Numbered, packet
<1>12. CASE Handled
  <2> DEFINE q == From(queue, tailhead)
  <2>1. q \in Seq(Waiting) /\ Ordered(q) /\ Ids(q) \subseteq Ids(queue)
    BY FromOrdered DEF QueueInv, QueueTypeOK
  <2>2. /\ current # None /\ queue' = q /\ current' = None /\ tailhead' = 0
        /\ IF Goes(q) THEN UNCHANGED <<round, drain>>
           ELSE round' = Immediate /\ drain' = FALSE
        /\ UNCHANGED <<now, todo, stack, lastid>>
    BY <1>12 DEF Handled, packet
  <2>3. Numbered'
    <3>1. \A n \in Ids(queue) : n <= lastid
      BY DEF QueueInv, Numbered, Ids
    <3>2. \A n \in Ids(queue') : n <= lastid'
      BY <2>1, <2>2, <3>1
    <3>. QED
      BY <3>2 DEF Ids, Numbered
  <2>4. QueueTypeOK'
    <3>1. round' \in Tags
      BY <2>2 DEF QueueInv, QueueTypeOK, Tags
    <3>. QED
      BY <2>1, <2>2, <3>1 DEF QueueInv, QueueTypeOK
  <2>5. RoundDue'
    BY <2>2 DEF QueueInv, RoundDue, Looping, Goes
  <2>. QED
    BY <2>1, <2>2, <2>3, <2>4, <2>5 DEF QueueInv, Arrived
<1>13. CASE EnableQueue
  BY <1>13 DEF EnableQueue, QueueInv, QueueTypeOK, Arrived, Numbered, RoundDue, Looping,
     packet, looping
<1>14. CASE DisableQueue
  <2>1. CASE UNCHANGED looping
    BY <1>14, <2>1 DEF DisableQueue, QueueInv, QueueTypeOK, Arrived, Numbered, RoundDue,
       Looping, packet, looping
  <2>2. CASE queue # <<>> /\ round' = Head(queue).ts /\ drain' = TRUE
             /\ current' = Head(queue)
             /\ tailhead' = IF Len(queue) > 1 THEN queue[2].id ELSE 0
    <3>1. /\ Head(queue) \in Waiting
          /\ (IF Len(queue) > 1 THEN queue[2].id ELSE 0) \in Nat
      BY <2>2, HeadWaits
    <3>2. UNCHANGED <<now, todo, stack, queue, lastid>> /\ todo = <<>>
      BY <1>14 DEF DisableQueue, packet, Idle
    <3>3. round' \in Times /\ round' # Immediate
      BY <2>2, <3>1, QueueAssumption DEF Waiting, Times, Immediate
    <3>4. QueueTypeOK'
      BY <1>0, <2>2, <3>1, <3>2, <3>3 DEF QueueTypeOK, Tags
    <3>5. RoundDue'
      BY <2>2, <3>2, <3>3, HeadWaits DEF RoundDue, Looping
    <3>. QED
      BY <3>2, <3>4, <3>5 DEF QueueInv, Arrived, Numbered
  <2>. QED
    BY <1>14, <2>1, <2>2 DEF DisableQueue
<1>15. ASSUME NEW ts \in Times, HandlerQueues(ts) PROVE QueueInv'
  <2>1. queue' \in Seq(Waiting) /\ Numbered' /\ Ordered(queue')
    BY <1>15, QueueMore DEF HandlerQueues
  <2>2. /\ current # None /\ lastid' \in Nat
        /\ UNCHANGED <<now, todo, stack, current, tailhead, round, drain>>
    BY <1>0, <1>15 DEF HandlerQueues, packet, looping
  <2>. QED
    BY <2>1, <2>2 DEF QueueInv, QueueTypeOK, Arrived, RoundDue, Looping
<1>. QED
  BY <1>1, <1>2, <1>3, <1>4, <1>5, <1>6, <1>7, <1>8, <1>9, <1>10, <1>11, <1>12, <1>13,
     <1>14, <1>15 DEF Next, Recv

(* What was handled is a sequence.                                         *)
HandledInv == handled \in Seq([id : Int, ts : Int, at : Int, shown : Int]) /\ tt_bundle \in Int

LEMMA HandledInitInv == Init => HandledInv
  BY DEF Init, HandledInv

LEMMA HandledNextInv == QueueInv /\ HandledInv /\ [Next]_vars => HandledInv'
<1>. SUFFICES ASSUME QueueInv, HandledInv, [Next]_vars PROVE HandledInv'
  OBVIOUS
<1> DEFINE Record == [id : Int, ts : Int, at : Int, shown : Int]
<1>0. now \in Int /\ lastid \in Int
  BY DEF QueueInv, QueueTypeOK, Times
<1>a. ASSUME NEW id \in Int, NEW ts \in Int, HandTo(id, ts)
      PROVE  handled' \in Seq(Record)
  <2>1. Shown(ts) \in Int
    BY <1>0, <1>a DEF Shown, HandledInv
  <2>2. [id |-> id, ts |-> ts, at |-> now, shown |-> Shown(ts)] \in Record
    BY <1>0, <1>a, <2>1
  <2>. QED
    BY <1>a, <2>2 DEF HandTo, HandledInv
<1>1. CASE Open
  <2>1. Head(todo).ts \in Int
    <3>1. Head(todo) \in Elements
      BY <1>1 DEF Open, Meets, QueueInv, QueueTypeOK
    <3>. QED
      BY <3>1, QueueAssumption DEF Elements, Tags, Times, Immediate
  <2>. QED
    BY <1>0, <1>1, <2>1 DEF Open, HandledInv
<1>2. CASE Dispatch
  <2>1. Tag \in Int
    <3>1. CASE stack = <<>>
      BY <3>1 DEF Tag, Immediate
    <3>2. CASE stack # <<>>
      <4>1. Len(stack) \in 1 .. Len(stack)
        BY <3>2 DEF QueueInv, QueueTypeOK
      <4>2. Top(stack) \in [ts : Tags, at : Times]
        BY <4>1, ElementOfSeq DEF Top, QueueInv, QueueTypeOK
      <4>. QED
        BY <3>2, <4>2 DEF Tag, Tags, Times, Immediate
    <3>. QED
      BY <3>1, <3>2
  <2>. QED
    BY <1>0, <1>2, <1>a, <2>1 DEF Dispatch, HandledInv, dump
<1>3. CASE Handled
  <2>1. current.id \in Int /\ current.ts \in Int
    BY <1>3 DEF Handled, QueueInv, QueueTypeOK, Waiting, Times
  <2>. QED
    BY <1>3, <1>a, <2>1 DEF Handled, HandledInv, packet, dump
<1>4. CASE UNCHANGED <<handled, tt_bundle>>
  BY <1>4 DEF HandledInv
<1>5. Open \/ Dispatch \/ Handled \/ UNCHANGED <<handled, tt_bundle>>
  BY DEF Next, Recv, vars, Tick, Arrive, Close, Enqueue, Bad, BadBundle, StartRound,
     NextInRound, Take, EnableQueue, DisableQueue, HandlerQueues, packet, dump
<1>. QED
  BY <1>1, <1>2, <1>3, <1>4, <1>5

-----------------------------------------------------------------------------
(* What oscdump prints.                                                    *)

(* While oscdump takes itself to be in a bundle and no end handler was     *)
(* left out, it is in the one on top, whose end is still to come.          *)
Closing ==
  /\ \A i \in 1 .. Len(todo) :
       todo[i].kind = "open" => \E j \in i + 1 .. Len(todo) : todo[j].kind = "close"
  /\ bundled /\ ~skipped =>
       /\ \E j \in 1 .. Len(todo) : todo[j].kind = "close"
       /\ stack # <<>>
       /\ tt_bundle = IF Top(stack).ts = Immediate THEN Top(stack).at ELSE Top(stack).ts

LEMMA ClosingInit == Init => Closing
  BY DEF Init, Closing

(* What is behind the head of a sequence.                                  *)
LEMMA TailPlaces ==
  ASSUME NEW S, NEW s \in Seq(S), s # <<>>
  PROVE  /\ Tail(s) \in Seq(S) /\ Len(Tail(s)) = Len(s) - 1 /\ Head(s) = s[1]
         /\ \A i \in 1 .. Len(s) - 1 : Tail(s)[i] = s[i + 1]
  OBVIOUS

(* A bundle that opens later still closes, and one that is open does,      *)
(* unless it is its end that was met.                                      *)
LEMMA TailCloses ==
  ASSUME Closing, todo \in Seq(Elements), todo # <<>>, todo' = Tail(todo)
  PROVE  /\ (\A i \in 1 .. Len(todo) :
               todo[i].kind = "open" => \E j \in i + 1 .. Len(todo) : todo[j].kind = "close")'
         /\ Head(todo).kind = "open" => \E j \in 1 .. Len(todo') : todo'[j].kind = "close"
         /\ bundled /\ ~skipped /\ Head(todo).kind # "close" =>
              \E j \in 1 .. Len(todo') : todo'[j].kind = "close"
<1>1. /\ Len(todo) \in Nat /\ Len(todo) >= 1 /\ Len(todo') = Len(todo) - 1
      /\ Head(todo) = todo[1]
      /\ \A i \in 1 .. Len(todo) - 1 : todo'[i] = todo[i + 1]
  BY TailPlaces
<1>2. ASSUME NEW j \in 2 .. Len(todo), todo[j].kind = "close"
      PROVE  j - 1 \in 1 .. Len(todo') /\ todo'[j - 1].kind = "close"
  BY <1>1, <1>2
<1>3. ASSUME NEW i \in 1 .. Len(todo'), todo'[i].kind = "open"
      PROVE  \E j \in i + 1 .. Len(todo') : todo'[j].kind = "close"
  <2>1. i + 1 \in 1 .. Len(todo) /\ todo[i + 1].kind = "open"
    BY <1>1, <1>3
  <2>2. PICK j \in (i + 1) + 1 .. Len(todo) : todo[j].kind = "close"
    BY <2>1 DEF Closing
  <2>3. j - 1 \in i + 1 .. Len(todo') /\ j \in 2 .. Len(todo)
    BY <1>1, <2>1
  <2>. QED
    BY <1>2, <2>2, <2>3
<1>4. ASSUME Head(todo).kind = "open"
      PROVE  \E j \in 1 .. Len(todo') : todo'[j].kind = "close"
  <2>1. 1 \in 1 .. Len(todo) /\ todo[1].kind = "open"
    BY <1>1, <1>4
  <2>2. PICK j \in 1 + 1 .. Len(todo) : todo[j].kind = "close"
    BY <2>1 DEF Closing
  <2>3. j \in 2 .. Len(todo)
    OBVIOUS
  <2>. QED
    BY <1>2, <2>2, <2>3
<1>5. ASSUME bundled, ~skipped, Head(todo).kind # "close"
      PROVE  \E j \in 1 .. Len(todo') : todo'[j].kind = "close"
  <2>1. PICK j \in 1 .. Len(todo) : todo[j].kind = "close"
    BY <1>5 DEF Closing
  <2>2. j \in 2 .. Len(todo)
    BY <1>1, <1>5, <2>1
  <2>. QED
    BY <1>2, <2>1, <2>2
<1>. QED
  BY <1>3, <1>4, <1>5

LEMMA ClosingNext == QueueInv /\ Closing /\ [Next]_vars => Closing'
<1>. SUFFICES ASSUME QueueInv, Closing, [Next]_vars PROVE Closing'
  OBVIOUS
<1>0. todo \in Seq(Elements) /\ stack \in Seq([ts : Tags, at : Times])
  BY DEF QueueInv, QueueTypeOK
<1>1. CASE Open
  <2>1. todo # <<>> /\ todo' = Tail(todo) /\ Head(todo).kind = "open"
    BY <1>1 DEF Open, Meets
  <2> DEFINE new == [ts |-> Head(todo).ts, at |-> now]
  <2>2. stack' # <<>> /\ Top(stack') = new
    <3>1. Len(stack) \in Nat /\ stack' = Append(stack, new)
      BY <1>0, <1>1 DEF Open
    <3>2. Len(stack') = Len(stack) + 1 /\ stack'[Len(stack) + 1] = new
      BY <1>0, <3>1
    <3>. QED
      BY <3>1, <3>2 DEF Top
  <2>3. tt_bundle' = IF Head(todo).ts = Immediate THEN now ELSE Head(todo).ts
    BY <1>1 DEF Open
  <2>. QED
    BY <1>0, <2>1, <2>2, <2>3, TailCloses DEF Closing
<1>2. CASE Close
  <2>1. todo # <<>> /\ todo' = Tail(todo) /\ bundled' = FALSE
    BY <1>2 DEF Close, Meets
  <2>. QED
    BY <1>0, <2>1, TailCloses DEF Closing
<1>3. CASE Dispatch \/ Enqueue \/ BadBundle
  <2>1. /\ todo # <<>> /\ todo' = Tail(todo) /\ Head(todo).kind # "close"
        /\ UNCHANGED <<stack, bundled, tt_bundle, skipped>>
    BY <1>3 DEF Dispatch, Enqueue, BadBundle, Meets, dump
  <2>. QED
    BY <1>0, <2>1, TailCloses DEF Closing
<1>4. CASE Bad
  <2>1. CASE stack = <<>>
    <3>1. todo' = <<>> /\ UNCHANGED <<stack, skipped, bundled, tt_bundle>>
      BY <1>4, <2>1 DEF Bad, dump
    <3>. QED
      BY <2>1, <3>1 DEF Closing
  <2>2. CASE stack # <<>>
    <3>1. /\ skipped' = TRUE
          /\ \E k \in 1 .. Len(todo) : todo' = SubSeq(todo, k + 1, Len(todo))
      BY <1>4, <2>2 DEF Bad
    <3>2. PICK k \in 1 .. Len(todo) : todo' = SubSeq(todo, k + 1, Len(todo))
      BY <3>1
    <3>3. /\ Len(todo) \in Nat /\ Len(todo') = Len(todo) - k
          /\ \A i \in 1 .. Len(todo) - k : todo'[i] = todo[i + k]
      BY <1>0, <3>2
    <3>4. ASSUME NEW i \in 1 .. Len(todo'), todo'[i].kind = "open"
          PROVE  \E j \in i + 1 .. Len(todo') : todo'[j].kind = "close"
      <4>1. i + k \in 1 .. Len(todo) /\ todo[i + k].kind = "open"
        BY <3>3, <3>4
      <4>2. PICK j \in (i + k) + 1 .. Len(todo) : todo[j].kind = "close"
        BY <4>1 DEF Closing
      <4>3. j - k \in i + 1 .. Len(todo') /\ j = (j - k) + k
        BY <3>3, <4>1
      <4>4. j - k \in 1 .. Len(todo) - k
        BY <3>3, <4>1
      <4>5. todo'[j - k] = todo[j]
        BY <3>3, <4>3, <4>4
      <4>. QED
        BY <4>2, <4>3, <4>5
    <3>. QED
      BY <3>1, <3>4 DEF Closing
  <2>. QED
    BY <2>1, <2>2
<1>5. ASSUME NEW p \in Packets, Arrive(p) PROVE Closing'
  <2>1. todo = <<>> /\ todo' = p /\ UNCHANGED <<bundled, skipped>>
    BY <1>5 DEF Arrive, Idle, dump
  <2>2. ~ (bundled /\ ~skipped)
    BY <2>1 DEF Closing
  <2>. QED
    BY <2>1, <2>2, QueueAssumption DEF Closing
<1>6. CASE UNCHANGED <<todo, stack, bundled, tt_bundle, skipped>>
  BY <1>6 DEF Closing
<1>7. \/ Open \/ Close \/ Dispatch \/ Enqueue \/ BadBundle \/ Bad
      \/ \E p \in Packets : Arrive(p)
      \/ UNCHANGED <<todo, stack, bundled, tt_bundle, skipped>>
  BY DEF Next, Recv, vars, Tick, StartRound, NextInRound, Handled, Take, EnableQueue,
     DisableQueue, HandlerQueues, packet, dump
<1>. QED
  BY <1>1, <1>2, <1>3, <1>4, <1>5, <1>6, <1>7

(* oscdump prints each message with the tag of its own bundle, or with a   *)
(* time that has come.                                                     *)
LEMMA HandedAsShown ==
  QueueInv /\ HandledInv /\ Closing /\ [Next]_vars =>
    [Len(handled') > Len(handled) /\ ~skipped =>
       LET e == handled'[Len(handled')]
       IN  IF e.ts = Immediate THEN e.shown \in 0 .. now ELSE e.shown = e.ts]_vars
<1>. SUFFICES ASSUME QueueInv, HandledInv, Closing, Next, ~skipped,
                     Len(handled') > Len(handled)
              PROVE  LET e == handled'[Len(handled')]
                     IN  IF e.ts = Immediate THEN e.shown \in 0 .. now ELSE e.shown = e.ts
  OBVIOUS
<1>1. now \in Nat /\ Len(handled) \in Nat
  BY QueueAssumption DEF QueueInv, QueueTypeOK, HandledInv, Times
<1>2. PICK id, ts : HandTo(id, ts) /\ ((Dispatch /\ ts = Tag) \/ (Handled /\ ts = current.ts))
  <2>1. handled' # handled
    BY <1>1
  <2>2. Dispatch \/ Handled
    BY <2>1 DEF Next, Recv, Tick, Arrive, Open, Close, Enqueue, Bad, BadBundle,
       StartRound, NextInRound, Take, EnableQueue, DisableQueue, HandlerQueues
  <2>. QED
    BY <2>2 DEF Dispatch, Handled
<1>3. handled'[Len(handled')].ts = ts /\ handled'[Len(handled')].shown = Shown(ts)
  BY <1>2, <1>1 DEF HandTo, HandledInv
<1>4. CASE ~bundled
  <2>1. Shown(ts) = IF ts = Immediate THEN now ELSE ts
    BY <1>4 DEF Shown
  <2>. QED
    BY <1>1, <1>3, <2>1
<1>5. CASE bundled
  <2>1. /\ \E j \in 1 .. Len(todo) : todo[j].kind = "close"
        /\ stack # <<>>
        /\ tt_bundle = IF Top(stack).ts = Immediate THEN Top(stack).at ELSE Top(stack).ts
    BY <1>5 DEF Closing
  <2>2. ~Handled
    <3>1. todo # <<>>
      BY <2>1
    <3>. QED
      BY <3>1 DEF Handled, QueueInv, RoundDue
  <2>3. ts = Top(stack).ts /\ Shown(ts) = tt_bundle
    BY <1>2, <1>5, <2>1, <2>2 DEF Tag, Shown
  <2>4. Top(stack).at \in Times /\ Top(stack).at <= now
    <3>1. Len(stack) \in 1 .. Len(stack)
      BY <2>1 DEF QueueInv, QueueTypeOK
    <3>2. Top(stack) \in [ts : Tags, at : Times]
      BY <3>1, ElementOfSeq DEF Top, QueueInv, QueueTypeOK
    <3>. QED
      BY <3>1, <3>2 DEF QueueInv, Arrived, Top
  <2>5. Top(stack).at \in 0 .. now
    BY <1>1, <2>4, QueueAssumption DEF Times
  <2>. QED
    BY <1>3, <2>1, <2>3, <2>5
<1>. QED
  BY <1>4, <1>5

-----------------------------------------------------------------------------
(* The theorems.                                                           *)

(* The queue is in the order of time, and of arrival where times are equal *)
(* (queue_data, server.c).                                                 *)
THEOREM QueueInOrder == Spec => []InOrder
<1>1. QueueInv => InOrder
  BY DEF QueueInv, Ordered, InOrder
<1>. QED
  BY QueueInitInv, QueueNextInv, <1>1, PTL DEF Spec

(* A handler gets a message when it is due, up to the slack of             *)
(* lo_server_recv, unless the program turns the queue off; and oscdump     *)
(* prints it with the tag of its own bundle, or with a time that has come  *)
(* where the tag is immediate, until an end handler was left out.          *)
THEOREM QueueHandover == Spec => Handover
<1> DEFINE OnTime ==
      enqueue /\ ~drain /\ Len(handled') > Len(handled)
        => handled'[Len(handled')].ts - now <= Slack
<1>1. QueueInv /\ HandledInv /\ [Next]_vars => [OnTime]_vars
  <2> SUFFICES ASSUME QueueInv, HandledInv, Next, enqueue, ~drain,
                      Len(handled') > Len(handled)
               PROVE  handled'[Len(handled')].ts - now <= Slack
    OBVIOUS
  <2>1. now \in Nat /\ Slack \in Nat /\ Len(handled) \in Nat
    BY QueueAssumption DEF QueueInv, QueueTypeOK, HandledInv, Times
  <2>2. PICK id, ts : HandTo(id, ts) /\ ((Dispatch /\ ts = Tag) \/ (Handled /\ ts = current.ts))
    <3>1. handled' # handled
      BY <2>1
    <3>2. Dispatch \/ Handled
      BY <3>1 DEF Next, Recv, Tick, Arrive, Open, Close, Enqueue, Bad, BadBundle,
         StartRound, NextInRound, Take, EnableQueue, DisableQueue, HandlerQueues
    <3>. QED
      BY <3>2 DEF Dispatch, Handled
  <2>3. handled'[Len(handled')].ts = ts
    BY <2>2, <2>1 DEF HandTo, HandledInv
  <2>4. CASE Dispatch /\ ts = Tag
    <3>1. CASE stack = <<>>
      BY <2>1, <2>3, <2>4, <3>1 DEF Tag, Immediate
    <3>2. CASE stack # <<>>
      <4>1. Len(stack) \in 1 .. Len(stack) /\ Top(stack) \in [ts : Tags, at : Times]
        <5>1. Len(stack) \in 1 .. Len(stack)
          BY <3>2 DEF QueueInv, QueueTypeOK
        <5>. QED
          BY <5>1, ElementOfSeq DEF Top, QueueInv, QueueTypeOK
      <4>2. Top(stack).at <= now
        BY <4>1 DEF QueueInv, Arrived, Top
      <4>3. Top(stack).ts <= Top(stack).at /\ ts = Top(stack).ts
        BY <2>4, <3>2 DEF Dispatch, AtOnce, Tag
      <4>4. Top(stack).at \in Int /\ ts \in Int
        BY <4>1, <4>3 DEF Times, Tags, Immediate
      <4>. QED
        BY <2>1, <2>3, <4>2, <4>3, <4>4
    <3>. QED
      BY <3>1, <3>2
  <2>5. CASE Handled /\ ts = current.ts
    <3>1. /\ current # None /\ round - now <= Slack /\ current.ts <= round
      BY <2>5 DEF Handled, QueueInv, RoundDue
    <3>2. current.ts \in Int /\ round \in Int
      BY <3>1, QueueAssumption DEF QueueInv, QueueTypeOK, Waiting, Times, Tags, Immediate
    <3>. QED
      BY <2>1, <2>3, <2>5, <3>1, <3>2
  <2>. QED
    BY <2>2, <2>4, <2>5
<1>2. Spec => NeverEarly
  BY <1>1, QueueInitInv, QueueNextInv, HandledInitInv, HandledNextInv, PTL DEF Spec, NeverEarly
<1>3. Spec => DumpShows
  BY HandedAsShown, QueueInitInv, QueueNextInv, HandledInitInv, HandledNextInv, ClosingInit,
     ClosingNext, PTL DEF Spec, DumpShows
<1>. QED
  BY <1>2, <1>3 DEF Handover

-----------------------------------------------------------------------------
(* Nothing is lost.                                                        *)

Distinct(q) ==
  \A i, j \in 1 .. Len(q) : i # j => q[i].id # q[j].id

LEMMA QueueDataDistinct ==
  ASSUME NEW q \in Seq(Waiting), Distinct(q), NEW e \in Waiting,
         \A i \in 1 .. Len(q) : q[i].id # e.id
  PROVE  Distinct(QueueData(q, e))
<1> DEFINE c == Cardinality(Before(q, e.ts))
           d == QueueData(q, e)
           Old(i) == IF i < c + 1 THEN i ELSE i - 1
<1>1. c \in 0 .. Len(q) /\ Len(q) \in Nat
  <2>1. e.ts \in Times /\ Len(q) \in Nat
    BY DEF Waiting
  <2>. QED
    BY <2>1, BeforeIsPrefix
<1>2. d = [i \in 1 .. Len(q) + 1 |->
             IF i < c + 1 THEN q[i] ELSE IF i = c + 1 THEN e ELSE q[i - 1]]
  BY DEF QueueData, Place
<1>3. Len(d) = Len(q) + 1
  BY <1>1, <1>2
<1>4. \A i \in 1 .. Len(q) + 1 :
        i # c + 1 => Old(i) \in 1 .. Len(q) /\ d[i] = q[Old(i)]
  BY <1>1, <1>2
<1>5. d[c + 1] = e
  BY <1>1, <1>2
<1>6. SUFFICES ASSUME NEW i \in 1 .. Len(q) + 1, NEW j \in 1 .. Len(q) + 1, i # j
               PROVE  d[i].id # d[j].id
  BY <1>3 DEF Distinct
<1>7. CASE i = c + 1
  BY <1>4, <1>5, <1>6, <1>7
<1>8. CASE j = c + 1
  BY <1>4, <1>5, <1>6, <1>8
<1>9. CASE i # c + 1 /\ j # c + 1
  <2>1. Old(i) # Old(j)
    BY <1>1, <1>6, <1>9
  <2>2. Old(i) \in 1 .. Len(q) /\ Old(j) \in 1 .. Len(q)
    BY <1>4, <1>9
  <2>3. d[i] = q[Old(i)] /\ d[j] = q[Old(j)]
    BY <1>4, <1>9
  <2> HIDE DEF Old, d
  <2>. QED
    BY <2>1, <2>2, <2>3 DEF Distinct
<1>. QED
  BY <1>7, <1>8, <1>9

(* Behind the event that was noted as second, everything but the first is  *)
(* left.                                                                   *)
LEMMA FromSecond ==
  ASSUME NEW q \in Seq(Waiting), Distinct(q), q # <<>>,
         NEW id, id = IF Len(q) > 1 THEN q[2].id ELSE 0
  PROVE  /\ Len(From(q, id)) = Len(q) - 1 /\ Distinct(From(q, id))
         /\ Ids(q) = Ids(From(q, id)) \cup {q[1].id}
<1>1. Len(q) \in Nat /\ Len(q) >= 1
  OBVIOUS
<1>2. \A i \in 1 .. Len(q) : q[i].id \in Nat \ {0}
  <2>1. \A i \in 1 .. Len(q) : q[i] \in Waiting
    BY ElementOfSeq
  <2>. QED
    BY <2>1 DEF Waiting
<1>3. CASE Len(q) = 1
  <2>1. From(q, 0) = <<>>
    BY <1>2 DEF From
  <2>2. Ids(q) = {q[1].id}
    BY <1>3 DEF Ids
  <2>3. Ids(<<>>) = {} /\ Distinct(<<>>) /\ Len(<<>>) = 0
    BY DEF Ids, Distinct
  <2>. QED
    BY <1>3, <2>1, <2>2, <2>3
<1>4. CASE Len(q) > 1
  <2> DEFINE S == { i \in 1 .. Len(q) : q[i].id = q[2].id }
             r == SubSeq(q, 2, Len(q))
  <2>1. S = {2}
    BY <1>1, <1>4 DEF Distinct
  <2>2. From(q, q[2].id) = r
    BY <2>1 DEF From
  <2>3. /\ Len(r) = Len(q) - 1
        /\ \A i \in 1 .. Len(q) - 1 : r[i] = q[i + 1]
    <3>1. \A i \in 2 .. Len(q) : q[i] \in Waiting
      BY <1>1, ElementOfSeq
    <3>2. Len(q) - 2 + 1 = Len(q) - 1 /\ 2 <= Len(q) /\ \A i \in 1 .. Len(q) - 1 : 2 + i - 1 = i + 1
      BY <1>1, <1>4
    <3>. QED
      BY <1>1, <3>1, <3>2, SubSeqProperties
  <2>4. \A i \in 1 .. Len(q) - 1 : i + 1 \in 1 .. Len(q)
    BY <1>1
  <2> HIDE DEF r
  <2>5. Distinct(r)
    <3>1. SUFFICES ASSUME NEW i \in 1 .. Len(q) - 1, NEW j \in 1 .. Len(q) - 1, i # j
                   PROVE  r[i].id # r[j].id
      BY <2>3 DEF Distinct
    <3>2. i + 1 # j + 1
      BY <1>1, <3>1
    <3>. QED
      BY <2>3, <2>4, <3>2 DEF Distinct
  <2>6. Ids(q) = Ids(r) \cup {q[1].id}
    <3>1. ASSUME NEW i \in 1 .. Len(q) PROVE q[i].id \in Ids(r) \cup {q[1].id}
      <4>1. CASE i = 1
        BY <4>1
      <4>2. CASE i > 1
        <5>1. i - 1 \in 1 .. Len(q) - 1 /\ (i - 1) + 1 = i
          BY <1>1, <4>2
        <5>2. r[i - 1] = q[i]
          BY <2>3, <5>1
        <5>. QED
          BY <2>3, <5>1, <5>2 DEF Ids
      <4>. QED
        BY <1>1, <4>1, <4>2
    <3>2. ASSUME NEW i \in 1 .. Len(q) - 1 PROVE r[i].id \in Ids(q)
      BY <2>3, <2>4 DEF Ids
    <3>3. q[1].id \in Ids(q)
      BY <1>1 DEF Ids
    <3>. QED
      BY <2>3, <3>1, <3>2, <3>3 DEF Ids
  <2>. QED
    BY <1>4, <2>2, <2>3, <2>5, <2>6
<1>5. Len(q) = 1 \/ Len(q) > 1
  <2>1. \A n \in Nat : n >= 1 => n = 1 \/ n > 1
    OBVIOUS
  <2>. QED
    BY <1>1, <2>1
<1>. QED
  BY <1>3, <1>4, <1>5

(* As long as no handler queued anything, the message being handled is the *)
(* first of the queue, and the one behind it was noted.                    *)
LossInv ==
  /\ nested \in Nat
  /\ nested = 0 =>
       /\ Ids(queue) \cup Ids(handled) = 1 .. lastid
       /\ Len(queue) + Len(handled) = lastid
       /\ Distinct(queue)
       /\ current # None =>
            /\ queue # <<>> /\ current = queue[1]
            /\ tailhead = IF Len(queue) > 1 THEN queue[2].id ELSE 0

LEMMA LossInitInv == Init => LossInv
<1> SUFFICES ASSUME Init PROVE LossInv
  OBVIOUS
<1>1. Ids(<<>>) = {} /\ Distinct(<<>>) /\ Len(<<>>) = 0
  BY DEF Ids, Distinct
<1>. QED
  BY <1>1 DEF Init, LossInv

LEMMA HandedIds ==
  ASSUME HandledInv, NEW id, NEW ts, HandTo(id, ts), HandledInv'
  PROVE  Ids(handled') = Ids(handled) \cup {id} /\ Len(handled') = Len(handled) + 1
<1>1. /\ Len(handled') = Len(handled) + 1 /\ Len(handled) \in Nat
      /\ \A i \in 1 .. Len(handled) : handled'[i] = handled[i]
      /\ handled'[Len(handled) + 1].id = id
  BY DEF HandTo, HandledInv
<1>2. ASSUME NEW i \in 1 .. Len(handled) + 1 PROVE handled'[i].id \in Ids(handled) \cup {id}
  BY <1>1 DEF Ids
<1>3. ASSUME NEW i \in 1 .. Len(handled) PROVE handled[i].id \in Ids(handled')
  <2>1. i \in 1 .. Len(handled')
    BY <1>1
  <2>. QED
    BY <1>1, <2>1 DEF Ids
<1>4. id \in Ids(handled')
  <2>1. Len(handled) + 1 \in 1 .. Len(handled')
    BY <1>1
  <2>. QED
    BY <1>1, <2>1 DEF Ids
<1>. QED
  BY <1>1, <1>2, <1>3, <1>4 DEF Ids

LEMMA LossNextInv ==
  QueueInv /\ HandledInv /\ HandledInv' /\ LossInv /\ [Next]_vars => LossInv'
<1>. SUFFICES ASSUME QueueInv, HandledInv, HandledInv', LossInv, [Next]_vars PROVE LossInv'
  OBVIOUS
<1>0. lastid \in Nat /\ queue \in Seq(Waiting) /\ Len(queue) \in Nat /\ Len(handled) \in Nat
  BY DEF QueueInv, QueueTypeOK, HandledInv
<1>1. CASE UNCHANGED <<queue, current, tailhead, handled, lastid, nested>>
  BY <1>1 DEF LossInv
<1>2. CASE Dispatch
  <2>1. /\ Ids(handled') = Ids(handled) \cup {lastid + 1} /\ Len(handled') = Len(handled) + 1
    BY <1>2, HandedIds DEF Dispatch
  <2>2. lastid' = lastid + 1 /\ UNCHANGED <<queue, current, tailhead, nested>>
    BY <1>2 DEF Dispatch, looping
  <2>3. 1 .. lastid' = (1 .. lastid) \cup {lastid + 1}
    BY <1>0, <2>2
  <2>. QED
    BY <1>0, <2>1, <2>2, <2>3 DEF LossInv
<1>3. CASE Enqueue
  <2> DEFINE e == [id |-> lastid + 1, ts |-> Tag]
  <2>1. /\ queue' = QueueData(queue, e) /\ lastid' = lastid + 1
        /\ UNCHANGED <<current, tailhead, round, handled, nested>> /\ todo # <<>>
    BY <1>3 DEF Enqueue, Meets, looping
  <2>2. current = None
    BY <2>1 DEF QueueInv, RoundDue
  <2>3. e \in Waiting
    BY <1>0, <1>3, TagWaits DEF Waiting
  <2>4. \A i \in 1 .. Len(queue) : queue[i].id < e.id /\ queue[i].id # e.id
    <3>1. \A i \in 1 .. Len(queue) : queue[i] \in Waiting /\ queue[i].id <= lastid
      BY <1>0, ElementOfSeq DEF QueueInv, Numbered
    <3>. QED
      BY <1>0, <3>1 DEF Waiting
  <2>5. /\ Len(queue') = Len(queue) + 1 /\ Ids(queue') = Ids(queue) \cup {lastid + 1}
    BY <1>0, <2>1, <2>3, <2>4, QueueDataOrdered DEF QueueInv
  <2>6. Distinct(queue) => Distinct(queue')
    BY <1>0, <2>1, <2>3, <2>4, QueueDataDistinct
  <2>7. 1 .. lastid' = (1 .. lastid) \cup {lastid + 1}
    BY <1>0, <2>1
  <2>. QED
    BY <1>0, <2>1, <2>2, <2>5, <2>6, <2>7 DEF LossInv
<1>4. CASE StartRound \/ NextInRound \/ DisableQueue
  <2>1. UNCHANGED <<queue, handled, lastid, nested>>
    BY <1>4 DEF StartRound, NextInRound, DisableQueue, Take
  <2>2. CASE UNCHANGED <<current, tailhead>>
    BY <2>1, <2>2 DEF LossInv
  <2>3. CASE /\ queue # <<>> /\ current' = Head(queue)
             /\ tailhead' = IF Len(queue) > 1 THEN queue[2].id ELSE 0
    BY <2>1, <2>3, HeadWaits DEF LossInv
  <2>4. StartRound \/ NextInRound => queue # <<>>
    BY DEF StartRound, Due, NextInRound, QueueInv, RoundDue
  <2>. QED
    BY <1>4, <2>2, <2>3, <2>4 DEF StartRound, NextInRound, DisableQueue, Take, looping
<1>5. CASE Handled
  <2> DEFINE q == From(queue, tailhead)
  <2>1. /\ current # None /\ queue' = q /\ current' = None /\ UNCHANGED <<lastid, nested>>
        /\ HandTo(current.id, current.ts)
    BY <1>5 DEF Handled
  <2>2. Ids(handled') = Ids(handled) \cup {current.id} /\ Len(handled') = Len(handled) + 1
    BY <2>1, HandedIds
  <2>3. ASSUME nested = 0
        PROVE  /\ Len(queue') = Len(queue) - 1 /\ Distinct(queue')
               /\ Ids(queue) = Ids(queue') \cup {current.id}
    BY <1>0, <2>1, <2>3, FromSecond DEF LossInv
  <2>4. ASSUME nested = 0
        PROVE  /\ Ids(queue') \cup Ids(handled') = 1 .. lastid
               /\ Len(queue') + Len(handled') = lastid
    BY <1>0, <2>2, <2>3, <2>4 DEF LossInv
  <2>. QED
    BY <2>1, <2>3, <2>4 DEF LossInv
<1>6. ASSUME NEW ts \in Times, HandlerQueues(ts) PROVE LossInv'
  BY <1>6 DEF HandlerQueues, LossInv
<1>7. \/ UNCHANGED <<queue, current, tailhead, handled, lastid, nested>>
      \/ Dispatch \/ Enqueue \/ StartRound \/ NextInRound \/ DisableQueue \/ Handled
      \/ \E ts \in Times : HandlerQueues(ts)
  BY DEF Next, Recv, vars, Tick, Arrive, Open, Close, Bad, BadBundle, EnableQueue, packet,
     looping
<1>. QED
  BY <1>1, <1>2, <1>3, <1>4, <1>5, <1>6, <1>7

(* Every message is waiting or was handed to the program, exactly once,    *)
(* unless a handler queued something while the queue was dispatched.       *)
THEOREM QueueNothingLost == Spec => []NothingLost
<1>1. LossInv => NothingLost
  BY DEF LossInv, NothingLost
<1>. QED
  BY QueueInitInv, QueueNextInv, HandledInitInv, HandledNextInv, LossInitInv, LossNextInv,
     <1>1, PTL DEF Spec

-----------------------------------------------------------------------------
(* LoServerThread.                                                         *)

(* While the program waits, st is not active and not freed, and there is a *)
(* thread that it waits for, or none and it never gets back; st is freed   *)
(* only when it is stopped.                                                *)
WaitsForThread ==
  /\ caller # "out" => ~active /\ ~freed
  /\ caller \in {"stopping", "freeing"} => thread \in Threads

FreedIsStopped == freed => ~active

ThreadInv == ThreadTypeOK /\ OneThread /\ WaitsForThread /\ FreedIsStopped

(* The step of a thread, of which only the last makes it not alive.        *)
LEMMA ThreadStep ==
  ASSUME ThreadInv, NEW t \in Threads, ThreadFunc(t)
  PROVE  /\ UNCHANGED <<active, thread, created, caller, freed, orphans>>
         /\ ThreadTypeOK'
         /\ \A u \in Threads : Alive(u)' => Alive(u)
<1>1. UNCHANGED <<active, thread, created, caller, freed, orphans>>
  BY DEF ThreadFunc, InitFails, InitDone, Enter, Leave, Serve, Cleanup
<1>2. done' \in BOOLEAN
  BY DEF ThreadInv, ThreadTypeOK, ThreadFunc, InitFails, InitDone, Enter, Leave,
         Serve, Cleanup
<1>3. PICK from \in {"init", "loop", "recv", "cleanup"},
           to \in {"loop", "recv", "cleanup", "ended"} : Moves(t, from, to)
  BY DEF ThreadFunc, InitFails, InitDone, Enter, Leave, Serve, Cleanup
<1>4. pc' \in [Threads -> {"none", "init", "loop", "recv", "cleanup", "ended"}]
  BY <1>3 DEF ThreadInv, ThreadTypeOK, Moves
<1>5. \A u \in Threads : Alive(u)' => Alive(u)
  BY <1>3 DEF ThreadInv, ThreadTypeOK, Moves, Alive
<1>. QED
  BY <1>1, <1>2, <1>4, <1>5 DEF ThreadInv, ThreadTypeOK

LEMMA ThreadInitInv == ThreadInit => ThreadInv
<1>. SUFFICES ASSUME ThreadInit PROVE ThreadInv
  OBVIOUS
<1>1. ThreadTypeOK
  <2>1. created \in 0 .. MaxThreads
    BY ThreadAssumption DEF ThreadInit
  <2>2. pc \in [Threads -> {"none", "init", "loop", "recv", "cleanup", "ended"}]
    BY DEF ThreadInit
  <2>. QED
    BY <2>1, <2>2 DEF ThreadInit, ThreadTypeOK
<1>2. \A t \in Threads : ~Alive(t)
  BY DEF ThreadInit, Alive
<1>. QED
  BY <1>1, <1>2 DEF ThreadInv, OneThread, StoppedIsQuiet, OneServes, WaitsForThread,
                    FreedIsStopped, ThreadInit

(* Every step of the program or of a thread keeps the invariant.           *)
LEMMA ThreadNextInv == ThreadInv /\ [ThreadNext]_threadVars => ThreadInv'
<1>. SUFFICES ASSUME ThreadInv, [ThreadNext]_threadVars PROVE ThreadInv'
  OBVIOUS
<1>. USE ThreadAssumption DEF Threads, NoThread
<1>. USE DEF ThreadInv, ThreadTypeOK, OneThread, StoppedIsQuiet, OneServes,
             WaitsForThread, FreedIsStopped, Alive
<1>1. CASE UNCHANGED threadVars
  BY <1>1 DEF threadVars
<1>2. CASE StartFails
  BY <1>2 DEF StartFails
<1>3. CASE Start
  <2>1. ThreadTypeOK'
    <3>1. created + 1 \in Threads
      BY <1>3 DEF Start
    <3>2. /\ active' = TRUE /\ done' = FALSE /\ created' = created + 1
          /\ thread' = created + 1 /\ UNCHANGED <<caller, freed, orphans>>
      BY <1>3 DEF Start
    <3>3. pc' \in [Threads -> {"none", "init", "loop", "recv", "cleanup", "ended"}]
      BY <1>3 DEF Start
    <3>4. created' \in 0 .. MaxThreads
      BY <1>3, <3>1, <3>2
    <3>. QED
      BY <3>1, <3>2, <3>3, <3>4
  <2>2. \A t \in Threads : Alive(t)' => t \in orphans \/ t = created + 1
    BY <1>3 DEF Start
  <2>. QED
    BY <1>3, <2>1, <2>2 DEF Start
<1>4. CASE Stop
  <2>1. active' = FALSE /\ UNCHANGED <<done, thread, created, pc, freed, orphans>>
    BY <1>4 DEF Stop, Waits
  <2>2. ThreadTypeOK'
    <3>1. caller' \in {"out", "stopping", "undefined"}
      BY <1>4 DEF Stop, Waits
    <3>. QED
      BY <2>1, <3>1
  <2>3. OneServes' /\ freed = FALSE
    BY <1>4, <2>1 DEF Stop
  <2>4. thread = NoThread \/ caller' # "out"
    BY <1>4 DEF Stop, Waits
  <2>5. thread \in Threads \/ caller' \in {"out", "undefined"}
    BY <1>4 DEF Stop, Waits
  <2>. QED
    BY <2>1, <2>2, <2>3, <2>4, <2>5
<1>5. CASE Joined
  BY <1>5 DEF Joined
<1>6. CASE Free
  <2>1. CASE ~active
    BY <1>6, <2>1 DEF Free
  <2>2. CASE active /\ thread = NoThread
    <3>1. /\ active' = FALSE /\ caller' \in {"out", "undefined"}
          /\ freed' = (caller' = "out")
          /\ UNCHANGED <<done, thread, created, pc, orphans>>
      BY <1>6, <2>2 DEF Free, Waits
    <3>2. \A t \in Threads : Alive(t) => t \in orphans
      BY <2>2
    <3>. QED
      BY <3>1, <3>2
  <2>3. CASE active /\ thread \in Threads
    <3>1. /\ active' = FALSE /\ freed' = FALSE /\ caller' = "freeing" /\ ~freed
          /\ UNCHANGED <<done, thread, created, pc, orphans>>
      BY <1>6, <2>3 DEF Free, Waits
    <3>. QED
      BY <2>3, <3>1
  <2>. QED
    BY <2>1, <2>2, <2>3
<1>7. CASE FreeJoined
  BY <1>7 DEF FreeJoined
<1>8. ASSUME NEW t \in Threads, ThreadFunc(t) PROVE ThreadInv'
  BY <1>8, ThreadStep
<1>9. ASSUME NEW t \in Threads, SelfStop(t) PROVE ThreadInv'
  BY <1>9 DEF SelfStop
<1>. QED
  BY <1>1, <1>2, <1>3, <1>4, <1>5, <1>6, <1>7, <1>8, <1>9 DEF ThreadNext

(* The thread's variables keep their types (server_thread.c).              *)
THEOREM ThreadTypeCorrect == ThreadSpec => []ThreadTypeOK
<1>1. ThreadInv => ThreadTypeOK
  BY DEF ThreadInv
<1>. QED
  BY ThreadInitInv, ThreadNextInv, <1>1, PTL DEF ThreadSpec

(* When stop or free has returned, no thread uses the server any more, and *)
(* while it runs only the one that st names does, unless a handler stopped *)
(* the thread that it ran on (server_thread.c:99, 59).                     *)
THEOREM ThreadOneThread == ThreadSpec => []OneThread
<1>1. ThreadInv => OneThread
  BY DEF ThreadInv
<1>. QED
  BY ThreadInitInv, ThreadNextInv, <1>1, PTL DEF ThreadSpec

-----------------------------------------------------------------------------
(* LoServerNew.                                                            *)

ServersTypeOK ==
  /\ state \in [Names -> {"none", "trying", "binding", "live"}]
  /\ proto \in [Names -> Servers!Protocols] /\ tries \in [Names -> Nat]
  /\ socket \in [Names -> Fds \union {Servers!NoFd}]
  /\ open \subseteq Fds /\ IsFiniteSet(open)
  /\ client \in [{"udp", "tcp"} -> Fds \union {Servers!NoFd}]
  /\ retried \in Nat /\ news \in Nat

Holders == {s \in Names : state[s] \in {"binding", "live"}}

(* A server has a socket of its own exactly while it binds or is bound.    *)
SocketsOwned ==
  /\ \A s \in Holders : socket[s] \in open
  /\ \A s \in Names \ Holders : socket[s] = Servers!NoFd
  /\ \A s, t \in Holders : socket[s] = socket[t] => s = t

SocketsCounted == Cardinality(open) = Cardinality(Holders) + retried

ServersInv ==
  ServersTypeOK /\ SocketsOwned /\ Servers!ClientSocketLive /\ SocketsCounted

LEMMA HoldersFinite ==
  ASSUME ServersTypeOK
  PROVE  IsFiniteSet(Holders) /\ Cardinality(Holders) \in Nat /\ Cardinality(open) \in Nat
<1>1. Holders \in SUBSET Names
  BY DEF Holders
<1>2. IsFiniteSet(Holders)
  BY <1>1, ServersAssumption, FS_Subset
<1>. QED
  BY <1>2, FS_CardinalityType DEF ServersTypeOK

LEMMA ServersInitInv == Servers!Init => ServersInv
<1>. SUFFICES ASSUME Servers!Init PROVE ServersInv
  OBVIOUS
<1>1. Holders = {}
  BY DEF Servers!Init, Holders
<1>2. IsFiniteSet({}) /\ Cardinality({}) = 0
  BY FS_EmptySet
<1>3. ServersTypeOK
  BY <1>2 DEF Servers!Init, ServersTypeOK, Servers!Protocols
<1>4. SocketsOwned
  BY <1>1 DEF Servers!Init, SocketsOwned
<1>5. Servers!ClientSocketLive
  BY DEF Servers!Init, Servers!ClientSocketLive
<1>6. SocketsCounted
  BY <1>1, <1>2 DEF Servers!Init, SocketsCounted
<1>. QED
  BY <1>3, <1>4, <1>5, <1>6 DEF ServersInv

(* Free, of a server with a socket or without.                             *)
LEMMA ServersFreeInv ==
  ASSUME ServersInv, NEW s \in Names, Servers!Free(s), UNCHANGED retried
  PROVE  ServersInv'
<1>. USE ServersAssumption DEF ServersInv
<1>1. /\ state' = [state EXCEPT ![s] = "none"]
      /\ socket' = [socket EXCEPT ![s] = Servers!NoFd]
      /\ client' = Servers!Forget(s) /\ open' = open \ {socket[s]}
      /\ UNCHANGED <<proto, tries, news>>
  BY DEF Servers!Free
<1>2. Holders' = Holders \ {s}
  BY <1>1 DEF ServersTypeOK, Holders
<1>3. ServersTypeOK'
  <2>1. IsFiniteSet(open')
    BY <1>1, FS_RemoveElement DEF ServersTypeOK
  <2>2. client' \in [{"udp", "tcp"} -> Fds \union {Servers!NoFd}]
    BY <1>1 DEF ServersTypeOK, Servers!Forget
  <2>. QED
    BY <1>1, <2>1, <2>2 DEF ServersTypeOK
<1>4. SocketsOwned'
  BY <1>1, <1>2 DEF ServersTypeOK, SocketsOwned, Holders
<1>5. Servers!ClientSocketLive'
  <2>. SUFFICES ASSUME NEW p \in {"udp", "tcp"}, client'[p] # Servers!NoFd
                PROVE  \E t \in Names : state'[t] = "live" /\ proto'[t] = p
                                           /\ socket'[t] = client'[p]
    BY DEF Servers!ClientSocketLive
  <2>1. client'[p] = client[p] /\ ~(proto[s] = p /\ client[p] = socket[s])
    BY <1>1 DEF Servers!Forget
  <2>2. PICK t \in Names : state[t] = "live" /\ proto[t] = p /\ socket[t] = client[p]
    BY <2>1 DEF Servers!ClientSocketLive
  <2>3. t # s
    BY <2>1, <2>2
  <2>. QED
    BY <1>1, <2>1, <2>2, <2>3 DEF ServersTypeOK
<1>6. SocketsCounted'
  <2>1. CASE s \in Holders
    <3>1. Cardinality(open') = Cardinality(open) - 1
      BY <1>1, <2>1, FS_RemoveElement DEF ServersTypeOK, SocketsOwned
    <3>2. Cardinality(Holders') = Cardinality(Holders) - 1
      BY <1>2, <2>1, HoldersFinite, FS_RemoveElement
    <3>. QED
      BY <3>1, <3>2, HoldersFinite DEF ServersTypeOK, SocketsCounted
  <2>2. CASE s \notin Holders
    <3>1. socket[s] = Servers!NoFd
      BY <2>2 DEF SocketsOwned
    <3>2. open' = open /\ Holders' = Holders
      BY <1>1, <1>2, <2>2, <3>1 DEF ServersTypeOK
    <3>. QED
      BY <3>2 DEF SocketsCounted
  <2>. QED
    BY <2>1, <2>2
<1>. QED
  BY <1>3, <1>4, <1>5, <1>6

LEMMA ServersNextInv == ServersInv /\ [Servers!Next]_(Servers!vars) => ServersInv'
<1>. SUFFICES ASSUME ServersInv, [Servers!Next]_(Servers!vars) PROVE ServersInv'
  OBVIOUS
<1>. USE ServersAssumption DEF ServersInv
<1>1. ASSUME NEW s \in Names, NEW p \in Servers!Protocols, Servers!New(s, p)
      PROVE  ServersInv'
  <2>1. Holders' = Holders
    BY <1>1 DEF Servers!New, ServersTypeOK, Holders
  <2>2. ServersTypeOK'
    BY <1>1 DEF Servers!New, ServersTypeOK
  <2>3. SocketsOwned' /\ SocketsCounted'
    BY <1>1, <2>1 DEF Servers!New, SocketsOwned, SocketsCounted
  <2>4. Servers!ClientSocketLive'
    BY <1>1 DEF Servers!New, Servers!ClientSocketLive, ServersTypeOK
  <2>. QED
    BY <2>2, <2>3, <2>4
<1>2. ASSUME NEW s \in Names, Servers!OpenSocket(s) PROVE ServersInv'
  <2>1. PICK f \in Fds \ open : open' = open \union {f} /\ socket' = [socket EXCEPT ![s] = f]
    BY <1>2 DEF Servers!OpenSocket
  <2>2. s \notin Holders /\ Holders' = Holders \union {s}
    BY <1>2 DEF Servers!OpenSocket, ServersTypeOK, Holders
  <2>3. ServersTypeOK'
    <3>1. IsFiniteSet(open')
      BY <2>1, FS_AddElement DEF ServersTypeOK
    <3>. QED
      BY <1>2, <2>1, <3>1 DEF Servers!OpenSocket, ServersTypeOK
  <2>4. SocketsOwned'
    BY <2>1, <2>2 DEF ServersTypeOK, SocketsOwned, Holders
  <2>5. Servers!ClientSocketLive'
    BY <1>2, <2>1 DEF Servers!OpenSocket, Servers!ClientSocketLive, ServersTypeOK
  <2>6. SocketsCounted'
    <3>1. Cardinality(open') = Cardinality(open) + 1
      BY <2>1, FS_AddElement DEF ServersTypeOK
    <3>2. Cardinality(Holders') = Cardinality(Holders) + 1
      BY <2>2, HoldersFinite, FS_AddElement
    <3>. QED
      BY <1>2, <3>1, <3>2, HoldersFinite DEF Servers!OpenSocket, ServersTypeOK, SocketsCounted
  <2>. QED
    BY <2>3, <2>4, <2>5, <2>6
<1>3. ASSUME NEW s \in Names, Servers!NoSocket(s) \/ Servers!Refused(s) \/ Servers!FreeServer(s)
      PROVE  ServersInv'
  BY <1>3, ServersFreeInv DEF Servers!NoSocket, Servers!Refused, Servers!FreeServer
<1>4. ASSUME NEW s \in Names, Servers!PortTaken(s) PROVE ServersInv'
  <2>1. CASE ~(tries[s] < MaxTries)
    BY <1>4, <2>1, ServersFreeInv DEF Servers!PortTaken
  <2>2. CASE tries[s] < MaxTries
    <3>1. s \in Holders /\ Holders' = Holders \ {s}
      BY <1>4, <2>2 DEF Servers!PortTaken, ServersTypeOK, Holders
    <3>2. ServersTypeOK'
      BY <1>4, <2>2 DEF Servers!PortTaken, ServersTypeOK
    <3>3. SocketsOwned'
      BY <1>4, <2>2, <3>1 DEF Servers!PortTaken, ServersTypeOK, SocketsOwned, Holders
    <3>4. Servers!ClientSocketLive'
      BY <1>4, <2>2 DEF Servers!PortTaken, Servers!ClientSocketLive, ServersTypeOK
    <3>5. SocketsCounted'
      <4>1. Cardinality(Holders') = Cardinality(Holders) - 1
        BY <3>1, HoldersFinite, FS_RemoveElement
      <4>. QED
        BY <1>4, <2>2, <4>1, HoldersFinite DEF Servers!PortTaken, ServersTypeOK, SocketsCounted
    <3>. QED
      BY <3>2, <3>3, <3>4, <3>5
  <2>. QED
    BY <2>1, <2>2
<1>5. ASSUME NEW s \in Names, Servers!Bound(s) PROVE ServersInv'
  <2>1. Holders' = Holders
    BY <1>5 DEF Servers!Bound, ServersTypeOK, Holders
  <2>2. socket[s] \in open /\ open \subseteq Fds
    BY <1>5 DEF Servers!Bound, SocketsOwned, Holders, ServersTypeOK
  <2>3. ServersTypeOK'
    BY <1>5, <2>2 DEF Servers!Bound, ServersTypeOK, Servers!Protocols
  <2>4. SocketsOwned' /\ SocketsCounted'
    BY <1>5, <2>1 DEF Servers!Bound, SocketsOwned, SocketsCounted
  <2>5. Servers!ClientSocketLive'
    BY <1>5 DEF Servers!Bound, Servers!ClientSocketLive, ServersTypeOK, Servers!Protocols
  <2>. QED
    BY <2>3, <2>4, <2>5
<1>6. CASE UNCHANGED Servers!vars
  BY <1>6 DEF Servers!vars, ServersTypeOK, SocketsOwned, Servers!ClientSocketLive, SocketsCounted,
              Holders
<1>. QED
  BY <1>1, <1>2, <1>3, <1>4, <1>5, <1>6 DEF Servers!Next

(* Whatever servers fail or are freed, an address never sends from a       *)
(* socket that was closed, and no descriptor is lost but by the retry of a *)
(* port (lo_server_new_with_proto_internal and lo_server_free, server.c).  *)
THEOREM ServersAccountForSockets == Servers!Spec => []SocketsAccounted
<1>1. ServersInv => SocketsAccounted
  <2>1. \A S : Servers!Cardinality(S) = Cardinality(S)
    BY DEF Servers!Cardinality, Cardinality
  <2>. QED
    BY <2>1 DEF ServersInv, SocketsAccounted, Servers!Accounted, SocketsCounted, Holders
<1>. QED
  BY ServersInitInv, ServersNextInv, <1>1, PTL DEF Servers!Spec

-----------------------------------------------------------------------------
(* LoClient.                                                               *)

Written == {Address!Length, Address!Part} \union (Nat \ {0})

AddressTypeOK ==
  /\ fd \in [Descriptors -> {Address!Free, Address!Other} \union Address!Conns]
  /\ sock \in Descriptors \union {Address!NoSock} /\ own \in BOOLEAN
  /\ listed \subseteq Descriptors /\ sources = listed
  /\ stream \in [Address!Conns -> Seq(Written)]
  /\ shared \subseteq Address!Conns /\ inherited \subseteq Address!Conns
  /\ conns \in 0 .. MaxConns /\ calls \in Nat
  /\ sending \in {"idle", "open", "length", "data", "fail"}
  /\ succeeded \subseteq 1 .. calls
  /\ sending # "idle" => calls > 0

HasSocket == sock # Address!NoSock

(* The address's descriptor is the latest connection, or no longer one.    *)
LatestConnection ==
  /\ sending \in {"length", "data", "fail"} => HasSocket
  /\ HasSocket => conns # 0 /\ fd[sock] \in {Address!Free, Address!Other, conns}

(* Nobody but the address closes a descriptor that it owns and the server  *)
(* does not know.                                                          *)
OwnedInv ==
  own /\ HasSocket /\ conns \notin inherited => fd[sock] = conns /\ sock \notin listed

UnsharedInv ==
  shared = {} => listed = {} /\ (HasSocket => fd[sock] = conns)

(* What the peer reads.  A length is followed by data before anything else *)
(* is written, and an open connection is in the middle of a frame only     *)
(* while send_data is.                                                     *)
Framed(s) == \A i \in 1 .. Len(s) : (i % 2 = 1) <=> (s[i] = Address!Length)

FramedInv ==
  /\ \A c \in Address!Conns : c > conns => stream[c] = <<>>
  /\ \A c \in Address!Conns \ shared : Framed(stream[c])
  /\ HasSocket /\ fd[sock] = conns /\ conns \notin shared /\ sending # "fail" =>
       Len(stream[conns]) % 2 = IF sending = "data" THEN 1 ELSE 0

(* Every call writes its data once, at the end.                            *)
OnceInv ==
  /\ \A c \in Address!Conns : \A i \in 1 .. Len(stream[c]) :
       /\ stream[c][i] <= calls
       /\ sending # "idle" => stream[c][i] # calls
  /\ \A c, d \in Address!Conns : \A i \in 1 .. Len(stream[c]), k \in 1 .. Len(stream[d]) :
       stream[c][i] = stream[d][k] /\ stream[c][i] > 0 => c = d /\ i = k

AddressInv ==
  /\ AddressTypeOK /\ LatestConnection /\ OwnedInv /\ UnsharedInv /\ FramedInv
  /\ OnceInv /\ Address!SuccessIsWritten

LEMMA AddressInitInv == Address!Init => AddressInv
<1>. SUFFICES ASSUME Address!Init PROVE AddressInv
  OBVIOUS
<1>1. AddressTypeOK /\ LatestConnection /\ OwnedInv /\ UnsharedInv
  BY AddressAssumption DEF Address!Init, AddressTypeOK, LatestConnection, OwnedInv,
       UnsharedInv, HasSocket, Address!Conns, Address!NoSock, Address!Free
<1>2. \A c \in Address!Conns : stream[c] = <<>> /\ Len(stream[c]) = 0
  BY DEF Address!Init
<1>3. FramedInv /\ OnceInv
  BY <1>2 DEF Address!Init, FramedInv, Framed, OnceInv, HasSocket
<1>4. Address!SuccessIsWritten
  BY DEF Address!Init, Address!SuccessIsWritten
<1>. QED
  BY <1>1, <1>3, <1>4 DEF AddressInv

(* The lowest descriptor that is free is one.                              *)
LEMMA LowestIsFree ==
  ASSUME Address!Unused # {}
  PROVE  Address!Lowest \in Descriptors /\ fd[Address!Lowest] = Address!Free
<1>1. Address!Unused \in SUBSET Descriptors
  BY DEF Address!Unused
<1>2. \E f \in Address!Unused : \A g \in Address!Unused : f <= g
  BY <1>1, AddressAssumption, NatLeast
<1>3. Address!Lowest \in Address!Unused
  BY <1>2 DEF Address!Lowest
<1>. QED
  BY <1>3 DEF Address!Unused

(* A step that writes nothing and does not touch the descriptors.          *)
LEMMA AddressCallInv ==
  ASSUME AddressInv,
         UNCHANGED <<fd, sock, own, listed, sources, stream, shared, inherited, conns, succeeded>>,
         \/ /\ sending = "idle" /\ sending' = "open" /\ calls' = calls + 1
         \/ /\ sending = "open" /\ sending' \in {"idle", "open"} /\ calls' = calls
         \/ /\ sending = "open" /\ sending' = "length" /\ HasSocket /\ calls' = calls
         \/ /\ sending \in {"length", "data"} /\ sending' = "fail" /\ calls' = calls
         \/ /\ sending' = sending /\ calls' = calls
  PROVE  AddressInv'
<1>. USE DEF AddressInv
<1>1. AddressTypeOK'
  BY DEF AddressTypeOK
<1>2. LatestConnection' /\ OwnedInv' /\ UnsharedInv'
  BY DEF LatestConnection, OwnedInv, UnsharedInv, HasSocket
<1>3. FramedInv'
  BY DEF FramedInv, HasSocket
<1>4. OnceInv'
  <2>1. \A c \in Address!Conns : \A i \in 1 .. Len(stream[c]) : stream[c][i] \in Int
    BY DEF AddressTypeOK, Written, Address!Length, Address!Part
  <2>. QED
    BY <2>1 DEF OnceInv, AddressTypeOK
<1>5. Address!SuccessIsWritten'
  BY DEF Address!SuccessIsWritten, Address!Carries
<1>. QED
  BY <1>1, <1>2, <1>3, <1>4, <1>5

(* Another descriptor than the address's changes, or the address's is no   *)
(* longer a connection.                                                    *)
LEMMA AddressOthersInv ==
  ASSUME AddressInv,
         UNCHANGED <<sock, own, stream, shared, inherited, conns, succeeded, sending, calls>>,
         listed' \subseteq listed, sources' = listed',
         NEW f \in Descriptors, NEW x \in {Address!Free, Address!Other},
         fd' = [fd EXCEPT ![f] = x],
         HasSocket /\ f = sock => f \in listed \/ fd[f] # conns
  PROVE  AddressInv'
<1>. USE DEF AddressInv
<1>1. AddressTypeOK'
  BY DEF AddressTypeOK
<1>2. LatestConnection' /\ OwnedInv' /\ UnsharedInv'
  BY DEF LatestConnection, OwnedInv, UnsharedInv, HasSocket, AddressTypeOK
<1>3. HasSocket /\ fd'[sock] = conns => fd[sock] = conns
  BY DEF AddressTypeOK, LatestConnection, HasSocket, Address!Free, Address!Other
<1>4. FramedInv'
  BY <1>3 DEF FramedInv, HasSocket
<1>5. OnceInv' /\ Address!SuccessIsWritten'
  BY DEF OnceInv, Address!SuccessIsWritten, Address!Carries
<1>. QED
  BY <1>1, <1>2, <1>4, <1>5

LEMMA AddressOpenInv == AddressInv /\ Address!Open => AddressInv'
<1>. SUFFICES ASSUME AddressInv, Address!Open PROVE AddressInv'
  OBVIOUS
<1>. USE AddressAssumption DEF AddressInv
<1> DEFINE f == Address!Lowest
           c == conns + 1
           given == call.from /\ f \notin sources
<1>1. f \in Descriptors /\ fd[f] = Address!Free
  BY LowestIsFree DEF Address!Open
<1>2. /\ fd' = [fd EXCEPT ![f] = c] /\ sock' = f /\ conns' = c
      /\ sending = "open" /\ sending' = "length"
      /\ UNCHANGED <<stream, calls, succeeded>>
      /\ inherited' = IF f \in listed THEN inherited \union {c} ELSE inherited
  BY DEF Address!Open
<1>3. IF given THEN /\ listed' = listed \union {f} /\ sources' = sources \union {f}
                    /\ own' = FALSE /\ shared' = shared \union {c}
      ELSE UNCHANGED <<listed, sources, own, shared>>
  BY DEF Address!Open, Address!server
<1>. HIDE DEF f, given
<1>4. c \in Address!Conns /\ c # 0
  BY DEF Address!Open, AddressTypeOK, Address!Conns
<1>5. HasSocket'
  BY <1>1, <1>2 DEF HasSocket, Address!NoSock
<1>6. AddressTypeOK'
  <2>1. /\ listed' \subseteq Descriptors /\ sources' = listed' /\ own' \in BOOLEAN
        /\ shared' \subseteq Address!Conns
    BY <1>1, <1>3, <1>4 DEF AddressTypeOK
  <2>2. inherited' \subseteq Address!Conns
    BY <1>2, <1>4 DEF AddressTypeOK
  <2>. QED
    BY <1>1, <1>2, <1>4, <2>1, <2>2 DEF AddressTypeOK, Address!Conns
<1>7. fd'[sock'] = conns'
  BY <1>1, <1>2 DEF AddressTypeOK
<1>8. LatestConnection'
  BY <1>2, <1>4, <1>5, <1>7 DEF LatestConnection
<1>9. OwnedInv'
  BY <1>2, <1>3, <1>7 DEF OwnedInv, AddressTypeOK, given
<1>10. UnsharedInv'
  BY <1>3, <1>7 DEF UnsharedInv
<1>11. stream[c] = <<>> /\ Len(stream[c]) = 0
  BY <1>4 DEF FramedInv, AddressTypeOK
<1>12. FramedInv'
  <2>1. \A d \in Address!Conns : d > conns' => stream'[d] = <<>>
    BY <1>2 DEF FramedInv, Address!Conns, AddressTypeOK
  <2>2. \A d \in Address!Conns \ shared' : Framed(stream'[d])
    BY <1>2, <1>3 DEF FramedInv
  <2>. QED
    BY <1>2, <1>11, <2>1, <2>2 DEF FramedInv
<1>13. OnceInv'
  BY <1>2 DEF OnceInv
<1>14. Address!SuccessIsWritten'
  BY <1>2, <1>3 DEF Address!SuccessIsWritten, Address!Carries
<1>. QED
  BY <1>6, <1>8, <1>9, <1>10, <1>12, <1>13, <1>14

(* A write to a connection, of the length, or of a call's data at its end. *)
LEMMA AddressWriteInv ==
  ASSUME AddressInv, HasSocket, NEW x \in Written, Address!Writes(x),
         UNCHANGED <<fd, sock, own, listed, sources, shared, inherited, conns, calls>>,
         \/ /\ sending = "length" /\ sending' = "data" /\ x = Address!Length
            /\ succeeded' = succeeded
         \/ /\ sending = "data" /\ sending' = "idle"
            /\ x = calls \/ (x = Address!Part /\ Address!Short)
            /\ succeeded' = succeeded \union {calls} /\ calls > 0
  PROVE  AddressInv'
<1>. USE DEF AddressInv
<1>. USE DEF Address!Length, Address!Part
<1>1. AddressTypeOK'
  <2>1. stream' \in [Address!Conns -> Seq(Written)]
    <3>1. CASE Address!Connected(sock)
      BY <3>1 DEF AddressTypeOK, Address!Writes, Address!Connected
    <3>2. CASE ~Address!Connected(sock)
      BY <3>2 DEF AddressTypeOK, Address!Writes
    <3>. QED
      BY <3>1, <3>2
  <2>2. calls \in Nat /\ succeeded \subseteq 1 .. calls
    BY DEF AddressTypeOK
  <2>3. succeeded' \subseteq 1 .. calls'
    <3>1. succeeded' = succeeded \/ (succeeded' = succeeded \union {calls} /\ calls \in 1 .. calls)
      BY <2>2
    <3>. QED
      BY <2>2, <3>1
  <2>. QED
    BY <2>1, <2>3 DEF AddressTypeOK
<1>2. LatestConnection' /\ OwnedInv' /\ UnsharedInv'
  BY DEF LatestConnection, OwnedInv, UnsharedInv, HasSocket
<1>3. CASE ~Address!Connected(sock)
  <2>1. stream' = stream /\ fd[sock] # conns
    <3>1. conns \in Address!Conns
      BY DEF LatestConnection, AddressTypeOK, Address!Conns
    <3>. QED
      BY <1>3, <3>1 DEF Address!Writes, Address!Connected, HasSocket
  <2>2. FramedInv'
    BY <2>1 DEF FramedInv, HasSocket
  <2>3. OnceInv'
    BY <2>1 DEF OnceInv
  <2>4. Address!SuccessIsWritten'
    BY <2>1 DEF UnsharedInv, Address!SuccessIsWritten, Address!Carries
  <2>. QED
    BY <1>1, <1>2, <2>2, <2>3, <2>4
<1>4. CASE Address!Connected(sock)
  <2>1. conns \in Address!Conns /\ fd[sock] = conns
    BY <1>4 DEF LatestConnection, AddressTypeOK, Address!Conns, Address!Connected,
                Address!Free, Address!Other
  <2>2. stream' = [stream EXCEPT ![conns] = Append(stream[conns], x)]
    BY <1>4, <2>1 DEF Address!Writes
  <2> DEFINE s == stream[conns]
  <2>3. s \in Seq(Written) /\ Len(s) \in Nat
    BY <2>1 DEF AddressTypeOK
  <2>4. /\ stream'[conns] = Append(s, x) /\ Len(Append(s, x)) = Len(s) + 1
        /\ Append(s, x)[Len(s) + 1] = x
        /\ \A i \in 1 .. Len(s) : Append(s, x)[i] = s[i]
    BY <2>1, <2>2, <2>3 DEF AddressTypeOK
  <2>5. \A c \in Address!Conns \ {conns} : stream'[c] = stream[c]
    BY <2>2 DEF AddressTypeOK
  <2>. HIDE DEF s
  <2>6. FramedInv'
    <3>1. \A c \in Address!Conns : c > conns' => stream'[c] = <<>>
      BY <2>5 DEF FramedInv, Address!Conns, AddressTypeOK
    <3>2. ASSUME conns \notin shared PROVE Framed(Append(s, x)) /\ Len(s) % 2 = IF sending = "data" THEN 1 ELSE 0
      <4>1. Framed(s)
        BY <2>1, <3>2 DEF FramedInv, s
      <4>2. Len(s) % 2 = IF sending = "data" THEN 1 ELSE 0
        BY <2>1, <3>2 DEF FramedInv, s
      <4>3. x = Address!Length <=> sending = "length"
        BY <2>1, <3>2 DEF Address!Short, AddressTypeOK
      <4>4. (Len(s) + 1) % 2 = 1 <=> x = Address!Length
        BY <2>3, <4>2, <4>3
      <4>5. ASSUME NEW i \in 1 .. Len(s) + 1
            PROVE (i % 2 = 1) <=> (Append(s, x)[i] = Address!Length)
        <5>1. CASE i = Len(s) + 1
          BY <2>4, <4>4, <5>1
        <5>2. CASE i \in 1 .. Len(s)
          BY <2>4, <4>1, <5>2 DEF Framed
        <5>. QED
          BY <2>3, <5>1, <5>2
      <4>. QED
        BY <2>4, <4>2, <4>5 DEF Framed
    <3>3. \A c \in Address!Conns \ shared' : Framed(stream'[c])
      BY <2>4, <2>5, <3>2 DEF FramedInv
    <3>4. HasSocket' /\ fd'[sock'] = conns' /\ conns' \notin shared' /\ sending' # "fail" =>
            Len(stream'[conns']) % 2 = IF sending' = "data" THEN 1 ELSE 0
      BY <2>3, <2>4, <3>2
    <3>. QED
      BY <3>1, <3>3, <3>4 DEF FramedInv
  <2>7. x <= calls /\ (x > 0 => x = calls) /\ (sending' # "idle" => x # calls)
    BY DEF AddressTypeOK
  <2>8. \A c \in Address!Conns : \A i \in 1 .. Len(stream'[c]) :
           \/ i \in 1 .. Len(stream[c]) /\ stream'[c][i] = stream[c][i]
           \/ c = conns /\ i = Len(s) + 1 /\ stream'[c][i] = x
    BY <2>3, <2>4, <2>5 DEF s
  <2>9. \A c \in Address!Conns : \A i \in 1 .. Len(stream[c]) :
           stream[c][i] <= calls /\ stream[c][i] # calls
    BY DEF OnceInv
  <2>10. OnceInv'
    <3>1. \A c \in Address!Conns : \A i \in 1 .. Len(stream'[c]) :
            stream'[c][i] <= calls' /\ (sending' # "idle" => stream'[c][i] # calls')
      BY <2>7, <2>8, <2>9
    <3>2. ASSUME NEW c \in Address!Conns, NEW d \in Address!Conns,
                 NEW i \in 1 .. Len(stream'[c]), NEW k \in 1 .. Len(stream'[d]),
                 stream'[c][i] = stream'[d][k], stream'[c][i] > 0
          PROVE  c = d /\ i = k
      BY <2>7, <2>8, <2>9, <3>2 DEF OnceInv
    <3>. QED
      BY <3>1, <3>2 DEF OnceInv
  <2>11. Address!SuccessIsWritten'
    <3>1. \A k : \A c \in Address!Conns : Address!Carries(c, k) => Address!Carries(c, k)'
      BY <2>3, <2>4, <2>5 DEF Address!Carries, s
    <3>2. shared = {} /\ sending = "data" => Address!Carries(conns, calls)'
      BY <2>3, <2>4 DEF Address!Carries, Address!Short
    <3>. QED
      BY <2>1, <3>1, <3>2 DEF Address!SuccessIsWritten
  <2>. QED
    BY <1>1, <1>2, <2>6, <2>10, <2>11
<1>. QED
  BY <1>3, <1>4

LEMMA AddressFailInv == AddressInv /\ Address!Fail => AddressInv'
<1>. SUFFICES ASSUME AddressInv, Address!Fail PROVE AddressInv'
  OBVIOUS
<1>. USE DEF AddressInv
<1>1. /\ HasSocket /\ fd' = [fd EXCEPT ![sock] = Address!Free] /\ sock' = Address!NoSock
      /\ sending = "fail" /\ sending' \in {"idle", "open"}
      /\ UNCHANGED <<own, stream, shared, inherited, conns, calls, succeeded>>
  BY DEF Address!Fail, Address!Again, Address!Return, Address!world, LatestConnection
<1>2. listed' \subseteq listed /\ sources' = listed'
  BY DEF Address!Fail, Address!server, AddressTypeOK
<1>3. AddressTypeOK'
  BY <1>1, <1>2 DEF AddressTypeOK, HasSocket
<1>4. LatestConnection' /\ OwnedInv' /\ UnsharedInv'
  BY <1>1, <1>2 DEF LatestConnection, OwnedInv, UnsharedInv, HasSocket
<1>5. FramedInv'
  BY <1>1 DEF FramedInv, HasSocket
<1>6. OnceInv' /\ Address!SuccessIsWritten'
  BY <1>1 DEF OnceInv, Address!SuccessIsWritten, Address!Carries
<1>. QED
  BY <1>3, <1>4, <1>5, <1>6

LEMMA AddressRenewInv == AddressInv /\ Address!Renew => AddressInv'
<1>. SUFFICES ASSUME AddressInv, Address!Renew PROVE AddressInv'
  OBVIOUS
<1>. USE DEF AddressInv
<1>1. /\ sock' = Address!NoSock /\ own' = TRUE /\ sending = "idle" /\ sending' = "idle"
      /\ fd' = IF own /\ HasSocket THEN [fd EXCEPT ![sock] = Address!Free] ELSE fd
      /\ UNCHANGED <<listed, sources, stream, shared, inherited, conns, calls, succeeded>>
  BY DEF Address!Renew, Address!server, Address!world, HasSocket
<1>2. AddressTypeOK'
  BY <1>1 DEF AddressTypeOK, HasSocket
<1>3. LatestConnection' /\ OwnedInv' /\ UnsharedInv'
  BY <1>1 DEF LatestConnection, OwnedInv, UnsharedInv, HasSocket
<1>4. FramedInv'
  BY <1>1 DEF FramedInv, HasSocket
<1>5. OnceInv' /\ Address!SuccessIsWritten'
  BY <1>1 DEF OnceInv, Address!SuccessIsWritten, Address!Carries
<1>. QED
  BY <1>2, <1>3, <1>4, <1>5

LEMMA AddressNextInv == AddressInv /\ [Address!Next]_(Address!vars) => AddressInv'
<1>. SUFFICES ASSUME AddressInv, [Address!Next]_(Address!vars) PROVE AddressInv'
  OBVIOUS
<1>. USE DEF Address!world, Address!server, Address!Again, Address!Return
<1>1. ASSUME NEW kind \in {"message", "bundle"}, NEW from \in BOOLEAN, Address!Send(kind, from)
      PROVE  AddressInv'
  BY <1>1, AddressCallInv DEF Address!Send
<1>2. CASE Address!Unresolved \/ Address!Unreachable
  BY <1>2, AddressCallInv DEF Address!Unresolved, Address!Unreachable
<1>3. CASE Address!Reuse
  BY <1>3, AddressCallInv DEF Address!Reuse, HasSocket
<1>4. CASE Address!Open
  BY <1>4, AddressOpenInv
<1>5. CASE Address!SendLength
  <2>1. HasSocket /\ Address!Length \in Written
    BY <1>5 DEF Address!SendLength, AddressInv, LatestConnection, Written
  <2>2. CASE Address!Writes(Address!Length) /\ sending' = "data"
    BY <1>5, <2>1, <2>2, AddressWriteInv DEF Address!SendLength
  <2>3. CASE sending' = "fail" /\ UNCHANGED stream
    BY <1>5, <2>3, AddressCallInv DEF Address!SendLength
  <2>. QED
    BY <1>5, <2>2, <2>3 DEF Address!SendLength
<1>6. CASE Address!SendAll
  <2>1. HasSocket /\ Address!Part \in Written /\ calls \in Nat /\ MaxCalls \in Nat
    BY <1>6, AddressAssumption
       DEF Address!SendAll, AddressInv, AddressTypeOK, LatestConnection, Written
  <2>2. calls > 0
    BY <1>6 DEF Address!SendAll, AddressInv, AddressTypeOK
  <2>3. calls \in Written
    BY <2>1, <2>2 DEF Written
  <2>4. /\ UNCHANGED <<fd, sock, own, listed, sources, shared, inherited, conns, calls>>
        /\ sending = "data" /\ sending' = "idle" /\ succeeded' = succeeded \union {calls}
    BY <1>6 DEF Address!SendAll, Address!Done
  <2>5. CASE Address!Writes(calls)
    BY <2>1, <2>2, <2>3, <2>4, <2>5, AddressWriteInv
  <2>6. CASE Address!Short /\ Address!Writes(Address!Part)
    BY <2>1, <2>2, <2>4, <2>6, AddressWriteInv
  <2>. QED
    BY <1>6, <2>5, <2>6 DEF Address!SendAll
<1>7. CASE Address!SendFails
  BY <1>7, AddressCallInv DEF Address!SendFails
<1>8. CASE Address!Fail
  BY <1>8, AddressFailInv
<1>9. CASE Address!Renew
  BY <1>9, AddressRenewInv
<1>10. ASSUME NEW b \in BOOLEAN, Address!SetNodelay(b) PROVE AddressInv'
  BY <1>10, AddressCallInv DEF Address!SetNodelay
<1>11. ASSUME NEW c \in Address!Conns, Address!PeerCloses(c) PROVE AddressInv'
  BY <1>11, AddressCallInv DEF Address!PeerCloses
<1>12. ASSUME NEW f \in Descriptors, Address!ServerCloses(f) PROVE AddressInv'
  BY <1>12, AddressOthersInv DEF Address!ServerCloses, AddressInv, AddressTypeOK
<1>13. ASSUME NEW f \in Descriptors, Address!OtherCloses(f) PROVE AddressInv'
  <2>1. HasSocket /\ f = sock => fd[f] # conns
    BY <1>13 DEF Address!OtherCloses, AddressInv, AddressTypeOK, Address!Other
  <2>. QED
    BY <1>13, <2>1, AddressOthersInv DEF Address!OtherCloses, AddressInv, AddressTypeOK
<1>14. CASE Address!OtherOpens
  <2>1. Address!Lowest \in Descriptors /\ fd[Address!Lowest] = Address!Free
    BY <1>14, LowestIsFree DEF Address!OtherOpens
  <2>2. HasSocket => conns # Address!Free
    BY DEF AddressInv, LatestConnection, Address!Free
  <2>. QED
    BY <1>14, <2>1, <2>2, AddressOthersInv DEF Address!OtherOpens, AddressInv, AddressTypeOK
<1>15. CASE UNCHANGED Address!vars
  BY <1>15, AddressCallInv DEF Address!vars
<1>. QED
  BY <1>1, <1>2, <1>3, <1>4, <1>5, <1>6, <1>7, <1>8, <1>9, <1>10, <1>11, <1>12, <1>13, <1>14,
     <1>15 DEF Address!Next, Address!Attempt

(* A cardinality of at most one.                                           *)
LEMMA AtMostOneMember ==
  ASSUME NEW S, \A v, w \in S : v = w
  PROVE  Cardinality(S) <= 1
<1>1. CASE S = {}
  BY <1>1, FS_EmptySet
<1>2. CASE S # {}
  <2>1. PICK v \in S : S = {v}
    BY <1>2
  <2>. QED
    BY <2>1, FS_Singleton
<1>. QED
  BY <1>1, <1>2

(* Whatever fails and whoever closes a descriptor meanwhile: what a peer   *)
(* reads on a connection that no server shares stays framed, no message is *)
(* written twice by the retry, success means that it was written as long as *)
(* no connection was shared, and the address's own descriptor is that of   *)
(* its latest connection, unless a server listed it before (send_data and  *)
(* lo_send_message_from, send.c).                                          *)
THEOREM AddressDelivers == Address!Spec => []Delivered
<1>1. AddressInv => Delivered
  <2>. SUFFICES ASSUME AddressInv PROVE Delivered
    OBVIOUS
  <2>1. Address!FramesWhole
    BY DEF AddressInv, FramedInv, Framed, Address!FramesWhole
  <2>2. Address!AtMostOnce
    <3>1. \A S : Address!Cardinality(S) = Cardinality(S)
      BY DEF Address!Cardinality, Cardinality
    <3>. SUFFICES ASSUME NEW k \in 1 .. calls
                  PROVE  Cardinality(Address!Writings(k)) <= 1
      BY <3>1 DEF Address!AtMostOnce
    <3>2. ASSUME NEW v \in Address!Writings(k), NEW w \in Address!Writings(k) PROVE v = w
      <4>1. /\ v \in Address!Conns \X (1 .. 2 * MaxCalls) /\ w \in Address!Conns \X (1 .. 2 * MaxCalls)
            /\ v[2] \in 1 .. Len(stream[v[1]]) /\ stream[v[1]][v[2]] = k
            /\ w[2] \in 1 .. Len(stream[w[1]]) /\ stream[w[1]][w[2]] = k
        BY AddressAssumption DEF Address!Writings, AddressInv, AddressTypeOK
      <4>2. v[1] = w[1] /\ v[2] = w[2]
        BY <4>1 DEF AddressInv, OnceInv
      <4>. QED
        BY <4>1, <4>2
    <3>. QED
      BY <3>2, AtMostOneMember
  <2>3. Address!OwnedIsOpen
    BY DEF AddressInv, OwnedInv, HasSocket, Address!OwnedIsOpen
  <2>. QED
    BY <2>1, <2>2, <2>3 DEF AddressInv, Delivered
<1>. QED
  BY AddressInitInv, AddressNextInv, <1>1, PTL DEF Address!Spec

-----------------------------------------------------------------------------
(* LoMethods.                                                              *)

Method == [path : Paths \union {Methods!AnyPath}, spec : Specs \union {Methods!AnySpec},
           next : Nat]

MethodsDeletion ==
  [op : {"none", "all", "one"},
   path : Paths \union DOMAIN Matched \union {Methods!AnyPath},
   spec : Specs \union {Methods!AnySpec}, who : Nat, it : Nat, prev : Nat]

MethodsTypeOK ==
  /\ heap \in Seq(Method)
  /\ live \subseteq 1 .. Len(heap) /\ registered \subseteq live
  /\ stayed \subseteq registered
  /\ first \in Nat /\ it \in Nat \union {Methods!Astray} /\ running \in Nat
  /\ called \in Seq([id : Nat, ret : {0, 1}])
  /\ del \in MethodsDeletion /\ (del.op = "none" => del = Methods!Absent)

After(n) == heap[n].next

(* Every method that is not freed is linked to the next greater one.       *)
Linked ==
  /\ first = Methods!Nil => live = {}
  /\ first # Methods!Nil => first \in live /\ \A m \in live : first <= m
  /\ \A n \in live :
       /\ After(n) = Methods!Nil => \A m \in live : m <= n
       /\ After(n) # Methods!Nil =>
            After(n) \in live /\ n < After(n) /\ \A m \in live : m <= n \/ After(n) <= m

(* What a deletion has yet to free is all before it, and the node it is at *)
(* hangs on the one it calls the previous one.                             *)
Doomed(n) ==
  IF del.op = "one" THEN n = del.who ELSE Methods!Means(n, del.path, del.spec)

DeletionInv ==
  /\ del = Methods!Absent => live = registered
  /\ del # Methods!Absent =>
       /\ del.it \in live /\ (msg = <<>> \/ running # Methods!Nil)
       /\ live \ registered = {n \in live : del.it <= n /\ Doomed(n)}
       /\ del.it # first => del.prev \in live /\ After(del.prev) = del.it

(* A message was passed on to what fits it before the node it is at, which *)
(* nobody deletes, but its own handler.                                    *)
Served(n) ==
  \E i \in 1 .. Len(called) :
     \/ called[i].id = n
     \/ msg[1].kind # "pattern" /\ called[i].ret = 0 /\ called[i].id < n

TraversalInv ==
  /\ msg = <<>> => it = Methods!Nil /\ running = Methods!Nil /\ stayed = {}
  /\ running # Methods!Nil => running = it
  /\ it > 0 => it \in registered \/ it = running
  /\ it = Methods!Astray => /\ running = Methods!Nil /\ called # <<>>
                            /\ called[Len(called)].id \notin live
  /\ msg # <<>> =>
       /\ \A i, k \in 1 .. Len(called) : i < k => called[i].id < called[k].id
       /\ \A i \in 1 .. Len(called) :
            /\ it > 0 => called[i].id < it
            /\ called[i].ret = 0 /\ msg[1].kind # "pattern" => ret = 0 /\ it = Methods!Nil
       /\ \A n \in stayed :
            Methods!Fits(n, msg[1]) /\ (it = Methods!Nil \/ n < it) => Served(n)

MethodsInv ==
  MethodsTypeOK /\ Linked /\ DeletionInv /\ TraversalInv /\ Methods!ReplyExact

LEMMA MethodsInitInv == Methods!Init => MethodsInv
<1>. SUFFICES ASSUME Methods!Init PROVE MethodsInv
  OBVIOUS
<1>. USE DEF Methods!Init, Methods!Absent, Methods!Deletion, Methods!Nil, Methods!AnyPath,
             Methods!AnySpec
<1>1. MethodsTypeOK
  BY DEF MethodsTypeOK, MethodsDeletion
<1>2. Linked /\ DeletionInv /\ TraversalInv /\ Methods!ReplyExact
  BY DEF Linked, DeletionInv, TraversalInv, Methods!ReplyExact, Methods!Astray
<1>. QED
  BY <1>1, <1>2 DEF MethodsInv

(* What a message fits depends on the path and the typespec of a method.   *)
LEMMA FitsKept ==
  ASSUME NEW n, NEW m, coerce' = coerce,
         heap'[n].path = heap[n].path, heap'[n].spec = heap[n].spec
  PROVE  /\ Methods!Fits(n, m)' = Methods!Fits(n, m)
         /\ \A p, s : Methods!Means(n, p, s)' = Methods!Means(n, p, s)
BY DEF Methods!Fits, Methods!PathFits, Methods!SpecFits, Methods!Means

(* What the walk keeps, when the list changes and those it passed stay.    *)
LEMMA WalkKept ==
  ASSUME MethodsInv, UNCHANGED <<Methods!walk, coerce>>,
         stayed' \subseteq stayed, it > 0 => it \in registered' \/ it = running,
         it = Methods!Astray => live' = live,
         \A n \in stayed : heap'[n].path = heap[n].path /\ heap'[n].spec = heap[n].spec
  PROVE  TraversalInv' /\ Methods!ReplyExact'
<1>1. UNCHANGED <<msg, it, ret, running, called, reply>>
  BY DEF Methods!walk
<1>2. Methods!ReplyExact'
  BY <1>1 DEF Methods!ReplyExact, MethodsInv
<1>3. \A n \in stayed' : Methods!Fits(n, msg[1])' = Methods!Fits(n, msg[1])
  BY <1>1, FitsKept
<1>4. \A n : Served(n)' = Served(n)
  BY <1>1 DEF Served
<1>5. msg = <<>> => stayed' = {}
  BY DEF MethodsInv, TraversalInv
<1>6. TraversalInv'
  BY <1>1, <1>3, <1>4, <1>5 DEF MethodsInv, TraversalInv
<1>. QED
  BY <1>2, <1>6

(* A program that may call finds nothing waiting to be freed.              *)
LEMMA MayCallFacts ==
  ASSUME MethodsInv, Methods!MayCall
  PROVE  /\ del = Methods!Absent /\ live = registered
         /\ msg = <<>> \/ running # Methods!Nil
         /\ running # Methods!Nil => running = it
         /\ msg = <<>> => it = Methods!Nil
         /\ it # Methods!Astray
BY DEF Methods!MayCall, MethodsInv, DeletionInv, TraversalInv, Methods!Nil, Methods!Astray

(* What Linked says of a node.                                             *)
LEMMA LinkFacts ==
  ASSUME MethodsInv, NEW n \in live
  PROVE  /\ n \in Nat /\ n # Methods!Nil /\ n <= Len(heap) /\ Len(heap) \in Nat
         /\ first # Methods!Nil /\ first \in live /\ first <= n
         /\ After(n) = Methods!Nil => \A m \in live : m <= n
         /\ After(n) # Methods!Nil =>
              /\ After(n) \in live /\ After(n) \in Nat /\ n < After(n)
              /\ \A m \in live : m <= n \/ After(n) <= m
<1>1. /\ n \in Nat /\ n # Methods!Nil /\ n <= Len(heap) /\ Len(heap) \in Nat
      /\ \A m \in live : m \in Nat
  BY DEF MethodsInv, MethodsTypeOK, Methods!Nil
<1>2. Linked
  BY DEF MethodsInv
<1>3. first # Methods!Nil /\ first \in live /\ first <= n
  BY <1>2 DEF Linked
<1>4. After(n) = Methods!Nil => \A m \in live : m <= n
  BY <1>2 DEF Linked
<1>5. After(n) # Methods!Nil =>
        After(n) \in live /\ n < After(n) /\ \A m \in live : m <= n \/ After(n) <= m
  BY <1>2, Zenon DEF Linked
<1>. QED
  BY <1>1, <1>3, <1>4, <1>5

LEMMA LastNodeFacts ==
  ASSUME MethodsInv, first # Methods!Nil
  PROVE  /\ Methods!LastNode \in live /\ After(Methods!LastNode) = Methods!Nil
         /\ \A m \in live : m <= Methods!LastNode
<1>1. first \in live /\ Len(heap) \in Nat /\ live \in SUBSET (1 .. Len(heap))
  BY DEF MethodsInv, Linked, MethodsTypeOK
<1>2. PICK g \in live : \A m \in live : m <= g
  BY <1>1, Greatest
<1>3. ASSUME After(g) # Methods!Nil PROVE FALSE
  <2>1. After(g) \in live /\ After(g) \in Nat /\ g \in Nat /\ g < After(g)
    BY <1>3, LinkFacts
  <2>2. After(g) <= g
    BY <1>2, <2>1
  <2>. QED
    BY <2>1, <2>2
<1>4. \E n \in live : heap[n].next = Methods!Nil
  BY <1>2, <1>3 DEF After
<1>5. Methods!LastNode \in live /\ heap[Methods!LastNode].next = Methods!Nil
  BY <1>4 DEF Methods!LastNode
<1>. QED
  BY <1>5, LinkFacts DEF After

LEMMA AddMethodInv ==
  ASSUME MethodsInv, NEW p \in Paths \union {Methods!AnyPath},
         NEW s \in Specs \union {Methods!AnySpec}, Methods!AddMethod(p, s)
  PROVE  MethodsInv'
<1> DEFINE n == Len(heap) + 1
           new == [path |-> p, spec |-> s, next |-> Methods!Nil]
           last == Methods!LastNode
<1>1. /\ del = Methods!Absent /\ live = registered /\ del' = del
      /\ live' = live \union {n} /\ registered' = registered \union {n} /\ stayed' = stayed
      /\ UNCHANGED <<Methods!walk, coerce>>
  BY MayCallFacts DEF Methods!AddMethod
<1>2. /\ heap \in Seq(Method) /\ Len(heap) \in Nat /\ live \subseteq 1 .. Len(heap)
      /\ stayed \subseteq live /\ new \in Method
  BY <1>1 DEF MethodsInv, MethodsTypeOK, Method, Methods!Nil
<1>3. /\ IF first = Methods!Nil THEN first' = n /\ heap' = Append(heap, new)
         ELSE /\ heap' = Append([heap EXCEPT ![last].next = n], new) /\ first' = first
  BY DEF Methods!AddMethod
<1>4. /\ heap' \in Seq(Method) /\ Len(heap') = n /\ heap'[n] = new
      /\ \A m \in 1 .. Len(heap) :
           /\ heap'[m].path = heap[m].path /\ heap'[m].spec = heap[m].spec
           /\ heap'[m].next = IF first # Methods!Nil /\ m = last THEN n ELSE After(m)
  <2>. HIDE DEF new, last
  <2>1. CASE first = Methods!Nil
    BY <1>2, <1>3, <2>1, AppendProperties DEF After
  <2>2. CASE first # Methods!Nil
    <3>1. last \in 1 .. Len(heap)
      BY <1>2, <2>2, LastNodeFacts DEF last
    <3> DEFINE e == [heap[last] EXCEPT !.next = n]
               h == [heap EXCEPT ![last] = e]
    <3>2. e \in Method /\ e.path = heap[last].path /\ e.spec = heap[last].spec /\ e.next = n
      <4>1. heap[last] \in Method /\ n \in Nat
        BY <1>2, <3>1
      <4>. QED
        BY <4>1 DEF Method
    <3>3. heap' = Append(h, new)
      BY <1>3, <2>2
    <3>. HIDE DEF e
    <3>4. /\ h \in Seq(Method) /\ Len(h) = Len(heap)
          /\ \A m \in 1 .. Len(heap) : h[m] = IF m = last THEN e ELSE heap[m]
      BY <1>2, <3>1, <3>2, ExceptSeq
    <3>. HIDE DEF h
    <3>5. /\ heap' \in Seq(Method) /\ Len(heap') = n /\ heap'[n] = new
          /\ \A m \in 1 .. Len(heap) : heap'[m] = h[m]
      BY <1>2, <3>3, <3>4, AppendProperties
    <3>. QED
      BY <2>2, <3>2, <3>4, <3>5 DEF After
  <2>. QED
    BY <2>1, <2>2
<1>5. first' \in Nat /\ first' # Methods!Nil
  BY <1>2, <1>3 DEF MethodsInv, MethodsTypeOK, Methods!Nil
<1>6. MethodsTypeOK'
  <2>1. UNCHANGED <<it, running, called>>
    BY <1>1 DEF Methods!walk
  <2>2. live' \subseteq 1 .. Len(heap') /\ registered' \subseteq live' /\ stayed' \subseteq registered'
    <3>1. Len(heap') = n /\ n = Len(heap) + 1 /\ Len(heap) \in Nat
      BY <1>2, <1>4
    <3>2. registered' \subseteq live' /\ stayed' \subseteq registered'
      BY <1>1, <1>2 DEF MethodsInv, MethodsTypeOK
    <3>. HIDE DEF n
    <3>3. live' \subseteq 1 .. n
      <4>1. live' = live \union {n} /\ live \subseteq 1 .. Len(heap)
        BY <1>1, <1>2
      <4>2. 1 .. Len(heap) \subseteq 1 .. n /\ n \in 1 .. n
        BY <3>1
      <4>. QED
        BY <4>1, <4>2
    <3>. QED
      BY <3>1, <3>2, <3>3
  <2>3. /\ it' \in Nat \union {Methods!Astray} /\ running' \in Nat
        /\ called' \in Seq([id : Nat, ret : {0, 1}])
    BY <2>1 DEF MethodsInv, MethodsTypeOK
  <2>4. del' \in MethodsDeletion /\ (del'.op = "none" => del' = Methods!Absent)
    BY <1>1 DEF MethodsInv, MethodsTypeOK
  <2>5. first' \in Nat /\ heap' \in Seq(Method)
    BY <1>4, <1>5
  <2>. HIDE DEF n, new, last
  <2>. QED
    BY <2>2, <2>3, <2>4, <2>5 DEF MethodsTypeOK
<1>7. Linked'
  <2>1. CASE first = Methods!Nil
    <3>1. live = {} /\ live' = {n} /\ first' = n
      BY <1>1, <1>3, <2>1 DEF MethodsInv, Linked
    <3>. QED
      BY <1>2, <1>4, <1>5, <3>1 DEF Linked, After, Methods!Nil
  <2>2. CASE first # Methods!Nil
    <3>1. /\ last \in live /\ After(last) = Methods!Nil /\ \A m \in live : m <= last
          /\ first' = first
      BY <1>3, <2>2, LastNodeFacts
    <3>. HIDE DEF last, new
    <3>0. \A m \in live : m \in Nat /\ m < n /\ m \in 1 .. Len(heap)
      BY <1>2
    <3>2. first' \in live' /\ \A m \in live' : first' <= m
      <4>1. first \in live /\ \A m \in live : first <= m
        BY <3>1, LinkFacts
      <4>. QED
        BY <1>1, <3>0, <3>1, <4>1
    <3>3. heap'[n].next = Methods!Nil /\ \A m \in live' : m <= n
      <4>1. n <= n
        BY <1>2
      <4>. QED
        BY <1>1, <1>4, <3>0, <4>1 DEF new
    <3>4. heap'[last].next = n /\ n \in live' /\ last < n /\ n # Methods!Nil
      BY <1>1, <1>4, <2>2, <3>0, <3>1 DEF Methods!Nil
    <3>5. ASSUME NEW m \in live, m # last
          PROVE  /\ heap'[m].next = After(m) /\ After(m) # Methods!Nil
                 /\ After(m) \in live /\ m < After(m)
                 /\ \A k \in live' : k <= m \/ After(m) <= k
      <4>1. heap'[m].next = After(m)
        BY <1>4, <3>0, <3>5
      <4>2. After(m) # Methods!Nil
        <5>1. last <= m \/ After(m) # Methods!Nil
          BY <3>1, LinkFacts
        <5>2. m <= last /\ m \in Nat /\ last \in Nat
          BY <3>0, <3>1
        <5>. QED
          BY <3>5, <5>1, <5>2
      <4>3. After(m) \in live /\ m < After(m) /\ \A k \in live : k <= m \/ After(m) <= k
        BY <4>2, LinkFacts
      <4>4. After(m) <= n
        <5>1. After(m) \in Nat /\ After(m) <= Len(heap) /\ Len(heap) \in Nat
          BY <4>3, LinkFacts
        <5>. QED
          BY <5>1
      <4>. QED
        BY <1>1, <4>1, <4>2, <4>3, <4>4
    <3>6. \A k \in live' : k <= last \/ n <= k
      BY <1>1, <1>2, <3>1
    <3>7. ASSUME NEW m \in live'
          PROVE  /\ heap'[m].next = Methods!Nil => \A k \in live' : k <= m
                 /\ heap'[m].next # Methods!Nil =>
                      /\ heap'[m].next \in live' /\ m < heap'[m].next
                      /\ \A k \in live' : k <= m \/ heap'[m].next <= k
      <4>1. CASE m = n
        BY <3>3, <4>1
      <4>2. CASE m = last
        BY <3>4, <3>6, <4>2
      <4>3. CASE m \in live /\ m # last
        BY <1>1, <3>5, <4>3
      <4>. QED
        BY <1>1, <4>1, <4>2, <4>3
    <3>. QED
      BY <1>5, <3>2, <3>7 DEF Linked, After
  <2>. QED
    BY <2>1, <2>2
<1>8. DeletionInv'
  BY <1>1 DEF DeletionInv
<1>9. TraversalInv' /\ Methods!ReplyExact'
  <2>1. it > 0 => it \in registered' \/ it = running
    BY <1>1 DEF MethodsInv, TraversalInv
  <2>2. it # Methods!Astray
    BY MayCallFacts DEF Methods!AddMethod
  <2>. QED
    BY <1>1, <1>2, <1>4, <2>1, <2>2, WalkKept
<1>. QED
  BY <1>6, <1>7, <1>8, <1>9 DEF MethodsInv
(* The deletions begin: what goes is a set S of the methods.               *)
LEMMA ForgetInv ==
  ASSUME MethodsInv, Methods!MayCall, first # Methods!Nil,
         del' \in MethodsDeletion, del'.op \in {"all", "one"}, del'.it = first,
         UNCHANGED <<heap, live, first, coerce, Methods!walk>>,
         NEW S, Methods!Forget(S),
         \A n \in live : n \in S <=> Doomed(n)'
  PROVE  MethodsInv'
<1>1. /\ live = registered /\ (msg = <<>> \/ running # Methods!Nil)
      /\ running # Methods!Nil => running = it
      /\ msg = <<>> => it = Methods!Nil
      /\ it # Methods!Astray
  BY MayCallFacts
<1>2. registered' = registered \ S /\ stayed' = stayed \ S
  BY DEF Methods!Forget
<1>3. UNCHANGED <<msg, it, running, called>>
  BY DEF Methods!walk
<1>4. del' # Methods!Absent
  BY DEF Methods!Absent, Methods!Deletion
<1>5. MethodsTypeOK'
  BY <1>2, <1>3 DEF MethodsInv, MethodsTypeOK
<1>6. Linked'
  BY DEF MethodsInv, Linked, After
<1>7. DeletionInv'
  <2>1. first \in live /\ \A n \in live : first <= n
    BY DEF MethodsInv, Linked
  <2>2. live' \ registered' = {n \in live' : del'.it <= n /\ Doomed(n)'}
    BY <1>1, <1>2, <2>1
  <2>. QED
    BY <1>1, <1>3, <1>4, <2>1, <2>2 DEF DeletionInv
<1>8. TraversalInv' /\ Methods!ReplyExact'
  <2>1. it > 0 => it = running
    BY <1>1 DEF Methods!Nil
  <2>. QED
    BY <1>1, <1>2, <2>1, WalkKept
<1>. QED
  BY <1>5, <1>6, <1>7, <1>8 DEF MethodsInv

LEMMA DelMethodInv ==
  ASSUME MethodsInv, NEW p \in Paths \union DOMAIN Matched \union {Methods!AnyPath},
         NEW s \in Specs \union {Methods!AnySpec}, Methods!DelMethod(p, s)
  PROVE  MethodsInv'
<1> DEFINE S == {n \in live : Methods!Means(n, p, s)}
<1>1. /\ Methods!MayCall /\ first # Methods!Nil
      /\ del' = Methods!Deletion("all", p, s, Methods!Nil, first)
      /\ Methods!Forget(S)
      /\ UNCHANGED <<heap, live, first, coerce, Methods!walk>>
  BY DEF Methods!DelMethod
<1>2. /\ del' \in MethodsDeletion /\ del'.op = "all" /\ del'.path = p /\ del'.spec = s
      /\ del'.it = first
  BY <1>1 DEF MethodsDeletion, Methods!Deletion, Methods!Nil, MethodsInv, MethodsTypeOK
<1>3. \A n \in live : n \in S <=> Doomed(n)'
  BY <1>1, <1>2 DEF Doomed, Methods!Means
<1>. HIDE DEF S
<1>. QED
  BY <1>1, <1>2, <1>3, ForgetInv

LEMMA DelLoMethodInv ==
  ASSUME MethodsInv, NEW m \in Methods!Ids, Methods!DelLoMethod(m)
  PROVE  MethodsInv'
<1> DEFINE S == {m}
<1>1. /\ Methods!MayCall /\ first # Methods!Nil /\ m \in 1 .. Len(heap)
      /\ del' = Methods!Deletion("one", Methods!AnyPath, Methods!AnySpec, m, first)
      /\ Methods!Forget(S)
      /\ UNCHANGED <<heap, live, first, coerce, Methods!walk>>
  BY DEF Methods!DelLoMethod, MethodsInv, MethodsTypeOK
<1>2. /\ del' \in MethodsDeletion /\ del'.op = "one" /\ del'.who = m /\ del'.it = first
  BY <1>1 DEF MethodsDeletion, Methods!Deletion, MethodsInv, MethodsTypeOK
<1>3. \A n \in live : n \in S <=> Doomed(n)'
  BY <1>1, <1>2 DEF Doomed
<1>. HIDE DEF S
<1>. QED
  BY <1>1, <1>2, <1>3, ForgetInv

(* Where a deletion is.                                                    *)
LEMMA DeletionFacts ==
  ASSUME MethodsInv, del # Methods!Absent
  PROVE  /\ del.op \in {"all", "one"} /\ del.it \in live
         /\ msg = <<>> \/ running # Methods!Nil
         /\ \A n \in live : n \in registered <=> ~ (del.it <= n /\ Doomed(n))
         /\ del.it # first =>
              del.prev \in live /\ After(del.prev) = del.it /\ del.prev < del.it
         /\ Methods!Victim(del) <=> Doomed(del.it)
<1>1. DeletionInv /\ del \in MethodsDeletion /\ del.op # "none"
  BY DEF MethodsInv, MethodsTypeOK
<1>2. del.op \in {"all", "one"}
  BY <1>1 DEF MethodsDeletion
<1>3. /\ del.it \in live /\ (msg = <<>> \/ running # Methods!Nil)
      /\ live \ registered = {n \in live : del.it <= n /\ Doomed(n)}
      /\ del.it # first => del.prev \in live /\ After(del.prev) = del.it
  BY <1>1 DEF DeletionInv
<1>4. del.it # first => del.prev < del.it
  <2>1. del.it # Methods!Nil
    BY <1>3, LinkFacts
  <2>. QED
    BY <1>3, <2>1, LinkFacts
<1>5. Methods!Victim(del) <=> Doomed(del.it)
  BY DEF Methods!Victim, Doomed
<1>. QED
  BY <1>2, <1>3, <1>4, <1>5

(* It goes past a node that stays.                                         *)
LEMMA DelPassInv ==
  ASSUME MethodsInv, Methods!DelStep, ~ Methods!Victim(del)
  PROVE  MethodsInv'
<1> DEFINE x == del.it
           nx == After(x)
<1>0. del # Methods!Absent
  BY DEF Methods!DelStep
<1>1. /\ UNCHANGED <<heap, live, first, registered, stayed, coerce, Methods!walk>>
      /\ del' = IF nx = Methods!Nil THEN Methods!Absent ELSE [del EXCEPT !.it = nx, !.prev = x]
  BY DEF Methods!DelStep, After, Methods!Previous
<1>2. x \in live /\ ~ Doomed(x) /\ del \in MethodsDeletion
  BY <1>0, DeletionFacts DEF MethodsInv, MethodsTypeOK
<1>3. UNCHANGED <<msg, it, running, called>>
  BY <1>1 DEF Methods!walk
<1>4. nx # Methods!Nil => nx \in live /\ nx \in Nat /\ nx # x /\ x < nx
  BY <1>2, LinkFacts
<1>5. del' \in MethodsDeletion /\ (del'.op = "none" => del' = Methods!Absent)
  <2>1. CASE nx = Methods!Nil
    BY <1>1, <2>1 DEF MethodsDeletion, Methods!Absent, Methods!Deletion, Methods!Nil
  <2>2. CASE nx # Methods!Nil
    <3>1. x \in Nat /\ nx \in Nat
      BY <1>2, <1>4, <2>2, LinkFacts
    <3>. HIDE DEF x, nx
    <3>2. del' = [del EXCEPT !.it = nx, !.prev = x] /\ del.op # "none"
      BY <1>0, <1>1, <2>2 DEF MethodsInv, MethodsTypeOK
    <3>. QED
      BY <1>2, <3>1, <3>2 DEF MethodsDeletion
  <2>. QED
    BY <2>1, <2>2
<1>6. MethodsTypeOK'
  BY <1>1, <1>3, <1>5 DEF MethodsInv, MethodsTypeOK
<1>7. Linked'
  BY <1>1 DEF MethodsInv, Linked, After
<1>8. DeletionInv'
  <2>1. CASE nx = Methods!Nil
    <3>1. \A n \in live : n <= x
      BY <1>2, <2>1, LinkFacts
    <3>2. \A n \in live : x <= n => n = x
      <4>1. x \in Nat /\ \A n \in live : n \in Nat
        BY <1>2, LinkFacts
      <4>. HIDE DEF x
      <4>. QED
        BY <3>1, <4>1
    <3>3. live = registered
      BY <1>0, <1>2, <3>2, DeletionFacts DEF MethodsInv, MethodsTypeOK
    <3>. QED
      BY <1>1, <2>1, <3>3 DEF DeletionInv
  <2>2. CASE nx # Methods!Nil
    <3>1. /\ del' # Methods!Absent /\ del'.it = nx /\ del'.prev = x
          /\ \A n : Doomed(n)' <=> Doomed(n)
      <4>. HIDE DEF x, nx
      <4>1. del' = [del EXCEPT !.it = nx, !.prev = x] /\ del.op # "none"
        BY <1>0, <1>1, <2>2 DEF MethodsInv, MethodsTypeOK
      <4>2. /\ del'.it = nx /\ del'.prev = x /\ del'.op = del.op /\ del'.who = del.who
            /\ del'.path = del.path /\ del'.spec = del.spec
        BY <1>2, <4>1 DEF MethodsDeletion
      <4>3. \A n : Doomed(n)' <=> Doomed(n)
        BY <1>1, <4>2 DEF Doomed, Methods!Means
      <4>4. del' # Methods!Absent
        BY <4>1, <4>2 DEF Methods!Absent, Methods!Deletion
      <4>. QED
        BY <4>2, <4>3, <4>4
    <3>2. \A n \in live : (x <= n /\ Doomed(n)) <=> (nx <= n /\ Doomed(n))
      <4>1. \A n \in live : (n <= x \/ nx <= n) /\ n \in Nat /\ x \in Nat /\ nx \in Nat /\ x < nx
        BY <1>2, <1>4, <2>2, LinkFacts
      <4>2. \A n \in live : x <= n => n = x \/ nx <= n
        BY <4>1
      <4>3. \A n \in live : nx <= n => x <= n
        BY <4>1
      <4>. QED
        BY <1>2, <4>2, <4>3
    <3>3. live' \ registered' = {n \in live' : del'.it <= n /\ Doomed(n)'}
      BY <1>0, <1>1, <3>1, <3>2, DeletionFacts
    <3>. QED
      BY <1>0, <1>1, <1>2, <1>3, <1>4, <2>2, <3>1, <3>3, DeletionFacts DEF DeletionInv, After
  <2>. QED
    BY <2>1, <2>2
<1>9. TraversalInv' /\ Methods!ReplyExact'
  <2>1. it > 0 => it \in registered' \/ it = running
    BY <1>1 DEF MethodsInv, TraversalInv
  <2>. QED
    BY <1>1, <2>1, WalkKept
<1>. QED
  BY <1>6, <1>7, <1>8, <1>9 DEF MethodsInv

(* It unlinks and frees a node that goes.                                  *)
LEMMA DelFreeFacts ==
  ASSUME MethodsInv, Methods!DelStep, Methods!Victim(del)
  PROVE  LET x == del.it
             nx == After(x)
         IN  /\ heap' \in Seq(Method) /\ Len(heap') = Len(heap)
             /\ \A n \in live \ {x} :
                  /\ heap'[n].path = heap[n].path /\ heap'[n].spec = heap[n].spec
                  /\ heap'[n].next = IF x # first /\ n = del.prev THEN nx ELSE After(n)
             /\ live' = live \ {x} /\ first' = IF x = first THEN nx ELSE first
<1> DEFINE x == del.it
           nx == After(x)
           p == del.prev
<1>1. del # Methods!Absent
  BY DEF Methods!DelStep
<1>2. /\ heap' = Methods!Unlinked(del) /\ live' = live \ {x}
      /\ first' = IF x = first THEN nx ELSE first
  BY DEF Methods!DelStep, After
<1>3. heap \in Seq(Method) /\ live \subseteq 1 .. Len(heap) /\ Len(heap) \in Nat
  BY DEF MethodsInv, MethodsTypeOK
<1>4. x \in live /\ nx \in Nat
  <2>1. x \in live
    BY <1>1, DeletionFacts
  <2>2. nx # Methods!Nil => nx \in Nat
    BY <2>1, LinkFacts
  <2>. QED
    BY <2>1, <2>2 DEF Methods!Nil
<1>5. Methods!Freed \in Method
  BY DEF Methods!Freed, Method, Methods!AnyPath, Methods!AnySpec, Methods!Nil
<1>6. CASE x = first
  <2>1. heap' = [heap EXCEPT ![x] = Methods!Freed]
    BY <1>2, <1>6 DEF Methods!Unlinked
  <2>. HIDE DEF x, nx
  <2>2. /\ heap' \in Seq(Method) /\ Len(heap') = Len(heap)
        /\ \A n \in 1 .. Len(heap) : n # x => heap'[n] = heap[n]
    BY <1>3, <1>4, <1>5, <2>1, ExceptSeq
  <2>3. \A n \in live \ {x} : heap'[n] = heap[n]
    BY <1>3, <2>2
  <2>. QED
    BY <1>2, <1>6, <2>2, <2>3 DEF After, x, nx
<1>7. CASE x # first
  <2>1. p \in live /\ After(p) = x /\ p < x
    BY <1>1, <1>7, DeletionFacts
  <2>2. heap' = [heap EXCEPT ![p].next = nx, ![x] = Methods!Freed]
    BY <1>2, <1>7 DEF Methods!Unlinked, After
  <2> DEFINE e == [heap[p] EXCEPT !.next = nx]
             h == [heap EXCEPT ![p] = e]
  <2>. HIDE DEF x, nx, p
  <2>3. p \in 1 .. Len(heap) /\ x \in 1 .. Len(heap) /\ p # x
    BY <1>3, <1>4, <2>1
  <2>4. e \in Method /\ e.path = heap[p].path /\ e.spec = heap[p].spec /\ e.next = nx
    <3>1. heap[p] \in Method
      BY <1>3, <2>3
    <3>. QED
      BY <1>4, <3>1 DEF Method
  <2>5. heap' = [h EXCEPT ![x] = Methods!Freed]
    BY <2>2
  <2>. HIDE DEF e
  <2>6. /\ h \in Seq(Method) /\ Len(h) = Len(heap)
        /\ \A n \in 1 .. Len(heap) : h[n] = IF n = p THEN e ELSE heap[n]
    BY <1>3, <2>3, <2>4, ExceptSeq
  <2>. HIDE DEF h
  <2>7. /\ heap' \in Seq(Method) /\ Len(heap') = Len(heap)
        /\ \A n \in 1 .. Len(heap) : n # x => heap'[n] = h[n]
    BY <1>5, <2>3, <2>5, <2>6, ExceptSeq
  <2>8. \A n \in live \ {x} : heap'[n] = IF n = p THEN e ELSE heap[n]
    BY <1>3, <2>6, <2>7
  <2>9. \A n \in live \ {x} :
           /\ heap'[n].path = heap[n].path /\ heap'[n].spec = heap[n].spec
           /\ heap'[n].next = IF n = p THEN nx ELSE heap[n].next
    BY <2>4, <2>8
  <2>. QED
    BY <1>2, <1>7, <2>7, <2>9 DEF After, x, nx, p
<1>. QED
  BY <1>6, <1>7

LEMMA DelFreeLinked ==
  ASSUME MethodsInv, Methods!DelStep, Methods!Victim(del)
  PROVE  Linked'
<1> DEFINE x == del.it
           nx == After(x)
           p == del.prev
<1>1. /\ \A n \in live \ {x} : heap'[n].next = IF x # first /\ n = p THEN nx ELSE After(n)
      /\ live' = live \ {x} /\ first' = IF x = first THEN nx ELSE first
  BY DelFreeFacts
<1>2. x \in live /\ (x # first => p \in live /\ After(p) = x /\ p < x)
  BY DeletionFacts DEF Methods!DelStep
<1>. HIDE DEF x, nx, p
<1>3. /\ nx = Methods!Nil => \A m \in live : m <= x
      /\ nx # Methods!Nil => nx \in live /\ nx # x /\ \A m \in live : m <= x \/ nx <= m
      /\ first \in live /\ \A m \in live : first <= m
  BY <1>2, LinkFacts DEF nx
<1>4. \A m \in live : m \in Nat /\ m # Methods!Nil
  BY LinkFacts
<1>5. /\ first' = Methods!Nil => live' = {}
      /\ first' # Methods!Nil => first' \in live' /\ \A m \in live' : first' <= m
  <2>1. CASE x = first
    <3>1. \A m \in live' : x < m
      BY <1>1, <1>2, <1>3, <1>4, <2>1
    <3>2. \A m \in live' : ~ (m <= x)
      BY <1>1, <1>2, <1>4, <3>1
    <3>. QED
      BY <1>1, <1>3, <2>1, <3>2
  <2>2. CASE x # first
    BY <1>1, <1>3, <1>4, <2>2
  <2>. QED
    BY <2>1, <2>2
<1>6. ASSUME NEW n \in live'
      PROVE  LET a == heap'[n].next
             IN  /\ a = Methods!Nil => \A m \in live' : m <= n
                 /\ a # Methods!Nil =>
                      a \in live' /\ n < a /\ \A m \in live' : m <= n \/ a <= m
  <2>1. n \in live /\ n # x
    BY <1>1
  <2>2. CASE x # first /\ n = p
    <3>1. heap'[n].next = nx
      BY <1>1, <2>1, <2>2
    <3>2. p < x /\ p \in Nat /\ x \in Nat
      BY <1>2, <1>4, <2>2
    <3>3. \A m \in live' : m <= p \/ x <= m
      <4>1. After(p) # Methods!Nil /\ p \in live
        BY <1>2, <1>4, <2>2
      <4>2. \A m \in live : m <= p \/ After(p) <= m
        BY <4>1, LinkFacts
      <4>. QED
        BY <1>1, <1>2, <2>2, <4>2
    <3>4. \A m \in live' : m \in Nat /\ m # x
      BY <1>1, <1>4
    <3>5. CASE nx = Methods!Nil
      <4>1. \A m \in live' : m <= x
        BY <1>1, <1>3, <3>5
      <4>2. \A m \in live' : m <= p
        BY <3>2, <3>3, <3>4, <4>1
      <4>. QED
        BY <2>2, <3>1, <3>5, <4>2
    <3>6. CASE nx # Methods!Nil
      <4>1. nx \in live' /\ nx \in Nat /\ \A m \in live' : m <= x \/ nx <= m
        BY <1>1, <1>3, <1>4, <3>6
      <4>2. x < nx
        BY <1>2, <3>6, LinkFacts DEF nx
      <4>3. p < nx
        BY <3>2, <4>1, <4>2
      <4>4. \A m \in live' : m <= p \/ nx <= m
        BY <3>2, <3>3, <3>4, <4>1
      <4>. QED
        BY <2>2, <3>1, <3>6, <4>1, <4>3, <4>4
    <3>. QED
      BY <3>5, <3>6
  <2>3. CASE ~ (x # first /\ n = p)
    <3>1. heap'[n].next = After(n)
      BY <1>1, <2>1, <2>3
    <3>2. /\ After(n) = Methods!Nil => \A m \in live : m <= n
          /\ After(n) # Methods!Nil =>
               /\ After(n) \in live /\ After(n) \in Nat /\ n < After(n)
               /\ \A m \in live : m <= n \/ After(n) <= m
      BY <2>1, LinkFacts
    <3>3. After(n) # x
      <4>1. SUFFICES ASSUME After(n) = x PROVE FALSE
        OBVIOUS
      <4>2. n < x /\ \A m \in live : m <= n \/ x <= m
        BY <1>2, <1>4, <3>2, <4>1
      <4>3. CASE x = first
        BY <1>2, <1>3, <1>4, <2>1, <4>2, <4>3
      <4>4. CASE x # first
        <5>1. p \in live /\ After(p) = x /\ p < x /\ p # n /\ x # Methods!Nil
          BY <1>2, <1>4, <2>3, <4>4
        <5>2. n <= p \/ x <= n
          BY <2>1, <5>1, LinkFacts
        <5>3. p <= n \/ x <= p
          BY <4>2, <5>1
        <5>. QED
          BY <1>2, <1>4, <2>1, <4>2, <5>1, <5>2, <5>3
      <4>. QED
        BY <4>3, <4>4
    <3>. QED
      BY <1>1, <3>1, <3>2, <3>3
  <2>. QED
    BY <2>2, <2>3
<1>. QED
  BY <1>5, <1>6 DEF Linked, After

LEMMA DelFreeInv ==
  ASSUME MethodsInv, Methods!DelStep, Methods!Victim(del)
  PROVE  MethodsInv'
<1> DEFINE x == del.it
           nx == After(x)
           ends == nx = Methods!Nil \/ del.op = "one"
<1>1. /\ heap' \in Seq(Method) /\ Len(heap') = Len(heap)
      /\ \A n \in live \ {x} :
           /\ heap'[n].path = heap[n].path /\ heap'[n].spec = heap[n].spec
           /\ heap'[n].next = IF x # first /\ n = del.prev THEN nx ELSE After(n)
      /\ live' = live \ {x} /\ first' = IF x = first THEN nx ELSE first
  BY DelFreeFacts
<1>2. /\ del # Methods!Absent
      /\ del' = IF ends THEN Methods!Absent ELSE [del EXCEPT !.it = nx, !.prev = del.prev]
      /\ UNCHANGED <<registered, stayed, coerce, Methods!walk>>
  BY DEF Methods!DelStep, After, Methods!Previous
<1>3. /\ x \in live /\ Doomed(x) /\ x \notin registered /\ del.op \in {"all", "one"}
      /\ msg = <<>> \/ running # Methods!Nil
      /\ \A n \in live : n \in registered <=> ~ (x <= n /\ Doomed(n))
      /\ x # first => del.prev \in live \ {x}
  <2>1. x <= x
    BY <1>2, DeletionFacts, LinkFacts
  <2>2. x # first => del.prev # x
    <3>1. x # first => del.prev < x /\ del.prev \in Nat
      BY <1>2, DeletionFacts, LinkFacts
    <3>. QED
      BY <3>1
  <2>. QED
    BY <1>2, <2>1, <2>2, DeletionFacts
<1>4. /\ nx = Methods!Nil => \A n \in live : n <= x
      /\ nx # Methods!Nil => /\ nx \in live /\ nx \in Nat /\ x < nx
                             /\ \A n \in live : n <= x \/ nx <= n
  BY <1>3, LinkFacts
<1>5. \A n \in live : n \in Nat
  BY LinkFacts
<1>6. del \in MethodsDeletion
  BY DEF MethodsInv, MethodsTypeOK
<1>7. UNCHANGED <<msg, it, running, called>>
  BY <1>2 DEF Methods!walk
<1>8. registered \subseteq live /\ live \subseteq 1 .. Len(heap) /\ stayed \subseteq registered
  BY DEF MethodsInv, MethodsTypeOK
<1>. HIDE DEF x, nx
<1>9. /\ ends => del' = Methods!Absent
      /\ ~ ends => /\ del' \in MethodsDeletion /\ del'.it = nx /\ del'.prev = del.prev
                   /\ del'.op = "all" /\ del.op = "all"
                   /\ del'.path = del.path /\ del'.spec = del.spec
  <2>1. ends => del' = Methods!Absent
    BY <1>2
  <2>2. ASSUME ~ ends
        PROVE  /\ del' \in MethodsDeletion /\ del'.it = nx /\ del'.prev = del.prev
               /\ del'.op = "all" /\ del.op = "all"
               /\ del'.path = del.path /\ del'.spec = del.spec
    <3>1. del' = [del EXCEPT !.it = nx, !.prev = del.prev] /\ nx \in Nat /\ del.op = "all"
      BY <1>2, <1>3, <1>4, <2>2
    <3>. QED
      BY <1>6, <3>1 DEF MethodsDeletion
  <2>. QED
    BY <2>1, <2>2
<1>10. del' \in MethodsDeletion /\ (del'.op = "none" => del' = Methods!Absent)
  <2>1. Methods!Absent \in MethodsDeletion
    BY DEF MethodsDeletion, Methods!Absent, Methods!Deletion, Methods!Nil
  <2>. QED
    BY <1>9, <2>1
<1>11. MethodsTypeOK'
  <2>1. first' \in Nat
    <3>1. nx = Methods!Nil \/ nx \in Nat
      BY <1>4
    <3>. QED
      BY <1>1, <3>1 DEF MethodsInv, MethodsTypeOK, Methods!Nil
  <2>2. live' \subseteq 1 .. Len(heap') /\ registered' \subseteq live' /\ stayed' \subseteq registered'
    BY <1>1, <1>2, <1>3, <1>8
  <2>. QED
    BY <1>1, <1>7, <1>10, <2>1, <2>2 DEF MethodsInv, MethodsTypeOK
<1>12. DeletionInv'
  <2>1. CASE ends
    <3>1. ASSUME NEW n \in live, x <= n, Doomed(n) PROVE n = x
      <4>1. CASE nx = Methods!Nil
        BY <1>3, <1>4, <1>5, <3>1, <4>1
      <4>2. CASE del.op = "one"
        BY <1>3, <3>1, <4>2 DEF Doomed
      <4>. QED
        BY <2>1, <4>1, <4>2
    <3>2. live' = registered'
      BY <1>1, <1>2, <1>3, <1>8, <3>1
    <3>. QED
      BY <1>9, <2>1, <3>2 DEF DeletionInv
  <2>2. CASE ~ ends
    <3>1. nx \in live' /\ x < nx /\ nx \in Nat /\ x \in Nat /\ \A n \in live' : n <= x \/ nx <= n
      BY <1>1, <1>3, <1>4, <1>5, <2>2
    <3>2. \A n \in live' : Doomed(n)' <=> Doomed(n)
      BY <1>1, <1>9, <2>2 DEF Doomed, Methods!Means
    <3>3. \A n \in live' : n \in Nat /\ n # x
      BY <1>1, <1>5
    <3>4. \A n \in live' : x <= n <=> nx <= n
      BY <3>1, <3>3
    <3>5. live' \ registered' = {n \in live' : del'.it <= n /\ Doomed(n)'}
      BY <1>1, <1>2, <1>3, <1>9, <2>2, <3>2, <3>4
    <3>6. del' # Methods!Absent
      BY <1>9, <2>2 DEF Methods!Absent, Methods!Deletion
    <3>7. del'.it # first' => del'.prev \in live' /\ After(del.prev)' = del'.it
      <4>0. del'.it = nx /\ del'.prev = del.prev
        BY <1>9, <2>2
      <4>1. SUFFICES ASSUME nx # first' PROVE del.prev \in live' /\ heap'[del.prev].next = nx
        <5>1. After(del.prev)' = heap'[del.prev].next
          BY <4>0 DEF After
        <5>. QED
          BY <4>0, <5>1
      <4>2. x # first
        BY <1>1, <4>1
      <4>. QED
        BY <1>1, <1>3, <4>2
    <3>8. del'.it \in live' /\ (msg' = <<>> \/ running' # Methods!Nil)
      BY <1>3, <1>7, <1>9, <2>2, <3>1
    <3>. QED
      BY <3>5, <3>6, <3>7, <3>8, Zenon DEF DeletionInv
  <2>. QED
    BY <2>1, <2>2
<1>13. TraversalInv' /\ Methods!ReplyExact'
  <2>1. it > 0 => it \in registered' \/ it = running
    BY <1>2 DEF MethodsInv, TraversalInv
  <2>2. \A n \in stayed : n \in live \ {x}
    BY <1>3, <1>8
  <2>3. it # Methods!Astray
    BY <1>3 DEF MethodsInv, TraversalInv, Methods!Nil, Methods!Astray
  <2>. QED
    BY <1>1, <1>2, <2>1, <2>2, <2>3, WalkKept
<1>. QED
  BY <1>11, <1>12, <1>13, DelFreeLinked DEF MethodsInv

LEMMA DelStepInv ==
  ASSUME MethodsInv, Methods!DelStep
  PROVE  MethodsInv'
BY DelPassInv, DelFreeInv

LEMMA EnableCoercionInv ==
  ASSUME MethodsInv, NEW b \in BOOLEAN, Methods!EnableCoercion(b)
  PROVE  MethodsInv'
<1>1. /\ msg = <<>> /\ stayed = {} /\ it = Methods!Nil
      /\ UNCHANGED <<heap, live, first, registered, stayed, del, Methods!walk>>
  BY DEF Methods!EnableCoercion, Methods!list, MethodsInv, TraversalInv
<1>2. UNCHANGED <<msg, it, ret, running, called, reply>>
  BY <1>1 DEF Methods!walk
<1>. USE DEF MethodsInv
<1>3. MethodsTypeOK' /\ Linked'
  BY <1>1, <1>2 DEF MethodsTypeOK, Linked, After
<1>4. DeletionInv'
  BY <1>1, <1>2 DEF DeletionInv, Doomed, Methods!Means, After
<1>5. TraversalInv' /\ Methods!ReplyExact'
  BY <1>1, <1>2 DEF TraversalInv, Methods!ReplyExact, Methods!Nil, Methods!Astray
<1>. QED
  BY <1>3, <1>4, <1>5

-----------------------------------------------------------------------------
(* dispatch_method.                                                        *)

(* A step of the walk leaves the list alone.                               *)
LEMMA ListKept ==
  ASSUME MethodsInv, UNCHANGED <<heap, live, first, registered, coerce, del>>,
         msg' = <<>> \/ del = Methods!Absent
  PROVE  Linked' /\ DeletionInv'
<1>1. Linked'
  BY DEF MethodsInv, Linked, After
<1>2. DeletionInv'
  BY DEF MethodsInv, DeletionInv, Doomed, Methods!Means, After
<1>. QED
  BY <1>1, <1>2

LEMMA DispatchInv ==
  ASSUME MethodsInv, NEW m \in Messages, Methods!Dispatch(m)
  PROVE  MethodsInv'
<1>1. /\ del = Methods!Absent /\ live = registered /\ msg = <<>>
      /\ msg' = <<m>> /\ it' = first /\ called' = <<>> /\ stayed' = registered
      /\ UNCHANGED <<heap, live, first, registered, coerce, del, ret, running>>
  BY MayCallFacts DEF Methods!Dispatch
<1>2. running = Methods!Nil
  BY <1>1 DEF MethodsInv, TraversalInv
<1>3. Linked' /\ DeletionInv'
  BY <1>1, ListKept
<1>4. MethodsTypeOK'
  BY <1>1 DEF MethodsInv, MethodsTypeOK
<1>5. /\ first # Methods!Nil => first \in registered
      /\ first \in Nat
  BY <1>1 DEF MethodsInv, Linked, MethodsTypeOK
<1>6. \A n \in stayed' : ~ (it' = Methods!Nil \/ n < it')
  <2>1. \A n \in live : first # Methods!Nil /\ first <= n /\ n \in Nat /\ first \in Nat
    BY LinkFacts DEF MethodsInv, MethodsTypeOK
  <2>. QED
    BY <1>1, <2>1
<1>7. TraversalInv'
  BY <1>1, <1>2, <1>5, <1>6 DEF TraversalInv, Methods!Nil, Methods!Astray
<1>8. Methods!ReplyExact'
  BY <1>1 DEF Methods!ReplyExact
<1>. QED
  BY <1>3, <1>4, <1>7, <1>8 DEF MethodsInv

(* While a message is walked no deletion is under way, but by a handler.   *)
LEMMA WalkFacts ==
  ASSUME MethodsInv, msg # <<>>, running = Methods!Nil
  PROVE  del = Methods!Absent /\ live = registered
BY DEF MethodsInv, DeletionInv

LEMMA CallHandlerInv ==
  ASSUME MethodsInv, Methods!CallHandler
  PROVE  MethodsInv'
<1>1. /\ msg # <<>> /\ Methods!AtNode /\ running = Methods!Nil /\ running' = it
      /\ UNCHANGED <<heap, live, first, registered, stayed, coerce, del, msg, it, ret, called, reply>>
  BY DEF Methods!CallHandler, Methods!list
<1>2. Linked' /\ DeletionInv'
  BY <1>1, WalkFacts, ListKept
<1>3. it \in Nat /\ it # Methods!Astray /\ MethodsTypeOK'
  BY <1>1 DEF MethodsInv, MethodsTypeOK, Methods!AtNode, Methods!Nil, Methods!Astray
<1>4. \A n : Methods!Fits(n, msg[1])' = Methods!Fits(n, msg[1]) /\ Served(n)' = Served(n)
  BY <1>1, FitsKept DEF Served
<1>5. TraversalInv'
  BY <1>1, <1>3, <1>4 DEF MethodsInv, TraversalInv
<1>6. Methods!ReplyExact'
  BY <1>1 DEF MethodsInv, Methods!ReplyExact
<1>. QED
  BY <1>2, <1>3, <1>5, <1>6 DEF MethodsInv

LEMMA PassByInv ==
  ASSUME MethodsInv, Methods!PassBy
  PROVE  MethodsInv'
<1>1. /\ msg # <<>> /\ Methods!AtNode /\ running = Methods!Nil /\ it' = After(it)
      /\ ~ Methods!Fits(it, msg[1])
      /\ UNCHANGED <<heap, live, first, registered, stayed, coerce, del, msg, ret, running, called, reply>>
  BY DEF Methods!PassBy, Methods!list, After
<1>2. del = Methods!Absent /\ live = registered
  BY <1>1, WalkFacts
<1>3. Linked' /\ DeletionInv'
  BY <1>1, <1>2, ListKept
<1>4. it \in live /\ it > 0 /\ stayed \subseteq live
  <2>1. it > 0
    BY <1>1 DEF MethodsInv, MethodsTypeOK, Methods!AtNode, Methods!Nil, Methods!Astray
  <2>2. it # Methods!Nil
    BY <1>1 DEF Methods!AtNode
  <2>. QED
    BY <1>1, <1>2, <2>1, <2>2 DEF MethodsInv, TraversalInv, MethodsTypeOK
<1>5. /\ it \in Nat
      /\ it' = Methods!Nil => \A n \in live : n <= it
      /\ it' # Methods!Nil => /\ it' \in live /\ it' \in Nat /\ it < it'
                              /\ \A n \in live : n <= it \/ it' <= n
  BY <1>1, <1>4, LinkFacts
<1>6. MethodsTypeOK' /\ it' \in Nat
  BY <1>1, <1>5 DEF MethodsInv, MethodsTypeOK, Methods!Nil
<1>7. \A n : Methods!Fits(n, msg[1])' = Methods!Fits(n, msg[1]) /\ Served(n)' = Served(n)
  BY <1>1, FitsKept DEF Served
<1>8. TraversalInv /\ called \in Seq([id : Nat, ret : {0, 1}])
  BY DEF MethodsInv, MethodsTypeOK
<1>9. ASSUME NEW i \in 1 .. Len(called)
      PROVE  /\ it' > 0 => called[i].id < it'
             /\ ~ (called[i].ret = 0 /\ msg[1].kind # "pattern")
  <2>0. called[i] \in [id : Nat, ret : {0, 1}]
    BY <1>8, ElementOfSeq
  <2>1. called[i].id < it
    BY <1>1, <1>4, <1>8, Zenon DEF TraversalInv
  <2>2. called[i].id \in Nat
    BY <2>0
  <2>3. it' > 0 => called[i].id < it'
    BY <1>5, <2>1, <2>2 DEF Methods!Nil
  <2>4. called[i].ret = 0 /\ msg[1].kind # "pattern" => it = Methods!Nil
    BY <1>1, <1>8, <1>9, Zenon DEF TraversalInv
  <2>5. it # Methods!Nil
    BY <1>1 DEF Methods!AtNode
  <2>. QED
    BY <2>3, <2>4, <2>5
<1>10. ASSUME NEW n \in stayed, Methods!Fits(n, msg[1]), it' = Methods!Nil \/ n < it'
       PROVE  Served(n)
  <2>1. n <= it /\ n \in Nat /\ n # it
    <3>1. n \in live /\ n \in Nat
      BY <1>4, LinkFacts
    <3>. QED
      BY <1>1, <1>5, <1>10, <3>1
  <2>2. n < it
    BY <1>5, <2>1
  <2>. QED
    BY <1>1, <1>8, <1>10, <2>2 DEF TraversalInv
<1>11. TraversalInv'
  <2>1. /\ \A i, k \in 1 .. Len(called) : i < k => called[i].id < called[k].id
        /\ it' > 0 => it' \in registered
    BY <1>1, <1>2, <1>5, <1>8 DEF TraversalInv, Methods!Nil
  <2>2. it' # Methods!Astray
    BY <1>6 DEF Methods!Astray
  <2>. QED
    BY <1>1, <1>7, <1>9, <1>10, <2>1, <2>2 DEF TraversalInv
<1>12. Methods!ReplyExact'
  BY <1>1 DEF MethodsInv, Methods!ReplyExact
<1>. QED
  BY <1>3, <1>6, <1>11, <1>12 DEF MethodsInv

LEMMA HandlerReturnsInv ==
  ASSUME MethodsInv, NEW r \in {0, 1}, Methods!HandlerReturns(r)
  PROVE  MethodsInv'
<1> DEFINE new == [id |-> running, ret |-> r]
           ends == r = 0 /\ msg[1].kind # "pattern"
<1>1. /\ running # Methods!Nil /\ del = Methods!Absent /\ running' = Methods!Nil
      /\ called' = Append(called, new) /\ ret' = r
      /\ it' = IF ends THEN Methods!Nil ELSE IF running \in live THEN After(it) ELSE Methods!Astray
      /\ UNCHANGED <<heap, live, first, registered, stayed, coerce, del, msg, reply>>
  BY DEF Methods!HandlerReturns, Methods!Returned, Methods!list, After
<1>2. /\ live = registered /\ running = it /\ it # Methods!Nil /\ msg # <<>>
      /\ stayed \subseteq live /\ it \in Nat /\ it > 0
  BY <1>1 DEF MethodsInv, DeletionInv, TraversalInv, MethodsTypeOK, Methods!Nil
<1>3. Linked' /\ DeletionInv'
  BY <1>1, ListKept
<1>4. it \in live =>
        /\ After(it) = Methods!Nil => \A n \in live : n <= it
        /\ After(it) # Methods!Nil =>
             /\ After(it) \in live /\ After(it) \in Nat /\ it < After(it)
             /\ \A n \in live : n <= it \/ After(it) <= n
  BY <1>2, LinkFacts
<1>5. /\ it' \in Nat \union {Methods!Astray} /\ Methods!Astray = -1 /\ Methods!Nil = 0
      /\ it' > 0 => it' \in live /\ it < it'
      /\ it' = Methods!Astray => it \notin live /\ ~ ends
  BY <1>1, <1>2, <1>4 DEF Methods!Nil, Methods!Astray
<1>6. TraversalInv /\ called \in Seq([id : Nat, ret : {0, 1}])
  BY DEF MethodsInv, MethodsTypeOK
<1>7. new \in [id : Nat, ret : {0, 1}] /\ new.id = it /\ new.ret = r
  BY <1>2, <1>4
<1>. HIDE DEF new
<1>8. /\ called' \in Seq([id : Nat, ret : {0, 1}]) /\ Len(called') = Len(called) + 1
      /\ Len(called) \in Nat /\ called'[Len(called) + 1] = new
      /\ \A i \in 1 .. Len(called) : called'[i] = called[i]
  BY <1>1, <1>6, <1>7, AppendProperties
<1>9. ASSUME NEW i \in 1 .. Len(called)
      PROVE  /\ called[i].id \in Nat /\ called[i].id < it
             /\ ~ (called[i].ret = 0 /\ msg[1].kind # "pattern")
  <2>1. called[i] \in [id : Nat, ret : {0, 1}]
    BY <1>6, ElementOfSeq
  <2>2. called[i].id < it /\ (called[i].ret = 0 /\ msg[1].kind # "pattern" => it = Methods!Nil)
    BY <1>2, <1>6, Zenon DEF TraversalInv
  <2>. QED
    BY <1>2, <2>1, <2>2
<1>10. MethodsTypeOK'
  BY <1>1, <1>5, <1>8 DEF MethodsInv, MethodsTypeOK, Methods!Nil
<1>11. \A n : Methods!Fits(n, msg[1])' = Methods!Fits(n, msg[1])
  BY <1>1, FitsKept
<1>12. \A i \in 1 .. Len(called') : i \in 1 .. Len(called) \/ i = Len(called) + 1
  BY <1>8
<1>13. ASSUME NEW i \in 1 .. Len(called'), NEW k \in 1 .. Len(called'), i < k
       PROVE  called'[i].id < called'[k].id
  <2>1. i \in 1 .. Len(called) /\ called'[i] = called[i]
    BY <1>8, <1>13
  <2>2. CASE k = Len(called) + 1
    BY <1>7, <1>8, <1>9, <2>1, <2>2
  <2>3. CASE k \in 1 .. Len(called)
    <3>1. called'[k] = called[k]
      BY <1>8, <2>3
    <3>2. called[i].id < called[k].id
      BY <1>2, <1>6, <1>13, <2>1, <2>3, Zenon DEF TraversalInv
    <3>. QED
      BY <2>1, <3>1, <3>2
  <2>. QED
    BY <1>12, <2>2, <2>3
<1>14. ASSUME NEW i \in 1 .. Len(called')
       PROVE  /\ it' > 0 => called'[i].id < it'
              /\ called'[i].ret = 0 /\ msg[1].kind # "pattern" => ret' = 0 /\ it' = Methods!Nil
  <2>1. CASE i = Len(called) + 1
    BY <1>1, <1>5, <1>7, <1>8, <2>1
  <2>2. CASE i \in 1 .. Len(called)
    <3>1. called'[i] = called[i]
      BY <1>8, <2>2
    <3>2. called[i].id \in Nat /\ called[i].id < it /\ ~ (called[i].ret = 0 /\ msg[1].kind # "pattern")
      BY <1>9, <2>2
    <3>3. it' > 0 => called[i].id < it'
      BY <1>2, <1>5, <3>2
    <3>. QED
      BY <3>1, <3>2, <3>3
  <2>. QED
    BY <1>12, <2>1, <2>2
<1>15. ASSUME NEW n \in stayed, Methods!Fits(n, msg[1]), it' = Methods!Nil \/ n < it'
       PROVE  Served(n)'
  <2>1. n \in live /\ n \in Nat
    BY <1>2, LinkFacts
  <2>2. CASE n < it
    <3>1. Served(n)
      BY <1>2, <1>6, <1>15, <2>2 DEF TraversalInv
    <3>2. PICK i \in 1 .. Len(called) :
             \/ called[i].id = n
             \/ msg[1].kind # "pattern" /\ called[i].ret = 0 /\ called[i].id < n
      BY <3>1 DEF Served
    <3>3. i \in 1 .. Len(called') /\ called'[i] = called[i]
      BY <1>8
    <3>. QED
      BY <1>1, <3>2, <3>3 DEF Served
  <2>3. Len(called) + 1 \in 1 .. Len(called')
    BY <1>8
  <2>4. CASE n = it
    BY <1>7, <1>8, <2>3, <2>4 DEF Served
  <2>5. CASE it < n
    <3>1. ends
      <4>1. SUFFICES ASSUME ~ ends PROVE FALSE
        OBVIOUS
      <4>2. it \in live /\ it' = After(it)
        BY <1>1, <1>2, <1>5, <1>15, <2>1, <4>1
      <4>3. CASE After(it) = Methods!Nil
        BY <1>2, <1>4, <2>1, <2>5, <4>2, <4>3
      <4>4. CASE After(it) # Methods!Nil
        BY <1>2, <1>4, <1>15, <2>1, <2>5, <4>2, <4>4
      <4>. QED
        BY <4>3, <4>4
    <3>. QED
      BY <1>1, <1>7, <1>8, <2>3, <2>5, <3>1 DEF Served
  <2>. QED
    BY <1>2, <2>1, <2>2, <2>4, <2>5
<1>16. TraversalInv'
  <2>1. it' > 0 => it' \in registered' \/ it' = running'
    BY <1>1, <1>2, <1>5
  <2>3. it' = Methods!Astray => /\ running' = Methods!Nil /\ called' # <<>>
                                /\ called'[Len(called')].id \notin live'
    <3>1. called' # <<>> /\ called'[Len(called')].id = it
      BY <1>7, <1>8
    <3>. QED
      BY <1>1, <1>5, <3>1
  <2>2. /\ msg' # <<>> /\ running' = Methods!Nil
        /\ \A n \in stayed' :
             Methods!Fits(n, msg[1])' /\ (it' = Methods!Nil \/ n < it') => Served(n)'
    BY <1>1, <1>2, <1>11, <1>15
  <2>. QED
    BY <1>1, <1>13, <1>14, <2>1, <2>2, <2>3, Zenon DEF TraversalInv
<1>17. Methods!ReplyExact'
  BY <1>1, <1>2 DEF Methods!ReplyExact
<1>. QED
  BY <1>3, <1>10, <1>16, <1>17 DEF MethodsInv

(* The names under a path, as far as a method.                             *)
AddName(p, n, names) ==
  LET q == heap[n].path
  IN  IF n \notin registered \/ ~Methods!IsStrictPrefix(p, q)
           \/ Methods!Contains(names, q[Len(p) + 1])
      THEN names ELSE Append(names, q[Len(p) + 1])

UpTo(p, k) ==
  CHOOSE f : f = [n \in 0 .. k |-> IF n = 0 THEN <<>> ELSE AddName(p, n, f[n - 1])]

LEMMA NamesUpTo ==
  ASSUME NEW p
  PROVE  Methods!Listing(p) = UpTo(p, Len(heap))[Len(heap)]
BY DEF Methods!Listing, UpTo, AddName

(* Any of them.                                                            *)
Candidates(p, k) == {heap[n].path[Len(p) + 1] : n \in 1 .. k}

NamesSoFar(p, f, k) ==
  /\ f \in [0 .. k -> Seq(Candidates(p, Len(heap)))] /\ f[0] = <<>>
  /\ \A n \in 1 .. k : f[n] = AddName(p, n, f[n - 1])
  /\ \A n \in 0 .. k : Methods!IsInjective(f[n])

LEMMA AddNameFacts ==
  ASSUME NEW p, Len(heap) \in Nat, NEW n \in 1 .. Len(heap),
         NEW names \in Seq(Candidates(p, Len(heap))), Methods!IsInjective(names)
  PROVE  /\ AddName(p, n, names) \in Seq(Candidates(p, Len(heap)))
         /\ Methods!IsInjective(AddName(p, n, names))
<1> DEFINE e == heap[n].path[Len(p) + 1]
           C == Candidates(p, Len(heap))
<1>1. e \in C
  BY DEF Candidates
<1>. HIDE DEF e, C
<1>2. CASE AddName(p, n, names) = names
  BY <1>2 DEF C
<1>3. CASE AddName(p, n, names) = Append(names, e) /\ ~ Methods!Contains(names, e)
  <2>1. /\ Append(names, e) \in Seq(C) /\ Len(Append(names, e)) = Len(names) + 1
        /\ Append(names, e)[Len(names) + 1] = e /\ Len(names) \in Nat
        /\ \A i \in 1 .. Len(names) : Append(names, e)[i] = names[i]
    BY <1>1, AppendProperties DEF C
  <2> DEFINE s == Append(names, e)
  <2>. HIDE DEF s
  <2>2. DOMAIN s = 1 .. Len(names) + 1 /\ DOMAIN names = 1 .. Len(names)
    BY <2>1 DEF s, C
  <2>3. \A i \in 1 .. Len(names) : names[i] # e
    BY <1>3 DEF Methods!Contains
  <2>4. ASSUME NEW i \in DOMAIN s, NEW k \in DOMAIN s, s[i] = s[k] PROVE i = k
    <3>1. \A m \in DOMAIN s : m \in 1 .. Len(names) \/ m = Len(names) + 1
      BY <2>1, <2>2
    <3>2. CASE i \in 1 .. Len(names) /\ k \in 1 .. Len(names)
      BY <2>1, <2>2, <2>4, <3>2 DEF Methods!IsInjective, s
    <3>3. CASE i \in 1 .. Len(names) /\ k = Len(names) + 1
      BY <2>1, <2>3, <2>4, <3>3 DEF s
    <3>4. CASE i = Len(names) + 1 /\ k \in 1 .. Len(names)
      BY <2>1, <2>3, <2>4, <3>4 DEF s
    <3>. QED
      BY <3>1, <3>2, <3>3, <3>4
  <2>5. Methods!IsInjective(s)
    BY <2>4 DEF Methods!IsInjective
  <2>. QED
    BY <1>3, <2>1, <2>5 DEF s, C
<1>. QED
  BY <1>2, <1>3 DEF AddName, e

LEMMA NamesExtend ==
  ASSUME NEW p, Len(heap) \in Nat, NEW k \in Nat, k + 1 <= Len(heap),
         NEW f, NamesSoFar(p, f, k)
  PROVE  \E g : NamesSoFar(p, g, k + 1)
<1> DEFINE S == Seq(Candidates(p, Len(heap)))
           g == [n \in 0 .. k + 1 |-> IF n = k + 1 THEN AddName(p, k + 1, f[k]) ELSE f[n]]
<1>. HIDE DEF S
<1>1. /\ f \in [0 .. k -> S] /\ f[0] = <<>>
      /\ \A n \in 1 .. k : f[n] = AddName(p, n, f[n - 1])
      /\ \A n \in 0 .. k : Methods!IsInjective(f[n])
  BY DEF NamesSoFar, S
<1>2. f[k] \in S /\ Methods!IsInjective(f[k]) /\ k + 1 \in 1 .. Len(heap)
  BY <1>1
<1>3. AddName(p, k + 1, f[k]) \in S /\ Methods!IsInjective(AddName(p, k + 1, f[k]))
  BY <1>2, AddNameFacts DEF S
<1>4. \A n \in 0 .. k + 1 : n \in 0 .. k \/ n = k + 1
  OBVIOUS
<1>5. \A n \in 0 .. k + 1 : g[n] \in S /\ Methods!IsInjective(g[n])
  BY <1>1, <1>3, <1>4
<1>6. g \in [0 .. k + 1 -> S] /\ g[0] = <<>>
  BY <1>1, <1>5
<1>7. \A n \in 0 .. k : g[n] = f[n]
  OBVIOUS
<1>8. \A n \in 1 .. k + 1 : g[n] = AddName(p, n, g[n - 1])
  <2>1. g[k + 1] = AddName(p, k + 1, g[k])
    BY <1>7
  <2>2. \A n \in 1 .. k : n \in 0 .. k /\ n - 1 \in 0 .. k
    OBVIOUS
  <2>. HIDE DEF g
  <2>3. \A n \in 1 .. k : g[n] = AddName(p, n, g[n - 1])
    BY <1>1, <1>7, <2>2
  <2>4. \A n \in 1 .. k + 1 : n \in 1 .. k \/ (n = k + 1 /\ n - 1 = k)
    OBVIOUS
  <2>. QED
    BY <2>1, <2>3, <2>4
<1>. QED
  BY <1>5, <1>6, <1>8 DEF NamesSoFar, S

(* A reply names nobody twice.                                             *)
LEMMA NamesInjective ==
  ASSUME NEW p, Len(heap) \in Nat
  PROVE  Methods!IsInjective(Methods!Listing(p))
<1> DEFINE S == {k \in Nat : k <= Len(heap) => \E f : NamesSoFar(p, f, k)}
<1>1. 0 \in S
  <2> DEFINE f == [n \in 0 .. 0 |-> <<>>]
  <2>1. f \in [0 .. 0 -> Seq(Candidates(p, Len(heap)))] /\ f[0] = <<>>
    OBVIOUS
  <2>2. \A n \in 0 .. 0 : Methods!IsInjective(f[n])
    BY DEF Methods!IsInjective
  <2>. HIDE DEF f
  <2>3. NamesSoFar(p, f, 0)
    BY <2>1, <2>2 DEF NamesSoFar
  <2>. QED
    BY <2>3
<1>2. ASSUME NEW k \in Nat, k \in S PROVE k + 1 \in S
  <2>. SUFFICES ASSUME k + 1 <= Len(heap) PROVE \E f : NamesSoFar(p, f, k + 1)
    OBVIOUS
  <2>1. PICK f : NamesSoFar(p, f, k)
    BY <1>2
  <2>. QED
    BY <2>1, NamesExtend
<1>3. Len(heap) \in S
  <2>. HIDE DEF S
  <2>. QED
    BY <1>1, <1>2, SetInduction
<1>4. PICK f : NamesSoFar(p, f, Len(heap))
  BY <1>3
<1>5. f = [n \in 0 .. Len(heap) |-> IF n = 0 THEN <<>> ELSE AddName(p, n, f[n - 1])]
  <2>1. \A n \in 0 .. Len(heap) : n = 0 \/ n \in 1 .. Len(heap)
    OBVIOUS
  <2>2. \A n \in 0 .. Len(heap) : f[n] = IF n = 0 THEN <<>> ELSE AddName(p, n, f[n - 1])
    BY <1>4, <2>1 DEF NamesSoFar
  <2>. QED
    BY <1>4, <2>2 DEF NamesSoFar
<1> DEFINE u == UpTo(p, Len(heap))
<1>6. u = [n \in 0 .. Len(heap) |-> IF n = 0 THEN <<>> ELSE AddName(p, n, u[n - 1])]
  <2>1. \E g : g = [n \in 0 .. Len(heap) |-> IF n = 0 THEN <<>> ELSE AddName(p, n, g[n - 1])]
    BY <1>5
  <2>. QED
    BY <2>1 DEF UpTo
<1>. HIDE DEF u
<1>7. u[0] = <<>> /\ \A n \in 1 .. Len(heap) : u[n] = AddName(p, n, u[n - 1])
  BY <1>6
<1> DEFINE C == Seq(Candidates(p, Len(heap)))
           T == {n \in Nat : n <= Len(heap) => u[n] \in C /\ Methods!IsInjective(u[n])}
<1>8. 0 \in T
  <2>1. <<>> \in C /\ Methods!IsInjective(<<>>)
    BY DEF Methods!IsInjective
  <2>. QED
    BY <1>7, <2>1
<1>9. ASSUME NEW n \in Nat, n \in T PROVE n + 1 \in T
  <2>. SUFFICES ASSUME n + 1 <= Len(heap)
                PROVE  u[n + 1] \in C /\ Methods!IsInjective(u[n + 1])
    OBVIOUS
  <2>1. n + 1 \in 1 .. Len(heap) /\ (n + 1) - 1 = n
    OBVIOUS
  <2>2. u[n + 1] = AddName(p, n + 1, u[n]) /\ u[n] \in C /\ Methods!IsInjective(u[n])
    BY <1>7, <1>9, <2>1
  <2>. QED
    BY <2>1, <2>2, AddNameFacts
<1>10. Len(heap) \in T
  <2>. HIDE DEF T
  <2>. QED
    BY <1>8, <1>9, SetInduction
<1>. QED
  BY <1>10, NamesUpTo DEF u

LEMMA FinishInv ==
  ASSUME MethodsInv, Methods!Finish
  PROVE  MethodsInv'
<1>1. /\ msg # <<>> /\ it = Methods!Nil /\ running = Methods!Nil
      /\ msg' = <<>> /\ stayed' = {}
      /\ reply' = IF ret = 1 /\ msg[1].kind = "dir" THEN <<Methods!Listing(msg[1].path)>> ELSE <<>>
      /\ UNCHANGED <<heap, live, first, registered, coerce, del, it, running, called>>
  BY DEF Methods!Finish
<1>2. Linked' /\ DeletionInv'
  BY <1>1, ListKept
<1>3. MethodsTypeOK'
  BY <1>1 DEF MethodsInv, MethodsTypeOK
<1>4. TraversalInv'
  BY <1>1 DEF TraversalInv, Methods!Nil, Methods!Astray
<1>5. Methods!ReplyExact'
  <2>. SUFFICES ASSUME reply' # <<>>
                PROVE  /\ Methods!IsInjective(reply'[1])
                       /\ \A i \in 1 .. Len(called') : called'[i].ret # 0
    BY DEF Methods!ReplyExact
  <2>1. ret = 1 /\ msg[1].kind = "dir" /\ reply'[1] = Methods!Listing(msg[1].path)
    BY <1>1
  <2>2. Len(heap) \in Nat
    BY DEF MethodsInv, MethodsTypeOK
  <2>3. Methods!IsInjective(reply'[1])
    BY <2>1, <2>2, NamesInjective
  <2>4. ASSUME NEW i \in 1 .. Len(called), called[i].ret = 0 PROVE FALSE
    <3>1. TraversalInv
      BY DEF MethodsInv
    <3>2. called[i].ret = 0 /\ msg[1].kind # "pattern" => ret = 0
      BY <1>1, <3>1, Zenon DEF TraversalInv
    <3>. QED
      BY <2>1, <2>4, <3>2
  <2>. QED
    BY <1>1, <2>3, <2>4
<1>. QED
  BY <1>2, <1>3, <1>4, <1>5 DEF MethodsInv

LEMMA MethodsStutterInv ==
  ASSUME MethodsInv, UNCHANGED Methods!vars
  PROVE  MethodsInv'
<1>1. UNCHANGED <<heap, live, first, registered, stayed, coerce, del, msg, it, ret,
                  running, called, reply>>
  BY DEF Methods!vars, Methods!list, Methods!walk
<1>2. Linked'
  BY <1>1 DEF MethodsInv, Linked, After
<1>3. DeletionInv'
  BY <1>1 DEF MethodsInv, DeletionInv, Doomed, Methods!Means, After
<1>4. MethodsTypeOK'
  BY <1>1 DEF MethodsInv, MethodsTypeOK
<1>5. TraversalInv' /\ Methods!ReplyExact'
  <2>1. it > 0 => it \in registered' \/ it = running
    BY <1>1 DEF MethodsInv, TraversalInv
  <2>2. UNCHANGED Methods!walk
    BY DEF Methods!vars
  <2>. QED
    BY <1>1, <2>1, <2>2, WalkKept
<1>. QED
  BY <1>2, <1>3, <1>4, <1>5 DEF MethodsInv

LEMMA MethodsNextInv ==
  ASSUME MethodsInv, [Methods!Next]_(Methods!vars)
  PROVE  MethodsInv'
<1>1. ASSUME NEW p \in Paths \union {Methods!AnyPath},
             NEW s \in Specs \union {Methods!AnySpec}, Methods!AddMethod(p, s)
      PROVE  MethodsInv'
  BY <1>1, AddMethodInv
<1>2. ASSUME NEW p \in Paths \union DOMAIN Matched \union {Methods!AnyPath},
             NEW s \in Specs \union {Methods!AnySpec}, Methods!DelMethod(p, s)
      PROVE  MethodsInv'
  BY <1>2, DelMethodInv
<1>3. ASSUME NEW m \in Methods!Ids, Methods!DelLoMethod(m) PROVE MethodsInv'
  BY <1>3, DelLoMethodInv
<1>4. CASE Methods!DelStep
  BY <1>4, DelStepInv
<1>5. ASSUME NEW b \in BOOLEAN, Methods!EnableCoercion(b) PROVE MethodsInv'
  BY <1>5, EnableCoercionInv
<1>6. ASSUME NEW m \in Messages, Methods!Dispatch(m) PROVE MethodsInv'
  BY <1>6, DispatchInv
<1>7. CASE Methods!CallHandler
  BY <1>7, CallHandlerInv
<1>8. CASE Methods!PassBy
  BY <1>8, PassByInv
<1>9. CASE Methods!Finish
  BY <1>9, FinishInv
<1>10. ASSUME NEW r \in {0, 1}, Methods!HandlerReturns(r) PROVE MethodsInv'
  BY <1>10, HandlerReturnsInv
<1>11. CASE UNCHANGED Methods!vars
  BY <1>11, MethodsStutterInv
<1>. QED
  BY <1>1, <1>2, <1>3, <1>4, <1>5, <1>6, <1>7, <1>8, <1>9, <1>10, <1>11 DEF Methods!Next

LEMMA MethodsInvExact == MethodsInv => MethodsExact
<1>. SUFFICES ASSUME MethodsInv PROVE MethodsExact
  OBVIOUS
<1>1. TraversalInv /\ DeletionInv /\ registered \subseteq live /\ Methods!ReplyExact
  BY DEF MethodsInv, MethodsTypeOK
<1>2. Methods!WalkLive
  <2>1. Methods!AtNode => it > 0
    BY DEF MethodsInv, MethodsTypeOK, Methods!AtNode, Methods!Nil, Methods!Astray
  <2>2. called # <<>> => Methods!Last(called) = called[Len(called)]
    BY DEF Methods!Last
  <2>. QED
    BY <1>1, <2>1, <2>2 DEF TraversalInv, Methods!WalkLive
<1>3. Methods!EachInTurn
  <2>. SUFFICES ASSUME msg # <<>>, it = Methods!Nil
                PROVE  /\ \A i, k \in 1 .. Len(called) : i < k => called[i].id < called[k].id
                       /\ \A n \in stayed : Methods!Fits(n, msg[1]) => Served(n)
    BY DEF Methods!EachInTurn, Served
  <2>. QED
    BY <1>1, Zenon DEF TraversalInv
<1>4. Methods!ListExact
  <2>. SUFFICES ASSUME del = Methods!Absent
                PROVE  /\ live = registered /\ first = Methods!Least(registered)
                       /\ \A n \in registered :
                            After(n) = Methods!Least({m \in registered : m > n})
    BY DEF Methods!ListExact, After
  <2>1. live = registered
    BY <1>1 DEF DeletionInv
  <2>2. ASSUME NEW S \in SUBSET Nat, NEW x \in S, \A y \in S : x <= y
        PROVE  Methods!Least(S) = x
    <3>1. \A y \in S : (\A z \in S : y <= z) => y = x
      BY <2>2
    <3>. QED
      BY <2>2, <3>1 DEF Methods!Least, Methods!Min
  <2>3. Methods!Least({}) = Methods!Nil
    BY DEF Methods!Least
  <2>4. registered \in SUBSET Nat
    BY <2>1, LinkFacts
  <2>5. first = Methods!Least(registered)
    <3>1. CASE first = Methods!Nil
      BY <2>1, <2>3, <3>1 DEF MethodsInv, Linked
    <3>2. CASE first # Methods!Nil
      <4>1. first \in registered /\ \A m \in registered : first <= m
        BY <2>1, <3>2 DEF MethodsInv, Linked
      <4>. QED
        BY <2>2, <2>4, <4>1
    <3>. QED
      BY <3>1, <3>2
  <2>6. ASSUME NEW n \in registered
        PROVE  After(n) = Methods!Least({m \in registered : m > n})
    <3> DEFINE S == {m \in registered : m > n}
    <3>1. n \in live /\ n \in Nat /\ S \in SUBSET Nat
      BY <2>1, <2>4
    <3>2. CASE After(n) = Methods!Nil
      <4>1. \A m \in registered : m <= n
        BY <2>1, <3>1, <3>2, LinkFacts
      <4>2. S = {}
        BY <2>4, <3>1, <4>1
      <4>. QED
        BY <2>3, <3>2, <4>2
    <3>3. CASE After(n) # Methods!Nil
      <4>1. /\ After(n) \in registered /\ After(n) \in Nat /\ n < After(n)
            /\ \A m \in registered : m <= n \/ After(n) <= m
        BY <2>1, <3>1, <3>3, LinkFacts
      <4>2. After(n) \in S
        BY <3>1, <4>1
      <4>3. \A m \in S : After(n) <= m
        BY <2>4, <3>1, <4>1
      <4>. HIDE DEF S
      <4>4. Methods!Least(S) = After(n)
        BY <2>2, <3>1, <4>2, <4>3
      <4>. QED
        BY <4>4 DEF S
    <3>. QED
      BY <3>2, <3>3
  <2>. QED
    BY <2>1, <2>5, <2>6
<1>. QED
  BY <1>1, <1>2, <1>3, <1>4 DEF MethodsExact

(* However calls to add and delete methods come between messages and in    *)
(* the handlers that they call: between two calls the list is what was     *)
(* added and not deleted, in order; a message reaches every method that    *)
(* fits it and stays, once and in order, up to the one that handled it;    *)
(* the walk reads a freed node behind a handler that deleted its own method *)
(* only (1923), and then nothing is said of where it goes; and a reply     *)
(* names each name once (dispatch_method, server.c).                       *)
THEOREM MethodsServed == Methods!Spec => []MethodsExact
<1>1. Methods!Init => MethodsInv
  BY MethodsInitInv
<1>2. MethodsInv /\ [Methods!Next]_(Methods!vars) => MethodsInv'
  BY MethodsNextInv
<1>3. MethodsInv => MethodsExact
  BY MethodsInvExact
<1>. QED
  BY <1>1, <1>2, <1>3, PTL DEF Methods!Spec

-----------------------------------------------------------------------------
(* LoWait.                                                                 *)

InWait == {"again", "poll", "listening", "clients"}

WaitTypeOK ==
  /\ clock \in Nat /\ then \in Nat /\ begun \in Nat
  /\ queued \in [Several!Servers -> SUBSET Nat]
  /\ sockets_len \in [Several!Servers -> 1 .. MaxClients + 1]
  /\ waiting \in [Several!Servers -> [0 .. MaxClients -> Nat]]
  /\ \A s \in Tcp : sockets_len[s] + waiting[s][0] <= MaxClients + 1
  /\ buffered \in [Several!Servers -> Nat]
  /\ at \in InWait \union {"out", "recv"} /\ index \in Several!Servers
  /\ status \in [Several!Servers -> BOOLEAN]
  /\ timeout \in Nat /\ sched_timeout \in Nat /\ asked \in Nat /\ accepted \in Nat
  /\ seen \subseteq Several!Servers

(* No event is missed, and what is left of the time was rounded up in each *)
(* round.                                                                  *)
RoundBegan == IF at = "again" THEN clock ELSE then
TimeInv ==
  at \in InWait =>
    /\ begun <= RoundBegan /\ RoundBegan <= clock
    /\ \A s \in Several!Servers : \A t \in queued[s] : clock <= t \/ clock <= begun
    /\ asked * Unit <= timeout * Unit + (RoundBegan - begun)
    /\ timeout * Unit + (RoundBegan - begun) <= asked * Unit + accepted * (Unit - 1)

(* poll waits until the timeout, the longest time or an event.             *)
ScheduleInv ==
  at \in {"poll", "listening", "clients"} =>
    /\ sched_timeout <= timeout /\ clock - then <= sched_timeout * Unit
    /\ \A s \in Several!Servers : \A t \in queued[s] :
         sched_timeout = 0 \/ sched_timeout * Unit <= t - then
    /\ \/ sched_timeout = timeout \/ sched_timeout = Longest
       \/ \E s \in Several!Servers : \E t \in queued[s] : t - then < sched_timeout * Unit + Unit

(* Who is told is busy, and stays so.                                      *)
StatusInv ==
  /\ at \in InWait => \A s \in Several!Servers : status[s] => Several!Busy(s)
  /\ at \in {"poll", "listening", "clients"} =>
       \A s \in Several!Servers : buffered[s] > 0 => status[s]

(* What poll found, until it is told.                                      *)
Found(s, i) == revents[Several!First(s) + i]
ArrayInv ==
  /\ at = "poll" => index = 1
  /\ at \in {"listening", "clients"} =>
       /\ revents \in [1 .. Cardinality(Several!Sockets) -> BOOLEAN]
       /\ \A si \in Several!Sockets : Found(si[1], si[2]) => Several!Ready(si[1], si[2])
       /\ \A s \in Several!Servers :
            at = "clients" \/ s < index => (Found(s, 0) => s \notin Tcp /\ status[s])
       /\ \A s \in seen :
            \/ status[s] \/ Several!Delay(s) < WaitSlack
            \/ \E i \in Several!Clients(s) : Found(s, i)
            \/ s \notin Tcp /\ Found(s, 0)
       /\ \/ sched_timeout * Unit <= clock - then
          \/ \E si \in Several!Sockets : Found(si[1], si[2])

WaitInv == WaitTypeOK /\ TimeInv /\ ScheduleInv /\ StatusInv /\ ArrayInv /\ WaitTells

LEMMA MinIs ==
  ASSUME NEW S \in SUBSET Int, NEW m \in S, \A y \in S : m <= y
  PROVE  Several!Min(S) = m
<1>1. \A x \in S : (\A y \in S : x <= y) => x = m
  OBVIOUS
<1>. QED
  BY <1>1 DEF Several!Min

LEMMA MinFacts ==
  ASSUME NEW S \in SUBSET Nat, S # {}
  PROVE  Several!Min(S) \in S /\ \A y \in S : Several!Min(S) <= y
<1>1. PICK m \in S : \A y \in S : m <= y
  BY NatLeast
<1>2. Several!Min(S) = m
  BY <1>1, MinIs
<1>. QED
  BY <1>1, <1>2

LEMMA MaxPair ==
  ASSUME NEW a \in Int, NEW c \in Int
  PROVE  Several!Max({a, c}) = IF a >= c THEN a ELSE c
<1> DEFINE m == IF a >= c THEN a ELSE c
<1>1. m \in {a, c} /\ \A y \in {a, c} : m >= y
  OBVIOUS
<1>2. \A x \in {a, c} : (\A y \in {a, c} : x >= y) => x = m
  BY <1>1
<1>. HIDE DEF m
<1>3. Several!Max({a, c}) = m
  BY <1>1, <1>2 DEF Several!Max
<1>. QED
  BY <1>3 DEF m

LEMMA MinPair ==
  ASSUME NEW a \in Int, NEW c \in Int
  PROVE  Several!Min({a, c}) = IF a <= c THEN a ELSE c
<1>1. CASE a <= c
  BY <1>1, MinIs
<1>2. CASE ~(a <= c)
  BY <1>2, MinIs
<1>. QED
  BY <1>1, <1>2

(* When the next of the events q is due, at time c.                        *)
DelayOf(q, c) ==
  Several!Min({Longest * Unit} \union {Several!Max({0, t - c}) : t \in q})

LEMMA DelayFacts ==
  ASSUME NEW q \in SUBSET Nat, NEW c \in Nat
  PROVE  /\ DelayOf(q, c) \in Nat /\ Longest * Unit \in Nat
         /\ DelayOf(q, c) <= Longest * Unit
         /\ \A t \in q : DelayOf(q, c) <= t - c \/ DelayOf(q, c) <= 0
         /\ \/ DelayOf(q, c) = Longest * Unit
            \/ \E t \in q : t - c <= DelayOf(q, c)
<1> DEFINE Left(t) == Several!Max({0, t - c})
           S == {Longest * Unit} \union {Left(t) : t \in q}
<1>1. \A t \in q : /\ Left(t) \in Nat /\ t - c <= Left(t)
                   /\ Left(t) <= t - c \/ Left(t) <= 0
  <2>1. TAKE t \in q
  <2>2. Left(t) = IF 0 >= t - c THEN 0 ELSE t - c
    BY MaxPair
  <2>. QED
    BY <2>2
<1>2. Longest * Unit \in Nat
  BY WaitAssumption
<1>3. DelayOf(q, c) = Several!Min(S)
  BY DEF DelayOf
<1>. HIDE DEF Left
<1>4. S \in SUBSET Nat /\ S # {}
  BY <1>1, <1>2
<1>5. DelayOf(q, c) \in S /\ \A y \in S : DelayOf(q, c) <= y
  BY <1>3, <1>4, MinFacts
<1>6. Longest * Unit \in S /\ \A t \in q : Left(t) \in S
  OBVIOUS
<1>7. \/ DelayOf(q, c) = Longest * Unit
      \/ \E t \in q : DelayOf(q, c) = Left(t)
  BY <1>5
<1>8. DelayOf(q, c) \in Nat
  BY <1>4, <1>5
<1>. HIDE DEF S
<1>. QED
  BY <1>1, <1>2, <1>5, <1>6, <1>7, <1>8

LEMMA DelayNow ==
  ASSUME NEW s
  PROVE  Several!Delay(s) = DelayOf(queued[s], clock)
BY DEF Several!Delay, DelayOf

(* It comes nearer while time passes.                                      *)
LEMMA DelayFalls ==
  ASSUME NEW q \in SUBSET Nat, NEW c \in Nat, NEW d \in Nat, c <= d
  PROVE  DelayOf(q, d) <= DelayOf(q, c)
<1>1. /\ DelayOf(q, c) \in Nat /\ Longest * Unit \in Nat
      /\ DelayOf(q, c) = Longest * Unit \/ \E t \in q : t - c <= DelayOf(q, c)
  BY DelayFacts
<1>2. /\ DelayOf(q, d) \in Nat /\ DelayOf(q, d) <= Longest * Unit
      /\ \A t \in q : DelayOf(q, d) <= t - d \/ DelayOf(q, d) <= 0
  BY DelayFacts
<1>. QED
  BY <1>1, <1>2

-----------------------------------------------------------------------------
Earlier(s) == {si \in Several!Sockets : si[1] < s}
Own(s) == {s} \X (0 .. sockets_len[s] - 1)

LEMMA SocketsFinite ==
  ASSUME WaitTypeOK
  PROVE  /\ IsFiniteSet(Several!Sockets) /\ Cardinality(Several!Sockets) \in Nat
         /\ \A s \in Several!Servers :
              /\ IsFiniteSet(Earlier(s)) /\ Cardinality(Earlier(s)) \in Nat
              /\ IsFiniteSet(Own(s)) /\ Cardinality(Own(s)) = sockets_len[s]
              /\ Earlier(s) \union Own(s) \subseteq Several!Sockets
              /\ Cardinality(Earlier(s) \union Own(s)) = Cardinality(Earlier(s)) + sockets_len[s]
<1>1. IsFiniteSet(Several!Servers) /\ IsFiniteSet(0 .. MaxClients)
  BY WaitAssumption, FS_Interval DEF Several!Servers
<1>2. IsFiniteSet(Several!Servers \X (0 .. MaxClients))
  BY <1>1, FS_Product
<1>3. IsFiniteSet(Several!Sockets)
  BY <1>2, FS_Subset DEF Several!Sockets
<1>4. ASSUME NEW s \in Several!Servers
      PROVE  /\ IsFiniteSet(Earlier(s)) /\ Cardinality(Earlier(s)) \in Nat
             /\ IsFiniteSet(Own(s)) /\ Cardinality(Own(s)) = sockets_len[s]
             /\ Earlier(s) \union Own(s) \subseteq Several!Sockets
             /\ Cardinality(Earlier(s) \union Own(s))
                  = Cardinality(Earlier(s)) + sockets_len[s]
  <2>1. sockets_len[s] \in 1 .. MaxClients + 1 /\ MaxClients \in Nat
    BY WaitAssumption DEF WaitTypeOK
  <2>2. IsFiniteSet(Earlier(s)) /\ Cardinality(Earlier(s)) \in Nat
    BY <1>3, FS_Subset, FS_CardinalityType DEF Earlier
  <2>3. /\ IsFiniteSet(0 .. sockets_len[s] - 1)
        /\ Cardinality(0 .. sockets_len[s] - 1) = sockets_len[s]
    BY <2>1, FS_Interval
  <2>4. IsFiniteSet({s}) /\ Cardinality({s}) = 1
    BY FS_Singleton
  <2>5. IsFiniteSet(Own(s)) /\ Cardinality(Own(s)) = 1 * sockets_len[s]
    BY <2>3, <2>4, FS_Product DEF Own
  <2>6. Own(s) \subseteq Several!Sockets
    BY <2>1 DEF Own, Several!Sockets
  <2>7. Earlier(s) \intersect Own(s) = {}
    BY <2>1 DEF Own, Earlier, Several!Servers
  <2>8. Cardinality(Earlier(s) \union Own(s))
          = Cardinality(Earlier(s)) + Cardinality(Own(s)) - Cardinality({})
    BY <2>2, <2>5, <2>7, FS_Union
  <2>9. Cardinality({}) = 0
    BY FS_EmptySet
  <2>. QED
    BY <2>1, <2>2, <2>5, <2>6, <2>8, <2>9 DEF Earlier
<1>. QED
  BY <1>3, <1>4, FS_CardinalityType

(* Every socket has a place of its own in the array.                       *)
LEMMA PlacesDistinct ==
  ASSUME WaitTypeOK
  PROVE  /\ \A s \in Several!Servers : Several!First(s) \in Nat
         /\ \A si \in Several!Sockets :
              Several!First(si[1]) + si[2] \in 1 .. Cardinality(Several!Sockets)
         /\ \A si, ri \in Several!Sockets :
              Several!First(si[1]) + si[2] = Several!First(ri[1]) + ri[2] => si = ri
<1>1. \A s \in Several!Servers :
        /\ Several!First(s) = 1 + Cardinality(Earlier(s)) /\ Cardinality(Earlier(s)) \in Nat
        /\ sockets_len[s] \in 1 .. MaxClients + 1
  <2>1. TAKE s \in Several!Servers
  <2>2. Several!First(s) = 1 + Cardinality(Earlier(s))
    BY DEF Several!First, Earlier, Several!Cardinality, Cardinality
  <2>. QED
    BY <2>2, SocketsFinite DEF WaitTypeOK
<1>2. \A si \in Several!Sockets :
        /\ si = <<si[1], si[2]>> /\ si[1] \in Several!Servers /\ si[1] \in Int
        /\ si[2] \in Nat /\ si[2] < sockets_len[si[1]] /\ sockets_len[si[1]] \in Nat
  BY WaitAssumption DEF Several!Sockets, Several!Servers, WaitTypeOK
<1>3. \A s \in Several!Servers :
        Cardinality(Earlier(s)) + sockets_len[s] <= Cardinality(Several!Sockets)
  <2>1. TAKE s \in Several!Servers
  <2>2. /\ Earlier(s) \union Own(s) \in SUBSET Several!Sockets
        /\ IsFiniteSet(Several!Sockets)
        /\ Cardinality(Earlier(s) \union Own(s)) = Cardinality(Earlier(s)) + sockets_len[s]
    BY SocketsFinite
  <2>3. Cardinality(Earlier(s) \union Own(s)) <= Cardinality(Several!Sockets)
    BY <2>2, FS_Subset
  <2>. QED
    BY <2>2, <2>3
<1>4. ASSUME NEW s \in Several!Servers, NEW r \in Several!Servers, s < r
      PROVE  Cardinality(Earlier(s)) + sockets_len[s] <= Cardinality(Earlier(r))
  <2>1. Earlier(s) \union Own(s) \subseteq Earlier(r)
    <3>1. SUFFICES ASSUME NEW x \in Earlier(s) \union Own(s) PROVE x \in Earlier(r)
      OBVIOUS
    <3>2. x \in Several!Sockets
      BY SocketsFinite
    <3>3. x[1] < s \/ x[1] = s
      BY DEF Earlier, Own
    <3>. QED
      BY <1>2, <1>4, <3>2, <3>3 DEF Earlier, Several!Servers
  <2>2. /\ IsFiniteSet(Earlier(r))
        /\ Cardinality(Earlier(s) \union Own(s)) = Cardinality(Earlier(s)) + sockets_len[s]
    BY SocketsFinite
  <2>3. Cardinality(Earlier(s) \union Own(s)) <= Cardinality(Earlier(r))
    BY <2>1, <2>2, FS_Subset
  <2>. QED
    BY <2>2, <2>3
<1>5. ASSUME NEW si \in Several!Sockets, NEW ri \in Several!Sockets, si[1] < ri[1]
      PROVE  Several!First(si[1]) + si[2] < Several!First(ri[1]) + ri[2]
  <2>1. /\ si[1] \in Several!Servers /\ ri[1] \in Several!Servers
        /\ si[2] < sockets_len[si[1]] /\ si[2] \in Nat /\ ri[2] \in Nat
    BY <1>2
  <2>2. Cardinality(Earlier(si[1])) + sockets_len[si[1]] <= Cardinality(Earlier(ri[1]))
    BY <1>4, <1>5, <2>1
  <2>. QED
    BY <1>1, <2>1, <2>2, SocketsFinite
<1>6. ASSUME NEW si \in Several!Sockets, NEW ri \in Several!Sockets,
             Several!First(si[1]) + si[2] = Several!First(ri[1]) + ri[2]
      PROVE  si = ri
  <2>1. /\ si[1] \in Several!Servers /\ ri[1] \in Several!Servers
        /\ si[1] \in Int /\ ri[1] \in Int /\ si[2] \in Nat /\ ri[2] \in Nat
        /\ si = <<si[1], si[2]>> /\ ri = <<ri[1], ri[2]>>
    BY <1>2
  <2>2. Several!First(si[1]) \in Nat /\ Several!First(ri[1]) \in Nat
    BY <1>1, <2>1
  <2>3. ~(si[1] < ri[1]) /\ ~(ri[1] < si[1])
    BY <1>5, <1>6, <2>1, <2>2
  <2>4. si[1] = ri[1]
    BY <2>1, <2>3
  <2>5. si[2] = ri[2]
    BY <1>6, <2>1, <2>2, <2>4
  <2>. QED
    BY <2>1, <2>4, <2>5
<1>7. ASSUME NEW si \in Several!Sockets
      PROVE  Several!First(si[1]) + si[2] \in 1 .. Cardinality(Several!Sockets)
  <2>1. si[1] \in Several!Servers /\ si[2] < sockets_len[si[1]] /\ si[2] \in Nat
    BY <1>2
  <2>. QED
    BY <1>1, <1>3, <2>1, SocketsFinite
<1>. QED
  BY <1>1, <1>6, <1>7

-----------------------------------------------------------------------------
(* A server stays busy while time passes and nothing is taken from it.     *)
LEMMA BusyKept ==
  ASSUME WaitTypeOK, WaitTypeOK', NEW s \in Several!Servers, Several!Busy(s),
         clock <= clock', queued'[s] = queued[s], buffered'[s] = buffered[s],
         sockets_len[s] <= sockets_len'[s],
         \A i \in 0 .. MaxClients :
           waiting[s][i] > 0 => waiting'[s][i] > 0 \/ (s \in Tcp /\ i = 0)
  PROVE  Several!Busy(s)'
<1>1. /\ clock \in Nat /\ clock' \in Nat /\ WaitSlack \in Nat /\ MaxClients \in Nat
      /\ queued[s] \in SUBSET Nat /\ queued'[s] \in SUBSET Nat
      /\ sockets_len[s] \in 1 .. MaxClients + 1 /\ sockets_len'[s] \in 1 .. MaxClients + 1
  BY WaitAssumption DEF WaitTypeOK
<1>2. Several!Delay(s)' = DelayOf(queued[s], clock')
  BY DEF Several!Delay, DelayOf
<1>3. /\ Several!Delay(s)' <= Several!Delay(s) /\ Several!Delay(s)' \in Nat
      /\ Several!Delay(s) \in Nat
  BY <1>1, <1>2, DelayNow, DelayFalls, DelayFacts
<1>. QED
  BY <1>1, <1>3 DEF Several!Busy, Several!Clients, Several!Ready

LEMMA Milliseconds ==
  ASSUME NEW a \in Nat
  PROVE  /\ a \div Unit \in Nat /\ (a \div Unit) * Unit \in Nat
         /\ (a \div Unit) * Unit <= a /\ a < (a \div Unit) * Unit + Unit
BY WaitAssumption

LEMMA MoreTime ==
  ASSUME NEW a \in Int, NEW c \in Int, a <= c
  PROVE  a * Unit <= c * Unit /\ a * Unit \in Int /\ c * Unit \in Int
BY WaitAssumption

LEMMA TimeDiffers ==
  ASSUME NEW a \in Int, NEW c \in Int
  PROVE  /\ (a - c) * Unit = a * Unit - c * Unit
         /\ (a + 1) * (Unit - 1) = a * (Unit - 1) + Unit - 1
         /\ a * Unit \in Int /\ a * (Unit - 1) \in Int
BY WaitAssumption

LEMMA WaitInitInv == Several!Init => WaitInv
<1>. SUFFICES ASSUME Several!Init PROVE WaitInv
  OBVIOUS
<1>. USE WaitAssumption DEF Several!Init, Several!Servers
<1>1. WaitTypeOK
  <2>1. 1 \in 1 .. Num /\ 1 \in 1 .. MaxClients + 1 /\ {} \in SUBSET Nat
    OBVIOUS
  <2>. QED
    BY <2>1 DEF WaitTypeOK
<1>2. TimeInv /\ ScheduleInv /\ StatusInv /\ ArrayInv
  BY DEF TimeInv, ScheduleInv, StatusInv, ArrayInv, InWait
<1>3. WaitTells
  BY DEF WaitTells, Several!TellsBusy, Several!EndsInTime, Several!Returned
<1>. QED
  BY <1>1, <1>2, <1>3 DEF WaitInv

(* What does not wait need only be of its type.                            *)
LEMMA OutsideInv ==
  ASSUME WaitTypeOK', at' = "out"
  PROVE  WaitInv'
BY DEF WaitInv, TimeInv, ScheduleInv, StatusInv, ArrayInv, InWait, WaitTells,
       Several!TellsBusy, Several!EndsInTime, Several!Returned

LEMMA SocketsKept ==
  ASSUME UNCHANGED sockets_len
  PROVE  /\ Several!Sockets' = Several!Sockets
         /\ \A s \in Several!Servers : Several!First(s)' = Several!First(s)
         /\ \A s : Several!Clients(s)' = Several!Clients(s)
BY DEF Several!Sockets, Several!First, Several!Clients

LEMMA ArriveInv ==
  ASSUME WaitInv, NEW s \in Several!Servers, NEW i \in 0 .. MaxClients, Several!Arrive(s, i)
  PROVE  WaitInv'
<1>. USE DEF WaitInv
<1>1. /\ UNCHANGED <<clock, queued, buffered, sockets_len, at, index, status, timeout,
                     sched_timeout, then, revents, begun, asked, accepted, seen>>
      /\ waiting' = [waiting EXCEPT ![s][i] = @ + 1]
      /\ s \in Tcp /\ i = 0 => sockets_len[s] + waiting[s][0] <= MaxClients
  BY DEF Several!Arrive, Several!loop, Several!call, Several!history
<1>2. /\ waiting' \in [Several!Servers -> [0 .. MaxClients -> Nat]]
      /\ \A r \in Several!Servers : \A k \in 0 .. MaxClients :
           /\ waiting[r][k] > 0 => waiting'[r][k] > 0
           /\ waiting'[r][k] = IF r = s /\ k = i THEN waiting[r][k] + 1 ELSE waiting[r][k]
  <2>1. waiting \in [Several!Servers -> [0 .. MaxClients -> Nat]]
    BY DEF WaitTypeOK
  <2>2. waiting' = [waiting EXCEPT ![s] = [waiting[s] EXCEPT ![i] = waiting[s][i] + 1]]
    BY <1>1
  <2>3. waiting[s] \in [0 .. MaxClients -> Nat] /\ waiting[s][i] + 1 \in Nat
    <3>1. waiting[s] \in [0 .. MaxClients -> Nat]
      BY <2>1
    <3>2. waiting[s][i] \in Nat
      BY <3>1
    <3>. QED
      BY <3>1, <3>2
  <2>4. [waiting[s] EXCEPT ![i] = waiting[s][i] + 1] \in [0 .. MaxClients -> Nat]
    BY <2>3
  <2>5. waiting' \in [Several!Servers -> [0 .. MaxClients -> Nat]]
    BY <2>1, <2>2, <2>4
  <2>6. \A r \in Several!Servers : \A k \in 0 .. MaxClients :
          waiting'[r][k] = IF r = s /\ k = i THEN waiting[r][k] + 1 ELSE waiting[r][k]
    BY <2>1, <2>2
  <2>7. \A r \in Several!Servers : \A k \in 0 .. MaxClients : waiting[r][k] \in Nat
    BY <2>1
  <2>. QED
    BY <2>5, <2>6, <2>7
<1>3. \A r \in Tcp : sockets_len'[r] + waiting'[r][0] <= MaxClients + 1
  <2>1. TAKE r \in Tcp
  <2>2. r \in Several!Servers /\ 0 \in 0 .. MaxClients
    BY WaitAssumption DEF Several!Servers
  <2>3. waiting'[r][0] = IF r = s /\ 0 = i THEN waiting[r][0] + 1 ELSE waiting[r][0]
    BY <1>2, <2>2
  <2>4. sockets_len[r] + waiting[r][0] <= MaxClients + 1 /\ waiting[r][0] \in Nat
        /\ sockets_len[r] \in Nat /\ MaxClients \in Nat
    <3>1. /\ waiting[r] \in [0 .. MaxClients -> Nat]
          /\ sockets_len[r] \in 1 .. MaxClients + 1
          /\ sockets_len[r] + waiting[r][0] <= MaxClients + 1
      BY <2>2 DEF WaitTypeOK
    <3>2. waiting[r][0] \in Nat
      BY <2>2, <3>1
    <3>. QED
      BY <3>1, <3>2, WaitAssumption
  <2>. QED
    BY <1>1, <2>3, <2>4
<1>4. WaitTypeOK'
  BY <1>1, <1>2, <1>3 DEF WaitTypeOK
<1>5. \A r \in Several!Servers : Several!Busy(r) => Several!Busy(r)'
  <2>1. TAKE r \in Several!Servers
  <2>2. clock <= clock' /\ sockets_len[r] <= sockets_len'[r]
    BY <1>1 DEF WaitTypeOK
  <2>. QED
    BY <1>1, <1>2, <1>4, <2>2, BusyKept
<1>6. TimeInv' /\ ScheduleInv'
  BY <1>1 DEF TimeInv, ScheduleInv, RoundBegan
<1>7. StatusInv'
  BY <1>1, <1>5 DEF StatusInv
<1>8. ArrayInv'
  <2>1. \A si \in Several!Sockets :
          Several!Ready(si[1], si[2]) => Several!Ready(si[1], si[2])'
    BY <1>2 DEF Several!Sockets, Several!Ready
  <2>2. \A r \in seen : Several!Delay(r)' = Several!Delay(r)
    BY <1>1 DEF Several!Delay
  <2>3. \A r \in Several!Servers : \A k : Found(r, k)' = Found(r, k)
    BY <1>1, SocketsKept DEF Found
  <2>4. /\ \A si \in Several!Sockets : si[1] \in Several!Servers
        /\ seen \subseteq Several!Servers
    BY DEF Several!Sockets, WaitTypeOK
  <2>. QED
    BY <1>1, <2>1, <2>2, <2>3, <2>4, SocketsKept DEF ArrayInv
<1>9. WaitTells'
  <2>1. Several!TellsBusy'
    <3>1. \A r \in index .. Num : r \in Several!Servers
      BY WaitAssumption DEF WaitTypeOK, Several!Servers
    <3>. QED
      BY <1>1, <1>5, <3>1 DEF WaitTells, Several!TellsBusy, Several!Returned
  <2>2. Several!EndsInTime'
    BY <1>1 DEF WaitTells, Several!EndsInTime, Several!Returned, Several!Waited
  <2>. QED
    BY <2>1, <2>2 DEF WaitTells
<1>. QED
  BY <1>4, <1>6, <1>7, <1>8, <1>9

LEMMA PollWaits ==
  ASSUME WaitTypeOK, ScheduleInv, at = "poll"
  PROVE  /\ Several!Min({timeout, sched_timeout}) = sched_timeout
         /\ sched_timeout * Unit \in Nat
BY MinPair, WaitAssumption DEF WaitTypeOK, ScheduleInv

LEMMA WaitTickInv ==
  ASSUME WaitInv, Several!Tick
  PROVE  WaitInv'
<1>. USE DEF WaitInv
<1>1. /\ clock' = clock + 1 /\ (at = "out" \/ (at = "poll" /\ ~Several!PollEnds))
      /\ UNCHANGED <<queued, buffered, waiting, sockets_len, at, index, status, timeout,
                     sched_timeout, then, revents, begun, asked, accepted, seen>>
  BY DEF Several!Tick, Several!world, Several!loop, Several!call, Several!history
<1>2. WaitTypeOK'
  BY <1>1 DEF WaitTypeOK
<1>3. CASE at = "out"
  BY <1>1, <1>2, <1>3, OutsideInv
<1>4. CASE at = "poll"
  <2>1. clock - then < sched_timeout * Unit /\ sched_timeout * Unit \in Nat
    BY <1>1, <1>4, PollWaits DEF Several!PollEnds, WaitTypeOK
  <2>2. sched_timeout # 0
    <3>1. 0 * Unit = 0 /\ clock - then >= 0
      BY <1>4, WaitAssumption DEF TimeInv, InWait, RoundBegan, WaitTypeOK
    <3>2. clock - then \in Int
      BY DEF WaitTypeOK
    <3>3. sched_timeout = 0 => sched_timeout * Unit = 0
      BY <3>1
    <3>. QED
      BY <2>1, <3>1, <3>2, <3>3
  <2>3. \A s \in Several!Servers : \A t \in queued[s] : clock' <= t
    BY <1>1, <1>4, <2>1, <2>2 DEF ScheduleInv, WaitTypeOK
  <2>4. TimeInv'
    BY <1>1, <1>4, <2>3 DEF TimeInv, InWait, RoundBegan, WaitTypeOK
  <2>5. ScheduleInv'
    BY <1>1, <1>4, <2>1 DEF ScheduleInv, WaitTypeOK
  <2>6. \A s \in Several!Servers : Several!Busy(s) => Several!Busy(s)'
    <3>1. TAKE s \in Several!Servers
    <3>2. clock <= clock' /\ sockets_len[s] <= sockets_len'[s]
      BY <1>1 DEF WaitTypeOK
    <3>. QED
      BY <1>1, <1>2, <3>2, BusyKept
  <2>7. StatusInv'
    BY <1>1, <2>6 DEF StatusInv
  <2>8. ArrayInv' /\ WaitTells'
    BY <1>1, <1>4 DEF ArrayInv, WaitTells, Several!TellsBusy, Several!EndsInTime,
         Several!Returned
  <2>. QED
    BY <1>2, <2>4, <2>5, <2>7, <2>8
<1>. QED
  BY <1>1, <1>3, <1>4

(* How long poll will wait, at most.                                       *)
Schedules == {Several!Delay(s) \div Unit : s \in Several!Servers}

LEMMA SchedulesFacts ==
  ASSUME WaitTypeOK
  PROVE  LET x == Several!Min({timeout} \union Schedules)
         IN  /\ x \in Nat /\ x <= timeout
             /\ \A s \in Several!Servers : \A t \in queued[s] :
                  x = 0 \/ x * Unit <= t - clock
             /\ \/ x = timeout \/ x = Longest
                \/ \E s \in Several!Servers : \E t \in queued[s] : t - clock < x * Unit + Unit
<1> DEFINE x == Several!Min({timeout} \union Schedules)
<1>1. clock \in Nat /\ timeout \in Nat /\ Longest \in Nat /\ Unit \in Nat \ {0}
      /\ \A s \in Several!Servers : queued[s] \in SUBSET Nat
  BY WaitAssumption DEF WaitTypeOK
<1>2. ASSUME NEW s \in Several!Servers
      PROVE  LET d == Several!Delay(s)
             IN  /\ d \div Unit \in Nat /\ (d \div Unit) * Unit \in Nat
                 /\ (d \div Unit) * Unit <= d /\ d < (d \div Unit) * Unit + Unit
                 /\ d \in Nat /\ \A t \in queued[s] : d <= t - clock \/ d <= 0
                 /\ d = Longest * Unit \/ \E t \in queued[s] : t - clock <= d
  <2>1. /\ Several!Delay(s) \in Nat
        /\ \A t \in queued[s] : Several!Delay(s) <= t - clock \/ Several!Delay(s) <= 0
        /\ \/ Several!Delay(s) = Longest * Unit
           \/ \E t \in queued[s] : t - clock <= Several!Delay(s)
    BY <1>1, DelayNow, DelayFacts
  <2>. QED
    BY <2>1, Milliseconds
<1>3. {timeout} \union Schedules \in SUBSET Nat
  BY <1>1, <1>2 DEF Schedules
<1>4. x \in {timeout} \union Schedules /\ \A y \in {timeout} \union Schedules : x <= y
  BY <1>3, MinFacts
<1>. HIDE DEF x
<1>5. x \in Nat /\ x <= timeout
  BY <1>3, <1>4
<1>6. ASSUME NEW s \in Several!Servers, NEW t \in queued[s] PROVE x = 0 \/ x * Unit <= t - clock
  <2> DEFINE d == Several!Delay(s)
  <2>1. /\ d \div Unit \in Nat /\ (d \div Unit) * Unit <= d /\ d \in Nat
        /\ d <= t - clock \/ d <= 0
        /\ t \in Nat
    BY <1>1, <1>2
  <2>2. x <= d \div Unit
    BY <1>4 DEF Schedules
  <2>3. x * Unit <= (d \div Unit) * Unit /\ x * Unit \in Int /\ (d \div Unit) * Unit \in Int
    BY <1>5, <2>1, <2>2, MoreTime
  <2>4. d <= 0 => d \div Unit = 0
    BY <2>1, <1>1
  <2>. HIDE DEF d
  <2>. QED
    BY <1>1, <1>5, <2>1, <2>2, <2>3, <2>4
<1>7. ASSUME NEW s \in Several!Servers, x = Several!Delay(s) \div Unit
      PROVE  x = Longest \/ \E t \in queued[s] : t - clock < x * Unit + Unit
  <2> DEFINE d == Several!Delay(s)
  <2>1. /\ x * Unit \in Nat /\ x * Unit <= d /\ d < x * Unit + Unit /\ d \in Nat
        /\ d = Longest * Unit \/ \E t \in queued[s] : t - clock <= d
    BY <1>2, <1>7
  <2>. HIDE DEF d
  <2>2. CASE d = Longest * Unit
    <3>1. ~(x < Longest)
      <4>1. x < Longest => x * Unit + Unit <= Longest * Unit
        <5>. SUFFICES ASSUME x < Longest PROVE x * Unit + Unit <= Longest * Unit
          OBVIOUS
        <5>1. (x + 1) * Unit <= Longest * Unit
          BY <1>1, <1>5, MoreTime
        <5>. QED
          BY <1>1, <1>5, <5>1
      <4>. QED
        BY <2>1, <2>2, <4>1, <1>1
    <3>2. ~(Longest < x)
      <4>1. Longest < x => Longest * Unit + Unit <= x * Unit
        <5>. SUFFICES ASSUME Longest < x PROVE Longest * Unit + Unit <= x * Unit
          OBVIOUS
        <5>1. (Longest + 1) * Unit <= x * Unit
          BY <1>1, <1>5, MoreTime
        <5>. QED
          BY <1>1, <1>5, <5>1
      <4>. QED
        BY <2>1, <2>2, <4>1, <1>1
    <3>. QED
      BY <1>1, <1>5, <3>1, <3>2
  <2>3. CASE \E t \in queued[s] : t - clock <= d
    BY <1>1, <2>1, <2>3
  <2>. QED
    BY <2>1, <2>2, <2>3
<1>8. x = timeout \/ \E s \in Several!Servers : x = Several!Delay(s) \div Unit
  BY <1>4 DEF Schedules
<1>. QED
  BY <1>5, <1>6, <1>7, <1>8 DEF x

LEMMA WaitBegins ==
  ASSUME WaitInv, NEW t \in Timeouts, Several!Wait(t)
  PROVE  WaitInv'
<1>. USE DEF WaitInv
<1>1. /\ at = "out" /\ at' = "again" /\ index' = 1
      /\ status' = [s \in Several!Servers |-> FALSE] /\ timeout' = t
      /\ begun' = clock /\ asked' = t /\ accepted' = 0 /\ seen' = {}
      /\ UNCHANGED <<clock, queued, buffered, waiting, sockets_len, sched_timeout, then, revents>>
  BY DEF Several!Wait, Several!world
<1>2. t \in Nat /\ Unit \in Nat \ {0} /\ 1 \in Several!Servers
  BY WaitAssumption DEF Several!Servers
<1>3. WaitTypeOK'
  BY <1>1, <1>2 DEF WaitTypeOK, InWait
<1>4. TimeInv'
  <2>1. t * Unit \in Int /\ 0 * (Unit - 1) = 0
    BY <1>2
  <2>. QED
    BY <1>1, <1>2, <2>1 DEF TimeInv, RoundBegan, WaitTypeOK
<1>5. ScheduleInv' /\ StatusInv' /\ ArrayInv'
  BY <1>1 DEF ScheduleInv, StatusInv, ArrayInv
<1>6. WaitTells'
  BY <1>1 DEF WaitTells, Several!TellsBusy, Several!EndsInTime, Several!Returned
<1>. QED
  BY <1>3, <1>4, <1>5, <1>6

LEMMA AgainInv ==
  ASSUME WaitInv, Several!Again
  PROVE  WaitInv'
<1>. USE DEF WaitInv
<1>1. /\ at = "again" /\ at' = "poll" /\ index' = 1 /\ then' = clock
      /\ status' = [s \in Several!Servers |-> status[s] \/ buffered[s] > 0]
      /\ sched_timeout' = Several!Min({timeout} \union Schedules)
      /\ UNCHANGED <<clock, queued, buffered, waiting, sockets_len, timeout, revents,
                     begun, asked, accepted, seen>>
  BY DEF Several!Again, Several!world, Several!history, Schedules
<1>2. 1 \in Several!Servers /\ Unit \in Nat \ {0} /\ \A n \in Nat : n * Unit \in Nat
  BY WaitAssumption DEF Several!Servers
<1>3. /\ sched_timeout' \in Nat /\ sched_timeout' <= timeout
      /\ \A s \in Several!Servers : \A t \in queued[s] :
           sched_timeout' = 0 \/ sched_timeout' * Unit <= t - clock
      /\ \/ sched_timeout' = timeout \/ sched_timeout' = Longest
         \/ \E s \in Several!Servers : \E t \in queued[s] :
              t - clock < sched_timeout' * Unit + Unit
  BY <1>1, SchedulesFacts
<1>4. WaitTypeOK'
  BY <1>1, <1>2, <1>3 DEF WaitTypeOK, InWait
<1>5. TimeInv'
  BY <1>1 DEF TimeInv, RoundBegan, InWait
<1>6. ScheduleInv'
  <2>1. clock \in Nat /\ clock - clock = 0 /\ 0 <= sched_timeout' * Unit
    <3>1. clock \in Nat
      BY DEF WaitTypeOK
    <3>2. sched_timeout' * Unit \in Nat
      BY <1>2, <1>3
    <3>. QED
      BY <3>1, <3>2
  <2>2. clock' - then' = 0
    BY <1>1, <2>1
  <2>. QED
    BY <1>1, <1>3, <2>1, <2>2 DEF ScheduleInv
<1>7. StatusInv'
  <2>1. \A s \in Several!Servers :
          /\ Several!Busy(s)' = Several!Busy(s)
          /\ status'[s] = (status[s] \/ buffered[s] > 0)
    BY <1>1 DEF Several!Busy, Several!Delay, Several!Clients, Several!Ready
  <2>. QED
    BY <1>1, <2>1 DEF StatusInv, InWait, Several!Busy
<1>8. ArrayInv' /\ WaitTells'
  BY <1>1 DEF ArrayInv, WaitTells, Several!TellsBusy, Several!EndsInTime, Several!Returned
<1>. QED
  BY <1>4, <1>5, <1>6, <1>7, <1>8

LEMMA PollInv ==
  ASSUME WaitInv, Several!Poll
  PROVE  WaitInv'
<1>. USE DEF WaitInv
<1>1. /\ at = "poll" /\ at' = "listening" /\ Several!PollEnds
      /\ revents' = [k \in 1 .. Cardinality(Several!Sockets) |->
                       \E si \in Several!Sockets :
                         k = Several!First(si[1]) + si[2] /\ Several!Ready(si[1], si[2])]
      /\ seen' = {s \in Several!Servers : Several!Busy(s)}
      /\ UNCHANGED <<clock, queued, buffered, waiting, sockets_len, index, status, timeout,
                     sched_timeout, then, begun, asked, accepted>>
  <2>1. Several!Cardinality(Several!Sockets) = Cardinality(Several!Sockets)
    BY DEF Several!Cardinality, Cardinality
  <2>. QED
    BY <2>1 DEF Several!Poll, Several!world
<1>2. WaitTypeOK'
  BY <1>1 DEF WaitTypeOK, InWait
<1>3. TimeInv' /\ ScheduleInv'
  BY <1>1 DEF TimeInv, ScheduleInv, RoundBegan, InWait
<1>4. StatusInv'
  BY <1>1 DEF StatusInv, InWait, Several!Busy, Several!Delay, Several!Clients, Several!Ready
<1>5. \A s \in Several!Servers : \A i : <<s, i>> \in Several!Sockets =>
        (Found(s, i)' <=> Several!Ready(s, i))
  <2>. SUFFICES ASSUME NEW s \in Several!Servers, NEW i, <<s, i>> \in Several!Sockets
                PROVE  Found(s, i)' <=> Several!Ready(s, i)
    OBVIOUS
  <2>1. Several!First(s) + i \in 1 .. Cardinality(Several!Sockets)
    BY PlacesDistinct
  <2>2. \A si \in Several!Sockets :
          Several!First(s) + i = Several!First(si[1]) + si[2] => si = <<s, i>>
    BY PlacesDistinct
  <2>3. Found(s, i)' = revents'[Several!First(s) + i]
    BY <1>1, SocketsKept DEF Found
  <2>4. Found(s, i)' = \E si \in Several!Sockets :
          Several!First(s) + i = Several!First(si[1]) + si[2] /\ Several!Ready(si[1], si[2])
    BY <1>1, <2>1, <2>3
  <2>5. (\E si \in Several!Sockets :
           Several!First(s) + i = Several!First(si[1]) + si[2] /\ Several!Ready(si[1], si[2]))
        => Several!Ready(s, i)
    BY <2>2
  <2>6. Several!Ready(s, i) =>
          \E si \in Several!Sockets :
            Several!First(s) + i = Several!First(si[1]) + si[2] /\ Several!Ready(si[1], si[2])
    BY Zenon
  <2>. QED
    BY <2>4, <2>5, <2>6, Zenon
<1>6. \A s \in Several!Servers : <<s, 0>> \in Several!Sockets
        /\ \A i \in Several!Clients(s) : <<s, i>> \in Several!Sockets
  <2>1. TAKE s \in Several!Servers
  <2>2. sockets_len[s] \in 1 .. MaxClients + 1 /\ MaxClients \in Nat
    BY WaitAssumption DEF WaitTypeOK
  <2>. QED
    BY <2>2 DEF Several!Sockets, Several!Clients
<1>7. ArrayInv'
  <2>1. revents' \in [1 .. Cardinality(Several!Sockets)' -> BOOLEAN]
    BY <1>1, SocketsKept
  <2>2. \A si \in Several!Sockets :
          /\ si[1] \in Several!Servers /\ <<si[1], si[2]>> = si
          /\ Found(si[1], si[2])' <=> Several!Ready(si[1], si[2])
    BY <1>5 DEF Several!Sockets
  <2>3. \A s, i : Several!Ready(s, i)' = Several!Ready(s, i)
    BY <1>1 DEF Several!Ready
  <2>4. \A s \in Several!Servers : ~(s < index')
    BY <1>1, WaitAssumption DEF ArrayInv, Several!Servers
  <2>5. \A s \in seen' :
          \/ status'[s] \/ Several!Delay(s)' < WaitSlack
          \/ \E i \in Several!Clients(s)' : Found(s, i)'
          \/ s \notin Tcp /\ Found(s, 0)'
    <3>1. SUFFICES ASSUME NEW s \in Several!Servers, Several!Busy(s)
                   PROVE  \/ status'[s] \/ Several!Delay(s)' < WaitSlack
                          \/ \E i \in Several!Clients(s)' : Found(s, i)'
                          \/ s \notin Tcp /\ Found(s, 0)'
      BY <1>1
    <3>2. Several!Delay(s)' = Several!Delay(s) /\ Several!Clients(s)' = Several!Clients(s)
      BY <1>1 DEF Several!Delay, Several!Clients
    <3>3. buffered[s] > 0 => status'[s]
      BY <1>1 DEF StatusInv
    <3>4. /\ Several!Ready(s, 0) => Found(s, 0)'
          /\ \A i \in Several!Clients(s) : Several!Ready(s, i) => Found(s, i)'
      BY <1>5, <1>6
    <3>. QED
      BY <3>1, <3>2, <3>3, <3>4 DEF Several!Busy
  <2>6. sched_timeout' * Unit <= clock' - then' \/ \E si \in Several!Sockets : Found(si[1], si[2])'
    <3>1. CASE \E si \in Several!Sockets : Several!Ready(si[1], si[2])
      BY <2>2, <3>1
    <3>2. CASE clock - then >= Several!Min({timeout, sched_timeout}) * Unit
      <4>1. clock - then \in Int /\ sched_timeout * Unit <= clock - then
        BY <1>1, <3>2, PollWaits DEF WaitTypeOK
      <4>. QED
        BY <1>1, <4>1
    <3>. QED
      BY <1>1, <3>1, <3>2 DEF Several!PollEnds
  <2>. QED
    BY <1>1, <2>1, <2>2, <2>3, <2>4, <2>5, <2>6, SocketsKept DEF ArrayInv
<1>8. WaitTells'
  BY <1>1 DEF WaitTells, Several!TellsBusy, Several!EndsInTime, Several!Returned
<1>. QED
  BY <1>2, <1>3, <1>4, <1>7, <1>8

LEMMA AcceptInv ==
  ASSUME WaitInv, Several!Accept
  PROVE  WaitInv'
<1>. USE DEF WaitInv
<1>1. /\ at = "listening" /\ at' = "again" /\ index \in Tcp /\ Found(index, 0)
      /\ waiting' = [waiting EXCEPT ![index][0] = @ - 1]
      /\ sockets_len' = [sockets_len EXCEPT ![index] = @ + 1]
      /\ timeout' = Several!TimeLeft /\ accepted' = accepted + 1
      /\ UNCHANGED <<clock, queued, buffered, index, status, sched_timeout, then, revents,
                     begun, asked, seen>>
  <2>1. Several!First(index) \in Nat
    BY PlacesDistinct DEF WaitTypeOK
  <2>. QED
    BY <2>1 DEF Several!Accept, Found
<1>2. /\ index \in Several!Servers /\ MaxClients \in Nat /\ 0 \in 0 .. MaxClients
      /\ sockets_len[index] \in 1 .. MaxClients + 1
      /\ waiting[index] \in [0 .. MaxClients -> Nat]
      /\ sockets_len[index] + waiting[index][0] <= MaxClients + 1
  BY <1>1, WaitAssumption DEF WaitTypeOK
<1>3. waiting[index][0] \in Nat /\ waiting[index][0] > 0
  <2>1. <<index, 0>> \in Several!Sockets
    BY <1>2 DEF Several!Sockets
  <2>2. Several!Ready(index, 0)
    BY <1>1, <2>1 DEF ArrayInv
  <2>. QED
    BY <1>2, <2>2 DEF Several!Ready
<1>4. /\ waiting' \in [Several!Servers -> [0 .. MaxClients -> Nat]]
      /\ \A r \in Several!Servers : \A k \in 0 .. MaxClients :
           waiting'[r][k] = IF r = index /\ k = 0 THEN waiting[r][k] - 1 ELSE waiting[r][k]
  <2>1. waiting \in [Several!Servers -> [0 .. MaxClients -> Nat]]
    BY DEF WaitTypeOK
  <2>2. waiting' = [waiting EXCEPT ![index] = [waiting[index] EXCEPT ![0] = waiting[index][0] - 1]]
    BY <1>1
  <2>3. [waiting[index] EXCEPT ![0] = waiting[index][0] - 1] \in [0 .. MaxClients -> Nat]
    BY <1>2, <1>3
  <2>4. waiting' \in [Several!Servers -> [0 .. MaxClients -> Nat]]
    BY <2>1, <2>2, <2>3
  <2>5. \A r \in Several!Servers : \A k \in 0 .. MaxClients :
          waiting'[r][k] = IF r = index /\ k = 0 THEN waiting[r][k] - 1 ELSE waiting[r][k]
    BY <2>1, <2>2, <1>2
  <2>. QED
    BY <2>4, <2>5
<1>5. /\ sockets_len' \in [Several!Servers -> 1 .. MaxClients + 1]
      /\ \A r \in Several!Servers :
           sockets_len'[r] = IF r = index THEN sockets_len[r] + 1 ELSE sockets_len[r]
  <2>1. sockets_len \in [Several!Servers -> 1 .. MaxClients + 1]
    BY DEF WaitTypeOK
  <2>2. sockets_len[index] + 1 \in 1 .. MaxClients + 1
    BY <1>2, <1>3
  <2>. QED
    BY <1>1, <1>2, <2>1, <2>2
<1>6. \A r \in Tcp : sockets_len'[r] + waiting'[r][0] <= MaxClients + 1
  <2>1. TAKE r \in Tcp
  <2>2. r \in Several!Servers /\ sockets_len[r] + waiting[r][0] <= MaxClients + 1
    BY WaitAssumption DEF WaitTypeOK, Several!Servers
  <2>3. waiting'[r][0] = IF r = index THEN waiting[r][0] - 1 ELSE waiting[r][0]
    BY <1>2, <1>4, <2>2
  <2>4. sockets_len'[r] = IF r = index THEN sockets_len[r] + 1 ELSE sockets_len[r]
    BY <1>5, <2>2
  <2>5. CASE r = index
    BY <1>2, <1>3, <2>3, <2>4, <2>5
  <2>6. CASE r # index
    BY <2>2, <2>3, <2>4, <2>6
  <2>. QED
    BY <2>5, <2>6
<1>7. LET k == (clock - then) \div Unit
      IN  /\ k \in Nat /\ k <= timeout /\ k * Unit \in Nat /\ k * Unit <= clock - then
          /\ clock - then < k * Unit + Unit /\ timeout' = timeout - k
          /\ timeout' \in Nat /\ timeout' * Unit = timeout * Unit - k * Unit
          /\ timeout' * Unit \in Int /\ timeout * Unit \in Int
  <2> DEFINE k == (clock - then) \div Unit
  <2>1. clock - then \in Nat /\ timeout \in Nat /\ sched_timeout \in Nat
    BY <1>1 DEF TimeInv, RoundBegan, InWait, WaitTypeOK
  <2>2. /\ k \in Nat /\ k * Unit \in Nat
        /\ k * Unit <= clock - then /\ clock - then < k * Unit + Unit
    BY <2>1, Milliseconds
  <2>3. timeout' = Several!Max({0, timeout - k})
    BY <1>1 DEF Several!TimeLeft
  <2>. HIDE DEF k
  <2>4. clock - then <= sched_timeout * Unit /\ sched_timeout <= timeout
    BY <1>1 DEF ScheduleInv
  <2>5. sched_timeout * Unit <= timeout * Unit /\ sched_timeout * Unit \in Int /\ timeout * Unit \in Int
    BY <2>1, <2>4, MoreTime
  <2>6. ~(timeout < k)
    <3>1. timeout < k => timeout * Unit + Unit <= k * Unit
      <4>. SUFFICES ASSUME timeout < k PROVE timeout * Unit + Unit <= k * Unit
        OBVIOUS
      <4>1. (timeout + 1) * Unit <= k * Unit
        BY <2>1, <2>2, MoreTime
      <4>. QED
        BY <2>1, <4>1, WaitAssumption
    <3>2. Unit \in Nat \ {0} /\ k * Unit <= timeout * Unit
      BY <2>1, <2>2, <2>4, <2>5, WaitAssumption
    <3>. QED
      BY <2>2, <2>5, <3>1, <3>2
  <2>7. timeout' = timeout - k
    BY <2>1, <2>2, <2>3, <2>6, MaxPair
  <2>8. timeout' \in Nat
    BY <2>1, <2>2, <2>6, <2>7
  <2>9. timeout' * Unit = timeout * Unit - k * Unit
    BY <2>1, <2>2, <2>7, TimeDiffers
  <2>10. timeout' * Unit \in Int
    BY <2>2, <2>5, <2>9
  <2>. QED
    BY <2>1, <2>2, <2>5, <2>6, <2>7, <2>8, <2>9, <2>10 DEF k
<1>8. WaitTypeOK'
  BY <1>1, <1>4, <1>5, <1>6, <1>7 DEF WaitTypeOK, InWait
<1>9. TimeInv'
  <2> DEFINE k == (clock - then) \div Unit
  <2>1. /\ begun <= then /\ then <= clock
        /\ \A s \in Several!Servers : \A t \in queued[s] : clock <= t \/ clock <= begun
        /\ asked * Unit <= timeout * Unit + (then - begun)
        /\ timeout * Unit + (then - begun) <= asked * Unit + accepted * (Unit - 1)
    BY <1>1 DEF TimeInv, RoundBegan, InWait
  <2>2. /\ clock \in Nat /\ then \in Nat /\ begun \in Nat /\ asked * Unit \in Int
        /\ accepted * (Unit - 1) \in Int /\ Unit \in Nat
        /\ (accepted + 1) * (Unit - 1) = accepted * (Unit - 1) + Unit - 1
    BY TimeDiffers, WaitAssumption DEF WaitTypeOK
  <2>3. /\ k * Unit \in Nat /\ k * Unit <= clock - then /\ clock - then < k * Unit + Unit
        /\ timeout' * Unit = timeout * Unit - k * Unit
        /\ timeout' * Unit \in Int /\ timeout * Unit \in Int
    BY <1>7
  <2>. HIDE DEF k
  <2>4. /\ asked * Unit <= timeout' * Unit + (clock - begun)
        /\ timeout' * Unit + (clock - begun) <= asked * Unit + (accepted + 1) * (Unit - 1)
    BY <2>1, <2>2, <2>3
  <2>5. RoundBegan' = clock /\ begun <= clock /\ clock <= clock
    BY <1>1, <2>1, <2>2 DEF RoundBegan
  <2>. QED
    BY <1>1, <2>1, <2>4, <2>5 DEF TimeInv
<1>10. ScheduleInv' /\ ArrayInv'
  BY <1>1 DEF ScheduleInv, ArrayInv
<1>11. StatusInv'
  <2>1. \A r \in Several!Servers : Several!Busy(r) => Several!Busy(r)'
    <3>1. TAKE r \in Several!Servers
    <3>2. clock <= clock' /\ sockets_len[r] <= sockets_len'[r]
      BY <1>1, <1>5 DEF WaitTypeOK
    <3>3. \A i \in 0 .. MaxClients :
            waiting[r][i] > 0 => waiting'[r][i] > 0 \/ (r \in Tcp /\ i = 0)
      BY <1>1, <1>4
    <3>. QED
      BY <1>1, <1>8, <3>2, <3>3, BusyKept
  <2>. QED
    BY <1>1, <2>1 DEF StatusInv, InWait
<1>12. WaitTells'
  BY <1>1 DEF WaitTells, Several!TellsBusy, Several!EndsInTime, Several!Returned
<1>. QED
  BY <1>8, <1>9, <1>10, <1>11, <1>12

LEMMA ListeningInv ==
  ASSUME WaitInv, Several!Listening
  PROVE  WaitInv'
<1>. USE DEF WaitInv
<1>1. /\ at = "listening" /\ ~(index \in Tcp /\ Found(index, 0))
      /\ status' = [status EXCEPT ![index] = @ \/ Found(index, 0)]
      /\ \/ index < Num /\ at' = "listening" /\ index' = index + 1
         \/ ~(index < Num) /\ at' = "clients" /\ index' = 1
      /\ UNCHANGED <<clock, queued, buffered, waiting, sockets_len, timeout,
                     sched_timeout, then, revents, begun, asked, accepted, seen>>
  <2>1. Several!First(index) + 0 = Several!First(index)
    BY PlacesDistinct DEF WaitTypeOK
  <2>. QED
    BY <2>1 DEF Several!Listening, Several!Onwards, Several!world, Several!history, Found
<1>2. index \in Several!Servers /\ index' \in Several!Servers /\ index \in 1 .. Num
  <2>1. index \in 1 .. Num /\ Num \in Nat \ {0}
    BY WaitAssumption DEF WaitTypeOK, Several!Servers
  <2>2. index' \in 1 .. Num
    BY <1>1, <2>1
  <2>. QED
    BY <2>1, <2>2 DEF Several!Servers
<1>3. Found(index, 0) \in BOOLEAN /\ (Found(index, 0) => Several!Ready(index, 0))
  <2>1. sockets_len[index] \in 1 .. MaxClients + 1 /\ MaxClients \in Nat
    BY <1>2, WaitAssumption DEF WaitTypeOK
  <2>2. <<index, 0>> \in Several!Sockets
    BY <1>2, <2>1 DEF Several!Sockets
  <2>3. Several!First(index) + 0 \in 1 .. Cardinality(Several!Sockets)
    BY <2>2, PlacesDistinct
  <2>4. revents \in [1 .. Cardinality(Several!Sockets) -> BOOLEAN]
    BY <1>1 DEF ArrayInv
  <2>5. revents[Several!First(index) + 0] \in BOOLEAN
    BY <2>3, <2>4
  <2>6. \A si \in Several!Sockets : Found(si[1], si[2]) => Several!Ready(si[1], si[2])
    BY <1>1 DEF ArrayInv
  <2>. QED
    BY <2>2, <2>5, <2>6 DEF Found
<1>4. /\ status' \in [Several!Servers -> BOOLEAN]
      /\ \A s \in Several!Servers :
           status'[s] <=> status[s] \/ (s = index /\ Found(index, 0))
  <2>1. status \in [Several!Servers -> BOOLEAN] /\ (status[index] \/ Found(index, 0)) \in BOOLEAN
    BY DEF WaitTypeOK
  <2>. QED
    BY <1>1, <1>2, <2>1
<1>5. WaitTypeOK'
  BY <1>1, <1>2, <1>4 DEF WaitTypeOK, InWait
<1>6. TimeInv' /\ ScheduleInv'
  BY <1>1 DEF TimeInv, ScheduleInv, RoundBegan, InWait
<1>7. StatusInv'
  <2>1. \A s \in Several!Servers : Several!Busy(s)' = Several!Busy(s)
    BY <1>1 DEF Several!Busy, Several!Delay, Several!Clients, Several!Ready
  <2>2. Found(index, 0) => Several!Busy(index)
    BY <1>1, <1>3 DEF Several!Busy
  <2>3. \A s \in Several!Servers : status'[s] => Several!Busy(s)'
    BY <1>1, <1>4, <2>1, <2>2 DEF StatusInv, InWait
  <2>4. \A s \in Several!Servers : buffered'[s] > 0 => status'[s]
    BY <1>1, <1>4 DEF StatusInv
  <2>. QED
    BY <2>3, <2>4 DEF StatusInv
<1>8. ArrayInv'
  <2>1. \A s \in Several!Servers : \A i : Found(s, i)' = Found(s, i)
    BY <1>1, SocketsKept DEF Found
  <2>2. \A s : Several!Delay(s)' = Several!Delay(s) /\ Several!Clients(s)' = Several!Clients(s)
               /\ \A i : Several!Ready(s, i)' = Several!Ready(s, i)
    BY <1>1 DEF Several!Delay, Several!Clients, Several!Ready
  <2>3. \A si \in Several!Sockets : si[1] \in Several!Servers
    BY DEF Several!Sockets
  <2>4. \A si \in Several!Sockets : Found(si[1], si[2])' => Several!Ready(si[1], si[2])'
    BY <1>1, <2>1, <2>2, <2>3 DEF ArrayInv
  <2>5. ASSUME NEW s \in Several!Servers, at' = "clients" \/ s < index', Found(s, 0)'
        PROVE  s \notin Tcp /\ status'[s]
    <3>1. s < index \/ s = index
      <4>1. s \in 1 .. Num /\ Num \in Nat
        BY WaitAssumption DEF Several!Servers
      <4>2. CASE at' = "clients"
        BY <1>1, <1>2, <4>1, <4>2
      <4>3. CASE s < index' /\ index' = index + 1
        BY <1>2, <4>1, <4>3
      <4>. QED
        BY <1>1, <2>5, <4>2, <4>3
    <3>2. CASE s < index
      <4>1. s \notin Tcp /\ status[s]
        BY <1>1, <2>1, <2>5, <3>2 DEF ArrayInv
      <4>. QED
        BY <1>4, <4>1
    <3>3. CASE s = index
      BY <1>1, <1>4, <2>1, <2>5, <3>3
    <3>. QED
      BY <3>1, <3>2, <3>3
  <2>6. \A s \in seen' :
          \/ status'[s] \/ Several!Delay(s)' < WaitSlack
          \/ \E i \in Several!Clients(s)' : Found(s, i)'
          \/ s \notin Tcp /\ Found(s, 0)'
    <3>1. seen' = seen /\ seen \subseteq Several!Servers
      BY <1>1 DEF WaitTypeOK
    <3>2. \A s \in seen :
            \/ status[s] \/ Several!Delay(s) < WaitSlack
            \/ \E i \in Several!Clients(s) : Found(s, i)
            \/ s \notin Tcp /\ Found(s, 0)
      BY <1>1 DEF ArrayInv
    <3>. QED
      BY <1>4, <2>1, <2>2, <3>1, <3>2
  <2>7. sched_timeout' * Unit <= clock' - then' \/ \E si \in Several!Sockets : Found(si[1], si[2])'
    BY <1>1, <2>1, <2>3 DEF ArrayInv
  <2>8. revents' \in [1 .. Cardinality(Several!Sockets)' -> BOOLEAN]
    BY <1>1, SocketsKept DEF ArrayInv
  <2>9. at' # "poll"
    BY <1>1
  <2>. QED
    BY <1>1, <2>4, <2>5, <2>6, <2>7, <2>8, <2>9, SocketsKept DEF ArrayInv
<1>9. WaitTells'
  BY <1>1 DEF WaitTells, Several!TellsBusy, Several!EndsInTime, Several!Returned
<1>. QED
  BY <1>5, <1>6, <1>7, <1>8, <1>9

LEMMA ReturnInv ==
  ASSUME WaitInv, Several!Return
  PROVE  WaitInv'
<1>. USE DEF WaitInv
<1>1. /\ at = "clients" /\ at' = "recv"
      /\ status' = [s \in Several!Servers |->
                      \/ status[s] \/ Several!Delay(s) < WaitSlack
                      \/ \E i \in Several!Clients(s) : Found(s, i)]
      /\ UNCHANGED <<clock, queued, buffered, waiting, sockets_len, index, timeout,
                     sched_timeout, then, revents, begun, asked, accepted, seen>>
  BY DEF Several!Return, Several!world, Several!history, Found
<1>2. /\ status' \in [Several!Servers -> BOOLEAN]
      /\ \A s \in Several!Servers : status'[s] <=>
                      \/ status[s] \/ Several!Delay(s) < WaitSlack
                      \/ \E i \in Several!Clients(s) : Found(s, i)
  <2>1. status \in [Several!Servers -> BOOLEAN]
    BY DEF WaitTypeOK
  <2>. QED
    BY <1>1, <2>1
<1>3. WaitTypeOK'
  BY <1>1, <1>2 DEF WaitTypeOK, InWait
<1>4. TimeInv' /\ ScheduleInv' /\ StatusInv' /\ ArrayInv'
  BY <1>1 DEF TimeInv, ScheduleInv, StatusInv, ArrayInv, InWait
<1>5. \A s \in Several!Servers : <<s, 0>> \in Several!Sockets
        /\ \A i \in Several!Clients(s) : <<s, i>> \in Several!Sockets
  <2>1. TAKE s \in Several!Servers
  <2>2. sockets_len[s] \in 1 .. MaxClients + 1 /\ MaxClients \in Nat
    BY WaitAssumption DEF WaitTypeOK
  <2>. QED
    BY <2>2 DEF Several!Sockets, Several!Clients
<1>6. Several!TellsBusy'
  <2>1. \A s \in seen : status'[s]
    <3>1. TAKE s \in seen
    <3>2. s \in Several!Servers
      BY DEF WaitTypeOK
    <3>3. \/ status[s] \/ Several!Delay(s) < WaitSlack
          \/ \E i \in Several!Clients(s) : Found(s, i)
          \/ s \notin Tcp /\ Found(s, 0)
      BY <1>1 DEF ArrayInv
    <3>4. Found(s, 0) => status[s]
      BY <1>1, <3>2 DEF ArrayInv
    <3>. QED
      BY <1>2, <3>2, <3>3, <3>4
  <2>2. ASSUME NEW s \in Several!Servers, status'[s] PROVE Several!Busy(s)'
    <3>1. Several!Busy(s)' = Several!Busy(s)
      BY <1>1 DEF Several!Busy, Several!Delay, Several!Clients, Several!Ready
    <3>2. status[s] => Several!Busy(s)
      BY <1>1 DEF StatusInv, InWait
    <3>3. \A i \in Several!Clients(s) : Found(s, i) => Several!Ready(s, i)
      BY <1>1, <1>5 DEF ArrayInv
    <3>. QED
      BY <1>2, <2>2, <3>1, <3>2, <3>3 DEF Several!Busy
  <2>3. \A s \in index .. Num : s \in Several!Servers
    BY WaitAssumption DEF WaitTypeOK, Several!Servers
  <2>. QED
    BY <1>1, <2>1, <2>2, <2>3 DEF Several!TellsBusy, Several!Returned
<1>7. Several!EndsInTime'
  <2>1. /\ clock \in Nat /\ then \in Nat /\ begun \in Nat /\ begun <= then /\ then <= clock
        /\ \A s \in Several!Servers : \A t \in queued[s] : t \in Nat
        /\ timeout \in Nat /\ sched_timeout \in Nat /\ asked \in Nat
    BY <1>1 DEF WaitTypeOK, TimeInv, RoundBegan, InWait
  <2>2. /\ timeout * Unit \in Int /\ sched_timeout * Unit \in Int /\ asked * Unit \in Int
        /\ Longest * Unit \in Int /\ accepted * (Unit - 1) \in Int
        /\ Unit \in Nat /\ Unit <= WaitSlack /\ Longest \in Nat /\ WaitSlack \in Nat
    BY <2>1, TimeDiffers, WaitAssumption DEF WaitTypeOK
  <2>3. clock - begun <= asked * Unit + accepted * (Unit - 1)
    <3>1. /\ timeout * Unit + (then - begun) <= asked * Unit + accepted * (Unit - 1)
          /\ clock - then <= sched_timeout * Unit /\ sched_timeout <= timeout
      BY <1>1 DEF TimeInv, RoundBegan, InWait, ScheduleInv
    <3>2. sched_timeout * Unit <= timeout * Unit
      BY <2>1, <3>1, MoreTime
    <3>. QED
      BY <2>1, <2>2, <3>1, <3>2
  <2>4. \A s \in Several!Servers : \A t \in queued[s] : clock <= Several!Max({t, begun})
    <3>1. \A s \in Several!Servers : \A t \in queued[s] : clock <= t \/ clock <= begun
      BY <1>1 DEF TimeInv, InWait
    <3>2. \A s \in Several!Servers : \A t \in queued[s] :
            Several!Max({t, begun}) = IF t >= begun THEN t ELSE begun
      BY <2>1, MaxPair
    <3>. QED
      BY <2>1, <3>1, <3>2
  <2>5. ASSUME \A s \in Several!Servers : ~status'[s]
        PROVE  clock - begun >= Several!Min({asked, Longest}) * Unit
    <3>1. sched_timeout * Unit <= clock - then
      <4>1. SUFFICES ASSUME NEW si \in Several!Sockets, Found(si[1], si[2]) PROVE FALSE
        BY <1>1 DEF ArrayInv
      <4>2. /\ si[1] \in Several!Servers /\ si[2] \in Nat /\ si[2] < sockets_len[si[1]]
            /\ sockets_len[si[1]] \in Nat
        BY WaitAssumption DEF Several!Sockets, WaitTypeOK
      <4>3. CASE si[2] = 0
        BY <1>1, <1>2, <2>5, <4>1, <4>2, <4>3 DEF ArrayInv
      <4>4. CASE si[2] # 0
        <5>1. si[2] \in Several!Clients(si[1])
          BY <4>2, <4>4 DEF Several!Clients
        <5>. QED
          BY <1>2, <2>5, <4>1, <4>2, <5>1
      <4>. QED
        BY <4>3, <4>4
    <3>2. ASSUME NEW s \in Several!Servers, NEW t \in queued[s],
                 t - then < sched_timeout * Unit + Unit
          PROVE  FALSE
      <4>1. t - clock < Unit
        BY <2>1, <2>2, <3>1, <3>2
      <4>2. /\ DelayOf(queued[s], clock) \in Nat
            /\ DelayOf(queued[s], clock) <= t - clock \/ DelayOf(queued[s], clock) <= 0
        BY <2>1, DelayFacts DEF WaitTypeOK
      <4>3. Unit # 0
        BY WaitAssumption
      <4>4. Several!Delay(s) < WaitSlack
        BY <2>1, <2>2, <4>1, <4>2, <4>3, DelayNow
      <4>. QED
        BY <1>2, <2>5, <4>4
    <3>3. sched_timeout = timeout \/ sched_timeout = Longest
      BY <1>1, <3>2 DEF ScheduleInv
    <3>4. asked * Unit <= timeout * Unit + (then - begun)
      BY <1>1 DEF TimeInv, RoundBegan, InWait
    <3>5. Several!Min({asked, Longest}) = IF asked <= Longest THEN asked ELSE Longest
      BY <2>1, <2>2, MinPair
    <3>6. CASE sched_timeout = timeout
      <4>1. asked * Unit <= clock - begun
        BY <2>1, <2>2, <3>1, <3>4, <3>6
      <4>2. Longest < asked => Longest * Unit <= asked * Unit
        BY <2>1, <2>2, MoreTime
      <4>. QED
        BY <2>1, <2>2, <3>5, <4>1, <4>2
    <3>7. CASE sched_timeout = Longest
      <4>1. Longest * Unit <= clock - begun
        BY <2>1, <2>2, <3>1, <3>7
      <4>2. asked <= Longest => asked * Unit <= Longest * Unit
        BY <2>1, <2>2, MoreTime
      <4>. QED
        BY <2>1, <2>2, <3>5, <4>1, <4>2
    <3>. QED
      BY <3>3, <3>6, <3>7
  <2>. QED
    BY <1>1, <2>3, <2>4, <2>5 DEF Several!EndsInTime, Several!Returned, Several!Waited
<1>. QED
  BY <1>3, <1>4, <1>6, <1>7 DEF WaitTells

LEMMA LaterQueue ==
  ASSUME WaitTypeOK, NEW s \in Several!Servers, NEW q \in [Several!Servers -> SUBSET Nat],
         \/ queued' = q
         \/ \E t \in clock .. WaitTime :
              queued' = [q EXCEPT ![s] = IF @ = {} THEN {t} ELSE {Several!Min(@ \union {t})}]
  PROVE  /\ queued' \in [Several!Servers -> SUBSET Nat]
         /\ \A r \in Several!Servers : r # s => queued'[r] = q[r]
<1>1. CASE queued' = q
  BY <1>1
<1>2. ASSUME NEW t \in clock .. WaitTime,
             queued' = [q EXCEPT ![s] = IF @ = {} THEN {t} ELSE {Several!Min(@ \union {t})}]
      PROVE  /\ queued' \in [Several!Servers -> SUBSET Nat]
             /\ \A r \in Several!Servers : r # s => queued'[r] = q[r]
  <2>1. t \in Nat
    BY WaitAssumption DEF WaitTypeOK
  <2>2. q[s] \union {t} \in SUBSET Nat /\ q[s] \union {t} # {}
    BY <2>1
  <2>3. Several!Min(q[s] \union {t}) \in Nat
    BY <2>2, MinFacts
  <2>4. (IF q[s] = {} THEN {t} ELSE {Several!Min(q[s] \union {t})}) \in SUBSET Nat
    BY <2>1, <2>3
  <2>. QED
    BY <1>2, <2>4
<1>. QED
  BY <1>1, <1>2

(* A receive takes from one server.                                        *)
LEMMA ServesOne ==
  ASSUME WaitTypeOK, NEW s \in Several!Servers,
         \/ Several!ServesQueue(s) \/ Several!ServesMessage(s)
         \/ \E i \in 0 .. sockets_len[s] - 1 : Several!ServesSocket(s, i)
  PROVE  /\ queued' \in [Several!Servers -> SUBSET Nat]
         /\ buffered' \in [Several!Servers -> Nat]
         /\ waiting' \in [Several!Servers -> [0 .. MaxClients -> Nat]]
         /\ s \in Tcp => waiting'[s][0] = waiting[s][0]
         /\ \A r \in Several!Servers : r # s =>
              queued'[r] = queued[r] /\ buffered'[r] = buffered[r] /\ waiting'[r] = waiting[r]
<1>1. /\ queued \in [Several!Servers -> SUBSET Nat] /\ buffered \in [Several!Servers -> Nat]
      /\ waiting \in [Several!Servers -> [0 .. MaxClients -> Nat]]
      /\ sockets_len[s] \in 1 .. MaxClients + 1 /\ MaxClients \in Nat
  BY WaitAssumption DEF WaitTypeOK
<1>2. CASE Several!ServesQueue(s)
  BY <1>1, <1>2 DEF Several!ServesQueue
<1>3. CASE Several!ServesMessage(s)
  <2>1. /\ buffered[s] > 0 /\ buffered' = [buffered EXCEPT ![s] = @ - 1]
        /\ Several!Later(s) /\ waiting' = waiting
    BY <1>3 DEF Several!ServesMessage
  <2>2. buffered[s] \in Nat /\ buffered[s] - 1 \in Nat
    BY <1>1, <2>1
  <2>3. buffered' \in [Several!Servers -> Nat]
        /\ \A r \in Several!Servers : r # s => buffered'[r] = buffered[r]
    BY <1>1, <2>1, <2>2
  <2>4. /\ queued' \in [Several!Servers -> SUBSET Nat]
        /\ \A r \in Several!Servers : r # s => queued'[r] = queued[r]
    BY <1>1, <2>1, LaterQueue DEF Several!Later
  <2>. QED
    BY <1>1, <2>1, <2>3, <2>4
<1>4. ASSUME NEW i \in 0 .. sockets_len[s] - 1, Several!ServesSocket(s, i)
      PROVE  /\ queued' \in [Several!Servers -> SUBSET Nat]
             /\ buffered' \in [Several!Servers -> Nat]
             /\ waiting' \in [Several!Servers -> [0 .. MaxClients -> Nat]]
             /\ s \in Tcp => waiting'[s][0] = waiting[s][0]
             /\ \A r \in Several!Servers : r # s =>
                  queued'[r] = queued[r] /\ buffered'[r] = buffered[r] /\ waiting'[r] = waiting[r]
  <2>1. i \in 0 .. MaxClients
    BY <1>1
  <2>2. waiting[s] \in [0 .. MaxClients -> Nat]
    BY <1>1
  <2>3. waiting[s][i] \in Nat /\ waiting[s][i] > 0
    BY <1>4, <2>1, <2>2 DEF Several!ServesSocket, Several!Ready
  <2>4. /\ queued' \in [Several!Servers -> SUBSET Nat]
        /\ \A r \in Several!Servers : r # s => queued'[r] = queued[r]
    BY <1>1, <1>4, LaterQueue DEF Several!ServesSocket, Several!Later
  <2>5. ASSUME NEW n \in Nat, waiting' = [waiting EXCEPT ![s][i] = n]
        PROVE  /\ waiting' \in [Several!Servers -> [0 .. MaxClients -> Nat]]
               /\ i # 0 => waiting'[s][0] = waiting[s][0]
               /\ \A r \in Several!Servers : r # s => waiting'[r] = waiting[r]
    <3>1. waiting' = [waiting EXCEPT ![s] = [waiting[s] EXCEPT ![i] = n]]
      BY <2>5
    <3>2. [waiting[s] EXCEPT ![i] = n] \in [0 .. MaxClients -> Nat]
      BY <2>1, <2>2
    <3>3. waiting' \in [Several!Servers -> [0 .. MaxClients -> Nat]]
      BY <1>1, <3>1, <3>2
    <3>4. i # 0 => waiting'[s][0] = waiting[s][0]
      BY <1>1, <2>2, <3>1
    <3>. QED
      BY <1>1, <3>1, <3>3, <3>4
  <2>6. CASE s \in Tcp
    <3>1. /\ i # 0 /\ buffered' = [buffered EXCEPT ![s] = waiting[s][i] - 1]
          /\ waiting' = [waiting EXCEPT ![s][i] = 0]
      BY <1>4, <2>6 DEF Several!ServesSocket
    <3>2. waiting[s][i] - 1 \in Nat
      BY <2>3
    <3>3. /\ buffered' \in [Several!Servers -> Nat]
          /\ \A r \in Several!Servers : r # s => buffered'[r] = buffered[r]
      BY <1>1, <3>1, <3>2
    <3>. QED
      BY <2>4, <2>5, <3>1, <3>3
  <2>7. CASE s \notin Tcp
    <3>1. waiting' = [waiting EXCEPT ![s][i] = @ - 1] /\ buffered' = buffered
      BY <1>4, <2>7 DEF Several!ServesSocket
    <3>2. waiting[s][i] - 1 \in Nat /\ waiting' = [waiting EXCEPT ![s][i] = waiting[s][i] - 1]
      BY <2>3, <3>1
    <3>. QED
      BY <1>1, <2>4, <2>5, <2>7, <3>1, <3>2
  <2>. QED
    BY <2>6, <2>7
<1>. QED
  BY <1>2, <1>3, <1>4

LEMMA RecvInv ==
  ASSUME WaitInv, Several!Recv
  PROVE  WaitInv'
<1>. USE DEF WaitInv
<1>1. /\ at = "recv"
      /\ IF status[index]
         THEN \/ Several!ServesQueue(index) \/ Several!ServesMessage(index)
              \/ \E i \in 0 .. sockets_len[index] - 1 : Several!ServesSocket(index, i)
         ELSE UNCHANGED <<queued, buffered, waiting>>
      /\ \/ index < Num /\ at' = "recv" /\ index' = index + 1
         \/ ~(index < Num) /\ at' = "out" /\ index' = 1
      /\ UNCHANGED <<clock, sockets_len, reached, status, timeout, sched_timeout, then, revents,
                     begun, asked, accepted, seen>>
  BY DEF Several!Recv, Several!Onwards, Several!call, Several!history
<1>2. index \in Several!Servers /\ index \in 1 .. Num /\ Num \in Nat \ {0}
  BY WaitAssumption DEF WaitTypeOK, Several!Servers
<1>3. index' \in Several!Servers
  BY <1>1, <1>2 DEF Several!Servers
<1>4. /\ queued' \in [Several!Servers -> SUBSET Nat]
      /\ buffered' \in [Several!Servers -> Nat]
      /\ waiting' \in [Several!Servers -> [0 .. MaxClients -> Nat]]
      /\ index \in Tcp => waiting'[index][0] = waiting[index][0]
      /\ \A r \in Several!Servers : r # index =>
           queued'[r] = queued[r] /\ buffered'[r] = buffered[r] /\ waiting'[r] = waiting[r]
  <2>1. CASE status[index]
    BY <1>1, <1>2, <2>1, ServesOne
  <2>2. CASE ~status[index]
    BY <1>1, <2>2 DEF WaitTypeOK
  <2>. QED
    BY <2>1, <2>2
<1>5. \A r \in Tcp : sockets_len'[r] + waiting'[r][0] <= MaxClients + 1
  <2>1. TAKE r \in Tcp
  <2>2. waiting'[r][0] = waiting[r][0]
    BY <1>4, WaitAssumption DEF Several!Servers
  <2>. QED
    BY <1>1, <2>2 DEF WaitTypeOK
<1>6. WaitTypeOK'
  BY <1>1, <1>3, <1>4, <1>5 DEF WaitTypeOK, InWait
<1>7. CASE at' = "out"
  BY <1>6, <1>7, OutsideInv
<1>8. CASE at' = "recv" /\ index' = index + 1
  <2>1. TimeInv' /\ ScheduleInv' /\ StatusInv' /\ ArrayInv'
    BY <1>8 DEF TimeInv, ScheduleInv, StatusInv, ArrayInv, InWait
  <2>2. index' # 1
    BY <1>2, <1>8
  <2>3. ASSUME NEW s \in index' .. Num, status'[s] PROVE Several!Busy(s)'
    <3>1. s \in Several!Servers /\ s # index /\ s \in index .. Num
      BY <1>2, <1>8 DEF Several!Servers
    <3>2. Several!Busy(s)
      BY <1>1, <2>3, <3>1 DEF WaitTells, Several!TellsBusy
    <3>3. queued'[s] = queued[s] /\ buffered'[s] = buffered[s] /\ waiting'[s] = waiting[s]
      BY <1>4, <3>1
    <3>. QED
      BY <1>1, <3>2, <3>3 DEF Several!Busy, Several!Delay, Several!Clients, Several!Ready
  <2>4. WaitTells'
    BY <2>2, <2>3 DEF WaitTells, Several!TellsBusy, Several!EndsInTime, Several!Returned
  <2>. QED
    BY <1>6, <2>1, <2>4
<1>. QED
  BY <1>1, <1>7, <1>8

LEMMA WaitStutterInv ==
  ASSUME WaitInv, UNCHANGED Several!vars
  PROVE  WaitInv'
<1>1. UNCHANGED <<clock, queued, waiting, buffered, sockets_len, reached, at, index, status,
                  timeout, sched_timeout, then, revents, begun, asked, accepted, seen>>
  BY DEF Several!vars, Several!world, Several!loop, Several!call, Several!history
<1>2. WaitTypeOK' /\ TimeInv' /\ ScheduleInv'
  BY <1>1 DEF WaitInv, WaitTypeOK, TimeInv, ScheduleInv, RoundBegan
<1>3. StatusInv'
  BY <1>1 DEF WaitInv, StatusInv, Several!Busy, Several!Delay, Several!Clients, Several!Ready
<1>4. ArrayInv'
  <2>1. \A s \in Several!Servers : \A i : Found(s, i)' = Found(s, i)
    BY <1>1, SocketsKept DEF Found
  <2>2. \A s : Several!Delay(s)' = Several!Delay(s) /\ Several!Clients(s)' = Several!Clients(s)
               /\ \A i : Several!Ready(s, i)' = Several!Ready(s, i)
    BY <1>1 DEF Several!Delay, Several!Clients, Several!Ready
  <2>3. /\ \A si \in Several!Sockets : si[1] \in Several!Servers
        /\ seen \subseteq Several!Servers
    BY DEF WaitInv, WaitTypeOK, Several!Sockets
  <2>. QED
    BY <1>1, <2>1, <2>2, <2>3, SocketsKept DEF WaitInv, ArrayInv
<1>5. WaitTells'
  BY <1>1 DEF WaitInv, WaitTells, Several!TellsBusy, Several!EndsInTime, Several!Returned,
       Several!Waited, Several!Busy, Several!Delay, Several!Clients, Several!Ready
<1>. QED
  BY <1>2, <1>3, <1>4, <1>5 DEF WaitInv

LEMMA WaitNextInv ==
  ASSUME WaitInv, [Several!Next]_(Several!vars)
  PROVE  WaitInv'
<1>1. CASE Several!Tick
  BY <1>1, WaitTickInv
<1>2. CASE Several!Again
  BY <1>2, AgainInv
<1>3. CASE Several!Poll
  BY <1>3, PollInv
<1>4. CASE Several!Accept
  BY <1>4, AcceptInv
<1>5. CASE Several!Listening
  BY <1>5, ListeningInv
<1>6. CASE Several!Return
  BY <1>6, ReturnInv
<1>7. CASE Several!Recv
  BY <1>7, RecvInv
<1>8. ASSUME NEW t \in Timeouts, Several!Wait(t) PROVE WaitInv'
  BY <1>8, WaitBegins
<1>9. ASSUME NEW s \in Several!Servers, NEW i \in 0 .. MaxClients, Several!Arrive(s, i)
      PROVE  WaitInv'
  BY <1>9, ArriveInv
<1>10. CASE UNCHANGED Several!vars
  BY <1>10, WaitStutterInv
<1>. QED
  BY <1>1, <1>2, <1>3, <1>4, <1>5, <1>6, <1>7, <1>8, <1>9, <1>10
  DEF Several!Next, Several!Step

(* A wait for several servers tells of all that are busy when poll         *)
(* returns, of none that a receive would block on, and ends by its timeout *)
(* and by the next event (server.c:1378, 1411, 1441, 1448, 1575).          *)
THEOREM WaitTellsInTime == Several!Spec => []WaitTells
<1>1. WaitInv => WaitTells
  BY DEF WaitInv
<1>. QED
  BY WaitInitInv, WaitNextInv, <1>1, PTL DEF Several!Spec

-----------------------------------------------------------------------------
(* oscsendfile.                                                            *)

FileTags == [sec : 0 .. W - 1, frac : 0 .. W - 1]
BundleRecords == [tt : FileTags, msgs : Seq(Nat), at : Nat]
GivenValues == [line : Nat, place : Nat, read : STRING \union {"none"}]
FileMessages == [line : Nat, args : Seq(STRING \X GivenValues)]

FileTypeOK ==
  /\ file \in Files /\ line_no \in 0 .. Len(file) /\ watch \in Nat
  /\ args \in [1 .. MaxValues -> GivenValues]
  /\ tts \in [1 .. 2 -> FileTags] /\ this \in {1, 2}
  /\ tt_start \in {<<>>} \cup { <<t>> : t \in FileTags }
  /\ bundle \in Seq(BundleRecords) /\ Len(bundle) <= 1 /\ bundles \in Seq(BundleRecords)
  /\ made \in Seq(FileMessages)
  /\ step \in {"read", "wait", "done", "failed", "undefined"}

(* The messages in the bundles are those of the lines in S, in order.      *)
Carries(list, S) ==
  /\ \A i \in S : \E n \in DOMAIN list : \E k \in DOMAIN list[n].msgs : list[n].msgs[k] = i
  /\ \A n \in DOMAIN list : \A k \in DOMAIN list[n].msgs :
       /\ list[n].msgs[k] \in S
       /\ \A m \in DOMAIN list : \A j \in DOMAIN list[m].msgs :
            m < n \/ (m = n /\ j < k) => list[m].msgs[j] < list[n].msgs[k]

(* The lines so far with a path, and with a time.                          *)
TakenOf(lines, n) == { i \in 1 .. n : lines[i].path }
TimedOf(lines, n) == { j \in 1 .. n : lines[j].tt # <<>> }

(* The time of the line i as it is to be played.                           *)
RightFor(lines, t, i) ==
  LET o == CHOOSE j \in TimedOf(lines, i) : \A k \in TimedOf(lines, i) : j <= k
  IN  IF lines[i].tt = <<>> THEN t = File!Immediate
      ELSE Len(lines[i].tt) = 2 /\ Len(lines[o].tt) = 2 =>
             File!Value(t) = FileStart +
               ((File!Value(File!FirstTag(lines[i].tt)) - File!Value(File!FirstTag(lines[o].tt)))
                  \div Speed)
AllRight(lines, list) ==
  \A n \in DOMAIN list : \A k \in DOMAIN list[n].msgs :
    RightFor(lines, list[n].tt, list[n].msgs[k])

AllTags(list) == \A n \in DOMAIN list : File!Value(list[n].tt) < list[n].at + Micro

(* The time that first was set is that of the first line that has one.     *)
StartsAt(lines, start, n) ==
  IF start = <<>> THEN TimedOf(lines, n) = {}
  ELSE \E o \in TimedOf(lines, n) :
         /\ \A k \in TimedOf(lines, n) : o <= k
         /\ Len(lines[o].tt) = 2 => start = << File!FirstTag(lines[o].tt) >>

(* A message has the values of its line, in their order.                   *)
OwnMessage(lines, m) ==
  LET l == lines[m.line]
  IN  File!Complete(l) =>
        /\ Len(m.args) = Len(l.types)
        /\ \A i \in 1 .. Len(l.types) :
             /\ m.args[i][1] = l.types[i]
             /\ l.types[i] \in File!Valued =>
                  /\ m.args[i][2].line = m.line
                  /\ \A j \in 1 .. i - 1 :
                       l.types[j] \in File!Valued => m.args[j][2].place < m.args[i][2].place

BundlesNow == bundles \o bundle

(* While the message of a line waits for its bundle, those of the lines    *)
(* before have theirs.                                                     *)
CarriedInv ==
  /\ step \in {"read", "done"} => Carries(BundlesNow, TakenOf(file, line_no))
  /\ step = "wait" =>
       /\ line_no \in TakenOf(file, line_no)
       /\ Carries(BundlesNow, TakenOf(file, line_no) \ {line_no})

(* What is in the bundle has the time that was read for its first line,    *)
(* and what was sent went no earlier than its time.                        *)
TagInv ==
  /\ bundle # <<>> => bundle[1].tt = tts[3 - this]
  /\ AllRight(file, BundlesNow)
  /\ step = "wait" => RightFor(file, tts[this], line_no)
  /\ AllTags(bundles)

FileInv ==
  /\ FileTypeOK /\ CarriedInv /\ TagInv
  /\ StartsAt(file, tt_start, line_no)
  /\ \A n \in DOMAIN made : OwnMessage(file, made[n])

LEMMA FileViews ==
  /\ File!Bundles = BundlesNow /\ File!Taken = TakenOf(file, line_no)
  /\ \A n : File!Timed(n) = TimedOf(file, n)
  /\ \A t, i : File!TagRight(t, i) <=> RightFor(file, t, i)
  /\ File!OwnValues <=> \A n \in 1 .. Len(made) : OwnMessage(file, made[n])
<1>1. File!Bundles = BundlesNow
  BY DEF File!Bundles, BundlesNow
<1>2. File!Taken = TakenOf(file, line_no)
  BY DEF File!Taken, TakenOf
<1>3. \A n : File!Timed(n) = TimedOf(file, n)
  BY DEF File!Timed, TimedOf
<1>4. ASSUME NEW t, NEW i PROVE File!TagRight(t, i) <=> RightFor(file, t, i)
  BY DEF File!TagRight, File!Distance, File!Origin, File!Timed, TimedOf, RightFor
<1>5. File!OwnValues <=> \A n \in 1 .. Len(made) : OwnMessage(file, made[n])
  BY DEF File!OwnValues, OwnMessage
<1>. QED
  BY <1>1, <1>2, <1>3, <1>4, <1>5

(* Arithmetic.                                                             *)
LEMMA DivModFacts ==
  \A n \in Nat, w \in Nat \ {0} :
    n \div w \in Nat /\ n % w \in 0 .. w - 1 /\ n % w = n - w * (n \div w)
  BY SMT

LEMMA DivAtMost == \A n \in Nat, w \in Nat \ {0} : n \div w <= n
  <1>1. \A n, q \in Nat, w \in Nat \ {0} : q > n => w * q > n
    BY SMT
  <1>2. SUFFICES ASSUME NEW n \in Nat, NEW w \in Nat \ {0}, n \div w > n PROVE FALSE
    BY DivModFacts
  <1>3. n \div w \in Nat /\ n % w \in 0 .. w - 1 /\ n % w = n - w * (n \div w)
    BY DivModFacts
  <1>4. w * (n \div w) > n
    BY <1>1, <1>2, <1>3
  <1>5. w * (n \div w) \in Int
    BY <1>3
  <1>. QED
    BY <1>3, <1>4, <1>5

LEMMA ModInRange == \A n \in Int, w \in Nat \ {0} : n % w \in 0 .. w - 1
  BY SMT

LEMMA ModWraps ==
  \A n \in Int, w \in Nat \ {0} :
    /\ n \in 0 .. w - 1 => n % w = n
    /\ n < 0 /\ n + w >= 0 => n % w = n + w
    /\ n >= w /\ n < 2 * w => n % w = n - w
  BY SMT

LEMMA TimesAbove == \A m, n, w \in Nat : m <= n => m * w <= n * w
  BY SMT

LEMMA TimesSum ==
  \A m, n, w \in Int : (m + n) * w = m * w + n * w /\ (m - n) * w = m * w - n * w /\ 1 * w = w
  BY SMT

LEMMA TimesSign ==
  \A m \in Int, w \in Nat : /\ m <= 0 => m * w <= 0
                            /\ m <= -1 => m * w <= -w
                            /\ m * w \in Int
  BY SMT

LEMMA BaseFacts == W \in Nat /\ W >= 2 /\ W \in Nat \ {0} /\ W * W \in Nat /\ Speed \in Nat \ {0}
  <1>1. W \in Nat \ {0, 1} /\ Speed \in Nat \ {0}
    BY FileAssumption
  <1>2. W * W \in Nat
    BY <1>1
  <1>. QED
    BY <1>1, <1>2

LEMMA ValueRange ==
  ASSUME NEW t \in FileTags
  PROVE  File!Value(t) \in 0 .. W * W - 1
<1>1. t.sec \in 0 .. W - 1 /\ t.frac \in 0 .. W - 1
  BY DEF FileTags
<1>2. t.sec \in Nat /\ W - 1 \in Nat /\ t.sec <= W - 1 /\ W \in Nat
  BY <1>1, BaseFacts
<1>3. t.sec * W <= (W - 1) * W /\ (W - 1) * W = W * W - W
  <2>1. (W - 1) * W = W * W - 1 * W /\ 1 * W = W
    BY <1>2, TimesSum
  <2>. QED
    BY <1>2, <2>1, TimesAbove
<1>4. t.sec * W \in Nat
  BY <1>2
<1>. QED
  BY <1>1, <1>2, <1>3, <1>4, BaseFacts DEF File!Value

LEMMA TagValue ==
  ASSUME NEW n \in Nat
  PROVE  /\ File!Tag(n) \in FileTags
         /\ n < W * W => File!Value(File!Tag(n)) = n
<1> DEFINE q == n \div W
           r == n % W
<1>1. q \in Nat /\ r \in 0 .. W - 1 /\ n = q * W + r
  <2>1. q \in Nat /\ r \in 0 .. W - 1 /\ r = n - W * q
    BY BaseFacts, DivModFacts
  <2> HIDE DEF q, r
  <2>2. W * q \in Int /\ W * q = q * W
    BY <2>1, BaseFacts
  <2>. QED
    BY <2>1, <2>2
<1>2. q % W \in 0 .. W - 1
  BY <1>1, BaseFacts, ModInRange
<1> HIDE DEF q, r
<1>3. ASSUME n < W * W PROVE q < W
  <2>1. W <= q => W * W <= q * W
    BY <1>1, BaseFacts, TimesAbove
  <2>2. q * W \in Nat
    BY <1>1, BaseFacts
  <2>. QED
    BY <1>1, <1>3, <2>1, <2>2, BaseFacts
<1>4. ASSUME n < W * W PROVE q % W = q
  <2>1. q < W
    BY <1>3, <1>4
  <2>2. q \in Int /\ q \in 0 .. W - 1
    BY <2>1, <1>1, BaseFacts
  <2>. QED
    BY <2>2, BaseFacts, ModWraps
<1>5. File!Tag(n) = [sec |-> q % W, frac |-> r]
  BY DEF File!Tag, q, r
<1>6. File!Tag(n) \in FileTags
  BY <1>1, <1>2, <1>5 DEF FileTags
<1>. QED
  BY <1>1, <1>4, <1>5, <1>6 DEF File!Value

LEMMA SubtractValue ==
  ASSUME NEW t \in FileTags, NEW s \in FileTags
  PROVE  /\ File!TimetagSubtract(t, s) \in FileTags
         /\ File!Value(t) >= File!Value(s) =>
              File!Value(File!TimetagSubtract(t, s)) = File!Value(t) - File!Value(s)
<1> DEFINE borrow == IF t.frac < s.frac THEN 1 ELSE 0
           x == t.sec - s.sec - borrow
           f == t.frac - s.frac
<1>1. t.sec \in 0 .. W - 1 /\ t.frac \in 0 .. W - 1 /\ s.sec \in 0 .. W - 1 /\ s.frac \in 0 .. W - 1
  BY DEF FileTags
<1>2. x \in Int /\ f \in Int /\ x <= W - 1 /\ x + W >= 0 /\ W \in Nat \ {0} /\ W \in Int
  BY <1>1, BaseFacts
<1>3. File!TimetagSubtract(t, s) = [sec |-> x % W, frac |-> f % W]
  BY DEF File!TimetagSubtract
<1>4. x % W \in 0 .. W - 1 /\ f % W \in 0 .. W - 1
  BY <1>2, ModInRange
<1>5. File!TimetagSubtract(t, s) \in FileTags
  BY <1>3, <1>4 DEF FileTags
<1>6. f % W = f + borrow * W
  <2>1. CASE t.frac < s.frac
    <3>1. f < 0 /\ f + W >= 0 /\ borrow = 1
      BY <1>1, <2>1, BaseFacts
    <3>2. f % W = f + W
      BY <1>2, <3>1, ModWraps
    <3>. QED
      BY <1>2, <3>1, <3>2
  <2>2. CASE ~ (t.frac < s.frac)
    <3>1. f \in 0 .. W - 1 /\ borrow = 0
      BY <1>1, <2>2, BaseFacts
    <3>2. f % W = f
      BY <1>2, <3>1, ModWraps
    <3>. QED
      BY <1>2, <3>1, <3>2
  <2>. QED
    BY <2>1, <2>2
<1>7. t.sec * W \in Int /\ s.sec * W \in Int /\ borrow * W \in Int /\ borrow \in Int
  BY <1>1, BaseFacts
<1>8. x * W = t.sec * W - s.sec * W - borrow * W
  <2>1. t.sec \in Int /\ s.sec \in Int /\ t.sec - s.sec \in Int
    BY <1>1
  <2>2. (t.sec - s.sec) * W = t.sec * W - s.sec * W
    BY <2>1, <1>2, TimesSum
  <2>3. (t.sec - s.sec - borrow) * W = (t.sec - s.sec) * W - borrow * W
    BY <2>1, <1>2, <1>7, TimesSum
  <2>. QED
    BY <2>2, <2>3
<1> HIDE DEF x, f, borrow
<1>9. ASSUME File!Value(t) >= File!Value(s)
      PROVE  File!Value(File!TimetagSubtract(t, s)) = File!Value(t) - File!Value(s)
  <2> DEFINE tw == t.sec * W
             sw == s.sec * W
             bw == borrow * W
             xw == x * W
             rest == f % W
             v == File!Value(t)
             u == File!Value(s)
  <2>a. v = tw + t.frac /\ u = sw + s.frac
    BY DEF File!Value
  <2>b. f = t.frac - s.frac /\ t.frac \in Int /\ s.frac \in Int
    BY <1>1 DEF f
  <2>c. /\ tw \in Int /\ sw \in Int /\ bw \in Int /\ rest = f + bw /\ xw = tw - sw - bw
        /\ W \in Nat
    BY <1>2, <1>6, <1>7, <1>8
  <2>d. rest \in 0 .. W - 1 /\ (x <= -1 => xw <= -W)
    BY <1>2, <1>4, TimesSign
  <2> HIDE DEF tw, sw, bw, xw, rest
  <2>1. v - u = xw + rest /\ v \in Int /\ u \in Int
    <3> HIDE DEF v, u
    <3>. QED
      BY <2>a, <2>b, <2>c
  <2>4. ~ (x <= -1)
    <3>1. v >= u
      BY <1>9
    <3> HIDE DEF v, u
    <3>. QED
      BY <2>1, <2>c, <2>d, <3>1
  <2>5. x \in 0 .. W - 1
    BY <1>2, <2>4
  <2>6. x % W = x
    BY <1>2, <2>5, ModWraps
  <2>7. /\ File!TimetagSubtract(t, s).sec = x % W
        /\ File!TimetagSubtract(t, s).frac = f % W
    BY <1>3
  <2>8. File!Value(File!TimetagSubtract(t, s)) = (x % W) * W + (f % W)
    BY <2>7 DEF File!Value
  <2>. QED
    BY <2>1, <2>6, <2>8 DEF xw, rest
<1>. QED
  BY <1>5, <1>9

LEMMA AddValue ==
  ASSUME NEW t \in FileTags, NEW a \in FileTags
  PROVE  /\ File!TimetagAdd(t, a) \in FileTags
         /\ File!Value(t) + File!Value(a) < W * W =>
              File!Value(File!TimetagAdd(t, a)) = File!Value(t) + File!Value(a)
<1> DEFINE f == t.frac + a.frac
           g == f % W
           carry == IF g < a.frac THEN 1 ELSE 0
           x == t.sec + a.sec + carry
<1>1. t.sec \in 0 .. W - 1 /\ t.frac \in 0 .. W - 1 /\ a.sec \in 0 .. W - 1 /\ a.frac \in 0 .. W - 1
  BY DEF FileTags
<1>2. f \in Nat /\ f < 2 * W /\ W \in Nat \ {0} /\ W \in Int
  BY <1>1, BaseFacts
<1>3. File!TimetagAdd(t, a) = [sec |-> x % W, frac |-> g]
  BY DEF File!TimetagAdd
<1>4. x \in Nat /\ carry \in {0, 1}
  BY <1>1
<1>5. x % W \in 0 .. W - 1 /\ g \in 0 .. W - 1
  <2>1. x \in Int /\ f \in Int
    BY <1>2, <1>4
  <2> HIDE DEF x, f
  <2>. QED
    BY <1>2, <2>1, ModInRange
<1>6. File!TimetagAdd(t, a) \in FileTags
  BY <1>3, <1>5 DEF FileTags
<1>7. f = g + carry * W
  <2>1. CASE f < W
    <3>1. g = f
      BY <1>2, <2>1, ModWraps
    <3>2. carry = 0
      BY <1>1, <3>1, BaseFacts
    <3>. QED
      BY <1>2, <3>1, <3>2
  <2>2. CASE ~ (f < W)
    <3>1. g = f - W
      BY <1>2, <2>2, ModWraps
    <3>2. carry = 1
      BY <1>1, <3>1, BaseFacts
    <3>. QED
      BY <1>2, <3>1, <3>2
  <2>. QED
    BY <2>1, <2>2
<1>8. t.sec * W \in Int /\ a.sec * W \in Int /\ carry * W \in Int
  BY <1>1, <1>4, BaseFacts
<1>9. x * W = t.sec * W + a.sec * W + carry * W
  <2>1. t.sec \in Int /\ a.sec \in Int /\ t.sec + a.sec \in Int /\ carry \in Int
    BY <1>1, <1>4
  <2>2. (t.sec + a.sec) * W = t.sec * W + a.sec * W
    BY <2>1, <1>2, TimesSum
  <2>3. (t.sec + a.sec + carry) * W = (t.sec + a.sec) * W + carry * W
    BY <2>1, <1>2, TimesSum
  <2>. QED
    BY <2>2, <2>3
<1>10. x >= W => x * W >= W * W
  BY <1>4, BaseFacts, TimesAbove
<1> HIDE DEF x, g, carry
<1>11. ASSUME File!Value(t) + File!Value(a) < W * W
       PROVE  File!Value(File!TimetagAdd(t, a)) = File!Value(t) + File!Value(a)
  <2> DEFINE tw == t.sec * W
             aw == a.sec * W
             cw == carry * W
             xw == x * W
             ww == W * W
             v == File!Value(t)
             u == File!Value(a)
  <2>1. v = tw + t.frac /\ u = aw + a.frac
    BY DEF File!Value
  <2>2. /\ tw \in Int /\ aw \in Int /\ cw \in Int /\ xw = tw + aw + cw
        /\ t.frac \in Int /\ a.frac \in Int /\ t.frac + a.frac = g + cw /\ ww \in Int
        /\ (x >= W => xw >= ww) /\ v + u < ww /\ g \in Nat
    BY <1>1, <1>2, <1>5, <1>7, <1>8, <1>9, <1>10, <1>11
  <2> HIDE DEF tw, aw, cw, xw, ww, v, u
  <2>3. v + u = xw + g /\ xw \in Int
    BY <2>1, <2>2
  <2>4. ~ (x >= W)
    BY <2>2, <2>3
  <2>5. x % W = x
    BY <1>2, <1>4, <2>4, ModWraps
  <2>6. /\ File!TimetagAdd(t, a).sec = x % W
        /\ File!TimetagAdd(t, a).frac = g
    BY <1>3
  <2>7. File!Value(File!TimetagAdd(t, a)) = (x % W) * W + g
    BY <2>6 DEF File!Value
  <2>. QED
    BY <2>3, <2>5, <2>7 DEF xw, v, u
<1>. QED
  BY <1>6, <1>11

LEMMA MultiplyValue ==
  ASSUME NEW t \in FileTags
  PROVE  /\ File!TimetagMultiply(t) \in FileTags
         /\ File!Value(File!TimetagMultiply(t)) = File!Value(t) \div Speed
<1> DEFINE v == File!Value(t)
<1>1. v \in Nat /\ v < W * W
  BY ValueRange, BaseFacts
<1> HIDE DEF v
<1>2. v \div Speed \in Nat /\ v \div Speed <= v
  BY <1>1, BaseFacts, DivModFacts, DivAtMost
<1>3. v \div Speed < W * W
  BY <1>1, <1>2, BaseFacts
<1>. QED
  BY <1>2, <1>3, TagValue DEF File!TimetagMultiply, v

(* A time is played as far from the start as it is in the file, at the     *)
(* given speed.                                                            *)
LEMMA PlayedValue ==
  ASSUME NEW t \in FileTags, NEW start \in FileTags
  PROVE  /\ File!Played(t, start) \in FileTags
         /\ LET d == File!Value(t) - File!Value(start)
            IN  d >= 0 /\ FileStart + (d \div Speed) < W * W =>
                  File!Value(File!Played(t, start)) = FileStart + (d \div Speed)
<1> DEFINE d == File!Value(t) - File!Value(start)
           s == File!TimetagSubtract(t, start)
           m == File!TimetagMultiply(s)
           a == File!Tag(FileStart)
<1>1. File!Played(t, start) = File!TimetagAdd(m, a)
  BY DEF File!Played
<1>2. FileStart \in Nat /\ FileStart < W * W
  BY FileAssumption, BaseFacts
<1>3. s \in FileTags /\ a \in FileTags /\ File!Value(a) = FileStart
  BY <1>2, SubtractValue, TagValue
<1>4. m \in FileTags /\ File!Value(m) = File!Value(s) \div Speed
  BY <1>3, MultiplyValue
<1>5. File!Value(t) \in Int /\ File!Value(start) \in Int
  BY ValueRange, BaseFacts
<1>6. ASSUME d >= 0 PROVE File!Value(s) = d
  <2>1. File!Value(t) >= File!Value(start)
    BY <1>5, <1>6
  <2>. QED
    BY <2>1, SubtractValue
<1> HIDE DEF s, m, a
<1>7. File!TimetagAdd(m, a) \in FileTags
  BY <1>3, <1>4, AddValue
<1>8. ASSUME d >= 0, FileStart + (d \div Speed) < W * W
      PROVE  File!Value(File!TimetagAdd(m, a)) = FileStart + (d \div Speed)
  <2>1. d \in Nat
    BY <1>5, <1>8
  <2> HIDE DEF d
  <2>2. d \div Speed \in Nat
    BY <2>1, BaseFacts, DivModFacts
  <2>3. File!Value(m) = d \div Speed
    BY <1>4, <1>6, <1>8
  <2>4. File!Value(m) + File!Value(a) = FileStart + (d \div Speed)
    BY <1>2, <1>3, <2>2, <2>3
  <2>. QED
    BY <1>3, <1>4, <1>8, <2>4, AddValue
<1>. QED
  BY <1>1, <1>7, <1>8

(* The values of a message, counted by their types.                        *)
LEMMA ValueOfFacts ==
  ASSUME NEW types \in Seq(STRING), NEW i \in 1 .. Len(types)
  PROVE  /\ File!ValueOf(types, i) \in Nat
         /\ File!ValueOf(types, i) <= File!ValueOf(types, Len(types))
         /\ types[i] \in File!Valued =>
              /\ File!ValueOf(types, i) >= 1
              /\ \A j \in 1 .. i - 1 : File!ValueOf(types, j) < File!ValueOf(types, i)
<1> DEFINE Upto(n) == {j \in 1 .. n : types[j] \in File!Valued}
<1>1. \A n \in Nat : IsFiniteSet(Upto(n)) /\ Cardinality(Upto(n)) \in Nat
  <2> SUFFICES ASSUME NEW n \in Nat
               PROVE  IsFiniteSet(Upto(n)) /\ Cardinality(Upto(n)) \in Nat
    OBVIOUS
  <2>1. IsFiniteSet(1 .. n) /\ Upto(n) \in SUBSET (1 .. n)
    BY FS_Interval
  <2>. QED
    BY <2>1, FS_Subset, FS_CardinalityType
<1>2. \A n \in Nat : File!ValueOf(types, n) = Cardinality(Upto(n))
  <2> SUFFICES ASSUME NEW n \in Nat PROVE File!ValueOf(types, n) = Cardinality(Upto(n))
    OBVIOUS
  <2>. QED
    <3>1. \A S : File!Cardinality(S) = Cardinality(S)
      BY DEF File!Cardinality, Cardinality
    <3>2. File!ValueOf(types, n) = File!Cardinality(Upto(n))
      BY Zenon DEF File!ValueOf
    <3>. QED
      BY <3>1, <3>2, Zenon
<1>3. Len(types) \in Nat /\ i \in Nat /\ i <= Len(types)
  OBVIOUS
<1>4. File!ValueOf(types, i) <= File!ValueOf(types, Len(types))
  <2>1. Upto(i) \subseteq Upto(Len(types))
    BY <1>3
  <2>2. /\ IsFiniteSet(Upto(Len(types)))
        /\ File!ValueOf(types, i) = Cardinality(Upto(i))
        /\ File!ValueOf(types, Len(types)) = Cardinality(Upto(Len(types)))
    BY <1>1, <1>2, <1>3
  <2> HIDE DEF Upto
  <2>. QED
    BY <2>1, <2>2, FS_Subset
<1>5. ASSUME types[i] \in File!Valued, NEW j \in 0 .. i - 1
      PROVE  Cardinality(Upto(j)) < Cardinality(Upto(i))
  <2>1. j \in Nat /\ Upto(j) \subseteq Upto(i) /\ i \in Upto(i) /\ i \notin Upto(j)
    BY <1>3, <1>5
  <2>2. Upto(j) # Upto(i)
    BY <2>1
  <2> HIDE DEF Upto
  <2>3. IsFiniteSet(Upto(i)) /\ Cardinality(Upto(i)) \in Nat /\ Cardinality(Upto(j)) \in Nat
    BY <1>1, <1>3, <2>1
  <2>4. Cardinality(Upto(j)) <= Cardinality(Upto(i))
        /\ (Cardinality(Upto(j)) = Cardinality(Upto(i)) => Upto(j) = Upto(i))
    BY <2>1, <2>3, FS_Subset
  <2>. QED
    BY <2>2, <2>3, <2>4
<1>6. ASSUME types[i] \in File!Valued
      PROVE  /\ File!ValueOf(types, i) >= 1
             /\ \A j \in 1 .. i - 1 : File!ValueOf(types, j) < File!ValueOf(types, i)
  <2> HIDE DEF Upto
  <2>1. 0 \in 0 .. i - 1 /\ Cardinality(Upto(0)) \in Nat /\ Cardinality(Upto(i)) \in Nat
    BY <1>1, <1>3
  <2>2. Cardinality(Upto(0)) < Cardinality(Upto(i))
    BY <1>5, <1>6, <2>1
  <2>3. \A j \in 1 .. i - 1 : Cardinality(Upto(j)) < Cardinality(Upto(i))
    BY <1>5, <1>6
  <2>4. \A j \in 1 .. i - 1 : File!ValueOf(types, j) = Cardinality(Upto(j))
    BY <1>2, <1>3
  <2>5. File!ValueOf(types, i) = Cardinality(Upto(i))
    BY <1>2, <1>3
  <2>. QED
    BY <2>1, <2>2, <2>3, <2>4, <2>5
<1>7. File!ValueOf(types, i) \in Nat
  BY <1>1, <1>2, <1>3
<1>. QED
  BY <1>4, <1>6, <1>7

LEMMA LineFacts ==
  ASSUME file \in Files
  PROVE  /\ file \in Seq(FileLines) /\ Len(file) \in Nat
         /\ \A i \in 1 .. Len(file) :
              /\ file[i].types \in Seq(STRING) /\ file[i].reads \in Seq(STRING)
         /\ MaxValues \in Nat
<1>1. file \in Seq(FileLines)
  BY FileAssumption
<1>2. \A i \in 1 .. Len(file) : file[i] \in FileLines
  BY <1>1, ElementOfSeq
<1>3. \A i \in 1 .. Len(file) : file[i].types \in Seq(STRING) /\ file[i].reads \in Seq(STRING)
  BY <1>2 DEF FileLines
<1>. QED
  BY <1>1, <1>3, FileAssumption

(* The array of values keeps its type.                                     *)
LEMMA FilledType ==
  ASSUME FileTypeOK, line_no < Len(file),
         NEW l, l = file[line_no + 1],
         NEW new, new = File!Filled(l)
  PROVE  new \in [1 .. MaxValues -> GivenValues]
<1>1. line_no + 1 \in 1 .. Len(file) /\ line_no + 1 \in Nat
  BY LineFacts DEF FileTypeOK
<1>2. l.reads \in Seq(STRING) /\ MaxValues \in Nat
  BY <1>1, LineFacts DEF FileTypeOK
<1>3. new = [k \in 1 .. MaxValues |->
               IF k <= Len(l.reads) THEN [line |-> line_no + 1, place |-> k, read |-> l.reads[k]]
               ELSE args[k]]
  BY DEF File!Filled, File!Places
<1> SUFFICES ASSUME NEW k \in 1 .. MaxValues PROVE new[k] \in GivenValues
  BY <1>3
<1>4. CASE k <= Len(l.reads)
  <2>1. k \in 1 .. Len(l.reads) /\ k \in Nat
    BY <1>2, <1>4
  <2>2. l.reads[k] \in STRING
    BY <1>2, <2>1, ElementOfSeq
  <2>. QED
    BY <1>1, <1>3, <1>4, <2>1, <2>2 DEF GivenValues
<1>5. CASE ~ (k <= Len(l.reads))
  BY <1>3, <1>5 DEF FileTypeOK
<1>. QED
  BY <1>4, <1>5

(* The types of a line's message are a string, its own when it has any.    *)
LEMMA TypesForLine ==
  ASSUME FileTypeOK, line_no < Len(file),
         NEW l, l = file[line_no + 1],
         NEW types \in File!TypesFor(l)
  PROVE  types \in Seq(STRING) /\ (File!Complete(l) => l.types = types)
<1>1. line_no + 1 \in 1 .. Len(file) /\ file \in Files /\ line_no \in Nat
  BY LineFacts DEF FileTypeOK
<1>2. \A i \in 1 .. Len(file) : file[i].types \in Seq(STRING)
  BY <1>1, LineFacts
<1>3. 1 .. line_no \subseteq 1 .. Len(file)
  BY <1>1, LineFacts
<1>4. CASE l.types # <<>>
  BY <1>1, <1>2, <1>4 DEF File!TypesFor
<1>5. CASE l.types = <<>>
  <2>1. types = <<>> \/ \E i \in 1 .. line_no : types = file[i].types
    BY <1>5 DEF File!TypesFor
  <2>2. CASE types = <<>>
    <3>1. <<>> \in Seq(STRING)
      OBVIOUS
    <3>. QED
      BY <1>5, <2>2, <3>1 DEF File!Complete
  <2>3. ASSUME NEW i \in 1 .. line_no, types = file[i].types
        PROVE  types \in Seq(STRING)
    <3>1. i \in 1 .. Len(file)
      BY <1>3
    <3>. QED
      BY <1>2, <2>3, <3>1
  <2>. QED
    BY <1>5, <2>1, <2>2, <2>3 DEF File!Complete
<1>. QED
  BY <1>4, <1>5

(* A message that may be made of the next line's values, with what earlier *)
(* lines left in the array, and of some types.                             *)
LEMMA MessageFacts ==
  ASSUME FileTypeOK, line_no < Len(file),
         NEW l, l = file[line_no + 1],
         NEW new \in [1 .. MaxValues -> GivenValues], new = File!Filled(l),
         NEW types \in Seq(STRING), File!Fits(l, types)
  PROVE  File!MayCreate(types, new, line_no + 1) =>
           LET m == [line |-> line_no + 1, args |-> File!CreateMessage(types, new)]
           IN  /\ m \in FileMessages /\ Len(m.args) = Len(types)
               /\ File!Complete(l) /\ l.types = types => \A i \in 1 .. Len(types) :
                    /\ m.args[i][1] = types[i]
                    /\ types[i] \in File!Valued =>
                         /\ m.args[i][2].line = m.line
                         /\ \A j \in 1 .. i - 1 :
                              types[j] \in File!Valued =>
                                m.args[j][2].place < m.args[i][2].place
<1>1. line_no + 1 \in 1 .. Len(file) /\ line_no + 1 \in Nat
  BY LineFacts DEF FileTypeOK
<1>2. /\ types \in Seq(STRING) /\ l.reads \in Seq(STRING)
      /\ Len(l.reads) <= MaxValues /\ MaxValues \in Nat
      /\ File!ValueOf(types, Len(types)) <= MaxValues
  BY <1>1, LineFacts DEF FileTypeOK, File!Fits
<1>3. new = [k \in 1 .. MaxValues |->
               IF k <= Len(l.reads) THEN [line |-> line_no + 1, place |-> k, read |-> l.reads[k]]
               ELSE args[k]]
  BY DEF File!Filled, File!Places
<1>5. ASSUME NEW i \in 1 .. Len(types), types[i] \in File!Valued
      PROVE  File!ValueOf(types, i) \in 1 .. MaxValues
  BY <1>2, <1>5, ValueOfFacts
<1> DEFINE made_of == File!CreateMessage(types, new)
           m == [line |-> line_no + 1, args |-> made_of]
<1>6. ASSUME File!MayCreate(types, new, line_no + 1), NEW i \in 1 .. Len(types)
      PROVE  /\ made_of[i] \in STRING \X GivenValues /\ made_of[i][1] = types[i]
             /\ types[i] \in File!Valued =>
                  made_of[i][2] = new[File!ValueOf(types, i)]
  <2>0. types[i] \in STRING
    BY <1>2, ElementOfSeq
  <2>1. made_of[i] = IF types[i] \in File!Constants THEN <<types[i], File!NoValue>>
                     ELSE <<types[i], new[File!ValueOf(types, i)]>>
    BY DEF File!CreateMessage
  <2>2. types[i] \in File!Constants \/ types[i] \in File!Valued
    BY <1>6 DEF File!MayCreate
  <2>3. types[i] \in File!Valued => types[i] \notin File!Constants
    BY DEF File!Valued, File!Numbers, File!Constants
  <2>4. CASE types[i] \in File!Constants
    <3>1. File!NoValue \in GivenValues
      BY DEF File!NoValue, GivenValues
    <3>. QED
      BY <2>0, <2>1, <2>3, <2>4, <3>1
  <2>5. CASE types[i] \in File!Valued
    <3>1. new[File!ValueOf(types, i)] \in GivenValues
      BY <1>5, <2>5
    <3>. QED
      BY <2>0, <2>1, <2>3, <2>5, <3>1
  <2>. QED
    BY <2>2, <2>4, <2>5
<1>7. ASSUME File!MayCreate(types, new, line_no + 1) PROVE m \in FileMessages
  <2>1. made_of = [i \in 1 .. Len(types) |-> made_of[i]]
    BY DEF File!CreateMessage
  <2>2. Len(types) \in Nat /\ \A i \in 1 .. Len(types) : made_of[i] \in STRING \X GivenValues
    BY <1>2, <1>6, <1>7
  <2> HIDE DEF made_of
  <2>3. made_of \in [1 .. Len(types) -> STRING \X GivenValues]
    BY <2>1, <2>2
  <2>4. made_of \in Seq(STRING \X GivenValues)
    BY <2>2, <2>3
  <2>. QED
    BY <1>1, <2>4 DEF FileMessages
<1>8. ASSUME File!MayCreate(types, new, line_no + 1), File!Complete(l), l.types = types,
             NEW i \in 1 .. Len(types), types[i] \in File!Valued
      PROVE  /\ made_of[i][2].line = line_no + 1
             /\ made_of[i][2].place = File!ValueOf(types, i)
  <2>1. File!ValueOf(types, i) \in 1 .. MaxValues
    BY <1>5, <1>8
  <2>2. File!ValueOf(types, i) <= Len(l.reads)
    <3>1. Len(l.reads) >= File!ValueOf(types, Len(types)) /\ Len(l.reads) \in Nat
      BY <1>2, <1>8 DEF File!Complete
    <3>2. Len(types) \in 1 .. Len(types)
      BY <1>2
    <3>3. /\ File!ValueOf(types, i) \in Nat
          /\ File!ValueOf(types, i) <= File!ValueOf(types, Len(types))
          /\ File!ValueOf(types, Len(types)) \in Nat
      BY <1>2, <3>2, ValueOfFacts
    <3>. QED
      BY <3>1, <3>3
  <2>3. new[File!ValueOf(types, i)].line = line_no + 1
        /\ new[File!ValueOf(types, i)].place = File!ValueOf(types, i)
    BY <1>3, <2>1, <2>2
  <2>. QED
    BY <1>6, <1>8, <2>3
<1>9. ASSUME File!MayCreate(types, new, line_no + 1), File!Complete(l), l.types = types,
             NEW i \in 1 .. Len(types), types[i] \in File!Valued,
             NEW j \in 1 .. i - 1, types[j] \in File!Valued
      PROVE  made_of[j][2].place < made_of[i][2].place
  <2>1. j \in 1 .. Len(types)
    BY <1>2
  <2>2. File!ValueOf(types, j) < File!ValueOf(types, i)
    BY <1>2, <1>9, ValueOfFacts
  <2>. QED
    BY <1>8, <1>9, <2>1, <2>2
<1>10. Len(made_of) = Len(types)
  <2>1. made_of = [i \in 1 .. Len(types) |-> made_of[i]]
    BY DEF File!CreateMessage
  <2>2. Len(types) \in Nat
    BY <1>2
  <2> HIDE DEF made_of
  <2>. QED
    BY <2>1, <2>2
<1> HIDE DEF made_of
<1>. QED
  BY <1>6, <1>7, <1>8, <1>9, <1>10 DEF made_of

-----------------------------------------------------------------------------
(* The time of the next line.                                              *)

LEMMA LineTimes ==
  ASSUME file \in Files, NEW i \in 1 .. Len(file)
  PROVE  \/ file[i].tt = <<>>
         \/ Len(file[i].tt) = 1 /\ file[i].tt[1] \in 0 .. W - 1
         \/ /\ Len(file[i].tt) = 2
            /\ file[i].tt[1] \in 0 .. W - 1 /\ file[i].tt[2] \in 0 .. W - 1
<1>1. file[i] \in FileLines
  BY LineFacts, ElementOfSeq
<1>2. file[i].tt \in {<<>>} \cup { <<sec>> : sec \in 0 .. W - 1 } \cup ((0 .. W - 1) \X (0 .. W - 1))
  BY <1>1 DEF FileLines
<1>3. CASE file[i].tt \in { <<sec>> : sec \in 0 .. W - 1 }
  BY <1>3
<1>4. CASE file[i].tt \in (0 .. W - 1) \X (0 .. W - 1)
  BY <1>4
<1>. QED
  BY <1>2, <1>3, <1>4

LEMMA LeastIs ==
  ASSUME NEW lines, NEW i \in Nat, NEW o \in TimedOf(lines, i),
         \A k \in TimedOf(lines, i) : o <= k
  PROVE  (CHOOSE j \in TimedOf(lines, i) : \A k \in TimedOf(lines, i) : j <= k) = o
<1> DEFINE T == TimedOf(lines, i)
<1>1. T \subseteq Nat
  BY DEF TimedOf
<1>2. o \in T /\ \A k \in T : o <= k
  OBVIOUS
<1> HIDE DEF T
<1>3. \A p \in T : (\A k \in T : p <= k) => p = o
  <2> SUFFICES ASSUME NEW p \in T, \A k \in T : p <= k PROVE p = o
    OBVIOUS
  <2>1. o \in Nat /\ p \in Nat
    BY <1>1, <1>2
  <2>2. p <= o /\ o <= p
    BY <1>2, <2>1
  <2>. QED
    BY <2>1, <2>2
<1>4. (CHOOSE j \in T : \A k \in T : j <= k) = o
  BY <1>2, <1>3
<1>. QED
  BY <1>4 DEF T

LEMMA ReadStart ==
  ASSUME FileTypeOK, StartsAt(file, tt_start, line_no), line_no < Len(file),
         NEW start \in File!Starts(file[line_no + 1].tt)
  PROVE  /\ start \in {<<>>} \cup { <<t>> : t \in FileTags }
         /\ StartsAt(file, start, line_no + 1)
         /\ file[line_no + 1].tt # <<>> => start # <<>>
<1> DEFINE n == line_no + 1
           tt == file[n].tt
<1>1. line_no \in Nat /\ n \in 1 .. Len(file) /\ n \in Nat /\ file \in Files
  BY LineFacts DEF FileTypeOK
<1>2. TimedOf(file, n) = TimedOf(file, line_no) \cup (IF tt # <<>> THEN {n} ELSE {})
  <2>1. 1 .. n = (1 .. line_no) \cup {n}
    BY <1>1
  <2>. QED
    BY <2>1 DEF TimedOf
<1>3. CASE tt_start # <<>>
  <2>1. start = tt_start
    BY <1>3 DEF File!Starts
  <2>2. PICK o \in TimedOf(file, line_no) :
           /\ \A k \in TimedOf(file, line_no) : o <= k
           /\ Len(file[o].tt) = 2 => tt_start = << File!FirstTag(file[o].tt) >>
    BY <1>3 DEF StartsAt
  <2>3. o \in 1 .. line_no
    BY DEF TimedOf
  <2>4. o \in TimedOf(file, n) /\ \A k \in TimedOf(file, n) : o <= k
    <3>1. \A k \in TimedOf(file, n) : k \in TimedOf(file, line_no) \/ k = n
      BY <1>2
    <3>2. o <= n
      BY <1>1, <2>3
    <3>. QED
      BY <1>2, <2>2, <3>1, <3>2
  <2>. QED
    BY <1>3, <2>1, <2>2, <2>4 DEF StartsAt, FileTypeOK
<1>4. CASE tt_start = <<>> /\ tt = <<>>
  <2>1. start = <<>>
    BY <1>4 DEF File!Starts
  <2>. QED
    BY <1>2, <1>4, <2>1 DEF StartsAt
<1>5. CASE tt_start = <<>> /\ tt # <<>>
  <2>1. PICK f \in IF Len(tt) > 1 THEN {tt[2]} ELSE 0 .. W - 1 :
           start = << [sec |-> tt[1], frac |-> f] >>
    BY <1>5 DEF File!Starts
  <2>2. tt[1] \in 0 .. W - 1 /\ f \in 0 .. W - 1
        /\ (Len(tt) = 2 => f = tt[2])
    BY <1>1, <1>5, <2>1, LineTimes
  <2>3. start # <<>> /\ start \in { <<t>> : t \in FileTags }
    BY <2>1, <2>2 DEF FileTags
  <2>4. TimedOf(file, n) = {n}
    BY <1>2, <1>5 DEF StartsAt
  <2>5. Len(tt) = 2 => start = << File!FirstTag(tt) >>
    BY <2>1, <2>2 DEF File!FirstTag
  <2>6. StartsAt(file, start, n)
    BY <1>1, <2>3, <2>4, <2>5 DEF StartsAt
  <2>. QED
    BY <2>3, <2>6
<1>. QED
  BY <1>3, <1>4, <1>5

LEMMA ReadTag ==
  ASSUME FileTypeOK, StartsAt(file, tt_start, line_no), line_no < Len(file),
         NEW start \in File!Starts(file[line_no + 1].tt),
         NEW tt, tt = IF file[line_no + 1].tt = <<>> THEN File!Immediate
                      ELSE File!Played(File!Given(file[line_no + 1].tt), start[1])
  PROVE  tt \in FileTags /\ RightFor(file, tt, line_no + 1)
<1> DEFINE n == line_no + 1
           l == file[n].tt
           g == File!Given(l)
<1>1. n \in 1 .. Len(file) /\ n \in Nat /\ file \in Files
  BY LineFacts DEF FileTypeOK
<1>2. CASE l = <<>>
  BY <1>2, BaseFacts DEF File!Immediate, FileTags, RightFor
<1>3. CASE l # <<>>
  <2>1. /\ start \in { <<t>> : t \in FileTags }
        /\ StartsAt(file, start, n) /\ start # <<>>
    BY <1>3, ReadStart
  <2>2. start[1] \in FileTags /\ start = <<start[1]>>
    BY <2>1
  <2>3. tts[this] \in FileTags
    BY DEF FileTypeOK
  <2>4. g \in FileTags /\ (Len(l) = 2 => g = File!FirstTag(l))
    <3>1. \/ Len(l) = 1 /\ l[1] \in 0 .. W - 1
          \/ Len(l) = 2 /\ l[1] \in 0 .. W - 1 /\ l[2] \in 0 .. W - 1
      BY <1>1, <1>3, LineTimes
    <3>2. tts[this].sec \in 0 .. W - 1 /\ tts[this].frac \in 0 .. W - 1
      BY <2>3 DEF FileTags
    <3>3. g = [sec |-> IF Len(l) > 0 THEN l[1] ELSE tts[this].sec,
               frac |-> IF Len(l) > 1 THEN l[2] ELSE tts[this].frac]
      BY DEF File!Given
    <3>4. File!FirstTag(l) = [sec |-> l[1], frac |-> IF Len(l) > 1 THEN l[2] ELSE 0]
      BY DEF File!FirstTag
    <3> HIDE DEF l, g
    <3>5. CASE Len(l) = 1 /\ l[1] \in 0 .. W - 1
      BY <3>2, <3>3, <3>5 DEF FileTags
    <3>6. CASE Len(l) = 2 /\ l[1] \in 0 .. W - 1 /\ l[2] \in 0 .. W - 1
      BY <3>3, <3>4, <3>6 DEF FileTags
    <3>. QED
      BY <3>1, <3>5, <3>6
  <2>5. tt = File!Played(g, start[1]) /\ tt \in FileTags
    BY <1>3, <2>2, <2>4, PlayedValue
  <2> DEFINE origin == CHOOSE j \in TimedOf(file, n) : \A k \in TimedOf(file, n) : j <= k
  <2>6. ASSUME Len(l) = 2, Len(file[origin].tt) = 2
        PROVE  File!Value(tt) = FileStart +
                 ((File!Value(File!FirstTag(l)) - File!Value(File!FirstTag(file[origin].tt)))
                    \div Speed)
    <3>1. PICK o \in TimedOf(file, n) :
             /\ \A k \in TimedOf(file, n) : o <= k
             /\ Len(file[o].tt) = 2 => start = << File!FirstTag(file[o].tt) >>
      BY <2>1 DEF StartsAt
    <3>2. origin = o
      BY <1>1, <3>1, LeastIs
    <3> HIDE DEF origin
    <3>3. o \in 1 .. n
      BY DEF TimedOf
    <3> DEFINE d == File!Value(File!FirstTag(l)) - File!Value(File!FirstTag(file[o].tt))
    <3>4. start[1] = File!FirstTag(file[o].tt) /\ g = File!FirstTag(l)
      BY <2>4, <2>6, <3>1, <3>2
    <3>5. d >= 0 /\ FileStart + (d \div Speed) < W * W
      <4>1. CASE o < n
        <5>1. o \in 1 .. Len(file)
          BY <1>1, <3>3
        <5>2. Len(file[o].tt) = 2 /\ Len(file[n].tt) = 2
          BY <2>6, <3>2
        <5>. QED
          BY <1>1, <4>1, <5>1, <5>2, FileAssumption
      <4>2. CASE o = n
        <5>1. File!Value(File!FirstTag(l)) \in Int
          BY <2>4, <3>4, ValueRange, BaseFacts
        <5>2. d = 0
          BY <4>2, <5>1
        <5>3. 0 \div Speed = 0
          BY BaseFacts
        <5>. QED
          BY <5>2, <5>3, FileAssumption, BaseFacts
      <4>. QED
        BY <1>1, <3>3, <4>1, <4>2
    <3>6. File!Value(tt) = FileStart + (d \div Speed)
      BY <2>2, <2>4, <2>5, <3>4, <3>5, PlayedValue
    <3>. QED
      BY <3>2, <3>6
  <2>. QED
    BY <1>3, <2>5, <2>6 DEF RightFor
<1>. QED
  BY <1>2, <1>3

-----------------------------------------------------------------------------
(* The bundles sent, and the one that is filled.                           *)

LEMMA BundlesValue ==
  ASSUME FileTypeOK
  PROVE  /\ BundlesNow \in Seq(BundleRecords)
         /\ bundle = <<>> => BundlesNow = bundles
         /\ bundle # <<>> =>
              /\ bundle[1] \in BundleRecords /\ bundle = << bundle[1] >>
              /\ BundlesNow = Append(bundles, bundle[1])
<1>1. bundles \in Seq(BundleRecords) /\ bundle \in Seq(BundleRecords) /\ Len(bundle) <= 1
  BY DEF FileTypeOK
<1>2. BundlesNow = bundles \o bundle
  BY DEF BundlesNow
<1>3. CASE bundle = <<>>
  BY <1>1, <1>2, <1>3
<1>4. CASE bundle # <<>>
  <2>1. Len(bundle) = 1
    BY <1>1, <1>4
  <2>2. bundle[1] \in BundleRecords /\ bundle = << bundle[1] >>
    <3> DEFINE r == << bundle[1] >>
    <3>1. bundle[1] \in BundleRecords
      <4>1. 1 \in 1 .. Len(bundle)
        BY <2>1
      <4>2. \A i \in 1 .. Len(bundle) : bundle[i] \in BundleRecords
        BY <1>1, ElementOfSeq
      <4>. QED
        BY <4>1, <4>2
    <3>2. r \in Seq(BundleRecords) /\ Len(r) = 1 /\ r[1] = bundle[1]
      BY <3>1
    <3> HIDE DEF r
    <3>3. \A i \in 1 .. Len(bundle) : bundle[i] = r[i]
      BY <2>1, <3>2
    <3>4. bundle = r
      BY <1>1, <2>1, <3>2, <3>3, SeqEqual
    <3>. QED
      BY <3>1, <3>4 DEF r
  <2>3. bundles \o << bundle[1] >> = Append(bundles, bundle[1])
    BY <1>1, <2>2
  <2>4. BundlesNow \in Seq(BundleRecords)
    BY <1>1, <1>2
  <2>. QED
    BY <1>2, <1>4, <2>2, <2>3, <2>4
<1>. QED
  BY <1>3, <1>4

(* Two lists that differ in when their bundles went.                       *)
Alike(p, q) ==
  /\ Len(p) = Len(q)
  /\ \A n \in 1 .. Len(p) : p[n].msgs = q[n].msgs /\ p[n].tt = q[n].tt

LEMMA CarriesAlike ==
  ASSUME NEW p \in Seq(BundleRecords), NEW q \in Seq(BundleRecords), Alike(p, q), NEW S,
         Carries(p, S)
  PROVE  Carries(q, S)
<1>1. DOMAIN p = DOMAIN q /\ \A n \in DOMAIN q : p[n].msgs = q[n].msgs
  BY DEF Alike
<1>. QED
  BY <1>1 DEF Carries

LEMMA RecordFacts ==
  ASSUME NEW p \in Seq(BundleRecords), NEW n \in DOMAIN p
  PROVE  p[n] \in BundleRecords /\ p[n].msgs \in Seq(Nat) /\ p[n].tt \in FileTags /\ p[n].at \in Nat
<1>1. p[n] \in BundleRecords
  BY ElementOfSeq
<1>. QED
  BY <1>1 DEF BundleRecords

(* A message in a bundle of its own, and one at the end of the last.       *)
LEMMA CarriesAppend ==
  ASSUME NEW p \in Seq(BundleRecords), NEW r \in BundleRecords, NEW S \in SUBSET Nat, NEW x \in Nat,
         r.msgs = <<x>>, \A i \in S : i < x, Carries(p, S)
  PROVE  Carries(Append(p, r), S \cup {x})
<1> DEFINE q == Append(p, r)
<1>1. /\ Len(p) \in Nat /\ DOMAIN p = 1 .. Len(p) /\ DOMAIN q = 1 .. (Len(p) + 1)
      /\ q[Len(p) + 1] = r /\ \A n \in 1 .. Len(p) : q[n] = p[n]
  BY AppendProperties
<1>2. DOMAIN r.msgs = {1} /\ r.msgs[1] = x
  OBVIOUS
<1> HIDE DEF q
<1>3. ASSUME NEW i \in S \cup {x}
      PROVE  \E n \in DOMAIN q : \E k \in DOMAIN q[n].msgs : q[n].msgs[k] = i
  <2>1. CASE i \in S
    <3>1. PICK n \in DOMAIN p : \E k \in DOMAIN p[n].msgs : p[n].msgs[k] = i
      BY <2>1 DEF Carries
    <3>. QED
      BY <1>1, <3>1
  <2>2. CASE i = x
    BY <1>1, <1>2, <2>2
  <2>. QED
    BY <2>1, <2>2
<1>4. ASSUME NEW n \in DOMAIN q, NEW k \in DOMAIN q[n].msgs
      PROVE  /\ q[n].msgs[k] \in S \cup {x}
             /\ \A m \in DOMAIN q : \A j \in DOMAIN q[m].msgs :
                  m < n \/ (m = n /\ j < k) => q[m].msgs[j] < q[n].msgs[k]
  <2>1. CASE n \in 1 .. Len(p)
    <3>1. n \in DOMAIN p /\ k \in DOMAIN p[n].msgs /\ q[n] = p[n]
      BY <1>1, <2>1
    <3>2. \A m \in DOMAIN q : m < n \/ m = n => m \in DOMAIN p /\ q[m] = p[m]
      BY <1>1, <2>1
    <3>3. p[n].msgs[k] \in S
      BY <3>1 DEF Carries
    <3>4. ASSUME NEW m \in DOMAIN q, NEW j \in DOMAIN q[m].msgs, m < n \/ (m = n /\ j < k)
          PROVE  q[m].msgs[j] < q[n].msgs[k]
      <4>1. m \in DOMAIN p /\ q[m] = p[m]
        BY <3>2, <3>4
      <4>. QED
        BY <3>1, <3>4, <4>1 DEF Carries
    <3>. QED
      BY <3>1, <3>3, <3>4
  <2>2. CASE n = Len(p) + 1
    <3>1. q[n].msgs = r.msgs /\ k = 1 /\ q[n].msgs[k] = x
      BY <1>1, <1>2, <2>2
    <3>2. ASSUME NEW m \in DOMAIN q, NEW j \in DOMAIN q[m].msgs, m < n \/ (m = n /\ j < k)
          PROVE  q[m].msgs[j] < x
      <4>1. m # n
        BY <1>2, <3>1, <3>2
      <4>2. m \in DOMAIN p /\ q[m] = p[m]
        BY <1>1, <2>2, <3>2, <4>1
      <4>3. p[m].msgs[j] \in S
        BY <3>2, <4>2 DEF Carries
      <4>. QED
        BY <4>2, <4>3
    <3>. QED
      BY <3>1, <3>2
  <2>. QED
    BY <1>1, <2>1, <2>2
<1>. QED
  BY <1>3, <1>4 DEF Carries, q

LEMMA CarriesJoin ==
  ASSUME NEW p \in Seq(BundleRecords), NEW r \in BundleRecords, NEW s \in BundleRecords,
         NEW S \in SUBSET Nat, NEW x \in Nat,
         s.msgs = Append(r.msgs, x), \A i \in S : i < x, Carries(Append(p, r), S)
  PROVE  Carries(Append(p, s), S \cup {x})
<1> DEFINE q == Append(p, r)
           t == Append(p, s)
           last == Len(p) + 1
           old == r.msgs
           new == s.msgs
<1>1. /\ Len(p) \in Nat /\ DOMAIN q = 1 .. last /\ DOMAIN t = 1 .. last
      /\ q[last] = r /\ t[last] = s /\ \A n \in 1 .. Len(p) : t[n] = p[n] /\ q[n] = p[n]
  BY AppendProperties
<1>2. old \in Seq(Nat)
  BY DEF BundleRecords
<1>3. /\ Len(old) \in Nat /\ DOMAIN old = 1 .. Len(old) /\ DOMAIN new = 1 .. (Len(old) + 1)
      /\ new[Len(old) + 1] = x /\ \A k \in 1 .. Len(old) : new[k] = old[k]
  BY <1>2, AppendProperties
<1>4. /\ last \in Nat /\ last \in DOMAIN q /\ last \in DOMAIN t
      /\ q[last].msgs = old /\ t[last].msgs = new
      /\ \A n \in DOMAIN t : n # last => n < last /\ n \in DOMAIN q /\ t[n].msgs = q[n].msgs
  BY <1>1
<1> HIDE DEF q, t, last, old, new
<1>5. ASSUME NEW i \in S \cup {x}
      PROVE  \E n \in DOMAIN t : \E k \in DOMAIN t[n].msgs : t[n].msgs[k] = i
  <2>1. CASE i \in S
    <3>1. PICK n \in DOMAIN q : \E k \in DOMAIN q[n].msgs : q[n].msgs[k] = i
      BY <2>1 DEF Carries, q
    <3>2. PICK k \in DOMAIN q[n].msgs : q[n].msgs[k] = i
      BY <3>1
    <3>3. n \in DOMAIN t
      BY <1>1
    <3>4. CASE n = last
      <4>1. k \in DOMAIN t[n].msgs /\ t[n].msgs[k] = i
        BY <1>3, <1>4, <3>2, <3>4
      <4>. QED
        BY <3>3, <4>1
    <3>5. CASE n # last
      BY <1>4, <3>2, <3>3, <3>5
    <3>. QED
      BY <3>4, <3>5
  <2>2. CASE i = x
    <3>1. Len(old) + 1 \in DOMAIN t[last].msgs /\ t[last].msgs[Len(old) + 1] = x
      BY <1>3, <1>4
    <3>. QED
      BY <1>4, <2>2, <3>1
  <2>. QED
    BY <2>1, <2>2
<1> DEFINE New(n, k) == n = last /\ k = Len(old) + 1
<1>6. ASSUME NEW n \in DOMAIN t, NEW k \in DOMAIN t[n].msgs
      PROVE  \/ New(n, k) /\ t[n].msgs[k] = x
             \/ /\ ~ New(n, k) /\ n \in DOMAIN q /\ k \in DOMAIN q[n].msgs
                /\ t[n].msgs[k] = q[n].msgs[k] /\ t[n].msgs[k] \in S
  <2>1. CASE n = last
    <3>1. CASE k = Len(old) + 1
      BY <1>3, <1>4, <2>1, <3>1
    <3>2. CASE k # Len(old) + 1
      <4>1. k \in DOMAIN old /\ new[k] = old[k]
        BY <1>3, <1>4, <2>1, <3>2
      <4>2. n \in DOMAIN q /\ k \in DOMAIN q[n].msgs /\ t[n].msgs[k] = q[n].msgs[k]
        BY <1>4, <2>1, <4>1
      <4>3. q[n].msgs[k] \in S
        BY <4>2 DEF Carries, q
      <4>. QED
        BY <3>2, <4>2, <4>3
    <3>. QED
      BY <3>1, <3>2
  <2>2. CASE n # last
    <3>1. n \in DOMAIN q /\ k \in DOMAIN q[n].msgs /\ t[n].msgs[k] = q[n].msgs[k]
      BY <1>4, <2>2
    <3>2. q[n].msgs[k] \in S
      BY <3>1 DEF Carries, q
    <3>. QED
      BY <2>2, <3>1, <3>2
  <2>. QED
    BY <2>1, <2>2
<1>7. ASSUME NEW n \in DOMAIN t, NEW k \in DOMAIN t[n].msgs,
             NEW m \in DOMAIN t, NEW j \in DOMAIN t[m].msgs, m < n \/ (m = n /\ j < k)
      PROVE  t[m].msgs[j] < t[n].msgs[k]
  <2>0. m \in 1 .. last /\ n \in 1 .. last
    BY <1>1
  <2>1. ~ New(m, j)
    <3> SUFFICES ASSUME New(m, j) PROVE FALSE
      OBVIOUS
    <3>1. m = n /\ j < k
      BY <1>4, <1>7, <2>0
    <3>2. k \in 1 .. (Len(old) + 1)
      BY <1>3, <1>4, <3>1
    <3>. QED
      BY <1>3, <3>1, <3>2
  <2>2. /\ m \in DOMAIN q /\ j \in DOMAIN q[m].msgs
        /\ t[m].msgs[j] = q[m].msgs[j] /\ t[m].msgs[j] \in S
    BY <1>6, <2>1
  <2>3. CASE New(n, k) /\ t[n].msgs[k] = x
    BY <2>2, <2>3
  <2>4. CASE n \in DOMAIN q /\ k \in DOMAIN q[n].msgs /\ t[n].msgs[k] = q[n].msgs[k]
    BY <1>7, <2>2, <2>4 DEF Carries, q
  <2>. QED
    BY <1>6, <2>3, <2>4
<1>. QED
  BY <1>5, <1>6, <1>7 DEF Carries, t

LEMMA AllRightAlike ==
  ASSUME NEW p \in Seq(BundleRecords), NEW q \in Seq(BundleRecords), Alike(p, q), NEW lines,
         AllRight(lines, p)
  PROVE  AllRight(lines, q)
<1>1. DOMAIN p = DOMAIN q /\ \A n \in DOMAIN q : p[n].msgs = q[n].msgs /\ p[n].tt = q[n].tt
  BY DEF Alike
<1>. QED
  BY <1>1 DEF AllRight

LEMMA AllRightAppend ==
  ASSUME NEW p \in Seq(BundleRecords), NEW r \in BundleRecords, NEW lines, AllRight(lines, p),
         \A k \in DOMAIN r.msgs : RightFor(lines, r.tt, r.msgs[k])
  PROVE  AllRight(lines, Append(p, r))
<1> DEFINE q == Append(p, r)
<1>1. /\ Len(p) \in Nat /\ DOMAIN p = 1 .. Len(p) /\ DOMAIN q = 1 .. (Len(p) + 1)
      /\ q[Len(p) + 1] = r /\ \A n \in 1 .. Len(p) : q[n] = p[n]
  BY AppendProperties
<1> HIDE DEF q
<1>2. ASSUME NEW n \in DOMAIN q, NEW k \in DOMAIN q[n].msgs
      PROVE  RightFor(lines, q[n].tt, q[n].msgs[k])
  <2>1. CASE n \in 1 .. Len(p)
    <3>1. n \in DOMAIN p /\ q[n] = p[n] /\ k \in DOMAIN p[n].msgs
      BY <1>1, <1>2, <2>1
    <3>2. RightFor(lines, p[n].tt, p[n].msgs[k])
      BY <3>1 DEF AllRight
    <3>. QED
      BY <3>1, <3>2
  <2>2. CASE n = Len(p) + 1
    <3>1. q[n] = r /\ k \in DOMAIN r.msgs
      BY <1>1, <1>2, <2>2
    <3>. QED
      BY <3>1
  <2>. QED
    BY <1>1, <2>1, <2>2
<1>. QED
  BY <1>2 DEF AllRight, q

LEMMA AppendTags ==
  ASSUME NEW p \in Seq(BundleRecords), NEW r \in BundleRecords, AllTags(p),
         File!Value(r.tt) < r.at + Micro
  PROVE  AllTags(Append(p, r))
<1> DEFINE q == Append(p, r)
<1>1. /\ Len(p) \in Nat /\ DOMAIN p = 1 .. Len(p) /\ DOMAIN q = 1 .. (Len(p) + 1)
      /\ q[Len(p) + 1] = r /\ \A n \in 1 .. Len(p) : q[n] = p[n]
  BY AppendProperties
<1> HIDE DEF q
<1>2. ASSUME NEW n \in DOMAIN q PROVE File!Value(q[n].tt) < q[n].at + Micro
  <2>1. CASE n \in 1 .. Len(p)
    <3>1. n \in DOMAIN p /\ q[n] = p[n]
      BY <1>1, <2>1
    <3>. QED
      BY <3>1 DEF AllTags
  <2>2. CASE n = Len(p) + 1
    BY <1>1, <2>2
  <2>. QED
    BY <1>1, <2>1, <2>2
<1>. QED
  BY <1>2 DEF AllTags, q

(* Flush leaves what the bundles hold, and sends none too early.           *)
LEMMA FlushFacts ==
  ASSUME FileTypeOK, TagInv, File!Flush, File!Waited
  PROVE  /\ bundles' \in Seq(BundleRecords) /\ BundlesNow \in Seq(BundleRecords)
         /\ Alike(BundlesNow, bundles') /\ AllTags(bundles')
<1>1. BundlesNow \in Seq(BundleRecords) /\ bundles \in Seq(BundleRecords) /\ watch \in Nat
  BY BundlesValue DEF FileTypeOK
<1>2. AllTags(bundles)
  BY DEF TagInv, AllTags
<1>3. CASE bundle = <<>>
  <2>1. bundles' = bundles /\ BundlesNow = bundles
    BY <1>3, BundlesValue DEF File!Flush
  <2>. QED
    BY <1>1, <1>2, <2>1 DEF Alike
<1>4. CASE bundle # <<>>
  <2> DEFINE r == bundle[1]
             s == [r EXCEPT !.at = watch]
  <2>1. r \in BundleRecords /\ BundlesNow = Append(bundles, r) /\ bundles' = Append(bundles, s)
    BY <1>4, BundlesValue DEF File!Flush
  <2>2. s \in BundleRecords /\ s.msgs = r.msgs /\ s.tt = r.tt /\ s.at = watch
    BY <1>1, <2>1 DEF BundleRecords
  <2>3. File!Value(s.tt) < s.at + Micro
    <3>1. r.tt = tts[3 - this] /\ File!Value(tts[3 - this]) < watch + Micro
      BY <1>4 DEF TagInv, File!Waited, File!last
    <3>2. File!Value(r.tt) \in Int
      <4>1. r.tt \in FileTags
        BY <2>1 DEF BundleRecords
      <4>. QED
        BY <4>1, ValueRange, BaseFacts
    <3>. QED
      BY <1>1, <2>2, <3>1, <3>2
  <2> HIDE DEF r, s
  <2>4. bundles' \in Seq(BundleRecords) /\ AllTags(bundles')
    BY <1>1, <1>2, <2>1, <2>2, <2>3, AppendProperties, AppendTags
  <2>5. Alike(BundlesNow, bundles')
    <3>1. /\ Len(Append(bundles, r)) = Len(bundles) + 1 /\ Len(Append(bundles, s)) = Len(bundles) + 1
          /\ Append(bundles, r)[Len(bundles) + 1] = r
          /\ Append(bundles, s)[Len(bundles) + 1] = s
          /\ \A n \in 1 .. Len(bundles) : Append(bundles, s)[n] = Append(bundles, r)[n]
      BY <1>1, <2>1, <2>2, AppendProperties
    <3>2. \A n \in 1 .. (Len(bundles) + 1) : n \in 1 .. Len(bundles) \/ n = Len(bundles) + 1
      BY <1>1
    <3>. QED
      BY <2>1, <2>2, <3>1, <3>2 DEF Alike
  <2>. QED
    BY <1>1, <2>4, <2>5
<1>. QED
  BY <1>3, <1>4

LEMMA TakenFacts ==
  ASSUME NEW lines, NEW n \in Nat
  PROVE  /\ TakenOf(lines, n) \in SUBSET Nat
         /\ \A i \in TakenOf(lines, n) : i <= n
         /\ TakenOf(lines, n + 1) = TakenOf(lines, n) \cup (IF lines[n + 1].path THEN {n + 1} ELSE {})
<1>1. 1 .. (n + 1) = (1 .. n) \cup {n + 1}
  OBVIOUS
<1>. QED
  BY <1>1 DEF TakenOf

-----------------------------------------------------------------------------
(* The steps.                                                              *)

LEMMA FileInitInv == File!Init => FileInv
<1> SUFFICES ASSUME File!Init PROVE FileInv
  OBVIOUS
<1>1. /\ file \in Files /\ line_no = 0 /\ args = [k \in 1 .. MaxValues |-> File!NoValue]
      /\ tts = <<File!Zero, File!Zero>> /\ this = 2 /\ tt_start = <<>> /\ bundle = <<>>
      /\ watch = FileStart /\ bundles = <<>> /\ made = <<>> /\ step = "read"
  BY DEF File!Init, File!Places
<1>2. FileTypeOK
  <2>1. line_no \in 0 .. Len(file) /\ watch \in Nat
    BY <1>1, LineFacts, FileAssumption
  <2>2. File!NoValue \in GivenValues
    BY DEF File!NoValue, GivenValues
  <2>3. args \in [1 .. MaxValues -> GivenValues]
    BY <1>1, <2>2
  <2>4. File!Zero \in FileTags
    BY BaseFacts DEF File!Zero, FileTags
  <2>5. tts \in [1 .. 2 -> FileTags]
    BY <1>1, <2>4
  <2>6. /\ bundle \in Seq(BundleRecords) /\ Len(bundle) <= 1 /\ bundles \in Seq(BundleRecords)
        /\ made \in Seq(FileMessages)
    BY <1>1
  <2>. QED
    BY <1>1, <2>1, <2>3, <2>5, <2>6 DEF FileTypeOK
<1>3. BundlesNow = <<>> /\ TakenOf(file, 0) = {} /\ TimedOf(file, 0) = {}
  BY <1>1 DEF BundlesNow, TakenOf, TimedOf
<1>4. CarriedInv
  BY <1>1, <1>3 DEF CarriedInv, Carries
<1>5. TagInv
  BY <1>1, <1>3 DEF TagInv, AllRight, AllTags
<1>. QED
  BY <1>1, <1>2, <1>3, <1>4, <1>5 DEF FileInv, StartsAt

LEMMA ReadLineInv ==
  ASSUME FileInv, File!ReadLine
  PROVE  FileInv'
<1> DEFINE n == line_no + 1
           l == file[n]
           new == File!Filled(l)
<1>1. /\ step = "read" /\ line_no < Len(file) /\ line_no' = n
      /\ UNCHANGED <<file, this, bundle, watch, bundles>>
  BY DEF File!ReadLine
<1>2. PICK start \in File!Starts(l.tt) :
         LET tt == IF l.tt = <<>> THEN File!Immediate ELSE File!Played(File!Given(l.tt), start[1])
         IN  /\ tt_start' = start
             /\ tts' = IF l.tt = <<>> /\ ~ l.path THEN tts ELSE [tts EXCEPT ![this] = tt]
             /\ IF ~ l.path THEN UNCHANGED <<args, made, step>>
                ELSE /\ args' = new
                     /\ \E types \in File!TypesFor(l) : File!MakeMessage(l, types, new)
  BY DEF File!ReadLine
<1> DEFINE tt == IF l.tt = <<>> THEN File!Immediate ELSE File!Played(File!Given(l.tt), start[1])
<1>3. /\ FileTypeOK /\ CarriedInv /\ TagInv /\ StartsAt(file, tt_start, line_no)
      /\ \A i \in DOMAIN made : OwnMessage(file, made[i])
      /\ line_no \in Nat /\ Len(file) \in Nat /\ n \in Nat /\ n \in 0 .. Len(file)
  BY <1>1, LineFacts DEF FileInv, FileTypeOK
<1>4. start \in {<<>>} \cup { <<t>> : t \in FileTags } /\ StartsAt(file, start, n)
  BY <1>1, <1>3, ReadStart
<1>5. tt \in FileTags /\ RightFor(file, tt, n)
  BY <1>1, <1>3, ReadTag
<1>6. /\ tts' \in [1 .. 2 -> FileTags] /\ tts'[3 - this] = tts[3 - this]
      /\ l.path => tts'[this] = tt
  <2>1. /\ tts \in [1 .. 2 -> FileTags] /\ this \in {1, 2}
        /\ (tts' = tts /\ ~ l.path) \/ tts' = [tts EXCEPT ![this] = tt]
    BY <1>2, <1>3 DEF FileTypeOK
  <2> HIDE DEF tt
  <2>. QED
    BY <1>5, <2>1
<1>7. new \in [1 .. MaxValues -> GivenValues]
  BY <1>1, <1>3, FilledType
<1>71. ASSUME NEW types \in File!TypesFor(l), File!MakeMessage(l, types, new)
       PROVE  \/ made' = made /\ step' \in {"failed", "undefined"}
              \/ /\ step' = "wait"
                 /\ \E m \in FileMessages : OwnMessage(file, m) /\ made' = Append(made, m)
  <2>1. types \in Seq(STRING) /\ (File!Complete(l) => l.types = types)
    BY <1>1, <1>3, <1>71, TypesForLine
  <2>2. CASE /\ File!Fits(l, types) /\ File!MayCreate(types, new, n) /\ step' = "wait"
             /\ made' = Append(made, [line |-> n, args |-> File!CreateMessage(types, new)])
    <3> DEFINE m == [line |-> n, args |-> File!CreateMessage(types, new)]
    <3>1. /\ m \in FileMessages /\ Len(m.args) = Len(types)
          /\ File!Complete(l) /\ l.types = types => \A i \in 1 .. Len(types) :
               /\ m.args[i][1] = types[i]
               /\ types[i] \in File!Valued =>
                    /\ m.args[i][2].line = m.line
                    /\ \A j \in 1 .. i - 1 :
                         types[j] \in File!Valued => m.args[j][2].place < m.args[i][2].place
      BY <1>1, <1>3, <1>7, <2>1, <2>2, MessageFacts
    <3>2. m.line = n
      OBVIOUS
    <3> HIDE DEF m
    <3>3. OwnMessage(file, m)
      BY <2>1, <3>1, <3>2 DEF OwnMessage
    <3>. QED
      BY <2>2, <3>1, <3>3 DEF m
  <2>. QED
    BY <1>71, <2>2 DEF File!MakeMessage
<1>8. /\ tt_start' = start /\ line_no' = n
      /\ \/ ~ l.path /\ args' = args /\ made' = made /\ step' = step
         \/ l.path /\ args' = new /\ made' = made /\ step' \in {"failed", "undefined"}
         \/ /\ l.path /\ args' = new /\ step' = "wait"
            /\ \E m \in FileMessages : OwnMessage(file, m) /\ made' = Append(made, m)
  BY <1>1, <1>2, <1>71
<1> HIDE DEF new, tt
<1>9. made \in Seq(FileMessages) /\ args \in [1 .. MaxValues -> GivenValues]
  BY <1>3 DEF FileTypeOK
<1>10. made' \in Seq(FileMessages) /\ \A i \in DOMAIN made' : OwnMessage(file, made'[i])
  <2>1. CASE made' = made
    BY <1>3, <1>9, <2>1
  <2>2. ASSUME NEW m \in FileMessages, OwnMessage(file, m), made' = Append(made, m)
        PROVE  made' \in Seq(FileMessages) /\ \A i \in DOMAIN made' : OwnMessage(file, made'[i])
    <3> DEFINE q == Append(made, m)
    <3>1. /\ q \in Seq(FileMessages) /\ Len(made) \in Nat /\ DOMAIN made = 1 .. Len(made)
          /\ DOMAIN q = 1 .. (Len(made) + 1)
          /\ q[Len(made) + 1] = m /\ \A i \in 1 .. Len(made) : q[i] = made[i]
      BY <1>9, AppendProperties
    <3> HIDE DEF q
    <3>2. ASSUME NEW i \in DOMAIN q PROVE OwnMessage(file, q[i])
      <4>1. CASE i \in DOMAIN made
        BY <1>3, <3>1, <4>1
      <4>2. CASE i = Len(made) + 1
        BY <2>2, <3>1, <4>2
      <4>. QED
        BY <3>1, <4>1, <4>2
    <3>3. made' = q
      BY <2>2 DEF q
    <3>. QED
      BY <3>1, <3>2, <3>3
  <2>. QED
    BY <1>8, <2>1, <2>2
<1>11. FileTypeOK'
  <2>1. args' \in [1 .. MaxValues -> GivenValues] /\ step' \in {"read", "wait", "done", "failed", "undefined"}
    BY <1>1, <1>7, <1>8, <1>9
  <2>2. line_no' \in 0 .. Len(file)
    BY <1>1, <1>3
  <2>. QED
    BY <1>1, <1>3, <1>4, <1>6, <1>8, <1>10, <2>1, <2>2 DEF FileTypeOK
<1>12. BundlesNow' = BundlesNow
  BY <1>1 DEF BundlesNow
<1>13. CarriedInv'
  <2>1. TakenOf(file, n) = TakenOf(file, line_no) \cup (IF l.path THEN {n} ELSE {})
        /\ n \notin TakenOf(file, line_no)
    <3>1. \A i \in TakenOf(file, line_no) : i <= line_no
      BY <1>3, TakenFacts
    <3>2. ~ (n <= line_no)
      BY <1>3
    <3>3. TakenOf(file, line_no + 1) =
            TakenOf(file, line_no) \cup (IF file[line_no + 1].path THEN {line_no + 1} ELSE {})
      BY <1>3, TakenFacts
    <3>. QED
      BY <3>1, <3>2, <3>3
  <2>2. Carries(BundlesNow, TakenOf(file, line_no))
    BY <1>1, <1>3 DEF CarriedInv
  <2>3. step' \in {"read", "done"} => ~ l.path
    BY <1>8
  <2>4. step' = "wait" => l.path
    BY <1>1, <1>8
  <2>5. l.path => n \in TakenOf(file, n) /\ TakenOf(file, n) \ {n} = TakenOf(file, line_no)
    BY <2>1
  <2>6. ~ l.path => TakenOf(file, n) = TakenOf(file, line_no)
    BY <2>1
  <2> HIDE DEF n, l
  <2>7. (step' \in {"read", "done"} => Carries(BundlesNow, TakenOf(file, n)))
        /\ (step' = "wait" =>
              n \in TakenOf(file, n) /\ Carries(BundlesNow, TakenOf(file, n) \ {n}))
    BY <2>2, <2>3, <2>4, <2>5, <2>6
  <2>. QED
    BY <1>1, <1>8, <1>12, <2>7 DEF CarriedInv
<1>14. TagInv'
  <2>1. /\ bundle # <<>> => bundle[1].tt = tts[3 - this]
        /\ AllRight(file, BundlesNow) /\ AllTags(bundles)
    BY <1>3 DEF TagInv
  <2>. QED
    BY <1>1, <1>5, <1>6, <1>8, <1>12, <2>1 DEF TagInv
<1>. QED
  BY <1>1, <1>4, <1>8, <1>10, <1>11, <1>13, <1>14 DEF FileInv

(* The message of the line that was read is in a bundle.                   *)
LEMMA NowCarried ==
  ASSUME FileInv, step = "wait",
         NEW list, Carries(list, (TakenOf(file, line_no) \ {line_no}) \cup {line_no}),
         step' = "read", file' = file, line_no' = line_no, BundlesNow' = list
  PROVE  CarriedInv'
<1>1. line_no \in TakenOf(file, line_no)
  BY DEF FileInv, CarriedInv
<1>2. (TakenOf(file, line_no) \ {line_no}) \cup {line_no} = TakenOf(file, line_no)
  BY <1>1
<1>. QED
  BY <1>2 DEF CarriedInv

LEMMA TakenBefore ==
  ASSUME FileInv
  PROVE  /\ TakenOf(file, line_no) \ {line_no} \in SUBSET Nat /\ line_no \in Nat
         /\ \A i \in TakenOf(file, line_no) \ {line_no} : i < line_no
<1>1. line_no \in Nat
  BY LineFacts DEF FileInv, FileTypeOK
<1>. QED
  BY <1>1, TakenFacts

LEMMA JoinBundleInv ==
  ASSUME FileInv, File!JoinBundle
  PROVE  FileInv'
<1> DEFINE r == bundle[1]
           s == [r EXCEPT !.msgs = Append(@, line_no)]
<1>1. /\ step = "wait" /\ bundle # <<>> /\ tts[this] = tts[3 - this] /\ bundle' = <<s>>
      /\ step' = "read"
      /\ UNCHANGED <<file, line_no, args, tts, this, tt_start, watch, bundles, made>>
  BY DEF File!JoinBundle, File!last
<1>2. /\ FileTypeOK /\ CarriedInv /\ TagInv /\ StartsAt(file, tt_start, line_no)
      /\ \A i \in DOMAIN made : OwnMessage(file, made[i])
  BY DEF FileInv
<1>3. /\ r \in BundleRecords /\ BundlesNow = Append(bundles, r) /\ bundles \in Seq(BundleRecords)
      /\ r.tt = tts[this]
  BY <1>1, <1>2, BundlesValue DEF FileTypeOK, TagInv
<1>4. r.msgs \in Seq(Nat) /\ line_no \in Nat
  BY <1>3, TakenBefore DEF BundleRecords
<1>5. s \in BundleRecords /\ s.msgs = Append(r.msgs, line_no) /\ s.tt = r.tt
  <2> DEFINE more == Append(r.msgs, line_no)
  <2>1. more \in Seq(Nat)
    BY <1>4, AppendProperties
  <2>2. s = [r EXCEPT !.msgs = more]
    OBVIOUS
  <2>3. r \in BundleRecords
    BY <1>3
  <2> HIDE DEF more, s, r
  <2>4. s \in BundleRecords /\ s.msgs = more /\ s.tt = r.tt
    BY <2>1, <2>2, <2>3 DEF BundleRecords
  <2>. QED
    BY <2>4 DEF more
<1> HIDE DEF r, s
<1>6. BundlesNow' = Append(bundles, s)
  <2>1. bundles \o <<s>> = Append(bundles, s)
    BY <1>3, <1>5
  <2>. QED
    BY <1>1, <2>1 DEF BundlesNow
<1>7. FileTypeOK'
  <2>1. <<s>> \in Seq(BundleRecords) /\ Len(<<s>>) = 1
    BY <1>5
  <2>. QED
    BY <1>1, <1>2, <2>1 DEF FileTypeOK
<1>8. CarriedInv'
  <2>1. Carries(Append(bundles, r), TakenOf(file, line_no) \ {line_no})
    BY <1>1, <1>2, <1>3 DEF CarriedInv
  <2>2. Carries(Append(bundles, s), (TakenOf(file, line_no) \ {line_no}) \cup {line_no})
    BY <1>3, <1>5, <2>1, CarriesJoin, TakenBefore
  <2>. QED
    BY <1>1, <1>6, <2>2, NowCarried
<1>9. TagInv'
  <2>1. AllRight(file, Append(bundles, r)) /\ RightFor(file, tts[this], line_no) /\ AllTags(bundles)
    BY <1>1, <1>2, <1>3 DEF TagInv
  <2>2. ASSUME NEW k \in DOMAIN s.msgs PROVE RightFor(file, s.tt, s.msgs[k])
    <3>1. /\ DOMAIN s.msgs = 1 .. (Len(r.msgs) + 1) /\ Len(r.msgs) \in Nat
          /\ DOMAIN r.msgs = 1 .. Len(r.msgs)
          /\ s.msgs[Len(r.msgs) + 1] = line_no
          /\ \A i \in 1 .. Len(r.msgs) : s.msgs[i] = r.msgs[i]
      BY <1>4, <1>5, AppendProperties
    <3>2. CASE k \in DOMAIN r.msgs
      <4>1. /\ Append(bundles, r)[Len(bundles) + 1] = r
            /\ Len(bundles) + 1 \in DOMAIN Append(bundles, r)
        BY <1>3, AppendProperties
      <4>2. RightFor(file, r.tt, r.msgs[k])
        BY <2>1, <3>2, <4>1 DEF AllRight
      <4>. QED
        BY <1>5, <3>1, <3>2, <4>2
    <3>3. CASE k = Len(r.msgs) + 1
      BY <1>3, <1>5, <2>1, <3>1, <3>3
    <3>. QED
      BY <2>2, <3>1, <3>2, <3>3
  <2>3. AllRight(file, bundles)
    <3>1. /\ DOMAIN bundles = 1 .. Len(bundles)
          /\ DOMAIN Append(bundles, r) = 1 .. (Len(bundles) + 1) /\ Len(bundles) \in Nat
          /\ \A i \in 1 .. Len(bundles) : Append(bundles, r)[i] = bundles[i]
      BY <1>3, AppendProperties
    <3>2. ASSUME NEW i \in DOMAIN bundles, NEW k \in DOMAIN bundles[i].msgs
          PROVE  RightFor(file, bundles[i].tt, bundles[i].msgs[k])
      <4>1. i \in DOMAIN Append(bundles, r) /\ Append(bundles, r)[i] = bundles[i]
        BY <3>1, <3>2
      <4>. QED
        BY <2>1, <3>2, <4>1 DEF AllRight
    <3>. QED
      BY <3>2 DEF AllRight
  <2>4. AllRight(file, Append(bundles, s))
    BY <1>3, <1>5, <2>2, <2>3, AllRightAppend
  <2>5. <<s>>[1].tt = tts[3 - this]
    BY <1>1, <1>3, <1>5
  <2>. QED
    BY <1>1, <1>6, <2>1, <2>4, <2>5 DEF TagInv
<1>. QED
  BY <1>1, <1>2, <1>7, <1>8, <1>9 DEF FileInv

LEMMA NewBundleInv ==
  ASSUME FileInv, File!NewBundle
  PROVE  FileInv'
<1> DEFINE r == [tt |-> tts[this], msgs |-> <<line_no>>, at |-> 0]
<1>1. /\ step = "wait" /\ File!Waited /\ File!Flush /\ bundle' = <<r>> /\ this' = 3 - this
      /\ step' = "read"
      /\ UNCHANGED <<file, line_no, args, tts, tt_start, watch, made>>
  BY DEF File!NewBundle, File!last
<1>2. /\ FileTypeOK /\ CarriedInv /\ TagInv /\ StartsAt(file, tt_start, line_no)
      /\ \A i \in DOMAIN made : OwnMessage(file, made[i])
  BY DEF FileInv
<1>3. /\ bundles' \in Seq(BundleRecords) /\ BundlesNow \in Seq(BundleRecords)
      /\ Alike(BundlesNow, bundles') /\ AllTags(bundles')
  BY <1>1, <1>2, FlushFacts
<1>4. /\ line_no \in Nat /\ this \in {1, 2} /\ tts[this] \in FileTags
  BY <1>2, TakenBefore DEF FileTypeOK
<1>5. r \in BundleRecords /\ r.msgs = <<line_no>> /\ r.tt = tts[this]
  BY <1>4 DEF BundleRecords
<1> HIDE DEF r
<1>6. BundlesNow' = Append(bundles', r)
  <2>1. bundles' \o <<r>> = Append(bundles', r)
    BY <1>3, <1>5
  <2>. QED
    BY <1>1, <2>1 DEF BundlesNow
<1>7. FileTypeOK'
  <2>1. <<r>> \in Seq(BundleRecords) /\ Len(<<r>>) = 1
    BY <1>5
  <2>2. this' \in {1, 2}
    BY <1>1, <1>4
  <2>. QED
    BY <1>1, <1>2, <1>3, <2>1, <2>2 DEF FileTypeOK
<1>8. CarriedInv'
  <2>1. Carries(BundlesNow, TakenOf(file, line_no) \ {line_no})
    BY <1>1, <1>2 DEF CarriedInv
  <2>2. Carries(bundles', TakenOf(file, line_no) \ {line_no})
    BY <1>3, <2>1, CarriesAlike
  <2>3. Carries(Append(bundles', r), (TakenOf(file, line_no) \ {line_no}) \cup {line_no})
    BY <1>3, <1>5, <2>2, CarriesAppend, TakenBefore
  <2>. QED
    BY <1>1, <1>6, <2>3, NowCarried
<1>9. TagInv'
  <2>1. AllRight(file, BundlesNow) /\ RightFor(file, tts[this], line_no)
    BY <1>1, <1>2 DEF TagInv
  <2>2. AllRight(file, bundles')
    BY <1>3, <2>1, AllRightAlike
  <2>3. AllRight(file, Append(bundles', r))
    <3>1. \A k \in DOMAIN r.msgs : RightFor(file, r.tt, r.msgs[k])
      BY <1>5, <2>1
    <3>. QED
      BY <1>3, <1>5, <2>2, <3>1, AllRightAppend
  <2>4. <<r>>[1].tt = tts[3 - (3 - this)]
    BY <1>4, <1>5
  <2>. QED
    BY <1>1, <1>3, <1>6, <2>3, <2>4 DEF TagInv
<1>. QED
  BY <1>1, <1>2, <1>7, <1>8, <1>9 DEF FileInv

LEMMA EndOfFileInv ==
  ASSUME FileInv, File!EndOfFile
  PROVE  FileInv'
<1>1. /\ step = "read" /\ File!Waited /\ File!Flush /\ bundle' = <<>> /\ step' = "done"
      /\ UNCHANGED <<file, line_no, args, tts, this, tt_start, watch, made>>
  BY DEF File!EndOfFile
<1>2. /\ FileTypeOK /\ CarriedInv /\ TagInv /\ StartsAt(file, tt_start, line_no)
      /\ \A i \in DOMAIN made : OwnMessage(file, made[i])
  BY DEF FileInv
<1>3. /\ bundles' \in Seq(BundleRecords) /\ BundlesNow \in Seq(BundleRecords)
      /\ Alike(BundlesNow, bundles') /\ AllTags(bundles')
  BY <1>1, <1>2, FlushFacts
<1>4. BundlesNow' = bundles'
  <2>1. bundles' \o <<>> = bundles'
    BY <1>3
  <2>. QED
    BY <1>1, <2>1 DEF BundlesNow
<1>5. FileTypeOK'
  <2>1. <<>> \in Seq(BundleRecords) /\ Len(<<>>) <= 1
    OBVIOUS
  <2>. QED
    BY <1>1, <1>2, <1>3, <2>1 DEF FileTypeOK
<1>6. CarriedInv'
  <2>1. Carries(BundlesNow, TakenOf(file, line_no))
    BY <1>1, <1>2 DEF CarriedInv
  <2>2. Carries(bundles', TakenOf(file, line_no))
    BY <1>3, <2>1, CarriesAlike
  <2>. QED
    BY <1>1, <1>4, <2>2 DEF CarriedInv
<1>7. TagInv'
  <2>1. AllRight(file, bundles')
    BY <1>2, <1>3, AllRightAlike DEF TagInv
  <2>. QED
    BY <1>1, <1>3, <1>4, <2>1 DEF TagInv
<1>. QED
  BY <1>1, <1>2, <1>5, <1>6, <1>7 DEF FileInv

LEMMA FileRestInv ==
  ASSUME FileInv, File!Tick \/ File!SendFails \/ UNCHANGED File!vars
  PROVE  FileInv'
<1>1. /\ UNCHANGED <<file, line_no, args, tts, this, tt_start, bundle, bundles, made>>
      /\ watch' \in Nat /\ (step' = step \/ step' = "failed")
  BY DEF FileInv, FileTypeOK, File!Tick, File!SendFails, File!vars
<1>2. FileTypeOK' /\ BundlesNow' = BundlesNow
  BY <1>1 DEF FileInv, FileTypeOK, BundlesNow
<1>3. CarriedInv' /\ TagInv'
  BY <1>1, <1>2 DEF FileInv, CarriedInv, TagInv
<1>. QED
  BY <1>1, <1>2, <1>3 DEF FileInv

LEMMA FileNextInv ==
  ASSUME FileInv, [File!Next]_(File!vars)
  PROVE  FileInv'
BY ReadLineInv, JoinBundleInv, NewBundleInv, EndOfFileInv, FileRestInv DEF File!Next

LEMMA FileInvGives == FileInv => FileAsWritten
<1> SUFFICES ASSUME FileInv PROVE FileAsWritten
  OBVIOUS
<1>1. FileTypeOK /\ CarriedInv /\ TagInv
  BY DEF FileInv
<1>2. File!InFileOrder
  <2>1. step \in {"read", "done"} => Carries(File!Bundles, File!Taken)
    BY <1>1, FileViews DEF CarriedInv
  <2>. QED
    BY <2>1 DEF File!InFileOrder, Carries
<1>3. File!OnTime
  <2>1. bundles \in Seq(BundleRecords) /\ AllTags(bundles) /\ AllRight(file, BundlesNow)
    BY <1>1 DEF FileTypeOK, TagInv
  <2>2. \A n \in 1 .. Len(bundles) : n \in DOMAIN BundlesNow /\ BundlesNow[n] = bundles[n]
    BY <1>1, BundlesValue DEF FileTypeOK
  <2>3. ASSUME NEW n \in 1 .. Len(bundles)
        PROVE  /\ File!Value(bundles[n].tt) < bundles[n].at + Micro
               /\ \A k \in 1 .. Len(bundles[n].msgs) :
                    File!TagRight(bundles[n].tt, bundles[n].msgs[k])
    <3>1. DOMAIN bundles[n].msgs = 1 .. Len(bundles[n].msgs) /\ n \in DOMAIN bundles
      <4>1. bundles[n].msgs \in Seq(Nat) /\ n \in DOMAIN bundles
        BY <2>1, RecordFacts
      <4>. QED
        BY <4>1
    <3>2. \A k \in DOMAIN bundles[n].msgs : RightFor(file, bundles[n].tt, bundles[n].msgs[k])
      BY <2>1, <2>2 DEF AllRight
    <3>. QED
      BY <2>1, <3>1, <3>2, FileViews DEF AllTags
  <2>. QED
    BY <2>3 DEF File!OnTime
<1>4. File!OwnValues
  <2>1. made \in Seq(FileMessages) /\ DOMAIN made = 1 .. Len(made)
    BY <1>1 DEF FileTypeOK
  <2>. QED
    BY <2>1, FileViews DEF FileInv
<1>. QED
  BY <1>2, <1>3, <1>4 DEF FileAsWritten

(* The messages of a file leave in its order, each once, in bundles that   *)
(* carry the times of the file as far from the start as the speed says,    *)
(* and no bundle leaves before its time; a line that gives its types and   *)
(* all their values sends these, unless an earlier one has left the array  *)
(* of values or used a place that was never set (oscsendfile.c:236-373).   *)
THEOREM FileSentAsWritten == File!Spec => []FileAsWritten
  BY FileInitInv, FileNextInv, FileInvGives, PTL DEF File!Spec

=============================================================================
