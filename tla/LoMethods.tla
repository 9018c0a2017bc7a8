------------------------------ MODULE LoMethods ------------------------------
(***************************************************************************)
(* The methods of a server of liblo (server.c): a linked list that         *)
(* lo_server_add_method appends to, lo_server_del_method and               *)
(* lo_server_del_lo_method unlink from while they walk it, and             *)
(* dispatch_method walks to find who gets a message.  The handlers it      *)
(* calls are the program's and may change the list under it, also by       *)
(* deleting the very method whose handler runs: dispatch_method then goes  *)
(* on from a node that is freed, and nothing is said of what it does next. *)
(*                                                                         *)
(* A path is a sequence of names.  A message's path may also be a pattern, *)
(* of which only the set of paths it matches is told, or end in a slash.   *)
(* A deletion is one action per node it visits.                            *)
(***************************************************************************)
EXTENDS Integers, Sequences, FiniteSets, FiniteSetsExt, SequencesExt

CONSTANTS
  Paths,        \* the paths of methods, sequences of names
  Matched,      \* for each pattern, the paths it matches
  Specs,        \* typespecs: sequences of types
  Messages,     \* [path, kind, types] of what arrives,
                \*   kind "plain", "pattern", or "dir" for a path that ends in /
  MaxMethods, MaxMessages   \* bounds

AnyPath == <<>>     \* a NULL path; a NULL typespec is AnySpec
AnySpec == <<"any">>
Nil == 0
Astray == -1        \* what is read from a node that is freed
Ids == 1 .. MaxMethods
Deletion(op, path, spec, who, at) ==
  [op |-> op, path |-> path, spec |-> spec, who |-> who, it |-> at, prev |-> at]
Absent == Deletion("none", AnyPath, AnySpec, Nil, Nil)

VARIABLES
  heap,        \* [path, spec, next] of each method that was ever allocated
  live,        \* those not yet freed
  first,       \* the head of the list
  coerce,      \* is LO_SERVER_COERCE set?
  del,         \* the deletion that is under way, or Absent
  msg,         \* the messages that dispatch_method is at (at most one),
  it, ret,     \*   its node and the last handler's result
  running,     \*   and the method whose handler runs, or Nil
  called,      \* the handlers called for the message, with their results
  reply,       \* the names that a #reply gave, in order (at most one reply)
  registered,  \* what the program added and did not delete; the later, the greater
  stayed,      \* those of them that were there since the message came
  arrivals

list == <<heap, live, first, registered, stayed>>
walk == <<msg, it, ret, running, called, reply, arrivals>>
vars == <<list, coerce, del, walk>>

Init ==
  /\ heap = <<>> /\ live = {} /\ first = Nil /\ coerce = TRUE
  /\ del = Absent
  /\ msg = <<>> /\ it = Nil /\ ret = 1 /\ running = Nil /\ called = <<>> /\ reply = <<>>
  /\ registered = {} /\ stayed = {} /\ arrivals = 0

\* The program calls when no other call is under way: between messages, or
\* from a handler.
MayCall == del = Absent /\ (msg = <<>> \/ running # Nil)

----------------------------------------------------------------------------
\* lo_server_add_method walks to the last node.
LastNode == CHOOSE n \in live : heap[n].next = Nil
AddMethod(path, spec) ==
  LET n == Len(heap) + 1
      new == [path |-> path, spec |-> spec, next |-> Nil]
  IN  /\ MayCall /\ Len(heap) < MaxMethods
      /\ IF first = Nil
         THEN first' = n /\ heap' = Append(heap, new)
         ELSE heap' = Append([heap EXCEPT ![LastNode].next = n], new) /\ UNCHANGED first
      /\ live' = live \cup {n} /\ registered' = registered \cup {n}
      /\ UNCHANGED <<stayed, coerce, del, walk>>

\* Whom lo_server_del_method(path, spec) means.  A path that it is given may be
\* a pattern; a NULL path stands for the methods with a NULL path alone.
Means(n, path, spec) ==
  /\ \/ heap[n].path = path
     \/ path \in DOMAIN Matched /\ heap[n].path \in Matched[path]
  /\ heap[n].spec = spec

Forget(S) ==
  /\ registered' = registered \ S
  /\ stayed' = stayed \ S

DelMethod(path, spec) ==
  /\ MayCall /\ first # Nil
  /\ del' = Deletion("all", path, spec, Nil, first)
  /\ Forget({ n \in live : Means(n, path, spec) })
  /\ UNCHANGED <<heap, live, first, coerce, walk>>

DelLoMethod(m) ==
  /\ MayCall /\ first # Nil /\ m \in DOMAIN heap
  /\ del' = Deletion("one", AnyPath, AnySpec, m, first)
  /\ Forget({m})
  /\ UNCHANGED <<heap, live, first, coerce, walk>>

Victim(d) == IF d.op = "one" THEN d.it = d.who ELSE Means(d.it, d.path, d.spec)

\* The list without the node, which is freed.
Freed == [path |-> AnyPath, spec |-> AnySpec, next |-> Nil]
Unlinked(d) ==
  IF d.it = first THEN [heap EXCEPT ![d.it] = Freed]
  ELSE [heap EXCEPT ![d.prev].next = heap[d.it].next, ![d.it] = Freed]

\* Mutant: the freed node becomes the previous one.
Previous_Fault(d) == d.it
\* After a node is freed the one before it stays the previous one (after the
\* head, that is the freed head itself, which is not used again).
Previous(d) == IF Victim(d) THEN d.prev ELSE d.it

\* One turn of the loop.
DelStep ==
  /\ del # Absent
  /\ IF Victim(del)
     THEN /\ heap' = Unlinked(del) /\ live' = live \ {del.it}
          /\ first' = IF del.it = first THEN heap[del.it].next ELSE first
     ELSE UNCHANGED <<heap, live, first>>
  /\ del' = IF heap[del.it].next = Nil \/ (Victim(del) /\ del.op = "one") THEN Absent
            ELSE [del EXCEPT !.it = heap[del.it].next, !.prev = Previous(del)]
  /\ UNCHANGED <<registered, stayed, coerce, walk>>

EnableCoercion(b) ==
  /\ msg = <<>> /\ del = Absent /\ coerce # b /\ coerce' = b
  /\ UNCHANGED <<list, del, walk>>

----------------------------------------------------------------------------
(* dispatch_method *)

Numerical == {"i", "h", "f", "d"}
Strings == {"s", "S"}
CanCoerce(a, b) == a = b \/ {a, b} \subseteq Numerical \/ {a, b} \subseteq Strings
CanCoerceSpec(a, b) == Len(a) = Len(b) /\ \A i \in 1 .. Len(a) : CanCoerce(a[i], b[i])

PathFits(n, m) ==
  \/ heap[n].path = AnyPath
  \/ m.kind # "dir" /\ heap[n].path = m.path
  \/ m.kind = "pattern" /\ heap[n].path \in Matched[m.path]
SpecFits(n, m) ==
  IF heap[n].spec = AnySpec THEN TRUE
  ELSE heap[n].spec = m.types \/ (coerce /\ CanCoerceSpec(m.types, heap[n].spec))
Fits(n, m) == PathFits(n, m) /\ SpecFits(n, m)

Dispatch(m) ==
  /\ MayCall /\ msg = <<>> /\ arrivals < MaxMessages
  /\ msg' = <<m>> /\ it' = first /\ called' = <<>> /\ reply' = <<>>
  /\ arrivals' = arrivals + 1 /\ stayed' = registered
  /\ UNCHANGED <<heap, live, first, registered, coerce, del, ret, running>>

AtNode == it \notin {Nil, Astray}
CallHandler ==
  /\ msg # <<>> /\ AtNode /\ running = Nil
  /\ Fits(it, msg[1]) /\ running' = it
  /\ UNCHANGED <<list, coerce, del, msg, it, ret, called, reply, arrivals>>
PassBy ==
  /\ msg # <<>> /\ AtNode /\ running = Nil
  /\ ~Fits(it, msg[1]) /\ it' = heap[it].next
  /\ UNCHANGED <<list, coerce, del, msg, ret, running, called, reply, arrivals>>

\* A handler that returns 0 ends the walk, unless the path was a pattern.  If the
\* walk goes on, it does so from the handler's method, were it freed meanwhile.
Returned(r) ==
  /\ ret' = r
  /\ it' = IF r = 0 /\ msg[1].kind # "pattern" THEN Nil
           ELSE IF running \in live THEN heap[it].next ELSE Astray
HandlerReturns(r) ==
  /\ running # Nil /\ del = Absent
  /\ called' = Append(called, [id |-> running, ret |-> r]) /\ running' = Nil
  /\ Returned(r)
  /\ UNCHANGED <<list, coerce, del, msg, reply, arrivals>>

\* If nobody took a message for a path that ends in a slash, the sender is told
\* the names under it, each of them once, in the order of the list.
Listing(p) ==
  LET AddName(n, names) ==
        LET q == heap[n].path
        IN  IF n \notin registered \/ ~IsStrictPrefix(p, q) \/ Contains(names, q[Len(p) + 1])
            THEN names ELSE Append(names, q[Len(p) + 1])
      upto[n \in 0 .. Len(heap)] == IF n = 0 THEN <<>> ELSE AddName(n, upto[n - 1])
  IN  upto[Len(heap)]
Finish ==
  /\ msg # <<>> /\ it = Nil /\ running = Nil
  /\ reply' = IF ret = 1 /\ msg[1].kind = "dir" THEN << Listing(msg[1].path) >> ELSE <<>>
  /\ msg' = <<>> /\ ret' = 1 /\ stayed' = {}
  /\ UNCHANGED <<heap, live, first, registered, coerce, del, it, running, called, arrivals>>

Next ==
  \/ \E p \in Paths \cup {AnyPath}, s \in Specs \cup {AnySpec} : AddMethod(p, s)
  \/ \E p \in Paths \cup DOMAIN Matched \cup {AnyPath} : \E s \in Specs \cup {AnySpec} :
       DelMethod(p, s)
  \/ \E m \in Ids : DelLoMethod(m)
  \/ DelStep
  \/ \E b \in BOOLEAN : EnableCoercion(b)
  \/ \E m \in Messages : Dispatch(m)
  \/ CallHandler \/ PassBy \/ Finish
  \/ \E r \in {0, 1} : HandlerReturns(r)

Spec == Init /\ [][Next]_vars
----------------------------------------------------------------------------
\* Between two calls the list is what the program added and did not delete, in
\* that order: whatever a deletion unlinked, nothing else is lost and nothing
\* freed is left (the pointers of lo_server_del_method).
Least(S) == IF S = {} THEN Nil ELSE Min(S)
ListExact ==
  del = Absent =>
    /\ live = registered /\ first = Least(registered)
    /\ \A n \in registered : heap[n].next = Least({ m \in registered : m > n })

\* A message reaches every method that fits it and stays, once and in order, up
\* to the one that handled it, whatever the handlers add or delete meanwhile.
EachInTurn ==
  msg # <<>> /\ it = Nil /\ running = Nil =>
    /\ \A i, j \in 1 .. Len(called) : i < j => called[i].id < called[j].id
    /\ \A n \in stayed : Fits(n, msg[1]) =>
         \E i \in 1 .. Len(called) :
            \/ called[i].id = n
            \/ msg[1].kind # "pattern" /\ called[i].ret = 0 /\ called[i].id < n

\* The walk never reads a method that was freed, but for one: it goes astray from
\* a handler that deleted its own method, and from no other.
WalkLive ==
  /\ AtNode => it \in live \/ it = running
  /\ it = Astray => called # <<>> /\ Last(called).id \notin live

\* A #reply gives each name under the path once, and only if no handler said
\* that it handled the message.
ReplyExact ==
  msg = <<>> /\ reply # <<>> =>
    /\ IsInjective(reply[1])
    /\ \A i \in 1 .. Len(called) : called[i].ret # 0

\* lo_types.h: a handler's "return value of 0 indicates that it has been
\* handled, and it should not attempt to pass it on to any other handlers".
HandledStops == \A i \in 1 .. Len(called) - 1 : called[i].ret # 0
=============================================================================
