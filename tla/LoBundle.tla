------------------------------ MODULE LoBundle ------------------------------
(***************************************************************************)
(* Bundles of liblo (src/liblo-0.30/src/bundle.c) and the reference counts *)
(* they share with messages (message.c).                                   *)
(*                                                                         *)
(* The program that uses the library is the environment: it creates        *)
(* objects, adds them to bundles, counts references and frees them, each   *)
(* of which is one call and one action.  It keeps to the protocol of       *)
(* lo_lowlevel.h: it frees what it holds.  The count does not include the  *)
(* reference a creator gets: an object starts at 0, and that first         *)
(* reference is taken over by the first lo_..._incref or the first bundle  *)
(* that the object is added to.  The model calls an object FRESH until     *)
(* then.                                                                   *)
(*                                                                         *)
(* A serialised bundle is a sequence of 32-bit words; the contents of a    *)
(* message are words that name it.                                         *)
(***************************************************************************)
EXTENDS Integers, Sequences, FiniteSets, SequencesExt

CONSTANTS
  Bundles, Messages,
  Words,          \* the length of each message in words, path included
  MaxElements,    \* bounds: elements of a bundle,
  MaxCount        \* and the count up to which references are added

Objects == Bundles \cup Messages

VARIABLES
  elmnts,     \* each live bundle's elements, in order
  refcount,   \* each live object's count
  live,       \* the objects that are allocated
  fresh,      \* those that nobody has counted a reference to
  held        \* the references that the program counted or took over

vars == <<elmnts, refcount, live, fresh, held>>

Init ==
  /\ elmnts = [b \in Bundles |-> <<>>]
  /\ refcount = [x \in Objects |-> 0]
  /\ live = {} /\ fresh = {}
  /\ held = [x \in Objects |-> 0]

Children(b) == { x \in Bundles : \E i \in DOMAIN elmnts[b] : elmnts[b][i] = x }

\* What the program may pass to a call: what it holds, and what it finds there.
RECURSIVE Below(_)
Below(S) == LET T == S \cup UNION { ToSet(elmnts[b]) : b \in S \cap Bundles }
            IN  IF T = S THEN S ELSE Below(T)
Holds(x) == x \in fresh \/ held[x] > 0
Known == Below({ x \in live : Holds(x) })

\* lo_bundle_new, lo_message_new
New(x) ==
  /\ x \notin live
  /\ live' = live \cup {x}
  /\ fresh' = fresh \cup {x}
  /\ refcount' = [refcount EXCEPT ![x] = 0]
  /\ elmnts' = IF x \in Bundles THEN [elmnts EXCEPT ![x] = <<>>] ELSE elmnts
  /\ UNCHANGED held

\* lo_bundle_incref, lo_message_incref
Incref(x) ==
  /\ refcount[x] < MaxCount
  /\ refcount' = [refcount EXCEPT ![x] = @ + 1]
  /\ held' = [held EXCEPT ![x] = @ + 1]
  /\ fresh' = fresh \ {x}
  /\ UNCHANGED <<elmnts, live>>

\* walk_tree: is a bundle met again below itself?  els are the elements.
RECURSIVE WalkTree(_, _, _)
WalkTree(els, parents, b) ==
  \/ b \in parents
  \/ \E i \in DOMAIN els[b] : els[b][i] \in Bundles /\ WalkTree(els, parents \cup {b}, els[b][i])
Circular(els, b) == WalkTree(els, {}, b)


\* lo_bundle_add_element.  An element that would close a circle is taken
\* back, with the reference that was counted for it.
AddElement(b, x) ==
  LET els == [elmnts EXCEPT ![b] = Append(@, x)]
      refused == x \in Bundles /\ Circular(els, b)
  IN  /\ Len(elmnts[b]) < MaxElements /\ refcount[x] < MaxCount
      /\ elmnts' = IF refused THEN elmnts ELSE els
      /\ refcount' = IF refused THEN refcount ELSE [refcount EXCEPT ![x] = @ + 1]
      /\ fresh' = IF refused THEN fresh ELSE fresh \ {x}
      /\ UNCHANGED <<live, held>>

(***************************************************************************)
(* lo_bundle_free_recursive, collect_element and lo_message_free: the heap *)
(* h after one reference to x was given up.                                *)
(***************************************************************************)
RECURSIVE Release(_, _), ReleaseAll(_, _)
Released(h, x) == [h EXCEPT !.refcount[x] = @ - 1]
\* Mutant: the last reference but one frees the object.
Keeps_Fault(h, x) == h.refcount[x] > 1
Keeps(h, x) == h.refcount[x] > 0
Release(h, x) ==
  LET r == Released(h, x)
  IN  IF Keeps(r, x) THEN r
      ELSE LET s == IF x \in Bundles THEN ReleaseAll(r, elmnts[x]) ELSE r
           IN  [s EXCEPT !.live = @ \ {x}, !.refcount[x] = 0]
ReleaseAll(h, els) == IF els = <<>> THEN h ELSE ReleaseAll(Release(h, Head(els)), Tail(els))

Heap == [refcount |-> refcount, live |-> live]

DropHeld(x) == IF x \in fresh THEN held ELSE [held EXCEPT ![x] = @ - 1]

FreeRecursive(x) ==
  /\ x \in live /\ Holds(x)
  /\ LET h == Release(Heap, x)
     IN  /\ refcount' = h.refcount
         /\ live' = h.live
         /\ elmnts' = [b \in Bundles |-> IF b \in h.live THEN elmnts[b] ELSE <<>>]
  /\ held' = DropHeld(x)
  /\ fresh' = fresh \ {x}

\* lo_bundle_free leaves the elements and their counts alone: the program
\* now answers for the references that the bundle had.
Free(b) ==
  LET r == Released(Heap, b)
      Orphaned(x) == Cardinality({ i \in DOMAIN elmnts[b] : elmnts[b][i] = x })
  IN  /\ b \in live \cap Bundles /\ Holds(b)
      /\ fresh' = fresh \ {b}
      /\ IF Keeps(r, b)
         THEN refcount' = r.refcount /\ held' = DropHeld(b) /\ UNCHANGED <<elmnts, live>>
         ELSE /\ live' = live \ {b}
              /\ refcount' = [refcount EXCEPT ![b] = 0]
              /\ elmnts' = [elmnts EXCEPT ![b] = <<>>]
              /\ held' = [x \in Objects |-> DropHeld(b)[x] + Orphaned(x)]

Next ==
  \/ \E x \in Objects : New(x) \/ FreeRecursive(x)
  \/ \E b \in Bundles : Free(b)
  \/ \E x \in Known : Incref(x)
  \/ \E b \in Known \cap Bundles, x \in Known : AddElement(b, x)

Spec == Init /\ [][Next]_vars

----------------------------------------------------------------------------
(***************************************************************************)
(* lo_bundle_length, lo_bundle_serialise, and what a server makes of the   *)
(* words it receives: lo_validate_bundle and the walk of dispatch_data.    *)
(***************************************************************************)
RECURSIVE Length(_)
Length(x) ==
  IF x \in Messages THEN Words[x]
  ELSE 4 + Len(elmnts[x]) + FoldSeq(LAMBDA e, n : Length(e) + n, 0, elmnts[x])

Header(b) == << <<"#bundle", 1>>, <<"#bundle", 2>>, <<"sec", b>>, <<"frac", b>> >>

RECURSIVE Serialise(_)
Serialise(x) ==
  IF x \in Messages THEN [k \in 1 .. Words[x] |-> <<"message", x>>]
  ELSE Header(x) \o FlattenSeq([i \in DOMAIN elmnts[x] |->
         LET e == Serialise(elmnts[x][i]) IN << <<"size", Len(e)>> >> \o e])

Drop(data, n) == SubSeq(data, n + 1, Len(data))

\* Do the sizes of the elements fill the data?
RECURSIVE ElementsFit(_)
ElementsFit(data) ==
  data # <<>> => /\ data[1][2] <= Len(data) - 1
                 /\ ElementsFit(Drop(data, 1 + data[1][2]))
Validate(data) == Len(data) >= 4 /\ ElementsFit(Drop(data, 4))


\* dispatch_data: the messages of a packet in the order they are dispatched
\* or queued, each with the time tag it gets (`now' outside of any bundle).
RECURSIVE Dispatched(_, _), DispatchedElements(_, _)
Dispatched(data, tag) ==
  CASE data[1] # <<"#bundle", 1>> -> << <<data[1][2], tag>> >>
    [] data[1] = <<"#bundle", 1>> /\ Validate(data) ->
         DispatchedElements(Drop(data, 4), data[3][2])
    [] OTHER -> <<>>
DispatchedElements(data, tag) ==
  IF data = <<>> THEN <<>>
  ELSE Dispatched(SubSeq(data, 2, 1 + data[1][2]), tag)
         \o DispatchedElements(Drop(data, 1 + data[1][2]), tag)

----------------------------------------------------------------------------
TypeOK ==
  /\ live \subseteq Objects /\ fresh \subseteq live
  /\ \A b \in Bundles : Len(elmnts[b]) <= MaxElements /\ ToSet(elmnts[b]) \subseteq Objects
  /\ \A x \in Objects : held[x] \in Nat /\ refcount[x] \in Int

\* How often an object is an element of a live bundle.
References(x) ==
  FoldSet(LAMBDA b, n : Cardinality({ i \in DOMAIN elmnts[b] : elmnts[b][i] = x }) + n,
          0, live \cap Bundles)

\* A live object's count is the number of references to it that somebody
\* took, whatever was added, refused, counted and freed before.
RefcountExact == \A x \in live : refcount[x] = held[x] + References(x)

\* Nothing that the program can still reach was freed, and nothing that it
\* cannot reach is left: frees neither come too early nor never.
LiveIsReachable == live = Below({ x \in Objects : Holds(x) })

\* No bundle is below itself (lo_bundle_circular), so that freeing, measuring
\* and serialising end.
Acyclic == \A b \in Bundles : b \notin Below(Children(b))

\* The messages in a bundle, with the bundle each is in directly.
RECURSIVE InOrder(_)
InOrder(b) ==
  FlattenSeq([i \in DOMAIN elmnts[b] |->
    LET e == elmnts[b][i] IN IF e \in Messages THEN << <<e, b>> >> ELSE InOrder(e)])

\* A bundle has the length lo_bundle_length allocates for it, and a server
\* gets its messages out in order, each with the time of its own bundle.
RoundTrip ==
  \A b \in live \cap Bundles :
    /\ Len(Serialise(b)) = Length(b)
    /\ Dispatched(Serialise(b), b) = InOrder(b)

=============================================================================
