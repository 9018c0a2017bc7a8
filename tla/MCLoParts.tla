----------------------------- MODULE MCLoParts ------------------------------
(***************************************************************************)
(* What surrounds the receiving of a server of liblo (LoServerParts), and  *)
(* the bundles and their counts of references (LoBundle), side by side in  *)
(* one run: a behaviour is one of the part that its first state chooses,   *)
(* while the others, and the queue and the thread (see MCLoServer), stay   *)
(* as they begin.                                                          *)
(***************************************************************************)
EXTENDS LoServerParts, TLC

CONSTANTS b1, b2, b3, m1, m2

VARIABLES
  part,
  elmnts, refcount, allocated, fresh, held

(* the packets of the queue, which rests here *)
MCPackets == { << [kind |-> "msg", ts |-> Immediate] >> }

(* the methods: a message that fits none of the types, one whose path is a *)
(* pattern, and one that asks what a path contains                         *)
MCMessages ==
  { [path |-> <<"a">>, kind |-> "plain", types |-> <<"f">>],
    [path |-> <<"*">>, kind |-> "pattern", types |-> <<"s">>],
    [path |-> <<"a">>, kind |-> "dir", types |-> <<"i">>] }
MCPaths == { <<"a">>, <<"a", "b">> }
MCMatched == [p \in { <<"*">> } |-> { <<"a">>, <<"a", "b">> }]
MCSpecs == { <<"i">> }

(* the files: up to three lines, whose times do not go back, one with only *)
(* a path and one with more values than the array.  A second has four      *)
(* fractions here.                                                         *)
Line(tt, types, reads) == [tt |-> tt, path |-> TRUE, types |-> types, reads |-> reads]
Blank == [tt |-> <<>>, path |-> FALSE, types |-> <<>>, reads |-> <<>>]
MCLines ==
  { Line(<<>>, <<"T", "i">>, <<"int">>),
    Line(<<1, 2>>, <<"s", "h">>, <<"word", "big">>), Line(<<1, 3>>, <<"i">>, <<"big">>),
    Line(<<2, 0>>, <<"m">>, <<"int">>), Line(<<2>>, <<"f">>, <<"int">>),
    Line(<<>>, <<"h", "i">>, <<"int">>), Line(<<>>, <<>>, <<>>),
    Line(<<2, 1>>, <<"i">>, <<"int", "int", "int", "int">>), Blank }
InTurn(lines) ==
  LET time(l) == l.tt[1] * 4 + (IF Len(l.tt) > 1 THEN l.tt[2] ELSE 0)
  IN  \A i, j \in DOMAIN lines :
        i < j /\ lines[i].tt # <<>> /\ lines[j].tt # <<>> => time(lines[i]) <= time(lines[j])
MCFiles == { lines \in UNION { [1 .. n -> MCLines] : n \in 1 .. 3 } : InTurn(lines) }

(* the bundles: m2 is twice as long as m1 *)
AllBundles == {b1, b2, b3}
Bundle == INSTANCE LoBundle WITH
            Bundles <- AllBundles, Messages <- {m1, m2}, Words <- (m1 :> 1 @@ m2 :> 2),
            MaxElements <- 2, MaxCount <- 3, live <- allocated
Symmetric == Permutations(AllBundles)

tree == <<elmnts, refcount, allocated, fresh, held>>
around == <<methods, servers, address, wait, sender>>
all == <<part, vars, threadVars, around, tree>>

PartsInit ==
  /\ part \in {"methods", "servers", "address", "wait", "file", "bundle"}
  /\ Init /\ ThreadInit /\ Methods!Init /\ Servers!Init /\ Address!Init /\ Several!Init
  /\ File!Init /\ (part # "file" => file = <<Blank>>)
  /\ Bundle!Init
PartsNext ==
  /\ UNCHANGED <<part, vars, threadVars>>
  /\ \/ /\ UNCHANGED tree
        /\ \/ part = "methods" /\ Methods!Next /\ UNCHANGED <<servers, address, wait, sender>>
           \/ part = "servers" /\ Servers!Next /\ UNCHANGED <<methods, address, wait, sender>>
           \/ part = "address" /\ Address!Next /\ UNCHANGED <<methods, servers, wait, sender>>
           \/ part = "wait" /\ Several!Next /\ UNCHANGED <<methods, servers, address, sender>>
           \/ part = "file" /\ File!Next /\ UNCHANGED <<methods, servers, address, wait>>
     \/ part = "bundle" /\ Bundle!Next /\ UNCHANGED around
PartsSpec == PartsInit /\ [][PartsNext]_all

(* LoBundle: an object lives exactly as long as something refers to it,    *)
(* and what a reader makes of a bundle's bytes is what was written.        *)
CountsExact ==
  Bundle!RefcountExact /\ Bundle!LiveIsReachable /\ Bundle!Acyclic /\ Bundle!RoundTrip
=============================================================================
