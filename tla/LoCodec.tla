------------------------------ MODULE LoCodec -------------------------------
(***************************************************************************)
(* The messages that a server of liblo receives (LoMessage), the patterns  *)
(* that they are sent to (LoPattern) and the streams that they come in     *)
(* (LoSockets), under names that the models of the server leave free, with *)
(* what is assumed of the parameters.                                      *)
(***************************************************************************)
EXTENDS Integers, Sequences, FiniteSets

CONSTANTS Values, TypeStrings, Destinations, Noise, MaxTypes, MaxDamage,
          Alphabet, Meaning, Letters, MaxPieces, MaxLength,
          Peers, SlipPeers, Script, MinBuffer, MaxMsgSize

VARIABLES built, datagram, damage, pieces, path,
          peer, sent, wire, sockets, contexts, taken, again, delivered, shifted, lost, wild

Message == INSTANCE LoMessage WITH
             Paths <- Destinations, m <- built, packet <- datagram

Pattern == INSTANCE LoPattern

Stream == INSTANCE LoSockets

message == <<built, datagram, damage>>
pattern == <<pieces, path>>
connections == <<peer, sent, wire, sockets, contexts, taken, again, delivered, shifted, lost, wild>>

Bytes == 0 .. 255

(* What a program passes to lo_message_add_*: a value has the size of its  *)
(* type, a string no terminator inside, a blob a size that fits a word.    *)
IsValue(t, x) ==
  /\ x \in Seq(Bytes)
  /\ t \in Message!Sizeless => x = <<>>
  /\ t \in Message!OneWord => Len(x) = 4
  /\ t \in Message!TwoWords => Len(x) = 8
  /\ t = Message!S => \A k \in 1 .. Len(x) : x[k] # 0
  /\ t = Message!B => Len(x) \div 16777216 < 256

(* A program passes a value for each type character that is known.         *)
ASSUME CodecAssumption ==
  /\ \A v \in Values : v[1] \in Message!Types /\ IsValue(v[1], v[2])
  /\ \A ts \in TypeStrings :
       /\ ts \in Seq(Nat)
       /\ \A k \in 1 .. Len(ts) :
            ts[k] \in Message!Types => \E v \in Values : v[1] = ts[k]
  /\ Destinations \subseteq Seq(Bytes \ {0})
  /\ Noise \subseteq Bytes

(* A pattern is put together from pieces that are well formed and that     *)
(* stand for what the comment at the head of pattern_match.c says.         *)
ASSUME PatternAssumption ==
  /\ Alphabet \in Seq(STRING) /\ Letters \subseteq Pattern!Characters
  /\ MaxLength \in Nat
  /\ \A t \in DOMAIN Meaning : Pattern!IsPiece(t)

\* What four bytes can count the first of which is zero.
Counts == { n \in Nat : n < 16777216 }

(* A peer sends messages of a byte at least, whose count leaves the first  *)
(* of its four bytes zero.  What detect_slip looks for is at the start of  *)
(* the first that a SLIP peer sends: the path of a message, or "#bun".     *)
ASSUME StreamAssumption ==
  /\ IsFiniteSet(Peers) /\ MinBuffer \in Nat /\ MaxMsgSize \in Nat
  /\ 5 <= MinBuffer /\ MinBuffer <= MaxMsgSize
  /\ \A p \in Peers :
       /\ Script[p] \in Seq(Seq(Bytes))
       /\ \A k \in 1 .. Len(Script[p]) : Len(Script[p][k]) \in Counts \ {0}
       /\ p \in SlipPeers /\ Script[p] # <<>> =>
            LET m == Script[p][1]
            IN  /\ Len(m) >= 4 /\ Stream!DetectSlip(m)
                /\ \A k \in 1 .. 4 : m[k] \in Stream!Printable \cup {0}

-----------------------------------------------------------------------------
(* LoMessage: types and data stay in step, and pointers into data fresh.   *)
MessageFits == Message!TypesFit /\ Message!ArgvFresh
(* LoMessage: what a reader makes of the bytes is what was written, or it  *)
(* refuses them.                                                           *)
RoundTrips == Message!RoundTrip /\ Message!Canonical
(* LoMessage: the data have the room they need.                            *)
DataFits == Message!DataFits
(* LoPattern: a pattern matches what its pieces stand for.                 *)
GlobMatches == Pattern!GlobMatches
(* LoSockets: a peer's messages arrive, or its connection is gone, and no   *)
(* more than three bytes of them are lost, and those of SLIP only.         *)
Framed ==
  /\ Stream!IntactWhileSound /\ Stream!DroppedWithCause /\ Stream!NothingStuck
  /\ Stream!DamageIsSlip
=============================================================================
