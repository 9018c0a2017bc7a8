----------------------------- MODULE MCLoCodec ------------------------------
(***************************************************************************)
(* Messages (LoMessage) with one large value, a blob of 131072 bytes.      *)
(* They are never sent: there is no path to send them to.  The pattern     *)
(* stays empty, and nobody connects.                                       *)
(***************************************************************************)
EXTENDS LoCodec

Blob == 98
MCValues == { <<Blob, [k \in 1 .. 131072 |-> 7]>> }

NoPieces == <<>>

CodecSpec ==
  /\ Message!Init /\ Pattern!Init /\ Stream!Init
  /\ [][Message!Next /\ UNCHANGED <<pattern, connections>>]_<<message, pattern, connections>>
=============================================================================
