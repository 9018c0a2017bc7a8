---------------------------- MODULE MCLoSockets -----------------------------
(* LoSockets with two peers, of which p2 sends SLIP.                       *)
EXTENDS LoSockets, TLC

MCScript ==
  "p1" :> << <<47, 0, 0, 0>>, <<47, 97, 97, 0, 44, 0, 0, 0, 0, 0, 0, 0, 0>> >>
  @@ "p2" :> << <<47, 97, 0, 0, 192, 219>>, <<47, 0, 0, 0>> >>
=============================================================================
