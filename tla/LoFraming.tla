----------------------------- MODULE LoFraming -----------------------------
(***************************************************************************)
(* How messages are told apart on a TCP stream of liblo: a client puts a   *)
(* count of four bytes before each (send.c) or encodes it with SLIP, and a *)
(* server that finds out which puts the bytes of every recv together again *)
(* in the context of the socket (server.c).                                *)
(*                                                                         *)
(* A context is a record of                                                *)
(*   slip   is_slip: 1, 0, or -1 while it is unknown                       *)
(*   state  slip_state: was the last byte an escape?                       *)
(*   buf    the first buffer_read_offset bytes of buffer                   *)
(*   msg    buffer_msg_offset: where the unfinished SLIP message starts    *)
(*   size   buffer_size                                                    *)
(***************************************************************************)
EXTENDS Integers, Sequences, SequencesExt

CONSTANTS
  MinBuffer,   \* the least buffer, 64 bytes in the code
  MaxMsgSize   \* max_msg_size

END == 192   ESC == 219   ESC_END == 220   ESC_ESC == 221
Slash == 47
Printable == 32 .. 126

Header(n) == << n \div 16777216, (n \div 65536) % 256, (n \div 256) % 256, n % 256 >>
\* From 2^24 on a count stands for any that is beyond every buffer.
Count(h) == IF h[1] # 0 THEN 16777216 ELSE 65536 * h[2] + 256 * h[3] + h[4]
Drop(s, n) == SubSeq(s, n + 1, Len(s))

----------------------------------------------------------------------------
(* The sender. *)

\* Mutant: an escape character in a message is sent as it is.
SlipByte_Fault(b) == IF b = END THEN <<ESC, ESC_END>> ELSE <<b>>
SlipByte(b) == CASE b = ESC -> <<ESC, ESC_ESC>>
                 [] b = END -> <<ESC, ESC_END>>
                 [] OTHER -> <<b>>
\* code[k] is what becomes of the last k bytes of a message.
SlipEncode(m) ==
  LET code[k \in 0 .. Len(m)] ==
        IF k = 0 THEN <<END>> ELSE SlipByte(m[Len(m) - k + 1]) \o code[k - 1]
  IN  code[Len(m)]

\* What send_data puts on the stream for a message.
Encode(slip, m) == IF slip THEN SlipEncode(m) ELSE Header(Len(m)) \o m

----------------------------------------------------------------------------
(* The receiver. *)

InitContext == [slip |-> -1, state |-> 0, buf |-> <<>>, msg |-> 0, size |-> 0]
CleanupContext == [InitContext EXCEPT !.slip = 0]

\* lo_server_buffer_contains_msg: the length of a whole message, or 0
ContainsMsg(sc) ==
  LET n == Count(SubSeq(sc.buf, 1, 4))
  IN  IF Len(sc.buf) > 4 /\ n + 4 <= Len(sc.buf) THEN n ELSE 0

\* lo_server_buffer_copy_for_dispatch: the message, and what is left
FirstMsg(sc) == SubSeq(sc.buf, 5, 4 + ContainsMsg(sc))
AfterDispatch(sc) ==
  LET n == ContainsMsg(sc) + 4
  IN  [sc EXCEPT !.buf = Drop(@, n), !.msg = @ - n]

\* The buffer that lo_server_recv_raw_stream_socket makes room in: doubled
\* until half of it is free, and never above the greatest message.
Doubled(size, off) ==
  LET doubled[n \in Nat \ {0}] ==
        IF 2 * n > MaxMsgSize THEN MaxMsgSize
        ELSE IF 2 * n - off >= n THEN 2 * n ELSE doubled[2 * n]
  IN  doubled[size]
Grown(sc) ==
  LET off == Len(sc.buf)
      least == IF sc.size < MinBuffer THEN MinBuffer ELSE sc.size
      size == IF sc.size - off >= least \div 2 THEN least ELSE Doubled(least, off)
  IN  IF size > sc.size THEN [sc EXCEPT !.size = size] ELSE sc
Room(sc) == sc.size - Len(sc.buf)

\* detect_slip, on the first four bytes of the stream
DetectSlip(b) ==
  LET Text(S) == \A k \in S : b[k] \in Printable \cup {0}
  IN  \/ b[1] = END /\ b[2] = Slash /\ Text({3, 4})
      \/ b[1] = Slash /\ Text({2, 3, 4})
      \/ SubSeq(b, 1, 4) = <<35, 98, 117, 110>>

\* A whole SLIP message: its length goes before it, and a header of 0 before
\* the next.
EndMsg(sc) ==
  LET len == Len(sc.buf) - sc.msg - 4
  IN  [sc EXCEPT !.buf = SubSeq(@, 1, sc.msg) \o Header(len) \o Drop(@, sc.msg + 4)
                           \o Header(0),
                 !.msg = @ + len + 4]

\* slip_decode, one byte.  `left' bytes of the segment are to come, for which
\* the buffer is doubled if a message that ended took up the room; when it is
\* beyond its end already, the difference of sizes is a great number, and it
\* is not.
SlipDecode(sc, b, left) ==
  CASE sc.state = 0 /\ b = END ->
         LET e == EndMsg(sc)
         IN  IF Room(e) \in 0 .. left + 3 THEN [e EXCEPT !.size = 2 * @] ELSE e
    [] sc.state = 0 /\ b = ESC -> [sc EXCEPT !.state = 1]
    [] sc.state = 0 /\ b \notin {END, ESC} -> [sc EXCEPT !.buf = Append(@, b)]
    [] sc.state = 1 /\ b = ESC_END -> [sc EXCEPT !.buf = Append(@, END), !.state = 0]
    [] sc.state = 1 /\ b = ESC_ESC -> [sc EXCEPT !.buf = Append(@, ESC), !.state = 0]
    [] OTHER -> [sc EXCEPT !.state = 0]

\* The kth turn of its loop.  A byte that makes no sense behind an ESC is read
\* once again, though it was counted: from then to the end of the message the
\* bytes read are `late' behind the count, and so many are skipped there.
SlipTurn(d, bytes, k) ==
  LET b == bytes[k - d.late]
  IN  [sc |-> SlipDecode(d.sc, b, Len(bytes) - k),
       late |-> CASE d.sc.state = 1 /\ b \notin {ESC_END, ESC_ESC} -> d.late + 1
                  [] d.sc.state = 0 /\ b = END -> 0
                  [] OTHER -> d.late]
SlipDecodeAll(sc, bytes) ==
  LET decoded[k \in 0 .. Len(bytes)] ==
        IF k = 0 THEN [sc |-> sc, late |-> 0] ELSE SlipTurn(decoded[k - 1], bytes, k)
  IN  decoded[Len(bytes)].sc

\* The bytes of one recv.  The stream is looked at as soon as four are
\* there; if it is SLIP, the bytes of this recv are decoded behind a header.
Detected(sc, bytes) ==
  IF sc.slip = -1 /\ Len(sc.buf) + Len(bytes) >= 4
  THEN IF DetectSlip(Drop(sc.buf \o bytes, sc.msg))
       THEN [sc EXCEPT !.slip = 1, !.buf = @ \o Header(0)]
       ELSE [sc EXCEPT !.slip = 0]
  ELSE sc
Store(sc, bytes) ==
  LET c == Detected(sc, bytes)
  IN  IF c.slip = 1 THEN SlipDecodeAll(c, bytes) ELSE [c EXCEPT !.buf = @ \o bytes]

\* The bytes of SLIP go to a stack buffer that is four bytes short for all
\* that recv may put there.
OffStack(sc, n) == sc.slip = 1 /\ n > Room(sc) - 4
\* They are decoded to a buffer that may be too short for the headers, or be
\* moved as it is doubled, while buffer_after still points into the old one.
OffBuffer(before, sc) == Len(sc.buf) > sc.size \/ sc.size # before.size

\* lo_server_recv_raw_stream_socket, when these bytes have arrived: one recv.
\* `again' says that it found nothing, `full' that it was called with no room
\* to read into, and returned 0, `more' that it is called once again, as it
\* filled the buffer without a whole message in it, `risky' that what it did
\* to the memory may be undefined.
Recv(sc, bytes, risky) ==
  LET g == Grown(sc)
      n == IF Len(bytes) < Room(g) THEN Len(bytes) ELSE Room(g)
      c == Store(g, SubSeq(bytes, 1, n))
      Ends(again, full) ==
        [sc |-> g, rest |-> bytes, again |-> again, full |-> full, more |-> FALSE,
         risky |-> risky \/ OffStack(g, n)]
  IN  CASE Room(g) <= 0 -> Ends(FALSE, TRUE)
        [] Room(g) > 0 /\ bytes = <<>> -> Ends(TRUE, FALSE)
        [] OTHER -> [sc |-> c, rest |-> Drop(bytes, n), again |-> FALSE, full |-> FALSE,
                     more |-> ContainsMsg(c) = 0 /\ n = Room(g),
                     risky |-> risky \/ OffStack(g, n) \/ OffBuffer(g, c)]
\* All of them.  Each but the last reads a byte at least.
Received(sc, bytes) ==
  LET turn[k \in 0 .. Len(bytes)] ==
        IF k = 0 THEN Recv(sc, bytes, FALSE)
        ELSE LET t == turn[k - 1] IN IF t.more THEN Recv(t.sc, t.rest, t.risky) ELSE t
  IN  turn[Len(bytes)]
=============================================================================
