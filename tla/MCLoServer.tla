----------------------------- MODULE MCLoServer -----------------------------
(***************************************************************************)
(* How a server of liblo receives, side by side in one run: the queue      *)
(* (LoQueue), the thread (LoServerThread), the sockets (LoSockets), and    *)
(* the messages (LoMessage) and patterns of paths (LoPattern) in what      *)
(* arrives.  They share no state here: a behaviour is one of the part that *)
(* its first state chooses, while the others stay as they begin.           *)
(***************************************************************************)
EXTENDS LoQueue, LoServerThread, LoCodec, TLC

VARIABLES part

(* the queue *)
At(t) == [kind |-> "open", ts |-> t]
Is(k) == [kind |-> k, ts |-> Immediate]
MCPackets ==
  { <<Is("msg")>>,
    <<At(2), Is("msg"), Is("msg"), Is("close")>>,
    <<At(1), At(3), Is("msg"), Is("close"), Is("msg"), Is("close")>>,
    <<At(2), Is("msg"), At(Immediate), Is("bad"), Is("msg"), Is("close"),
      Is("badbundle"), Is("msg"), Is("close")>>,
    <<Is("bad")>> }

(* the sockets: p2 sends SLIP *)
MCScript ==
  "p1" :> << <<47, 0, 0, 0>>, <<47, 97, 97, 0, 44, 0, 0, 0, 0, 0, 0, 0, 0>> >>
  @@ "p2" :> << <<47, 97, 0, 0, 192, 219>>, <<47, 0, 0, 0>> >>

(* the messages *)
MCValues ==
  LET i == 105  m4 == 109  h == 104  t8 == 116  true == 84  str == 115  blob == 98
  IN  { <<i, <<1, 2, 3, 4>> >>, <<m4, <<1, 2, 3, 4>> >>, <<h, <<1, 2, 3, 4, 5, 6, 7, 8>> >>,
        <<t8, <<1, 2, 3, 4, 5, 6, 7, 8>> >>, <<true, <<>> >>,
        <<str, <<>> >>, <<str, <<7, 7, 7>> >>, <<str, <<7, 7, 7, 7>> >>,
        <<blob, <<7>> >>, <<blob, <<7, 7, 7, 7>> >> }
MCTypeStrings ==  \* "ixT", "s$$", "$b" and "TTTTTTT"
  { <<105, 120, 84>>, <<115, 36, 36>>, <<36, 98>>, [k \in 1 .. 7 |-> 84] }
MCDestinations == { <<47>>, <<47, 97, 98>> }

(* the patterns *)
MCAlphabet == <<"!", "*", ",", "-", "/", "?", "[", "]", "a", "b", "c", "{", "}">>
MCLetters == {"/", "a", "b", "c"}
Chars(cs) == { <<c>> : c \in cs }
MCMeaning ==
  <<"/">> :> Chars({"/"}) @@ <<"a">> :> Chars({"a"}) @@ <<"b">> :> Chars({"b"})
  @@ <<"*">> :> UNION { [1 .. n -> MCLetters] : n \in 0 .. 3 } @@ <<"?">> :> Chars(MCLetters)
  @@ <<"[", "a", "b", "]">> :> Chars({"a", "b"})
  @@ <<"[", "!", "a", "]">> :> Chars(MCLetters \ {"a"})
  @@ <<"[", "a", "-", "b", "]">> :> Chars({"a", "b"})
  @@ <<"[", "!", "b", "-", "c", "/", "]">> :> Chars({"a"})
  @@ <<"{", "a", ",", "b", "}">> :> Chars({"a", "b"})
  @@ <<"{", "a", ",", "a", "b", "}">> :> { <<"a">>, <<"a", "b">> }
all == <<part, vars, threadVars, connections, message, pattern>>

ServerInit ==
  /\ part \in {"queue", "thread", "sockets", "message", "pattern"}
  /\ Init /\ ThreadInit /\ Stream!Init /\ Message!Init /\ Pattern!Init
ServerNext ==
  \/ /\ UNCHANGED <<part, message, pattern>>
     /\ \/ part = "queue" /\ Next /\ UNCHANGED <<threadVars, connections>>
        \/ part = "thread" /\ ThreadNext /\ UNCHANGED <<vars, connections>>
        \/ part = "sockets" /\ Stream!Next /\ UNCHANGED <<vars, threadVars>>
  \/ /\ UNCHANGED <<part, vars, threadVars, connections>>
     /\ \/ part = "message" /\ Message!Next /\ UNCHANGED pattern
        \/ part = "pattern" /\ Pattern!Next /\ UNCHANGED message
ServerSpec ==
  /\ ServerInit /\ [][ServerNext]_all
  /\ WF_vars(part = "queue" /\ Tick) /\ WF_vars(part = "queue" /\ Recv)
  /\ WF_threadVars(part = "thread" /\ Joined) /\ WF_threadVars(part = "thread" /\ FreeJoined)
  /\ \A t \in Threads : WF_threadVars(part = "thread" /\ ThreadFunc(t))

(* LoQueue, LoServerThread: what was queued is handled in the end, and who *)
(* stops or frees a thread gets back.                                      *)
Served == QueueDrains /\ StopReturns
=============================================================================
