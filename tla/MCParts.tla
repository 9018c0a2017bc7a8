------------------------------ MODULE MCParts -------------------------------
(***************************************************************************)
(* The five parts of Parts side by side in one run: a behaviour is one of  *)
(* the part that its first state chooses, while the others stay as they    *)
(* begin.  The echo has floats of four significant bits, whose neighbours  *)
(* are four samples apart at the end of the buffer, as in zeros.c, and up  *)
(* to three sound cards are connected.                                     *)
(***************************************************************************)
EXTENDS Parts

VARIABLE part

MCUlps == {1, 2, 4, 8, 16}

(* A key of each kind.  No announced note but DELETE's, which F11 also     *)
(* sends, is a key of its own.                                             *)
Key(kind, value) == [kind |-> kind, value |-> value]
MCKeys == { Key("digit", 0), Key("digit", 1), Key("digit", 2), Key("digit", 8),
            Key("announce", 105), Key("announce", 108), Key("note", 108),
            Key("note", 65), Key("mode", "gate"), Key("command", 0) }

MCSamples == {-1, 2}

MCDeviceLists == UNION {[1 .. n -> BOOLEAN] : n \in 0 .. 3}

MCIndices == -1 .. 3

paUnanticipatedHostError == -9999

paInternalError == -9986

paTimedOut == -9987

paDeviceUnavailable == -9985

paStreamIsStopped == -9983

(* Two errors each that neither of the loop's tests ignores, that one of   *)
(* them does, and that both do.                                            *)
MCCodes ==
  {paUnanticipatedHostError, paStreamIsStopped, paTimedOut, paInputOverflowed,
   paDeviceUnavailable, paInternalError}

all == <<part, line, vars, keypad, web, teensy>>

(* The page may begin with several positions of its sliders if it runs, as *)
(* may the program with several sound cards.                               *)
PartsInit ==
  /\ part \in {"line", "stream", "keypad", "web", "teensy"}
  /\ LineInit /\ Init /\ Kbd!Init /\ Html!Init /\ Ino!Init
  /\ part # "web" => sliders = Default
  /\ part # "stream" => devices = <<>> /\ device_index = 0
PartsNext ==
  \/ part = "line" /\ Update /\ UNCHANGED <<part, vars, keypad, web, teensy>>
  \/ part = "stream" /\ Next /\ UNCHANGED <<part, line, keypad, web, teensy>>
  \/ part = "keypad" /\ Kbd!Next /\ UNCHANGED <<part, line, vars, web, teensy>>
  \/ part = "web" /\ Html!Next /\ UNCHANGED <<part, line, vars, keypad, teensy>>
  \/ part = "teensy" /\ Ino!Next /\ UNCHANGED <<part, line, vars, keypad, web>>
(* Stream's fairness: the program runs, its calls return, and systemd      *)
(* restarts it.                                                            *)
PartsSpec ==
  PartsInit /\ [][PartsNext]_all /\ WF_vars(part = "stream" /\ Program)
=============================================================================
