------------------------------ MODULE MCHistory ------------------------------
(***************************************************************************)
(* The history of samples side by side with its race (HistoryRace) and     *)
(* that of the pitch detection (CrossingRace).  They share no state here:  *)
(* a behaviour is one of the part that its first state chooses, while the  *)
(* others stay as they begin.                                              *)
(*                                                                         *)
(* The history's buffer has a few samples.  Its lap (4) and the recompute  *)
(* every ten seconds (3) are out of step with each other, so that the      *)
(* recompute falls on every position of the buffer; in the race, the       *)
(* buffer's lap is 2.  The detection knows both unprocessed voices and two *)
(* others; a period is plausible between one and three samples.            *)
(***************************************************************************)
EXTENDS HistoryParts

VARIABLE part

MCRounding == -1 .. 1

MCExact == {0}

MCRaceSamples == -1 .. 1

MCChain == <<"reed", "ebass">>

MCWild == {-Far, -2 * Unit, Unit, Far}

PartsInit ==
  /\ part \in {"history", "race", "crossing"}
  /\ Init /\ Race!Init /\ Crossing!Init
  /\ part # "crossing" => voice = Chain[1]
PartsNext ==
  \/ part = "history" /\ Next /\ UNCHANGED <<part, race, crossing>>
  \/ part = "race" /\ Race!Next /\ UNCHANGED <<part, vars, crossing>>
  \/ part = "crossing" /\ Crossing!Next /\ UNCHANGED <<part, vars, race>>
PartsSpec ==
  /\ PartsInit /\ [][PartsNext]_<<part, vars, race, crossing>>
  /\ WF_vars(part = "history" /\ \E s \in Samples : Update(s))
  /\ WF_race(part = "race" /\ Race!Audio)

(* Silence closes the gate, with the rounding of one thread and with the   *)
(* races of two; the detection has no gate.                                *)
SilenceCloses ==
  part \in {"history", "race"} => SilenceClosesGate /\ Race!SilenceClosesGate
=============================================================================
