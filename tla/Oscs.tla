-------------------------------- MODULE Oscs --------------------------------
(* The oscillators of zeros.c, from the zero crossing that starts them to  *)
(* the one that drops them.  A downward crossing at a plausible pitch      *)
(* starts one layer of oscillators, in the layer that octaver.cycles       *)
(* points to, and every downward crossing ages all layers (handle_cycle).  *)
(* Each sample moves every active oscillator further back in the history   *)
(* than the sample before, since it reads slower than the input arrives:   *)
(* only handle_cycle ever stops one.                                       *)
(*                                                                         *)
(* Positions, speeds and periods are counted in 1 / Unit of a sample.      *)
(* What an oscillator sounds like is left out, but for its amplitude,      *)
(* which decides when it may be dropped: amp is the number of samples of   *)
(* release (amp *= 0.95) after which the code's amp is below 0.001.        *)
(*                                                                         *)
(* An operator whose name ends in _Fault is the definition after it with a *)
(* plausible mistake in it; only the mutation runs use it.                 *)
EXTENDS Integers

CONSTANTS
  HISTORY_LENGTH,    (* 8192                                               *)
  DURATION,          (* 3 layers, and the crossings a layer sounds for     *)
  N_OSCS_PER_LAYER,  (* 6                                                  *)
  Unit,              (* positions are in 1 / Unit of a sample              *)
  Voices,            (* the values of voice_iff.value                      *)
  Recipe,            (* Recipe[v]: speeds of the oscillators v starts, by  *)
                     (* slot; 0 for a slot that v leaves alone             *)
  Raw,               (* V_RAW and V_RAWDIST: update returns at once        *)
  MaxSpeed,          (* a bound on the speeds                              *)
  RangeHigh,         (* per voice: the pitch is plausible if the period is *)
  RangeLow,          (* above RangeHigh and below RangeLow                 *)
  Attack,            (* amp after one more sample of attack                *)
  MaxAmp,            (* 135: the code's amp stays below 1                  *)
  MaxGap             (* samples from one downward crossing to the next     *)

Layers == 0 .. DURATION - 1

Slots == 0 .. N_OSCS_PER_LAYER - 1

ASSUME OscsAssumption ==
  /\ DURATION \in Nat /\ DURATION > 1 /\ N_OSCS_PER_LAYER \in Nat \ {0}
  /\ HISTORY_LENGTH \in Nat /\ Unit \in Nat \ {0}
  /\ Raw \subseteq Voices /\ MaxSpeed \in Nat
  /\ Recipe \in [Voices -> [Slots -> 0 .. MaxSpeed]]
  /\ RangeHigh \in [Voices -> Nat] /\ RangeLow \in [Voices -> Nat]
  /\ MaxAmp \in Nat \ {0} /\ Attack \in [0 .. MaxAmp -> 1 .. MaxAmp]

(* The most samples an oscillator is read for, if the input never goes     *)
(* longer than MaxGap samples without a downward crossing.                 *)
Lifetime == DURATION * MaxGap + MaxAmp - 1

(* zeros.c relies on crossings that are frequent enough for its history.   *)
ASSUME GapAssumption ==
  /\ MaxGap \in Nat /\ MaxGap > 1
  /\ MaxSpeed * Lifetime + 2 * Unit <= HISTORY_LENGTH * Unit

VARIABLES
  voice,      (* voice_iff.value                                           *)
  positive,   (* octaver.positive                                          *)
  since,      (* octaver.samples_since_last_crossing                       *)
  layer,      (* octaver.cycles % DURATION                                 *)
  oscs,       (* the oscillators, by layer and slot                        *)
  gap,        (* samples since handle_cycle last ran                       *)
  crossings   (* history: octaver.cycles, counted up to DURATION           *)

vars == <<voice, positive, since, layer, oscs, gap, crossings>>

(* An inactive oscillator.  Its other fields are not read before osc_init. *)
Idle == [active |-> FALSE, duration |-> 0, amp |-> 0, pos |-> 0, speed |-> 0]

-----------------------------------------------------------------------------
(* One oscillator.                                                         *)

OscInit(position, speed) ==
  [active |-> TRUE, duration |-> DURATION, amp |-> 0, pos |-> position,
   speed |-> speed]

(* handle_cycle, for one oscillator.                                       *)
Aged_StuckFault(osc) ==
  LET left == IF osc.duration > 1 THEN osc.duration - 1 ELSE osc.duration
  IN  IF osc.active /\ left < 1 /\ osc.amp = 0
        THEN Idle
        ELSE [osc EXCEPT !.duration = left]

Aged_KeepFault(osc) ==
  [osc EXCEPT !.duration = IF @ > 0 THEN @ - 1 ELSE 0]

Aged(osc) ==
  LET left == IF osc.duration > 0 THEN osc.duration - 1 ELSE 0
  IN  IF osc.active /\ left < 1 /\ osc.amp = 0
        THEN Idle
        ELSE [osc EXCEPT !.duration = left]

Release(amp) == IF amp > 0 THEN amp - 1 ELSE 0

OscNext_EndedFault(osc) ==
  IF osc.active /\ osc.duration > 0
    THEN [osc EXCEPT !.amp = Attack[@], !.pos = @ + osc.speed]
    ELSE osc

(* osc_next.                                                               *)
OscNext(osc) ==
  IF osc.active
    THEN [osc EXCEPT !.amp = IF osc.duration > 0 THEN Attack[@] ELSE Release(@),
                     !.pos = @ + osc.speed]
    ELSE osc

-----------------------------------------------------------------------------
(* All of them.                                                            *)

InRange(period) == RangeHigh[voice] < period /\ period < RangeLow[voice]

(* init_oscs writes the slots the voice uses in the layer of this cycle.   *)
Starts(l, k) == l = layer /\ Recipe[voice][k] > 0

InitOscs(position) ==
  [l \in Layers |-> [k \in Slots |->
     IF Starts(l, k) THEN OscInit(position, Recipe[voice][k]) ELSE oscs[l][k]]]

NextLayer_EarlyFault == (layer + 1) % (DURATION - 1)

NextLayer == (layer + 1) % DURATION

(* Where update finds a downward crossing; position is -adjustment, how    *)
(* far back between the last two samples it is.                            *)
Down(sign) == positive /\ sign < 0

Retrigger(position) == InRange(since + Unit + position)

(* The environment: a sample that is no crossing leaves room for one.      *)
CrossesInTime == gap' + (IF positive' THEN 0 ELSE 1) < MaxGap

Cap(n) == IF n > DURATION THEN DURATION ELSE n

(* update, from samples_since_last_crossing to the oscillators.            *)
NoCrossing(sign) ==
  /\ voice \notin Raw
  /\ ~Down(sign)
  /\ positive' = (positive \/ sign > 0)
  /\ since' = since + Unit
  /\ gap' = gap + 1
  /\ CrossesInTime
  /\ oscs' = [l \in Layers |-> [k \in Slots |-> OscNext(oscs[l][k])]]
  /\ UNCHANGED <<voice, layer, crossings>>

Crossing(position) ==
  LET started == IF Retrigger(position) THEN InitOscs(position) ELSE oscs
  IN  /\ voice \notin Raw
      /\ Down(-1)
      /\ positive' = FALSE
      /\ since' = position
      /\ layer' = NextLayer
      /\ crossings' = Cap(crossings + 1)
      /\ gap' = 0
      /\ oscs' = [l \in Layers |-> [k \in Slots |-> OscNext(Aged(started[l][k]))]]
      /\ UNCHANGED voice

(* update_iff: any setting that changes resets the octaver, and leaves the *)
(* oscillators alone.  v is the voice before unless that is what changed.  *)
Reset(v) ==
  /\ voice' = v
  /\ positive' = TRUE
  /\ since' = 0
  /\ layer' = 0
  /\ crossings' = 0
  /\ UNCHANGED <<oscs, gap>>

Init ==
  /\ voice \in Voices /\ positive = TRUE /\ since = 0 /\ layer = 0
  /\ oscs = [l \in Layers |-> [k \in Slots |-> Idle]]
  /\ gap = 0 /\ crossings = 0

Sample ==
  \/ \E sign \in {-1, 0, 1} : NoCrossing(sign)
  \/ \E position \in 0 .. Unit : Crossing(position)

Next == Sample \/ \E v \in Voices : Reset(v)

Spec == Init /\ [][Next]_vars

(* The sound card keeps delivering samples.                                *)
FairSpec == Spec /\ WF_vars(Sample)

-----------------------------------------------------------------------------
(* Properties.                                                             *)

Osc == [active : BOOLEAN, duration : 0 .. DURATION - 1, amp : 0 .. MaxAmp,
        pos : Nat, speed : 0 .. MaxSpeed]

TypeOK ==
  /\ voice \in Voices /\ positive \in BOOLEAN
  /\ since \in Nat /\ layer \in Layers
  /\ oscs \in [Layers -> [Slots -> Osc]]
  /\ gap \in 0 .. MaxGap - 1 /\ crossings \in 0 .. DURATION

(* osc_next reads the history pos and pos + 1 samples back and checks      *)
(* neither.  An oscillator is dropped before it falls off the window, at   *)
(* whatever moment the voice changes or the octaver is reset, if the input *)
(* crosses zero often enough.                                              *)
ReadsInHistory ==
  \A l \in Layers : \A k \in Slots :
    oscs[l][k].active => oscs[l][k].pos + Unit <= HISTORY_LENGTH * Unit

(* Oscillators of different layers never end together: one layer at a time *)
(* is released, so at most DURATION - 1 of them sound in full, and a reset *)
(* that lets a layer be started early does not change that.                *)
Staggered ==
  \A l, m \in Layers : \A j, k \in Slots :
    l # m /\ oscs[l][j].duration > 0 => oscs[l][j].duration # oscs[m][k].duration

(* init_oscs never cuts off an oscillator that is not yet being released,  *)
(* unless the octaver was reset less than DURATION - 1 crossings ago.      *)
StealsOnlyReleased ==
  [][\A position \in 0 .. Unit :
       /\ Crossing(position)
       /\ Retrigger(position)
       /\ crossings >= DURATION - 1
       => \A k \in Slots : Starts(layer, k) => oscs[layer][k].duration = 0]_vars

Started == \E position \in 0 .. Unit : Crossing(position) /\ Retrigger(position)

(* When the whistling stops, and the noise that remains has no plausible   *)
(* pitch, every oscillator is dropped: no note hangs.                      *)
NoteEnds ==
  <>[][~Started]_vars /\ <>[](voice \notin Raw) =>
    <>[](\A l \in Layers : \A k \in Slots : ~oscs[l][k].active)

=============================================================================
