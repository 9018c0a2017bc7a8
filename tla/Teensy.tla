------------------------------- MODULE Teensy -------------------------------
(***************************************************************************)
(* The port to a Teensy (zeros.ino).  The audio library calls update from  *)
(* an interrupt for every block of samples, from the moment AudioMemory    *)
(* gave it blocks: also while setup, which it interrupts between any two   *)
(* stores, still initialises what update works on.                         *)
(*                                                                         *)
(* Samples are integers.  An amplitude has decayed ("low", below 0.001) or *)
(* not.  cycles only matters up to the two rounds of layers.               *)
(***************************************************************************)
EXTENDS Totals

CONSTANTS
  HistoryLength, RecentLength,
  Duration,       \* DURATION, the layers and the crossings that each lasts
  Samples,        \* what an input may be
  BlockSize,      \* AUDIO_BLOCK_SAMPLES
  TenSeconds      \* ticks between two recomputes, 441000 in the code

Positions == 0 .. HistoryLength - 1
Layers == 0 .. Duration - 1
Idle == [active |-> FALSE, low |-> TRUE, duration |-> 0]

VARIABLES
  o,        \* the octaver: hist, hist_pos, cycles, positive, hist_sq, recent_hist_sq
  oscs,
  ticks,
  pc, k,    \* where setup is, and the index of its loop
  raced,    \* did update run while setup was not yet done, with no recompute since?
  early     \* was a layer restarted that had crossings left, after setup?

vars == <<o, oscs, ticks, pc, k, raced, early>>

\* Memory is zero before setup.
Init ==
  /\ o = [hist |-> [i \in Positions |-> 0], hist_pos |-> 0, cycles |-> 0,
          positive |-> FALSE, hist_sq |-> 0, recent_hist_sq |-> 0]
  /\ oscs = [i \in Layers |-> Idle] /\ ticks = 0
  /\ pc = "memory" /\ k = 0 /\ raced = FALSE /\ early = FALSE

Square(x) == x * x
\* hist_squared_sum, and the same over the last RecentLength elements
Sum(hist) == Total([n \in 1 .. HistoryLength |-> Square(hist[n - 1])], HistoryLength)
RecentSum(hist) ==
  Total([n \in 1 .. RecentLength |-> Square(hist[HistoryLength - n])], RecentLength)

----------------------------------------------------------------------------
(* setup *)

Goes(from, to) == pc = from /\ pc' = to
AudioMemory == Goes("memory", "hist") /\ UNCHANGED <<o, oscs, ticks, k, raced, early>>
ClearHist ==
  /\ pc = "hist" /\ o' = [o EXCEPT !.hist[k] = 0]
  /\ IF k < HistoryLength - 1 THEN k' = k + 1 /\ UNCHANGED pc ELSE k' = 0 /\ pc' = "fields"
  /\ UNCHANGED <<oscs, ticks, raced, early>>
ClearCycles == Goes("fields", "pos") /\ o' = [o EXCEPT !.cycles = 0]
                 /\ UNCHANGED <<oscs, ticks, k, raced, early>>
ClearPos == Goes("pos", "positive") /\ o' = [o EXCEPT !.hist_pos = 0]
              /\ UNCHANGED <<oscs, ticks, k, raced, early>>
SetPositive == Goes("positive", "sq") /\ o' = [o EXCEPT !.positive = TRUE]
                 /\ UNCHANGED <<oscs, ticks, k, raced, early>>
ClearSq == Goes("sq", "recent") /\ o' = [o EXCEPT !.hist_sq = 0]
             /\ UNCHANGED <<oscs, ticks, k, raced, early>>
ClearRecent == Goes("recent", "oscs") /\ o' = [o EXCEPT !.recent_hist_sq = 0]
                 /\ UNCHANGED <<oscs, ticks, k, raced, early>>
\* Mutant: setup relies on memory being zero for the oscillators.
ClearOscs_Fault == Goes("oscs", "loop") /\ k' = 0 /\ UNCHANGED <<o, oscs, ticks, raced, early>>
ClearOscs ==
  /\ pc = "oscs" /\ oscs' = [oscs EXCEPT ![k].active = FALSE]
  /\ IF k < Duration - 1 THEN k' = k + 1 /\ UNCHANGED pc ELSE k' = 0 /\ pc' = "loop"
  /\ UNCHANGED <<o, ticks, raced, early>>

Setup == AudioMemory \/ ClearHist \/ ClearCycles \/ ClearPos \/ SetPositive
           \/ ClearSq \/ ClearRecent \/ ClearOscs

----------------------------------------------------------------------------
(* update, on a state s = [o, oscs, ticks, early] *)

RecentPos(pos) == (pos - RecentLength + HistoryLength) % HistoryLength
SetHist(x, p) ==
  LET pos == p.hist_pos
  IN  [p EXCEPT !.hist_sq = @ + Square(x) - Square(p.hist[pos]),
                !.recent_hist_sq = @ + Square(x) - Square(p.hist[RecentPos(pos)]),
                !.hist[pos] = x, !.hist_pos = (pos + 1) % HistoryLength]

\* The recomputes, of which recent_hist_sq's is one position early.
Recompute(p, t) ==
  [p EXCEPT !.hist_sq = IF t = 0 THEN Sum(p.hist) ELSE @,
            !.recent_hist_sq = IF p.hist_pos = HistoryLength - 1
                               THEN RecentSum(p.hist) ELSE @]

\* init_oscs uses every second crossing, and a layer every Duration-th of those.
Layer(cycles) == (cycles \div 2) % Duration
OscInit == [active |-> TRUE, low |-> FALSE, duration |-> Duration]
InitOscs(s) ==
  LET l == Layer(s.o.cycles)
  IN  IF s.o.cycles % 2 # 0 THEN s
      ELSE [s EXCEPT !.oscs[l] = OscInit,
                     !.early = @ \/ (pc = "loop" /\ s.oscs[l].active /\ s.oscs[l].duration > 0)]

\* handle_cycle; whether a released oscillator's amplitude has decayed by now,
\* osc_next decided.
HandleCycle(os, decayed) ==
  [i \in Layers |->
     LET osc == os[i]
         left == IF osc.duration > 0 THEN osc.duration - 1 ELSE 0
     IN  IF ~osc.active THEN osc
         ELSE IF left < 1 /\ decayed THEN [osc EXCEPT !.duration = left, !.active = FALSE, !.low = TRUE]
         ELSE [osc EXCEPT !.duration = left]]

\* One crossing, whose period is in range or not
Crossing(s, inRange, decayed) ==
  LET t == IF inRange THEN InitOscs(s) ELSE s
  IN  [t EXCEPT !.oscs = HandleCycle(@, decayed),
                !.o.cycles = (@ + 1) % (2 * Duration), !.o.positive = FALSE]

UpdateSample(s, x, inRange, decayed) ==
  LET t == (s.ticks + 1) % TenSeconds
      r == [s EXCEPT !.o = Recompute(SetHist(x, @), t), !.ticks = t]
  IN  CASE s.o.positive /\ x < 0 -> Crossing(r, inRange, decayed)
        [] ~s.o.positive /\ x > 0 -> [r EXCEPT !.o.positive = TRUE]
        [] OTHER -> r

\* A block, which no step of setup interrupts
UpdateBlock(block, inRange, decayed) ==
  LET after[n \in 0 .. BlockSize] ==
        IF n = 0 THEN [o |-> o, oscs |-> oscs, ticks |-> ticks, early |-> early]
        ELSE UpdateSample(after[n - 1], block[n], inRange, decayed)
  IN  after[BlockSize]
Update ==
  /\ pc # "memory"
  /\ \E block \in [1 .. BlockSize -> Samples], inRange, decayed \in BOOLEAN :
       LET s == UpdateBlock(block, inRange, decayed)
       IN  /\ o' = s.o /\ oscs' = s.oscs /\ ticks' = s.ticks /\ early' = s.early
           /\ raced' = IF pc # "loop" THEN TRUE ELSE raced /\ s.ticks >= ticks + BlockSize
  /\ UNCHANGED <<pc, k>>

Next == Setup \/ Update
Spec == Init /\ [][Next]_vars
----------------------------------------------------------------------------
\* Once setup is done, hist_sq is the energy of the buffer, at the latest from
\* the first recompute on if update ran too early.
SumHealed == pc = "loop" /\ ~raced => o.hist_sq = Sum(o.hist)

\* From then on a layer is restarted only when the crossings of its last start
\* are over, although setup set cycles to 0 under oscillators that sounded.
RestartsReleased == ~early
=============================================================================
