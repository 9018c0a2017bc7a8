-------------------------------- MODULE Parts --------------------------------
(* What runs beside the pitch detection and the oscillators of zeros.c:    *)
(* the echo of the second channel (DelayLine), the sound card (Stream),    *)
(* the keys of kbd.py (Keypad), the synthesizer in a web page (Web) and    *)
(* the one on a Teensy (Teensy).  They share no state: each has the        *)
(* parameters and variables here that the first two do not name.           *)
EXTENDS DelayLine, Stream

CONSTANTS
  Keys,
  Configs, Default, MaxLevel, Ramp, MaxMessages,
  HistoryLength, RecentLength, Duration, Samples, BlockSize, TenSeconds

VARIABLES
  digits_read, digit_note_to_send, plus_minus_mode, typed, sent,
  page, sliders, running, connected, toNode, toPage, worklet, config,
  gated, smoothed_amp, onset_ramp, pitch, level,
  octaver, layers, ticks, place, index, raced, early

Kbd == INSTANCE Keypad

Html == INSTANCE Web

Ino == INSTANCE Teensy WITH o <- octaver, oscs <- layers, pc <- place, k <- index

line == <<delay_write_pos, delay_history, taps>>
keypad == <<digits_read, digit_note_to_send, plus_minus_mode, typed, sent>>
web == <<page, sliders, running, connected, toNode, toPage, worklet, config,
         gated, smoothed_amp, onset_ramp, pitch, level>>
teensy == <<octaver, layers, ticks, place, index, raced, early>>

(* A digit key has the value of its digit.  None is no note.               *)
ASSUME KeypadAssumption ==
  \A k \in Keys :
    /\ k.kind = "digit" => k.value \in 0 .. 9
    /\ k.kind = "announce" => k.value # Kbd!None

ASSUME WebAssumption == MaxLevel \in Nat /\ Ramp \in Nat /\ Default \in Configs

(* Samples are integers here.                                              *)
ASSUME TeensyAssumption ==
  /\ HistoryLength \in Nat \ {0} /\ RecentLength \in 1 .. HistoryLength
  /\ Duration \in Nat \ {0} /\ Samples \subseteq Int
  /\ BlockSize \in Nat /\ TenSeconds \in Nat \ {0}

-----------------------------------------------------------------------------
(* Keypad: a number is sent as it was typed.                               *)
NumbersAsTyped == Kbd!NumbersAsTyped
(* Web: the synth plays what the page shows.                               *)
PageAndNodeAgree == Html!ConfigsAgree /\ Html!MuteTells
(* Web: a note begins softly.                                              *)
GentleOnset == Html!GentleOnset
(* Teensy: the interrupts during setup leave no lasting trace.             *)
SetupHeals == Ino!SumHealed /\ Ino!RestartsReleased
=============================================================================
