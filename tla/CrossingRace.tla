---------------------------- MODULE CrossingRace ----------------------------
(* The pitch detection of zeros.c while a setting changes.  update, in the *)
(* audio thread, measures a period at each downward zero crossing and      *)
(* starts oscillators; init_octaver and init_gains, in the thread that     *)
(* polls the settings, write the fields it works on.  There is no lock.    *)
(* An action is one load or one store of a shared field; the threads see   *)
(* each other's stores in order.                                           *)
(*                                                                         *)
(* The sample history is the subject of HistoryRace and what becomes of a  *)
(* started oscillator that of Oscs.  All voices have one range of pitches. *)
(*                                                                         *)
(* An operator whose name ends in _Fault is the definition after it with a *)
(* plausible mistake in it; only the mutation runs use it.                 *)
EXTENDS Integers, Sequences

CONSTANTS
  V_RAW, V_RAWDIST,  (* the voices that are not processed                  *)
  Chain,             (* the others, as init_oscs tests for them            *)
  Plain,             (* the gains that init_gains gives to these           *)
  Unit,              (* times are in 1 / Unit of a sample                  *)
  RangeHigh,         (* a plausible period is above 14 samples             *)
  RangeLow,          (* and below 75 samples                               *)
  InitialPeriod,     (* 40 samples: rough_input_period after a reset       *)
  Far,               (* stands for all times beyond it, and for infinity   *)
  Wild               (* what adjustment may be if previous_sample is < 0   *)

Melodic == {Chain[i] : i \in 1 .. Len(Chain)}

Raw == {V_RAW, V_RAWDIST}

Voices == Raw \union Melodic

Fraction == -Unit .. 0

VARIABLES
  voice,       (* voice_iff.value                                          *)
  positive,    (* octaver.positive                                         *)
  previous,    (* the sign of octaver.previous_sample                      *)
  since,       (* octaver.samples_since_last_crossing                      *)
  period,      (* octaver.rough_input_period                               *)
  gain,        (* the voice whose gain was stored last, or Plain           *)
  ungain,      (* the same for ungain                                      *)
  pc,          (* where the audio thread is in update                      *)
  sample,      (* the sign of s                                            *)
  loaded,      (* the value of since it works on                           *)
  adjustment,
  test,        (* the voice init_oscs tests for, as an index of Chain      *)
  poller,      (* the field the poller stores next                         *)
  overlapped,  (* history: a reset overlapped this sample                  *)
  calm,        (* history: none overlapped the sample before               *)
  mixed        (* history: the last change came in the middle of a sample  *)

shared == <<voice, positive, previous, since, period, gain, ungain>>
audioVars == <<pc, sample, loaded, adjustment, test>>
vars == <<shared, audioVars, poller, overlapped, calm, mixed>>

Signs == {-1, 0, 1}

Bounded(time) == IF time > Far THEN Far ELSE IF time < -Far THEN -Far ELSE time

InRange(time) == RangeHigh < time /\ time < RangeLow

(* n / (p - n), for a negative n: how far back the crossing is between p   *)
(* and n if p is not negative, and any other number if it is; it is minus  *)
(* infinity if they are equal.                                             *)
Adjustments(p) == IF p < 0 THEN Wild ELSE Fraction

-----------------------------------------------------------------------------
(* The audio thread: update(s).                                            *)

Go(from, to) ==
  /\ pc = from
  /\ pc' = to
  /\ overlapped' = (overlapped \/ poller # "idle")
  /\ UNCHANGED <<poller, mixed>>

Goes(from, to) == Go(from, to) /\ UNCHANGED calm

(* voice_iff.value == V_RAW || voice_iff.value == V_RAWDIST                *)
Take(s) ==
  /\ pc = "idle"
  /\ voice # V_RAW
  /\ pc' = "rawdist"
  /\ sample' = s
  /\ overlapped' = (poller # "idle")
  /\ UNCHANGED <<shared, loaded, adjustment, test, poller, calm, mixed>>

TestRawdist ==
  /\ \/ voice = V_RAWDIST /\ Goes("rawdist", "idle")
     \/ voice # V_RAWDIST /\ Goes("rawdist", "count")
  /\ UNCHANGED <<shared, sample, loaded, adjustment, test>>

(* octaver.samples_since_last_crossing++                                   *)
LoadCount ==
  /\ Goes("count", "counted")
  /\ loaded' = since
  /\ UNCHANGED <<shared, sample, adjustment, test>>

StoreCount ==
  /\ Goes("counted", "positive")
  /\ since' = Bounded(loaded + Unit)
  /\ loaded' = 0
  /\ UNCHANGED <<voice, positive, previous, period, gain, ungain, sample,
                 adjustment, test>>

TestPositive ==
  /\ \/ positive /\ sample < 0 /\ Goes("positive", "ratio")
     \/ ~positive /\ sample > 0 /\ Goes("positive", "rise")
     \/ ~(IF positive THEN sample < 0 ELSE sample > 0) /\ Goes("positive", "last")
  /\ UNCHANGED <<shared, sample, loaded, adjustment, test>>

Rise ==
  /\ Goes("rise", "last")
  /\ positive' = TRUE
  /\ UNCHANGED <<voice, previous, since, period, gain, ungain, sample, loaded,
                 adjustment, test>>

(* last_positive = octaver.previous_sample, and the adjustment from it.    *)
LoadPrevious ==
  /\ Goes("ratio", "subtract")
  /\ adjustment' \in Adjustments(previous)
  /\ UNCHANGED <<shared, sample, loaded, test>>

(* octaver.samples_since_last_crossing -= adjustment                       *)
LoadSince ==
  /\ Goes("subtract", "subtracted")
  /\ loaded' = since
  /\ UNCHANGED <<shared, sample, adjustment, test>>

StoreSince ==
  /\ Goes("subtracted", "measure")
  /\ since' = Bounded(loaded - adjustment)
  /\ UNCHANGED <<voice, positive, previous, period, gain, ungain, sample, loaded,
                 adjustment, test>>

(* octaver.rough_input_period = octaver.samples_since_last_crossing        *)
LoadPeriod ==
  /\ Goes("measure", "measured")
  /\ loaded' = since
  /\ UNCHANGED <<shared, sample, adjustment, test>>

StorePeriod ==
  /\ Goes("measured", "high")
  /\ period' = loaded
  /\ loaded' = 0
  /\ UNCHANGED <<voice, positive, previous, since, gain, ungain, sample,
                 adjustment, test>>

TestHigh ==
  /\ Goes("high", IF period > RangeHigh THEN "low" ELSE "fall")
  /\ UNCHANGED <<shared, sample, loaded, adjustment, test>>

TestLow ==
  /\ \/ period < RangeLow /\ Goes("low", "voice") /\ test' = 1
     \/ period >= RangeLow /\ Goes("low", "fall") /\ UNCHANGED test
  /\ UNCHANGED <<shared, sample, loaded, adjustment>>

(* init_oscs: each test loads voice_iff.value again.                       *)
TestVoice ==
  /\ pc = "voice"
  /\ \/ voice = Chain[test] /\ Goes("voice", "gain") /\ UNCHANGED test
     \/ /\ voice # Chain[test] /\ test < Len(Chain)
        /\ Goes("voice", "voice") /\ test' = test + 1
     \/ /\ voice # Chain[test] /\ test = Len(Chain)
        /\ Goes("voice", "fall") /\ test' = 0
  /\ UNCHANGED <<shared, sample, loaded, adjustment>>

StartGain ==
  /\ Goes("gain", "ungain")
  /\ gain' = Chain[test]
  /\ UNCHANGED <<voice, positive, previous, since, period, ungain, sample, loaded,
                 adjustment, test>>

StartUngain ==
  /\ Goes("ungain", "start")
  /\ ungain' = Chain[test]
  /\ UNCHANGED <<voice, positive, previous, since, period, gain, sample, loaded,
                 adjustment, test>>

(* osc_init: the oscillators begin -adjustment back in the history.        *)
Start ==
  /\ Goes("start", "fall")
  /\ test' = 0
  /\ UNCHANGED <<shared, sample, loaded, adjustment>>

Fallen_Fault == positive

Fallen == FALSE

(* octaver.positive = FALSE, after cycles++ and handle_cycle.              *)
Fall ==
  /\ Goes("fall", "since")
  /\ positive' = Fallen
  /\ UNCHANGED <<voice, previous, since, period, gain, ungain, sample, loaded,
                 adjustment, test>>

StoreRest ==
  /\ Goes("since", "last")
  /\ since' = -adjustment
  /\ adjustment' = 0
  /\ UNCHANGED <<voice, positive, previous, period, gain, ungain, sample, loaded,
                 test>>

(* octaver.previous_sample = s                                             *)
StorePrevious ==
  /\ Go("last", "idle")
  /\ previous' = sample
  /\ sample' = 0
  /\ calm' = ~overlapped'
  /\ UNCHANGED <<voice, positive, since, period, gain, ungain, loaded, adjustment,
                 test>>

-----------------------------------------------------------------------------
(* The poller: update_iff.                                                 *)

Store(from, to) ==
  /\ poller = from
  /\ poller' = to
  /\ overlapped' = (overlapped \/ pc # "idle")
  /\ UNCHANGED <<audioVars, calm>>

Stores(from, to) == Store(from, to) /\ UNCHANGED mixed

(* A setting has a new value; v is the old voice if it is not the voice.   *)
Change(v) ==
  /\ Store("idle", "since")
  /\ voice' = v
  /\ mixed' = (pc # "idle")
  /\ UNCHANGED <<positive, previous, since, period, gain, ungain>>

(* init_octaver.                                                           *)
ClearSince ==
  /\ Stores("since", "positive")
  /\ since' = 0
  /\ UNCHANGED <<voice, positive, previous, period, gain, ungain>>

SetPositive ==
  /\ Stores("positive", "previous")
  /\ positive' = TRUE
  /\ UNCHANGED <<voice, previous, since, period, gain, ungain>>

ClearPrevious ==
  /\ Stores("previous", "period")
  /\ previous' = 0
  /\ UNCHANGED <<voice, positive, since, period, gain, ungain>>

SetPeriod ==
  /\ Stores("period", "gain")
  /\ period' = InitialPeriod
  /\ UNCHANGED <<voice, positive, previous, since, gain, ungain>>

InitGains_Fault(v) == IF v = V_RAW THEN v ELSE Plain

(* init_gains.                                                             *)
InitGains(v) == IF v \in Raw THEN v ELSE Plain

SetGain ==
  /\ Stores("gain", "ungain")
  /\ gain' = InitGains(voice)
  /\ UNCHANGED <<voice, positive, previous, since, period, ungain>>

SetUngain ==
  /\ Stores("ungain", "idle")
  /\ ungain' = InitGains(voice)
  /\ UNCHANGED <<voice, positive, previous, since, period, gain>>

-----------------------------------------------------------------------------
(* After the first setting that differed from the defaults of main, which  *)
(* is when gain and ungain are first stored.                               *)
Init ==
  /\ voice \in Melodic /\ positive = TRUE /\ previous = 0 /\ since = 0
  /\ period = InitialPeriod /\ gain = Plain /\ ungain = Plain
  /\ pc = "idle" /\ sample = 0 /\ loaded = 0 /\ adjustment = 0 /\ test = 0
  /\ poller = "idle" /\ overlapped = FALSE /\ calm = TRUE /\ mixed = FALSE

Audio ==
  \/ \E s \in Signs : Take(s)
  \/ TestRawdist \/ LoadCount \/ StoreCount \/ TestPositive \/ Rise
  \/ LoadPrevious \/ LoadSince \/ StoreSince \/ LoadPeriod \/ StorePeriod
  \/ TestHigh \/ TestLow \/ TestVoice \/ StartGain \/ StartUngain \/ Start
  \/ Fall \/ StoreRest \/ StorePrevious

Poller ==
  \/ \E v \in Voices : Change(v)
  \/ ClearSince \/ SetPositive \/ ClearPrevious \/ SetPeriod \/ SetGain
  \/ SetUngain

Next == Audio \/ Poller

Spec == Init /\ [][Next]_vars

-----------------------------------------------------------------------------
(* Properties.                                                             *)

AudioPlaces == {"idle", "rawdist", "count", "counted", "positive", "rise",
                "ratio", "subtract", "subtracted", "measure", "measured",
                "high", "low", "voice", "gain", "ungain", "start", "fall",
                "since", "last"}

PollerPlaces == {"idle", "since", "positive", "previous", "period", "gain",
                 "ungain"}

Times == -Far .. Far

TypeOK ==
  /\ voice \in Voices /\ positive \in BOOLEAN /\ previous \in Signs
  /\ since \in Times /\ period \in Times
  /\ gain \in Voices \union {Plain} /\ ungain \in Voices \union {Plain}
  /\ pc \in AudioPlaces /\ sample \in Signs /\ loaded \in Times
  /\ adjustment \in Fraction \union Wild /\ test \in 0 .. Len(Chain)
  /\ poller \in PollerPlaces
  /\ overlapped \in BOOLEAN /\ calm \in BOOLEAN /\ mixed \in BOOLEAN

(* Oscillators start between the last two samples, as Oscs and the history *)
(* they read assume, whatever a reset did to an earlier crossing: one      *)
(* whole sample without a reset is enough to recover from it.              *)
CleanStart ==
  pc = "start" /\ calm /\ ~overlapped => adjustment \in Fraction

(* "p is always positive and n is always negative" (zeros.c:688): where    *)
(* the crossing is interpolated, the sample before is at least not         *)
(* negative.                                                               *)
LastPositive == pc = "ratio" => previous >= 0

(* The voices that do not start oscillators keep what init_gains stores;   *)
(* the others have that or what a crossing of theirs stored.               *)
Fitting(v) == IF v \in Raw THEN {v} ELSE {v, Plain}

(* Between samples both gains are the current voice's, unless the last     *)
(* change came while a sample was being processed.                         *)
GainsFit ==
  pc = "idle" /\ poller = "idle" /\ ~mixed =>
    {gain, ungain} \subseteq Fitting(voice)

=============================================================================
