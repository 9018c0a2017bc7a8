---------------------------- MODULE HistoryParts -----------------------------
(* The sample history as one thread sees it (History) beside its race with *)
(* the poller (HistoryRace) and that of the pitch detection (CrossingRace).*)
(* They share no state: the races have parameters and variables of their   *)
(* own.                                                                    *)
EXTENDS History, Sequences

CONSTANTS
  RaceLength, RacePeriod, RaceSamples, RaceSquare, RaceThreshold,
  V_RAW, V_RAWDIST, Chain, Plain, Unit, RangeHigh, RangeLow, InitialPeriod, Far, Wild

VARIABLES
  buffer, position, total, clock, pc, sample, loaded, factor, slot, pending, raced,
  voice, positive, previous, since, period, gain, ungain, step, sign, elapsed,
  adjustment, test, poller, overlapped, calm, mixed

Race == INSTANCE HistoryRace WITH
          HISTORY_LENGTH <- RaceLength, RecomputePeriod <- RacePeriod,
          Samples <- RaceSamples, MaxSquare <- RaceSquare,
          GateThreshold <- RaceThreshold,
          hist <- buffer, hist_pos <- position, hist_sq <- total, ticks <- clock,
          sum <- loaded

Crossing == INSTANCE CrossingRace WITH pc <- step, sample <- sign, loaded <- elapsed

race == <<buffer, position, total, clock, pc, sample, loaded, factor, slot, pending, raced>>
crossing == <<voice, positive, previous, since, period, gain, ungain, step, sign, elapsed,
              adjustment, test, poller, overlapped, calm, mixed>>

ASSUME RaceAssumption ==
  /\ RaceLength \in Nat \ {0} /\ RacePeriod \in Nat \ {0}
  /\ RaceSamples \subseteq Int /\ 0 \in RaceSamples
  /\ RaceSquare \in Nat /\ \A s \in RaceSamples : Sq(s) \in 0 .. RaceSquare

ASSUME CrossingAssumption ==
  /\ V_RAW # V_RAWDIST /\ Crossing!Raw \intersect Crossing!Melodic = {}
  /\ Plain \notin Crossing!Voices
  /\ Len(Chain) \in Nat \ {0}
  /\ Unit \in Nat \ {0} /\ RangeHigh \in Nat /\ RangeLow \in Nat
  /\ InitialPeriod \in Nat /\ RangeHigh < InitialPeriod
  /\ InitialPeriod < RangeLow /\ Unit < RangeLow /\ RangeLow <= Far /\ Far \in Nat
  /\ Wild \subseteq (-Far .. Far) \ Crossing!Fraction

-----------------------------------------------------------------------------
(* HistoryRace: the sum is exact unless a reset overlapped a sample, and   *)
(* always within what the samples since the last recompute can have added. *)
RaceSound == Race!ExactUnlessRaced /\ Race!SumBounded

(* CrossingRace: an oscillator starts between the last two samples, once   *)
(* one sample was left alone by the resets ...                             *)
CleanStart == Crossing!CleanStart

(* ... and between samples both gains are those of the voice, unless it    *)
(* changed while a sample was being processed.                             *)
GainsFit == Crossing!GainsFit
=============================================================================
