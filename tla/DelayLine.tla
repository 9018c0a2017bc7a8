----------------------------- MODULE DelayLine ------------------------------
(* The echo of zeros.c's second channel: delay_update writes every sample  *)
(* into a ring buffer and mixes, for each repeat, two neighbours of a      *)
(* sample that is repeat * Delta old.                                      *)
(*                                                                         *)
(* A sample's value does not matter here.  What the echo promises is its   *)
(* age, so delay_history holds that: how many samples ago an element was   *)
(* written.                                                                *)
EXTENDS DelayTaps

CONSTANT Never  (* an element that still holds the zero it started with    *)

ASSUME NeverAssumption == Never \notin Int

(* Four roundings of half a unit in the last place: how far float is off.  *)
Error == 2 * MaxUlp

(* The first repeat is later than the rounding errors, and the last one    *)
(* fits into the buffer with them.                                         *)
ASSUME RepeatsAssumption ==
  /\ Delta > Error + 2 * Unit
  /\ Delta * delay_repeats + Error + 2 * Unit <= DELAY_HISTORY_LENGTH * Unit

VARIABLES
  delay_history,  (* the age of each element                               *)
  taps            (* the elements the last call read, per repeat           *)

delayVars == <<delay_write_pos, delay_history, taps>>

-----------------------------------------------------------------------------
(* The new sample is 0 old, every other one ages by one.                   *)
Stored(history) ==
  [i \in Positions |->
     IF i = delay_write_pos THEN 0
     ELSE IF history[i] = Never THEN Never
     ELSE history[i] + 1]

(* delay_update: write, read, advance.                                     *)
Update ==
  /\ delay_history' = Stored(delay_history)
  /\ taps' = [repeat \in Repeats |-> [a |-> A(repeat), b |-> B(repeat)]]
  /\ Advance

LineInit ==
  /\ TapsInit
  /\ delay_history = [i \in Positions |-> Never]
  /\ taps = [repeat \in Repeats |-> [a |-> 0, b |-> 0]]

LineSpec == LineInit /\ [][Update]_delayVars

-----------------------------------------------------------------------------
(* Properties.                                                             *)

(* An index is at most one past the end, and that only as repeat_A_pos.    *)
LineTypeOK ==
  /\ delay_write_pos \in Positions
  /\ delay_history \in [Positions -> Positions \union {Never}]
  /\ taps \in [Repeats -> [a : 0 .. DELAY_HISTORY_LENGTH, b : Positions]]

(* An age within float's error of a repeat, and within one sample for the  *)
(* truncation to an index.                                                 *)
NotLater(age, repeat) == age * Unit <= Delta * repeat + Error + Unit

NotEarlier(age, repeat) == Delta * repeat - Error - Unit <= age * Unit

(* The echo is as late as it should be: before and after the buffer wraps, *)
(* both elements that are mixed were written repeat * Delta ago, or        *)
(* nothing was written that long ago.                                      *)
EchoDelayed ==
  \A repeat \in Repeats :
    \A i \in {taps[repeat].a, taps[repeat].b} \intersect Positions :
      IF delay_history[i] = Never
        THEN \A j \in Positions :
               delay_history[j] # Never => NotLater(delay_history[j], repeat)
        ELSE /\ NotLater(delay_history[i], repeat)
             /\ NotEarlier(delay_history[i], repeat)

=============================================================================
