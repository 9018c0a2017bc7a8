---------------------------- MODULE SlidingWindow ----------------------------
(* What the octaver's history promises to its readers: the last Length     *)
(* samples, newest first.  The oscillators read it by age (get_hist), the  *)
(* gate reads its energy.                                                  *)
EXTENDS Naturals

CONSTANTS
  Length,   (* HISTORY_LENGTH *)
  Samples   (* the values a sample may take *)

VARIABLE window  (* window[age] is the sample that is age pushes old, from 1 *)

Init == window = [age \in 1 .. Length |-> 0]

(* A new sample pushes the oldest one out.                                 *)
Push(s) ==
  window' = [age \in 1 .. Length |-> IF age = 1 THEN s ELSE window[age - 1]]

(* init_octaver forgets everything.                                        *)
Clear == window' = [age \in 1 .. Length |-> 0]

Next == Clear \/ \E s \in Samples : Push(s)

Spec == Init /\ [][Next]_window

=============================================================================
