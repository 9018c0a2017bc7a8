------------------------------- MODULE Totals -------------------------------
(* Sums over the elements of a function on 1 .. m, for the loops of the    *)
(* program that add up a buffer.                                           *)
EXTENDS Integers

(* term[1] + ... + term[len].                                              *)
Total(term, len) ==
  LET total[n \in 0 .. len] == IF n = 0 THEN 0 ELSE total[n - 1] + term[n]
  IN  total[len]

=============================================================================
