------------------------------ MODULE MCConfig ------------------------------
(* Config on three digits.  The defaults of zeros.c differ from each other *)
(* and from the keypad's, as 6, 5, 1 and 5 do.                             *)
EXTENDS Config

MCSynthDefault == [voice |-> 2, volume |-> 1, gate |-> 1]

(* Fewer initial file systems: the repository's (every voice configured)   *)
(* and a fresh one, where only the current voice's file exists and         *)
(* current-gate may be missing.                                            *)
MCInit ==
  /\ Init
  /\ current["gate"] \in {1, Missing}
  /\ \/ \A v \in Digits : configured[v] = current["volume"]
     \/ \A v \in Digits \ {current["voice"]} : configured[v] = Missing

MCSpec == MCInit /\ [][Next]_vars

MCFairSpec == MCSpec /\ Fairness

=============================================================================
