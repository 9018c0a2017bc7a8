------------------------------- MODULE MCOscs -------------------------------
(* Three voices on two slots: "reed" starts one slow oscillator, "flute"   *)
(* two of different speeds, "raw" is not processed.                        *)
EXTENDS Oscs, TLC

MCVoices == {"reed", "flute", "raw"}

MCRecipe == [reed  |-> 0 :> 1 @@ 1 :> 0,
             flute |-> 0 :> 2 @@ 1 :> 1,
             raw   |-> 0 :> 0 @@ 1 :> 0]

MCRangeHigh == [v \in MCVoices |-> 3]

MCRangeLow == [v \in MCVoices |-> 7]

MCAttack == 0 :> 1 @@ 1 :> 2 @@ 2 :> 2

=============================================================================
