----------------------------- MODULE DelayTaps ------------------------------
(* Where delay_update of zeros.c reads its echoes.  The place of an echo   *)
(* is computed in float, a type whose neighbours are 4 apart at the end of *)
(* a fifteen-minute buffer.                                                *)
(*                                                                         *)
(* Numbers are counted in 1 / Unit, the finest fraction of a sample the    *)
(* model tells apart.                                                      *)
(*                                                                         *)
(* An operator whose name ends in _Fault is the definition after it with a *)
(* plausible mistake in it; only the mutation runs use it.                 *)
EXTENDS Integers

CONSTANTS
  DELAY_HISTORY_LENGTH,  (* 39690000, fifteen minutes                      *)
  delay_repeats,         (* 3                                              *)
  Unit,
  Delta,                 (* repeat_delta_samples, in 1 / Unit              *)
  Significand,           (* 2^24: the significands of a float              *)
  Ulps,                  (* the distances of neighbours, in 1 / Unit: the  *)
  MaxUlp                 (* powers of 2 up to that at the buffer's length  *)

Positions == 0 .. DELAY_HISTORY_LENGTH - 1

Repeats == 1 .. delay_repeats

ASSUME DelayAssumption ==
  /\ DELAY_HISTORY_LENGTH \in Nat /\ DELAY_HISTORY_LENGTH > 1
  /\ delay_repeats \in Nat
  /\ Unit \in Nat \ {0} /\ Delta \in Nat

(* Floats reach to the end of the buffer, and its length is one.           *)
ASSUME FloatAssumption ==
  /\ Significand \in Nat
  /\ Ulps \subseteq 1 .. MaxUlp /\ MaxUlp \in Ulps
  /\ (DELAY_HISTORY_LENGTH * Unit) \div MaxUlp < Significand
  /\ \A u \in Ulps : (DELAY_HISTORY_LENGTH * Unit) % u = 0

VARIABLE delay_write_pos  (* modulo DELAY_HISTORY_LENGTH, as it is used    *)

-----------------------------------------------------------------------------
(* Float arithmetic: the exact result rounded to the nearest float, to the *)
(* even one of two that are equally near.                                  *)

Ulp(x) ==
  CHOOSE u \in Ulps : /\ x \div u < Significand
                      /\ \A v \in Ulps : x \div v < Significand => u <= v

RoundToMultiple(x, u) ==
  LET over == x % u
      up == 2 * over > u \/ (2 * over = u /\ (x \div u) % 2 = 1)
  IN  IF up THEN x - over + u ELSE x - over

Float(x) ==
  IF x < 0 THEN -RoundToMultiple(-x, Ulp(-x)) ELSE RoundToMultiple(x, Ulp(x))

-----------------------------------------------------------------------------
(* delay_update.                                                           *)

Wrapped(x) == IF x < 0 THEN Float(x + DELAY_HISTORY_LENGTH * Unit) ELSE x

RepeatPos_ZeroBasedFault(repeat) ==
  Wrapped(Float(Float(delay_write_pos * Unit) - Float(Delta * (repeat - 1))))

(* repeat_pos.                                                             *)
RepeatPos(repeat) ==
  Wrapped(Float(Float(delay_write_pos * Unit) - Float(Delta * repeat)))

(* repeat_A_pos and repeat_B_pos: the elements that are read.              *)
A(repeat) == RepeatPos(repeat) \div Unit

B(repeat) == (A(repeat) + 1) % DELAY_HISTORY_LENGTH

Advance == delay_write_pos' = (delay_write_pos + 1) % DELAY_HISTORY_LENGTH

TapsInit == delay_write_pos = 0

TapsSpec == TapsInit /\ [][Advance]_delay_write_pos

-----------------------------------------------------------------------------
(* "We added one to repeat_A_pos above, so it could be past the end of     *)
(* delay_history." (zeros.c:774) is why the code wraps repeat_B_pos, and   *)
(* only that: repeat_A_pos itself is taken to be inside.                   *)
AInside == \A repeat \in Repeats : A(repeat) \in Positions

=============================================================================
