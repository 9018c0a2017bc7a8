------------------------------- MODULE History -------------------------------
(* The octaver's sample history in zeros.c and the noise gate that reads   *)
(* it: a ring buffer with two running sums of squares, over the whole of   *)
(* it and over its newest RECENT_LENGTH samples, and the two recomputes    *)
(* that are to undo the rounding errors the running sums pick up.          *)
(*                                                                         *)
(* An operator whose name ends in _Fault is the definition after it with a *)
(* plausible mistake in it; only the mutation runs use it.                 *)
(*                                                                         *)
(* The thread that processes audio is alone here: the poller's             *)
(* init_octaver is one step.  HistoryRace takes it apart.                  *)
EXTENDS Totals

CONSTANTS
  HISTORY_LENGTH,      (* 8192                                             *)
  RECENT_LENGTH,       (* 256                                              *)
  RecomputePeriod,     (* 441000 samples, ten seconds                      *)
  Samples,             (* the values of a sample                           *)
  MaxSquare,           (* a bound on their squares                         *)
  Rounding,            (* what one update of a running sum may be off by   *)
  MaxRounding,         (* a bound on that                                  *)
  GateThreshold,       (* HISTORY_LENGTH * GATE_SQUARED * gate_squared     *)
  RecentThreshold      (* RECENT_LENGTH * RECENT_GATE_SQUARED * gate_squared *)

Sq(x) == x * x

ASSUME LengthsAssumption ==
  /\ HISTORY_LENGTH \in Nat /\ RECENT_LENGTH \in Nat \ {0}
  /\ RECENT_LENGTH < HISTORY_LENGTH
  /\ RecomputePeriod \in Nat \ {0}

ASSUME SamplesAssumption ==
  /\ Samples \subseteq Int /\ 0 \in Samples
  /\ MaxSquare \in Nat /\ \A s \in Samples : Sq(s) \in 0 .. MaxSquare

ASSUME RoundingAssumption ==
  /\ MaxRounding \in Nat /\ Rounding \subseteq -MaxRounding .. MaxRounding
  /\ 0 \in Rounding

ASSUME ThresholdsAssumption ==
  GateThreshold \in Nat \ {0} /\ RecentThreshold \in Nat \ {0}

VARIABLES
  hist,            (* octaver.hist                                         *)
  hist_pos,        (* octaver.hist_pos                                     *)
  hist_sq,         (* octaver.hist_sq                                      *)
  recent_hist_sq,  (* octaver.recent_hist_sq                               *)
  ticks            (* ticks % RecomputePeriod                              *)

vars == <<hist, hist_pos, hist_sq, recent_hist_sq, ticks>>

Positions == 0 .. HISTORY_LENGTH - 1

-----------------------------------------------------------------------------
(* Sums of squares.                                                        *)

(* hist_squared_sum, over a buffer h.                                      *)
SquaredSum(h) ==
  Total([n \in 1 .. HISTORY_LENGTH |-> Sq(h[n - 1])], HISTORY_LENGTH)

(* recent_hist_squared_sum: the buffer's last RECENT_LENGTH elements.      *)
RecentSquaredSum(h) ==
  Total([n \in 1 .. RECENT_LENGTH |-> Sq(h[HISTORY_LENGTH - n])], RECENT_LENGTH)

GetHist_Fault(pos) ==
  hist[(HISTORY_LENGTH + hist_pos - pos + 1) % HISTORY_LENGTH]

(* get_hist.                                                               *)
GetHist(pos) == hist[(HISTORY_LENGTH + hist_pos - pos) % HISTORY_LENGTH]

(* What recent_hist_sq stands for: the energy of the newest samples.       *)
RecentEnergy ==
  Total([age \in 1 .. HISTORY_LENGTH |-> Sq(GetHist(age))], RECENT_LENGTH)

(* Float arithmetic: adding and subtracting zero, or summing zeros, is     *)
(* exact; anything else may round.                                         *)
Errors(exact) == IF exact THEN {0} ELSE Rounding

-----------------------------------------------------------------------------
(* set_hist and the recomputes that follow it in update.                   *)

RecentPos_Fault == hist_pos

RecentPos ==
  (hist_pos - RECENT_LENGTH + HISTORY_LENGTH) % HISTORY_LENGTH

Running_LeakFault(sum, s, old, error) == sum + Sq(s) + error

Running_SwapFault(sum, s, old, error) == sum + Sq(old) - Sq(s) + error

Running(sum, s, old, error) == sum + Sq(s) - Sq(old) + error

Silent(h) == \A i \in Positions : h[i] = 0

Following(p) == (p + 1) % HISTORY_LENGTH

TenSeconds_Fault == FALSE

TenSeconds == ticks + 1 = RecomputePeriod

(* A sample of a voice that goes through the octaver: every sample but     *)
(* those of V_RAW and V_RAWDIST, which leave all of this alone.            *)
Update(s) ==
  LET old == hist[hist_pos]
      recent_old == hist[RecentPos]
  IN  /\ hist' = [hist EXCEPT ![hist_pos] = s]
      /\ hist_pos' = Following(hist_pos)
      /\ ticks' = (ticks + 1) % RecomputePeriod
      /\ IF TenSeconds
           THEN \E error \in Errors(Silent(hist')) :
                  hist_sq' = SquaredSum(hist') + error
           ELSE \E error \in Errors(s = 0 /\ old = 0) :
                  hist_sq' = Running(hist_sq, s, old, error)
      /\ IF hist_pos' = HISTORY_LENGTH - 1
           THEN \E error \in Errors(Silent(hist')) :
                  recent_hist_sq' = RecentSquaredSum(hist') + error
           ELSE \E error \in Errors(s = 0 /\ recent_old = 0) :
                  recent_hist_sq' = Running(recent_hist_sq, s, recent_old, error)

(* init_octaver, when a setting changed.  ticks is not the octaver's.      *)
Reset ==
  /\ hist' = [i \in Positions |-> 0]
  /\ hist_pos' = 0
  /\ hist_sq' = 0
  /\ recent_hist_sq' = 0
  /\ UNCHANGED ticks

Init ==
  /\ hist = [i \in Positions |-> 0]
  /\ hist_pos = 0 /\ hist_sq = 0 /\ recent_hist_sq = 0 /\ ticks = 0

Next == Reset \/ \E s \in Samples : Update(s)

Spec == Init /\ [][Next]_vars

(* The sound card keeps delivering samples.                                *)
FairSpec == Spec /\ WF_vars(\E s \in Samples : Update(s))

-----------------------------------------------------------------------------
(* The gate: update's last condition.                                      *)

Quiet == hist_sq < GateThreshold

RecentlyQuiet == recent_hist_sq < RecentThreshold

GateClosed == Quiet /\ RecentlyQuiet

-----------------------------------------------------------------------------
(* Properties.                                                             *)

TypeOK ==
  /\ hist \in [Positions -> Samples]
  /\ hist_pos \in Positions
  /\ hist_sq \in Int /\ recent_hist_sq \in Int
  /\ ticks \in 0 .. RecomputePeriod - 1

Distance(a, b) == IF a < b THEN b - a ELSE a - b

(* How far hist_sq and recent_hist_sq can be off.                          *)
MaxDrift == RecomputePeriod * MaxRounding

MaxRecentError == MaxSquare + (HISTORY_LENGTH + 1) * MaxRounding

(* hist_sq stays as close to the energy of the buffer as the roundings     *)
(* since the last recompute allow, whatever was overwritten in between.    *)
DriftBounded ==
  Distance(hist_sq, SquaredSum(hist)) <= (ticks + 1) * MaxRounding

(* "To avoid drift" (zeros.c:648) taken at its word for the short sum:     *)
(* when no operation rounds, it is the energy of the newest samples.       *)
RecentExact == Rounding = {0} => recent_hist_sq = RecentEnergy

(* recent_hist_sq is off by the roundings since its recompute and by at    *)
(* most one sample's square: the recompute runs one position early.        *)
RecentBounded ==
  Distance(recent_hist_sq, RecentEnergy) <= MaxRecentError

(* The gate's second condition never decides: the newest samples are part  *)
(* of the buffer, so they cannot be loud while the whole of it is quiet,   *)
(* as long as the thresholds are further apart than the errors of the sums.*)
RecentNeverDecides ==
  GateThreshold + MaxDrift + MaxRecentError <= RecentThreshold
    => (Quiet => RecentlyQuiet)

(* A gate that is closed opens on the first sample that alone exceeds the  *)
(* threshold by more than hist_sq can be off.                              *)
OnsetOpensGate ==
  [][\A s \in Samples :
       /\ Sq(s) >= GateThreshold + MaxDrift
       /\ Update(s)
       => ~Quiet']_vars

(* However far the sums have drifted, silence closes the gate, at the      *)
(* latest after the next recompute of each.                                *)
SilenceClosesGate ==
  <>[][Update(0)]_vars => <>[]GateClosed

(* What the readers of the buffer rely on.                                 *)
Window == INSTANCE SlidingWindow
            WITH Length <- HISTORY_LENGTH,
                 window <- [age \in 1 .. HISTORY_LENGTH |-> GetHist(age)]

ImplementsWindow == Window!Spec

=============================================================================
