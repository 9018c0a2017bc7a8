---------------------------- MODULE HistoryRace -----------------------------
(* The sample history of zeros.c, which two threads write without a lock:  *)
(* set_hist and the recompute in the audio thread, init_octaver in the     *)
(* thread that polls the settings.  An action is one load or one store of  *)
(* octaver's fields; hist_sq += s*s is a load and a store.                 *)
(*                                                                         *)
(* The stores of init_octaver may arrive in any order, as on the ARM       *)
(* processors the README of zeros.c is about; the audio thread sees its    *)
(* own in order.  Arithmetic is exact, History has the rounding;           *)
(* recent_hist_sq is left out, it is updated in the same way as hist_sq.   *)
(*                                                                         *)
(* An operator whose name ends in _Fault is the definition after it with a *)
(* plausible mistake in it; only the mutation runs use it.                 *)
EXTENDS Totals

CONSTANTS
  HISTORY_LENGTH,   (* 8192                                                *)
  RecomputePeriod,  (* 441000 samples, ten seconds                         *)
  Samples,          (* the values of a sample                              *)
  MaxSquare,        (* a bound on their squares                            *)
  GateThreshold     (* HISTORY_LENGTH * GATE_SQUARED * gate_squared        *)

Sq(x) == x * x

VARIABLES
  hist,      (* octaver.hist                                               *)
  hist_pos,  (* octaver.hist_pos                                           *)
  hist_sq,   (* octaver.hist_sq                                            *)
  ticks,     (* ticks % RecomputePeriod, the audio thread's own            *)
  pc,        (* where the audio thread is in update                        *)
  sample,    (* s                                                          *)
  sum,       (* the value of hist_sq it works on, or the recompute's s     *)
  factor,    (* the first factor of octaver.hist[..] * octaver.hist[..]    *)
  slot,      (* the index it has loaded, or the recompute's i              *)
  pending,   (* the fields init_octaver has yet to clear                   *)
  raced      (* history: the threads overlapped, and nothing has cleaned   *)
             (* up after that since                                        *)

shared == <<hist, hist_pos, hist_sq>>
audioVars == <<ticks, pc, sample, sum, factor, slot>>
vars == <<shared, audioVars, pending, raced>>

Positions == 0 .. HISTORY_LENGTH - 1

Element(i) == <<"hist", i>>

Fields_Fault == {Element(i) : i \in Positions} \union {<<"hist_pos", 0>>}

(* What init_octaver clears, of the fields that matter here.               *)
Fields ==
  {Element(i) : i \in Positions} \union {<<"hist_pos", 0>>, <<"hist_sq", 0>>}

SquaredSum(h) ==
  Total([n \in 1 .. HISTORY_LENGTH |-> Sq(h[n - 1])], HISTORY_LENGTH)

Following(p) == (p + 1) % HISTORY_LENGTH

TenSeconds == ticks + 1 = RecomputePeriod

-----------------------------------------------------------------------------
(* The audio thread.                                                       *)

Go(from, to) ==
  /\ pc = from
  /\ pc' = to
  /\ raced' = (raced \/ pending # {})
  /\ UNCHANGED pending

(* octaver.hist_sq += (s*s)                                                *)
Take(s) ==
  /\ Go("idle", "add")
  /\ sample' = s
  /\ sum' = hist_sq
  /\ UNCHANGED <<shared, ticks, factor, slot>>

Add ==
  /\ Go("add", "load")
  /\ hist_sq' = sum + Sq(sample)
  /\ UNCHANGED <<hist, hist_pos, ticks, sample, sum, factor, slot>>

(* octaver.hist_sq -= (octaver.hist[octaver.hist_pos] *                    *)
(*                     octaver.hist[octaver.hist_pos])                     *)
Load ==
  /\ Go("load", "first")
  /\ sum' = hist_sq
  /\ UNCHANGED <<shared, ticks, sample, factor, slot>>

LoadFirst ==
  /\ Go("first", "second")
  /\ factor' = hist[hist_pos]
  /\ UNCHANGED <<shared, ticks, sample, sum, slot>>

LoadSecond ==
  /\ Go("second", "subtract")
  /\ sum' = sum - factor * hist[hist_pos]
  /\ factor' = 0
  /\ UNCHANGED <<shared, ticks, sample, slot>>

Subtract ==
  /\ Go("subtract", "place")
  /\ hist_sq' = sum
  /\ sum' = 0
  /\ UNCHANGED <<hist, hist_pos, ticks, sample, factor, slot>>

(* octaver.hist[octaver.hist_pos] = s                                      *)
LoadPlace ==
  /\ Go("place", "put")
  /\ slot' = hist_pos
  /\ UNCHANGED <<shared, ticks, sample, sum, factor>>

Put ==
  /\ Go("put", "position")
  /\ hist' = [hist EXCEPT ![slot] = sample]
  /\ sample' = 0
  /\ UNCHANGED <<hist_pos, hist_sq, ticks, sum, factor, slot>>

(* octaver.hist_pos = (octaver.hist_pos + 1) % HISTORY_LENGTH              *)
LoadPosition ==
  /\ Go("position", "advance")
  /\ slot' = hist_pos
  /\ UNCHANGED <<shared, ticks, sample, sum, factor>>

(* ... and (++ticks) % 441000 == 0, which starts a recompute.              *)
Advance ==
  /\ pc = "advance"
  /\ hist_pos' = Following(slot)
  /\ slot' = 0
  /\ ticks' = (ticks + 1) % RecomputePeriod
  /\ IF TenSeconds
       THEN pc' = "square" /\ raced' = (pending # {})
       ELSE pc' = "idle" /\ raced' = (raced \/ pending # {})
  /\ UNCHANGED <<hist, hist_sq, sample, sum, factor, pending>>

(* hist_squared_sum.                                                       *)
AddSquare ==
  /\ IF slot = HISTORY_LENGTH - 1
       THEN Go("square", "recompute") /\ slot' = 0
       ELSE Go("square", "square") /\ slot' = slot + 1
  /\ sum' = sum + Sq(hist[slot])
  /\ UNCHANGED <<shared, ticks, sample, factor>>

Recompute ==
  /\ Go("recompute", "idle")
  /\ hist_sq' = sum
  /\ sum' = 0
  /\ UNCHANGED <<hist, hist_pos, ticks, sample, factor, slot>>

-----------------------------------------------------------------------------
(* The poller.                                                             *)

(* A setting has changed: init_octaver.                                    *)
Reset ==
  /\ pending = {}
  /\ pending' = Fields
  /\ raced' = (pc # "idle")
  /\ UNCHANGED <<shared, audioVars>>

Clear(field) ==
  /\ field \in pending
  /\ pending' = pending \ {field}
  /\ raced' = (raced \/ pc # "idle")
  /\ hist' = [i \in Positions |-> IF field = Element(i) THEN 0 ELSE hist[i]]
  /\ hist_pos' = IF field = <<"hist_pos", 0>> THEN 0 ELSE hist_pos
  /\ hist_sq' = IF field = <<"hist_sq", 0>> THEN 0 ELSE hist_sq
  /\ UNCHANGED audioVars

-----------------------------------------------------------------------------
Init ==
  /\ hist = [i \in Positions |-> 0] /\ hist_pos = 0 /\ hist_sq = 0
  /\ ticks = 0 /\ pc = "idle" /\ sample = 0 /\ sum = 0 /\ factor = 0 /\ slot = 0
  /\ pending = {} /\ raced = FALSE

Audio ==
  \/ \E s \in Samples : Take(s)
  \/ Add \/ Load \/ LoadFirst \/ LoadSecond \/ Subtract \/ LoadPlace \/ Put
  \/ LoadPosition \/ Advance \/ AddSquare \/ Recompute

Poller == Reset \/ \E field \in Fields : Clear(field)

Next == Audio \/ Poller

Spec == Init /\ [][Next]_vars

(* The audio thread keeps running; a setting need never change.            *)
FairSpec == Spec /\ WF_vars(Audio)

-----------------------------------------------------------------------------
(* Properties.                                                             *)

Places == {"idle", "add", "load", "first", "second", "subtract", "place",
           "put", "position", "advance", "square", "recompute"}

(* In particular no index ever leaves the buffer, whatever the two threads *)
(* make of hist_pos.                                                       *)
TypeOK ==
  /\ hist \in [Positions -> Samples] /\ hist_pos \in Positions
  /\ hist_sq \in Int /\ ticks \in 0 .. RecomputePeriod - 1
  /\ pc \in Places /\ sample \in Samples /\ sum \in Int /\ factor \in Samples
  /\ slot \in Positions /\ pending \subseteq Fields /\ raced \in BOOLEAN

Quiescent == pc = "idle" /\ pending = {}

(* A reset that overlaps a sample can lose the reset of hist_sq or leave   *)
(* elements it does not count, and so hold the noise gate open or shut.    *)
(* Nothing but such a reset can, and the next recompute or the next reset  *)
(* that overlaps no sample puts it right.                                  *)
ExactUnlessRaced == Quiescent /\ ~raced => hist_sq = SquaredSum(hist)

(* However many resets overlap samples, the sum leaves what a buffer can   *)
(* hold by at most two squares per sample since the recompute, and one     *)
(* below zero.  (Two, since a reset between the loads of the factors makes *)
(* their product negative.)                                                *)
SumBounded ==
  pc = "idle" =>
    /\ -ticks * MaxSquare <= hist_sq
    /\ hist_sq <= (HISTORY_LENGTH + 2 * ticks) * MaxSquare

Quiet == hist_sq < GateThreshold

(* Silence closes the gate even if settings change over and over again and *)
(* every change overlaps a sample.                                         *)
SilenceClosesGate ==
  <>[][\A s \in Samples : Take(s) => s = 0]_vars => <>[]Quiet

=============================================================================
