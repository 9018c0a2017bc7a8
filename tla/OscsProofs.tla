----------------------------- MODULE OscsProofs -----------------------------
(* Proofs about Oscs, for every number of layers, slots and voices, every  *)
(* speed, attack and crossing interval.                                    *)
EXTENDS Oscs, TLAPS

(* The oscillators after a crossing has started some and before they sound.*)
StartedOscs(position) ==
  IF Retrigger(position) THEN InitOscs(position) ELSE oscs

LEMMA Counts ==
  /\ DURATION \in Nat /\ DURATION > 1 /\ 0 \in Layers
  /\ Unit \in Nat /\ MaxSpeed \in Nat /\ MaxAmp \in Nat /\ MaxAmp > 0
  /\ MaxGap \in Nat /\ MaxGap > 1
  BY OscsAssumption, GapAssumption DEF Layers

LEMMA AttackType == \A a \in 0 .. MaxAmp : Attack[a] \in 0 .. MaxAmp
<1> SUFFICES ASSUME NEW a \in 0 .. MaxAmp PROVE Attack[a] \in 0 .. MaxAmp
  OBVIOUS
<1>1. Attack[a] \in 1 .. MaxAmp
  BY OscsAssumption
<1> QED  BY <1>1, Counts

LEMMA NextLayerValue ==
  ASSUME NEW l \in Layers
  PROVE  /\ (l + 1) % DURATION \in Layers
         /\ (l + 1) % DURATION = IF l = DURATION - 1 THEN 0 ELSE l + 1
<1>1. \A n \in Nat \ {0}, a \in Nat :
        /\ a < n => a % n = a
        /\ a = n => a % n = 0
  BY SMT
<1>2. DURATION \in Nat \ {0} /\ l + 1 \in Nat
  BY Counts DEF Layers
<1>3. CASE l = DURATION - 1
  <2>1. l + 1 = DURATION
    BY <1>3, Counts
  <2>2. (l + 1) % DURATION = 0
    BY <1>1, <1>2, <2>1
  <2> QED  BY <1>3, <2>2, Counts
<1>4. CASE l # DURATION - 1
  <2>1. l + 1 < DURATION /\ l + 1 \in Layers
    BY <1>4, Counts DEF Layers
  <2>2. (l + 1) % DURATION = l + 1
    BY <1>1, <1>2, <2>1
  <2> QED  BY <1>4, <2>1, <2>2
<1> QED  BY <1>3, <1>4

-----------------------------------------------------------------------------
(* Types.  A started oscillator has DURATION crossings left until the      *)
(* crossing that started it ages it, too.                                  *)
Fresh == [active : {TRUE}, duration : {DURATION}, amp : {0}, pos : Nat,
          speed : 0 .. MaxSpeed]

LEMMA IdleType == Idle \in Osc
  BY Counts DEF Idle, Osc

LEMMA AgedType == \A osc \in Osc \union Fresh : Aged(osc) \in Osc
<1> SUFFICES ASSUME NEW osc \in Osc \union Fresh, Aged(osc) # Idle
             PROVE  Aged(osc) \in Osc
  BY IdleType
<1> DEFINE left == IF osc.duration > 0 THEN osc.duration - 1 ELSE 0
<1>1. Aged(osc) = [osc EXCEPT !.duration = left]
  BY DEF Aged
<1>2. osc.duration \in 0 .. DURATION
  <2>1. CASE osc \in Osc
    BY <2>1, Counts DEF Osc
  <2>2. CASE osc \in Fresh
    <3>1. osc.duration = DURATION
      BY <2>2 DEF Fresh
    <3> QED  BY <3>1, Counts
  <2> QED  BY <2>1, <2>2
<1>3. left \in 0 .. DURATION - 1
  BY <1>2, Counts
<1> HIDE DEF left
<1>4. CASE osc \in Osc
  BY <1>1, <1>3, <1>4 DEF Osc
<1>5. CASE osc \in Fresh
  <2>1. 0 \in 0 .. MaxAmp
    BY Counts
  <2> QED  BY <1>1, <1>3, <1>5, <2>1 DEF Osc, Fresh
<1> QED  BY <1>4, <1>5

LEMMA OscNextType == \A osc \in Osc : OscNext(osc) \in Osc
<1> SUFFICES ASSUME NEW osc \in Osc, osc.active PROVE OscNext(osc) \in Osc
  BY DEF OscNext
<1> DEFINE amp == IF osc.duration > 0 THEN Attack[osc.amp] ELSE Release(osc.amp)
<1>1. OscNext(osc) = [osc EXCEPT !.amp = amp, !.pos = osc.pos + osc.speed]
  BY DEF OscNext
<1>2. osc.amp \in 0 .. MaxAmp /\ osc.pos \in Nat /\ osc.speed \in Nat
  BY Counts DEF Osc
<1>3. Release(osc.amp) \in 0 .. MaxAmp
  BY <1>2, Counts DEF Release
<1>4. amp \in 0 .. MaxAmp
  BY <1>2, <1>3, AttackType
<1>5. osc.pos + osc.speed \in Nat
  BY <1>2
<1> HIDE DEF amp
<1> QED  BY <1>1, <1>4, <1>5 DEF Osc

LEMMA StartedType ==
  ASSUME TypeOK, NEW position \in 0 .. Unit
  PROVE  \A l \in Layers : \A k \in Slots :
           /\ StartedOscs(position)[l][k] \in Osc \union Fresh
           /\ StartedOscs(position)[l][k] # oscs[l][k] =>
                /\ l = layer
                /\ StartedOscs(position)[l][k] \in Fresh
                /\ StartedOscs(position)[l][k].pos = position
<1> SUFFICES ASSUME NEW l \in Layers, NEW k \in Slots
             PROVE  /\ StartedOscs(position)[l][k] \in Osc \union Fresh
                    /\ StartedOscs(position)[l][k] # oscs[l][k] =>
                         /\ l = layer
                         /\ StartedOscs(position)[l][k] \in Fresh
                         /\ StartedOscs(position)[l][k].pos = position
  OBVIOUS
<1>1. oscs[l][k] \in Osc
  BY DEF TypeOK
<1>2. CASE Retrigger(position) /\ Starts(l, k)
  <2>1. StartedOscs(position)[l][k] = OscInit(position, Recipe[voice][k])
    BY <1>2 DEF StartedOscs, InitOscs
  <2>2. Recipe[voice][k] \in 0 .. MaxSpeed /\ position \in Nat
    BY OscsAssumption DEF TypeOK
  <2>3. OscInit(position, Recipe[voice][k]) \in Fresh
    BY <2>2 DEF OscInit, Fresh
  <2>4. OscInit(position, Recipe[voice][k]).pos = position
    BY DEF OscInit
  <2> QED  BY <1>2, <2>1, <2>3, <2>4 DEF Starts
<1>3. CASE ~(Retrigger(position) /\ Starts(l, k))
  BY <1>1, <1>3 DEF StartedOscs, InitOscs
<1> QED  BY <1>2, <1>3

LEMMA CrossingOscs ==
  ASSUME NEW position, Crossing(position)
  PROVE  oscs' = [l \in Layers |-> [k \in Slots |->
                    OscNext(Aged(StartedOscs(position)[l][k]))]]
  BY DEF Crossing, StartedOscs

LEMMA TypeInit == Init => TypeOK
  BY IdleType, Counts DEF Init, TypeOK

LEMMA TypeInductive == TypeOK /\ [Next]_vars => TypeOK'
<1> SUFFICES ASSUME TypeOK, [Next]_vars PROVE TypeOK'
  OBVIOUS
<1>1. ASSUME NEW sign \in {-1, 0, 1}, NoCrossing(sign) PROVE TypeOK'
  <2>1. gap' \in 0 .. MaxGap - 1
    BY <1>1, Counts DEF NoCrossing, CrossesInTime, TypeOK
  <2>2. oscs' \in [Layers -> [Slots -> Osc]]
    BY <1>1, OscNextType DEF NoCrossing, TypeOK
  <2>3. since' \in Nat /\ positive' \in BOOLEAN
    BY <1>1, Counts DEF NoCrossing, TypeOK
  <2> QED  BY <1>1, <2>1, <2>2, <2>3 DEF NoCrossing, TypeOK
<1>2. ASSUME NEW position \in 0 .. Unit, Crossing(position) PROVE TypeOK'
  <2>1. \A l \in Layers : \A k \in Slots :
          OscNext(Aged(StartedOscs(position)[l][k])) \in Osc
    BY StartedType, AgedType, OscNextType
  <2>2. oscs' \in [Layers -> [Slots -> Osc]]
    BY <1>2, <2>1, CrossingOscs
  <2>3. layer' \in Layers
    BY <1>2, NextLayerValue DEF Crossing, NextLayer, TypeOK
  <2>4. crossings' \in 0 .. DURATION /\ gap' \in 0 .. MaxGap - 1 /\ since' \in Nat
    BY <1>2, Counts DEF Crossing, Cap, TypeOK
  <2> QED  BY <1>2, <2>2, <2>3, <2>4 DEF Crossing, TypeOK
<1>3. ASSUME NEW v \in Voices, Reset(v) PROVE TypeOK'
  BY <1>3, Counts DEF Reset, TypeOK
<1>4. CASE UNCHANGED vars
  BY <1>4 DEF vars, TypeOK
<1> QED  BY <1>1, <1>2, <1>3, <1>4 DEF Next, Sample

(* Every variable keeps its type, however the voice changes and wherever   *)
(* the input crosses zero: the durations stay below DURATION, the layer    *)
(* stays an index of oscs[] (zeros.c:336).                                 *)
THEOREM OscsTypeCorrect == Spec => []TypeOK
<1> QED  BY TypeInit, TypeInductive, PTL DEF Spec

-----------------------------------------------------------------------------
(* What a step does to a duration.                                         *)

Less(n) == IF n > 0 THEN n - 1 ELSE 0

LEMMA AgedDuration ==
  \A osc \in Osc \union Fresh : Aged(osc).duration = Less(osc.duration)
<1> SUFFICES ASSUME NEW osc \in Osc \union Fresh
             PROVE  Aged(osc).duration = Less(osc.duration)
  OBVIOUS
<1>1. Less(osc.duration) \in Nat
  <2>1. CASE osc \in Osc
    BY <2>1, Counts DEF Osc, Less
  <2>2. CASE osc \in Fresh
    BY <2>2, Counts DEF Fresh, Less
  <2> QED  BY <2>1, <2>2
<1>2. CASE osc.active /\ Less(osc.duration) < 1 /\ osc.amp = 0
  BY <1>1, <1>2 DEF Aged, Idle, Less
<1>3. CASE ~(osc.active /\ Less(osc.duration) < 1 /\ osc.amp = 0)
  <2>1. Aged(osc) = [osc EXCEPT !.duration = Less(osc.duration)]
    BY <1>3 DEF Aged, Less
  <2> QED  BY <2>1 DEF Osc, Fresh
<1> QED  BY <1>2, <1>3

LEMMA OscNextDuration == \A osc \in Osc : OscNext(osc).duration = osc.duration
  BY DEF OscNext, Osc

LEMMA DurationType ==
  ASSUME TypeOK, NEW l \in Layers, NEW k \in Slots
  PROVE  oscs[l][k] \in Osc /\ oscs[l][k].duration \in 0 .. DURATION - 1
  BY DEF TypeOK, Osc

LEMMA DurationKept ==
  ASSUME TypeOK, [Next]_vars, ~\E position \in 0 .. Unit : Crossing(position),
         NEW l \in Layers, NEW k \in Slots
  PROVE  oscs'[l][k].duration = oscs[l][k].duration
<1>1. ASSUME NEW sign \in {-1, 0, 1}, NoCrossing(sign)
      PROVE oscs'[l][k].duration = oscs[l][k].duration
  <2>1. oscs'[l][k] = OscNext(oscs[l][k])
    BY <1>1 DEF NoCrossing
  <2> QED  BY <2>1, DurationType, OscNextDuration
<1>2. CASE UNCHANGED oscs
  BY <1>2
<1> QED  BY <1>1, <1>2 DEF Next, Sample, Reset, vars

LEMMA DurationAfterCrossing ==
  ASSUME TypeOK, NEW position \in 0 .. Unit, Crossing(position),
         NEW l \in Layers, NEW k \in Slots
  PROVE  \/ oscs'[l][k].duration = Less(oscs[l][k].duration)
         \/ l = layer /\ oscs'[l][k].duration = DURATION - 1
<1> DEFINE started == StartedOscs(position)[l][k]
<1>1. started \in Osc \union Fresh
  BY StartedType
<1>2. oscs'[l][k] = OscNext(Aged(started))
  BY CrossingOscs
<1>3. oscs'[l][k].duration = Less(started.duration)
  BY <1>1, <1>2, AgedType, AgedDuration, OscNextDuration
<1>4. CASE started = oscs[l][k]
  BY <1>3, <1>4
<1>5. CASE started # oscs[l][k]
  <2>1. l = layer /\ started \in Fresh
    BY <1>5, StartedType
  <2>2. started.duration = DURATION
    BY <2>1 DEF Fresh
  <2> HIDE DEF started
  <2> QED  BY <1>3, <2>1, <2>2, Counts DEF Less
<1> QED  BY <1>4, <1>5

-----------------------------------------------------------------------------
(* Layers end at different crossings.                                      *)

LEMMA StaggeredInductive == TypeOK /\ Staggered /\ [Next]_vars => Staggered'
<1> SUFFICES ASSUME TypeOK, Staggered, [Next]_vars,
                    NEW l \in Layers, NEW m \in Layers,
                    NEW j \in Slots, NEW k \in Slots,
                    l # m, oscs'[l][j].duration > 0
             PROVE  oscs'[l][j].duration # oscs'[m][k].duration
  BY DEF Staggered
<1>1. /\ oscs[l][j].duration \in 0 .. DURATION - 1
      /\ oscs[m][k].duration \in 0 .. DURATION - 1
  BY DurationType
<1>2. oscs[l][j].duration > 0 => oscs[l][j].duration # oscs[m][k].duration
  BY DEF Staggered
<1>3. oscs[m][k].duration > 0 => oscs[l][j].duration # oscs[m][k].duration
  BY DEF Staggered
<1>4. ASSUME NEW position \in 0 .. Unit, Crossing(position)
      PROVE oscs'[l][j].duration # oscs'[m][k].duration
  <2>1. \/ oscs'[l][j].duration = Less(oscs[l][j].duration)
        \/ l = layer /\ oscs'[l][j].duration = DURATION - 1
    BY <1>4, DurationAfterCrossing
  <2>2. \/ oscs'[m][k].duration = Less(oscs[m][k].duration)
        \/ m = layer /\ oscs'[m][k].duration = DURATION - 1
    BY <1>4, DurationAfterCrossing
  <2> QED  BY <2>1, <2>2, <1>1, <1>2, <1>3, Counts DEF Less
<1>5. CASE ~\E position \in 0 .. Unit : Crossing(position)
  BY <1>5, <1>2, DurationKept
<1> QED  BY <1>4, <1>5

LEMMA StaggeredInit == Init => Staggered
  BY DEF Init, Staggered, Idle

(* Oscillators of different layers never have the same number of crossings *)
(* left (zeros.c:625-636 and 336-337), whatever the resets in between.     *)
THEOREM OscsStaggered == Spec => []Staggered
<1>1. TypeOK /\ Staggered /\ [Next]_vars => (TypeOK /\ Staggered)'
  BY TypeInductive, StaggeredInductive
<1> QED  BY <1>1, TypeInit, StaggeredInit, PTL DEF Spec

-----------------------------------------------------------------------------
(* A layer is released when its turn comes.                                *)

(* The number of crossings before layer l is started again.                *)
Turns(l) == IF l >= layer THEN l - layer ELSE l - layer + DURATION

TurnInv ==
  \A l \in Layers : \A k \in Slots :
    \/ oscs[l][k].duration <= Turns(l)
    \/ oscs[l][k].duration + crossings <= DURATION - 1

LEMMA TurnInvInductive == TypeOK /\ TurnInv /\ [Next]_vars => TurnInv'
<1> SUFFICES ASSUME TypeOK, TurnInv, [Next]_vars,
                    NEW l \in Layers, NEW k \in Slots
             PROVE  \/ oscs'[l][k].duration <= Turns(l)'
                    \/ oscs'[l][k].duration + crossings' <= DURATION - 1
  BY DEF TurnInv
<1> DEFINE d == oscs[l][k].duration
           new_d == oscs'[l][k].duration
<1>1. /\ d \in 0 .. DURATION - 1 /\ l \in 0 .. DURATION - 1
      /\ layer \in 0 .. DURATION - 1 /\ crossings \in 0 .. DURATION
  BY DurationType DEF TypeOK, Layers
<1>2. d <= Turns(l) \/ d + crossings <= DURATION - 1
  BY DEF TurnInv
<1>3. ASSUME NEW position \in 0 .. Unit, Crossing(position)
      PROVE new_d <= Turns(l)' \/ new_d + crossings' <= DURATION - 1
  <2>1. layer' = IF layer = DURATION - 1 THEN 0 ELSE layer + 1
    BY <1>3, NextLayerValue DEF Crossing, NextLayer, TypeOK
  <2>2. crossings' = Cap(crossings + 1)
    BY <1>3 DEF Crossing
  <2>3. new_d = Less(d) \/ (l = layer /\ new_d = DURATION - 1)
    BY <1>3, DurationAfterCrossing
  <2>4. Turns(l)' = IF l >= layer' THEN l - layer' ELSE l - layer' + DURATION
    BY DEF Turns
  <2>5. Turns(l) = IF l >= layer THEN l - layer ELSE l - layer + DURATION
    BY DEF Turns
  <2> HIDE DEF d, new_d
  <2>6. CASE l = layer /\ new_d = DURATION - 1
    BY <2>6, <2>1, <2>4, <1>1, Counts
  <2>7. CASE new_d = Less(d) /\ d = 0
    BY <2>7, <2>1, <2>4, <1>1, Counts DEF Less
  <2>8. CASE new_d = Less(d) /\ d > 0 /\ d <= Turns(l)
    BY <2>8, <2>1, <2>4, <2>5, <1>1, Counts DEF Less
  <2>9. CASE new_d = Less(d) /\ d > 0 /\ d + crossings <= DURATION - 1
    BY <2>9, <2>2, <1>1, Counts DEF Less, Cap
  <2>10. d = 0 \/ d > 0
    BY <1>1
  <2> QED  BY <2>3, <2>6, <2>7, <2>8, <2>9, <2>10, <1>2 DEF d
<1>4. CASE ~\E position \in 0 .. Unit : Crossing(position)
  <2>1. new_d = d
    BY <1>4, DurationKept
  <2>2. CASE UNCHANGED <<layer, crossings>>
    BY <1>2, <2>1, <2>2 DEF Turns
  <2>3. ASSUME NEW v \in Voices, Reset(v)
        PROVE new_d + crossings' <= DURATION - 1
    BY <2>1, <2>3, <1>1, Counts DEF Reset
  <2> QED  BY <1>4, <2>2, <2>3 DEF Next, Sample, NoCrossing, vars
<1> QED  BY <1>3, <1>4

LEMMA TurnInvInit == Init => TurnInv
<1> SUFFICES ASSUME Init, NEW l \in Layers, NEW k \in Slots
             PROVE  oscs[l][k].duration + crossings <= DURATION - 1
  BY DEF TurnInv
<1>1. oscs[l][k].duration = 0 /\ crossings = 0
  BY DEF Init, Idle
<1> QED  BY <1>1, Counts

(* init_oscs only overwrites oscillators that are already being released   *)
(* (zeros.c:337), once DURATION - 1 crossings have followed a reset.       *)
THEOREM OscsStealsOnlyReleased == Spec => StealsOnlyReleased
<1> DEFINE A == \A position \in 0 .. Unit :
                  /\ Crossing(position)
                  /\ Retrigger(position)
                  /\ crossings >= DURATION - 1
                  => \A k \in Slots :
                       Starts(layer, k) => oscs[layer][k].duration = 0
<1>1. TypeOK /\ TurnInv => A
  <2> SUFFICES ASSUME TypeOK, TurnInv, crossings >= DURATION - 1,
                      NEW k \in Slots
               PROVE  oscs[layer][k].duration = 0
    OBVIOUS
  <2>1. layer \in Layers /\ Turns(layer) = 0 /\ crossings \in 0 .. DURATION
    BY Counts DEF TypeOK, Turns, Layers
  <2>2. oscs[layer][k].duration \in 0 .. DURATION - 1
    BY <2>1, DurationType
  <2>3. \/ oscs[layer][k].duration <= Turns(layer)
        \/ oscs[layer][k].duration + crossings <= DURATION - 1
    BY <2>1 DEF TurnInv
  <2> QED  BY <2>1, <2>2, <2>3, Counts
<1>2. TypeOK /\ TurnInv /\ [Next]_vars => (TypeOK /\ TurnInv)'
  BY TypeInductive, TurnInvInductive
<1>3. TypeOK /\ TurnInv => [A]_vars
  BY <1>1
<1> QED  BY <1>2, <1>3, TypeInit, TurnInvInit, PTL DEF Spec, StealsOnlyReleased

-----------------------------------------------------------------------------
(* How far an oscillator can still move.                                   *)

Travel(n) == MaxSpeed * n

Span(d) == d * MaxGap

(* The number of samples an oscillator can still be read for, g samples    *)
(* after the last crossing.                                                *)
Left(osc, g) ==
  IF osc.duration > 0 THEN Span(osc.duration) - g - 1 + MaxAmp + MaxGap - 1
  ELSE IF osc.amp > 0 THEN osc.amp + MaxGap - 1
  ELSE MaxGap - 1 - g

LEMMA TravelFacts ==
  \A n, m \in Int :
    /\ Travel(n) \in Int
    /\ n + 1 <= m => Travel(n) + MaxSpeed <= Travel(m)
    /\ n >= 0 => Travel(n) >= 0
<1> SUFFICES ASSUME NEW n \in Int, NEW m \in Int
             PROVE  /\ Travel(n) \in Int
                    /\ n + 1 <= m => Travel(n) + MaxSpeed <= Travel(m)
                    /\ n >= 0 => Travel(n) >= 0
  OBVIOUS
<1>1. MaxSpeed \in Nat
  BY Counts
<1>2. \A a, b \in Int : a <= b => MaxSpeed * a <= MaxSpeed * b
  BY <1>1
<1>3. MaxSpeed * (n + 1) = MaxSpeed * n + MaxSpeed
  BY <1>1
<1>4. n + 1 <= m => MaxSpeed * (n + 1) <= MaxSpeed * m
  BY <1>2
<1>5. MaxSpeed * 0 = 0 /\ MaxSpeed * n \in Int /\ MaxSpeed * m \in Int
  BY <1>1
<1> QED  BY <1>1, <1>2, <1>3, <1>4, <1>5 DEF Travel

LEMMA SpanFacts ==
  \A d \in Nat : Span(d) \in Nat /\ Span(d + 1) = Span(d) + MaxGap /\ Span(0) = 0
<1> SUFFICES ASSUME NEW d \in Nat
             PROVE  Span(d) \in Nat /\ Span(d + 1) = Span(d) + MaxGap /\ Span(0) = 0
  OBVIOUS
<1>1. MaxGap \in Nat
  BY Counts
<1> QED  BY <1>1 DEF Span

LEMMA SpanLess ==
  ASSUME NEW d \in Nat, d > 0
  PROVE  d - 1 \in Nat /\ Span(d - 1) \in Nat /\ Span(d) = Span(d - 1) + MaxGap
<1>1. d - 1 \in Nat /\ (d - 1) + 1 = d
  OBVIOUS
<1>2. Span((d - 1) + 1) = Span(d - 1) + MaxGap /\ Span(d - 1) \in Nat
  BY <1>1, SpanFacts
<1> QED  BY <1>1, <1>2

LEMMA LeftType ==
  ASSUME NEW osc \in Osc, NEW g \in 0 .. MaxGap - 1
  PROVE  Left(osc, g) \in Nat
<1>1. osc.duration \in Nat /\ osc.amp \in Nat
  BY Counts DEF Osc
<1>2. osc.duration > 0 => Span(osc.duration) >= MaxGap /\ Span(osc.duration) \in Nat
  BY <1>1, SpanLess, Counts
<1> QED  BY <1>1, <1>2, Counts DEF Left

LEMMA OscNextFields ==
  ASSUME NEW osc \in Osc, osc.active
  PROVE  /\ OscNext(osc).duration = osc.duration
         /\ OscNext(osc).pos = osc.pos + osc.speed
         /\ OscNext(osc).amp \in 0 .. MaxAmp
         /\ osc.duration = 0 => OscNext(osc).amp = Release(osc.amp)
<1> DEFINE amp == IF osc.duration > 0 THEN Attack[osc.amp] ELSE Release(osc.amp)
<1>1. OscNext(osc) = [osc EXCEPT !.amp = amp, !.pos = osc.pos + osc.speed]
  BY DEF OscNext
<1>2. /\ OscNext(osc).duration = osc.duration /\ OscNext(osc).amp = amp
      /\ OscNext(osc).pos = osc.pos + osc.speed
  BY <1>1 DEF Osc
<1>3. OscNext(osc).amp \in 0 .. MaxAmp
  BY OscNextType DEF Osc
<1> QED  BY <1>2, <1>3

(* Every sample uses one up.                                               *)
LEMMA LeftAfterSample ==
  ASSUME NEW osc \in Osc, osc.active, NEW g \in 0 .. MaxGap - 2
  PROVE  Left(OscNext(osc), g + 1) + 1 <= Left(osc, g)
<1>1. osc.duration \in Nat /\ osc.amp \in 0 .. MaxAmp
  BY Counts DEF Osc
<1>2. CASE osc.duration > 0
  <2>1. Span(osc.duration) \in Nat
    BY <1>1, SpanFacts
  <2> QED  BY <1>1, <1>2, <2>1, OscNextFields, Counts DEF Left
<1>3. CASE osc.duration = 0
  BY <1>1, <1>3, OscNextFields, Counts DEF Left, Release
<1> QED  BY <1>1, <1>2, <1>3

(* Unless it is dropped, so does the sample of a crossing.                 *)
LEMMA LeftAfterCrossing ==
  ASSUME NEW osc \in Osc, osc.active, Aged(osc).active,
         NEW g \in 0 .. MaxGap - 1
  PROVE  Left(OscNext(Aged(osc)), 0) + 1 <= Left(osc, g)
<1> DEFINE aged == Aged(osc)
<1>1. osc.duration \in Nat /\ osc.amp \in 0 .. MaxAmp
  BY Counts DEF Osc
<1>2. aged \in Osc /\ aged.duration = Less(osc.duration)
  BY AgedType, AgedDuration
<1>3. aged = [osc EXCEPT !.duration = Less(osc.duration)]
  <2>1. aged # Idle
    BY DEF Idle
  <2> QED  BY <2>1 DEF Aged, Less
<1>4. aged.amp = osc.amp
  BY <1>3 DEF Osc
<1>5. ~(Less(osc.duration) < 1 /\ osc.amp = 0)
  <2>1. Less(osc.duration) < 1 /\ osc.amp = 0 => Aged(osc) = Idle
    BY DEF Aged, Less
  <2> QED  BY <2>1 DEF Idle
<1> HIDE DEF aged
<1>6. /\ OscNext(aged).duration = aged.duration
      /\ OscNext(aged).amp \in 0 .. MaxAmp
      /\ aged.duration = 0 => OscNext(aged).amp = Release(aged.amp)
  BY <1>2, OscNextFields DEF aged
<1>7. CASE osc.duration > 1
  <2>1. Less(osc.duration) = osc.duration - 1 /\ osc.duration - 1 > 0
    BY <1>1, <1>7 DEF Less
  <2>2. /\ Span(osc.duration - 1) \in Nat
        /\ Span(osc.duration) = Span(osc.duration - 1) + MaxGap
    BY <1>1, <1>7, SpanLess
  <2>3. Left(OscNext(aged), 0) = Span(osc.duration - 1) - 1 + MaxAmp + MaxGap - 1
    BY <2>1, <2>2, <1>2, <1>6, Counts DEF Left
  <2>4. Left(osc, g) = Span(osc.duration) - g - 1 + MaxAmp + MaxGap - 1
    BY <1>7, <1>1 DEF Left
  <2> QED  BY <2>2, <2>3, <2>4, Counts DEF aged
<1>8. CASE osc.duration = 1
  <2>1. Less(osc.duration) = 0
    BY <1>8 DEF Less
  <2>2. Span(0) = 0 /\ Span(0 + 1) = Span(0) + MaxGap
    BY SpanFacts
  <2>3. Left(osc, g) = MaxGap - g - 1 + MaxAmp + MaxGap - 1
    BY <2>2, <1>8, Counts DEF Left
  <2>4. osc.amp > 0
    BY <2>1, <1>1, <1>5
  <2>5. OscNext(aged).duration = 0 /\ OscNext(aged).amp = osc.amp - 1
    BY <2>1, <2>4, <1>2, <1>4, <1>6, <1>1 DEF Release
  <2>6. Left(OscNext(aged), 0) = osc.amp - 1 + MaxGap - 1
    BY <2>5, <2>4, <1>1, Counts DEF Left
  <2> QED  BY <2>3, <2>6, <1>1, Counts DEF aged
<1>9. CASE osc.duration = 0
  <2>1. Less(osc.duration) = 0
    BY <1>9 DEF Less
  <2>2. osc.amp > 0
    BY <2>1, <1>1, <1>5
  <2>3. OscNext(aged).duration = 0 /\ OscNext(aged).amp = osc.amp - 1
    BY <2>1, <2>2, <1>2, <1>4, <1>6, <1>1 DEF Release
  <2>4. Left(OscNext(aged), 0) = osc.amp - 1 + MaxGap - 1
    BY <2>3, <2>2, <1>1, Counts DEF Left
  <2>5. Left(osc, g) = osc.amp + MaxGap - 1
    BY <2>2, <1>9, <1>1 DEF Left
  <2> QED  BY <2>4, <2>5, <1>1, Counts DEF aged
<1> QED  BY <1>1, <1>7, <1>8, <1>9

(* An oscillator that was just started has the whole lifetime.             *)
LEMMA LeftWhenStarted ==
  ASSUME NEW osc \in Fresh
  PROVE  /\ Aged(osc).active /\ Aged(osc).pos = osc.pos
         /\ Left(OscNext(Aged(osc)), 0) + 1 <= Lifetime
<1> DEFINE aged == Aged(osc)
<1>1. osc.duration = DURATION /\ osc.active
  BY DEF Fresh
<1>2. Less(osc.duration) = DURATION - 1 /\ DURATION - 1 > 0
  BY <1>1, Counts DEF Less
<1>3. aged = [osc EXCEPT !.duration = Less(osc.duration)]
  BY <1>2, Counts DEF Aged, Less
<1>4. aged.active /\ aged.pos = osc.pos /\ aged.duration = DURATION - 1
  BY <1>1, <1>2, <1>3 DEF Fresh
<1>5. aged \in Osc
  BY AgedType
<1>6. OscNext(aged).duration = DURATION - 1
  BY <1>4, <1>5, OscNextFields
<1>7. Span(DURATION - 1) \in Nat /\ Span(DURATION) = Span(DURATION - 1) + MaxGap
  BY SpanLess, Counts
<1>8. Left(OscNext(aged), 0) = Span(DURATION - 1) - 1 + MaxAmp + MaxGap - 1
  BY <1>2, <1>6, <1>7, Counts DEF Left
<1>9. Lifetime = Span(DURATION) + MaxAmp - 1
  BY DEF Lifetime, Span
<1> QED  BY <1>4, <1>7, <1>8, <1>9, Counts

Within(osc, g) ==
  osc.active => osc.pos + Travel(Left(osc, g)) <= Unit + Travel(Lifetime)

PosInv == \A l \in Layers : \A k \in Slots : Within(oscs[l][k], gap)

LEMMA LifetimeType == Lifetime \in Int
<1>1. Span(DURATION) \in Nat
  BY SpanFacts, Counts
<1> QED  BY <1>1, Counts DEF Lifetime, Span

LEMMA WithinStep ==
  ASSUME NEW osc \in Osc, NEW g \in 0 .. MaxGap - 1,
         NEW new \in Osc, NEW h \in 0 .. MaxGap - 1,
         osc.active, Within(osc, g),
         new.pos <= osc.pos + MaxSpeed, Left(new, h) + 1 <= Left(osc, g)
  PROVE  Within(new, h)
<1>1. Left(osc, g) \in Int /\ Left(new, h) \in Int
  BY LeftType
<1>2. Travel(Left(new, h)) + MaxSpeed <= Travel(Left(osc, g))
  BY <1>1, TravelFacts
<1>3. osc.pos \in Int /\ new.pos \in Int
  BY DEF Osc
<1>4. /\ Travel(Left(new, h)) \in Int /\ Travel(Left(osc, g)) \in Int
      /\ Travel(Lifetime) \in Int
  BY <1>1, TravelFacts, LifetimeType
<1> QED  BY <1>2, <1>3, <1>4, Counts DEF Within

LEMMA PosInvInductive == TypeOK /\ PosInv /\ [Next]_vars => PosInv'
<1> SUFFICES ASSUME TypeOK, PosInv, [Next]_vars, NEW l \in Layers, NEW k \in Slots
             PROVE  Within(oscs'[l][k], gap')
  BY DEF PosInv
<1> DEFINE osc == oscs[l][k]
<1>1. osc \in Osc /\ gap \in 0 .. MaxGap - 1 /\ Within(osc, gap)
  BY DEF TypeOK, PosInv
<1>2. oscs'[l][k] \in Osc /\ gap' \in 0 .. MaxGap - 1
  BY TypeInductive DEF TypeOK
<1>3. ASSUME NEW sign \in {-1, 0, 1}, NoCrossing(sign)
      PROVE Within(oscs'[l][k], gap')
  <2>1. oscs'[l][k] = OscNext(osc) /\ gap' = gap + 1
    BY <1>3 DEF NoCrossing
  <2>2. gap \in 0 .. MaxGap - 2
    BY <2>1, <1>1, <1>2, Counts
  <2>3. CASE ~osc.active
    BY <2>1, <2>3 DEF Within, OscNext
  <2>4. CASE osc.active
    <3>1. Left(oscs'[l][k], gap') + 1 <= Left(osc, gap)
      BY <2>1, <2>2, <2>4, <1>1, LeftAfterSample
    <3>2. osc.speed \in 0 .. MaxSpeed /\ osc.pos \in Nat
      BY <1>1 DEF Osc
    <3>3. oscs'[l][k].pos <= osc.pos + MaxSpeed
      BY <3>2, <2>1, <2>4, <1>1, OscNextFields, Counts
    <3> HIDE DEF osc
    <3> QED  BY <3>1, <3>3, <2>4, <1>1, <1>2, WithinStep
  <2> QED  BY <2>3, <2>4
<1>4. ASSUME NEW position \in 0 .. Unit, Crossing(position)
      PROVE Within(oscs'[l][k], gap')
  <2> DEFINE started == StartedOscs(position)[l][k]
             aged == Aged(started)
  <2>0. gap' = 0
    BY <1>4 DEF Crossing
  <2>1. oscs'[l][k] = OscNext(aged) /\ gap' = 0
    <3>1. oscs' = [m \in Layers |-> [j \in Slots |->
                     OscNext(Aged(StartedOscs(position)[m][j]))]]
      BY <1>4, CrossingOscs
    <3> QED  BY <2>0, <3>1
  <2>2. started \in Osc \union Fresh /\ aged \in Osc
    BY StartedType, AgedType
  <2>3. CASE ~aged.active
    BY <2>1, <2>3 DEF Within, OscNext
  <2>4. CASE aged.active /\ started = osc
    <3>1. osc.active /\ aged.pos = osc.pos /\ aged.speed = osc.speed
      <4>1. aged = Aged(osc) /\ aged # Idle
        BY <2>4 DEF Idle
      <4>2. aged = [osc EXCEPT !.duration = Less(osc.duration)]
        BY <4>1 DEF Aged, Less
      <4>3. /\ aged.active = osc.active /\ aged.pos = osc.pos
            /\ aged.speed = osc.speed
        BY <4>2, <1>1 DEF Osc
      <4> QED  BY <4>3, <2>4
    <3>2. Left(oscs'[l][k], gap') + 1 <= Left(osc, gap)
      BY <3>1, <2>1, <2>4, <1>1, LeftAfterCrossing
    <3>3. osc.speed \in 0 .. MaxSpeed /\ osc.pos \in Nat
      BY <1>1 DEF Osc
    <3>4. OscNext(aged).pos = aged.pos + aged.speed
      BY <2>2, <2>4, OscNextFields
    <3>5. oscs'[l][k].pos <= osc.pos + MaxSpeed
      BY <3>1, <3>3, <3>4, <2>1, Counts
    <3> HIDE DEF osc, started, aged
    <3> QED  BY <3>1, <3>2, <3>5, <1>1, <1>2, WithinStep
  <2>5. CASE aged.active /\ started # osc
    <3>1. started \in Fresh /\ started.pos = position
      BY <2>5, StartedType
    <3>2. aged.pos = position /\ Left(OscNext(aged), 0) + 1 <= Lifetime
      BY <3>1, LeftWhenStarted
    <3>3. aged.speed \in 0 .. MaxSpeed /\ OscNext(aged).pos = aged.pos + aged.speed
      BY <2>2, <2>5, OscNextFields DEF Osc
    <3>4. OscNext(aged) \in Osc
      BY <2>2, OscNextType
    <3> DEFINE left == Left(OscNext(aged), 0)
    <3>5. left \in Int
      BY <3>4, LeftType, Counts
    <3> HIDE DEF started, aged, left
    <3>6. Travel(left) + MaxSpeed <= Travel(Lifetime)
      BY <3>2, <3>5, TravelFacts, LifetimeType DEF left
    <3>7. Travel(left) \in Int /\ Travel(Lifetime) \in Int
      BY <3>5, TravelFacts, LifetimeType
    <3>8. OscNext(aged).pos + Travel(left) <= Unit + Travel(Lifetime)
      BY <3>2, <3>3, <3>6, <3>7, Counts
    <3> QED  BY <3>8, <2>1 DEF Within, left
  <2> QED  BY <2>3, <2>4, <2>5
<1>5. CASE UNCHANGED <<oscs, gap>>
  BY <1>1, <1>5
<1> QED  BY <1>3, <1>4, <1>5 DEF Next, Sample, Reset, vars

LEMMA PosInvInit == Init => PosInv
  BY DEF Init, PosInv, Within, Idle

LEMMA PosInvBounds == TypeOK /\ PosInv => ReadsInHistory
<1> SUFFICES ASSUME TypeOK, PosInv, NEW l \in Layers, NEW k \in Slots,
                    oscs[l][k].active
             PROVE  oscs[l][k].pos + Unit <= HISTORY_LENGTH * Unit
  BY DEF ReadsInHistory
<1> DEFINE left == Left(oscs[l][k], gap)
           window == HISTORY_LENGTH * Unit
<1>1. oscs[l][k] \in Osc /\ gap \in 0 .. MaxGap - 1
  BY DEF TypeOK
<1>2. left \in Nat
  BY <1>1, LeftType
<1>3. oscs[l][k].pos + Travel(left) <= Unit + Travel(Lifetime)
  BY DEF PosInv, Within
<1> HIDE DEF left
<1>4. Travel(left) >= 0 /\ Travel(left) \in Int /\ Travel(Lifetime) \in Int
  BY <1>2, TravelFacts, LifetimeType
<1>5. Travel(Lifetime) + 2 * Unit <= window
  BY GapAssumption DEF Travel
<1>6. oscs[l][k].pos \in Nat /\ window \in Int
  BY <1>1, OscsAssumption DEF Osc
<1> HIDE DEF window
<1>7. oscs[l][k].pos + Unit <= window
  BY <1>3, <1>4, <1>5, <1>6, Counts
<1> QED  BY <1>7 DEF window

(* osc_next never reads further back than the history goes (zeros.c:593-   *)
(* 594 and 178-181), if the input crosses zero at least every MaxGap       *)
(* samples, for every such MaxGap, whenever the octaver is reset.          *)
THEOREM OscsReadsInHistory == Spec => []ReadsInHistory
<1>1. TypeOK /\ PosInv /\ [Next]_vars => (TypeOK /\ PosInv)'
  BY TypeInductive, PosInvInductive
<1> QED  BY <1>1, TypeInit, PosInvInit, PosInvBounds, PTL DEF Spec

=============================================================================
