---------------------------- MODULE HistoryProofs ----------------------------
(* Proofs about History, for every buffer length, recompute period, set of *)
(* samples and rounding errors, and about its races and those of the pitch *)
(* detection (CrossingRace), for every set of voices.                      *)
EXTENDS HistoryParts, TotalsProofs

(* The only facts about % the ring buffer needs.                           *)
LEMMA ModFacts ==
  \A n \in Nat \ {0}, a \in Nat :
    /\ a % n \in 0 .. n - 1
    /\ a < n => a % n = a
    /\ n <= a /\ a < 2 * n => a % n = a - n
  BY SMT

LEMMA Lengths ==
  /\ HISTORY_LENGTH \in Nat \ {0} /\ HISTORY_LENGTH >= 2
  /\ RECENT_LENGTH \in 1 .. HISTORY_LENGTH
  BY LengthsAssumption

(* Where the sample of an age is, in a buffer written at p.                *)
Index(p, age) == (HISTORY_LENGTH + p - age) % HISTORY_LENGTH

LEMMA IndexValue ==
  ASSUME NEW p \in Positions, NEW age \in 1 .. HISTORY_LENGTH
  PROVE  /\ Index(p, age) =
              IF age <= p THEN p - age ELSE HISTORY_LENGTH + p - age
         /\ Index(p, age) \in Positions
<1> DEFINE a == HISTORY_LENGTH + p - age
<1>1. a \in Nat /\ a < 2 * HISTORY_LENGTH /\ (HISTORY_LENGTH <= a <=> age <= p)
  BY Lengths DEF Positions
<1>2. a - HISTORY_LENGTH = p - age
  BY Lengths DEF Positions
<1> HIDE DEF a
<1>3. a % HISTORY_LENGTH = IF age <= p THEN a - HISTORY_LENGTH ELSE a
  <2>1. CASE age <= p
    BY <1>1, <2>1, ModFacts, Lengths
  <2>2. CASE ~(age <= p)
    <3>1. a < HISTORY_LENGTH
      BY <1>1, <2>2, Lengths
    <3> QED  BY <1>1, <2>2, <3>1, ModFacts, Lengths
  <2> QED  BY <2>1, <2>2
<1>4. a % HISTORY_LENGTH \in Positions
  BY <1>1, ModFacts, Lengths DEF Positions
<1> QED  BY <1>2, <1>3, <1>4 DEF Index, a

LEMMA NextPosition ==
  ASSUME NEW p \in Positions
  PROVE  /\ (p + 1) % HISTORY_LENGTH = IF p = HISTORY_LENGTH - 1 THEN 0 ELSE p + 1
         /\ (p + 1) % HISTORY_LENGTH \in Positions
<1>1. p + 1 \in Nat /\ p + 1 < 2 * HISTORY_LENGTH
  BY Lengths DEF Positions
<1>2. p = HISTORY_LENGTH - 1 => p + 1 = HISTORY_LENGTH
  BY Lengths
<1>3. p # HISTORY_LENGTH - 1 => p + 1 < HISTORY_LENGTH
  BY Lengths DEF Positions
<1>4. (p + 1) % HISTORY_LENGTH
        = IF p = HISTORY_LENGTH - 1 THEN 0 ELSE p + 1
  <2>1. CASE p = HISTORY_LENGTH - 1
    BY <1>1, <1>2, <2>1, ModFacts, Lengths
  <2>2. CASE p # HISTORY_LENGTH - 1
    BY <1>1, <1>3, <2>2, ModFacts, Lengths
  <2> QED  BY <2>1, <2>2
<1> QED  BY <1>1, <1>4, ModFacts, Lengths DEF Positions

(* A sample ages by one with every write.                                  *)
LEMMA IndexAges ==
  ASSUME NEW p \in Positions, NEW q, q = (p + 1) % HISTORY_LENGTH
  PROVE  /\ Index(q, 1) = p /\ Index(p, HISTORY_LENGTH) = p
         /\ \A age \in 2 .. HISTORY_LENGTH : Index(q, age) = Index(p, age - 1)
         /\ \A age \in 1 .. HISTORY_LENGTH - 1 : Index(p, age) # p
<1>0. q \in Positions /\ q = IF p = HISTORY_LENGTH - 1 THEN 0 ELSE p + 1
  BY NextPosition
<1>1. Index(q, 1) = p /\ Index(p, HISTORY_LENGTH) = p
  <2>1. 1 \in 1 .. HISTORY_LENGTH /\ HISTORY_LENGTH \in 1 .. HISTORY_LENGTH
    BY Lengths
  <2>2. Index(q, 1) = IF 1 <= q THEN q - 1 ELSE HISTORY_LENGTH + q - 1
    BY <1>0, <2>1, IndexValue
  <2>3. Index(p, HISTORY_LENGTH) = IF HISTORY_LENGTH <= p THEN p - HISTORY_LENGTH
                                   ELSE HISTORY_LENGTH + p - HISTORY_LENGTH
    BY <2>1, IndexValue
  <2> QED  BY <1>0, <2>2, <2>3, Lengths DEF Positions
<1>2. ASSUME NEW age \in 2 .. HISTORY_LENGTH
      PROVE Index(q, age) = Index(p, age - 1)
  <2>1. age \in 1 .. HISTORY_LENGTH /\ age - 1 \in 1 .. HISTORY_LENGTH
    BY Lengths
  <2>2. Index(q, age) = IF age <= q THEN q - age ELSE HISTORY_LENGTH + q - age
    BY <1>0, <2>1, IndexValue
  <2>3. Index(p, age - 1) =
          IF age - 1 <= p THEN p - (age - 1) ELSE HISTORY_LENGTH + p - (age - 1)
    BY <2>1, IndexValue
  <2> QED  BY <1>0, <2>1, <2>2, <2>3, Lengths DEF Positions
<1>3. ASSUME NEW age \in 1 .. HISTORY_LENGTH - 1 PROVE Index(p, age) # p
  <2>1. age \in 1 .. HISTORY_LENGTH
    BY Lengths
  <2>2. Index(p, age) = IF age <= p THEN p - age ELSE HISTORY_LENGTH + p - age
    BY <2>1, IndexValue
  <2> QED  BY <2>2, Lengths DEF Positions
<1> QED  BY <1>1, <1>2, <1>3

LEMMA RecentPosValue ==
  ASSUME TypeOK
  PROVE  /\ RecentPos = Index(hist_pos, RECENT_LENGTH)
         /\ RecentPos \in Positions
<1>1. hist_pos - RECENT_LENGTH + HISTORY_LENGTH
        = HISTORY_LENGTH + hist_pos - RECENT_LENGTH
  BY Lengths DEF TypeOK, Positions
<1> QED  BY <1>1, Lengths, IndexValue DEF RecentPos, Index, TypeOK

-----------------------------------------------------------------------------
(* Types.                                                                  *)

LEMMA SampleType ==
  /\ 0 \in Samples /\ MaxSquare \in Nat /\ MaxRounding \in Nat
  /\ \A s \in Samples : Sq(s) \in Nat /\ Sq(s) <= MaxSquare
  /\ Sq(0) = 0
  BY SamplesAssumption, RoundingAssumption DEF Sq

LEMMA ErrorsType ==
  ASSUME NEW exact, NEW error \in Errors(exact)
  PROVE  error \in Int /\ -MaxRounding <= error /\ error <= MaxRounding
  BY RoundingAssumption DEF Errors

Terms(h) == [n \in 1 .. HISTORY_LENGTH |-> Sq(h[n - 1])]

AgeTerms(h, p) == [age \in 1 .. HISTORY_LENGTH |-> Sq(h[Index(p, age)])]

LEMMA TermsType ==
  ASSUME NEW h \in [Positions -> Samples]
  PROVE  /\ Terms(h) \in [1 .. HISTORY_LENGTH -> Nat]
         /\ Terms(h) \in [1 .. HISTORY_LENGTH -> Int]
         /\ SquaredSum(h) = Total(Terms(h), HISTORY_LENGTH)
         /\ SquaredSum(h) \in Int
<1>1. \A n \in 1 .. HISTORY_LENGTH : n - 1 \in Positions
  BY Lengths DEF Positions
<1>2. \A n \in 1 .. HISTORY_LENGTH : Sq(h[n - 1]) \in Nat
  BY <1>1, SampleType
<1>3. Terms(h) \in [1 .. HISTORY_LENGTH -> Nat]
  BY <1>2 DEF Terms
<1>4. Terms(h) \in [1 .. HISTORY_LENGTH -> Int]
  BY <1>3
<1>5. SquaredSum(h) = Total(Terms(h), HISTORY_LENGTH)
  BY DEF SquaredSum, Terms
<1>6. HISTORY_LENGTH \in 0 .. HISTORY_LENGTH
  BY Lengths
<1> QED  BY <1>3, <1>4, <1>5, <1>6, TotalFacts, Lengths

LEMMA AgeTermsType ==
  ASSUME NEW h \in [Positions -> Samples], NEW p \in Positions
  PROVE  /\ AgeTerms(h, p) \in [1 .. HISTORY_LENGTH -> Nat]
         /\ AgeTerms(h, p) \in [1 .. HISTORY_LENGTH -> Int]
         /\ \A n \in 0 .. HISTORY_LENGTH : Total(AgeTerms(h, p), n) \in Int
<1>1. \A age \in 1 .. HISTORY_LENGTH : Sq(h[Index(p, age)]) \in Nat
  BY IndexValue, SampleType
<1>2. AgeTerms(h, p) \in [1 .. HISTORY_LENGTH -> Nat]
  BY <1>1 DEF AgeTerms
<1>3. AgeTerms(h, p) \in [1 .. HISTORY_LENGTH -> Int]
  BY <1>2
<1> QED  BY <1>2, <1>3, TotalFacts, Lengths

LEMMA RecentEnergyIsTotal ==
  RecentEnergy = Total(AgeTerms(hist, hist_pos), RECENT_LENGTH)
  BY DEF RecentEnergy, AgeTerms, GetHist, Index

RecentTerms(h) == [n \in 1 .. RECENT_LENGTH |-> Sq(h[HISTORY_LENGTH - n])]

LEMMA RecentTermsType ==
  ASSUME NEW h \in [Positions -> Samples]
  PROVE  /\ RecentTerms(h) \in [1 .. RECENT_LENGTH -> Int]
         /\ RecentSquaredSum(h) = Total(RecentTerms(h), RECENT_LENGTH)
         /\ RecentSquaredSum(h) \in Int
<1>1. \A n \in 1 .. RECENT_LENGTH : HISTORY_LENGTH - n \in Positions
  BY Lengths DEF Positions
<1>2. \A n \in 1 .. RECENT_LENGTH : Sq(h[HISTORY_LENGTH - n]) \in Int
  BY <1>1, SampleType
<1>3. RecentTerms(h) \in [1 .. RECENT_LENGTH -> Int]
  BY <1>2 DEF RecentTerms
<1>4. RecentSquaredSum(h) = Total(RecentTerms(h), RECENT_LENGTH)
  BY DEF RecentSquaredSum, RecentTerms
<1>5. RECENT_LENGTH \in Nat /\ RECENT_LENGTH \in 0 .. RECENT_LENGTH
  BY Lengths
<1> QED  BY <1>3, <1>4, <1>5, TotalFacts

(* What one call of update does, with the choice of the rounding named.    *)
LEMMA UpdateType ==
  ASSUME TypeOK, NEW s \in Samples, Update(s)
  PROVE  /\ hist' = [hist EXCEPT ![hist_pos] = s]
         /\ hist' \in [Positions -> Samples]
         /\ hist_pos' = (hist_pos + 1) % HISTORY_LENGTH
         /\ hist_pos' = IF hist_pos = HISTORY_LENGTH - 1 THEN 0 ELSE hist_pos + 1
         /\ hist_pos' \in Positions
         /\ ticks' = IF ticks + 1 = RecomputePeriod THEN 0 ELSE ticks + 1
         /\ ticks' \in 0 .. RecomputePeriod - 1
<1>1. hist_pos \in Positions /\ hist_pos' = (hist_pos + 1) % HISTORY_LENGTH
  BY DEF TypeOK, Update, Following
<1>2. ticks' = IF ticks + 1 = RecomputePeriod THEN 0 ELSE ticks + 1
  <2>1. ticks + 1 \in Nat /\ RecomputePeriod \in Nat \ {0}
        /\ ticks + 1 <= RecomputePeriod /\ ticks' = (ticks + 1) % RecomputePeriod
    BY LengthsAssumption DEF TypeOK, Update
  <2>2. CASE ticks + 1 = RecomputePeriod
    BY <2>1, <2>2, ModFacts
  <2>3. CASE ticks + 1 < RecomputePeriod
    BY <2>1, <2>3, ModFacts
  <2> QED  BY <2>1, <2>2, <2>3
<1>3. ticks' \in 0 .. RecomputePeriod - 1
  BY <1>2, LengthsAssumption DEF TypeOK
<1>4. /\ hist' = [hist EXCEPT ![hist_pos] = s]
      /\ hist' \in [Positions -> Samples]
  BY DEF TypeOK, Update
<1> QED  BY <1>1, <1>2, <1>3, <1>4, NextPosition

LEMMA TypeInit == Init => TypeOK
  BY Lengths, LengthsAssumption, SampleType DEF Init, TypeOK, Positions

LEMMA TypeInductive == TypeOK /\ [Next]_vars => TypeOK'
<1> SUFFICES ASSUME TypeOK, [Next]_vars PROVE TypeOK'
  OBVIOUS
<1>1. CASE Reset
  BY <1>1, Lengths, SampleType DEF Reset, TypeOK, Positions
<1>2. ASSUME NEW s \in Samples, Update(s) PROVE TypeOK'
  <2>1. /\ hist' \in [Positions -> Samples] /\ hist_pos' \in Positions
        /\ ticks' \in 0 .. RecomputePeriod - 1
    BY <1>2, UpdateType
  <2>2. Sq(s) \in Int /\ Sq(hist[hist_pos]) \in Int /\ Sq(hist[RecentPos]) \in Int
    BY SampleType, RecentPosValue DEF TypeOK
  <2>3. SquaredSum(hist') \in Int /\ RecentSquaredSum(hist') \in Int
    BY <2>1, TermsType, RecentTermsType
  <2>4. ASSUME NEW sum \in Int, NEW old, Sq(old) \in Int, NEW exact,
               NEW error \in Errors(exact)
        PROVE Running(sum, s, old, error) \in Int
    BY <2>2, <2>4, ErrorsType DEF Running
  <2>5. hist_sq' \in Int
    <3>1. \/ \E error \in Errors(Silent(hist')) :
               hist_sq' = SquaredSum(hist') + error
          \/ \E error \in Errors(s = 0 /\ hist[hist_pos] = 0) :
               hist_sq' = Running(hist_sq, s, hist[hist_pos], error)
      BY <1>2 DEF Update
    <3> QED  BY <2>2, <2>3, <2>4, <3>1, ErrorsType DEF TypeOK
  <2>6. recent_hist_sq' \in Int
    <3>1. \/ \E error \in Errors(Silent(hist')) :
               recent_hist_sq' = RecentSquaredSum(hist') + error
          \/ \E error \in Errors(s = 0 /\ hist[RecentPos] = 0) :
               recent_hist_sq' = Running(recent_hist_sq, s, hist[RecentPos], error)
      BY <1>2 DEF Update
    <3> QED  BY <2>2, <2>3, <2>4, <3>1, ErrorsType DEF TypeOK
  <2> QED  BY <2>1, <2>5, <2>6 DEF TypeOK
<1>3. CASE UNCHANGED vars
  BY <1>3 DEF vars, TypeOK
<1> QED  BY <1>1, <1>2, <1>3 DEF Next

(* The octaver's history keeps its types; in particular hist_pos stays an  *)
(* index of hist.                                                          *)
THEOREM HistoryTypeCorrect == Spec => []TypeOK
  BY TypeInit, TypeInductive, PTL DEF Spec

-----------------------------------------------------------------------------
(* Drift of the long sum.                                                  *)

LEMMA MulFacts ==
  \A k \in Nat, r \in Nat :
    k * r \in Nat /\ (k + 1) * r = k * r + r /\ 0 * r = 0 /\ 1 * r = r
  BY SMT

LEMMA MulMonotone ==
  \A k \in Nat, m \in Nat, r \in Nat : k <= m => k * r <= m * r
  BY SMT

LEMMA EnergyUpdate ==
  ASSUME TypeOK, NEW s \in Samples, Update(s)
  PROVE  SquaredSum(hist') = SquaredSum(hist) + Sq(s) - Sq(hist[hist_pos])
<1> DEFINE a == Terms(hist)
           b == Terms(hist')
           i == hist_pos + 1
<1>1. hist \in [Positions -> Samples] /\ hist' \in [Positions -> Samples]
  BY UpdateType DEF TypeOK
<1>2. hist' = [hist EXCEPT ![hist_pos] = s] /\ hist_pos \in Positions
  BY UpdateType DEF TypeOK
<1>3. i \in 1 .. HISTORY_LENGTH /\ i - 1 = hist_pos
  BY <1>2, Lengths DEF Positions
<1>4. a \in [1 .. HISTORY_LENGTH -> Int] /\ b \in [1 .. HISTORY_LENGTH -> Int]
  BY <1>1, TermsType
<1>5. \A n \in 1 .. HISTORY_LENGTH : n # i => b[n] = a[n]
  <2> SUFFICES ASSUME NEW n \in 1 .. HISTORY_LENGTH, n # i PROVE b[n] = a[n]
    OBVIOUS
  <2>1. n - 1 # hist_pos /\ n - 1 \in Positions
    BY <1>3, Lengths DEF Positions
  <2>2. hist'[n - 1] = hist[n - 1]
    BY <1>1, <1>2, <2>1
  <2> QED  BY <2>2 DEF Terms
<1>6. b[i] = Sq(s) /\ a[i] = Sq(hist[hist_pos])
  BY <1>1, <1>2, <1>3 DEF Terms
<1> HIDE DEF a, b, i
<1>7. Total(b, HISTORY_LENGTH) = Total(a, HISTORY_LENGTH) + b[i] - a[i]
  BY <1>3, <1>4, <1>5, Lengths, TotalReplace
<1> QED  BY <1>1, <1>6, <1>7, TermsType DEF a, b

LEMMA DriftInductive ==
  TypeOK /\ DriftBounded /\ [Next]_vars => DriftBounded'
<1> SUFFICES ASSUME TypeOK, DriftBounded, [Next]_vars PROVE DriftBounded'
  OBVIOUS
<1>0. ticks \in Nat /\ MaxRounding \in Nat
  BY SampleType, LengthsAssumption DEF TypeOK
<1>1. CASE Reset
  <2>1. hist' \in [Positions -> Samples] /\ hist_sq' = 0 /\ ticks' = ticks
    BY <1>1, SampleType DEF Reset
  <2>2. Terms(hist') = [n \in 1 .. HISTORY_LENGTH |-> 0]
    <3>1. \A n \in 1 .. HISTORY_LENGTH : n - 1 \in Positions
      BY Lengths DEF Positions
    <3>2. \A n \in 1 .. HISTORY_LENGTH : Sq(hist'[n - 1]) = 0
      BY <1>1, <3>1, SampleType DEF Reset
    <3> QED  BY <3>2 DEF Terms
  <2>3. SquaredSum(hist') = 0
    BY <2>1, <2>2, TermsType, ZeroTotal, Lengths
  <2>4. (ticks + 1) * MaxRounding \in Nat
    BY <1>0, MulFacts
  <2> QED  BY <2>1, <2>3, <2>4 DEF DriftBounded, Distance
<1>2. ASSUME NEW s \in Samples, Update(s) PROVE DriftBounded'
  <2> DEFINE old == hist[hist_pos]
             energy == SquaredSum(hist)
             bound == (ticks + 1) * MaxRounding
  <2>1. hist' \in [Positions -> Samples]
        /\ ticks' = IF ticks + 1 = RecomputePeriod THEN 0 ELSE ticks + 1
    BY <1>2, UpdateType
  <2>2. /\ energy \in Int /\ SquaredSum(hist') \in Int /\ hist_sq \in Int
        /\ Sq(s) \in Int /\ Sq(old) \in Int /\ bound \in Nat
    BY <1>0, <2>1, TermsType, SampleType, MulFacts DEF TypeOK
  <2>3. SquaredSum(hist') = energy + Sq(s) - Sq(old)
    BY <1>2, EnergyUpdate
  <2>4. Distance(hist_sq, energy) <= bound
    BY DEF DriftBounded
  <2>5. CASE ticks + 1 = RecomputePeriod
    <3>1. PICK error \in Errors(Silent(hist')) :
            hist_sq' = SquaredSum(hist') + error
      BY <1>2, <2>5 DEF Update, TenSeconds
    <3>2. (ticks' + 1) * MaxRounding = MaxRounding
      BY <1>0, <2>1, <2>5, MulFacts
    <3> HIDE DEF old, energy, bound
    <3> QED
      BY <1>0, <2>2, <3>1, <3>2, ErrorsType DEF DriftBounded, Distance
  <2>6. CASE ticks + 1 # RecomputePeriod
    <3>1. PICK error \in Errors(s = 0 /\ old = 0) :
            hist_sq' = Running(hist_sq, s, old, error)
      BY <1>2, <2>6 DEF Update, TenSeconds
    <3>2. (ticks' + 1) * MaxRounding = bound + MaxRounding
      BY <1>0, <2>1, <2>6, MulFacts
    <3>3. error \in Int /\ -MaxRounding <= error /\ error <= MaxRounding
      BY ErrorsType
    <3> HIDE DEF old, energy, bound
    <3>4. Distance(hist_sq', SquaredSum(hist')) <= bound + MaxRounding
      BY <1>0, <2>2, <2>3, <2>4, <3>1, <3>3 DEF Distance, Running
    <3> QED  BY <3>2, <3>4 DEF DriftBounded
  <2> QED  BY <2>5, <2>6
<1>3. CASE UNCHANGED vars
  BY <1>3 DEF vars, DriftBounded
<1> QED  BY <1>1, <1>2, <1>3 DEF Next

LEMMA DriftInit == Init => DriftBounded
<1> SUFFICES ASSUME Init PROVE DriftBounded
  OBVIOUS
<1>1. hist \in [Positions -> Samples]
  BY SampleType DEF Init
<1>2. \A n \in 1 .. HISTORY_LENGTH : n - 1 \in Positions
  BY Lengths DEF Positions
<1>3. Terms(hist) = [n \in 1 .. HISTORY_LENGTH |-> 0]
  BY <1>2, SampleType DEF Init, Terms
<1>4. SquaredSum(hist) = 0
  BY <1>1, <1>3, TermsType, ZeroTotal, Lengths
<1>5. (ticks + 1) * MaxRounding \in Nat
  BY SampleType, MulFacts DEF Init
<1> QED  BY <1>4, <1>5 DEF Init, DriftBounded, Distance

(* hist_sq is never further from the energy of the buffer than one         *)
(* rounding per sample since its last recompute.                           *)
THEOREM HistoryDriftBounded == Spec => []DriftBounded
  BY TypeInit, TypeInductive, DriftInit, DriftInductive, PTL DEF Spec

-----------------------------------------------------------------------------
(* The short sum.                                                          *)

(* Seen by age, an update shifts the buffer by one.                        *)
LEMMA AgesUpdate ==
  ASSUME TypeOK, NEW s \in Samples, Update(s)
  PROVE  /\ hist'[Index(hist_pos', 1)] = s
         /\ \A age \in 2 .. HISTORY_LENGTH :
              hist'[Index(hist_pos', age)] = hist[Index(hist_pos, age - 1)]
<1>1. /\ hist' = [hist EXCEPT ![hist_pos] = s] /\ hist_pos \in Positions
      /\ hist \in [Positions -> Samples]
      /\ hist_pos' = (hist_pos + 1) % HISTORY_LENGTH
  BY UpdateType DEF TypeOK
<1>2. hist'[Index(hist_pos', 1)] = s
  BY <1>1, IndexAges
<1>3. ASSUME NEW age \in 2 .. HISTORY_LENGTH
      PROVE hist'[Index(hist_pos', age)] = hist[Index(hist_pos, age - 1)]
  <2>1. Index(hist_pos', age) = Index(hist_pos, age - 1)
    BY <1>1, IndexAges
  <2>2. age - 1 \in 1 .. HISTORY_LENGTH - 1 /\ age - 1 \in 1 .. HISTORY_LENGTH
    BY Lengths
  <2>3. Index(hist_pos, age - 1) # hist_pos
    BY <1>1, <2>2, IndexAges
  <2>4. Index(hist_pos, age - 1) \in Positions
    BY <1>1, <2>2, IndexValue
  <2> QED  BY <1>1, <2>1, <2>3, <2>4
<1> QED  BY <1>2, <1>3

LEMMA AgeTermsUpdate ==
  ASSUME TypeOK, NEW s \in Samples, Update(s), NEW len \in 1 .. HISTORY_LENGTH
  PROVE  Total(AgeTerms(hist', hist_pos'), len)
           = Total(AgeTerms(hist, hist_pos), len)
               + Sq(s) - Sq(hist[Index(hist_pos, len)])
<1> DEFINE a == AgeTerms(hist, hist_pos)
           b == AgeTerms(hist', hist_pos')
<1>1. a \in [1 .. HISTORY_LENGTH -> Int] /\ b \in [1 .. HISTORY_LENGTH -> Int]
  BY UpdateType, AgeTermsType DEF TypeOK
<1>2. b[1] = Sq(s) /\ a[len] = Sq(hist[Index(hist_pos, len)])
  BY AgesUpdate, Lengths DEF AgeTerms
<1>3. \A n \in 2 .. HISTORY_LENGTH : b[n] = a[n - 1]
  <2> SUFFICES ASSUME NEW n \in 2 .. HISTORY_LENGTH PROVE b[n] = a[n - 1]
    OBVIOUS
  <2>1. n \in 1 .. HISTORY_LENGTH /\ n - 1 \in 1 .. HISTORY_LENGTH
    BY Lengths
  <2>2. b[n] = Sq(hist'[Index(hist_pos', n)])
    BY <2>1 DEF AgeTerms
  <2>3. a[n - 1] = Sq(hist[Index(hist_pos, n - 1)])
    BY <2>1 DEF AgeTerms
  <2> QED  BY <2>2, <2>3, AgesUpdate
<1> HIDE DEF a, b
<1>4. Total(b, len) = Total(a, len) + b[1] - a[len]
  BY <1>1, <1>3, Lengths, TotalShift
<1> QED  BY <1>2, <1>4 DEF a, b

(* A buffer that is all zeros has no energy, wherever it is written next.  *)
LEMMA SilentAges ==
  ASSUME NEW p \in Positions, NEW len \in 1 .. HISTORY_LENGTH,
         NEW h, h = [i \in Positions |-> 0]
  PROVE  Total(AgeTerms(h, p), len) = 0
<1> DEFINE a == AgeTerms(h, p)
           b == [n \in 1 .. len |-> 0]
<1>1. h \in [Positions -> Samples]
  BY SampleType
<1>2. \A age \in 1 .. HISTORY_LENGTH : Sq(h[Index(p, age)]) = 0
  BY IndexValue, SampleType
<1>3. a \in [1 .. HISTORY_LENGTH -> Int] /\ b \in [1 .. len -> Int]
  BY <1>1, AgeTermsType
<1>4. \A n \in 1 .. len : a[n] = b[n]
  BY <1>2, Lengths DEF AgeTerms
<1>5. Total(b, len) = 0
  BY ZeroTotal
<1> HIDE DEF a, b
<1>6. Total(a, len) = Total(b, len)
  <2>1. len \in 0 .. HISTORY_LENGTH /\ HISTORY_LENGTH \in Nat
    BY Lengths
  <2> QED  BY <1>3, <1>4, <2>1, TotalAgree
<1> QED  BY <1>5, <1>6 DEF a

(* The recompute adds the buffer's last sample, the oldest one, in place   *)
(* of the oldest of the RECENT_LENGTH newest.                              *)
LEMMA RecomputeError ==
  ASSUME NEW h \in [Positions -> Samples]
  PROVE  LET energy == Total(AgeTerms(h, HISTORY_LENGTH - 1), RECENT_LENGTH)
         IN  /\ energy - MaxSquare <= RecentSquaredSum(h)
             /\ RecentSquaredSum(h) <= energy + MaxSquare
<1> DEFINE p == HISTORY_LENGTH - 1
           e == AgeTerms(h, p)
           a == [n \in 1 .. RECENT_LENGTH |-> e[n]]
           b == RecentTerms(h)
<1>0. p \in Positions /\ RECENT_LENGTH \in Nat
  BY Lengths DEF Positions
<1>1. e \in [1 .. HISTORY_LENGTH -> Nat] /\ e \in [1 .. HISTORY_LENGTH -> Int]
  BY <1>0, AgeTermsType
<1>2. b \in [1 .. RECENT_LENGTH -> Int]
  BY RecentTermsType
<1>3. \A n \in 1 .. RECENT_LENGTH : e[n] = Sq(h[HISTORY_LENGTH - 1 - n])
  <2> SUFFICES ASSUME NEW n \in 1 .. RECENT_LENGTH
               PROVE e[n] = Sq(h[HISTORY_LENGTH - 1 - n])
    OBVIOUS
  <2>1. n \in 1 .. HISTORY_LENGTH /\ n <= p
    BY Lengths, LengthsAssumption
  <2>2. Index(p, n) = p - n
    BY <1>0, <2>1, IndexValue
  <2> QED  BY <2>1, <2>2 DEF AgeTerms
<1>4. \A n \in 2 .. RECENT_LENGTH : b[n] = a[n - 1]
  <2> SUFFICES ASSUME NEW n \in 2 .. RECENT_LENGTH PROVE b[n] = a[n - 1]
    OBVIOUS
  <2>1. n \in 1 .. RECENT_LENGTH /\ n - 1 \in 1 .. RECENT_LENGTH
    BY Lengths
  <2>2. a[n - 1] = Sq(h[HISTORY_LENGTH - 1 - (n - 1)])
    BY <1>3, <2>1
  <2>3. HISTORY_LENGTH - 1 - (n - 1) = HISTORY_LENGTH - n
    BY Lengths
  <2>4. b[n] = Sq(h[HISTORY_LENGTH - n])
    BY <2>1 DEF RecentTerms
  <2> QED  BY <2>2, <2>3, <2>4
<1>5. a \in [1 .. RECENT_LENGTH -> Int]
  BY <1>1, Lengths
<1>6. /\ b[1] \in Nat /\ b[1] <= MaxSquare
      /\ a[RECENT_LENGTH] \in Nat /\ a[RECENT_LENGTH] <= MaxSquare
  <2>1. /\ b[1] = Sq(h[HISTORY_LENGTH - 1])
        /\ a[RECENT_LENGTH] = Sq(h[HISTORY_LENGTH - 1 - RECENT_LENGTH])
    BY <1>3, Lengths DEF RecentTerms
  <2>2. HISTORY_LENGTH - 1 \in Positions
        /\ HISTORY_LENGTH - 1 - RECENT_LENGTH \in Positions
    BY Lengths, LengthsAssumption DEF Positions
  <2> QED  BY <2>1, <2>2, SampleType
<1>7. \A n \in 1 .. RECENT_LENGTH : a[n] = e[n]
  OBVIOUS
<1> HIDE DEF a, b, e, p
<1>8. Total(b, RECENT_LENGTH)
        = Total(a, RECENT_LENGTH) + b[1] - a[RECENT_LENGTH]
  <2>1. RECENT_LENGTH \in 1 .. RECENT_LENGTH
    BY Lengths
  <2> QED  BY <1>0, <1>2, <1>4, <1>5, <2>1, TotalShift
<1>9. Total(a, RECENT_LENGTH) = Total(e, RECENT_LENGTH)
  <2>1. RECENT_LENGTH \in 0 .. HISTORY_LENGTH /\ HISTORY_LENGTH \in Nat
    BY Lengths
  <2>2. \A n \in 1 .. RECENT_LENGTH : e[n] = a[n]
    BY <1>7
  <2> QED  BY <1>1, <1>5, <2>1, <2>2, TotalAgree
<1>10. RECENT_LENGTH \in 0 .. HISTORY_LENGTH
  BY Lengths
<1>11. Total(e, RECENT_LENGTH) \in Int
  BY <1>1, <1>10, Lengths, TotalFacts
<1> QED
  BY <1>6, <1>8, <1>9, <1>11, RecentTermsType, SampleType DEF b, e, p

(* The roundings since the recompute are counted by hist_pos.              *)
Roundings(p) == IF p = HISTORY_LENGTH - 1 THEN 1 ELSE p + 2

RecentInv ==
  Distance(recent_hist_sq, RecentEnergy)
    <= MaxSquare + Roundings(hist_pos) * MaxRounding

LEMMA RecentInvInductive ==
  TypeOK /\ RecentInv /\ [Next]_vars => RecentInv'
<1> SUFFICES ASSUME TypeOK, RecentInv, [Next]_vars PROVE RecentInv'
  OBVIOUS
<1> DEFINE count == Roundings(hist_pos)
           new_count == Roundings(hist_pos')
           energy == Total(AgeTerms(hist, hist_pos), RECENT_LENGTH)
           new_energy == Total(AgeTerms(hist', hist_pos'), RECENT_LENGTH)
<1>0. /\ count \in Nat /\ MaxRounding \in Nat
      /\ count * MaxRounding \in Nat
  BY SampleType, MulFacts DEF TypeOK, Positions, Roundings
<1>a. RecentEnergy = energy /\ RecentEnergy' = new_energy
  BY RecentEnergyIsTotal DEF RecentEnergy, AgeTerms, GetHist, Index
<1>1. CASE Reset
  <2>1. /\ hist' = [i \in Positions |-> 0] /\ hist_pos' = 0 /\ hist_pos' \in Positions
        /\ recent_hist_sq' = 0
    BY <1>1, Lengths DEF Reset, Positions
  <2>2. new_energy = 0
    BY <2>1, SilentAges, Lengths
  <2>3. new_count \in Nat /\ new_count * MaxRounding \in Nat
    BY <2>1, <1>0, Lengths, MulFacts DEF Roundings
  <2> HIDE DEF energy, new_energy, count, new_count
  <2>4. Distance(recent_hist_sq', new_energy) <= MaxSquare + new_count * MaxRounding
    BY <2>1, <2>2, <2>3, SampleType DEF Distance
  <2> QED  BY <2>4, <1>a DEF RecentInv, new_count, new_energy
<1>2. ASSUME NEW s \in Samples, Update(s) PROVE RecentInv'
  <2> DEFINE old == hist[RecentPos]
             bound == count * MaxRounding
  <2>1. /\ hist' \in [Positions -> Samples] /\ hist_pos' \in Positions
        /\ hist_pos' = IF hist_pos = HISTORY_LENGTH - 1 THEN 0 ELSE hist_pos + 1
    BY <1>2, UpdateType
  <2>2. /\ energy \in Int /\ new_energy \in Int /\ recent_hist_sq \in Int
        /\ Sq(s) \in Int /\ Sq(old) \in Int /\ MaxSquare \in Nat /\ bound \in Nat
    <3>1. RECENT_LENGTH \in 0 .. HISTORY_LENGTH
      BY Lengths
    <3>2. energy \in Int /\ new_energy \in Int
      BY <2>1, <3>1, AgeTermsType DEF TypeOK
    <3> QED  BY <1>0, <3>2, SampleType, RecentPosValue DEF TypeOK
  <2>3. new_energy = energy + Sq(s) - Sq(old)
    BY <1>2, AgeTermsUpdate, RecentPosValue, Lengths
  <2>4. Distance(recent_hist_sq, energy) <= MaxSquare + bound
    BY <1>a DEF RecentInv
  <2>5. CASE hist_pos' = HISTORY_LENGTH - 1
    <3>1. PICK error \in Errors(Silent(hist')) :
            recent_hist_sq' = RecentSquaredSum(hist') + error
      BY <1>2, <2>5 DEF Update, TenSeconds
    <3>2. new_count * MaxRounding = MaxRounding
      BY <1>0, <2>5, MulFacts DEF Roundings
    <3>3. /\ new_energy - MaxSquare <= RecentSquaredSum(hist')
          /\ RecentSquaredSum(hist') <= new_energy + MaxSquare
          /\ RecentSquaredSum(hist') \in Int
      BY <2>1, <2>5, RecomputeError, RecentTermsType
    <3>4. error \in Int /\ -MaxRounding <= error /\ error <= MaxRounding
      BY ErrorsType
    <3> HIDE DEF energy, new_energy, count, new_count, bound, old
    <3>5. Distance(recent_hist_sq', new_energy) <= MaxSquare + MaxRounding
      BY <1>0, <2>2, <3>1, <3>3, <3>4 DEF Distance
    <3>6. Distance(recent_hist_sq', new_energy) <= MaxSquare + new_count * MaxRounding
      BY <3>2, <3>5
    <3> QED  BY <3>6, <1>a DEF RecentInv, new_count, new_energy
  <2>6. CASE hist_pos' # HISTORY_LENGTH - 1
    <3>1. PICK error \in Errors(s = 0 /\ old = 0) :
            recent_hist_sq' = Running(recent_hist_sq, s, old, error)
      BY <1>2, <2>6 DEF Update, TenSeconds
    <3>2. new_count = count + 1
      BY <2>1, <2>6, Lengths DEF TypeOK, Positions, Roundings
    <3>3. new_count * MaxRounding = bound + MaxRounding
      BY <1>0, <3>2, MulFacts
    <3>4. error \in Int /\ -MaxRounding <= error /\ error <= MaxRounding
      BY ErrorsType
    <3> HIDE DEF energy, new_energy, count, new_count, bound, old
    <3>5. Distance(recent_hist_sq', new_energy) <= MaxSquare + (bound + MaxRounding)
      BY <1>0, <2>2, <2>3, <2>4, <3>1, <3>4 DEF Distance, Running
    <3>6. Distance(recent_hist_sq', new_energy) <= MaxSquare + new_count * MaxRounding
      BY <3>3, <3>5
    <3> QED  BY <3>6, <1>a DEF RecentInv, new_count, new_energy
  <2> QED  BY <2>5, <2>6
<1>3. CASE UNCHANGED vars
  BY <1>3 DEF vars, RecentInv, RecentEnergy, GetHist
<1> QED  BY <1>1, <1>2, <1>3 DEF Next

LEMMA RecentInvInit == Init => RecentInv
<1> SUFFICES ASSUME Init PROVE RecentInv
  OBVIOUS
<1>1. hist_pos = 0 /\ hist_pos \in Positions /\ recent_hist_sq = 0
      /\ hist = [i \in Positions |-> 0]
  BY Lengths DEF Init, Positions
<1>2. Total(AgeTerms(hist, hist_pos), RECENT_LENGTH) = 0
  BY <1>1, SilentAges, Lengths
<1>3. 2 * MaxRounding \in Nat /\ HISTORY_LENGTH - 1 # 0
  BY SampleType, MulFacts, Lengths
<1>4. RecentEnergy = 0
  BY <1>2, RecentEnergyIsTotal
<1>5. Distance(recent_hist_sq, RecentEnergy) <= MaxSquare + 2 * MaxRounding
  BY <1>1, <1>3, <1>4, SampleType DEF Distance
<1> QED  BY <1>1, <1>3, <1>5 DEF RecentInv, Roundings

LEMMA RecentInvBounds == TypeOK /\ RecentInv => RecentBounded
<1> SUFFICES ASSUME TypeOK, RecentInv PROVE RecentBounded
  OBVIOUS
<1> DEFINE count == Roundings(hist_pos)
           distance == Distance(recent_hist_sq, RecentEnergy)
<1>1. count \in Nat /\ HISTORY_LENGTH + 1 \in Nat /\ count <= HISTORY_LENGTH + 1
  BY Lengths DEF TypeOK, Positions, Roundings
<1>2. distance <= MaxSquare + count * MaxRounding
  BY DEF RecentInv
<1>3. distance \in Int
  <2>1. RecentEnergy \in Int
    BY AgeTermsType, RecentEnergyIsTotal, Lengths DEF TypeOK
  <2> QED  BY <2>1 DEF Distance, TypeOK
<1> HIDE DEF count, distance
<1>4. count * MaxRounding <= (HISTORY_LENGTH + 1) * MaxRounding
  BY <1>1, SampleType, MulMonotone
<1>5. /\ count * MaxRounding \in Nat /\ (HISTORY_LENGTH + 1) * MaxRounding \in Nat
  BY <1>1, SampleType, MulFacts
<1>6. distance <= MaxSquare + (HISTORY_LENGTH + 1) * MaxRounding
  BY <1>2, <1>3, <1>4, <1>5, SampleType
<1> QED  BY <1>6 DEF RecentBounded, MaxRecentError, distance

(* recent_hist_sq is never further from the energy of the newest samples   *)
(* than one sample's square and the roundings of one lap of the buffer.    *)
THEOREM HistoryRecentBounded == Spec => []RecentBounded
  BY TypeInit, TypeInductive, RecentInvInit, RecentInvInductive,
     RecentInvBounds, PTL DEF Spec

-----------------------------------------------------------------------------
(* The gate.                                                               *)

(* Summed by age or by index, the buffer has the same energy.              *)
AgeInv ==
  Total(AgeTerms(hist, hist_pos), HISTORY_LENGTH) = SquaredSum(hist)

LEMMA SilentEnergy ==
  ASSUME NEW h, h = [i \in Positions |-> 0]
  PROVE  SquaredSum(h) = 0
<1>1. h \in [Positions -> Samples]
  BY SampleType
<1>2. \A n \in 1 .. HISTORY_LENGTH : n - 1 \in Positions
  BY Lengths DEF Positions
<1>3. Terms(h) = [n \in 1 .. HISTORY_LENGTH |-> 0]
  BY <1>2, SampleType DEF Terms
<1> QED  BY <1>1, <1>3, TermsType, ZeroTotal, Lengths

LEMMA AgeInvInductive == TypeOK /\ AgeInv /\ [Next]_vars => AgeInv'
<1> SUFFICES ASSUME TypeOK, AgeInv, [Next]_vars PROVE AgeInv'
  OBVIOUS
<1>0. HISTORY_LENGTH \in 1 .. HISTORY_LENGTH
  BY Lengths
<1>1. CASE Reset
  <2>1. hist' = [i \in Positions |-> 0] /\ hist_pos' \in Positions
    BY <1>1, Lengths DEF Reset, Positions
  <2> QED  BY <1>0, <2>1, SilentAges, SilentEnergy DEF AgeInv
<1>2. ASSUME NEW s \in Samples, Update(s) PROVE AgeInv'
  <2>1. Index(hist_pos, HISTORY_LENGTH) = hist_pos
    BY <1>2, UpdateType, IndexAges DEF TypeOK
  <2>2. Total(AgeTerms(hist', hist_pos'), HISTORY_LENGTH)
          = Total(AgeTerms(hist, hist_pos), HISTORY_LENGTH)
              + Sq(s) - Sq(hist[hist_pos])
    BY <1>0, <1>2, <2>1, AgeTermsUpdate
  <2> QED  BY <1>2, <2>2, EnergyUpdate DEF AgeInv
<1>3. CASE UNCHANGED vars
  BY <1>3 DEF vars, AgeInv
<1> QED  BY <1>1, <1>2, <1>3 DEF Next

LEMMA AgeInvInit == Init => AgeInv
<1> SUFFICES ASSUME Init PROVE AgeInv
  OBVIOUS
<1>1. hist = [i \in Positions |-> 0] /\ hist_pos \in Positions
      /\ HISTORY_LENGTH \in 1 .. HISTORY_LENGTH
  BY Lengths DEF Init, Positions
<1> QED  BY <1>1, SilentAges, SilentEnergy DEF AgeInv

(* The newest samples have no more energy than the whole buffer.           *)
LEMMA RecentIsPart ==
  ASSUME TypeOK, AgeInv
  PROVE  RecentEnergy <= SquaredSum(hist) /\ RecentEnergy \in Int
<1>1. AgeTerms(hist, hist_pos) \in [1 .. HISTORY_LENGTH -> Nat]
  BY AgeTermsType DEF TypeOK
<1>2. RECENT_LENGTH \in 0 .. HISTORY_LENGTH /\ HISTORY_LENGTH \in Nat
  BY Lengths
<1>3. Total(AgeTerms(hist, hist_pos), RECENT_LENGTH) \in Int
  BY <1>2, AgeTermsType DEF TypeOK
<1> QED  BY <1>1, <1>2, <1>3, TotalMonotone, RecentEnergyIsTotal DEF AgeInv

LEMMA ErrorBounds ==
  /\ MaxDrift \in Nat /\ MaxRecentError \in Nat
  /\ TypeOK => (ticks + 1) * MaxRounding \in Nat
                /\ (ticks + 1) * MaxRounding <= MaxDrift
<1>1. RecomputePeriod \in Nat /\ HISTORY_LENGTH + 1 \in Nat
  BY Lengths, LengthsAssumption
<1>2. MaxDrift \in Nat /\ MaxRecentError \in Nat
  BY <1>1, SampleType, MulFacts DEF MaxDrift, MaxRecentError
<1>3. ASSUME TypeOK
      PROVE  /\ (ticks + 1) * MaxRounding \in Nat
             /\ (ticks + 1) * MaxRounding <= MaxDrift
  <2>1. ticks + 1 \in Nat /\ ticks + 1 <= RecomputePeriod
    BY <1>3, LengthsAssumption DEF TypeOK
  <2> QED  BY <1>1, <2>1, SampleType, MulFacts, MulMonotone DEF MaxDrift
<1> QED  BY <1>2, <1>3

(* hist_sq tells the energy of the buffer to within MaxDrift.              *)
DriftWithinMax ==
  /\ SquaredSum(hist) \in Int /\ hist_sq \in Int
  /\ SquaredSum(hist) <= hist_sq + MaxDrift

LEMMA DriftWithin == TypeOK /\ DriftBounded => DriftWithinMax
<1> SUFFICES ASSUME TypeOK, DriftBounded PROVE DriftWithinMax
  OBVIOUS
<1> DEFINE energy == SquaredSum(hist)
           drift == (ticks + 1) * MaxRounding
<1>1. drift \in Nat /\ drift <= MaxDrift /\ MaxDrift \in Nat
  BY ErrorBounds
<1>2. energy \in Int /\ hist_sq \in Int
  BY TermsType DEF TypeOK
<1>3. Distance(hist_sq, energy) <= drift
  BY DEF DriftBounded
<1> HIDE DEF energy, drift
<1>4. energy <= hist_sq + MaxDrift
  BY <1>1, <1>2, <1>3 DEF Distance
<1> QED  BY <1>2, <1>4 DEF energy, DriftWithinMax

LEMMA NeverDecides ==
  TypeOK /\ AgeInv /\ DriftBounded /\ RecentBounded => RecentNeverDecides
<1> SUFFICES ASSUME TypeOK, AgeInv, DriftBounded, RecentBounded,
                    GateThreshold + MaxDrift + MaxRecentError <= RecentThreshold,
                    Quiet
             PROVE  RecentlyQuiet
  BY DEF RecentNeverDecides
<1> DEFINE energy == SquaredSum(hist)
           recent == RecentEnergy
<1>1. energy <= hist_sq + MaxDrift
  BY DriftWithin DEF DriftWithinMax
<1>2. energy \in Int /\ recent \in Int /\ recent <= energy
  BY DriftWithin, RecentIsPart DEF DriftWithinMax
<1>3. Distance(recent_hist_sq, recent) <= MaxRecentError
  BY DEF RecentBounded
<1>4. hist_sq < GateThreshold /\ hist_sq \in Int /\ recent_hist_sq \in Int
  BY DEF Quiet, TypeOK
<1> HIDE DEF energy, recent
<1>5. recent_hist_sq <= recent + MaxRecentError
  BY <1>2, <1>3, <1>4, ErrorBounds DEF Distance
<1>6. recent_hist_sq < RecentThreshold
  BY <1>1, <1>2, <1>4, <1>5, ErrorBounds, ThresholdsAssumption
<1> QED  BY <1>6 DEF RecentlyQuiet

(* update's second gate condition follows from its first one.              *)
THEOREM HistoryRecentNeverDecides == Spec => []RecentNeverDecides
  BY TypeInit, TypeInductive, RecentInvInit, RecentInvInductive, RecentInvBounds,
     DriftInit, DriftInductive, AgeInvInit, AgeInvInductive, NeverDecides, PTL
  DEF Spec

(* A sample that is loud enough opens the gate in the same call of update. *)
THEOREM HistoryOnsetOpensGate == Spec => OnsetOpensGate
<1> DEFINE A == \A s \in Samples :
                  /\ Sq(s) >= GateThreshold + MaxDrift
                  /\ Update(s)
                  => ~Quiet'
<1>1. TypeOK /\ TypeOK' /\ DriftBounded' => A
  <2> SUFFICES ASSUME TypeOK, TypeOK', DriftBounded', NEW s \in Samples,
                      Sq(s) >= GateThreshold + MaxDrift,
                      Update(s)
               PROVE  ~Quiet'
    OBVIOUS
  <2> DEFINE energy == SquaredSum(hist')
  <2>1. /\ hist' \in [Positions -> Samples] /\ hist'[hist_pos] = s
        /\ hist_pos \in Positions
    BY UpdateType DEF TypeOK
  <2>2. Sq(s) <= energy
    <3> DEFINE a == Terms(hist')
               i == hist_pos + 1
    <3>1. i \in 1 .. HISTORY_LENGTH /\ i - 1 = hist_pos
      BY <2>1, Lengths DEF Positions
    <3>2. a \in [1 .. HISTORY_LENGTH -> Nat] /\ a[i] = Sq(s)
      BY <2>1, <3>1, TermsType DEF Terms
    <3>3. energy = Total(a, HISTORY_LENGTH)
      BY <2>1, TermsType
    <3> HIDE DEF a, i, energy
    <3> QED  BY <3>1, <3>2, <3>3, TotalAtLeast, Lengths
  <2>3. energy \in Int /\ hist_sq' \in Int /\ energy <= hist_sq' + MaxDrift
    <3>1. (TypeOK /\ DriftBounded => DriftWithinMax)'
      BY DriftWithin, PTL
    <3> QED  BY <3>1 DEF DriftWithinMax
  <2>4. Sq(s) \in Int
    BY SampleType
  <2>5. hist_sq' >= GateThreshold
    <3>1. MaxDrift \in Int /\ GateThreshold \in Int
      BY ErrorBounds, ThresholdsAssumption
    <3>2. PICK x \in Int, e \in Int, d \in Int, h \in Int, g \in Int :
            /\ x = Sq(s) /\ e = energy /\ d = MaxDrift /\ h = hist_sq'
            /\ g = GateThreshold
      BY <2>3, <2>4, <3>1
    <3>3. x <= e /\ e <= h + d /\ x >= g + d
      BY <2>2, <2>3, <3>2
    <3>4. h >= g
      BY <3>3
    <3> QED  BY <3>2, <3>4
  <2> QED  BY <2>3, <2>5, ThresholdsAssumption DEF Quiet
<1> QED
  BY <1>1, TypeInit, TypeInductive, DriftInit, DriftInductive, PTL
  DEF Spec, OnsetOpensGate

-----------------------------------------------------------------------------
(* The ring buffer implements the window of the newest samples.            *)

Ages == [age \in 1 .. HISTORY_LENGTH |-> GetHist(age)]

LEMMA AgesByIndex ==
  \A age \in 1 .. HISTORY_LENGTH : Ages[age] = hist[Index(hist_pos, age)]
  BY DEF Ages, GetHist, Index

LEMMA NextAgesByIndex ==
  \A age \in 1 .. HISTORY_LENGTH : Ages'[age] = hist'[Index(hist_pos', age)]
  BY DEF Ages, GetHist, Index

LEMMA WindowInit == Init => Window!Init
<1> SUFFICES ASSUME Init PROVE Window!Init
  OBVIOUS
<1>1. \A age \in 1 .. HISTORY_LENGTH : GetHist(age) = 0
  <2>1. hist_pos \in Positions /\ hist = [i \in Positions |-> 0]
    BY Lengths DEF Init, Positions
  <2> QED  BY <2>1, IndexValue DEF GetHist, Index
<1> QED  BY <1>1 DEF Window!Init

LEMMA WindowNext ==
  TypeOK /\ [Next]_vars => [Window!Next]_Ages
<1> SUFFICES ASSUME TypeOK, [Next]_vars PROVE Window!Next \/ Ages' = Ages
  OBVIOUS
<1>1. CASE Reset
  <2>1. hist' = [i \in Positions |-> 0] /\ hist_pos' \in Positions
    BY <1>1, Lengths DEF Reset, Positions
  <2>2. \A age \in 1 .. HISTORY_LENGTH : Ages'[age] = 0
    BY <2>1, IndexValue, NextAgesByIndex
  <2>3. Ages' = [age \in 1 .. HISTORY_LENGTH |-> 0]
    BY <2>2 DEF Ages
  <2> QED  BY <2>3 DEF Window!Next, Window!Clear, Ages
<1>2. ASSUME NEW s \in Samples, Update(s) PROVE Window!Push(s)
  <2>1. \A age \in 1 .. HISTORY_LENGTH :
          Ages'[age] = IF age = 1 THEN s ELSE Ages[age - 1]
    <3> SUFFICES ASSUME NEW age \in 1 .. HISTORY_LENGTH
                 PROVE Ages'[age] = IF age = 1 THEN s ELSE Ages[age - 1]
      OBVIOUS
    <3>1. CASE age = 1
      <4>1. Ages'[age] = hist'[Index(hist_pos', 1)]
        BY <3>1, NextAgesByIndex
      <4>2. hist'[Index(hist_pos', 1)] = s
        BY <1>2, AgesUpdate
      <4> QED  BY <3>1, <4>1, <4>2
    <3>2. CASE age # 1
      <4>1. age \in 2 .. HISTORY_LENGTH /\ age - 1 \in 1 .. HISTORY_LENGTH
        BY <3>2, Lengths
      <4>2. Ages'[age] = hist[Index(hist_pos, age - 1)]
        <5>1. Ages'[age] = hist'[Index(hist_pos', age)]
          BY NextAgesByIndex
        <5>2. hist'[Index(hist_pos', age)] = hist[Index(hist_pos, age - 1)]
          BY <1>2, <4>1, AgesUpdate
        <5> QED  BY <5>1, <5>2
      <4> QED  BY <3>2, <4>1, <4>2, AgesByIndex
    <3> QED  BY <3>1, <3>2
  <2>2. Ages' = [age \in 1 .. HISTORY_LENGTH |->
                   IF age = 1 THEN s ELSE Ages[age - 1]]
    BY <2>1 DEF Ages
  <2> QED  BY <2>2 DEF Window!Push, Ages
<1>3. CASE UNCHANGED vars
  BY <1>3 DEF vars, Ages, GetHist
<1> QED  BY <1>1, <1>2, <1>3 DEF Next, Window!Next

(* Read by age, the ring buffer is a window that every sample moves by one *)
(* and that a changed setting empties.                                     *)
THEOREM HistoryImplementsWindow == Spec => ImplementsWindow
<1>1. TypeOK /\ [Next]_vars => [Window!Next]_Ages
  BY WindowNext
<1> QED
  BY <1>1, TypeInit, TypeInductive, WindowInit, PTL
  DEF Spec, ImplementsWindow, Window!Spec, Ages

-----------------------------------------------------------------------------
(* The race with the poller.                                               *)

(* The squares of k samples.                                               *)
Cost(k) == k * RaceSquare

LEMMA CostFacts ==
  \A k \in Nat : Cost(k) \in Nat /\ Cost(k + 1) = Cost(k) + RaceSquare /\ Cost(0) = 0
  BY RaceAssumption, MulFacts DEF Cost

LEMMA RaceSquares ==
  /\ RaceSquare \in Nat /\ 0 \in RaceSamples /\ RaceLength \in Nat \ {0}
  /\ \A s \in RaceSamples : s \in Int /\ Race!Sq(s) \in Nat /\ Race!Sq(s) <= RaceSquare
  BY RaceAssumption DEF Race!Sq, Sq

(* The product of two samples is no larger than the larger square.         *)
LEMMA RaceProduct ==
  ASSUME NEW a \in RaceSamples, NEW b \in RaceSamples
  PROVE  a * b \in Int /\ -RaceSquare <= a * b /\ a * b <= RaceSquare
<1>1. a \in Int /\ b \in Int /\ a * a <= RaceSquare /\ b * b <= RaceSquare /\ RaceSquare \in Nat
  BY RaceSquares DEF Race!Sq
<1>2. \A x \in Int, y \in Int :
        /\ 2 * (x * y) <= x * x + y * y /\ -(x * x + y * y) <= 2 * (x * y)
        /\ x * y \in Int /\ x * x \in Int /\ y * y \in Int
  <2>1. ASSUME NEW x \in Int, NEW y \in Int
        PROVE  0 <= (x - y) * (x - y) /\ 0 <= (x + y) * (x + y)
    <3>1. \A z \in Int : 0 <= z * z
      BY SMT
    <3>2. x - y \in Int /\ x + y \in Int
      OBVIOUS
    <3>. QED
      BY <3>1, <3>2
  <2>2. ASSUME NEW x \in Int, NEW y \in Int
        PROVE  /\ (x - y) * (x - y) = x * x - 2 * (x * y) + y * y
               /\ (x + y) * (x + y) = x * x + 2 * (x * y) + y * y
    BY SMT
  <2>. QED
    BY <2>1, <2>2
<1> DEFINE p == a * b
           q == a * a
           r == b * b
<1>3. 2 * p <= q + r /\ -(q + r) <= 2 * p /\ p \in Int /\ q \in Int /\ r \in Int
  BY <1>1, <1>2
<1>4. q <= RaceSquare /\ r <= RaceSquare /\ RaceSquare \in Nat
  BY <1>1
<1>. HIDE DEF p, q, r
<1>5. p \in Int /\ -RaceSquare <= p /\ p <= RaceSquare
  BY <1>3, <1>4
<1>. QED
  BY <1>5 DEF p

LEMMA RaceFollowing ==
  ASSUME NEW p \in Race!Positions
  PROVE  Race!Following(p) \in Race!Positions
<1>1. p + 1 \in Nat /\ RaceLength \in Nat \ {0}
  BY RaceSquares DEF Race!Positions
<1>. QED
  BY <1>1, ModFacts DEF Race!Following, Race!Positions

LEMMA RaceClock ==
  ASSUME clock \in 0 .. RacePeriod - 1
  PROVE  /\ (clock + 1) % RacePeriod \in 0 .. RacePeriod - 1
         /\ (clock + 1) % RacePeriod = IF Race!TenSeconds THEN 0 ELSE clock + 1
<1>1. RacePeriod \in Nat \ {0} /\ clock + 1 \in Nat /\ clock + 1 <= RacePeriod
  BY RaceAssumption
<1>2. CASE Race!TenSeconds
  <2>1. clock + 1 = RacePeriod
    BY <1>2 DEF Race!TenSeconds
  <2>2. RacePeriod % RacePeriod = 0
    <3>1. RacePeriod <= RacePeriod /\ RacePeriod < 2 * RacePeriod /\ RacePeriod - RacePeriod = 0
      BY <1>1
    <3>. QED
      BY <1>1, <3>1, ModFacts
  <2>3. 0 \in 0 .. RacePeriod - 1
    BY <1>1
  <2>. QED
    BY <1>2, <2>1, <2>2, <2>3
<1>3. CASE ~ Race!TenSeconds
  <2>1. clock + 1 < RacePeriod
    BY <1>1, <1>3 DEF Race!TenSeconds
  <2>. QED
    BY <1>1, <1>3, <2>1, ModFacts
<1>. QED
  BY <1>2, <1>3

-----------------------------------------------------------------------------
(* The energy of the buffer, as the race has it.                           *)

Squares(h) == [n \in 1 .. RaceLength |-> Race!Sq(h[n - 1])]

Energy == Total(Squares(buffer), RaceLength)

(* What hist_squared_sum has added up before it comes to an index.         *)
EnergyBefore(i) == Total(Squares(buffer), i)

LEMMA SquaresType ==
  ASSUME NEW h \in [Race!Positions -> RaceSamples]
  PROVE  /\ Squares(h) \in [1 .. RaceLength -> Nat]
         /\ \A i \in Race!Positions :
              /\ i + 1 \in 1 .. RaceLength /\ Squares(h)[i + 1] = Race!Sq(h[i])
              /\ (i + 1) - 1 = i
<1>1. \A n \in 1 .. RaceLength : n - 1 \in Race!Positions
  BY RaceSquares DEF Race!Positions
<1>2. \A i \in Race!Positions : i + 1 \in 1 .. RaceLength /\ (i + 1) - 1 = i
  BY RaceSquares DEF Race!Positions
<1>3. \A n \in 1 .. RaceLength : Race!Sq(h[n - 1]) \in Nat
  BY <1>1, RaceSquares
<1>. QED
  BY <1>2, <1>3 DEF Squares

LEMMA RaceEnergy ==
  ASSUME NEW h
  PROVE  Race!SquaredSum(h) = Total(Squares(h), RaceLength)
BY DEF Race!SquaredSum, Race!Total, Total, Squares

LEMMA EnergyFacts ==
  ASSUME Race!TypeOK
  PROVE  /\ Energy \in Int
         /\ EnergyBefore(0) = 0 /\ EnergyBefore(RaceLength) = Energy
         /\ \A i \in Race!Positions :
              /\ EnergyBefore(i) \in Int
              /\ EnergyBefore(i + 1) = EnergyBefore(i) + Race!Sq(buffer[i])
<1> DEFINE a == Squares(buffer)
<1>1. /\ a \in [1 .. RaceLength -> Nat] /\ RaceLength \in Nat
      /\ \A i \in Race!Positions :
           i + 1 \in 1 .. RaceLength /\ a[i + 1] = Race!Sq(buffer[i]) /\ (i + 1) - 1 = i
  BY SquaresType, RaceSquares DEF Race!TypeOK
<1>. HIDE DEF a
<1>2. a \in [1 .. RaceLength -> Int]
  BY <1>1
<1>3. /\ Total(a, 0) = 0
      /\ \A len \in 0 .. RaceLength : Total(a, len) \in Int
      /\ \A len \in 1 .. RaceLength : Total(a, len) = Total(a, len - 1) + a[len]
  BY <1>1, <1>2, TotalFacts
<1>4. \A i \in Race!Positions : i \in 0 .. RaceLength
  BY <1>1 DEF Race!Positions
<1>5. \A i \in Race!Positions : Total(a, i + 1) = Total(a, i) + Race!Sq(buffer[i])
  BY <1>1, <1>3
<1>6. RaceLength \in 0 .. RaceLength
  BY <1>1
<1>. QED
  BY <1>3, <1>4, <1>5, <1>6 DEF Energy, EnergyBefore, a

LEMMA EnergyPut ==
  ASSUME Race!TypeOK, NEW i \in Race!Positions, NEW s \in RaceSamples,
         buffer' = [buffer EXCEPT ![i] = s]
  PROVE  Energy' = Energy + Race!Sq(s) - Race!Sq(buffer[i])
<1> DEFINE a == Squares(buffer)
           b == Squares(buffer')
<1>1. buffer \in [Race!Positions -> RaceSamples] /\ buffer' \in [Race!Positions -> RaceSamples]
  BY DEF Race!TypeOK
<1>2. /\ a \in [1 .. RaceLength -> Nat] /\ b \in [1 .. RaceLength -> Nat]
      /\ i + 1 \in 1 .. RaceLength
      /\ a[i + 1] = Race!Sq(buffer[i]) /\ b[i + 1] = Race!Sq(buffer'[i])
  BY <1>1, SquaresType
<1>3. buffer'[i] = s
  BY <1>1
<1>4. \A n \in 1 .. RaceLength : n # i + 1 => b[n] = a[n]
  <2>. SUFFICES ASSUME NEW n \in 1 .. RaceLength, n # i + 1 PROVE b[n] = a[n]
    OBVIOUS
  <2>1. n - 1 # i /\ n - 1 \in Race!Positions
    BY RaceSquares DEF Race!Positions
  <2>2. buffer'[n - 1] = buffer[n - 1]
    BY <1>1, <2>1
  <2>. QED
    BY <2>2 DEF Squares
<1>. HIDE DEF a, b
<1>5. a \in [1 .. RaceLength -> Int] /\ b \in [1 .. RaceLength -> Int]
  BY <1>2
<1>6. Total(b, RaceLength) = Total(a, RaceLength) + b[i + 1] - a[i + 1]
  BY <1>2, <1>4, <1>5, RaceSquares, TotalReplace
<1>. QED
  BY <1>2, <1>3, <1>6 DEF Energy, a, b

LEMMA EnergyOfSilence ==
  ASSUME Race!TypeOK, \A i \in Race!Positions : buffer[i] = 0
  PROVE  Energy = 0
<1>1. \A n \in 1 .. RaceLength : n - 1 \in Race!Positions
  BY RaceSquares DEF Race!Positions
<1>2. Squares(buffer) = [n \in 1 .. RaceLength |-> 0]
  BY <1>1 DEF Squares, Race!Sq
<1>. QED
  BY <1>2, ZeroTotal, RaceSquares DEF Energy

-----------------------------------------------------------------------------
(* What holds at each place of update and hist_squared_sum.                *)

(* x is within what a sum can be k samples after a recompute, plus more.   *)
Within(x, k, more) ==
  -Cost(k) <= x /\ x <= Cost(RaceLength) + 2 * Cost(k) + more

BoundInv ==
  /\ pc = "idle" => Within(total, clock, 0)
  /\ pc = "add" => Within(total, clock, 0) /\ Within(loaded, clock, 0)
  /\ pc = "load" => Within(total, clock, RaceSquare)
  /\ pc \in {"first", "second"} =>
       Within(total, clock, RaceSquare) /\ Within(loaded, clock, RaceSquare)
  /\ pc = "subtract" => Within(total, clock, RaceSquare) /\ Within(loaded, clock + 1, 0)
  /\ pc \in {"place", "put", "position", "advance"} => Within(total, clock + 1, 0)
  /\ pc = "square" => 0 <= loaded /\ loaded <= Cost(slot)
  /\ pc = "recompute" => 0 <= loaded /\ loaded <= Cost(RaceLength)

(* init_octaver has cleared what it does not have yet to clear.            *)
Wiped ==
  /\ \A i \in Race!Positions : Race!Element(i) \in pending \/ buffer[i] = 0
  /\ <<"hist_sq", 0>> \in pending \/ total = 0

(* Unless the threads overlapped, the audio thread finds no field pending  *)
(* and the sum lacks what it has yet to add and to subtract.               *)
ExactInv ==
  /\ pc \in {"place", "put", "position", "advance"} => loaded = 0
  /\ ~raced =>
       /\ pc # "idle" => pending = {}
       /\ pc = "idle" => Wiped \/ (pending = {} /\ total = Energy)
       /\ pc = "add" => loaded = total /\ total = Energy
       /\ pc = "load" => total = Energy + Race!Sq(sample)
       /\ pc \in {"first", "second"} => loaded = total /\ total = Energy + Race!Sq(sample)
       /\ pc = "second" => factor = buffer[position]
       /\ pc = "subtract" => loaded = Energy + Race!Sq(sample) - Race!Sq(buffer[position])
       /\ pc \in {"place", "put"} =>
            total = Energy + Race!Sq(sample) - Race!Sq(buffer[position])
       /\ pc = "put" => slot = position
       /\ pc \in {"position", "advance"} => total = Energy
       /\ pc = "square" => loaded = EnergyBefore(slot)
       /\ pc = "recompute" => loaded = Energy

RaceInv ==
  Race!TypeOK /\ BoundInv /\ ExactInv

LEMMA WithinFacts ==
  ASSUME NEW k \in Nat
  PROVE  /\ Cost(k) \in Nat /\ Cost(k + 1) = Cost(k) + RaceSquare /\ Cost(0) = 0
         /\ Cost(RaceLength) \in Nat /\ RaceSquare \in Nat
         /\ Within(0, k, 0) /\ Within(0, k, RaceSquare) /\ Within(0, k + 1, 0)
         /\ k + 1 \in Nat
<1>1. /\ Cost(k) \in Nat /\ Cost(k + 1) = Cost(k) + RaceSquare /\ Cost(0) = 0
      /\ Cost(RaceLength) \in Nat /\ RaceSquare \in Nat /\ k + 1 \in Nat
  BY CostFacts, RaceSquares
<1>. QED
  BY <1>1 DEF Within

LEMMA RaceTypes ==
  ASSUME RaceInv
  PROVE  /\ total \in Int /\ loaded \in Int /\ clock \in Nat
         /\ sample \in RaceSamples /\ factor \in RaceSamples
         /\ slot \in Race!Positions /\ position \in Race!Positions
         /\ buffer \in [Race!Positions -> RaceSamples]
         /\ \A i \in Race!Positions : buffer[i] \in RaceSamples
         /\ \A s \in RaceSamples : Race!Sq(s) \in Nat /\ Race!Sq(s) <= RaceSquare
         /\ Energy \in Int
BY RaceSquares, EnergyFacts DEF RaceInv, Race!TypeOK

LEMMA RaceInitInv == Race!Init => RaceInv
<1>. SUFFICES ASSUME Race!Init PROVE RaceInv
  OBVIOUS
<1>1. Race!TypeOK
  <2>1. 0 \in Race!Positions /\ 0 \in RaceSamples /\ 0 \in 0 .. RacePeriod - 1
    BY RaceAssumption DEF Race!Positions
  <2>2. buffer \in [Race!Positions -> RaceSamples]
    BY <2>1 DEF Race!Init
  <2>3. pc \in Race!Places /\ raced \in BOOLEAN /\ pending \subseteq Race!Fields
    BY DEF Race!Init, Race!Places
  <2>4. /\ position = 0 /\ total = 0 /\ clock = 0 /\ sample = 0 /\ loaded = 0
        /\ factor = 0 /\ slot = 0
    BY DEF Race!Init
  <2>. QED
    BY <2>1, <2>2, <2>3, <2>4 DEF Race!TypeOK
<1>2. BoundInv
  <2>1. Within(0, 0, 0)
    BY WithinFacts
  <2>. QED
    BY <2>1 DEF Race!Init, BoundInv
<1>3. ExactInv
  <2>1. Energy = 0
    BY <1>1, EnergyOfSilence DEF Race!Init
  <2>. QED
    BY <2>1 DEF Race!Init, ExactInv
<1>. QED
  BY <1>1, <1>2, <1>3 DEF RaceInv

(* A step within a sample: the buffer stays as it is.                      *)
LEMMA EnergyKept ==
  ASSUME buffer' = buffer
  PROVE  Energy' = Energy /\ \A i : EnergyBefore(i)' = EnergyBefore(i)
BY DEF Energy, EnergyBefore, Squares

LEMMA TakeInv ==
  ASSUME RaceInv, NEW s \in RaceSamples, Race!Take(s)
  PROVE  RaceInv'
<1>1. /\ pc = "idle" /\ pc' = "add" /\ sample' = s /\ loaded' = total
      /\ raced' = (raced \/ pending # {})
      /\ UNCHANGED <<buffer, position, total, clock, factor, slot, pending>>
  BY DEF Race!Take, Race!Go, Race!shared
<1>2. Race!TypeOK'
  BY <1>1, RaceTypes DEF RaceInv, Race!TypeOK, Race!Places
<1>3. BoundInv'
  BY <1>1 DEF RaceInv, BoundInv, Within
<1>4. ExactInv'
  <2>1. ~ raced' => pending = {} /\ total = Energy
    <3>. SUFFICES ASSUME ~ raced' PROVE pending = {} /\ total = Energy
      OBVIOUS
    <3>1. pending = {} /\ ~ raced
      BY <1>1
    <3>2. Wiped \/ total = Energy
      BY <1>1, <3>1 DEF RaceInv, ExactInv
    <3>3. CASE Wiped
      BY <3>1, <3>3, EnergyOfSilence DEF RaceInv, Wiped
    <3>. QED
      BY <3>1, <3>2, <3>3
  <2>. QED
    BY <1>1, <2>1, EnergyKept DEF ExactInv
<1>. QED
  BY <1>2, <1>3, <1>4 DEF RaceInv

LEMMA AddInv ==
  ASSUME RaceInv, Race!Add
  PROVE  RaceInv'
<1>1. /\ pc = "add" /\ pc' = "load" /\ total' = loaded + Race!Sq(sample)
      /\ raced' = (raced \/ pending # {})
      /\ UNCHANGED <<buffer, position, clock, sample, loaded, factor, slot, pending>>
  BY DEF Race!Add, Race!Go
<1>2. Race!TypeOK'
  BY <1>1, RaceTypes DEF RaceInv, Race!TypeOK, Race!Places
<1>3. BoundInv'
  <2>1. Within(loaded, clock, 0)
    BY <1>1 DEF RaceInv, BoundInv
  <2>2. /\ loaded \in Int /\ Race!Sq(sample) \in Nat /\ Race!Sq(sample) <= RaceSquare
        /\ Cost(clock) \in Nat /\ Cost(RaceLength) \in Nat /\ RaceSquare \in Nat
    BY RaceTypes, WithinFacts
  <2>3. Within(total', clock, RaceSquare)
    BY <1>1, <2>1, <2>2 DEF Within
  <2>. QED
    BY <1>1, <2>3 DEF BoundInv, Within
<1>4. ExactInv'
  BY <1>1, EnergyKept DEF RaceInv, ExactInv
<1>. QED
  BY <1>2, <1>3, <1>4 DEF RaceInv

LEMMA LoadInv ==
  ASSUME RaceInv, Race!Load
  PROVE  RaceInv'
<1>1. /\ pc = "load" /\ pc' = "first" /\ loaded' = total
      /\ raced' = (raced \/ pending # {})
      /\ UNCHANGED <<buffer, position, total, clock, sample, factor, slot, pending>>
  BY DEF Race!Load, Race!Go, Race!shared
<1>2. Race!TypeOK'
  BY <1>1, RaceTypes DEF RaceInv, Race!TypeOK, Race!Places
<1>3. BoundInv'
  BY <1>1 DEF RaceInv, BoundInv, Within
<1>4. ExactInv'
  BY <1>1, EnergyKept DEF RaceInv, ExactInv
<1>. QED
  BY <1>2, <1>3, <1>4 DEF RaceInv

LEMMA LoadFirstInv ==
  ASSUME RaceInv, Race!LoadFirst
  PROVE  RaceInv'
<1>1. /\ pc = "first" /\ pc' = "second" /\ factor' = buffer[position]
      /\ raced' = (raced \/ pending # {})
      /\ UNCHANGED <<buffer, position, total, clock, sample, loaded, slot, pending>>
  BY DEF Race!LoadFirst, Race!Go, Race!shared
<1>2. Race!TypeOK'
  BY <1>1, RaceTypes DEF RaceInv, Race!TypeOK, Race!Places
<1>3. BoundInv'
  BY <1>1 DEF RaceInv, BoundInv, Within
<1>4. ExactInv'
  BY <1>1, EnergyKept DEF RaceInv, ExactInv
<1>. QED
  BY <1>2, <1>3, <1>4 DEF RaceInv

LEMMA LoadSecondInv ==
  ASSUME RaceInv, Race!LoadSecond
  PROVE  RaceInv'
<1> DEFINE old == factor * buffer[position]
<1>1. /\ pc = "second" /\ pc' = "subtract" /\ loaded' = loaded - old /\ factor' = 0
      /\ raced' = (raced \/ pending # {})
      /\ UNCHANGED <<buffer, position, total, clock, sample, slot, pending>>
  BY DEF Race!LoadSecond, Race!Go, Race!shared
<1>2. old \in Int /\ -RaceSquare <= old /\ old <= RaceSquare
  BY RaceTypes, RaceProduct
<1>3. factor = buffer[position] => old = Race!Sq(buffer[position])
  BY DEF Race!Sq
<1>. HIDE DEF old
<1>4. Race!TypeOK'
  <2>1. loaded' \in Int /\ factor' \in RaceSamples
    BY <1>1, <1>2, RaceTypes, RaceSquares
  <2>. QED
    BY <1>1, <2>1 DEF RaceInv, Race!TypeOK, Race!Places
<1>5. BoundInv'
  <2>1. Within(total, clock, RaceSquare) /\ Within(loaded, clock, RaceSquare)
    BY <1>1 DEF RaceInv, BoundInv
  <2>2. /\ loaded \in Int /\ clock \in Nat /\ Cost(clock) \in Nat
        /\ Cost(clock + 1) = Cost(clock) + RaceSquare
        /\ Cost(RaceLength) \in Nat /\ RaceSquare \in Nat
    BY RaceTypes, WithinFacts
  <2>3. Within(loaded', clock + 1, 0)
    BY <1>1, <1>2, <2>1, <2>2 DEF Within
  <2>. QED
    BY <1>1, <2>1, <2>3 DEF BoundInv, Within
<1>6. ExactInv'
  <2>1. ~ raced' => pending = {} /\ loaded = Energy + Race!Sq(sample) /\ factor = buffer[position]
    BY <1>1 DEF RaceInv, ExactInv
  <2>2. ~ raced' => loaded' = Energy' + Race!Sq(sample) - Race!Sq(buffer[position])
    <3>. SUFFICES ASSUME ~ raced'
                  PROVE  loaded' = Energy' + Race!Sq(sample) - Race!Sq(buffer[position])
      OBVIOUS
    <3>1. /\ loaded = Energy + Race!Sq(sample) /\ old = Race!Sq(buffer[position])
          /\ loaded' = loaded - old
      BY <1>1, <1>3, <2>1
    <3>2. Energy' = Energy
      BY <1>1, EnergyKept
    <3>3. Energy \in Int /\ Race!Sq(sample) \in Int /\ old \in Int
      BY <1>2, RaceTypes
    <3>. QED
      BY <3>1, <3>2, <3>3
  <2>. QED
    BY <1>1, <2>1, <2>2 DEF ExactInv
<1>. QED
  BY <1>4, <1>5, <1>6 DEF RaceInv

LEMMA SubtractInv ==
  ASSUME RaceInv, Race!Subtract
  PROVE  RaceInv'
<1>1. /\ pc = "subtract" /\ pc' = "place" /\ total' = loaded /\ loaded' = 0
      /\ raced' = (raced \/ pending # {})
      /\ UNCHANGED <<buffer, position, clock, sample, factor, slot, pending>>
  BY DEF Race!Subtract, Race!Go
<1>2. Race!TypeOK'
  BY <1>1, RaceTypes DEF RaceInv, Race!TypeOK, Race!Places
<1>3. BoundInv'
  BY <1>1 DEF RaceInv, BoundInv, Within
<1>4. ExactInv'
  BY <1>1, EnergyKept DEF RaceInv, ExactInv
<1>. QED
  BY <1>2, <1>3, <1>4 DEF RaceInv

LEMMA LoadPlaceInv ==
  ASSUME RaceInv, Race!LoadPlace
  PROVE  RaceInv'
<1>1. /\ pc = "place" /\ pc' = "put" /\ slot' = position
      /\ raced' = (raced \/ pending # {})
      /\ UNCHANGED <<buffer, position, total, clock, sample, loaded, factor, pending>>
  BY DEF Race!LoadPlace, Race!Go, Race!shared
<1>2. Race!TypeOK'
  BY <1>1, RaceTypes DEF RaceInv, Race!TypeOK, Race!Places
<1>3. BoundInv'
  BY <1>1 DEF RaceInv, BoundInv, Within
<1>4. ExactInv'
  BY <1>1, EnergyKept DEF RaceInv, ExactInv
<1>. QED
  BY <1>2, <1>3, <1>4 DEF RaceInv

LEMMA PutInv ==
  ASSUME RaceInv, Race!Put
  PROVE  RaceInv'
<1>1. /\ pc = "put" /\ pc' = "position" /\ buffer' = [buffer EXCEPT ![slot] = sample]
      /\ sample' = 0 /\ raced' = (raced \/ pending # {})
      /\ UNCHANGED <<position, total, clock, loaded, factor, slot, pending>>
  BY DEF Race!Put, Race!Go
<1>2. Race!TypeOK'
  BY <1>1, RaceTypes, RaceSquares DEF RaceInv, Race!TypeOK, Race!Places
<1>3. BoundInv'
  BY <1>1 DEF RaceInv, BoundInv, Within
<1>4. ExactInv'
  <2>1. Energy' = Energy + Race!Sq(sample) - Race!Sq(buffer[slot])
    BY <1>1, RaceTypes, EnergyPut DEF RaceInv
  <2>2. ~ raced' => /\ pending = {} /\ slot = position
                    /\ total = Energy + Race!Sq(sample) - Race!Sq(buffer[position])
    BY <1>1 DEF RaceInv, ExactInv
  <2>3. loaded = 0
    BY <1>1 DEF RaceInv, ExactInv
  <2>. QED
    BY <1>1, <2>1, <2>2, <2>3 DEF ExactInv
<1>. QED
  BY <1>2, <1>3, <1>4 DEF RaceInv

LEMMA LoadPositionInv ==
  ASSUME RaceInv, Race!LoadPosition
  PROVE  RaceInv'
<1>1. /\ pc = "position" /\ pc' = "advance" /\ slot' = position
      /\ raced' = (raced \/ pending # {})
      /\ UNCHANGED <<buffer, position, total, clock, sample, loaded, factor, pending>>
  BY DEF Race!LoadPosition, Race!Go, Race!shared
<1>2. Race!TypeOK'
  BY <1>1, RaceTypes DEF RaceInv, Race!TypeOK, Race!Places
<1>3. BoundInv'
  BY <1>1 DEF RaceInv, BoundInv, Within
<1>4. ExactInv'
  BY <1>1, EnergyKept DEF RaceInv, ExactInv
<1>. QED
  BY <1>2, <1>3, <1>4 DEF RaceInv

LEMMA AdvanceInv ==
  ASSUME RaceInv, Race!Advance
  PROVE  RaceInv'
<1>1. /\ pc = "advance" /\ position' = Race!Following(slot) /\ slot' = 0
      /\ clock' = (clock + 1) % RacePeriod
      /\ IF Race!TenSeconds THEN pc' = "square" /\ raced' = (pending # {})
         ELSE pc' = "idle" /\ raced' = (raced \/ pending # {})
      /\ UNCHANGED <<buffer, total, sample, loaded, factor, pending>>
  BY DEF Race!Advance
<1>2. /\ clock' \in 0 .. RacePeriod - 1
      /\ clock' = IF Race!TenSeconds THEN 0 ELSE clock + 1
  BY <1>1, RaceClock DEF RaceInv, Race!TypeOK
<1>3. Race!TypeOK'
  <2>1. position' \in Race!Positions /\ slot' \in Race!Positions
    BY <1>1, RaceTypes, RaceFollowing, RaceSquares DEF Race!Positions
  <2>2. pc' \in Race!Places /\ raced' \in BOOLEAN
    BY <1>1 DEF Race!Places
  <2>. QED
    BY <1>1, <1>2, <2>1, <2>2 DEF RaceInv, Race!TypeOK
<1>4. loaded = 0 /\ Within(total, clock + 1, 0)
  BY <1>1 DEF RaceInv, BoundInv, ExactInv
<1>5. Cost(0) = 0 /\ EnergyBefore(0) = 0
  BY WithinFacts, EnergyFacts DEF RaceInv
<1>6. CASE Race!TenSeconds
  <2>1. BoundInv'
    BY <1>1, <1>4, <1>5, <1>6 DEF BoundInv
  <2>2. ExactInv'
    BY <1>1, <1>4, <1>5, <1>6, EnergyKept DEF ExactInv
  <2>. QED
    BY <1>3, <2>1, <2>2 DEF RaceInv
<1>7. CASE ~ Race!TenSeconds
  <2>1. BoundInv'
    BY <1>1, <1>2, <1>4, <1>7 DEF BoundInv, Within
  <2>2. ~ raced' => pending = {} /\ total = Energy
    BY <1>1, <1>7 DEF RaceInv, ExactInv
  <2>3. ExactInv'
    BY <1>1, <1>7, <2>2, EnergyKept DEF ExactInv
  <2>. QED
    BY <1>3, <2>1, <2>3 DEF RaceInv
<1>. QED
  BY <1>6, <1>7

LEMMA AddSquareInv ==
  ASSUME RaceInv, Race!AddSquare
  PROVE  RaceInv'
<1> DEFINE ends == slot = RaceLength - 1
           sq == Race!Sq(buffer[slot])
<1>1. /\ pc = "square" /\ loaded' = loaded + sq /\ raced' = (raced \/ pending # {})
      /\ IF ends THEN pc' = "recompute" /\ slot' = 0 ELSE pc' = "square" /\ slot' = slot + 1
      /\ UNCHANGED <<buffer, position, total, clock, sample, factor, pending>>
  BY DEF Race!AddSquare, Race!Go, Race!shared
<1>2. /\ slot \in Nat /\ sq \in Nat /\ sq <= RaceSquare /\ loaded \in Int
      /\ 0 <= loaded /\ loaded <= Cost(slot) /\ Cost(slot) \in Nat
      /\ Cost(slot + 1) = Cost(slot) + RaceSquare /\ RaceSquare \in Nat
  <2>1. slot \in Nat
    BY RaceTypes DEF Race!Positions
  <2>. QED
    BY <1>1, <2>1, RaceTypes, WithinFacts DEF RaceInv, BoundInv
<1>3. EnergyBefore(slot + 1) = EnergyBefore(slot) + sq /\ EnergyBefore(RaceLength) = Energy
  BY RaceTypes, EnergyFacts DEF RaceInv
<1>4. ~ raced' => pending = {} /\ loaded = EnergyBefore(slot)
  BY <1>1 DEF RaceInv, ExactInv
<1>5. /\ ends => slot + 1 = RaceLength
      /\ ~ ends => slot + 1 \in Race!Positions
      /\ 0 \in Race!Positions
  <2>1. slot \in 0 .. RaceLength - 1 /\ RaceLength \in Nat \ {0}
    BY RaceTypes, RaceSquares DEF Race!Positions
  <2>. QED
    BY <2>1 DEF Race!Positions
<1>. HIDE DEF sq, ends
<1>6. 0 <= loaded' /\ loaded' <= Cost(slot + 1) /\ loaded' \in Int
  BY <1>1, <1>2
<1>7. Race!TypeOK'
  BY <1>1, <1>5, <1>6 DEF RaceInv, Race!TypeOK, Race!Places
<1>8. CASE ends
  <2>1. BoundInv'
    BY <1>1, <1>5, <1>6, <1>8 DEF BoundInv
  <2>2. ExactInv'
    BY <1>1, <1>3, <1>4, <1>5, <1>8, EnergyKept DEF ExactInv
  <2>. QED
    BY <1>7, <2>1, <2>2 DEF RaceInv
<1>9. CASE ~ ends
  <2>1. BoundInv'
    BY <1>1, <1>6, <1>9 DEF BoundInv
  <2>2. ExactInv'
    BY <1>1, <1>3, <1>4, <1>9, EnergyKept DEF ExactInv
  <2>. QED
    BY <1>7, <2>1, <2>2 DEF RaceInv
<1>. QED
  BY <1>8, <1>9

LEMMA RecomputeInv ==
  ASSUME RaceInv, Race!Recompute
  PROVE  RaceInv'
<1>1. /\ pc = "recompute" /\ pc' = "idle" /\ total' = loaded /\ loaded' = 0
      /\ raced' = (raced \/ pending # {})
      /\ UNCHANGED <<buffer, position, clock, sample, factor, slot, pending>>
  BY DEF Race!Recompute, Race!Go
<1>2. Race!TypeOK'
  BY <1>1, RaceTypes DEF RaceInv, Race!TypeOK, Race!Places
<1>3. BoundInv'
  <2>1. 0 <= loaded /\ loaded <= Cost(RaceLength)
    BY <1>1 DEF RaceInv, BoundInv
  <2>2. Within(loaded, clock, 0)
    <3>1. loaded \in Int /\ Cost(clock) \in Nat /\ Cost(RaceLength) \in Nat
      BY RaceTypes, WithinFacts
    <3>. QED
      BY <2>1, <3>1 DEF Within
  <2>. QED
    BY <1>1, <2>2 DEF BoundInv, Within
<1>4. ExactInv'
  BY <1>1, EnergyKept DEF RaceInv, ExactInv
<1>. QED
  BY <1>2, <1>3, <1>4 DEF RaceInv

(* A reset begins ...                                                      *)
LEMMA RaceResetInv ==
  ASSUME RaceInv, Race!Reset
  PROVE  RaceInv'
<1>1. /\ pending = {} /\ pending' = Race!Fields /\ raced' = (pc # "idle")
      /\ UNCHANGED <<buffer, position, total, clock, pc, sample, loaded, factor, slot>>
  BY DEF Race!Reset, Race!shared, Race!audioVars
<1>2. Race!TypeOK'
  BY <1>1 DEF RaceInv, Race!TypeOK
<1>3. BoundInv'
  BY <1>1 DEF RaceInv, BoundInv, Within
<1>4. ExactInv'
  <2>1. Wiped'
    BY <1>1 DEF Wiped, Race!Fields
  <2>. QED
    BY <1>1, <2>1 DEF RaceInv, ExactInv
<1>. QED
  BY <1>2, <1>3, <1>4 DEF RaceInv

(* ... and clears a field.                                                 *)
LEMMA ClearInv ==
  ASSUME RaceInv, NEW field \in Race!Fields, Race!Clear(field)
  PROVE  RaceInv'
<1>1. /\ field \in pending /\ pending' = pending \ {field}
      /\ raced' = (raced \/ pc # "idle")
      /\ buffer' = [i \in Race!Positions |-> IF field = Race!Element(i) THEN 0 ELSE buffer[i]]
      /\ position' = IF field = <<"hist_pos", 0>> THEN 0 ELSE position
      /\ total' = IF field = <<"hist_sq", 0>> THEN 0 ELSE total
      /\ UNCHANGED <<clock, pc, sample, loaded, factor, slot>>
  BY DEF Race!Clear, Race!audioVars
<1>2. Race!TypeOK'
  <2>1. buffer' \in [Race!Positions -> RaceSamples]
    BY <1>1, RaceTypes, RaceSquares
  <2>2. position' \in Race!Positions /\ total' \in Int
    <3>1. 0 \in Race!Positions
      BY RaceSquares DEF Race!Positions
    <3>. QED
      BY <1>1, <3>1, RaceTypes
  <2>3. pending' \subseteq Race!Fields /\ raced' \in BOOLEAN
    BY <1>1 DEF RaceInv, Race!TypeOK
  <2>. QED
    BY <1>1, <2>1, <2>2, <2>3 DEF RaceInv, Race!TypeOK
<1>3. BoundInv'
  <2>1. CASE total' = total
    BY <1>1, <2>1 DEF RaceInv, BoundInv, Within
  <2>2. CASE total' = 0
    <3>1. Within(0, clock, 0) /\ Within(0, clock, RaceSquare) /\ Within(0, clock + 1, 0)
      BY RaceTypes, WithinFacts
    <3>. QED
      BY <1>1, <2>2, <3>1 DEF RaceInv, BoundInv, Within
  <2>. QED
    BY <1>1, <2>1, <2>2
<1>4. ExactInv'
  <2>1. ~ raced' => pc = "idle" /\ Wiped
    BY <1>1 DEF RaceInv, ExactInv
  <2>2. Wiped => Wiped'
    BY <1>1 DEF Wiped
  <2>3. pc' \in {"place", "put", "position", "advance"} => loaded' = 0
    BY <1>1 DEF RaceInv, ExactInv
  <2>. QED
    BY <1>1, <2>1, <2>2, <2>3 DEF ExactInv
<1>. QED
  BY <1>2, <1>3, <1>4 DEF RaceInv

LEMMA RaceNextInv ==
  ASSUME RaceInv, [Race!Next]_(Race!vars)
  PROVE  RaceInv'
<1>1. ASSUME NEW s \in RaceSamples, Race!Take(s) PROVE RaceInv'
  BY <1>1, TakeInv
<1>2. ASSUME NEW field \in Race!Fields, Race!Clear(field) PROVE RaceInv'
  BY <1>2, ClearInv
<1>3. CASE UNCHANGED Race!vars
  <2>1. UNCHANGED <<buffer, position, total, clock, pc, sample, loaded, factor, slot, pending, raced>>
    BY <1>3 DEF Race!vars, Race!shared, Race!audioVars
  <2>2. Race!TypeOK' /\ BoundInv'
    BY <2>1 DEF RaceInv, Race!TypeOK, BoundInv, Within
  <2>3. Wiped' = Wiped
    BY <2>1 DEF Wiped
  <2>4. ExactInv'
    BY <2>1, <2>3, EnergyKept DEF RaceInv, ExactInv
  <2>. QED
    BY <2>2, <2>4 DEF RaceInv
<1>. QED
  BY <1>1, <1>2, <1>3, AddInv, LoadInv, LoadFirstInv, LoadSecondInv, SubtractInv,
     LoadPlaceInv, PutInv, LoadPositionInv, AdvanceInv, AddSquareInv, RecomputeInv,
     RaceResetInv
  DEF Race!Next, Race!Audio, Race!Poller

LEMMA RaceInvSound == RaceInv => RaceSound
<1>. SUFFICES ASSUME RaceInv PROVE RaceSound
  OBVIOUS
<1>1. Race!ExactUnlessRaced
  <2>. SUFFICES ASSUME pc = "idle", pending = {}, ~ raced
                PROVE  total = Energy
    BY RaceEnergy DEF Race!ExactUnlessRaced, Race!Quiescent, Energy
  <2>1. CASE Wiped
    BY <2>1, EnergyOfSilence DEF RaceInv, Wiped
  <2>. QED
    BY <2>1 DEF RaceInv, ExactInv
<1>2. Race!SumBounded
  <2>. SUFFICES ASSUME pc = "idle"
                PROVE  /\ -clock * RaceSquare <= total
                       /\ total <= (RaceLength + 2 * clock) * RaceSquare
    BY DEF Race!SumBounded
  <2>1. Within(total, clock, 0) /\ clock \in Nat /\ total \in Int
    BY RaceTypes DEF RaceInv, BoundInv
  <2>2. \A k \in Nat, m \in Nat, r \in Nat :
           /\ -k * r = -(k * r) /\ (m + 2 * k) * r = m * r + 2 * (k * r)
           /\ k * r \in Nat /\ m * r \in Nat
    BY SMT
  <2>3. RaceLength \in Nat /\ RaceSquare \in Nat
    BY RaceSquares
  <2>. QED
    BY <2>1, <2>2, <2>3 DEF Within, Cost
<1>. QED
  BY <1>1, <1>2 DEF RaceSound

(* In whatever order the audio thread's loads and stores and the stores of *)
(* init_octaver fall: hist_sq is the energy of the buffer unless a reset   *)
(* overlapped a sample, and even then it is off by no more than two        *)
(* squares for each sample since the last recompute.                       *)
THEOREM HistoryRaceSound == Race!Spec => []RaceSound
<1>1. Race!Init => RaceInv
  BY RaceInitInv
<1>2. RaceInv /\ [Race!Next]_(Race!vars) => RaceInv'
  BY RaceNextInv
<1>3. RaceInv => RaceSound
  BY RaceInvSound
<1>. QED
  BY <1>1, <1>2, <1>3, PTL DEF Race!Spec

(* A reset that is under way while a sample is processed overlaps it.      *)
OverlapSeen == step # "idle" /\ poller # "idle" => overlapped

Settled == positive => previous >= 0

(* The places from which TestPositive is yet to come.                      *)
Before == {"rawdist", "count", "counted", "positive"}

(* The places between LoadPrevious and the end of the crossing.            *)
Interpolated == {"subtract", "subtracted", "measure", "measured", "high", "low",
             "voice", "gain", "ungain", "start", "fall", "since"}

(* A sample that is left alone ends with the sign that positive tells.     *)
SampleTells ==
  ~overlapped =>
    /\ step = "rise" => sign > 0
    /\ step = "since" => ~positive
    /\ step = "last" => (positive => sign >= 0)

(* So after one such sample, and through any reset that overlaps none,     *)
(* positive is TRUE only behind a sample that was not negative, except     *)
(* between two stores of init_octaver.                                     *)
BetweenSamples ==
  step \in {"idle", "rawdist"} /\ calm /\ poller # "previous" => Settled

(* ... and what a crossing computes from it is the fraction of a sample.   *)
FractionKept ==
  calm /\ ~overlapped =>
    /\ step \in Before => Settled
    /\ step = "ratio" => previous >= 0
    /\ step \in Interpolated => adjustment \in Crossing!Fraction

(* If the last change came between samples, all that update tests of the   *)
(* voice it tests of the current one.                                      *)
VoiceStays ==
  ~mixed =>
    /\ step = "rawdist" => voice # V_RAW
    /\ step \notin {"idle", "rawdist"} => voice \in Crossing!Melodic
    /\ step \in {"gain", "ungain"} => Chain[test] = voice

(* Each gain fits once the poller has stored it.                           *)
GainsStored ==
  ~mixed =>
    /\ poller \in {"ungain", "idle"} => gain \in Crossing!Fitting(voice)
    /\ poller = "idle" => ungain \in Crossing!Fitting(voice)

(* An index of Chain is needed only where it is one.                       *)
TestInChain == step \in {"voice", "gain", "ungain"} => test \in 1 .. Len(Chain)

CrossingInv ==
  /\ Crossing!TypeOK /\ OverlapSeen /\ SampleTells /\ BetweenSamples /\ FractionKept
  /\ VoiceStays /\ GainsStored /\ TestInChain

LEMMA CrossingInitInv == Crossing!Init => CrossingInv
<1>. SUFFICES ASSUME Crossing!Init PROVE CrossingInv
  OBVIOUS
<1>1. Crossing!TypeOK
  <2>1. /\ since \in Crossing!Times /\ period \in Crossing!Times /\ elapsed \in Crossing!Times
        /\ test \in 0 .. Len(Chain)
    BY CrossingAssumption DEF Crossing!Init, Crossing!Times
  <2>2. adjustment \in Crossing!Fraction
    BY CrossingAssumption DEF Crossing!Init, Crossing!Fraction
  <2>. QED
    BY <2>1, <2>2 DEF Crossing!Init, Crossing!TypeOK, Crossing!Voices, Crossing!Signs,
                      Crossing!AudioPlaces, Crossing!PollerPlaces
<1>2. OverlapSeen /\ SampleTells /\ BetweenSamples /\ FractionKept /\ TestInChain
  BY DEF Crossing!Init, OverlapSeen, SampleTells, BetweenSamples, Settled, FractionKept, Before,
         Interpolated, TestInChain
<1>3. VoiceStays /\ GainsStored
  BY CrossingAssumption DEF Crossing!Init, VoiceStays, GainsStored, Crossing!Fitting
<1>. QED
  BY <1>1, <1>2, <1>3 DEF CrossingInv

LEMMA CrossingNextInv == CrossingInv /\ [Crossing!Next]_(Crossing!vars) => CrossingInv'
<1>. SUFFICES ASSUME CrossingInv, [Crossing!Next]_(Crossing!vars) PROVE CrossingInv'
  OBVIOUS
<1>. USE CrossingAssumption
     DEF CrossingInv, Crossing!TypeOK, OverlapSeen, SampleTells, BetweenSamples, Settled,
         FractionKept, VoiceStays, GainsStored, TestInChain, Before, Interpolated,
         Crossing!Voices, Crossing!Raw, Crossing!Melodic, Crossing!Signs, Crossing!Times,
         Crossing!AudioPlaces, Crossing!PollerPlaces, Crossing!Fraction, Crossing!Fitting,
         Crossing!shared, Crossing!audioVars, Crossing!Go, Crossing!Goes, Crossing!Store,
         Crossing!Stores
<1>1. ASSUME NEW s \in Crossing!Signs, Crossing!Take(s) PROVE CrossingInv'
  <2>1. Crossing!TypeOK'
    BY <1>1 DEF Crossing!Take
  <2>2. OverlapSeen' /\ SampleTells' /\ TestInChain'
    BY <1>1 DEF Crossing!Take
  <2>3. BetweenSamples' /\ FractionKept'
    BY <1>1 DEF Crossing!Take
  <2>4. VoiceStays' /\ GainsStored'
    BY <1>1 DEF Crossing!Take
  <2>. QED
    BY <2>1, <2>2, <2>3, <2>4
<1>2. CASE Crossing!TestRawdist
  BY <1>2 DEF Crossing!TestRawdist
<1>3. CASE Crossing!LoadCount
  BY <1>3 DEF Crossing!LoadCount
<1>4. CASE Crossing!StoreCount
  BY <1>4 DEF Crossing!StoreCount, Crossing!Bounded
<1>5. CASE Crossing!TestPositive
  BY <1>5 DEF Crossing!TestPositive
<1>6. CASE Crossing!Rise
  BY <1>6 DEF Crossing!Rise
<1>7. CASE Crossing!LoadPrevious
  BY <1>7 DEF Crossing!LoadPrevious, Crossing!Adjustments
<1>8. CASE Crossing!LoadSince
  BY <1>8 DEF Crossing!LoadSince
<1>9. CASE Crossing!StoreSince
  BY <1>9 DEF Crossing!StoreSince, Crossing!Bounded
<1>10. CASE Crossing!LoadPeriod
  BY <1>10 DEF Crossing!LoadPeriod
<1>11. CASE Crossing!StorePeriod
  BY <1>11 DEF Crossing!StorePeriod
<1>12. CASE Crossing!TestHigh
  BY <1>12 DEF Crossing!TestHigh
<1>13. CASE Crossing!TestLow
  BY <1>13 DEF Crossing!TestLow
<1>14. CASE Crossing!TestVoice
  BY <1>14 DEF Crossing!TestVoice
<1>15. CASE Crossing!StartGain
  BY <1>15 DEF Crossing!StartGain
<1>16. CASE Crossing!StartUngain
  BY <1>16 DEF Crossing!StartUngain
<1>17. CASE Crossing!Start
  BY <1>17 DEF Crossing!Start
<1>18. CASE Crossing!Fall
  <2>1. Crossing!TypeOK'
    <3>1. positive' \in BOOLEAN
      BY <1>18 DEF Crossing!Fall, Crossing!Fallen
    <3>2. overlapped' \in BOOLEAN /\ step' \in Crossing!AudioPlaces
      BY <1>18 DEF Crossing!Fall
    <3>. QED
      BY <1>18, <3>1, <3>2 DEF Crossing!Fall
  <2>2. OverlapSeen' /\ SampleTells' /\ TestInChain'
    BY <1>18 DEF Crossing!Fall, Crossing!Fallen
  <2>3. BetweenSamples' /\ FractionKept'
    BY <1>18 DEF Crossing!Fall, Crossing!Fallen
  <2>4. VoiceStays' /\ GainsStored'
    BY <1>18 DEF Crossing!Fall, Crossing!Fallen
  <2>. QED
    BY <2>1, <2>2, <2>3, <2>4
<1>19. CASE Crossing!StoreRest
  BY <1>19 DEF Crossing!StoreRest
<1>20. CASE Crossing!StorePrevious
  <2>1. Crossing!TypeOK' /\ OverlapSeen' /\ SampleTells' /\ TestInChain'
    BY <1>20 DEF Crossing!StorePrevious
  <2>2. BetweenSamples' /\ FractionKept'
    BY <1>20 DEF Crossing!StorePrevious
  <2>3. VoiceStays' /\ GainsStored'
    BY <1>20 DEF Crossing!StorePrevious
  <2>. QED
    BY <2>1, <2>2, <2>3
<1>21. ASSUME NEW v \in Crossing!Voices, Crossing!Change(v) PROVE CrossingInv'
  <2>1. Crossing!TypeOK'
    BY <1>21 DEF Crossing!Change
  <2>2. OverlapSeen' /\ SampleTells' /\ TestInChain'
    BY <1>21 DEF Crossing!Change
  <2>3. BetweenSamples' /\ FractionKept'
    BY <1>21 DEF Crossing!Change
  <2>4. VoiceStays' /\ GainsStored'
    BY <1>21 DEF Crossing!Change
  <2>. QED
    BY <2>1, <2>2, <2>3, <2>4
<1>22. CASE Crossing!ClearSince
  BY <1>22 DEF Crossing!ClearSince
<1>23. CASE Crossing!SetPositive
  BY <1>23 DEF Crossing!SetPositive
<1>24. CASE Crossing!ClearPrevious
  BY <1>24 DEF Crossing!ClearPrevious
<1>25. CASE Crossing!SetPeriod
  BY <1>25 DEF Crossing!SetPeriod
<1>26. CASE Crossing!SetGain
  BY <1>26 DEF Crossing!SetGain, Crossing!InitGains
<1>27. CASE Crossing!SetUngain
  BY <1>27 DEF Crossing!SetUngain, Crossing!InitGains
<1>28. CASE UNCHANGED Crossing!vars
  BY <1>28 DEF Crossing!vars
<1>. QED
  BY <1>1, <1>2, <1>3, <1>4, <1>5, <1>6, <1>7, <1>8, <1>9, <1>10, <1>11, <1>12, <1>13, <1>14,
     <1>15, <1>16, <1>17, <1>18, <1>19, <1>20, <1>21, <1>22, <1>23, <1>24, <1>25, <1>26, <1>27,
     <1>28 DEF Crossing!Next, Crossing!Audio, Crossing!Poller

(* Types, for every way the two threads can interleave.                    *)
THEOREM CrossingTypeCorrect == Crossing!Spec => []Crossing!TypeOK
<1>1. CrossingInv => Crossing!TypeOK
  BY DEF CrossingInv
<1>. QED
  BY CrossingInitInv, CrossingNextInv, <1>1, PTL DEF Crossing!Spec

(* An oscillator that starts in a sample which no reset overlapped, as it  *)
(* overlapped none the sample before, starts between the last two samples: *)
(* init_octaver can spoil one crossing and no more (zeros.c's update).     *)
THEOREM CrossingStartsClean == Crossing!Spec => []CleanStart
<1>1. CrossingInv => CleanStart
  BY DEF CrossingInv, FractionKept, Interpolated, CleanStart, Crossing!CleanStart
<1>. QED
  BY CrossingInitInv, CrossingNextInv, <1>1, PTL DEF Crossing!Spec

(* Between samples both gains are of the current voice, unless the voice   *)
(* changed within a sample (init_gains and init_oscs of zeros.c).          *)
THEOREM CrossingGainsFit == Crossing!Spec => []GainsFit
<1>1. CrossingInv => GainsFit
  BY DEF CrossingInv, GainsStored, GainsFit, Crossing!GainsFit
<1>. QED
  BY CrossingInitInv, CrossingNextInv, <1>1, PTL DEF Crossing!Spec
=============================================================================
