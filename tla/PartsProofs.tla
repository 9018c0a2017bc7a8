---------------------------- MODULE PartsProofs -----------------------------
(* What the echo, the sound card, the keys, the web page and the Teensy    *)
(* port guarantee, for every value of the parameters that the assumptions  *)
(* admit.                                                                  *)
EXTENDS Parts, FiniteSetTheorems, SequenceTheorems, TotalsProofs

(* Products with Unit, kept folded so that the rest is linear.             *)
Scale(n) == n * Unit

End == Scale(DELAY_HISTORY_LENGTH)

LEMMA ScaleFacts ==
  \A m, n \in Int :
    /\ Scale(n) \in Int
    /\ Scale(m - n) = Scale(m) - Scale(n)
    /\ Scale(m + n) = Scale(m) + Scale(n)
    /\ m <= n => Scale(m) <= Scale(n)
    /\ Scale(1) = Unit /\ Scale(0) = 0
<1> SUFFICES ASSUME NEW m \in Int, NEW n \in Int
             PROVE  /\ Scale(n) \in Int
                    /\ Scale(m - n) = Scale(m) - Scale(n)
                    /\ Scale(m + n) = Scale(m) + Scale(n)
                    /\ m <= n => Scale(m) <= Scale(n)
                    /\ Scale(1) = Unit /\ Scale(0) = 0
  OBVIOUS
<1>1. Unit \in Nat
  BY DelayAssumption
<1>2. (m - n) * Unit = m * Unit - n * Unit
  BY <1>1
<1>3. (m + n) * Unit = m * Unit + n * Unit
  BY <1>1
<1>4. m <= n => m * Unit <= n * Unit
  BY <1>1
<1>5. n * Unit \in Int /\ 1 * Unit = Unit /\ 0 * Unit = 0
  BY <1>1
<1> QED  BY <1>2, <1>3, <1>4, <1>5 DEF Scale

LEMMA Sizes ==
  /\ DELAY_HISTORY_LENGTH \in Nat /\ DELAY_HISTORY_LENGTH > 1
  /\ Unit \in Nat /\ Unit > 0 /\ Delta \in Nat /\ delay_repeats \in Nat
  /\ End \in Nat /\ End >= Unit
<1>1. /\ DELAY_HISTORY_LENGTH \in Nat /\ DELAY_HISTORY_LENGTH > 1
      /\ Unit \in Nat /\ Unit > 0 /\ Delta \in Nat /\ delay_repeats \in Nat
  BY DelayAssumption
<1>2. Scale(1) <= Scale(DELAY_HISTORY_LENGTH) /\ Scale(1) = Unit
  BY <1>1, ScaleFacts
<1>3. Scale(DELAY_HISTORY_LENGTH) \in Int
  BY <1>1, ScaleFacts
<1> QED  BY <1>1, <1>2, <1>3 DEF End

LEMMA MaxUlpType == MaxUlp \in Nat /\ MaxUlp > 0 /\ Error = 2 * MaxUlp /\ Error \in Nat
<1>1. MaxUlp \in 1 .. MaxUlp
  BY FloatAssumption
<1> QED  BY <1>1 DEF Error

-----------------------------------------------------------------------------
(* Rounding.                                                               *)

LEMMA LeastExists ==
  ASSUME NEW S, S \subseteq Nat, S # {}
  PROVE  \E n \in S : \A m \in S : n <= m
<1> DEFINE less == {ss \in Nat \X Nat : ss[1] < ss[2]}
<1>1. IsWellFoundedOn(less, Nat)
  BY NatLessThanWellFounded DEF OpToRel
<1>2. PICK n \in S : \A m \in S : ~ (<<m, n>> \in less)
  BY <1>1, WFMin
<1>3. ASSUME NEW m \in S, m < n PROVE FALSE
  <2>1. <<m, n>> \in less
    BY <1>3
  <2> QED  BY <1>2, <2>1
<1>4. \A m \in S : n <= m
  <2> SUFFICES ASSUME NEW m \in S PROVE n <= m
    OBVIOUS
  <2>1. m \in Nat /\ n \in Nat /\ ~(m < n)
    BY <1>3
  <2> QED  BY <2>1
<1> QED  BY <1>4

LEMMA DivFacts ==
  \A x \in Nat, u \in Nat \ {0} : x \div u \in Nat /\ x % u \in 0 .. u - 1
  BY SMT

LEMMA ModBelow ==
  \A x \in Nat, u \in Nat \ {0} : x % u = x - u * (x \div u) /\ x % u <= x
  BY SMT

LEMMA DivMonotone ==
  \A x, y \in Nat, u \in Nat \ {0} : x <= y => x \div u <= y \div u
  BY SMT

(* The next multiple of u above x is not above a multiple of u that is.    *)
LEMMA NextMultiple ==
  \A x, a \in Nat, u \in Nat \ {0} :
    x <= a /\ a % u = 0 /\ x % u > 0 => x - (x % u) + u <= a
  BY SMT

LEMMA UlpType ==
  ASSUME NEW x \in 0 .. End
  PROVE  Ulp(x) \in Ulps /\ Ulp(x) \in Nat \ {0} /\ Ulp(x) <= MaxUlp
<1> DEFINE Fitting == {u \in Ulps : x \div u < Significand}
<1>1. MaxUlp \in Nat \ {0} /\ End \in Nat /\ x \in Nat /\ x <= End
  BY MaxUlpType, Sizes
<1>2. x \div MaxUlp <= End \div MaxUlp
  BY <1>1, DivMonotone
<1>3. End \div MaxUlp < Significand /\ Significand \in Nat
  BY FloatAssumption DEF End, Scale
<1>4. x \div MaxUlp \in Nat /\ End \div MaxUlp \in Nat
  BY <1>1, DivFacts
<1>5. x \div MaxUlp < Significand
  BY <1>2, <1>3, <1>4
<1>6. MaxUlp \in Fitting
  BY <1>5, FloatAssumption
<1>7. \A v \in Ulps : v \in Nat \ {0} /\ v <= MaxUlp
  <2>1. Ulps \subseteq 1 .. MaxUlp
    BY FloatAssumption
  <2> QED  BY <1>1, <2>1
<1>8. Fitting \subseteq Nat
  BY <1>7
<1>9. \E u \in Fitting : \A v \in Fitting : u <= v
  BY <1>6, <1>8, LeastExists
<1>10. \E u \in Ulps : /\ x \div u < Significand
                       /\ \A v \in Ulps : x \div v < Significand => u <= v
  BY <1>9
<1>11. Ulp(x) \in Ulps
  BY <1>10 DEF Ulp
<1> QED  BY <1>7, <1>11

LEMMA Rounding ==
  ASSUME NEW x \in 0 .. End
  PROVE  /\ RoundToMultiple(x, Ulp(x)) \in 0 .. End
         /\ 2 * RoundToMultiple(x, Ulp(x)) <= 2 * x + MaxUlp
         /\ 2 * x <= 2 * RoundToMultiple(x, Ulp(x)) + MaxUlp
<1> DEFINE u == Ulp(x)
           over == x % u
           rounded == RoundToMultiple(x, u)
<1>1. u \in Ulps /\ u \in Nat \ {0} /\ u <= MaxUlp
  BY UlpType
<1>2. x \in Nat /\ End \in Nat /\ MaxUlp \in Nat /\ x <= End
  BY Sizes, MaxUlpType
<1> HIDE DEF u
<1>3. over \in 0 .. u - 1
  BY <1>1, <1>2, DivFacts
<1>4. over <= x
  BY <1>1, <1>2, ModBelow
<1>5. End % u = 0
  BY <1>1, FloatAssumption DEF End, Scale
<1>6. ASSUME over > 0 PROVE x - over + u <= End
  <2>1. x % u > 0
    BY <1>6
  <2>2. x - (x % u) + u <= End
    BY <2>1, <1>1, <1>2, <1>5, NextMultiple, Zenon
  <2> QED  BY <2>2
<1>7. \/ rounded = x - over + u /\ 2 * over >= u
      \/ rounded = x - over /\ 2 * over <= u
  BY <1>1, <1>3 DEF RoundToMultiple
<1> HIDE DEF over, rounded
<1>8. /\ rounded \in 0 .. End /\ 2 * rounded <= 2 * x + MaxUlp
      /\ 2 * x <= 2 * rounded + MaxUlp
  BY <1>1, <1>2, <1>3, <1>4, <1>6, <1>7
<1> QED  BY <1>8 DEF rounded, u

(* Half a unit in the last place, and never across zero or the end.        *)
LEMMA FloatFacts ==
  ASSUME NEW x \in -End .. End
  PROVE  /\ Float(x) \in -End .. End
         /\ x >= 0 => Float(x) >= 0
         /\ x < 0 => Float(x) <= 0
         /\ 2 * Float(x) <= 2 * x + MaxUlp /\ 2 * x <= 2 * Float(x) + MaxUlp
<1>1. End \in Nat /\ MaxUlp \in Nat
  BY Sizes, MaxUlpType
<1>2. CASE x < 0
  <2> DEFINE y == -x
             r == RoundToMultiple(y, Ulp(y))
  <2>1. y \in 0 .. End
    BY <1>1, <1>2
  <2> HIDE DEF y
  <2>2. r \in 0 .. End /\ 2 * r <= 2 * y + MaxUlp /\ 2 * y <= 2 * r + MaxUlp
    BY <2>1, Rounding
  <2>3. Float(x) = -r
    BY <1>2 DEF Float, y
  <2> HIDE DEF r
  <2>4. y = -x
    BY DEF y
  <2> QED  BY <1>1, <1>2, <2>2, <2>3, <2>4
<1>3. CASE ~(x < 0)
  <2> DEFINE r == RoundToMultiple(x, Ulp(x))
  <2>1. x \in 0 .. End
    BY <1>1, <1>3
  <2>2. r \in 0 .. End /\ 2 * r <= 2 * x + MaxUlp /\ 2 * x <= 2 * r + MaxUlp
    BY <2>1, Rounding
  <2>3. Float(x) = r
    BY <1>3 DEF Float
  <2> HIDE DEF r
  <2> QED  BY <1>1, <1>3, <2>2, <2>3
<1> QED  BY <1>2, <1>3

-----------------------------------------------------------------------------
(* Where an echo is read.                                                  *)

LEMMA RepeatType ==
  ASSUME NEW repeat \in Repeats
  PROVE  /\ Delta * repeat \in Nat
         /\ Delta * repeat > Error + 2 * Unit
         /\ Delta * repeat + Error + 2 * Unit <= End
<1>1. repeat \in Nat /\ 1 <= repeat /\ repeat <= delay_repeats
  BY Sizes DEF Repeats
<1>2. Delta * 1 <= Delta * repeat /\ Delta * repeat <= Delta * delay_repeats
  <2>1. \A d, m, n \in Nat : m <= n => d * m <= d * n
    BY SMT
  <2> QED  BY <2>1, <1>1, Sizes
<1>3. Delta * repeat \in Nat /\ Delta * delay_repeats \in Nat /\ Delta * 1 = Delta
  BY <1>1, Sizes
<1>4. /\ Delta > Error + 2 * Unit
      /\ Delta * delay_repeats + Error + 2 * Unit <= End
  BY RepeatsAssumption DEF End, Scale
<1> HIDE DEF Error
<1> QED  BY <1>2, <1>3, <1>4, Sizes, MaxUlpType

(* The place of an echo, as a float, is near the exact one; when that is   *)
(* before the buffer's start the place is counted from the end.            *)
LEMMA RepeatPosNear ==
  ASSUME NEW repeat \in Repeats, delay_write_pos \in Positions
  PROVE  LET p == RepeatPos(repeat)
             exact == Scale(delay_write_pos) - Delta * repeat
         IN  /\ p \in 0 .. End
             /\ \/ p <= exact + Error /\ exact <= p + Error
                \/ p <= exact + End + Error /\ exact + End <= p + Error
<1> DEFINE w == Scale(delay_write_pos)
           d == Delta * repeat
           wf == Float(w)
           df == Float(d)
           x == Float(wf - df)
<1>1. w \in 0 .. End
  <2>1. /\ 0 <= delay_write_pos /\ delay_write_pos <= DELAY_HISTORY_LENGTH
        /\ delay_write_pos \in Int /\ DELAY_HISTORY_LENGTH \in Int
    BY Sizes DEF Positions
  <2> QED  BY <2>1, ScaleFacts DEF End
<1>2. d \in 0 .. End
  <2>1. d \in Nat /\ d + Error + 2 * Unit <= End
    BY RepeatType
  <2> HIDE DEF d
  <2> QED  BY <2>1, Sizes, MaxUlpType
<1> HIDE DEF w, d
<1>3. /\ wf \in 0 .. End /\ 2 * wf <= 2 * w + MaxUlp /\ 2 * w <= 2 * wf + MaxUlp
  <2>1. w \in -End .. End /\ w >= 0
    BY <1>1, Sizes
  <2> QED  BY <2>1, FloatFacts, Sizes
<1>4. /\ df \in 0 .. End /\ 2 * df <= 2 * d + MaxUlp /\ 2 * d <= 2 * df + MaxUlp
  <2>1. d \in -End .. End /\ d >= 0
    BY <1>2, Sizes
  <2> QED  BY <2>1, FloatFacts, Sizes
<1> HIDE DEF wf, df
<1>5. /\ x \in -End .. End
      /\ 2 * x <= 2 * (wf - df) + MaxUlp /\ 2 * (wf - df) <= 2 * x + MaxUlp
  <2>1. wf - df \in -End .. End
    BY <1>3, <1>4, Sizes
  <2> QED  BY <2>1, FloatFacts
<1>6. RepeatPos(repeat) = IF x < 0 THEN Float(x + End) ELSE x
  BY DEF RepeatPos, Wrapped, w, d, wf, df, End, Scale
<1> HIDE DEF x
<1>7. CASE ~(x < 0)
  <2>1. x <= w - d + Error /\ w - d <= x + Error
    BY <1>1, <1>2, <1>3, <1>4, <1>5, MaxUlpType, Sizes
  <2>2. x \in 0 .. End /\ RepeatPos(repeat) = x
    BY <1>5, <1>6, <1>7, Sizes
  <2> QED  BY <2>1, <2>2 DEF w, d
<1>8. CASE x < 0
  <2> DEFINE p == Float(x + End)
  <2>1. /\ p \in 0 .. End
        /\ 2 * p <= 2 * (x + End) + MaxUlp /\ 2 * (x + End) <= 2 * p + MaxUlp
    <3>1. x + End \in -End .. End /\ x + End >= 0
      BY <1>5, <1>8, Sizes
    <3> QED  BY <3>1, FloatFacts, Sizes
  <2> HIDE DEF p
  <2>2. p <= w - d + End + Error /\ w - d + End <= p + Error
    BY <1>1, <1>2, <1>3, <1>4, <1>5, <2>1, MaxUlpType, Sizes
  <2>3. RepeatPos(repeat) = p
    BY <1>6, <1>8 DEF p
  <2> QED  BY <2>1, <2>2, <2>3 DEF w, d
<1> QED  BY <1>7, <1>8

(* The element below a place.                                              *)
LEMMA Truncation ==
  ASSUME NEW p \in 0 .. End
  PROVE  /\ p \div Unit \in 0 .. DELAY_HISTORY_LENGTH
         /\ Scale(p \div Unit) <= p /\ p < Scale(p \div Unit) + Unit
<1> DEFINE a == p \div Unit
           product == Unit * a
<1>1. p \in Nat /\ Unit \in Nat \ {0}
  BY Sizes
<1>2. a \in Nat /\ p % Unit \in 0 .. Unit - 1 /\ p % Unit = p - product
  BY <1>1, DivFacts, ModBelow
<1>3. Scale(a) = product /\ product \in Int
  BY <1>1, <1>2 DEF Scale
<1> HIDE DEF a, product
<1>4. Scale(a) <= p /\ p < Scale(a) + Unit
  BY <1>1, <1>2, <1>3
<1>5. a <= DELAY_HISTORY_LENGTH
  <2> SUFFICES ASSUME DELAY_HISTORY_LENGTH + 1 <= a PROVE FALSE
    BY <1>2, Sizes
  <2>1. Scale(DELAY_HISTORY_LENGTH + 1) <= Scale(a)
    BY <1>2, Sizes, ScaleFacts
  <2>2. Scale(DELAY_HISTORY_LENGTH + 1) = End + Unit
    BY Sizes, ScaleFacts DEF End
  <2>3. Scale(a) \in Int
    BY <1>2, ScaleFacts
  <2> QED  BY <1>1, <1>4, <2>1, <2>2, <2>3, Sizes
<1> QED  BY <1>2, <1>4, <1>5 DEF a

LEMMA TapType ==
  ASSUME NEW repeat \in Repeats, delay_write_pos \in Positions
  PROVE  /\ A(repeat) \in 0 .. DELAY_HISTORY_LENGTH
         /\ B(repeat) \in Positions
         /\ A(repeat) < DELAY_HISTORY_LENGTH - 1 => B(repeat) = A(repeat) + 1
         /\ A(repeat) = DELAY_HISTORY_LENGTH - 1 => B(repeat) = 0
         /\ A(repeat) = DELAY_HISTORY_LENGTH => B(repeat) = 1
<1>1. RepeatPos(repeat) \in 0 .. End
  BY RepeatPosNear
<1>2. A(repeat) \in 0 .. DELAY_HISTORY_LENGTH
  BY <1>1, Truncation DEF A
<1> DEFINE a == A(repeat)
           n == DELAY_HISTORY_LENGTH
<1>3. \A m \in Nat \ {0}, k \in Nat :
        /\ k % m \in 0 .. m - 1
        /\ k < m => k % m = k
        /\ m <= k /\ k < 2 * m => k % m = k - m
  BY SMT
<1>4. n \in Nat \ {0} /\ a + 1 \in Nat /\ n > 1 /\ a \in 0 .. n
  BY <1>2, Sizes
<1>5. B(repeat) = (a + 1) % n
  BY DEF B
<1> HIDE DEF a, n
<1>6. (a + 1) % n \in 0 .. n - 1
  BY <1>3, <1>4
<1>7. ASSUME a < n - 1 PROVE (a + 1) % n = a + 1
  <2> DEFINE k == a + 1
  <2>1. k \in Nat /\ k < n
    BY <1>4, <1>7
  <2> HIDE DEF k
  <2>2. k % n = k
    BY <2>1, <1>3, <1>4
  <2> QED  BY <2>2 DEF k
<1>8. a = n - 1 => (a + 1) % n = 0
  <2>1. n % n = n - n
    BY <1>3, <1>4
  <2>2. a = n - 1 => a + 1 = n
    BY <1>4
  <2> QED  BY <2>1, <2>2, <1>4
<1>9. a = n => (a + 1) % n = 1
  <2>1. n <= n + 1 /\ n + 1 < 2 * n /\ n + 1 \in Nat
    BY <1>4
  <2>2. (n + 1) % n = (n + 1) - n
    BY <2>1, <1>3, <1>4
  <2> QED  BY <2>2, <1>4
<1> QED  BY <1>2, <1>5, <1>6, <1>7, <1>8, <1>9 DEF a, n, Positions

-----------------------------------------------------------------------------
(* The ages in the buffer.                                                 *)

(* Before delay_update writes at w: everything below w is from this lap,   *)
(* everything else from the lap before, if there was one.                  *)
AgesBefore(w, history) ==
  /\ \A e \in Positions : e < w => history[e] = w - 1 - e
  /\ \/ \A e \in Positions : w <= e => history[e] = Never
     \/ \A e \in Positions :
          w <= e => history[e] = w - 1 - e + DELAY_HISTORY_LENGTH

AgesAfter(w, history) ==
  /\ \A e \in Positions : e <= w => history[e] = w - e
  /\ \/ \A e \in Positions : w < e => history[e] = Never
     \/ \A e \in Positions :
          w < e => history[e] = w - e + DELAY_HISTORY_LENGTH

LEMMA WriteAges ==
  ASSUME delay_write_pos \in Positions,
         AgesBefore(delay_write_pos, delay_history)
  PROVE  AgesAfter(delay_write_pos, Stored(delay_history))
<1> DEFINE w == delay_write_pos
           new == Stored(delay_history)
<1>1. \A e \in Positions :
        new[e] = IF e = w THEN 0
                 ELSE IF delay_history[e] = Never THEN Never
                 ELSE delay_history[e] + 1
  BY DEF Stored
<1>2. w \in Int /\ DELAY_HISTORY_LENGTH \in Int
  BY Sizes DEF Positions
<1> HIDE DEF new
<1>3. ASSUME NEW e \in Positions, e <= w PROVE new[e] = w - e
  <2>1. e \in Int
    BY DEF Positions
  <2>2. e < w => delay_history[e] = w - 1 - e /\ delay_history[e] \in Int
    BY <1>2, <2>1 DEF AgesBefore
  <2> QED  BY <1>1, <1>2, <1>3, <2>1, <2>2, NeverAssumption
<1>4. CASE \A e \in Positions : w <= e => delay_history[e] = Never
  <2>1. \A e \in Positions : w < e => new[e] = Never
    <3> SUFFICES ASSUME NEW e \in Positions, w < e PROVE new[e] = Never
      OBVIOUS
    <3>1. e # w /\ w <= e
      BY <1>2 DEF Positions
    <3> QED  BY <1>1, <1>4, <3>1
  <2> QED  BY <1>3, <2>1 DEF AgesAfter, new
<1>5. CASE \A e \in Positions :
             w <= e => delay_history[e] = w - 1 - e + DELAY_HISTORY_LENGTH
  <2>1. \A e \in Positions : w < e => new[e] = w - e + DELAY_HISTORY_LENGTH
    <3> SUFFICES ASSUME NEW e \in Positions, w < e
                 PROVE  new[e] = w - e + DELAY_HISTORY_LENGTH
      OBVIOUS
    <3>1. e # w /\ w <= e /\ e \in Int
      BY <1>2 DEF Positions
    <3>2. delay_history[e] = w - 1 - e + DELAY_HISTORY_LENGTH
      BY <1>5, <3>1
    <3>3. delay_history[e] \in Int
      BY <3>2, <3>1, <1>2
    <3> QED  BY <1>1, <1>2, <3>1, <3>2, <3>3, NeverAssumption
  <2> QED  BY <1>3, <2>1 DEF AgesAfter, new
<1> QED  BY <1>4, <1>5 DEF AgesBefore

LEMMA AdvanceAges ==
  ASSUME delay_write_pos \in Positions, NEW history,
         AgesAfter(delay_write_pos, history)
  PROVE  /\ (delay_write_pos + 1) % DELAY_HISTORY_LENGTH \in Positions
         /\ AgesBefore((delay_write_pos + 1) % DELAY_HISTORY_LENGTH, history)
<1> DEFINE w == delay_write_pos
           n == DELAY_HISTORY_LENGTH
           v == (w + 1) % n
<1>1. n \in Nat /\ n > 1 /\ w \in 0 .. n - 1
  BY Sizes DEF Positions
<1>2. v = IF w = n - 1 THEN 0 ELSE w + 1
  <2>1. \A m \in Nat \ {0}, k \in Nat :
          (k < m => k % m = k) /\ (k = m => k % m = 0)
    BY SMT
  <2> HIDE DEF w, n
  <2>2. CASE w = n - 1
    <3>1. w + 1 = n
      BY <1>1, <2>2
    <3> QED  BY <3>1, <2>1, <2>2, <1>1
  <2>3. CASE w # n - 1
    <3>1. w + 1 \in Nat /\ w + 1 < n
      BY <1>1, <2>3
    <3> QED  BY <3>1, <2>1, <2>3, <1>1
  <2> QED  BY <2>2, <2>3
<1> HIDE DEF v
<1>3. v \in Positions
  BY <1>1, <1>2 DEF Positions
<1>4. CASE w = n - 1
  <2>1. v = 0 /\ \A e \in Positions : e \in Int /\ 0 <= e /\ e <= w
    BY <1>1, <1>2, <1>4 DEF Positions
  <2>2. \A e \in Positions : history[e] = v - 1 - e + n
    BY <2>1, <1>1, <1>4 DEF AgesAfter
  <2>3. \A e \in Positions : ~(e < v)
    BY <2>1
  <2> QED  BY <1>3, <2>2, <2>3 DEF AgesBefore, v
<1>5. CASE w # n - 1
  <2>1. v = w + 1 /\ \A e \in Positions : e \in Int
    BY <1>2, <1>5 DEF Positions
  <2>2. \A e \in Positions : (e < v <=> e <= w) /\ (v <= e <=> w < e)
    BY <2>1, <1>1
  <2>3. \A e \in Positions : e < v => history[e] = v - 1 - e
    BY <2>1, <2>2, <1>1 DEF AgesAfter
  <2>4. CASE \A e \in Positions : w < e => history[e] = Never
    BY <1>3, <2>2, <2>3, <2>4 DEF AgesBefore, v
  <2>5. CASE \A e \in Positions : w < e => history[e] = w - e + n
    <3>1. \A e \in Positions : v <= e => history[e] = v - 1 - e + n
      BY <2>1, <2>2, <2>5, <1>1
    <3> QED  BY <1>3, <2>3, <3>1 DEF AgesBefore, v
  <2> QED  BY <2>4, <2>5 DEF AgesAfter
<1> QED  BY <1>4, <1>5

-----------------------------------------------------------------------------
(* Types, and the ages, as one invariant.                                  *)

LineInv == LineTypeOK /\ AgesBefore(delay_write_pos, delay_history)

LEMMA LineInvInit == LineInit => LineInv
<1> SUFFICES ASSUME LineInit PROVE LineInv
  OBVIOUS
<1>1. 0 \in Positions /\ 0 \in 0 .. DELAY_HISTORY_LENGTH
  BY Sizes DEF Positions
<1>2. delay_write_pos = 0
  BY DEF LineInit, TapsInit
<1>3. LineTypeOK
  BY <1>1, <1>2 DEF LineInit, LineTypeOK
<1>4. \A e \in Positions : ~(e < 0) /\ delay_history[e] = Never
  BY DEF LineInit, Positions
<1> QED  BY <1>2, <1>3, <1>4 DEF LineInv, AgesBefore

LEMMA LineInvInductive == LineInv /\ [Update]_delayVars => LineInv'
<1> SUFFICES ASSUME LineInv, [Update]_delayVars PROVE LineInv'
  OBVIOUS
<1>1. CASE Update
  <2>1. delay_write_pos \in Positions
    BY DEF LineInv, LineTypeOK
  <2>2. /\ delay_history' = Stored(delay_history)
        /\ delay_write_pos' = (delay_write_pos + 1) % DELAY_HISTORY_LENGTH
    BY <1>1 DEF Update, Advance
  <2>3. AgesAfter(delay_write_pos, Stored(delay_history))
    BY <2>1, WriteAges DEF LineInv
  <2>4. /\ delay_write_pos' \in Positions
        /\ AgesBefore(delay_write_pos', delay_history')
    BY <2>1, <2>2, <2>3, AdvanceAges
  <2>5. delay_history' \in [Positions -> Positions \union {Never}]
    <3> SUFFICES ASSUME NEW e \in Positions
                 PROVE  Stored(delay_history)[e] \in Positions \union {Never}
      BY <2>2 DEF Stored
    <3> DEFINE w == delay_write_pos
               age == Stored(delay_history)[e]
    <3>1. e \in 0 .. DELAY_HISTORY_LENGTH - 1 /\ w \in 0 .. DELAY_HISTORY_LENGTH - 1
      BY <2>1 DEF Positions
    <3>2. \/ e <= w /\ age = w - e
          \/ w < e /\ age = Never
          \/ w < e /\ age = w - e + DELAY_HISTORY_LENGTH
      BY <2>3, <3>1 DEF AgesAfter
    <3> HIDE DEF w, age
    <3> QED  BY <3>1, <3>2, Sizes DEF Positions, age
  <2>6. taps' \in [Repeats -> [a : 0 .. DELAY_HISTORY_LENGTH, b : Positions]]
    <3>1. \A repeat \in Repeats :
            A(repeat) \in 0 .. DELAY_HISTORY_LENGTH /\ B(repeat) \in Positions
      BY <2>1, TapType
    <3>2. taps' = [repeat \in Repeats |-> [a |-> A(repeat), b |-> B(repeat)]]
      BY <1>1 DEF Update
    <3> QED  BY <3>1, <3>2
  <2> QED  BY <2>4, <2>5, <2>6 DEF LineInv, LineTypeOK
<1>2. CASE UNCHANGED delayVars
  BY <1>2 DEF LineInv, LineTypeOK, AgesBefore, delayVars
<1> QED  BY <1>1, <1>2

(* Every index is inside delay_history, but for repeat_A_pos, which may be *)
(* one past its end (zeros.c:768-776), for every tempo and float format.   *)
THEOREM DelayTypeCorrect == LineSpec => []LineTypeOK
<1>1. LineInv => LineTypeOK
  BY DEF LineInv
<1> QED  BY <1>1, LineInvInit, LineInvInductive, PTL DEF LineSpec

-----------------------------------------------------------------------------
(* The ages that are read.                                                 *)

(* An element e that was written age ago is late enough, and not too late, *)
(* when it is a neighbour of a place that is near the exact one.           *)
LEMMA AgeOfNeighbour ==
  ASSUME NEW repeat \in Repeats, NEW age \in Int, NEW p \in Int, NEW exact \in Int,
         p <= exact + Error, exact <= p + Error,
         p <= exact + Delta * repeat - Scale(age) + Unit,
         exact + Delta * repeat - Scale(age) <= p + Unit
  PROVE  NotLater(age, repeat) /\ NotEarlier(age, repeat)
<1> DEFINE d == Delta * repeat
           s == Scale(age)
<1>1. d \in Nat /\ s \in Int
  BY RepeatType, ScaleFacts
<1>2. /\ p <= exact + d - s + Unit
      /\ exact + d - s <= p + Unit
  OBVIOUS
<1>3. /\ NotLater(age, repeat) <=> s <= d + Error + Unit
      /\ NotEarlier(age, repeat) <=> d - Error - Unit <= s
  BY DEF NotLater, NotEarlier, Scale
<1> HIDE DEF d, s
<1>4. s <= d + Error + Unit
  BY <1>1, <1>2, MaxUlpType, Sizes
<1>5. d - Error - Unit <= s
  BY <1>1, <1>2, MaxUlpType, Sizes
<1> QED  BY <1>3, <1>4, <1>5

(* v is the place of a tap before B wraps around: A or its right neighbour.*)
LEMMA TapNear ==
  ASSUME NEW repeat \in Repeats, delay_write_pos \in Positions,
         NEW v \in {A(repeat), A(repeat) + 1}
  PROVE  /\ v \in Int /\ Scale(v) \in Int
         /\ Scale(v) <= RepeatPos(repeat) + Unit
         /\ RepeatPos(repeat) <= Scale(v) + Unit
<1> DEFINE p == RepeatPos(repeat)
           a == A(repeat)
<1>1. p \in 0 .. End
  BY RepeatPosNear
<1>2. a \in Int /\ Scale(a) <= p /\ p < Scale(a) + Unit
  BY <1>1, Truncation DEF A
<1>3. /\ Scale(a) \in Int
      /\ Scale(a + 1) \in Int /\ Scale(a + 1) = Scale(a) + Unit
  <2>1. a \in Int /\ a + 1 \in Int /\ 1 \in Int
    BY <1>2
  <2>2. Scale(a + 1) = Scale(a) + Scale(1) /\ Scale(1) = Unit
    BY <2>1, ScaleFacts
  <2> QED  BY <2>1, <2>2, ScaleFacts
<1> HIDE DEF p, a
<1>4. v = a \/ v = a + 1
  BY DEF a
<1>5. p \in Int /\ Unit \in Nat
  BY <1>1, Sizes
<1>6. /\ v \in Int /\ Scale(v) \in Int
      /\ Scale(v) <= p + Unit /\ p <= Scale(v) + Unit
  <2>1. CASE v = a
    BY <1>2, <1>3, <1>5, <2>1
  <2>2. CASE v = a + 1
    BY <1>2, <1>3, <1>5, <2>2
  <2> QED  BY <1>4, <2>1, <2>2
<1> QED  BY <1>6 DEF p

LEMMA EchoRead ==
  ASSUME delay_write_pos \in Positions, NEW history,
         AgesAfter(delay_write_pos, history),
         NEW repeat \in Repeats,
         NEW e \in {A(repeat), B(repeat)} \intersect Positions
  PROVE  IF history[e] = Never
           THEN \A j \in Positions :
                  history[j] # Never => NotLater(history[j], repeat)
           ELSE NotLater(history[e], repeat) /\ NotEarlier(history[e], repeat)
<1> DEFINE w == delay_write_pos
           n == DELAY_HISTORY_LENGTH
           p == RepeatPos(repeat)
           d == Delta * repeat
           sw == Scale(w)
<1>1. /\ w \in Int /\ 0 <= w /\ w < n /\ n \in Nat /\ n > 1
      /\ \A j \in Positions : j \in Int /\ 0 <= j /\ j < n
  BY Sizes DEF Positions
<1>2. /\ d \in Nat /\ d > Error + 2 * Unit /\ d + Error + 2 * Unit <= End
      /\ sw \in Int /\ Scale(n) = End
  BY <1>1, RepeatType, ScaleFacts DEF End
<1>3. /\ p \in 0 .. End
      /\ \/ p <= sw - d + Error /\ sw - d <= p + Error
         \/ p <= sw - d + End + Error /\ sw - d + End <= p + Error
  BY RepeatPosNear
<1>4. PICK v \in {A(repeat), A(repeat) + 1} : e = v \/ (v >= n /\ e = v - n)
  <2>1. CASE e = A(repeat)
    BY <2>1
  <2>2. CASE e = B(repeat)
    <3> DEFINE a == A(repeat)
    <3>1. /\ a \in 0 .. n
          /\ a < n - 1 => e = a + 1
          /\ a = n - 1 => e = 0
          /\ a = n => e = 1
      BY <2>2, TapType
    <3> HIDE DEF a, n
    <3>2. e = a + 1 \/ (a + 1 >= n /\ e = (a + 1) - n)
      BY <3>1, <1>1
    <3>3. a + 1 \in {A(repeat), A(repeat) + 1}
      BY DEF a
    <3> QED  BY <3>2, <3>3
  <2> QED  BY <2>1, <2>2
<1>5. /\ v \in Int /\ Scale(v) \in Int
      /\ Scale(v) <= p + Unit /\ p <= Scale(v) + Unit
  BY TapNear
<1>6. e \in Int /\ 0 <= e /\ e < n
  BY <1>1
<1> HIDE DEF w, n, p, d, sw
<1>7. CASE p <= sw - d + Error /\ sw - d <= p + Error
  <2>1. Scale(v) < sw
    BY <1>2, <1>3, <1>5, <1>7, MaxUlpType, Sizes
  <2>2. v < w
    <3>1. w <= v => sw <= Scale(v)
      BY <1>1, <1>5, ScaleFacts DEF sw
    <3> QED  BY <1>1, <1>2, <1>5, <2>1, <3>1
  <2>3. e = v /\ e <= w
    BY <1>1, <1>4, <1>5, <2>2
  <2>4. history[e] = w - v
    BY <2>3 DEF AgesAfter, w
  <2>5. w - v \in Int /\ Scale(w - v) = sw - Scale(v)
    BY <1>1, <1>5, ScaleFacts DEF sw
  <2>6. NotLater(w - v, repeat) /\ NotEarlier(w - v, repeat)
    <3>1. /\ p \in Int /\ sw - d \in Int
          /\ p <= sw - d + d - Scale(w - v) + Unit
          /\ sw - d + d - Scale(w - v) <= p + Unit
      BY <1>2, <1>3, <1>5, <2>5, Sizes
    <3> QED  BY <1>7, <2>5, <3>1, AgeOfNeighbour DEF d
  <2> QED  BY <2>4, <2>5, <2>6, NeverAssumption
<1>8. CASE p <= sw - d + End + Error /\ sw - d + End <= p + Error
  <2> DEFINE age == w - v + n
  <2>1. age \in Int /\ Scale(age) = sw - Scale(v) + End
    <3>1. w - v \in Int /\ Scale(w - v) = sw - Scale(v)
      BY <1>1, <1>5, ScaleFacts DEF sw
    <3>2. age \in Int /\ age = (w - v) + n
      BY <1>1, <3>1
    <3>3. Scale((w - v) + n) = Scale(w - v) + Scale(n)
      BY <1>1, <3>1, ScaleFacts
    <3> QED  BY <1>2, <3>1, <3>2, <3>3
  <2> HIDE DEF age
  <2>2. NotLater(age, repeat) /\ NotEarlier(age, repeat)
    <3>1. /\ p \in Int /\ sw - d + End \in Int
          /\ p <= sw - d + End + d - Scale(age) + Unit
          /\ sw - d + End + d - Scale(age) <= p + Unit
      BY <1>2, <1>3, <1>5, <2>1, Sizes
    <3> QED  BY <1>8, <2>1, <3>1, AgeOfNeighbour DEF d
  <2>3. w < v
    <3>1. sw < Scale(v)
      BY <1>2, <1>3, <1>5, <1>8, MaxUlpType, Sizes
    <3>2. v <= w => Scale(v) <= sw
      BY <1>1, <1>5, ScaleFacts DEF sw
    <3> QED  BY <1>1, <1>2, <1>5, <3>1, <3>2
  <2>4. CASE v >= n /\ e = v - n
    <3>1. e <= w
      <4>1. Scale(v) <= sw + End
        BY <1>2, <1>3, <1>5, <1>8, MaxUlpType, Sizes
      <4>2. Scale(e) = Scale(v) - End
        BY <1>1, <1>2, <1>5, <2>4, ScaleFacts
      <4>3. w + 1 <= e => Scale(w + 1) <= Scale(e)
        BY <1>1, <1>6, ScaleFacts
      <4>4. Scale(w + 1) = sw + Unit
        BY <1>1, ScaleFacts DEF sw
      <4> QED  BY <1>1, <1>2, <1>5, <1>6, <4>1, <4>2, <4>3, <4>4, Sizes
    <3>2. history[e] = age
      <4>1. history[e] = w - e
        BY <3>1 DEF AgesAfter, w
      <4>2. w - e = age
        BY <1>1, <1>5, <2>4 DEF age
      <4> QED  BY <4>1, <4>2
    <3> QED  BY <2>1, <2>2, <3>2, NeverAssumption
  <2>5. CASE e = v
    <3>1. CASE \A j \in Positions : w < j => history[j] = Never
      <4>1. ASSUME NEW j \in Positions, history[j] # Never
            PROVE  NotLater(history[j], repeat)
        <5>1. j \in Int /\ 0 <= j /\ j <= w
          BY <1>1, <3>1, <4>1
        <5>2. history[j] = w - j
          BY <5>1 DEF AgesAfter, w
        <5>3. w - j \in Int /\ Scale(w - j) <= sw
          BY <1>1, <5>1, ScaleFacts DEF sw
        <5>4. Scale(w - j) \in Int
          BY <5>3, ScaleFacts
        <5>5. Scale(w - j) <= d + Error + Unit
          BY <1>2, <1>3, <1>8, <5>3, <5>4, MaxUlpType, Sizes
        <5> QED  BY <5>2, <5>5 DEF NotLater, Scale, d
      <4>2. history[e] = Never
        BY <2>3, <2>5, <3>1
      <4> QED  BY <4>1, <4>2
    <3>2. CASE \A j \in Positions : w < j => history[j] = w - j + n
      <4>1. history[e] = age
        BY <2>3, <2>5, <3>2 DEF age
      <4> QED  BY <2>1, <2>2, <4>1, NeverAssumption
    <3> QED  BY <3>1, <3>2 DEF AgesAfter, w, n
  <2> QED  BY <1>4, <2>4, <2>5
<1> QED  BY <1>3, <1>7, <1>8

(* The echo is as late as the tempo asks for, within the error of float:   *)
(* at every position, through every wrap of the buffer, what the taps read *)
(* was written repeat * Delta ago or not at all (zeros.c:755-783).         *)
THEOREM DelayEchoDelayed == LineSpec => []EchoDelayed
<1>1. LineInit => EchoDelayed
  BY DEF LineInit, EchoDelayed
<1>2. LineInv /\ EchoDelayed /\ [Update]_delayVars => EchoDelayed'
  <2> SUFFICES ASSUME LineInv, EchoDelayed, [Update]_delayVars
               PROVE  EchoDelayed'
    OBVIOUS
  <2>1. CASE Update
    <3>1. delay_write_pos \in Positions
      BY DEF LineInv, LineTypeOK
    <3>2. AgesAfter(delay_write_pos, delay_history')
      BY <2>1, <3>1, WriteAges DEF LineInv, Update
    <3>3. \A repeat \in Repeats :
            taps'[repeat].a = A(repeat) /\ taps'[repeat].b = B(repeat)
      BY <2>1 DEF Update
    <3> SUFFICES ASSUME NEW repeat \in Repeats,
                        NEW e \in {A(repeat), B(repeat)} \intersect Positions
                 PROVE  IF delay_history'[e] = Never
                          THEN \A j \in Positions :
                                 delay_history'[j] # Never =>
                                   NotLater(delay_history'[j], repeat)
                          ELSE /\ NotLater(delay_history'[e], repeat)
                               /\ NotEarlier(delay_history'[e], repeat)
      BY <3>3 DEF EchoDelayed, NotLater, NotEarlier
    <3> QED  BY <3>1, <3>2, EchoRead
  <2>2. CASE UNCHANGED delayVars
    BY <2>2 DEF EchoDelayed, delayVars, NotLater, NotEarlier
  <2> QED  BY <2>1, <2>2
<1> QED  BY <1>1, <1>2, LineInvInit, LineInvInductive, PTL DEF LineSpec

-----------------------------------------------------------------------------
(* The page and its worklet.                                               *)

(* The last configuration under way is the one that the sliders show.      *)
WebAgrees ==
  /\ page \in {"idle", "mic", "module", "ready", "failed"}
  /\ toNode \in Seq(Configs) /\ sliders \in Configs
  /\ worklet => page = "ready"
  /\ toPage # <<>> => page = "ready"
  /\ worklet /\ toPage = <<>> =>
       IF toNode = <<>> THEN config = sliders ELSE toNode[Len(toNode)] = sliders
  /\ toPage \in Seq({"ready"}) /\ Len(toPage) <= 1
  /\ ~worklet => toPage = <<>>
  /\ page \in {"mic", "module"} => running
  /\ page = "ready" => (running <=> connected)

LEMMA WebInitAgrees == Html!Init => WebAgrees
BY DEF Html!Init, WebAgrees

LEMMA SendAgrees ==
  ASSUME WebAgrees, NEW c \in Configs, Html!ConfigChange(c), page = "ready"
  PROVE  toNode' \in Seq(Configs) /\ toNode' # <<>> /\ toNode'[Len(toNode')] = c
<1>1. toNode' = Append(toNode, c) /\ toNode \in Seq(Configs)
  BY DEF Html!ConfigChange, Html!playerNode, WebAgrees
<1>2. Len(toNode) \in Nat
  BY <1>1
<1>. QED
  BY <1>1, <1>2

LEMMA WebNextAgrees ==
  ASSUME WebAgrees, [Html!Next]_(Html!vars)
  PROVE  WebAgrees'
<1>. USE DEF WebAgrees, Html!processor, Html!envelope
<1>1. CASE Html!ClickStart
  BY <1>1 DEF Html!ClickStart
<1>2. CASE Html!MicGranted
  BY <1>2 DEF Html!MicGranted
<1>3. CASE Html!ModuleAdded
  BY <1>3 DEF Html!ModuleAdded
<1>4. CASE Html!Refused
  BY <1>4 DEF Html!Refused
<1>5. CASE Html!ClickMute
  BY <1>5 DEF Html!ClickMute, Html!playerNode
<1>6. ASSUME NEW c \in Configs, Html!Slide(c) PROVE WebAgrees'
  <2>1. /\ page # "idle" /\ sliders' = c /\ Html!ConfigChange(c)
        /\ UNCHANGED <<page, running, connected, toPage, worklet, config>>
    BY <1>6 DEF Html!Slide
  <2>2. CASE page = "ready"
    <3>1. toNode' \in Seq(Configs) /\ toNode' # <<>> /\ toNode'[Len(toNode')] = c
      BY <2>1, <2>2, SendAgrees
    <3>. QED
      BY <2>1, <2>2, <3>1
  <2>3. CASE page # "ready"
    <3>1. toNode' = toNode
      BY <2>1, <2>3 DEF Html!ConfigChange, Html!playerNode
    <3>. QED
      BY <2>1, <2>3, <3>1
  <2>. QED
    BY <2>2, <2>3
<1>7. CASE Html!PageReceives
  <2>1. /\ toPage # <<>> /\ toPage' = Tail(toPage) /\ Html!ConfigChange(sliders)
        /\ UNCHANGED <<page, sliders, running, connected, worklet, config>>
    BY <1>7 DEF Html!PageReceives
  <2>2. page = "ready" /\ sliders \in Configs
    BY <2>1
  <2>3. toNode' \in Seq(Configs) /\ toNode' # <<>> /\ toNode'[Len(toNode')] = sliders
    BY <2>1, <2>2, SendAgrees
  <2>4. toPage' \in Seq({"ready"}) /\ Len(toPage') <= 1 /\ toPage' = <<>>
    <3>1. toPage \in Seq({"ready"}) /\ Len(toPage) <= 1 /\ toPage # <<>>
      BY <2>1
    <3>2. Len(toPage) \in Nat /\ Len(toPage) # 0
      BY ONLY <3>1
    <3>. QED
      BY ONLY <2>1, <3>1, <3>2
  <2>. QED
    BY <2>1, <2>2, <2>3, <2>4
<1>8. CASE Html!Construct
  <2>1. /\ page = "ready" /\ ~worklet /\ worklet' = TRUE /\ toPage' = Append(toPage, "ready")
        /\ UNCHANGED <<page, sliders, running, connected, toNode, config>>
    BY <1>8 DEF Html!Construct, Html!playerNode
  <2>2. toPage = <<>>
    BY <2>1
  <2>3. toPage' \in Seq({"ready"}) /\ Len(toPage') <= 1 /\ toPage' # <<>>
    BY <2>1, <2>2
  <2>. QED
    BY <2>1, <2>3
<1>9. CASE Html!NodeReceives
  <2>1. /\ worklet /\ toNode # <<>> /\ config' = Head(toNode) /\ toNode' = Tail(toNode)
        /\ UNCHANGED <<page, sliders, running, connected, toPage, worklet>>
    BY <1>9 DEF Html!NodeReceives
  <2>2. toNode' \in Seq(Configs) /\ Len(toNode') = Len(toNode) - 1 /\ Len(toNode) \in Nat \ {0}
    BY <2>1
  <2>3. toPage = <<>> =>
          IF toNode' = <<>> THEN config' = sliders ELSE toNode'[Len(toNode')] = sliders
    <3>. SUFFICES ASSUME toPage = <<>>
                  PROVE  IF toNode' = <<>> THEN config' = sliders
                         ELSE toNode'[Len(toNode')] = sliders
      OBVIOUS
    <3>1. toNode[Len(toNode)] = sliders
      BY <2>1
    <3>2. CASE Len(toNode) = 1
      BY <2>1, <2>2, <3>1, <3>2
    <3>3. CASE Len(toNode) # 1
      BY <2>1, <2>2, <3>1, <3>3
    <3>. QED
      BY <3>2, <3>3
  <2>. QED
    BY <2>1, <2>2, <2>3
<1>10. ASSUME NEW rms \in 0 .. MaxLevel, NEW open \in BOOLEAN, NEW found \in BOOLEAN,
              Html!Update(rms, open, found)
       PROVE  WebAgrees'
  BY <1>10 DEF Html!Update
<1>11. CASE UNCHANGED Html!vars
  BY <1>11 DEF Html!vars
<1>. QED
  BY <1>1, <1>2, <1>3, <1>4, <1>5, <1>6, <1>7, <1>8, <1>9, <1>10, <1>11, WebAssumption
  DEF Html!Next, Html!SetDefaults

(* However the sliders are moved and the button is clicked while the page  *)
(* waits for a permission and for the worklet's code: once no message is   *)
(* under way the synth has the sliders' configuration, and the button      *)
(* tells whether it is heard.                                              *)
THEOREM WebPageAndNodeAgree == Html!Spec => []PageAndNodeAgree
<1>1. Html!Init => WebAgrees
  BY WebInitAgrees
<1>2. WebAgrees /\ [Html!Next]_(Html!vars) => WebAgrees'
  BY WebNextAgrees
<1>3. WebAgrees => PageAndNodeAgree
  BY DEF WebAgrees, PageAndNodeAgree, Html!ConfigsAgree, Html!MuteTells, Html!playerNode
<1>. QED
  BY <1>1, <1>2, <1>3, PTL DEF Html!Spec

-----------------------------------------------------------------------------
(* The worklet's envelope.                                                 *)

(* What an amplitude is put out as, at a step of the ramp.                 *)
Scaled(amp, r) == amp * r

Half == (MaxLevel + 1) \div 2

LEMMA ScaledFacts ==
  ASSUME NEW a \in Nat, NEW r \in Nat, NEW h \in Nat, NEW m \in Nat, r <= m
  PROVE  /\ Scaled(a, r) \in Nat /\ Scaled(a, 0) = 0
         /\ Scaled(a + h, r) <= Scaled(a, r) + Scaled(h, m)
         /\ \A b \in Nat : b <= a + h => Scaled(b, r) <= Scaled(a, r) + Scaled(h, m)
         /\ Scaled(a, r + 1) = Scaled(a, r) + a
<1>1. \A x \in Nat, y \in Nat, z \in Nat :
         /\ x * z \in Nat /\ (x + y) * z = x * z + y * z /\ x * 0 = 0
         /\ x * (z + 1) = x * z + x
         /\ y <= z => x * y <= x * z /\ y * x <= z * x
  BY SMT
<1>2. (a + h) * r = a * r + h * r /\ h * r <= h * m
  BY <1>1
<1>3. a * r \in Nat /\ h * r \in Nat /\ h * m \in Nat /\ a * 0 = 0 /\ a * (r + 1) = a * r + a
  BY <1>1
<1>4. \A b \in Nat : b <= a + h => b * r <= (a + h) * r /\ b * r \in Nat
  BY <1>1
<1>. QED
  BY <1>2, <1>3, <1>4 DEF Scaled

LEMMA TowardFacts ==
  ASSUME NEW amp \in 0 .. MaxLevel, NEW target \in 0 .. MaxLevel
  PROVE  Html!Toward(amp, target) \in 0 .. MaxLevel /\ Html!Toward(amp, target) <= amp + Half
<1>1. MaxLevel \in Nat
  BY WebAssumption
<1>2. CASE target > amp
  <2>1. /\ (target - amp + 1) \div 2 <= (MaxLevel + 1) \div 2
        /\ (target - amp + 1) \div 2 <= target - amp
        /\ (target - amp + 1) \div 2 \in Nat
    BY <1>1, <1>2
  <2>. QED
    BY <1>1, <1>2, <2>1 DEF Html!Toward, Half
<1>3. CASE ~ (target > amp)
  <2>1. /\ (amp - target + 1) \div 2 \in Nat /\ (amp - target + 1) \div 2 <= amp
        /\ (MaxLevel + 1) \div 2 \in Nat
    BY <1>1, <1>3
  <2>. QED
    BY <1>1, <1>3, <2>1 DEF Html!Toward, Half
<1>. QED
  BY <1>2, <1>3

(* Where the ramp was at the sample that was put out last.                 *)
EnvelopeInv ==
  /\ smoothed_amp \in 0 .. MaxLevel /\ onset_ramp \in 0 .. Ramp /\ pitch \in BOOLEAN
  /\ pitch => \E r \in 0 .. Ramp :
                /\ level = Scaled(smoothed_amp, r)
                /\ onset_ramp = r + 1 \/ (onset_ramp = r /\ r = Ramp)

LEMMA EnvelopeInit == Html!Init => EnvelopeInv
<1>. SUFFICES ASSUME Html!Init PROVE EnvelopeInv
  OBVIOUS
<1>1. smoothed_amp = 0 /\ onset_ramp = 0 /\ pitch = FALSE
  BY DEF Html!Init
<1>2. 0 \in 0 .. MaxLevel /\ 0 \in 0 .. Ramp
  BY WebAssumption
<1>. QED
  BY <1>1, <1>2, Zenon DEF EnvelopeInv

LEMMA EnvelopeUpdate ==
  ASSUME EnvelopeInv, NEW rms \in 0 .. MaxLevel, NEW open \in BOOLEAN, NEW found \in BOOLEAN,
         Html!Update(rms, open, found)
  PROVE  EnvelopeInv' /\ (pitch => level' - level <= Html!Swell)
<1> DEFINE opens == gated /\ open
           ramp == IF opens THEN 0 ELSE onset_ramp
           target == IF open THEN rms ELSE 0
           amp == IF opens THEN rms ELSE Html!Toward(smoothed_amp, target)
<1>1. /\ smoothed_amp' = amp /\ onset_ramp' = IF ramp < Ramp THEN ramp + 1 ELSE ramp
      /\ pitch' = (pitch \/ found) /\ level' = IF pitch' THEN Scaled(amp, ramp) ELSE 0
  BY DEF Html!Update, Html!Onset, Scaled
<1>2. MaxLevel \in Nat /\ Ramp \in Nat /\ Half \in Nat
  BY WebAssumption DEF Half
<1>3. /\ smoothed_amp \in 0 .. MaxLevel /\ onset_ramp \in 0 .. Ramp /\ pitch \in BOOLEAN
      /\ target \in 0 .. MaxLevel
  BY <1>2 DEF EnvelopeInv
<1>4. amp \in 0 .. MaxLevel /\ (~ opens => amp <= smoothed_amp + Half)
  BY <1>3, TowardFacts
<1>5. ramp \in 0 .. Ramp /\ (opens => ramp = 0)
  BY <1>2, <1>3
<1>. HIDE DEF amp, ramp, target
<1>6. EnvelopeInv'
  <2>1. onset_ramp' \in 0 .. Ramp /\ pitch' \in BOOLEAN /\ smoothed_amp' \in 0 .. MaxLevel
    BY <1>1, <1>2, <1>3, <1>4, <1>5
  <2>2. onset_ramp' = ramp + 1 \/ (onset_ramp' = ramp /\ ramp = Ramp)
    BY <1>1, <1>2, <1>5
  <2>3. pitch' => level' = Scaled(smoothed_amp', ramp)
    BY <1>1
  <2>. QED
    BY <1>5, <2>1, <2>2, <2>3 DEF EnvelopeInv
<1>7. ASSUME pitch PROVE level' - level <= Html!Swell
  <2>1. PICK r \in 0 .. Ramp :
           /\ level = Scaled(smoothed_amp, r)
           /\ onset_ramp = r + 1 \/ (onset_ramp = r /\ r = Ramp)
    BY <1>7 DEF EnvelopeInv
  <2>2. level' = Scaled(amp, ramp) /\ Html!Swell = MaxLevel + Scaled(Ramp, Half)
    BY <1>1, <1>7 DEF Html!Swell, Half, Scaled
  <2>3. Scaled(Ramp, Half) = Scaled(Half, Ramp) /\ Scaled(Half, Ramp) \in Nat
    <3>1. \A x \in Nat, y \in Nat : x * y = y * x /\ x * y \in Nat
      BY SMT
    <3>. QED
      BY <1>2, <3>1 DEF Scaled
  <2>4. /\ smoothed_amp \in Nat /\ amp \in Nat /\ r \in Nat /\ ramp \in Nat
        /\ r <= Ramp /\ ramp <= Ramp /\ smoothed_amp <= MaxLevel
    BY <1>2, <1>3, <1>4, <1>5
  <2>5. Scaled(smoothed_amp, r) \in Nat /\ Scaled(smoothed_amp, r + 1) = Scaled(smoothed_amp, r) + smoothed_amp
    BY <1>2, <2>4, ScaledFacts
  <2>6. CASE opens
    <3>1. Scaled(amp, ramp) = 0
      BY <1>2, <1>5, <2>4, <2>6, ScaledFacts
    <3>. QED
      BY <1>2, <2>1, <2>2, <2>3, <2>5, <3>1
  <2>7. CASE ~ opens
    <3>1. Scaled(amp, ramp) <= Scaled(smoothed_amp, ramp) + Scaled(Half, Ramp)
      BY <1>2, <1>4, <2>4, <2>7, ScaledFacts
    <3>2. ramp = r + 1 \/ ramp = r
      BY <2>1, <2>7 DEF ramp
    <3>3. Scaled(smoothed_amp, ramp) <= Scaled(smoothed_amp, r) + smoothed_amp
      BY <2>4, <2>5, <3>2
    <3>4. Scaled(amp, ramp) \in Nat /\ Scaled(smoothed_amp, ramp) \in Nat
      BY <1>2, <2>4, ScaledFacts
    <3>. QED
      BY <1>2, <2>1, <2>2, <2>3, <2>4, <2>5, <3>1, <3>3, <3>4
  <2>. QED
    BY <2>6, <2>7
<1>. QED
  BY <1>6, <1>7

LEMMA EnvelopeKept ==
  ASSUME EnvelopeInv, UNCHANGED Html!envelope
  PROVE  EnvelopeInv' /\ (pitch => level' - level <= Html!Swell)
<1>1. UNCHANGED <<gated, smoothed_amp, onset_ramp, pitch, level>>
  BY DEF Html!envelope
<1>2. EnvelopeInv'
  BY <1>1 DEF EnvelopeInv
<1>3. ASSUME pitch PROVE level' - level <= Html!Swell
  <2>1. MaxLevel \in Nat /\ Ramp \in Nat /\ Half \in Nat
    BY WebAssumption DEF Half
  <2>2. \A x \in Nat, y \in Nat : x * y \in Nat
    BY SMT
  <2>3. Html!Swell = MaxLevel + Ramp * Half
    BY DEF Html!Swell, Half
  <2>4. Ramp * Half \in Nat
    BY <2>1, <2>2
  <2>5. PICK r \in 0 .. Ramp : level = Scaled(smoothed_amp, r)
    BY <1>3 DEF EnvelopeInv
  <2>6. smoothed_amp \in Nat /\ r \in Nat
    BY <2>1 DEF EnvelopeInv
  <2>7. smoothed_amp * r \in Nat
    BY <2>2, <2>6
  <2>8. level \in Nat /\ level' = level
    BY <1>1, <2>5, <2>7 DEF Scaled
  <2>. HIDE DEF Half
  <2>. QED
    BY <2>1, <2>3, <2>4, <2>8
<1>. QED
  BY <1>2, <1>3

LEMMA EnvelopeNext ==
  ASSUME EnvelopeInv, [Html!Next]_(Html!vars)
  PROVE  EnvelopeInv' /\ (pitch => level' - level <= Html!Swell)
<1>1. ASSUME NEW rms \in 0 .. MaxLevel, NEW open \in BOOLEAN, NEW found \in BOOLEAN,
             Html!Update(rms, open, found)
      PROVE  EnvelopeInv' /\ (pitch => level' - level <= Html!Swell)
  BY <1>1, EnvelopeUpdate
<1>2. CASE Html!ClickStart
  BY <1>2, EnvelopeKept DEF Html!ClickStart
<1>3. CASE Html!MicGranted
  BY <1>3, EnvelopeKept DEF Html!MicGranted
<1>4. CASE Html!ModuleAdded
  BY <1>4, EnvelopeKept DEF Html!ModuleAdded
<1>5. CASE Html!Refused
  BY <1>5, EnvelopeKept DEF Html!Refused
<1>6. CASE Html!ClickMute
  BY <1>6, EnvelopeKept DEF Html!ClickMute
<1>7. ASSUME NEW c, Html!Slide(c)
      PROVE  EnvelopeInv' /\ (pitch => level' - level <= Html!Swell)
  BY <1>7, EnvelopeKept DEF Html!Slide
<1>8. CASE Html!PageReceives
  BY <1>8, EnvelopeKept DEF Html!PageReceives
<1>9. CASE Html!Construct
  BY <1>9, EnvelopeKept DEF Html!Construct
<1>10. CASE Html!NodeReceives
  BY <1>10, EnvelopeKept DEF Html!NodeReceives
<1>11. CASE UNCHANGED Html!vars
  BY <1>11, EnvelopeKept DEF Html!vars
<1>. QED
  BY <1>1, <1>2, <1>3, <1>4, <1>5, <1>6, <1>7, <1>8, <1>9, <1>10, <1>11
  DEF Html!Next, Html!SetDefaults

(* A note begins softly: from one sample to the next the sound swells by   *)
(* one step of the ramp and one of the amplitude at most, because the      *)
(* amplitude is snapped to the input's only where the ramp starts again.   *)
THEOREM WebGentleOnset == Html!Spec => GentleOnset
<1>1. Html!Init => EnvelopeInv
  BY EnvelopeInit
<1>2. EnvelopeInv /\ [Html!Next]_(Html!vars) => EnvelopeInv'
  BY EnvelopeNext
<1>3. EnvelopeInv /\ [Html!Next]_(Html!vars)
        => [pitch => level' - level <= Html!Swell]_(Html!vars)
  BY EnvelopeNext
<1>. QED
  BY <1>1, <1>2, <1>3, PTL DEF Html!Spec, GentleOnset, Html!GentleOnset

-----------------------------------------------------------------------------
(* The keys.                                                               *)

(* The key that was typed before j others.                                 *)
From(j) == typed[Len(typed) - j]

(* The last keys were an announcement and d digits, at most two.           *)
Begun(d) ==
  /\ Len(typed) > d /\ From(d).kind = "announce"
  /\ d > 0 => From(0).kind = "digit"
  /\ d > 1 => From(1).kind = "digit"

KeypadInv ==
  /\ typed \in Seq(Keys) /\ Len(typed) <= 4
  /\ digits_read \in Seq(0 .. 9) /\ Len(digits_read) <= 2
  /\ digit_note_to_send = Kbd!None => digits_read = <<>> /\ \A d \in 0 .. 2 : ~ Begun(d)
  /\ digit_note_to_send # Kbd!None =>
       /\ Begun(Len(digits_read)) /\ From(Len(digits_read)).value = digit_note_to_send
       /\ \A j \in 1 .. Len(digits_read) : digits_read[j] = From(Len(digits_read) - j).value

(* What a key does to the keys before it.                                  *)
LEMMA TypeShift ==
  ASSUME typed \in Seq(Keys), Len(typed) <= 4, NEW k \in Keys, Kbd!Type(k)
  PROVE  /\ typed' \in Seq(Keys) /\ Len(typed') \in 1 .. 4
         /\ Len(typed') = IF Len(typed) < 4 THEN Len(typed) + 1 ELSE Len(typed)
         /\ typed'[Len(typed')] = k
         /\ \A j \in 0 .. 2 : j < Len(typed) => typed'[Len(typed') - (j + 1)] = From(j)
<1>1. Len(typed) \in Nat /\ Len(typed) <= 4
  OBVIOUS
<1>2. CASE Len(typed) < 4
  <2>1. typed' = Append(typed, k)
    BY <1>2 DEF Kbd!Type
  <2>2. Len(typed') = Len(typed) + 1 /\ typed' \in Seq(Keys) /\ typed'[Len(typed) + 1] = k
    BY <1>1, <2>1
  <2>3. \A e \in 1 .. Len(typed) : typed'[e] = typed[e]
    BY <1>1, <2>1
  <2>4. ASSUME NEW j \in 0 .. 2, j < Len(typed)
        PROVE  typed'[Len(typed') - (j + 1)] = From(j)
    <3>1. Len(typed') - (j + 1) = Len(typed) - j /\ Len(typed) - j \in 1 .. Len(typed)
      BY <1>1, <2>2, <2>4
    <3>. QED
      BY <2>3, <3>1 DEF From
  <2>. QED
    BY <1>1, <1>2, <2>2, <2>4
<1>3. CASE ~ (Len(typed) < 4)
  <2> DEFINE rest == Tail(typed)
  <2>1. typed' = Append(rest, k)
    BY <1>3 DEF Kbd!Type
  <2>2. typed # <<>>
    BY <1>1, <1>3
  <2>3. rest \in Seq(Keys) /\ Len(rest) = Len(typed) - 1
    BY <2>2
  <2>4. \A e \in 1 .. Len(rest) : rest[e] = typed[e + 1]
    BY <2>2, HeadTailProperties
  <2>. HIDE DEF rest
  <2>5. /\ typed' \in Seq(Keys) /\ Len(typed') = Len(rest) + 1
        /\ typed'[Len(rest) + 1] = k
        /\ \A e \in 1 .. Len(rest) : typed'[e] = rest[e]
    BY <2>1, <2>3, AppendProperties
  <2>6. ASSUME NEW j \in 0 .. 2, j < Len(typed)
        PROVE  typed'[Len(typed') - (j + 1)] = From(j)
    <3>1. /\ Len(typed') - (j + 1) = Len(rest) - j /\ Len(rest) - j \in 1 .. Len(rest)
          /\ (Len(rest) - j) + 1 = Len(typed) - j
      BY <1>1, <1>3, <2>3, <2>5
    <3>2. typed'[Len(rest) - j] = rest[Len(rest) - j]
          /\ rest[Len(rest) - j] = typed[(Len(rest) - j) + 1]
      BY <2>4, <2>5, <3>1
    <3>. QED
      BY <3>1, <3>2 DEF From
  <2>. QED
    BY <1>1, <1>3, <2>3, <2>5, <2>6
<1>. QED
  BY <1>2, <1>3

(* So what was begun before a digit is begun with one more behind it.      *)
LEMMA BegunShift ==
  ASSUME KeypadInv, NEW k \in Keys, Kbd!Type(k)
  PROVE  /\ typed' \in Seq(Keys) /\ Len(typed') <= 4
         /\ Begun(0)' <=> k.kind = "announce"
         /\ From(0)' = k
         /\ \A d \in 0 .. 1 : Begun(d + 1)' <=> Begun(d) /\ k.kind = "digit"
         /\ \A j \in 0 .. 2 : j < Len(typed) => From(j + 1)' = From(j)
         /\ \A note, n : Kbd!Spells(n, note)' <=>
              /\ Begun(2) /\ k.kind = "digit" /\ From(2).value = note
              /\ n = 100 * From(1).value + 10 * From(0).value + k.value
<1>1. typed \in Seq(Keys) /\ Len(typed) \in Nat /\ Len(typed) <= 4
  BY DEF KeypadInv
<1>2. /\ typed' \in Seq(Keys) /\ Len(typed') \in 1 .. 4
      /\ Len(typed') = IF Len(typed) < 4 THEN Len(typed) + 1 ELSE Len(typed)
      /\ typed'[Len(typed')] = k
      /\ \A j \in 0 .. 2 : j < Len(typed) => typed'[Len(typed') - (j + 1)] = From(j)
  BY <1>1, TypeShift
<1>3. From(0)' = k
  BY <1>2 DEF From
<1>4. /\ 0 < Len(typed) => From(1)' = From(0)
      /\ 1 < Len(typed) => From(2)' = From(1)
      /\ 2 < Len(typed) => From(3)' = From(2)
  <2>1. ASSUME NEW j \in 0 .. 2, j < Len(typed) PROVE From(j + 1)' = From(j)
    <3>1. typed'[Len(typed') - (j + 1)] = From(j)
      BY <1>2, <2>1
    <3>. QED
      BY <3>1 DEF From
  <2>2. 0 \in 0 .. 2 /\ 1 \in 0 .. 2 /\ 2 \in 0 .. 2 /\ 0 + 1 = 1 /\ 1 + 1 = 2 /\ 2 + 1 = 3
    OBVIOUS
  <2>3. 0 < Len(typed) => From(0 + 1)' = From(0)
    BY <2>1, <2>2
  <2>4. 1 < Len(typed) => From(1 + 1)' = From(1)
    BY <2>1, <2>2
  <2>5. 2 < Len(typed) => From(2 + 1)' = From(2)
    BY <2>1, <2>2
  <2>. QED
    BY <2>2, <2>3, <2>4, <2>5
<1>5. /\ Len(typed') > 0 /\ (Len(typed') > 1 <=> Len(typed) > 0)
      /\ (Len(typed') > 2 <=> Len(typed) > 1) /\ (Len(typed') > 3 <=> Len(typed) > 2)
  BY <1>1, <1>2
<1>6. Begun(0)' <=> k.kind = "announce"
  BY <1>3, <1>5 DEF Begun
<1>7. Begun(1)' <=> Begun(0) /\ k.kind = "digit"
  BY <1>3, <1>4, <1>5 DEF Begun
<1>8. Begun(2)' <=> Begun(1) /\ k.kind = "digit"
  BY <1>3, <1>4, <1>5 DEF Begun
<1>9. ASSUME NEW note, NEW n
      PROVE  Kbd!Spells(n, note)' <=>
               /\ Begun(2) /\ k.kind = "digit" /\ From(2).value = note
               /\ n = 100 * From(1).value + 10 * From(0).value + k.value
  <2>1. Kbd!Spells(n, note)' <=>
          /\ Len(typed') = 4 /\ typed'[1].kind = "announce" /\ typed'[1].value = note
          /\ typed'[2].kind = "digit" /\ typed'[3].kind = "digit" /\ typed'[4].kind = "digit"
          /\ n = 100 * typed'[2].value + 10 * typed'[3].value + typed'[4].value
    <3>1. \A e \in 2 .. 4 : e = 2 \/ e = 3 \/ e = 4
      OBVIOUS
    <3>2. 2 \in 2 .. 4 /\ 3 \in 2 .. 4 /\ 4 \in 2 .. 4
      OBVIOUS
    <3>. QED
      BY <3>1, <3>2, Zenon DEF Kbd!Spells
  <2>2. CASE Len(typed') = 4
    <3>1. typed'[4] = From(0)' /\ typed'[3] = From(1)' /\ typed'[2] = From(2)' /\ typed'[1] = From(3)'
      BY <2>2 DEF From
    <3>2. Len(typed) > 2
      BY <1>5, <2>2
    <3>3. From(1)' = From(0) /\ From(2)' = From(1) /\ From(3)' = From(2)
      BY <1>1, <1>4, <3>2
    <3>4. Begun(2) <=> From(2).kind = "announce" /\ From(0).kind = "digit" /\ From(1).kind = "digit"
      BY <3>2 DEF Begun
    <3>. QED
      BY <1>3, <2>1, <2>2, <3>1, <3>3, <3>4
  <2>3. CASE Len(typed') # 4
    <3>1. ~ (Len(typed) > 2)
      BY <1>2, <1>5, <2>3
    <3>. QED
      BY <2>1, <2>3, <3>1 DEF Begun
  <2>. QED
    BY <2>2, <2>3
<1>10. ASSUME NEW j \in 0 .. 2, j < Len(typed) PROVE From(j + 1)' = From(j)
  <2>1. typed'[Len(typed') - (j + 1)] = From(j)
    BY <1>2, <1>10
  <2>. QED
    BY <2>1 DEF From
<1>11. ASSUME NEW d \in 0 .. 1 PROVE Begun(d + 1)' <=> Begun(d) /\ k.kind = "digit"
  <2>1. CASE d = 0
    BY <1>7, <2>1
  <2>2. CASE d = 1
    BY <1>8, <2>2
  <2>. QED
    BY <2>1, <2>2
<1>. QED
  BY <1>2, <1>3, <1>6, <1>9, <1>10, <1>11

(* Only one number can have been begun.                                    *)
LEMMA BegunOnce ==
  ASSUME KeypadInv, NEW d \in 0 .. 2, NEW e \in 0 .. 2, Begun(d), Begun(e)
  PROVE  d = e
BY DEF Begun

(* Any key but a digit of a number ends what was begun.                    *)
LEMMA KeypadOther ==
  ASSUME KeypadInv, NEW k \in Keys, Kbd!Type(k), digits_read' = <<>>,
         k.kind # "digit" \/ digit_note_to_send = Kbd!None,
         \/ k.kind = "announce" /\ digit_note_to_send' = k.value
         \/ k.kind # "announce" /\ digit_note_to_send' = Kbd!None
  PROVE  KeypadInv' /\ \A n, note : ~ Kbd!Spells(n, note)'
<1>1. /\ typed' \in Seq(Keys) /\ Len(typed') <= 4
      /\ Begun(0)' <=> k.kind = "announce"
      /\ From(0)' = k
      /\ \A d \in 0 .. 1 : Begun(d + 1)' <=> Begun(d) /\ k.kind = "digit"
      /\ \A note, n : Kbd!Spells(n, note)' => Begun(2) /\ k.kind = "digit"
  BY BegunShift
<1>2. k.kind = "digit" => \A d \in 0 .. 2 : ~ Begun(d)
  BY DEF KeypadInv
<1>3. \A n, note : ~ Kbd!Spells(n, note)'
  BY <1>1, <1>2
<1>4. ~ Begun(1)' /\ ~ Begun(2)'
  <2>1. Begun(0 + 1)' <=> Begun(0) /\ k.kind = "digit"
    BY <1>1
  <2>2. Begun(1 + 1)' <=> Begun(1) /\ k.kind = "digit"
    BY <1>1
  <2>3. 0 + 1 = 1 /\ 1 + 1 = 2
    OBVIOUS
  <2>. QED
    BY <1>2, <2>1, <2>2, <2>3
<1>5. Len(digits_read') = 0 /\ digits_read' \in Seq(0 .. 9)
  OBVIOUS
<1>6. \A d \in 0 .. 2 : d = 0 \/ d = 1 \/ d = 2
  OBVIOUS
<1>7. CASE k.kind = "announce" /\ digit_note_to_send' = k.value
  <2>1. digit_note_to_send' # Kbd!None
    BY <1>7, KeypadAssumption
  <2>2. Begun(Len(digits_read))' /\ From(Len(digits_read))'.value = digit_note_to_send'
    BY <1>1, <1>5, <1>7
  <2>. QED
    BY <1>1, <1>3, <1>5, <2>1, <2>2 DEF KeypadInv
<1>8. CASE k.kind # "announce" /\ digit_note_to_send' = Kbd!None
  <2>1. \A d \in 0 .. 2 : ~ Begun(d)'
    BY <1>1, <1>4, <1>6, <1>8
  <2>. QED
    BY <1>1, <1>3, <1>5, <1>8, <2>1 DEF KeypadInv
<1>. QED
  BY <1>7, <1>8

LEMMA KeypadDigit ==
  ASSUME KeypadInv, NEW k \in Keys, Kbd!Digit(k), NEW d, d = Len(digits_read)
  PROVE  KeypadInv' /\ NumbersAsTyped'
<1> DEFINE ds == Append(digits_read, k.value)
<1>1. /\ k.kind = "digit" /\ digit_note_to_send # Kbd!None /\ Kbd!Type(k)
      /\ k.value \in 0 .. 9
  BY KeypadAssumption DEF Kbd!Digit
<1>2. /\ digits_read \in Seq(0 .. 9) /\ d \in 0 .. 2
      /\ Begun(d) /\ From(d).value = digit_note_to_send
      /\ \A j \in 1 .. d : digits_read[j] = From(d - j).value
  <2>1. digits_read \in Seq(0 .. 9) /\ Len(digits_read) \in Nat /\ Len(digits_read) <= 2
    BY DEF KeypadInv
  <2>2. d \in 0 .. 2
    BY <2>1
  <2>3. /\ Begun(Len(digits_read)) /\ From(Len(digits_read)).value = digit_note_to_send
        /\ \A j \in 1 .. Len(digits_read) : digits_read[j] = From(Len(digits_read) - j).value
    BY <1>1, Zenon DEF KeypadInv
  <2>. QED
    BY <2>1, <2>2, <2>3
<1>3. /\ ds \in Seq(0 .. 9) /\ Len(ds) = d + 1 /\ ds[d + 1] = k.value
      /\ \A j \in 1 .. d : ds[j] = digits_read[j]
  BY <1>1, <1>2, AppendProperties
<1>4. /\ Len(ds) < 3 => digits_read' = ds /\ sent' = <<>>
                        /\ digit_note_to_send' = digit_note_to_send
      /\ ~ (Len(ds) < 3) =>
           /\ digits_read' = <<>> /\ digit_note_to_send' = Kbd!None
           /\ sent' = IF Kbd!Number(ds) <= 127
                      THEN <<digit_note_to_send, Kbd!Number(ds)>> ELSE <<>>
  BY DEF Kbd!Digit
<1>. HIDE DEF ds
<1>5. /\ typed' \in Seq(Keys) /\ Len(typed') <= 4
      /\ ~ Begun(0)' /\ From(0)' = k
      /\ \A e \in 0 .. 1 : Begun(e + 1)' <=> Begun(e)
      /\ \A j \in 0 .. 2 : j < Len(typed) => From(j + 1)' = From(j)
      /\ \A note, n : Kbd!Spells(n, note)' <=>
           /\ Begun(2) /\ From(2).value = note
           /\ n = 100 * From(1).value + 10 * From(0).value + k.value
  BY <1>1, BegunShift
<1>6. \A e \in 0 .. 2 : Begun(e) <=> e = d
  BY <1>2, BegunOnce
<1>7. CASE d < 2
  <2>1. /\ digits_read' = ds /\ sent' = <<>> /\ digit_note_to_send' = digit_note_to_send
    BY <1>2, <1>3, <1>4, <1>7
  <2>2. \A n, note : ~ Kbd!Spells(n, note)'
    BY <1>5, <1>6, <1>7
  <2>3. NumbersAsTyped'
    <3>1. \A n, note : sent' # <<note, n>>
      BY <2>1
    <3>. QED
      BY <2>2, <3>1 DEF NumbersAsTyped, Kbd!NumbersAsTyped
  <2>4. Len(digits_read') = d + 1 /\ d \in 0 .. 1 /\ d < Len(typed)
    BY <1>2, <1>3, <1>7, <2>1 DEF Begun
  <2>5. Begun(d + 1)' /\ From(d + 1)' = From(d)
    BY <1>2, <1>5, <2>4
  <2>6. ASSUME NEW j \in 1 .. d + 1 PROVE digits_read'[j] = From(d + 1 - j)'.value
    <3>1. CASE j = d + 1
      <4>1. d + 1 - j = 0
        BY <1>2, <3>1
      <4>. QED
        BY <1>3, <1>5, <2>1, <3>1, <4>1
    <3>2. CASE j # d + 1
      <4>1. /\ j \in 1 .. d /\ d - j \in 0 .. 2 /\ (d - j) + 1 = d + 1 - j /\ d - j < Len(typed)
        <5>1. Len(typed) \in Nat
          BY DEF KeypadInv
        <5>. QED
          BY <1>2, <2>4, <3>2, <5>1
      <4>2. From((d - j) + 1)' = From(d - j)
        BY <1>5, <4>1
      <4>3. ds[j] = digits_read[j] /\ digits_read[j] = From(d - j).value
        BY <1>2, <1>3, <4>1
      <4>. QED
        BY <2>1, <4>1, <4>2, <4>3
    <3>. QED
      BY <3>1, <3>2
  <2>7. KeypadInv'
    <3>1. digits_read' \in Seq(0 .. 9) /\ Len(digits_read') <= 2
      BY <1>3, <2>1, <2>4
    <3>2. digit_note_to_send' # Kbd!None /\ From(d + 1)'.value = digit_note_to_send'
      BY <1>1, <1>2, <2>1, <2>5
    <3>3. /\ Begun(Len(digits_read))' /\ From(Len(digits_read))'.value = digit_note_to_send'
          /\ \A j \in 1 .. Len(digits_read') : digits_read'[j] = From(Len(digits_read) - j)'.value
      BY <2>4, <2>5, <2>6, <3>2
    <3>. QED
      BY <1>5, <3>1, <3>2, <3>3 DEF KeypadInv
  <2>. QED
    BY <2>3, <2>7
<1>8. CASE d = 2
  <2>1. /\ digits_read' = <<>> /\ digit_note_to_send' = Kbd!None
        /\ sent' = IF Kbd!Number(ds) <= 127
                   THEN <<digit_note_to_send, Kbd!Number(ds)>> ELSE <<>>
    BY <1>3, <1>4, <1>8
  <2>2. KeypadInv'
    <3>1. ~ Begun(1)' /\ ~ Begun(2)'
      <4>1. Begun(0 + 1)' <=> Begun(0)
        BY <1>5
      <4>2. Begun(1 + 1)' <=> Begun(1)
        BY <1>5
      <4>3. 0 + 1 = 1 /\ 1 + 1 = 2 /\ ~ Begun(0) /\ ~ Begun(1)
        BY <1>6, <1>8
      <4>. QED
        BY <4>1, <4>2, <4>3
    <3>2. \A e \in 0 .. 2 : ~ Begun(e)'
      <4>1. \A e \in 0 .. 2 : e = 0 \/ e = 1 \/ e = 2
        OBVIOUS
      <4>. QED
        BY <1>5, <3>1, <4>1
    <3>3. digits_read' \in Seq(0 .. 9) /\ Len(digits_read') <= 2
      BY <2>1
    <3>. QED
      BY <1>5, <2>1, <3>2, <3>3 DEF KeypadInv
  <2>3. Kbd!Number(ds) = 100 * From(1).value + 10 * From(0).value + k.value
    <3>1. 1 \in 1 .. d /\ 2 \in 1 .. d /\ d - 1 = 1 /\ d - 2 = 0 /\ d + 1 = 3
      BY <1>8
    <3>2. ds[1] = From(1).value /\ ds[2] = From(0).value /\ ds[3] = k.value
      BY <1>2, <1>3, <3>1
    <3>. QED
      BY <3>2 DEF Kbd!Number
  <2>4. \A note, n : Kbd!Spells(n, note)' <=> digit_note_to_send = note /\ n = Kbd!Number(ds)
    BY <1>2, <1>5, <1>8, <2>3
  <2>5. NumbersAsTyped'
    <3>1. ASSUME NEW n \in 0 .. 127, NEW note
          PROVE  sent' = <<note, n>> <=> Kbd!Spells(n, note)'
      <4>1. CASE Kbd!Number(ds) <= 127
        BY <2>1, <2>4, <4>1
      <4>2. CASE ~ (Kbd!Number(ds) <= 127)
        <5>1. sent' # <<note, n>> /\ n # Kbd!Number(ds)
          BY <2>1, <4>2
        <5>. QED
          BY <2>4, <5>1
      <4>. QED
        BY <4>1, <4>2
    <3>. QED
      BY <3>1 DEF NumbersAsTyped, Kbd!NumbersAsTyped
  <2>. QED
    BY <2>2, <2>5
<1>9. d < 2 \/ d = 2
  BY <1>2
<1>. QED
  BY <1>7, <1>8, <1>9

(* A key of its own is no number, unless its note and velocity are.        *)
LEMMA KeypadPlay ==
  ASSUME KeypadInv, NEW k \in Keys, Kbd!Play(k)
  PROVE  KeypadInv' /\ NumbersAsTyped'
<1>1. /\ k.kind = "note" \/ (k.kind = "digit" /\ digit_note_to_send = Kbd!None)
      /\ digits_read' = <<>> /\ digit_note_to_send' = Kbd!None /\ Kbd!Type(k)
      /\ sent' = << IF k.kind = "digit" THEN 48 + k.value ELSE k.value, Kbd!DefaultVelocity >>
  BY DEF Kbd!Play, Kbd!Forgotten
<1>2. k.kind # "announce" /\ (k.kind # "digit" \/ digit_note_to_send = Kbd!None)
  BY <1>1
<1>3. KeypadInv' /\ \A n, note : ~ Kbd!Spells(n, note)'
  BY <1>1, <1>2, KeypadOther
<1>4. ASSUME NEW n \in 0 .. 127, NEW note \in {105, 108}, sent' = <<note, n>>
      PROVE  n = Kbd!DefaultVelocity /\ k.kind = "note" /\ k.value = note
  <2>1. n = Kbd!DefaultVelocity /\ note = IF k.kind = "digit" THEN 48 + k.value ELSE k.value
    BY <1>1, <1>4
  <2>2. k.kind # "digit"
    <3>1. k.kind = "digit" => k.value \in 0 .. 9 /\ note = 48 + k.value
      BY <2>1, KeypadAssumption
    <3>. QED
      BY <3>1
  <2>. QED
    BY <1>1, <2>1, <2>2
<1>5. NumbersAsTyped'
  BY <1>3, <1>4 DEF NumbersAsTyped, Kbd!NumbersAsTyped
<1>. QED
  BY <1>3, <1>5

LEMMA KeypadNext ==
  ASSUME KeypadInv /\ NumbersAsTyped, [Kbd!Next]_(Kbd!vars)
  PROVE  (KeypadInv /\ NumbersAsTyped)'
<1>1. ASSUME NEW k \in Keys, Kbd!HandleKey(k)
      PROVE  (KeypadInv /\ NumbersAsTyped)'
  <2>1. CASE Kbd!Digit(k)
    <3>1. \A d : d = Len(digits_read) => (KeypadInv /\ NumbersAsTyped)'
      BY <2>1, KeypadDigit
    <3>. QED
      BY <3>1
  <2>2. CASE Kbd!Play(k)
    BY <2>2, KeypadPlay
  <2>3. CASE Kbd!Announce(k) \/ Kbd!Mode(k) \/ Kbd!Command(k)
    <3>1. /\ digits_read' = <<>> /\ sent' = <<>> /\ Kbd!Type(k) /\ k.kind # "digit"
          /\ \/ k.kind = "announce" /\ digit_note_to_send' = k.value
             \/ k.kind # "announce" /\ digit_note_to_send' = Kbd!None
      BY <2>3 DEF Kbd!Announce, Kbd!Mode, Kbd!Command, Kbd!Forgotten
    <3>2. KeypadInv' /\ \A n, note : ~ Kbd!Spells(n, note)'
      BY <3>1, KeypadOther
    <3>3. \A n, note : sent' # <<note, n>>
      BY <3>1
    <3>. QED
      BY <3>2, <3>3 DEF NumbersAsTyped, Kbd!NumbersAsTyped
  <2>. QED
    BY <1>1, <2>1, <2>2, <2>3 DEF Kbd!HandleKey
<1>2. CASE UNCHANGED Kbd!vars
  <2>1. UNCHANGED <<digits_read, digit_note_to_send, typed, sent>>
    BY <1>2 DEF Kbd!vars
  <2>2. KeypadInv'
    <3>1. \A d : (Begun(d)' <=> Begun(d)) /\ From(d)' = From(d)
      BY <2>1 DEF Begun, From
    <3>. QED
      BY <2>1, <3>1 DEF KeypadInv
  <2>3. \A n, note : Kbd!Spells(n, note)' <=> Kbd!Spells(n, note)
    BY <2>1 DEF Kbd!Spells
  <2>4. NumbersAsTyped'
    BY <2>1, <2>3, Zenon DEF NumbersAsTyped, Kbd!NumbersAsTyped
  <2>. QED
    BY <2>2, <2>4
<1>. QED
  BY <1>1, <1>2 DEF Kbd!Next

(* A number goes out exactly when its announcement and its three digits    *)
(* were the last four keys, whatever was typed before and given up: the    *)
(* digits read are always those since the announcement.                    *)
THEOREM KeypadNumbersAsTyped == Kbd!Spec => []NumbersAsTyped
<1>1. Kbd!Init => KeypadInv /\ NumbersAsTyped
  <2>. SUFFICES ASSUME Kbd!Init PROVE KeypadInv /\ NumbersAsTyped
    OBVIOUS
  <2>1. /\ typed = <<>> /\ digits_read = <<>> /\ digit_note_to_send = Kbd!None /\ sent = <<>>
    BY DEF Kbd!Init
  <2>2. Len(typed) = 0 /\ typed \in Seq(Keys) /\ Len(digits_read) = 0 /\ digits_read \in Seq(0 .. 9)
    BY <2>1
  <2>3. \A d \in 0 .. 2 : ~ Begun(d)
    BY <2>2 DEF Begun
  <2>4. KeypadInv
    BY <2>1, <2>2, <2>3 DEF KeypadInv
  <2>5. \A n, note : sent # <<note, n>> /\ ~ Kbd!Spells(n, note)
    BY <2>1, <2>2 DEF Kbd!Spells
  <2>. QED
    BY <2>4, <2>5 DEF NumbersAsTyped, Kbd!NumbersAsTyped
<1>2. KeypadInv /\ NumbersAsTyped /\ [Kbd!Next]_(Kbd!vars) => (KeypadInv /\ NumbersAsTyped)'
  BY KeypadNext
<1>. QED
  BY <1>1, <1>2, PTL DEF Kbd!Spec

-----------------------------------------------------------------------------
(* The port to the Teensy.                                                 *)

(* What update works on: the octaver and the layers.                       *)
OctaverType ==
  [hist : [Ino!Positions -> Int], hist_pos : Ino!Positions, cycles : 0 .. 2 * Duration - 1,
   positive : BOOLEAN, hist_sq : Int, recent_hist_sq : Int]
LayersType == [Ino!Layers -> [active : BOOLEAN, low : BOOLEAN, duration : 0 .. Duration]]
BlockType ==
  [o : OctaverType, oscs : LayersType, ticks : 0 .. TenSeconds - 1, early : BOOLEAN]

(* The crossings until layer l is the next to be restarted.                *)
Left(l, c) == IF c <= 2 * l THEN 2 * l - c ELSE 2 * l - c + 2 * Duration

(* No layer that setup cleared will be restarted early, ...                *)
Cleared(l) == place = "loop" \/ (place = "oscs" /\ l < index)
InTime(s) ==
  /\ s.early = FALSE
  /\ \A l \in Ino!Layers :
       Cleared(l) /\ s.oscs[l].active => s.oscs[l].duration <= Left(l, s.o.cycles)

(* ... and hist_sq is the energy of the buffer.                            *)
Exact(p) == p.hist_sq = Ino!Sum(p.hist)

LEMMA TeensySizes ==
  /\ HistoryLength \in Nat /\ HistoryLength > 0 /\ RecentLength \in 1 .. HistoryLength
  /\ Duration \in Nat /\ Duration > 0 /\ Samples \subseteq Int
  /\ BlockSize \in Nat /\ TenSeconds \in Nat /\ TenSeconds > 0
BY TeensyAssumption

LEMMA WrapFacts ==
  \A n \in Nat : n > 0 =>
    /\ \A a \in Int : a % n \in 0 .. n - 1
    /\ \A a \in Nat : a < n => a % n = a
    /\ n % n = 0
BY SMT

LEMMA SquareType == \A x \in Int : Ino!Square(x) \in Int
BY SMT DEF Ino!Square

(* The terms of the sum over a buffer.                                     *)
Terms(h) == [n \in 1 .. HistoryLength |-> Ino!Square(h[n - 1])]
Newest(h) == [n \in 1 .. RecentLength |-> Ino!Square(h[HistoryLength - n])]

LEMMA SumFacts ==
  ASSUME NEW h \in [Ino!Positions -> Int]
  PROVE  /\ Terms(h) \in [1 .. HistoryLength -> Int]
         /\ Ino!Sum(h) = Total(Terms(h), HistoryLength)
         /\ Ino!Sum(h) \in Int /\ Ino!RecentSum(h) \in Int
<1>1. Terms(h) \in [1 .. HistoryLength -> Int]
  <2>1. \A n \in 1 .. HistoryLength : n - 1 \in Ino!Positions
    BY TeensySizes DEF Ino!Positions
  <2>. QED
    BY <2>1, SquareType DEF Terms
<1>2. Newest(h) \in [1 .. RecentLength -> Int]
  <2>1. \A n \in 1 .. RecentLength : HistoryLength - n \in Ino!Positions
    BY TeensySizes DEF Ino!Positions
  <2>. QED
    BY <2>1, SquareType DEF Newest
<1>3. Ino!Sum(h) = Total(Terms(h), HistoryLength)
  BY DEF Ino!Sum, Terms, Ino!Total, Total
<1>4. Ino!RecentSum(h) = Total(Newest(h), RecentLength)
  BY DEF Ino!RecentSum, Newest, Ino!Total, Total
<1>5. HistoryLength \in 0 .. HistoryLength /\ RecentLength \in 0 .. RecentLength /\ RecentLength \in Nat
  BY TeensySizes
<1>6. Total(Terms(h), HistoryLength) \in Int
  BY <1>1, <1>5, TeensySizes, TotalFacts
<1>7. Total(Newest(h), RecentLength) \in Int
  BY <1>2, <1>5, TotalFacts
<1>. QED
  BY <1>1, <1>3, <1>4, <1>6, <1>7

(* Zeros have no energy.                                                   *)
LEMMA SumOfNothing ==
  ASSUME NEW h \in [Ino!Positions -> Int], \A e \in Ino!Positions : h[e] = 0
  PROVE  Ino!Sum(h) = 0
<1>1. \A n \in 1 .. HistoryLength : n - 1 \in Ino!Positions
  BY TeensySizes DEF Ino!Positions
<1>2. Terms(h) = [n \in 1 .. HistoryLength |-> 0]
  <2>1. \A n \in 1 .. HistoryLength : Ino!Square(h[n - 1]) = 0
    BY <1>1 DEF Ino!Square
  <2>. QED
    BY <2>1 DEF Terms
<1>. QED
  BY <1>2, SumFacts, TeensySizes, ZeroTotal

(* One sample changes one term.                                            *)
LEMMA SumReplace ==
  ASSUME NEW h \in [Ino!Positions -> Int], NEW e \in Ino!Positions, NEW x \in Int
  PROVE  Ino!Sum([h EXCEPT ![e] = x]) = Ino!Sum(h) + Ino!Square(x) - Ino!Square(h[e])
<1> DEFINE g == [h EXCEPT ![e] = x]
<1>1. g \in [Ino!Positions -> Int] /\ g[e] = x /\ \A j \in Ino!Positions : j # e => g[j] = h[j]
  OBVIOUS
<1>. HIDE DEF g
<1>2. e + 1 \in 1 .. HistoryLength /\ (e + 1) - 1 = e
  BY TeensySizes DEF Ino!Positions
<1>3. Terms(h)[e + 1] = Ino!Square(h[e]) /\ Terms(g)[e + 1] = Ino!Square(x)
  BY <1>1, <1>2 DEF Terms
<1>4. \A n \in 1 .. HistoryLength : n # e + 1 => Terms(g)[n] = Terms(h)[n]
  <2>1. ASSUME NEW n \in 1 .. HistoryLength, n # e + 1 PROVE Terms(g)[n] = Terms(h)[n]
    <3>1. n - 1 \in Ino!Positions /\ n - 1 # e
      BY <2>1, TeensySizes DEF Ino!Positions
    <3>. QED
      BY <1>1, <3>1 DEF Terms
  <2>. QED
    BY <2>1
<1>5. Terms(g) \in [1 .. HistoryLength -> Int] /\ Terms(h) \in [1 .. HistoryLength -> Int]
  BY <1>1, SumFacts
<1>6. Total(Terms(g), HistoryLength)
        = Total(Terms(h), HistoryLength) + Terms(g)[e + 1] - Terms(h)[e + 1]
  BY <1>2, <1>4, <1>5, TeensySizes, TotalReplace
<1>7. Ino!Sum(g) = Total(Terms(g), HistoryLength) /\ Ino!Sum(h) = Total(Terms(h), HistoryLength)
  BY <1>1, SumFacts
<1>. QED
  BY <1>3, <1>6, <1>7 DEF g

(* What one sample does to the buffer and its energy, ...                  *)
LEMMA SetHistFacts ==
  ASSUME NEW p \in OctaverType, NEW x \in Int
  PROVE  /\ Ino!SetHist(x, p) \in OctaverType
         /\ Ino!SetHist(x, p).cycles = p.cycles /\ Ino!SetHist(x, p).positive = p.positive
         /\ Exact(p) => Exact(Ino!SetHist(x, p))
<1> DEFINE q == Ino!SetHist(x, p)
           pos == p.hist_pos
           recent == Ino!RecentPos(pos)
<1>1. pos \in Ino!Positions /\ p.hist \in [Ino!Positions -> Int] /\ p.hist_sq \in Int
      /\ p.recent_hist_sq \in Int
  BY DEF OctaverType
<1>2. recent \in Ino!Positions /\ (pos + 1) % HistoryLength \in Ino!Positions
  <2>1. pos - RecentLength + HistoryLength \in Int /\ pos + 1 \in Int
    BY <1>1, TeensySizes DEF Ino!Positions
  <2>. QED
    BY <2>1, TeensySizes, WrapFacts DEF Ino!Positions, Ino!RecentPos
<1>3. Ino!Square(x) \in Int /\ Ino!Square(p.hist[pos]) \in Int /\ Ino!Square(p.hist[recent]) \in Int
  BY <1>1, <1>2, SquareType
<1>. HIDE DEF recent
<1>4. PICK e \in Int, r \in Int, h \in [Ino!Positions -> Int], w \in Ino!Positions :
        /\ q = [p EXCEPT !.hist_sq = e, !.recent_hist_sq = r, !.hist = h, !.hist_pos = w]
        /\ e = p.hist_sq + Ino!Square(x) - Ino!Square(p.hist[pos])
        /\ h = [p.hist EXCEPT ![pos] = x]
  <2> DEFINE e == p.hist_sq + Ino!Square(x) - Ino!Square(p.hist[pos])
             r == p.recent_hist_sq + Ino!Square(x) - Ino!Square(p.hist[recent])
             h == [p.hist EXCEPT ![pos] = x]
             w == (pos + 1) % HistoryLength
  <2>1. e \in Int /\ r \in Int /\ h \in [Ino!Positions -> Int] /\ w \in Ino!Positions
    BY <1>1, <1>2, <1>3
  <2>2. q = [p EXCEPT !.hist_sq = e, !.recent_hist_sq = r, !.hist = h, !.hist_pos = w]
    BY DEF Ino!SetHist, recent, OctaverType
  <2>. QED
    BY <2>1, <2>2
<1>. HIDE DEF q
<1>5. /\ q \in OctaverType /\ q.cycles = p.cycles /\ q.positive = p.positive
      /\ q.hist_sq = e /\ q.hist = h
  BY <1>4 DEF OctaverType
<1>6. ASSUME Exact(p) PROVE Exact(q)
  <2>1. Ino!Sum(h) = Ino!Sum(p.hist) + Ino!Square(x) - Ino!Square(p.hist[pos])
    BY <1>1, <1>4, SumReplace
  <2>. QED
    BY <1>4, <1>5, <1>6, <2>1 DEF Exact
<1>. QED
  BY <1>5, <1>6 DEF q

(* ... and a recompute.                                                    *)
LEMMA RecomputeFacts ==
  ASSUME NEW p \in OctaverType, NEW t
  PROVE  /\ Ino!Recompute(p, t) \in OctaverType
         /\ Ino!Recompute(p, t).cycles = p.cycles /\ Ino!Recompute(p, t).positive = p.positive
         /\ Exact(p) \/ t = 0 => Exact(Ino!Recompute(p, t))
<1> DEFINE q == Ino!Recompute(p, t)
<1>1. p.hist \in [Ino!Positions -> Int] /\ p.hist_sq \in Int /\ p.recent_hist_sq \in Int
  BY DEF OctaverType
<1>2. Ino!Sum(p.hist) \in Int /\ Ino!RecentSum(p.hist) \in Int
  BY <1>1, SumFacts
<1>3. PICK e \in Int, r \in Int :
        /\ q = [p EXCEPT !.hist_sq = e, !.recent_hist_sq = r]
        /\ e = IF t = 0 THEN Ino!Sum(p.hist) ELSE p.hist_sq
  <2> DEFINE e == IF t = 0 THEN Ino!Sum(p.hist) ELSE p.hist_sq
             r == IF p.hist_pos = HistoryLength - 1 THEN Ino!RecentSum(p.hist) ELSE p.recent_hist_sq
  <2>1. e \in Int /\ r \in Int
    BY <1>1, <1>2
  <2>2. q = [p EXCEPT !.hist_sq = e, !.recent_hist_sq = r]
    BY DEF Ino!Recompute, OctaverType
  <2>. QED
    BY <2>1, <2>2
<1>. HIDE DEF q
<1>4. /\ q \in OctaverType /\ q.cycles = p.cycles /\ q.positive = p.positive
      /\ q.hist_sq = e /\ q.hist = p.hist
  BY <1>3 DEF OctaverType
<1>5. Exact(p) \/ t = 0 => Exact(q)
  BY <1>3, <1>4 DEF Exact
<1>. QED
  BY <1>4, <1>5 DEF q

(* Where the crossings go.                                                 *)
LEMMA CyclesFacts ==
  ASSUME NEW c \in 0 .. 2 * Duration - 1
  PROVE  /\ (c + 1) % (2 * Duration) = IF c + 1 = 2 * Duration THEN 0 ELSE c + 1
         /\ (c + 1) % (2 * Duration) \in 0 .. 2 * Duration - 1
         /\ c % 2 = 0 => Ino!Layer(c) \in Ino!Layers /\ 2 * Ino!Layer(c) = c
<1>1. /\ c \in Nat /\ c + 1 \in Nat /\ 2 * Duration \in Nat /\ 2 * Duration > 0
      /\ (c + 1 < 2 * Duration \/ c + 1 = 2 * Duration) /\ Duration \in Nat /\ Duration > 0
  BY TeensySizes
<1>2. /\ (c + 1) % (2 * Duration) = IF c + 1 = 2 * Duration THEN 0 ELSE c + 1
      /\ (c + 1) % (2 * Duration) \in 0 .. 2 * Duration - 1
  <2>1. \A a \in Nat : a < 2 * Duration => a % (2 * Duration) = a
    BY <1>1, WrapFacts
  <2>2. (2 * Duration) % (2 * Duration) = 0
    BY <1>1, WrapFacts
  <2>. QED
    BY <1>1, <2>1, <2>2
<1>3. c \div 2 \in Nat /\ c \div 2 < Duration /\ (c % 2 = 0 => 2 * (c \div 2) = c)
  BY <1>1
<1>4. (c \div 2) % Duration = c \div 2
  BY <1>1, <1>3, WrapFacts
<1>5. Ino!Layer(c) = c \div 2
  BY <1>4 DEF Ino!Layer
<1>. QED
  BY <1>1, <1>2, <1>3, <1>5 DEF Ino!Layers

LEMMA LeftFacts ==
  ASSUME NEW l \in Ino!Layers, NEW c \in 0 .. 2 * Duration - 1
  PROVE  /\ Left(l, c) \in Nat /\ (Left(l, c) = 0 <=> c = 2 * l)
         /\ Left(l, (c + 1) % (2 * Duration)) =
              IF c = 2 * l THEN 2 * Duration - 1 ELSE Left(l, c) - 1
<1>1. l \in Nat /\ l < Duration /\ Duration \in Nat /\ c \in Nat /\ c < 2 * Duration
  BY TeensySizes DEF Ino!Layers
<1>2. (c + 1) % (2 * Duration) = IF c + 1 = 2 * Duration THEN 0 ELSE c + 1
  BY CyclesFacts
<1>3. CASE c + 1 = 2 * Duration
  BY <1>1, <1>2, <1>3 DEF Left
<1>4. CASE c + 1 # 2 * Duration
  BY <1>1, <1>2, <1>4 DEF Left
<1>. QED
  BY <1>3, <1>4

(* A crossing restarts a layer only when its last start has run out.       *)
LEMMA CrossingFacts ==
  ASSUME NEW s \in BlockType, InTime(s), NEW inRange \in BOOLEAN, NEW decayed \in BOOLEAN
  PROVE  /\ Ino!Crossing(s, inRange, decayed) \in BlockType
         /\ InTime(Ino!Crossing(s, inRange, decayed))
         /\ Ino!Crossing(s, inRange, decayed).ticks = s.ticks
         /\ Exact(s.o) => Exact(Ino!Crossing(s, inRange, decayed).o)
<1> DEFINE c == s.o.cycles
           t == IF inRange THEN Ino!InitOscs(s) ELSE s
           q == Ino!Crossing(s, inRange, decayed)
           after == Ino!HandleCycle(t.oscs, decayed)
<1>1. /\ s.o \in OctaverType /\ s.oscs \in LayersType /\ s.ticks \in 0 .. TenSeconds - 1
      /\ s.early = FALSE /\ c \in 0 .. 2 * Duration - 1
  BY DEF BlockType, OctaverType, InTime
<1>. HIDE DEF c
<1>2. /\ t \in BlockType /\ t.o = s.o /\ t.ticks = s.ticks /\ t.early = FALSE
      /\ \/ t.oscs = s.oscs
         \/ \E l \in Ino!Layers : c = 2 * l /\ t.oscs = [s.oscs EXCEPT ![l] = Ino!OscInit]
  <2>1. CASE inRange /\ c % 2 = 0
    <3> DEFINE l == Ino!Layer(c)
    <3>1. l \in Ino!Layers /\ 2 * l = c
      BY <1>1, <2>1, CyclesFacts
    <3>. HIDE DEF l
    <3>2. ~ (place = "loop" /\ s.oscs[l].active /\ s.oscs[l].duration > 0)
      <4>1. Left(l, c) = 0
        BY <1>1, <3>1, LeftFacts
      <4>2. place = "loop" /\ s.oscs[l].active => s.oscs[l].duration <= Left(l, c)
        BY <3>1 DEF InTime, Cleared, c
      <4>3. s.oscs[l].duration \in Nat
        BY <1>1, <3>1, TeensySizes DEF LayersType
      <4>. QED
        BY <4>1, <4>2, <4>3
    <3>3. Ino!OscInit \in [active : BOOLEAN, low : BOOLEAN, duration : 0 .. Duration]
      BY TeensySizes DEF Ino!OscInit
    <3>4. [s.oscs EXCEPT ![l] = Ino!OscInit] \in LayersType
      BY <1>1, <3>1, <3>3 DEF LayersType
    <3>5. t = [s EXCEPT !.oscs = [s.oscs EXCEPT ![l] = Ino!OscInit], !.early = FALSE]
      <4>1. t = [s EXCEPT !.oscs[l] = Ino!OscInit,
                          !.early = @ \/ (place = "loop" /\ s.oscs[l].active /\ s.oscs[l].duration > 0)]
        BY <2>1 DEF Ino!InitOscs, l, c
      <4>2. (s.early \/ (place = "loop" /\ s.oscs[l].active /\ s.oscs[l].duration > 0)) = FALSE
        BY <1>1, <3>2
      <4>. QED
        BY <4>1, <4>2 DEF BlockType
    <3>6. t \in BlockType /\ t.o = s.o /\ t.ticks = s.ticks /\ t.early = FALSE
          /\ t.oscs = [s.oscs EXCEPT ![l] = Ino!OscInit]
      BY <3>4, <3>5 DEF BlockType
    <3>. QED
      BY <3>1, <3>6
  <2>2. CASE ~ (inRange /\ c % 2 = 0)
    <3>1. t = s
      BY <2>2 DEF Ino!InitOscs, c
    <3>. QED
      BY <1>1, <3>1
  <2>. QED
    BY <2>1, <2>2
<1>. HIDE DEF t
<1>3. /\ after \in LayersType
      /\ \A l \in Ino!Layers :
           after[l].active => t.oscs[l].active /\ after[l].duration =
                                IF t.oscs[l].duration > 0 THEN t.oscs[l].duration - 1 ELSE 0
  <2>1. t.oscs \in LayersType
    BY <1>2 DEF BlockType
  <2>2. ASSUME NEW l \in Ino!Layers
        PROVE  /\ after[l] \in [active : BOOLEAN, low : BOOLEAN, duration : 0 .. Duration]
               /\ after[l].active => t.oscs[l].active /\ after[l].duration =
                                       IF t.oscs[l].duration > 0 THEN t.oscs[l].duration - 1 ELSE 0
    <3> DEFINE osc == t.oscs[l]
               left == IF osc.duration > 0 THEN osc.duration - 1 ELSE 0
    <3>1. osc \in [active : BOOLEAN, low : BOOLEAN, duration : 0 .. Duration]
      BY <2>1 DEF LayersType
    <3>2. left \in 0 .. Duration
      BY <3>1, TeensySizes
    <3>3. after[l] = IF ~ osc.active THEN osc
                     ELSE IF left < 1 /\ decayed THEN [osc EXCEPT !.duration = left, !.active = FALSE, !.low = TRUE]
                     ELSE [osc EXCEPT !.duration = left]
      BY DEF Ino!HandleCycle
    <3>. HIDE DEF after, left, osc
    <3>4. /\ after[l] \in [active : BOOLEAN, low : BOOLEAN, duration : 0 .. Duration]
          /\ after[l].active => osc.active /\ after[l].duration = left
      BY <3>1, <3>2, <3>3
    <3>. QED
      BY <3>4 DEF left, osc
  <2>3. after = [l \in Ino!Layers |-> after[l]]
    BY DEF Ino!HandleCycle
  <2>. HIDE DEF after
  <2>4. after \in LayersType
    BY <2>2, <2>3 DEF LayersType
  <2>. QED
    BY <2>2, <2>4
<1>4. q = [t EXCEPT !.oscs = after,
                    !.o = [s.o EXCEPT !.cycles = (c + 1) % (2 * Duration), !.positive = FALSE]]
  BY <1>2 DEF Ino!Crossing, t, c, BlockType, OctaverType
<1>. HIDE DEF q, after
<1>5. /\ q \in BlockType /\ q.oscs = after /\ q.o.cycles = (c + 1) % (2 * Duration)
      /\ q.o.hist = s.o.hist /\ q.o.hist_sq = s.o.hist_sq /\ q.ticks = s.ticks /\ q.early = FALSE
  <2> DEFINE p == [s.o EXCEPT !.cycles = (c + 1) % (2 * Duration), !.positive = FALSE]
  <2>1. /\ p \in OctaverType /\ p.cycles = (c + 1) % (2 * Duration) /\ p.hist = s.o.hist
        /\ p.hist_sq = s.o.hist_sq
    <3>1. (c + 1) % (2 * Duration) \in 0 .. 2 * Duration - 1
      BY <1>1, CyclesFacts
    <3>. QED
      BY <1>1, <3>1 DEF OctaverType
  <2>. HIDE DEF p
  <2>2. q = [t EXCEPT !.oscs = after, !.o = p]
    BY <1>4 DEF p
  <2>. QED
    BY <1>2, <1>3, <2>1, <2>2 DEF BlockType
<1>6. InTime(q)
  <2>1. ASSUME NEW l \in Ino!Layers, Cleared(l), after[l].active
        PROVE  after[l].duration <= Left(l, (c + 1) % (2 * Duration))
    <3>1. t.oscs[l].active /\ after[l].duration =
                                IF t.oscs[l].duration > 0 THEN t.oscs[l].duration - 1 ELSE 0
      BY <1>3, <2>1
    <3>2. /\ Left(l, c) \in Nat /\ (Left(l, c) = 0 <=> c = 2 * l)
          /\ Left(l, (c + 1) % (2 * Duration)) =
              IF c = 2 * l THEN 2 * Duration - 1 ELSE Left(l, c) - 1
      BY <1>1, LeftFacts
    <3>3. t.oscs[l].duration \in 0 .. Duration /\ Duration \in Nat /\ Duration > 0
      BY <1>2, TeensySizes DEF BlockType, LayersType
    <3>4. CASE c = 2 * l
      BY <3>1, <3>2, <3>3, <3>4
    <3>5. CASE c # 2 * l
      <4>1. t.oscs[l] = s.oscs[l]
        <5>1. \A m \in Ino!Layers : c = 2 * m => m # l
          BY <3>5
        <5>. QED
          BY <1>1, <1>2, <5>1 DEF LayersType
      <4>2. t.oscs[l].duration <= Left(l, c)
        BY <2>1, <3>1, <4>1 DEF InTime, c
      <4>. QED
        BY <3>1, <3>2, <3>3, <3>5, <4>2
    <3>. QED
      BY <3>4, <3>5
  <2>. QED
    BY <1>5, <2>1 DEF InTime
<1>7. Exact(s.o) => Exact(q.o)
  BY <1>5 DEF Exact
<1>. QED
  BY <1>5, <1>6, <1>7 DEF q

(* What one sample does: it keeps hist_sq exact, and where ticks does not  *)
(* just go on it makes it so.                                              *)
LEMMA SampleFacts ==
  ASSUME NEW s \in BlockType, InTime(s), NEW x \in Int,
         NEW inRange \in BOOLEAN, NEW decayed \in BOOLEAN,
         NEW q, q = Ino!UpdateSample(s, x, inRange, decayed)
  PROVE  /\ q \in BlockType /\ InTime(q)
         /\ Exact(s.o) => Exact(q.o)
         /\ q.ticks = s.ticks + 1 \/ Exact(q.o)
<1> DEFINE t == (s.ticks + 1) % TenSeconds
           p == Ino!Recompute(Ino!SetHist(x, s.o), t)
           r == [s EXCEPT !.o = p, !.ticks = t]
<1>1. s.o \in OctaverType /\ s.ticks \in 0 .. TenSeconds - 1 /\ s.oscs \in LayersType
      /\ s.early = FALSE
  BY DEF BlockType, InTime
<1>2. t \in 0 .. TenSeconds - 1 /\ (t = s.ticks + 1 \/ t = 0)
  <2>1. TenSeconds \in Nat /\ TenSeconds > 0 /\ s.ticks + 1 \in Nat
        /\ (s.ticks + 1 < TenSeconds \/ s.ticks + 1 = TenSeconds)
    BY <1>1, TeensySizes
  <2>. QED
    BY <2>1, WrapFacts
<1>. HIDE DEF t
<1>3. /\ p \in OctaverType /\ p.cycles = s.o.cycles /\ p.positive = s.o.positive
      /\ Exact(s.o) \/ t = 0 => Exact(p)
  <2> DEFINE h == Ino!SetHist(x, s.o)
  <2>1. h \in OctaverType /\ h.cycles = s.o.cycles /\ h.positive = s.o.positive
        /\ (Exact(s.o) => Exact(h))
    BY <1>1, SetHistFacts
  <2>. HIDE DEF h
  <2>2. /\ Ino!Recompute(h, t) \in OctaverType
        /\ Ino!Recompute(h, t).cycles = h.cycles /\ Ino!Recompute(h, t).positive = h.positive
        /\ Exact(h) \/ t = 0 => Exact(Ino!Recompute(h, t))
    BY <2>1, RecomputeFacts
  <2>. QED
    BY <2>1, <2>2 DEF h
<1>. HIDE DEF p
<1>4. r \in BlockType /\ r.o = p /\ r.ticks = t /\ r.oscs = s.oscs /\ r.early = FALSE
  BY <1>1, <1>2, <1>3 DEF BlockType
<1>5. q = CASE s.o.positive /\ x < 0 -> Ino!Crossing(r, inRange, decayed)
            [] ~ s.o.positive /\ x > 0 -> [r EXCEPT !.o.positive = TRUE]
            [] OTHER -> r
  BY DEF Ino!UpdateSample, p, t, BlockType
<1>. HIDE DEF r
<1>6. InTime(r)
  BY <1>3, <1>4 DEF InTime
<1>7. Exact(s.o) \/ t = 0 => Exact(r.o)
  BY <1>3, <1>4
<1>8. CASE s.o.positive /\ x < 0
  <2>1. q = Ino!Crossing(r, inRange, decayed)
    BY <1>5, <1>8
  <2>. QED
    BY <1>2, <1>4, <1>6, <1>7, <2>1, CrossingFacts
<1>9. CASE ~ s.o.positive /\ x > 0
  <2>1. q = [r EXCEPT !.o = [p EXCEPT !.positive = TRUE]]
    BY <1>1, <1>4, <1>5, <1>9 DEF BlockType
  <2>2. [p EXCEPT !.positive = TRUE] \in OctaverType
    BY <1>3 DEF OctaverType
  <2>3. /\ [p EXCEPT !.positive = TRUE].cycles = p.cycles
        /\ [p EXCEPT !.positive = TRUE].hist = p.hist
        /\ [p EXCEPT !.positive = TRUE].hist_sq = p.hist_sq
    BY <1>3 DEF OctaverType
  <2>4. q \in BlockType /\ q.o = [p EXCEPT !.positive = TRUE] /\ q.ticks = t /\ q.oscs = r.oscs
        /\ q.early = FALSE
    BY <1>4, <2>1, <2>2 DEF BlockType
  <2>5. InTime(q) /\ (Exact(r.o) => Exact(q.o))
    BY <1>4, <1>6, <2>3, <2>4 DEF InTime, Exact
  <2>. QED
    BY <1>2, <1>7, <2>4, <2>5
<1>10. CASE ~ (s.o.positive /\ x < 0) /\ ~ (~ s.o.positive /\ x > 0)
  <2>1. q = r
    BY <1>5, <1>10
  <2>. QED
    BY <1>2, <1>4, <1>6, <1>7, <2>1
<1>. QED
  BY <1>8, <1>9, <1>10

(* The states of a block after each of its samples exist, ...              *)
Begin == [o |-> octaver, oscs |-> layers, ticks |-> ticks, early |-> early]

Runs(u, len, block, inRange, decayed) ==
  /\ u = [n \in 0 .. len |-> u[n]] /\ u[0] = Begin
  /\ \A n \in 1 .. len : u[n] = Ino!UpdateSample(u[n - 1], block[n], inRange, decayed)

LEMMA RunExists ==
  ASSUME NEW block, NEW inRange, NEW decayed
  PROVE  \E u : Runs(u, BlockSize, block, inRange, decayed)
<1> DEFINE S == {k \in Nat : \E u : Runs(u, k, block, inRange, decayed)}
<1>1. 0 \in S
  <2>1. Runs([n \in 0 .. 0 |-> Begin], 0, block, inRange, decayed)
    BY DEF Runs
  <2>. QED
    BY <2>1
<1>2. ASSUME NEW k \in Nat, k \in S PROVE k + 1 \in S
  <2>1. PICK u : Runs(u, k, block, inRange, decayed)
    BY <1>2
  <2> DEFINE w == [n \in 0 .. k + 1 |->
                     IF n = k + 1 THEN Ino!UpdateSample(u[k], block[k + 1], inRange, decayed)
                     ELSE u[n]]
  <2>2. /\ w[0] = Begin /\ w = [n \in 0 .. k + 1 |-> w[n]]
        /\ w[k + 1] = Ino!UpdateSample(u[k], block[k + 1], inRange, decayed)
        /\ \A n \in 0 .. k : w[n] = u[n]
    BY <2>1 DEF Runs
  <2>. HIDE DEF w
  <2>3. \A n \in 1 .. k + 1 : w[n] = Ino!UpdateSample(w[n - 1], block[n], inRange, decayed)
    <3>1. ASSUME NEW n \in 1 .. k + 1
          PROVE  w[n] = Ino!UpdateSample(w[n - 1], block[n], inRange, decayed)
      <4>1. CASE n = k + 1
        <5>1. n - 1 = k /\ k \in 0 .. k
          BY <4>1
        <5>. QED
          BY <2>2, <4>1, <5>1
      <4>2. CASE n # k + 1
        <5>1. n \in 1 .. k /\ n \in 0 .. k /\ n - 1 \in 0 .. k
          BY <4>2
        <5>2. u[n] = Ino!UpdateSample(u[n - 1], block[n], inRange, decayed)
          BY <2>1, <5>1 DEF Runs
        <5>. QED
          BY <2>2, <5>1, <5>2
      <4>. QED
        BY <4>1, <4>2
    <3>. QED
      BY <3>1
  <2>4. Runs(w, k + 1, block, inRange, decayed)
    BY <2>2, <2>3 DEF Runs
  <2>. QED
    BY <2>4
<1>3. Nat \subseteq S
  <2>. HIDE DEF S
  <2>. QED
    BY <1>1, <1>2, SetInduction
<1>. QED
  BY <1>3, TeensySizes

(* ... so the last one is what its samples make of the first.              *)
LEMMA BlockFacts ==
  ASSUME Begin \in BlockType, InTime(Begin), NEW block \in [1 .. BlockSize -> Samples],
         NEW inRange \in BOOLEAN, NEW decayed \in BOOLEAN,
         NEW q, q = Ino!UpdateBlock(block, inRange, decayed)
  PROVE  /\ q \in BlockType /\ InTime(q)
         /\ Exact(octaver) => Exact(q.o)
         /\ q.ticks = ticks + BlockSize \/ Exact(q.o)
<1> DEFINE u == CHOOSE u : u = [n \in 0 .. BlockSize |->
                                  IF n = 0 THEN Begin
                                  ELSE Ino!UpdateSample(u[n - 1], block[n], inRange, decayed)]
<1>1. q = u[BlockSize]
  BY DEF Ino!UpdateBlock, Begin
<1>2. u = [n \in 0 .. BlockSize |->
             IF n = 0 THEN Begin ELSE Ino!UpdateSample(u[n - 1], block[n], inRange, decayed)]
  <2>1. PICK w : Runs(w, BlockSize, block, inRange, decayed)
    BY RunExists
  <2>2. w = [n \in 0 .. BlockSize |->
               IF n = 0 THEN Begin ELSE Ino!UpdateSample(w[n - 1], block[n], inRange, decayed)]
    <3>1. \A n \in 0 .. BlockSize : n = 0 \/ n \in 1 .. BlockSize
      OBVIOUS
    <3>2. \A n \in 0 .. BlockSize :
            w[n] = IF n = 0 THEN Begin ELSE Ino!UpdateSample(w[n - 1], block[n], inRange, decayed)
      BY <2>1, <3>1, TeensySizes DEF Runs
    <3>3. w = [n \in 0 .. BlockSize |-> w[n]]
      BY <2>1 DEF Runs
    <3>. QED
      BY <3>2, <3>3
  <2>. QED
    BY <2>2
<1>. HIDE DEF u
<1> DEFINE S == {n \in Nat : n <= BlockSize =>
                   /\ u[n] \in BlockType /\ InTime(u[n])
                   /\ Exact(octaver) => Exact(u[n].o)
                   /\ u[n].ticks = ticks + n \/ Exact(u[n].o)}
<1>3. 0 \in S
  <2>1. u[0] = Begin
    BY <1>2, TeensySizes
  <2>2. Begin.o = octaver /\ Begin.ticks = ticks
    BY DEF Begin
  <2>3. ticks = ticks + 0
    BY <2>2 DEF BlockType
  <2>. QED
    BY <2>1, <2>2, <2>3
<1>4. ASSUME NEW n \in Nat, n \in S PROVE n + 1 \in S
  <2>. SUFFICES ASSUME n + 1 <= BlockSize
                PROVE  /\ u[n + 1] \in BlockType /\ InTime(u[n + 1])
                       /\ Exact(octaver) => Exact(u[n + 1].o)
                       /\ u[n + 1].ticks = ticks + (n + 1) \/ Exact(u[n + 1].o)
    OBVIOUS
  <2>1. n <= BlockSize /\ n + 1 \in 0 .. BlockSize /\ n + 1 # 0 /\ (n + 1) - 1 = n
        /\ n + 1 \in 1 .. BlockSize
    BY TeensySizes
  <2>2. /\ u[n] \in BlockType /\ InTime(u[n])
        /\ Exact(octaver) => Exact(u[n].o)
        /\ u[n].ticks = ticks + n \/ Exact(u[n].o)
    BY <1>4, <2>1
  <2>3. u[n + 1] = Ino!UpdateSample(u[n], block[n + 1], inRange, decayed)
    BY <1>2, <2>1
  <2>4. block[n + 1] \in Int
    BY <2>1, TeensySizes
  <2>5. /\ u[n + 1] \in BlockType /\ InTime(u[n + 1])
        /\ Exact(u[n].o) => Exact(u[n + 1].o)
        /\ u[n + 1].ticks = u[n].ticks + 1 \/ Exact(u[n + 1].o)
    <3>. HIDE DEF S
    <3>1. PICK s, r, x : s = u[n] /\ r = u[n + 1] /\ x = block[n + 1]
      OBVIOUS
    <3>2. s \in BlockType /\ InTime(s) /\ x \in Int
      BY <2>2, <2>4, <3>1
    <3>3. r = Ino!UpdateSample(s, x, inRange, decayed)
      BY <2>3, <3>1
    <3>4. /\ r \in BlockType /\ InTime(r)
          /\ Exact(s.o) => Exact(r.o)
          /\ r.ticks = s.ticks + 1 \/ Exact(r.o)
      BY <3>2, <3>3, SampleFacts
    <3>. QED
      BY <3>1, <3>4
  <2>6. ticks \in Int /\ (u[n].ticks = ticks + n => u[n].ticks + 1 = ticks + (n + 1))
    BY DEF Begin, BlockType
  <2>. QED
    BY <2>2, <2>5, <2>6
<1>5. Nat \subseteq S
  <2>. HIDE DEF S
  <2>. QED
    BY <1>3, <1>4, SetInduction
<1>6. BlockSize \in S /\ BlockSize <= BlockSize
  BY <1>5, TeensySizes
<1>. QED
  BY <1>1, <1>6

(* Until update runs during setup, memory is as it was.                    *)
Untouched == octaver.hist_sq = 0 /\ \A e \in Ino!Positions : octaver.hist[e] = 0

TeensyInv ==
  /\ Begin \in BlockType /\ InTime(Begin)
  /\ place = "hist" => index \in Ino!Positions
  /\ place = "oscs" => index \in Ino!Layers
  /\ place \notin {"hist", "oscs"} => index = 0
  /\ raced \in BOOLEAN
  /\ ~ raced => IF place = "loop" THEN Exact(octaver) ELSE Untouched

LEMMA BeginFields ==
  Begin \in BlockType /\ InTime(Begin) <=>
    /\ octaver \in OctaverType /\ layers \in LayersType /\ ticks \in 0 .. TenSeconds - 1
    /\ early = FALSE
    /\ \A l \in Ino!Layers :
         Cleared(l) /\ layers[l].active => layers[l].duration <= Left(l, octaver.cycles)
BY DEF Begin, BlockType, InTime

LEMMA TeensyInit == Ino!Init => TeensyInv
<1>. SUFFICES ASSUME Ino!Init PROVE TeensyInv
  OBVIOUS
<1>1. 0 \in Ino!Positions /\ 0 \in 0 .. 2 * Duration - 1 /\ 0 \in 0 .. TenSeconds - 1
      /\ 0 \in 0 .. Duration
  BY TeensySizes DEF Ino!Positions
<1>2. octaver = [hist |-> [e \in Ino!Positions |-> 0], hist_pos |-> 0, cycles |-> 0,
                 positive |-> FALSE, hist_sq |-> 0, recent_hist_sq |-> 0]
      /\ layers = [e \in Ino!Layers |-> Ino!Idle] /\ ticks = 0
      /\ place = "memory" /\ index = 0 /\ raced = FALSE /\ early = FALSE
  BY DEF Ino!Init
<1>3. octaver \in OctaverType /\ Untouched
  BY <1>1, <1>2 DEF OctaverType, Untouched
<1>4. layers \in LayersType
  BY <1>1, <1>2 DEF LayersType, Ino!Idle
<1>5. Begin \in BlockType /\ InTime(Begin)
  BY <1>1, <1>2, <1>3, <1>4, BeginFields DEF Cleared
<1>. QED
  BY <1>2, <1>3, <1>5 DEF TeensyInv

(* A step of setup before the layers' turn comes.                          *)
LEMMA SetupField ==
  ASSUME TeensyInv, octaver' \in OctaverType, Untouched => Untouched',
         UNCHANGED <<layers, ticks, raced, early>>,
         place # "loop" /\ place # "oscs" /\ place' # "loop",
         place' = "hist" => index' \in Ino!Positions,
         place' # "hist" => index' = 0
  PROVE  TeensyInv'
<1>1. /\ layers \in LayersType /\ ticks \in 0 .. TenSeconds - 1 /\ early = FALSE
      /\ raced \in BOOLEAN /\ ~ raced => Untouched
  BY BeginFields DEF TeensyInv
<1>2. \A l \in Ino!Layers : ~ Cleared(l)'
  BY DEF Cleared, Ino!Layers
<1>3. (Begin \in BlockType /\ InTime(Begin))'
  BY <1>1, <1>2 DEF Begin, BlockType, InTime
<1>4. place' = "oscs" => index' \in Ino!Layers
  BY TeensySizes DEF Ino!Layers
<1>. QED
  BY <1>1, <1>3, <1>4 DEF TeensyInv

LEMMA SetupFields ==
  ASSUME TeensyInv,
         Ino!AudioMemory \/ Ino!ClearHist \/ Ino!ClearCycles \/ Ino!ClearPos
           \/ Ino!SetPositive \/ Ino!ClearSq \/ Ino!ClearRecent
  PROVE  TeensyInv'
<1>1. octaver \in OctaverType /\ UNCHANGED <<layers, ticks, raced, early>>
  BY BeginFields DEF TeensyInv, Ino!AudioMemory, Ino!ClearHist, Ino!ClearCycles, Ino!ClearPos,
     Ino!SetPositive, Ino!ClearSq, Ino!ClearRecent
<1>2. CASE Ino!ClearHist
  <2>1. /\ place = "hist" /\ octaver' = [octaver EXCEPT !.hist = [octaver.hist EXCEPT ![index] = 0]]
        /\ IF index < HistoryLength - 1 THEN index' = index + 1 /\ place' = place
           ELSE index' = 0 /\ place' = "fields"
    BY <1>1, <1>2 DEF Ino!ClearHist, OctaverType
  <2>2. index \in Ino!Positions
    BY <2>1 DEF TeensyInv
  <2>3. [octaver.hist EXCEPT ![index] = 0] \in [Ino!Positions -> Int]
    <3>1. octaver.hist \in [Ino!Positions -> Int]
      BY <1>1 DEF OctaverType
    <3>2. \A h \in [Ino!Positions -> Int], e \in Ino!Positions :
            [h EXCEPT ![e] = 0] \in [Ino!Positions -> Int]
      OBVIOUS
    <3>. QED
      BY <2>2, <3>1, <3>2
  <2>4. /\ octaver' \in OctaverType /\ octaver'.hist = [octaver.hist EXCEPT ![index] = 0]
        /\ octaver'.hist_sq = octaver.hist_sq
    BY <1>1, <2>1, <2>3 DEF OctaverType
  <2>5. Untouched => Untouched'
    BY <1>1, <2>4 DEF Untouched, OctaverType
  <2>6. place' = "hist" => index' \in Ino!Positions
    BY <2>1, <2>2, TeensySizes DEF Ino!Positions
  <2>. QED
    BY <1>1, <2>1, <2>4, <2>5, <2>6, SetupField
<1>3. CASE Ino!AudioMemory
  <2>1. /\ place = "memory" /\ place' = "hist" /\ octaver' = octaver /\ index' = index /\ index = 0
    BY <1>3 DEF Ino!AudioMemory, Ino!Goes, TeensyInv
  <2>2. index' \in Ino!Positions
    BY <2>1, TeensySizes DEF Ino!Positions
  <2>3. Untouched => Untouched'
    BY <2>1 DEF Untouched
  <2>. QED
    BY <1>1, <2>1, <2>2, <2>3, SetupField
<1>4. ASSUME \/ Ino!ClearCycles \/ Ino!ClearPos \/ Ino!SetPositive \/ Ino!ClearSq \/ Ino!ClearRecent
      PROVE  TeensyInv'
  <2>1. /\ place \in {"fields", "pos", "positive", "sq", "recent"}
        /\ place' \in {"pos", "positive", "sq", "recent", "oscs"} /\ index' = index
    BY <1>4 DEF Ino!ClearCycles, Ino!ClearPos, Ino!SetPositive, Ino!ClearSq, Ino!ClearRecent, Ino!Goes
  <2>2. index' = 0
    BY <2>1 DEF TeensyInv
  <2>3. octaver' \in OctaverType /\ octaver'.hist = octaver.hist
        /\ (octaver'.hist_sq = octaver.hist_sq \/ octaver'.hist_sq = 0)
    <3>1. 0 \in Ino!Positions /\ 0 \in 0 .. 2 * Duration - 1 /\ 0 \in Int
      BY TeensySizes DEF Ino!Positions
    <3>2. CASE Ino!ClearCycles
      BY <1>1, <3>1, <3>2 DEF Ino!ClearCycles, OctaverType
    <3>3. CASE Ino!ClearPos
      BY <1>1, <3>1, <3>3 DEF Ino!ClearPos, OctaverType
    <3>4. CASE Ino!SetPositive
      BY <1>1, <3>1, <3>4 DEF Ino!SetPositive, OctaverType
    <3>5. CASE Ino!ClearSq
      BY <1>1, <3>1, <3>5 DEF Ino!ClearSq, OctaverType
    <3>6. CASE Ino!ClearRecent
      BY <1>1, <3>1, <3>6 DEF Ino!ClearRecent, OctaverType
    <3>. QED
      BY <1>4, <3>2, <3>3, <3>4, <3>5, <3>6
  <2>4. Untouched => Untouched'
    BY <2>3 DEF Untouched
  <2>. QED
    BY <1>1, <2>1, <2>2, <2>3, <2>4, SetupField
<1>. QED
  BY <1>2, <1>3, <1>4

(* Setup stops one layer after the other, which update may start again.    *)
LEMMA SetupLayers ==
  ASSUME TeensyInv, Ino!ClearOscs
  PROVE  TeensyInv'
<1>1. /\ place = "oscs" /\ layers' = [layers EXCEPT ![index] = [layers[index] EXCEPT !.active = FALSE]]
      /\ IF index < Duration - 1 THEN index' = index + 1 /\ place' = place
         ELSE index' = 0 /\ place' = "loop"
      /\ UNCHANGED <<octaver, ticks, raced, early>>
  BY DEF Ino!ClearOscs
<1>2. /\ index \in Ino!Layers /\ octaver \in OctaverType /\ layers \in LayersType
      /\ ticks \in 0 .. TenSeconds - 1 /\ early = FALSE /\ raced \in BOOLEAN
      /\ \A l \in Ino!Layers :
           Cleared(l) /\ layers[l].active => layers[l].duration <= Left(l, octaver.cycles)
  BY <1>1, BeginFields DEF TeensyInv
<1>3. layers' \in LayersType
  BY <1>1, <1>2 DEF LayersType
<1>4. ASSUME NEW l \in Ino!Layers, Cleared(l)', layers'[l].active
      PROVE  layers'[l].duration <= Left(l, octaver'.cycles)
  <2>1. l # index /\ layers'[l] = layers[l]
    BY <1>1, <1>2, <1>4 DEF LayersType
  <2>2. l < index
    BY <1>1, <1>2, <1>4, <2>1, TeensySizes DEF Cleared, Ino!Layers
  <2>3. layers[l].duration <= Left(l, octaver.cycles)
    BY <1>1, <1>2, <1>4, <2>1, <2>2 DEF Cleared
  <2>. QED
    BY <1>1, <2>1, <2>3
<1>5. (Begin \in BlockType /\ InTime(Begin))'
  BY <1>1, <1>2, <1>3, <1>4 DEF Begin, BlockType, InTime
<1>6. /\ place' \in {"oscs", "loop"} /\ place' = "oscs" => index' \in Ino!Layers
      /\ place' = "loop" => index' = 0
  BY <1>1, <1>2, TeensySizes DEF Ino!Layers
<1>7. ~ raced' => IF place' = "loop" THEN Exact(octaver)' ELSE Untouched'
  <2>. SUFFICES ASSUME ~ raced PROVE Exact(octaver)' /\ Untouched'
    BY <1>1
  <2>1. Untouched /\ octaver' = octaver
    BY <1>1 DEF TeensyInv
  <2>2. Exact(octaver)
    <3>1. octaver.hist \in [Ino!Positions -> Int]
      BY <1>2 DEF OctaverType
    <3>. QED
      BY <2>1, <3>1, SumOfNothing DEF Untouched, Exact
  <2>. QED
    BY <2>1, <2>2 DEF Untouched, Exact
<1>. QED
  BY <1>1, <1>2, <1>5, <1>6, <1>7 DEF TeensyInv

LEMMA TeensyUpdate ==
  ASSUME TeensyInv, Ino!Update
  PROVE  TeensyInv'
<1>1. PICK block \in [1 .. BlockSize -> Samples], inRange \in BOOLEAN, decayed \in BOOLEAN :
         LET s == Ino!UpdateBlock(block, inRange, decayed)
         IN  /\ octaver' = s.o /\ layers' = s.oscs /\ ticks' = s.ticks /\ early' = s.early
             /\ raced' = IF place # "loop" THEN TRUE ELSE raced /\ s.ticks >= ticks + BlockSize
  BY DEF Ino!Update
<1>2. PICK q : q = Ino!UpdateBlock(block, inRange, decayed)
  OBVIOUS
<1>3. /\ octaver' = q.o /\ layers' = q.oscs /\ ticks' = q.ticks /\ early' = q.early
      /\ raced' = IF place # "loop" THEN TRUE ELSE raced /\ q.ticks >= ticks + BlockSize
      /\ place' = place /\ index' = index
  BY <1>1, <1>2 DEF Ino!Update
<1>4. /\ q \in BlockType /\ InTime(q)
      /\ Exact(octaver) => Exact(q.o)
      /\ q.ticks = ticks + BlockSize \/ Exact(q.o)
  BY <1>2, BlockFacts DEF TeensyInv
<1>5. /\ octaver' \in OctaverType /\ layers' \in LayersType /\ ticks' \in 0 .. TenSeconds - 1
      /\ early' = FALSE
  BY <1>3, <1>4 DEF BlockType, InTime
<1>6. ASSUME NEW l \in Ino!Layers, Cleared(l)', layers'[l].active
      PROVE  layers'[l].duration <= Left(l, octaver'.cycles)
  <2>1. Cleared(l)
    BY <1>3, <1>6 DEF Cleared
  <2>. QED
    BY <1>3, <1>4, <1>6, <2>1 DEF InTime
<1>7. (Begin \in BlockType /\ InTime(Begin))'
  BY <1>5, <1>6 DEF Begin, BlockType, InTime
<1>8. raced \in BOOLEAN /\ raced' \in BOOLEAN
  <2>1. raced \in BOOLEAN
    BY DEF TeensyInv
  <2>. QED
    BY <1>3, <2>1, Zenon
<1>9. ~ raced' => place = "loop" /\ Exact(octaver')
  <2>. SUFFICES ASSUME ~ raced' PROVE place = "loop" /\ Exact(octaver')
    OBVIOUS
  <2>1. place = "loop" /\ ~ (raced /\ q.ticks >= ticks + BlockSize)
    BY <1>3, Zenon
  <2>2. CASE ~ raced
    <3>1. Exact(octaver)
      BY <2>1, <2>2 DEF TeensyInv
    <3>. QED
      BY <1>3, <1>4, <2>1, <3>1
  <2>3. CASE raced
    <3>1. ticks + BlockSize \in Int /\ ~ (q.ticks >= ticks + BlockSize)
      BY <2>1, <2>3, TeensySizes, BeginFields DEF TeensyInv
    <3>2. q.ticks # ticks + BlockSize
      BY <3>1
    <3>. QED
      BY <1>3, <1>4, <2>1, <3>2
  <2>. QED
    BY <2>2, <2>3
<1>. QED
  BY <1>3, <1>7, <1>8, <1>9 DEF TeensyInv, Exact

(* What the audio interrupt does while setup still initialises leaves no   *)
(* lasting trace: the energy is right again from the first recompute on,   *)
(* and no layer is ever restarted before its time, because setup stops     *)
(* every layer after it has set cycles, and from then on a layer's         *)
(* duration is at most the crossings until its turn.                       *)
THEOREM TeensySetupHeals == Ino!Spec => []SetupHeals
<1>1. Ino!Init => TeensyInv
  BY TeensyInit
<1>2. TeensyInv /\ [Ino!Next]_(Ino!vars) => TeensyInv'
  <2>1. TeensyInv /\ UNCHANGED Ino!vars => TeensyInv'
    BY DEF Ino!vars, TeensyInv, Begin, InTime, Cleared, Untouched
  <2>. QED
    BY <2>1, SetupFields, SetupLayers, TeensyUpdate DEF Ino!Next, Ino!Setup
<1>3. TeensyInv => SetupHeals
  <2>. SUFFICES ASSUME TeensyInv PROVE SetupHeals
    OBVIOUS
  <2>1. early = FALSE
    BY BeginFields DEF TeensyInv
  <2>2. place = "loop" /\ ~ raced => Exact(octaver)
    BY DEF TeensyInv
  <2>. QED
    BY <2>1, <2>2 DEF SetupHeals, Ino!SumHealed, Ino!RestartsReleased, Exact
<1>. QED
  BY <1>1, <1>2, <1>3, PTL DEF Ino!Spec

-----------------------------------------------------------------------------
(* The sound card: counting good devices.                                  *)

(* One more device adds itself to the count if it is good.                 *)
LEMMA OneMoreDevice ==
  ASSUME NEW n \in Nat
  PROVE  /\ GoodBefore(n) \in Nat
         /\ GoodBefore(n + 1) = GoodBefore(n) + (IF Good(n) THEN 1 ELSE 0)
<1> DEFINE Before(k) == {m \in 0 .. k - 1 : Good(m)}
<1>1. IsFiniteSet(Before(n))
  <2>1. IsFiniteSet(0 .. n - 1)
    BY FS_Interval
  <2>. QED
    BY <2>1, FS_Subset
<1>2. Cardinality(Before(n)) \in Nat
  BY <1>1, FS_CardinalityType
<1>3. CASE Good(n)
  <2>1. Before(n + 1) = Before(n) \union {n} /\ n \notin Before(n)
    BY <1>3
  <2>2. Cardinality(Before(n) \union {n}) = Cardinality(Before(n)) + 1
    BY <1>1, <2>1, FS_AddElement
  <2>. QED
    BY <1>2, <1>3, <2>1, <2>2 DEF GoodBefore
<1>4. CASE ~Good(n)
  <2>1. Before(n + 1) = Before(n)
    BY <1>4
  <2>. QED
    BY <1>2, <1>4, <2>1 DEF GoodBefore
<1>. QED
  BY <1>3, <1>4

(* No device comes before the first.                                       *)
LEMMA NoneBefore == GoodBefore(0) = 0
<1>1. {m \in 0 .. 0 - 1 : Good(m)} = {}
  OBVIOUS
<1>. QED
  BY <1>1, FS_EmptySet DEF GoodBefore

(* A count of zero means that no device before is good.                    *)
LEMMA NoneGood ==
  ASSUME NEW n \in Nat, GoodBefore(n) = 0
  PROVE  \A m \in 0 .. n - 1 : ~Good(m)
<1>1. IsFiniteSet({m \in 0 .. n - 1 : Good(m)})
  <2>1. IsFiniteSet(0 .. n - 1)
    BY FS_Interval
  <2>. QED
    BY <2>1, FS_Subset
<1>2. {m \in 0 .. n - 1 : Good(m)} = {}
  BY <1>1, FS_EmptySet DEF GoodBefore
<1>. QED
  BY <1>2

-----------------------------------------------------------------------------
(* Type correctness.                                                       *)

(* The number of devices is one that a sequence can have.                  *)
LEMMA DevicesCounted ==
  ASSUME TypeOK
  PROVE  Len(devices) \in Nat
BY StreamAssumption DEF TypeOK

(* The initial state is well typed.                                        *)
LEMMA TypeInit == Init => TypeOK
<1>. SUFFICES ASSUME Init PROVE TypeOK
  OBVIOUS
<1>1. Len(devices) \in Nat
  BY StreamAssumption DEF Init
<1>2. /\ i \in 0 .. Len(devices) /\ seen_good_devices \in 0 .. i
      /\ best_audio_device_index \in paNoDevice .. Len(devices) - 1
  BY <1>1 DEF Init, paNoDevice
<1>3. /\ err \in Codes \union {paNoError, paInputOverflowed, paOutputUnderflowed}
      /\ fault \in Codes \union {paNoError}
  BY DEF Init
<1>4. blocks \subseteq Both
  BY DEF Init
<1>5. initialized \in BOOLEAN /\ stream \in {"NULL", "open", "started"}
  BY DEF Init
<1>. QED
  BY <1>2, <1>3, <1>4, <1>5 DEF Init, TypeOK, Places

(* Every step keeps the types.                                             *)
LEMMA TypeNext == TypeOK /\ [Next]_vars => TypeOK'
<1>. SUFFICES ASSUME TypeOK, [Next]_vars PROVE TypeOK'
  OBVIOUS
<1>. USE DEF TypeOK, Places, Both
<1>0. Len(devices) \in Nat
  BY DevicesCounted
<1>1. CASE Start
  <2>1. Len(devices') \in Nat
    BY <1>1, StreamAssumption DEF Start
  <2>2. /\ i' \in 0 .. Len(devices') /\ seen_good_devices' \in 0 .. i'
        /\ best_audio_device_index' \in paNoDevice .. Len(devices') - 1
    BY <1>1, <2>1 DEF Start, paNoDevice
  <2>3. /\ err' \in Codes \union {paNoError, paInputOverflowed,
                                 paOutputUnderflowed}
        /\ fault' \in Codes \union {paNoError}
    BY <1>1 DEF Start
  <2>4. initialized' \in BOOLEAN /\ stream' \in {"NULL", "open", "started"}
    BY <1>1 DEF Start
  <2>5. pc' \in Places /\ blocks' \subseteq Both
    BY <1>1 DEF Start
  <2>. QED
    BY <1>1, <2>2, <2>3, <2>4, <2>5 DEF Start
<1>2. CASE Look
  BY <1>0, <1>2 DEF Look, Searching, Candidate, Seen, paNoDevice, resources
<1>3. CASE FallBack
  BY <1>0, <1>3 DEF FallBack, resources, paNoDevice
<1>4. CASE NoDevices \/ Found \/ NoGoodDevice \/ NoDefaultDevice \/ Kill
  BY <1>0, <1>4
  DEF NoDevices, Found, NoGoodDevice, NoDefaultDevice, Kill, Exit, selection,
      resources
<1>5. CASE Open \/ Allocate \/ StartStream
  BY <1>0, <1>5
  DEF Open, Allocate, StartStream, Allocated, selection, resources
<1>6. CASE Read \/ Write
  BY <1>0, <1>6 DEF Read, Write, Results, selection, resources
<1>7. CASE Xrun \/ Error1 \/ Error2
  BY <1>0, <1>7 DEF Xrun, Error1, Error2, AfterError1, Close, selection
<1>8. ASSUME NEW code \in Codes, Break(code)
      PROVE  TypeOK'
  BY <1>0, <1>8 DEF Break, selection, resources
<1>9. CASE UNCHANGED vars
  BY <1>9 DEF vars, selection, resources
<1>. QED
  BY <1>1, <1>2, <1>3, <1>4, <1>5, <1>6, <1>7, <1>8, <1>9 DEF Next, Program

(* start_audio's variables keep their types: in particular every device it *)
(* asks for is one that PortAudio listed, or paNoDevice.                   *)
THEOREM StreamTypeCorrect == Spec => []TypeOK
BY TypeInit, TypeNext, PTL DEF Spec

-----------------------------------------------------------------------------
(* The device.                                                             *)

(* What the search knows after i devices: how many of them are good, and   *)
(* that it would have stopped if there had been enough.                    *)
SearchCounts ==
  /\ seen_good_devices \in Nat
  /\ pc = "choose" /\ best_audio_device_index = paNoDevice =>
       /\ seen_good_devices = GoodBefore(i)
       /\ device_index = 0 => seen_good_devices = 0

(* What it has found.                                                      *)
SearchFound ==
  best_audio_device_index # paNoDevice /\ pc = "choose" =>
    /\ Good(best_audio_device_index)
    /\ GoodBefore(best_audio_device_index) = device_index

DeviceInv == SearchCounts /\ SearchFound /\ NthDevice

(* A step that leaves the choice alone and does not begin to choose or to  *)
(* open keeps what is known of it.                                         *)
LEMMA DeviceKept ==
  ASSUME TypeOK, DeviceInv, UNCHANGED selection, pc' \notin {"choose", "open"}
  PROVE  DeviceInv'
BY DEF DeviceInv, SearchCounts, SearchFound, NthDevice, selection

(* Every step keeps what is known of the choice.                           *)
LEMMA DeviceNext == TypeOK /\ DeviceInv /\ [Next]_vars => DeviceInv'
<1>. SUFFICES ASSUME TypeOK, DeviceInv, [Next]_vars PROVE DeviceInv'
  OBVIOUS
<1>0. Len(devices) \in Nat
  BY DevicesCounted
<1>1. CASE Start
  <2>1. GoodBefore(0)' = 0
    <3>1. {m \in 0 .. 0 - 1 : Good(m)}' = {}
      OBVIOUS
    <3>. QED
      BY <3>1, FS_EmptySet DEF GoodBefore
  <2>. QED
    BY <1>1, <2>1
    DEF Start, DeviceInv, SearchCounts, SearchFound, NthDevice
<1>2. CASE Look
  <2>. USE <1>2 DEF Look, Searching
  <2>1. i \in Nat
    BY <1>0 DEF TypeOK
  <2>2. GoodBefore(i + 1) = GoodBefore(i) + (IF Good(i) THEN 1 ELSE 0)
    BY <2>1, OneMoreDevice
  <2>3. /\ seen_good_devices = GoodBefore(i)
        /\ device_index = 0 => seen_good_devices = 0
    BY DEF DeviceInv, SearchCounts
  <2>4. GoodBefore(i)' = GoodBefore(i')
    BY DEF GoodBefore, Good
  <2>5. CASE Good(i) /\ seen_good_devices = device_index
    <3>1. /\ best_audio_device_index' = i
          /\ seen_good_devices' = seen_good_devices
          /\ device_index' = device_index
          /\ pc' = "choose"
      BY <2>5 DEF Candidate
    <3>2. SearchFound'
      BY <2>3, <2>5, <3>1 DEF SearchFound, GoodBefore, Good
    <3>3. SearchCounts'
      BY <2>1, <3>1 DEF SearchCounts, DeviceInv, paNoDevice
    <3>. QED
      BY <3>1, <3>2, <3>3 DEF DeviceInv, NthDevice
  <2>6. CASE ~(Good(i) /\ seen_good_devices = device_index)
    <3>1. /\ best_audio_device_index' = paNoDevice
          /\ seen_good_devices' = Seen
          /\ device_index' = device_index
          /\ i' = i + 1
          /\ pc' = "choose"
      BY <2>6
    <3>2. seen_good_devices' = GoodBefore(i)'
      BY <2>2, <2>3, <2>4, <3>1 DEF Seen, DeviceInv, SearchCounts
    <3>3. device_index' = 0 => seen_good_devices' = 0
      BY <2>3, <2>6, <3>1 DEF Seen
    <3>4. seen_good_devices' \in Nat
      BY <3>1 DEF Seen, DeviceInv, SearchCounts
    <3>. QED
      BY <3>1, <3>2, <3>3, <3>4
      DEF DeviceInv, SearchCounts, SearchFound, NthDevice
  <2>. QED
    BY <2>5, <2>6
<1>3. CASE Found
  BY <1>3
  DEF Found, selection, DeviceInv, SearchCounts, SearchFound, NthDevice, Good,
      GoodBefore
<1>4. CASE FallBack
  <2>. USE <1>4 DEF FallBack, Exhausted, Searching
  <2>1. i = Len(devices) /\ seen_good_devices = GoodBefore(i)
    BY <1>0 DEF TypeOK, DeviceInv, SearchCounts
  <2>2. GoodBefore(Len(devices)) = 0
    BY <2>1 DEF DeviceInv, SearchCounts
  <2>3. \A n \in 0 .. Len(devices) - 1 : ~Good(n)
    BY <1>0, <2>2, NoneGood
  <2>4. \A n \in 0 .. Len(devices') - 1 : ~Good(n)'
    BY <2>3 DEF Good
  <2>5. NthDevice'
    BY <2>4 DEF NthDevice, Good
  <2>6. SearchCounts' /\ SearchFound'
    BY DEF DeviceInv, SearchCounts, SearchFound
  <2>. QED
    BY <2>5, <2>6 DEF DeviceInv
<1>5. CASE NoDevices \/ NoGoodDevice \/ NoDefaultDevice \/ Kill
  BY <1>5, DeviceKept
  DEF NoDevices, NoGoodDevice, NoDefaultDevice, Kill, Exit
<1>6. CASE Open \/ Allocate \/ StartStream
  BY <1>6, DeviceKept DEF Open, Allocate, StartStream
<1>7. CASE Read \/ Write \/ Xrun \/ Error1 \/ Error2
  BY <1>7, DeviceKept DEF Read, Write, Xrun, Error1, Error2, AfterError1
<1>8. ASSUME NEW code \in Codes, Break(code)
      PROVE  DeviceInv'
  BY <1>8
  DEF Break, selection, DeviceInv, SearchCounts, SearchFound, NthDevice, Good,
      GoodBefore
<1>9. CASE UNCHANGED vars
  BY <1>9
  DEF vars, selection, DeviceInv, SearchCounts, SearchFound, NthDevice, Good,
      GoodBefore
<1>. QED
  BY <1>1, <1>2, <1>3, <1>4, <1>5, <1>6, <1>7, <1>8, <1>9 DEF Next, Program

(* "Take the Nth device whose name starts with USB_SOUND_CARD_PREFIX"      *)
(* (zeros.c:885): that is the one a stream is opened on, unless N is 0 and *)
(* there is none.                                                          *)
THEOREM StreamNthDevice == Spec => []NthDevice
<1>1. Init => DeviceInv
  BY DEF Init, DeviceInv, SearchCounts, SearchFound, NthDevice
<1>2. DeviceInv => NthDevice
  BY DEF DeviceInv
<1>. QED
  BY <1>1, <1>2, TypeInit, TypeNext, DeviceNext, PTL DEF Spec

-----------------------------------------------------------------------------
(* Resources.                                                              *)

(* What each place of start_audio holds.  Places not named may hold less,  *)
(* for an error leads there half-way.                                      *)
HoldsInv ==
  /\ pc \in {"choose", "open"} =>
       initialized /\ stream = "NULL" /\ blocks = {}
  /\ pc = "allocate" => initialized /\ stream = "open" /\ blocks = {}
  /\ pc = "start" => initialized /\ blocks = Both
  /\ pc = "error2" => blocks = {}

ResourceInv == HoldsInv /\ LoopReady /\ Released

(* Every step keeps what each place holds.                                 *)
LEMMA ResourceNext == ResourceInv /\ [Next]_vars => ResourceInv'
<1>. SUFFICES ASSUME ResourceInv, [Next]_vars PROVE ResourceInv'
  OBVIOUS
<1>. USE DEF ResourceInv, HoldsInv, LoopReady, Released
<1>1. CASE Start
  BY <1>1 DEF Start
<1>2. CASE Look \/ Found \/ FallBack
  BY <1>2 DEF Look, Found, FallBack, Exhausted, selection, resources
<1>3. CASE NoDevices \/ NoGoodDevice \/ NoDefaultDevice \/ Kill
  BY <1>3
  DEF NoDevices, NoGoodDevice, NoDefaultDevice, Kill, Exit, resources
<1>4. CASE Open
  BY <1>4 DEF Open, selection
<1>5. CASE Allocate
  BY <1>5 DEF Allocate, Allocated, selection
<1>6. CASE StartStream
  BY <1>6 DEF StartStream, selection
<1>7. CASE Read \/ Write
  BY <1>7 DEF Read, Write, resources
<1>8. CASE Xrun \/ Error1 \/ Error2
  BY <1>8 DEF Xrun, Error1, Error2, AfterError1, Close
<1>9. ASSUME NEW code \in Codes, Break(code)
      PROVE  ResourceInv'
  BY <1>9 DEF Break, resources
<1>10. CASE UNCHANGED vars
  BY <1>10 DEF vars, resources
<1>. QED
  BY <1>1, <1>2, <1>3, <1>4, <1>5, <1>6, <1>7, <1>8, <1>9, <1>10
  DEF Next, Program

(* Initially nothing is held.                                              *)
LEMMA ResourceInit == Init => ResourceInv
BY DEF Init, ResourceInv, HoldsInv, LoopReady, Released

(* However start_audio returns, it leaves nothing open.                    *)
THEOREM StreamReleased == Spec => []Released
<1>1. ResourceInv => Released
  BY DEF ResourceInv
<1>. QED
  BY <1>1, ResourceInit, ResourceNext, PTL DEF Spec

(* Blocks are only read from and written to a started stream.              *)
THEOREM StreamLoopReady == Spec => []LoopReady
<1>1. ResourceInv => LoopReady
  BY DEF ResourceInv
<1>. QED
  BY <1>1, ResourceInit, ResourceNext, PTL DEF Spec

=============================================================================
