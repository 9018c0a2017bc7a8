---------------------------- MODULE TotalsProofs ----------------------------
(* Facts about Total, by induction over the number of terms, and about     *)
(* sequences.                                                              *)
EXTENDS Totals, WellFoundedInduction, NaturalsInduction, SequenceTheorems, TLAPS

(* Induction over a set of naturals, from the least number outside it.     *)
LEMMA SetInduction ==
  ASSUME NEW S, 0 \in S, \A n \in Nat : n \in S => n + 1 \in S
  PROVE  Nat \subseteq S
<1> DEFINE T == Nat \ S
           less == {ss \in Nat \X Nat : ss[1] < ss[2]}
<1>1. SUFFICES ASSUME T # {} PROVE FALSE
  OBVIOUS
<1>2. IsWellFoundedOn(less, Nat)
  BY NatLessThanWellFounded DEF OpToRel
<1>3. PICK x \in T : \A y \in T : ~ (<<y, x>> \in less)
  BY <1>1, <1>2, WFMin
<1>4. x \in Nat \ {0}
  OBVIOUS
<1>5. x - 1 \in S
  <2>1. x - 1 \in Nat /\ x - 1 < x
    BY <1>4
  <2>2. <<x - 1, x>> \in less
    BY <1>4, <2>1
  <2> QED  BY <1>3, <2>1, <2>2
<1> QED  BY <1>4, <1>5

-----------------------------------------------------------------------------
(* The recursive function in Total exists ...                              *)
Partials(term, len) ==
  CHOOSE t : t = [n \in 0 .. len |-> IF n = 0 THEN 0 ELSE t[n - 1] + term[n]]

Sums(t, term, len) ==
  /\ t \in [0 .. len -> Int] /\ t[0] = 0
  /\ \A n \in 1 .. len : t[n] = t[n - 1] + term[n]

LEMMA SumsExtend ==
  ASSUME NEW len \in Nat, NEW term, term[len + 1] \in Int, NEW t,
         Sums(t, term, len)
  PROVE  \E u : Sums(u, term, len + 1)
<1> DEFINE u == [n \in 0 .. len + 1 |->
                   IF n = len + 1 THEN t[len] + term[len + 1] ELSE t[n]]
<1>1. u \in [0 .. len + 1 -> Int] /\ u[0] = 0
  BY DEF Sums
<1>2. \A n \in 1 .. len : u[n] = u[n - 1] + term[n]
  <2> SUFFICES ASSUME NEW n \in 1 .. len PROVE u[n] = u[n - 1] + term[n]
    OBVIOUS
  <2>1. u[n] = t[n] /\ u[n - 1] = t[n - 1]
    OBVIOUS
  <2> QED  BY <2>1 DEF Sums
<1>3. u[len + 1] = u[len] + term[len + 1]
  OBVIOUS
<1>4. \A n \in 1 .. len + 1 : n \in 1 .. len \/ n = len + 1
  OBVIOUS
<1>5. (len + 1) - 1 = len
  OBVIOUS
<1> HIDE DEF u
<1>6. Sums(u, term, len + 1)
  BY <1>1, <1>2, <1>3, <1>4, <1>5 DEF Sums
<1> QED  BY <1>6

LEMMA PartialsExist ==
  ASSUME NEW m \in Nat, NEW term \in [1 .. m -> Int], NEW len \in 0 .. m
  PROVE  \E t : t = [n \in 0 .. len |-> IF n = 0 THEN 0 ELSE t[n - 1] + term[n]]
<1> DEFINE S == {k \in Nat : k <= m => \E t : Sums(t, term, k)}
<1>1. 0 \in S
  <2>1. Sums([n \in 0 .. 0 |-> 0], term, 0)
    BY DEF Sums
  <2> QED  BY <2>1
<1>2. ASSUME NEW k \in Nat, k \in S PROVE k + 1 \in S
  <2> SUFFICES ASSUME k + 1 <= m PROVE \E t : Sums(t, term, k + 1)
    OBVIOUS
  <2>1. PICK t : Sums(t, term, k)
    BY <1>2
  <2>2. term[k + 1] \in Int
    OBVIOUS
  <2> QED  BY <2>1, <2>2, SumsExtend
<1>3. Nat \subseteq S
  <2> HIDE DEF S
  <2> QED  BY <1>1, <1>2, SetInduction
<1>4. PICK t : Sums(t, term, len)
  <2>1. len \in Nat /\ len <= m
    OBVIOUS
  <2> QED  BY <1>3, <2>1
<1>5. t = [n \in 0 .. len |-> IF n = 0 THEN 0 ELSE t[n - 1] + term[n]]
  <2>1. \A n \in 0 .. len : n = 0 \/ n \in 1 .. len
    OBVIOUS
  <2>2. \A n \in 0 .. len : t[n] = IF n = 0 THEN 0 ELSE t[n - 1] + term[n]
    BY <1>4, <2>1 DEF Sums
  <2> QED  BY <1>4, <2>2 DEF Sums
<1> QED  BY <1>5

(* ... and is what one expects.                                            *)
LEMMA PartialsFacts ==
  ASSUME NEW m \in Nat, NEW term \in [1 .. m -> Int], NEW len \in 0 .. m
  PROVE  /\ Partials(term, len)[0] = 0
         /\ \A n \in 1 .. len :
              Partials(term, len)[n] = Partials(term, len)[n - 1] + term[n]
<1> DEFINE t == Partials(term, len)
<1>1. t = [n \in 0 .. len |-> IF n = 0 THEN 0 ELSE t[n - 1] + term[n]]
  <2>1. \E f : f = [n \in 0 .. len |-> IF n = 0 THEN 0 ELSE f[n - 1] + term[n]]
    BY PartialsExist
  <2> QED  BY <2>1 DEF Partials
<1> HIDE DEF t
<1>2. t[0] = 0 /\ \A n \in 1 .. len : t[n] = t[n - 1] + term[n]
  BY <1>1
<1> QED  BY <1>2 DEF t

LEMMA PartialsAgree ==
  ASSUME NEW m \in Nat, NEW term \in [1 .. m -> Int],
         NEW j \in 0 .. m, NEW k \in 0 .. m
  PROVE  \A n \in Nat : n <= j /\ n <= k =>
           /\ Partials(term, j)[n] = Partials(term, k)[n]
           /\ Partials(term, j)[n] \in Int
<1> DEFINE t == Partials(term, j)
           u == Partials(term, k)
           S == {n \in Nat : n <= j /\ n <= k => t[n] = u[n] /\ t[n] \in Int}
<1>1. /\ t[0] = 0 /\ \A n \in 1 .. j : t[n] = t[n - 1] + term[n]
      /\ u[0] = 0 /\ \A n \in 1 .. k : u[n] = u[n - 1] + term[n]
  BY PartialsFacts
<1> HIDE DEF t, u
<1>2. 0 \in S
  BY <1>1
<1>3. ASSUME NEW n \in Nat, n \in S PROVE n + 1 \in S
  <2> SUFFICES ASSUME n + 1 <= j, n + 1 <= k
               PROVE  t[n + 1] = u[n + 1] /\ t[n + 1] \in Int
    OBVIOUS
  <2>1. n + 1 \in 1 .. j /\ n + 1 \in 1 .. k /\ (n + 1) - 1 = n
    OBVIOUS
  <2>0. term[n + 1] \in Int
    BY <2>1
  <2>2. t[n + 1] = t[n] + term[n + 1] /\ u[n + 1] = u[n] + term[n + 1]
    BY <1>1, <2>1
  <2>3. t[n] = u[n] /\ t[n] \in Int
    BY <1>3
  <2> QED  BY <2>0, <2>2, <2>3
<1>4. Nat \subseteq S
  <2> HIDE DEF S
  <2> QED  BY <1>2, <1>3, SetInduction
<1> QED  BY <1>4 DEF t, u

(* The equations Total satisfies; all else follows from these.             *)
LEMMA TotalFacts ==
  ASSUME NEW m \in Nat, NEW term \in [1 .. m -> Int]
  PROVE  /\ Total(term, 0) = 0
         /\ \A len \in 0 .. m : Total(term, len) \in Int
         /\ \A len \in 1 .. m : Total(term, len) = Total(term, len - 1) + term[len]
<1>1. \A len : Total(term, len) = Partials(term, len)[len]
  BY DEF Total, Partials
<1>2. ASSUME NEW len \in 0 .. m PROVE Total(term, len) \in Int
  BY <1>1, PartialsAgree
<1>3. ASSUME NEW len \in 1 .. m
      PROVE Total(term, len) = Total(term, len - 1) + term[len]
  <2>1. len - 1 \in 0 .. m /\ len \in 0 .. m /\ len - 1 \in Nat
    OBVIOUS
  <2>2. Partials(term, len)[len] = Partials(term, len)[len - 1] + term[len]
    <3>1. \A n \in 1 .. len :
            Partials(term, len)[n] = Partials(term, len)[n - 1] + term[n]
      BY <2>1, PartialsFacts
    <3> QED  BY <3>1
  <2>3. Partials(term, len)[len - 1] = Partials(term, len - 1)[len - 1]
    BY <2>1, PartialsAgree
  <2> QED  BY <1>1, <2>2, <2>3
<1>4. Total(term, 0) = 0
  BY <1>1, PartialsFacts
<1> QED  BY <1>2, <1>3, <1>4

-----------------------------------------------------------------------------
(* Equal terms have equal totals.                                          *)
LEMMA TotalAgree ==
  ASSUME NEW m \in Nat, NEW a \in [1 .. m -> Int],
         NEW len \in 0 .. m, NEW b \in [1 .. len -> Int],
         \A n \in 1 .. len : a[n] = b[n]
  PROVE  Total(a, len) = Total(b, len)
<1> DEFINE S == {n \in Nat : n <= len => Total(a, n) = Total(b, n)}
<1>1. 0 \in S
  BY TotalFacts
<1>2. ASSUME NEW n \in Nat, n \in S PROVE n + 1 \in S
  <2> SUFFICES ASSUME n + 1 <= len PROVE Total(a, n + 1) = Total(b, n + 1)
    OBVIOUS
  <2>1. Total(a, n) = Total(b, n) /\ a[n + 1] = b[n + 1]
    BY <1>2
  <2>2. n + 1 \in 1 .. m /\ n + 1 \in 1 .. len /\ (n + 1) - 1 = n
    OBVIOUS
  <2>3. Total(a, n + 1) = Total(a, n) + a[n + 1]
    <3>1. \A i \in 1 .. m : Total(a, i) = Total(a, i - 1) + a[i]
      BY TotalFacts
    <3> QED  BY <2>2, <3>1
  <2>4. Total(b, n + 1) = Total(b, n) + b[n + 1]
    <3>0. len \in Nat
      OBVIOUS
    <3>1. \A i \in 1 .. len : Total(b, i) = Total(b, i - 1) + b[i]
      BY <3>0, TotalFacts
    <3> QED  BY <2>2, <3>1
  <2> QED  BY <2>1, <2>3, <2>4
<1>3. Nat \subseteq S
  <2> HIDE DEF S
  <2> QED  BY <1>1, <1>2, SetInduction
<1> QED  BY <1>3

(* Nothing adds up to nothing.                                             *)
LEMMA ZeroTotal ==
  ASSUME NEW m \in Nat
  PROVE  Total([n \in 1 .. m |-> 0], m) = 0
<1> DEFINE a == [n \in 1 .. m |-> 0]
           S == {n \in Nat : n <= m => Total(a, n) = 0}
<1>0. a \in [1 .. m -> Int] /\ \A n \in 1 .. m : a[n] = 0
  OBVIOUS
<1> HIDE DEF a
<1>1. /\ Total(a, 0) = 0
      /\ \A n \in 1 .. m : Total(a, n) = Total(a, n - 1) + a[n]
  BY <1>0, TotalFacts
<1>2. 0 \in S
  BY <1>1
<1>3. ASSUME NEW n \in Nat, n \in S PROVE n + 1 \in S
  <2> SUFFICES ASSUME n + 1 <= m PROVE Total(a, n + 1) = 0
    OBVIOUS
  <2>1. n + 1 \in 1 .. m /\ (n + 1) - 1 = n
    OBVIOUS
  <2>2. Total(a, n) = 0
    BY <1>3
  <2>3. Total(a, n + 1) = Total(a, (n + 1) - 1) + a[n + 1]
    BY <1>1, <2>1
  <2> QED  BY <1>0, <2>1, <2>2, <2>3
<1>4. Nat \subseteq S
  <2> HIDE DEF S
  <2> QED  BY <1>2, <1>3, SetInduction
<1> QED  BY <1>4 DEF a

(* Replacing one term.                                                     *)
LEMMA TotalReplace ==
  ASSUME NEW m \in Nat, NEW a \in [1 .. m -> Int], NEW b \in [1 .. m -> Int],
         NEW i \in 1 .. m, \A n \in 1 .. m : n # i => b[n] = a[n]
  PROVE  Total(b, m) = Total(a, m) + b[i] - a[i]
<1> DEFINE Change == [n \in Nat |-> IF i <= n THEN b[i] - a[i] ELSE 0]
           S == {n \in Nat : n <= m => Total(b, n) = Total(a, n) + Change[n]}
<1>0. /\ \A n \in 0 .. m : Total(a, n) \in Int /\ Total(b, n) \in Int
      /\ \A n \in 1 .. m : Total(a, n) = Total(a, n - 1) + a[n]
      /\ \A n \in 1 .. m : Total(b, n) = Total(b, n - 1) + b[n]
      /\ Total(a, 0) = 0 /\ Total(b, 0) = 0
  BY TotalFacts
<1>1. 0 \in S
  BY <1>0
<1>2. ASSUME NEW n \in Nat, n \in S PROVE n + 1 \in S
  <2> SUFFICES ASSUME n + 1 <= m
               PROVE Total(b, n + 1) = Total(a, n + 1) + Change[n + 1]
    OBVIOUS
  <2>1. n + 1 \in 1 .. m /\ n \in 0 .. m /\ (n + 1) - 1 = n
    OBVIOUS
  <2>2. Total(b, n) = Total(a, n) + Change[n]
    BY <1>2, <2>1
  <2>3. /\ Total(a, n + 1) = Total(a, n) + a[n + 1]
        /\ Total(b, n + 1) = Total(b, n) + b[n + 1]
        /\ Total(a, n) \in Int /\ Total(b, n) \in Int
    BY <1>0, <2>1
  <2>4. a[n + 1] \in Int /\ b[n + 1] \in Int /\ a[i] \in Int /\ b[i] \in Int
    BY <2>1
  <2>5. Change[n + 1] - Change[n] = b[n + 1] - a[n + 1]
    <3>1. CASE i = n + 1
      BY <3>1, <2>4
    <3>2. CASE i # n + 1
      BY <3>2, <2>1, <2>4
    <3> QED  BY <3>1, <3>2
  <2>6. Change[n] \in Int /\ Change[n + 1] \in Int
    BY <2>4
  <2> HIDE DEF Change, S
  <2>7. PICK ta \in Int, tb \in Int, x \in Int, y \in Int, c \in Int, d \in Int :
          /\ ta = Total(a, n) /\ tb = Total(b, n)
          /\ x = a[n + 1] /\ y = b[n + 1] /\ c = Change[n] /\ d = Change[n + 1]
    BY <2>3, <2>4, <2>6
  <2>8. tb = ta + c /\ d - c = y - x
    BY <2>2, <2>5, <2>7
  <2>9. tb + y = (ta + x) + d
    BY <2>8
  <2> QED  BY <2>3, <2>7, <2>9
<1>3. Nat \subseteq S
  <2> HIDE DEF S
  <2> QED  BY <1>1, <1>2, SetInduction
<1>4. m \in S
  BY <1>3
<1>5. Change[m] = b[i] - a[i] /\ a[i] \in Int /\ b[i] \in Int
  OBVIOUS
<1>6. Total(b, m) = Total(a, m) + Change[m]
  BY <1>4
<1>7. Total(a, m) \in Int
  BY <1>0
<1> HIDE DEF Change
<1> QED  BY <1>5, <1>6, <1>7

(* Shifting the terms by one: a new one comes in, the last one drops out.  *)
LEMMA TotalShift ==
  ASSUME NEW m \in Nat, NEW a \in [1 .. m -> Int], NEW b \in [1 .. m -> Int],
         \A n \in 2 .. m : b[n] = a[n - 1]
  PROVE  \A len \in 1 .. m : Total(b, len) = Total(a, len) + b[1] - a[len]
<1> DEFINE S == {n \in Nat : n + 1 <= m =>
                   Total(b, n + 1) = Total(a, n + 1) + b[1] - a[n + 1]}
<1>0. /\ \A n \in 0 .. m : Total(a, n) \in Int /\ Total(b, n) \in Int
      /\ \A n \in 1 .. m : Total(a, n) = Total(a, n - 1) + a[n]
      /\ \A n \in 1 .. m : Total(b, n) = Total(b, n - 1) + b[n]
      /\ Total(a, 0) = 0 /\ Total(b, 0) = 0
  BY TotalFacts
<1>1. 0 \in S
  <2> SUFFICES ASSUME 1 <= m PROVE Total(b, 1) = Total(a, 1) + b[1] - a[1]
    OBVIOUS
  <2>1. 1 \in 1 .. m /\ 1 - 1 = 0 /\ a[1] \in Int /\ b[1] \in Int
    OBVIOUS
  <2>2. Total(a, 1) = Total(a, 0) + a[1] /\ Total(b, 1) = Total(b, 0) + b[1]
    BY <1>0, <2>1
  <2> QED  BY <1>0, <2>1, <2>2
<1>2. ASSUME NEW n \in Nat, n \in S PROVE n + 1 \in S
  <2> DEFINE k == n + 1
  <2> SUFFICES ASSUME k + 1 <= m
               PROVE Total(b, k + 1) = Total(a, k + 1) + b[1] - a[k + 1]
    OBVIOUS
  <2>1. k \in 1 .. m /\ k + 1 \in 2 .. m /\ k + 1 \in 1 .. m /\ (k + 1) - 1 = k
    OBVIOUS
  <2>2. Total(b, k) = Total(a, k) + b[1] - a[k]
    BY <1>2, <2>1
  <2> HIDE DEF k
  <2>3. /\ Total(a, k + 1) = Total(a, k) + a[k + 1]
        /\ Total(b, k + 1) = Total(b, k) + b[k + 1]
        /\ Total(a, k) \in Int /\ Total(b, k) \in Int
    <3>1. /\ Total(a, k + 1) = Total(a, (k + 1) - 1) + a[k + 1]
          /\ Total(b, k + 1) = Total(b, (k + 1) - 1) + b[k + 1]
      BY <1>0, <2>1
    <3>2. k \in 0 .. m
      BY <2>1
    <3> QED  BY <1>0, <2>1, <3>1, <3>2
  <2>4. b[k + 1] = a[k]
    <3>1. b[k + 1] = a[(k + 1) - 1]
      BY <2>1
    <3> QED  BY <2>1, <3>1
  <2>5. a[k] \in Int /\ a[k + 1] \in Int /\ b[1] \in Int
    BY <2>1
  <2>6. Total(b, k + 1) = (Total(a, k) + b[1] - a[k]) + a[k]
    BY <2>2, <2>3, <2>4, Zenon
  <2>7. \A s, x, y \in Int : (s + x - y) + y = s + x
    OBVIOUS
  <2>8. Total(b, k + 1) = Total(a, k) + b[1]
    BY <2>3, <2>5, <2>6, <2>7, Zenon
  <2>9. \A s, x, y \in Int : s + x = (s + y) + x - y
    OBVIOUS
  <2>10. Total(a, k) + b[1] = (Total(a, k) + a[k + 1]) + b[1] - a[k + 1]
    BY <2>3, <2>5, <2>9, Zenon
  <2> QED  BY <2>3, <2>8, <2>10, Zenon
<1>3. Nat \subseteq S
  <2> HIDE DEF S
  <2> QED  BY <1>1, <1>2, SetInduction
<1>4. ASSUME NEW len \in 1 .. m
      PROVE Total(b, len) = Total(a, len) + b[1] - a[len]
  <2>1. len - 1 \in Nat /\ (len - 1) + 1 = len
    OBVIOUS
  <2>2. len - 1 \in S
    BY <1>3, <2>1
  <2>3. (len - 1) + 1 <= m
    BY <2>1
  <2>4. Total(b, (len - 1) + 1)
          = Total(a, (len - 1) + 1) + b[1] - a[(len - 1) + 1]
    BY <2>2, <2>3
  <2> QED  BY <2>1, <2>4
<1> QED  BY <1>4

(* Totals of terms that are not negative grow with every term.             *)
LEMMA TotalMonotone ==
  ASSUME NEW m \in Nat, NEW a \in [1 .. m -> Nat], NEW len \in 0 .. m
  PROVE  Total(a, len) <= Total(a, m)
<1> DEFINE S == {n \in Nat : n <= m /\ len <= n => Total(a, len) <= Total(a, n)}
<1>0. /\ \A n \in 0 .. m : Total(a, n) \in Int
      /\ \A n \in 1 .. m : Total(a, n) = Total(a, n - 1) + a[n]
  <2>1. a \in [1 .. m -> Int]
    OBVIOUS
  <2> QED  BY <2>1, TotalFacts
<1>1. 0 \in S
  BY <1>0
<1>2. ASSUME NEW n \in Nat, n \in S PROVE n + 1 \in S
  <2> SUFFICES ASSUME n + 1 <= m, len <= n + 1
               PROVE Total(a, len) <= Total(a, n + 1)
    OBVIOUS
  <2>1. n + 1 \in 1 .. m /\ n \in 0 .. m /\ (n + 1) - 1 = n /\ n + 1 \in 0 .. m
    OBVIOUS
  <2>2. Total(a, n + 1) = Total(a, n) + a[n + 1] /\ a[n + 1] \in Nat
    BY <1>0, <2>1
  <2>3. Total(a, n) \in Int /\ Total(a, len) \in Int /\ Total(a, n + 1) \in Int
    BY <1>0, <2>1
  <2>4. CASE len <= n
    BY <1>2, <2>1, <2>2, <2>3, <2>4
  <2>5. CASE len = n + 1
    BY <2>3, <2>5
  <2> QED  BY <2>4, <2>5
<1>3. Nat \subseteq S
  <2> HIDE DEF S
  <2> QED  BY <1>1, <1>2, SetInduction
<1> QED  BY <1>3

(* A total is at least any one of its terms.                               *)
LEMMA TotalAtLeast ==
  ASSUME NEW m \in Nat, NEW a \in [1 .. m -> Nat], NEW i \in 1 .. m
  PROVE  a[i] <= Total(a, m)
<1>0. /\ \A n \in 0 .. m : Total(a, n) \in Int
      /\ \A n \in 1 .. m : Total(a, n) = Total(a, n - 1) + a[n]
      /\ Total(a, 0) = 0
  <2>1. a \in [1 .. m -> Int]
    OBVIOUS
  <2> QED  BY <2>1, TotalFacts
<1>1. Total(a, i) <= Total(a, m)
  <2>1. i \in 0 .. m
    OBVIOUS
  <2> QED  BY <2>1, TotalMonotone
<1>2. 0 <= Total(a, i - 1)
  <2> DEFINE c == [n \in 1 .. i - 1 |-> a[n]]
  <2>1. i - 1 \in Nat /\ i - 1 \in 0 .. m /\ c \in [1 .. i - 1 -> Nat] /\ 0 \in 0 .. i - 1
    OBVIOUS
  <2>2. Total(c, 0) <= Total(c, i - 1)
    BY <2>1, TotalMonotone
  <2>3. c \in [1 .. i - 1 -> Int] /\ a \in [1 .. m -> Int]
    BY <2>1
  <2>4. Total(c, 0) = 0
    BY <2>1, <2>3, TotalFacts
  <2>5. \A n \in 1 .. i - 1 : c[n] = a[n]
    OBVIOUS
  <2> HIDE DEF c
  <2>6. Total(c, i - 1) = Total(a, i - 1)
    BY <2>1, <2>3, <2>5, TotalAgree
  <2> QED  BY <2>2, <2>4, <2>6
<1>3. Total(a, i) = Total(a, i - 1) + a[i] /\ Total(a, i - 1) \in Int
  BY <1>0
<1> QED  BY <1>0, <1>1, <1>2, <1>3

-----------------------------------------------------------------------------
(* Sequences, and recursion over the numbers up to n.                      *)

(* A rule that stays within a set can be followed to any length.           *)
Follows(f, n, X, b, s) ==
  f \in [0 .. n -> X] /\ f[0] = b /\ \A k \in 1 .. n : f[k] = s[k][f[k - 1]]

(* A recursion over 1 .. n has a solution.                                 *)
LEMMA Recursion ==
  ASSUME NEW n \in Nat, NEW X, NEW b \in X, NEW s \in [1 .. n -> [X -> X]]
  PROVE  \E f : Follows(f, n, X, b, s)
<1> DEFINE P(f, m) ==
             f \in [0 .. m -> X] /\ f[0] = b /\ \A k \in 1 .. m : f[k] = s[k][f[k - 1]]
           S == {m \in Nat : m <= n => \E f : P(f, m)}
<1>1. 0 \in S
  <2> DEFINE f == [k \in 0 .. 0 |-> b]
  <2>1. f \in [0 .. 0 -> X] /\ f[0] = b /\ \A k \in 1 .. 0 : FALSE
    OBVIOUS
  <2>. HIDE DEF f
  <2>2. P(f, 0)
    BY <2>1
  <2>. QED
    BY <2>2
<1>2. ASSUME NEW m \in Nat, m \in S PROVE m + 1 \in S
  <2>. SUFFICES ASSUME m + 1 <= n PROVE \E f : P(f, m + 1)
    OBVIOUS
  <2>1. PICK f : P(f, m)
    BY <1>2
  <2> DEFINE g == [k \in 0 .. m + 1 |-> IF k <= m THEN f[k] ELSE s[m + 1][f[m]]]
  <2>2. f[m] \in X /\ m + 1 \in 1 .. n
    BY <2>1
  <2>3. s[m + 1][f[m]] \in X
    BY <2>2
  <2>4. \A k \in 0 .. m + 1 : (k \in 0 .. m /\ g[k] = f[k]) \/ (k = m + 1 /\ g[k] = s[m + 1][f[m]])
    OBVIOUS
  <2>5. g \in [0 .. m + 1 -> X]
    BY <2>1, <2>3
  <2>. HIDE DEF g
  <2>6. g[0] = b
    BY <2>1, <2>4
  <2>7. ASSUME NEW k \in 1 .. m + 1 PROVE g[k] = s[k][g[k - 1]]
    <3>1. k - 1 \in 0 .. m /\ g[k - 1] = f[k - 1]
      BY <2>4
    <3>2. CASE k \in 1 .. m
      BY <2>1, <2>4, <3>1, <3>2
    <3>3. CASE k = m + 1
      BY <2>4, <3>1, <3>3
    <3>. QED
      BY <3>2, <3>3
  <2>8. P(g, m + 1)
    BY <2>5, <2>6, <2>7
  <2>. QED
    BY <2>8
<1>3. n \in S
  <2>. HIDE DEF S
  <2>. QED
    BY <1>1, <1>2, SetInduction
<1>. QED
  BY <1>3 DEF Follows

(* A function on 1 .. n is a sequence of length n.                         *)
LEMMA FunctionIsSeq ==
  ASSUME NEW X, NEW n \in Nat, NEW f \in [1 .. n -> X]
  PROVE  f \in Seq(X) /\ Len(f) = n
<1>1. f \in Seq(X)
  BY SeqDef
<1>2. DOMAIN f = 1 .. n
  OBVIOUS
<1>. QED
  BY <1>1, <1>2, LenProperties

(* What is left of a sequence behind its k-th element.                     *)
Suffix(s, k) == SubSeq(s, k + 1, Len(s))

(* Where a suffix comes from.                                              *)
LEMMA SuffixFacts ==
  ASSUME NEW X, NEW s \in Seq(X), NEW k \in 0 .. Len(s)
  PROVE  /\ Suffix(s, k) \in Seq(X) /\ Len(Suffix(s, k)) = Len(s) - k
         /\ \A j \in 1 .. Len(s) - k : Suffix(s, k)[j] = s[k + j]
BY DEF Suffix

(* Sequences of the same elements are the same.                            *)
LEMMA SameSeq ==
  ASSUME NEW X, NEW s \in Seq(X), NEW t \in Seq(X), Len(s) = Len(t),
         \A k \in 1 .. Len(s) : s[k] = t[k]
  PROVE  s = t
OBVIOUS

(* A suffix of a suffix is a suffix.                                       *)
LEMMA SuffixOfSuffix ==
  ASSUME NEW X, NEW s \in Seq(X), NEW k \in 0 .. Len(s), NEW j \in 0 .. Len(s) - k
  PROVE  Suffix(Suffix(s, k), j) = Suffix(s, k + j)
<1> DEFINE t == Suffix(s, k)
<1>1. t \in Seq(X) /\ Len(t) = Len(s) - k /\ \A i \in 1 .. Len(s) - k : t[i] = s[k + i]
  BY SuffixFacts
<1>. HIDE DEF t
<1>2. /\ Suffix(t, j) \in Seq(X) /\ Len(Suffix(t, j)) = Len(s) - k - j
      /\ \A i \in 1 .. Len(s) - k - j : Suffix(t, j)[i] = t[j + i]
  <2>1. j \in 0 .. Len(t) /\ Len(t) - j = Len(s) - k - j
    BY <1>1
  <2>. QED
    BY <1>1, <2>1, SuffixFacts
<1>3. /\ Suffix(s, k + j) \in Seq(X) /\ Len(Suffix(s, k + j)) = Len(s) - (k + j)
      /\ \A i \in 1 .. Len(s) - (k + j) : Suffix(s, k + j)[i] = s[k + j + i]
  <2>1. k + j \in 0 .. Len(s)
    OBVIOUS
  <2>. QED
    BY <2>1, SuffixFacts
<1>4. ASSUME NEW i \in 1 .. Len(s) - k - j PROVE Suffix(t, j)[i] = Suffix(s, k + j)[i]
  <2>1. j + i \in 1 .. Len(s) - k /\ k + (j + i) = k + j + i /\ i \in 1 .. Len(s) - (k + j)
    OBVIOUS
  <2>. QED
    BY <1>1, <1>2, <1>3, <2>1
<1>5. Len(Suffix(t, j)) = Len(Suffix(s, k + j))
  <2>1. Len(s) \in Nat /\ k \in Nat /\ j \in Nat
    OBVIOUS
  <2>2. Len(s) - k - j = Len(s) - (k + j)
    BY <2>1
  <2>. QED
    BY <1>2, <1>3, <2>2
<1>. QED
  BY <1>2, <1>3, <1>4, <1>5, SameSeq DEF t

(* The ends of a sequence.                                                 *)
LEMMA SuffixEnds ==
  ASSUME NEW X, NEW s \in Seq(X)
  PROVE  /\ Suffix(s, 0) = s /\ Suffix(s, Len(s)) = <<>>
         /\ s # <<>> => /\ Tail(s) = Suffix(s, 1) /\ Head(s) = s[1] /\ Head(s) \in X
                        /\ Tail(s) \in Seq(X) /\ Len(Tail(s)) = Len(s) - 1
                        /\ Len(s) \in Nat \ {0}
BY DEF Suffix

(* A sequence of one element and another sequence.                         *)
LEMMA ConsFacts ==
  ASSUME NEW X, NEW x \in X, NEW r \in Seq(X)
  PROVE  /\ <<x>> \o r \in Seq(X) /\ <<x>> \o r # <<>> /\ Head(<<x>> \o r) = x
         /\ Tail(<<x>> \o r) = r /\ Len(<<x>> \o r) = Len(r) + 1
<1> DEFINE p == <<x>> \o r
<1>1. /\ p \in Seq(X) /\ Len(p) = Len(r) + 1 /\ p[1] = x /\ Len(r) \in Nat
      /\ \A i \in 1 .. Len(r) : p[i + 1] = r[i]
  OBVIOUS
<1>. HIDE DEF p
<1>2. p # <<>>
  BY <1>1
<1>3. /\ Head(p) = x /\ Tail(p) = Suffix(p, 1) /\ Tail(p) \in Seq(X)
      /\ Len(Tail(p)) = Len(r)
  BY <1>1, <1>2, SuffixEnds
<1>4. \A i \in 1 .. Len(r) : Tail(p)[i] = r[i]
  <2>1. 1 \in 0 .. Len(p) /\ Len(p) - 1 = Len(r) /\ \A i \in 1 .. Len(r) : 1 + i = i + 1
    BY <1>1
  <2>2. \A i \in 1 .. Len(p) - 1 : Suffix(p, 1)[i] = p[1 + i]
    BY <1>1, <2>1, SuffixFacts
  <2>. HIDE DEF Suffix
  <2>. SUFFICES ASSUME NEW i \in 1 .. Len(r) PROVE Suffix(p, 1)[i] = r[i]
    BY <1>3
  <2>3. Suffix(p, 1)[i] = p[1 + i] /\ 1 + i = i + 1 /\ p[i + 1] = r[i]
    BY <1>1, <2>1, <2>2, Zenon
  <2>. QED
    BY <2>3, Zenon
<1>5. Tail(p) = r
  BY <1>3, <1>4, SameSeq
<1>. QED
  BY <1>1, <1>2, <1>3, <1>5 DEF p

(* A sequence of elements of a set is one of elements of a wider set.      *)
LEMMA WiderSeq ==
  ASSUME NEW X, NEW Y, X \subseteq Y, NEW s \in Seq(X)
  PROVE  s \in Seq(Y) /\ Len(s) \in Nat /\ DOMAIN s = 1 .. Len(s)
         /\ s \in [1 .. Len(s) -> X]
<1>1. Len(s) \in Nat /\ s \in [1 .. Len(s) -> X]
  OBVIOUS
<1>2. s \in [1 .. Len(s) -> Y]
  BY <1>1
<1>. QED
  BY <1>1, <1>2, FunctionIsSeq

(* The first k elements of a sequence.                                     *)
LEMMA PrefixIs ==
  ASSUME NEW X, NEW s \in Seq(X), NEW k \in 0 .. Len(s)
  PROVE  /\ SubSeq(s, 1, k) \in Seq(X) /\ Len(SubSeq(s, 1, k)) = k
         /\ SubSeq(s, 1, k) \in [1 .. k -> X]
         /\ k = 1 => SubSeq(s, 1, k) = <<s[1]>>
<1>1. SubSeq(s, 1, k) \in Seq(X) /\ Len(SubSeq(s, 1, k)) = k
  OBVIOUS
<1>2. SubSeq(s, 1, k) \in [1 .. k -> X]
  BY <1>1, WiderSeq
<1>3. ASSUME k = 1 PROVE SubSeq(s, 1, k) = <<s[1]>>
  <2>1. Len(s) \in Nat /\ 1 \in 1 .. Len(s)
    BY <1>3
  <2>2. SubSeq(s, 1, k)[1] = s[1] /\ s[1] \in X
    BY <1>3, <2>1
  <2>3. <<s[1]>> \in Seq(X) /\ Len(<<s[1]>>) = 1 /\ <<s[1]>>[1] = s[1]
    BY <2>2
  <2>4. \A j \in 1 .. 1 : j = 1
    OBVIOUS
  <2>. QED
    BY <1>1, <1>3, <2>2, <2>3, <2>4, SameSeq
<1>. QED
  BY <1>1, <1>2, <1>3

(* Sequences put one behind the other.                                     *)
LEMMA ConcatIs ==
  ASSUME NEW X, NEW s \in Seq(X), NEW t \in Seq(X)
  PROVE  /\ s \o t \in Seq(X) /\ Len(s \o t) = Len(s) + Len(t)
         /\ Len(s) \in Nat /\ Len(t) \in Nat
         /\ \A k \in 1 .. Len(s) : (s \o t)[k] = s[k]
         /\ \A k \in 1 .. Len(t) : (s \o t)[Len(s) + k] = t[k]
<1>1. s \o t \in Seq(X) /\ Len(s \o t) = Len(s) + Len(t) /\ Len(s) \in Nat /\ Len(t) \in Nat
  OBVIOUS
<1>2. \A k \in 1 .. Len(s) : (s \o t)[k] = s[k]
  BY <1>1
<1>3. \A k \in 1 .. Len(t) : (s \o t)[Len(s) + k] = t[k]
  BY <1>1
<1>. QED
  BY <1>1, <1>2, <1>3

(* What is behind the first elements of two sequences.                     *)
LEMMA ConcatSuffix ==
  ASSUME NEW X, NEW s \in Seq(X), NEW t \in Seq(X), NEW k \in 0 .. Len(s)
  PROVE  Suffix(s \o t, k) = Suffix(s, k) \o t
<1> DEFINE a == Suffix(s \o t, k)
           u == Suffix(s, k)
           n == Len(s) - k
<1>1. /\ s \o t \in Seq(X) /\ Len(s \o t) = Len(s) + Len(t) /\ Len(s) \in Nat /\ Len(t) \in Nat
      /\ \A j \in 1 .. Len(s) : (s \o t)[j] = s[j]
      /\ \A j \in 1 .. Len(t) : (s \o t)[Len(s) + j] = t[j]
  BY ConcatIs
<1>2. k \in 0 .. Len(s \o t)
  BY <1>1
<1>3. /\ a \in Seq(X) /\ Len(a) = Len(s \o t) - k
      /\ \A j \in 1 .. Len(s \o t) - k : a[j] = (s \o t)[k + j]
  BY <1>1, <1>2, SuffixFacts, Zenon
<1>4. /\ u \in Seq(X) /\ Len(u) = n /\ \A j \in 1 .. n : u[j] = s[k + j]
  BY SuffixFacts, Zenon
<1>. HIDE DEF a, u
<1>5. /\ u \o t \in Seq(X) /\ Len(u \o t) = n + Len(t) /\ n \in Nat
      /\ \A j \in 1 .. n : (u \o t)[j] = u[j]
      /\ \A j \in 1 .. Len(t) : (u \o t)[n + j] = t[j]
  <2>1. /\ u \o t \in Seq(X) /\ Len(u \o t) = Len(u) + Len(t)
        /\ \A j \in 1 .. Len(u) : (u \o t)[j] = u[j]
        /\ \A j \in 1 .. Len(t) : (u \o t)[Len(u) + j] = t[j]
    <3>1. u \in Seq(X)
      BY <1>4
    <3>. QED
      BY <3>1, ConcatIs
  <2>2. n \in Nat
    BY <1>1
  <2>. HIDE DEF n
  <2>. QED
    BY <1>4, <2>1, <2>2
<1>6. ASSUME NEW j \in 1 .. Len(a) PROVE a[j] = (u \o t)[j]
  <2>1. CASE j <= n
    <3>1. j \in 1 .. n /\ k + j \in 1 .. Len(s) /\ j \in 1 .. Len(s \o t) - k
      BY <2>1, <1>1, <1>5
    <3>. QED
      BY <1>1, <1>3, <1>4, <1>5, <3>1, Zenon
  <2>2. CASE ~ (j <= n)
    <3> DEFINE i == j - n
    <3>1. /\ i \in 1 .. Len(t) /\ j \in 1 .. Len(s \o t) - k /\ k + j = Len(s) + i /\ j = n + i
      BY <2>2, <1>1, <1>3, <1>5
    <3>. HIDE DEF i, n
    <3>2. a[j] = (s \o t)[Len(s) + i]
      BY <1>3, <3>1, Zenon
    <3>3. (u \o t)[j] = t[i]
      BY <1>5, <3>1, Zenon
    <3>. QED
      BY <1>1, <3>1, <3>2, <3>3, Zenon
  <2>. QED
    BY <2>1, <2>2
<1>7. Len(a) = Len(u \o t)
  BY <1>1, <1>3, <1>5
<1>. QED
  BY <1>3, <1>5, <1>6, <1>7, SameSeq DEF a, u

(* A sequence is its first elements and what is behind them.               *)
LEMMA TakeDrop ==
  ASSUME NEW X, NEW s \in Seq(X), NEW k \in 0 .. Len(s)
  PROVE  /\ SubSeq(s, 1, k) \in Seq(X) /\ Len(SubSeq(s, 1, k)) = k
         /\ Suffix(s, k) \in Seq(X) /\ Len(Suffix(s, k)) = Len(s) - k
         /\ SubSeq(s, 1, k) \o Suffix(s, k) = s
<1> DEFINE u == SubSeq(s, 1, k)
           v == Suffix(s, k)
<1>1. /\ u \in Seq(X) /\ Len(u) = k /\ \A j \in 1 .. k : u[j] = s[j]
  OBVIOUS
<1>2. /\ v \in Seq(X) /\ Len(v) = Len(s) - k /\ \A j \in 1 .. Len(s) - k : v[j] = s[k + j]
  BY SuffixFacts, Zenon
<1>. HIDE DEF u, v
<1>3. /\ u \o v \in Seq(X) /\ Len(u \o v) = k + (Len(s) - k)
      /\ \A j \in 1 .. k : (u \o v)[j] = u[j]
      /\ \A j \in 1 .. Len(s) - k : (u \o v)[k + j] = v[j]
  BY <1>1, <1>2, ConcatIs
<1>4. ASSUME NEW j \in 1 .. Len(s) PROVE s[j] = (u \o v)[j]
  <2>1. CASE j <= k
    BY <1>1, <1>3, <2>1
  <2>2. CASE ~ (j <= k)
    <3>1. j - k \in 1 .. Len(s) - k /\ k + (j - k) = j
      BY <2>2
    <3>. QED
      BY <1>2, <1>3, <3>1
  <2>. QED
    BY <2>1, <2>2
<1>5. Len(s) = Len(u \o v)
  BY <1>3
<1>6. u \o v = s
  BY <1>3, <1>4, <1>5, SameSeq
<1>. QED
  BY <1>1, <1>2, <1>6 DEF u, v

(* The first of two sequences, and what is behind it.                      *)
LEMMA ConcatEnds ==
  ASSUME NEW X, NEW s \in Seq(X), NEW t \in Seq(X)
  PROVE  SubSeq(s \o t, 1, Len(s)) = s /\ Suffix(s \o t, Len(s)) = t
<1>1. /\ s \o t \in Seq(X) /\ Len(s \o t) = Len(s) + Len(t) /\ Len(s) \in Nat /\ Len(t) \in Nat
      /\ \A j \in 1 .. Len(s) : (s \o t)[j] = s[j]
      /\ \A j \in 1 .. Len(t) : (s \o t)[Len(s) + j] = t[j]
  BY ConcatIs
<1>2. Len(s) \in 0 .. Len(s \o t)
  BY <1>1
<1>3. SubSeq(s \o t, 1, Len(s)) = s
  <2>1. /\ SubSeq(s \o t, 1, Len(s)) \in Seq(X) /\ Len(SubSeq(s \o t, 1, Len(s))) = Len(s)
        /\ \A j \in 1 .. Len(s) : SubSeq(s \o t, 1, Len(s))[j] = (s \o t)[j]
    BY <1>1, <1>2
  <2>. QED
    BY <1>1, <2>1, SameSeq
<1>4. Suffix(s \o t, Len(s)) = t
  <2>1. /\ Suffix(s \o t, Len(s)) \in Seq(X) /\ Len(Suffix(s \o t, Len(s))) = Len(t)
        /\ \A j \in 1 .. Len(t) : Suffix(s \o t, Len(s))[j] = (s \o t)[Len(s) + j]
    <3> DEFINE w == s \o t
               k == Len(s)
    <3>1. w \in Seq(X) /\ k \in 0 .. Len(w) /\ Len(w) - k = Len(t)
      BY <1>1
    <3>. HIDE DEF w, k
    <3>2. /\ Suffix(w, k) \in Seq(X) /\ Len(Suffix(w, k)) = Len(w) - k
          /\ \A j \in 1 .. Len(w) - k : Suffix(w, k)[j] = w[k + j]
      BY <3>1, SuffixFacts, Zenon
    <3>3. /\ Suffix(w, k) \in Seq(X) /\ Len(Suffix(w, k)) = Len(t)
          /\ \A j \in 1 .. Len(t) : Suffix(w, k)[j] = w[k + j]
      BY <3>1, <3>2, Zenon
    <3>. QED
      BY <3>3 DEF w, k
  <2>. QED
    BY <1>1, <2>1, SameSeq
<1>. QED
  BY <1>3, <1>4

=============================================================================
