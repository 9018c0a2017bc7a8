--------------------------- MODULE LoStreamProofs ----------------------------
(* What liblo's reading of streams guarantees, for any peers, any messages *)
(* that they send, any sizes of the buffers and any pieces that the        *)
(* streams come in, as far as the assumptions admit them.                  *)
EXTENDS LoCodec, SequenceTheorems, FiniteSetTheorems, TotalsProofs

-----------------------------------------------------------------------------
(* Sequences of bytes, one behind the other.                               *)

(* f[k] is what the k parts of xs behind the a-th make together.           *)
Together(xs, a, f) ==
  /\ f \in [0 .. Len(xs) - a -> Seq(Bytes)] /\ f[0] = <<>>
  /\ \A k \in 1 .. Len(xs) - a : f[k] = f[k - 1] \o xs[a + k]

(* The parts of xs behind the a-th, up to the b-th, put together.          *)
Cat(xs, a, b) == (CHOOSE f : Together(xs, a, f))[b - a]

(* There is such an f.                                                     *)
LEMMA CatExists ==
  ASSUME NEW xs \in Seq(Seq(Bytes)), NEW a \in 0 .. Len(xs)
  PROVE  Together(xs, a, CHOOSE f : Together(xs, a, f))
<1> DEFINE n == Len(xs) - a
           s == [k \in 1 .. n |-> [y \in Seq(Bytes) |-> y \o xs[a + k]]]
<1>1. n \in Nat
  OBVIOUS
<1>2. ASSUME NEW k \in 1 .. n PROVE xs[a + k] \in Seq(Bytes)
  <2>1. a + k \in 1 .. Len(xs)
    OBVIOUS
  <2>. QED
    BY <2>1
<1>3. s \in [1 .. n -> [Seq(Bytes) -> Seq(Bytes)]]
  <2>1. ASSUME NEW k \in 1 .. n, NEW y \in Seq(Bytes) PROVE y \o xs[a + k] \in Seq(Bytes)
    BY <1>2, ConcatIs
  <2>. HIDE DEF n
  <2>. QED
    BY <2>1
<1>4. <<>> \in Seq(Bytes)
  OBVIOUS
<1>. HIDE DEF s
<1>5. PICK f : f \in [0 .. n -> Seq(Bytes)] /\ f[0] = <<>>
                /\ \A k \in 1 .. n : f[k] = s[k][f[k - 1]]
  <2>. HIDE DEF n
  <2>1. \E f : Follows(f, n, Seq(Bytes), <<>>, s)
    BY <1>1, <1>3, <1>4, Recursion, Zenon
  <2>. QED
    BY <2>1, Zenon DEF Follows
<1>6. ASSUME NEW k \in 1 .. n PROVE f[k] = f[k - 1] \o xs[a + k]
  <2>. HIDE DEF n
  <2>1. k - 1 \in 0 .. n
    BY <1>1
  <2>2. f[k - 1] \in Seq(Bytes)
    BY <1>5, <2>1, Zenon
  <2>. QED
    BY <1>5, <2>2, Zenon DEF s
<1>7. Together(xs, a, f)
  BY <1>5, <1>6, Zenon DEF Together
<1>. QED
  BY <1>7

(* What parts make together: the last comes behind the others.             *)
LEMMA CatLast ==
  ASSUME NEW xs \in Seq(Seq(Bytes)), NEW a \in 0 .. Len(xs)
  PROVE  /\ \A b \in a .. Len(xs) : Cat(xs, a, b) \in Seq(Bytes)
         /\ Cat(xs, a, a) = <<>>
         /\ \A b \in a .. Len(xs) - 1 : Cat(xs, a, b + 1) = Cat(xs, a, b) \o xs[b + 1]
<1> DEFINE f == CHOOSE f : Together(xs, a, f)
<1>1. /\ f \in [0 .. Len(xs) - a -> Seq(Bytes)] /\ f[0] = <<>>
      /\ \A k \in 1 .. Len(xs) - a : f[k] = f[k - 1] \o xs[a + k]
  BY CatExists, Zenon DEF Together
<1>2. \A b : Cat(xs, a, b) = f[b - a]
  BY DEF Cat
<1>. HIDE DEF f
<1>3. \A b \in a .. Len(xs) : b - a \in 0 .. Len(xs) - a
  OBVIOUS
<1>4. a - a = 0
  OBVIOUS
<1>5. ASSUME NEW b \in a .. Len(xs) - 1 PROVE Cat(xs, a, b + 1) = Cat(xs, a, b) \o xs[b + 1]
  <2> DEFINE k == (b + 1) - a
  <2>1. k \in 1 .. Len(xs) - a /\ k - 1 = b - a /\ a + k = b + 1
    OBVIOUS
  <2>2. Cat(xs, a, b + 1) = f[k] /\ Cat(xs, a, b) = f[b - a]
    BY <1>2, Zenon
  <2>. HIDE DEF k
  <2>. QED
    BY <1>1, <2>1, <2>2, Zenon
<1>6. \A b \in a .. Len(xs) : Cat(xs, a, b) \in Seq(Bytes)
  BY <1>1, <1>2, <1>3
<1>7. Cat(xs, a, a) = <<>>
  BY <1>1, <1>2, <1>4, Zenon
<1>. QED
  BY <1>5, <1>6, <1>7

(* Sequences can be put together in any order.                             *)
LEMMA CatAssociative ==
  ASSUME NEW s \in Seq(Bytes), NEW t \in Seq(Bytes), NEW u \in Seq(Bytes)
  PROVE  (s \o t) \o u = s \o (t \o u)
  BY ConcatAssociative

(* What parts make together: the first comes before the others.            *)
LEMMA CatFirst ==
  ASSUME NEW xs \in Seq(Seq(Bytes)), NEW a \in 0 .. Len(xs) - 1, NEW c \in a + 1 .. Len(xs)
  PROVE  Cat(xs, a, c) = xs[a + 1] \o Cat(xs, a + 1, c)
<1> DEFINE P(b) == b <= Len(xs) => Cat(xs, a, b) = xs[a + 1] \o Cat(xs, a + 1, b)
           S == {i \in Nat : P((a + 1) + i)}
<1>1. /\ a \in 0 .. Len(xs) /\ a \in a .. Len(xs) - 1
      /\ a + 1 \in 0 .. Len(xs) /\ a + 1 \in 1 .. Len(xs) /\ Len(xs) \in Nat
  OBVIOUS
<1>2. xs[a + 1] \in Seq(Bytes)
  BY <1>1
<1>3. 0 \in S
  <2>1. Cat(xs, a, a + 1) = Cat(xs, a, a) \o xs[a + 1] /\ Cat(xs, a, a) = <<>>
    BY <1>1, CatLast, Zenon
  <2>2. Cat(xs, a + 1, a + 1) = <<>>
    BY <1>1, CatLast
  <2>3. <<>> \o xs[a + 1] = xs[a + 1] /\ xs[a + 1] \o <<>> = xs[a + 1]
    BY <1>2
  <2>4. P(a + 1)
    BY <2>1, <2>2, <2>3, Zenon
  <2>5. (a + 1) + 0 = a + 1
    BY <1>1
  <2>. HIDE DEF P
  <2>. QED
    BY <2>4, <2>5
<1>4. ASSUME NEW i \in Nat, i \in S PROVE i + 1 \in S
  <2> DEFINE b == (a + 1) + i
  <2>1. b \in Nat /\ (a + 1) + (i + 1) = b + 1 /\ a + 1 <= b
    BY <1>1
  <2>2. P(b)
    BY <1>4, Zenon
  <2>. HIDE DEF b
  <2>3. ASSUME b + 1 <= Len(xs)
        PROVE  Cat(xs, a, b + 1) = xs[a + 1] \o Cat(xs, a + 1, b + 1)
    <3>1. /\ b \in a .. Len(xs) - 1 /\ b \in a + 1 .. Len(xs) - 1 /\ b \in a + 1 .. Len(xs)
          /\ b + 1 \in 1 .. Len(xs) /\ b <= Len(xs)
      BY <1>1, <2>1, <2>3
    <3>2. xs[b + 1] \in Seq(Bytes)
      BY <3>1
    <3>3. Cat(xs, a, b + 1) = Cat(xs, a, b) \o xs[b + 1]
      BY <1>1, <3>1, CatLast, Zenon
    <3>4. /\ Cat(xs, a + 1, b + 1) = Cat(xs, a + 1, b) \o xs[b + 1]
          /\ Cat(xs, a + 1, b) \in Seq(Bytes)
      BY <1>1, <3>1, CatLast, Zenon
    <3>5. Cat(xs, a, b) = xs[a + 1] \o Cat(xs, a + 1, b)
      BY <2>2, <3>1, Zenon
    <3>6. (xs[a + 1] \o Cat(xs, a + 1, b)) \o xs[b + 1]
          = xs[a + 1] \o (Cat(xs, a + 1, b) \o xs[b + 1])
      BY <1>2, <3>2, <3>4, CatAssociative, Zenon
    <3>. QED
      BY <3>3, <3>4, <3>5, <3>6, Zenon
  <2>4. P(b + 1)
    BY <2>3, Zenon
  <2>. HIDE DEF P
  <2>. QED
    BY <2>1, <2>4 DEF b
<1>5. \A i \in Nat : i \in S
  <2>. HIDE DEF S
  <2>. QED
    BY <1>3, <1>4, SetInduction, Zenon
<1>6. c - (a + 1) \in Nat /\ (a + 1) + (c - (a + 1)) = c /\ c <= Len(xs)
  BY <1>1
<1>7. P(c)
  <2>. HIDE DEF P
  <2>. QED
    BY <1>5, <1>6, Zenon
<1>. QED
  BY <1>6, <1>7, Zenon

(* The count that goes before a message.                                   *)
LEMMA HeaderFacts ==
  ASSUME NEW n \in Nat, n \in Counts
  PROVE  /\ Stream!Header(n) \in Seq(Bytes) /\ Len(Stream!Header(n)) = 4
         /\ Stream!Header(n)[1] = 0 /\ Stream!Count(Stream!Header(n)) = n
<1> DEFINE h == Stream!Header(n)
           a == n % 256
           b == (n \div 256) % 256
           c == (n \div 65536) % 256
           d == n \div 16777216
<1>1. h = <<d, c, b, a>>
  BY SMT DEF Stream!Header
<1>2. a \in 0 .. 255 /\ b \in 0 .. 255 /\ c \in 0 .. 255
  BY SMT
<1>3. n = a + 256 * b + 65536 * c + 16777216 * d
  <2>1. n = a + 256 * (n \div 256)
    BY SMT
  <2>2. n \div 256 = b + 256 * (n \div 65536)
    BY SMT
  <2>3. n \div 65536 = c + 256 * d
    BY SMT
  <2>4. n \div 256 \in Nat /\ n \div 65536 \in Nat /\ d \in Nat
    BY SMT
  <2>. HIDE DEF a, b, c, d
  <2>. QED
    BY <1>2, <2>1, <2>2, <2>3, <2>4, SMT
<1>4. d \in Nat
  BY SMT
<1>. HIDE DEF a, b, c, d
<1>. HIDE DEF h
<1>7. d = 0 /\ n = a + 256 * b + 65536 * c
  <2>1. n < 16777216
    BY SMT DEF Counts
  <2>. QED
    BY <1>2, <1>3, <1>4, <2>1, SMT
<1>5. h \in Seq(Bytes) /\ Len(h) = 4 /\ h[1] = 0 /\ h[2] = c /\ h[3] = b /\ h[4] = a
  BY <1>1, <1>2, <1>7, SMT DEF Bytes
<1>6. Stream!Count(h) = n
  BY <1>2, <1>7, <1>5, SMT DEF Stream!Count
<1>. QED
  BY <1>5, <1>6, SMT DEF h

(* A byte as SLIP sends it.                                                *)
LEMMA SlipByteIs ==
  ASSUME NEW b \in Bytes
  PROVE  /\ Stream!SlipByte(b) \in Seq(Bytes)
         /\ b \notin {Stream!END, Stream!ESC} => Stream!SlipByte(b) = <<b>>
         /\ b = Stream!END => Stream!SlipByte(b) = <<Stream!ESC, Stream!ESC_END>>
         /\ b = Stream!ESC => Stream!SlipByte(b) = <<Stream!ESC, Stream!ESC_ESC>>
<1>1. Stream!END # Stream!ESC
  BY SMT DEF Stream!END, Stream!ESC
<1>2. /\ b \notin {Stream!END, Stream!ESC} => Stream!SlipByte(b) = <<b>>
      /\ b = Stream!END => Stream!SlipByte(b) = <<Stream!ESC, Stream!ESC_END>>
      /\ b = Stream!ESC => Stream!SlipByte(b) = <<Stream!ESC, Stream!ESC_ESC>>
  BY <1>1, SMT DEF Stream!SlipByte
<1>3. /\ <<b>> \in Seq(Bytes) /\ <<Stream!ESC, Stream!ESC_END>> \in Seq(Bytes)
      /\ <<Stream!ESC, Stream!ESC_ESC>> \in Seq(Bytes)
  <2>1. {Stream!ESC, Stream!ESC_END, Stream!ESC_ESC} \subseteq Bytes
    BY SMT DEF Stream!ESC, Stream!ESC_END, Stream!ESC_ESC, Bytes
  <2>. QED
    BY <2>1
<1>4. CASE b \notin {Stream!END, Stream!ESC}
  BY <1>2, <1>3, <1>4, Zenon
<1>5. CASE b = Stream!END
  BY <1>2, <1>3, <1>5, Zenon
<1>6. CASE b = Stream!ESC
  BY <1>2, <1>3, <1>6, Zenon
<1>. QED
  BY <1>4, <1>5, <1>6, Zenon

(* SlipEncode: what becomes of the last k bytes of m.                      *)
Coding(m, code) ==
  code = [k \in 0 .. Len(m) |->
            IF k = 0 THEN <<Stream!END>>
            ELSE Stream!SlipByte(m[Len(m) - k + 1]) \o code[k - 1]]

\* What SLIP makes of m behind its j-th byte.
SlipFrom(m, j) == (CHOOSE code : Coding(m, code))[Len(m) - j]

(* What becomes of the bytes of a message, the last ones first.            *)
LEMMA CodingExists ==
  ASSUME NEW m \in Seq(Bytes)
  PROVE  LET code == CHOOSE code : Coding(m, code)
         IN  Coding(m, code) /\ code \in [0 .. Len(m) -> Seq(Bytes)]
<1> DEFINE n == Len(m)
           s == [k \in 1 .. n |-> [y \in Seq(Bytes) |-> Stream!SlipByte(m[n - k + 1]) \o y]]
           B(code, k) == IF k = 0 THEN <<Stream!END>>
                         ELSE Stream!SlipByte(m[n - k + 1]) \o code[k - 1]
<1>1. n \in Nat
  OBVIOUS
<1>2. ASSUME NEW k \in 1 .. n PROVE Stream!SlipByte(m[n - k + 1]) \in Seq(Bytes)
  <2>1. m[n - k + 1] \in Bytes
    OBVIOUS
  <2>. QED
    BY <2>1, SlipByteIs
<1>3. s \in [1 .. n -> [Seq(Bytes) -> Seq(Bytes)]]
  <2>1. ASSUME NEW k \in 1 .. n, NEW y \in Seq(Bytes)
        PROVE  Stream!SlipByte(m[n - k + 1]) \o y \in Seq(Bytes)
    BY <1>2, ConcatIs
  <2>. HIDE DEF n
  <2>. QED
    BY <2>1
<1>4. <<Stream!END>> \in Seq(Bytes)
  BY DEF Stream!END, Bytes
<1>. HIDE DEF s
<1>5. PICK f : Follows(f, n, Seq(Bytes), <<Stream!END>>, s)
  <2>. HIDE DEF n
  <2>. QED
    BY <1>1, <1>3, <1>4, Recursion, Zenon
<1>6. f \in [0 .. n -> Seq(Bytes)]
  BY <1>5 DEF Follows
<1>7. ASSUME NEW k \in 0 .. n PROVE f[k] = B(f, k)
  <2>. HIDE DEF n
  <2>1. CASE k = 0
    BY <1>5, <2>1 DEF Follows
  <2>2. CASE k # 0
    <3>1. k \in 1 .. n /\ k - 1 \in 0 .. n
      BY <1>1, <2>2
    <3>2. f[k - 1] \in Seq(Bytes) /\ f[k] = s[k][f[k - 1]]
      BY <1>5, <3>1 DEF Follows
    <3>3. s[k][f[k - 1]] = Stream!SlipByte(m[n - k + 1]) \o f[k - 1]
      BY <3>1, <3>2, Zenon DEF s
    <3>. QED
      BY <2>2, <3>2, <3>3, Zenon
  <2>. QED
    BY <2>1, <2>2
<1>8. f = [k \in 0 .. n |-> B(f, k)]
  <2>. HIDE DEF n, B
  <2>. QED
    BY <1>6, <1>7
<1>9. Coding(m, f)
  BY <1>8 DEF Coding
<1> DEFINE c == CHOOSE code : Coding(m, code)
<1>10. Coding(m, c)
  BY <1>9
<1>. HIDE DEF c
<1>11. DOMAIN c = 0 .. n /\ \A k \in 0 .. n : c[k] = B(c, k)
  <2>1. c = [k \in 0 .. n |-> B(c, k)]
    BY <1>10, Zenon DEF Coding
  <2>. HIDE DEF n, B
  <2>. QED
    BY <2>1, Zenon
<1> DEFINE S == {k \in Nat : k <= n => c[k] \in Seq(Bytes)}
<1>12. 0 \in S
  BY <1>1, <1>4, <1>11
<1>13. ASSUME NEW k \in Nat, k \in S PROVE k + 1 \in S
  <2>1. ASSUME k + 1 <= n PROVE c[k + 1] \in Seq(Bytes)
    <3>1. k + 1 \in 0 .. n /\ k + 1 \in 1 .. n /\ k + 1 # 0 /\ (k + 1) - 1 = k /\ k <= n
      BY <1>1, <2>1
    <3>2. c[k + 1] = Stream!SlipByte(m[n - (k + 1) + 1]) \o c[k]
      BY <1>11, <3>1, Zenon
    <3>3. c[k] \in Seq(Bytes)
      BY <1>13, <3>1
    <3>4. Stream!SlipByte(m[n - (k + 1) + 1]) \in Seq(Bytes)
      BY <1>2, <3>1
    <3>. QED
      BY <3>2, <3>3, <3>4, ConcatIs
  <2>. QED
    BY <2>1
<1>14. \A k \in Nat : k \in S
  <2>. HIDE DEF S
  <2>. QED
    BY <1>12, <1>13, SetInduction
<1>15. c \in [0 .. n -> Seq(Bytes)]
  <2>1. \A k \in 0 .. n : c[k] \in Seq(Bytes)
    BY <1>1, <1>14
  <2>. QED
    BY <1>10, <1>11, <2>1 DEF Coding
<1>. QED
  BY <1>10, <1>15 DEF c

(* What SLIP makes of a message, byte by byte.                             *)
LEMMA SlipFromIs ==
  ASSUME NEW m \in Seq(Bytes)
  PROVE  /\ Stream!SlipEncode(m) = SlipFrom(m, 0)
         /\ SlipFrom(m, Len(m)) = <<Stream!END>>
         /\ \A j \in 0 .. Len(m) : SlipFrom(m, j) \in Seq(Bytes)
         /\ \A j \in 0 .. Len(m) - 1 :
              SlipFrom(m, j) = Stream!SlipByte(m[j + 1]) \o SlipFrom(m, j + 1)
<1> DEFINE c == CHOOSE code : Coding(m, code)
<1>1. Stream!SlipEncode(m) = c[Len(m)]
  BY Zenon DEF Stream!SlipEncode, Coding
<1>2. Coding(m, c) /\ c \in [0 .. Len(m) -> Seq(Bytes)]
  BY CodingExists
<1>3. \A j : SlipFrom(m, j) = c[Len(m) - j]
  BY DEF SlipFrom
<1>. HIDE DEF c
<1>4. Len(m) \in Nat /\ Len(m) - 0 = Len(m) /\ Len(m) - Len(m) = 0
  OBVIOUS
<1>5. c[0] = <<Stream!END>>
  BY <1>2, <1>4 DEF Coding
<1>6. ASSUME NEW j \in 0 .. Len(m) - 1
      PROVE  SlipFrom(m, j) = Stream!SlipByte(m[j + 1]) \o SlipFrom(m, j + 1)
  <2> DEFINE k == Len(m) - j
  <2>1. k \in 0 .. Len(m) /\ k # 0 /\ k - 1 = Len(m) - (j + 1) /\ Len(m) - k + 1 = j + 1
    <3>1. \A a \in Nat : \A i \in 0 .. a - 1 :
            /\ a - i \in 0 .. a /\ a - i # 0
            /\ (a - i) - 1 = a - (i + 1) /\ a - (a - i) + 1 = i + 1
      OBVIOUS
    <3>. QED
      BY <1>4, <3>1, Zenon
  <2>2. SlipFrom(m, j) = c[k] /\ SlipFrom(m, j + 1) = c[Len(m) - (j + 1)]
    BY <1>3
  <2>. HIDE DEF k
  <2>3. c[k] = Stream!SlipByte(m[Len(m) - k + 1]) \o c[k - 1]
    BY <1>2, <2>1, Zenon DEF Coding
  <2>. QED
    BY <2>1, <2>2, <2>3, Zenon
<1>7. \A j \in 0 .. Len(m) : Len(m) - j \in 0 .. Len(m)
  BY <1>4
<1>8. \A j \in 0 .. Len(m) : SlipFrom(m, j) \in Seq(Bytes)
  BY <1>2, <1>3, <1>7
<1>. QED
  BY <1>1, <1>3, <1>4, <1>5, <1>6, <1>8, Zenon

(* The same for bytes.                                                     *)
LEMMA BytesConcat ==
  ASSUME NEW s \in Seq(Bytes), NEW t \in Seq(Bytes)
  PROVE  /\ s \o t \in Seq(Bytes) /\ Len(s \o t) = Len(s) + Len(t)
         /\ Len(s) \in Nat /\ Len(t) \in Nat
         /\ \A k \in 1 .. Len(s) : (s \o t)[k] = s[k]
         /\ \A k \in 1 .. Len(t) : (s \o t)[Len(s) + k] = t[k]
  BY ConcatIs

(* Two ways to cut a sequence, the one behind the other.                   *)
LEMMA BytesSplit ==
  ASSUME NEW x \in Seq(Bytes), NEW y \in Seq(Bytes), NEW u \in Seq(Bytes), NEW v \in Seq(Bytes),
         x \o y = u \o v, Len(u) <= Len(x)
  PROVE  /\ SubSeq(x, 1, Len(u)) = u /\ Suffix(x, Len(u)) \in Seq(Bytes)
         /\ u \o Suffix(x, Len(u)) = x /\ Suffix(x, Len(u)) \o y = v
<1>1. Len(u) \in 0 .. Len(x) /\ Len(x) \in Nat /\ Len(u) \in Nat
  BY ConcatIs
<1>2. Suffix(x, Len(u)) \o y = v
  <2>1. Suffix(x \o y, Len(u)) = Suffix(x, Len(u)) \o y
    BY <1>1, ConcatSuffix, Zenon
  <2>2. Suffix(u \o v, Len(u)) = v
    BY ConcatEnds
  <2>. QED
    BY <2>1, <2>2
<1>3. SubSeq(x, 1, Len(u)) = u
  <2>1. /\ SubSeq(x, 1, Len(u)) \in Seq(Bytes) /\ Len(SubSeq(x, 1, Len(u))) = Len(u)
        /\ \A j \in 1 .. Len(u) : SubSeq(x, 1, Len(u))[j] = x[j]
    BY <1>1
  <2>2. ASSUME NEW j \in 1 .. Len(u) PROVE x[j] = u[j]
    <3>1. j \in 1 .. Len(x)
      BY <1>1
    <3>2. (x \o y)[j] = x[j] /\ (u \o v)[j] = u[j]
      BY <3>1, ConcatIs
    <3>. QED
      BY <3>2
  <2>3. \A j \in 1 .. Len(u) : SubSeq(x, 1, Len(u))[j] = u[j]
    BY <2>1, <2>2
  <2>. QED
    BY <2>1, <2>3, SameSeq
<1>4. Suffix(x, Len(u)) \in Seq(Bytes) /\ SubSeq(x, 1, Len(u)) \o Suffix(x, Len(u)) = x
  BY <1>1, TakeDrop, Zenon
<1>. QED
  BY <1>2, <1>3, <1>4, Zenon

(* What is sent, one message after the other: behind counts, or as SLIP.   *)
Messages == { S \in Seq(Seq(Bytes)) : \A k \in 1 .. Len(S) : Len(S[k]) \in Counts \ {0} }
Whole(m) == Stream!Header(Len(m)) \o m
Counted(S) == [k \in 1 .. Len(S) |-> Whole(S[k])]
Slipped(S) == [k \in 1 .. Len(S) |-> Stream!SlipEncode(S[k])]

(* A message behind its count.                                             *)
LEMMA WholeIs ==
  ASSUME NEW m \in Seq(Bytes), Len(m) \in Counts \ {0}
  PROVE  /\ Whole(m) \in Seq(Bytes) /\ Len(Whole(m)) = Len(m) + 4
         /\ Stream!Header(Len(m)) \in Seq(Bytes) /\ Len(Stream!Header(Len(m))) = 4
         /\ Stream!Header(Len(m))[1] = 0 /\ Whole(m)[1] = 0
         /\ Stream!Count(Stream!Header(Len(m))) = Len(m)
         /\ Len(m) \in Nat \ {0}
<1>1. Len(m) \in Nat /\ Len(m) # 0 /\ Len(m) \in Counts
  OBVIOUS
<1>2. /\ Stream!Header(Len(m)) \in Seq(Bytes) /\ Len(Stream!Header(Len(m))) = 4
      /\ Stream!Header(Len(m))[1] = 0 /\ Stream!Count(Stream!Header(Len(m))) = Len(m)
  BY <1>1, HeaderFacts
<1> DEFINE h == Stream!Header(Len(m))
<1>. HIDE DEF h
<1>3. h \in Seq(Bytes) /\ Len(h) = 4
  BY <1>2 DEF h
<1>4. /\ h \o m \in Seq(Bytes) /\ Len(h \o m) = Len(h) + Len(m)
      /\ \A k \in 1 .. Len(h) : (h \o m)[k] = h[k]
  BY <1>3, BytesConcat, Zenon
<1>5. Whole(m) = h \o m
  BY DEF Whole, h
<1>6. Len(h \o m) = Len(m) + 4 /\ (h \o m)[1] = h[1]
  BY <1>1, <1>3, <1>4
<1>7. h[1] = 0
  BY <1>2 DEF h
<1>. QED
  BY <1>1, <1>2, <1>4, <1>5, <1>6, <1>7

(* The messages behind their counts.                                       *)
LEMMA CountedIs ==
  ASSUME NEW S \in Messages
  PROVE  /\ S \in Seq(Seq(Bytes)) /\ Len(S) \in Nat
         /\ \A k \in 1 .. Len(S) : S[k] \in Seq(Bytes) /\ Len(S[k]) \in Counts \ {0}
         /\ Counted(S) \in Seq(Seq(Bytes)) /\ Len(Counted(S)) = Len(S)
         /\ \A k \in 1 .. Len(S) : Counted(S)[k] = Whole(S[k])
<1>1. S \in Seq(Seq(Bytes)) /\ \A k \in 1 .. Len(S) : Len(S[k]) \in Counts \ {0}
  BY DEF Messages
<1>2. Len(S) \in Nat /\ \A k \in 1 .. Len(S) : S[k] \in Seq(Bytes)
  BY <1>1
<1>3. \A k \in 1 .. Len(S) : Whole(S[k]) \in Seq(Bytes)
  BY <1>1, <1>2, WholeIs
<1>4. Counted(S) \in [1 .. Len(S) -> Seq(Bytes)]
  BY <1>3 DEF Counted
<1>5. Counted(S) \in Seq(Seq(Bytes)) /\ Len(Counted(S)) = Len(S)
  BY <1>2, <1>4, FunctionIsSeq
<1>6. \A k \in 1 .. Len(S) : Counted(S)[k] = Whole(S[k])
  BY DEF Counted
<1>. QED
  BY <1>1, <1>2, <1>5, <1>6

(* The messages as SLIP.                                                   *)
LEMMA SlippedIs ==
  ASSUME NEW S \in Messages
  PROVE  /\ Slipped(S) \in Seq(Seq(Bytes)) /\ Len(Slipped(S)) = Len(S)
         /\ \A k \in 1 .. Len(S) : Slipped(S)[k] = SlipFrom(S[k], 0)
<1>1. Len(S) \in Nat /\ \A k \in 1 .. Len(S) : S[k] \in Seq(Bytes)
  BY CountedIs
<1>2. ASSUME NEW k \in 1 .. Len(S)
      PROVE  /\ Stream!SlipEncode(S[k]) = SlipFrom(S[k], 0)
             /\ Stream!SlipEncode(S[k]) \in Seq(Bytes)
  <2>1. S[k] \in Seq(Bytes)
    BY <1>1
  <2>2. Stream!SlipEncode(S[k]) = SlipFrom(S[k], 0)
    BY <2>1, SlipFromIs
  <2>3. \A j \in 0 .. Len(S[k]) : SlipFrom(S[k], j) \in Seq(Bytes)
    BY <2>1, SlipFromIs
  <2>4. Len(S[k]) \in Nat /\ 0 \in 0 .. Len(S[k])
    BY <2>1
  <2>. QED
    BY <2>2, <2>3, <2>4
<1>3. Slipped(S) \in [1 .. Len(S) -> Seq(Bytes)]
  BY <1>2 DEF Slipped
<1>4. Slipped(S) \in Seq(Seq(Bytes)) /\ Len(Slipped(S)) = Len(S)
  BY <1>1, <1>3, FunctionIsSeq
<1>5. \A k \in 1 .. Len(S) : Slipped(S)[k] = SlipFrom(S[k], 0)
  BY <1>2 DEF Slipped
<1>. QED
  BY <1>4, <1>5

\* A buffer b, with w to come, that starts with a message behind its count.
Front(m, z, b, w) ==
  /\ m \in Seq(Bytes) /\ Len(m) \in Counts \ {0} /\ z \in Seq(Bytes)
  /\ b \in Seq(Bytes) /\ w \in Seq(Bytes) /\ b \o w = Whole(m) \o z

(* Its bytes.                                                              *)
LEMMA FrontCount ==
  ASSUME NEW m, NEW z, NEW b, NEW w, Front(m, z, b, w)
  PROVE  /\ Len(b) >= 4 => Stream!Count(SubSeq(b, 1, 4)) = Len(m)
         /\ Len(b) >= Len(m) + 4 => /\ SubSeq(b, 5, Len(m) + 4) = m
                                    /\ Suffix(b, Len(m) + 4) \in Seq(Bytes)
                                    /\ Len(Suffix(b, Len(m) + 4)) = Len(b) - (Len(m) + 4)
                                    /\ Suffix(b, Len(m) + 4) \o w = z
         /\ Len(b) < Len(m) + 4 \/ Len(b) >= Len(m) + 4
<1>. /\ m \in Seq(Bytes) /\ Len(m) \in Counts \ {0} /\ z \in Seq(Bytes)
     /\ b \in Seq(Bytes) /\ w \in Seq(Bytes) /\ b \o w = Whole(m) \o z
  BY DEF Front
<1> DEFINE h == Stream!Header(Len(m))
<1>1. /\ h \in Seq(Bytes) /\ Len(h) = 4 /\ Stream!Count(h) = Len(m) /\ Len(m) \in Nat
      /\ Whole(m) \in Seq(Bytes) /\ Len(Whole(m)) = Len(m) + 4 /\ Whole(m) = h \o m
  BY WholeIs DEF Whole
<1>. HIDE DEF h
<1>2. Len(b) \in Nat
  OBVIOUS
<1>3. ASSUME Len(b) >= 4 PROVE Stream!Count(SubSeq(b, 1, 4)) = Len(m)
  <2>1. m \o z \in Seq(Bytes)
    BY BytesConcat
  <2>5. h \in Seq(Bytes)
    BY <1>1
  <2>6. (h \o m) \o z = h \o (m \o z)
    BY <2>5, CatAssociative, Zenon
  <2>2. b \o w = h \o (m \o z)
    BY <1>1, <2>6, Zenon
  <2>4. Len(h) <= Len(b)
    BY <1>1, <1>3
  <2>3. SubSeq(b, 1, Len(h)) = h
    BY <2>1, <2>2, <2>4, <2>5, BytesSplit, Zenon
  <2>. QED
    BY <1>1, <2>3, Zenon
<1>4. ASSUME Len(b) >= Len(m) + 4
      PROVE  /\ SubSeq(b, 5, Len(m) + 4) = m
             /\ Suffix(b, Len(m) + 4) \in Seq(Bytes)
             /\ Len(Suffix(b, Len(m) + 4)) = Len(b) - (Len(m) + 4)
             /\ Suffix(b, Len(m) + 4) \o w = z
  <2> DEFINE u == Whole(m)
  <2>1. u \in Seq(Bytes) /\ Len(u) = Len(m) + 4 /\ Len(u) <= Len(b)
    BY <1>1, <1>4
  <2>. HIDE DEF u
  <2>8. u \in Seq(Bytes)
    BY <2>1
  <2>9. Len(u) <= Len(b)
    BY <2>1
  <2>2. b \o w = u \o z
    BY DEF u
  <2>10. SubSeq(b, 1, Len(u)) = u
    BY <2>2, <2>8, <2>9, BytesSplit, Zenon
  <2>11. Suffix(b, Len(u)) \in Seq(Bytes)
    BY <2>2, <2>8, <2>9, BytesSplit, Zenon
  <2>12. Suffix(b, Len(u)) \o w = z
    <3>1. Len(u) \in 0 .. Len(b)
      BY <2>8, <2>9
    <3>2. Suffix(b \o w, Len(u)) = Suffix(b, Len(u)) \o w
      BY <3>1, ConcatSuffix, Zenon
    <3>3. Suffix(u \o z, Len(u)) = z
      BY <2>8, ConcatEnds
    <3>. QED
      BY <2>2, <3>2, <3>3, Zenon
  <2>3. /\ SubSeq(b, 1, Len(u)) = u /\ Suffix(b, Len(u)) \in Seq(Bytes)
        /\ Suffix(b, Len(u)) \o w = z
    BY <2>10, <2>11, <2>12
  <2>4. Len(u) \in 0 .. Len(b)
    BY <1>1, <1>2, <2>1
  <2>5. Len(Suffix(b, Len(u))) = Len(b) - Len(u)
    BY <2>4, SuffixFacts
  <2>6. /\ \A k \in 1 .. Len(m) : u[Len(h) + k] = m[k]
    BY <1>1, ConcatIs DEF u
  <2>7. SubSeq(b, 5, Len(m) + 4) = m
    <3> DEFINE x == SubSeq(b, 5, Len(m) + 4)
    <3>1. x \in Seq(Bytes) /\ Len(x) = Len(m) /\ \A k \in 1 .. Len(m) : x[k] = b[4 + k]
      BY <1>1, <1>2, <1>4
    <3>2. \A k \in 1 .. Len(u) : SubSeq(b, 1, Len(u))[k] = b[k]
      BY <2>4
    <3>3. ASSUME NEW k \in 1 .. Len(m) PROVE x[k] = m[k]
      <4>1. 4 + k \in 1 .. Len(u)
        BY <1>1, <2>1
      <4>2. b[4 + k] = u[4 + k]
        BY <2>3, <3>2, <4>1, Zenon
      <4>. QED
        BY <1>1, <2>6, <3>1, <4>2
    <3>. HIDE DEF x
    <3>4. x = m
      BY <3>1, <3>3, SameSeq, Zenon
    <3>. QED
      BY <3>4 DEF x
  <2>. QED
    BY <2>1, <2>3, <2>5, <2>7, Zenon
<1>5. Len(b) < Len(m) + 4 \/ Len(b) >= Len(m) + 4
  BY <1>1, <1>2
<1>. QED
  BY <1>3, <1>4, <1>5, Zenon

(* The first byte of a sequence.                                           *)
LEMMA ConsEqual ==
  ASSUME NEW x \in Bytes, NEW y \in Bytes, NEW r \in Seq(Bytes), NEW s \in Seq(Bytes),
         <<x>> \o r = <<y>> \o s
  PROVE  x = y /\ r = s
<1>1. Head(<<x>> \o r) = x /\ Tail(<<x>> \o r) = r
  BY ConsFacts
<1>2. Head(<<y>> \o s) = y /\ Tail(<<y>> \o s) = s
  BY ConsFacts
<1>. QED
  BY <1>1, <1>2, Zenon

(* One byte more.                                                          *)
LEMMA AppendIs ==
  ASSUME NEW s \in Seq(Bytes), NEW x \in Bytes
  PROVE  /\ Append(s, x) = s \o <<x>> /\ Append(s, x) \in Seq(Bytes)
         /\ <<x>> \in Seq(Bytes) /\ <<>> \in Seq(Bytes)
         /\ s \o <<>> = s /\ <<>> \o s = s
  OBVIOUS

(* An element goes on behind a prefix of a sequence, which the next        *)
(* prefix is.                                                              *)
LEMMA PrefixAppend ==
  ASSUME NEW m \in Seq(Bytes), NEW j \in 0 .. Len(m) - 1
  PROVE  /\ Append(SubSeq(m, 1, j), m[j + 1]) = SubSeq(m, 1, j + 1)
         /\ SubSeq(m, 1, j) \in Seq(Bytes) /\ Len(SubSeq(m, 1, j)) = j
         /\ SubSeq(m, 1, j + 1) \in Seq(Bytes) /\ m[j + 1] \in Bytes
<1> DEFINE q == SubSeq(m, 1, j)
           x == m[j + 1]
<1>1. Len(m) \in Nat /\ j \in Nat /\ j + 1 \in 1 .. Len(m) /\ j \in 0 .. Len(m)
  OBVIOUS
<1>2. x \in Bytes
  BY <1>1
<1>3. q \in Seq(Bytes) /\ Len(q) = j /\ \A k \in 1 .. j : q[k] = m[k]
  BY <1>1
<1>4. /\ SubSeq(m, 1, j + 1) \in Seq(Bytes) /\ Len(SubSeq(m, 1, j + 1)) = j + 1
      /\ \A k \in 1 .. j + 1 : SubSeq(m, 1, j + 1)[k] = m[k]
  BY <1>1
<1>. HIDE DEF q, x
<1>5. /\ Append(q, x) \in Seq(Bytes) /\ Len(Append(q, x)) = j + 1
      /\ \A k \in 1 .. j : Append(q, x)[k] = q[k]
      /\ Append(q, x)[j + 1] = x
  BY <1>1, <1>2, <1>3
<1>6. \A k \in 1 .. j + 1 : Append(q, x)[k] = m[k]
  <2>1. \A k \in 1 .. j + 1 : k \in 1 .. j \/ k = j + 1
    BY <1>1
  <2>2. x = m[j + 1]
    BY DEF x
  <2>. QED
    BY <1>3, <1>5, <2>1, <2>2
<1>7. Append(q, x) = SubSeq(m, 1, j + 1)
  BY <1>1, <1>4, <1>5, <1>6, SameSeq
<1>. QED
  BY <1>2, <1>3, <1>4, <1>7 DEF q, x

(* The header that stands for a count that is not known yet.               *)
LEMMA EmptyHeader ==
  /\ Stream!Header(0) \in Seq(Bytes) /\ Len(Stream!Header(0)) = 4
  /\ Stream!Header(0)[1] = 0 /\ Stream!Count(Stream!Header(0)) = 0
<1>1. 0 \in Nat /\ 0 \in Counts
  BY SMT DEF Counts
<1>. QED
  BY <1>1, HeaderFacts

(* What a context is while a stream is read.                               *)
Context == [slip : {-1, 0, 1}, state : {0, 1}, buf : Seq(Bytes), msg : Int, size : Nat]

\* What is in the place of a count that is not known yet: a header of zeros,
\* or the first bytes of the stream.
Heads == {h \in Seq(Bytes) : Len(h) = 4 /\ (h = Stream!Header(0) \/ h[1] # 0)}
\* Whole messages, all behind their counts, and q of the next.
Holds(c, whole, q) ==
  /\ c \in Context /\ c.slip = 1 /\ c.msg = Len(whole)
  /\ \E h \in Heads : c.buf = whole \o (h \o q)

(* The header of zeros is one.                                             *)
LEMMA EmptyIsHead == Stream!Header(0) \in Heads
BY EmptyHeader DEF Heads

(* The end of a SLIP message: its count is known.                          *)
LEMMA EndMsgIs ==
  ASSUME NEW P \in Seq(Bytes), NEW m \in Seq(Bytes), Len(m) \in Counts \ {0},
         NEW c, Holds(c, P, m)
  PROVE  /\ Holds(Stream!EndMsg(c), P \o Whole(m), <<>>)
         /\ Stream!EndMsg(c).state = c.state /\ Stream!EndMsg(c).size = c.size
<1> DEFINE h == Stream!Header(Len(m))
           z == Stream!Header(0)
           b == c.buf
<1>1. /\ h \in Seq(Bytes) /\ Len(h) = 4 /\ Len(m) \in Nat
      /\ Whole(m) \in Seq(Bytes) /\ Len(Whole(m)) = Len(m) + 4 /\ Whole(m) = h \o m
  BY WholeIs DEF Whole
<1>2. z \in Seq(Bytes) /\ Len(z) = 4 /\ z \in Heads
  BY EmptyHeader, EmptyIsHead
<1>3a. PICK o \in Heads : b = P \o (o \o m)
  BY DEF Holds
<1>3. c \in Context /\ c.slip = 1 /\ b = P \o (o \o m) /\ c.msg = Len(P)
  BY <1>3a DEF Holds
<1>2a. o \in Seq(Bytes) /\ Len(o) = 4
  BY DEF Heads
<1>. HIDE DEF h, z, Heads
<1>4. /\ o \o m \in Seq(Bytes) /\ Len(o \o m) = Len(m) + 4
      /\ P \o (o \o m) \in Seq(Bytes) /\ Len(P \o (o \o m)) = Len(P) + (Len(m) + 4)
      /\ Len(P) \in Nat
  <2>1. o \o m \in Seq(Bytes) /\ Len(o \o m) = Len(o) + Len(m)
    BY <1>2a, BytesConcat, Zenon
  <2>2. /\ P \o (o \o m) \in Seq(Bytes) /\ Len(P \o (o \o m)) = Len(P) + Len(o \o m)
        /\ Len(P) \in Nat
    BY <2>1, BytesConcat
  <2>. QED
    BY <1>1, <1>2a, <2>1, <2>2
<1>5. SubSeq(b, 1, Len(P)) = P /\ Suffix(b, Len(P)) = o \o m
  BY <1>3, <1>4, ConcatEnds, Zenon
<1>6. Suffix(b, Len(P) + 4) = m
  <2>1. Suffix(o \o m, 4) = m
    BY <1>2a, ConcatEnds, Zenon
  <2>2. b \in Seq(Bytes) /\ Len(P) \in 0 .. Len(b) /\ 4 \in 0 .. Len(b) - Len(P)
    BY <1>1, <1>3, <1>4
  <2>3. Suffix(Suffix(b, Len(P)), 4) = Suffix(b, Len(P) + 4)
    BY <2>2, SuffixOfSuffix
  <2>. QED
    BY <1>5, <2>1, <2>3
<1>7. Len(b) - c.msg - 4 = Len(m)
  BY <1>1, <1>3, <1>4
<1>8. Stream!EndMsg(c) = [c EXCEPT !.buf = SubSeq(b, 1, Len(P)) \o h \o Suffix(b, Len(P) + 4) \o z,
                                   !.msg = @ + Len(m) + 4]
  BY <1>3, <1>7, Zenon DEF Stream!EndMsg, Stream!Drop, Suffix, h, z
<1>9. ((P \o h) \o m) \o z = (P \o Whole(m)) \o (z \o <<>>)
  <2>1. z \o <<>> = z
    BY <1>2
  <2>2. (P \o h) \o m = P \o (h \o m)
    BY <1>1, CatAssociative, Zenon
  <2>. QED
    BY <1>1, <2>1, <2>2, Zenon
<1>10. Stream!EndMsg(c) = [c EXCEPT !.buf = (P \o Whole(m)) \o (z \o <<>>), !.msg = @ + Len(m) + 4]
  BY <1>5, <1>6, <1>8, <1>9, Zenon
<1>11. (P \o Whole(m)) \o (z \o <<>>) \in Seq(Bytes) /\ Len(P \o Whole(m)) = Len(P) + Len(m) + 4
  <2>1. P \o Whole(m) \in Seq(Bytes) /\ Len(P \o Whole(m)) = Len(P) + Len(Whole(m))
    BY <1>1, BytesConcat, Zenon
  <2>2. z \o <<>> = z
    BY <1>2
  <2>3. (P \o Whole(m)) \o z \in Seq(Bytes)
    BY <1>2, <2>1, BytesConcat
  <2>. QED
    BY <1>1, <1>4, <2>1, <2>2, <2>3
<1>. HIDE DEF b
<1> DEFINE y == (P \o Whole(m)) \o (z \o <<>>)
           l == Len(m)
           e == [c EXCEPT !.buf = y, !.msg = @ + l + 4]
<1>12. y \in Seq(Bytes) /\ l \in Nat
  BY <1>1, <1>11
<1>. HIDE DEF y, l
<1>13. /\ e \in Context /\ e.slip = 1 /\ e.state = c.state /\ e.size = c.size /\ e.buf = y
       /\ e.msg = c.msg + l + 4
  <2>1. c.msg \in Int
    BY <1>3 DEF Context
  <2> DEFINE k == c.msg + l + 4
  <2>2. k \in Int
    BY <1>12, <2>1
  <2>3. e = [c EXCEPT !.buf = y, !.msg = k]
    BY <1>3 DEF Context
  <2>. HIDE DEF k, e
  <2>4. e \in Context
    BY <1>3, <1>12, <2>2, <2>3, Zenon DEF Context
  <2>5. e.slip = 1 /\ e.state = c.state /\ e.size = c.size /\ e.buf = y /\ e.msg = k
    BY <1>3, <2>3 DEF Context
  <2>. QED
    BY <2>4, <2>5 DEF k
<1>14. Holds(e, P \o Whole(m), <<>>)
  <2>1. e.buf = (P \o Whole(m)) \o (z \o <<>>)
    BY <1>13, Zenon DEF y
  <2>2. e.msg = Len(P \o Whole(m))
    BY <1>3, <1>11, <1>13 DEF l
  <2>. QED
    BY <1>2, <1>13, <2>1, <2>2, Zenon DEF Holds
<1>. QED
  BY <1>10, <1>13, <1>14 DEF y, l

(* One byte more in the buffer of a context.                               *)
LEMMA StoreByte ==
  ASSUME NEW P \in Seq(Bytes), NEW m \in Seq(Bytes), NEW j \in 0 .. Len(m) - 1,
         NEW c, Holds(c, P, SubSeq(m, 1, j))
  PROVE  LET e == [c EXCEPT !.buf = Append(@, m[j + 1]), !.state = 0]
         IN  Holds(e, P, SubSeq(m, 1, j + 1)) /\ e.state = 0
<1> DEFINE e == [c EXCEPT !.buf = Append(@, m[j + 1]), !.state = 0]
           q == SubSeq(m, 1, j)
           r == SubSeq(m, 1, j + 1)
           x == m[j + 1]
<1>1. q \in Seq(Bytes) /\ Append(q, x) = r /\ x \in Bytes /\ r \in Seq(Bytes)
  BY PrefixAppend
<1>3a. PICK z \in Heads : c.buf = P \o (z \o q)
  BY DEF Holds
<1>3. c \in Context /\ c.slip = 1 /\ c.buf = P \o (z \o q) /\ c.msg = Len(P)
  BY <1>3a DEF Holds
<1>2. z \in Seq(Bytes)
  BY DEF Heads
<1>. HIDE DEF q, r, x, Heads
<1>4. Append(P \o (z \o q), x) = P \o (z \o r)
  <2>1. z \o q \in Seq(Bytes)
    BY <1>1, <1>2, BytesConcat
  <2>2. P \o (z \o q) \in Seq(Bytes)
    BY <2>1, BytesConcat
  <2>3. Append(P \o (z \o q), x) = (P \o (z \o q)) \o <<x>> /\ <<x>> \in Seq(Bytes)
    BY <1>1, <2>2, AppendIs, Zenon
  <2>4. Append(q, x) = q \o <<x>>
    BY <1>1, AppendIs
  <2>5. (z \o q) \o <<x>> = z \o (q \o <<x>>)
    BY <1>1, <1>2, <2>3, CatAssociative, Zenon
  <2>6. (P \o (z \o q)) \o <<x>> = P \o ((z \o q) \o <<x>>)
    BY <2>1, <2>3, CatAssociative, Zenon
  <2>. QED
    BY <1>1, <2>3, <2>4, <2>5, <2>6, Zenon
<1>5. P \o (z \o r) \in Seq(Bytes)
  <2>1. z \o r \in Seq(Bytes)
    BY <1>1, <1>2, BytesConcat
  <2>. QED
    BY <2>1, BytesConcat
<1> DEFINE y == P \o (z \o r)
<1>6. e = [c EXCEPT !.buf = y, !.state = 0]
  <2>1. e = [c EXCEPT !.buf = Append(@, x), !.state = 0]
    BY DEF x
  <2>2. Append(c.buf, x) = y
    BY <1>3, <1>4, Zenon
  <2>. HIDE DEF y
  <2>. QED
    BY <2>1, <2>2
<1>7. y \in Seq(Bytes)
  BY <1>5
<1>. HIDE DEF y, e
<1>8. e \in Context
  BY <1>3, <1>6, <1>7, Zenon DEF Context
<1>9. e.slip = 1 /\ e.msg = c.msg /\ e.buf = y /\ e.state = 0
  BY <1>3, <1>6 DEF Context
<1>. QED
  BY <1>3, <1>8, <1>9, Zenon DEF Holds, y, r, e

\* In the middle of a SLIP message m: w is still to come of it and of z, what
\* is behind it.
Code(x) == IF x = Stream!END THEN Stream!ESC_END ELSE Stream!ESC_ESC
Special == {Stream!END, Stream!ESC}
Within(c, w, whole, m, j, z) ==
  /\ Holds(c, whole, SubSeq(m, 1, j)) /\ j \in 0 .. Len(m)
  /\ \/ c.state = 0 /\ w = SlipFrom(m, j) \o z
     \/ /\ c.state = 1 /\ j < Len(m) /\ m[j + 1] \in Special
        /\ w = <<Code(m[j + 1])>> \o (SlipFrom(m, j + 1) \o z)
\* At the end of one.
Behind(c, w, whole, z) == Holds(c, whole, <<>>) /\ c.state = 0 /\ w = z

(* slip_decode, byte by byte.                                              *)
LEMMA SlipBytesDiffer ==
  /\ Stream!END \in Bytes /\ Stream!ESC \in Bytes /\ Stream!ESC_END \in Bytes
  /\ Stream!ESC_ESC \in Bytes /\ Stream!END # Stream!ESC /\ Stream!ESC_END # Stream!ESC_ESC
  BY SMT DEF Stream!END, Stream!ESC, Stream!ESC_END, Stream!ESC_ESC, Bytes

(* slip_decode, the byte END outside an escape: the message ends, and the  *)
(* buffer may be doubled for the next.                                     *)
LEMMA DecodeEnd ==
  ASSUME NEW c, NEW left, c.state = 0
  PROVE  LET d == Stream!EndMsg(c)
         IN  \/ Stream!SlipDecode(c, Stream!END, left) = d
             \/ Stream!SlipDecode(c, Stream!END, left) = [d EXCEPT !.size = 2 * @]
  BY SlipBytesDiffer, SMT DEF Stream!SlipDecode

(* slip_decode, the byte ESC: the next byte is a code.                     *)
LEMMA DecodeEscape ==
  ASSUME NEW c, NEW left, c.state = 0
  PROVE  Stream!SlipDecode(c, Stream!ESC, left) = [c EXCEPT !.state = 1]
  BY SlipBytesDiffer, SMT DEF Stream!SlipDecode

(* slip_decode, any other byte: it is stored.                              *)
LEMMA DecodePlain ==
  ASSUME NEW c, NEW left, NEW b, c.state = 0, b \notin Special
  PROVE  Stream!SlipDecode(c, b, left) = [c EXCEPT !.buf = Append(@, b)]
  BY SlipBytesDiffer, SMT DEF Stream!SlipDecode, Special

(* slip_decode, a code behind an ESC: the byte that it stands for is       *)
(* stored.                                                                 *)
LEMMA DecodeCode ==
  ASSUME NEW c, NEW left, NEW x, c.state = 1, x \in Special
  PROVE  Stream!SlipDecode(c, Code(x), left) = [c EXCEPT !.buf = Append(@, x), !.state = 0]
<1>1. c.state # 0
  OBVIOUS
<1>2. CASE x = Stream!END
  <2>1. Code(x) = Stream!ESC_END
    BY <1>2 DEF Code
  <2>. QED
    BY <1>1, <1>2, <2>1, SlipBytesDiffer, SMT DEF Stream!SlipDecode
<1>3. CASE x = Stream!ESC
  <2>1. Code(x) = Stream!ESC_ESC
    BY <1>3, SlipBytesDiffer DEF Code
  <2>. QED
    BY <1>1, <1>3, <2>1, SlipBytesDiffer, SMT DEF Stream!SlipDecode
<1>. QED
  BY <1>2, <1>3 DEF Special

(* slip_decode reads one byte of a message.                                *)
LEMMA SlipDecodeIs ==
  ASSUME NEW P \in Seq(Bytes), NEW z \in Seq(Bytes), NEW m \in Seq(Bytes), Len(m) \in Counts \ {0},
         NEW j \in 0 .. Len(m), NEW b \in Bytes, NEW w \in Seq(Bytes), NEW left \in Nat,
         NEW c, Within(c, <<b>> \o w, P, m, j, z)
  PROVE  LET e == Stream!SlipDecode(c, b, left)
         IN  \/ Within(e, w, P, m, j, z) \/ Within(e, w, P, m, j + 1, z)
             \/ Behind(e, w, P \o Whole(m), z)
<1> DEFINE e == Stream!SlipDecode(c, b, left)
           x == m[j + 1]
           r == SlipFrom(m, j + 1) \o z
<1>1. /\ Stream!END \in Bytes /\ Stream!ESC \in Bytes /\ Stream!ESC_END \in Bytes
      /\ Stream!ESC_ESC \in Bytes /\ Stream!END # Stream!ESC /\ Stream!ESC_END # Stream!ESC_ESC
  BY SMT DEF Stream!END, Stream!ESC, Stream!ESC_END, Stream!ESC_ESC, Bytes
<1>2. Holds(c, P, SubSeq(m, 1, j)) /\ Len(m) \in Nat /\ c \in Context
  <2>1. Holds(c, P, SubSeq(m, 1, j))
    BY Zenon DEF Within
  <2>2. c \in Context
    BY <2>1, Zenon DEF Holds
  <2>3. Len(m) \in Nat
    OBVIOUS
  <2>. QED
    BY <2>1, <2>2, <2>3
<1>3. CASE j = Len(m)
  <2>1. c.state = 0 /\ <<b>> \o w = SlipFrom(m, j) \o z
    BY <1>2, <1>3 DEF Within
  <2>2. SlipFrom(m, j) = <<Stream!END>>
    BY <1>3, SlipFromIs
  <2>3. <<b>> \o w = <<Stream!END>> \o z
    BY <2>1, <2>2, Zenon
  <2>4. b = Stream!END /\ w = z
    BY <1>1, <2>3, ConsEqual, Zenon
  <2>5. SubSeq(m, 1, j) = m
    BY <1>3
  <2>6. Holds(c, P, m)
    BY <1>2, <2>5, Zenon
  <2> DEFINE d == Stream!EndMsg(c)
  <2>7. Holds(d, P \o Whole(m), <<>>) /\ d.state = 0
    BY <2>1, <2>6, EndMsgIs
  <2>8. e = d \/ e = [d EXCEPT !.size = 2 * @]
    <3>1. \/ Stream!SlipDecode(c, Stream!END, left) = d
          \/ Stream!SlipDecode(c, Stream!END, left) = [d EXCEPT !.size = 2 * @]
      BY <2>1, DecodeEnd
    <3>. QED
      BY <2>4, <3>1, Zenon
  <2>. HIDE DEF d, e
  <2>9. Holds(e, P \o Whole(m), <<>>) /\ e.state = 0
    <3>1. CASE e = d
      BY <2>7, <3>1, Zenon
    <3>2. CASE e = [d EXCEPT !.size = 2 * @]
      <4>1. d \in Context
        BY <2>7 DEF Holds
      <4>2. d.size \in Nat
        BY <4>1 DEF Context
      <4> DEFINE k == 2 * d.size
      <4>3. k \in Nat
        BY <4>2
      <4>4. e = [d EXCEPT !.size = k]
        BY <3>2, <4>1 DEF Context
      <4>. HIDE DEF k
      <4>5. e \in Context /\ e.slip = d.slip /\ e.state = d.state /\ e.buf = d.buf /\ e.msg = d.msg
        BY <4>1, <4>3, <4>4, Zenon DEF Context
      <4>. QED
        BY <2>7, <4>5, Zenon DEF Holds
    <3>. QED
      BY <2>8, <3>1, <3>2, Zenon
  <2>. QED
    BY <2>4, <2>9 DEF Behind, e
<1>4. CASE j < Len(m)
  <2>1. j \in 0 .. Len(m) - 1 /\ j + 1 \in 1 .. Len(m) /\ j + 1 \in 0 .. Len(m)
    BY <1>2, <1>4
  <2>2. x \in Bytes
    BY <2>1
  <2>3. /\ SlipFrom(m, j) = Stream!SlipByte(x) \o SlipFrom(m, j + 1)
        /\ SlipFrom(m, j + 1) \in Seq(Bytes)
    BY <2>1, SlipFromIs
  <2>4. r \in Seq(Bytes)
    BY <2>3, BytesConcat
  <2>5. Stream!SlipByte(x) \in Seq(Bytes)
    BY <2>2, SlipByteIs
  <2>6. SlipFrom(m, j) \o z = Stream!SlipByte(x) \o r
    <3>1. SlipFrom(m, j + 1) \in Seq(Bytes)
      BY <2>3
    <3>. QED
      BY <2>3, <2>5, <3>1, CatAssociative, SMTT(30)
  <2>7. Code(x) \in Bytes
    BY <1>1 DEF Code
  <2>. HIDE DEF x, r
  <2>8. CASE c.state = 0 /\ x \notin Special
    <3>1. <<b>> \o w = SlipFrom(m, j) \o z
      BY <2>8 DEF Within
    <3>2. Stream!SlipByte(x) = <<x>>
      BY <2>2, <2>8, SlipByteIs DEF Special
    <3>3. <<b>> \o w = <<x>> \o r
      BY <2>6, <3>1, <3>2, Zenon
    <3>4. b = x /\ w = r
      BY <2>2, <2>4, <3>3, ConsEqual, SMTT(30)
    <3>5. e = [c EXCEPT !.buf = Append(@, x)]
      <4>1. Stream!SlipDecode(c, x, left) = [c EXCEPT !.buf = Append(@, x)]
        BY <2>8, DecodePlain, Zenon
      <4>. QED
        BY <3>4, <4>1, Zenon
    <3>. HIDE DEF e
    <3>6. e = [c EXCEPT !.buf = Append(@, m[j + 1]), !.state = 0]
      BY <1>2, <2>8, <3>5, Zenon DEF Context, x
    <3>7. Holds(e, P, SubSeq(m, 1, j + 1)) /\ e.state = 0
      <4> DEFINE f == [c EXCEPT !.buf = Append(@, m[j + 1]), !.state = 0]
      <4>1. Holds(f, P, SubSeq(m, 1, j + 1)) /\ f.state = 0
        BY <1>2, <2>1, StoreByte, Zenon
      <4>. HIDE DEF f
      <4>2. e = f
        BY <3>6 DEF f
      <4>. QED
        BY <4>1, <4>2, Zenon
    <3>8. Within(e, w, P, m, j + 1, z)
      BY <2>1, <3>4, <3>7 DEF Within, r
    <3>. QED
      BY <3>8 DEF e
  <2>9. CASE c.state = 0 /\ x \in Special
    <3>1. <<b>> \o w = SlipFrom(m, j) \o z
      BY <2>9, <1>1 DEF Within
    <3>2. Stream!SlipByte(x) = <<Stream!ESC, Code(x)>>
      BY <1>1, <2>2, <2>9, SlipByteIs, Zenon DEF Special, Code
    <3>3. <<Stream!ESC, Code(x)>> \o r = <<Stream!ESC>> \o (<<Code(x)>> \o r)
      <4>1. <<Stream!ESC>> \in Seq(Bytes) /\ <<Code(x)>> \in Seq(Bytes)
        BY <1>1, <2>7, AppendIs
      <4>2. <<Stream!ESC, Code(x)>> = <<Stream!ESC>> \o <<Code(x)>>
        BY <1>1, <2>7
      <4>3. (<<Stream!ESC>> \o <<Code(x)>>) \o r = <<Stream!ESC>> \o (<<Code(x)>> \o r)
        BY <2>4, <4>1, CatAssociative
      <4>. QED
        BY <4>2, <4>3, Zenon
    <3>4. <<Code(x)>> \o r \in Seq(Bytes)
      BY <2>4, <2>7, ConsFacts
    <3>5. <<b>> \o w = <<Stream!ESC>> \o (<<Code(x)>> \o r)
      BY <2>6, <3>1, <3>2, <3>3, Zenon
    <3>6. b = Stream!ESC /\ w = <<Code(x)>> \o r
      <4>1. Stream!ESC \in Bytes
        BY <1>1
      <4> DEFINE s == <<Code(x)>> \o r
      <4>2. s \in Seq(Bytes)
        BY <3>4
      <4>4. <<b>> \o w = <<Stream!ESC>> \o s
        BY <3>5, Zenon
      <4>. HIDE DEF s
      <4>3. b = Stream!ESC /\ w = s
        BY <4>1, <4>2, <4>4, ConsEqual, SMTT(30)
      <4>. QED
        BY <4>3 DEF s
    <3>7. e = [c EXCEPT !.state = 1]
      <4>1. Stream!SlipDecode(c, Stream!ESC, left) = [c EXCEPT !.state = 1]
        BY <2>9, DecodeEscape
      <4>. QED
        BY <3>6, <4>1, Zenon
    <3>. HIDE DEF e
    <3>8. /\ e \in Context /\ e.slip = c.slip /\ e.state = 1 /\ e.buf = c.buf /\ e.msg = c.msg
      BY <1>2, <3>7, Zenon DEF Context
    <3>9. Holds(e, P, SubSeq(m, 1, j))
      BY <1>2, <3>8, Zenon DEF Holds
    <3>10. Within(e, w, P, m, j, z)
      BY <1>4, <2>9, <3>6, <3>8, <3>9 DEF Within, r, x
    <3>. QED
      BY <3>10 DEF e
  <2>10. CASE c.state = 1
    <3>1. x \in Special /\ <<b>> \o w = <<Code(x)>> \o r
      <4>1. c.state # 0
        BY <2>10
      <4>. QED
        BY <4>1, Zenon DEF Within, x, r
    <3>2. b = Code(x) /\ w = r
      BY <2>4, <2>7, <3>1, ConsEqual, SMTT(30)
    <3>3. e = [c EXCEPT !.buf = Append(@, x), !.state = 0]
      <4>1. Stream!SlipDecode(c, Code(x), left) = [c EXCEPT !.buf = Append(@, x), !.state = 0]
        BY <2>10, <3>1, DecodeCode, Zenon
      <4>. QED
        BY <3>2, <4>1, Zenon
    <3>. HIDE DEF e
    <3>4. e = [c EXCEPT !.buf = Append(@, m[j + 1]), !.state = 0]
      BY <3>3 DEF x
    <3>5. Holds(e, P, SubSeq(m, 1, j + 1)) /\ e.state = 0
      <4> DEFINE f == [c EXCEPT !.buf = Append(@, m[j + 1]), !.state = 0]
      <4>1. Holds(f, P, SubSeq(m, 1, j + 1)) /\ f.state = 0
        BY <1>2, <2>1, StoreByte, Zenon
      <4>. HIDE DEF f
      <4>2. e = f
        BY <3>4 DEF f
      <4>. QED
        BY <4>1, <4>2, Zenon
    <3>6. Within(e, w, P, m, j + 1, z)
      BY <2>1, <3>2, <3>5 DEF Within, r
    <3>. QED
      BY <3>6 DEF e
  <2>11. c.state \in {0, 1}
    BY <1>2 DEF Context
  <2>. QED
    BY <2>8, <2>9, <2>10, <2>11
<1>. QED
  BY <1>2, <1>3, <1>4

\* A context of a SLIP stream of which d messages were dispatched, and of the
\* N that were sent the bytes w are still to come: n are whole in the buffer.
SlipAt(c, w, S, d, N, n) ==
  \/ Behind(c, w, Cat(Counted(S), d, n), Cat(Slipped(S), n, N))
  \/ n < N /\ \E j \in 0 .. Len(S[n + 1]) :
                Within(c, w, Cat(Counted(S), d, n), S[n + 1], j, Cat(Slipped(S), n + 1, N))
SlipKept(c, w, S, d, N) == \E n \in d .. N : SlipAt(c, w, S, d, N, n)

(* What goes before and behind a message on a stream.                      *)
LEMMA CatIs ==
  ASSUME NEW S \in Messages, NEW N \in 0 .. Len(S), NEW d \in 0 .. N, NEW n \in d .. N
  PROVE  /\ Cat(Counted(S), d, n) \in Seq(Bytes) /\ Cat(Slipped(S), n, N) \in Seq(Bytes)
         /\ Cat(Counted(S), n, N) \in Seq(Bytes)
         /\ Cat(Counted(S), n, n) = <<>> /\ Cat(Slipped(S), n, n) = <<>>
         /\ n < N => /\ Cat(Counted(S), d, n + 1) = Cat(Counted(S), d, n) \o Whole(S[n + 1])
                     /\ Cat(Counted(S), n, N) = Whole(S[n + 1]) \o Cat(Counted(S), n + 1, N)
                     /\ Cat(Slipped(S), n, N) = SlipFrom(S[n + 1], 0) \o Cat(Slipped(S), n + 1, N)
                     /\ Cat(Slipped(S), n + 1, N) \in Seq(Bytes)
                     /\ Cat(Counted(S), n + 1, N) \in Seq(Bytes)
                     /\ S[n + 1] \in Seq(Bytes) /\ Len(S[n + 1]) \in Counts \ {0}
<1> DEFINE xs == Counted(S)
           ys == Slipped(S)
<1>1. /\ xs \in Seq(Seq(Bytes)) /\ Len(xs) = Len(S) /\ Len(S) \in Nat
      /\ \A k \in 1 .. Len(S) : xs[k] = Whole(S[k]) /\ S[k] \in Seq(Bytes)
                                /\ Len(S[k]) \in Counts \ {0}
  BY CountedIs
<1>2. /\ ys \in Seq(Seq(Bytes)) /\ Len(ys) = Len(S)
      /\ \A k \in 1 .. Len(S) : ys[k] = SlipFrom(S[k], 0)
  BY SlippedIs
<1>. HIDE DEF xs, ys
<1>3. /\ d \in 0 .. Len(S) /\ n \in 0 .. Len(S) /\ n \in d .. Len(S) /\ N \in n .. Len(S)
      /\ n \in n .. Len(S)
  BY <1>1
<1>4. d \in 0 .. Len(xs) /\ n \in 0 .. Len(xs) /\ n \in 0 .. Len(ys)
  BY <1>1, <1>2, <1>3
<1>5. /\ \A b \in d .. Len(S) : Cat(xs, d, b) \in Seq(Bytes)
      /\ \A b \in d .. Len(S) - 1 : Cat(xs, d, b + 1) = Cat(xs, d, b) \o xs[b + 1]
  BY <1>1, <1>4, CatLast, Zenon
<1>6. Cat(xs, n, n) = <<>> /\ \A b \in n .. Len(S) : Cat(xs, n, b) \in Seq(Bytes)
  BY <1>1, <1>4, CatLast
<1>7. Cat(ys, n, n) = <<>> /\ \A b \in n .. Len(S) : Cat(ys, n, b) \in Seq(Bytes)
  BY <1>2, <1>4, CatLast
<1>8. /\ Cat(xs, d, n) \in Seq(Bytes) /\ Cat(ys, n, N) \in Seq(Bytes)
      /\ Cat(xs, n, N) \in Seq(Bytes)
  BY <1>3, <1>5, <1>6, <1>7
<1>9. ASSUME n < N
      PROVE  /\ Cat(xs, d, n + 1) = Cat(xs, d, n) \o Whole(S[n + 1])
             /\ Cat(xs, n, N) = Whole(S[n + 1]) \o Cat(xs, n + 1, N)
             /\ Cat(ys, n, N) = SlipFrom(S[n + 1], 0) \o Cat(ys, n + 1, N)
             /\ Cat(ys, n + 1, N) \in Seq(Bytes) /\ Cat(xs, n + 1, N) \in Seq(Bytes)
             /\ S[n + 1] \in Seq(Bytes) /\ Len(S[n + 1]) \in Counts \ {0}
  <2>1. /\ n \in d .. Len(S) - 1 /\ n + 1 \in 1 .. Len(S) /\ n + 1 \in 0 .. Len(S)
        /\ n \in 0 .. Len(S) - 1 /\ N \in n + 1 .. Len(S)
    BY <1>1, <1>3, <1>9
  <2>2. Cat(xs, n, N) = xs[n + 1] \o Cat(xs, n + 1, N)
    <3>1. n \in 0 .. Len(xs) - 1 /\ N \in n + 1 .. Len(xs)
      BY <1>1, <2>1
    <3>. QED
      BY <1>1, <3>1, CatFirst, Zenon
  <2>3. Cat(ys, n, N) = ys[n + 1] \o Cat(ys, n + 1, N)
    <3>1. n \in 0 .. Len(ys) - 1 /\ N \in n + 1 .. Len(ys)
      BY <1>2, <2>1
    <3>. QED
      BY <1>2, <3>1, CatFirst, Zenon
  <2>4. \A b \in n + 1 .. Len(S) : Cat(xs, n + 1, b) \in Seq(Bytes)
    <3>1. n + 1 \in 0 .. Len(xs)
      BY <1>1, <2>1
    <3>. QED
      BY <1>1, <3>1, CatLast
  <2>5. \A b \in n + 1 .. Len(S) : Cat(ys, n + 1, b) \in Seq(Bytes)
    <3>1. n + 1 \in 0 .. Len(ys)
      BY <1>2, <2>1
    <3>. QED
      BY <1>2, <3>1, CatLast
  <2>6. /\ xs[n + 1] = Whole(S[n + 1]) /\ ys[n + 1] = SlipFrom(S[n + 1], 0)
        /\ S[n + 1] \in Seq(Bytes) /\ Len(S[n + 1]) \in Counts \ {0}
    BY <1>1, <1>2, <2>1
  <2>7. Cat(xs, d, n + 1) = Cat(xs, d, n) \o xs[n + 1]
    BY <1>5, <2>1
  <2>8. Cat(ys, n + 1, N) \in Seq(Bytes) /\ Cat(xs, n + 1, N) \in Seq(Bytes)
    BY <2>1, <2>4, <2>5
  <2>. QED
    BY <2>2, <2>3, <2>6, <2>7, <2>8, Zenon
<1>. QED
  BY <1>6, <1>7, <1>8, <1>9, Zenon DEF xs, ys

(* The first of the messages that are in a buffer.                         *)
LEMMA CatFront ==
  ASSUME NEW S \in Messages, NEW n \in 0 .. Len(S), NEW d \in 0 .. n, d < n
  PROVE  /\ Cat(Counted(S), d, n) = Whole(S[d + 1]) \o Cat(Counted(S), d + 1, n)
         /\ Cat(Counted(S), d + 1, n) \in Seq(Bytes)
         /\ S[d + 1] \in Seq(Bytes) /\ Len(S[d + 1]) \in Counts \ {0}
<1> DEFINE xs == Counted(S)
<1>1. /\ xs \in Seq(Seq(Bytes)) /\ Len(xs) = Len(S) /\ Len(S) \in Nat
      /\ \A k \in 1 .. Len(S) : xs[k] = Whole(S[k]) /\ S[k] \in Seq(Bytes)
                                /\ Len(S[k]) \in Counts \ {0}
  BY CountedIs
<1>. HIDE DEF xs
<1>2. /\ d + 1 \in 1 .. Len(S) /\ d \in 0 .. Len(xs) - 1 /\ n \in d + 1 .. Len(xs)
      /\ d + 1 \in 0 .. Len(xs)
  BY <1>1
<1>3. Cat(xs, d, n) = xs[d + 1] \o Cat(xs, d + 1, n)
  BY <1>1, <1>2, CatFirst
<1>4. Cat(xs, d + 1, n) \in Seq(Bytes)
  BY <1>1, <1>2, CatLast
<1>5. xs[d + 1] = Whole(S[d + 1]) /\ S[d + 1] \in Seq(Bytes) /\ Len(S[d + 1]) \in Counts \ {0}
  BY <1>1, <1>2
<1>. QED
  BY <1>3, <1>4, <1>5, Zenon DEF xs

(* The SLIP codes of the messages to come, with the next one first.       *)
LEMMA SlippedFront ==
  ASSUME NEW S \in Messages, NEW N \in 0 .. Len(S), NEW n \in 0 .. N, n < N
  PROVE  /\ Cat(Slipped(S), n, N) = SlipFrom(S[n + 1], 0) \o Cat(Slipped(S), n + 1, N)
         /\ S[n + 1] \in Seq(Bytes) /\ Cat(Slipped(S), n + 1, N) \in Seq(Bytes)
<1> DEFINE ys == Slipped(S)
<1>1. /\ ys \in Seq(Seq(Bytes)) /\ Len(ys) = Len(S) /\ Len(S) \in Nat
      /\ \A k \in 1 .. Len(S) : ys[k] = SlipFrom(S[k], 0) /\ S[k] \in Seq(Bytes)
  BY CountedIs, SlippedIs
<1>. HIDE DEF ys
<1>2. /\ n + 1 \in 1 .. Len(S) /\ n \in 0 .. Len(ys) - 1 /\ N \in n + 1 .. Len(ys)
      /\ n + 1 \in 0 .. Len(ys)
  BY <1>1
<1>3. Cat(ys, n, N) = ys[n + 1] \o Cat(ys, n + 1, N)
  BY <1>1, <1>2, CatFirst
<1>4. Cat(ys, n + 1, N) \in Seq(Bytes)
  BY <1>1, <1>2, CatLast
<1>5. ys[n + 1] = SlipFrom(S[n + 1], 0) /\ S[n + 1] \in Seq(Bytes)
  BY <1>1, <1>2
<1>. QED
  BY <1>3, <1>4, <1>5, Zenon DEF ys

(* The messages that are in a buffer, with one message more.               *)
LEMMA CatBack ==
  ASSUME NEW S \in Messages, NEW n \in 0 .. Len(S), NEW d \in 0 .. n, n < Len(S)
  PROVE  /\ Cat(Counted(S), d, n + 1) = Cat(Counted(S), d, n) \o Whole(S[n + 1])
         /\ Cat(Counted(S), d, n) \in Seq(Bytes)
         /\ S[n + 1] \in Seq(Bytes) /\ Len(S[n + 1]) \in Counts \ {0}
<1> DEFINE xs == Counted(S)
<1>1. /\ xs \in Seq(Seq(Bytes)) /\ Len(xs) = Len(S) /\ Len(S) \in Nat
      /\ \A k \in 1 .. Len(S) : xs[k] = Whole(S[k]) /\ S[k] \in Seq(Bytes)
                                /\ Len(S[k]) \in Counts \ {0}
  BY CountedIs
<1>. HIDE DEF xs
<1>2. n + 1 \in 1 .. Len(S) /\ d \in 0 .. Len(xs) /\ n \in d .. Len(S) /\ n \in d .. Len(S) - 1
  BY <1>1
<1>3. /\ \A b \in d .. Len(S) : Cat(xs, d, b) \in Seq(Bytes)
      /\ \A b \in d .. Len(S) - 1 : Cat(xs, d, b + 1) = Cat(xs, d, b) \o xs[b + 1]
  BY <1>1, <1>2, CatLast, Zenon
<1>4. Cat(xs, d, n + 1) = Cat(xs, d, n) \o xs[n + 1]
  BY <1>2, <1>3
<1>5. Cat(xs, d, n) \in Seq(Bytes)
  BY <1>2, <1>3
<1>6. xs[n + 1] = Whole(S[n + 1]) /\ S[n + 1] \in Seq(Bytes) /\ Len(S[n + 1]) \in Counts \ {0}
  BY <1>1, <1>2
<1>. QED
  BY <1>4, <1>5, <1>6, Zenon DEF xs

(* No message, no bytes.                                                   *)
LEMMA CatNone ==
  ASSUME NEW S \in Messages, NEW n \in 0 .. Len(S)
  PROVE  Cat(Counted(S), n, n) = <<>> /\ Cat(Slipped(S), n, n) = <<>>
<1> DEFINE xs == Counted(S)
           ys == Slipped(S)
<1>1. xs \in Seq(Seq(Bytes)) /\ Len(xs) = Len(S)
  BY CountedIs
<1>2. ys \in Seq(Seq(Bytes)) /\ Len(ys) = Len(S)
  BY SlippedIs
<1>. HIDE DEF xs, ys
<1>3. n \in 0 .. Len(xs) /\ n \in 0 .. Len(ys)
  BY <1>1, <1>2
<1>4. Cat(xs, n, n) = <<>>
  BY <1>1, <1>3, CatLast, Zenon
<1>5. Cat(ys, n, n) = <<>>
  BY <1>2, <1>3, CatLast, Zenon
<1>. QED
  BY <1>4, <1>5, Zenon DEF xs, ys

(* Behind a message with more to come is at the start of the next.         *)
LEMMA NextMessage ==
  ASSUME NEW S \in Messages, NEW N \in 0 .. Len(S), NEW d \in 0 .. N, NEW n \in d .. N,
         n < N, NEW c, NEW w, Behind(c, w, Cat(Counted(S), d, n), Cat(Slipped(S), n, N))
  PROVE  Within(c, w, Cat(Counted(S), d, n), S[n + 1], 0, Cat(Slipped(S), n + 1, N))
<1> DEFINE m == S[n + 1]
           P == Cat(Counted(S), d, n)
           z == Cat(Slipped(S), n + 1, N)
<1>1. Cat(Slipped(S), n, N) = SlipFrom(m, 0) \o z /\ m \in Seq(Bytes)
  <2>1. n \in 0 .. N
    OBVIOUS
  <2>. QED
    BY <2>1, SlippedFront
<1>2. Holds(c, P, <<>>) /\ c.state = 0 /\ w = SlipFrom(m, 0) \o z
  BY <1>1, Zenon DEF Behind
<1>. HIDE DEF m, P, z
<1>3. SubSeq(m, 1, 0) = <<>> /\ 0 \in 0 .. Len(m)
  BY <1>1
<1>4. Within(c, w, P, m, 0, z)
  BY <1>2, <1>3, Zenon DEF Within
<1>. QED
  BY <1>4 DEF m, P, z

(* slip_decode keeps to the stream.                                        *)
LEMMA SlipDecodeKeeps ==
  ASSUME NEW S \in Messages, NEW N \in 0 .. Len(S), NEW d \in 0 .. N,
         NEW b \in Bytes, NEW w \in Seq(Bytes), NEW left \in Nat,
         NEW c, SlipKept(c, <<b>> \o w, S, d, N)
  PROVE  SlipKept(Stream!SlipDecode(c, b, left), w, S, d, N)
<1> DEFINE e == Stream!SlipDecode(c, b, left)
<1>1. PICK n \in d .. N : SlipAt(c, <<b>> \o w, S, d, N, n)
  BY DEF SlipKept
<1> DEFINE m == S[n + 1]
           P == Cat(Counted(S), d, n)
           z == Cat(Slipped(S), n + 1, N)
<1>2. n < N
  <2>1. CASE n = N
    <3>1. Behind(c, <<b>> \o w, P, Cat(Slipped(S), n, N))
      BY <1>1, <2>1 DEF SlipAt
    <3>2. <<b>> \o w = <<>>
      <4>1. Cat(Slipped(S), n, n) = <<>>
        BY <2>1, CatNone, Zenon
      <4>. QED
        BY <2>1, <3>1, <4>1, Zenon DEF Behind
    <3>. QED
      BY <3>2, ConsFacts
  <2>. QED
    BY <2>1
<1>3. PICK j \in 0 .. Len(m) : Within(c, <<b>> \o w, P, m, j, z)
  <2>1. CASE Behind(c, <<b>> \o w, P, Cat(Slipped(S), n, N))
    <3>1. Within(c, <<b>> \o w, P, m, 0, z)
      BY <1>2, <2>1, NextMessage
    <3>2. 0 \in 0 .. Len(m)
      BY <3>1 DEF Within
    <3>. QED
      BY <3>1, <3>2
  <2>. QED
    BY <1>1, <2>1 DEF SlipAt
<1>4. /\ m \in Seq(Bytes) /\ Len(m) \in Counts \ {0} /\ P \in Seq(Bytes) /\ z \in Seq(Bytes)
      /\ Cat(Counted(S), d, n + 1) = P \o Whole(m)
  <2>1. n \in 0 .. N /\ n \in 0 .. Len(S) /\ d \in 0 .. n /\ n < Len(S)
    BY <1>2
  <2>2. z \in Seq(Bytes)
    BY <1>2, <2>1, SlippedFront, Zenon
  <2>3. /\ Cat(Counted(S), d, n + 1) = P \o Whole(m) /\ P \in Seq(Bytes)
        /\ m \in Seq(Bytes) /\ Len(m) \in Counts \ {0}
    BY <2>1, CatBack, Zenon
  <2>. QED
    BY <2>2, <2>3, Zenon
<1>. HIDE DEF m, P, z
<1>5. \/ Within(e, w, P, m, j, z) \/ Within(e, w, P, m, j + 1, z)
      \/ Behind(e, w, P \o Whole(m), z)
  BY <1>3, <1>4, SlipDecodeIs, Zenon
<1>. HIDE DEF e
<1>6. ASSUME NEW k, Within(e, w, P, m, k, z) PROVE SlipKept(e, w, S, d, N)
  <2>1. k \in 0 .. Len(m)
    BY <1>6 DEF Within
  <2>2. SlipAt(e, w, S, d, N, n)
    BY <1>2, <1>6, <2>1 DEF SlipAt, m, P, z
  <2>. QED
    BY <2>2 DEF SlipKept
<1>7. ASSUME Behind(e, w, P \o Whole(m), z) PROVE SlipKept(e, w, S, d, N)
  <2>1. Behind(e, w, Cat(Counted(S), d, n + 1), Cat(Slipped(S), n + 1, N))
    BY <1>4, <1>7, Zenon DEF z
  <2>2. n + 1 \in d .. N
    BY <1>2
  <2>3. SlipAt(e, w, S, d, N, n + 1)
    BY <2>1, Zenon DEF SlipAt
  <2>. QED
    BY <2>2, <2>3 DEF SlipKept
<1>. QED
  BY <1>5, <1>6, <1>7 DEF e

(* It keeps the context what it is.                                        *)
LEMMA SlipKeptContext ==
  ASSUME NEW S, NEW N, NEW d, NEW c, NEW w, SlipKept(c, w, S, d, N)
  PROVE  c \in Context /\ c.slip = 1
  BY Zenon DEF SlipKept, SlipAt, Behind, Within, Holds

(* The next byte of a sequence with another behind it.                     *)
LEMMA SuffixCons ==
  ASSUME NEW s \in Seq(Bytes), NEW v \in Seq(Bytes), NEW k \in 0 .. Len(s) - 1
  PROVE  /\ Suffix(s, k) \o v = <<s[k + 1]>> \o (Suffix(s, k + 1) \o v)
         /\ s[k + 1] \in Bytes /\ Suffix(s, k + 1) \o v \in Seq(Bytes)
<1>1. k \in 0 .. Len(s) /\ k + 1 \in 0 .. Len(s) /\ k + 1 \in 1 .. Len(s) /\ Len(s) \in Nat
      /\ 1 \in 0 .. Len(s) - k /\ 1 \in 1 .. Len(s) - k
  OBVIOUS
<1> DEFINE t == Suffix(s, k)
           x == s[k + 1]
<1>2. t \in Seq(Bytes) /\ Len(t) = Len(s) - k /\ t[1] = x
  BY <1>1, SuffixFacts
<1>3. Suffix(t, 1) = Suffix(s, k + 1)
  BY <1>1, SuffixOfSuffix
<1>4. x \in Bytes
  BY <1>1
<1>5. Suffix(s, k + 1) \in Seq(Bytes)
  BY <1>1, SuffixFacts
<1>. HIDE DEF t, x
<1>6. 1 \in 0 .. Len(t)
  BY <1>1, <1>2
<1>7. SubSeq(t, 1, 1) \o Suffix(t, 1) = t
  BY <1>2, <1>6, TakeDrop
<1>8. SubSeq(t, 1, 1) = <<t[1]>>
  BY <1>2, <1>6, PrefixIs
<1>9. t = <<x>> \o Suffix(s, k + 1)
  BY <1>2, <1>3, <1>7, <1>8, Zenon
<1>10. <<x>> \in Seq(Bytes)
  BY <1>4
<1>11. (<<x>> \o Suffix(s, k + 1)) \o v = <<x>> \o (Suffix(s, k + 1) \o v)
  BY <1>5, <1>10, CatAssociative
<1>12. Suffix(s, k + 1) \o v \in Seq(Bytes)
  BY <1>5, BytesConcat
<1>. QED
  BY <1>4, <1>9, <1>11, <1>12, Zenon DEF t, x

(* Something comes of every byte and of the end of a SLIP message.         *)
LEMMA SlipFromSome ==
  ASSUME NEW m \in Seq(Bytes), NEW j \in 0 .. Len(m), NEW z \in Seq(Bytes)
  PROVE  /\ SlipFrom(m, j) \in Seq(Bytes) /\ SlipFrom(m, j) \o z \in Seq(Bytes)
         /\ SlipFrom(m, j) \o z # <<>>
<1>1. SlipFrom(m, j) \in Seq(Bytes)
  BY SlipFromIs
<1>2. Len(SlipFrom(m, j)) > 0
  <2>1. CASE j = Len(m)
    <3>1. SlipFrom(m, j) = <<Stream!END>>
      BY <2>1, SlipFromIs
    <3>. QED
      BY <3>1
  <2>2. CASE j # Len(m)
    <3>1. j \in 0 .. Len(m) - 1 /\ j + 1 \in 0 .. Len(m) /\ j + 1 \in 1 .. Len(m)
      BY <2>2
    <3>2. /\ SlipFrom(m, j) = Stream!SlipByte(m[j + 1]) \o SlipFrom(m, j + 1)
          /\ SlipFrom(m, j + 1) \in Seq(Bytes)
      BY <3>1, SlipFromIs
    <3> DEFINE x == m[j + 1]
               b == Stream!SlipByte(x)
    <3>3. x \in Bytes
      BY <3>1
    <3>. HIDE DEF x
    <3>4. /\ b \in Seq(Bytes)
          /\ x \notin {Stream!END, Stream!ESC} => b = <<x>>
          /\ x = Stream!END => b = <<Stream!ESC, Stream!ESC_END>>
          /\ x = Stream!ESC => b = <<Stream!ESC, Stream!ESC_ESC>>
      BY <3>3, SlipByteIs
    <3>. HIDE DEF b
    <3>5. Len(b) > 0
      <4>1. Len(<<x>>) = 1
        OBVIOUS
      <4>2. \A u, v : Len(<<u, v>>) = 2
        OBVIOUS
      <4>3. CASE x = Stream!END
        <5>1. b = <<Stream!ESC, Stream!ESC_END>>
          BY <3>4, <4>3, Zenon
        <5>2. Len(b) = 2
          BY <4>2, <5>1, Zenon
        <5>. QED
          BY <5>2
      <4>4. CASE x = Stream!ESC
        <5>1. b = <<Stream!ESC, Stream!ESC_ESC>>
          BY <3>4, <4>4, Zenon
        <5>2. Len(b) = 2
          BY <4>2, <5>1, Zenon
        <5>. QED
          BY <5>2
      <4>5. CASE x \notin {Stream!END, Stream!ESC}
        <5>1. b = <<x>>
          BY <3>4, <4>5, Zenon
        <5>2. Len(b) = 1
          BY <4>1, <5>1, Zenon
        <5>. QED
          BY <5>2
      <4>. QED
        BY <4>3, <4>4, <4>5
    <3>6. Len(b \o SlipFrom(m, j + 1)) = Len(b) + Len(SlipFrom(m, j + 1))
          /\ Len(SlipFrom(m, j + 1)) \in Nat /\ Len(b) \in Nat
      BY <3>2, <3>4, BytesConcat
    <3>7. SlipFrom(m, j) = b \o SlipFrom(m, j + 1)
      BY <3>2 DEF b, x
    <3>. QED
      BY <3>5, <3>6, <3>7
  <2>. QED
    BY <2>1, <2>2
<1>3. /\ SlipFrom(m, j) \o z \in Seq(Bytes)
      /\ Len(SlipFrom(m, j) \o z) = Len(SlipFrom(m, j)) + Len(z) /\ Len(z) \in Nat
      /\ Len(SlipFrom(m, j)) \in Nat
  BY <1>1, BytesConcat
<1>4. Len(SlipFrom(m, j) \o z) > 0
  BY <1>2, <1>3
<1>5. SlipFrom(m, j) \o z # <<>>
  BY <1>4
<1>. QED
  BY <1>1, <1>3, <1>5

(* Behind an ESC comes a code.                                             *)
LEMMA CodeNext ==
  ASSUME NEW S \in Messages, NEW N \in 0 .. Len(S), NEW d \in 0 .. N,
         NEW b \in Bytes, NEW w \in Seq(Bytes),
         NEW c, SlipKept(c, <<b>> \o w, S, d, N), c.state = 1
  PROVE  b \in {Stream!ESC_END, Stream!ESC_ESC}
<1>1. PICK n \in d .. N : SlipAt(c, <<b>> \o w, S, d, N, n)
  BY DEF SlipKept
<1>2. PICK j \in 0 .. Len(S[n + 1]) :
        /\ n < N
        /\ Within(c, <<b>> \o w, Cat(Counted(S), d, n), S[n + 1], j, Cat(Slipped(S), n + 1, N))
  BY <1>1 DEF SlipAt, Behind
<1> DEFINE m == S[n + 1]
           z == Cat(Slipped(S), n + 1, N)
           r == SlipFrom(m, j + 1) \o z
<1>3. j < Len(m) /\ <<b>> \o w = <<Code(m[j + 1])>> \o r
  <2>1. c.state # 0
    OBVIOUS
  <2>. QED
    BY <1>2, <2>1, Zenon DEF Within
<1>4. m \in Seq(Bytes) /\ z \in Seq(Bytes)
  <2>1. n \in 0 .. N
    OBVIOUS
  <2>. QED
    BY <1>2, <2>1, SlippedFront
<1>5. r \in Seq(Bytes)
  <2>1. j + 1 \in 0 .. Len(m)
    BY <1>3
  <2>. HIDE DEF m, z
  <2>. QED
    BY <1>4, <2>1, SlipFromSome
<1>6. Code(m[j + 1]) \in Bytes /\ Code(m[j + 1]) \in {Stream!ESC_END, Stream!ESC_ESC}
  BY SlipBytesDiffer DEF Code
<1>. HIDE DEF m, r
<1>7. b = Code(m[j + 1])
  BY <1>3, <1>5, <1>6, ConsEqual, Zenon
<1>. QED
  BY <1>6, <1>7, Zenon

\* What the loop of slip_decode passes from turn to turn, while the bytes make
\* sense.
Decoded == [sc : Context, late : {0}]
(* One turn keeps to the stream, and nothing is read again.                *)
LEMMA SlipTurnKeeps ==
  ASSUME NEW S \in Messages, NEW N \in 0 .. Len(S), NEW d \in 0 .. N,
         NEW bytes, NEW k \in Nat, Len(bytes) - k \in Nat, bytes[k] \in Bytes,
         NEW w \in Seq(Bytes),
         NEW y \in Decoded, SlipKept(y.sc, <<bytes[k]>> \o w, S, d, N)
  PROVE  /\ Stream!SlipTurn(y, bytes, k) \in Decoded
         /\ SlipKept(Stream!SlipTurn(y, bytes, k).sc, w, S, d, N)
<1> DEFINE b == bytes[k]
           c == y.sc
           e == Stream!SlipDecode(c, b, Len(bytes) - k)
<1>1. y.late = 0 /\ c \in Context /\ c.state \in {0, 1}
  BY DEF Decoded, Context
<1>2. k - y.late = k
  BY <1>1
<1>3. c.state = 1 => b \in {Stream!ESC_END, Stream!ESC_ESC}
  BY CodeNext
<1>4. SlipKept(e, w, S, d, N)
  BY SlipDecodeKeeps
<1>5. e \in Context
  BY <1>4, SlipKeptContext
<1>. HIDE DEF e
<1>6. Stream!SlipTurn(y, bytes, k) = [sc |-> e, late |-> 0]
  BY <1>1, <1>2, <1>3, SMT DEF Stream!SlipTurn, e
<1>. QED
  BY <1>4, <1>5, <1>6 DEF Decoded

\* f[k] is what becomes of f[0] by the first k of the bytes of a segment.
Decodes(f, bytes) ==
  \A k \in 1 .. Len(bytes) :
    LET e == Stream!SlipTurn(f[k - 1], bytes, k)
    IN  e \in Decoded => f[k] = e

(* Byte by byte.                                                           *)
LEMMA DecodesKeeps ==
  ASSUME NEW S \in Messages, NEW N \in 0 .. Len(S), NEW d \in 0 .. N,
         NEW bytes \in Seq(Bytes), NEW v \in Seq(Bytes),
         NEW f, Decodes(f, bytes), f[0] \in Decoded, SlipKept(f[0].sc, bytes \o v, S, d, N)
  PROVE  \A k \in 0 .. Len(bytes) :
           f[k] \in Decoded /\ SlipKept(f[k].sc, Suffix(bytes, k) \o v, S, d, N)
<1> DEFINE K(k) == f[k] \in Decoded /\ SlipKept(f[k].sc, Suffix(bytes, k) \o v, S, d, N)
           G == {k \in Nat : k <= Len(bytes) => K(k)}
<1>1. Len(bytes) \in Nat /\ Suffix(bytes, 0) = bytes
  BY SuffixEnds
<1>2. 0 \in G
  BY <1>1
<1>3. ASSUME NEW k \in Nat, k \in G PROVE k + 1 \in G
  <2>1. ASSUME k + 1 <= Len(bytes)
        PROVE  K(k + 1)
    <3>1. k \in 0 .. Len(bytes) - 1 /\ k <= Len(bytes) /\ k + 1 \in 1 .. Len(bytes)
          /\ (k + 1) - 1 = k /\ Len(bytes) - (k + 1) \in Nat /\ k + 1 \in Nat
      BY <1>1, <2>1
    <3> DEFINE w == Suffix(bytes, k + 1) \o v
               e == Stream!SlipTurn(f[k], bytes, k + 1)
    <3>2. Suffix(bytes, k) \o v = <<bytes[k + 1]>> \o w /\ bytes[k + 1] \in Bytes /\ w \in Seq(Bytes)
      BY <3>1, SuffixCons, Zenon
    <3>3. f[k] \in Decoded /\ SlipKept(f[k].sc, Suffix(bytes, k) \o v, S, d, N)
      BY <1>3, <3>1
    <3>4. e \in Decoded => f[k + 1] = e
      BY <3>1, Zenon DEF Decodes
    <3>. HIDE DEF w
    <3>6. SlipKept(f[k].sc, <<bytes[k + 1]>> \o w, S, d, N)
      BY <3>2, <3>3, Zenon
    <3>7. e \in Decoded /\ SlipKept(e.sc, w, S, d, N)
      BY <3>1, <3>2, <3>3, <3>6, SlipTurnKeeps, Zenon
    <3>. QED
      BY <3>4, <3>7, Zenon DEF w
  <2>. QED
    BY <2>1
<1>4. \A k \in Nat : k \in G
  <2>. HIDE DEF G
  <2>. QED
    BY <1>2, <1>3, SetInduction, Zenon
<1>. QED
  BY <1>1, <1>4

\* SlipDecodeAll: the contexts on the way.
Decoding(c, bytes, f) ==
  f = [k \in 0 .. Len(bytes) |->
         IF k = 0 THEN [sc |-> c, late |-> 0] ELSE Stream!SlipTurn(f[k - 1], bytes, k)]

(* The bytes of a segment.                                                 *)
LEMMA SlipDecodeAllKeeps ==
  ASSUME NEW S \in Messages, NEW N \in 0 .. Len(S), NEW d \in 0 .. N,
         NEW bytes \in Seq(Bytes), NEW v \in Seq(Bytes),
         NEW c, SlipKept(c, bytes \o v, S, d, N)
  PROVE  SlipKept(Stream!SlipDecodeAll(c, bytes), v, S, d, N)
<1> DEFINE n == Len(bytes)
           a == [sc |-> c, late |-> 0]
           D(y, k) == Stream!SlipTurn(y, bytes, k)
           s == [k \in 1 .. n |-> [y \in Decoded |-> IF D(y, k) \in Decoded THEN D(y, k) ELSE y]]
<1>1. n \in Nat /\ a \in Decoded /\ a.sc = c
  BY SlipKeptContext DEF Decoded
<1>. HIDE DEF a
<1>2. s \in [1 .. n -> [Decoded -> Decoded]]
  <2>1. ASSUME NEW k \in 1 .. n, NEW y \in Decoded
        PROVE  (IF D(y, k) \in Decoded THEN D(y, k) ELSE y) \in Decoded
    BY Zenon
  <2>. HIDE DEF n, D
  <2>. QED
    BY <2>1
<1>. HIDE DEF s
<1>3. PICK f : Follows(f, n, Decoded, a, s)
  <2>. HIDE DEF n
  <2>. QED
    BY <1>1, <1>2, Recursion, Zenon
<1>4. f \in [0 .. n -> Decoded] /\ f[0] = a
  BY <1>3 DEF Follows
<1>5. ASSUME NEW k \in 1 .. n
      PROVE  D(f[k - 1], k) \in Decoded => f[k] = D(f[k - 1], k)
  <2>. HIDE DEF n, D
  <2>1. k - 1 \in 0 .. n
    BY <1>1
  <2>2. f[k - 1] \in Decoded /\ f[k] = s[k][f[k - 1]]
    BY <1>3, <1>4, <2>1 DEF Follows
  <2>3. s[k][f[k - 1]] = IF D(f[k - 1], k) \in Decoded THEN D(f[k - 1], k) ELSE f[k - 1]
    BY <2>2 DEF s
  <2>. QED
    BY <2>2, <2>3
<1>6. Decodes(f, bytes)
  BY <1>5, Zenon DEF Decodes
<1>7. f[0] \in Decoded /\ SlipKept(f[0].sc, bytes \o v, S, d, N)
  BY <1>1, <1>4, Zenon
<1>8. \A k \in 0 .. n :
        f[k] \in Decoded /\ SlipKept(f[k].sc, Suffix(bytes, k) \o v, S, d, N)
  BY <1>6, <1>7, DecodesKeeps
<1>9. ASSUME NEW k \in 1 .. n PROVE f[k] = D(f[k - 1], k)
  <2> DEFINE y == f[k - 1]
             w == Suffix(bytes, k) \o v
  <2>1. k - 1 \in 0 .. n /\ k - 1 \in 0 .. n - 1 /\ (k - 1) + 1 = k /\ k \in Nat
        /\ Len(bytes) - k \in Nat
    BY <1>1
  <2>2. Suffix(bytes, k - 1) \o v = <<bytes[k]>> \o w /\ bytes[k] \in Bytes /\ w \in Seq(Bytes)
    <3> DEFINE i == k - 1
    <3>1. i \in 0 .. Len(bytes) - 1 /\ i + 1 = k
      BY <2>1
    <3>. HIDE DEF i
    <3>2. /\ Suffix(bytes, i) \o v = <<bytes[i + 1]>> \o (Suffix(bytes, i + 1) \o v)
          /\ bytes[i + 1] \in Bytes /\ Suffix(bytes, i + 1) \o v \in Seq(Bytes)
      BY <3>1, SuffixCons, Zenon
    <3>. QED
      BY <3>1, <3>2, Zenon DEF i
  <2>3. y \in Decoded /\ SlipKept(y.sc, Suffix(bytes, k - 1) \o v, S, d, N)
    BY <1>8, <2>1
  <2>. HIDE DEF y, w
  <2>4. SlipKept(y.sc, <<bytes[k]>> \o w, S, d, N)
    BY <2>2, <2>3, Zenon
  <2>5. D(y, k) \in Decoded
    BY <2>1, <2>2, <2>3, <2>4, SlipTurnKeeps, Zenon
  <2>. QED
    BY <1>5, <2>5, Zenon DEF y
<1> DEFINE g == CHOOSE h : Decoding(c, bytes, h)
<1>10. Decoding(c, bytes, f)
  <2>1. \A k \in 0 .. n : f[k] = IF k = 0 THEN a ELSE D(f[k - 1], k)
    <3>1. \A k \in 0 .. n : k = 0 \/ k \in 1 .. n
      BY <1>1
    <3>2. \A k \in 1 .. n : k # 0
      BY <1>1
    <3>. QED
      BY <1>4, <1>9, <3>1, <3>2, Zenon
  <2>2. f = [k \in 0 .. n |-> IF k = 0 THEN a ELSE D(f[k - 1], k)]
    <3>. HIDE DEF n, D
    <3>. QED
      BY <1>4, <2>1
  <2>. QED
    BY <2>2, Zenon DEF Decoding, a
<1>11. Decoding(c, bytes, g)
  BY <1>10, Zenon
<1>. HIDE DEF g
<1>12. \A k \in 0 .. n : g[k] = IF k = 0 THEN a ELSE D(g[k - 1], k)
  <2>1. g = [k \in 0 .. n |-> IF k = 0 THEN a ELSE D(g[k - 1], k)]
    BY <1>11, Zenon DEF Decoding, a
  <2>. HIDE DEF n, D
  <2>. QED
    BY <2>1, Zenon
<1>13. Decodes(g, bytes)
  <2>1. ASSUME NEW k \in 1 .. n PROVE g[k] = D(g[k - 1], k)
    <3>1. k \in 0 .. n /\ k # 0
      BY <1>1
    <3>. QED
      BY <1>12, <3>1, Zenon
  <2>. QED
    BY <2>1, Zenon DEF Decodes
<1>14. g[0] = a
  <2>1. 0 \in 0 .. n
    BY <1>1
  <2>. QED
    BY <1>12, <2>1, Zenon
<1>15. g[0] \in Decoded /\ SlipKept(g[0].sc, bytes \o v, S, d, N)
  BY <1>1, <1>14, Zenon
<1>16. SlipKept(g[n].sc, Suffix(bytes, n) \o v, S, d, N)
  <2>1. n \in 0 .. n
    BY <1>1
  <2>. QED
    BY <1>13, <1>15, <2>1, DecodesKeeps
<1>17. Suffix(bytes, n) \o v = v
  <2>1. Suffix(bytes, n) = <<>>
    BY SuffixEnds
  <2>. QED
    BY <2>1
<1>18. Stream!SlipDecodeAll(c, bytes) = g[n].sc
  BY Zenon DEF Stream!SlipDecodeAll, Decoding, g
<1>. QED
  BY <1>16, <1>17, <1>18, Zenon

\* One doubling of a buffer of n bytes, off of which are in use; y is what
\* becomes of greater ones.
Doubling(off, y) ==
  [n \in Nat \ {0} |-> IF 2 * n > MaxMsgSize THEN MaxMsgSize
                       ELSE IF 2 * n - off >= n THEN 2 * n ELSE y[2 * n]]

(* There is a function that doubles until enough is free.                  *)
LEMMA DoublingExists ==
  ASSUME NEW off \in Nat, MaxMsgSize \in Nat
  PROVE  \E f : f = Doubling(off, f)
<1> DEFINE M == MaxMsgSize
           A == Nat \ {0}
           X == [A -> Nat]
           s == [k \in 1 .. M + 1 |-> [y \in X |-> Doubling(off, y)]]
           b == [n \in A |-> M]
<1>1. M \in Nat
  OBVIOUS
<1>2. ASSUME NEW y \in X PROVE Doubling(off, y) \in X
  <2>1. ASSUME NEW n \in A
        PROVE  (IF 2 * n > M THEN M ELSE IF 2 * n - off >= n THEN 2 * n ELSE y[2 * n]) \in Nat
    <3>1. 2 * n \in A
      OBVIOUS
    <3>2. y[2 * n] \in Nat
      BY <3>1
    <3>. QED
      BY <1>1, <3>1, <3>2
  <2>. QED
    BY <2>1 DEF Doubling
<1>. HIDE DEF A
<1>3. b \in X
  BY <1>1
<1>. HIDE DEF M, X, b
<1>4. s \in [1 .. M + 1 -> [X -> X]]
  BY <1>2
<1>5. M + 1 \in Nat
  BY <1>1
<1>. HIDE DEF s
<1>6. PICK g : Follows(g, M + 1, X, b, s)
  BY <1>3, <1>4, <1>5, Recursion
<1>7. g \in [0 .. M + 1 -> X] /\ g[0] = b
  BY <1>6 DEF Follows
<1>8. ASSUME NEW k \in 0 .. M PROVE g[k] \in X /\ g[k + 1] = Doubling(off, g[k])
  <2>1. k + 1 \in 1 .. M + 1 /\ (k + 1) - 1 = k /\ k \in 0 .. M + 1
    BY <1>1
  <2>2. g[k] \in X
    BY <1>7, <2>1
  <2>3. g[k + 1] = s[k + 1][g[k]]
    BY <1>6, <2>1 DEF Follows
  <2>4. s[k + 1][g[k]] = Doubling(off, g[k])
    BY <2>1, <2>2 DEF s
  <2>. QED
    BY <2>2, <2>3, <2>4
<1> DEFINE V(y, n) == IF 2 * n > M THEN M ELSE IF 2 * n - off >= n THEN 2 * n ELSE y[2 * n]
<1>9. \A y : Doubling(off, y) = [n \in A |-> V(y, n)]
  BY Zenon DEF Doubling, A, M
<1>10. \A k \in 0 .. M : \A n \in A : g[k + 1][n] = V(g[k], n)
  <2>. HIDE DEF V
  <2>. QED
    BY <1>8, <1>9
<1> DEFINE G == {k \in Nat : k <= M => \A n \in A : n > M - k => g[k + 1][n] = g[k][n]}
<1>11. 0 \in G
  <2>1. ASSUME NEW n \in A, n > M - 0 PROVE g[0 + 1][n] = g[0][n]
    <3>1. g[0][n] = M
      BY <1>7 DEF b
    <3>2. 0 \in 0 .. M /\ 2 * n > M
      BY <1>1, <2>1 DEF A
    <3>3. g[0 + 1][n] = V(g[0], n)
      BY <1>10, <3>2
    <3>. QED
      BY <3>1, <3>2, <3>3
  <2>. QED
    BY <2>1
<1>12. ASSUME NEW k \in Nat, k \in G PROVE k + 1 \in G
  <2>1. ASSUME k + 1 <= M, NEW n \in A, n > M - (k + 1)
        PROVE  g[(k + 1) + 1][n] = g[k + 1][n]
    <3>1. k \in 0 .. M /\ k + 1 \in 0 .. M /\ k <= M
      BY <1>1, <2>1
    <3>2. 2 * n \in A /\ 2 * n > M - k
      BY <1>1, <2>1 DEF A
    <3>3. g[k + 1][2 * n] = g[k][2 * n]
      BY <1>12, <3>1, <3>2
    <3>4. g[(k + 1) + 1][n] = V(g[k + 1], n) /\ g[k + 1][n] = V(g[k], n)
      BY <1>10, <3>1
    <3>5. V(g[k + 1], n) = V(g[k], n)
      BY <3>3, Zenon
    <3>. QED
      BY <3>4, <3>5, Zenon
  <2>. QED
    BY <2>1
<1>13. M \in G
  <2>. HIDE DEF G
  <2>. QED
    BY <1>1, <1>11, <1>12, SetInduction
<1>14. \A n \in A : g[M + 1][n] = g[M][n]
  <2>1. \A n \in A : n > M - M
    BY <1>1 DEF A
  <2>. QED
    BY <1>1, <1>13, <2>1
<1>15. M \in 0 .. M
  BY <1>1
<1>16. \A n \in A : g[M][n] = V(g[M], n)
  <2>. HIDE DEF V
  <2>. QED
    BY <1>10, <1>14, <1>15
<1>17. g[M] = [n \in A |-> V(g[M], n)]
  <2>1. g[M] \in [A -> Nat]
    BY <1>8, <1>15 DEF X
  <2>. HIDE DEF V
  <2>. QED
    BY <1>16, <2>1
<1>18. g[M] = Doubling(off, g[M])
  BY <1>9, <1>17, Zenon
<1>. QED
  BY <1>18, Zenon

(* The doubled buffer is the greatest or has room behind what is in use.   *)
LEMMA DoubledIs ==
  ASSUME NEW size \in Nat \ {0}, NEW off \in Nat, MaxMsgSize \in Nat
  PROVE  LET r == Stream!Doubled(size, off)
         IN  /\ r \in Nat /\ r <= MaxMsgSize
             /\ r = MaxMsgSize \/ (r > off /\ r >= size)
<1> DEFINE M == MaxMsgSize
           A == Nat \ {0}
           f == CHOOSE g : g = Doubling(off, g)
<1>1. M \in Nat /\ f = Doubling(off, f)
  <2>1. \E g : g = Doubling(off, g)
    BY DoublingExists
  <2>. QED
    BY <2>1, Zenon
<1>2. Stream!Doubled(size, off) = f[size]
  BY Zenon DEF Stream!Doubled, Doubling
<1>. HIDE DEF f
<1>3. \A n \in A : f[n] = IF 2 * n > M THEN M ELSE IF 2 * n - off >= n THEN 2 * n ELSE f[2 * n]
  <2> DEFINE V(n) == IF 2 * n > M THEN M ELSE IF 2 * n - off >= n THEN 2 * n ELSE f[2 * n]
  <2>1. f = [n \in A |-> V(n)]
    BY <1>1, Zenon DEF Doubling
  <2>. HIDE DEF V, A
  <2>2. \A n \in A : f[n] = V(n)
    BY <2>1
  <2>. QED
    BY <2>2 DEF V
<1> DEFINE P(n) == f[n] \in Nat /\ f[n] <= M /\ (f[n] = M \/ (f[n] > off /\ f[n] >= n))
           G == {k \in Nat : \A n \in A : n > M - k => P(n)}
<1>. HIDE DEF M
<1>4. 0 \in G
  <2>1. ASSUME NEW n \in A, n > M - 0 PROVE P(n)
    <3>1. 2 * n > M
      BY <1>1, <2>1
    <3>2. f[n] = M
      BY <1>3, <3>1
    <3>. QED
      BY <1>1, <3>2
  <2>. QED
    BY <2>1
<1>5. ASSUME NEW k \in Nat, k \in G PROVE k + 1 \in G
  <2>1. ASSUME NEW n \in A, n > M - (k + 1) PROVE P(n)
    <3>1. CASE 2 * n > M
      <4>1. f[n] = M
        BY <1>3, <3>1
      <4>. QED
        BY <1>1, <4>1
    <3>2. CASE ~(2 * n > M) /\ 2 * n - off >= n
      <4>1. f[n] = 2 * n
        BY <1>3, <3>2
      <4>. QED
        BY <1>1, <3>2, <4>1
    <3>3. CASE ~(2 * n > M) /\ ~(2 * n - off >= n)
      <4>1. f[n] = f[2 * n]
        BY <1>3, <3>3
      <4>2. 2 * n \in A /\ 2 * n > M - k /\ 2 * n >= n
        BY <1>1, <2>1
      <4>3. P(2 * n)
        BY <1>5, <4>2
      <4>. QED
        BY <1>1, <4>1, <4>2, <4>3
    <3>. QED
      BY <3>1, <3>2, <3>3
  <2>. HIDE DEF P
  <2>. QED
    BY <2>1
<1>6. M \in G
  <2>. HIDE DEF G
  <2>. QED
    BY <1>1, <1>4, <1>5, SetInduction
<1>7. P(size)
  <2>1. size > M - M
    BY <1>1
  <2>. HIDE DEF P
  <2>. QED
    BY <1>1, <1>6, <2>1
<1>. QED
  BY <1>2, <1>7 DEF M

(* What lo_server_recv_raw_stream_socket makes room in.                    *)
LEMMA GrownIs ==
  ASSUME NEW c \in Context, MinBuffer \in Nat, MaxMsgSize \in Nat, 5 <= MinBuffer,
         MinBuffer <= MaxMsgSize
  PROVE  LET g == Stream!Grown(c)
         IN  /\ g \in Context /\ g.slip = c.slip /\ g.state = c.state /\ g.buf = c.buf
             /\ g.msg = c.msg
             /\ c.size <= MaxMsgSize => g.size <= MaxMsgSize
             /\ Stream!Room(g) = g.size - Len(g.buf)
             /\ Stream!Room(g) <= 0 => Len(g.buf) >= MaxMsgSize
             /\ g.size >= 5
<1> DEFINE off == Len(c.buf)
           least == IF c.size < MinBuffer THEN MinBuffer ELSE c.size
           size == IF c.size - off >= least \div 2 THEN least ELSE Stream!Doubled(least, off)
           g == Stream!Grown(c)
<1>1. c.size \in Nat /\ c.buf \in Seq(Bytes) /\ off \in Nat
  BY DEF Context
<1>2. g = IF size > c.size THEN [c EXCEPT !.size = size] ELSE c
  BY Zenon DEF Stream!Grown
<1>. HIDE DEF off, g
<1>3. least \in Nat \ {0} /\ least >= MinBuffer /\ least >= c.size /\ least >= 5
      /\ (c.size <= MaxMsgSize => least <= MaxMsgSize)
  BY <1>1
<1>. HIDE DEF least
<1> DEFINE r == Stream!Doubled(least, off)
<1>4. r \in Nat /\ r <= MaxMsgSize /\ (r = MaxMsgSize \/ (r > off /\ r >= least))
  BY <1>1, <1>3, DoubledIs, Zenon
<1>. HIDE DEF r
<1>5. least \div 2 \in Nat /\ least \div 2 >= 1
  BY <1>3
<1> DEFINE half == least \div 2
<1>6. half \in Nat /\ half >= 1
  BY <1>5
<1>. HIDE DEF half
<1>7. size = IF c.size - off >= half THEN least ELSE r
  BY Zenon DEF half, r
<1>. HIDE DEF size
<1>8. size \in Nat /\ (c.size <= MaxMsgSize => size <= MaxMsgSize)
  BY <1>1, <1>3, <1>4, <1>7
<1>9. \/ size > c.size /\ g = [c EXCEPT !.size = size]
      \/ size <= c.size /\ g = c
  BY <1>1, <1>2, <1>8
<1>10. /\ g \in Context /\ g.slip = c.slip /\ g.state = c.state /\ g.buf = c.buf /\ g.msg = c.msg
       /\ g.size = IF size > c.size THEN size ELSE c.size
  <2>1. CASE size > c.size /\ g = [c EXCEPT !.size = size]
    <3>1. g \in Context
      BY <1>8, <2>1, Zenon DEF Context
    <3>. QED
      BY <2>1, <3>1 DEF Context
  <2>2. CASE size <= c.size /\ g = c
    BY <1>1, <1>8, <2>2
  <2>. QED
    BY <1>9, <2>1, <2>2
<1>11. g.size >= size /\ g.size >= c.size /\ g.size \in Nat
       /\ (c.size <= MaxMsgSize => g.size <= MaxMsgSize)
  BY <1>1, <1>8, <1>10
<1>12. Stream!Room(g) = g.size - off
  BY <1>10 DEF Stream!Room, off
<1>13. ASSUME g.size - off <= 0 PROVE off >= MaxMsgSize
  BY <1>1, <1>3, <1>4, <1>6, <1>7, <1>11, <1>13
<1>14. g.size >= 5
  BY <1>3, <1>4, <1>7, <1>8, <1>11
<1>. QED
  BY <1>10, <1>11, <1>12, <1>13, <1>14 DEF g, off

\* A context of a stream with counts of which d messages were dispatched, and
\* of the N that were sent the bytes w are still to come.
PlainKept(c, w, S, d, N) ==
  /\ c \in Context /\ c.slip \in {-1, 0}
  /\ c.slip = -1 => c.msg = 0 /\ Len(c.buf) < 4
  /\ c.size <= MaxMsgSize /\ Len(c.buf) <= c.size
  /\ w \in Seq(Bytes) /\ c.buf \o w = Cat(Counted(S), d, N)

(* lo_server_buffer_contains_msg, on a message behind its count.           *)
LEMMA ContainsFront ==
  ASSUME NEW m, NEW z, NEW w, NEW c, Front(m, z, c.buf, w)
  PROVE  /\ Len(c.buf) >= Len(m) + 4 => Stream!ContainsMsg(c) = Len(m)
         /\ Len(c.buf) < Len(m) + 4 => Stream!ContainsMsg(c) = 0
         /\ Len(c.buf) \in Nat /\ Len(m) \in Nat \ {0}
<1> DEFINE b == c.buf
           k == Stream!Count(SubSeq(b, 1, 4))
<1>1. b \in Seq(Bytes) /\ Len(b) \in Nat
  BY DEF Front
<1>2. Len(m) \in Nat \ {0}
  <2>1. m \in Seq(Bytes) /\ Len(m) \in Counts \ {0}
    BY DEF Front
  <2>. QED
    BY <2>1, WholeIs
<1>3. Stream!ContainsMsg(c) = IF Len(b) > 4 /\ k + 4 <= Len(b) THEN k ELSE 0
  BY Zenon DEF Stream!ContainsMsg
<1>4. Front(m, z, b, w)
  OBVIOUS
<1>. HIDE DEF b, k
<1>5. Len(b) >= 4 => k = Len(m)
  <2>1. Len(b) >= 4 => Stream!Count(SubSeq(b, 1, 4)) = Len(m)
    BY <1>4, FrontCount
  <2>. QED
    BY <2>1, Zenon DEF k
<1>6. Len(b) >= Len(m) + 4 => Stream!ContainsMsg(c) = Len(m)
  BY <1>1, <1>2, <1>3, <1>5
<1>7. Len(b) < Len(m) + 4 => Stream!ContainsMsg(c) = 0
  BY <1>1, <1>2, <1>3, <1>5
<1>. QED
  BY <1>1, <1>2, <1>6, <1>7 DEF b

(* The same where there is no count yet: what is there stands for none, or *)
(* for one that no message has.                                            *)
LEMMA ContainsNothing ==
  ASSUME NEW c \in Context, NEW h \in Heads, NEW q \in Seq(Bytes), Len(q) \in Counts,
         c.buf = h \o q
  PROVE  Stream!ContainsMsg(c) = 0 /\ Len(c.buf) = 4 + Len(q)
<1>1. h \in Seq(Bytes) /\ Len(h) = 4 /\ (h = Stream!Header(0) \/ h[1] # 0)
  BY DEF Heads
<1>2. SubSeq(h \o q, 1, 4) = h
  BY <1>1, ConcatEnds, Zenon
<1>3. Len(c.buf) = 4 + Len(q) /\ Len(q) \in Nat
  <2>1. h \in Seq(Bytes)
    BY <1>1
  <2>2. Len(h \o q) = Len(h) + Len(q) /\ Len(q) \in Nat
    BY <2>1, BytesConcat
  <2>. QED
    BY <1>1, <2>2
<1>4. SubSeq(c.buf, 1, 4) = h
  BY <1>2, Zenon
<1>5. Stream!Count(h) = 0 \/ Stream!Count(h) = 16777216
  <2>1. CASE h = Stream!Header(0)
    <3>1. Stream!Count(Stream!Header(0)) = 0
      BY EmptyHeader
    <3>. QED
      BY <2>1, <3>1, SMT
  <2>2. CASE h[1] # 0
    BY <2>2, SMT DEF Stream!Count
  <2>. QED
    BY <1>1, <2>1, <2>2, SMT
<1>6. Stream!ContainsMsg(c) =
        IF Len(c.buf) > 4 /\ Stream!Count(h) + 4 <= Len(c.buf) THEN Stream!Count(h) ELSE 0
  BY <1>4, Zenon DEF Stream!ContainsMsg
<1>7. Len(q) < 16777216
  BY SMT DEF Counts
<1> DEFINE k == Stream!Count(h)
<1>. HIDE DEF k
<1>8. Stream!ContainsMsg(c) = IF Len(c.buf) > 4 /\ k + 4 <= Len(c.buf) THEN k ELSE 0
  BY <1>6 DEF k
<1>9. k = 0 \/ k = 16777216
  BY <1>5, SMT DEF k
<1>. QED
  BY <1>3, <1>7, <1>8, <1>9, SMT

(* A stream with counts: is a whole message in the buffer?                 *)
LEMMA PlainFront ==
  ASSUME NEW S \in Messages, NEW N \in 0 .. Len(S), NEW d \in 0 .. N,
         NEW c, NEW w, PlainKept(c, w, S, d, N)
  PROVE  /\ d = N => c.buf = <<>> /\ w = <<>> /\ Stream!ContainsMsg(c) = 0
         /\ d < N => Front(S[d + 1], Cat(Counted(S), d + 1, N), c.buf, w)
<1>1. /\ c \in Context /\ c.buf \in Seq(Bytes) /\ w \in Seq(Bytes)
      /\ c.buf \o w = Cat(Counted(S), d, N)
  BY DEF PlainKept, Context
<1>3. ASSUME d = N PROVE c.buf = <<>> /\ w = <<>> /\ Stream!ContainsMsg(c) = 0
  <2>1. Cat(Counted(S), d, N) = <<>>
    <3>1. d \in 0 .. Len(S)
      OBVIOUS
    <3>2. Cat(Counted(S), d, d) = <<>>
      BY <3>1, CatNone, Zenon
    <3>. QED
      BY <1>3, <3>2, Zenon
  <2>2. c.buf \o w = <<>>
    BY <1>1, <2>1
  <2>3. Len(c.buf \o w) = Len(c.buf) + Len(w) /\ Len(c.buf) \in Nat /\ Len(w) \in Nat
    BY <1>1, BytesConcat
  <2>4. Len(c.buf) = 0 /\ Len(w) = 0
    BY <2>2, <2>3
  <2>5. c.buf = <<>> /\ w = <<>>
    BY <1>1, <2>4
  <2>6. Stream!ContainsMsg(c) = 0
    <3>1. ~(Len(c.buf) > 4)
      BY <2>4
    <3>. QED
      BY <3>1, Zenon DEF Stream!ContainsMsg
  <2>. QED
    BY <2>5, <2>6
<1>4. ASSUME d < N PROVE Front(S[d + 1], Cat(Counted(S), d + 1, N), c.buf, w)
  <2> DEFINE m == S[d + 1]
             z == Cat(Counted(S), d + 1, N)
  <2>1. Cat(Counted(S), d, N) = Whole(m) \o z
    BY <1>4, CatFront, Zenon
  <2>2. z \in Seq(Bytes) /\ m \in Seq(Bytes) /\ Len(m) \in Counts \ {0}
    BY <1>4, CatFront, Zenon
  <2>. HIDE DEF m, z
  <2>3. c.buf \o w = Whole(m) \o z
    BY <1>1, <2>1, Zenon
  <2>4. Front(m, z, c.buf, w)
    BY <1>1, <2>2, <2>3, Zenon DEF Front
  <2>. QED
    BY <2>4 DEF m, z
<1>. QED
  BY <1>3, <1>4

(* The buffer is whole messages, a head and the bytes q.                   *)
BufIs(c, whole, h, q) == c.buf = whole \o (h \o q)

(* A stream of SLIP: is a whole message in the buffer?                     *)
LEMMA SlipFront ==
  ASSUME NEW S \in Messages, NEW n \in 0 .. Len(S), NEW d \in 0 .. n,
         NEW c \in Context, NEW q \in Seq(Bytes), Len(q) \in Counts,
         NEW h \in Heads, BufIs(c, Cat(Counted(S), d, n), h, q)
  PROVE  /\ d = n => Stream!ContainsMsg(c) = 0 /\ Len(c.buf) = 4 + Len(q)
         /\ d < n => LET m == S[d + 1]
                         P == Cat(Counted(S), d + 1, n)
                     IN  /\ Stream!ContainsMsg(c) = Len(m) /\ Len(m) \in Nat \ {0}
                         /\ Front(m, P \o (h \o q), c.buf, <<>>)
                         /\ Cat(Counted(S), d, n) = Whole(m) \o P
                         /\ m \in Seq(Bytes) /\ Len(m) \in Counts \ {0} /\ P \in Seq(Bytes)
<1> DEFINE y == h \o q
<1>1. y \in Seq(Bytes)
  <2>1. h \in Seq(Bytes)
    BY DEF Heads
  <2>. QED
    BY <2>1, BytesConcat
<1>2. c.buf = Cat(Counted(S), d, n) \o y
  BY DEF BufIs
<1>3. ASSUME d = n PROVE Stream!ContainsMsg(c) = 0 /\ Len(c.buf) = 4 + Len(q)
  <2>1. Cat(Counted(S), n, n) = <<>>
    <3>1. n \in 0 .. Len(S)
      OBVIOUS
    <3>. QED
      BY <3>1, CatNone, Zenon
  <2>2. <<>> \o y = y
    BY <1>1, AppendIs
  <2>3. c.buf = h \o q
    BY <1>2, <1>3, <2>1, <2>2, Zenon
  <2>. QED
    BY <2>3, ContainsNothing
<1>4. ASSUME d < n
      PROVE  LET m == S[d + 1]
                 P == Cat(Counted(S), d + 1, n)
             IN  /\ Stream!ContainsMsg(c) = Len(m) /\ Len(m) \in Nat \ {0}
                 /\ Front(m, P \o y, c.buf, <<>>)
                 /\ Cat(Counted(S), d, n) = Whole(m) \o P
                 /\ m \in Seq(Bytes) /\ Len(m) \in Counts \ {0} /\ P \in Seq(Bytes)
  <2> DEFINE m == S[d + 1]
             P == Cat(Counted(S), d + 1, n)
  <2>2. /\ Cat(Counted(S), d, n) = Whole(m) \o P /\ P \in Seq(Bytes)
        /\ m \in Seq(Bytes) /\ Len(m) \in Counts \ {0}
    BY <1>4, CatFront
  <2>3. P \in Seq(Bytes) /\ m \in Seq(Bytes) /\ Len(m) \in Counts \ {0}
    BY <2>2
  <2>. HIDE DEF m, P, y
  <2>4. Whole(m) \in Seq(Bytes) /\ Len(Whole(m)) = Len(m) + 4
    BY <2>3, WholeIs
  <2>5. (Whole(m) \o P) \o y = Whole(m) \o (P \o y)
    BY <1>1, <2>3, <2>4, CatAssociative, Zenon
  <2>6. c.buf = Whole(m) \o (P \o y)
    BY <1>2, <2>2, <2>5, Zenon
  <2>7. P \o y \in Seq(Bytes)
    BY <1>1, <2>3, BytesConcat
  <2>8. Len(c.buf) = Len(m) + 4 + Len(P \o y) /\ Len(P \o y) \in Nat
    <3>1. Whole(m) \in Seq(Bytes)
      BY <2>4
    <3>2. Len(Whole(m) \o (P \o y)) = Len(Whole(m)) + Len(P \o y) /\ Len(P \o y) \in Nat
      BY <2>7, <3>1, BytesConcat
    <3>. QED
      BY <2>4, <2>6, <3>2
  <2>9. c.buf \in Seq(Bytes)
    BY DEF Context
  <2>10. c.buf \o <<>> = Whole(m) \o (P \o y) /\ <<>> \in Seq(Bytes)
    <3>1. c.buf \o <<>> = c.buf
      BY <2>9, AppendIs
    <3>. QED
      BY <2>6, <3>1
  <2>13. Front(m, P \o y, c.buf, <<>>)
    BY <2>3, <2>7, <2>9, <2>10, Zenon DEF Front
  <2>11. /\ Len(c.buf) >= Len(m) + 4 => Stream!ContainsMsg(c) = Len(m)
         /\ Len(m) \in Nat \ {0}
    BY <2>13, ContainsFront, Zenon
  <2>12. Len(c.buf) >= Len(m) + 4
    BY <2>8, <2>11
  <2>. QED
    BY <2>2, <2>3, <2>11, <2>12, <2>13 DEF m, P
<1>. QED
  BY <1>3, <1>4, Zenon

(* The buffer holds the messages from d + 1 to n, a count and the bytes q. *)
HeldWhole(c, S, d, n, q) ==
  /\ S \in Messages /\ n \in 0 .. Len(S) /\ d \in 0 .. n /\ q \in Seq(Bytes)
  /\ Len(q) \in Counts /\ Holds(c, Cat(Counted(S), d, n), q)

(* The buffer begins with message d + 1; h is the head behind the others.  *)
FrontHead(c, S, d, n, q, h) ==
  LET m == S[d + 1]
      P == Cat(Counted(S), d + 1, n)
  IN  /\ Stream!ContainsMsg(c) = Len(m) /\ Len(m) \in Nat \ {0}
      /\ Front(m, P \o (h \o q), c.buf, <<>>)
      /\ Cat(Counted(S), d, n) = Whole(m) \o P
      /\ m \in Seq(Bytes) /\ Len(m) \in Counts \ {0} /\ P \in Seq(Bytes)

(* SlipFront, with what it needs and gives under names.                    *)
LEMMA HeldFront ==
  ASSUME NEW c, NEW S, NEW d, NEW n, NEW q, HeldWhole(c, S, d, n, q)
  PROVE  /\ d = n => Stream!ContainsMsg(c) = 0 /\ Len(c.buf) = 4 + Len(q)
         /\ d < n => \E h \in Heads : FrontHead(c, S, d, n, q, h)
<1>1. PICK h \in Heads : c \in Context /\ BufIs(c, Cat(Counted(S), d, n), h, q)
  BY Zenon DEF HeldWhole, Holds, BufIs
<1>2. /\ S \in Messages /\ n \in 0 .. Len(S) /\ d \in 0 .. n /\ q \in Seq(Bytes)
      /\ Len(q) \in Counts
  BY Zenon DEF HeldWhole
<1>3. /\ d = n => Stream!ContainsMsg(c) = 0 /\ Len(c.buf) = 4 + Len(q)
      /\ d < n => FrontHead(c, S, d, n, q, h)
  BY <1>1, <1>2, SlipFront DEF FrontHead
<1>. QED
  BY <1>1, <1>3, Zenon

\* What dispatching m makes of a context, with w to come and z behind m.
Dispatches(c, m, z, w) ==
  LET e == Stream!AfterDispatch(c)
  IN  /\ Stream!FirstMsg(c) = m /\ Len(c.buf) >= Len(m) + 4
      /\ e \in Context /\ e.slip = c.slip /\ e.state = c.state /\ e.size = c.size
      /\ e.msg = c.msg - (Len(m) + 4) /\ e.buf \o w = z
      /\ Len(e.buf) = Len(c.buf) - (Len(m) + 4)

(* The first message in a buffer is dispatched.                            *)
LEMMA DispatchIs ==
  ASSUME NEW m, NEW z, NEW w, NEW c \in Context, Front(m, z, c.buf, w),
         Stream!ContainsMsg(c) # 0
  PROVE  Dispatches(c, m, z, w)
<1> DEFINE k == Len(m) + 4
           b == c.buf
           e == Stream!AfterDispatch(c)
<1>1. /\ Len(b) >= k => Stream!ContainsMsg(c) = Len(m)
      /\ Len(b) < k => Stream!ContainsMsg(c) = 0
      /\ Len(b) \in Nat /\ Len(m) \in Nat \ {0}
  BY ContainsFront, Zenon
<1>2. Len(b) >= k /\ Stream!ContainsMsg(c) = Len(m) /\ k \in Nat
  BY <1>1
<1>3. b \in Seq(Bytes) /\ c.msg \in Int
  BY DEF Context
<1>4. Front(m, z, b, w)
  OBVIOUS
<1>. HIDE DEF b
<1>5. /\ SubSeq(b, 5, k) = m /\ Suffix(b, k) \in Seq(Bytes)
      /\ Len(Suffix(b, k)) = Len(b) - k /\ Suffix(b, k) \o w = z
  <2>1. b \in Seq(Bytes)
    BY <1>3
  <2>2. Len(b) >= Len(m) + 4 => /\ SubSeq(b, 5, Len(m) + 4) = m
                                /\ Suffix(b, Len(m) + 4) \in Seq(Bytes)
                                /\ Len(Suffix(b, Len(m) + 4)) = Len(b) - (Len(m) + 4)
                                /\ Suffix(b, Len(m) + 4) \o w = z
    BY <1>4, FrontCount
  <2>. QED
    BY <1>2, <2>2, Zenon
<1>6. 4 + Stream!ContainsMsg(c) = k /\ Stream!ContainsMsg(c) + 4 = k
  BY <1>1, <1>2
<1>7. Stream!FirstMsg(c) = m
  BY <1>5, <1>6, Zenon DEF Stream!FirstMsg, b
<1> DEFINE t == Suffix(b, k)
           i == c.msg - k
<1>8. e = [c EXCEPT !.buf = t, !.msg = i]
  <2>1. e = [c EXCEPT !.buf = SubSeq(@, k + 1, Len(@)), !.msg = @ - k]
    BY <1>6, Zenon DEF Stream!AfterDispatch, Stream!Drop
  <2>2. t = SubSeq(c.buf, k + 1, Len(c.buf))
    BY DEF Suffix, b
  <2>. HIDE DEF e, t, k
  <2>. QED
    BY <2>1, <2>2
<1>9. t \in Seq(Bytes) /\ i \in Int
  BY <1>2, <1>3, <1>5
<1>. HIDE DEF e, t, i, k
<1>10. e \in Context
  BY <1>8, <1>9, Zenon DEF Context
<1>11. /\ e.slip = c.slip /\ e.state = c.state /\ e.size = c.size /\ e.msg = i /\ e.buf = t
  BY <1>8 DEF Context
<1>12. t \o w = z /\ Len(t) = Len(b) - k
  BY <1>5 DEF t
<1>13. e.buf \o w = z /\ Len(e.buf) = Len(b) - k
  BY <1>11, <1>12
<1>. QED
  BY <1>2, <1>7, <1>10, <1>11, <1>13, Zenon DEF Dispatches, e, i, k, b

(* The same on a stream with counts.                                       *)
LEMMA PlainDispatch ==
  ASSUME NEW S \in Messages, NEW N \in 0 .. Len(S), NEW d \in 0 .. N,
         NEW c, NEW w, PlainKept(c, w, S, d, N), Stream!ContainsMsg(c) # 0,
         MaxMsgSize \in Nat
  PROVE  /\ d + 1 \in 0 .. N /\ Stream!FirstMsg(c) = S[d + 1]
         /\ PlainKept(Stream!AfterDispatch(c), w, S, d + 1, N)
         /\ Len(S[d + 1]) + 4 <= MaxMsgSize
<1> DEFINE m == S[d + 1]
           z == Cat(Counted(S), d + 1, N)
           e == Stream!AfterDispatch(c)
<1>1. d < N
  <2>1. d = N => Stream!ContainsMsg(c) = 0
    BY PlainFront
  <2>. QED
    BY <2>1
<1>2. Front(m, z, c.buf, w)
  <2>1. d < N => Front(m, z, c.buf, w)
    BY PlainFront
  <2>. QED
    BY <1>1, <2>1
<1>3. /\ c \in Context /\ c.slip \in {-1, 0} /\ (c.slip = -1 => Len(c.buf) < 4)
      /\ c.size <= MaxMsgSize /\ Len(c.buf) <= c.size /\ w \in Seq(Bytes)
  BY DEF PlainKept
<1>. HIDE DEF m, z, e
<1>4. /\ Stream!FirstMsg(c) = m /\ Len(c.buf) >= Len(m) + 4
      /\ e \in Context /\ e.slip = c.slip /\ e.size = c.size /\ e.buf \o w = z
      /\ Len(e.buf) = Len(c.buf) - (Len(m) + 4)
  <2>1. c \in Context /\ Stream!ContainsMsg(c) # 0
    BY <1>3
  <2>2. Dispatches(c, m, z, w)
    BY <1>2, <2>1, DispatchIs
  <2>. QED
    BY <2>2, Zenon DEF Dispatches, e
<1>5. c.size \in Nat /\ Len(c.buf) \in Nat /\ Len(m) \in Nat
  <2>1. m \in Seq(Bytes)
    BY <1>2 DEF Front
  <2>. QED
    BY <1>3, <2>1 DEF Context
<1>6. e.slip # -1 /\ Len(e.buf) <= e.size /\ Len(m) + 4 <= MaxMsgSize
  <2>1. c.slip # -1
    BY <1>3, <1>4, <1>5
  <2>2. e.slip # -1
    BY <1>4, <2>1, Zenon
  <2>3. Len(e.buf) <= e.size
    BY <1>3, <1>4, <1>5
  <2>4. Len(m) + 4 <= MaxMsgSize
    BY <1>3, <1>4, <1>5
  <2>. QED
    BY <2>2, <2>3, <2>4
<1>7. PlainKept(e, w, S, d + 1, N)
  BY <1>3, <1>4, <1>6, Zenon DEF PlainKept, z
<1>. QED
  BY <1>1, <1>4, <1>6, <1>7 DEF m, e

(* What becomes of a context that holds the same bytes of a message.       *)
LEMMA SlipMoves ==
  ASSUME NEW S \in Messages, NEW N \in 0 .. Len(S), NEW d \in 0 .. N, NEW n \in d .. N,
         NEW c, NEW e, NEW w, NEW a, SlipAt(c, w, S, d, N, n), e.state = c.state,
         \A q \in Seq(Bytes) : Len(q) \in Counts /\ Holds(c, Cat(Counted(S), d, n), q)
                                => Holds(e, Cat(Counted(S), a, n), q)
  PROVE  SlipAt(e, w, S, a, N, n)
<1>1. CASE Behind(c, w, Cat(Counted(S), d, n), Cat(Slipped(S), n, N))
  <2>1. Holds(e, Cat(Counted(S), a, n), <<>>)
    <3>1. <<>> \in Seq(Bytes) /\ Len(<<>>) \in Counts
      BY DEF Counts
    <3>. QED
      BY <1>1, <3>1, Zenon DEF Behind
  <2>2. Behind(e, w, Cat(Counted(S), a, n), Cat(Slipped(S), n, N))
    BY <1>1, <2>1, Zenon DEF Behind
  <2>. QED
    BY <2>2, Zenon DEF SlipAt
<1>2. ASSUME n < N, NEW j \in 0 .. Len(S[n + 1]),
             Within(c, w, Cat(Counted(S), d, n), S[n + 1], j, Cat(Slipped(S), n + 1, N))
      PROVE  SlipAt(e, w, S, a, N, n)
  <2>1. S[n + 1] \in Seq(Bytes) /\ Len(S[n + 1]) \in Counts
    <3>1. n \in 0 .. N /\ n + 1 \in 1 .. Len(S)
      BY <1>2, CountedIs
    <3>. QED
      BY <3>1, CountedIs, Zenon
  <2>2. /\ SubSeq(S[n + 1], 1, j) \in Seq(Bytes)
        /\ Len(SubSeq(S[n + 1], 1, j)) \in Counts
    <3>1. SubSeq(S[n + 1], 1, j) \in Seq(Bytes) /\ Len(SubSeq(S[n + 1], 1, j)) = j
      BY <1>2, <2>1, TakeDrop
    <3>2. j \in Nat /\ j <= Len(S[n + 1])
      BY <1>2, <2>1
    <3>. QED
      BY <2>1, <3>1, <3>2 DEF Counts
  <2>3. Holds(e, Cat(Counted(S), a, n), SubSeq(S[n + 1], 1, j))
    BY <1>2, <2>2, Zenon DEF Within
  <2>4. Within(e, w, Cat(Counted(S), a, n), S[n + 1], j, Cat(Slipped(S), n + 1, N))
    BY <1>2, <2>3, Zenon DEF Within
  <2>. QED
    BY <1>2, <2>4, Zenon DEF SlipAt
<1>. QED
  BY <1>1, <1>2 DEF SlipAt

(* What a context of SLIP holds.                                           *)
LEMMA SlipHolds ==
  ASSUME NEW S \in Messages, NEW N \in 0 .. Len(S), NEW d \in 0 .. N, NEW n \in d .. N,
         NEW c, NEW w, SlipAt(c, w, S, d, N, n)
  PROVE  \E q \in Seq(Bytes) : Len(q) \in Counts /\ Holds(c, Cat(Counted(S), d, n), q)
<1>1. CASE Behind(c, w, Cat(Counted(S), d, n), Cat(Slipped(S), n, N))
  <2>1. <<>> \in Seq(Bytes) /\ Len(<<>>) \in Counts
    BY DEF Counts
  <2>. QED
    BY <1>1, <2>1, Zenon DEF Behind
<1>2. ASSUME n < N, NEW j \in 0 .. Len(S[n + 1]),
             Within(c, w, Cat(Counted(S), d, n), S[n + 1], j, Cat(Slipped(S), n + 1, N))
      PROVE  \E q \in Seq(Bytes) : Len(q) \in Counts /\ Holds(c, Cat(Counted(S), d, n), q)
  <2>1. S[n + 1] \in Seq(Bytes) /\ Len(S[n + 1]) \in Counts
    <3>1. n \in 0 .. N /\ n + 1 \in 1 .. Len(S)
      BY <1>2, CountedIs
    <3>. QED
      BY <3>1, CountedIs, Zenon
  <2>2. /\ SubSeq(S[n + 1], 1, j) \in Seq(Bytes)
        /\ Len(SubSeq(S[n + 1], 1, j)) \in Counts
    <3>1. SubSeq(S[n + 1], 1, j) \in Seq(Bytes) /\ Len(SubSeq(S[n + 1], 1, j)) = j
      BY <1>2, <2>1, TakeDrop
    <3>2. j \in Nat /\ j <= Len(S[n + 1])
      BY <1>2, <2>1
    <3>. QED
      BY <2>1, <3>1, <3>2 DEF Counts
  <2>. QED
    BY <1>2, <2>2, Zenon DEF Within
<1>. QED
  BY <1>1, <1>2 DEF SlipAt

(* The first message of a stream of SLIP is dispatched.                    *)
LEMMA SlipDispatch ==
  ASSUME NEW S \in Messages, NEW N \in 0 .. Len(S), NEW d \in 0 .. N,
         NEW c, NEW w, SlipKept(c, w, S, d, N), Stream!ContainsMsg(c) # 0
  PROVE  /\ d + 1 \in 0 .. N /\ Stream!FirstMsg(c) = S[d + 1]
         /\ SlipKept(Stream!AfterDispatch(c), w, S, d + 1, N)
<1> DEFINE e == Stream!AfterDispatch(c)
<1>1. PICK n \in d .. N : SlipAt(c, w, S, d, N, n)
  BY DEF SlipKept
<1>2. c \in Context /\ c.slip = 1
  BY SlipKeptContext
<1>3. PICK p \in Seq(Bytes) : Len(p) \in Counts /\ Holds(c, Cat(Counted(S), d, n), p)
  BY <1>1, SlipHolds
<1>10. n \in 0 .. Len(S) /\ d \in 0 .. n
  BY CountedIs
<1>4. d < n
  <2>2. PICK h \in Heads : c.buf = Cat(Counted(S), d, n) \o (h \o p)
    BY <1>3 DEF Holds
  <2>1. d = n => Stream!ContainsMsg(c) = 0
    BY <1>3, <1>10, HeldFront DEF HeldWhole
  <2>. QED
    BY <2>1
<1> DEFINE m == S[d + 1]
           P == Cat(Counted(S), d + 1, n)
<1>5. ASSUME NEW q \in Seq(Bytes), Len(q) \in Counts, Holds(c, Cat(Counted(S), d, n), q)
      PROVE  /\ Stream!FirstMsg(c) = m /\ e.state = c.state
             /\ Holds(e, P, q)
  <2>0. PICK h \in Heads : FrontHead(c, S, d, n, q, h)
    <3>1. HeldWhole(c, S, d, n, q)
      BY <1>5, <1>10, Zenon DEF HeldWhole
    <3>. QED
      BY <1>4, <3>1, HeldFront, Zenon
  <2> DEFINE y == h \o q
  <2>1. /\ Front(m, P \o y, c.buf, <<>>) /\ Cat(Counted(S), d, n) = Whole(m) \o P
        /\ m \in Seq(Bytes) /\ Len(m) \in Counts \ {0} /\ P \in Seq(Bytes)
    BY <2>0, Zenon DEF FrontHead
  <2>. HIDE DEF m, P, y, e
  <2>6. /\ Stream!FirstMsg(c) = m
        /\ e \in Context /\ e.slip = c.slip /\ e.state = c.state
        /\ e.msg = c.msg - (Len(m) + 4) /\ e.buf \o <<>> = P \o y
    <3>1. c \in Context /\ Stream!ContainsMsg(c) # 0 /\ Front(m, P \o y, c.buf, <<>>)
      BY <1>2, <2>1
    <3>2. Dispatches(c, m, P \o y, <<>>)
      BY <3>1, DispatchIs
    <3>. QED
      BY <3>2, Zenon DEF Dispatches, e
  <2>7. e.buf = P \o y
    <3>1. e.buf \in Seq(Bytes)
      BY <2>6 DEF Context
    <3>2. e.buf \o <<>> = e.buf
      BY <3>1, AppendIs
    <3>. QED
      BY <2>6, <3>2, Zenon
  <2>8. e.msg = Len(P)
    <3>1. Whole(m) \in Seq(Bytes) /\ Len(Whole(m)) = Len(m) + 4 /\ Len(m) \in Nat
      BY <2>1, WholeIs
    <3>2. P \in Seq(Bytes)
      BY <2>1
    <3>3. Len(Whole(m) \o P) = Len(Whole(m)) + Len(P) /\ Len(P) \in Nat
      <4>1. Whole(m) \in Seq(Bytes)
        BY <3>1
      <4>. QED
        BY <3>2, <4>1, BytesConcat
    <3>4. c.msg = Len(Cat(Counted(S), d, n))
      BY <1>5 DEF Holds
    <3>5. c.msg = Len(m) + 4 + Len(P)
      BY <2>1, <3>1, <3>3, <3>4
    <3>. QED
      BY <2>6, <3>1, <3>3, <3>5
  <2>9. Holds(e, P, q)
    BY <1>2, <2>6, <2>7, <2>8, Zenon DEF Holds, y
  <2>. QED
    BY <2>6, <2>9 DEF e
<1>6. Stream!FirstMsg(c) = m /\ e.state = c.state
  BY <1>3, <1>5
<1>. HIDE DEF e
<1>7. \A q \in Seq(Bytes) : Len(q) \in Counts /\ Holds(c, Cat(Counted(S), d, n), q)
                             => Holds(e, P, q)
  BY <1>5
<1>8. SlipAt(e, w, S, d + 1, N, n)
  BY <1>1, <1>6, <1>7, SlipMoves
<1>9. n \in d + 1 .. N /\ d + 1 \in 0 .. N
  BY <1>4
<1>. QED
  BY <1>6, <1>8, <1>9 DEF SlipKept, e

(* A byte before a sequence.                                               *)
LEMMA ConsIndex ==
  ASSUME NEW x \in Bytes, NEW r \in Seq(Bytes)
  PROVE  /\ <<x>> \o r \in Seq(Bytes) /\ Len(<<x>> \o r) = Len(r) + 1 /\ Len(r) \in Nat
         /\ (<<x>> \o r)[1] = x
         /\ \A k \in 1 .. Len(r) : (<<x>> \o r)[k + 1] = r[k]
OBVIOUS

\* A message that starts with what no byte is put before.
Plainly(m) == Len(m) >= 4 /\ \A k \in 1 .. 4 : m[k] \in Stream!Printable \cup {0}

(* Such a byte is its own code.                                            *)
LEMMA CodePlain ==
  ASSUME NEW m \in Seq(Bytes), Plainly(m), NEW z \in Seq(Bytes), NEW j \in 0 .. 3
  PROVE  /\ SlipFrom(m, j) \o z = <<m[j + 1]>> \o (SlipFrom(m, j + 1) \o z)
         /\ SlipFrom(m, j) \o z \in Seq(Bytes) /\ SlipFrom(m, j + 1) \o z \in Seq(Bytes)
         /\ m[j + 1] \in Bytes
<1> DEFINE x == m[j + 1]
           t == SlipFrom(m, j + 1)
<1>1. j \in 0 .. Len(m) - 1 /\ j + 1 \in 0 .. Len(m) /\ j + 1 \in 1 .. Len(m) /\ j + 1 \in 1 .. 4
  BY DEF Plainly
<1>2. x \in Bytes /\ x \in Stream!Printable \cup {0}
  BY <1>1 DEF Plainly
<1>3. SlipFrom(m, j) = Stream!SlipByte(x) \o t /\ t \in Seq(Bytes)
  BY <1>1, SlipFromIs, Zenon
<1>. HIDE DEF x, t
<1>4. x \notin {Stream!END, Stream!ESC}
  BY <1>2 DEF Stream!END, Stream!ESC, Stream!Printable
<1>5. Stream!SlipByte(x) = <<x>>
  BY <1>2, <1>4, SlipByteIs
<1>6. <<x>> \in Seq(Bytes)
  BY <1>2
<1>7. (<<x>> \o t) \o z = <<x>> \o (t \o z) /\ t \o z \in Seq(Bytes)
  BY <1>3, <1>6, CatAssociative, BytesConcat
<1>8. <<x>> \o (t \o z) \in Seq(Bytes)
  BY <1>6, <1>7, BytesConcat
<1>. QED
  BY <1>2, <1>3, <1>5, <1>7, <1>8, Zenon DEF x, t

(* SLIP leaves its first four bytes alone.                                 *)
LEMMA CodeStarts ==
  ASSUME NEW m \in Seq(Bytes), Plainly(m), NEW z \in Seq(Bytes)
  PROVE  LET w == SlipFrom(m, 0) \o z
         IN  w \in Seq(Bytes) /\ Len(w) >= 4 /\ \A k \in 1 .. 4 : w[k] = m[k]
<1> DEFINE s(j) == SlipFrom(m, j) \o z
<1>1. ASSUME NEW j \in 0 .. 3
      PROVE  /\ s(j) = <<m[j + 1]>> \o s(j + 1) /\ s(j + 1) \in Seq(Bytes)
             /\ m[j + 1] \in Bytes
  BY CodePlain, Zenon
<1> DEFINE a == s(0)
           b == s(1)
           c == s(2)
           d == s(3)
           e == s(4)
<1>2. /\ a = <<m[1]>> \o b /\ b \in Seq(Bytes) /\ m[1] \in Bytes
      /\ b = <<m[2]>> \o c /\ c \in Seq(Bytes) /\ m[2] \in Bytes
      /\ c = <<m[3]>> \o d /\ d \in Seq(Bytes) /\ m[3] \in Bytes
      /\ d = <<m[4]>> \o e /\ e \in Seq(Bytes) /\ m[4] \in Bytes
  <2>1. 0 \in 0 .. 3 /\ 1 \in 0 .. 3 /\ 2 \in 0 .. 3 /\ 3 \in 0 .. 3
    OBVIOUS
  <2>2. 0 + 1 = 1 /\ 1 + 1 = 2 /\ 2 + 1 = 3 /\ 3 + 1 = 4
    OBVIOUS
  <2>. HIDE DEF s
  <2>. QED
    BY <1>1, <2>1, <2>2, Zenon
<1>. HIDE DEF a, b, c, d, e
<1>3. /\ d \in Seq(Bytes) /\ Len(d) = Len(e) + 1 /\ Len(e) \in Nat /\ d[1] = m[4]
  BY <1>2, ConsIndex
<1>4. /\ Len(c) = Len(d) + 1 /\ c[1] = m[3] /\ c[2] = m[4]
  <2>1. /\ Len(c) = Len(d) + 1 /\ c[1] = m[3]
        /\ \A k \in 1 .. Len(d) : c[k + 1] = d[k]
    BY <1>2, ConsIndex
  <2>2. 1 \in 1 .. Len(d) /\ 1 + 1 = 2
    BY <1>3
  <2>. QED
    BY <1>3, <2>1, <2>2
<1>5. /\ Len(b) = Len(c) + 1 /\ b[1] = m[2] /\ b[2] = m[3] /\ b[3] = m[4]
  <2>1. /\ Len(b) = Len(c) + 1 /\ b[1] = m[2]
        /\ \A k \in 1 .. Len(c) : b[k + 1] = c[k]
    BY <1>2, ConsIndex
  <2>2. 1 \in 1 .. Len(c) /\ 2 \in 1 .. Len(c) /\ 1 + 1 = 2 /\ 2 + 1 = 3
    BY <1>3, <1>4
  <2>. QED
    BY <1>4, <2>1, <2>2
<1>6. /\ a \in Seq(Bytes) /\ Len(a) = Len(b) + 1
      /\ a[1] = m[1] /\ a[2] = m[2] /\ a[3] = m[3] /\ a[4] = m[4]
  <2>1. /\ a \in Seq(Bytes) /\ Len(a) = Len(b) + 1 /\ a[1] = m[1]
        /\ \A k \in 1 .. Len(b) : a[k + 1] = b[k]
    BY <1>2, ConsIndex
  <2>2. /\ 1 \in 1 .. Len(b) /\ 2 \in 1 .. Len(b) /\ 3 \in 1 .. Len(b)
        /\ 1 + 1 = 2 /\ 2 + 1 = 3 /\ 3 + 1 = 4
    BY <1>3, <1>4, <1>5
  <2>. QED
    BY <1>5, <2>1, <2>2
<1>7. Len(a) >= 4
  BY <1>3, <1>4, <1>5, <1>6
<1>8. \A k \in 1 .. 4 : a[k] = m[k]
  BY <1>6
<1>. QED
  BY <1>6, <1>7, <1>8, Zenon DEF a, s

(* What is behind the first bytes of a stream.                             *)
LEMMA CodeSkips ==
  ASSUME NEW m \in Seq(Bytes), Plainly(m), NEW z \in Seq(Bytes), NEW k \in 0 .. 3
  PROVE  SlipFrom(m, 0) \o z = SubSeq(m, 1, k) \o (SlipFrom(m, k) \o z)
<1> DEFINE s(j) == SlipFrom(m, j) \o z
           t(j) == SubSeq(m, 1, j)
           G(j) == s(0) = t(j) \o s(j)
<1>1. ASSUME NEW j \in 0 .. 3
      PROVE  /\ s(j) = <<m[j + 1]>> \o s(j + 1) /\ s(j) \in Seq(Bytes) /\ s(j + 1) \in Seq(Bytes)
             /\ m[j + 1] \in Bytes
  BY CodePlain, Zenon
<1>2. ASSUME NEW j \in 0 .. 2
      PROVE  t(j) \in Seq(Bytes) /\ t(j + 1) = t(j) \o <<m[j + 1]>>
  <2>1. j \in 0 .. Len(m) - 1 /\ j \in 0 .. 3
    BY DEF Plainly
  <2>2. Append(t(j), m[j + 1]) = t(j + 1) /\ t(j) \in Seq(Bytes) /\ m[j + 1] \in Bytes
    BY <2>1, PrefixAppend
  <2>. HIDE DEF t
  <2>. QED
    BY <2>2, AppendIs, Zenon
<1>3. G(0)
  <2>1. t(0) = <<>> /\ 0 \in 0 .. 3
    OBVIOUS
  <2>2. s(0) \in Seq(Bytes)
    BY <1>1, <2>1
  <2>. HIDE DEF s, t
  <2>3. <<>> \o s(0) = s(0)
    BY <2>2, AppendIs
  <2>. QED
    BY <2>1, <2>3, Zenon
<1>4. ASSUME NEW j \in 0 .. 2, G(j) PROVE G(j + 1)
  <2>1. j \in 0 .. 3
    OBVIOUS
  <2> DEFINE x == m[j + 1]
             u == t(j)
             v == s(j + 1)
  <2>2. s(j) = <<x>> \o v /\ v \in Seq(Bytes) /\ x \in Bytes
    BY <1>1, <2>1
  <2>3. u \in Seq(Bytes) /\ t(j + 1) = u \o <<x>>
    BY <1>2
  <2>4. s(0) = u \o s(j)
    BY <1>4
  <2>. HIDE DEF x, u, v
  <2>5. <<x>> \in Seq(Bytes)
    BY <2>2
  <2>6. (u \o <<x>>) \o v = u \o (<<x>> \o v)
    BY <2>2, <2>3, <2>5, CatAssociative, Zenon
  <2>7. s(0) = t(j + 1) \o v
    BY <2>2, <2>3, <2>4, <2>6, Zenon
  <2>. QED
    BY <2>7 DEF v
<1>. HIDE DEF G
<1>5. G(0) /\ G(1) /\ G(2) /\ G(3)
  <2>1. G(0 + 1)
    BY <1>3, <1>4
  <2>2. G(1)
    BY <2>1
  <2>3. G(1 + 1)
    BY <1>4, <2>2
  <2>4. G(2)
    BY <2>3
  <2>5. G(2 + 1)
    BY <1>4, <2>4
  <2>. QED
    BY <1>3, <2>2, <2>4, <2>5
<1>6. k = 0 \/ k = 1 \/ k = 2 \/ k = 3
  OBVIOUS
<1>7. G(k)
  BY <1>5, <1>6
<1>. QED
  BY <1>7 DEF G

\* The start of the first message of a SLIP peer.
Detectable(S) == S # <<>> => Plainly(S[1]) /\ Stream!DetectSlip(S[1])

\* The messages as a handler sees them, when the first a bytes of their stream
\* were read before it was known as SLIP.
Zeroed(S, a) == [k \in 1 .. Len(S) |-> IF k = 1 THEN Stream!Blanked(S[k], a) ELSE S[k]]

(* A message with blanks at its start.                                     *)
LEMMA BlankedIs ==
  ASSUME NEW m \in Seq(Bytes), NEW a \in 0 .. 3
  PROVE  LET q == Stream!Blanked(m, a)
         IN  /\ q \in Seq(Bytes) /\ Len(q) = Len(m)
             /\ \A k \in 1 .. Len(m) : q[k] = IF k <= a THEN 0 ELSE m[k]
             /\ a = 0 => q = m
<1> DEFINE q == Stream!Blanked(m, a)
<1>1. q = [k \in 1 .. Len(m) |-> IF k <= a THEN 0 ELSE m[k]]
  BY Zenon DEF Stream!Blanked
<1>2. \A k \in 1 .. Len(m) : m[k] \in Bytes
  OBVIOUS
<1>3. 0 \in Bytes /\ Len(m) \in Nat
  BY DEF Bytes
<1>. HIDE DEF q
<1>4. /\ q \in Seq(Bytes) /\ Len(q) = Len(m)
      /\ \A k \in 1 .. Len(m) : q[k] = IF k <= a THEN 0 ELSE m[k]
  <2>. HIDE DEF Bytes
  <2>. QED
    BY <1>1, <1>2, <1>3
<1>5. ASSUME a = 0 PROVE q = m
  <2>1. \A k \in 1 .. Len(q) : q[k] = m[k]
    BY <1>4, <1>5
  <2>. QED
    BY <1>4, <2>1, SameSeq
<1>. QED
  BY <1>4, <1>5 DEF q

(* Only the first message has blanks.                                      *)
LEMMA ZeroedIs ==
  ASSUME NEW S \in Messages, NEW a \in 0 .. 3
  PROVE  /\ Zeroed(S, a) \in Messages /\ Len(Zeroed(S, a)) = Len(S) /\ Len(S) \in Nat
         /\ \A k \in 1 .. Len(S) : /\ Len(Zeroed(S, a)[k]) = Len(S[k])
                                   /\ k # 1 \/ a = 0 => Zeroed(S, a)[k] = S[k]
         /\ S # <<>> => Zeroed(S, a)[1] = Stream!Blanked(S[1], a)
<1> DEFINE Z == Zeroed(S, a)
<1>1. /\ S \in Seq(Seq(Bytes)) /\ Len(S) \in Nat
      /\ \A k \in 1 .. Len(S) : S[k] \in Seq(Bytes) /\ Len(S[k]) \in Counts \ {0}
  BY CountedIs
<1>2. Z = [k \in 1 .. Len(S) |-> IF k = 1 THEN Stream!Blanked(S[k], a) ELSE S[k]]
  BY DEF Zeroed
<1>. HIDE DEF Z
<1>3. ASSUME NEW k \in 1 .. Len(S)
      PROVE  /\ Z[k] = IF k = 1 THEN Stream!Blanked(S[k], a) ELSE S[k]
             /\ Z[k] \in Seq(Bytes) /\ Len(Z[k]) = Len(S[k])
             /\ k # 1 \/ a = 0 => Z[k] = S[k]
  <2>1. Z[k] = IF k = 1 THEN Stream!Blanked(S[k], a) ELSE S[k]
    BY <1>2
  <2>2. S[k] \in Seq(Bytes)
    BY <1>1
  <2>3. /\ Stream!Blanked(S[k], a) \in Seq(Bytes) /\ Len(Stream!Blanked(S[k], a)) = Len(S[k])
        /\ a = 0 => Stream!Blanked(S[k], a) = S[k]
    BY <2>2, BlankedIs, Zenon
  <2>. QED
    BY <2>1, <2>2, <2>3, Zenon
<1>4. Z \in Seq(Seq(Bytes)) /\ Len(Z) = Len(S)
  <2>1. Z = [k \in 1 .. Len(S) |-> Z[k]]
    BY <1>2, Zenon
  <2>2. \A k \in 1 .. Len(S) : Z[k] \in Seq(Bytes)
    BY <1>3
  <2>. QED
    BY <1>1, <2>1, <2>2
<1>5. Z \in Messages
  <2>1. \A k \in 1 .. Len(Z) : Len(Z[k]) \in Counts \ {0}
    <3>1. ASSUME NEW k \in 1 .. Len(S) PROVE Len(Z[k]) \in Counts \ {0}
      BY <1>1, <1>3, Zenon
    <3>. QED
      BY <1>4, <3>1, Zenon
  <2>. QED
    BY <1>4, <2>1, Zenon DEF Messages
<1>6. ASSUME S # <<>> PROVE Z[1] = Stream!Blanked(S[1], a)
  <2>1. 1 \in 1 .. Len(S)
    BY <1>1, <1>6
  <2>. QED
    BY <1>3, <2>1, Zenon
<1>. QED
  BY <1>1, <1>3, <1>4, <1>5, <1>6, Zenon DEF Z

(* The code of the end of a message depends on nothing before it.          *)
LEMMA SlipFromSame ==
  ASSUME NEW m \in Seq(Bytes), NEW q \in Seq(Bytes), Len(m) = Len(q), NEW k \in 0 .. Len(m),
         \A i \in k + 1 .. Len(m) : m[i] = q[i]
  PROVE  SlipFrom(m, k) = SlipFrom(q, k)
<1> DEFINE n == Len(m)
           G == {i \in Nat : i <= n - k => SlipFrom(m, n - i) = SlipFrom(q, n - i)}
<1>1. n \in Nat /\ k \in Nat /\ k <= n /\ Len(q) = n
  OBVIOUS
<1>2. 0 \in G
  <2>1. SlipFrom(m, n) = <<Stream!END>> /\ SlipFrom(q, n) = <<Stream!END>>
    <3>1. SlipFrom(m, Len(m)) = <<Stream!END>> /\ SlipFrom(q, Len(q)) = <<Stream!END>>
      BY SlipFromIs
    <3>. QED
      BY <3>1, Zenon
  <2>2. n - 0 = n
    BY <1>1
  <2>. QED
    BY <2>1, <2>2
<1>3. ASSUME NEW i \in Nat, i \in G PROVE i + 1 \in G
  <2>1. ASSUME i + 1 <= n - k
        PROVE  SlipFrom(m, n - (i + 1)) = SlipFrom(q, n - (i + 1))
    <3> DEFINE j == n - (i + 1)
    <3>1. j \in 0 .. Len(m) - 1 /\ j \in 0 .. Len(q) - 1 /\ j + 1 = n - i /\ i <= n - k
          /\ j + 1 \in k + 1 .. Len(m)
      BY <1>1, <2>1
    <3>2. SlipFrom(m, n - i) = SlipFrom(q, n - i)
      BY <1>3, <3>1
    <3>. HIDE DEF j
    <3>3. m[j + 1] = q[j + 1] /\ SlipFrom(m, j + 1) = SlipFrom(q, j + 1)
      BY <3>1, <3>2, Zenon
    <3>4. /\ SlipFrom(m, j) = Stream!SlipByte(m[j + 1]) \o SlipFrom(m, j + 1)
          /\ SlipFrom(q, j) = Stream!SlipByte(q[j + 1]) \o SlipFrom(q, j + 1)
      BY <3>1, SlipFromIs
    <3>5. SlipFrom(m, j) = SlipFrom(q, j)
      BY <3>3, <3>4, Zenon
    <3>. QED
      BY <3>5 DEF j
  <2>. QED
    BY <2>1
<1>4. \A i \in Nat : i \in G
  <2>. HIDE DEF G
  <2>. QED
    BY <1>2, <1>3, SetInduction, Zenon
<1>5. n - k \in Nat /\ n - (n - k) = k
  BY <1>1
<1>6. n - k <= n - k => SlipFrom(m, n - (n - k)) = SlipFrom(q, n - (n - k))
  <2>1. n - k \in G
    BY <1>4, <1>5, Zenon
  <2>. QED
    BY <2>1, Zenon
<1>7. n - k <= n - k
  BY <1>5
<1>. QED
  BY <1>5, <1>6, <1>7, Zenon

(* Sequences that are put together depend on nothing before the first.     *)
LEMMA CatSame ==
  ASSUME NEW xs \in Seq(Seq(Bytes)), NEW ys \in Seq(Seq(Bytes)), Len(xs) = Len(ys),
         NEW a \in 0 .. Len(xs), \A k \in a + 1 .. Len(xs) : xs[k] = ys[k],
         NEW b \in a .. Len(xs)
  PROVE  Cat(xs, a, b) = Cat(ys, a, b)
<1> DEFINE n == Len(xs)
           G == {i \in Nat : a + i <= n => Cat(xs, a, a + i) = Cat(ys, a, a + i)}
<1>1. n \in Nat /\ a \in Nat /\ a \in 0 .. Len(ys) /\ Len(ys) = n
  OBVIOUS
<1>2. /\ Cat(xs, a, a) = <<>> /\ Cat(ys, a, a) = <<>>
      /\ \A c \in a .. n - 1 : Cat(xs, a, c + 1) = Cat(xs, a, c) \o xs[c + 1]
      /\ \A c \in a .. n - 1 : Cat(ys, a, c + 1) = Cat(ys, a, c) \o ys[c + 1]
  <2>1. /\ Cat(xs, a, a) = <<>>
        /\ \A c \in a .. Len(xs) - 1 : Cat(xs, a, c + 1) = Cat(xs, a, c) \o xs[c + 1]
    BY CatLast, Zenon
  <2>2. /\ Cat(ys, a, a) = <<>>
        /\ \A c \in a .. Len(ys) - 1 : Cat(ys, a, c + 1) = Cat(ys, a, c) \o ys[c + 1]
    BY <1>1, CatLast, Zenon
  <2>. QED
    BY <1>1, <2>1, <2>2, Zenon
<1>3. 0 \in G
  BY <1>1, <1>2
<1>4. ASSUME NEW i \in Nat, i \in G PROVE i + 1 \in G
  <2>1. ASSUME a + (i + 1) <= n
        PROVE  Cat(xs, a, a + (i + 1)) = Cat(ys, a, a + (i + 1))
    <3> DEFINE c == a + i
    <3>1. c \in a .. n - 1 /\ c + 1 = a + (i + 1) /\ c <= n /\ c + 1 \in a + 1 .. n
      <4>1. n \in Nat /\ a \in Nat /\ i \in Nat /\ a + (i + 1) <= n
        BY <1>1, <2>1, Zenon
      <4>. HIDE DEF n
      <4>. QED
        BY <4>1
    <3>2. Cat(xs, a, c) = Cat(ys, a, c)
      BY <1>4, <3>1, Zenon
    <3>. HIDE DEF c, n
    <3>3. xs[c + 1] = ys[c + 1]
      BY <3>1, Zenon DEF n
    <3>4. Cat(xs, a, c + 1) = Cat(ys, a, c + 1)
      BY <1>2, <3>1, <3>2, <3>3, Zenon
    <3>. QED
      BY <3>1, <3>4, Zenon
  <2>. QED
    BY <2>1
<1>5. \A i \in Nat : i \in G
  <2>. HIDE DEF G
  <2>. QED
    BY <1>3, <1>4, SetInduction, Zenon
<1>6. b - a \in Nat /\ a + (b - a) = b /\ b <= n
  BY <1>1
<1>. QED
  BY <1>5, <1>6

(* Behind the first message nothing is blank.                              *)
LEMMA ZeroedBehind ==
  ASSUME NEW S \in Messages, NEW a \in 0 .. 3, NEW N \in 1 .. Len(S)
  PROVE  Cat(Slipped(Zeroed(S, a)), 1, N) = Cat(Slipped(S), 1, N)
<1> DEFINE Z == Zeroed(S, a)
           xs == Slipped(Z)
           ys == Slipped(S)
<1>1. /\ Z \in Messages /\ Len(Z) = Len(S) /\ Len(S) \in Nat
      /\ \A k \in 1 .. Len(S) : k # 1 => Z[k] = S[k]
  BY ZeroedIs
<1>. HIDE DEF Z
<1>2. /\ xs \in Seq(Seq(Bytes)) /\ Len(xs) = Len(Z)
      /\ \A k \in 1 .. Len(Z) : xs[k] = SlipFrom(Z[k], 0)
  BY <1>1, SlippedIs
<1>3. /\ ys \in Seq(Seq(Bytes)) /\ Len(ys) = Len(S)
      /\ \A k \in 1 .. Len(S) : ys[k] = SlipFrom(S[k], 0)
  BY SlippedIs
<1>. HIDE DEF xs, ys
<1>4. ASSUME NEW k \in 1 + 1 .. Len(xs) PROVE xs[k] = ys[k]
  <2>1. k \in 1 .. Len(S) /\ k \in 1 .. Len(Z) /\ k # 1
    BY <1>1, <1>2
  <2>2. xs[k] = SlipFrom(Z[k], 0) /\ ys[k] = SlipFrom(S[k], 0) /\ Z[k] = S[k]
    BY <1>1, <1>2, <1>3, <2>1, Zenon
  <2>. QED
    BY <2>2, Zenon
<1>5. Len(xs) = Len(ys) /\ 1 \in 0 .. Len(xs) /\ N \in 1 .. Len(xs)
  BY <1>1, <1>2, <1>3
<1>. QED
  BY <1>2, <1>3, <1>4, <1>5, CatSame, Zenon DEF xs, ys, Z

\* A context of SLIP while the stream is not known as such.
Fresh(c, w, S, d, N) ==
  /\ c \in Context /\ c.slip = -1 /\ c.state = 0 /\ c.msg = 0 /\ Len(c.buf) < 4
  /\ d = 0 /\ w \in Seq(Bytes) /\ c.buf \o w = Cat(Slipped(S), 0, N)
\* A context of a stream, SLIP or not, of which the first a bytes were lost.
Kept(slip, c, w, S, d, N, a) ==
  IF slip
  THEN Fresh(c, w, S, d, N) \/ (SlipKept(c, w, Zeroed(S, a), d, N) /\ (a = 0 \/ N >= 1))
  ELSE a = 0 /\ PlainKept(c, w, S, d, N)

(* Within a SLIP message there is more to come.                            *)
LEMMA WithinMore ==
  ASSUME NEW P, NEW z \in Seq(Bytes), NEW m \in Seq(Bytes), NEW j \in 0 .. Len(m),
         NEW c, NEW w, Within(c, w, P, m, j, z)
  PROVE  w # <<>>
<1>1. CASE w = SlipFrom(m, j) \o z
  BY <1>1, SlipFromSome
<1>2. CASE /\ j < Len(m) /\ m[j + 1] \in Special
           /\ w = <<Code(m[j + 1])>> \o (SlipFrom(m, j + 1) \o z)
  <2>1. j + 1 \in 0 .. Len(m)
    BY <1>2
  <2>2. SlipFrom(m, j + 1) \o z \in Seq(Bytes)
    BY <2>1, SlipFromSome
  <2>3. Code(m[j + 1]) \in Bytes
    BY SlipBytesDiffer DEF Code
  <2>. QED
    BY <1>2, <2>2, <2>3, ConsFacts
<1>. QED
  BY <1>1, <1>2, Zenon DEF Within

(* Without a whole message in the buffer: when nothing is to come, all was *)
(* dispatched, and when the greatest buffer is full, the next is unfit.    *)
LEMMA PlainEnds ==
  ASSUME NEW S \in Messages, NEW N \in 0 .. Len(S), NEW d \in 0 .. N,
         NEW c, NEW w, PlainKept(c, w, S, d, N), Stream!ContainsMsg(c) = 0,
         MaxMsgSize \in Nat, 5 <= MaxMsgSize
  PROVE  /\ w = <<>> => d = N
         /\ Len(c.buf) >= MaxMsgSize => d < N /\ Len(S[d + 1]) + 4 > MaxMsgSize
<1> DEFINE m == S[d + 1]
           z == Cat(Counted(S), d + 1, N)
<1>1. d = N => c.buf = <<>>
  BY PlainFront
<1>2. c \in Context
  BY DEF PlainKept
<1>3. ASSUME d < N
      PROVE  /\ w # <<>>
             /\ Len(c.buf) >= MaxMsgSize => Len(m) + 4 > MaxMsgSize
  <2>1. Front(m, z, c.buf, w)
    BY <1>3, PlainFront
  <2>. HIDE DEF m, z
  <2>2. /\ Len(c.buf) >= Len(m) + 4 => Stream!ContainsMsg(c) = Len(m)
        /\ Len(c.buf) \in Nat /\ Len(m) \in Nat \ {0}
    BY <1>2, <2>1, ContainsFront, Zenon
  <2>3. Len(c.buf) < Len(m) + 4
    BY <2>2
  <2>4. w # <<>>
    <3>1. /\ c.buf \in Seq(Bytes) /\ z \in Seq(Bytes) /\ m \in Seq(Bytes)
          /\ Len(m) \in Counts \ {0} /\ c.buf \o w = Whole(m) \o z
      BY <2>1 DEF Front
    <3>2. Whole(m) \in Seq(Bytes) /\ Len(Whole(m)) = Len(m) + 4
      BY <3>1, WholeIs
    <3>3. Len(Whole(m) \o z) = Len(m) + 4 + Len(z) /\ Len(z) \in Nat
      <4>1. Len(Whole(m) \o z) = Len(Whole(m)) + Len(z) /\ Len(z) \in Nat
        BY <3>1, <3>2, BytesConcat, Zenon
      <4>. QED
        BY <3>2, <4>1
    <3>4. ASSUME w = <<>> PROVE FALSE
      <4>1. c.buf \o <<>> = c.buf
        BY <3>1, AppendIs
      <4>2. c.buf = Whole(m) \o z
        BY <3>1, <3>4, <4>1, Zenon
      <4>. QED
        BY <2>2, <2>3, <3>3, <4>2
    <3>. QED
      BY <3>4, Zenon
  <2>5. Len(c.buf) >= MaxMsgSize => Len(m) + 4 > MaxMsgSize
    BY <2>2, <2>3
  <2>. QED
    BY <2>4, <2>5
<1>4. d = N => ~(Len(c.buf) >= MaxMsgSize)
  <2>1. Len(<<>>) = 0
    OBVIOUS
  <2>. QED
    BY <1>1, <2>1
<1>5. d = N \/ d < N
  OBVIOUS
<1>. QED
  BY <1>3, <1>4, <1>5

(* The same for SLIP.                                                      *)
LEMMA SlipEnds ==
  ASSUME NEW S \in Messages, NEW N \in 0 .. Len(S), NEW d \in 0 .. N,
         NEW c, NEW w, SlipKept(c, w, S, d, N), Stream!ContainsMsg(c) = 0,
         MaxMsgSize \in Nat, 5 <= MaxMsgSize
  PROVE  /\ w = <<>> => d = N
         /\ Len(c.buf) >= MaxMsgSize => d < N /\ Len(S[d + 1]) + 5 > MaxMsgSize
<1>1. PICK n \in d .. N : SlipAt(c, w, S, d, N, n)
  BY DEF SlipKept
<1>2. c \in Context
  BY SlipKeptContext
<1>6. n \in 0 .. Len(S) /\ d \in 0 .. n /\ n \in 0 .. N
  BY CountedIs
<1>3. d = n
  <2>1. PICK q \in Seq(Bytes) : Len(q) \in Counts /\ Holds(c, Cat(Counted(S), d, n), q)
    BY <1>1, SlipHolds
  <2>3. PICK h \in Heads : c.buf = Cat(Counted(S), d, n) \o (h \o q)
    BY <2>1 DEF Holds
  <2>2. d < n => Stream!ContainsMsg(c) = Len(S[d + 1]) /\ Len(S[d + 1]) \in Nat \ {0}
    <3>1. HeldWhole(c, S, d, n, q)
      BY <1>6, <2>1, Zenon DEF HeldWhole
    <3>. QED
      BY <3>1, HeldFront, Zenon DEF FrontHead
  <2>. QED
    BY <2>2
<1> DEFINE P == Cat(Counted(S), d, n)
<1>7. \A q \in Seq(Bytes) : Len(q) \in Counts /\ Holds(c, P, q) => Len(c.buf) = 4 + Len(q)
  <2>1. SUFFICES ASSUME NEW q \in Seq(Bytes), Len(q) \in Counts, Holds(c, P, q)
                 PROVE  Len(c.buf) = 4 + Len(q)
    OBVIOUS
  <2>3. PICK h \in Heads : c.buf = Cat(Counted(S), d, n) \o (h \o q)
    BY <2>1 DEF Holds
  <2>2. d = n => Stream!ContainsMsg(c) = 0 /\ Len(c.buf) = 4 + Len(q)
    <3>1. HeldWhole(c, S, d, n, q)
      BY <1>6, <2>1, Zenon DEF HeldWhole
    <3>. QED
      BY <3>1, HeldFront, Zenon DEF FrontHead
  <2>. QED
    BY <1>3, <2>2
<1>8. ASSUME n < N
      PROVE  /\ Cat(Slipped(S), n, N) = SlipFrom(S[n + 1], 0) \o Cat(Slipped(S), n + 1, N)
             /\ S[n + 1] \in Seq(Bytes) /\ Cat(Slipped(S), n + 1, N) \in Seq(Bytes)
             /\ Len(S[n + 1]) \in Counts
  <2>1. n + 1 \in 1 .. Len(S)
    BY <1>6, <1>8, CountedIs
  <2>2. Len(S[n + 1]) \in Counts
    BY <2>1, CountedIs, Zenon
  <2>. QED
    BY <1>6, <1>8, <2>2, SlippedFront
<1>4. ASSUME Behind(c, w, P, Cat(Slipped(S), n, N))
      PROVE  (w = <<>> => d = N) /\ ~(Len(c.buf) >= MaxMsgSize)
  <2>1. Holds(c, P, <<>>) /\ w = Cat(Slipped(S), n, N)
    BY <1>4 DEF Behind
  <2>2. Len(c.buf) = 4
    <3>1. <<>> \in Seq(Bytes) /\ Len(<<>>) = 0 /\ Len(<<>>) \in Counts
      BY DEF Counts
    <3>2. Len(c.buf) = 4 + Len(<<>>)
      BY <1>7, <2>1, <3>1, Zenon
    <3>. QED
      BY <3>1, <3>2
  <2>3. n < N => w # <<>>
    <3>1. ASSUME n < N PROVE w # <<>>
      <4>3. /\ Cat(Slipped(S), n, N) = SlipFrom(S[n + 1], 0) \o Cat(Slipped(S), n + 1, N)
            /\ S[n + 1] \in Seq(Bytes) /\ Cat(Slipped(S), n + 1, N) \in Seq(Bytes)
        BY <3>1, <1>8
      <4>1. /\ w = SlipFrom(S[n + 1], 0) \o Cat(Slipped(S), n + 1, N)
            /\ S[n + 1] \in Seq(Bytes) /\ Cat(Slipped(S), n + 1, N) \in Seq(Bytes)
        BY <2>1, <4>3, Zenon
      <4>2. 0 \in 0 .. Len(S[n + 1])
        BY <4>1
      <4>. QED
        BY <4>1, <4>2, SlipFromSome
    <3>. QED
      BY <3>1
  <2>. QED
    BY <1>3, <2>2, <2>3
<1>5. ASSUME n < N, NEW j \in 0 .. Len(S[n + 1]),
             Within(c, w, P, S[n + 1], j, Cat(Slipped(S), n + 1, N))
      PROVE  w # <<>> /\ (Len(c.buf) >= MaxMsgSize => Len(S[n + 1]) + 5 > MaxMsgSize)
  <2> DEFINE m == S[n + 1]
             z == Cat(Slipped(S), n + 1, N)
  <2>1. m \in Seq(Bytes) /\ z \in Seq(Bytes) /\ Len(m) \in Counts
    BY <1>5, <1>8
  <2>2. j \in 0 .. Len(m) /\ Within(c, w, P, m, j, z)
    BY <1>5
  <2>. HIDE DEF m, z
  <2>3. w # <<>>
    BY <2>1, <2>2, WithinMore
  <2>4. SubSeq(m, 1, j) \in Seq(Bytes) /\ Len(SubSeq(m, 1, j)) = j
    BY <2>1, <2>2, TakeDrop
  <2>5. Len(c.buf) = 4 + j
    <3>3. Len(SubSeq(m, 1, j)) \in Counts
      <4>1. j \in Nat /\ j <= Len(m)
        BY <2>1, <2>2
      <4>. QED
        BY <2>1, <2>4, <4>1 DEF Counts
    <3>1. Holds(c, P, SubSeq(m, 1, j))
      BY <2>2 DEF Within
    <3>2. Len(c.buf) = 4 + Len(SubSeq(m, 1, j))
      BY <1>7, <2>4, <3>1, <3>3, Zenon
    <3>. QED
      BY <2>4, <3>2
  <2>6. j \in Nat /\ j <= Len(m) /\ Len(m) \in Nat
    BY <2>1, <2>2
  <2>7. Len(c.buf) >= MaxMsgSize => Len(m) + 5 > MaxMsgSize
    BY <2>5, <2>6
  <2>. QED
    BY <2>3, <2>7 DEF m
<1>. QED
  <2>1. CASE Behind(c, w, P, Cat(Slipped(S), n, N))
    BY <1>4, <2>1
  <2>2. CASE n < N /\ \E j \in 0 .. Len(S[n + 1]) :
                        Within(c, w, P, S[n + 1], j, Cat(Slipped(S), n + 1, N))
    BY <1>3, <1>5, <2>2
  <2>. QED
    BY <1>1, <2>1, <2>2, Zenon DEF SlipAt

(* What a peer sends comes behind what it has sent.                        *)
LEMMA CatSend ==
  ASSUME NEW S \in Messages, NEW N \in 0 .. Len(S) - 1, NEW n \in 0 .. N
  PROVE  /\ Cat(Counted(S), n, N + 1) = Cat(Counted(S), n, N) \o Whole(S[N + 1])
         /\ Cat(Slipped(S), n, N + 1) = Cat(Slipped(S), n, N) \o SlipFrom(S[N + 1], 0)
         /\ Whole(S[N + 1]) \in Seq(Bytes) /\ SlipFrom(S[N + 1], 0) \in Seq(Bytes)
         /\ Stream!SlipEncode(S[N + 1]) = SlipFrom(S[N + 1], 0)
         /\ S[N + 1] \in Seq(Bytes) /\ Len(S[N + 1]) \in Counts \ {0}
<1> DEFINE xs == Counted(S)
           ys == Slipped(S)
<1>1. N + 1 \in 1 .. Len(S) /\ n \in 0 .. Len(S) /\ N \in n .. Len(S) - 1 /\ Len(S) \in Nat
  BY CountedIs
<1>2. /\ xs \in Seq(Seq(Bytes)) /\ Len(xs) = Len(S) /\ xs[N + 1] = Whole(S[N + 1])
      /\ S[N + 1] \in Seq(Bytes) /\ Len(S[N + 1]) \in Counts \ {0}
  BY <1>1, CountedIs, Zenon
<1>3. /\ ys \in Seq(Seq(Bytes)) /\ Len(ys) = Len(S) /\ ys[N + 1] = SlipFrom(S[N + 1], 0)
  BY <1>1, SlippedIs
<1>4. ys[N + 1] = Stream!SlipEncode(S[N + 1])
  BY <1>1 DEF Slipped
<1>5. xs[N + 1] \in Seq(Bytes) /\ ys[N + 1] \in Seq(Bytes)
  BY <1>1, <1>2, <1>3
<1>. HIDE DEF xs, ys
<1>6. Cat(xs, n, N + 1) = Cat(xs, n, N) \o xs[N + 1]
  <2>1. n \in 0 .. Len(xs) /\ N \in n .. Len(xs) - 1
    BY <1>1, <1>2
  <2>2. \A b \in n .. Len(xs) - 1 : Cat(xs, n, b + 1) = Cat(xs, n, b) \o xs[b + 1]
    BY <1>2, <2>1, CatLast, Zenon
  <2>. QED
    BY <2>1, <2>2
<1>7. Cat(ys, n, N + 1) = Cat(ys, n, N) \o ys[N + 1]
  <2>1. n \in 0 .. Len(ys) /\ N \in n .. Len(ys) - 1
    BY <1>1, <1>3
  <2>2. \A b \in n .. Len(ys) - 1 : Cat(ys, n, b + 1) = Cat(ys, n, b) \o ys[b + 1]
    BY <1>3, <2>1, CatLast, Zenon
  <2>. QED
    BY <2>1, <2>2
<1>. QED
  BY <1>2, <1>3, <1>4, <1>5, <1>6, <1>7, Zenon DEF xs, ys

(* Without a whole message in the buffer: when nothing is to come, all was *)
(* dispatched, and when the greatest buffer is full, the next is unfit.    *)
LEMMA KeptEnds ==
  ASSUME NEW S \in Messages, NEW N \in 0 .. Len(S), NEW d \in 0 .. N, NEW a \in 0 .. 3,
         NEW slip, NEW c, NEW w, Kept(slip, c, w, S, d, N, a), Stream!ContainsMsg(c) = 0,
         slip => Detectable(S), MaxMsgSize \in Nat, 5 <= MaxMsgSize
  PROVE  /\ w = <<>> => d = N
         /\ Len(c.buf) >= MaxMsgSize =>
              /\ d < N /\ (slip => Len(S[d + 1]) + 5 > MaxMsgSize)
              /\ ~slip => Len(S[d + 1]) + 4 > MaxMsgSize
<1>1. CASE ~slip
  <2>1. PlainKept(c, w, S, d, N)
    BY <1>1 DEF Kept
  <2>2. /\ w = <<>> => d = N
        /\ Len(c.buf) >= MaxMsgSize => d < N /\ Len(S[d + 1]) + 4 > MaxMsgSize
    BY <2>1, PlainEnds
  <2>. QED
    BY <1>1, <2>2
<1>2. CASE slip /\ SlipKept(c, w, Zeroed(S, a), d, N)
  <2> DEFINE Z == Zeroed(S, a)
  <2>1. /\ Z \in Messages /\ N \in 0 .. Len(Z)
        /\ \A k \in 1 .. Len(S) : Len(Z[k]) = Len(S[k])
    BY ZeroedIs
  <2>. HIDE DEF Z
  <2>2. SlipKept(c, w, Z, d, N)
    BY <1>2 DEF Z
  <2>3. /\ w = <<>> => d = N
        /\ Len(c.buf) >= MaxMsgSize => d < N /\ Len(Z[d + 1]) + 5 > MaxMsgSize
    BY <2>1, <2>2, SlipEnds
  <2>4. d < N => Len(Z[d + 1]) = Len(S[d + 1])
    <3>1. d < N => d + 1 \in 1 .. Len(S)
      OBVIOUS
    <3>. QED
      BY <2>1, <3>1
  <2>. QED
    BY <1>2, <2>3, <2>4
<1>3. CASE slip /\ Fresh(c, w, S, d, N)
  <2>1. /\ c.buf \in Seq(Bytes) /\ Len(c.buf) < 4 /\ d = 0 /\ w \in Seq(Bytes)
        /\ c.buf \o w = Cat(Slipped(S), 0, N)
    BY <1>3 DEF Fresh, Context
  <2>2. ~(Len(c.buf) >= MaxMsgSize)
    <3>1. Len(c.buf) \in Nat
      BY <2>1
    <3>. QED
      BY <2>1, <3>1
  <2>3. ASSUME 0 < N PROVE w # <<>>
    <3> DEFINE m == S[1]
               z == Cat(Slipped(S), 1, N)
               y == SlipFrom(m, 0) \o z
    <3>1. y = Cat(Slipped(S), 0, N) /\ m \in Seq(Bytes) /\ z \in Seq(Bytes)
      <4>1. 0 \in 0 .. N /\ 0 + 1 = 1
        OBVIOUS
      <4>2. /\ Cat(Slipped(S), 0, N) = SlipFrom(S[0 + 1], 0) \o Cat(Slipped(S), 0 + 1, N)
            /\ S[0 + 1] \in Seq(Bytes) /\ Cat(Slipped(S), 0 + 1, N) \in Seq(Bytes)
        BY <2>3, <4>1, SlippedFront, Zenon
      <4>. QED
        BY <4>1, <4>2, Zenon
    <3>2. Plainly(m)
      <4>1. S # <<>>
        BY <2>3
      <4>. QED
        BY <1>3, <4>1 DEF Detectable
    <3>. HIDE DEF m, z
    <3>3. Len(y) >= 4
      BY <3>1, <3>2, CodeStarts, Zenon
    <3>4. c.buf \o w = y
      BY <2>1, <3>1, Zenon
    <3>. HIDE DEF y
    <3>5. ASSUME w = <<>> PROVE FALSE
      <4>1. c.buf \o <<>> = c.buf
        BY <2>1, AppendIs
      <4>2. y = c.buf
        BY <3>4, <3>5, <4>1, Zenon
      <4>. QED
        BY <2>1, <3>3, <4>2
    <3>. QED
      BY <3>5, Zenon
  <2>4. N = 0 \/ 0 < N
    OBVIOUS
  <2>. QED
    BY <2>1, <2>2, <2>3, <2>4
<1>. QED
  BY <1>1, <1>2, <1>3 DEF Kept

(* The next message is dispatched as it is to be seen.                     *)
LEMMA KeptDispatch ==
  ASSUME NEW S \in Messages, NEW N \in 0 .. Len(S), NEW d \in 0 .. N, NEW a \in 0 .. 3,
         NEW slip, NEW c, NEW w, Kept(slip, c, w, S, d, N, a), Stream!ContainsMsg(c) # 0,
         MaxMsgSize \in Nat
  PROVE  /\ d + 1 \in 0 .. N /\ Stream!FirstMsg(c) = Zeroed(S, a)[d + 1]
         /\ Kept(slip, Stream!AfterDispatch(c), w, S, d + 1, N, a)
         /\ ~slip => Len(S[d + 1]) + 4 <= MaxMsgSize
<1>1. CASE ~slip
  <2>1. PlainKept(c, w, S, d, N) /\ a = 0
    BY <1>1 DEF Kept
  <2>2. /\ d + 1 \in 0 .. N /\ Stream!FirstMsg(c) = S[d + 1]
        /\ PlainKept(Stream!AfterDispatch(c), w, S, d + 1, N)
        /\ Len(S[d + 1]) + 4 <= MaxMsgSize
    BY <2>1, PlainDispatch
  <2>3. Zeroed(S, a)[d + 1] = S[d + 1]
    <3>1. d + 1 \in 1 .. Len(S)
      BY <2>2
    <3>. QED
      BY <2>1, <3>1, ZeroedIs
  <2>4. Kept(slip, Stream!AfterDispatch(c), w, S, d + 1, N, a)
    BY <1>1, <2>1, <2>2, Zenon DEF Kept
  <2>. QED
    BY <1>1, <2>2, <2>3, <2>4, Zenon
<1>2. CASE slip /\ SlipKept(c, w, Zeroed(S, a), d, N) /\ (a = 0 \/ N >= 1)
  <2> DEFINE Z == Zeroed(S, a)
  <2>1. Z \in Messages /\ N \in 0 .. Len(Z)
    BY ZeroedIs
  <2>. HIDE DEF Z
  <2>2. SlipKept(c, w, Z, d, N)
    BY <1>2 DEF Z
  <2>3. /\ d + 1 \in 0 .. N /\ Stream!FirstMsg(c) = Z[d + 1]
        /\ SlipKept(Stream!AfterDispatch(c), w, Z, d + 1, N)
    BY <2>1, <2>2, SlipDispatch
  <2>4. Kept(slip, Stream!AfterDispatch(c), w, S, d + 1, N, a)
    BY <1>2, <2>3, Zenon DEF Kept, Z
  <2>. QED
    BY <1>2, <2>3, <2>4, Zenon DEF Z
<1>3. CASE slip /\ Fresh(c, w, S, d, N)
  <2>1. c.buf \in Seq(Bytes) /\ Len(c.buf) < 4
    BY <1>3 DEF Fresh, Context
  <2>2. Len(c.buf) \in Nat
    BY <2>1
  <2>3. ~(Len(c.buf) > 4)
    BY <2>1, <2>2
  <2>4. Stream!ContainsMsg(c) = 0
    BY <2>3 DEF Stream!ContainsMsg
  <2>. QED
    BY <2>4
<1>. QED
  BY <1>1, <1>2, <1>3 DEF Kept

(* At the start of a connection nothing was read.                          *)
LEMMA KeptStart ==
  ASSUME NEW S \in Messages, NEW N \in 0 .. Len(S), NEW slip, NEW w, NEW a, slip \/ a = 0,
         w = IF slip THEN Cat(Slipped(S), 0, N) ELSE Cat(Counted(S), 0, N),
         MaxMsgSize \in Nat
  PROVE  Kept(slip, Stream!InitContext, w, S, 0, N, a)
<1> DEFINE c == Stream!InitContext
<1>1. /\ c \in Context /\ c.slip = -1 /\ c.state = 0 /\ c.buf = <<>> /\ c.msg = 0 /\ c.size = 0
  BY DEF Stream!InitContext, Context
<1>2. Len(c.buf) = 0 /\ Len(c.buf) < 4
  BY <1>1
<1>. HIDE DEF c
<1>3. Cat(Counted(S), 0, N) \in Seq(Bytes) /\ Cat(Slipped(S), 0, N) \in Seq(Bytes)
  <2>1. 0 \in 0 .. N
    OBVIOUS
  <2>. QED
    BY <2>1, CatIs, Zenon
<1>4. <<>> \o w = w /\ w \in Seq(Bytes)
  <2>1. w \in Seq(Bytes)
    BY <1>3
  <2>. QED
    BY <2>1, AppendIs
<1>5. CASE slip
  <2>1. c.buf \o w = Cat(Slipped(S), 0, N)
    BY <1>1, <1>4, <1>5, Zenon
  <2>2. Fresh(c, w, S, 0, N)
    BY <1>1, <1>2, <1>4, <2>1 DEF Fresh
  <2>. QED
    BY <1>5, <2>2, Zenon DEF Kept, c
<1>6. CASE ~slip
  <2>1. c.buf \o w = Cat(Counted(S), 0, N)
    BY <1>1, <1>4, <1>6, Zenon
  <2>2. PlainKept(c, w, S, 0, N)
    BY <1>1, <1>2, <1>4, <2>1 DEF PlainKept
  <2>. QED
    BY <1>6, <2>2, Zenon DEF Kept, c
<1>. QED
  BY <1>5, <1>6

(* What is to come grows by the code of a message that is sent.            *)
LEMMA PlainSend ==
  ASSUME NEW S \in Messages, NEW N \in 0 .. Len(S) - 1, NEW d \in 0 .. N,
         NEW c, NEW w, PlainKept(c, w, S, d, N)
  PROVE  PlainKept(c, w \o Whole(S[N + 1]), S, d, N + 1)
<1> DEFINE y == Whole(S[N + 1])
<1>1. /\ Cat(Counted(S), d, N + 1) = Cat(Counted(S), d, N) \o y
      /\ y \in Seq(Bytes)
  BY CatSend, Zenon
<1>2. /\ c \in Context /\ c.buf \in Seq(Bytes) /\ w \in Seq(Bytes)
      /\ c.buf \o w = Cat(Counted(S), d, N)
  BY DEF PlainKept, Context
<1>. HIDE DEF y
<1>3. w \o y \in Seq(Bytes)
  BY <1>1, <1>2, BytesConcat
<1>4. (c.buf \o w) \o y = c.buf \o (w \o y)
  BY <1>1, <1>2, CatAssociative, Zenon
<1>5. c.buf \o (w \o y) = Cat(Counted(S), d, N + 1)
  BY <1>1, <1>2, <1>4, Zenon
<1>6. PlainKept(c, w \o y, S, d, N + 1)
  BY <1>3, <1>5, Zenon DEF PlainKept
<1>. QED
  BY <1>6 DEF y

\* The bytes w that come with z behind the message, and with z and y.
Grows(c, P, m, j, w, z, y) == Within(c, w, P, m, j, z) => Within(c, w \o y, P, m, j, z \o y)

(* The same in the middle of a SLIP message.                               *)
LEMMA WithinSend ==
  ASSUME NEW m \in Seq(Bytes), NEW z \in Seq(Bytes), NEW y \in Seq(Bytes),
         NEW j \in 0 .. Len(m), NEW P, NEW c, NEW w
  PROVE  Grows(c, P, m, j, w, z, y)
<1>1. SUFFICES ASSUME Within(c, w, P, m, j, z)
               PROVE  Within(c, w \o y, P, m, j, z \o y)
  BY DEF Grows
<1>2. ASSUME NEW i \in 0 .. Len(m)
      PROVE  /\ SlipFrom(m, i) \in Seq(Bytes) /\ SlipFrom(m, i) \o z \in Seq(Bytes)
             /\ (SlipFrom(m, i) \o z) \o y = SlipFrom(m, i) \o (z \o y)
  <2>1. SlipFrom(m, i) \in Seq(Bytes) /\ SlipFrom(m, i) \o z \in Seq(Bytes)
    BY SlipFromSome
  <2>. QED
    BY <2>1, CatAssociative
<1>3. CASE c.state = 0 /\ w = SlipFrom(m, j) \o z
  <2>1. w \o y = SlipFrom(m, j) \o (z \o y)
    BY <1>2, <1>3, Zenon
  <2>. QED
    BY <1>1, <1>3, <2>1, Zenon DEF Within
<1>4. CASE /\ c.state = 1 /\ j < Len(m) /\ m[j + 1] \in Special
           /\ w = <<Code(m[j + 1])>> \o (SlipFrom(m, j + 1) \o z)
  <2>1. j + 1 \in 0 .. Len(m)
    BY <1>4
  <2> DEFINE u == SlipFrom(m, j + 1) \o z
             x == <<Code(m[j + 1])>>
  <2>2. u \in Seq(Bytes) /\ u \o y = SlipFrom(m, j + 1) \o (z \o y)
    BY <1>2, <2>1, Zenon
  <2>3. x \in Seq(Bytes)
    <3>1. Code(m[j + 1]) \in Bytes
      BY SlipBytesDiffer DEF Code
    <3>. QED
      BY <3>1
  <2>4. w = x \o u
    BY <1>4
  <2>. HIDE DEF u, x
  <2>5. (x \o u) \o y = x \o (u \o y)
    BY <2>2, <2>3, CatAssociative, Zenon
  <2>6. w \o y = x \o (SlipFrom(m, j + 1) \o (z \o y))
    BY <2>2, <2>4, <2>5, Zenon
  <2>. QED
    BY <1>1, <1>4, <2>6, Zenon DEF Within, x
<1>. QED
  BY <1>1, <1>3, <1>4, Zenon DEF Within

(* The same for SLIP.                                                      *)
LEMMA SlipSend ==
  ASSUME NEW S \in Messages, NEW N \in 0 .. Len(S) - 1, NEW d \in 0 .. N,
         NEW c, NEW w, SlipKept(c, w, S, d, N)
  PROVE  SlipKept(c, w \o SlipFrom(S[N + 1], 0), S, d, N + 1)
<1> DEFINE y == SlipFrom(S[N + 1], 0)
<1>1. y \in Seq(Bytes)
  BY CatSend, Zenon
<1>2. ASSUME NEW n \in 0 .. N
      PROVE Cat(Slipped(S), n, N + 1) = Cat(Slipped(S), n, N) \o y
  BY <1>2, CatSend, Zenon
<1>3. PICK n \in d .. N : SlipAt(c, w, S, d, N, n)
  BY DEF SlipKept
<1>4. n \in 0 .. N /\ n \in d .. N + 1 /\ N \in 0 .. Len(S) /\ N \in Nat
  BY CountedIs
<1>. HIDE DEF y
<1>5. CASE Behind(c, w, Cat(Counted(S), d, n), Cat(Slipped(S), n, N))
  <2>1. w \o y = Cat(Slipped(S), n, N + 1)
    BY <1>2, <1>4, <1>5, Zenon DEF Behind
  <2>2. Behind(c, w \o y, Cat(Counted(S), d, n), Cat(Slipped(S), n, N + 1))
    BY <1>5, <2>1, Zenon DEF Behind
  <2>. QED
    BY <1>4, <2>2, Zenon DEF SlipKept, SlipAt, y
<1>6. ASSUME n < N, NEW j \in 0 .. Len(S[n + 1]),
             Within(c, w, Cat(Counted(S), d, n), S[n + 1], j, Cat(Slipped(S), n + 1, N))
      PROVE  SlipKept(c, w \o y, S, d, N + 1)
  <2> DEFINE m == S[n + 1]
             z == Cat(Slipped(S), n + 1, N)
             P == Cat(Counted(S), d, n)
  <2>1. m \in Seq(Bytes) /\ z \in Seq(Bytes)
    BY <1>4, <1>6, SlippedFront
  <2>2. Cat(Slipped(S), n + 1, N + 1) = z \o y
    <3>1. n + 1 \in 0 .. N
      BY <1>4, <1>6
    <3>. QED
      BY <1>2, <3>1, Zenon
  <2>3. j \in 0 .. Len(m) /\ Within(c, w, P, m, j, z)
    BY <1>6
  <2>. HIDE DEF m, z, P
  <2>4. Within(c, w \o y, P, m, j, z \o y)
    <3>1. Grows(c, P, m, j, w, z, y)
      BY <1>1, <2>1, <2>3, WithinSend
    <3>. QED
      BY <2>3, <3>1 DEF Grows
  <2>5. Within(c, w \o y, P, m, j, Cat(Slipped(S), n + 1, N + 1))
    BY <2>2, <2>4, Zenon
  <2>6. n < N + 1
    BY <1>4, <1>6
  <2>. QED
    BY <1>4, <2>3, <2>5, <2>6, Zenon DEF SlipKept, SlipAt, m, P
<1>7. SlipKept(c, w \o y, S, d, N + 1)
  BY <1>3, <1>5, <1>6, Zenon DEF SlipAt, y
<1>. QED
  BY <1>7 DEF y

(* The same for any connection.                                            *)
LEMMA KeptSend ==
  ASSUME NEW S \in Messages, NEW N \in 0 .. Len(S) - 1, NEW d \in 0 .. N, NEW a \in 0 .. 3,
         NEW slip, NEW c, NEW w, Kept(slip, c, w, S, d, N, a)
  PROVE  Kept(slip, c, w \o Stream!Encode(slip, S[N + 1]), S, d, N + 1, a)
<1>1. Stream!SlipEncode(S[N + 1]) = SlipFrom(S[N + 1], 0) /\ SlipFrom(S[N + 1], 0) \in Seq(Bytes)
  BY CatSend, Zenon
<1>2. slip => Stream!Encode(slip, S[N + 1]) = SlipFrom(S[N + 1], 0)
  BY <1>1, Zenon DEF Stream!Encode
<1>3. ~slip => Stream!Encode(slip, S[N + 1]) = Whole(S[N + 1])
  BY Zenon DEF Stream!Encode, Whole
<1>4. CASE ~slip
  <2>1. PlainKept(c, w, S, d, N) /\ a = 0
    BY <1>4 DEF Kept
  <2>2. PlainKept(c, w \o Whole(S[N + 1]), S, d, N + 1)
    BY <2>1, PlainSend
  <2>. QED
    BY <1>3, <1>4, <2>1, <2>2, Zenon DEF Kept
<1>5. CASE slip /\ SlipKept(c, w, Zeroed(S, a), d, N) /\ (a = 0 \/ N >= 1)
  <2> DEFINE Z == Zeroed(S, a)
  <2>1. Z \in Messages /\ N \in 0 .. Len(Z) - 1 /\ N + 1 >= 1
    BY ZeroedIs
  <2>2. Z[N + 1] = S[N + 1]
    <3>1. N + 1 \in 1 .. Len(S) /\ (N + 1 # 1 \/ a = 0)
      BY <1>5
    <3>. QED
      BY <3>1, ZeroedIs
  <2>. HIDE DEF Z
  <2>3. SlipKept(c, w, Z, d, N)
    BY <1>5 DEF Z
  <2>4. SlipKept(c, w \o SlipFrom(Z[N + 1], 0), Z, d, N + 1)
    BY <2>1, <2>3, SlipSend
  <2>. QED
    BY <1>2, <1>5, <2>1, <2>2, <2>4, Zenon DEF Kept, Z
<1>6. CASE slip /\ Fresh(c, w, S, d, N)
  <2> DEFINE y == SlipFrom(S[N + 1], 0)
  <2>1. 0 \in 0 .. N
    OBVIOUS
  <2>2. Cat(Slipped(S), 0, N + 1) = Cat(Slipped(S), 0, N) \o y
    BY <2>1, CatSend, Zenon
  <2>3. c.buf \in Seq(Bytes) /\ w \in Seq(Bytes) /\ c.buf \o w = Cat(Slipped(S), 0, N)
    BY <1>6 DEF Fresh, Context
  <2>. HIDE DEF y
  <2>4. y \in Seq(Bytes)
    BY <1>1 DEF y
  <2>5. (c.buf \o w) \o y = c.buf \o (w \o y)
    BY <2>3, <2>4, CatAssociative, Zenon
  <2>6. w \o y \in Seq(Bytes)
    BY <2>3, <2>4, BytesConcat
  <2>7. c.buf \o (w \o y) = Cat(Slipped(S), 0, N + 1)
    BY <2>2, <2>3, <2>5, Zenon
  <2>8. Fresh(c, w \o y, S, d, N + 1)
    BY <1>6, <2>6, <2>7, Zenon DEF Fresh
  <2>. QED
    BY <1>2, <1>6, <2>8, Zenon DEF Kept, y
<1>. QED
  BY <1>4, <1>5, <1>6 DEF Kept

(* A stream that starts with a count is not taken for SLIP.                *)
LEMMA NotSlip ==
  ASSUME NEW b \in Seq(Bytes), Len(b) >= 4, b[1] = 0
  PROVE  ~Stream!DetectSlip(b)
<1>1. SubSeq(b, 1, 4)[1] = b[1]
  OBVIOUS
<1>2. \A u, v, x, y : <<u, v, x, y>>[1] = u
  OBVIOUS
<1>3. ASSUME SubSeq(b, 1, 4) = <<35, 98, 117, 110>> PROVE FALSE
  <2>1. <<35, 98, 117, 110>>[1] = 35
    BY <1>2, Zenon
  <2>2. b[1] = 35
    BY <1>1, <1>3, <2>1, Zenon
  <2>. QED
    BY <2>2
<1>. QED
  BY <1>3 DEF Stream!DetectSlip, Stream!END, Stream!Slash

(* detect_slip looks at four bytes.                                        *)
LEMMA DetectMoves ==
  ASSUME NEW a \in Seq(Bytes), NEW b \in Seq(Bytes), Len(a) >= 4, Len(b) >= 4,
         \A k \in 1 .. 4 : a[k] = b[k], Stream!DetectSlip(a)
  PROVE  Stream!DetectSlip(b)
<1> DEFINE u == SubSeq(a, 1, 4)
           v == SubSeq(b, 1, 4)
<1>1. 4 \in 0 .. Len(a) /\ 4 \in 0 .. Len(b)
  OBVIOUS
<1>2. u \in Seq(Bytes) /\ Len(u) = 4 /\ v \in Seq(Bytes) /\ Len(v) = 4
  BY <1>1, TakeDrop
<1>3. \A k \in 1 .. 4 : u[k] = a[k] /\ v[k] = b[k]
  OBVIOUS
<1>4. u = v
  <2>. HIDE DEF u, v
  <2>. QED
    <3>1. \A k \in 1 .. Len(u) : u[k] = v[k]
      <4>1. ASSUME NEW k \in 1 .. 4 PROVE u[k] = v[k]
        BY <1>3
      <4>. QED
        BY <1>2, <4>1
    <3>. QED
      BY <1>2, <3>1, SameSeq, Zenon
<1>5. a[1] = b[1] /\ a[2] = b[2] /\ a[3] = b[3] /\ a[4] = b[4]
  OBVIOUS
<1>6. /\ \A k \in {3, 4} : a[k] = b[k]
      /\ \A k \in {2, 3, 4} : a[k] = b[k]
  BY <1>5
<1>. HIDE DEF u, v
<1>. QED
  <2>1. \/ a[1] = Stream!END /\ a[2] = Stream!Slash
           /\ \A k \in {3, 4} : a[k] \in Stream!Printable \cup {0}
        \/ a[1] = Stream!Slash /\ \A k \in {2, 3, 4} : a[k] \in Stream!Printable \cup {0}
        \/ u = <<35, 98, 117, 110>>
    BY Zenon DEF Stream!DetectSlip, u
  <2>2. \/ b[1] = Stream!END /\ b[2] = Stream!Slash
           /\ \A k \in {3, 4} : b[k] \in Stream!Printable \cup {0}
        \/ b[1] = Stream!Slash /\ \A k \in {2, 3, 4} : b[k] \in Stream!Printable \cup {0}
        \/ v = <<35, 98, 117, 110>>
    BY <1>4, <1>5, <1>6, <2>1, Zenon
  <2>. QED
    BY <2>2, Zenon DEF Stream!DetectSlip, v

(* The first byte of a stream with counts.                                 *)
LEMMA PlainStarts ==
  ASSUME NEW S \in Messages, NEW N \in 0 .. Len(S), NEW d \in 0 .. N,
         NEW c, NEW w, PlainKept(c, w, S, d, N)
  PROVE  c.buf \o w # <<>> => (c.buf \o w)[1] = 0
<1>1. CASE d = N
  <2>1. c.buf = <<>> /\ w = <<>>
    BY <1>1, PlainFront
  <2>. QED
    BY <2>1
<1>2. CASE d < N
  <2> DEFINE m == S[d + 1]
             z == Cat(Counted(S), d + 1, N)
  <2>1. Front(m, z, c.buf, w)
    BY <1>2, PlainFront
  <2>. HIDE DEF m, z
  <2>2. m \in Seq(Bytes) /\ Len(m) \in Counts \ {0} /\ z \in Seq(Bytes) /\ c.buf \o w = Whole(m) \o z
    BY <2>1 DEF Front
  <2>3. Whole(m) \in Seq(Bytes) /\ Len(Whole(m)) = Len(m) + 4 /\ Whole(m)[1] = 0 /\ Len(m) \in Nat
    BY <2>2, WholeIs
  <2>4. \A k \in 1 .. Len(Whole(m)) : (Whole(m) \o z)[k] = Whole(m)[k]
    BY <2>2, <2>3, BytesConcat
  <2>5. 1 \in 1 .. Len(Whole(m))
    BY <2>3
  <2>6. (Whole(m) \o z)[1] = 0
    BY <2>3, <2>4, <2>5
  <2>. QED
    BY <2>2, <2>6
<1>. QED
  BY <1>1, <1>2

(* What is read of a stream with counts goes behind what was.              *)
LEMMA PlainStore ==
  ASSUME NEW S \in Messages, NEW N \in 0 .. Len(S), NEW d \in 0 .. N,
         NEW u \in Seq(Bytes), NEW v \in Seq(Bytes),
         NEW c, PlainKept(c, u \o v, S, d, N), Len(u) <= c.size - Len(c.buf)
  PROVE  PlainKept(Stream!Store(c, u), v, S, d, N) /\ Stream!Store(c, u).size = c.size
<1> DEFINE b == c.buf \o u
           e == Stream!Detected(c, u)
<1>1. /\ c \in Context /\ c.buf \in Seq(Bytes) /\ c.slip \in {-1, 0} /\ c.msg \in Int
      /\ c.size \in Nat
      /\ c.slip = -1 => c.msg = 0 /\ Len(c.buf) < 4
  BY DEF PlainKept, Context
<1>1a. c.size <= MaxMsgSize /\ c.buf \o (u \o v) = Cat(Counted(S), d, N)
  BY DEF PlainKept
<1>2. b \in Seq(Bytes) /\ Len(b) = Len(c.buf) + Len(u) /\ Len(c.buf) \in Nat /\ Len(u) \in Nat
  BY <1>1, BytesConcat
<1>3. b \o v = c.buf \o (u \o v)
  BY <1>1, CatAssociative, Zenon
<1>4. c.buf \o (u \o v) # <<>> => (c.buf \o (u \o v))[1] = 0
  BY PlainStarts, Zenon
<1>. HIDE DEF b
<1>5. ASSUME Len(b) >= 4 PROVE ~Stream!DetectSlip(b)
  <2>1. /\ \A k \in 1 .. Len(b) : (b \o v)[k] = b[k]
        /\ Len(b \o v) = Len(b) + Len(v) /\ Len(v) \in Nat
    BY <1>2, BytesConcat, Zenon
  <2>2. b \o v # <<>>
    <3>1. Len(<<>>) = 0
      OBVIOUS
    <3>2. Len(b \o v) # 0
      BY <1>5, <2>1
    <3>. QED
      BY <3>1, <3>2, Zenon
  <2>3. (b \o v)[1] = 0
    BY <1>3, <1>4, <2>2, Zenon
  <2>4. 1 \in 1 .. Len(b)
    BY <1>2, <1>5
  <2>5. b[1] = 0
    BY <2>1, <2>3, <2>4
  <2>. QED
    BY <1>2, <1>5, <2>5, NotSlip
<1>6. c.msg = 0 => Stream!Drop(c.buf \o u, c.msg) = b
  <2>1. Suffix(b, 0) = b
    BY <1>2, SuffixEnds
  <2>2. Stream!Drop(c.buf \o u, 0) = Suffix(b, 0)
    BY Zenon DEF Stream!Drop, Suffix, b
  <2>. QED
    BY <2>1, <2>2, Zenon
<1>7. \/ c.slip = -1 /\ Len(b) >= 4 /\ e = [c EXCEPT !.slip = 0]
      \/ ~(c.slip = -1 /\ Len(b) >= 4) /\ e = c
  <2>1. CASE c.slip = -1 /\ Len(b) >= 4
    <3>1. ~Stream!DetectSlip(Stream!Drop(c.buf \o u, c.msg))
      BY <1>1, <1>5, <1>6, <2>1, Zenon
    <3>2. c.slip = -1 /\ Len(c.buf) + Len(u) >= 4
      BY <1>2, <2>1
    <3>3. e = [c EXCEPT !.slip = 0]
      BY <3>1, <3>2, Zenon DEF Stream!Detected
    <3>. QED
      BY <2>1, <3>3, Zenon
  <2>2. CASE ~(c.slip = -1 /\ Len(b) >= 4)
    <3>1. ~(c.slip = -1 /\ Len(c.buf) + Len(u) >= 4)
      BY <1>2, <2>2
    <3>2. e = c
      BY <3>1, Zenon DEF Stream!Detected
    <3>. QED
      BY <2>2, <3>2
  <2>. QED
    BY <2>1, <2>2
<1>. HIDE DEF e
<1>8. /\ e \in Context /\ e.slip \in {-1, 0} /\ e.buf = c.buf /\ e.msg = c.msg /\ e.size = c.size
      /\ e.slip = -1 => c.slip = -1 /\ Len(b) < 4
  <2>1. CASE c.slip = -1 /\ Len(b) >= 4 /\ e = [c EXCEPT !.slip = 0]
    <3>1. /\ e \in Context /\ e.slip = 0 /\ e.buf = c.buf /\ e.msg = c.msg
          /\ e.size = c.size
      BY <1>1, <2>1, Zenon DEF Context
    <3>. QED
      BY <3>1
  <2>2. CASE ~(c.slip = -1 /\ Len(b) >= 4) /\ e = c
    BY <1>1, <1>2, <2>2
  <2>. QED
    BY <1>7, <2>1, <2>2
<1> DEFINE r == Stream!Store(c, u)
<1>9. r = [e EXCEPT !.buf = b]
  <2>1. e.slip # 1
    BY <1>8
  <2>2. r = [e EXCEPT !.buf = @ \o u]
    BY <2>1, Zenon DEF Stream!Store, e
  <2>3. e.buf \o u = b
    BY <1>8, Zenon DEF b
  <2>. QED
    BY <2>2, <2>3, Zenon
<1>. HIDE DEF r
<1>10. r \in Context /\ r.slip = e.slip /\ r.msg = c.msg /\ r.size = c.size /\ r.buf = b
  BY <1>2, <1>8, <1>9, Zenon DEF Context
<1>11. Len(b) <= c.size
  BY <1>1, <1>2
<1>12. r.slip = -1 => r.msg = 0 /\ Len(r.buf) < 4
  BY <1>1, <1>8, <1>10
<1>13. r.buf \o v = Cat(Counted(S), d, N)
  BY <1>1a, <1>3, <1>10, Zenon
<1>14. r.size <= MaxMsgSize /\ Len(r.buf) <= r.size /\ r.slip \in {-1, 0}
  BY <1>1a, <1>8, <1>10, <1>11
<1>15. PlainKept(r, v, S, d, N)
  BY <1>10, <1>12, <1>13, <1>14 DEF PlainKept
<1>. QED
  BY <1>10, <1>15 DEF r

(* What is left of bytes, element by element.                              *)
LEMMA SuffixOf ==
  \A x \in Seq(Bytes) : \A k \in 0 .. Len(x) :
    \A j \in 1 .. Len(x) - k : Suffix(x, k)[j] = x[k + j]
BY SuffixFacts

(* The count of zeros that is put behind what was read of a SLIP stream:   *)
(* what was read, and the rest of four bytes, are where the count of a     *)
(* message goes, and as many zeros are behind it.                          *)
LEMMA HeadIs ==
  ASSUME NEW b \in Seq(Bytes), NEW k \in 0 .. 3, Len(b) = k, k # 0 => b[1] # 0,
         NEW m \in Seq(Bytes), Len(m) >= 4
  PROVE  \E h \in Heads :
           b \o Stream!Header(0) = h \o SubSeq(Stream!Blanked(m, k), 1, k)
<1> DEFINE o == Stream!Header(0)
           x == b \o o
           h == SubSeq(x, 1, 4)
           y == Suffix(x, 4)
           q == Stream!Blanked(m, k)
<1>1. o \in Seq(Bytes) /\ Len(o) = 4
  BY EmptyHeader
<1>2. \A i \in 1 .. 4 : o[i] = 0
  <2>1. o = <<0, 0, 0, 0>>
    BY SMT DEF Stream!Header
  <2>. HIDE DEF o
  <2>. QED
    BY <2>1
<1>3. /\ q \in Seq(Bytes) /\ Len(q) = Len(m)
      /\ \A i \in 1 .. Len(m) : q[i] = IF i <= k THEN 0 ELSE m[i]
  BY BlankedIs, Zenon
<1>. HIDE DEF o, q
<1>4. /\ x \in Seq(Bytes) /\ Len(x) = k + 4
      /\ \A i \in 1 .. k : x[i] = b[i]
      /\ \A i \in 1 .. 4 : x[k + i] = o[i]
  <2>1. /\ x \in Seq(Bytes) /\ Len(x) = Len(b) + Len(o)
        /\ \A i \in 1 .. Len(b) : x[i] = b[i]
        /\ \A i \in 1 .. Len(o) : x[Len(b) + i] = o[i]
    BY <1>1, BytesConcat
  <2>2. Len(b) = k /\ Len(o) = 4
    BY <1>1
  <2>. QED
    BY <2>1, <2>2, Zenon
<1>. HIDE DEF x
<1>5. /\ h \in Seq(Bytes) /\ Len(h) = 4 /\ y \in Seq(Bytes) /\ Len(y) = k /\ h \o y = x
  <2>1. 4 \in 0 .. Len(x) /\ Len(x) - 4 = k
    BY <1>4
  <2>. QED
    BY <1>4, <2>1, TakeDrop
<1>6. \A i \in 1 .. k : y[i] = 0
  <2>1. ASSUME NEW i \in 1 .. k PROVE y[i] = 0
    <3>1. 4 \in 0 .. Len(x) /\ i \in 1 .. Len(x) - 4
      BY <1>4
    <3>2. y[i] = x[4 + i]
      <4>1. \A j \in 1 .. Len(x) - 4 : Suffix(x, 4)[j] = x[4 + j]
        <5>1. x \in Seq(Bytes)
          BY <1>4
        <5>. QED
          BY <3>1, <5>1, SuffixOf, Zenon
      <4>. QED
        BY <3>1, <4>1, Zenon
    <3>3. (4 - k) + i \in 1 .. 4 /\ k + ((4 - k) + i) = 4 + i
      OBVIOUS
    <3>4. x[4 + i] = o[(4 - k) + i]
      BY <1>4, <3>3
    <3>. QED
      BY <1>2, <3>2, <3>3, <3>4
  <2>. QED
    BY <2>1
<1>7. y = SubSeq(q, 1, k)
  <2>1. k \in 0 .. Len(q)
    BY <1>3
  <2>2. SubSeq(q, 1, k) \in Seq(Bytes) /\ Len(SubSeq(q, 1, k)) = k
    BY <1>3, <2>1, TakeDrop
  <2>3. \A i \in 1 .. k : SubSeq(q, 1, k)[i] = 0
    BY <1>3
  <2>4. \A i \in 1 .. Len(y) : y[i] = SubSeq(q, 1, k)[i]
    BY <1>5, <1>6, <2>3
  <2>. HIDE DEF y
  <2>. QED
    BY <1>5, <2>2, <2>4, SameSeq
<1>8. h \in Heads
  <2>1. CASE k = 0
    <3>1. b = <<>>
      BY <2>1
    <3>2. <<>> \o o = o
      BY <1>1, AppendIs
    <3>3. x = o
      BY <3>1, <3>2, Zenon DEF x
    <3>4. SubSeq(o, 1, 4) = o
      BY <1>1
    <3>5. h = o
      BY <3>3, <3>4, Zenon
    <3>. QED
      BY <1>5, <3>5, Zenon DEF Heads, o
  <2>2. CASE k # 0
    <3>1. 1 \in 1 .. k /\ 1 \in 1 .. 4 /\ 1 <= Len(x)
      BY <1>4, <2>2
    <3>2. h[1] = x[1]
      BY <1>4, <3>1
    <3>3. h[1] = b[1]
      BY <1>4, <3>1, <3>2
    <3>4. h[1] # 0
      BY <2>2, <3>3
    <3>. HIDE DEF h
    <3>. QED
      BY <1>5, <3>4 DEF Heads
  <2>. QED
    BY <2>1, <2>2
<1>. QED
  BY <1>5, <1>7, <1>8, Zenon DEF x, o, q

(* A SLIP stream whose first bytes u are read and whose others are v.     *)
Starting(c, u, v, S, d, N, a) ==
  /\ S \in Messages /\ N \in 0 .. Len(S) /\ d \in 0 .. N /\ u \in Seq(Bytes) /\ v \in Seq(Bytes)
  /\ Detectable(S) /\ Fresh(c, u \o v, S, d, N) /\ a \in 0 .. 3 /\ a = Len(c.buf)

(* What comes at the start of a SLIP stream is stored as it is until four  *)
(* bytes are there, which tell what it is.                                 *)
LEMMA FreshStore ==
  ASSUME NEW c, NEW u, NEW v, NEW S, NEW d, NEW N, NEW a, Starting(c, u, v, S, d, N, a)
  PROVE  LET r == Stream!Store(c, u)
         IN  /\ Kept(TRUE, r, v, S, d, N, a)
             /\ r.slip = -1 => r.size = c.size /\ Len(r.buf) = Len(c.buf) + Len(u)
<1> DEFINE e == Stream!Detected(c, u)
           b == c.buf \o u
           w == u \o v
           m == S[1]
           z == Cat(Slipped(S), 1, N)
           y == SlipFrom(m, 0) \o z
           Z == Zeroed(S, a)
           q == Stream!Blanked(m, a)
<1>0. /\ S \in Messages /\ N \in 0 .. Len(S) /\ d \in 0 .. N /\ u \in Seq(Bytes) /\ v \in Seq(Bytes)
      /\ Detectable(S) /\ Fresh(c, u \o v, S, d, N) /\ a \in 0 .. 3 /\ a = Len(c.buf)
  BY Zenon DEF Starting
<1>. USE <1>0
<1>1. /\ c \in Context /\ c.slip = -1 /\ c.state = 0 /\ c.msg = 0
      /\ c.buf \in Seq(Bytes) /\ Len(c.buf) < 4
      /\ d = 0 /\ w \in Seq(Bytes) /\ c.buf \o w = Cat(Slipped(S), 0, N)
  BY DEF Fresh, Context
<1>2. b \in Seq(Bytes) /\ Len(b) = Len(c.buf) + Len(u)
      /\ \A k \in 1 .. Len(c.buf) : b[k] = c.buf[k]
  BY <1>1, BytesConcat
<1>3. b \o v = c.buf \o w /\ b \o v \in Seq(Bytes) /\ Len(b \o v) = Len(b) + Len(v) /\ Len(v) \in Nat
      /\ \A k \in 1 .. Len(b) : (b \o v)[k] = b[k]
  <2>1. b \o v = c.buf \o w
    BY <1>1, CatAssociative, Zenon
  <2>. HIDE DEF b, w
  <2>. QED
    BY <1>2, <2>1, BytesConcat
<1>3a. Len(b) \in Nat
  BY <1>2
<1>3b. \A n \in Nat : n >= 4 => a \in 0 .. n
  <2>1. \A j \in 0 .. 3, n \in Nat : n >= 4 => j \in 0 .. n
    OBVIOUS
  <2>. QED
    BY <2>1, Zenon
<1>4. CASE Len(b) < 4
  <2>1. ~(c.slip = -1 /\ Len(c.buf) + Len(u) >= 4)
    BY <1>2, <1>4
  <2>2. e = c
    BY <2>1, Zenon DEF Stream!Detected
  <2>3. Stream!Store(c, u) = [c EXCEPT !.buf = b]
    <3>1. c.slip # 1
      BY <1>1
    <3>. QED
      BY <2>2, <3>1, Zenon DEF Stream!Store
  <2> DEFINE r == [c EXCEPT !.buf = b]
  <2>. HIDE DEF b
  <2>4. /\ r \in Context /\ r.slip = -1 /\ r.state = 0 /\ r.msg = 0 /\ r.buf = b
        /\ r.size = c.size
    BY <1>1, <1>2, Zenon DEF Context
  <2>. HIDE DEF r
  <2>5. r.buf \o v = Cat(Slipped(S), 0, N)
    BY <1>1, <1>3, <2>4, Zenon
  <2>6. Fresh(r, v, S, d, N)
    BY <1>1, <1>4, <2>4, <2>5 DEF Fresh
  <2>7. Len(r.buf) = Len(c.buf) + Len(u)
    BY <1>2, <2>4, Zenon
  <2>. QED
    BY <2>3, <2>4, <2>6, <2>7, Zenon DEF Kept, r
<1>5. CASE Len(b) >= 4
  <2>1. 0 < N
    <3>1. CASE N = 0
      <4>1. Cat(Slipped(S), 0, 0) = <<>>
        <5>1. 0 \in 0 .. Len(S)
          OBVIOUS
        <5>. QED
          BY <5>1, CatNone, Zenon
      <4>2. Len(<<>>) = 0
        OBVIOUS
      <4>3. Len(b \o v) = 0
        BY <1>1, <1>3, <3>1, <4>1, <4>2, Zenon
      <4>. HIDE DEF b
      <4>4. Len(v) \in Nat /\ Len(b) + Len(v) = 0
        BY <1>3, <4>3, Zenon
      <4>5. Len(b) \in Nat
        BY <1>3a
      <4>. QED
        BY <1>5, <4>4, <4>5
    <3>. QED
      BY <3>1
  <2>2. S # <<>>
    BY <2>1
  <2>3. Plainly(m) /\ Stream!DetectSlip(m)
    BY <2>2 DEF Detectable
  <2>4. y = Cat(Slipped(S), 0, N) /\ m \in Seq(Bytes) /\ z \in Seq(Bytes)
    <3>1. 0 \in 0 .. N /\ 0 + 1 = 1
      OBVIOUS
    <3>2. /\ Cat(Slipped(S), 0, N) = SlipFrom(S[0 + 1], 0) \o Cat(Slipped(S), 0 + 1, N)
          /\ S[0 + 1] \in Seq(Bytes) /\ Cat(Slipped(S), 0 + 1, N) \in Seq(Bytes)
      BY <2>1, <3>1, SlippedFront, Zenon
    <3>. QED
      BY <3>1, <3>2, Zenon
  <2>. HIDE DEF m, z
  <2>5. Len(y) >= 4 /\ \A k \in 1 .. 4 : y[k] = m[k]
    BY <2>3, <2>4, CodeStarts, Zenon
  <2>6. y = SubSeq(m, 1, a) \o (SlipFrom(m, a) \o z)
    BY <2>3, <2>4, CodeSkips, Zenon
  <2>7. b \o v = y
    BY <1>1, <1>3, <2>4, Zenon
  <2>. HIDE DEF b, y, w
  <2>8. \A k \in 1 .. 4 : m[k] = b[k]
    <3>1. ASSUME NEW k \in 1 .. 4 PROVE m[k] = b[k]
      <4>1. k \in 1 .. Len(b)
        BY <1>2, <1>5
      <4>2. y[k] = b[k]
        BY <1>3, <2>7, <4>1, Zenon
      <4>. QED
        BY <2>5, <4>2, Zenon
    <3>. QED
      BY <3>1
  <2>9. Len(m) >= 4 /\ a \in 0 .. Len(m)
    <3>1. Len(m) >= 4
      BY <2>3 DEF Plainly
    <3>2. Len(m) \in Nat
      BY <2>4
    <3>. QED
      BY <1>3b, <3>1, <3>2, Zenon
  <2>10. Stream!DetectSlip(b)
    BY <1>2, <1>5, <2>3, <2>4, <2>8, <2>9, DetectMoves
  <2>11. Stream!Drop(c.buf \o u, c.msg) = b
    <3>1. Suffix(b, 0) = b
      BY <1>2, SuffixEnds
    <3>2. Stream!Drop(b, 0) = Suffix(b, 0)
      BY Zenon DEF Stream!Drop, Suffix
    <3>. QED
      BY <1>1, <3>1, <3>2, Zenon DEF b
  <2> DEFINE o == Stream!Header(0)
             x == c.buf \o o
  <2>12. e = [c EXCEPT !.slip = 1, !.buf = x]
    <3>1. Len(c.buf) + Len(u) >= 4
      BY <1>2, <1>5
    <3>2. Stream!DetectSlip(Stream!Drop(c.buf \o u, c.msg))
      BY <2>10, <2>11, Zenon
    <3>. QED
      BY <1>1, <3>1, <3>2, Zenon DEF Stream!Detected
  <2>13. x \in Seq(Bytes)
    BY <1>1, EmptyHeader, BytesConcat
  <2>14. \E h \in Heads : x = h \o SubSeq(q, 1, a)
    <3>1. a # 0 => c.buf[1] # 0
      <4>1. ASSUME a # 0 PROVE c.buf[1] # 0
        <5>1. 1 \in 1 .. Len(c.buf) /\ 1 \in 1 .. 4
          BY <4>1
        <5>2. c.buf[1] = m[1]
          BY <1>2, <2>8, <5>1
        <5>3. m[1] # 0
          <6>1. m[1] = 0 => ~Stream!DetectSlip(m)
            BY <2>4, <2>9, NotSlip
          <6>. QED
            BY <2>3, <6>1
        <5>. QED
          BY <5>2, <5>3
      <4>. QED
        BY <4>1
    <3>2. a = Len(c.buf)
      OBVIOUS
    <3>. HIDE DEF x, q
    <3>. QED
      BY <1>1, <2>4, <2>9, <3>1, <3>2, HeadIs, Zenon DEF x, q
  <2>. HIDE DEF e, x, o
  <2>15. e \in Context /\ e.slip = 1 /\ e.state = 0 /\ e.buf = x /\ e.msg = 0
    BY <1>1, <2>12, <2>13, Zenon DEF Context
  <2>16. /\ q \in Seq(Bytes) /\ Len(q) = Len(m)
         /\ \A k \in 1 .. Len(m) : q[k] = IF k <= a THEN 0 ELSE m[k]
    BY <2>4, BlankedIs, Zenon
  <2>. HIDE DEF q
  <2>17. SlipFrom(q, a) = SlipFrom(m, a)
    <3>1. a \in 0 .. Len(q)
      BY <2>9, <2>16, Zenon
    <3>2. ASSUME NEW i \in a + 1 .. Len(q) PROVE q[i] = m[i]
      <4>1. i \in 1 .. Len(m) /\ ~(i <= a)
        BY <2>9, <2>16
      <4>. QED
        BY <2>16, <4>1, Zenon
    <3>. QED
      BY <2>4, <2>16, <3>1, <3>2, SlipFromSame
  <2>18. w = SlipFrom(q, a) \o z
    <3> DEFINE t == SlipFrom(m, a) \o z
               g == SubSeq(m, 1, a)
    <3>1. g \in Seq(Bytes) /\ Len(g) = a
      <4>1. a \in 0 .. Len(m)
        BY <2>9
      <4>. QED
        BY <2>4, <4>1, TakeDrop
    <3>2. t \in Seq(Bytes)
      <4>1. a \in 0 .. Len(m)
        BY <2>9
      <4>. QED
        BY <2>4, <4>1, SlipFromSome
    <3>. HIDE DEF t, g
    <3>3. c.buf \o w = g \o t
      BY <1>3, <2>6, <2>7, Zenon DEF t, g
    <3>4. Suffix(c.buf \o w, Len(c.buf)) = w
      BY <1>1, ConcatEnds
    <3>5. Suffix(g \o t, Len(g)) = t
      BY <3>1, <3>2, ConcatEnds
    <3>6. w = t
      BY <3>1, <3>3, <3>4, <3>5, Zenon
    <3>. QED
      BY <2>17, <3>6, Zenon DEF t
  <2>19. /\ Z \in Messages /\ N \in 0 .. Len(Z) /\ Z[1] = q /\ N \in 1 .. Len(S)
    <3>1. Z \in Messages /\ Len(Z) = Len(S) /\ Z[1] = q
      BY <2>2, ZeroedIs, Zenon DEF q, m
    <3>. HIDE DEF Z
    <3>. QED
      BY <2>1, <3>1
  <2>20. Cat(Slipped(Z), 1, N) = z
    BY <2>19, ZeroedBehind, Zenon DEF z
  <2>. HIDE DEF Z
  <2> DEFINE P == Cat(Counted(Z), 0, 0)
  <2>21. P = <<>>
    <3>1. 0 \in 0 .. Len(Z)
      BY <2>19
    <3>. QED
      BY <2>19, <3>1, CatNone, Zenon
  <2>. HIDE DEF P
  <2>22. Holds(e, P, SubSeq(q, 1, a))
    <3>1. PICK h \in Heads : x = h \o SubSeq(q, 1, a)
      BY <2>14
    <3>2. h \o SubSeq(q, 1, a) = <<>> \o (h \o SubSeq(q, 1, a))
      BY <2>13, <3>1, AppendIs
    <3>3. e.buf = P \o (h \o SubSeq(q, 1, a))
      BY <2>15, <2>21, <3>1, <3>2, Zenon
    <3>4. e.msg = Len(P)
      <4>1. Len(<<>>) = 0
        OBVIOUS
      <4>. QED
        BY <2>15, <2>21, <4>1, Zenon
    <3>. QED
      BY <2>15, <3>3, <3>4, Zenon DEF Holds
  <2>23. a \in 0 .. Len(q)
    BY <2>9, <2>16, Zenon
  <2>24. Within(e, w, P, q, a, z)
    BY <2>15, <2>18, <2>22, <2>23, Zenon DEF Within
  <2>25. SlipKept(e, w, Z, d, N)
    <3>1. 0 \in d .. N /\ 0 + 1 = 1
      BY <1>1, <2>1
    <3>2. Within(e, w, Cat(Counted(Z), d, 0), Z[0 + 1], a, Cat(Slipped(Z), 0 + 1, N))
      BY <1>1, <2>19, <2>20, <2>24, <3>1, Zenon DEF P
    <3>3. a \in 0 .. Len(Z[0 + 1])
      BY <2>19, <2>23, <3>1, Zenon
    <3>4. SlipAt(e, w, Z, d, N, 0)
      BY <2>1, <3>2, <3>3, Zenon DEF SlipAt
    <3>. QED
      BY <3>1, <3>4 DEF SlipKept
  <2>26. SlipKept(Stream!SlipDecodeAll(e, u), v, Z, d, N)
    <3>1. SlipKept(e, u \o v, Z, d, N)
      BY <2>25 DEF w
    <3>. QED
      BY <2>19, <3>1, SlipDecodeAllKeeps
  <2>27. Stream!Store(c, u) = Stream!SlipDecodeAll(e, u)
    BY <2>15, Zenon DEF Stream!Store, e
  <2> DEFINE r == Stream!SlipDecodeAll(e, u)
  <2>28. r.slip = 1
    BY <2>26, SlipKeptContext
  <2>. HIDE DEF r
  <2>29. r.slip # -1
    BY <2>28
  <2>30. N >= 1
    BY <2>1
  <2>. QED
    BY <2>26, <2>27, <2>29, <2>30, Zenon DEF Kept, Z, r
<1>6. Len(b) \in Nat
  BY <1>2
<1>7. Len(b) < 4 \/ Len(b) >= 4
  BY <1>6
<1>. QED
  BY <1>4, <1>5, <1>7, Zenon

(* The rest of a SLIP stream is decoded.                                   *)
LEMMA SlipStore ==
  ASSUME NEW S \in Messages, NEW N \in 0 .. Len(S), NEW d \in 0 .. N,
         NEW u \in Seq(Bytes), NEW v \in Seq(Bytes),
         NEW c, SlipKept(c, u \o v, S, d, N)
  PROVE  SlipKept(Stream!Store(c, u), v, S, d, N)
<1>1. c.slip = 1
  BY SlipKeptContext
<1>2. SlipKept(Stream!SlipDecodeAll(c, u), v, S, d, N)
  BY SlipDecodeAllKeeps
<1>3. ~(c.slip = -1)
  BY <1>1
<1>4. Stream!Detected(c, u) = c
  BY <1>3, Zenon DEF Stream!Detected
<1>5. Stream!Store(c, u) = Stream!SlipDecodeAll(c, u)
  BY <1>1, <1>4, Zenon DEF Stream!Store
<1>. QED
  BY <1>2, <1>5, Zenon

(* A buffer never shrinks.                                                 *)
LEMMA GrownMore ==
  ASSUME NEW c \in Context
  PROVE  Stream!Grown(c) = c \/ Stream!Grown(c).size > c.size
<1> DEFINE off == Len(c.buf)
           least == IF c.size < MinBuffer THEN MinBuffer ELSE c.size
           size == IF c.size - off >= least \div 2 THEN least ELSE Stream!Doubled(least, off)
<1>1. Stream!Grown(c) = IF size > c.size THEN [c EXCEPT !.size = size] ELSE c
  BY Zenon DEF Stream!Grown
<1>. HIDE DEF size
<1>2. [c EXCEPT !.size = size].size = size
  BY DEF Context
<1>. QED
  BY <1>1, <1>2, Zenon

(* What is kept is a context.                                              *)
LEMMA KeptContext ==
  ASSUME NEW S, NEW N, NEW d, NEW slip, NEW c, NEW w, NEW a, Kept(slip, c, w, S, d, N, a)
  PROVE  /\ c \in Context
         /\ slip => \/ c.slip = 1 /\ SlipKept(c, w, Zeroed(S, a), d, N) /\ (a = 0 \/ N >= 1)
                    \/ c.slip = -1 /\ Fresh(c, w, S, d, N)
         /\ ~slip => c.slip \in {-1, 0} /\ Len(c.buf) <= c.size /\ a = 0
<1>1. PlainKept(c, w, S, d, N) => c \in Context /\ c.slip \in {-1, 0} /\ Len(c.buf) <= c.size
  BY DEF PlainKept
<1>2. SlipKept(c, w, Zeroed(S, a), d, N) => c \in Context /\ c.slip = 1
  BY SlipKeptContext
<1>3. Fresh(c, w, S, d, N) => c \in Context /\ c.slip = -1
  BY DEF Fresh
<1>4. CASE slip
  BY <1>2, <1>3, <1>4, Zenon DEF Kept
<1>5. CASE ~slip
  BY <1>1, <1>5, Zenon DEF Kept
<1>. QED
  BY <1>4, <1>5

(* To make room is to change the size of the buffer and nothing else.      *)
LEMMA GrownKeeps ==
  ASSUME NEW S \in Messages, NEW N \in 0 .. Len(S), NEW d \in 0 .. N, NEW a \in 0 .. 3,
         NEW slip, NEW c, NEW w, Kept(slip, c, w, S, d, N, a),
         MinBuffer \in Nat, MaxMsgSize \in Nat, 5 <= MinBuffer, MinBuffer <= MaxMsgSize
  PROVE  Kept(slip, Stream!Grown(c), w, S, d, N, a)
<1> DEFINE g == Stream!Grown(c)
<1>1. c \in Context
  BY KeptContext
<1>2. /\ g \in Context /\ g.slip = c.slip /\ g.state = c.state /\ g.buf = c.buf
      /\ g.msg = c.msg
      /\ c.size <= MaxMsgSize => g.size <= MaxMsgSize
  BY <1>1, GrownIs
<1>3. g = c \/ g.size > c.size
  BY <1>1, GrownMore
<1>4. c.size \in Nat /\ g.size \in Nat /\ c.buf \in Seq(Bytes)
  BY <1>1, <1>2 DEF Context
<1>. HIDE DEF g
<1>5. CASE ~slip
  <2>1. PlainKept(c, w, S, d, N) /\ a = 0
    BY <1>5 DEF Kept
  <2>2. /\ c.slip \in {-1, 0} /\ c.size <= MaxMsgSize /\ Len(c.buf) <= c.size
        /\ c.slip = -1 => c.msg = 0 /\ Len(c.buf) < 4
        /\ w \in Seq(Bytes) /\ c.buf \o w = Cat(Counted(S), d, N)
    BY <2>1 DEF PlainKept
  <2>3. Len(c.buf) <= g.size
    <3>1. Len(c.buf) \in Nat
      BY <1>4
    <3>. QED
      BY <1>3, <1>4, <2>2, <3>1
  <2>4. PlainKept(g, w, S, d, N)
    BY <1>2, <2>2, <2>3, Zenon DEF PlainKept
  <2>. QED
    BY <1>5, <2>1, <2>4, Zenon DEF Kept, g
<1>6. CASE slip /\ SlipKept(c, w, Zeroed(S, a), d, N) /\ (a = 0 \/ N >= 1)
  <2> DEFINE Z == Zeroed(S, a)
  <2>0. Z \in Messages /\ N \in 0 .. Len(Z)
    BY ZeroedIs
  <2>. HIDE DEF Z
  <2>1. PICK n \in d .. N : SlipAt(c, w, Z, d, N, n)
    BY <1>6 DEF SlipKept, Z
  <2>2. \A q \in Seq(Bytes) : Len(q) \in Counts /\ Holds(c, Cat(Counted(Z), d, n), q)
                                => Holds(g, Cat(Counted(Z), d, n), q)
    BY <1>2, Zenon DEF Holds
  <2>3. g.state = c.state
    BY <1>2
  <2>4. SlipAt(g, w, Z, d, N, n)
    BY <2>0, <2>1, <2>2, <2>3, SlipMoves
  <2>5. SlipKept(g, w, Z, d, N)
    BY <2>4 DEF SlipKept
  <2>. QED
    BY <1>6, <2>5, Zenon DEF Kept, g, Z
<1>7. CASE slip /\ Fresh(c, w, S, d, N)
  <2>1. Fresh(g, w, S, d, N)
    BY <1>2, <1>7, Zenon DEF Fresh
  <2>. QED
    BY <1>7, <2>1, Zenon DEF Kept, g
<1>. QED
  BY <1>5, <1>6, <1>7, Zenon DEF Kept

\* What one call of lo_server_recv_raw_stream_socket leaves behind.  Nothing
\* that it does to the memory is undefined when the stream is not SLIP.
Turns == [sc : Context, rest : Seq(Bytes), again : BOOLEAN, full : BOOLEAN, more : BOOLEAN,
          risky : BOOLEAN]
TurnKept(slip, t, v, S, d, N, a) ==
  /\ t \in Turns /\ Kept(slip, t.sc, t.rest \o v, S, d, N, a)
  /\ slip /\ t.more => t.sc.slip = 1
  /\ t.full => Len(t.sc.buf) >= MaxMsgSize /\ Stream!ContainsMsg(t.sc) = 0
  /\ t.more => Stream!ContainsMsg(t.sc) = 0
  /\ ~slip => ~t.risky

\* A SLIP stream that is not known as such has lost what is in its buffer, if
\* four bytes are there next.
Losing(slip, c, a) == slip /\ c.slip = -1 => a = Len(c.buf)

(* The bytes that fit are stored behind what was read.                     *)
LEMMA KeptStore ==
  ASSUME NEW S \in Messages, NEW N \in 0 .. Len(S), NEW d \in 0 .. N, NEW a \in 0 .. 3,
         NEW u \in Seq(Bytes), NEW v \in Seq(Bytes),
         NEW slip, NEW c, Kept(slip, c, u \o v, S, d, N, a), slip => Detectable(S),
         Losing(slip, c, a), Len(u) <= c.size - Len(c.buf)
  PROVE  LET r == Stream!Store(c, u)
         IN  /\ Kept(slip, r, v, S, d, N, a)
             /\ ~slip \/ r.slip = -1 => r.size = c.size
             /\ slip /\ r.slip = -1 => Len(r.buf) = Len(c.buf) + Len(u)
<1> DEFINE r == Stream!Store(c, u)
<1>1. CASE ~slip
  <2>1. PlainKept(c, u \o v, S, d, N) /\ a = 0
    BY <1>1 DEF Kept
  <2>2. PlainKept(r, v, S, d, N) /\ r.size = c.size
    BY <2>1, PlainStore
  <2>. QED
    BY <1>1, <2>1, <2>2, Zenon DEF Kept
<1>2. CASE slip /\ SlipKept(c, u \o v, Zeroed(S, a), d, N) /\ (a = 0 \/ N >= 1)
  <2> DEFINE Z == Zeroed(S, a)
  <2>1. Z \in Messages /\ N \in 0 .. Len(Z)
    BY ZeroedIs
  <2>. HIDE DEF Z, r
  <2>2. SlipKept(c, u \o v, Z, d, N)
    BY <1>2 DEF Z
  <2>3. SlipKept(r, v, Z, d, N)
    BY <2>1, <2>2, SlipStore DEF r
  <2>4. r.slip = 1
    BY <2>3, SlipKeptContext
  <2>5. r.slip # -1
    BY <2>4
  <2>. QED
    BY <1>2, <2>3, <2>5, Zenon DEF Kept, Z, r
<1>3. CASE slip /\ Fresh(c, u \o v, S, d, N)
  <2>1. c.slip = -1
    BY <1>3 DEF Fresh
  <2>2. Detectable(S) /\ a = Len(c.buf)
    BY <1>3, <2>1 DEF Losing
  <2>3. /\ Kept(TRUE, r, v, S, d, N, a)
        /\ r.slip = -1 => r.size = c.size /\ Len(r.buf) = Len(c.buf) + Len(u)
    <3>1. Starting(c, u, v, S, d, N, a)
      BY <1>3, <2>2 DEF Starting
    <3>. QED
      BY <3>1, FreshStore, Zenon
  <2>4. Kept(slip, r, v, S, d, N, a)
    BY <1>3, <2>3, Zenon DEF Kept
  <2>. QED
    BY <1>3, <2>3, <2>4, Zenon
<1>. QED
  BY <1>1, <1>2, <1>3, Zenon DEF Kept

(* One call reads what there is room for, and says so if there is none.    *)
LEMMA RecvKeeps ==
  ASSUME NEW S \in Messages, NEW N \in 0 .. Len(S), NEW d \in 0 .. N, NEW a \in 0 .. 3,
         NEW bytes \in Seq(Bytes), NEW v \in Seq(Bytes),
         NEW slip, NEW c, Kept(slip, c, bytes \o v, S, d, N, a), Stream!ContainsMsg(c) = 0,
         Losing(slip, c, a), slip => Detectable(S),
         NEW risky \in BOOLEAN, ~slip => ~risky,
         MinBuffer \in Nat, MaxMsgSize \in Nat, 5 <= MinBuffer, MinBuffer <= MaxMsgSize
  PROVE  TurnKept(slip, Stream!Recv(c, bytes, risky), v, S, d, N, a)
<1> DEFINE g == Stream!Grown(c)
           room == Stream!Room(g)
           n == IF Len(bytes) < room THEN Len(bytes) ELSE room
           u == SubSeq(bytes, 1, n)
           y == Stream!Store(g, u)
           r == Stream!Recv(c, bytes, risky)
           ends == risky \/ Stream!OffStack(g, n)
           goes == risky \/ Stream!OffStack(g, n) \/ Stream!OffBuffer(g, y)
<1>1. /\ c \in Context
      /\ slip => c.slip = 1 \/ c.slip = -1
  BY KeptContext
<1>2. /\ g \in Context /\ g.slip = c.slip /\ g.buf = c.buf
      /\ room = g.size - Len(g.buf)
      /\ room <= 0 => Len(g.buf) >= MaxMsgSize
      /\ g.size >= 5
  BY <1>1, GrownIs
<1>3. Kept(slip, g, bytes \o v, S, d, N, a)
  BY GrownKeeps
<1>4. Stream!ContainsMsg(g) = 0
  BY <1>2, Zenon DEF Stream!ContainsMsg
<1>5. Losing(slip, g, a)
  BY <1>2 DEF Losing
<1>6. room \in Int /\ Len(bytes) \in Nat /\ g.size \in Nat /\ Len(g.buf) \in Nat
  <2>1. g.buf \in Seq(Bytes) /\ g.size \in Nat
    BY <1>2 DEF Context
  <2>2. Len(g.buf) \in Nat
    BY <2>1
  <2>. QED
    BY <1>2, <2>1, <2>2
<1> DEFINE End(none, filled) ==
             [sc |-> g, rest |-> bytes, again |-> none, full |-> filled, more |-> FALSE,
              risky |-> ends]
<1>7. /\ room <= 0 => r = End(FALSE, TRUE)
      /\ room > 0 /\ bytes = <<>> => r = End(TRUE, FALSE)
      /\ room > 0 /\ bytes # <<>> =>
           r = [sc |-> y, rest |-> Stream!Drop(bytes, n), again |-> FALSE, full |-> FALSE,
                more |-> Stream!ContainsMsg(y) = 0 /\ n = room, risky |-> goes]
  <2>. HIDE DEF room
  <2>1. CASE room <= 0
    <3>1. ~(room > 0)
      BY <1>6, <2>1
    <3>2. r = End(FALSE, TRUE)
      BY <2>1, <3>1, Zenon DEF Stream!Recv, room
    <3>. QED
      BY <3>1, <3>2, Zenon
  <2>2. CASE ~(room <= 0)
    <3>1. room > 0
      BY <1>6, <2>2
    <3>2. CASE bytes = <<>>
      <4>1. r = End(TRUE, FALSE)
        BY <2>2, <3>1, <3>2, Zenon DEF Stream!Recv, room
      <4>. QED
        BY <2>2, <3>2, <4>1, Zenon
    <3>3. CASE bytes # <<>>
      <4>1. r = [sc |-> y, rest |-> Stream!Drop(bytes, n), again |-> FALSE, full |-> FALSE,
                 more |-> Stream!ContainsMsg(y) = 0 /\ n = room, risky |-> goes]
        BY <2>2, <3>1, <3>3, Zenon DEF Stream!Recv, room
      <4>. QED
        BY <2>2, <3>3, <4>1, Zenon
    <3>. QED
      BY <3>2, <3>3
  <2>. QED
    BY <2>1, <2>2
<1>8. ~slip => ~Stream!OffStack(g, n)
  <2>1. ASSUME ~slip PROVE ~Stream!OffStack(g, n)
    <3>1. g.slip \in {-1, 0}
      BY <1>3, <2>1, KeptContext
    <3>2. g.slip # 1
      BY <3>1
    <3>. QED
      BY <3>2, Zenon DEF Stream!OffStack
  <2>. QED
    BY <2>1
<1>8a. ends \in BOOLEAN /\ (~slip => ~ends) /\ goes \in BOOLEAN
  <2>1. Stream!OffStack(g, n) \in BOOLEAN /\ Stream!OffBuffer(g, y) \in BOOLEAN
    BY Zenon DEF Stream!OffStack, Stream!OffBuffer
  <2>. HIDE DEF g, n, y
  <2>. QED
    BY <1>8, <2>1, Zenon
<1>. HIDE DEF r, y, u, n, room, g, ends, goes
<1>9. ASSUME (r = End(FALSE, TRUE) /\ room <= 0) \/ r = End(TRUE, FALSE)
      PROVE  TurnKept(slip, r, v, S, d, N, a)
  <2>3. PICK none \in BOOLEAN, f \in BOOLEAN :
          /\ r = [sc |-> g, rest |-> bytes, again |-> none, full |-> f, more |-> FALSE,
                  risky |-> ends]
          /\ f => room <= 0
    BY <1>9, Zenon
  <2>1. r.sc = g /\ r.rest = bytes /\ ~r.more /\ r.full = f /\ r.risky = ends
    BY <2>3
  <2>2. r \in Turns
    BY <1>2, <1>8a, <2>3 DEF Turns
  <2>. QED
    BY <1>2, <1>3, <1>4, <1>8a, <2>1, <2>2, <2>3, Zenon DEF TurnKept
<1>10. CASE room <= 0
  BY <1>7, <1>9, <1>10 DEF r
<1>11. CASE room > 0 /\ bytes = <<>>
  BY <1>7, <1>9, <1>11 DEF r
<1>12. CASE room > 0 /\ bytes # <<>>
  <2> DEFINE rest == Suffix(bytes, n)
             more == Stream!ContainsMsg(y) = 0 /\ n = room
  <2>1. n \in 0 .. Len(bytes) /\ n <= room /\ (n = Len(bytes) \/ n = room)
    BY <1>6, <1>12 DEF n
  <2>2. /\ u \in Seq(Bytes) /\ Len(u) = n /\ rest \in Seq(Bytes) /\ u \o rest = bytes
    BY <2>1, TakeDrop DEF u
  <2>3. Stream!Drop(bytes, n) = rest
    BY Zenon DEF Stream!Drop, Suffix
  <2>4. r = [sc |-> y, rest |-> rest, again |-> FALSE, full |-> FALSE, more |-> more,
             risky |-> goes]
    BY <1>7, <1>12, <2>3, Zenon
  <2>. HIDE DEF rest
  <2>5. bytes \o v = u \o (rest \o v) /\ rest \o v \in Seq(Bytes)
    <3>1. (u \o rest) \o v = u \o (rest \o v)
      <4>1. u \in Seq(Bytes)
        BY <2>2
      <4>2. rest \in Seq(Bytes)
        BY <2>2
      <4>3. v \in Seq(Bytes)
        OBVIOUS
      <4>. QED
        BY <4>1, <4>2, <4>3, CatAssociative, Zenon
    <3>2. rest \o v \in Seq(Bytes)
      BY <2>2, BytesConcat
    <3>. QED
      BY <2>2, <3>1, <3>2
  <2>6. Kept(slip, g, u \o (rest \o v), S, d, N, a)
    BY <1>3, <2>5, Zenon
  <2>7. Len(u) <= g.size - Len(g.buf)
    BY <1>2, <2>1, <2>2
  <2>8. /\ Kept(slip, y, rest \o v, S, d, N, a)
        /\ ~slip \/ y.slip = -1 => y.size = g.size
        /\ slip /\ y.slip = -1 => Len(y.buf) = Len(g.buf) + Len(u)
    <3> DEFINE x == rest \o v
    <3>1. x \in Seq(Bytes)
      BY <2>5
    <3>2. Kept(slip, g, u \o x, S, d, N, a)
      BY <2>6
    <3>3. u \in Seq(Bytes)
      BY <2>2
    <3>. HIDE DEF x
    <3>4. /\ Kept(slip, Stream!Store(g, u), x, S, d, N, a)
          /\ ~slip \/ Stream!Store(g, u).slip = -1 => Stream!Store(g, u).size = g.size
          /\ slip /\ Stream!Store(g, u).slip = -1 =>
               Len(Stream!Store(g, u).buf) = Len(g.buf) + Len(u)
      BY <1>5, <2>7, <3>1, <3>2, <3>3, KeptStore
    <3>. QED
      BY <3>4, Zenon DEF x, y
  <2>9. /\ y \in Context
        /\ slip => y.slip = 1 \/ (y.slip = -1 /\ Fresh(y, rest \o v, S, d, N))
        /\ ~slip => y.slip \in {-1, 0} /\ Len(y.buf) <= y.size
    BY <2>8, KeptContext
  <2>10. slip /\ more => y.slip = 1
    <3>1. ASSUME slip, more, y.slip = -1 PROVE FALSE
      <4>1. n = room /\ Len(u) = n
        BY <2>2, <3>1
      <4>4. Len(y.buf) = Len(g.buf) + Len(u)
        BY <2>8, <3>1
      <4>5. Len(y.buf) < 4
        <5>1. Fresh(y, rest \o v, S, d, N)
          BY <2>9, <3>1
        <5>. QED
          BY <5>1 DEF Fresh
      <4>6. g.size - Len(g.buf) = Len(u) /\ g.size \in Nat /\ Len(g.buf) \in Nat
        BY <1>2, <1>6, <4>1, Zenon
      <4>7. Len(u) = g.size - Len(g.buf)
        BY <4>6
      <4>8. Len(y.buf) = g.size
        BY <4>4, <4>6, <4>7
      <4>. QED
        BY <1>2, <4>5, <4>6, <4>8
    <3>. QED
      BY <2>9, <3>1
  <2>11. more \in BOOLEAN /\ (more => Stream!ContainsMsg(y) = 0)
    OBVIOUS
  <2>12. ~slip => ~goes
    <3>1. ASSUME ~slip PROVE ~goes
      <4>1. ~Stream!OffBuffer(g, y)
        <5>1. Len(y.buf) <= y.size /\ y.size = g.size
          BY <2>8, <2>9, <3>1, Zenon
        <5>2. y.buf \in Seq(Bytes) /\ y.size \in Nat
          BY <2>9 DEF Context
        <5>3. Len(y.buf) \in Nat
          BY <5>2
        <5>4. ~(Len(y.buf) > y.size)
          BY <5>1, <5>2, <5>3
        <5>. QED
          BY <5>1, <5>4, Zenon DEF Stream!OffBuffer
      <4>. QED
        BY <1>8, <3>1, <4>1, Zenon DEF goes
    <3>. QED
      BY <3>1
  <2>. HIDE DEF more
  <2>13. r \in Turns /\ r.sc = y /\ r.rest = rest /\ ~r.full /\ r.more = more /\ r.risky = goes
    BY <1>8a, <2>2, <2>4, <2>9, <2>11 DEF Turns
  <2>14. TurnKept(slip, r, v, S, d, N, a)
    BY <2>8, <2>10, <2>11, <2>12, <2>13, Zenon DEF TurnKept
  <2>. QED
    BY <2>14 DEF r
<1>. QED
  BY <1>6, <1>10, <1>11, <1>12

\* The next call, if the last filled the buffer without a whole message.
Turn(t) == IF t.more THEN Stream!Recv(t.sc, t.rest, t.risky) ELSE t

(* Another call keeps what the last one did.                               *)
LEMMA TurnKeeps ==
  ASSUME NEW S \in Messages, NEW N \in 0 .. Len(S), NEW d \in 0 .. N, NEW a \in 0 .. 3,
         NEW v \in Seq(Bytes), NEW slip, NEW t, TurnKept(slip, t, v, S, d, N, a),
         slip => Detectable(S),
         MinBuffer \in Nat, MaxMsgSize \in Nat, 5 <= MinBuffer, MinBuffer <= MaxMsgSize
  PROVE  TurnKept(slip, Turn(t), v, S, d, N, a) /\ Turn(t) \in Turns
<1>1. TurnKept(slip, Turn(t), v, S, d, N, a)
  <2>1. CASE ~t.more
    BY <2>1, Zenon DEF Turn
  <2>2. CASE t.more
    <3> DEFINE c == t.sc
               bytes == t.rest
               risky == t.risky
    <3>1. bytes \in Seq(Bytes) /\ risky \in BOOLEAN
      BY DEF TurnKept, Turns
    <3>2. /\ Kept(slip, c, bytes \o v, S, d, N, a) /\ Stream!ContainsMsg(c) = 0
          /\ ~slip => ~risky
      BY <2>2, Zenon DEF TurnKept
    <3>3. Losing(slip, c, a)
      <4>1. slip => c.slip = 1
        BY <2>2, Zenon DEF TurnKept
      <4>2. slip => c.slip # -1
        BY <4>1
      <4>. QED
        BY <4>2, Zenon DEF Losing
    <3>. HIDE DEF c, bytes, risky
    <3>4. TurnKept(slip, Stream!Recv(c, bytes, risky), v, S, d, N, a)
      BY <3>1, <3>2, <3>3, RecvKeeps
    <3>. QED
      BY <2>2, <3>4, Zenon DEF Turn, c, bytes, risky
  <2>. QED
    BY <2>1, <2>2
<1>. QED
  BY <1>1 DEF TurnKept

\* f[k] is what comes of f[0] by k more calls.
TakesTurns(f, n) ==
  \A k \in 1 .. n : Turn(f[k - 1]) \in Turns => f[k] = Turn(f[k - 1])

(* All of them do.                                                         *)
LEMMA TurnsKeep ==
  ASSUME NEW S \in Messages, NEW N \in 0 .. Len(S), NEW d \in 0 .. N, NEW a \in 0 .. 3,
         NEW v \in Seq(Bytes), NEW slip, NEW n \in Nat,
         NEW f, TakesTurns(f, n), TurnKept(slip, f[0], v, S, d, N, a),
         slip => Detectable(S),
         MinBuffer \in Nat, MaxMsgSize \in Nat, 5 <= MinBuffer, MinBuffer <= MaxMsgSize
  PROVE  \A k \in 0 .. n : TurnKept(slip, f[k], v, S, d, N, a)
<1> DEFINE G == {k \in Nat : k <= n => TurnKept(slip, f[k], v, S, d, N, a)}
<1>1. 0 \in G
  OBVIOUS
<1>2. ASSUME NEW k \in Nat, k \in G PROVE k + 1 \in G
  <2>1. ASSUME k + 1 <= n PROVE TurnKept(slip, f[k + 1], v, S, d, N, a)
    <3>1. k <= n /\ k + 1 \in 1 .. n /\ (k + 1) - 1 = k
      BY <2>1
    <3> DEFINE t == f[k]
    <3>2. TurnKept(slip, t, v, S, d, N, a)
      BY <1>2, <3>1
    <3>3. Turn(t) \in Turns => f[k + 1] = Turn(t)
      BY <3>1, Zenon DEF TakesTurns
    <3>. HIDE DEF t
    <3>4. TurnKept(slip, Turn(t), v, S, d, N, a) /\ Turn(t) \in Turns
      BY <3>2, TurnKeeps
    <3>. QED
      BY <3>3, <3>4, Zenon
  <2>. QED
    BY <2>1
<1>3. \A k \in Nat : k \in G
  <2>. HIDE DEF G
  <2>. QED
    BY <1>1, <1>2, SetInduction, Zenon
<1>. QED
  BY <1>3

\* Received: the calls on the way.
Turning(c, bytes, f) ==
  f = [k \in 0 .. Len(bytes) |->
         IF k = 0 THEN Stream!Recv(c, bytes, FALSE)
         ELSE LET t == f[k - 1] IN IF t.more THEN Stream!Recv(t.sc, t.rest, t.risky) ELSE t]

(* What has arrived is read.                                               *)
LEMMA ReceivedKeeps ==
  ASSUME NEW S \in Messages, NEW N \in 0 .. Len(S), NEW d \in 0 .. N, NEW a \in 0 .. 3,
         NEW bytes \in Seq(Bytes), NEW v \in Seq(Bytes),
         NEW slip, NEW c, Kept(slip, c, bytes \o v, S, d, N, a), Stream!ContainsMsg(c) = 0,
         Losing(slip, c, a), slip => Detectable(S),
         MinBuffer \in Nat, MaxMsgSize \in Nat, 5 <= MinBuffer, MinBuffer <= MaxMsgSize
  PROVE  TurnKept(slip, Stream!Received(c, bytes), v, S, d, N, a)
<1> DEFINE n == Len(bytes)
           b == Stream!Recv(c, bytes, FALSE)
           s == [k \in 1 .. n |-> [y \in Turns |-> IF Turn(y) \in Turns THEN Turn(y) ELSE y]]
<1>1. n \in Nat
  OBVIOUS
<1>2. TurnKept(slip, b, v, S, d, N, a)
  <2>1. FALSE \in BOOLEAN /\ (~slip => ~FALSE)
    OBVIOUS
  <2>. QED
    BY <2>1, RecvKeeps
<1>3. b \in Turns
  BY <1>2 DEF TurnKept
<1>4. s \in [1 .. n -> [Turns -> Turns]]
  <2>1. ASSUME NEW y \in Turns PROVE (IF Turn(y) \in Turns THEN Turn(y) ELSE y) \in Turns
    BY Zenon
  <2>. HIDE DEF n
  <2>. QED
    BY <2>1
<1>. HIDE DEF s, b
<1>5. PICK f : Follows(f, n, Turns, b, s)
  <2>. HIDE DEF n
  <2>. QED
    BY <1>1, <1>3, <1>4, Recursion
<1>6. f \in [0 .. n -> Turns] /\ f[0] = b
  BY <1>5 DEF Follows
<1>7. TakesTurns(f, n)
  <2>1. ASSUME NEW k \in 1 .. n PROVE Turn(f[k - 1]) \in Turns => f[k] = Turn(f[k - 1])
    <3>. HIDE DEF n
    <3>1. k - 1 \in 0 .. n
      BY <1>1
    <3>2. f[k - 1] \in Turns /\ f[k] = s[k][f[k - 1]]
      BY <1>5, <1>6, <3>1 DEF Follows
    <3>3. s[k][f[k - 1]] = IF Turn(f[k - 1]) \in Turns THEN Turn(f[k - 1]) ELSE f[k - 1]
      BY <3>2 DEF s
    <3>. QED
      BY <3>2, <3>3
  <2>. QED
    BY <2>1 DEF TakesTurns
<1>8. \A k \in 0 .. n : TurnKept(slip, f[k], v, S, d, N, a)
  <2>1. TurnKept(slip, f[0], v, S, d, N, a)
    BY <1>2, <1>6
  <2>. HIDE DEF n
  <2>. QED
    BY <1>1, <1>7, <2>1, TurnsKeep
<1>9. ASSUME NEW k \in 1 .. n PROVE f[k] = Turn(f[k - 1])
  <2> DEFINE t == f[k - 1]
  <2>1. k - 1 \in 0 .. n
    BY <1>1
  <2>2. TurnKept(slip, t, v, S, d, N, a)
    BY <1>8, <2>1
  <2>. HIDE DEF t
  <2>3. Turn(t) \in Turns
    BY <1>1, <2>2, TurnKeeps, Zenon
  <2>. QED
    BY <1>7, <2>3, Zenon DEF t, TakesTurns
<1> DEFINE g == CHOOSE h : Turning(c, bytes, h)
           T(h, k) == LET t == h[k - 1] IN IF t.more THEN Stream!Recv(t.sc, t.rest, t.risky) ELSE t
<1>10. \A h, k : T(h, k) = Turn(h[k - 1])
  BY Zenon DEF Turn
<1>. HIDE DEF T
<1>11. Turning(c, bytes, f)
  <2>1. \A k \in 0 .. n : f[k] = IF k = 0 THEN b ELSE T(f, k)
    <3>1. \A k \in 0 .. n : k = 0 \/ k \in 1 .. n
      BY <1>1
    <3>2. \A k \in 1 .. n : k # 0
      BY <1>1
    <3>. QED
      BY <1>6, <1>9, <1>10, <3>1, <3>2, Zenon
  <2>2. f = [k \in 0 .. n |-> IF k = 0 THEN b ELSE T(f, k)]
    <3>. HIDE DEF n
    <3>. QED
      BY <1>6, <2>1
  <2>. QED
    BY <2>2, Zenon DEF Turning, T, b
<1>12. Turning(c, bytes, g)
  BY <1>11, Zenon
<1>. HIDE DEF g
<1>13. \A k \in 0 .. n : g[k] = IF k = 0 THEN b ELSE T(g, k)
  <2>1. g = [k \in 0 .. n |-> IF k = 0 THEN b ELSE T(g, k)]
    BY <1>12, Zenon DEF Turning, T, b
  <2>. HIDE DEF n
  <2>. QED
    BY <2>1
<1>14. TakesTurns(g, n)
  <2>1. ASSUME NEW k \in 1 .. n PROVE g[k] = Turn(g[k - 1])
    <3>1. k \in 0 .. n /\ k # 0
      BY <1>1
    <3>. QED
      BY <1>10, <1>13, <3>1, Zenon
  <2>. QED
    BY <2>1, Zenon DEF TakesTurns
<1>15. TurnKept(slip, g[0], v, S, d, N, a)
  <2>1. 0 \in 0 .. n
    BY <1>1
  <2>2. g[0] = b
    BY <1>13, <2>1, Zenon
  <2>. QED
    BY <1>2, <2>2, Zenon DEF b
<1>16. TurnKept(slip, g[n], v, S, d, N, a)
  <2>1. n \in 0 .. n
    BY <1>1
  <2>2. \A k \in 0 .. n : TurnKept(slip, g[k], v, S, d, N, a)
    <3>. HIDE DEF n
    <3>. QED
      BY <1>1, <1>14, <1>15, TurnsKeep
  <2>. QED
    BY <2>1, <2>2
<1>17. Stream!Received(c, bytes) = g[n]
  BY Zenon DEF Stream!Received, Turning, g
<1>. QED
  BY <1>16, <1>17, Zenon

(* What a peer sends has what the lemmas about streams ask for.            *)
LEMMA ScriptIs ==
  ASSUME NEW p \in Peers
  PROVE  Script[p] \in Messages /\ (p \in SlipPeers => Detectable(Script[p]))
<1>1. /\ Script[p] \in Seq(Seq(Bytes))
      /\ \A k \in 1 .. Len(Script[p]) : Len(Script[p][k]) \in Counts \ {0}
      /\ p \in SlipPeers /\ Script[p] # <<>> =>
            LET m == Script[p][1]
            IN  /\ Len(m) >= 4 /\ Stream!DetectSlip(m)
                /\ \A k \in 1 .. 4 : m[k] \in Stream!Printable \cup {0}
  BY StreamAssumption, Zenon
<1>2. Script[p] \in Messages
  BY <1>1, Zenon DEF Messages
<1>3. p \in SlipPeers => Detectable(Script[p])
  BY <1>1, Zenon DEF Detectable, Plainly
<1>. QED
  BY <1>2, <1>3

(* The sizes of the buffers.                                               *)
LEMMA Sizes ==
  /\ IsFiniteSet(Peers) /\ MinBuffer \in Nat /\ MaxMsgSize \in Nat
  /\ 5 <= MinBuffer /\ MinBuffer <= MaxMsgSize /\ 5 <= MaxMsgSize
<1>1. /\ IsFiniteSet(Peers) /\ MinBuffer \in Nat /\ MaxMsgSize \in Nat
      /\ 5 <= MinBuffer /\ MinBuffer <= MaxMsgSize
  BY StreamAssumption
<1>. QED
  BY <1>1

(* The number of elements is the same for the streams as here.             *)
LEMMA SameCardinality == \A S : Stream!Cardinality(S) = Cardinality(S)
BY Zenon DEF Stream!Cardinality, Cardinality

\* A peer has sent the first of its messages.
SentKept(p, sn) ==
  /\ sn \in Seq(Seq(Bytes)) /\ Len(sn) \in 0 .. Len(Script[p])
  /\ \A k \in 1 .. Len(sn) : sn[k] = Script[p][k]
\* How many bytes of its stream it may lose.
Losses(p) == IF p \in SlipPeers THEN 0 .. 3 ELSE {0}
\* Of the N that it sent the first were delivered, but a bytes that were lost.
Delivers(p, ds, N, a) ==
  /\ a \in Losses(p)
  /\ N \in 0 .. Len(Script[p]) /\ ds \in Seq(Seq(Bytes)) /\ Len(ds) \in 0 .. N
  /\ \A k \in 1 .. Len(ds) : /\ ds[k] = Zeroed(Script[p], a)[k]
                             /\ p \notin SlipPeers => Len(Script[p][k]) + 4 <= MaxMsgSize
\* The next that is not can not be.
Blocked(p, d, N) == d < N /\ Stream!Unfit(p, Script[p][d + 1])

(* A peer sends the next of its messages.                                  *)
LEMMA SentMore ==
  ASSUME NEW p \in Peers, NEW sn, SentKept(p, sn), Len(sn) < Len(Script[p])
  PROVE  LET m == Script[p][Len(sn) + 1]
         IN  SentKept(p, Append(sn, m)) /\ Len(Append(sn, m)) = Len(sn) + 1
<1> DEFINE S == Script[p]
           m == S[Len(sn) + 1]
           t == Append(sn, m)
<1>1. S \in Seq(Seq(Bytes)) /\ Len(S) \in Nat
  BY ScriptIs, CountedIs
<1>2. sn \in Seq(Seq(Bytes)) /\ Len(sn) \in 0 .. Len(S) /\ \A k \in 1 .. Len(sn) : sn[k] = S[k]
  BY DEF SentKept
<1>3. Len(sn) < Len(S)
  OBVIOUS
<1>. HIDE DEF S
<1>4. m \in Seq(Bytes)
  BY <1>1, <1>2, <1>3
<1>. HIDE DEF m
<1>5. t \in Seq(Seq(Bytes)) /\ Len(t) = Len(sn) + 1
  BY <1>2, <1>4
<1>6. ASSUME NEW k \in 1 .. Len(t) PROVE t[k] = S[k]
  <2>1. CASE k = Len(sn) + 1
    <3>1. t[k] = m
      BY <1>2, <2>1
    <3>. QED
      BY <2>1, <3>1 DEF m
  <2>2. CASE k # Len(sn) + 1
    <3>1. k \in 1 .. Len(sn)
      BY <1>2, <1>5, <2>2
    <3>2. t[k] = sn[k]
      BY <1>2, <3>1
    <3>. QED
      BY <1>2, <3>1, <3>2
  <2>. QED
    BY <2>1, <2>2
<1>7. Len(t) \in 0 .. Len(S)
  BY <1>1, <1>2, <1>3, <1>5
<1>. QED
  BY <1>5, <1>6, <1>7 DEF SentKept, S, m

(* As many as three are lost, and none without SLIP.                       *)
LEMMA LossesIs ==
  ASSUME NEW p, NEW a \in Losses(p)
  PROVE  a \in 0 .. 3 /\ (p \notin SlipPeers => a = 0)
<1>1. CASE p \in SlipPeers
  BY <1>1, Zenon DEF Losses
<1>2. CASE p \notin SlipPeers
  <2>1. a \in {0}
    BY <1>2, Zenon DEF Losses
  <2>. QED
    BY <1>2, <2>1
<1>. QED
  BY <1>1, <1>2

(* The next message is delivered.                                          *)
LEMMA DeliversMore ==
  ASSUME NEW p \in Peers, NEW N, NEW a, NEW ds, Delivers(p, ds, N, a), NEW m, NEW d, d = Len(ds),
         d + 1 \in 0 .. N, m = Zeroed(Script[p], a)[d + 1],
         p \notin SlipPeers => Len(Script[p][d + 1]) + 4 <= MaxMsgSize
  PROVE  Delivers(p, Append(ds, m), N, a) /\ Len(Append(ds, m)) = d + 1
<1> DEFINE S == Script[p]
           Z == Zeroed(S, a)
           t == Append(ds, m)
           Fits(k) == p \notin SlipPeers => Len(S[k]) + 4 <= MaxMsgSize
<1>1. Z \in Seq(Seq(Bytes)) /\ Len(Z) \in Nat /\ Len(Z) = Len(S)
  <2>1. S \in Messages /\ a \in 0 .. 3
    BY ScriptIs, LossesIs DEF Delivers
  <2>2. Z \in Messages /\ Len(Z) = Len(S)
    BY <2>1, ZeroedIs, Zenon
  <2>. HIDE DEF Z
  <2>. QED
    BY <2>2, CountedIs
<1>2. /\ ds \in Seq(Seq(Bytes)) /\ d \in 0 .. N /\ N \in 0 .. Len(S)
      /\ \A k \in 1 .. d : ds[k] = Z[k] /\ Fits(k)
  BY Zenon DEF Delivers
<1>. HIDE DEF Z
<1>3. m = Z[d + 1] /\ Fits(d + 1) /\ d + 1 \in 1 .. Len(Z) /\ d \in Nat
  <2>1. m = Z[d + 1] /\ Fits(d + 1)
    BY DEF Z
  <2>. HIDE DEF Fits, S
  <2>2. d \in Nat /\ d + 1 \in 1 .. Len(Z)
    BY <1>1, <1>2
  <2>. QED
    BY <2>1, <2>2
<1>. HIDE DEF S, Fits
<1>4. m \in Seq(Bytes)
  BY <1>1, <1>3
<1>5. t \in Seq(Seq(Bytes)) /\ Len(t) = d + 1
  BY <1>2, <1>4
<1>6. ASSUME NEW k \in 1 .. Len(t) PROVE t[k] = Z[k] /\ Fits(k)
  <2>1. CASE k = d + 1
    <3>1. t[k] = m
      BY <1>2, <2>1
    <3>. QED
      BY <1>3, <2>1, <3>1
  <2>2. CASE k # d + 1
    <3>1. k \in 1 .. d
      BY <1>3, <1>5, <2>2
    <3>2. t[k] = ds[k]
      BY <1>2, <3>1
    <3>. QED
      BY <1>2, <3>1, <3>2
  <2>. QED
    BY <2>1, <2>2
<1>7. Len(t) \in 0 .. N
  BY <1>5
<1>8. a \in Losses(p)
  BY DEF Delivers
<1>. QED
  BY <1>2, <1>5, <1>6, <1>7, <1>8, Zenon DEF Delivers, S, Z, Fits

(* Where nothing was delivered, it does not matter what was lost.          *)
LEMMA DeliversMoves ==
  ASSUME NEW p, NEW ds, NEW N, NEW a, NEW b, Delivers(p, ds, N, a),
         b \in Losses(p), b = a \/ Len(ds) = 0
  PROVE  Delivers(p, ds, N, b)
<1>1. CASE b = a
  BY <1>1, Zenon
<1>2. CASE Len(ds) = 0
  <2>1. \A k : k \notin 1 .. 0
    OBVIOUS
  <2>. QED
    BY <1>2, <2>1, Zenon DEF Delivers
<1>. QED
  BY <1>1, <1>2

(* What was delivered is a prefix of what is to arrive.                    *)
LEMMA DeliversPrefix ==
  ASSUME NEW p \in Peers, NEW sn, SentKept(p, sn), NEW a, NEW ds, Delivers(p, ds, Len(sn), a)
  PROVE  Stream!IsPrefix(ds, Zeroed(sn, a))
<1> DEFINE S == Script[p]
           N == Len(sn)
           d == Len(ds)
           zn == Zeroed(sn, a)
<1>1. sn \in Seq(Seq(Bytes)) /\ N \in 0 .. Len(S) /\ Len(S) \in Nat /\ S \in Messages /\ a \in 0 .. 3
      /\ \A k \in 1 .. N : sn[k] = S[k]
  <2>1. Len(S) \in Nat /\ S \in Messages
    BY ScriptIs, CountedIs
  <2>2. a \in 0 .. 3
    BY LossesIs DEF Delivers
  <2>. QED
    BY <2>1, <2>2, Zenon DEF SentKept
<1>2. ds \in Seq(Seq(Bytes)) /\ d \in 0 .. N /\ \A k \in 1 .. d : ds[k] = Zeroed(S, a)[k]
  BY Zenon DEF Delivers
<1>3. ASSUME NEW k \in 1 .. N PROVE zn[k] = Zeroed(S, a)[k]
  <2>1. k \in 1 .. Len(S) /\ sn[k] = S[k]
    BY <1>1
  <2>2. zn[k] = IF k = 1 THEN Stream!Blanked(sn[k], a) ELSE sn[k]
    BY DEF Zeroed
  <2>3. Zeroed(S, a)[k] = IF k = 1 THEN Stream!Blanked(S[k], a) ELSE S[k]
    <3>. HIDE DEF S
    <3>. QED
      BY <2>1 DEF Zeroed
  <2>. QED
    <3>1. sn[k] = S[k]
      BY <2>1
    <3>2. CASE k = 1
      <4>1. zn[k] = Stream!Blanked(sn[k], a) /\ Zeroed(S, a)[k] = Stream!Blanked(S[k], a)
        BY <2>2, <2>3, <3>2
      <4>. QED
        BY <3>1, <4>1
    <3>3. CASE k # 1
      <4>1. zn[k] = sn[k] /\ Zeroed(S, a)[k] = S[k]
        BY <2>2, <2>3, <3>3
      <4>. QED
        BY <3>1, <4>1
    <3>. QED
      BY <3>2, <3>3
<1>4. zn \in Seq(Seq(Bytes)) /\ Len(zn) = N
  <2>1. sn \in Messages
    <3>1. \A k \in 1 .. N : Len(sn[k]) \in Counts \ {0}
      <4>1. \A k \in 1 .. Len(S) : Len(S[k]) \in Counts \ {0}
        BY <1>1, CountedIs
      <4>2. \A k \in 1 .. N : k \in 1 .. Len(S)
        BY <1>1
      <4>. QED
        BY <1>1, <4>1, <4>2, Zenon
    <3>. QED
      BY <1>1, <3>1, Zenon DEF Messages
  <2>2. zn \in Messages /\ Len(zn) = N
    BY <1>1, <2>1, ZeroedIs, Zenon
  <2>. HIDE DEF zn
  <2>. QED
    BY <2>2, CountedIs
<1>. HIDE DEF S, zn
<1>5. d <= N /\ d \in 0 .. Len(ds) /\ d \in 0 .. Len(zn) /\ d \in Nat /\ N \in Nat
  BY <1>1, <1>2, <1>4
<1>6. SubSeq(ds, 1, d) \in Seq(Seq(Bytes)) /\ Len(SubSeq(ds, 1, d)) = d
      /\ SubSeq(zn, 1, d) \in Seq(Seq(Bytes)) /\ Len(SubSeq(zn, 1, d)) = d
  BY <1>2, <1>4, <1>5, TakeDrop
<1>7. \A k \in 1 .. d : SubSeq(ds, 1, d)[k] = SubSeq(zn, 1, d)[k]
  <2>1. ASSUME NEW k \in 1 .. d PROVE ds[k] = zn[k]
    <3>1. k \in 1 .. N
      BY <1>5
    <3>. QED
      BY <1>2, <1>3, <3>1, Zenon
  <2>. QED
    BY <1>2, <1>4, <1>5, <2>1
<1>8. SubSeq(ds, 1, d) = SubSeq(zn, 1, d)
  BY <1>6, <1>7, SameSeq
<1>. QED
  BY <1>4, <1>5, <1>8 DEF Stream!IsPrefix, zn

(* Those before the first that is unfit are all that can be.               *)
LEMMA FittingIs ==
  ASSUME NEW p \in Peers, SentKept(p, sent[p]), NEW ds, NEW a, Delivers(p, ds, Len(sent[p]), a),
         Len(ds) = Len(sent[p]) \/ Blocked(p, Len(ds), Len(sent[p]))
  PROVE  /\ Len(ds) >= Stream!Cardinality(Stream!Fitting(p))
         /\ p \notin SlipPeers => Len(ds) = Stream!Cardinality(Stream!Fitting(p))
<1> DEFINE S == Script[p]
           sn == sent[p]
           N == Len(sn)
           d == Len(ds)
           U(m) == Stream!Unfit(p, m)
           F == Stream!Fitting(p)
<1>1. /\ sn \in Seq(Seq(Bytes)) /\ \A k \in 1 .. N : sn[k] = S[k]
  BY DEF SentKept
<1>2. /\ d \in 0 .. N
      /\ \A k \in 1 .. d : p \notin SlipPeers => Len(S[k]) + 4 <= MaxMsgSize
  BY DEF Delivers
<1>3. d = N \/ (d < N /\ U(S[d + 1]))
  BY DEF Blocked
<1>4. ASSUME p \notin SlipPeers, NEW k \in 1 .. d PROVE ~U(S[k])
  <2>1. Len(S[k]) + 4 <= MaxMsgSize
    BY <1>2, <1>4
  <2>2. U(S[k]) <=> Len(S[k]) + 4 > MaxMsgSize
    BY <1>4, Zenon DEF Stream!Unfit
  <2>3. MaxMsgSize \in Nat /\ Len(S[k]) \in Nat
    <3>1. S \in Messages
      BY ScriptIs
    <3>2. N \in 0 .. Len(S) /\ Len(S) \in Nat
      BY <3>1, CountedIs DEF SentKept
    <3>3. k \in 1 .. Len(S)
      BY <1>2, <3>2
    <3>4. S[k] \in Seq(Bytes)
      BY <3>1, <3>3, CountedIs
    <3>. QED
      BY <3>4, Sizes
  <2>. QED
    BY <2>1, <2>2, <2>3
<1>5. DOMAIN sn = 1 .. N /\ N \in Nat /\ d \in Nat /\ d <= N
  BY <1>1, <1>2
<1>6. F = {k \in 1 .. N : \A l \in {i \in 1 .. N : U(sn[i])} : k < l}
  BY <1>5, Zenon DEF Stream!Fitting
<1>. HIDE DEF S, N, d, U, F
<1>7. F \subseteq 1 .. d
  <2>1. ASSUME NEW k \in F PROVE k \in 1 .. d
    <3>1. k \in 1 .. N /\ \A l \in 1 .. N : U(sn[l]) => k < l
      BY <1>6
    <3>2. CASE d = N
      BY <3>1, <3>2
    <3>3. CASE d < N /\ U(S[d + 1])
      <4>1. d + 1 \in 1 .. N
        BY <1>5, <3>3
      <4>2. sn[d + 1] = S[d + 1]
        BY <1>1, <4>1
      <4>3. k < d + 1
        BY <3>1, <3>3, <4>1, <4>2
      <4>. QED
        BY <1>5, <3>1, <4>3
    <3>. QED
      BY <1>3, <3>2, <3>3
  <2>. QED
    BY <2>1
<1>8. ASSUME p \notin SlipPeers PROVE 1 .. d \subseteq F
  <2>1. ASSUME NEW k \in 1 .. d, NEW l \in 1 .. N, U(sn[l]) PROVE k < l
    <3>1. l \notin 1 .. d
      <4>1. ASSUME l \in 1 .. d PROVE FALSE
        BY <1>1, <1>4, <1>8, <2>1, <4>1
      <4>. QED
        BY <4>1
    <3>. QED
      BY <1>5, <3>1
  <2>2. \A k \in 1 .. d : k \in 1 .. N
    BY <1>5
  <2>. QED
    BY <1>6, <2>1, <2>2
<1>9. IsFiniteSet(1 .. d) /\ Cardinality(1 .. d) = d
  <2>1. 1 \in Int /\ d \in Int
    BY <1>5
  <2>2. IsFiniteSet(1 .. d) /\ Cardinality(1 .. d) = IF 1 > d THEN 0 ELSE d - 1 + 1
    BY <2>1, FS_Interval
  <2>. QED
    BY <1>5, <2>2
<1>10. Cardinality(F) <= d
  <2>1. F \in SUBSET (1 .. d)
    BY <1>7
  <2>2. Cardinality(F) <= Cardinality(1 .. d)
    BY <1>9, <2>1, FS_Subset, Zenon
  <2>. QED
    BY <1>9, <2>2
<1>11. p \notin SlipPeers => Cardinality(F) = d
  <2>1. ASSUME p \notin SlipPeers PROVE Cardinality(F) = d
    <3>1. F = 1 .. d
      BY <1>7, <1>8, <2>1, Zenon
    <3>. QED
      BY <1>9, <3>1
  <2>. QED
    BY <2>1
<1>12. Stream!Cardinality(F) = Cardinality(F)
  BY SameCardinality
<1>13. Cardinality(F) \in Nat
  <2>1. F \in SUBSET (1 .. d)
    BY <1>7
  <2>2. IsFiniteSet(F)
    BY <1>9, <2>1, FS_Subset, Zenon
  <2>. QED
    BY <2>2, FS_CardinalityType
<1>14. d >= Cardinality(F)
  BY <1>5, <1>10, <1>13
<1>. QED
  BY <1>11, <1>12, <1>14, Zenon DEF F, d

(* lo_server_buffer_contains_msg: a length.                                *)
LEMMA ContainsLength ==
  ASSUME NEW c \in Context, ~(Stream!ContainsMsg(c) > 0)
  PROVE  Stream!ContainsMsg(c) = 0
<1> DEFINE b == c.buf
           h == SubSeq(b, 1, 4)
           n == Stream!Count(h)
<1>1. b \in Seq(Bytes) /\ Len(b) \in Nat
  BY DEF Context
<1>2. ASSUME Len(b) > 4 PROVE n \in Nat
  <2>1. 4 \in 0 .. Len(b)
    BY <1>1, <1>2
  <2>2. h \in Seq(Bytes) /\ Len(h) = 4
    BY <1>1, <2>1, TakeDrop
  <2>. HIDE DEF h
  <2>4. \A x \in Bytes : x \in Nat
    BY DEF Bytes
  <2>3. h[2] \in Nat /\ h[3] \in Nat /\ h[4] \in Nat
    <3>1. \A k \in 1 .. 4 : h[k] \in Bytes
      <4>. HIDE DEF Bytes
      <4>. QED
        BY <2>2
    <3>2. 2 \in 1 .. 4 /\ 3 \in 1 .. 4 /\ 4 \in 1 .. 4
      OBVIOUS
    <3>3. h[2] \in Bytes /\ h[3] \in Bytes /\ h[4] \in Bytes
      BY <3>1, <3>2
    <3>. QED
      BY <2>4, <3>3
  <2>. HIDE DEF h
  <2>. QED
    BY <2>3 DEF Stream!Count
<1>. HIDE DEF b, n
<1>3. Stream!ContainsMsg(c) = n \/ Stream!ContainsMsg(c) = 0
  BY DEF Stream!ContainsMsg, n, b
<1>4. Stream!ContainsMsg(c) = IF Len(b) > 4 /\ n + 4 <= Len(b) THEN n ELSE 0
  BY Zenon DEF Stream!ContainsMsg, n, b
<1>. QED
  BY <1>1, <1>2, <1>4

\* What is between a peer, of which the server has the socket, and a context:
\* of N messages that were sent d were dispatched, the bytes w not read, and a lost.
LinkKept(p, c, w, d, N, a) ==
  a \in Losses(p) /\ Kept(p \in SlipPeers, c, w, Script[p], d, N, a)
\* What waits for a socket.
Waits(p, w, N) ==
  w = IF p \in SlipPeers THEN Cat(Slipped(Script[p]), 0, N) ELSE Cat(Counted(Script[p]), 0, N)

(* LinkKept is about contexts.                                             *)
LEMMA LinkContext ==
  ASSUME NEW p, NEW c, NEW w, NEW d, NEW N, NEW a, LinkKept(p, c, w, d, N, a)
  PROVE  c \in Context /\ (p \in SlipPeers => c.slip = 1 \/ c.slip = -1)
<1> DEFINE slip == p \in SlipPeers
           S == Script[p]
<1>1. Kept(slip, c, w, S, d, N, a)
  BY DEF LinkKept
<1>. HIDE DEF slip, S
<1>2. c \in Context
  BY <1>1, KeptContext, Zenon
<1>3. slip => c.slip = 1 \/ c.slip = -1
  BY <1>1, KeptContext, Zenon
<1>. QED
  BY <1>2, <1>3 DEF slip

(* A connection at its start.                                              *)
LEMMA LinkStart ==
  ASSUME NEW p \in Peers, NEW N \in 0 .. Len(Script[p]), NEW w, Waits(p, w, N),
         NEW a \in Losses(p)
  PROVE  LinkKept(p, Stream!InitContext, w, 0, N, a) /\ w \in Seq(Bytes)
<1> DEFINE S == Script[p]
           slip == p \in SlipPeers
<1>1. S \in Messages /\ N \in 0 .. Len(S) /\ MaxMsgSize \in Nat
  BY ScriptIs, Sizes
<1>2. w = IF slip THEN Cat(Slipped(S), 0, N) ELSE Cat(Counted(S), 0, N)
  BY Zenon DEF Waits
<1>2a. slip \/ a = 0
  BY LossesIs
<1>. HIDE DEF S, slip
<1>3. Kept(slip, Stream!InitContext, w, S, 0, N, a)
  BY <1>1, <1>2, <1>2a, KeptStart
<1>4. Cat(Slipped(S), 0, N) \in Seq(Bytes) /\ Cat(Counted(S), 0, N) \in Seq(Bytes)
  <2>1. 0 \in 0 .. N
    OBVIOUS
  <2>. QED
    BY <1>1, <2>1, CatIs, Zenon
<1>. QED
  BY <1>2, <1>3, <1>4, Zenon DEF LinkKept, S, slip

(* What is to come before the connection was accepted.                     *)
LEMMA WaitsMore ==
  ASSUME NEW p \in Peers, NEW N \in 0 .. Len(Script[p]) - 1, NEW w, Waits(p, w, N)
  PROVE  Waits(p, w \o Stream!Encode(p \in SlipPeers, Script[p][N + 1]), N + 1)
<1> DEFINE S == Script[p]
           slip == p \in SlipPeers
           e == Stream!Encode(slip, S[N + 1])
<1>1. S \in Messages /\ N \in 0 .. Len(S) - 1
  BY ScriptIs
<1>2. w = IF slip THEN Cat(Slipped(S), 0, N) ELSE Cat(Counted(S), 0, N)
  BY Zenon DEF Waits
<1>. HIDE DEF S
<1>3. /\ Cat(Counted(S), 0, N + 1) = Cat(Counted(S), 0, N) \o Whole(S[N + 1])
      /\ Cat(Slipped(S), 0, N + 1) = Cat(Slipped(S), 0, N) \o SlipFrom(S[N + 1], 0)
      /\ Stream!SlipEncode(S[N + 1]) = SlipFrom(S[N + 1], 0)
  <2>1. 0 \in 0 .. N
    BY <1>1
  <2>. QED
    BY <1>1, <2>1, CatSend, Zenon
<1>4. /\ slip => e = SlipFrom(S[N + 1], 0)
      /\ ~slip => e = Whole(S[N + 1])
  BY <1>3, Zenon DEF Stream!Encode, Whole
<1>. HIDE DEF e
<1>. QED
  BY <1>2, <1>3, <1>4, Zenon DEF Waits, S, e

(* The code of a message is made of bytes.                                 *)
LEMMA EncodeIs ==
  ASSUME NEW p \in Peers, NEW N \in 0 .. Len(Script[p]) - 1
  PROVE  Stream!Encode(p \in SlipPeers, Script[p][N + 1]) \in Seq(Bytes)
<1> DEFINE S == Script[p]
           slip == p \in SlipPeers
           e == Stream!Encode(slip, S[N + 1])
<1>1. S \in Messages /\ N \in 0 .. Len(S) - 1
  BY ScriptIs
<1>. HIDE DEF S
<1>3. /\ Whole(S[N + 1]) \in Seq(Bytes) /\ SlipFrom(S[N + 1], 0) \in Seq(Bytes)
      /\ Stream!SlipEncode(S[N + 1]) = SlipFrom(S[N + 1], 0)
  <2>1. 0 \in 0 .. N
    BY <1>1
  <2>. QED
    BY <1>1, <2>1, CatSend, Zenon
<1>4. /\ slip => e = SlipFrom(S[N + 1], 0)
      /\ ~slip => e = Whole(S[N + 1])
  BY <1>3, Zenon DEF Stream!Encode, Whole
<1>. QED
  BY <1>3, <1>4, Zenon DEF S

(* A peer sends to a socket that the server has.                           *)
LEMMA LinkSend ==
  ASSUME NEW p \in Peers, NEW N \in 0 .. Len(Script[p]) - 1, NEW d \in 0 .. N,
         NEW c, NEW w, NEW a, LinkKept(p, c, w, d, N, a)
  PROVE  LinkKept(p, c, w \o Stream!Encode(p \in SlipPeers, Script[p][N + 1]), d, N + 1, a)
<1> DEFINE S == Script[p]
           slip == p \in SlipPeers
<1>1. /\ S \in Messages /\ N \in 0 .. Len(S) - 1 /\ Kept(slip, c, w, S, d, N, a)
      /\ a \in Losses(p) /\ a \in 0 .. 3
  BY ScriptIs, LossesIs DEF LinkKept
<1>. HIDE DEF S, slip
<1>2. Kept(slip, c, w \o Stream!Encode(slip, S[N + 1]), S, d, N + 1, a)
  BY <1>1, KeptSend
<1>. QED
  BY <1>1, <1>2, Zenon DEF LinkKept, S, slip

(* A message is dispatched.                                                *)
LEMMA LinkDispatch ==
  ASSUME NEW p \in Peers, NEW N \in 0 .. Len(Script[p]), NEW d \in 0 .. N,
         NEW c, NEW w, NEW a, LinkKept(p, c, w, d, N, a), Stream!ContainsMsg(c) # 0
  PROVE  /\ d + 1 \in 0 .. N /\ Stream!FirstMsg(c) = Zeroed(Script[p], a)[d + 1]
         /\ LinkKept(p, Stream!AfterDispatch(c), w, d + 1, N, a)
         /\ p \notin SlipPeers => Len(Script[p][d + 1]) + 4 <= MaxMsgSize
<1> DEFINE S == Script[p]
           slip == p \in SlipPeers
<1>1. /\ S \in Messages /\ N \in 0 .. Len(S) /\ Kept(slip, c, w, S, d, N, a) /\ MaxMsgSize \in Nat
      /\ a \in Losses(p) /\ a \in 0 .. 3
  BY ScriptIs, Sizes, LossesIs DEF LinkKept
<1>. HIDE DEF S, slip
<1>2. /\ d + 1 \in 0 .. N /\ Stream!FirstMsg(c) = Zeroed(S, a)[d + 1]
      /\ Kept(slip, Stream!AfterDispatch(c), w, S, d + 1, N, a)
      /\ ~slip => Len(S[d + 1]) + 4 <= MaxMsgSize
  BY <1>1, KeptDispatch
<1>. QED
  BY <1>1, <1>2, Zenon DEF LinkKept, S, slip

(* Without a whole message: all came, or the next can not.                 *)
LEMMA LinkEnds ==
  ASSUME NEW p \in Peers, NEW N \in 0 .. Len(Script[p]), NEW d \in 0 .. N,
         NEW c, NEW w, NEW a, LinkKept(p, c, w, d, N, a), Stream!ContainsMsg(c) = 0
  PROVE  /\ w = <<>> => d = N
         /\ Len(c.buf) >= MaxMsgSize => Blocked(p, d, N)
<1> DEFINE S == Script[p]
           slip == p \in SlipPeers
<1>1. /\ S \in Messages /\ N \in 0 .. Len(S) /\ Kept(slip, c, w, S, d, N, a)
      /\ MaxMsgSize \in Nat /\ 5 <= MaxMsgSize /\ (slip => Detectable(S))
      /\ a \in 0 .. 3
  BY ScriptIs, Sizes, LossesIs DEF LinkKept
<1>. HIDE DEF S, slip
<1>2. /\ w = <<>> => d = N
      /\ Len(c.buf) >= MaxMsgSize =>
           /\ d < N /\ (slip => Len(S[d + 1]) + 5 > MaxMsgSize)
           /\ ~slip => Len(S[d + 1]) + 4 > MaxMsgSize
  BY <1>1, KeptEnds
<1>3. ASSUME Len(c.buf) >= MaxMsgSize PROVE Blocked(p, d, N)
  <2>1. CASE slip
    <3>1. d < N /\ Len(S[d + 1]) + 5 > MaxMsgSize
      BY <1>2, <1>3, <2>1, Zenon
    <3>. QED
      BY <2>1, <3>1, Zenon DEF Blocked, Stream!Unfit, S, slip
  <2>2. CASE ~slip
    <3>1. d < N /\ Len(S[d + 1]) + 4 > MaxMsgSize
      BY <1>2, <1>3, <2>2, Zenon
    <3>. QED
      BY <2>2, <3>1, Zenon DEF Blocked, Stream!Unfit, S, slip
  <2>. QED
    BY <2>1, <2>2
<1>. QED
  BY <1>2, <1>3, Zenon

\* What of a stream is lost once more of it is read.
Loses(p, c, a) == IF p \in SlipPeers /\ c.slip = -1 THEN Len(c.buf) ELSE a

(* Only a stream that is not known yet loses anything.                     *)
LEMMA LosesIs ==
  ASSUME NEW p \in Peers, NEW c, NEW w, NEW d, NEW N, NEW a, LinkKept(p, c, w, d, N, a)
  PROVE  /\ LinkKept(p, c, w, d, N, Loses(p, c, a)) /\ Loses(p, c, a) \in Losses(p)
         /\ Loses(p, c, a) = a \/ d = 0
         /\ Losing(p \in SlipPeers, c, Loses(p, c, a))
<1> DEFINE S == Script[p]
           slip == p \in SlipPeers
           b == Loses(p, c, a)
<1>1. Kept(slip, c, w, S, d, N, a) /\ a \in Losses(p)
  BY DEF LinkKept
<1>2. CASE slip /\ c.slip = -1
  <2>1. b = Len(c.buf)
    BY <1>2, Zenon DEF Loses
  <2>2. Fresh(c, w, S, d, N)
    <3>1. c.slip # 1
      BY <1>2
    <3>. QED
      BY <1>1, <1>2, <3>1, KeptContext, Zenon
  <2>3. Len(c.buf) \in 0 .. 3 /\ d = 0
    <3>1. c \in Context /\ Len(c.buf) < 4 /\ d = 0
      BY <2>2 DEF Fresh
    <3>2. c.buf \in Seq(Bytes)
      BY <3>1 DEF Context
    <3>3. Len(c.buf) \in Nat
      BY <3>2
    <3>4. \A n \in Nat : n < 4 => n \in 0 .. 3
      OBVIOUS
    <3>. QED
      BY <3>1, <3>3, <3>4, Zenon
  <2>4. b \in Losses(p)
    BY <1>2, <2>1, <2>3, Zenon DEF Losses
  <2>5. Kept(slip, c, w, S, d, N, b)
    BY <1>2, <2>2, Zenon DEF Kept
  <2>6. Losing(slip, c, b)
    BY <2>1, Zenon DEF Losing
  <2>. QED
    BY <2>3, <2>4, <2>5, <2>6, Zenon DEF LinkKept
<1>3. CASE ~(slip /\ c.slip = -1)
  <2>1. b = a
    BY <1>3, Zenon DEF Loses
  <2>2. Losing(slip, c, b)
    BY <1>3, Zenon DEF Losing
  <2>. QED
    BY <1>1, <2>1, <2>2, Zenon
<1>. QED
  BY <1>2, <1>3

(* The part of LosesIs that is about the loss alone.                       *)
LEMMA LosesSome ==
  ASSUME NEW p \in Peers, NEW c, NEW w, NEW d, NEW N, NEW a, LinkKept(p, c, w, d, N, a)
  PROVE  Loses(p, c, a) \in Losses(p) /\ (Loses(p, c, a) = a \/ d = 0)
BY LosesIs

(* The server reads what has arrived.                                      *)
LEMMA LinkReceived ==
  ASSUME NEW p \in Peers, NEW N \in 0 .. Len(Script[p]), NEW d \in 0 .. N,
         NEW c, NEW w \in Seq(Bytes), NEW a, LinkKept(p, c, w, d, N, a),
         Stream!ContainsMsg(c) = 0, NEW k \in 0 .. Len(w)
  PROVE  LET r == Stream!Received(c, SubSeq(w, 1, k))
             rest == r.rest \o Stream!Drop(w, k)
         IN  /\ LinkKept(p, r.sc, rest, d, N, Loses(p, c, a)) /\ rest \in Seq(Bytes)
             /\ r.full => Blocked(p, d, N)
             /\ p \notin SlipPeers => ~r.risky
<1> DEFINE S == Script[p]
           slip == p \in SlipPeers
           u == SubSeq(w, 1, k)
           v == Suffix(w, k)
           r == Stream!Received(c, u)
           b == Loses(p, c, a)
<1>1. /\ LinkKept(p, c, w, d, N, b) /\ b \in Losses(p) /\ Losing(slip, c, b)
  BY LosesIs
<1>1a. /\ S \in Messages /\ N \in 0 .. Len(S) /\ Kept(slip, c, w, S, d, N, b)
       /\ slip => Detectable(S)
       /\ MinBuffer \in Nat /\ MaxMsgSize \in Nat /\ 5 <= MinBuffer /\ MinBuffer <= MaxMsgSize
       /\ b \in 0 .. 3
  BY <1>1, ScriptIs, Sizes, LossesIs, Zenon DEF LinkKept
<1>2. /\ u \in Seq(Bytes) /\ v \in Seq(Bytes) /\ u \o v = w
  BY TakeDrop
<1>5. Stream!Drop(w, k) = v
  BY Zenon DEF Stream!Drop, Suffix
<1>. HIDE DEF S, slip, u, v, b
<1>7. Kept(slip, c, u \o v, S, d, N, b)
  BY <1>1a, <1>2, Zenon
<1>8. TurnKept(slip, r, v, S, d, N, b)
  BY <1>1, <1>1a, <1>2, <1>7, ReceivedKeeps, Zenon
<1>. HIDE DEF r
<1> DEFINE rest == r.rest \o v
<1>9. rest \in Seq(Bytes)
  <2>1. r.rest \in Seq(Bytes)
    BY <1>8 DEF TurnKept, Turns
  <2>. QED
    BY <1>2, <2>1, BytesConcat
<1>. HIDE DEF rest
<1>10. LinkKept(p, r.sc, rest, d, N, b)
  BY <1>1, <1>8, Zenon DEF TurnKept, LinkKept, S, slip, rest
<1>11. r.full => Blocked(p, d, N)
  <2>1. ASSUME r.full PROVE Blocked(p, d, N)
    <3>1. Len(r.sc.buf) >= MaxMsgSize /\ Stream!ContainsMsg(r.sc) = 0
      BY <1>8, <2>1, Zenon DEF TurnKept
    <3> DEFINE e == r.sc
    <3>2. LinkKept(p, e, rest, d, N, b) /\ Stream!ContainsMsg(e) = 0 /\ Len(e.buf) >= MaxMsgSize
      BY <1>10, <3>1
    <3>. HIDE DEF e
    <3>. QED
      BY <3>2, LinkEnds
  <2>. QED
    BY <2>1
<1>12. p \notin SlipPeers => ~r.risky
  BY <1>8, Zenon DEF TurnKept, slip
<1>. QED
  BY <1>5, <1>9, <1>10, <1>11, <1>12, Zenon DEF r, u, rest, b

\* What is between a peer and the server: ds were delivered of the N messages
\* sent, the bytes w are not read; closed, tk and on say whether the peer has
\* closed its side and whether the server accepted it and still has the socket.
PeerKept(p, ds, N, w, closed, tk, on, a) ==
  /\ Delivers(p, ds, N, a) /\ w \in Seq(Bytes)
  /\ ~tk => Len(ds) = 0 /\ Waits(p, w, N)
  /\ tk /\ ~on => (closed /\ Len(ds) = N) \/ Blocked(p, Len(ds), N)

(* What Delivers says of the numbers.                                      *)
LEMMA DeliversNumbers ==
  ASSUME NEW p \in Peers, NEW ds, NEW N, NEW a, Delivers(p, ds, N, a)
  PROVE  /\ N \in 0 .. Len(Script[p]) /\ Len(ds) \in 0 .. N /\ N \in Nat /\ Len(ds) \in Nat
         /\ Len(Script[p]) \in Nat
<1>1. Len(Script[p]) \in Nat
  BY ScriptIs, CountedIs
<1>2. N \in 0 .. Len(Script[p]) /\ Len(ds) \in 0 .. N
  BY DEF Delivers
<1>. QED
  BY <1>1, <1>2

(* A peer sends.                                                           *)
LEMMA PeerSend ==
  ASSUME NEW p \in Peers, NEW ds, NEW N, NEW w, NEW tk, NEW on, NEW closed, NEW a,
         PeerKept(p, ds, N, w, FALSE, tk, on, a), N < Len(Script[p])
  PROVE  LET e == Stream!Encode(p \in SlipPeers, Script[p][N + 1])
         IN  PeerKept(p, ds, N + 1, IF tk /\ ~on THEN w ELSE w \o e, closed, tk, on, a)
<1> DEFINE e == Stream!Encode(p \in SlipPeers, Script[p][N + 1])
           d == Len(ds)
           x == IF tk /\ ~on THEN w ELSE w \o e
<1>1. Delivers(p, ds, N, a)
  BY DEF PeerKept
<1>2. /\ N \in 0 .. Len(Script[p]) - 1 /\ d \in 0 .. N + 1 /\ N + 1 \in 0 .. Len(Script[p])
      /\ N \in Nat /\ d \in Nat
  BY <1>1, DeliversNumbers
<1>3. Delivers(p, ds, N + 1, a)
  BY <1>1, <1>2, Zenon DEF Delivers
<1>4. e \in Seq(Bytes)
  BY <1>2, EncodeIs
<1>5. w \in Seq(Bytes) /\ x \in Seq(Bytes)
  <2>1. w \in Seq(Bytes)
    BY DEF PeerKept
  <2>. HIDE DEF e
  <2>2. w \o e \in Seq(Bytes)
    BY <1>4, <2>1, BytesConcat
  <2>. QED
    BY <2>1, <2>2, Zenon
<1>6. ~tk => d = 0 /\ Waits(p, x, N + 1)
  <2>1. ASSUME ~tk PROVE d = 0 /\ Waits(p, x, N + 1)
    <3>1. d = 0 /\ Waits(p, w, N)
      BY <2>1, Zenon DEF PeerKept
    <3>2. Waits(p, w \o e, N + 1)
      BY <1>2, <3>1, WaitsMore
    <3>3. x = w \o e
      BY <2>1, Zenon
    <3>. QED
      BY <3>1, <3>2, <3>3, Zenon
  <2>. QED
    BY <2>1
<1>7. tk /\ ~on => Blocked(p, d, N + 1)
  <2>1. ASSUME tk, ~on PROVE Blocked(p, d, N + 1)
    <3>1. Blocked(p, d, N)
      BY <2>1, Zenon DEF PeerKept
    <3>2. d < N => d < N + 1
      BY <1>2
    <3>. QED
      BY <3>1, <3>2, Zenon DEF Blocked
  <2>. QED
    BY <2>1
<1>. HIDE DEF x, d
<1>8. PeerKept(p, ds, N + 1, x, closed, tk, on, a)
  BY <1>3, <1>5, <1>6, <1>7, Zenon DEF PeerKept, d
<1>. QED
  BY <1>8 DEF x

(* It closes its side.                                                     *)
LEMMA PeerClose ==
  ASSUME NEW p, NEW ds, NEW N, NEW w, NEW tk, NEW on, NEW closed, NEW closes, NEW a,
         PeerKept(p, ds, N, w, closed, tk, on, a), closed => closes
  PROVE  PeerKept(p, ds, N, w, closes, tk, on, a)
BY Zenon DEF PeerKept

(* It is accepted.                                                         *)
LEMMA PeerAdd ==
  ASSUME NEW p \in Peers, NEW ds, NEW N, NEW w, NEW closed, NEW on, NEW a,
         PeerKept(p, ds, N, w, closed, FALSE, on, a)
  PROVE  /\ PeerKept(p, ds, N, w, closed, TRUE, TRUE, a)
         /\ LinkKept(p, Stream!InitContext, w, Len(ds), N, a)
<1>1. /\ Delivers(p, ds, N, a) /\ w \in Seq(Bytes) /\ Len(ds) = 0 /\ Waits(p, w, N)
      /\ a \in Losses(p)
  BY Zenon DEF PeerKept, Delivers
<1>2. PeerKept(p, ds, N, w, closed, TRUE, TRUE, a)
  BY <1>1, Zenon DEF PeerKept
<1>3. N \in 0 .. Len(Script[p])
  BY <1>1, DeliversNumbers
<1>4. LinkKept(p, Stream!InitContext, w, 0, N, a)
  BY <1>1, <1>3, LinkStart
<1>. QED
  BY <1>1, <1>2, <1>4, Zenon

(* One of its messages is dispatched.                                      *)
LEMMA PeerDispatch ==
  ASSUME NEW p \in Peers, NEW ds, NEW N, NEW w, NEW closed, NEW c, NEW a,
         PeerKept(p, ds, N, w, closed, TRUE, TRUE, a), LinkKept(p, c, w, Len(ds), N, a),
         Stream!ContainsMsg(c) > 0
  PROVE  LET dt == Append(ds, Stream!FirstMsg(c))
         IN  /\ PeerKept(p, dt, N, w, closed, TRUE, TRUE, a)
             /\ LinkKept(p, Stream!AfterDispatch(c), w, Len(dt), N, a)
<1> DEFINE d == Len(ds)
           m == Stream!FirstMsg(c)
           dt == Append(ds, m)
<1>1. Delivers(p, ds, N, a) /\ w \in Seq(Bytes)
  BY Zenon DEF PeerKept
<1>2. N \in 0 .. Len(Script[p]) /\ d \in 0 .. N /\ LinkKept(p, c, w, d, N, a)
  BY <1>1, DeliversNumbers
<1>3. Stream!ContainsMsg(c) # 0
  OBVIOUS
<1>4. d = Len(ds)
  OBVIOUS
<1>. HIDE DEF d
<1>5. /\ d + 1 \in 0 .. N /\ m = Zeroed(Script[p], a)[d + 1]
      /\ LinkKept(p, Stream!AfterDispatch(c), w, d + 1, N, a)
      /\ p \notin SlipPeers => Len(Script[p][d + 1]) + 4 <= MaxMsgSize
  BY <1>2, <1>3, LinkDispatch
<1>. HIDE DEF m
<1>7. Delivers(p, dt, N, a) /\ Len(dt) = d + 1
  BY <1>1, <1>4, <1>5, DeliversMore
<1>. HIDE DEF dt
<1>8. PeerKept(p, dt, N, w, closed, TRUE, TRUE, a)
  BY <1>1, <1>7, Zenon DEF PeerKept
<1>. QED
  BY <1>5, <1>7, <1>8, Zenon DEF dt, m

(* Some of its bytes are read, and others lost.                            *)
LEMMA PeerRead ==
  ASSUME NEW p, NEW ds, NEW N, NEW w, NEW closed, NEW rest \in Seq(Bytes), NEW a,
         PeerKept(p, ds, N, w, closed, TRUE, TRUE, a),
         NEW b \in Losses(p), b = a \/ Len(ds) = 0
  PROVE  PeerKept(p, ds, N, rest, closed, TRUE, TRUE, b)
<1>1. Delivers(p, ds, N, a)
  BY DEF PeerKept
<1>2. Delivers(p, ds, N, b)
  BY <1>1, DeliversMoves, Zenon
<1>. QED
  BY <1>2, Zenon DEF PeerKept

(* Its socket is given up.                                                 *)
LEMMA PeerRemoved ==
  ASSUME NEW p, NEW ds, NEW N, NEW w, NEW closed, NEW rest \in Seq(Bytes), NEW a,
         PeerKept(p, ds, N, w, closed, TRUE, TRUE, a),
         (closed /\ Len(ds) = N) \/ Blocked(p, Len(ds), N)
  PROVE  PeerKept(p, ds, N, rest, closed, TRUE, FALSE, a)
BY Zenon DEF PeerKept

(* What a peer is promised of what was delivered.                          *)
LEMMA PeerPromise ==
  ASSUME NEW p \in Peers, SentKept(p, sent[p]), NEW ds, NEW w, NEW closed, NEW tk, NEW on,
         NEW a,
         PeerKept(p, ds, Len(sent[p]), w, closed, tk, on, a)
  PROVE  /\ Stream!IsPrefix(ds, Zeroed(sent[p], a))
         /\ tk /\ ~on => closed \/ Stream!TooLong(p)
         /\ Len(ds) = Len(sent[p]) \/ Blocked(p, Len(ds), Len(sent[p])) =>
              /\ Len(ds) >= Stream!Cardinality(Stream!Fitting(p))
              /\ p \notin SlipPeers => Len(ds) = Stream!Cardinality(Stream!Fitting(p))
<1> DEFINE N == Len(sent[p])
           d == Len(ds)
<1>1. Delivers(p, ds, N, a)
  BY DEF PeerKept
<1>2. Stream!IsPrefix(ds, Zeroed(sent[p], a))
  BY <1>1, DeliversPrefix
<1>3. ASSUME d = N \/ Blocked(p, d, N)
      PROVE  /\ d >= Stream!Cardinality(Stream!Fitting(p))
             /\ p \notin SlipPeers => d = Stream!Cardinality(Stream!Fitting(p))
  BY <1>1, <1>3, FittingIs
<1>4. ASSUME Blocked(p, d, N) PROVE Stream!TooLong(p)
  <2>1. d < N /\ Stream!Unfit(p, Script[p][d + 1])
    BY <1>4 DEF Blocked
  <2>2. d + 1 \in 1 .. N
    BY <1>1, <2>1, DeliversNumbers
  <2>3. sent[p][d + 1] = Script[p][d + 1] /\ DOMAIN sent[p] = 1 .. N
    BY <2>2 DEF SentKept
  <2>. QED
    BY <2>1, <2>2, <2>3, Zenon DEF Stream!TooLong
<1>5. tk /\ ~on => (closed /\ d = N) \/ Blocked(p, d, N)
  BY DEF PeerKept
<1>. QED
  BY <1>2, <1>3, <1>4, <1>5

On(p) == \E i \in 1 .. Len(sockets) : sockets[i] = p
Closed(p) == peer[p] = "closed"

\* There is a context for every socket.
ListKept ==
  /\ DOMAIN contexts = Stream!Slots /\ sockets \in Seq(Peers)
  /\ taken \in SUBSET Peers /\ Len(sockets) <= Cardinality(taken)
  /\ \A i \in 1 .. Len(sockets) : sockets[i] \in taken
  /\ \A i, j \in 1 .. Len(sockets) : sockets[i] = sockets[j] => i = j
\* What PeerKept and LinkKept say of a state.
PeerIs(p) ==
  PeerKept(p, delivered[p], Len(sent[p]), wire[p], Closed(p), p \in taken, On(p), lost[p])
LinkIs(i) ==
  LET p == sockets[i]
  IN  LinkKept(p, contexts[i], wire[p], Len(delivered[p]), Len(sent[p]), lost[p])
PeersKept ==
  /\ DOMAIN peer = Peers /\ DOMAIN sent = Peers /\ DOMAIN wire = Peers
  /\ DOMAIN delivered = Peers /\ DOMAIN lost = Peers
  /\ \A p \in Peers : SentKept(p, sent[p]) /\ PeerIs(p)
LinksKept == \A i \in 1 .. Len(sockets) : LinkIs(i)
\* Nothing is promised any more when a context is not its socket's.
StreamsKept ==
  /\ shifted \in BOOLEAN
  /\ ~shifted => ListKept /\ PeersKept /\ LinksKept /\ wild \subseteq SlipPeers

(* A function after one assignment.                                        *)
LEMMA Assigned ==
  ASSUME NEW f, NEW D, DOMAIN f = D, NEW p \in D, NEW e, NEW g, g = [f EXCEPT ![p] = e]
  PROVE  DOMAIN g = D /\ g[p] = e /\ \A q \in D : q # p => g[q] = f[q]
OBVIOUS

(* The contexts are those of the sockets, by their index.                  *)
LEMMA SocketFacts ==
  ASSUME ListKept
  PROVE  /\ Len(sockets) \in Nat /\ DOMAIN sockets = 1 .. Len(sockets)
         /\ Stream!Slots = 1 .. Cardinality(Peers) /\ Cardinality(Peers) \in Nat
         /\ IsFiniteSet(taken) /\ Cardinality(taken) \in Nat
         /\ \A i \in 1 .. Len(sockets) : i \in Stream!Slots /\ sockets[i] \in Peers
         /\ \A p : p \in Stream!ToSet(sockets) <=> On(p)
         /\ \A p : On(p) => p \in taken
<1>1. /\ sockets \in Seq(Peers) /\ taken \in SUBSET Peers /\ Len(sockets) <= Cardinality(taken)
      /\ \A i \in 1 .. Len(sockets) : sockets[i] \in taken
  BY DEF ListKept
<1>2. Len(sockets) \in Nat /\ DOMAIN sockets = 1 .. Len(sockets)
  BY <1>1
<1>3. Stream!Slots = 1 .. Cardinality(Peers)
  BY SameCardinality, Zenon DEF Stream!Slots
<1>4. IsFiniteSet(Peers)
  BY Sizes
<1>5. IsFiniteSet(taken) /\ Cardinality(taken) <= Cardinality(Peers)
  BY <1>1, <1>4, FS_Subset
<1>6. Cardinality(taken) \in Nat /\ Cardinality(Peers) \in Nat
  BY <1>4, <1>5, FS_CardinalityType
<1>7. \A i \in 1 .. Len(sockets) : i \in Stream!Slots /\ sockets[i] \in Peers
  BY <1>1, <1>2, <1>3, <1>5, <1>6
<1>8. \A p : p \in Stream!ToSet(sockets) <=> On(p)
  <2>1. Stream!ToSet(sockets) = {sockets[i] : i \in DOMAIN sockets}
    BY Zenon DEF Stream!ToSet
  <2>. QED
    BY <1>2, <2>1, Zenon DEF On
<1>9. \A p : On(p) => p \in taken
  BY <1>1, Zenon DEF On
<1>. QED
  BY <1>2, <1>3, <1>5, <1>6, <1>7, <1>8, <1>9

(* The index of a socket.                                                  *)
LEMMA IndexIs ==
  ASSUME ListKept, NEW p, p \in Stream!ToSet(sockets)
  PROVE  /\ Stream!Index(p) \in 1 .. Len(sockets) /\ sockets[Stream!Index(p)] = p
         /\ On(p) /\ p \in Peers /\ p \in taken
<1>1. /\ DOMAIN sockets = 1 .. Len(sockets) /\ On(p) /\ p \in taken
  BY SocketFacts
<1>2. \E i \in DOMAIN sockets : sockets[i] = p
  BY <1>1 DEF On
<1>3. Stream!Index(p) = CHOOSE i \in DOMAIN sockets : sockets[i] = p
  BY Zenon DEF Stream!Index
<1>4. Stream!Index(p) \in DOMAIN sockets /\ sockets[Stream!Index(p)] = p
  BY <1>2, <1>3, Zenon
<1>5. p \in Peers
  BY <1>1 DEF ListKept
<1>. QED
  BY <1>1, <1>4, <1>5

(* Where no message is whole, there is none in any context.                *)
LEMMA NoneWhole ==
  ASSUME ListKept, Stream!Whole = {}, NEW i \in 1 .. Len(sockets), contexts[i] \in Context
  PROVE  Stream!ContainsMsg(contexts[i]) = 0
<1>1. DOMAIN sockets = 1 .. Len(sockets)
  BY SocketFacts
<1>2. ~(Stream!ContainsMsg(contexts[i]) > 0)
  BY <1>1 DEF Stream!Whole
<1>. QED
  BY <1>2, ContainsLength

(* A peer connects or closes its side, or errno changes.                   *)
LEMMA PeerMoves ==
  ASSUME ListKept, PeersKept, LinksKept,
         UNCHANGED <<sent, wire, sockets, contexts, taken, delivered, lost>>,
         DOMAIN peer' = Peers, \A q \in Peers : Closed(q) => Closed(q)'
  PROVE  ListKept' /\ PeersKept' /\ LinksKept'
<1>1. ListKept'
  BY DEF ListKept, Stream!Slots
<1>2. LinksKept'
  BY DEF LinksKept, LinkIs
<1>3. ASSUME NEW q \in Peers
      PROVE  PeerKept(q, delivered[q], Len(sent[q]), wire[q], Closed(q)', q \in taken, On(q), lost[q])
  <2>1. PeerKept(q, delivered[q], Len(sent[q]), wire[q], Closed(q), q \in taken, On(q), lost[q])
    BY <1>3 DEF PeersKept, PeerIs
  <2>2. Closed(q) => Closed(q)'
    BY <1>3
  <2> DEFINE ds == delivered[q]
             w == wire[q]
             N == Len(sent[q])
             tk == q \in taken
             on == On(q)
             a == lost[q]
  <2>3. PeerKept(q, ds, N, w, Closed(q), tk, on, a)
    BY <2>1
  <2>. HIDE DEF ds, w, N, tk, on, a
  <2>4. PeerKept(q, ds, N, w, Closed(q)', tk, on, a)
    BY <2>2, <2>3, Zenon DEF PeerKept
  <2>. QED
    BY <2>4 DEF ds, w, N, tk, on, a
<1>4. \A q : On(q)' <=> On(q)
  BY DEF On
<1>5. PeersKept'
  <2>1. /\ DOMAIN peer' = Peers /\ DOMAIN sent' = Peers /\ DOMAIN wire' = Peers
        /\ DOMAIN delivered' = Peers /\ DOMAIN lost' = Peers
        /\ \A q \in Peers : SentKept(q, sent'[q])
    BY DEF PeersKept
  <2>2. ASSUME NEW q \in Peers PROVE PeerIs(q)'
    BY <1>3, <2>2, Zenon DEF On, PeerIs
  <2>. QED
    BY <2>1, <2>2 DEF PeersKept
<1>. QED
  BY <1>1, <1>2, <1>5

(* A peer sends its next message.                                          *)
LEMMA StreamSend ==
  ASSUME ListKept, PeersKept, LinksKept, NEW p \in Peers, Stream!Send(p)
  PROVE  ListKept' /\ PeersKept' /\ LinksKept'
<1> DEFINE N == Len(sent[p])
           m == Script[p][N + 1]
           e == Stream!Encode(p \in SlipPeers, m)
           gone == p \in taken /\ ~On(p)
           x == IF gone THEN wire[p] ELSE wire[p] \o e
<1>1. /\ peer[p] = "connected" /\ N < Len(Script[p])
      /\ sent' = [sent EXCEPT ![p] = Append(@, m)]
      /\ wire' = IF p \in taken /\ p \notin Stream!ToSet(sockets) THEN wire
                 ELSE [wire EXCEPT ![p] = @ \o e]
      /\ UNCHANGED <<peer, sockets, contexts, taken, delivered, lost>>
  BY Zenon DEF Stream!Send, Stream!server
<1>2. /\ DOMAIN sent = Peers /\ DOMAIN wire = Peers /\ DOMAIN delivered = Peers /\ DOMAIN peer = Peers
      /\ DOMAIN lost = Peers
  BY DEF PeersKept
<1>3. ~Closed(p)
  BY <1>1 DEF Closed
<1>4. p \in Stream!ToSet(sockets) <=> On(p)
  BY SocketFacts
<1>5. wire' = IF gone THEN wire ELSE [wire EXCEPT ![p] = @ \o e]
  BY <1>1, <1>4, Zenon
<1>. HIDE DEF m, e, gone
<1>6. DOMAIN sent' = Peers /\ sent'[p] = Append(sent[p], m) /\ \A q \in Peers : q # p => sent'[q] = sent[q]
  <2>1. sent' = [sent EXCEPT ![p] = Append(sent[p], m)]
    BY <1>1
  <2>. QED
    BY <1>2, <2>1, Assigned
<1>7. DOMAIN wire' = Peers /\ wire'[p] = x /\ \A q \in Peers : q # p => wire'[q] = wire[q]
  <2>1. CASE gone
    BY <1>2, <1>5, <2>1, Zenon
  <2>2. CASE ~gone
    <3>1. wire' = [wire EXCEPT ![p] = wire[p] \o e]
      BY <1>5, <2>2
    <3>2. DOMAIN wire' = Peers /\ wire'[p] = wire[p] \o e /\ \A q \in Peers : q # p => wire'[q] = wire[q]
      BY <1>2, <3>1, Assigned
    <3>. QED
      BY <2>2, <3>2, Zenon
  <2>. QED
    BY <2>1, <2>2
<1>8. SentKept(p, sent[p])
  BY DEF PeersKept
<1>9. SentKept(p, sent'[p]) /\ Len(sent'[p]) = N + 1
  BY <1>1, <1>6, <1>8, SentMore DEF m
<1>. HIDE DEF x
<1>10. ListKept'
  BY <1>1 DEF ListKept, Stream!Slots
<1>11. \A q : On(q)' <=> On(q)
  BY <1>1 DEF On
<1>12. PeersKept'
  <2>1. \A q \in Peers : SentKept(q, sent'[q])
    BY <1>6, <1>9, Zenon DEF PeersKept
  <2>2. ASSUME NEW q \in Peers PROVE PeerIs(q)'
    <3>1. PeerIs(q)
      BY <1>1, <2>2 DEF PeersKept
    <3>2. CASE q # p
      <4>1. sent'[q] = sent[q] /\ wire'[q] = wire[q]
        BY <1>6, <1>7, <2>2, <3>2
      <4>. QED
        BY <1>1, <1>11, <3>1, <4>1, Zenon DEF PeerIs, Closed, On
    <3>3. CASE q = p
      <4> DEFINE ds == delivered[p]
                 w == wire[p]
                 tk == p \in taken
                 on == On(p)
                 cl == Closed(p)'
                 a == lost[p]
      <4>1. PeerKept(p, ds, N, w, FALSE, tk, on, a)
        <5>1. PeerIs(p)
          BY <3>1, <3>3
        <5>. QED
          BY <1>3, <5>1, Zenon DEF PeerIs, PeerKept
      <4>. HIDE DEF ds, w, tk, on, cl, N, a
      <4>2. PeerKept(p, ds, N + 1, IF tk /\ ~on THEN w ELSE w \o e, cl, tk, on, a)
        BY <1>1, <4>1, PeerSend, Zenon DEF e, m
      <4>3. PeerKept(p, ds, N + 1, x, cl, tk, on, a)
        BY <4>2, Zenon DEF x, gone, tk, on, w
      <4>4. PeerKept(p, ds, Len(sent'[p]), wire'[p], cl, tk, on, a)
        BY <1>7, <1>9, <4>3, Zenon
      <4>5. /\ ds = delivered'[p] /\ (tk <=> p \in taken') /\ (on <=> On(p)')
            /\ a = lost'[p]
        BY <1>1, <1>11 DEF ds, tk, on, a
      <4>. QED
        <5>1. PeerIs(p)'
          BY <4>4, <4>5, Zenon DEF PeerIs, PeerKept, cl
        <5>. QED
          BY <3>3, <5>1
    <3>. QED
      BY <3>2, <3>3
  <2>3. /\ DOMAIN peer' = Peers /\ DOMAIN sent' = Peers /\ DOMAIN wire' = Peers /\ DOMAIN delivered' = Peers
        /\ DOMAIN lost' = Peers
    BY <1>1, <1>2, <1>6, <1>7
  <2>. QED
    BY <2>1, <2>2, <2>3 DEF PeersKept
<1>13. LinksKept'
  <2>1. ASSUME NEW i \in 1 .. Len(sockets) PROVE LinkIs(i)'
    <3> DEFINE q == sockets[i]
               d == Len(delivered[q])
               c == contexts[i]
               a == lost[q]
    <3>1. LinkKept(q, c, wire[q], d, Len(sent[q]), a) /\ q \in Peers /\ On(q)
      <4>1. q \in Peers
        BY <2>1, SocketFacts
      <4>2. On(q)
        BY <2>1 DEF On
      <4>. QED
        BY <2>1, <4>1, <4>2 DEF LinksKept, LinkIs
    <3>2. LinkKept(q, c, wire'[q], d, Len(sent'[q]), a)
      <4>1. CASE q # p
        <5>1. sent'[q] = sent[q] /\ wire'[q] = wire[q]
          BY <1>6, <1>7, <3>1, <4>1
        <5>. QED
          BY <3>1, <5>1
      <4>2. CASE q = p
        <5>1. Delivers(p, delivered[p], N, lost[p])
          <6>1. PeerIs(p)
            BY <2>1, <4>2 DEF PeersKept
          <6>. QED
            BY <6>1 DEF PeerIs, PeerKept
        <5>2. d \in 0 .. N /\ N \in 0 .. Len(Script[p]) - 1
          <6>1. Len(delivered[p]) \in 0 .. N /\ N \in 0 .. Len(Script[p]) /\ Len(Script[p]) \in Nat
            BY <5>1, DeliversNumbers
          <6>. QED
            BY <1>1, <4>2, <6>1
        <5>3. LinkKept(p, c, wire[p], d, N, a)
          BY <3>1, <4>2
        <5>4. x = wire[p] \o e
          BY <3>1, <4>2, Zenon DEF x, gone
        <5>. HIDE DEF N, c, d, q, a
        <5>5. LinkKept(p, c, wire[p] \o e, d, N + 1, a)
          BY <5>2, <5>3, LinkSend DEF e, m
        <5>. QED
          BY <1>7, <1>9, <4>2, <5>4, <5>5, Zenon
      <4>. QED
        BY <4>1, <4>2
    <3>. QED
      BY <1>1, <3>2 DEF LinkIs
  <2>. QED
    BY <1>1, <2>1 DEF LinksKept
<1>. QED
  BY <1>10, <1>12, <1>13

(* A connection is accepted: there is a context left for it.               *)
LEMMA StreamAdd ==
  ASSUME ListKept, PeersKept, LinksKept, NEW p \in Peers, Stream!AddSocket(p)
  PROVE  ListKept' /\ PeersKept' /\ LinksKept'
<1> DEFINE n == Len(sockets)
<1>1. /\ p \notin taken /\ sockets' = Append(sockets, p)
      /\ contexts' = [contexts EXCEPT ![n + 1] = Stream!InitContext]
      /\ taken' = taken \cup {p}
      /\ UNCHANGED <<peer, sent, wire, delivered, lost>>
  BY Zenon DEF Stream!AddSocket, Stream!world
<1>2. /\ n \in Nat /\ DOMAIN sockets = 1 .. n
      /\ Stream!Slots = 1 .. Cardinality(Peers) /\ Cardinality(Peers) \in Nat
      /\ IsFiniteSet(taken) /\ Cardinality(taken) \in Nat
      /\ \A i \in 1 .. n : i \in Stream!Slots /\ sockets[i] \in Peers
      /\ \A q : On(q) => q \in taken
  BY SocketFacts
<1>3. /\ DOMAIN contexts = Stream!Slots /\ sockets \in Seq(Peers)
      /\ taken \in SUBSET Peers /\ n <= Cardinality(taken)
      /\ \A i \in 1 .. n : sockets[i] \in taken
      /\ \A i, j \in 1 .. n : sockets[i] = sockets[j] => i = j
  BY DEF ListKept
<1>4. /\ sockets' \in Seq(Peers) /\ Len(sockets') = n + 1 /\ sockets'[n + 1] = p
      /\ \A i \in 1 .. n : sockets'[i] = sockets[i]
  BY <1>1, <1>3
<1>5. taken' \in SUBSET Peers /\ Cardinality(taken') = Cardinality(taken) + 1
  BY <1>1, <1>2, <1>3, FS_AddElement, Zenon
<1>6. Cardinality(taken') <= Cardinality(Peers)
  <2>1. IsFiniteSet(Peers)
    BY Sizes
  <2>2. taken' \in SUBSET Peers
    BY <1>5
  <2>. QED
    BY <2>1, <2>2, FS_Subset
<1>7. n + 1 \in Stream!Slots /\ n + 1 <= Cardinality(taken')
  BY <1>2, <1>3, <1>5, <1>6
<1>. HIDE DEF n
<1>8. /\ DOMAIN contexts' = Stream!Slots /\ contexts'[n + 1] = Stream!InitContext
      /\ \A i \in Stream!Slots : i # n + 1 => contexts'[i] = contexts[i]
  BY <1>1, <1>3, <1>7, Assigned
<1>9. \A i \in 1 .. n + 1 : i \in 1 .. n \/ i = n + 1
  BY <1>2
<1>10. ListKept'
  <2>1. ASSUME NEW i \in 1 .. n + 1 PROVE sockets'[i] \in taken'
    BY <1>1, <1>3, <1>4, <1>9
  <2>2. ASSUME NEW i \in 1 .. n + 1, NEW j \in 1 .. n + 1, sockets'[i] = sockets'[j] PROVE i = j
    <3>1. CASE i \in 1 .. n /\ j \in 1 .. n
      BY <1>3, <1>4, <2>2, <3>1
    <3>2. CASE i \in 1 .. n /\ j = n + 1
      BY <1>1, <1>3, <1>4, <2>2, <3>2
    <3>3. CASE i = n + 1 /\ j \in 1 .. n
      BY <1>1, <1>3, <1>4, <2>2, <3>3
    <3>. QED
      BY <1>9, <3>1, <3>2, <3>3
  <2>3. Stream!Slots' = Stream!Slots
    BY DEF Stream!Slots
  <2>4. Len(sockets') <= Cardinality(taken')
    BY <1>4, <1>7
  <2>5. \A i \in 1 .. Len(sockets') : sockets'[i] \in taken'
    BY <1>4, <2>1
  <2>6. \A i, j \in 1 .. Len(sockets') : sockets'[i] = sockets'[j] => i = j
    BY <1>4, <2>2
  <2>. QED
    BY <1>4, <1>5, <1>8, <2>3, <2>4, <2>5, <2>6, Zenon DEF ListKept
<1>11. ASSUME NEW q PROVE On(q)' <=> On(q) \/ q = p
  <2>1. On(q) => On(q)'
    <3>1. ASSUME NEW i \in 1 .. n, sockets[i] = q PROVE On(q)'
      <4>1. i \in 1 .. Len(sockets') /\ sockets'[i] = q
        BY <1>2, <1>4, <3>1
      <4>. QED
        BY <4>1 DEF On
    <3>. QED
      BY <3>1 DEF On, n
  <2>2. q = p => On(q)'
    <3>1. n + 1 \in 1 .. Len(sockets')
      BY <1>2, <1>4
    <3>. QED
      BY <1>4, <3>1 DEF On
  <2>3. On(q)' => On(q) \/ q = p
    <3>1. ASSUME NEW i \in 1 .. n + 1, sockets'[i] = q PROVE On(q) \/ q = p
      BY <1>4, <1>9, <3>1 DEF On, n
    <3>. QED
      BY <1>4, <3>1 DEF On
  <2>. QED
    BY <2>1, <2>2, <2>3
<1>12. /\ PeerKept(p, delivered[p], Len(sent[p]), wire[p], Closed(p), TRUE, TRUE, lost[p])
       /\ LinkKept(p, Stream!InitContext, wire[p], Len(delivered[p]), Len(sent[p]), lost[p])
  <2>1. PeerKept(p, delivered[p], Len(sent[p]), wire[p], Closed(p), FALSE, On(p), lost[p])
    <3>1. PeerIs(p)
      BY DEF PeersKept
    <3>. QED
      BY <1>1, <3>1, Zenon DEF PeerIs, PeerKept
  <2>. QED
    BY <2>1, PeerAdd, Zenon
<1>13. PeersKept'
  <2>1. ASSUME NEW q \in Peers PROVE PeerIs(q)'
    <3>1. PeerIs(q)
      BY <1>1, <2>1 DEF PeersKept
    <3>2. CASE q # p
      <4>1. (On(q)' <=> On(q)) /\ (q \in taken' <=> q \in taken)
        BY <1>1, <1>11, <3>2
      <4>2. /\ delivered'[q] = delivered[q] /\ sent'[q] = sent[q] /\ wire'[q] = wire[q]
            /\ lost'[q] = lost[q] /\ (Closed(q)' <=> Closed(q))
        BY <1>1 DEF Closed
      <4>. QED
        BY <3>1, <4>1, <4>2, Zenon DEF PeerIs, PeerKept
    <3>3. CASE q = p
      <4>1. On(p)' /\ p \in taken'
        BY <1>1, <1>11, <2>1, <3>3
      <4>2. /\ delivered'[p] = delivered[p] /\ sent'[p] = sent[p] /\ wire'[p] = wire[p]
            /\ lost'[p] = lost[p] /\ (Closed(p)' <=> Closed(p))
        BY <1>1 DEF Closed
      <4>3. PeerIs(p)'
        BY <1>12, <4>1, <4>2, Zenon DEF PeerIs, PeerKept
      <4>. QED
        BY <3>3, <4>3
    <3>. QED
      BY <3>2, <3>3
  <2>. QED
    BY <1>1, <2>1 DEF PeersKept
<1>14. LinksKept'
  <2>1. ASSUME NEW i \in 1 .. n + 1 PROVE LinkIs(i)'
    <3>1. CASE i \in 1 .. n
      <4>1. i # n + 1
        BY <1>2, <3>1
      <4>2. sockets'[i] = sockets[i] /\ contexts'[i] = contexts[i]
        BY <1>2, <1>4, <1>8, <3>1, <4>1
      <4>3. LinkIs(i)
        BY <3>1 DEF LinksKept, n
      <4>. QED
        BY <1>1, <4>2, <4>3 DEF LinkIs
    <3>2. CASE i = n + 1
      <4>1. sockets'[i] = p /\ contexts'[i] = Stream!InitContext
        BY <1>4, <1>8, <3>2
      <4>. QED
        BY <1>1, <1>12, <4>1 DEF LinkIs
    <3>. QED
      BY <1>9, <3>1, <3>2
  <2>. QED
    BY <1>4, <2>1 DEF LinksKept
<1>. QED
  BY <1>10, <1>13, <1>14

(* The message at the front of a buffer is dispatched.                     *)
LEMMA StreamDispatch ==
  ASSUME ListKept, PeersKept, LinksKept, NEW p \in Peers, Stream!Dispatch(p)
  PROVE  ListKept' /\ PeersKept' /\ LinksKept'
<1> DEFINE k == Stream!Index(p)
           c == contexts[k]
           m == Stream!FirstMsg(c)
           dt == Append(delivered[p], m)
           e == Stream!AfterDispatch(c)
<1>1. /\ p \in Stream!ToSet(sockets) /\ k \in Stream!Whole
      /\ delivered' = [delivered EXCEPT ![p] = Append(@, m)]
      /\ contexts' = [contexts EXCEPT ![k] = Stream!AfterDispatch(@)]
      /\ UNCHANGED <<peer, sent, wire, sockets, taken, lost>>
  BY Zenon DEF Stream!Dispatch, Stream!world
<1>2. k \in 1 .. Len(sockets) /\ sockets[k] = p /\ On(p) /\ p \in taken
  BY <1>1, IndexIs
<1>3. Stream!ContainsMsg(c) > 0
  BY <1>1 DEF Stream!Whole
<1>. HIDE DEF k, c, m, e, dt
<1>4. k \in Stream!Slots /\ DOMAIN contexts = Stream!Slots
  BY <1>2, SocketFacts DEF ListKept
<1>5. /\ DOMAIN contexts' = Stream!Slots /\ contexts'[k] = e
      /\ \A i \in Stream!Slots : i # k => contexts'[i] = contexts[i]
  <2>1. contexts' = [contexts EXCEPT ![k] = e]
    BY <1>1 DEF e, c
  <2>. QED
    BY <1>4, <2>1, Assigned
<1>6. /\ DOMAIN delivered' = Peers /\ delivered'[p] = dt
      /\ \A q \in Peers : q # p => delivered'[q] = delivered[q]
  <2>1. delivered' = [delivered EXCEPT ![p] = dt]
    BY <1>1 DEF dt
  <2>2. DOMAIN delivered = Peers
    BY DEF PeersKept
  <2>. QED
    BY <2>1, <2>2, Assigned
<1>7. ListKept'
  BY <1>1, <1>5 DEF ListKept, Stream!Slots
<1>8. \A q : On(q)' <=> On(q)
  BY <1>1 DEF On
<1>9. /\ PeerKept(p, dt, Len(sent[p]), wire[p], Closed(p), TRUE, TRUE, lost[p])
      /\ LinkKept(p, e, wire[p], Len(dt), Len(sent[p]), lost[p])
  <2> DEFINE ds == delivered[p]
             N == Len(sent[p])
             w == wire[p]
             cl == Closed(p)
             a == lost[p]
  <2>1. PeerKept(p, ds, N, w, cl, TRUE, TRUE, a)
    <3>1. PeerIs(p)
      BY DEF PeersKept
    <3>. QED
      BY <1>2, <3>1, Zenon DEF PeerIs, PeerKept
  <2>2. LinkKept(p, c, w, Len(ds), N, a)
    <3>1. LinkIs(k)
      BY <1>2 DEF LinksKept
    <3>. QED
      BY <1>2, <3>1 DEF LinkIs, c
  <2>. HIDE DEF ds, N, w, cl, a
  <2>3. /\ PeerKept(p, Append(ds, Stream!FirstMsg(c)), N, w, cl, TRUE, TRUE, a)
        /\ LinkKept(p, Stream!AfterDispatch(c), w, Len(Append(ds, Stream!FirstMsg(c))), N, a)
    BY <1>3, <2>1, <2>2, PeerDispatch, Zenon
  <2>. QED
    BY <2>3, Zenon DEF ds, N, w, cl, a, dt, m, e
<1>10. PeersKept'
  <2>1. ASSUME NEW q \in Peers PROVE PeerIs(q)'
    <3>1. /\ sent'[q] = sent[q] /\ wire'[q] = wire[q] /\ (q \in taken' <=> q \in taken)
          /\ (Closed(q)' <=> Closed(q)) /\ (On(q)' <=> On(q)) /\ lost'[q] = lost[q]
      BY <1>1, <1>8, <2>1 DEF Closed
    <3>2. CASE q # p
      <4>1. delivered'[q] = delivered[q] /\ PeerIs(q)
        BY <1>6, <3>1, <3>2 DEF PeersKept
      <4>. QED
        BY <3>1, <4>1, Zenon DEF PeerIs, PeerKept
    <3>3. CASE q = p
      <4>1. PeerKept(p, dt, Len(sent[p]), wire[p], Closed(p), TRUE, TRUE, lost[p])
        BY <1>9, <3>1, <3>3, Zenon
      <4>2. PeerIs(p)'
        BY <1>2, <1>6, <3>1, <3>3, <4>1, Zenon DEF PeerIs, PeerKept
      <4>. QED
        BY <3>3, <4>2
    <3>. QED
      BY <3>2, <3>3
  <2>. QED
    BY <1>1, <1>6, <2>1 DEF PeersKept
<1>11. LinksKept'
  <2>1. ASSUME NEW i \in 1 .. Len(sockets) PROVE LinkIs(i)'
    <3>1. LinkIs(i) /\ i \in Stream!Slots /\ sockets[i] \in Peers
      BY <2>1, SocketFacts DEF LinksKept
    <3>2. CASE i = k
      <4>1. sockets'[i] = p /\ contexts'[i] = e
        BY <1>1, <1>2, <1>5, <3>2
      <4>2. LinkKept(p, e, wire'[p], Len(delivered'[p]), Len(sent'[p]), lost'[p])
        BY <1>1, <1>6, <1>9
      <4>. QED
        BY <1>1, <4>1, <4>2, Zenon DEF LinkIs
    <3>3. CASE i # k
      <4>1. sockets[i] # p
        BY <1>2, <2>1, <3>3 DEF ListKept
      <4>2. delivered'[sockets[i]] = delivered[sockets[i]] /\ contexts'[i] = contexts[i]
        BY <1>5, <1>6, <3>1, <3>3, <4>1
      <4>. QED
        BY <1>1, <3>1, <4>2, Zenon DEF LinkIs
    <3>. QED
      BY <3>2, <3>3
  <2>. QED
    BY <1>1, <2>1 DEF LinksKept
<1>. QED
  BY <1>7, <1>10, <1>11

(* The last socket of the list is taken out of it.                         *)
LEMMA LastRemoved ==
  ASSUME ListKept, NEW n, n = Len(sockets), n \in 1 .. Len(sockets), sockets' = Stream!RemoveAt(sockets, n),
         contexts' = [contexts EXCEPT ![n] = Stream!CleanupContext], UNCHANGED taken
  PROVE  /\ ListKept' /\ Len(sockets') = n - 1
         /\ \A i \in 1 .. n - 1 : /\ sockets'[i] = sockets[i] /\ contexts'[i] = contexts[i]
                                  /\ sockets[i] # sockets[n]
         /\ \A q : On(q)' <=> On(q) /\ q # sockets[n]
<1> DEFINE s == sockets
           t == SubSeq(s, 1, n - 1)
<1>1. /\ DOMAIN contexts = Stream!Slots /\ s \in Seq(Peers)
      /\ taken \in SUBSET Peers /\ n <= Cardinality(taken)
      /\ \A i \in 1 .. n : s[i] \in taken
      /\ \A i, j \in 1 .. n : s[i] = s[j] => i = j
  BY DEF ListKept
<1>2. /\ n \in Nat /\ n > 0 /\ Cardinality(taken) \in Nat
      /\ \A i \in 1 .. n : i \in Stream!Slots
  BY SocketFacts
<1>3. n \in Stream!Slots
  BY <1>2
<1>4. t \in Seq(Peers) /\ Len(t) = n - 1 /\ \A i \in 1 .. n - 1 : t[i] = s[i]
  <2>1. n - 1 \in 0 .. Len(s)
    BY <1>2
  <2>2. t \in Seq(Peers) /\ Len(t) = n - 1
    BY <1>1, <2>1, TakeDrop
  <2>. QED
    BY <1>1, <1>2, <2>2
<1>. HIDE DEF t
<1>5. sockets' = t
  <2>1. SubSeq(s, n + 1, Len(s)) = <<>>
    BY <1>1, <1>2
  <2>2. t \o <<>> = t
    BY <1>4
  <2>. QED
    BY <2>1, <2>2, Zenon DEF Stream!RemoveAt, t
<1>6. /\ DOMAIN contexts' = Stream!Slots
      /\ \A i \in Stream!Slots : i # n => contexts'[i] = contexts[i]
  BY <1>1, <1>3, Assigned
<1>7. \A i \in 1 .. n - 1 : i \in 1 .. n /\ i # n /\ i \in Stream!Slots
  BY <1>2
<1>8. \A i \in 1 .. n - 1 : sockets'[i] = s[i] /\ contexts'[i] = contexts[i] /\ s[i] # s[n]
  <2>1. n \in 1 .. n
    BY <1>2
  <2>. QED
    BY <1>1, <1>4, <1>5, <1>6, <1>7, <2>1, Zenon
<1>9. Len(sockets') = n - 1 /\ sockets' \in Seq(Peers)
  BY <1>4, <1>5
<1>10. ListKept'
  <2>1. Stream!Slots' = Stream!Slots
    BY DEF Stream!Slots
  <2>2. Len(sockets') <= Cardinality(taken')
    BY <1>1, <1>2, <1>9
  <2>3. \A i \in 1 .. Len(sockets') : sockets'[i] \in taken'
    BY <1>1, <1>7, <1>8, <1>9, Zenon
  <2>4. \A i, j \in 1 .. Len(sockets') : sockets'[i] = sockets'[j] => i = j
    <3>1. ASSUME NEW i \in 1 .. n - 1, NEW j \in 1 .. n - 1, sockets'[i] = sockets'[j]
          PROVE  i = j
      <4>1. i \in 1 .. n /\ j \in 1 .. n /\ s[i] = s[j]
        BY <1>7, <1>8, <3>1
      <4>. QED
        BY <1>1, <4>1
    <3>. QED
      BY <1>9, <3>1
  <2>5. taken' \in SUBSET Peers
    BY <1>1
  <2>. QED
    BY <1>6, <1>9, <2>1, <2>2, <2>3, <2>4, <2>5, Zenon DEF ListKept
<1>11. ASSUME NEW q PROVE On(q)' <=> On(q) /\ q # s[n]
  <2>1. On(q)' => On(q) /\ q # s[n]
    <3>1. ASSUME NEW i \in 1 .. n - 1, sockets'[i] = q PROVE On(q) /\ q # s[n]
      BY <1>7, <1>8, <3>1, Zenon DEF On
    <3>. QED
      BY <1>9, <3>1 DEF On
  <2>2. ASSUME NEW i \in 1 .. n, s[i] = q, q # s[n] PROVE On(q)'
    <3>1. i \in 1 .. n - 1
      BY <1>2, <2>2
    <3>2. sockets'[i] = q /\ i \in 1 .. Len(sockets')
      BY <1>8, <1>9, <2>2, <3>1
    <3>. QED
      BY <3>2 DEF On
  <2>. QED
    BY <2>1, <2>2 DEF On
<1>. QED
  BY <1>8, <1>9, <1>10, <1>11

(* The server gives a connection up, the last of its list.                 *)
LEMMA StreamRemoved ==
  ASSUME ListKept, PeersKept, LinksKept, NEW p \in Peers, p \in Stream!ToSet(sockets),
         Stream!DelSocket(Stream!Index(p)), ~shifted',
         UNCHANGED <<peer, sent, taken, delivered>>,
         DOMAIN lost' = Peers, lost'[p] \in Losses(p),
         lost'[p] = lost[p] \/ Len(delivered[p]) = 0,
         \A q \in Peers : q # p => lost'[q] = lost[q],
         DOMAIN wire' = Peers, wire'[p] \in Seq(Bytes),
         \A q \in Peers : q # p => wire'[q] = wire[q],
         \/ Closed(p) /\ Len(delivered[p]) = Len(sent[p])
         \/ Blocked(p, Len(delivered[p]), Len(sent[p]))
  PROVE  ListKept' /\ PeersKept' /\ LinksKept'
<1> DEFINE n == Stream!Index(p)
<1>1. n \in 1 .. Len(sockets) /\ sockets[n] = p /\ On(p) /\ p \in taken
  BY IndexIs
<1>2. /\ sockets' = Stream!RemoveAt(sockets, n)
      /\ contexts' = [contexts EXCEPT ![n] = Stream!CleanupContext]
      /\ ~(n < Len(sockets))
  BY Zenon DEF Stream!DelSocket
<1>. HIDE DEF n
<1>3. n = Len(sockets)
  <2>1. Len(sockets) \in Nat
    BY SocketFacts
  <2>. QED
    BY <1>1, <1>2, <2>1
<1>4. /\ ListKept' /\ Len(sockets') = n - 1
      /\ \A i \in 1 .. n - 1 : /\ sockets'[i] = sockets[i] /\ contexts'[i] = contexts[i]
                               /\ sockets[i] # sockets[n]
      /\ \A q : On(q)' <=> On(q) /\ q # sockets[n]
  <2>1. UNCHANGED taken
    OBVIOUS
  <2>. QED
    BY <1>1, <1>2, <1>3, <2>1, LastRemoved, Zenon
<1>5. PeersKept'
  <2>1. ASSUME NEW q \in Peers PROVE PeerIs(q)'
    <3>1. PeerIs(q)
      BY <2>1 DEF PeersKept
    <3>2. /\ delivered'[q] = delivered[q] /\ sent'[q] = sent[q] /\ (q \in taken' <=> q \in taken)
          /\ (Closed(q)' <=> Closed(q))
      BY DEF Closed
    <3>3. CASE q # p
      <4>1. wire'[q] = wire[q] /\ lost'[q] = lost[q] /\ (On(q)' <=> On(q))
        BY <1>1, <1>4, <2>1, <3>3
      <4>. QED
        BY <3>1, <3>2, <4>1, Zenon DEF PeerIs, PeerKept
    <3>4. CASE q = p
      <4>1. ~On(p)' /\ p \in taken' /\ On(p) /\ p \in taken
        BY <1>1, <1>4
      <4> DEFINE ds == delivered[p]
                 N == Len(sent[p])
                 w == wire[p]
                 cl == Closed(p)
                 rest == wire'[p]
                 a == lost[p]
                 b == lost'[p]
      <4>2. PeerKept(p, ds, N, w, cl, TRUE, TRUE, a)
        <5>1. PeerIs(p)
          BY <3>1, <3>4
        <5>. QED
          BY <4>1, <5>1, Zenon DEF PeerIs, PeerKept
      <4>3. rest \in Seq(Bytes) /\ b \in Losses(p) /\ (b = a \/ Len(ds) = 0)
        OBVIOUS
      <4>4. (cl /\ Len(ds) = N) \/ Blocked(p, Len(ds), N)
        OBVIOUS
      <4>. HIDE DEF ds, N, w, cl, rest, a, b
      <4>8. PeerKept(p, ds, N, rest, cl, TRUE, TRUE, b)
        BY <4>2, <4>3, PeerRead, Zenon
      <4>5. PeerKept(p, ds, N, rest, cl, TRUE, FALSE, b)
        BY <4>3, <4>4, <4>8, PeerRemoved, Zenon
      <4>6. /\ delivered'[p] = delivered[p] /\ sent'[p] = sent[p] /\ (Closed(p)' <=> Closed(p))
        BY <3>2, <3>4
      <4>7. PeerIs(p)'
        BY <4>1, <4>5, <4>6, Zenon DEF PeerIs, PeerKept, ds, N, cl, rest, b
      <4>. QED
        BY <3>4, <4>7
    <3>. QED
      BY <3>3, <3>4
  <2>. QED
    BY <2>1 DEF PeersKept
<1>6. LinksKept'
  <2>1. ASSUME NEW i \in 1 .. n - 1 PROVE LinkIs(i)'
    <3>1. i \in 1 .. Len(sockets)
      BY <1>1, <1>3, <2>1
    <3>2. LinkIs(i) /\ sockets[i] \in Peers
      BY <3>1, SocketFacts DEF LinksKept
    <3>3. sockets'[i] = sockets[i] /\ contexts'[i] = contexts[i] /\ sockets[i] # p
      BY <1>1, <1>4, <2>1
    <3>4. wire'[sockets[i]] = wire[sockets[i]] /\ lost'[sockets[i]] = lost[sockets[i]]
      BY <3>2, <3>3
    <3>. QED
      BY <3>2, <3>3, <3>4 DEF LinkIs
  <2>. QED
    BY <1>4, <2>1 DEF LinksKept
<1>. QED
  BY <1>4, <1>5, <1>6

(* What the server reads of a connection, whatever it then does.           *)
LEMMA ReadIs ==
  ASSUME ListKept, PeersKept, LinksKept, NEW p \in Peers, p \in Stream!ToSet(sockets),
         Stream!Whole = {}
  PROVE  LET c == contexts[Stream!Index(p)]
             d == Len(delivered[p])
             N == Len(sent[p])
         IN  /\ LinkKept(p, c, wire[p], d, N, lost[p]) /\ wire[p] \in Seq(Bytes)
             /\ Stream!ContainsMsg(c) = 0 /\ N \in 0 .. Len(Script[p]) /\ d \in 0 .. N
<1> DEFINE n == Stream!Index(p)
           c == contexts[n]
           d == Len(delivered[p])
           N == Len(sent[p])
<1>1. n \in 1 .. Len(sockets) /\ sockets[n] = p
  BY IndexIs
<1>2. LinkKept(p, c, wire[p], d, N, lost[p])
  <2>1. LinkIs(n)
    BY <1>1 DEF LinksKept
  <2>. QED
    BY <1>1, <2>1, Zenon DEF LinkIs
<1>3. PeerIs(p)
  BY DEF PeersKept
<1>4. Delivers(p, delivered[p], N, lost[p]) /\ wire[p] \in Seq(Bytes)
  BY <1>3 DEF PeerIs, PeerKept
<1>5. N \in 0 .. Len(Script[p]) /\ d \in 0 .. N
  BY <1>4, DeliversNumbers
<1>6. c \in Context
  BY <1>2, LinkContext
<1>7. Stream!ContainsMsg(c) = 0
  BY <1>1, <1>6, NoneWhole
<1>. QED
  BY <1>2, <1>4, <1>5, <1>7

(* The server reads what has arrived, or gives the connection up.          *)
LEMMA StreamReceive ==
  ASSUME ListKept, PeersKept, LinksKept, NEW p \in Peers, Stream!Receive(p), ~shifted'
  PROVE  ListKept' /\ PeersKept' /\ LinksKept'
<1> DEFINE n == Stream!Index(p)
           c == contexts[n]
           d == Len(delivered[p])
           N == Len(sent[p])
           r(k) == Stream!Received(c, SubSeq(wire[p], 1, k))
           rest(k) == r(k).rest \o Stream!Drop(wire[p], k)
           b == Loses(p, c, lost[p])
<1>1. PICK k \in 1 .. Len(wire[p]) :
        /\ lost' = IF p \in SlipPeers /\ c.slip = -1
                   THEN [lost EXCEPT ![p] = Len(c.buf)] ELSE lost
        /\ IF r(k).full /\ ~again
           THEN Stream!DelSocket(n) /\ wire' = [wire EXCEPT ![p] = <<>>]
           ELSE /\ contexts' = [contexts EXCEPT ![n] = r(k).sc]
                /\ wire' = [wire EXCEPT ![p] = rest(k)]
                /\ UNCHANGED <<sockets, shifted>>
  BY Zenon DEF Stream!Receive
<1>2. /\ p \in Stream!ToSet(sockets) /\ Stream!Whole = {}
      /\ UNCHANGED <<peer, sent, taken, delivered>>
  BY Zenon DEF Stream!Receive, Stream!Ready, Stream!world
<1>3. n \in 1 .. Len(sockets) /\ sockets[n] = p /\ On(p) /\ p \in taken
  BY <1>2, IndexIs
<1>4. DOMAIN lost' = Peers /\ lost'[p] = b /\ \A q \in Peers : q # p => lost'[q] = lost[q]
  <2>1. DOMAIN lost = Peers
    BY DEF PeersKept
  <2>2. CASE p \in SlipPeers /\ c.slip = -1
    <3>1. lost' = [lost EXCEPT ![p] = Len(c.buf)] /\ b = Len(c.buf)
      BY <1>1, <2>2, Zenon DEF Loses
    <3> DEFINE e == Len(c.buf)
    <3>2. lost' = [lost EXCEPT ![p] = e] /\ b = e
      BY <3>1
    <3>. HIDE DEF e, b
    <3>3. DOMAIN lost' = Peers /\ lost'[p] = e /\ \A q \in Peers : q # p => lost'[q] = lost[q]
      BY <2>1, <3>2, Assigned
    <3>. QED
      BY <3>2, <3>3
  <2>3. CASE ~(p \in SlipPeers /\ c.slip = -1)
    <3>1. lost' = lost /\ b = lost[p]
      BY <1>1, <2>3, Zenon DEF Loses
    <3>. QED
      BY <2>1, <3>1
  <2>. QED
    BY <2>2, <2>3
<1> DEFINE t == r(k)
           x == rest(k)
<1>5. /\ LinkKept(p, t.sc, x, d, N, b) /\ x \in Seq(Bytes) /\ (t.full => Blocked(p, d, N))
      /\ b \in Losses(p) /\ (b = lost[p] \/ d = 0)
  <2> DEFINE w == wire[p]
             a == lost[p]
  <2>1. /\ LinkKept(p, c, w, d, N, a) /\ w \in Seq(Bytes)
        /\ Stream!ContainsMsg(c) = 0 /\ N \in 0 .. Len(Script[p]) /\ d \in 0 .. N
    BY <1>2, ReadIs
  <2>2. k \in 0 .. Len(w)
    BY <1>1
  <2>. HIDE DEF c, d, N, w, a
  <2>3. LET rr == Stream!Received(c, SubSeq(w, 1, k))
            rs == rr.rest \o Stream!Drop(w, k)
        IN  /\ LinkKept(p, rr.sc, rs, d, N, Loses(p, c, a)) /\ rs \in Seq(Bytes)
            /\ rr.full => Blocked(p, d, N)
    BY <2>1, <2>2, LinkReceived, Zenon
  <2>4. Loses(p, c, a) \in Losses(p) /\ (Loses(p, c, a) = a \/ d = 0)
    <3>1. LinkKept(p, c, w, d, N, a)
      BY <2>1
    <3>. QED
      BY <3>1, LosesSome
  <2>5. /\ LinkKept(p, t.sc, x, d, N, b) /\ x \in Seq(Bytes)
        /\ (t.full => Blocked(p, d, N))
    BY <2>3, Zenon DEF w, a
  <2>6. b \in Losses(p) /\ (b = lost[p] \/ d = 0)
    BY <2>4, Zenon DEF a
  <2>. QED
    BY <2>5, <2>6, Zenon
<1>. HIDE DEF r, rest, c, b
<1>6. DOMAIN wire = Peers
  BY DEF PeersKept
<1>7. CASE t.full /\ ~again
  <2>1. Stream!DelSocket(n) /\ wire' = [wire EXCEPT ![p] = <<>>]
    BY <1>1, <1>7
  <2>2. /\ DOMAIN wire' = Peers /\ wire'[p] = <<>> /\ \A q \in Peers : q # p => wire'[q] = wire[q]
    BY <1>6, <2>1, Assigned
  <2>3. wire'[p] \in Seq(Bytes)
    BY <2>2
  <2>4. Blocked(p, d, N)
    BY <1>5, <1>7
  <2>5. lost'[p] \in Losses(p) /\ (lost'[p] = lost[p] \/ d = 0)
    BY <1>4, <1>5, Zenon
  <2>. QED
    BY <1>2, <1>4, <2>1, <2>2, <2>3, <2>4, <2>5, StreamRemoved, Zenon
<1>8. CASE ~(t.full /\ ~again)
  <2>1. /\ contexts' = [contexts EXCEPT ![n] = t.sc]
        /\ wire' = [wire EXCEPT ![p] = x]
        /\ UNCHANGED sockets
    BY <1>1, <1>8
  <2>. HIDE DEF n, t, x
  <2>2. /\ DOMAIN wire' = Peers /\ wire'[p] = x /\ \A q \in Peers : q # p => wire'[q] = wire[q]
    BY <1>6, <2>1, Assigned
  <2>3. n \in Stream!Slots /\ DOMAIN contexts = Stream!Slots
    BY <1>3, SocketFacts DEF ListKept
  <2>4. /\ DOMAIN contexts' = Stream!Slots /\ contexts'[n] = t.sc
        /\ \A i \in Stream!Slots : i # n => contexts'[i] = contexts[i]
    BY <2>1, <2>3, Assigned
  <2>5. ListKept'
    BY <1>2, <2>1, <2>4 DEF ListKept, Stream!Slots
  <2>6. \A q : On(q)' <=> On(q)
    BY <2>1 DEF On
  <2>7. PeersKept'
    <3>1. ASSUME NEW q \in Peers PROVE PeerIs(q)'
      <4>1. PeerIs(q)
        BY <3>1 DEF PeersKept
      <4>2. /\ delivered'[q] = delivered[q] /\ sent'[q] = sent[q] /\ (q \in taken' <=> q \in taken)
            /\ (Closed(q)' <=> Closed(q)) /\ (On(q)' <=> On(q))
        BY <1>2, <2>6 DEF Closed
      <4>3. CASE q # p
        <5>1. wire'[q] = wire[q] /\ lost'[q] = lost[q]
          BY <1>4, <2>2, <4>3
        <5>. QED
          BY <4>1, <4>2, <5>1, Zenon DEF PeerIs, PeerKept
      <4>4. CASE q = p
        <5>1. PeerIs(p) /\ On(p) /\ p \in taken
          BY <1>3, <4>1, <4>4
        <5>2. /\ delivered'[p] = delivered[p] /\ sent'[p] = sent[p] /\ (p \in taken' <=> p \in taken)
              /\ (Closed(p)' <=> Closed(p)) /\ (On(p)' <=> On(p))
          BY <4>2, <4>4
        <5> DEFINE ds == delivered[p]
                   M == Len(sent[p])
                   w == wire[p]
                   cl == Closed(p)
                   a == lost[p]
        <5>3. PeerKept(p, ds, M, w, cl, TRUE, TRUE, a)
          BY <5>1, Zenon DEF PeerIs, PeerKept
        <5>5. x \in Seq(Bytes) /\ b \in Losses(p) /\ (b = a \/ Len(ds) = 0)
          BY <1>5
        <5>. HIDE DEF ds, M, w, cl, a
        <5>6. PeerKept(p, ds, M, x, cl, TRUE, TRUE, b)
          BY <5>3, <5>5, PeerRead, Zenon
        <5>4. PeerIs(p)'
          BY <1>4, <2>2, <5>1, <5>2, <5>6, Zenon DEF PeerIs, PeerKept, ds, M, cl
        <5>. QED
          BY <4>4, <5>4
      <4>. QED
        BY <4>3, <4>4
    <3>2. /\ DOMAIN peer' = Peers /\ DOMAIN sent' = Peers /\ DOMAIN delivered' = Peers
          /\ DOMAIN lost' = Peers /\ \A q \in Peers : SentKept(q, sent'[q])
      BY <1>2, <1>4 DEF PeersKept
    <3>. QED
      BY <2>2, <3>1, <3>2 DEF PeersKept
  <2>8. LinksKept'
    <3>1. ASSUME NEW i \in 1 .. Len(sockets) PROVE LinkIs(i)'
      <4>1. LinkIs(i) /\ i \in Stream!Slots /\ sockets[i] \in Peers
        BY <3>1, SocketFacts DEF LinksKept
      <4>2. CASE i = n
        <5>1. sockets'[i] = p /\ contexts'[i] = t.sc
          BY <1>3, <2>1, <2>4, <4>2
        <5>2. LinkKept(p, t.sc, wire'[p], Len(delivered'[p]), Len(sent'[p]), lost'[p])
          BY <1>2, <1>4, <1>5, <2>2
        <5>. QED
          BY <5>1, <5>2, Zenon DEF LinkIs
      <4>3. CASE i # n
        <5>1. sockets[i] # p
          BY <1>3, <3>1, <4>3 DEF ListKept
        <5>2. wire'[sockets[i]] = wire[sockets[i]] /\ contexts'[i] = contexts[i]
          BY <2>2, <2>4, <4>1, <4>3, <5>1
        <5>3. lost'[sockets[i]] = lost[sockets[i]]
          BY <1>4, <4>1, <5>1
        <5>. QED
          BY <1>2, <2>1, <4>1, <5>2, <5>3 DEF LinkIs
      <4>. QED
        BY <4>2, <4>3
    <3>. QED
      BY <2>1, <3>1 DEF LinksKept
  <2>. QED
    BY <2>5, <2>7, <2>8
<1>. QED
  BY <1>7, <1>8

(* It finds the end of a stream.                                           *)
LEMMA StreamEnd ==
  ASSUME ListKept, PeersKept, LinksKept, NEW p \in Peers, Stream!ReceiveEnd(p), ~shifted'
  PROVE  ListKept' /\ PeersKept' /\ LinksKept'
<1> DEFINE n == Stream!Index(p)
           c == contexts[n]
           d == Len(delivered[p])
           N == Len(sent[p])
<1>1. /\ p \in Stream!ToSet(sockets) /\ Stream!Whole = {} /\ wire[p] = <<>> /\ Closed(p)
      /\ Stream!DelSocket(n) /\ UNCHANGED <<peer, sent, wire, taken, delivered, lost>>
  BY Zenon DEF Stream!ReceiveEnd, Stream!Ready, Stream!world, Closed
<1>2. d = N
  <2> DEFINE w == wire[p]
             a == lost[p]
  <2>1. /\ LinkKept(p, c, w, d, N, a)
        /\ Stream!ContainsMsg(c) = 0 /\ N \in 0 .. Len(Script[p]) /\ d \in 0 .. N
    BY <1>1, ReadIs
  <2>. HIDE DEF c, d, N, w, a
  <2>2. w = <<>> => d = N
    BY <2>1, LinkEnds
  <2>. QED
    BY <1>1, <2>2 DEF w
<1>3. \/ Closed(p) /\ d = N
      \/ Blocked(p, d, N)
  BY <1>1, <1>2
<1>5. /\ DOMAIN lost' = Peers /\ lost'[p] \in Losses(p) /\ (lost'[p] = lost[p] \/ d = 0)
      /\ \A q \in Peers : q # p => lost'[q] = lost[q]
  <2>1. PeerIs(p) /\ DOMAIN lost = Peers
    BY DEF PeersKept
  <2>2. lost[p] \in Losses(p)
    BY <2>1, Zenon DEF PeerIs, PeerKept, Delivers
  <2>. QED
    BY <1>1, <2>1, <2>2
<1>4. /\ DOMAIN wire' = Peers /\ wire'[p] \in Seq(Bytes)
      /\ \A q \in Peers : q # p => wire'[q] = wire[q]
  <2>1. DOMAIN wire = Peers
    BY DEF PeersKept
  <2>2. <<>> \in Seq(Bytes)
    OBVIOUS
  <2>. QED
    BY <1>1, <2>1, <2>2
<1>. QED
  BY <1>1, <1>3, <1>4, <1>5, StreamRemoved, Zenon

(* Only what a peer of SLIP sends is a danger to the memory.               *)
LEMMA StreamDamage ==
  ASSUME ListKept, PeersKept, LinksKept, NEW p \in Peers, Stream!Damage(p)
  PROVE  p \in SlipPeers
<1> DEFINE c == contexts[Stream!Index(p)]
           d == Len(delivered[p])
           N == Len(sent[p])
           w == wire[p]
           a == lost[p]
<1>1. /\ p \in Stream!ToSet(sockets) /\ Stream!Whole = {}
      /\ \E k \in 0 .. Len(w) : Stream!Received(c, SubSeq(w, 1, k)).risky
  BY Zenon DEF Stream!Damage, Stream!Ready
<1>2. /\ LinkKept(p, c, w, d, N, a) /\ w \in Seq(Bytes)
      /\ Stream!ContainsMsg(c) = 0 /\ N \in 0 .. Len(Script[p]) /\ d \in 0 .. N
  BY <1>1, ReadIs
<1>. HIDE DEF c, d, N, w, a
<1>3. PICK k \in 0 .. Len(w) : Stream!Received(c, SubSeq(w, 1, k)).risky
  BY <1>1
<1>4. p \notin SlipPeers => ~Stream!Received(c, SubSeq(w, 1, k)).risky
  BY <1>2, LinkReceived, Zenon
<1>. QED
  BY <1>3, <1>4

(* Nothing goes before the first message.                                  *)
LEMMA CatNothing ==
  ASSUME NEW S \in Messages
  PROVE  Cat(Counted(S), 0, 0) = <<>> /\ Cat(Slipped(S), 0, 0) = <<>>
<1> DEFINE xs == Counted(S)
           ys == Slipped(S)
<1>1. xs \in Seq(Seq(Bytes)) /\ 0 \in 0 .. Len(xs)
  <2>1. xs \in Seq(Seq(Bytes))
    BY CountedIs
  <2>2. Len(xs) \in Nat
    BY <2>1
  <2>. QED
    BY <2>1, <2>2
<1>2. ys \in Seq(Seq(Bytes)) /\ 0 \in 0 .. Len(ys)
  <2>1. ys \in Seq(Seq(Bytes))
    BY SlippedIs
  <2>2. Len(ys) \in Nat
    BY <2>1
  <2>. QED
    BY <2>1, <2>2
<1>. HIDE DEF xs, ys
<1>3. Cat(xs, 0, 0) = <<>>
  BY <1>1, CatLast
<1>4. Cat(ys, 0, 0) = <<>>
  BY <1>2, CatLast
<1>. QED
  BY <1>3, <1>4 DEF xs, ys

(* Nobody is connected at the start.                                       *)
LEMMA StreamInit ==
  ASSUME Stream!Init
  PROVE  StreamsKept
<1>1. /\ DOMAIN peer = Peers /\ DOMAIN sent = Peers /\ DOMAIN wire = Peers /\ DOMAIN delivered = Peers
      /\ DOMAIN lost = Peers /\ wild = {}
      /\ \A p \in Peers : sent[p] = <<>> /\ wire[p] = <<>> /\ delivered[p] = <<>> /\ lost[p] = 0
      /\ sockets = <<>> /\ taken = {} /\ shifted = FALSE /\ DOMAIN contexts = Stream!Slots
  BY DEF Stream!Init
<1>2. Len(<<>>) = 0 /\ <<>> \in Seq(Bytes) /\ <<>> \in Seq(Seq(Bytes)) /\ <<>> \in Seq(Peers)
  OBVIOUS
<1>3. ListKept
  <2>1. Cardinality({}) = 0
    BY FS_EmptySet
  <2>2. Len(sockets) <= Cardinality(taken)
    BY <1>1, <1>2, <2>1
  <2>3. \A i : i \notin 1 .. Len(sockets)
    BY <1>1, <1>2
  <2>4. sockets \in Seq(Peers) /\ taken \in SUBSET Peers
    BY <1>1, <1>2
  <2>. QED
    BY <1>1, <2>2, <2>3, <2>4, Zenon DEF ListKept
<1>4. LinksKept
  <2>1. \A i : i \notin 1 .. Len(sockets)
    BY <1>1, <1>2
  <2>. QED
    BY <2>1, Zenon DEF LinksKept
<1>5. ASSUME NEW p \in Peers PROVE SentKept(p, sent[p]) /\ PeerIs(p)
  <2>1. Script[p] \in Messages /\ Len(Script[p]) \in Nat
    BY ScriptIs, CountedIs
  <2>2. 0 \in 0 .. Len(Script[p]) /\ 0 \in 0 .. 0 /\ \A k : k \notin 1 .. 0
    BY <2>1
  <2>3. SentKept(p, <<>>)
    BY <1>2, <2>2, Zenon DEF SentKept
  <2>4. Delivers(p, <<>>, 0, 0)
    <3>1. 0 \in Losses(p)
      BY DEF Losses
    <3>. QED
      BY <1>2, <2>2, <3>1, Zenon DEF Delivers
  <2>5. Waits(p, <<>>, 0)
    <3>1. Cat(Counted(Script[p]), 0, 0) = <<>> /\ Cat(Slipped(Script[p]), 0, 0) = <<>>
      BY <2>1, CatNothing, Zenon
    <3>. QED
      BY <3>1, Zenon DEF Waits
  <2>6. p \notin taken
    BY <1>1
  <2>. QED
    BY <1>1, <1>2, <2>3, <2>4, <2>5, <2>6, Zenon DEF PeerIs, PeerKept
<1>6. PeersKept
  BY <1>1, <1>5 DEF PeersKept
<1>7. shifted \in BOOLEAN /\ wild \subseteq SlipPeers
  BY <1>1, Zenon
<1>. QED
  BY <1>3, <1>4, <1>6, <1>7 DEF StreamsKept

(* A context that is not its socket's stays so.                            *)
LEMMA ShiftedStays ==
  ASSUME shifted \in BOOLEAN, Stream!Next
  PROVE  shifted' \in BOOLEAN /\ (shifted => shifted')
<1>1. ASSUME NEW i, Stream!DelSocket(i)
      PROVE  shifted' \in BOOLEAN /\ (shifted => shifted')
  BY <1>1 DEF Stream!DelSocket
<1>2. CASE UNCHANGED shifted
  BY <1>2
<1>3. CASE Stream!OtherError
  BY <1>2, <1>3, Zenon DEF Stream!OtherError
<1>4. ASSUME NEW p \in Peers,
             Stream!Connect(p) \/ Stream!Send(p) \/ Stream!Close(p) \/ Stream!AddSocket(p)
             \/ Stream!Dispatch(p) \/ Stream!Damage(p)
      PROVE  UNCHANGED shifted
  BY <1>4, Zenon DEF Stream!Connect, Stream!Send, Stream!Close, Stream!AddSocket,
                     Stream!Dispatch, Stream!Damage, Stream!server
<1>5. ASSUME NEW p \in Peers, Stream!Receive(p)
      PROVE  shifted' \in BOOLEAN /\ (shifted => shifted')
  <2>1. UNCHANGED shifted \/ Stream!DelSocket(Stream!Index(p))
    BY <1>5, Zenon DEF Stream!Receive
  <2>. QED
    BY <1>1, <1>2, <2>1
<1>6. ASSUME NEW p \in Peers, Stream!ReceiveEnd(p)
      PROVE  shifted' \in BOOLEAN /\ (shifted => shifted')
  <2>1. Stream!DelSocket(Stream!Index(p))
    BY <1>6, Zenon DEF Stream!ReceiveEnd
  <2>. QED
    BY <1>1, <2>1
<1>7. \/ Stream!OtherError
      \/ \E p \in Peers :
           \/ Stream!Connect(p) \/ Stream!Send(p) \/ Stream!Close(p)
           \/ Stream!AddSocket(p) \/ Stream!Dispatch(p) \/ Stream!Receive(p)
           \/ Stream!ReceiveEnd(p) \/ Stream!Damage(p)
  BY Zenon DEF Stream!Next
<1>. QED
  BY <1>2, <1>3, <1>4, <1>5, <1>6, <1>7, Zenon

(* Every step keeps the streams.                                           *)
LEMMA StreamNext ==
  ASSUME StreamsKept, [Stream!Next]_(Stream!vars)
  PROVE  StreamsKept'
<1>1. CASE UNCHANGED Stream!vars
  <2>1. UNCHANGED <<peer, sent, wire, sockets, contexts, taken, delivered, shifted, lost, wild>>
    BY <1>1 DEF Stream!vars
  <2>2. shifted' \in BOOLEAN
    BY <2>1 DEF StreamsKept
  <2>3. ASSUME ~shifted PROVE ListKept' /\ PeersKept' /\ LinksKept' /\ wild' \subseteq SlipPeers
    <3>1. ListKept /\ PeersKept /\ LinksKept /\ wild \subseteq SlipPeers
      BY <2>3 DEF StreamsKept
    <3>2. DOMAIN peer' = Peers /\ \A q \in Peers : Closed(q) => Closed(q)'
      BY <2>1, <3>1 DEF PeersKept, Closed
    <3>. QED
      BY <2>1, <3>1, <3>2, PeerMoves
  <2>. QED
    BY <2>1, <2>2, <2>3 DEF StreamsKept
<1>2. CASE Stream!Next
  <2>1. shifted' \in BOOLEAN /\ (shifted => shifted')
    BY <1>2, ShiftedStays DEF StreamsKept
  <2>2. SUFFICES ASSUME ~shifted'
                 PROVE  ListKept' /\ PeersKept' /\ LinksKept' /\ wild' \subseteq SlipPeers
    BY <2>1 DEF StreamsKept
  <2>3. ListKept /\ PeersKept /\ LinksKept /\ wild \subseteq SlipPeers
    BY <2>1, <2>2 DEF StreamsKept
  <2>4. CASE Stream!OtherError
    <3>1. UNCHANGED <<peer, sent, wire, sockets, contexts, taken, delivered, lost>>
      BY <2>4, Zenon DEF Stream!OtherError, Stream!world
    <3>2. DOMAIN peer' = Peers /\ \A q \in Peers : Closed(q) => Closed(q)'
      BY <2>3, <3>1 DEF PeersKept, Closed
    <3>3. ListKept' /\ PeersKept' /\ LinksKept'
      <4>1. UNCHANGED <<sent, wire, sockets, contexts, taken, delivered, lost>> /\ DOMAIN peer' = Peers
        BY <3>1, <3>2
      <4>. QED
        BY <2>3, <3>2, <4>1, PeerMoves
    <3>4. wild' = wild
      BY <2>4, Zenon DEF Stream!OtherError, Stream!world
    <3>. QED
      BY <2>3, <3>3, <3>4
  <2>5. ASSUME NEW p \in Peers, Stream!Connect(p) \/ Stream!Close(p)
        PROVE  ListKept' /\ PeersKept' /\ LinksKept'
    <3>1. /\ UNCHANGED <<sent, wire, sockets, contexts, taken, delivered, lost>>
          /\ \/ peer[p] = "new" /\ peer' = [peer EXCEPT ![p] = "connected"]
             \/ peer' = [peer EXCEPT ![p] = "closed"]
      BY <2>5, Zenon DEF Stream!Connect, Stream!Close, Stream!server
    <3>2. DOMAIN peer = Peers
      BY <2>3 DEF PeersKept
    <3>3. DOMAIN peer' = Peers
      BY <3>1, <3>2
    <3>4. \A q \in Peers : Closed(q) => Closed(q)'
      BY <3>1, <3>2 DEF Closed
    <3>. QED
      BY <2>3, <3>1, <3>3, <3>4, PeerMoves
  <2>6. ASSUME NEW p \in Peers, Stream!Send(p)
        PROVE  ListKept' /\ PeersKept' /\ LinksKept'
    BY <2>3, <2>6, StreamSend
  <2>7. ASSUME NEW p \in Peers, Stream!AddSocket(p)
        PROVE  ListKept' /\ PeersKept' /\ LinksKept'
    BY <2>3, <2>7, StreamAdd
  <2>8. ASSUME NEW p \in Peers, Stream!Dispatch(p)
        PROVE  ListKept' /\ PeersKept' /\ LinksKept'
    BY <2>3, <2>8, StreamDispatch
  <2>9. ASSUME NEW p \in Peers, Stream!Receive(p)
        PROVE  ListKept' /\ PeersKept' /\ LinksKept'
    BY <2>2, <2>3, <2>9, StreamReceive
  <2>10. ASSUME NEW p \in Peers, Stream!ReceiveEnd(p)
         PROVE  ListKept' /\ PeersKept' /\ LinksKept'
    BY <2>2, <2>3, <2>10, StreamEnd
  <2>11. \/ Stream!OtherError
         \/ \E p \in Peers :
              \/ Stream!Connect(p) \/ Stream!Send(p) \/ Stream!Close(p)
              \/ Stream!AddSocket(p) \/ Stream!Dispatch(p) \/ Stream!Receive(p)
              \/ Stream!ReceiveEnd(p) \/ Stream!Damage(p)
    BY <1>2, Zenon DEF Stream!Next
  <2>12. ASSUME NEW p \in Peers, Stream!Damage(p)
         PROVE  ListKept' /\ PeersKept' /\ LinksKept' /\ wild' \subseteq SlipPeers
    <3>1. /\ UNCHANGED <<peer, sent, wire, sockets, contexts, taken, delivered, lost>> /\ wild' = {p}
      BY <2>12, Zenon DEF Stream!Damage, Stream!world
    <3>2. DOMAIN peer' = Peers /\ \A q \in Peers : Closed(q) => Closed(q)'
      BY <2>3, <3>1 DEF PeersKept, Closed
    <3>3. ListKept' /\ PeersKept' /\ LinksKept'
      BY <2>3, <3>1, <3>2, PeerMoves
    <3>4. p \in SlipPeers
      BY <2>3, <2>12, StreamDamage
    <3>. QED
      BY <3>1, <3>3, <3>4
  <2>13. \/ UNCHANGED wild
         \/ \E p \in Peers : Stream!Damage(p)
    <3>1. ASSUME NEW p \in Peers,
                 \/ Stream!Connect(p) \/ Stream!Send(p) \/ Stream!Close(p)
                 \/ Stream!AddSocket(p) \/ Stream!Dispatch(p) \/ Stream!Receive(p)
                 \/ Stream!ReceiveEnd(p)
          PROVE  UNCHANGED wild
      BY <3>1, Zenon DEF Stream!Connect, Stream!Send, Stream!Close, Stream!AddSocket, Stream!Dispatch,
                         Stream!Receive, Stream!ReceiveEnd, Stream!server
    <3>2. Stream!OtherError => UNCHANGED wild
      BY Zenon DEF Stream!OtherError
    <3>. QED
      BY <2>11, <3>1, <3>2, Zenon
  <2>14. CASE UNCHANGED wild
    <3>1. wild' \subseteq SlipPeers
      BY <2>3, <2>14
    <3>. QED
      BY <2>4, <2>5, <2>6, <2>7, <2>8, <2>9, <2>10, <2>11, <2>12, <3>1, Zenon
  <2>. QED
    BY <2>12, <2>13, <2>14, Zenon
<1>. QED
  BY <1>1, <1>2

(* What was kept is what is promised.                                      *)
LEMMA StreamsPromise ==
  ASSUME StreamsKept
  PROVE  Framed
<1>1. SUFFICES ASSUME ~shifted
               PROVE  /\ \A p \in Peers : Stream!InOrder(p)
                      /\ \A p \in taken \ Stream!ToSet(sockets) :
                           peer[p] = "closed" \/ Stream!TooLong(p)
                      /\ Stream!AllDelivered
                      /\ wild \subseteq SlipPeers
  BY Zenon DEF Framed, Stream!Sound, Stream!IntactWhileSound, Stream!DroppedWithCause,
               Stream!NothingStuck, Stream!DamageIsSlip
<1>2. ListKept /\ PeersKept /\ LinksKept /\ wild \subseteq SlipPeers
  BY <1>1 DEF StreamsKept
<1>3. ASSUME NEW p \in Peers
      PROVE  /\ PeerIs(p) /\ Stream!InOrder(p)
             /\ p \in taken /\ ~On(p) => Closed(p) \/ Stream!TooLong(p)
             /\ Len(delivered[p]) = Len(sent[p]) \/ Blocked(p, Len(delivered[p]), Len(sent[p])) =>
                  /\ Len(delivered[p]) >= Stream!Cardinality(Stream!Fitting(p))
                  /\ p \notin SlipPeers => Len(delivered[p]) = Stream!Cardinality(Stream!Fitting(p))
  <2> DEFINE ds == delivered[p]
             w == wire[p]
             tk == p \in taken
             on == On(p)
             cl == Closed(p)
             a == lost[p]
  <2>1. PeerIs(p) /\ SentKept(p, sent[p])
    BY <1>2, <1>3 DEF PeersKept
  <2>2. PeerKept(p, ds, Len(sent[p]), w, cl, tk, on, a)
    BY <2>1 DEF PeerIs
  <2>. HIDE DEF ds, w, tk, on, cl, a
  <2>3. /\ Stream!IsPrefix(ds, Zeroed(sent[p], a))
        /\ tk /\ ~on => cl \/ Stream!TooLong(p)
        /\ Len(ds) = Len(sent[p]) \/ Blocked(p, Len(ds), Len(sent[p])) =>
             /\ Len(ds) >= Stream!Cardinality(Stream!Fitting(p))
             /\ p \notin SlipPeers => Len(ds) = Stream!Cardinality(Stream!Fitting(p))
    BY <2>1, <2>2, PeerPromise, Zenon
  <2>4. Zeroed(sent[p], a) = Stream!Arriving(p)
    BY Zenon DEF Zeroed, Stream!Arriving, a
  <2>5. a \in 0 .. 3 /\ (p \notin SlipPeers => a = 0)
    <3>1. a \in Losses(p)
      BY <2>2, Zenon DEF PeerKept, Delivers
    <3>. QED
      BY <3>1, LossesIs
  <2>6. Stream!InOrder(p)
    BY <2>3, <2>4, <2>5, Zenon DEF Stream!InOrder, ds, a
  <2>. QED
    BY <2>1, <2>3, <2>6, Zenon DEF ds, tk, on, cl
<1>4. ASSUME NEW p \in taken \ Stream!ToSet(sockets)
      PROVE  peer[p] = "closed" \/ Stream!TooLong(p)
  <2>1. ~On(p) /\ p \in Peers /\ p \in taken
    BY <1>2, <1>4, SocketFacts DEF ListKept
  <2>. QED
    BY <1>3, <2>1 DEF Closed
<1>5. ASSUME Stream!Whole = {}, NEW p \in taken, wire[p] = <<>>
      PROVE  Len(delivered[p]) = Len(sent[p]) \/ Blocked(p, Len(delivered[p]), Len(sent[p]))
  <2>1. p \in Peers /\ PeerIs(p)
    BY <1>2, <1>3, <1>5 DEF ListKept
  <2>2. CASE On(p)
    <3> DEFINE d == Len(delivered[p])
               N == Len(sent[p])
               c == contexts[Stream!Index(p)]
               w == wire[p]
               a == lost[p]
    <3>1. p \in Stream!ToSet(sockets)
      BY <1>2, <2>2, SocketFacts
    <3>2. /\ LinkKept(p, c, w, d, N, a)
          /\ Stream!ContainsMsg(c) = 0 /\ N \in 0 .. Len(Script[p]) /\ d \in 0 .. N
      BY <1>2, <1>5, <2>1, <3>1, ReadIs
    <3>. HIDE DEF c, d, N, w, a
    <3>3. w = <<>> => d = N
      BY <2>1, <3>2, LinkEnds
    <3>. QED
      BY <1>5, <3>3 DEF w, d, N
  <2>3. CASE ~On(p)
    BY <1>5, <2>1, <2>3 DEF PeerIs, PeerKept
  <2>. QED
    BY <2>2, <2>3
<1>6. Stream!AllDelivered
  <2>1. ASSUME Stream!Whole = {}, NEW p \in taken, wire[p] = <<>>
        PROVE  /\ Len(delivered[p]) >= Stream!Cardinality(Stream!Fitting(p))
               /\ p \notin SlipPeers => Len(delivered[p]) = Stream!Cardinality(Stream!Fitting(p))
    <3>1. p \in Peers
      BY <1>2, <2>1 DEF ListKept
    <3>. QED
      BY <1>3, <1>5, <2>1, <3>1
  <2>. QED
    BY <2>1, Zenon DEF Stream!AllDelivered
<1>. QED
  BY <1>2, <1>3, <1>4, <1>6

(* LoSockets: whatever the sizes of the segments, the lengths of the lists *)
(* of connections and the order in which sockets are read, accepted and    *)
(* closed, a handler sees the messages of a connection in the order they   *)
(* were sent, those of the count whole, and of SLIP all but at most three  *)
(* bytes of the first, which are zeros; a connection is given up for a     *)
(* cause only, no message that fits is stuck in a buffer, and what the     *)
(* code does to its memory is defined.  The last is only said of streams   *)
(* with counts, and all of it while sockets are taken out at the end of    *)
(* the list only and no SLIP stream has damaged the memory.                *)
THEOREM StreamsFramed == Stream!Spec => []Framed
<1>1. Stream!Init => StreamsKept
  BY StreamInit
<1>2. StreamsKept /\ [Stream!Next]_(Stream!vars) => StreamsKept'
  BY StreamNext
<1>3. StreamsKept => Framed
  BY StreamsPromise
<1>. QED
  BY <1>1, <1>2, <1>3, PTL DEF Stream!Spec

=============================================================================
