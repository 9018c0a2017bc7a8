---------------------------- MODULE LoCodecProofs ---------------------------
(* What liblo's building, sending and reading of messages and its matching *)
(* of patterns guarantee, for every set of values, types, paths and        *)
(* damages and every alphabet that the assumptions admit.                  *)
EXTENDS LoCodec, SequenceTheorems, TotalsProofs

(* A set of naturals has a least member.                                   *)
LEMMA NatLeast ==
  ASSUME NEW S \in SUBSET Nat, S # {}
  PROVE  \E x \in S : \A y \in S : x <= y
<1> DEFINE less == {ss \in Nat \X Nat : ss[1] < ss[2]}
<1>1. IsWellFoundedOn(less, Nat)
  BY NatLessThanWellFounded DEF OpToRel
<1>2. PICK x \in S : \A y \in S : ~ (<<y, x>> \in less)
  BY <1>1, WFMin, Zenon
<1>3. ASSUME NEW y \in S, ~ (x <= y) PROVE FALSE
  <2>1. x \in Nat /\ y \in Nat /\ y < x
    BY <1>3
  <2>2. <<y, x>> \in less
    BY <2>1
  <2>. QED
    BY <1>2, <2>2
<1>. QED
  BY <1>3

-----------------------------------------------------------------------------
(* The bytes of messages.                                                  *)

(* A padded string has room for one to four zeros.                         *)
LEMMA StrSizeFacts ==
  ASSUME NEW n \in Nat
  PROVE  Message!StrSize(n) \in Nat /\ n < Message!StrSize(n) /\ Message!StrSize(n) <= n + 4
BY DEF Message!StrSize

(* A blob has room for its size and its bytes.                             *)
LEMMA BlobSizeFacts ==
  ASSUME NEW n \in Nat
  PROVE  Message!BlobSize(n) \in Nat /\ 4 + n <= Message!BlobSize(n)
BY DEF Message!BlobSize

(* Four bytes stand for a natural number.                                  *)
LEMMA NumberFacts ==
  ASSUME NEW d \in Seq(Bytes), 4 <= Len(d)
  PROVE  Message!Number(d) \in Nat
<1>1. \A k \in 1 .. Len(d) : d[k] \in Bytes
  OBVIOUS
<1>2. d[1] \in Bytes /\ d[2] \in Bytes /\ d[3] \in Bytes /\ d[4] \in Bytes
  BY <1>1
<1>3. d[1] \in Nat /\ d[2] \in Nat /\ d[3] \in Nat /\ d[4] \in Nat
  <2>1. Bytes \subseteq Nat
    BY DEF Bytes
  <2>. QED
    BY <1>2, <2>1, Zenon
<1>4. Message!Number(d) = d[1] + 256 * d[2] + 65536 * d[3] + 16777216 * d[4]
  BY DEF Message!Number
<1>5. PICK a \in Nat, b \in Nat, c \in Nat, e \in Nat :
        a = d[1] /\ b = d[2] /\ c = d[3] /\ e = d[4]
  BY <1>3, Zenon
<1>6. Message!Number(d) = a + 256 * b + 65536 * c + 16777216 * e
  BY <1>4, <1>5
<1>. QED
  BY <1>6

(* The number depends on the first four bytes only.                        *)
LEMMA SameNumber ==
  ASSUME NEW v, NEW w, v[1] = w[1], v[2] = w[2], v[3] = w[3], v[4] = w[4]
  PROVE  Message!Number(v) = Message!Number(w)
BY DEF Message!Number

(* The rest of some bytes, byte by byte.                                   *)
LEMMA RestFacts ==
  ASSUME NEW d \in Seq(Bytes), NEW a \in 0 .. Len(d)
  PROVE  /\ Message!Rest(d, a) \in Seq(Bytes) /\ Len(Message!Rest(d, a)) = Len(d) - a
         /\ \A j \in 1 .. Len(d) - a : Message!Rest(d, a)[j] = d[a + j]
BY DEF Message!Rest

(* The length of a string is where its first terminator stands.            *)
LEMMA StrLenFacts ==
  ASSUME NEW d \in Seq(Bytes), Message!Zero(d) # {}
  PROVE  /\ Message!StrLen(d) \in 0 .. Len(d) - 1 /\ d[Message!StrLen(d) + 1] = 0
         /\ \A j \in 1 .. Message!StrLen(d) : d[j] # 0
<1> DEFINE Z == Message!Zero(d)
           first == CHOOSE k \in Z : \A l \in Z : k <= l
<1>1. Z \in SUBSET Nat
  BY DEF Message!Zero
<1>2. \E k \in Z : \A l \in Z : k <= l
  BY <1>1, NatLeast, Zenon
<1>3. first \in Z /\ \A l \in Z : first <= l
  BY <1>2
<1>. HIDE DEF first
<1>4. first \in 1 .. Len(d) /\ d[first] = 0
  BY <1>3 DEF Message!Zero
<1>5. Message!StrLen(d) = first - 1
  BY DEF Message!StrLen, first
<1>6. ASSUME NEW j \in 1 .. first - 1 PROVE d[j] # 0
  <2>1. j \in 1 .. Len(d) /\ ~ (first <= j)
    BY <1>4
  <2>. QED
    BY <1>3, <2>1 DEF Message!Zero
<1>. QED
  BY <1>4, <1>5, <1>6

(* Bytes up to the first zero have the length of a string.                 *)
LEMMA StrLenIs ==
  ASSUME NEW d \in Seq(Bytes), NEW n \in 0 .. Len(d) - 1, d[n + 1] = 0,
         \A j \in 1 .. n : d[j] # 0
  PROVE  Message!Zero(d) # {} /\ Message!StrLen(d) = n
<1>1. n + 1 \in Message!Zero(d)
  BY DEF Message!Zero
<1>2. /\ Message!StrLen(d) \in 0 .. Len(d) - 1 /\ d[Message!StrLen(d) + 1] = 0
      /\ \A j \in 1 .. Message!StrLen(d) : d[j] # 0
  BY <1>1, StrLenFacts
<1>3. ~ (Message!StrLen(d) < n)
  <2>1. Message!StrLen(d) < n => Message!StrLen(d) + 1 \in 1 .. n
    BY <1>2
  <2>. QED
    BY <1>2, <2>1
<1>4. ~ (n < Message!StrLen(d))
  <2>1. n < Message!StrLen(d) => n + 1 \in 1 .. Message!StrLen(d)
    BY <1>2
  <2>. QED
    BY <1>2, <2>1
<1>. QED
  BY <1>1, <1>2, <1>3, <1>4

(* Bytes that hold an argument in host order, its padding included.        *)
IsArg(t, d) ==
  LET n == Message!ArgSize(t, d)
  IN  /\ t \in Message!Types /\ n <= Len(d)
      /\ t = Message!S =>
           /\ Message!Zero(d) # {}
           /\ \A k \in Message!StrLen(d) + 1 .. n : d[k] = 0
      /\ t = Message!B =>
           /\ 4 <= Len(d)
           /\ \A k \in 4 + Message!Number(d) + 1 .. n : d[k] = 0

(* The least that an argument takes.                                       *)
Wide(t, n) ==
  /\ n \in Nat
  /\ t \in {Message!I, Message!B} => 4 <= n
  /\ t \in {Message!H, Message!TT} => 8 <= n

(* lo_arg_size by the kind of the type.                                    *)
LEMMA ArgSizes ==
  ASSUME NEW t, NEW d
  PROVE  /\ t \in Message!Sizeless => Message!ArgSize(t, d) = 0
         /\ t \in Message!OneWord => Message!ArgSize(t, d) = 4
         /\ t \in Message!TwoWords => Message!ArgSize(t, d) = 8
         /\ t = Message!S => Message!ArgSize(t, d) = Message!StrSize(Message!StrLen(d))
         /\ t = Message!B => Message!ArgSize(t, d) = Message!BlobSize(Message!Number(d))
BY DEF Message!ArgSize, Message!Sizeless, Message!OneWord, Message!TwoWords, Message!T,
       Message!I, Message!M, Message!H, Message!TT, Message!S, Message!B

(* Every type is of one of the five kinds, and no terminator.              *)
LEMMA TypeKinds ==
  ASSUME NEW t \in Message!Types
  PROVE  /\ t \in Message!Sizeless \/ t \in Message!OneWord \/ t \in Message!TwoWords
            \/ t = Message!S \/ t = Message!B
         /\ t \in Bytes \ {0}
BY DEF Message!Types, Message!Sizeless, Message!OneWord, Message!TwoWords, Message!T,
       Message!I, Message!M, Message!H, Message!TT, Message!S, Message!B, Bytes

(* lo_validate_arg by the kind of the type.                                *)
LEMMA ValidSizes ==
  ASSUME NEW t, NEW d
  PROVE  /\ t \in Message!Sizeless => Message!ValidateArg(t, d) = 0
         /\ t \in Message!OneWord =>
              Message!ValidateArg(t, d) = IF Len(d) >= 4 THEN 4 ELSE Message!Bad
         /\ t \in Message!TwoWords =>
              Message!ValidateArg(t, d) = IF Len(d) >= 8 THEN 8 ELSE Message!Bad
         /\ t = Message!S => Message!ValidateArg(t, d) = Message!ValidateString(d)
         /\ t = Message!B => Message!ValidateArg(t, d) = Message!ValidateBlob(d)
         /\ t \notin Message!Types => Message!ValidateArg(t, d) = Message!Bad
BY DEF Message!ValidateArg, Message!Types, Message!Sizeless, Message!OneWord,
       Message!TwoWords, Message!T, Message!I, Message!M, Message!H, Message!TT, Message!S,
       Message!B

(* An argument has the size that its type asks for.                        *)
LEMMA ArgFacts ==
  ASSUME NEW t, NEW d \in Seq(Bytes), IsArg(t, d)
  PROVE  Message!ArgSize(t, d) \in 0 .. Len(d) /\ Wide(t, Message!ArgSize(t, d))
<1> DEFINE n == Message!ArgSize(t, d)
<1>1. t \in Message!Types /\ n <= Len(d)
  BY DEF IsArg
<1>2. n \in Nat /\ (t = Message!B => 4 <= n)
  <2>1. CASE t = Message!S
    <3>1. Message!StrLen(d) \in Nat
      BY <2>1, StrLenFacts DEF IsArg
    <3>2. t # Message!B
      BY <2>1 DEF Message!S, Message!B
    <3>. QED
      BY <2>1, <3>1, <3>2, ArgSizes, StrSizeFacts, Zenon
  <2>2. CASE t = Message!B
    <3>1. Message!Number(d) \in Nat
      BY <2>2, NumberFacts DEF IsArg
    <3>2. n = Message!BlobSize(Message!Number(d))
      BY <2>2, ArgSizes
    <3>3. n \in Nat /\ 4 + Message!Number(d) <= n
      BY <3>1, <3>2, BlobSizeFacts, Zenon
    <3>. QED
      BY <3>1, <3>3
  <2>3. CASE t # Message!S /\ t # Message!B
    BY <1>1, <2>3, ArgSizes, TypeKinds
  <2>. QED
    BY <2>1, <2>2, <2>3
<1>3. t = Message!I => n = 4
  BY ArgSizes DEF Message!OneWord
<1>4. t \in {Message!H, Message!TT} => n = 8
  BY ArgSizes DEF Message!TwoWords
<1>. QED
  BY <1>1, <1>2, <1>3, <1>4 DEF Wide

(* Swapping stays within the argument, and twice is not at all.            *)
LEMMA MirroredTwice ==
  ASSUME NEW t, NEW n, Wide(t, n), NEW j \in 1 .. n
  PROVE  /\ Message!Mirrored(t, j) \in 1 .. n
         /\ Message!Mirrored(t, Message!Mirrored(t, j)) = j
BY DEF Message!Mirrored, Wide, Message!I, Message!B, Message!H, Message!TT

(* Only the size of a blob is reversed, and nothing of a string.           *)
LEMMA MirroredPlain ==
  ASSUME NEW j \in Nat
  PROVE  /\ Message!Mirrored(Message!S, j) = j
         /\ 4 < j => Message!Mirrored(Message!B, j) = j
         /\ j \in 1 .. 4 => Message!Mirrored(Message!B, j) = 5 - j
BY DEF Message!Mirrored, Message!I, Message!B, Message!H, Message!TT, Message!S

-----------------------------------------------------------------------------
(* lo_validate_arg on bytes in network order, and what is an argument in   *)
(* host order.                                                             *)

(* A valid string ends in zeros, and has the size of one of its length.    *)
LEMMA ValidString ==
  ASSUME NEW d
  PROVE  /\ Message!ValidateString(d) # Message!Bad =>
              /\ Message!Zero(d) # {}
              /\ Message!ValidateString(d) = Message!StrSize(Message!StrLen(d))
              /\ Message!ValidateString(d) <= Len(d)
              /\ \A k \in Message!StrLen(d) + 1 .. Message!ValidateString(d) : d[k] = 0
         /\ /\ Message!Zero(d) # {}
            /\ Message!StrSize(Message!StrLen(d)) <= Len(d)
            /\ \A k \in Message!StrLen(d) + 1 .. Message!StrSize(Message!StrLen(d)) : d[k] = 0
            => Message!ValidateString(d) = Message!StrSize(Message!StrLen(d))
BY Zenon DEF Message!ValidateString

(* The number in the network's order is the one of the reversed bytes.     *)
LEMMA NetworkNumber ==
  ASSUME NEW d \in Seq(Bytes), 4 <= Len(d), NEW d2, \A j \in 1 .. 4 : d2[j] = d[5 - j]
  PROVE  /\ Message!Number(Message!Reverse(SubSeq(d, 1, 4))) = Message!Number(d2)
         /\ Message!Number(d2) \in Nat
<1> DEFINE w == SubSeq(d, 1, 4)
           r == Message!Reverse(w)
<1>1. w \in Seq(Bytes) /\ Len(w) = 4 /\ \A k \in 1 .. 4 : w[k] = d[k]
  OBVIOUS
<1>. HIDE DEF w
<1>2. r = [i \in 1 .. 4 |-> w[(4 - i) + 1]]
  BY <1>1 DEF Message!Reverse
<1>3. \A i \in 1 .. 4 : (4 - i) + 1 \in 1 .. 4 /\ (4 - i) + 1 = 5 - i
  OBVIOUS
<1>4. \A i \in 1 .. 4 : w[5 - i] \in Bytes
  <2>1. \A i \in 1 .. 4 : 5 - i \in 1 .. Len(w)
    BY <1>1
  <2>. QED
    BY <1>1, <2>1
<1>5. r \in Seq(Bytes) /\ Len(r) = 4 /\ \A i \in 1 .. 4 : r[i] = d[5 - i]
  <2>1. \A i \in 1 .. 4 : r[i] = w[5 - i]
    BY <1>2, <1>3
  <2>2. \A f \in [1 .. 4 -> Bytes] : f \in Seq(Bytes) /\ Len(f) = 4
    BY FunctionIsSeq, Zenon
  <2>3. r \in Seq(Bytes) /\ Len(r) = 4
    <3>1. r \in [1 .. 4 -> Bytes]
      BY <1>2, <1>3, <1>4
    <3>. QED
      BY <2>2, <3>1, Zenon
  <2>4. \A i \in 1 .. 4 : 5 - i \in 1 .. 4
    OBVIOUS
  <2>5. \A i \in 1 .. 4 : w[5 - i] = d[5 - i]
    BY <1>1, <2>4
  <2>. QED
    BY <2>1, <2>3, <2>5
<1>. HIDE DEF r
<1>6. r[1] = d2[1] /\ r[2] = d2[2] /\ r[3] = d2[3] /\ r[4] = d2[4]
  BY <1>5
<1>7. Message!Number(r) = Message!Number(d2)
  BY <1>6, SameNumber
<1>. QED
  BY <1>5, <1>7, NumberFacts DEF r, w

(* A valid blob fits, and ends in zeros.                                   *)
LEMMA ValidBlob ==
  ASSUME NEW d \in Seq(Bytes), NEW d2, \A j \in 1 .. 4 : d2[j] = d[5 - j]
  PROVE  /\ Message!ValidateBlob(d) # Message!Bad =>
              /\ 4 <= Len(d) /\ Message!Number(d2) \in Nat
              /\ Message!ValidateBlob(d) = Message!BlobSize(Message!Number(d2))
              /\ Message!ValidateBlob(d) <= Len(d)
              /\ \A k \in 4 + Message!Number(d2) + 1 .. Message!ValidateBlob(d) : d[k] = 0
         /\ /\ 4 <= Len(d)
            /\ Message!BlobSize(Message!Number(d2)) <= Len(d)
            /\ \A k \in 4 + Message!Number(d2) + 1 .. Message!BlobSize(Message!Number(d2)) :
                 d[k] = 0
            => Message!ValidateBlob(d) = Message!BlobSize(Message!Number(d2))
<1>1. CASE Len(d) < 4
  BY <1>1 DEF Message!ValidateBlob
<1>2. CASE ~ (Len(d) < 4)
  <2>1. 4 <= Len(d)
    BY <1>2
  <2>2. /\ Message!Number(Message!Reverse(SubSeq(d, 1, 4))) = Message!Number(d2)
        /\ Message!Number(d2) \in Nat
    BY <2>1, NetworkNumber
  <2> DEFINE n == Message!Number(d2)
             size == Message!BlobSize(n)
  <2>3. Message!ValidateBlob(d) =
          IF n <= Len(d) /\ size <= Len(d) /\ \A k \in 4 + n + 1 .. size : d[k] = 0
          THEN size ELSE Message!Bad
    BY <1>2, <2>2, Zenon DEF Message!ValidateBlob
  <2>4. size \in Nat /\ 4 + n <= size
    BY <2>2, BlobSizeFacts, Zenon
  <2>5. size <= Len(d) => n <= Len(d)
    BY <2>2, <2>4
  <2>. HIDE DEF n, size
  <2>6. /\ Message!ValidateBlob(d) # Message!Bad =>
              /\ Message!ValidateBlob(d) = size /\ size <= Len(d)
              /\ \A k \in 4 + n + 1 .. size : d[k] = 0
        /\ size <= Len(d) /\ (\A k \in 4 + n + 1 .. size : d[k] = 0)
             => Message!ValidateBlob(d) = size
    BY <2>3, <2>5
  <2>. QED
    BY <2>1, <2>2, <2>6, Zenon DEF n, size
<1>. QED
  BY <1>1, <1>2

(* What is valid in network order is an argument once it is swapped.       *)
LEMMA HostFromNetwork ==
  ASSUME NEW t, NEW d \in Seq(Bytes), NEW d2 \in Seq(Bytes),
         Message!ValidateArg(t, d) # Message!Bad,
         Len(d) <= Len(d2),
         \A j \in 1 .. Message!ValidateArg(t, d) : d2[j] = d[Message!Mirrored(t, j)]
  PROVE  /\ IsArg(t, d2) /\ Message!ArgSize(t, d2) = Message!ValidateArg(t, d)
         /\ Message!ValidateArg(t, d) \in 0 .. Len(d)
<1> DEFINE n == Message!ValidateArg(t, d)
<1>0. t \in Message!Types
  BY ValidSizes
<1>1. CASE t \in Message!Sizeless \/ t \in Message!OneWord \/ t \in Message!TwoWords
  <2>1. t # Message!S /\ t # Message!B
    BY <1>1 DEF Message!Sizeless, Message!OneWord, Message!TwoWords, Message!T,
       Message!I, Message!M, Message!H, Message!TT, Message!S, Message!B
  <2>2. n \in Nat /\ n <= Len(d) /\ Message!ArgSize(t, d2) = n
    BY <1>1, ValidSizes, ArgSizes
  <2>. QED
    BY <1>0, <2>1, <2>2 DEF IsArg
<1>2. CASE t = Message!S
  <2>1. n = Message!ValidateString(d) /\ t # Message!B
    BY <1>2, ValidSizes DEF Message!S, Message!B
  <2> DEFINE l == Message!StrLen(d)
  <2>2. /\ Message!Zero(d) # {} /\ n = Message!StrSize(l) /\ n <= Len(d)
        /\ \A k \in l + 1 .. n : d[k] = 0
    BY <2>1, ValidString
  <2>3. l \in 0 .. Len(d) - 1 /\ d[l + 1] = 0 /\ \A j \in 1 .. l : d[j] # 0
    BY <2>2, StrLenFacts
  <2>4. n \in Nat /\ l < n
    BY <2>2, <2>3, StrSizeFacts
  <2>. HIDE DEF n, l
  <2>5. \A j \in 1 .. n : d2[j] = d[j]
    BY <1>2, <2>4, MirroredPlain DEF n
  <2>6. Message!Zero(d2) # {} /\ Message!StrLen(d2) = l
    <3>1. l \in 0 .. Len(d2) - 1 /\ l + 1 \in 1 .. n /\ \A j \in 1 .. l : j \in 1 .. n
      BY <2>2, <2>3, <2>4
    <3>2. d2[l + 1] = 0 /\ \A j \in 1 .. l : d2[j] # 0
      BY <2>3, <2>5, <3>1
    <3>. QED
      BY <3>1, <3>2, StrLenIs
  <2>7. Message!ArgSize(t, d2) = n
    BY <1>2, <2>2, <2>6, ArgSizes
  <2>8. \A k \in l + 1 .. n : d2[k] = 0
    BY <2>2, <2>3, <2>4, <2>5
  <2>9. n <= Len(d2) /\ n \in 0 .. Len(d)
    BY <2>2, <2>4
  <2>. QED
    BY <1>0, <2>1, <2>6, <2>7, <2>8, <2>9 DEF IsArg, n
<1>3. CASE t = Message!B
  <2>1. n = Message!ValidateBlob(d) /\ t # Message!S
    BY <1>3, ValidSizes DEF Message!S, Message!B
  <2> DEFINE e == [j \in 1 .. 4 |-> d[5 - j]]
             b == Message!Number(e)
  <2>2. /\ 4 <= Len(d) /\ b \in Nat /\ n = Message!BlobSize(b) /\ n <= Len(d)
        /\ \A k \in 4 + b + 1 .. n : d[k] = 0
    <3>1. \A j \in 1 .. 4 : e[j] = d[5 - j]
      OBVIOUS
    <3>. HIDE DEF e
    <3>2. Message!ValidateBlob(d) # Message!Bad
      BY <2>1
    <3>. QED
      BY <2>1, <3>1, <3>2, ValidBlob
  <2>3. n \in Nat /\ 4 + b <= n
    BY <2>2, BlobSizeFacts, Zenon
  <2>. HIDE DEF n, b
  <2>4. \A j \in 1 .. 4 : d2[j] = d[5 - j]
    <3>1. \A j \in 1 .. 4 : j \in 1 .. n /\ j \in Nat
      BY <2>2, <2>3
    <3>. QED
      BY <1>3, <3>1, MirroredPlain, Zenon DEF n
  <2>5. Message!Number(d2) = b
    <3>1. d2[1] = e[1] /\ d2[2] = e[2] /\ d2[3] = e[3] /\ d2[4] = e[4]
      BY <2>4
    <3>. QED
      BY <3>1, SameNumber DEF b
  <2>6. Message!ArgSize(t, d2) = n
    BY <1>3, <2>2, <2>5, ArgSizes
  <2>7. \A k \in 4 + b + 1 .. n : d2[k] = 0
    <3>. SUFFICES ASSUME NEW k \in 4 + b + 1 .. n PROVE d2[k] = 0
      OBVIOUS
    <3>1. k \in 1 .. n /\ k \in Nat /\ 4 < k
      BY <2>2, <2>3
    <3>. QED
      BY <1>3, <2>2, <3>1, MirroredPlain DEF n
  <2>8. n <= Len(d2) /\ n \in 0 .. Len(d) /\ 4 <= Len(d2)
    BY <2>2, <2>3
  <2>. QED
    BY <1>0, <2>1, <2>5, <2>6, <2>7, <2>8 DEF IsArg, n
<1>. QED
  BY <1>0, <1>1, <1>2, <1>3, TypeKinds

(* An argument is valid in network order once it is swapped.               *)
LEMMA NetworkFromHost ==
  ASSUME NEW t, NEW d \in Seq(Bytes), NEW d2 \in Seq(Bytes), IsArg(t, d),
         Message!ArgSize(t, d) <= Len(d2),
         \A j \in 1 .. Message!ArgSize(t, d) : d2[j] = d[Message!Mirrored(t, j)]
  PROVE  Message!ValidateArg(t, d2) = Message!ArgSize(t, d)
<1> DEFINE n == Message!ArgSize(t, d)
<1>0. t \in Message!Types /\ n \in 0 .. Len(d) /\ Wide(t, n)
  BY ArgFacts DEF IsArg
<1>1. CASE t \in Message!Sizeless \/ t \in Message!OneWord \/ t \in Message!TwoWords
  BY <1>1, ValidSizes, ArgSizes
<1>2. CASE t = Message!S
  <2> DEFINE l == Message!StrLen(d)
  <2>1. Message!Zero(d) # {} /\ n = Message!StrSize(l) /\ \A k \in l + 1 .. n : d[k] = 0
    BY <1>2, ArgSizes DEF IsArg
  <2>2. l \in 0 .. Len(d) - 1 /\ d[l + 1] = 0 /\ \A j \in 1 .. l : d[j] # 0
    BY <2>1, StrLenFacts
  <2>3. n \in Nat /\ l < n
    BY <2>1, <2>2, StrSizeFacts
  <2>. HIDE DEF n, l
  <2>4. \A j \in 1 .. n : d2[j] = d[j]
    BY <1>2, <2>3, MirroredPlain DEF n
  <2>5. Message!Zero(d2) # {} /\ Message!StrLen(d2) = l
    <3>1. l \in 0 .. Len(d2) - 1 /\ l + 1 \in 1 .. n /\ \A j \in 1 .. l : j \in 1 .. n
      BY <2>2, <2>3 DEF n
    <3>2. d2[l + 1] = 0 /\ \A j \in 1 .. l : d2[j] # 0
      BY <2>2, <2>4, <3>1
    <3>. QED
      BY <3>1, <3>2, StrLenIs
  <2>6. \A k \in l + 1 .. n : d2[k] = 0
    BY <2>1, <2>2, <2>3, <2>4
  <2>7. n <= Len(d2)
    BY DEF n
  <2>8. Message!ValidateString(d2) = n
    BY <2>1, <2>5, <2>6, <2>7, ValidString
  <2>. QED
    BY <1>2, <2>8, ValidSizes DEF n
<1>3. CASE t = Message!B
  <2> DEFINE b == Message!Number(d)
  <2>1. 4 <= Len(d) /\ n = Message!BlobSize(b) /\ \A k \in 4 + b + 1 .. n : d[k] = 0
    BY <1>3, ArgSizes DEF IsArg
  <2>2. b \in Nat
    BY <2>1, NumberFacts
  <2>3. n \in Nat /\ 4 + b <= n
    BY <2>1, <2>2, BlobSizeFacts, Zenon
  <2>. HIDE DEF n, b
  <2>4. \A j \in 1 .. 4 : d[j] = d2[5 - j]
    <3>. SUFFICES ASSUME NEW j \in 1 .. 4 PROVE d[j] = d2[5 - j]
      OBVIOUS
    <3>1. 5 - j \in 1 .. 4 /\ 5 - j \in 1 .. n /\ 5 - j \in Nat /\ 5 - (5 - j) = j
      BY <2>2, <2>3
    <3>2. d2[5 - j] = d[Message!Mirrored(Message!B, 5 - j)]
      BY <1>3, <3>1 DEF n
    <3>. QED
      BY <3>1, <3>2, MirroredPlain
  <2>5. \A k \in 4 + b + 1 .. n : d2[k] = 0
    <3>. SUFFICES ASSUME NEW k \in 4 + b + 1 .. n PROVE d2[k] = 0
      OBVIOUS
    <3>1. k \in 1 .. n /\ k \in Nat /\ 4 < k
      BY <2>2, <2>3
    <3>. QED
      BY <1>3, <2>1, <3>1, MirroredPlain DEF n
  <2>6. 4 <= Len(d2) /\ n <= Len(d2)
    BY <2>2, <2>3 DEF n
  <2>7. Message!ValidateBlob(d2) = n
    BY <2>1, <2>4, <2>5, <2>6, ValidBlob DEF b
  <2>. QED
    BY <1>3, <2>7, ValidSizes DEF n
<1>. QED
  BY <1>0, <1>1, <1>2, <1>3, TypeKinds

(* Whether there is an argument depends on its own bytes.                  *)
LEMMA ArgIsLocal ==
  ASSUME NEW t, NEW d \in Seq(Bytes), NEW d2 \in Seq(Bytes), IsArg(t, d),
         Message!ArgSize(t, d) <= Len(d2),
         \A j \in 1 .. Message!ArgSize(t, d) : d2[j] = d[j]
  PROVE  IsArg(t, d2) /\ Message!ArgSize(t, d2) = Message!ArgSize(t, d)
<1> DEFINE n == Message!ArgSize(t, d)
<1>0. t \in Message!Types /\ n \in 0 .. Len(d) /\ Wide(t, n)
  BY ArgFacts DEF IsArg
<1>1. CASE t \in Message!Sizeless \/ t \in Message!OneWord \/ t \in Message!TwoWords
  <2>1. t # Message!S /\ t # Message!B
    BY <1>1 DEF Message!Sizeless, Message!OneWord, Message!TwoWords, Message!T,
       Message!I, Message!M, Message!H, Message!TT, Message!S, Message!B
  <2>2. Message!ArgSize(t, d2) = n
    BY <1>1, ArgSizes
  <2>. QED
    BY <1>0, <2>1, <2>2 DEF IsArg
<1>2. CASE t = Message!S
  <2> DEFINE l == Message!StrLen(d)
  <2>1. Message!Zero(d) # {} /\ n = Message!StrSize(l) /\ \A k \in l + 1 .. n : d[k] = 0
    BY <1>2, ArgSizes DEF IsArg
  <2>2. l \in 0 .. Len(d) - 1 /\ d[l + 1] = 0 /\ \A j \in 1 .. l : d[j] # 0
    BY <2>1, StrLenFacts
  <2>3. n \in Nat /\ l < n
    BY <2>1, <2>2, StrSizeFacts
  <2>. HIDE DEF n, l
  <2>4. \A j \in 1 .. n : d2[j] = d[j]
    BY DEF n
  <2>5. Message!Zero(d2) # {} /\ Message!StrLen(d2) = l
    <3>1. l \in 0 .. Len(d2) - 1 /\ l + 1 \in 1 .. n /\ \A j \in 1 .. l : j \in 1 .. n
      BY <2>2, <2>3 DEF n
    <3>2. d2[l + 1] = 0 /\ \A j \in 1 .. l : d2[j] # 0
      BY <2>2, <2>4, <3>1
    <3>. QED
      BY <3>1, <3>2, StrLenIs
  <2>6. \A k \in l + 1 .. n : d2[k] = 0
    BY <2>1, <2>2, <2>3, <2>4
  <2>7. n <= Len(d2) /\ Message!ArgSize(t, d2) = n /\ t # Message!B
    BY <1>2, <2>1, <2>5, ArgSizes DEF n, Message!S, Message!B
  <2>. QED
    BY <1>0, <2>5, <2>6, <2>7 DEF IsArg, n
<1>3. CASE t = Message!B
  <2> DEFINE b == Message!Number(d)
  <2>1. 4 <= Len(d) /\ n = Message!BlobSize(b) /\ \A k \in 4 + b + 1 .. n : d[k] = 0
    BY <1>3, ArgSizes DEF IsArg
  <2>2. b \in Nat
    BY <2>1, NumberFacts
  <2>3. n \in Nat /\ 4 + b <= n
    BY <2>1, <2>2, BlobSizeFacts, Zenon
  <2>. HIDE DEF n, b
  <2>4. \A j \in 1 .. n : d2[j] = d[j]
    BY DEF n
  <2>5. Message!Number(d2) = b
    <3>1. d2[1] = d[1] /\ d2[2] = d[2] /\ d2[3] = d[3] /\ d2[4] = d[4]
      BY <2>2, <2>3, <2>4
    <3>. QED
      BY <3>1, SameNumber DEF b
  <2>6. \A k \in 4 + b + 1 .. n : d2[k] = 0
    BY <2>1, <2>2, <2>4
  <2>7. n <= Len(d2) /\ 4 <= Len(d2) /\ Message!ArgSize(t, d2) = n /\ t # Message!S
    BY <1>3, <2>1, <2>2, <2>3, <2>5, ArgSizes DEF n, Message!S, Message!B
  <2>. QED
    BY <1>0, <2>5, <2>6, <2>7 DEF IsArg, n
<1>. QED
  BY <1>0, <1>1, <1>2, <1>3, TypeKinds

-----------------------------------------------------------------------------
(* Arguments one after the other, and what swapping them does.             *)

Spans(types, e, n) ==
  /\ Len(types) \in Nat \ {0} /\ n \in Nat
  /\ e \in [0 .. Len(types) - 1 -> 0 .. n]
  /\ e[0] = 0 /\ e[Len(types) - 1] = n
  /\ \A k \in 1 .. Len(types) - 1 : e[k - 1] <= e[k] /\ Wide(types[k + 1], e[k] - e[k - 1])

(* Where arguments end are places in the data.                             *)
LEMMA SpansType ==
  ASSUME NEW types, NEW e, NEW n, Spans(types, e, n)
  PROVE  n \in Nat /\ \A k \in 0 .. Len(types) - 1 : e[k] \in 0 .. n /\ e[k] \in Nat
<1>1. n \in Nat /\ e \in [0 .. Len(types) - 1 -> 0 .. n]
  BY DEF Spans
<1>2. \A k \in 0 .. Len(types) - 1 : e[k] \in 0 .. n
  BY <1>1
<1>. QED
  BY <1>1, <1>2

(* Arguments end one after the other.                                      *)
LEMMA SpansMonotone ==
  ASSUME NEW types, NEW e, NEW n, Spans(types, e, n),
         NEW i \in 0 .. Len(types) - 1, NEW j \in 0 .. Len(types) - 1, i <= j
  PROVE  e[i] <= e[j]
<1> DEFINE D == {d \in Nat : i + d <= Len(types) - 1 => e[i] <= e[i + d]}
<1>0. \A k \in 0 .. Len(types) - 1 : e[k] \in Nat
  BY SpansType
<1>1. 0 \in D
  BY <1>0
<1>2. ASSUME NEW d \in Nat, d \in D PROVE d + 1 \in D
  <2>. SUFFICES ASSUME i + (d + 1) <= Len(types) - 1 PROVE e[i] <= e[i + (d + 1)]
    OBVIOUS
  <2>1. /\ i + d \in 0 .. Len(types) - 1 /\ i + (d + 1) \in 1 .. Len(types) - 1
        /\ (i + (d + 1)) - 1 = i + d
    BY DEF Spans
  <2>2. e[i] <= e[i + d]
    BY <1>2, <2>1
  <2>3. e[i + d] <= e[i + (d + 1)]
    BY <2>1 DEF Spans
  <2>4. e[i] \in Nat /\ e[i + d] \in Nat /\ e[i + (d + 1)] \in Nat
    BY <1>0, <2>1
  <2>. QED
    BY <2>2, <2>3, <2>4
<1>3. j - i \in Nat /\ i + (j - i) = j
  OBVIOUS
<1>4. j - i \in D
  <2>. HIDE DEF D
  <2>. QED
    BY <1>1, <1>2, <1>3, SetInduction, Zenon
<1>. QED
  BY <1>3, <1>4 DEF Spans

(* Every byte belongs to one argument.                                     *)
LEMMA SpansCover ==
  ASSUME NEW types, NEW e, NEW n, Spans(types, e, n), NEW i \in 1 .. n
  PROVE  \E k \in 1 .. Len(types) - 1 : e[k - 1] < i /\ i <= e[k]
<1> DEFINE K == {k \in 0 .. Len(types) - 1 : i <= e[k]}
<1>1. Len(types) - 1 \in K
  BY DEF Spans
<1>2. K \in SUBSET Nat
  OBVIOUS
<1>3. PICK k \in K : \A l \in K : k <= l
  BY <1>1, <1>2, NatLeast, Zenon
<1>4. k \in 1 .. Len(types) - 1
  BY <1>3 DEF Spans
<1>5. k - 1 \in 0 .. Len(types) - 1 /\ ~ (k <= k - 1)
  BY <1>4
<1>6. ~ (i <= e[k - 1])
  BY <1>3, <1>5
<1>7. e[k - 1] \in Nat
  BY <1>5 DEF Spans
<1>. QED
  BY <1>3, <1>4, <1>6, <1>7

(* The origin of a byte lies in its own argument, mirrored there.          *)
LEMMA OriginIs ==
  ASSUME NEW types, NEW e, NEW n, Spans(types, e, n),
         NEW k \in 1 .. Len(types) - 1, NEW j \in 1 .. e[k] - e[k - 1]
  PROVE  Message!Origin(types, e, e[k - 1] + j) =
           e[k - 1] + Message!Mirrored(types[k + 1], j)
<1> DEFINE i == e[k - 1] + j
           at == {l \in 1 .. Len(types) - 1 : e[l - 1] < i /\ i <= e[l]}
<1>0. \A l \in 0 .. Len(types) - 1 : e[l] \in Nat
  BY SpansType
<1>1. k - 1 \in 0 .. Len(types) - 1 /\ k \in 0 .. Len(types) - 1
  BY DEF Spans
<1>2. e[k - 1] \in Nat /\ e[k] \in Nat
  BY <1>0, <1>1
<1>3. i \in Nat /\ e[k - 1] < i /\ i <= e[k] /\ i - e[k - 1] = j
  BY <1>2
<1>. HIDE DEF i
<1>4. ASSUME NEW l \in at PROVE l = k
  <2>1. /\ l \in 1 .. Len(types) - 1 /\ l - 1 \in 0 .. Len(types) - 1
        /\ l \in 0 .. Len(types) - 1 /\ e[l - 1] < i /\ i <= e[l]
    BY DEF Spans
  <2>2. e[l - 1] \in Nat /\ e[l] \in Nat
    BY <1>0, <2>1
  <2>3. ~ (l <= k - 1)
    <3>1. l <= k - 1 => e[l] <= e[k - 1]
      BY <1>1, <2>1, SpansMonotone
    <3>. QED
      BY <1>2, <1>3, <2>1, <2>2, <3>1
  <2>4. ~ (k <= l - 1)
    <3>1. k <= l - 1 => e[k] <= e[l - 1]
      BY <1>1, <2>1, SpansMonotone
    <3>. QED
      BY <1>2, <1>3, <2>1, <2>2, <3>1
  <2>. QED
    BY <1>1, <2>1, <2>3, <2>4 DEF Spans
<1>5. k \in at
  BY <1>3
<1>6. at = {k}
  BY <1>4, <1>5, Zenon
<1>. HIDE DEF at
<1>7. (CHOOSE l \in at : TRUE) = k /\ at # {}
  BY <1>6
<1>8. Message!Origin(types, e, i) = e[k - 1] + Message!Mirrored(types[k + 1], i - e[k - 1])
  BY <1>7, Zenon DEF Message!Origin, at
<1>. QED
  BY <1>3, <1>8 DEF i

(* Where a byte comes from is where it goes to.                            *)
LEMMA OriginFacts ==
  ASSUME NEW types, NEW e, NEW n, Spans(types, e, n), NEW i \in 1 .. n
  PROVE  /\ Message!Origin(types, e, i) \in 1 .. n
         /\ Message!Origin(types, e, Message!Origin(types, e, i)) = i
<1>1. PICK k \in 1 .. Len(types) - 1 : e[k - 1] < i /\ i <= e[k]
  BY SpansCover
<1>2. k - 1 \in 0 .. Len(types) - 1 /\ k \in 0 .. Len(types) - 1
  BY <1>1 DEF Spans
<1>3. e[k - 1] \in 0 .. n /\ e[k] \in 0 .. n /\ n \in Nat
  BY <1>2, SpansType
<1> DEFINE size == e[k] - e[k - 1]
           t == types[k + 1]
           j == i - e[k - 1]
           l == Message!Mirrored(t, j)
<1>4. j \in 1 .. size /\ e[k - 1] + j = i
  BY <1>1, <1>3
<1>5. Wide(t, size)
  BY <1>1 DEF Spans
<1>. HIDE DEF t, j
<1>6. l \in 1 .. size /\ Message!Mirrored(t, l) = j
  BY <1>4, <1>5, MirroredTwice
<1>. HIDE DEF l
<1>7. Message!Origin(types, e, i) = e[k - 1] + l
  BY <1>4, OriginIs DEF l, t
<1>8. Message!Origin(types, e, e[k - 1] + l) = e[k - 1] + Message!Mirrored(t, l)
  BY <1>6, OriginIs DEF t
<1>9. e[k - 1] + l \in 1 .. n
  BY <1>3, <1>6
<1>10. Message!Origin(types, e, e[k - 1] + l) = i
  BY <1>4, <1>6, <1>8, Zenon
<1>. QED
  BY <1>7, <1>9, <1>10, Zenon

(* Swapping the bytes twice gives the data back.                           *)
LEMMA SwapFacts ==
  ASSUME NEW types, NEW e, NEW d \in Seq(Bytes), Spans(types, e, Len(d))
  PROVE  /\ Message!SwapEndian(types, e, d) \in Seq(Bytes)
         /\ Len(Message!SwapEndian(types, e, d)) = Len(d)
         /\ Message!SwapEndian(types, e, Message!SwapEndian(types, e, d)) = d
         /\ \A k \in 1 .. Len(types) - 1 : \A j \in 1 .. e[k] - e[k - 1] :
              Message!SwapEndian(types, e, d)[e[k - 1] + j] =
                d[e[k - 1] + Message!Mirrored(types[k + 1], j)]
<1> DEFINE N == Len(d)
           s == Message!SwapEndian(types, e, d)
           O(i) == Message!Origin(types, e, i)
<1>1. N \in Nat /\ \A i \in 1 .. N : d[i] \in Bytes
  OBVIOUS
<1>2. s = [i \in 1 .. N |-> d[O(i)]]
  BY DEF Message!SwapEndian
<1>3. \A i \in 1 .. N : O(i) \in 1 .. N /\ O(O(i)) = i
  BY OriginFacts
<1>. HIDE DEF O
<1>4. s \in [1 .. N -> Bytes]
  BY <1>1, <1>2, <1>3
<1>5. s \in Seq(Bytes) /\ Len(s) = N
  <2>1. \A f \in [1 .. N -> Bytes] : f \in Seq(Bytes) /\ Len(f) = N
    BY <1>1, FunctionIsSeq
  <2>. QED
    BY <1>4, <2>1, Zenon
<1>6. \A i \in 1 .. N : s[i] = d[O(i)]
  BY <1>2
<1>. HIDE DEF s
<1>7. Message!SwapEndian(types, e, s) = [i \in 1 .. N |-> s[O(i)]]
  BY <1>5 DEF Message!SwapEndian, O
<1>8. \A i \in 1 .. N : s[O(i)] = d[i]
  BY <1>3, <1>6
<1>9. [i \in 1 .. N |-> s[O(i)]] = d
  BY <1>8
<1>10. ASSUME NEW k \in 1 .. Len(types) - 1, NEW j \in 1 .. e[k] - e[k - 1]
       PROVE  s[e[k - 1] + j] = d[e[k - 1] + Message!Mirrored(types[k + 1], j)]
  <2>1. k - 1 \in 0 .. Len(types) - 1 /\ k \in 0 .. Len(types) - 1
    BY DEF Spans
  <2>2. e[k - 1] \in 0 .. N /\ e[k] \in 0 .. N
    BY <2>1, Zenon DEF Spans
  <2>3. e[k - 1] + j \in 1 .. N
    BY <2>2
  <2>. QED
    BY <1>6, <2>3, OriginIs DEF O
<1>. QED
  BY <1>5, <1>7, <1>9, <1>10 DEF s

(* The same where each argument lies in host order.                        *)
Laid(types, d, e) ==
  /\ Len(types) \in Nat \ {0}
  /\ e \in [0 .. Len(types) - 1 -> 0 .. Len(d)]
  /\ e[0] = 0 /\ e[Len(types) - 1] = Len(d)
  /\ \A k \in 1 .. Len(types) - 1 :
       /\ IsArg(types[k + 1], Message!Rest(d, e[k - 1]))
       /\ e[k] = e[k - 1] + Message!ArgSize(types[k + 1], Message!Rest(d, e[k - 1]))

(* What follows an argument are bytes of the data.                         *)
LEMMA LaidType ==
  ASSUME NEW types, NEW d \in Seq(Bytes), NEW e, Laid(types, d, e)
  PROVE  \A k \in 0 .. Len(types) - 1 :
           /\ e[k] \in 0 .. Len(d) /\ e[k] \in Nat
           /\ Message!Rest(d, e[k]) \in Seq(Bytes)
           /\ Len(Message!Rest(d, e[k])) = Len(d) - e[k]
           /\ \A j \in 1 .. Len(d) - e[k] : Message!Rest(d, e[k])[j] = d[e[k] + j]
<1>1. e \in [0 .. Len(types) - 1 -> 0 .. Len(d)]
  BY DEF Laid
<1>. SUFFICES ASSUME NEW k \in 0 .. Len(types) - 1
              PROVE  /\ e[k] \in 0 .. Len(d) /\ e[k] \in Nat
                     /\ Message!Rest(d, e[k]) \in Seq(Bytes)
                     /\ Len(Message!Rest(d, e[k])) = Len(d) - e[k]
                     /\ \A j \in 1 .. Len(d) - e[k] : Message!Rest(d, e[k])[j] = d[e[k] + j]
  OBVIOUS
<1>2. e[k] \in 0 .. Len(d)
  BY <1>1
<1>3. \A a \in 0 .. Len(d) :
        /\ Message!Rest(d, a) \in Seq(Bytes) /\ Len(Message!Rest(d, a)) = Len(d) - a
        /\ \A j \in 1 .. Len(d) - a : Message!Rest(d, a)[j] = d[a + j]
  BY RestFacts, Zenon
<1>4. e[k] \in Nat
  BY <1>2
<1>. QED
  BY <1>2, <1>3, <1>4, Zenon

(* Arguments that are laid out in the data span them.                      *)
LEMMA LaidSpans ==
  ASSUME NEW types, NEW d \in Seq(Bytes), NEW e, Laid(types, d, e)
  PROVE  Spans(types, e, Len(d))
<1>1. ASSUME NEW k \in 1 .. Len(types) - 1
      PROVE  e[k - 1] <= e[k] /\ Wide(types[k + 1], e[k] - e[k - 1])
  <2> DEFINE r == Message!Rest(d, e[k - 1])
             size == Message!ArgSize(types[k + 1], r)
  <2>1. k - 1 \in 0 .. Len(types) - 1 /\ k \in 0 .. Len(types) - 1
    BY DEF Laid
  <2>2. r \in Seq(Bytes) /\ e[k - 1] \in Nat
    BY <2>1, LaidType
  <2>3. IsArg(types[k + 1], r) /\ e[k] = e[k - 1] + size
    BY DEF Laid
  <2>4. size \in Nat /\ Wide(types[k + 1], size)
    BY <2>2, <2>3, ArgFacts
  <2>. HIDE DEF size
  <2>5. e[k - 1] <= e[k] /\ e[k] - e[k - 1] = size
    BY <2>2, <2>3, <2>4
  <2>. QED
    BY <2>4, <2>5
<1>2. Len(d) \in Nat
  OBVIOUS
<1>. QED
  BY <1>1, <1>2 DEF Laid, Spans

(* Two functions that one rule determines step by step are one.            *)
LEMMA LaidEnds ==
  ASSUME NEW types, NEW d \in Seq(Bytes), NEW e, Laid(types, d, e)
  PROVE  Message!Ends(types, d) = e
<1> DEFINE N == Len(types) - 1
           Size(k, a) == Message!ArgSize(types[k + 1], Message!Rest(d, a))
           u == Message!Ends(types, d)
<1>1. N \in Nat /\ e[0] = 0 /\ \A k \in 1 .. N : e[k] = e[k - 1] + Size(k, e[k - 1])
  BY DEF Laid
<1>2. e \in [0 .. N -> 0 .. Len(d)]
  BY DEF Laid
<1>. HIDE DEF N, Size
<1>3. e = [k \in 0 .. N |-> IF k = 0 THEN 0 ELSE e[k - 1] + Size(k, e[k - 1])]
  <2>1. \A k \in 0 .. N : k = 0 \/ k \in 1 .. N
    BY <1>1
  <2>2. \A k \in 0 .. N : e[k] = IF k = 0 THEN 0 ELSE e[k - 1] + Size(k, e[k - 1])
    BY <1>1, <2>1
  <2>. QED
    BY <1>2, <2>2
<1>4. u = [k \in 0 .. N |-> IF k = 0 THEN 0 ELSE u[k - 1] + Size(k, u[k - 1])]
  <2>1. u = CHOOSE f : f = [k \in 0 .. N |->
                             IF k = 0 THEN 0 ELSE f[k - 1] + Size(k, f[k - 1])]
    BY DEF Message!Ends, N, Size
  <2>2. \E f : f = [k \in 0 .. N |-> IF k = 0 THEN 0 ELSE f[k - 1] + Size(k, f[k - 1])]
    BY <1>3, Zenon
  <2>. HIDE DEF u
  <2>. QED
    BY <2>1, <2>2, Zenon
<1>. HIDE DEF u
<1>5. u[0] = 0 /\ \A k \in 1 .. N : u[k] = u[k - 1] + Size(k, u[k - 1])
  BY <1>1, <1>4
<1> DEFINE S == {k \in Nat : k <= N => u[k] = e[k]}
<1>6. 0 \in S
  BY <1>1, <1>5
<1>7. ASSUME NEW k \in Nat, k \in S PROVE k + 1 \in S
  <2>. SUFFICES ASSUME k + 1 <= N PROVE u[k + 1] = e[k + 1]
    OBVIOUS
  <2>1. k + 1 \in 1 .. N /\ (k + 1) - 1 = k /\ u[k] = e[k]
    BY <1>1, <1>7
  <2>2. u[k + 1] = u[k] + Size(k + 1, u[k]) /\ e[k + 1] = e[k] + Size(k + 1, e[k])
    BY <1>1, <1>5, <2>1
  <2>. QED
    BY <2>1, <2>2
<1>8. \A k \in Nat : k \in S
  <2>. HIDE DEF S
  <2>. QED
    BY <1>6, <1>7, SetInduction
<1>9. \A k \in 0 .. N : u[k] = e[k]
  BY <1>8
<1>10. u = e
  BY <1>2, <1>4, <1>9
<1>. QED
  BY <1>10 DEF u

(* The rule of lo_message_deserialise's loop, from where an argument       *)
(* starts.                                                                 *)
ArgAfter(types, d, k, a) ==
  LET len == Message!ValidateArg(types[k + 1], Message!Rest(d, a))
  IN  IF a = Message!Bad \/ len = Message!Bad THEN Message!Bad ELSE a + len

(* ValidEnds is the only function with its recursion.                      *)
LEMMA ValidEndsAre ==
  ASSUME NEW types, NEW d, NEW e, NEW X, Len(types) \in Nat \ {0},
         e \in [0 .. Len(types) - 1 -> X],
         e[0] = 0, \A k \in 1 .. Len(types) - 1 : e[k] = ArgAfter(types, d, k, e[k - 1])
  PROVE  Message!ValidEnds(types, d) = e
<1> DEFINE N == Len(types) - 1
           u == Message!ValidEnds(types, d)
<1>1. N \in Nat /\ e[0] = 0 /\ \A k \in 1 .. N : e[k] = ArgAfter(types, d, k, e[k - 1])
  OBVIOUS
<1>2. e \in [0 .. N -> X]
  OBVIOUS
<1>. HIDE DEF N
<1>3. e = [k \in 0 .. N |-> IF k = 0 THEN 0 ELSE ArgAfter(types, d, k, e[k - 1])]
  <2>1. \A k \in 0 .. N : k = 0 \/ k \in 1 .. N
    BY <1>1
  <2>2. \A k \in 0 .. N : e[k] = IF k = 0 THEN 0 ELSE ArgAfter(types, d, k, e[k - 1])
    BY <1>1, <2>1
  <2>. QED
    BY <1>2, <2>2, Zenon
<1>4. u = [k \in 0 .. N |-> IF k = 0 THEN 0 ELSE ArgAfter(types, d, k, u[k - 1])]
  <2>1. u = CHOOSE f : f = [k \in 0 .. N |-> IF k = 0 THEN 0 ELSE ArgAfter(types, d, k, f[k - 1])]
    BY DEF Message!ValidEnds, N, ArgAfter
  <2>2. \E f : f = [k \in 0 .. N |-> IF k = 0 THEN 0 ELSE ArgAfter(types, d, k, f[k - 1])]
    BY <1>3, Zenon
  <2>. HIDE DEF u
  <2>. QED
    BY <2>1, <2>2, Zenon
<1>. HIDE DEF u
<1>5. u[0] = 0 /\ \A k \in 1 .. N : u[k] = ArgAfter(types, d, k, u[k - 1])
  BY <1>1, <1>4
<1> DEFINE S == {k \in Nat : k <= N => u[k] = e[k]}
<1>6. 0 \in S
  BY <1>1, <1>5
<1>7. ASSUME NEW k \in Nat, k \in S PROVE k + 1 \in S
  <2>. SUFFICES ASSUME k + 1 <= N PROVE u[k + 1] = e[k + 1]
    OBVIOUS
  <2>1. k + 1 \in 1 .. N /\ (k + 1) - 1 = k /\ u[k] = e[k]
    BY <1>1, <1>7
  <2>2. u[k + 1] = ArgAfter(types, d, k + 1, u[k]) /\ e[k + 1] = ArgAfter(types, d, k + 1, e[k])
    BY <1>1, <1>5, <2>1
  <2>. QED
    BY <2>1, <2>2
<1>8. \A k \in Nat : k \in S
  <2>. HIDE DEF S
  <2>. QED
    BY <1>6, <1>7, SetInduction
<1>9. \A k \in 0 .. N : u[k] = e[k]
  BY <1>8
<1>10. e = [k \in 0 .. N |-> e[k]] /\ u = [k \in 0 .. N |-> u[k]]
  BY <1>3, <1>4, Zenon
<1>11. u = e
  BY <1>9, <1>10
<1>. QED
  BY <1>11 DEF u

(* A valid argument has a known type and lies in the data.                 *)
LEMMA ValidRange ==
  ASSUME NEW t, NEW d \in Seq(Bytes), Message!ValidateArg(t, d) # Message!Bad
  PROVE  /\ t \in Message!Types /\ Message!ValidateArg(t, d) \in 0 .. Len(d)
         /\ Wide(t, Message!ValidateArg(t, d))
<1> DEFINE n == Message!ValidateArg(t, d)
<1>0. t \in Message!Types
  BY ValidSizes
<1>1. CASE t \in Message!Sizeless \/ t \in Message!OneWord \/ t \in Message!TwoWords
  <2>1. n \in Nat /\ n <= Len(d)
    BY <1>1, ValidSizes
  <2>2. t # Message!B
    BY <1>1 DEF Message!Sizeless, Message!OneWord, Message!TwoWords, Message!T,
       Message!I, Message!M, Message!H, Message!TT, Message!B
  <2>3. t = Message!I => n = 4
    BY ValidSizes DEF Message!OneWord
  <2>4. t \in {Message!H, Message!TT} => n = 8
    BY ValidSizes DEF Message!TwoWords
  <2>. QED
    BY <1>0, <2>1, <2>2, <2>3, <2>4 DEF Wide
<1>2. CASE t = Message!S
  <2>1. n = Message!ValidateString(d)
    BY <1>2, ValidSizes
  <2>2. Message!Zero(d) # {} /\ n = Message!StrSize(Message!StrLen(d)) /\ n <= Len(d)
    BY <2>1, ValidString
  <2>3. Message!StrLen(d) \in Nat
    BY <2>2, StrLenFacts
  <2>4. n \in Nat
    BY <2>2, <2>3, StrSizeFacts
  <2>. QED
    BY <1>0, <1>2, <2>2, <2>4 DEF Wide, Message!S, Message!I, Message!B, Message!H, Message!TT
<1>3. CASE t = Message!B
  <2>1. n = Message!ValidateBlob(d)
    BY <1>3, ValidSizes
  <2> DEFINE e == [j \in 1 .. 4 |-> d[5 - j]]
             b == Message!Number(e)
  <2>2. b \in Nat /\ n = Message!BlobSize(b) /\ n <= Len(d)
    <3>1. \A j \in 1 .. 4 : e[j] = d[5 - j]
      OBVIOUS
    <3>. HIDE DEF e
    <3>2. Message!ValidateBlob(d) # Message!Bad
      BY <2>1
    <3>. QED
      BY <2>1, <3>1, <3>2, ValidBlob
  <2>3. n \in Nat /\ 4 + b <= n
    BY <2>2, BlobSizeFacts, Zenon
  <2>. HIDE DEF b
  <2>4. 4 <= n /\ n \in 0 .. Len(d)
    BY <2>2, <2>3
  <2>. QED
    BY <1>0, <1>3, <2>4 DEF Wide, Message!I, Message!B, Message!H, Message!TT
<1>. QED
  BY <1>0, <1>1, <1>2, <1>3, TypeKinds

(* What lo_message_deserialise accepts has arguments one after the other.  *)
LEMMA ValidEndsFacts ==
  ASSUME NEW types, Len(types) \in Nat \ {0}, NEW d \in Seq(Bytes),
         Message!ValidEnds(types, d)[Len(types) - 1] = Len(d)
  PROVE  /\ Spans(types, Message!ValidEnds(types, d), Len(d))
         /\ \A k \in 1 .. Len(types) - 1 :
              LET v == Message!ValidEnds(types, d)
                  len == Message!ValidateArg(types[k + 1], Message!Rest(d, v[k - 1]))
              IN  /\ types[k + 1] \in Message!Types /\ len # Message!Bad
                  /\ v[k] = v[k - 1] + len
<1> DEFINE N == Len(types) - 1
           X == {Message!Bad} \cup 0 .. Len(d)
           s == [k \in 1 .. N |-> [a \in X |-> ArgAfter(types, d, k, a)]]
           v == Message!ValidEnds(types, d)
<1>0. N \in Nat /\ Len(d) \in Nat
  OBVIOUS
<1>1. ASSUME NEW k \in 1 .. N, NEW a \in X PROVE ArgAfter(types, d, k, a) \in X
  <2> DEFINE len == Message!ValidateArg(types[k + 1], Message!Rest(d, a))
  <2>1. CASE a = Message!Bad \/ len = Message!Bad
    BY <2>1 DEF ArgAfter
  <2>2. CASE ~ (a = Message!Bad \/ len = Message!Bad)
    <3>1. a \in 0 .. Len(d)
      BY <2>2
    <3>2. Message!Rest(d, a) \in Seq(Bytes) /\ Len(Message!Rest(d, a)) = Len(d) - a
      BY <3>1, RestFacts
    <3>3. len \in 0 .. Len(d) - a
      BY <2>2, <3>2, ValidRange
    <3>4. ArgAfter(types, d, k, a) = a + len
      BY <2>2, Zenon DEF ArgAfter
    <3>. HIDE DEF len
    <3>5. a + len \in 0 .. Len(d)
      BY <1>0, <3>1, <3>3
    <3>. QED
      BY <3>4, <3>5
  <2>. QED
    BY <2>1, <2>2
<1>2. s \in [1 .. N -> [X -> X]] /\ 0 \in X
  BY <1>0, <1>1
<1>. HIDE DEF X
<1>3. PICK f \in [0 .. N -> X] : f[0] = 0 /\ \A k \in 1 .. N : f[k] = s[k][f[k - 1]]
  <2>. HIDE DEF s, N
  <2>1. \E f : Follows(f, N, X, 0, s)
    BY <1>0, <1>2, Recursion
  <2>. QED
    BY <2>1, Zenon DEF Follows
<1>4. \A k \in 1 .. N : f[k] = ArgAfter(types, d, k, f[k - 1])
  <2>. SUFFICES ASSUME NEW k \in 1 .. N PROVE f[k] = ArgAfter(types, d, k, f[k - 1])
    OBVIOUS
  <2>1. f[k - 1] \in X
    BY <1>0, <1>3
  <2>. QED
    BY <1>3, <2>1, Zenon
<1>. HIDE DEF s
<1>5. v = f
  BY <1>3, <1>4, ValidEndsAre, Zenon
<1>. HIDE DEF v
<1>6. \A k \in 0 .. N : v[k] = Message!Bad \/ v[k] \in 0 .. Len(d)
  BY <1>3, <1>5 DEF X
<1>7. v[0] = 0 /\ v[N] = Len(d) /\ \A k \in 1 .. N : v[k] = ArgAfter(types, d, k, v[k - 1])
  BY <1>3, <1>4, <1>5 DEF v
<1>8. \A k \in 0 .. N : v[k] # Message!Bad
  <2> DEFINE S == {m \in Nat : m <= N => v[N - m] # Message!Bad}
  <2>1. 0 \in S
    BY <1>0, <1>7 DEF Message!Bad
  <2>2. ASSUME NEW m \in Nat, m \in S PROVE m + 1 \in S
    <3>. SUFFICES ASSUME m + 1 <= N, v[N - (m + 1)] = Message!Bad PROVE FALSE
      OBVIOUS
    <3>1. N - m \in 1 .. N /\ (N - m) - 1 = N - (m + 1) /\ v[N - m] # Message!Bad
      BY <1>0, <2>2
    <3>. HIDE DEF N
    <3>2. v[N - m] = ArgAfter(types, d, N - m, v[N - (m + 1)])
      BY <1>7, <3>1
    <3>. QED
      BY <3>1, <3>2 DEF ArgAfter
  <2>3. \A m \in Nat : m \in S
    <3>. HIDE DEF S
    <3>. QED
      BY <2>1, <2>2, SetInduction
  <2>4. \A k \in 0 .. N : N - k \in Nat /\ N - k <= N /\ N - (N - k) = k
    BY <1>0
  <2>. HIDE DEF N
  <2>. QED
    BY <2>3, <2>4
<1>9. ASSUME NEW k \in 1 .. N
      PROVE  LET len == Message!ValidateArg(types[k + 1], Message!Rest(d, v[k - 1]))
             IN  /\ types[k + 1] \in Message!Types /\ len # Message!Bad
                 /\ v[k] = v[k - 1] + len
                 /\ v[k - 1] <= v[k] /\ Wide(types[k + 1], v[k] - v[k - 1])
  <2> DEFINE len == Message!ValidateArg(types[k + 1], Message!Rest(d, v[k - 1]))
  <2>1. k - 1 \in 0 .. N /\ k \in 0 .. N
    BY <1>0
  <2>2. v[k - 1] \in 0 .. Len(d) /\ v[k] # Message!Bad /\ v[k - 1] # Message!Bad
    BY <1>6, <1>8, <2>1
  <2>3. v[k] = IF v[k - 1] = Message!Bad \/ len = Message!Bad THEN Message!Bad ELSE v[k - 1] + len
    BY <1>7, Zenon DEF ArgAfter
  <2>4. len # Message!Bad /\ v[k] = v[k - 1] + len
    BY <2>2, <2>3
  <2>5. Message!Rest(d, v[k - 1]) \in Seq(Bytes)
    BY <2>2, RestFacts
  <2>6. types[k + 1] \in Message!Types /\ len \in Nat /\ Wide(types[k + 1], len)
    BY <2>4, <2>5, ValidRange
  <2>. HIDE DEF len
  <2>7. v[k - 1] <= v[k] /\ v[k] - v[k - 1] = len
    BY <2>2, <2>4, <2>6
  <2>. QED
    BY <2>4, <2>6, <2>7 DEF len
<1>10. v \in [0 .. N -> 0 .. Len(d)]
  <2>1. v \in [0 .. N -> X]
    BY <1>3, <1>5
  <2>2. \A k \in 0 .. N : v[k] \in 0 .. Len(d)
    BY <1>6, <1>8
  <2>. QED
    BY <2>1, <2>2
<1>11. Spans(types, v, Len(d))
  BY <1>0, <1>7, <1>9, <1>10 DEF Spans
<1>. QED
  BY <1>9, <1>11 DEF v

(* Validated data hold, once swapped, the arguments of their types.        *)
LEMMA HostLaid ==
  ASSUME NEW types, Len(types) \in Nat \ {0}, NEW d \in Seq(Bytes),
         Message!ValidEnds(types, d)[Len(types) - 1] = Len(d)
  PROVE  Laid(types, Message!SwapEndian(types, Message!ValidEnds(types, d), d),
              Message!ValidEnds(types, d))
<1> DEFINE v == Message!ValidEnds(types, d)
           s == Message!SwapEndian(types, v, d)
           N == Len(types) - 1
<1>1. Spans(types, v, Len(d))
  BY ValidEndsFacts
<1>2. \A k \in 1 .. N :
        LET len == Message!ValidateArg(types[k + 1], Message!Rest(d, v[k - 1]))
        IN  len # Message!Bad /\ v[k] = v[k - 1] + len
  BY ValidEndsFacts
<1>. HIDE DEF v
<1>3. /\ s \in Seq(Bytes) /\ Len(s) = Len(d)
      /\ \A k \in 1 .. N : \A j \in 1 .. v[k] - v[k - 1] :
           s[v[k - 1] + j] = d[v[k - 1] + Message!Mirrored(types[k + 1], j)]
  BY <1>1, SwapFacts
<1>. HIDE DEF s
<1>4. ASSUME NEW k \in 1 .. N
      PROVE  /\ IsArg(types[k + 1], Message!Rest(s, v[k - 1]))
             /\ v[k] = v[k - 1] + Message!ArgSize(types[k + 1], Message!Rest(s, v[k - 1]))
  <2> DEFINE t == types[k + 1]
             a == v[k - 1]
             r == Message!Rest(d, a)
             r2 == Message!Rest(s, a)
             len == Message!ValidateArg(t, r)
  <2>1. k - 1 \in 0 .. N /\ k \in 0 .. N
    BY DEF Spans
  <2>2. a \in 0 .. Len(d) /\ a \in Nat /\ v[k] \in Nat /\ Len(d) \in Nat
    BY <1>1, <2>1, SpansType
  <2>3. /\ r \in Seq(Bytes) /\ Len(r) = Len(d) - a
        /\ \A j \in 1 .. Len(d) - a : r[j] = d[a + j]
    BY <2>2, RestFacts, Zenon
  <2>4. /\ r2 \in Seq(Bytes) /\ Len(r2) = Len(d) - a
        /\ \A j \in 1 .. Len(d) - a : r2[j] = s[a + j]
    <3>1. s \in Seq(Bytes) /\ Len(s) = Len(d) /\ a \in 0 .. Len(s)
      BY <1>3, <2>2
    <3>2. /\ r2 \in Seq(Bytes) /\ Len(r2) = Len(s) - a
          /\ \A j \in 1 .. Len(s) - a : r2[j] = s[a + j]
      BY <3>1, RestFacts, Zenon
    <3>. QED
      BY <3>1, <3>2, Zenon
  <2>5. len # Message!Bad /\ v[k] = a + len
    BY <1>2
  <2>6. len \in 0 .. Len(r) /\ Wide(t, len)
    BY <2>3, <2>5, ValidRange
  <2>. HIDE DEF t, a, r, r2, len
  <2>7. v[k] - a = len
    BY <2>2, <2>5, <2>6
  <2>8. ASSUME NEW j \in 1 .. len PROVE r2[j] = r[Message!Mirrored(t, j)]
    <3>1. Message!Mirrored(t, j) \in 1 .. len
      BY <2>6, MirroredTwice
    <3>2. j \in 1 .. Len(d) - a /\ Message!Mirrored(t, j) \in 1 .. Len(d) - a
      BY <2>2, <2>3, <2>6, <3>1
    <3>3. s[a + j] = d[a + Message!Mirrored(t, j)]
      BY <1>3, <2>7 DEF a, t
    <3>. QED
      BY <2>3, <2>4, <3>2, <3>3
  <2>9. Len(r) <= Len(r2)
    BY <2>2, <2>3, <2>4
  <2>10. IsArg(t, r2) /\ Message!ArgSize(t, r2) = len
    BY <2>3, <2>4, <2>5, <2>8, <2>9, HostFromNetwork, Zenon DEF len
  <2>. QED
    BY <2>5, <2>10 DEF t, a, r2
<1>. QED
  BY <1>1, <1>3, <1>4 DEF Laid, Spans, s, v

(* The arguments of a message are valid in the network's order.            *)
LEMMA NetworkValid ==
  ASSUME NEW types, NEW d \in Seq(Bytes), NEW e, Laid(types, d, e)
  PROVE  Message!ValidEnds(types, Message!SwapEndian(types, e, d)) = e
<1> DEFINE s == Message!SwapEndian(types, e, d)
           N == Len(types) - 1
<1>1. Spans(types, e, Len(d))
  BY LaidSpans
<1>2. /\ s \in Seq(Bytes) /\ Len(s) = Len(d)
      /\ \A k \in 1 .. N : \A j \in 1 .. e[k] - e[k - 1] :
           s[e[k - 1] + j] = d[e[k - 1] + Message!Mirrored(types[k + 1], j)]
  BY <1>1, SwapFacts
<1>. HIDE DEF s
<1>3. ASSUME NEW k \in 1 .. N PROVE e[k] = ArgAfter(types, s, k, e[k - 1])
  <2> DEFINE t == types[k + 1]
             a == e[k - 1]
             r == Message!Rest(d, a)
             r2 == Message!Rest(s, a)
             n == Message!ArgSize(t, r)
  <2>1. k - 1 \in 0 .. N /\ k \in 0 .. N
    BY DEF Laid
  <2>2. a \in 0 .. Len(d) /\ a \in Nat /\ e[k] \in Nat /\ Len(d) \in Nat
    BY <1>1, <2>1, SpansType
  <2>3. /\ r \in Seq(Bytes) /\ Len(r) = Len(d) - a
        /\ \A j \in 1 .. Len(d) - a : r[j] = d[a + j]
    BY <2>2, RestFacts, Zenon
  <2>4. /\ r2 \in Seq(Bytes) /\ Len(r2) = Len(d) - a
        /\ \A j \in 1 .. Len(d) - a : r2[j] = s[a + j]
    <3>1. s \in Seq(Bytes) /\ Len(s) = Len(d) /\ a \in 0 .. Len(s)
      BY <1>2, <2>2
    <3>. QED
      BY <3>1, RestFacts, Zenon
  <2>5. IsArg(t, r) /\ e[k] = a + n
    BY DEF Laid
  <2>6. n \in 0 .. Len(r) /\ Wide(t, n)
    BY <2>3, <2>5, ArgFacts
  <2>. HIDE DEF t, a, r, r2, n
  <2>7. e[k] - a = n
    BY <2>2, <2>5, <2>6
  <2>8. ASSUME NEW j \in 1 .. n PROVE r2[j] = r[Message!Mirrored(t, j)]
    <3>1. Message!Mirrored(t, j) \in 1 .. n
      BY <2>6, MirroredTwice
    <3>2. j \in 1 .. Len(d) - a /\ Message!Mirrored(t, j) \in 1 .. Len(d) - a
      BY <2>2, <2>3, <2>6, <3>1
    <3>3. s[a + j] = d[a + Message!Mirrored(t, j)]
      BY <1>2, <2>7 DEF a, t
    <3>. QED
      BY <2>3, <2>4, <3>2, <3>3
  <2>9. n <= Len(r2)
    BY <2>2, <2>3, <2>4, <2>6
  <2>10. Message!ValidateArg(t, r2) = n
    BY <2>3, <2>4, <2>5, <2>8, <2>9, NetworkFromHost, Zenon DEF n
  <2>11. n # Message!Bad /\ a # Message!Bad
    BY <2>2, <2>6 DEF Message!Bad
  <2>12. ArgAfter(types, s, k, a) = a + n
    BY <2>10, <2>11 DEF ArgAfter, t, r2
  <2>. QED
    BY <2>5, <2>12 DEF a
<1>4. /\ Len(types) \in Nat \ {0} /\ e \in [0 .. N -> 0 .. Len(d)] /\ e[0] = 0
  BY DEF Laid
<1>5. Message!ValidEnds(types, s) = e
  BY <1>3, <1>4, ValidEndsAre, Zenon
<1>. QED
  BY <1>5 DEF s

-----------------------------------------------------------------------------
(* Strings with their terminators and padding.                             *)
Plain == Bytes \ {0}

(* Two strings of bytes one after the other.                               *)
LEMMA ConcatBytes ==
  ASSUME NEW x \in Seq(Bytes), NEW y \in Seq(Bytes)
  PROVE  /\ x \o y \in Seq(Bytes) /\ Len(x \o y) = Len(x) + Len(y)
         /\ \A i \in 1 .. Len(x) : (x \o y)[i] = x[i]
         /\ \A i \in 1 .. Len(y) : (x \o y)[Len(x) + i] = y[i]
<1>1. x \o y \in Seq(Bytes) /\ Len(x \o y) = Len(x) + Len(y)
  OBVIOUS
<1>2. \A i \in 1 .. Len(x) + Len(y) :
        (x \o y)[i] = IF i <= Len(x) THEN x[i] ELSE y[i - Len(x)]
  BY ConcatProperties
<1>3. Len(x) \in Nat /\ Len(y) \in Nat
  OBVIOUS
<1>. QED
  BY <1>1, <1>2, <1>3

(* What follows the first of two strings is the second.                    *)
LEMMA RestOfConcat ==
  ASSUME NEW x \in Seq(Bytes), NEW y \in Seq(Bytes)
  PROVE  Message!Rest(x \o y, Len(x)) = y
<1> DEFINE c == x \o y
           r == Message!Rest(c, Len(x))
<1>1. /\ c \in Seq(Bytes) /\ Len(c) = Len(x) + Len(y) /\ Len(x) \in Nat /\ Len(y) \in Nat
      /\ \A i \in 1 .. Len(y) : c[Len(x) + i] = y[i]
  BY ConcatBytes
<1>. HIDE DEF c
<1>2. Len(x) \in 0 .. Len(c) /\ Len(c) - Len(x) = Len(y)
  BY <1>1
<1>3. /\ r \in Seq(Bytes) /\ Len(r) = Len(y)
      /\ \A j \in 1 .. Len(y) : r[j] = c[Len(x) + j]
  BY <1>1, <1>2, RestFacts, Zenon
<1>. HIDE DEF r
<1>4. \A j \in 1 .. Len(y) : r[j] = y[j]
  BY <1>1, <1>3, Zenon
<1>5. r = y
  BY <1>3, <1>4, SeqEqual
<1>. QED
  BY <1>5 DEF r, c

(* Plain bytes are bytes, and not zero.                                    *)
LEMMA PlainIsBytes ==
  ASSUME NEW x \in Seq(Plain)
  PROVE  x \in Seq(Bytes) /\ Len(x) \in Nat /\ \A i \in 1 .. Len(x) : x[i] \in Bytes /\ x[i] # 0
<1>1. Plain \subseteq Bytes /\ 0 \notin Plain
  BY DEF Plain
<1>2. x \in Seq(Bytes)
  BY <1>1, SeqMonotonic
<1>3. \A i \in 1 .. Len(x) : x[i] \in Plain
  BY ElementOfSeq
<1>. QED
  BY <1>1, <1>2, <1>3

(* Padding is zeros.                                                       *)
LEMMA ZerosFacts ==
  ASSUME NEW n \in Nat
  PROVE  /\ Message!Zeros(n) \in Seq(Bytes) /\ Len(Message!Zeros(n)) = n
         /\ \A i \in 1 .. n : Message!Zeros(n)[i] = 0
<1>1. 0 \in Bytes
  BY DEF Bytes
<1>2. Message!Zeros(n) \in [1 .. n -> Bytes] /\ \A i \in 1 .. n : Message!Zeros(n)[i] = 0
  BY <1>1 DEF Message!Zeros
<1>3. \A f \in [1 .. n -> Bytes] : f \in Seq(Bytes) /\ Len(f) = n
  BY FunctionIsSeq
<1>. QED
  BY <1>2, <1>3, Zenon

(* A string in a packet has its bytes, then zeros.                         *)
LEMMA CStringFacts ==
  ASSUME NEW x \in Seq(Plain)
  PROVE  /\ Message!CString(x) \in Seq(Bytes)
         /\ Len(Message!CString(x)) = Message!StrSize(Len(x))
         /\ \A i \in 1 .. Len(x) : Message!CString(x)[i] = x[i]
         /\ \A i \in Len(x) + 1 .. Message!StrSize(Len(x)) : Message!CString(x)[i] = 0
<1> DEFINE n == Message!StrSize(Len(x))
           z == Message!Zeros(n - Len(x))
           c == x \o z
<1>1. x \in Seq(Bytes) /\ Len(x) \in Nat
  BY PlainIsBytes
<1>2. n \in Nat /\ Len(x) < n
  BY <1>1, StrSizeFacts
<1>. HIDE DEF n
<1>3. n - Len(x) \in Nat
  BY <1>1, <1>2
<1>4. z \in Seq(Bytes) /\ Len(z) = n - Len(x) /\ \A i \in 1 .. n - Len(x) : z[i] = 0
  BY <1>3, ZerosFacts, Zenon
<1>. HIDE DEF z
<1>5. /\ c \in Seq(Bytes) /\ Len(c) = Len(x) + Len(z)
      /\ \A i \in 1 .. Len(x) : c[i] = x[i]
      /\ \A i \in 1 .. Len(z) : c[Len(x) + i] = z[i]
  BY <1>1, <1>4, ConcatBytes, Zenon
<1>. HIDE DEF c
<1>6. ASSUME NEW i \in Len(x) + 1 .. n PROVE c[i] = 0
  <2>1. i - Len(x) \in 1 .. Len(z) /\ Len(x) + (i - Len(x)) = i
    BY <1>1, <1>2, <1>4
  <2>. QED
    BY <1>4, <1>5, <2>1
<1>7. Len(c) = n
  BY <1>1, <1>2, <1>4, <1>5
<1>8. Message!CString(x) = c
  BY DEF Message!CString, c, z, n
<1>. QED
  BY <1>5, <1>6, <1>7, <1>8 DEF n

(* A string at the front of a packet is found again...                     *)
LEMMA StringIsFound ==
  ASSUME NEW x \in Seq(Plain), NEW y \in Seq(Bytes)
  PROVE  LET d == Message!CString(x) \o y
         IN  /\ d \in Seq(Bytes) /\ Len(d) = Message!StrSize(Len(x)) + Len(y)
             /\ Message!ValidateString(d) = Message!StrSize(Len(x))
             /\ Message!StrLen(d) = Len(x) /\ SubSeq(d, 1, Len(x)) = x
             /\ Message!Rest(d, Message!StrSize(Len(x))) = y
<1> DEFINE n == Message!StrSize(Len(x))
           c == Message!CString(x)
           d == c \o y
<1>1. x \in Seq(Bytes) /\ Len(x) \in Nat /\ \A i \in 1 .. Len(x) : x[i] # 0
  BY PlainIsBytes
<1>2. n \in Nat /\ Len(x) < n
  BY <1>1, StrSizeFacts
<1>3. /\ c \in Seq(Bytes) /\ Len(c) = n
      /\ \A i \in 1 .. Len(x) : c[i] = x[i]
      /\ \A i \in Len(x) + 1 .. n : c[i] = 0
  BY CStringFacts
<1>. HIDE DEF n, c
<1>4. /\ d \in Seq(Bytes) /\ Len(d) = n + Len(y) /\ Len(y) \in Nat
      /\ \A i \in 1 .. n : d[i] = c[i]
  <2>1. /\ d \in Seq(Bytes) /\ Len(d) = Len(c) + Len(y)
        /\ \A i \in 1 .. Len(c) : d[i] = c[i]
    BY <1>3, ConcatBytes, Zenon
  <2>. QED
    BY <1>3, <2>1
<1>5. Message!Rest(d, n) = y
  BY <1>3, RestOfConcat
<1>. HIDE DEF d
<1>6. /\ \A i \in 1 .. Len(x) : i \in 1 .. n
      /\ \A i \in Len(x) + 1 .. n : i \in 1 .. n
      /\ Len(x) + 1 \in Len(x) + 1 .. n
  BY <1>1, <1>2
<1>7. (\A i \in 1 .. Len(x) : d[i] = x[i]) /\ \A i \in Len(x) + 1 .. n : d[i] = 0
  BY <1>3, <1>4, <1>6
<1>8. Message!Zero(d) # {} /\ Message!StrLen(d) = Len(x)
  <2>1. Len(x) \in 0 .. Len(d) - 1
    BY <1>1, <1>2, <1>4
  <2>2. d[Len(x) + 1] = 0 /\ \A i \in 1 .. Len(x) : d[i] # 0
    BY <1>1, <1>6, <1>7
  <2>. QED
    BY <1>4, <2>1, <2>2, StrLenIs, Zenon
<1>9. Message!ValidateString(d) = n
  <2>1. n <= Len(d)
    BY <1>2, <1>4
  <2>. QED
    BY <1>7, <1>8, <2>1, ValidString DEF n
<1>10. SubSeq(d, 1, Len(x)) = x
  <2>1. Len(x) \in 0 .. Len(d)
    BY <1>1, <1>2, <1>4
  <2>2. /\ SubSeq(d, 1, Len(x)) \in Seq(Bytes) /\ Len(SubSeq(d, 1, Len(x))) = Len(x)
        /\ \A i \in 1 .. Len(x) : SubSeq(d, 1, Len(x))[i] = d[i]
    BY <1>4, <2>1
  <2>3. \A i \in 1 .. Len(x) : SubSeq(d, 1, Len(x))[i] = x[i]
    BY <1>7, <2>2
  <2>. QED
    BY <1>1, <2>2, <2>3, SeqEqual
<1>. QED
  BY <1>4, <1>5, <1>8, <1>9, <1>10, Zenon DEF d, c, n

(* ...and a valid one is there as it would be written.                     *)
LEMMA StringIsCanonical ==
  ASSUME NEW d \in Seq(Bytes), Message!ValidateString(d) # Message!Bad
  PROVE  LET x == SubSeq(d, 1, Message!StrLen(d))
             n == Message!ValidateString(d)
         IN  /\ x \in Seq(Plain) /\ Len(x) = Message!StrLen(d)
             /\ n = Message!StrSize(Len(x)) /\ n \in 0 .. Len(d)
             /\ Message!Rest(d, n) \in Seq(Bytes)
             /\ Message!CString(x) \o Message!Rest(d, n) = d
<1> DEFINE l == Message!StrLen(d)
           n == Message!ValidateString(d)
           x == SubSeq(d, 1, l)
           r == Message!Rest(d, n)
           c == Message!CString(x)
<1>1. /\ Message!Zero(d) # {} /\ n = Message!StrSize(l) /\ n <= Len(d)
      /\ \A k \in l + 1 .. n : d[k] = 0
  BY ValidString
<1>2. l \in 0 .. Len(d) - 1 /\ \A j \in 1 .. l : d[j] # 0
  BY <1>1, StrLenFacts
<1>3. n \in Nat /\ l < n /\ Len(d) \in Nat
  BY <1>1, <1>2, StrSizeFacts
<1>. HIDE DEF l, n
<1>4. x \in Seq(Bytes) /\ Len(x) = l /\ \A i \in 1 .. l : x[i] = d[i]
  BY <1>2
<1>. HIDE DEF x
<1>5. x \in Seq(Plain)
  <2>1. \A i \in 1 .. l : x[i] \in Plain
    <3>1. \A i \in 1 .. Len(x) : x[i] \in Bytes
      BY <1>4, ElementOfSeq
    <3>. QED
      BY <1>2, <1>4, <3>1 DEF Plain
  <2>2. x \in [1 .. l -> Plain]
    BY <1>4, <2>1, LenProperties
  <2>3. \A f \in [1 .. l -> Plain] : f \in Seq(Plain)
    BY <1>2, FunctionIsSeq
  <2>. QED
    BY <2>2, <2>3, Zenon
<1>6. n \in 0 .. Len(d)
  BY <1>1, <1>3
<1>7. r \in Seq(Bytes) /\ Len(r) = Len(d) - n /\ \A j \in 1 .. Len(d) - n : r[j] = d[n + j]
  BY <1>6, RestFacts
<1>8. /\ c \in Seq(Bytes) /\ Len(c) = n
      /\ \A i \in 1 .. l : c[i] = x[i]
      /\ \A i \in l + 1 .. n : c[i] = 0
  BY <1>1, <1>4, <1>5, CStringFacts
<1>. HIDE DEF r, c
<1>9. c \o r = d
  <2> DEFINE s == c \o r
  <2>1. /\ s \in Seq(Bytes) /\ Len(s) = n + (Len(d) - n)
        /\ \A i \in 1 .. n : s[i] = c[i]
        /\ \A i \in 1 .. Len(d) - n : s[n + i] = r[i]
    <3>1. /\ s \in Seq(Bytes) /\ Len(s) = Len(c) + Len(r)
          /\ \A i \in 1 .. Len(c) : s[i] = c[i]
          /\ \A i \in 1 .. Len(r) : s[Len(c) + i] = r[i]
      BY <1>7, <1>8, ConcatBytes, Zenon
    <3>2. Len(c) = n /\ Len(r) = Len(d) - n
      BY <1>7, <1>8
    <3>. HIDE DEF s
    <3>. QED
      BY <3>1, <3>2, Zenon
  <2>. HIDE DEF s
  <2>2. ASSUME NEW i \in 1 .. Len(d) PROVE s[i] = d[i]
    <3>1. CASE i <= l
      <4>1. i \in 1 .. n /\ i \in 1 .. l
        BY <1>2, <1>3, <3>1
      <4>. QED
        BY <1>4, <1>8, <2>1, <4>1
    <3>2. CASE l < i /\ i <= n
      <4>1. i \in 1 .. n /\ i \in l + 1 .. n
        BY <1>2, <1>3, <3>2
      <4>. QED
        BY <1>1, <1>8, <2>1, <4>1
    <3>3. CASE n < i
      <4>1. i - n \in 1 .. Len(d) - n /\ n + (i - n) = i
        BY <1>3, <3>3
      <4>. QED
        BY <1>7, <2>1, <4>1
    <3>. QED
      BY <1>2, <1>3, <3>1, <3>2, <3>3
  <2>3. Len(s) = Len(d)
    BY <1>3, <2>1
  <2>4. s = d
    BY <2>1, <2>2, <2>3, SeqEqual
  <2>. QED
    BY <2>4 DEF s
<1>. QED
  BY <1>1, <1>4, <1>5, <1>6, <1>7, <1>9, Zenon DEF l, n, x, r, c

-----------------------------------------------------------------------------
(* Messages and packets.                                                   *)

(* A message that a program builds or a server makes: the string of types  *)
(* fits its allocation, the data hold the arguments that it names, one     *)
(* after the other, and the pointers, if there are any, point to them.     *)
WellMade(msg) ==
  /\ msg = [types |-> msg.types, typesize |-> msg.typesize, data |-> msg.data,
            datasize |-> msg.datasize, argv |-> msg.argv]
  /\ msg.types \in Seq(Plain) /\ Len(msg.types) \in Nat \ {0}
  /\ msg.types[1] = Message!Comma
  /\ msg.typesize \in Nat /\ Len(msg.types) + 1 <= msg.typesize
  /\ msg.data \in Seq(Bytes)
  /\ \E e : Laid(msg.types, msg.data, e)
  /\ msg.argv # <<>> => msg.argv = Message!Offsets(msg.types, msg.data)

(* A well made message is one.                                             *)
LEMMA WellMadeIsMessage ==
  ASSUME NEW msg, WellMade(msg)
  PROVE  msg # Message!NoMessage
<1>1. Message!NoMessage.types = <<>>
  BY DEF Message!NoMessage
<1>2. Len(msg.types) # 0
  BY DEF WellMade
<1>. QED
  BY <1>1, <1>2

(* What is serialised can be deserialised, and is the same.                *)
LEMMA Received ==
  ASSUME NEW msg, WellMade(msg), NEW addr \in Seq(Plain)
  PROVE  /\ Message!Serialise(msg, addr) \in Seq(Bytes)
         /\ Len(Message!Serialise(msg, addr)) = Message!Length(msg, addr)
         /\ Message!PathOf(Message!Serialise(msg, addr)) = addr
         /\ LET r == Message!Deserialise(Message!Serialise(msg, addr))
            IN  /\ r.types = msg.types /\ r.data = msg.data
                /\ r.argv = Message!Offsets(msg.types, msg.data)
<1> DEFINE types == msg.types
           data == msg.data
           nl == Message!StrSize(Len(addr))
           tl == Message!StrSize(Len(types))
           cp == Message!CString(addr)
           ct == Message!CString(types)
           p == Message!Serialise(msg, addr)
<1>1. PICK e : Laid(types, data, e)
  BY DEF WellMade
<1>2. /\ types \in Seq(Plain) /\ data \in Seq(Bytes) /\ Len(types) \in Nat \ {0}
      /\ types[1] = Message!Comma /\ Len(addr) \in Nat
  BY DEF WellMade
<1> DEFINE nd == Message!SwapEndian(types, e, data)
           rest == ct \o nd
<1>3. Message!Ends(types, data) = e /\ Spans(types, e, Len(data))
  BY <1>1, <1>2, LaidEnds, LaidSpans
<1>4. /\ nd \in Seq(Bytes) /\ Len(nd) = Len(data)
      /\ Message!SwapEndian(types, e, nd) = data
  BY <1>2, <1>3, SwapFacts
<1>5. Message!ValidEnds(types, nd) = e /\ e[Len(types) - 1] = Len(nd)
  BY <1>1, <1>2, <1>4, NetworkValid, Zenon DEF Laid
<1>6. /\ cp \in Seq(Bytes) /\ ct \in Seq(Bytes) /\ Len(ct) = tl
      /\ nl \in Nat \ {0} /\ tl \in Nat \ {0}
      /\ \A i \in 1 .. Len(types) : ct[i] = types[i]
  <2>1. /\ nl \in Nat /\ Len(addr) < nl /\ tl \in Nat /\ Len(types) < tl
    BY <1>2, StrSizeFacts, Zenon
  <2>2. cp \in Seq(Bytes)
    BY CStringFacts
  <2>3. /\ ct \in Seq(Bytes) /\ Len(ct) = tl
        /\ \A i \in 1 .. Len(types) : ct[i] = types[i]
    BY <1>2, CStringFacts
  <2>. HIDE DEF nl, tl, cp, ct, types
  <2>. QED
    BY <1>2, <2>1, <2>2, <2>3
<1>. HIDE DEF nd, cp, ct, nl, tl, types, data
<1>7. /\ rest \in Seq(Bytes) /\ Len(rest) = tl + Len(nd)
      /\ Message!ValidateString(rest) = tl /\ Message!StrLen(rest) = Len(types)
      /\ SubSeq(rest, 1, Len(types)) = types
      /\ Message!Rest(rest, tl) = nd
  BY <1>2, <1>4, StringIsFound, Zenon DEF ct, tl
<1>8. rest[1] = Message!Comma
  <2>1. 1 \in 1 .. Len(types) /\ 1 \in 1 .. Len(ct)
    BY <1>2, <1>6
  <2>2. \A i \in 1 .. Len(ct) : rest[i] = ct[i]
    BY <1>4, <1>6, ConcatBytes
  <2>. QED
    BY <1>2, <1>6, <2>1, <2>2
<1>9. p = cp \o rest
  <2>1. p = cp \o ct \o nd
    BY <1>3 DEF Message!Serialise, Message!NetworkData, cp, ct, nd, types, data
  <2>2. (cp \o ct) \o nd = cp \o (ct \o nd)
    BY <1>4, <1>6, ConcatAssociative
  <2>. QED
    BY <2>1, <2>2
<1>. HIDE DEF rest, p
<1>10. /\ p \in Seq(Bytes) /\ Len(p) = nl + Len(rest)
       /\ Message!ValidateString(p) = nl /\ Message!StrLen(p) = Len(addr)
       /\ SubSeq(p, 1, Len(addr)) = addr
       /\ Message!Rest(p, nl) = rest
  BY <1>7, <1>9, StringIsFound, Zenon DEF cp, nl
<1>11. Len(p) = Message!Length(msg, addr)
  <2>1. Message!Length(msg, addr) = nl + tl + Len(data)
    BY DEF Message!Length, nl, tl, types, data
  <2>2. Len(nd) \in Nat /\ nl \in Nat /\ tl \in Nat
    BY <1>4, <1>6
  <2>. QED
    BY <1>4, <1>7, <1>10, <2>1, <2>2
<1>12. p # <<>> /\ rest # <<>> /\ nl # Message!Bad /\ tl # Message!Bad
  <2>1. Len(rest) # 0
    BY <1>4, <1>6, <1>7
  <2>2. Len(p) # 0
    BY <1>6, <1>7, <1>10
  <2>3. nl # Message!Bad /\ tl # Message!Bad
    BY <1>6 DEF Message!Bad
  <2>. QED
    BY <2>1, <2>2, <2>3
<1>13. Message!Deserialise(p) =
         [types |-> types, typesize |-> tl, data |-> data, datasize |-> Len(nd),
          argv |-> Message!Argv(types, e)]
  <2>1. Message!Deserialise(p) =
           IF \/ p = <<>> \/ nl = Message!Bad \/ rest = <<>> \/ tl = Message!Bad
              \/ rest[1] # Message!Comma \/ e[Len(types) - 1] # Len(nd)
           THEN Message!NoMessage
           ELSE [types |-> types, typesize |-> tl,
                 data |-> Message!SwapEndian(types, e, nd), datasize |-> Len(nd),
                 argv |-> Message!Argv(types, e)]
    <3>1. /\ nl = Message!ValidateString(p) /\ rest = Message!Rest(p, nl)
          /\ tl = Message!ValidateString(rest)
          /\ types = SubSeq(rest, 1, Message!StrLen(rest))
          /\ nd = Message!Rest(rest, tl) /\ e = Message!ValidEnds(types, nd)
      BY <1>5, <1>7, <1>10
    <3> DEFINE rest2 == Message!Rest(p, Message!ValidateString(p))
               tl2 == Message!ValidateString(rest2)
               types2 == SubSeq(rest2, 1, Message!StrLen(rest2))
               nd2 == Message!Rest(rest2, tl2)
               e2 == Message!ValidEnds(types2, nd2)
    <3>2. Message!Deserialise(p) =
           IF \/ p = <<>> \/ Message!ValidateString(p) = Message!Bad \/ rest2 = <<>>
              \/ tl2 = Message!Bad
              \/ rest2[1] # Message!Comma \/ e2[Len(types2) - 1] # Len(nd2)
           THEN Message!NoMessage
           ELSE [types |-> types2, typesize |-> tl2,
                 data |-> Message!SwapEndian(types2, e2, nd2), datasize |-> Len(nd2),
                 argv |-> Message!Argv(types2, e2)]
      BY Zenon DEF Message!Deserialise
    <3>3. rest2 = rest
      BY <3>1
    <3>4. tl2 = tl /\ types2 = types
      BY <3>1, <3>3
    <3>5. nd2 = nd
      BY <3>1, <3>3, <3>4
    <3>6. e2 = e
      BY <3>1, <3>4, <3>5
    <3>. HIDE DEF rest2, tl2, types2, nd2, e2
    <3>. QED
      BY <3>1, <3>2, <3>3, <3>4, <3>5, <3>6
  <2>. QED
    BY <1>4, <1>5, <1>8, <1>12, <2>1
<1>14. Message!Argv(types, e) = Message!Offsets(types, data)
  BY <1>3 DEF Message!Offsets
<1>15. Message!PathOf(p) = addr
  BY <1>10 DEF Message!PathOf
<1>. QED
  BY <1>10, <1>11, <1>13, <1>14, <1>15 DEF p, types, data

(* What a server accepts is a message, and sent on it is the same packet.  *)
LEMMA Accepted ==
  ASSUME NEW p \in Seq(Bytes), Message!Deserialise(p) # Message!NoMessage
  PROVE  /\ WellMade(Message!Deserialise(p))
         /\ Message!Serialise(Message!Deserialise(p), Message!PathOf(p)) = p
<1> DEFINE nl == Message!ValidateString(p)
           rest == Message!Rest(p, nl)
           tl == Message!ValidateString(rest)
           types == SubSeq(rest, 1, Message!StrLen(rest))
           nd == Message!Rest(rest, tl)
           e == Message!ValidEnds(types, nd)
           data == Message!SwapEndian(types, e, nd)
           msg == Message!Deserialise(p)
           addr == Message!PathOf(p)
           cp == Message!CString(addr)
           ct == Message!CString(types)
<1>1. msg = IF \/ p = <<>> \/ nl = Message!Bad \/ rest = <<>> \/ tl = Message!Bad
               \/ rest[1] # Message!Comma \/ e[Len(types) - 1] # Len(nd)
            THEN Message!NoMessage
            ELSE [types |-> types, typesize |-> tl, data |-> data, datasize |-> Len(nd),
                  argv |-> Message!Argv(types, e)]
  BY Zenon DEF Message!Deserialise
<1>. HIDE DEF msg
<1>2. /\ nl # Message!Bad /\ rest # <<>> /\ tl # Message!Bad
      /\ rest[1] = Message!Comma /\ e[Len(types) - 1] = Len(nd)
      /\ msg = [types |-> types, typesize |-> tl, data |-> data, datasize |-> Len(nd),
                argv |-> Message!Argv(types, e)]
  BY <1>1, Zenon DEF msg
<1>3. /\ addr \in Seq(Plain) /\ rest \in Seq(Bytes) /\ cp \o rest = p
  BY <1>2, StringIsCanonical, Zenon DEF Message!PathOf
<1>. HIDE DEF nl, rest, addr, cp
<1>4. /\ types \in Seq(Plain) /\ Len(types) = Message!StrLen(rest)
      /\ tl = Message!StrSize(Len(types)) /\ nd \in Seq(Bytes) /\ ct \o nd = rest
  BY <1>2, <1>3, StringIsCanonical, Zenon
<1>. HIDE DEF ct
<1>5. Len(types) \in Nat \ {0}
  <2>1. Len(types) \in Nat
    BY <1>4
  <2>2. rest[1] # 0
    BY <1>2 DEF Message!Comma
  <2>3. Message!Zero(rest) # {}
    BY <1>2, ValidString
  <2>4. rest[Message!StrLen(rest) + 1] = 0
    BY <1>3, <2>3, StrLenFacts
  <2>5. Len(types) # 0
    BY <1>4, <2>2, <2>4
  <2>. QED
    BY <2>1, <2>5, Zenon
<1>6. types[1] = Message!Comma
  <2>1. Message!StrLen(rest) \in 0 .. Len(rest) - 1
    BY <1>2, <1>3, ValidString, StrLenFacts
  <2>2. 1 \in 1 .. Message!StrLen(rest) /\ Message!StrLen(rest) \in 0 .. Len(rest)
    BY <1>4, <1>5, <2>1
  <2>3. types[1] = rest[1]
    BY <1>3, <2>2
  <2>. QED
    BY <1>2, <2>3, Zenon
<1>. HIDE DEF tl, types, nd, e
<1>7. tl \in Nat /\ Len(types) + 1 <= tl
  <2>1. tl \in Nat /\ Len(types) < tl
    BY <1>4, <1>5, StrSizeFacts, Zenon
  <2>. QED
    BY <1>5, <2>1
<1>8. Laid(types, data, e) /\ Spans(types, e, Len(nd))
  BY <1>2, <1>4, <1>5, HostLaid, ValidEndsFacts DEF e
<1>9. data \in Seq(Bytes) /\ Message!SwapEndian(types, e, data) = nd
  BY <1>4, <1>8, SwapFacts
<1>. HIDE DEF data
<1>10. Message!Ends(types, data) = e
  BY <1>8, <1>9, LaidEnds
<1>11. Message!Argv(types, e) = Message!Offsets(types, data)
  BY <1>10 DEF Message!Offsets
<1>12. /\ msg.types = types /\ msg.typesize = tl /\ msg.data = data
       /\ msg.datasize = Len(nd) /\ msg.argv = Message!Argv(types, e)
  BY <1>2
<1>13. WellMade(msg)
  BY <1>2, <1>4, <1>5, <1>6, <1>7, <1>8, <1>9, <1>11, <1>12 DEF WellMade
<1>14. Message!Serialise(msg, addr) = p
  <2>1. Message!Serialise(msg, addr) = cp \o ct \o nd
    BY <1>9, <1>10, <1>12 DEF Message!Serialise, Message!NetworkData, cp, ct
  <2>2. cp \in Seq(Bytes) /\ ct \in Seq(Bytes)
    BY <1>3, <1>4, CStringFacts DEF cp, ct
  <2>3. (cp \o ct) \o nd = cp \o (ct \o nd)
    <3>1. nd \in Seq(Bytes)
      BY <1>4
    <3>2. \A x, y, z \in Seq(Bytes) : (x \o y) \o z = x \o (y \o z)
      BY ConcatAssociative
    <3>. QED
      BY <2>2, <3>1, <3>2, Zenon
  <2>. QED
    BY <1>3, <1>4, <2>1, <2>3
<1>. QED
  BY <1>13, <1>14 DEF msg, addr

-----------------------------------------------------------------------------
(* Building a message.                                                     *)

(* The bytes of a number.                                                  *)
LEMMA WordFacts ==
  ASSUME NEW n \in Nat, n \div 16777216 < 256
  PROVE  /\ Message!Word(n) \in Seq(Bytes) /\ Len(Message!Word(n)) = 4
         /\ Message!Number(Message!Word(n)) = n
<1> DEFINE w == Message!Word(n)
           a == n % 256
           b == (n \div 256) % 256
           c == (n \div 65536) % 256
           d == n \div 16777216
<1>1. w = <<a, b, c, d>>
  BY SMT DEF Message!Word
<1>2. a \in 0 .. 255 /\ b \in 0 .. 255 /\ c \in 0 .. 255 /\ d \in 0 .. 255
  BY SMT
<1>3. n = a + 256 * b + 65536 * c + 16777216 * d
  <2>1. n = a + 256 * (n \div 256)
    BY SMT
  <2>2. n \div 256 = b + 256 * (n \div 65536)
    BY SMT
  <2>3. n \div 65536 = c + 256 * d
    BY SMT
  <2>4. n \div 256 \in Nat /\ n \div 65536 \in Nat
    BY SMT
  <2>. HIDE DEF a, b, c, d
  <2>. QED
    BY <1>2, <2>1, <2>2, <2>3, <2>4, SMT
<1>. HIDE DEF a, b, c, d, w
<1>4. w \in Seq(Bytes) /\ Len(w) = 4 /\ w[1] = a /\ w[2] = b /\ w[3] = c /\ w[4] = d
  BY <1>1, <1>2, SMT DEF Bytes
<1>5. Message!Number(w) = a + 256 * b + 65536 * c + 16777216 * d
  BY <1>4, SMT DEF Message!Number
<1>. QED
  BY <1>3, <1>4, <1>5, SMT DEF w

(* What lo_message_add_* puts into the data for a value, if anything.      *)
Added(t, x) == IF t \in Message!Sizeless THEN <<>> ELSE Message!Contents(t, x)

(* lo_message_add_string adds one argument.                                *)
LEMMA AddedString ==
  ASSUME NEW x, IsValue(Message!S, x)
  PROVE  /\ Added(Message!S, x) \in Seq(Bytes) /\ IsArg(Message!S, Added(Message!S, x))
         /\ Message!ArgSize(Message!S, Added(Message!S, x)) = Len(Added(Message!S, x))
<1> DEFINE c == Message!CString(x)
<1>1. Added(Message!S, x) = c /\ Message!S \in Message!Types
  <2>1. Message!S \notin Message!Sizeless /\ Message!S # Message!B
    BY DEF Message!Sizeless, Message!T, Message!S, Message!B
  <2>2. Message!Contents(Message!S, x) = c
    BY <2>1, Zenon DEF Message!Contents, Message!CString
  <2>3. Message!S \in Message!Types
    BY DEF Message!Types
  <2>. QED
    BY <2>1, <2>2, <2>3 DEF Added
<1>2. x \in Seq(Bytes) /\ \A k \in 1 .. Len(x) : x[k] # 0
  BY DEF IsValue
<1>3. x \in Seq(Plain)
  <2>1. \A i \in 1 .. Len(x) : x[i] \in Plain
    <3>1. \A i \in 1 .. Len(x) : x[i] \in Bytes
      BY <1>2, ElementOfSeq
    <3>. QED
      BY <1>2, <3>1 DEF Plain
  <2>2. x \in [1 .. Len(x) -> Plain] /\ Len(x) \in Nat
    BY <1>2, <2>1, LenProperties
  <2>3. \A n \in Nat : \A f \in [1 .. n -> Plain] : f \in Seq(Plain)
    BY FunctionIsSeq
  <2>. QED
    BY <2>2, <2>3, Zenon
<1>4. /\ c \in Seq(Bytes) /\ Len(c) = Message!StrSize(Len(x))
      /\ \A i \in 1 .. Len(x) : c[i] = x[i]
      /\ \A i \in Len(x) + 1 .. Message!StrSize(Len(x)) : c[i] = 0
  BY <1>3, CStringFacts
<1>5. Len(x) \in Nat /\ Message!StrSize(Len(x)) \in Nat /\ Len(x) < Message!StrSize(Len(x))
  BY <1>2, StrSizeFacts
<1>. HIDE DEF c
<1>6. Message!Zero(c) # {} /\ Message!StrLen(c) = Len(x)
  <2>1. Len(x) \in 0 .. Len(c) - 1 /\ Len(x) + 1 \in Len(x) + 1 .. Message!StrSize(Len(x))
    BY <1>4, <1>5
  <2>2. c[Len(x) + 1] = 0
    BY <1>4, <2>1
  <2>3. \A i \in 1 .. Len(x) : c[i] # 0
    BY <1>2, <1>4
  <2>. QED
    BY <1>4, <2>1, <2>2, <2>3, StrLenIs, Zenon
<1>7. Message!ArgSize(Message!S, c) = Len(c)
  BY <1>4, <1>6, ArgSizes
<1>8. Message!S # Message!B
  BY DEF Message!S, Message!B
<1>9. Len(c) <= Len(c)
  BY <1>4, <1>5
<1>. QED
  BY <1>1, <1>4, <1>6, <1>7, <1>8, <1>9 DEF IsArg

(* lo_message_add_blob adds one argument.                                  *)
LEMMA AddedBlob ==
  ASSUME NEW x, IsValue(Message!B, x)
  PROVE  /\ Added(Message!B, x) \in Seq(Bytes) /\ IsArg(Message!B, Added(Message!B, x))
         /\ Message!ArgSize(Message!B, Added(Message!B, x)) = Len(Added(Message!B, x))
<1> DEFINE n == Len(x)
           size == Message!BlobSize(n)
           w == Message!Word(n)
           z == Message!Zeros(size - 4 - n)
           wx == w \o x
           c == wx \o z
<1>1. Added(Message!B, x) = c /\ Message!B \in Message!Types /\ Message!B # Message!S
  BY DEF Added, Message!Contents, Message!Sizeless, Message!T, Message!S, Message!B,
         Message!Types
<1>2. x \in Seq(Bytes) /\ n \in Nat
  BY DEF IsValue
<1>3. size \in Nat /\ 4 + n <= size
  BY <1>2, BlobSizeFacts
<1>4. w \in Seq(Bytes) /\ Len(w) = 4 /\ Message!Number(w) = n
  BY <1>2, WordFacts, SMT DEF IsValue
<1>. HIDE DEF n, size
<1>5. /\ z \in Seq(Bytes) /\ Len(z) = size - 4 - n
      /\ \A i \in 1 .. size - 4 - n : z[i] = 0
  <2>1. size - 4 - n \in Nat
    BY <1>2, <1>3
  <2>. QED
    BY <2>1, ZerosFacts, Zenon
<1>. HIDE DEF w, z
<1>6. wx \in Seq(Bytes) /\ Len(wx) = 4 + n /\ \A i \in 1 .. 4 : wx[i] = w[i]
  <2>1. /\ wx \in Seq(Bytes) /\ Len(wx) = Len(w) + Len(x)
        /\ \A i \in 1 .. Len(w) : wx[i] = w[i]
    BY <1>2, <1>4, ConcatBytes, Zenon
  <2>. QED
    BY <1>4, <2>1 DEF n
<1>. HIDE DEF wx
<1>7. /\ c \in Seq(Bytes) /\ Len(c) = size
      /\ \A i \in 1 .. 4 + n : c[i] = wx[i]
      /\ \A i \in 1 .. size - 4 - n : c[4 + n + i] = 0
  <2>1. /\ c \in Seq(Bytes) /\ Len(c) = Len(wx) + Len(z)
        /\ \A i \in 1 .. Len(wx) : c[i] = wx[i]
        /\ \A i \in 1 .. Len(z) : c[Len(wx) + i] = z[i]
    BY <1>5, <1>6, ConcatBytes, Zenon
  <2>. HIDE DEF c
  <2>2. Len(c) = size /\ \A i \in 1 .. 4 + n : c[i] = wx[i]
    BY <1>2, <1>3, <1>5, <1>6, <2>1
  <2>3. \A i \in 1 .. size - 4 - n : c[4 + n + i] = z[i]
    BY <1>5, <1>6, <2>1
  <2>. QED
    BY <1>5, <2>1, <2>2, <2>3
<1>. HIDE DEF c
<1>8. Message!Number(c) = n
  <2>1. \A i \in 1 .. 4 : i \in 1 .. 4 + n
    BY <1>2
  <2>2. c[1] = w[1] /\ c[2] = w[2] /\ c[3] = w[3] /\ c[4] = w[4]
    BY <1>6, <1>7, <2>1
  <2>3. Message!Number(c) = Message!Number(w)
    BY <2>2, SameNumber
  <2>. QED
    BY <1>4, <2>3
<1>9. Message!ArgSize(Message!B, c) = size
  BY <1>8, ArgSizes DEF size
<1>10. ASSUME NEW k \in 4 + n + 1 .. size PROVE c[k] = 0
  <2>1. k - 4 - n \in 1 .. size - 4 - n /\ 4 + n + (k - 4 - n) = k
    BY <1>2, <1>3
  <2>. QED
    BY <1>7, <2>1
<1>11. 4 <= Len(c) /\ size <= Len(c)
  BY <1>2, <1>3, <1>7
<1>. QED
  BY <1>1, <1>7, <1>8, <1>9, <1>10, <1>11 DEF IsArg

(* So does every lo_message_add_*.                                         *)
LEMMA AddedFacts ==
  ASSUME NEW t \in Message!Types, NEW x, IsValue(t, x)
  PROVE  /\ Added(t, x) \in Seq(Bytes) /\ IsArg(t, Added(t, x))
         /\ Message!ArgSize(t, Added(t, x)) = Len(Added(t, x))
<1>1. CASE t = Message!S
  BY <1>1, AddedString
<1>2. CASE t = Message!B
  BY <1>2, AddedBlob
<1>3. CASE t # Message!S /\ t # Message!B
  <2>1. Added(t, x) = x
    BY <1>3 DEF Added, Message!Contents, IsValue
  <2>2. x \in Seq(Bytes)
    BY DEF IsValue
  <2>3. Message!ArgSize(t, x) = Len(x)
    <3>1. CASE t \in Message!Sizeless
      BY <3>1, ArgSizes DEF IsValue
    <3>2. CASE t \in Message!OneWord
      BY <3>2, ArgSizes DEF IsValue
    <3>3. CASE t \in Message!TwoWords
      BY <3>3, ArgSizes DEF IsValue
    <3>. QED
      BY <1>3, <3>1, <3>2, <3>3, TypeKinds
  <2>4. Len(x) <= Len(x)
    BY <2>2
  <2>. QED
    BY <1>3, <2>1, <2>2, <2>3, <2>4 DEF IsArg
<1>. QED
  BY <1>1, <1>2, <1>3

(* One more argument behind those that are there.                          *)
LEMMA LaidAppend ==
  ASSUME NEW types \in Seq(Plain), NEW d \in Seq(Bytes), NEW e, Laid(types, d, e),
         NEW t \in Plain, NEW c \in Seq(Bytes), IsArg(t, c), Message!ArgSize(t, c) = Len(c)
  PROVE  \E f : Laid(Append(types, t), d \o c, f)
<1> DEFINE N == Len(types)
           types2 == Append(types, t)
           d2 == d \o c
           f == [k \in 0 .. N |-> IF k <= N - 1 THEN e[k] ELSE Len(d) + Len(c)]
<1>1. /\ N \in Nat \ {0} /\ e[0] = 0 /\ e[N - 1] = Len(d)
      /\ \A k \in 1 .. N - 1 :
           /\ IsArg(types[k + 1], Message!Rest(d, e[k - 1]))
           /\ e[k] = e[k - 1] + Message!ArgSize(types[k + 1], Message!Rest(d, e[k - 1]))
  BY DEF Laid
<1>2. Len(d) \in Nat /\ Len(c) \in Nat
  OBVIOUS
<1>3. \A k \in 0 .. N - 1 :
        /\ e[k] \in 0 .. Len(d) /\ e[k] \in Nat
        /\ Message!Rest(d, e[k]) \in Seq(Bytes)
        /\ Len(Message!Rest(d, e[k])) = Len(d) - e[k]
        /\ \A j \in 1 .. Len(d) - e[k] : Message!Rest(d, e[k])[j] = d[e[k] + j]
  <2>1. ASSUME NEW k \in 0 .. Len(types) - 1
        PROVE  /\ e[k] \in 0 .. Len(d) /\ e[k] \in Nat
               /\ Message!Rest(d, e[k]) \in Seq(Bytes)
               /\ Len(Message!Rest(d, e[k])) = Len(d) - e[k]
               /\ \A j \in 1 .. Len(d) - e[k] : Message!Rest(d, e[k])[j] = d[e[k] + j]
    BY LaidType
  <2>. QED
    BY <2>1
<1>4. /\ Len(types2) = N + 1 /\ types2[N + 1] = t
      /\ \A k \in 1 .. N : types2[k] = types[k]
  OBVIOUS
<1>5. /\ d2 \in Seq(Bytes) /\ Len(d2) = Len(d) + Len(c)
      /\ \A i \in 1 .. Len(d) : d2[i] = d[i]
      /\ Message!Rest(d2, Len(d)) = c
  BY ConcatBytes, RestOfConcat
<1>. HIDE DEF N, types2, d2
<1>6. \A k \in 0 .. N : f[k] = IF k <= N - 1 THEN e[k] ELSE Len(d) + Len(c)
  OBVIOUS
<1>7. f \in [0 .. N -> 0 .. Len(d2)]
  <2>1. \A k \in 0 .. N : (IF k <= N - 1 THEN e[k] ELSE Len(d) + Len(c)) \in 0 .. Len(d2)
    <3>1. ASSUME NEW k \in 0 .. N, k <= N - 1 PROVE e[k] \in 0 .. Len(d2)
      <4>1. k \in 0 .. N - 1
        BY <1>1, <3>1
      <4>2. e[k] \in 0 .. Len(d)
        BY <1>3, <4>1
      <4>. QED
        BY <1>2, <1>5, <4>2
    <3>. QED
      BY <1>2, <1>5, <3>1
  <2>. QED
    BY <2>1
<1>. HIDE DEF f
<1>8. f[0] = 0 /\ f[N] = Len(d2)
  <2>1. 0 \in 0 .. N /\ 0 <= N - 1 /\ N \in 0 .. N /\ ~ (N <= N - 1)
    BY <1>1
  <2>. QED
    BY <1>1, <1>5, <1>6, <2>1
<1>9. ASSUME NEW k \in 1 .. N
      PROVE  /\ IsArg(types2[k + 1], Message!Rest(d2, f[k - 1]))
             /\ f[k] = f[k - 1] + Message!ArgSize(types2[k + 1], Message!Rest(d2, f[k - 1]))
  <2>1. CASE k = N
    <3>1. k - 1 \in 0 .. N /\ k - 1 <= N - 1 /\ k \in 0 .. N /\ ~ (k <= N - 1)
      BY <1>1, <2>1
    <3>2. f[k - 1] = Len(d)
      BY <1>1, <1>6, <2>1, <3>1
    <3>3. f[k] = Len(d) + Len(c)
      BY <1>6, <3>1
    <3>. QED
      BY <1>4, <1>5, <2>1, <3>2, <3>3, Zenon
  <2>2. CASE k # N
    <3> DEFINE a == e[k - 1]
               r == Message!Rest(d, a)
               r2 == Message!Rest(d2, a)
    <3>1. /\ k \in 1 .. N - 1 /\ k - 1 \in 0 .. N - 1 /\ k + 1 \in 1 .. N
          /\ k - 1 \in 0 .. N /\ k - 1 <= N - 1 /\ k \in 0 .. N /\ k <= N - 1
      BY <1>1, <2>2
    <3>2. f[k - 1] = a /\ f[k] = e[k] /\ types2[k + 1] = types[k + 1]
      BY <1>4, <1>6, <3>1, Zenon
    <3>3. IsArg(types[k + 1], r) /\ e[k] = a + Message!ArgSize(types[k + 1], r)
      BY <1>1, <3>1
    <3>4. /\ a \in 0 .. Len(d) /\ r \in Seq(Bytes) /\ Len(r) = Len(d) - a
          /\ \A j \in 1 .. Len(d) - a : r[j] = d[a + j]
      BY <1>3, <3>1
    <3>. HIDE DEF a
    <3>5. a \in 0 .. Len(d2)
      BY <1>2, <1>5, <3>4
    <3>6. /\ r2 \in Seq(Bytes) /\ Len(r2) = Len(d2) - a
          /\ \A j \in 1 .. Len(d2) - a : r2[j] = d2[a + j]
      BY <1>5, <3>5, RestFacts, Zenon
    <3>. HIDE DEF r, r2
    <3>7. Message!ArgSize(types[k + 1], r) \in 0 .. Len(r)
      BY <3>3, <3>4, ArgFacts, Zenon
    <3>8. Message!ArgSize(types[k + 1], r) <= Len(r2)
      BY <1>2, <1>5, <3>4, <3>6, <3>7
    <3>9. ASSUME NEW j \in 1 .. Message!ArgSize(types[k + 1], r) PROVE r2[j] = r[j]
      <4>1. j \in 1 .. Len(d) - a /\ j \in 1 .. Len(d2) - a /\ a + j \in 1 .. Len(d)
        BY <1>2, <1>5, <3>4, <3>7
      <4>. QED
        BY <1>5, <3>4, <3>6, <4>1, Zenon
    <3>10. /\ IsArg(types[k + 1], r2)
           /\ Message!ArgSize(types[k + 1], r2) = Message!ArgSize(types[k + 1], r)
      BY <3>3, <3>4, <3>6, <3>8, <3>9, ArgIsLocal, Zenon
    <3>. QED
      BY <3>2, <3>3, <3>10 DEF r2
  <2>. QED
    BY <2>1, <2>2
<1>10. Laid(types2, d2, f)
  <2>1. Len(types2) \in Nat \ {0} /\ Len(types2) - 1 = N
    BY <1>1, <1>4
  <2>. QED
    BY <1>7, <1>8, <1>9, <2>1, Zenon DEF Laid
<1>. QED
  BY <1>10 DEF types2, d2

(* lo_message_new, and lo_message_add_* for one value.                     *)
LEMMA NewWellMade == WellMade(Message!New)
<1> DEFINE types == <<Message!Comma>>
           e == [k \in 0 .. 0 |-> 0]
<1>1. /\ types \in Seq(Plain) /\ Len(types) = 1 /\ types[1] = Message!Comma
  BY DEF Plain, Bytes, Message!Comma
<1>2. <<>> \in Seq(Bytes) /\ Len(<<>>) = 0
  OBVIOUS
<1>3. e \in [0 .. 0 -> 0 .. 0] /\ e[0] = 0
  OBVIOUS
<1>. HIDE DEF types, e
<1>4. Laid(types, <<>>, e)
  BY <1>1, <1>2, <1>3 DEF Laid
<1>5. Message!New = [types |-> types, typesize |-> 8, data |-> <<>>, datasize |-> 0,
                     argv |-> <<>>]
  BY DEF Message!New, Message!DefSize, types
<1>. QED
  <2> DEFINE r == Message!New
  <2>1. /\ r = [types |-> r.types, typesize |-> r.typesize, data |-> r.data,
                datasize |-> r.datasize, argv |-> r.argv]
    BY <1>5
  <2>2. r.types = types /\ r.typesize = 8 /\ r.data = <<>> /\ r.argv = <<>>
    BY <1>5
  <2>. HIDE DEF r
  <2>3. Laid(r.types, r.data, e) /\ r.data \in Seq(Bytes)
    BY <1>2, <1>4, <2>2
  <2>4. /\ r.types \in Seq(Plain) /\ Len(r.types) \in Nat \ {0}
        /\ r.types[1] = Message!Comma
        /\ r.typesize \in Nat /\ Len(r.types) + 1 <= r.typesize
    <3>1. r.types \in Seq(Plain) /\ r.types[1] = Message!Comma
      BY <1>1, <2>2, Zenon
    <3>2. Len(r.types) = 1 
      BY <1>1, <2>2, Zenon
    <3>3. r.typesize = 8
      BY <2>2
    <3>. QED
      BY <3>1, <3>2, <3>3
  <2>5. WellMade(r)
    BY <2>1, <2>2, <2>3, <2>4 DEF WellMade
  <2>. QED
    BY <2>5 DEF r

(* What adding an argument makes of a message, field by field.             *)
LEMMA AddArgIs ==
  ASSUME NEW msg, WellMade(msg), NEW t, NEW x
  PROVE  LET r == Message!AddArg(msg, t, x)
         IN  /\ r = [types |-> r.types, typesize |-> r.typesize, data |-> r.data,
                     datasize |-> r.datasize, argv |-> r.argv]
             /\ r.types = Append(msg.types, t) /\ r.data = msg.data \o Added(t, x)
             /\ r.argv = <<>>
             /\ r.typesize = CASE Len(msg.types) + 1 < msg.typesize -> msg.typesize
                               [] Len(msg.types) + 1 >= msg.typesize /\ msg.typesize # 0 ->
                                    2 * msg.typesize
                               [] OTHER -> Message!DefSize
<1>1. PICK ty, ts, da, ds, av :
        msg = [types |-> ty, typesize |-> ts, data |-> da, datasize |-> ds, argv |-> av]
  BY DEF WellMade
<1>2. da \in Seq(Bytes)
  BY <1>1 DEF WellMade
<1>3. CASE t \in Message!Sizeless
  <2>1. da \o <<>> = da
    BY <1>2
  <2>2. Message!AddArg(msg, t, x) = Message!AddTypechar(msg, t)
    BY <1>3 DEF Message!AddArg
  <2>3. Added(t, x) = <<>>
    BY <1>3 DEF Added
  <2>. QED
    BY <1>1, <2>1, <2>2, <2>3, Zenon DEF Message!AddTypechar
<1>4. CASE t \notin Message!Sizeless
  <2> DEFINE c == Message!Contents(t, x)
             msg2 == Message!AddData(msg, c)
  <2>1. PICK ds2 : msg2 = [types |-> ty, typesize |-> ts, data |-> da \o c,
                           datasize |-> ds2, argv |-> <<>>]
    <3> DEFINE old == IF msg.datasize = 0 THEN Message!DefSize ELSE msg.datasize
               ds3 == Message!Pow2Over(old, Len(msg.data) + Len(c))
    <3>1. msg2 = [msg EXCEPT !.data = @ \o c, !.argv = <<>>, !.datasize = ds3]
      BY Zenon DEF Message!AddData
    <3>. HIDE DEF ds3, msg2, c
    <3>2. msg2 = [types |-> ty, typesize |-> ts, data |-> da \o c, datasize |-> ds3,
                  argv |-> <<>>]
      BY <1>1, <3>1, Zenon
    <3>. QED
      BY <3>2, Zenon
  <2>2. Message!AddArg(msg, t, x) = Message!AddTypechar(msg2, t)
    BY <1>4 DEF Message!AddArg
  <2>3. Added(t, x) = c
    BY <1>4 DEF Added
  <2>. HIDE DEF msg2, c
  <2> DEFINE size == CASE Len(ty) + 1 < ts -> ts
                       [] Len(ty) + 1 >= ts /\ ts # 0 -> 2 * ts
                       [] OTHER -> Message!DefSize
             r == Message!AddArg(msg, t, x)
  <2>4. r = [types |-> Append(ty, t), typesize |-> size, data |-> da \o c,
             datasize |-> ds2, argv |-> <<>>]
    BY <2>1, <2>2, Zenon DEF Message!AddTypechar
  <2>5. msg.types = ty /\ msg.typesize = ts /\ msg.data = da
    BY <1>1
  <2>. HIDE DEF size, r
  <2>6. /\ r.types = Append(ty, t) /\ r.typesize = size /\ r.data = da \o c
        /\ r.datasize = ds2 /\ r.argv = <<>>
    BY <2>4
  <2>. QED
    BY <2>3, <2>4, <2>5, <2>6, Zenon DEF r, size
<1>. QED
  BY <1>3, <1>4

(* An argument more leaves a message well made.                            *)
LEMMA AddArgWellMade ==
  ASSUME NEW msg, WellMade(msg), NEW t \in Message!Types, NEW x, IsValue(t, x)
  PROVE  WellMade(Message!AddArg(msg, t, x))
<1> DEFINE r == Message!AddArg(msg, t, x)
           types == msg.types
           size == msg.typesize
<1>1. /\ r = [types |-> r.types, typesize |-> r.typesize, data |-> r.data,
              datasize |-> r.datasize, argv |-> r.argv]
      /\ r.types = Append(types, t) /\ r.data = msg.data \o Added(t, x)
      /\ r.argv = <<>>
      /\ r.typesize = CASE Len(types) + 1 < size -> size
                        [] Len(types) + 1 >= size /\ size # 0 -> 2 * size
                        [] OTHER -> Message!DefSize
  BY AddArgIs
<1>2. /\ types \in Seq(Plain) /\ Len(types) \in Nat \ {0} /\ types[1] = Message!Comma
      /\ size \in Nat /\ Len(types) + 1 <= size /\ msg.data \in Seq(Bytes)
  BY DEF WellMade
<1>3. PICK e : Laid(types, msg.data, e)
  BY DEF WellMade
<1>4. t \in Plain
  BY TypeKinds DEF Plain
<1>5. /\ Added(t, x) \in Seq(Bytes) /\ IsArg(t, Added(t, x))
      /\ Message!ArgSize(t, Added(t, x)) = Len(Added(t, x))
  BY AddedFacts
<1>. HIDE DEF r, types, size
<1>6. \E f : Laid(r.types, r.data, f)
  BY <1>1, <1>2, <1>3, <1>4, <1>5, LaidAppend
<1>7. r.data \in Seq(Bytes)
  BY <1>1, <1>2, <1>5, ConcatBytes
<1>8. /\ r.types \in Seq(Plain) /\ Len(r.types) = Len(types) + 1
      /\ r.types[1] = Message!Comma
  BY <1>1, <1>2, <1>4
<1>9. Len(r.types) \in Nat \ {0}
  BY <1>2, <1>8
<1>10. r.typesize \in Nat /\ Len(r.types) + 1 <= r.typesize
  <2>1. CASE Len(types) + 1 < size
    BY <1>1, <1>2, <1>8, <2>1
  <2>2. CASE Len(types) + 1 = size
    <3>1. r.typesize = 2 * size
      BY <1>1, <1>2, <2>2
    <3>. QED
      BY <1>2, <1>8, <2>2, <3>1
  <2>. QED
    BY <1>2, <2>1, <2>2
<1>. QED
  BY <1>1, <1>6, <1>7, <1>8, <1>9, <1>10, Zenon DEF WellMade, r

(* lo_message_add_varargs_internal: what it does with one type character.  *)
WithArg(types, given, k, msg) ==
  IF types[k] \in Message!Types THEN Message!AddArg(msg, types[k], given[types[k]]) ELSE msg

Builds(f, types, given, msg, n) ==
  f = [k \in 0 .. n |-> IF k = 0 THEN msg ELSE WithArg(types, given, k, f[k - 1])]

(* The recursion over the types of lo_message_add_varargs has a solution.  *)
LEMMA StepsExist ==
  ASSUME NEW types, NEW given, NEW msg, NEW n \in Nat
  PROVE  \E f : Builds(f, types, given, msg, n)
<1> DEFINE P(f, m) == f = [k \in 0 .. m |->
                             IF k = 0 THEN msg ELSE WithArg(types, given, k, f[k - 1])]
           S == {m \in Nat : \E f : P(f, m)}
<1>1. 0 \in S
  <2> DEFINE f == [k \in 0 .. 0 |-> msg]
  <2>1. f = [k \in 0 .. 0 |-> IF k = 0 THEN msg ELSE WithArg(types, given, k, f[k - 1])]
    <3>1. \A k \in 0 .. 0 : k = 0
      OBVIOUS
    <3>. QED
      BY <3>1
  <2>. HIDE DEF f
  <2>. QED
    BY <2>1
<1>2. ASSUME NEW m \in Nat, m \in S PROVE m + 1 \in S
  <2>1. PICK f : P(f, m)
    BY <1>2
  <2> DEFINE g == [k \in 0 .. m + 1 |->
                     IF k <= m THEN f[k] ELSE WithArg(types, given, m + 1, f[m])]
  <2>2. ASSUME NEW k \in 0 .. m + 1
        PROVE  g[k] = IF k = 0 THEN msg ELSE WithArg(types, given, k, g[k - 1])
    <3>1. CASE k = 0
      <4>1. 0 \in 0 .. m /\ 0 \in 0 .. m + 1 /\ 0 <= m
        OBVIOUS
      <4>2. g[0] = f[0] /\ f[0] = msg
        BY <2>1, <4>1
      <4>. QED
        BY <3>1, <4>2
    <3>2. CASE k # 0
      <4>1. k - 1 \in 0 .. m /\ k - 1 \in 0 .. m + 1 /\ k - 1 <= m
        BY <3>2
      <4>2. g[k - 1] = f[k - 1]
        BY <4>1
      <4>3. CASE k <= m
        <5>1. k \in 0 .. m
          BY <4>3
        <5>2. f[k] = WithArg(types, given, k, f[k - 1])
          BY <2>1, <3>2, <5>1
        <5>3. g[k] = f[k]
          BY <4>3
        <5>. QED
          BY <3>2, <4>2, <5>2, <5>3
      <4>4. CASE k = m + 1
        <5>1. g[k] = WithArg(types, given, m + 1, f[m]) /\ k - 1 = m
          BY <4>4
        <5>. QED
          BY <3>2, <4>2, <4>4, <5>1
      <4>. QED
        BY <4>3, <4>4
    <3>. QED
      BY <3>1, <3>2
  <2>3. g = [k \in 0 .. m + 1 |-> g[k]]
    OBVIOUS
  <2>. HIDE DEF g
  <2>4. P(g, m + 1)
    BY <2>2, <2>3, Zenon
  <2>. QED
    BY <2>4
<1>3. n \in S
  <2>. HIDE DEF S
  <2>. QED
    BY <1>1, <1>2, SetInduction
<1>. QED
  BY <1>3 DEF Builds

(* lo_message_add_varargs leaves a message well made.                      *)
LEMMA AddVarargsWellMade ==
  ASSUME NEW msg, WellMade(msg), NEW ts, NEW given, Len(Message!Given(ts)) \in Nat,
         \A k \in 1 .. Len(Message!Given(ts)) :
           LET t == Message!Given(ts)[k] IN t \in Message!Types => IsValue(t, given[t])
  PROVE  WellMade(Message!AddVarargs(msg, ts, given))
<1> DEFINE types == Message!Given(ts)
           N == Len(types)
           u == CHOOSE f : f = [k \in 0 .. N |->
                                  IF k = 0 THEN msg ELSE WithArg(types, given, k, f[k - 1])]
<1>1. N \in Nat /\ \A k \in 1 .. N : types[k] \in Message!Types =>
                     IsValue(types[k], given[types[k]])
  OBVIOUS
<1>2. Message!AddVarargs(msg, ts, given) = u[N]
  BY Zenon DEF Message!AddVarargs, WithArg
<1>. HIDE DEF types, N
<1>3. u = [k \in 0 .. N |-> IF k = 0 THEN msg ELSE WithArg(types, given, k, u[k - 1])]
  <2>1. \E f : f = [k \in 0 .. N |->
                      IF k = 0 THEN msg ELSE WithArg(types, given, k, f[k - 1])]
    <3>1. N \in Nat
      BY <1>1
    <3>2. PICK f : Builds(f, types, given, msg, N)
      BY <3>1, StepsExist, Zenon
    <3>. QED
      BY <3>2, Zenon DEF Builds
  <2>. QED
    BY <2>1, Zenon
<1>. HIDE DEF u
<1>4. u[0] = msg /\ \A k \in 1 .. N : u[k] = WithArg(types, given, k, u[k - 1])
  BY <1>1, <1>3
<1> DEFINE S == {k \in Nat : k <= N => WellMade(u[k])}
<1>5. 0 \in S
  BY <1>4
<1>6. ASSUME NEW k \in Nat, k \in S PROVE k + 1 \in S
  <2>. SUFFICES ASSUME k + 1 <= N PROVE WellMade(u[k + 1])
    OBVIOUS
  <2>1. k + 1 \in 1 .. N /\ (k + 1) - 1 = k /\ WellMade(u[k])
    BY <1>1, <1>6
  <2>2. u[k + 1] = WithArg(types, given, k + 1, u[k])
    BY <1>4, <2>1
  <2>3. CASE types[k + 1] \in Message!Types
    BY <1>1, <2>1, <2>2, <2>3, AddArgWellMade DEF WithArg
  <2>4. CASE types[k + 1] \notin Message!Types
    BY <2>1, <2>2, <2>4 DEF WithArg
  <2>. QED
    BY <2>3, <2>4
<1>7. N \in S
  <2>. HIDE DEF S
  <2>. QED
    BY <1>1, <1>5, <1>6, SetInduction
<1>. QED
  BY <1>1, <1>2, <1>7

(* The types that lo_message_add_varargs reads begin the string.           *)
LEMMA GivenFacts ==
  ASSUME NEW ts \in Seq(Nat)
  PROVE  /\ Len(Message!Given(ts)) \in 0 .. Len(ts)
         /\ \A k \in 1 .. Len(Message!Given(ts)) : Message!Given(ts)[k] = ts[k]
<1> DEFINE D == Message!Dollars(ts)
           first == CHOOSE k \in D : \A l \in D : k <= l
<1>1. CASE D = {}
  BY <1>1 DEF Message!Given
<1>2. CASE D # {}
  <2>1. D \in SUBSET Nat /\ D \subseteq 1 .. Len(ts) - 1
    BY DEF Message!Dollars
  <2>2. \E k \in D : \A l \in D : k <= l
    BY <1>2, <2>1, NatLeast, Zenon
  <2>3. first \in D
    BY <2>2
  <2>4. Message!Given(ts) = SubSeq(ts, 1, first - 1)
    BY <1>2, Zenon DEF Message!Given
  <2>. HIDE DEF first, D
  <2>5. first - 1 \in 0 .. Len(ts)
    BY <2>1, <2>3
  <2>. QED
    BY <2>4, <2>5
<1>. QED
  BY <1>1, <1>2

(* There is a value for each known type of a string of types.              *)
LEMMA ChosenFacts ==
  ASSUME NEW ts \in TypeStrings, NEW k \in 1 .. Len(ts), ts[k] \in Message!Types
  PROVE  IsValue(ts[k], Message!Chosen[ts[k]])
<1> DEFINE v == CHOOSE w \in Values : w[1] = ts[k]
<1>1. \E w \in Values : w[1] = ts[k]
  BY CodecAssumption
<1>2. v \in Values /\ v[1] = ts[k]
  BY <1>1
<1>3. Message!Chosen[ts[k]] = v[2]
  BY Zenon DEF Message!Chosen
<1>. HIDE DEF v
<1>4. IsValue(v[1], v[2])
  BY <1>2, CodecAssumption
<1>. QED
  BY <1>2, <1>3, <1>4

(* lo_message_get_argv and lo_message_clone.                               *)
LEMMA ArgvWellMade ==
  ASSUME NEW msg, WellMade(msg),
         NEW av, av = <<>> \/ av = Message!Offsets(msg.types, msg.data)
  PROVE  WellMade([msg EXCEPT !.argv = av])
<1>1. PICK ty, ts, da, ds, old :
        msg = [types |-> ty, typesize |-> ts, data |-> da, datasize |-> ds, argv |-> old]
  BY DEF WellMade
<1> DEFINE r == [msg EXCEPT !.argv = av]
<1>2. r = [types |-> ty, typesize |-> ts, data |-> da, datasize |-> ds, argv |-> av]
  BY <1>1
<1>3. r = [types |-> r.types, typesize |-> r.typesize, data |-> r.data,
           datasize |-> r.datasize, argv |-> r.argv]
  BY <1>2
<1>4. /\ r.types = msg.types /\ r.typesize = msg.typesize /\ r.data = msg.data
      /\ r.argv = av
  BY <1>1, <1>2
<1>. HIDE DEF r
<1>5. WellMade(r)
  BY <1>3, <1>4, Zenon DEF WellMade
<1>. QED
  BY <1>5 DEF r

-----------------------------------------------------------------------------
(* Every message that is built, or accepted from a packet, is well made.   *)
MessagesWellMade ==
  /\ built = Message!NoMessage \/ WellMade(built)
  /\ datagram \in Seq(Bytes)

(* Initially there is no message that could be ill made.                   *)
LEMMA MessagesStart ==
  ASSUME Message!Init
  PROVE  MessagesWellMade
<1>1. <<>> \in Seq(Bytes)
  OBVIOUS
<1>. QED
  BY <1>1 DEF Message!Init, MessagesWellMade

(* Every step leaves the messages well made.                               *)
LEMMA MessagesStep ==
  ASSUME MessagesWellMade, [Message!Next]_(Message!vars)
  PROVE  MessagesWellMade'
<1>1. built = Message!NoMessage \/ WellMade(built)
  BY DEF MessagesWellMade
<1>2. datagram \in Seq(Bytes)
  BY DEF MessagesWellMade
<1>. SUFFICES /\ built' = Message!NoMessage \/ WellMade(built')
              /\ datagram' \in Seq(Bytes)
  BY Zenon DEF MessagesWellMade, WellMade, Laid, IsArg
<1>3. CASE UNCHANGED Message!vars
  BY <1>1, <1>2, <1>3 DEF Message!vars
<1>4. CASE Message!NewMessage
  BY <1>2, <1>4, NewWellMade DEF Message!NewMessage
<1>5. CASE Message!Add
  <2>1. PICK v \in Values :
          built' = Message!AddArg(built, v[1], v[2]) /\ datagram' = datagram
    BY <1>5 DEF Message!Add, Message!Becomes
  <2>2. WellMade(built)
    BY <1>1, <1>5 DEF Message!Add, Message!Room
  <2>3. v[1] \in Message!Types /\ IsValue(v[1], v[2])
    BY CodecAssumption
  <2>. QED
    BY <1>2, <2>1, <2>2, <2>3, AddArgWellMade
<1>6. CASE Message!AddMany
  <2>1. PICK ts \in TypeStrings :
          built' = Message!AddVarargs(built, ts, Message!Chosen) /\ datagram' = datagram
    BY <1>6 DEF Message!AddMany, Message!Becomes
  <2>2. WellMade(built)
    BY <1>1, <1>6 DEF Message!AddMany, Message!Room
  <2>3. ts \in Seq(Nat)
    BY CodecAssumption
  <2>4. /\ Len(Message!Given(ts)) \in Nat
        /\ \A k \in 1 .. Len(Message!Given(ts)) :
             k \in 1 .. Len(ts) /\ Message!Given(ts)[k] = ts[k]
    <3>1. /\ Len(Message!Given(ts)) \in 0 .. Len(ts)
          /\ \A k \in 1 .. Len(Message!Given(ts)) : Message!Given(ts)[k] = ts[k]
      BY <2>3, GivenFacts
    <3>. QED
      BY <2>3, <3>1
  <2>5. ASSUME NEW k \in 1 .. Len(Message!Given(ts)),
               Message!Given(ts)[k] \in Message!Types
        PROVE  IsValue(Message!Given(ts)[k], Message!Chosen[Message!Given(ts)[k]])
    BY <2>4, <2>5, ChosenFacts
  <2>6. WellMade(Message!AddVarargs(built, ts, Message!Chosen))
    BY <2>2, <2>4, <2>5, AddVarargsWellMade
  <2>. QED
    BY <1>2, <2>1, <2>6
<1>7. CASE Message!LookAt
  <2>1. WellMade(built) /\ built' = Message!GetArgv(built) /\ datagram' = datagram
    BY <1>1, <1>7 DEF Message!LookAt, Message!Becomes
  <2>2. WellMade(Message!GetArgv(built))
    BY <2>1, ArgvWellMade DEF Message!GetArgv
  <2>. QED
    BY <1>2, <2>1, <2>2
<1>8. CASE Message!Copy
  <2>1. WellMade(built) /\ built' = Message!Clone(built) /\ datagram' = datagram
    BY <1>1, <1>8 DEF Message!Copy, Message!Becomes
  <2>2. WellMade(Message!Clone(built))
    BY <2>1, ArgvWellMade DEF Message!Clone
  <2>. QED
    BY <1>2, <2>1, <2>2
<1>9. CASE Message!Free
  BY <1>2, <1>9 DEF Message!Free, Message!Becomes
<1>10. CASE Message!Send
  <2>1. WellMade(built) /\ built' = Message!NoMessage
    BY <1>1, <1>10 DEF Message!Send
  <2>2. PICK addr \in Destinations : datagram' = Message!Serialise(built, addr)
    BY <1>10 DEF Message!Send
  <2>3. addr \in Seq(Plain)
    BY CodecAssumption DEF Plain
  <2>. QED
    BY <2>1, <2>2, <2>3, Received
<1>11. CASE Message!Truncate
  <2>1. PICK k \in 0 .. Len(datagram) - 1 :
          datagram' = SubSeq(datagram, 1, k) /\ built' = built
    BY <1>11 DEF Message!Truncate, Message!Damaged
  <2>2. SubSeq(datagram, 1, k) \in Seq(Bytes)
    BY <1>2
  <2>. QED
    BY <1>1, <2>1, <2>2
<1>12. CASE Message!Damage
  <2>1. PICK k \in DOMAIN datagram, x \in Noise :
          datagram' = [datagram EXCEPT ![k] = x] /\ built' = built
    BY <1>12, Zenon DEF Message!Damage, Message!Damaged
  <2>2. x \in Bytes
    BY CodecAssumption
  <2>3. [datagram EXCEPT ![k] = x] \in Seq(Bytes)
    BY <1>2, <2>2
  <2>. QED
    BY <1>1, <2>1, <2>3
<1>13. CASE Message!Receive
  <2>1. built' = Message!Deserialise(datagram) /\ datagram' = <<>>
    BY <1>13 DEF Message!Receive
  <2>2. <<>> \in Seq(Bytes)
    OBVIOUS
  <2>. QED
    BY <1>2, <2>1, <2>2, Accepted
<1>. QED
  BY <1>3, <1>4, <1>5, <1>6, <1>7, <1>8, <1>9, <1>10, <1>11, <1>12, <1>13 DEF Message!Next

(* Every message is well made.                                             *)
LEMMA MessagesInvariant == Message!Spec => []MessagesWellMade
BY MessagesStart, MessagesStep, PTL DEF Message!Spec

(* The string of types never outgrows its allocation, its terminator       *)
(* included (lo_message_add_typechar), and the pointers that               *)
(* lo_message_get_argv hands out again are those of the arguments there    *)
(* are: of every message that is built in any order of calls, or received. *)
THEOREM MessageBuiltSafely == Message!Spec => []MessageFits
<1>1. MessagesWellMade => MessageFits
  BY DEF MessagesWellMade, MessageFits, Message!TypesFit, Message!ArgvFresh, WellMade
<1>. QED
  BY <1>1, MessagesInvariant, PTL

(* A server that validates the packet of any message makes the message     *)
(* that was sent of it, whatever its types, arguments and path; and a      *)
(* packet that it accepts, however damaged, is the one it would send on    *)
(* (lo_message_serialise, lo_message_deserialise, lo_validate_arg).        *)
THEOREM MessagesRoundTrip == Message!Spec => []RoundTrips
<1>1. MessagesWellMade => RoundTrips
  <2>. SUFFICES ASSUME MessagesWellMade PROVE RoundTrips
    OBVIOUS
  <2>1. Message!RoundTrip
    <3>. SUFFICES ASSUME built # Message!NoMessage, NEW addr \in Destinations
                  PROVE  LET p == Message!Serialise(built, addr)
                             r == Message!Deserialise(p)
                         IN  /\ Len(p) = Message!Length(built, addr)
                             /\ r.types = built.types /\ r.data = built.data
                             /\ Message!PathOf(p) = addr
                             /\ r.argv = Message!Offsets(built.types, built.data)
      BY DEF Message!RoundTrip
    <3>1. WellMade(built)
      BY DEF MessagesWellMade
    <3>2. addr \in Seq(Plain)
      BY CodecAssumption DEF Plain
    <3>. QED
      BY <3>1, <3>2, Received
  <2>2. Message!Canonical
    BY Accepted DEF Message!Canonical, MessagesWellMade
  <2>. QED
    BY <2>1, <2>2 DEF RoundTrips
<1>. QED
  BY <1>1, MessagesInvariant, PTL

-----------------------------------------------------------------------------
(* Recursive functions.                                                    *)

Solves(h, D, X, B) == h \in [D -> X] /\ \A x \in D : h[x] = B[x][h]

(* A recursion that descends to arguments of a smaller measure has a       *)
(* solution.                                                               *)
LEMMA Descends ==
  ASSUME NEW D, NEW X, X # {}, NEW m \in [D -> Nat], NEW B \in [D -> [[D -> X] -> X]],
         \A x \in D : \A f, g \in [D -> X] :
           (\A y \in D : m[y] < m[x] => f[y] = g[y]) => B[x][f] = B[x][g]
  PROVE  \E h : Solves(h, D, X, B)
<1> DEFINE Below(h, n) == h \in [D -> X] /\ \A x \in D : m[x] < n => h[x] = B[x][h]
           S == {n \in Nat : \E h : Below(h, n)}
           T == {n \in Nat : \A g, h : Below(g, n) /\ Below(h, n) =>
                               \A x \in D : m[x] < n => g[x] = h[x]}
<1>0. \A x \in D : m[x] \in Nat
  OBVIOUS
<1>1. Nat \subseteq S
  <2>1. 0 \in S
    <3>1. PICK b \in X : TRUE
      OBVIOUS
    <3> DEFINE h == [x \in D |-> b]
    <3>2. h \in [D -> X]
      OBVIOUS
    <3>. HIDE DEF h
    <3>3. \A x \in D : ~ (m[x] < 0)
      BY <1>0
    <3>4. Below(h, 0)
      BY <3>2, <3>3
    <3>. QED
      BY <3>4
  <2>2. ASSUME NEW n \in Nat, n \in S PROVE n + 1 \in S
    <3>1. PICK h : Below(h, n)
      BY <2>2
    <3> DEFINE g == [x \in D |-> B[x][h]]
    <3>2. g \in [D -> X] /\ \A x \in D : g[x] = B[x][h]
      BY <3>1
    <3>. HIDE DEF g
    <3>3. ASSUME NEW x \in D, m[x] < n + 1 PROVE g[x] = B[x][g]
      <4>1. ASSUME NEW y \in D, m[y] < m[x] PROVE h[y] = g[y]
        <5>1. m[y] < n
          BY <1>0, <3>3, <4>1
        <5>. QED
          BY <3>1, <3>2, <5>1, Zenon
      <4>2. B[x][h] = B[x][g]
        BY <3>1, <3>2, <4>1, Zenon
      <4>. QED
        BY <3>2, <4>2
    <3>4. Below(g, n + 1)
      BY <3>2, <3>3
    <3>. QED
      BY <3>4
  <2>. HIDE DEF S
  <2>. QED
    BY <2>1, <2>2, SetInduction
<1>2. Nat \subseteq T
  <2>1. 0 \in T
    BY <1>0
  <2>2. ASSUME NEW n \in Nat, n \in T PROVE n + 1 \in T
    <3>. SUFFICES ASSUME NEW g, NEW h, Below(g, n + 1), Below(h, n + 1),
                         NEW x \in D, m[x] < n + 1
                  PROVE  g[x] = h[x]
      OBVIOUS
    <3>1. Below(g, n) /\ Below(h, n)
      BY <1>0
    <3>2. \A y \in D : m[y] < n => g[y] = h[y]
      BY <2>2, <3>1
    <3>3. \A y \in D : m[y] < m[x] => g[y] = h[y]
      BY <1>0, <3>2
    <3>4. B[x][g] = B[x][h]
      BY <3>3, Zenon
    <3>. QED
      BY <3>4
  <2>. HIDE DEF T
  <2>. QED
    BY <2>1, <2>2, SetInduction
<1> DEFINE At(n) == CHOOSE h : Below(h, n)
           h == [x \in D |-> At(m[x] + 1)[x]]
<1>3. ASSUME NEW n \in Nat PROVE Below(At(n), n)
  <2>1. n \in S
    BY <1>1, Zenon
  <2>2. \E g : Below(g, n)
    BY <2>1
  <2>. HIDE DEF Below
  <2>. QED
    BY <2>2
<1>4. \A x \in D : m[x] + 1 \in Nat
  BY <1>0
<1>. HIDE DEF At
<1>5. ASSUME NEW x \in D PROVE At(m[x] + 1)[x] \in X /\ At(m[x] + 1)[x] = B[x][At(m[x] + 1)]
  <2>1. m[x] \in Nat /\ m[x] + 1 \in Nat /\ m[x] < m[x] + 1
    BY <1>0
  <2>2. Below(At(m[x] + 1), m[x] + 1)
    <3>. HIDE DEF Below
    <3>. QED
      BY <1>3, <2>1
  <2>3. At(m[x] + 1) \in [D -> X]
    BY <2>2
  <2>4. At(m[x] + 1)[x] = B[x][At(m[x] + 1)]
    BY <2>1, <2>2
  <2>. QED
    BY <2>3, <2>4
<1>6. h \in [D -> X] /\ \A x \in D : h[x] = At(m[x] + 1)[x]
  BY <1>5
<1>. HIDE DEF h
<1>7. ASSUME NEW x \in D PROVE h[x] = B[x][h]
  <2> DEFINE f == At(m[x] + 1)
  <2>1. Below(f, m[x] + 1)
    BY <1>3, <1>4
  <2>2. ASSUME NEW y \in D, m[y] < m[x] PROVE h[y] = f[y]
    <3> DEFINE k == m[y] + 1
    <3>1. k \in Nat /\ \A z \in D : m[z] < k => m[z] < m[x] + 1
      BY <1>0, <2>2
    <3>2. Below(f, k)
      BY <2>1, <3>1
    <3>3. Below(At(k), k)
      BY <1>3, <3>1
    <3>4. m[y] < k
      BY <1>0
    <3>5. k \in T
      BY <1>2, <3>1, Zenon
    <3>. HIDE DEF f, k
    <3>6. f[y] = At(k)[y]
      <4>. HIDE DEF Below
      <4>. QED
        BY <3>2, <3>3, <3>4, <3>5
    <3>. QED
      BY <1>6, <3>6 DEF k
  <2>3. f \in [D -> X]
    BY <2>1
  <2>4. B[x][h] = B[x][f]
    <3>. HIDE DEF f
    <3>. QED
      BY <1>6, <2>2, <2>3, Zenon
  <2>. QED
    BY <1>5, <1>6, <2>4
<1>. QED
  BY <1>6, <1>7 DEF Solves

-----------------------------------------------------------------------------
(* Patterns and paths.                                                     *)

(* A suffix that is not empty, element by element.                         *)
LEMMA SuffixHead ==
  ASSUME NEW X, NEW s \in Seq(X), NEW k \in 0 .. Len(s) - 1
  PROVE  /\ Suffix(s, k) # <<>> /\ Head(Suffix(s, k)) = s[k + 1]
         /\ Tail(Suffix(s, k)) = Suffix(s, k + 1)
<1>1. k \in 0 .. Len(s) /\ 1 \in 0 .. Len(s) - k
  OBVIOUS
<1>2. /\ Suffix(s, k) \in Seq(X) /\ Len(Suffix(s, k)) = Len(s) - k
      /\ \A j \in 1 .. Len(s) - k : Suffix(s, k)[j] = s[k + j]
  BY <1>1, SuffixFacts, Zenon
<1>3. Suffix(s, k) # <<>>
  BY <1>2
<1>4. Head(Suffix(s, k)) = Suffix(s, k)[1] /\ Tail(Suffix(s, k)) = Suffix(Suffix(s, k), 1)
  BY <1>2, <1>3, SuffixEnds
<1>5. Suffix(Suffix(s, k), 1) = Suffix(s, k + 1)
  BY <1>1, SuffixOfSuffix
<1>. QED
  BY <1>2, <1>3, <1>4, <1>5

(* From: the suffix at the first element of a set, if there is one.        *)
LEMMA FromIs ==
  ASSUME NEW X, NEW q \in Seq(X), NEW S
  PROVE  \/ Pattern!From(q, S) = <<>> /\ \A k \in 1 .. Len(q) : q[k] \notin S
         \/ \E k \in 0 .. Len(q) - 1 :
              /\ Pattern!From(q, S) = Suffix(q, k) /\ q[k + 1] \in S
              /\ \A j \in 1 .. k : q[j] \notin S
<1> DEFINE found == {k \in DOMAIN q : q[k] \in S}
           first == CHOOSE k \in found : \A l \in found : k <= l
<1>0. Pattern!From(q, S) = IF found = {} THEN <<>> ELSE SubSeq(q, first, Len(q))
  BY DEF Pattern!From
<1>1. found \in SUBSET Nat /\ DOMAIN q = 1 .. Len(q)
  OBVIOUS
<1>2. CASE found = {}
  BY <1>0, <1>1, <1>2
<1>3. CASE found # {}
  <2>1. \E k \in found : \A l \in found : k <= l
    BY <1>1, <1>3, NatLeast, Zenon
  <2>2. first \in found /\ \A l \in found : first <= l
    BY <2>1
  <2>3. Pattern!From(q, S) = SubSeq(q, first, Len(q))
    BY <1>0, <1>3, Zenon
  <2>. HIDE DEF first
  <2>4. first \in 1 .. Len(q) /\ q[first] \in S
    BY <2>2
  <2>5. first - 1 \in 0 .. Len(q) - 1 /\ (first - 1) + 1 = first
    BY <2>4
  <2>6. ASSUME NEW j \in 1 .. first - 1 PROVE q[j] \notin S
    <3>1. j \in 1 .. Len(q) /\ ~ (first <= j)
      BY <2>4
    <3>. QED
      BY <1>1, <2>2, <3>1
  <2>7. Pattern!From(q, S) = Suffix(q, first - 1)
    BY <2>3, <2>5, Zenon DEF Suffix
  <2>. QED
    BY <2>4, <2>5, <2>6, <2>7
<1>. QED
  BY <1>2, <1>3

(* From and what follows is no longer than where it starts.                *)
LEMMA FromFacts ==
  ASSUME NEW X, NEW q \in Seq(X), NEW S
  PROVE  LET f == Pattern!From(q, S)
         IN  /\ f \in Seq(X) /\ Len(f) <= Len(q)
             /\ f # <<>> => Head(f) \in S /\ Tail(f) \in Seq(X) /\ Len(Tail(f)) < Len(q)
<1> DEFINE f == Pattern!From(q, S)
<1>1. CASE f = <<>>
  BY <1>1
<1>2. CASE f # <<>>
  <2>1. PICK k \in 0 .. Len(q) - 1 : f = Suffix(q, k) /\ q[k + 1] \in S
    BY <1>2, FromIs
  <2>2. k \in 0 .. Len(q) /\ Len(q) \in Nat
    OBVIOUS
  <2>. HIDE DEF f
  <2>3. f \in Seq(X) /\ Len(f) = Len(q) - k
    BY <2>1, <2>2, SuffixFacts
  <2>4. Head(f) = q[k + 1]
    BY <2>1, SuffixHead
  <2>5. Tail(f) \in Seq(X) /\ Len(Tail(f)) = Len(f) - 1
    BY <1>2, <2>3, SuffixEnds
  <2>6. Len(f) <= Len(q) /\ Len(Tail(f)) < Len(q)
    BY <2>2, <2>3, <2>5
  <2>. QED
    BY <2>1, <2>3, <2>4, <2>5, <2>6 DEF f
<1>. QED
  BY <1>1, <1>2

(* Scan: one turn of its loop, over the rest r of a set.                   *)
ScanStep(ch, scan, r) ==
  LET bad == [ok |-> FALSE, match |-> FALSE, rest |-> <<>>]
      At(m, x) == [ok |-> TRUE, match |-> m, rest |-> x]
      c == Head(r)
      p == Tail(r)
      last == Head(Tail(p))
  IN  IF Len(r) < 2 \/ (Head(p) = "-" /\ Len(p) = 1) THEN bad
      ELSE IF Head(p) = "-" /\ last = "]" THEN At(Pattern!Ord(ch) >= Pattern!Ord(c), Tail(p))
      ELSE IF Head(p) = "-"
      THEN IF \/ ch \in {c, last}
              \/ Pattern!Ord(c) < Pattern!Ord(ch) /\ Pattern!Ord(ch) < Pattern!Ord(last)
           THEN At(TRUE, Tail(p)) ELSE scan[Tail(p)]
      ELSE IF ch # c /\ Head(p) = "]" THEN At(FALSE, p)
      ELSE IF ch \in {c, Head(p)} THEN At(TRUE, p) ELSE scan[p]

Scans(ch, scan) == scan = [r \in Pattern!Strings |-> ScanStep(ch, scan, r)]

Scanned == [ok : BOOLEAN, match : BOOLEAN, rest : Pattern!Strings]

(* What a turn of the loop can come to.                                    *)
LEMMA ScanSteps ==
  ASSUME NEW ch, NEW r \in Pattern!Strings
  PROVE  \/ \E o \in BOOLEAN, m \in BOOLEAN, t \in Pattern!Strings :
              /\ Len(t) <= Len(r)
              /\ \A f : ScanStep(ch, f, r) = [ok |-> o, match |-> m, rest |-> t]
         \/ \E t \in Pattern!Strings :
              Len(t) < Len(r) /\ \A f : ScanStep(ch, f, r) = f[t]
<1> DEFINE p == Tail(r)
           last == Head(Tail(p))
<1>1. CASE Len(r) < 2 \/ (Head(p) = "-" /\ Len(p) = 1)
  <2>1. \A f : ScanStep(ch, f, r) = [ok |-> FALSE, match |-> FALSE, rest |-> <<>>]
    BY <1>1 DEF ScanStep
  <2>2. <<>> \in Pattern!Strings /\ Len(<<>>) <= Len(r)
    BY DEF Pattern!Strings
  <2>. QED
    BY <2>1, <2>2, Zenon
<1>2. CASE ~ (Len(r) < 2 \/ (Head(p) = "-" /\ Len(p) = 1))
  <2>1. Len(r) \in Nat /\ r # <<>> /\ p \in Pattern!Strings /\ Len(p) = Len(r) - 1 /\ p # <<>>
    <3>1. Len(r) \in Nat /\ ~ (Len(r) < 2)
      BY <1>2 DEF Pattern!Strings
    <3>2. r # <<>>
      BY <3>1
    <3>3. p \in Pattern!Strings /\ Len(p) = Len(r) - 1
      BY <3>2, SuffixEnds DEF Pattern!Strings
    <3>. HIDE DEF p
    <3>4. Len(p) # 0
      BY <3>1, <3>3
    <3>. QED
      BY <3>1, <3>2, <3>3, <3>4
  <2>2. Tail(p) \in Pattern!Strings /\ Len(Tail(p)) = Len(p) - 1
    BY <2>1 DEF Pattern!Strings
  <2>3. Len(p) < Len(r) /\ Len(Tail(p)) < Len(r) /\ Len(p) <= Len(r) /\ Len(Tail(p)) <= Len(r)
    BY <2>1, <2>2
  <2>. HIDE DEF p
  <2>4. CASE Head(p) = "-" /\ last = "]"
    <3> DEFINE m == Pattern!Ord(ch) >= Pattern!Ord(Head(r))
    <3>1. \A f : ScanStep(ch, f, r) = [ok |-> TRUE, match |-> m, rest |-> Tail(p)]
      BY <1>2, <2>4 DEF ScanStep, p
    <3>2. m \in BOOLEAN
      OBVIOUS
    <3>. HIDE DEF m
    <3>. QED
      BY <2>2, <2>3, <3>1, <3>2, Zenon
  <2>5. CASE Head(p) = "-" /\ last # "]"
    <3>. HIDE DEF last
    <3> DEFINE m == \/ ch \in {Head(r), last}
                    \/ /\ Pattern!Ord(Head(r)) < Pattern!Ord(ch)
                       /\ Pattern!Ord(ch) < Pattern!Ord(last)
    <3>1. \A f : ScanStep(ch, f, r) =
                   IF m THEN [ok |-> TRUE, match |-> TRUE, rest |-> Tail(p)] ELSE f[Tail(p)]
      BY <1>2, <2>5, Zenon DEF ScanStep, p, last
    <3>. HIDE DEF m
    <3>. QED
      BY <2>2, <2>3, <3>1, Zenon
  <2>6. CASE Head(p) # "-" /\ ch # Head(r) /\ Head(p) = "]"
    <3>1. \A f : ScanStep(ch, f, r) = [ok |-> TRUE, match |-> FALSE, rest |-> p]
      BY <1>2, <2>6 DEF ScanStep, p
    <3>. QED
      BY <2>1, <2>3, <3>1, Zenon
  <2>7. CASE Head(p) # "-" /\ ~ (ch # Head(r) /\ Head(p) = "]")
    <3> DEFINE m == ch \in {Head(r), Head(p)}
    <3>1. \A f : ScanStep(ch, f, r) =
                   IF m THEN [ok |-> TRUE, match |-> TRUE, rest |-> p] ELSE f[p]
      BY <1>2, <2>7 DEF ScanStep, p
    <3>. HIDE DEF m
    <3>. QED
      BY <2>1, <2>3, <3>1, Zenon
  <2>. QED
    BY <2>4, <2>5, <2>6, <2>7, Zenon
<1>. QED
  BY <1>1, <1>2

(* The loop over a set comes to an end.                                    *)
LEMMA ScanEnds ==
  ASSUME NEW ch
  PROVE  \E scan \in [Pattern!Strings -> Scanned] : Scans(ch, scan)
<1> DEFINE D == Pattern!Strings
           m == [r \in D |-> Len(r)]
           B == [r \in D |-> [f \in [D -> Scanned] |-> ScanStep(ch, f, r)]]
<1>1. m \in [D -> Nat] /\ \A r \in D : m[r] = Len(r)
  BY DEF Pattern!Strings
<1>2. Scanned # {}
  <2>1. [ok |-> TRUE, match |-> TRUE, rest |-> <<>>] \in Scanned
    BY DEF Scanned, Pattern!Strings
  <2>. QED
    BY <2>1
<1>3. ASSUME NEW r \in D, NEW f \in [D -> Scanned] PROVE ScanStep(ch, f, r) \in Scanned
  <2>1. ASSUME NEW o \in BOOLEAN, NEW n \in BOOLEAN, NEW t \in D
        PROVE  [ok |-> o, match |-> n, rest |-> t] \in Scanned
    BY DEF Scanned
  <2>2. ASSUME NEW t \in D PROVE f[t] \in Scanned
    OBVIOUS
  <2>. HIDE DEF D
  <2>. QED
    BY <2>1, <2>2, ScanSteps DEF D
<1>4. B \in [D -> [[D -> Scanned] -> Scanned]]
  BY <1>3
<1>5. \A r \in D, f \in [D -> Scanned] : B[r][f] = ScanStep(ch, f, r)
  OBVIOUS
<1>6. ASSUME NEW r \in D, NEW f \in [D -> Scanned], NEW g \in [D -> Scanned],
             \A y \in D : m[y] < m[r] => f[y] = g[y]
      PROVE  ScanStep(ch, f, r) = ScanStep(ch, g, r)
  <2>1. \A t \in D : Len(t) < Len(r) => f[t] = g[t]
    BY <1>1, <1>6
  <2>. QED
    BY <2>1, ScanSteps
<1>. HIDE DEF m, B
<1>7. \A r \in D : \A f, g \in [D -> Scanned] :
        (\A y \in D : m[y] < m[r] => f[y] = g[y]) => B[r][f] = B[r][g]
  BY <1>5, <1>6
<1>8. PICK h : Solves(h, D, Scanned, B)
  BY <1>1, <1>2, <1>4, <1>7, Descends, Zenon
<1>9. h \in [D -> Scanned] /\ \A r \in D : h[r] = ScanStep(ch, h, r)
  BY <1>5, <1>8 DEF Solves
<1>10. Scans(ch, h)
  BY <1>9 DEF Scans
<1>. QED
  BY <1>9, <1>10

Scanner(ch) == CHOOSE scan : Scans(ch, scan)

(* Scan: what the loop over a set comes to, turn by turn.                  *)
LEMMA ScanIs ==
  ASSUME NEW ch, NEW q \in Pattern!Strings
  PROVE  /\ Pattern!Scan(ch, q) = Scanner(ch)[q] /\ Scanner(ch)[q] \in Scanned
         /\ Scanner(ch)[q] = ScanStep(ch, Scanner(ch), q)
<1> DEFINE scan == Scanner(ch)
<1>1. Pattern!Scan(ch, q) =
        (CHOOSE f : f = [r \in Pattern!Strings |-> ScanStep(ch, f, r)])[q]
  BY Zenon DEF Pattern!Scan, ScanStep
<1>2. Pattern!Scan(ch, q) = scan[q]
  BY <1>1, Zenon DEF Scanner, Scans
<1>3. PICK f \in [Pattern!Strings -> Scanned] : Scans(ch, f)
  BY ScanEnds
<1>4. Scans(ch, scan)
  BY <1>3 DEF Scanner
<1>. HIDE DEF scan
<1>5. scan[q] = ScanStep(ch, scan, q)
  BY <1>4 DEF Scans
<1> DEFINE S == {n \in Nat : \A r \in Pattern!Strings : Len(r) < n => scan[r] \in Scanned}
<1>6. 0 \in S
  BY DEF Pattern!Strings
<1>7. ASSUME NEW n \in Nat, n \in S PROVE n + 1 \in S
  <2>. SUFFICES ASSUME NEW r \in Pattern!Strings, Len(r) < n + 1 PROVE scan[r] \in Scanned
    OBVIOUS
  <2>1. scan[r] = ScanStep(ch, scan, r)
    BY <1>4 DEF Scans
  <2>2. ASSUME NEW t \in Pattern!Strings, Len(t) < Len(r) PROVE scan[t] \in Scanned
    <3>1. Len(t) \in Nat /\ Len(r) \in Nat /\ Len(t) < n
      BY <2>2 DEF Pattern!Strings
    <3>. QED
      BY <1>7, <3>1
  <2>3. ASSUME NEW o \in BOOLEAN, NEW m \in BOOLEAN, NEW t \in Pattern!Strings
        PROVE  [ok |-> o, match |-> m, rest |-> t] \in Scanned
    BY DEF Scanned
  <2>. QED
    BY <2>1, <2>2, <2>3, ScanSteps
<1>8. scan[q] \in Scanned
  <2>1. Len(q) + 1 \in Nat /\ Len(q) < Len(q) + 1
    BY DEF Pattern!Strings
  <2>2. Len(q) + 1 \in S
    <3>. HIDE DEF S
    <3>. QED
      BY <1>6, <1>7, <2>1, SetInduction
  <2>. QED
    BY <2>1, <2>2
<1>. QED
  BY <1>2, <1>5, <1>8 DEF scan

(* The loop over a set stops no further behind than where it starts.       *)
LEMMA ScanRest ==
  ASSUME NEW ch, NEW q \in Pattern!Strings
  PROVE  /\ Pattern!Scan(ch, q).rest \in Pattern!Strings
         /\ Len(Pattern!Scan(ch, q).rest) <= Len(q)
<1> DEFINE S == {n \in Nat : \A r \in Pattern!Strings :
                               Len(r) < n => Len(Scanner(ch)[r].rest) <= Len(r)}
<1>0. \A r \in Pattern!Strings : Len(r) \in Nat
  BY DEF Pattern!Strings
<1>1. 0 \in S
  BY <1>0
<1>2. ASSUME NEW n \in Nat, n \in S PROVE n + 1 \in S
  <2>. SUFFICES ASSUME NEW r \in Pattern!Strings, Len(r) < n + 1
                PROVE  Len(Scanner(ch)[r].rest) <= Len(r)
    OBVIOUS
  <2>1. Scanner(ch)[r] = ScanStep(ch, Scanner(ch), r)
    BY ScanIs
  <2>2. ASSUME NEW t \in Pattern!Strings, Len(t) < Len(r)
        PROVE  Len(Scanner(ch)[t].rest) <= Len(r)
    <3>1. Len(Scanner(ch)[t].rest) <= Len(t)
      BY <1>0, <1>2, <2>2
    <3>2. Scanner(ch)[t].rest \in Pattern!Strings
      BY ScanIs DEF Scanned
    <3>. QED
      BY <1>0, <2>2, <3>1, <3>2
  <2>. QED
    BY <2>1, <2>2, ScanSteps
<1>3. Len(q) + 1 \in S
  <2>1. Len(q) + 1 \in Nat
    BY <1>0
  <2>. HIDE DEF S
  <2>. QED
    BY <1>1, <1>2, <2>1, SetInduction
<1>4. Len(Scanner(ch)[q].rest) <= Len(q)
  BY <1>0, <1>3
<1>. QED
  BY <1>4, ScanIs DEF Scanned

Calls == Pattern!Strings \X Pattern!Strings

(* List: one turn of its loop, over what is left c of string and list.     *)
ListStep(place, remainder, list, c) ==
  LET str == c[1]
      p == Tail(c[2])
      next == Pattern!From(p, {",", "}"})
  IN  IF c[2] = <<>> THEN {}
      ELSE IF Head(c[2]) = ","
      THEN { <<str, remainder>> } \cup list[<<place, Pattern!NextAlternative(p)>>]
      ELSE IF Head(c[2]) = "}" THEN { <<str, p>> }
      ELSE IF str # <<>> /\ Head(c[2]) = Head(str)
      THEN IF Tail(str) = <<>> /\ remainder # <<>> THEN {} ELSE list[<<Tail(str), p>>]
      ELSE IF next # <<>> /\ Head(next) = "," THEN list[<<place, Tail(next)>>]
      ELSE {}

Lists(place, remainder, list) == list = [c \in Calls |-> ListStep(place, remainder, list, c)]

(* The calls with a pattern that is shorter than n, or the remainder.      *)
Shorter(n, remainder) == {d \in Calls : Len(d[2]) < n \/ d[2] = remainder}

(* A turn of the loop adds the calls A, and perhaps those of what is left. *)
Adds(place, remainder, c, A) ==
  \/ \A f : ListStep(place, remainder, f, c) = A
  \/ \E d \in Calls : /\ Len(d[2]) < Len(c[2])
                      /\ \A f : ListStep(place, remainder, f, c) = A \cup f[d]

(* What a turn of the loop can come to.                                    *)
LEMMA ListSteps ==
  ASSUME NEW place \in Pattern!Strings, NEW remainder \in Pattern!Strings, NEW c \in Calls
  PROVE  \E A \in SUBSET Shorter(Len(c[2]), remainder) : Adds(place, remainder, c, A)
<1> DEFINE q == c[2]
           p == Tail(q)
           next == Pattern!From(p, {",", "}"})
           Goal == \E A \in SUBSET Shorter(Len(q), remainder) : Adds(place, remainder, c, A)
<1>1. c[1] \in Pattern!Strings /\ q \in Pattern!Strings /\ c = <<c[1], q>>
  BY DEF Calls
<1>2. ASSUME \A f : ListStep(place, remainder, f, c) = {} PROVE Goal
  <2>1. {} \in SUBSET Shorter(Len(q), remainder)
    OBVIOUS
  <2>. QED
    BY <1>2, <2>1, Zenon DEF Adds
<1>3. ASSUME NEW d \in Calls, Len(d[2]) < Len(q),
             \A f : ListStep(place, remainder, f, c) = f[d]
      PROVE  Goal
  <2>1. {} \in SUBSET Shorter(Len(q), remainder)
    OBVIOUS
  <2>2. \A f : ListStep(place, remainder, f, c) = {} \cup f[d]
    BY <1>3
  <2>. QED
    BY <1>3, <2>1, <2>2, Zenon DEF Adds
<1>4. CASE q = <<>>
  <2>1. \A f : ListStep(place, remainder, f, c) = {}
    BY <1>4 DEF ListStep
  <2>. QED
    BY <1>2, <2>1
<1>5. CASE q # <<>>
  <2>1. p \in Pattern!Strings /\ Len(p) = Len(q) - 1 /\ Len(q) \in Nat
    BY <1>1, <1>5, SuffixEnds DEF Pattern!Strings
  <2>2. /\ next \in Pattern!Strings
        /\ next # <<>> => Tail(next) \in Pattern!Strings /\ Len(Tail(next)) < Len(p)
    BY <2>1, FromFacts, Zenon DEF Pattern!Strings
  <2>3. Len(p) < Len(q) /\ \A x \in Pattern!Strings : Len(x) < Len(p) => Len(x) < Len(q)
    BY <2>1 DEF Pattern!Strings
  <2>4. /\ Pattern!NextAlternative(p) \in Pattern!Strings
        /\ Len(Pattern!NextAlternative(p)) < Len(q)
    <3>1. CASE p = <<>>
      BY <2>1, <2>3, <3>1 DEF Pattern!NextAlternative
    <3>2. CASE p # <<>>
      <4>1. Tail(p) \in Pattern!Strings /\ Len(Tail(p)) = Len(p) - 1 /\ Len(p) \in Nat
        BY <2>1, <3>2, SuffixEnds, Zenon DEF Pattern!Strings
      <4>2. Pattern!NextAlternative(p) = Tail(p)
        BY <3>2 DEF Pattern!NextAlternative
      <4>. HIDE DEF p, next
      <4>. QED
        BY <2>1, <4>1, <4>2
    <3>. QED
      BY <3>1, <3>2
  <2>. HIDE DEF next
  <2>5. CASE Head(q) = ","
    <3> DEFINE A == {<<c[1], remainder>>}
               d == <<place, Pattern!NextAlternative(p)>>
    <3>1. \A f : ListStep(place, remainder, f, c) = A \cup f[d]
      BY <1>5, <2>5, Zenon DEF ListStep
    <3>2. A \in SUBSET Shorter(Len(q), remainder)
      BY <1>1 DEF Shorter, Calls
    <3>3. d \in Calls /\ Len(d[2]) < Len(q)
      BY <2>4 DEF Calls
    <3>. HIDE DEF A, d
    <3>. QED
      BY <3>1, <3>2, <3>3 DEF Adds
  <2>6. CASE Head(q) = "}"
    <3> DEFINE A == {<<c[1], p>>}
    <3>1. \A f : ListStep(place, remainder, f, c) = A
      BY <1>5, <2>6, Zenon DEF ListStep
    <3>. HIDE DEF p
    <3>2. A \in SUBSET Shorter(Len(q), remainder)
      BY <1>1, <2>1, <2>3 DEF Shorter, Calls
    <3>. HIDE DEF A
    <3>. QED
      BY <3>1, <3>2, Zenon DEF Adds
  <2>7. CASE Head(q) \notin {",", "}"} /\ c[1] # <<>> /\ Head(q) = Head(c[1])
    <3>1. CASE Tail(c[1]) = <<>> /\ remainder # <<>>
      <4>1. \A f : ListStep(place, remainder, f, c) = {}
        BY <1>5, <2>7, <3>1, Zenon DEF ListStep
      <4>. QED
        BY <1>2, <4>1
    <3>2. CASE ~ (Tail(c[1]) = <<>> /\ remainder # <<>>)
      <4> DEFINE d == <<Tail(c[1]), p>>
      <4>1. \A f : ListStep(place, remainder, f, c) = f[d]
        BY <1>5, <2>7, <3>2, Zenon DEF ListStep
      <4>2. Tail(c[1]) \in Pattern!Strings
        BY <1>1, <2>7, SuffixEnds, Zenon DEF Pattern!Strings
      <4>3. d \in Calls /\ Len(d[2]) < Len(q)
        BY <2>1, <2>3, <4>2, Zenon DEF Calls
      <4>. HIDE DEF d
      <4>. QED
        BY <1>3, <4>1, <4>3
    <3>. QED
      BY <3>1, <3>2
  <2>8. CASE Head(q) \notin {",", "}"} /\ ~ (c[1] # <<>> /\ Head(q) = Head(c[1]))
    <3>1. CASE next # <<>> /\ Head(next) = ","
      <4> DEFINE d == <<place, Tail(next)>>
      <4>1. \A f : ListStep(place, remainder, f, c) = f[d]
        BY <1>5, <2>8, <3>1, Zenon DEF ListStep, next
      <4>2. d \in Calls /\ Len(d[2]) < Len(q)
        BY <2>2, <2>3, <3>1, Zenon DEF Calls
      <4>. HIDE DEF d
      <4>. QED
        BY <1>3, <4>1, <4>2
    <3>2. CASE ~ (next # <<>> /\ Head(next) = ",")
      <4>1. \A f : ListStep(place, remainder, f, c) = {}
        BY <1>5, <2>8, <3>2, Zenon DEF ListStep, next
      <4>. QED
        BY <1>2, <4>1
    <3>. QED
      BY <3>1, <3>2, Zenon
  <2>. QED
    BY <2>5, <2>6, <2>7, <2>8, Zenon
<1>. QED
  BY <1>4, <1>5

(* The loop over a list comes to an end.                                   *)
LEMMA ListEnds ==
  ASSUME NEW place \in Pattern!Strings, NEW remainder \in Pattern!Strings
  PROVE  \E list \in [Calls -> SUBSET Calls] : Lists(place, remainder, list)
<1> DEFINE X == SUBSET Calls
           m == [c \in Calls |-> Len(c[2])]
           B == [c \in Calls |-> [f \in [Calls -> X] |-> ListStep(place, remainder, f, c)]]
<1>1. m \in [Calls -> Nat] /\ \A c \in Calls : m[c] = Len(c[2])
  <2>1. \A c \in Calls : Len(c[2]) \in Nat
    BY DEF Calls, Pattern!Strings
  <2>. QED
    BY <2>1
<1>2. X # {}
  OBVIOUS
<1>3. ASSUME NEW c \in Calls, NEW f \in [Calls -> X] PROVE ListStep(place, remainder, f, c) \in X
  <2>1. \A d \in Calls : f[d] \in SUBSET Calls
    OBVIOUS
  <2>2. Shorter(Len(c[2]), remainder) \subseteq Calls
    BY DEF Shorter
  <2>3. PICK A \in SUBSET Shorter(Len(c[2]), remainder) : Adds(place, remainder, c, A)
    BY ListSteps
  <2>. QED
    BY <2>1, <2>2, <2>3 DEF Adds
<1>4. B \in [Calls -> [[Calls -> X] -> X]]
  BY <1>3
<1>5. \A c \in Calls, f \in [Calls -> X] : B[c][f] = ListStep(place, remainder, f, c)
  OBVIOUS
<1>6. ASSUME NEW c \in Calls, NEW f \in [Calls -> X], NEW g \in [Calls -> X],
             \A y \in Calls : m[y] < m[c] => f[y] = g[y]
      PROVE  ListStep(place, remainder, f, c) = ListStep(place, remainder, g, c)
  <2>1. \A d \in Calls : Len(d[2]) < Len(c[2]) => f[d] = g[d]
    BY <1>1, <1>6
  <2>2. PICK A \in SUBSET Shorter(Len(c[2]), remainder) : Adds(place, remainder, c, A)
    BY ListSteps
  <2>. QED
    BY <2>1, <2>2, Zenon DEF Adds
<1>. HIDE DEF m, B, X
<1>7. \A c \in Calls : \A f, g \in [Calls -> X] :
        (\A y \in Calls : m[y] < m[c] => f[y] = g[y]) => B[c][f] = B[c][g]
  BY <1>5, <1>6
<1>8. PICK h : Solves(h, Calls, X, B)
  BY <1>1, <1>2, <1>4, <1>7, Descends, Zenon
<1>9. h \in [Calls -> X] /\ \A c \in Calls : h[c] = ListStep(place, remainder, h, c)
  BY <1>5, <1>8 DEF Solves
<1>10. Lists(place, remainder, h)
  BY <1>9 DEF Lists
<1>. QED
  BY <1>9, <1>10 DEF X

(* List: the calls that are made have what is left of the list to match,   *)
(* or the remainder.                                                       *)
LEMMA ListFacts ==
  ASSUME NEW place \in Pattern!Strings, NEW remainder \in Pattern!Strings,
         NEW q \in Pattern!Strings
  PROVE  Pattern!List(place, q, remainder) \subseteq Shorter(Len(q), remainder)
<1> DEFINE list == CHOOSE f : Lists(place, remainder, f)
<1>1. Pattern!List(place, q, remainder) =
        (CHOOSE f : f = [c \in Calls |-> ListStep(place, remainder, f, c)])[<<place, q>>]
  BY Zenon DEF Pattern!List, ListStep, Calls
<1>2. Pattern!List(place, q, remainder) = list[<<place, q>>]
  BY <1>1, Zenon DEF Lists
<1>3. PICK f \in [Calls -> SUBSET Calls] : Lists(place, remainder, f)
  BY ListEnds
<1>4. Lists(place, remainder, list)
  BY <1>3
<1>. HIDE DEF list
<1>5. \A c \in Calls : list[c] = ListStep(place, remainder, list, c)
  BY <1>4 DEF Lists
<1> DEFINE S == {n \in Nat : \A c \in Calls :
                               Len(c[2]) < n => list[c] \subseteq Shorter(Len(c[2]), remainder)}
<1>0. \A c \in Calls : Len(c[2]) \in Nat
  BY DEF Calls, Pattern!Strings
<1>6. 0 \in S
  BY <1>0
<1>7. ASSUME NEW n \in Nat, n \in S PROVE n + 1 \in S
  <2>. SUFFICES ASSUME NEW c \in Calls, Len(c[2]) < n + 1
                PROVE  list[c] \subseteq Shorter(Len(c[2]), remainder)
    OBVIOUS
  <2>1. PICK A \in SUBSET Shorter(Len(c[2]), remainder) : Adds(place, remainder, c, A)
    BY ListSteps
  <2>2. ASSUME NEW d \in Calls, Len(d[2]) < Len(c[2])
        PROVE  list[d] \subseteq Shorter(Len(c[2]), remainder)
    <3>1. list[d] \subseteq Shorter(Len(d[2]), remainder)
      BY <1>0, <1>7, <2>2
    <3>2. \A e \in Calls : Len(e[2]) < Len(d[2]) => Len(e[2]) < Len(c[2])
      BY <1>0, <2>2
    <3>. QED
      BY <3>1, <3>2 DEF Shorter
  <2>. QED
    BY <1>5, <2>1, <2>2 DEF Adds
<1>8. Len(q) + 1 \in S
  <2>1. Len(q) + 1 \in Nat
    BY DEF Pattern!Strings
  <2>. HIDE DEF S
  <2>. QED
    BY <1>6, <1>7, <2>1, SetInduction
<1>9. <<place, q>> \in Calls /\ <<place, q>>[2] = q /\ Len(q) < Len(q) + 1
  BY DEF Calls, Pattern!Strings
<1>. QED
  BY <1>2, <1>8, <1>9

(* Every call that the function makes has less of the pattern to match.    *)
LEMMA StepsShorten ==
  ASSUME NEW s \in Pattern!Strings, NEW p \in Pattern!Strings, p # <<>>
  PROVE  Pattern!Steps(s, Head(p), Tail(p)) \subseteq {d \in Calls : Len(d[2]) < Len(p)}
<1> DEFINE r == Tail(p)
           c == Head(p)
<1>1. r \in Pattern!Strings /\ Len(r) = Len(p) - 1 /\ Len(p) \in Nat
  BY SuffixEnds DEF Pattern!Strings
<1>2. \A x \in Pattern!Strings : Len(x) <= Len(r) => Len(x) < Len(p)
  BY <1>1 DEF Pattern!Strings
<1>. HIDE DEF r
<1>3. \A x \in Pattern!Strings, y \in Pattern!Strings :
        Len(y) <= Len(r) => <<x, y>> \in {d \in Calls : Len(d[2]) < Len(p)}
  BY <1>2 DEF Calls
<1>4. s # <<>> => Tail(s) \in Pattern!Strings
  BY SuffixEnds DEF Pattern!Strings
<1>5. CASE c = "*"
  <2> DEFINE q == Pattern!SkipStars(r)
             t == IF Head(q) \in {"?", "[", "{"} THEN s ELSE Pattern!From(s, {Head(q)})
  <2>1. q \in Pattern!Strings /\ Len(q) <= Len(r)
    BY <1>1, FromFacts DEF Pattern!SkipStars, Pattern!Strings
  <2>2. t \in Pattern!Strings
    BY FromFacts, Zenon DEF Pattern!Strings
  <2>3. Pattern!Steps(s, c, r) = {<<SubSeq(t, k, Len(t)), q>> : k \in 1 .. Len(t)}
    BY <1>5 DEF Pattern!Steps, Pattern!Tries
  <2>. HIDE DEF t, q
  <2>4. \A k \in 1 .. Len(t) : SubSeq(t, k, Len(t)) \in Pattern!Strings
    BY <2>2 DEF Pattern!Strings
  <2>. QED
    BY <1>3, <2>1, <2>3, <2>4, Zenon DEF r
<1>6. CASE c # "*" /\ s # <<>> /\ c = "["
  <2> DEFINE negate == r # <<>> /\ Head(r) = "!"
             body == IF negate THEN Tail(r) ELSE r
             scan == Pattern!Scan(Head(s), body)
             end == Pattern!From(scan.rest, {"]"})
  <2>1. Pattern!Steps(s, c, r) = Pattern!Set(s, r)
    BY <1>6 DEF Pattern!Steps
  <2>2. Pattern!Steps(s, c, r) \subseteq (IF end = <<>> THEN {} ELSE {<<Tail(s), Tail(end)>>})
    BY <2>1 DEF Pattern!Set, Pattern!AfterSet
  <2>3. body \in Pattern!Strings /\ Len(body) <= Len(r)
    <3>1. CASE negate
      <4>1. Tail(r) \in Pattern!Strings /\ Len(Tail(r)) = Len(r) - 1
        BY <1>1, <3>1, SuffixEnds DEF Pattern!Strings
      <4>. QED
        BY <1>1, <3>1, <4>1
    <3>2. CASE ~ negate
      BY <1>1, <3>2
    <3>. QED
      BY <3>1, <3>2
  <2>. HIDE DEF body
  <2>4. scan.rest \in Pattern!Strings /\ Len(scan.rest) <= Len(body)
    BY <2>3, ScanRest
  <2>. HIDE DEF scan
  <2>5. end # <<>> => Tail(end) \in Pattern!Strings /\ Len(Tail(end)) < Len(scan.rest)
    BY <2>4, FromFacts DEF Pattern!Strings
  <2>. HIDE DEF end
  <2>6. end # <<>> => Len(Tail(end)) <= Len(r)
    BY <1>1, <2>3, <2>4, <2>5 DEF Pattern!Strings
  <2>. QED
    BY <1>3, <1>4, <1>6, <2>2, <2>5, <2>6, Zenon DEF r
<1>7. CASE c # "*" /\ s # <<>> /\ c = "{"
  <2> DEFINE end == Pattern!From(r, {"}"})
  <2>1. Pattern!Steps(s, c, r) = IF end = <<>> THEN {} ELSE Pattern!List(s, r, Tail(end))
    BY <1>7, Zenon DEF Pattern!Steps, Pattern!Braces
  <2>2. end # <<>> => Tail(end) \in Pattern!Strings /\ Len(Tail(end)) < Len(r)
    BY <1>1, FromFacts, Zenon DEF Pattern!Strings
  <2>. HIDE DEF end
  <2>3. end # <<>> => Pattern!List(s, r, Tail(end)) \subseteq Shorter(Len(r), Tail(end))
    BY <1>1, <2>2, ListFacts
  <2>4. end # <<>> => Shorter(Len(r), Tail(end)) \subseteq {d \in Calls : Len(d[2]) < Len(p)}
    BY <1>1, <2>2 DEF Shorter, Calls, Pattern!Strings
  <2>. QED
    BY <2>1, <2>3, <2>4 DEF r
<1>8. CASE c # "*" /\ (s = <<>> \/ c \notin {"[", "{"})
  <2>1. Pattern!Steps(s, c, r) \subseteq (IF s = <<>> THEN {} ELSE {<<Tail(s), r>>})
    BY <1>8, Zenon DEF Pattern!Steps
  <2>2. s # <<>> => <<Tail(s), r>> \in {d \in Calls : Len(d[2]) < Len(p)}
    <3>1. Len(r) <= Len(r)
      BY <1>1
    <3>. QED
      BY <1>1, <1>3, <1>4, <3>1, Zenon
  <2>. QED
    BY <2>1, <2>2, Zenon DEF r
<1>. QED
  BY <1>5, <1>6, <1>7, <1>8, Zenon

(* Match: one call of the function.                                        *)
MatchStep(match, c) ==
  IF c[2] = <<>> THEN c[1] = <<>>
  ELSE \/ Head(c[2]) = "*" /\ Pattern!SkipStars(Tail(c[2])) = <<>>
       \/ \E d \in Pattern!Steps(c[1], Head(c[2]), Tail(c[2])) : match[d]

Matching(match) == match = [c \in Calls |-> MatchStep(match, c)]

(* Match is a function of its calls, for each call asks only shorter ones. *)
LEMMA MatchIs == Pattern!Match \in [Calls -> BOOLEAN] /\ Matching(Pattern!Match)
<1> DEFINE m == [c \in Calls |-> Len(c[2])]
           B == [c \in Calls |-> [f \in [Calls -> BOOLEAN] |-> MatchStep(f, c)]]
<1>1. m \in [Calls -> Nat] /\ \A c \in Calls : m[c] = Len(c[2])
  <2>1. \A c \in Calls : Len(c[2]) \in Nat
    BY DEF Calls, Pattern!Strings
  <2>. QED
    BY <2>1
<1>2. \A c \in Calls : c[1] \in Pattern!Strings /\ c[2] \in Pattern!Strings
  BY DEF Calls
<1>3. ASSUME NEW c \in Calls, NEW f PROVE MatchStep(f, c) \in BOOLEAN
  BY Zenon DEF MatchStep
<1>4. B \in [Calls -> [[Calls -> BOOLEAN] -> BOOLEAN]]
  BY <1>3
<1>5. \A c \in Calls, f \in [Calls -> BOOLEAN] : B[c][f] = MatchStep(f, c)
  OBVIOUS
<1>6. ASSUME NEW c \in Calls, NEW f, NEW g, \A y \in Calls : m[y] < m[c] => f[y] = g[y]
      PROVE  MatchStep(f, c) = MatchStep(g, c)
  <2>1. CASE c[2] = <<>>
    BY <2>1 DEF MatchStep
  <2>2. CASE c[2] # <<>>
    <3> DEFINE steps == Pattern!Steps(c[1], Head(c[2]), Tail(c[2]))
    <3>1. steps \subseteq {d \in Calls : Len(d[2]) < Len(c[2])}
      BY <1>2, <2>2, StepsShorten
    <3>. HIDE DEF steps
    <3>2. \A d \in steps : f[d] = g[d]
      BY <1>1, <1>6, <3>1
    <3>3. (\E d \in steps : f[d]) <=> (\E d \in steps : g[d])
      BY <3>2
    <3>. QED
      BY <2>2, <3>3, Zenon DEF MatchStep, steps
  <2>. QED
    BY <2>1, <2>2
<1>. HIDE DEF m, B
<1>7. \A c \in Calls : \A f, g \in [Calls -> BOOLEAN] :
        (\A y \in Calls : m[y] < m[c] => f[y] = g[y]) => B[c][f] = B[c][g]
  BY <1>5, <1>6
<1>8. PICK h : Solves(h, Calls, BOOLEAN, B)
  <2>1. BOOLEAN # {}
    BY Zenon
  <2>. QED
    BY <1>1, <1>4, <1>7, <2>1, Descends, Zenon
<1>9. h \in [Calls -> BOOLEAN] /\ \A c \in Calls : h[c] = MatchStep(h, c)
  BY <1>5, <1>8 DEF Solves
<1>10. Matching(h)
  BY <1>9 DEF Matching
<1> DEFINE match == CHOOSE f : Matching(f)
<1>11. Pattern!Match = CHOOSE f : f = [c \in Calls |-> MatchStep(f, c)]
  BY Zenon DEF Pattern!Match, MatchStep, Calls
<1>12. Pattern!Match = match
  BY <1>11, Zenon DEF Matching
<1>13. Matching(match)
  BY <1>10
<1>. HIDE DEF match
<1>14. match \in [Calls -> BOOLEAN]
  BY <1>3, <1>13 DEF Matching
<1>. QED
  BY <1>12, <1>13, <1>14

(* lo_pattern_match: what a call comes to.                                 *)
Matched(s, p) == Pattern!Match[<<s, p>>]

(* What a call returns, from the calls that it makes.                      *)
LEMMA MatchedIs ==
  ASSUME NEW s \in Pattern!Strings, NEW p \in Pattern!Strings
  PROVE  /\ Matched(s, p) \in BOOLEAN
         /\ p = <<>> => (Matched(s, p) <=> s = <<>>)
         /\ p # <<>> =>
              (Matched(s, p) <=> \/ Head(p) = "*" /\ Pattern!SkipStars(Tail(p)) = <<>>
                                 \/ \E d \in Pattern!Steps(s, Head(p), Tail(p)) : Pattern!Match[d])
<1> DEFINE c == <<s, p>>
<1>1. c \in Calls /\ c[1] = s /\ c[2] = p
  BY DEF Calls
<1>. HIDE DEF c
<1>2. Pattern!Match[c] = MatchStep(Pattern!Match, c)
  BY <1>1, MatchIs DEF Matching
<1>3. Matched(s, p) = MatchStep(Pattern!Match, c)
  BY <1>2 DEF Matched, c
<1>4. Matched(s, p) \in BOOLEAN
  BY <1>1, MatchIs DEF Matched, c
<1>. QED
  BY <1>1, <1>3, <1>4, Zenon DEF MatchStep

(* Denotes: one step of the definition.                                    *)
Told == Seq(DOMAIN Meaning) \X Pattern!Strings

DenotesStep(denotes, c) ==
  IF c[1] = <<>> THEN c[2] = <<>>
  ELSE \E k \in 0 .. Len(c[2]) :
         /\ SubSeq(c[2], 1, k) \in Meaning[Head(c[1])]
         /\ denotes[<<Tail(c[1]), SubSeq(c[2], k + 1, Len(c[2]))>>]

Denoting(denotes) == denotes = [c \in Told |-> DenotesStep(denotes, c)]

(* Denotes is a function of its pairs, for each asks only those of fewer   *)
(* pieces.                                                                 *)
LEMMA DenotesIs == Pattern!Denotes \in [Told -> BOOLEAN] /\ Denoting(Pattern!Denotes)
<1> DEFINE m == [c \in Told |-> Len(c[1])]
           B == [c \in Told |-> [f \in [Told -> BOOLEAN] |-> DenotesStep(f, c)]]
<1>1. m \in [Told -> Nat] /\ \A c \in Told : m[c] = Len(c[1])
  <2>1. \A c \in Told : Len(c[1]) \in Nat
    BY DEF Told
  <2>. QED
    BY <2>1
<1>2. \A c \in Told : c[1] \in Seq(DOMAIN Meaning) /\ c[2] \in Pattern!Strings
  BY DEF Told
<1>3. ASSUME NEW c \in Told, NEW f PROVE DenotesStep(f, c) \in BOOLEAN
  BY Zenon DEF DenotesStep
<1>4. B \in [Told -> [[Told -> BOOLEAN] -> BOOLEAN]]
  BY <1>3
<1>5. \A c \in Told, f \in [Told -> BOOLEAN] : B[c][f] = DenotesStep(f, c)
  OBVIOUS
<1>6. ASSUME NEW c \in Told, NEW f, NEW g, \A y \in Told : m[y] < m[c] => f[y] = g[y]
      PROVE  DenotesStep(f, c) = DenotesStep(g, c)
  <2>1. CASE c[1] = <<>>
    BY <2>1 DEF DenotesStep
  <2>2. CASE c[1] # <<>>
    <3> DEFINE d(k) == <<Tail(c[1]), SubSeq(c[2], k + 1, Len(c[2]))>>
    <3>1. Tail(c[1]) \in Seq(DOMAIN Meaning) /\ Len(Tail(c[1])) < Len(c[1])
      <4>1. /\ Tail(c[1]) \in Seq(DOMAIN Meaning) /\ Len(Tail(c[1])) = Len(c[1]) - 1
            /\ Len(c[1]) \in Nat
        BY <1>2, <2>2, SuffixEnds, Zenon
      <4>. QED
        BY <4>1
    <3>2. ASSUME NEW k \in 0 .. Len(c[2]) PROVE d(k) \in Told /\ m[d(k)] < m[c]
      <4>1. SubSeq(c[2], k + 1, Len(c[2])) \in Pattern!Strings
        BY <1>2, SuffixFacts DEF Suffix, Pattern!Strings
      <4>2. d(k) \in Told
        BY <3>1, <4>1, Zenon DEF Told
      <4>. QED
        BY <1>1, <3>1, <4>2
    <3>. HIDE DEF m
    <3>3. \A k \in 0 .. Len(c[2]) : f[d(k)] = g[d(k)]
      BY <1>6, <3>2
    <3>. QED
      BY <2>2, <3>3, Zenon DEF DenotesStep
  <2>. QED
    BY <2>1, <2>2
<1>. HIDE DEF m, B
<1>7. \A c \in Told : \A f, g \in [Told -> BOOLEAN] :
        (\A y \in Told : m[y] < m[c] => f[y] = g[y]) => B[c][f] = B[c][g]
  BY <1>5, <1>6
<1>8. PICK h : Solves(h, Told, BOOLEAN, B)
  <2>1. BOOLEAN # {}
    BY Zenon
  <2>. QED
    BY <1>1, <1>4, <1>7, <2>1, Descends, Zenon
<1>9. h \in [Told -> BOOLEAN] /\ \A c \in Told : h[c] = DenotesStep(h, c)
  BY <1>5, <1>8 DEF Solves
<1>10. Denoting(h)
  BY <1>9 DEF Denoting
<1> DEFINE denotes == CHOOSE f : Denoting(f)
<1>11. Pattern!Denotes = CHOOSE f : f = [c \in Told |-> DenotesStep(f, c)]
  BY Zenon DEF Pattern!Denotes, DenotesStep, Told
<1>12. Pattern!Denotes = denotes
  BY <1>11, Zenon DEF Denoting
<1>13. Denoting(denotes)
  BY <1>10
<1>. HIDE DEF denotes
<1>14. denotes \in [Told -> BOOLEAN]
  BY <1>3, <1>13 DEF Denoting
<1>. QED
  BY <1>12, <1>13, <1>14

(* The first piece stands for a beginning of the string, the others for    *)
(* the rest.                                                               *)
Stands(ps, s) == Pattern!Denotes[<<ps, s>>]

(* What pieces stand for, from what the rest of them stands for.           *)
LEMMA StandsIs ==
  ASSUME NEW ps \in Seq(DOMAIN Meaning), NEW s \in Pattern!Strings
  PROVE  /\ Stands(ps, s) \in BOOLEAN
         /\ ps = <<>> => (Stands(ps, s) <=> s = <<>>)
         /\ ps # <<>> =>
              (Stands(ps, s) <=>
                 \E k \in 0 .. Len(s) : /\ SubSeq(s, 1, k) \in Meaning[Head(ps)]
                                        /\ Stands(Tail(ps), Suffix(s, k)))
<1> DEFINE c == <<ps, s>>
<1>1. c \in Told /\ c[1] = ps /\ c[2] = s
  BY DEF Told
<1>. HIDE DEF c
<1>2. Pattern!Denotes[c] = DenotesStep(Pattern!Denotes, c)
  BY <1>1, DenotesIs DEF Denoting
<1>3. Stands(ps, s) = DenotesStep(Pattern!Denotes, c)
  BY <1>2 DEF Stands, c
<1>4. Stands(ps, s) \in BOOLEAN
  BY <1>1, DenotesIs DEF Stands, c
<1>. QED
  BY <1>1, <1>3, <1>4, Zenon DEF DenotesStep, Stands, Suffix

(* The text of a pattern, piece by piece.                                  *)
FlattenStep(ps, f, i) == IF i = 1 THEN ps[i] ELSE f[i - 1] \o ps[i]

Flattening(ps, f) == f = [i \in 1 .. Len(ps) |-> FlattenStep(ps, f, i)]

(* The parts of a sequence are put together one after the other.           *)
LEMMA FlattenEnds ==
  ASSUME NEW ps \in Seq(Pattern!Strings), Len(ps) # 0
  PROVE  \E f \in [1 .. Len(ps) -> Pattern!Strings] : Flattening(ps, f)
<1> DEFINE D == 1 .. Len(ps)
           X == Pattern!Strings
           m == [i \in D |-> i]
           B == [i \in D |-> [f \in [D -> X] |-> FlattenStep(ps, f, i)]]
<1>1. m \in [D -> Nat] /\ \A i \in D : m[i] = i
  OBVIOUS
<1>2. \A i \in D : ps[i] \in X /\ (i # 1 => i - 1 \in D /\ i - 1 < i)
  OBVIOUS
<1>3. X # {}
  <2>1. <<>> \in X
    BY DEF Pattern!Strings
  <2>. QED
    BY <2>1
<1>4. \A s \in X, t \in X : s \o t \in X
  BY DEF Pattern!Strings
<1>. HIDE DEF X, m, D
<1>5. ASSUME NEW i \in D, NEW f \in [D -> X] PROVE FlattenStep(ps, f, i) \in X
  <2>1. CASE i = 1
    BY <1>2, <2>1 DEF FlattenStep
  <2>2. CASE i # 1
    BY <1>2, <1>4, <2>2 DEF FlattenStep
  <2>. QED
    BY <2>1, <2>2
<1>6. B \in [D -> [[D -> X] -> X]]
  BY <1>5
<1>7. \A i \in D, f \in [D -> X] : B[i][f] = FlattenStep(ps, f, i)
  OBVIOUS
<1>8. ASSUME NEW i \in D, NEW f, NEW g, \A y \in D : m[y] < m[i] => f[y] = g[y]
      PROVE  FlattenStep(ps, f, i) = FlattenStep(ps, g, i)
  <2>1. i # 1 => f[i - 1] = g[i - 1]
    BY <1>1, <1>2, <1>8
  <2>. QED
    BY <2>1 DEF FlattenStep
<1>. HIDE DEF B
<1>9. \A i \in D : \A f, g \in [D -> X] :
        (\A y \in D : m[y] < m[i] => f[y] = g[y]) => B[i][f] = B[i][g]
  BY <1>7, <1>8
<1>10. PICK h : Solves(h, D, X, B)
  BY <1>1, <1>3, <1>6, <1>9, Descends, Zenon
<1>11. h \in [D -> X] /\ \A i \in D : h[i] = FlattenStep(ps, h, i)
  BY <1>7, <1>10 DEF Solves
<1>12. Flattening(ps, h)
  BY <1>11 DEF Flattening, D
<1>. QED
  BY <1>11, <1>12 DEF D, X

FlattenedTo(ps, f) ==
  /\ f \in [1 .. Len(ps) -> Pattern!Strings] /\ f[1] = ps[1]
  /\ \A i \in 2 .. Len(ps) : f[i] = f[i - 1] \o ps[i]
  /\ Pattern!FlattenSeq(ps) = f[Len(ps)]

(* FlattenSeq is the last of what is put together.                         *)
LEMMA FlattenIs ==
  ASSUME NEW ps \in Seq(Pattern!Strings), Len(ps) # 0
  PROVE  \E f : FlattenedTo(ps, f)
<1> DEFINE flatten == CHOOSE f : Flattening(ps, f)
<1>1. Pattern!FlattenSeq(ps) =
        (CHOOSE f : f = [i \in 1 .. Len(ps) |-> FlattenStep(ps, f, i)])[Len(ps)]
  BY Zenon DEF Pattern!FlattenSeq, FlattenStep
<1>2. Pattern!FlattenSeq(ps) = flatten[Len(ps)]
  BY <1>1, Zenon DEF Flattening
<1>3. PICK f \in [1 .. Len(ps) -> Pattern!Strings] : Flattening(ps, f)
  BY FlattenEnds
<1>4. Flattening(ps, flatten)
  BY <1>3
<1>. HIDE DEF flatten
<1>5. \A i \in 1 .. Len(ps) : flatten[i] = FlattenStep(ps, flatten, i)
  BY <1>4, Zenon DEF Flattening
<1>6. flatten[1] = ps[1]
  <2>1. 1 \in 1 .. Len(ps)
    OBVIOUS
  <2>. QED
    BY <1>5, <2>1 DEF FlattenStep
<1>7. \A i \in 2 .. Len(ps) : flatten[i] = flatten[i - 1] \o ps[i]
  <2>1. \A i \in 2 .. Len(ps) : i \in 1 .. Len(ps) /\ i # 1
    OBVIOUS
  <2>. QED
    BY <1>5, <2>1, Zenon DEF FlattenStep
<1> DEFINE S == {i \in Nat : i \in 1 .. Len(ps) => flatten[i] \in Pattern!Strings}
<1>8. 0 \in S
  OBVIOUS
<1>9. ASSUME NEW i \in Nat, i \in S PROVE i + 1 \in S
  <2>. SUFFICES ASSUME i + 1 \in 1 .. Len(ps) PROVE flatten[i + 1] \in Pattern!Strings
    OBVIOUS
  <2>1. ps[i + 1] \in Pattern!Strings
    OBVIOUS
  <2>2. CASE i = 0
    BY <1>6, <2>1, <2>2
  <2>3. CASE i # 0
    <3>1. i \in 1 .. Len(ps) /\ i + 1 \in 2 .. Len(ps) /\ (i + 1) - 1 = i
      BY <2>3
    <3>2. flatten[i] \in Pattern!Strings
      BY <1>9, <3>1
    <3>3. flatten[i + 1] = flatten[i] \o ps[i + 1]
      BY <1>7, <3>1, Zenon
    <3>. QED
      BY <2>1, <3>2, <3>3 DEF Pattern!Strings
  <2>. QED
    BY <2>2, <2>3
<1>10. \A i \in 1 .. Len(ps) : flatten[i] \in Pattern!Strings
  <2>1. Nat \subseteq S
    <3>. HIDE DEF S
    <3>. QED
      BY <1>8, <1>9, SetInduction
  <2>. QED
    BY <2>1
<1>11. flatten \in [1 .. Len(ps) -> Pattern!Strings]
  BY <1>4, <1>10 DEF Flattening
<1>12. FlattenedTo(ps, flatten)
  BY <1>2, <1>6, <1>7, <1>11, Zenon DEF FlattenedTo
<1>. QED
  BY <1>12

(* The text of a pattern begins with its first piece.                      *)
LEMMA FlattenFirst ==
  ASSUME NEW ps \in Seq(Pattern!Strings)
  PROVE  /\ Pattern!FlattenSeq(ps) \in Pattern!Strings
         /\ ps = <<>> => Pattern!FlattenSeq(ps) = <<>>
         /\ ps # <<>> => /\ Tail(ps) \in Seq(Pattern!Strings) /\ Head(ps) \in Pattern!Strings
                         /\ Pattern!FlattenSeq(ps) = Head(ps) \o Pattern!FlattenSeq(Tail(ps))
<1>1. CASE ps = <<>>
  <2>1. Pattern!FlattenSeq(ps) = <<>>
    BY <1>1 DEF Pattern!FlattenSeq
  <2>2. <<>> \in Pattern!Strings
    BY DEF Pattern!Strings
  <2>. QED
    BY <1>1, <2>1, <2>2, Zenon
<1>2. CASE ps # <<>>
  <2> DEFINE t == Tail(ps)
             n == Len(ps)
  <2>1. /\ t \in Seq(Pattern!Strings) /\ Len(t) = n - 1 /\ Head(ps) = ps[1]
        /\ Head(ps) \in Pattern!Strings /\ n \in Nat \ {0} /\ t = Suffix(ps, 1)
    BY <1>2, SuffixEnds
  <2>2. \A i \in 1 .. n - 1 : t[i] = ps[i + 1]
    <3>1. 1 \in 0 .. Len(ps)
      BY <2>1
    <3>. QED
      BY <2>1, <3>1, SuffixFacts
  <2>. HIDE DEF t
  <2>3. PICK f : FlattenedTo(ps, f)
    BY <2>1, FlattenIs
  <2>4. f[n] \in Pattern!Strings /\ Pattern!FlattenSeq(ps) = f[n] /\ f[1] = ps[1]
    BY <2>1, <2>3 DEF FlattenedTo
  <2>5. CASE n = 1
    <3>1. Pattern!FlattenSeq(t) = <<>>
      <4>1. t = <<>> /\ Len(t) = 0
        BY <2>1, <2>5
      <4>. QED
        BY <4>1 DEF Pattern!FlattenSeq
    <3>2. Head(ps) \o <<>> = Head(ps)
      BY <2>1 DEF Pattern!Strings
    <3>. QED
      BY <1>2, <2>1, <2>4, <2>5, <3>1, <3>2, Zenon DEF t
  <2>6. CASE n # 1
    <3>1. Len(t) # 0
      BY <2>1, <2>6
    <3>2. PICK g : FlattenedTo(t, g)
      BY <2>1, <3>1, FlattenIs
    <3> DEFINE P(i, k) == i \in 1 .. n - 1 => f[k] = ps[1] \o g[i]
               S == {i \in Nat : P(i, i + 1)}
    <3>3. 0 \in S
      OBVIOUS
    <3>4. ASSUME NEW i \in Nat, i \in S PROVE i + 1 \in S
      <4>0. P(i + 1, i + 2) => i + 1 \in S
        <5>1. i + 1 \in Nat /\ (i + 1) + 1 = i + 2
          OBVIOUS
        <5>2. P(i + 1, (i + 1) + 1) => i + 1 \in S
          <6>. HIDE DEF P
          <6>. QED
            BY <5>1
        <5>. HIDE DEF P, S
        <5>. QED
          BY <5>1, <5>2
      <4>. SUFFICES ASSUME i + 1 \in 1 .. n - 1 PROVE f[i + 2] = ps[1] \o g[i + 1]
        BY <4>0, Zenon
      <4>1. i + 2 \in 2 .. n /\ (i + 2) - 1 = i + 1 /\ i + 1 \in 1 .. n
        <5>1. n \in Nat
          BY <2>1
        <5>. HIDE DEF n
        <5>. QED
          BY <5>1
      <4>2. f[i + 2] = f[i + 1] \o ps[i + 2]
        BY <2>3, <4>1, Zenon DEF FlattenedTo
      <4>3. t[i + 1] = ps[i + 2]
        BY <2>1, <2>2
      <4>4. CASE i = 0
        <5>1. g[1] = t[1]
          BY <3>2 DEF FlattenedTo
        <5>2. i + 1 = 1
          BY <4>4
        <5>3. f[i + 2] = f[1] \o t[1]
          BY <4>2, <4>3, <5>2, Zenon
        <5>. QED
          BY <2>4, <5>1, <5>2, <5>3, Zenon
      <4>5. CASE i # 0
        <5>1. i \in 1 .. n - 1 /\ i + 1 \in 2 .. n - 1 /\ (i + 1) - 1 = i
          BY <2>1, <4>5
        <5>2. f[i + 1] = ps[1] \o g[i]
          BY <3>4, <5>1, Zenon
        <5>3. g[i + 1] = g[i] \o t[i + 1]
          BY <2>1, <3>2, <5>1, Zenon DEF FlattenedTo
        <5>4. g[i] \in Pattern!Strings
          BY <2>1, <3>2, <5>1, Zenon DEF FlattenedTo
        <5>5. ps[1] \in Pattern!Strings /\ ps[i + 2] \in Pattern!Strings
          BY <2>1, <4>1
        <5>6. (ps[1] \o g[i]) \o ps[i + 2] = ps[1] \o (g[i] \o ps[i + 2])
          <6>1. \A x, y, z \in Seq(STRING) : (x \o y) \o z = x \o (y \o z)
            BY ConcatAssociative
          <6>. QED
            BY <5>4, <5>5, <6>1, Zenon DEF Pattern!Strings
        <5>. QED
          BY <4>2, <4>3, <5>2, <5>3, <5>6, Zenon
      <4>. QED
        BY <4>4, <4>5, Zenon
    <3>5. n - 1 \in S
      <4>1. n - 1 \in Nat
        BY <2>1
      <4>. HIDE DEF S
      <4>. QED
        BY <3>3, <3>4, <4>1, SetInduction
    <3>6. n - 1 \in 1 .. n - 1 /\ (n - 1) + 1 = n
      BY <2>1, <2>6
    <3>7. f[n] = ps[1] \o g[n - 1]
      BY <3>5, <3>6
    <3>8. Pattern!FlattenSeq(t) = g[n - 1]
      BY <2>1, <3>2 DEF FlattenedTo
    <3>. QED
      BY <1>2, <2>1, <2>4, <3>7, <3>8, Zenon DEF t
  <2>. QED
    BY <2>5, <2>6
<1>. QED
  BY <1>1, <1>2

(* From: where the first element of a set is known.                        *)
LEMMA FromAt ==
  ASSUME NEW X, NEW q \in Seq(X), NEW S, NEW k \in 0 .. Len(q) - 1, q[k + 1] \in S,
         \A j \in 1 .. k : q[j] \notin S
  PROVE  Pattern!From(q, S) = Suffix(q, k)
<1>1. \E l \in 0 .. Len(q) - 1 :
        /\ Pattern!From(q, S) = Suffix(q, l) /\ q[l + 1] \in S
        /\ \A j \in 1 .. l : q[j] \notin S
  <2>1. k + 1 \in 1 .. Len(q)
    OBVIOUS
  <2>. QED
    BY <2>1, FromIs
<1>2. PICK l \in 0 .. Len(q) - 1 :
        /\ Pattern!From(q, S) = Suffix(q, l) /\ q[l + 1] \in S
        /\ \A j \in 1 .. l : q[j] \notin S
  BY <1>1
<1>3. ~ (l < k)
  <2>1. l < k => l + 1 \in 1 .. k
    OBVIOUS
  <2>. QED
    BY <1>2, <2>1
<1>4. ~ (k < l)
  <2>1. k < l => k + 1 \in 1 .. l
    OBVIOUS
  <2>. QED
    BY <1>2, <2>1
<1>5. k = l
  BY <1>3, <1>4
<1>. QED
  BY <1>2, <1>5

(* Without such an element there is no such suffix.                        *)
LEMMA FromNone ==
  ASSUME NEW X, NEW q \in Seq(X), NEW S, \A k \in 1 .. Len(q) : q[k] \notin S
  PROVE  Pattern!From(q, S) = <<>>
<1>1. ASSUME NEW k \in 0 .. Len(q) - 1 PROVE q[k + 1] \notin S
  <2>1. k + 1 \in 1 .. Len(q)
    OBVIOUS
  <2>. QED
    BY <2>1
<1>. QED
  BY <1>1, FromIs

(* From: one element at a time.                                            *)
LEMMA FromSkip ==
  ASSUME NEW X, NEW q \in Seq(X), q # <<>>, NEW S
  PROVE  /\ Head(q) \in S => Pattern!From(q, S) = q
         /\ Head(q) \notin S => Pattern!From(q, S) = Pattern!From(Tail(q), S)
<1> DEFINE t == Tail(q)
<1>1. /\ Suffix(q, 0) = q /\ t = Suffix(q, 1) /\ Head(q) = q[1] /\ t \in Seq(X)
      /\ Len(t) = Len(q) - 1 /\ Len(q) \in Nat \ {0}
  BY SuffixEnds
<1>. HIDE DEF t
<1>2. \A i \in 1 .. Len(q) - 1 : t[i] = q[i + 1]
  <2>1. 1 \in 0 .. Len(q)
    BY <1>1
  <2>2. \A j \in 1 .. Len(q) - 1 : Suffix(q, 1)[j] = q[1 + j]
    BY <2>1, SuffixFacts, Zenon
  <2>3. ASSUME NEW i \in 1 .. Len(q) - 1 PROVE t[i] = q[i + 1]
    <3>1. Suffix(q, 1)[i] = q[1 + i]
      BY <2>2
    <3>2. 1 + i = i + 1
      BY <1>1
    <3>. QED
      BY <1>1, <3>1, <3>2, Zenon
  <2>. QED
    BY <2>3, Zenon
<1>3. CASE Head(q) \in S
  <2>1. 0 \in 0 .. Len(q) - 1 /\ q[0 + 1] \in S
    BY <1>1, <1>3
  <2>2. \A j \in 1 .. 0 : q[j] \notin S
    OBVIOUS
  <2>3. Pattern!From(q, S) = Suffix(q, 0)
    BY <2>1, <2>2, FromAt
  <2>. QED
    BY <1>1, <1>3, <2>3
<1>4. CASE Head(q) \notin S
  <2>1. CASE \A k \in 1 .. Len(q) : q[k] \notin S
    <3>1. \A k \in 1 .. Len(t) : t[k] \notin S
      <4>1. \A k \in 1 .. Len(t) : k \in 1 .. Len(q) - 1 /\ k + 1 \in 1 .. Len(q)
        BY <1>1
      <4>. QED
        BY <1>2, <2>1, <4>1
    <3>2. Pattern!From(q, S) = <<>> /\ Pattern!From(t, S) = <<>>
      BY <1>1, <2>1, <3>1, FromNone
    <3>. QED
      BY <1>4, <3>2 DEF t
  <2>2. CASE ~ \A k \in 1 .. Len(q) : q[k] \notin S
    <3>1. PICK k \in 0 .. Len(q) - 1 :
            /\ Pattern!From(q, S) = Suffix(q, k) /\ q[k + 1] \in S
            /\ \A j \in 1 .. k : q[j] \notin S
      BY <2>2, FromIs
    <3>2. k # 0
      BY <1>1, <1>4, <3>1
    <3>3. /\ k - 1 \in 0 .. Len(t) - 1 /\ k - 1 \in 0 .. Len(q) - 1 /\ k \in 1 .. Len(q) - 1
          /\ (k - 1) + 1 = k /\ 1 + (k - 1) = k
      BY <1>1, <3>2
    <3>4. t[(k - 1) + 1] \in S
      BY <1>2, <3>1, <3>3
    <3>5. \A j \in 1 .. k - 1 : t[j] \notin S
      <4>1. \A j \in 1 .. k - 1 : j + 1 \in 1 .. k /\ j \in 1 .. Len(q) - 1
        BY <3>3
      <4>. QED
        BY <1>2, <3>1, <4>1
    <3>6. Pattern!From(t, S) = Suffix(t, k - 1)
      BY <1>1, <3>3, <3>4, <3>5, FromAt, Zenon
    <3>7. Suffix(t, k - 1) = Suffix(q, 1 + (k - 1))
      <4>1. 1 \in 0 .. Len(q) /\ k - 1 \in 0 .. Len(q) - 1
        BY <1>1, <3>3
      <4>. QED
        BY <1>1, <4>1, SuffixOfSuffix
    <3>. QED
      BY <1>4, <3>1, <3>3, <3>6, <3>7 DEF t
  <2>. QED
    BY <2>1, <2>2
<1>. QED
  BY <1>3, <1>4

(* SkipStars: what is left of a pattern behind its first stars.            *)
LEMMA SkipStarsFacts ==
  ASSUME NEW p \in Pattern!Strings
  PROVE  LET q == Pattern!SkipStars(p)
         IN  /\ q \in Pattern!Strings
             /\ q # <<>> => Head(q) # "*"
             /\ p = <<>> => q = <<>>
             /\ p # <<>> /\ Head(p) = "*" => q = Pattern!SkipStars(Tail(p))
             /\ p # <<>> /\ Head(p) # "*" => q = p
<1> DEFINE S == STRING \ {"*"}
<1>1. /\ Pattern!From(p, S) \in Seq(STRING)
      /\ Pattern!From(p, S) # <<>> => Head(Pattern!From(p, S)) \in S
  BY FromFacts DEF Pattern!Strings
<1>2. p # <<>> => /\ Head(p) \in STRING
                  /\ Head(p) \in S => Pattern!From(p, S) = p
                  /\ Head(p) \notin S => Pattern!From(p, S) = Pattern!From(Tail(p), S)
  BY FromSkip, SuffixEnds DEF Pattern!Strings
<1>3. p = <<>> => Pattern!From(p, S) = <<>>
  <2>1. p = <<>> => \A k \in 1 .. Len(p) : p[k] \notin S
    OBVIOUS
  <2>. QED
    BY <2>1, FromNone, Zenon DEF Pattern!Strings
<1>4. Head(p) \in STRING => (Head(p) \in S <=> Head(p) # "*")
  OBVIOUS
<1>5. Head(Pattern!From(p, S)) \in S => Head(Pattern!From(p, S)) # "*"
  OBVIOUS
<1>. HIDE DEF S
<1>. QED
  BY <1>1, <1>2, <1>3, <1>4, <1>5, Zenon DEF Pattern!SkipStars, Pattern!Strings, S

(* A call with a pattern that begins with something else than a star needs *)
(* a string, and where the pattern begins with a literal, that literal.    *)
LEMMA NeedsHead ==
  ASSUME NEW s \in Pattern!Strings, NEW p \in Pattern!Strings, p # <<>>, Head(p) # "*",
         Matched(s, p)
  PROVE  s # <<>> /\ (Head(p) \notin {"?", "[", "{"} => Head(s) = Head(p))
<1>1. Pattern!Steps(s, Head(p), Tail(p)) # {}
  BY MatchedIs, Zenon
<1>2. s # <<>>
  BY <1>1, Zenon DEF Pattern!Steps
<1>3. Head(p) \notin {"?", "[", "{"} => Head(s) = Head(p)
  BY <1>1, <1>2, Zenon DEF Pattern!Steps
<1>. QED
  BY <1>2, <1>3, Zenon

(* A star need not try the suffixes that Tries leaves out.                 *)
LEMMA TriesAll ==
  ASSUME NEW s \in Pattern!Strings, NEW p \in Pattern!Strings, p # <<>>, Head(p) # "*"
  PROVE  (\E d \in Pattern!Tries(s, p) : Pattern!Match[d])
         <=> \E k \in 0 .. Len(s) : Matched(Suffix(s, k), p)
<1> DEFINE any == Head(p) \in {"?", "[", "{"}
           t == IF any THEN s ELSE Pattern!From(s, {Head(p)})
<1>1. Pattern!Tries(s, p) = {<<SubSeq(t, k, Len(t)), p>> : k \in 1 .. Len(t)}
  BY DEF Pattern!Tries
<1>0. ~ any <=> Head(p) \notin {"?", "[", "{"}
  OBVIOUS
<1>. HIDE DEF any
<1>2. Len(s) \in Nat /\ s \in Seq(STRING) /\ Suffix(s, 0) = s
  BY SuffixEnds DEF Pattern!Strings
<1>3. \/ t = <<>> /\ ~ any
         /\ \A k \in 1 .. Len(s) : s[k] # Head(p)
      \/ \E j \in 0 .. Len(s) : /\ t = Suffix(s, j)
                                /\ any => j = 0
                                /\ ~ any =>
                                     \A i \in 1 .. j : s[i] # Head(p)
  <2>1. CASE any
    <3>1. t = s /\ 0 \in 0 .. Len(s)
      BY <1>2, <2>1
    <3>2. \A i \in 1 .. 0 : s[i] # Head(p)
      OBVIOUS
    <3>. HIDE DEF t
    <3>. QED
      BY <1>2, <2>1, <3>1, <3>2
  <2>2. CASE ~ any
    <3>1. t = Pattern!From(s, {Head(p)})
      BY <2>2
    <3>2. \/ t = <<>> /\ \A k \in 1 .. Len(s) : s[k] # Head(p)
          \/ \E j \in 0 .. Len(s) - 1 : /\ t = Suffix(s, j)
                                        /\ \A i \in 1 .. j : s[i] # Head(p)
      <4>. HIDE DEF t
      <4>. QED
        BY <1>2, <3>1, FromIs
    <3>3. \A j \in 0 .. Len(s) - 1 : j \in 0 .. Len(s)
      BY <1>2
    <3>. HIDE DEF t
    <3>. QED
      BY <2>2, <3>2, <3>3
  <2>. QED
    BY <2>1, <2>2, Zenon
<1>. HIDE DEF t
<1>4. ASSUME NEW d \in Pattern!Tries(s, p), Pattern!Match[d]
      PROVE  \E k \in 0 .. Len(s) : Matched(Suffix(s, k), p)
  <2>1. PICK i \in 1 .. Len(t) : d = <<SubSeq(t, i, Len(t)), p>>
    BY <1>1, <1>4
  <2>2. t # <<>>
    BY <2>1
  <2>3. PICK j \in 0 .. Len(s) : t = Suffix(s, j)
    BY <1>3, <2>2
  <2>4. Len(t) = Len(s) - j
    BY <1>2, <2>3, SuffixFacts
  <2>5. /\ i - 1 \in 0 .. Len(s) - j /\ (i - 1) + 1 = i /\ j + (i - 1) \in 0 .. Len(s)
    BY <1>2, <2>1, <2>4
  <2>6. SubSeq(t, i, Len(t)) = Suffix(t, i - 1)
    BY <2>5 DEF Suffix
  <2>7. Suffix(t, i - 1) = Suffix(s, j + (i - 1))
    BY <1>2, <2>3, <2>5, SuffixOfSuffix
  <2>8. Matched(Suffix(s, j + (i - 1)), p)
    BY <1>4, <2>1, <2>6, <2>7, Zenon DEF Matched
  <2>. QED
    BY <2>5, <2>8
<1>5. ASSUME NEW k \in 0 .. Len(s), Matched(Suffix(s, k), p)
      PROVE  \E d \in Pattern!Tries(s, p) : Pattern!Match[d]
  <2>1. Suffix(s, k) \in Pattern!Strings /\ Len(Suffix(s, k)) = Len(s) - k
    BY <1>2, SuffixFacts DEF Pattern!Strings
  <2>2. /\ Suffix(s, k) # <<>>
        /\ ~ any => Head(Suffix(s, k)) = Head(p)
    BY <1>0, <1>5, <2>1, NeedsHead, Zenon
  <2>3. k \in 0 .. Len(s) - 1
    <3>1. Len(Suffix(s, k)) # 0
      BY <2>1, <2>2, SuffixEnds DEF Pattern!Strings
    <3>. QED
      BY <1>2, <2>1, <3>1
  <2>4. Head(Suffix(s, k)) = s[k + 1]
    BY <1>2, <2>3, SuffixHead
  <2>5. PICK j \in 0 .. Len(s) : /\ t = Suffix(s, j) /\ j <= k
    <3>1. CASE any
      <4>1. PICK j \in 0 .. Len(s) : t = Suffix(s, j) /\ j = 0
        BY <1>3, <3>1
      <4>. QED
        BY <4>1
    <3>2. CASE ~ any
      <4>1. s[k + 1] = Head(p) /\ k + 1 \in 1 .. Len(s)
        <5>1. s[k + 1] = Head(p)
          BY <2>2, <2>4, <3>2
        <5>. QED
          BY <1>2, <2>3, <5>1
      <4>2. PICK j \in 0 .. Len(s) : t = Suffix(s, j) /\ \A i \in 1 .. j : s[i] # Head(p)
        BY <1>3, <3>2, <4>1
      <4>3. ~ (k < j)
        <5>1. k < j => k + 1 \in 1 .. j
          OBVIOUS
        <5>. QED
          BY <4>1, <4>2, <5>1
      <4>. QED
        BY <4>2, <4>3
    <3>. QED
      BY <3>1, <3>2
  <2>6. Len(t) = Len(s) - j
    BY <1>2, <2>5, SuffixFacts
  <2>7. k - j \in 0 .. Len(s) - j /\ j + (k - j) = k /\ (k - j) + 1 \in 1 .. Len(t)
    BY <1>2, <2>3, <2>5, <2>6
  <2>8. SubSeq(t, (k - j) + 1, Len(t)) = Suffix(s, k)
    <3>1. Suffix(t, k - j) = Suffix(s, j + (k - j))
      BY <1>2, <2>5, <2>7, SuffixOfSuffix
    <3>. QED
      BY <2>7, <3>1, Zenon DEF Suffix
  <2>9. <<Suffix(s, k), p>> \in Pattern!Tries(s, p)
    BY <1>1, <2>7, <2>8, Zenon
  <2>. QED
    BY <1>5, <2>9 DEF Matched
<1>. QED
  BY <1>4, <1>5

(* A star, before what follows the stars next to it.                       *)
LEMMA StarCall ==
  ASSUME NEW s \in Pattern!Strings, NEW p \in Pattern!Strings, p # <<>>, Head(p) = "*"
  PROVE  LET q == Pattern!SkipStars(Tail(p))
         IN  Matched(s, p) <=> q = <<>> \/ \E k \in 0 .. Len(s) : Matched(Suffix(s, k), q)
<1> DEFINE q == Pattern!SkipStars(Tail(p))
<1>1. Tail(p) \in Pattern!Strings
  BY SuffixEnds DEF Pattern!Strings
<1>2. q \in Pattern!Strings /\ (q # <<>> => Head(q) # "*")
  BY <1>1, SkipStarsFacts, Zenon
<1>3. Pattern!Steps(s, Head(p), Tail(p)) = Pattern!Tries(s, q)
  BY DEF Pattern!Steps
<1>4. Matched(s, p) <=> q = <<>> \/ \E d \in Pattern!Tries(s, q) : Pattern!Match[d]
  BY <1>3, MatchedIs
<1>. HIDE DEF q
<1>5. q # <<>> => ((\E d \in Pattern!Tries(s, q) : Pattern!Match[d])
                     <=> \E k \in 0 .. Len(s) : Matched(Suffix(s, k), q))
  BY <1>2, TriesAll
<1>. QED
  BY <1>4, <1>5, Zenon DEF q

(* A star stands for any beginning of the string.                          *)
LEMMA StarIs ==
  ASSUME NEW s \in Pattern!Strings, NEW r \in Pattern!Strings, <<"*">> \in Pattern!Strings
  PROVE  Matched(s, <<"*">> \o r) <=> \E k \in 0 .. Len(s) : Matched(Suffix(s, k), r)
<1> DEFINE p == <<"*">> \o r
           q == Pattern!SkipStars(r)
<1>1. p \in Pattern!Strings /\ p # <<>> /\ Head(p) = "*" /\ Tail(p) = r
  <2>1. "*" \in STRING
    BY DEF Pattern!Strings
  <2>. QED
    BY <2>1, ConsFacts DEF Pattern!Strings
<1>2. s \in Seq(STRING) /\ Len(s) \in Nat
  BY DEF Pattern!Strings
<1>. HIDE DEF p
<1>3. Matched(s, p) <=> q = <<>> \/ \E k \in 0 .. Len(s) : Matched(Suffix(s, k), q)
  BY <1>1, StarCall, Zenon
<1>4. /\ r = <<>> => q = <<>>
      /\ r # <<>> /\ Head(r) = "*" => q = Pattern!SkipStars(Tail(r))
      /\ r # <<>> /\ Head(r) # "*" => q = r
  BY SkipStarsFacts
<1>. HIDE DEF q
<1>5. \A k \in 0 .. Len(s) : Suffix(s, k) \in Pattern!Strings /\ Len(Suffix(s, k)) = Len(s) - k
  BY <1>2, SuffixFacts DEF Pattern!Strings
<1>6. CASE r = <<>>
  <2>1. Matched(Suffix(s, Len(s)), r)
    <3>1. Suffix(s, Len(s)) = <<>> /\ <<>> \in Pattern!Strings
      BY <1>2, SuffixEnds DEF Pattern!Strings
    <3>. QED
      BY <1>6, <3>1, MatchedIs
  <2>2. Len(s) \in 0 .. Len(s)
    BY <1>2
  <2>. QED
    BY <1>3, <1>4, <1>6, <2>1, <2>2 DEF p
<1>7. CASE r # <<>> /\ Head(r) # "*"
  BY <1>3, <1>4, <1>7 DEF p
<1>8. CASE r # <<>> /\ Head(r) = "*"
  <2>1. ASSUME NEW k \in 0 .. Len(s)
        PROVE  Matched(Suffix(s, k), r)
               <=> q = <<>> \/ \E j \in 0 .. Len(s) - k : Matched(Suffix(s, k + j), q)
    <3>1. Matched(Suffix(s, k), r)
          <=> q = <<>> \/ \E j \in 0 .. Len(s) - k : Matched(Suffix(Suffix(s, k), j), q)
      BY <1>4, <1>5, <1>8, StarCall
    <3>2. \A j \in 0 .. Len(s) - k : Suffix(Suffix(s, k), j) = Suffix(s, k + j)
      BY <1>2, SuffixOfSuffix
    <3>. QED
      BY <3>1, <3>2, Zenon
  <2>2. 0 \in 0 .. Len(s) /\ \A j \in 0 .. Len(s) : j \in 0 .. Len(s) - 0 /\ 0 + j = j
    BY <1>2
  <2>3. ASSUME NEW k \in 0 .. Len(s), NEW j \in 0 .. Len(s) - k PROVE k + j \in 0 .. Len(s)
    BY <1>2
  <2>4. Matched(Suffix(s, 0), r)
          <=> q = <<>> \/ \E j \in 0 .. Len(s) : Matched(Suffix(s, j), q)
    BY <2>1, <2>2
  <2>5. ASSUME NEW k \in 0 .. Len(s), Matched(Suffix(s, k), r)
        PROVE  q = <<>> \/ \E j \in 0 .. Len(s) : Matched(Suffix(s, j), q)
    BY <2>1, <2>3, <2>5
  <2>. QED
    BY <1>3, <2>2, <2>4, <2>5 DEF p
<1>. QED
  BY <1>6, <1>7, <1>8

(* A piece of one character that is not special, or `?'.                   *)
LEMMA PlainIs ==
  ASSUME NEW c, <<c>> \in Pattern!Strings, c \notin {"*", "[", "{"},
         NEW s \in Pattern!Strings, NEW r \in Pattern!Strings
  PROVE  Matched(s, <<c>> \o r)
         <=> s # <<>> /\ c \in {"?", Head(s)} /\ Matched(Tail(s), r)
<1> DEFINE p == <<c>> \o r
<1>1. p \in Pattern!Strings /\ p # <<>> /\ Head(p) = c /\ Tail(p) = r
  <2>1. c \in STRING
    <3> DEFINE t == <<c>>
    <3>1. t \in Seq(STRING) /\ t[1] = c
      BY Zenon DEF Pattern!Strings
    <3>2. t # <<>>
      BY Zenon
    <3>. HIDE DEF t
    <3>3. Head(t) = t[1] /\ Head(t) \in STRING
      BY <3>1, <3>2, SuffixEnds, Zenon
    <3>. QED
      BY <3>1, <3>3, Zenon
  <2>. QED
    BY <2>1, ConsFacts, Zenon DEF Pattern!Strings
<1>. HIDE DEF p
<1>2. Matched(s, p) <=> \E d \in Pattern!Steps(s, c, r) : Pattern!Match[d]
  BY <1>1, MatchedIs, Zenon
<1>3. Pattern!Steps(s, c, r) = IF s # <<>> /\ c \in {"?", Head(s)} THEN {<<Tail(s), r>>} ELSE {}
  BY Zenon DEF Pattern!Steps
<1>. QED
  BY <1>2, <1>3, Zenon DEF Matched, p

(* The place of a character in the alphabet.                               *)
LEMMA OrdIs ==
  ASSUME NEW c \in Pattern!Characters
  PROVE  Pattern!Ord(c) \in Nat /\ Alphabet[Pattern!Ord(c)] = c
<1>1. \E i \in DOMAIN Alphabet : Alphabet[i] = c
  BY DEF Pattern!Characters, Pattern!Range
<1>2. Pattern!Ord(c) \in DOMAIN Alphabet /\ Alphabet[Pattern!Ord(c)] = c
  BY <1>1 DEF Pattern!Ord
<1>3. DOMAIN Alphabet \subseteq Nat
  BY PatternAssumption
<1>. QED
  BY <1>2, <1>3

(* Is ch between the characters around the hyphen at i?                    *)
Between(w, i, ch) ==
  /\ w[i] = "-" /\ Pattern!Ord(w[i - 1]) <= Pattern!Ord(ch)
  /\ Pattern!Ord(ch) <= Pattern!Ord(w[i + 1])

(* Does what is left of a set behind its k-th character have ch?           *)
HasFrom(w, k, ch) ==
  \/ \E i \in k + 1 .. Len(w) : (i = k + 1 \/ w[i] # "-") /\ w[i] = ch
  \/ \E i \in k + 2 .. Len(w) - 1 : Between(w, i, ch)

(* The members of a set are what its body has from its start.              *)
LEMMA MembersAre ==
  ASSUME NEW w, Len(w) \in Nat, DOMAIN w = 1 .. Len(w), NEW ch \in Pattern!Characters
  PROVE  ch \in Pattern!Members(w) <=> HasFrom(w, 0, ch)
<1>1. /\ ch \in {w[k] : k \in {l \in DOMAIN w : l = 1 \/ w[l] # "-"}}
         <=> \E i \in 1 .. Len(w) : (i = 1 \/ w[i] # "-") /\ w[i] = ch
  OBVIOUS
<1>2. ch \in {c \in Pattern!Characters : \E k \in 2 .. Len(w) - 1 : Between(w, k, c)}
      <=> \E i \in 2 .. Len(w) - 1 : Between(w, i, ch)
  OBVIOUS
<1>3. HasFrom(w, 0, ch) <=> \/ \E i \in 1 .. Len(w) : (i = 1 \/ w[i] # "-") /\ w[i] = ch
                            \/ \E i \in 2 .. Len(w) - 1 : Between(w, i, ch)
  <2>1. 0 + 1 = 1 /\ 0 + 2 = 2
    OBVIOUS
  <2>. QED
    BY <2>1 DEF HasFrom
<1>4. Pattern!Members(w) = {w[k] : k \in {l \in DOMAIN w : l = 1 \/ w[l] # "-"}}
        \cup {c \in Pattern!Characters : \E k \in 2 .. Len(w) - 1 : Between(w, k, c)}
  BY Zenon DEF Pattern!Members, Between
<1>. QED
  BY <1>1, <1>2, <1>3, <1>4

(* The next character of a set is no hyphen.                               *)
LEMMA HasPlain ==
  ASSUME NEW w, Len(w) \in Nat, NEW k \in Nat, k + 2 <= Len(w), w[k + 2] # "-", NEW ch
  PROVE  HasFrom(w, k, ch) <=> ch = w[k + 1] \/ HasFrom(w, k + 1, ch)
<1>1. ASSUME HasFrom(w, k, ch) PROVE ch = w[k + 1] \/ HasFrom(w, k + 1, ch)
  <2>1. CASE \E i \in k + 1 .. Len(w) : (i = k + 1 \/ w[i] # "-") /\ w[i] = ch
    <3>1. PICK i \in k + 1 .. Len(w) : (i = k + 1 \/ w[i] # "-") /\ w[i] = ch
      BY <2>1
    <3>2. CASE i = k + 1
      BY <3>1, <3>2
    <3>3. CASE i # k + 1
      <4>1. i \in (k + 1) + 1 .. Len(w)
        BY <3>3
      <4>. QED
        BY <3>1, <3>3, <4>1 DEF HasFrom
    <3>. QED
      BY <3>2, <3>3
  <2>2. CASE \E i \in k + 2 .. Len(w) - 1 : Between(w, i, ch)
    <3>1. PICK i \in k + 2 .. Len(w) - 1 : Between(w, i, ch)
      BY <2>2
    <3>2. i # k + 2
      BY <3>1 DEF Between
    <3>3. i \in (k + 1) + 2 .. Len(w) - 1
      BY <3>2
    <3>. QED
      BY <3>1, <3>3 DEF HasFrom
  <2>. QED
    BY <1>1, <2>1, <2>2 DEF HasFrom
<1>2. ASSUME ch = w[k + 1] PROVE HasFrom(w, k, ch)
  <2>1. k + 1 \in k + 1 .. Len(w)
    OBVIOUS
  <2>. QED
    BY <1>2, <2>1 DEF HasFrom
<1>3. ASSUME HasFrom(w, k + 1, ch) PROVE HasFrom(w, k, ch)
  <2>0. (k + 1) + 1 = k + 2
    OBVIOUS
  <2>1. CASE \E i \in (k + 1) + 1 .. Len(w) : (i = (k + 1) + 1 \/ w[i] # "-") /\ w[i] = ch
    <3>1. PICK i \in k + 2 .. Len(w) : (i = k + 2 \/ w[i] # "-") /\ w[i] = ch
      BY <2>0, <2>1
    <3>2. i \in k + 1 .. Len(w) /\ w[i] # "-"
      BY <3>1
    <3>. QED
      BY <3>1, <3>2 DEF HasFrom
  <2>2. CASE \E i \in (k + 1) + 2 .. Len(w) - 1 : Between(w, i, ch)
    <3>1. \A i \in (k + 1) + 2 .. Len(w) - 1 : i \in k + 2 .. Len(w) - 1
      OBVIOUS
    <3>. QED
      BY <2>2, <3>1 DEF HasFrom
  <2>. QED
    BY <1>3, <2>1, <2>2 DEF HasFrom
<1>. QED
  BY <1>1, <1>2, <1>3

(* The next character of a set is a hyphen, of a range.                    *)
LEMMA HasRange ==
  ASSUME NEW w, Len(w) \in Nat, NEW k \in Nat, k + 3 <= Len(w), w[k + 2] = "-",
         w[k + 3] # "-", NEW ch
  PROVE  HasFrom(w, k, ch) <=> \/ ch = w[k + 1]
                               \/ Between(w, k + 2, ch)
                               \/ HasFrom(w, k + 2, ch)
<1>0. (k + 2) + 1 = k + 3 /\ (k + 2) + 2 = k + 4
  OBVIOUS
<1>1. ASSUME HasFrom(w, k, ch)
      PROVE  ch = w[k + 1] \/ Between(w, k + 2, ch) \/ HasFrom(w, k + 2, ch)
  <2>1. CASE \E i \in k + 1 .. Len(w) : (i = k + 1 \/ w[i] # "-") /\ w[i] = ch
    <3>1. PICK i \in k + 1 .. Len(w) : (i = k + 1 \/ w[i] # "-") /\ w[i] = ch
      BY <2>1
    <3>2. CASE i = k + 1
      BY <3>1, <3>2
    <3>3. CASE i # k + 1
      <4>1. i # k + 2
        BY <3>1, <3>3
      <4>2. i \in (k + 2) + 1 .. Len(w)
        BY <3>3, <4>1
      <4>. QED
        BY <3>1, <3>3, <4>2 DEF HasFrom
    <3>. QED
      BY <3>2, <3>3
  <2>2. CASE \E i \in k + 2 .. Len(w) - 1 : Between(w, i, ch)
    <3>1. PICK i \in k + 2 .. Len(w) - 1 : Between(w, i, ch)
      BY <2>2
    <3>2. i # k + 3
      BY <3>1 DEF Between
    <3>3. i = k + 2 \/ i \in (k + 2) + 2 .. Len(w) - 1
      BY <3>2
    <3>. QED
      BY <3>1, <3>3 DEF HasFrom
  <2>. QED
    BY <1>1, <2>1, <2>2 DEF HasFrom
<1>2. ASSUME ch = w[k + 1] PROVE HasFrom(w, k, ch)
  <2>1. k + 1 \in k + 1 .. Len(w)
    OBVIOUS
  <2>. QED
    BY <1>2, <2>1 DEF HasFrom
<1>3. ASSUME Between(w, k + 2, ch) PROVE HasFrom(w, k, ch)
  <2>1. k + 2 \in k + 2 .. Len(w) - 1
    OBVIOUS
  <2>. QED
    BY <1>3, <2>1 DEF HasFrom
<1>4. ASSUME HasFrom(w, k + 2, ch) PROVE HasFrom(w, k, ch)
  <2>1. CASE \E i \in (k + 2) + 1 .. Len(w) : (i = (k + 2) + 1 \/ w[i] # "-") /\ w[i] = ch
    <3>1. PICK i \in k + 3 .. Len(w) : (i = k + 3 \/ w[i] # "-") /\ w[i] = ch
      BY <1>0, <2>1
    <3>2. i \in k + 1 .. Len(w) /\ w[i] # "-"
      BY <3>1
    <3>. QED
      BY <3>1, <3>2 DEF HasFrom
  <2>2. CASE \E i \in (k + 2) + 2 .. Len(w) - 1 : Between(w, i, ch)
    <3>1. \A i \in (k + 2) + 2 .. Len(w) - 1 : i \in k + 2 .. Len(w) - 1
      OBVIOUS
    <3>. QED
      BY <2>2, <3>1 DEF HasFrom
  <2>. QED
    BY <1>4, <2>1, <2>2 DEF HasFrom
<1>. QED
  BY <1>1, <1>2, <1>3, <1>4

(* q begins with the body w of a set and its bracket.                      *)
Enclosed(w, q) ==
  /\ q \in Pattern!Strings /\ Len(w) < Len(q) /\ q[Len(w) + 1] = "]"
  /\ \A i \in 1 .. Len(w) : q[i] = w[i]

(* What the loop over a set comes to from its k-th character on: whether   *)
(* the set has ch, at a place in the body or at the bracket.               *)
ScannedFrom(x, w, q, k, ch) ==
  /\ x.ok = TRUE /\ x.match \in BOOLEAN /\ (x.match <=> HasFrom(w, k, ch))
  /\ \E j \in 1 .. Len(w) : x.rest = Suffix(q, j)

(* One turn of the loop.                                                   *)
LEMMA ScanTurn ==
  ASSUME NEW w, Pattern!IsBody(w), NEW q, Enclosed(w, q), NEW ch \in Pattern!Characters,
         NEW k \in 0 .. Len(w) - 1, k = 0 \/ w[k + 1] # "-",
         \A j \in 0 .. Len(w) - 1 : k < j /\ w[j + 1] # "-" =>
           ScannedFrom(Scanner(ch)[Suffix(q, j)], w, q, j, ch)
  PROVE  ScannedFrom(Scanner(ch)[Suffix(q, k)], w, q, k, ch)
<1> DEFINE n == Len(w)
           r == Suffix(q, k)
           p == Suffix(q, k + 1)
           x == Scanner(ch)[r]
           A(m, t) == [ok |-> TRUE, match |-> m, rest |-> t]
<1>1. /\ w \in Seq(Pattern!Characters) /\ n \in Nat \ {0} /\ q \in Seq(STRING) /\ Len(q) \in Nat
      /\ n < Len(q) /\ q[n + 1] = "]" /\ \A i \in 1 .. n : w[i] \in Pattern!Characters /\ w[i] # "]"
      /\ \A i \in 1 .. n : q[i] = w[i]
  <2>1. w # <<>> /\ w \in Seq(Pattern!Characters \ {"]"})
    BY DEF Pattern!IsBody
  <2>2. w \in Seq(Pattern!Characters) /\ Len(w) \in Nat \ {0}
    BY <2>1
  <2>3. \A i \in 1 .. Len(w) : w[i] \in Pattern!Characters /\ w[i] # "]"
    BY <2>1
  <2>. QED
    BY <2>2, <2>3 DEF Enclosed, Pattern!Strings
<1>2. /\ k \in 0 .. Len(q) - 1 /\ k \in 0 .. Len(q) /\ k + 1 \in 0 .. Len(q) - 1
      /\ k + 1 \in 0 .. Len(q) /\ k + 1 \in 1 .. n /\ (k + 1) + 1 = k + 2
  BY <1>1
<1>3. /\ r \in Pattern!Strings /\ Len(r) = Len(q) - k /\ Head(r) = q[k + 1] /\ Tail(r) = p
      /\ p \in Pattern!Strings /\ Len(p) = Len(q) - (k + 1) /\ Head(p) = q[k + 2]
      /\ Tail(p) = Suffix(q, k + 2)
  <2>1. r \in Seq(STRING) /\ Len(r) = Len(q) - k /\ p \in Seq(STRING) /\ Len(p) = Len(q) - (k + 1)
    BY <1>1, <1>2, SuffixFacts, Zenon
  <2>2. Head(r) = q[k + 1] /\ Tail(r) = p
    BY <1>1, <1>2, SuffixHead, Zenon
  <2>3. Head(p) = q[(k + 1) + 1] /\ Tail(p) = Suffix(q, (k + 1) + 1)
    BY <1>1, <1>2, SuffixHead
  <2>. QED
    BY <1>2, <2>1, <2>2, <2>3, Zenon DEF Pattern!Strings
<1>4. x = ScanStep(ch, Scanner(ch), r)
  BY <1>3, ScanIs
<1>5. ~ (Len(r) < 2) /\ Len(p) \in Nat
  BY <1>1, <1>2, <1>3
<1>. HIDE DEF n, r, p, x
<1>6. CASE k + 1 = n
  <2>1. Head(p) = "]"
    BY <1>1, <1>3, <1>6
  <2>2. x = A(ch = q[k + 1], p)
    BY <1>3, <1>4, <1>5, <2>1, Zenon DEF ScanStep
  <2>3. HasFrom(w, k, ch) <=> ch = w[k + 1]
    <3>1. \A i \in k + 1 .. n : i = k + 1
      BY <1>1, <1>6
    <3>2. ~ \E i \in k + 2 .. n - 1 : TRUE
      BY <1>1, <1>6
    <3>3. k + 1 \in k + 1 .. n
      BY <1>1, <1>6
    <3>. QED
      BY <3>1, <3>2, <3>3 DEF HasFrom, n
  <2>. QED
    <3>1. x.ok = TRUE /\ x.match = (ch = q[k + 1]) /\ x.rest = p
      BY <2>2
    <3>2. q[k + 1] = w[k + 1]
      BY <1>1, <1>2
    <3>. QED
      BY <1>2, <2>3, <3>1, <3>2, Zenon DEF ScannedFrom, x, p, r, n
<1>7. CASE k + 1 # n /\ w[k + 2] = "-"
  <2>1. k + 2 \in 2 .. n
    BY <1>1, <1>7 DEF n
  <2>2. k + 2 < n /\ w[(k + 2) + 1] # "-"
    BY <1>7, <2>1 DEF Pattern!IsBody, n
  <2>3. /\ (k + 2) + 1 = k + 3 /\ k + 3 <= n /\ k + 2 \in 1 .. n /\ k + 3 \in 1 .. n
        /\ k + 2 \in 0 .. n - 1 /\ k + 2 \in 0 .. Len(q) - 1 /\ Len(q) - (k + 1) # 1
        /\ (k + 2) - 1 = k + 1
    BY <1>1, <2>1, <2>2
  <2>4. Head(p) = "-" /\ Len(p) # 1
    BY <1>1, <1>3, <1>7, <2>3, Zenon
  <2>5. Head(Tail(p)) = w[k + 3] /\ w[k + 3] # "]" /\ Head(r) = w[k + 1]
    BY <1>1, <1>2, <1>3, <2>3, SuffixHead, Zenon
  <2> DEFINE last == w[k + 3]
             c == w[k + 1]
             here == \/ ch \in {c, last}
                     \/ Pattern!Ord(c) < Pattern!Ord(ch) /\ Pattern!Ord(ch) < Pattern!Ord(last)
  <2>6. x = IF here THEN A(TRUE, Tail(p)) ELSE Scanner(ch)[Tail(p)]
    BY <1>3, <1>4, <1>5, <2>4, <2>5, Zenon DEF ScanStep
  <2>7. HasFrom(w, k, ch) <=> ch = c \/ Between(w, k + 2, ch) \/ HasFrom(w, k + 2, ch)
    BY <1>1, <1>2, <1>7, <2>2, <2>3, HasRange DEF n
  <2>8. here => ch = c \/ Between(w, k + 2, ch) \/ ch = last
    <3>1. ASSUME Pattern!Ord(c) < Pattern!Ord(ch), Pattern!Ord(ch) < Pattern!Ord(last)
          PROVE  Between(w, k + 2, ch)
      <4>1. Pattern!Ord(c) \in Nat /\ Pattern!Ord(ch) \in Nat /\ Pattern!Ord(last) \in Nat
        BY <1>1, <1>2, <2>3, OrdIs, Zenon
      <4>. HIDE DEF c, last
      <4>2. Pattern!Ord(c) <= Pattern!Ord(ch) /\ Pattern!Ord(ch) <= Pattern!Ord(last)
        BY <3>1, <4>1
      <4>. QED
        BY <1>7, <2>3, <4>2 DEF Between, c, last
    <3>. HIDE DEF c, last
    <3>. QED
      BY <3>1
  <2>9. Between(w, k + 2, ch) => here
    <3>1. /\ Pattern!Ord(c) \in Nat /\ Pattern!Ord(ch) \in Nat /\ Pattern!Ord(last) \in Nat
          /\ Alphabet[Pattern!Ord(c)] = c /\ Alphabet[Pattern!Ord(ch)] = ch
          /\ Alphabet[Pattern!Ord(last)] = last
      BY <1>1, <1>2, <2>3, OrdIs, Zenon
    <3>2. Between(w, k + 2, ch) => /\ Pattern!Ord(c) <= Pattern!Ord(ch)
                                   /\ Pattern!Ord(ch) <= Pattern!Ord(last)
      BY <2>3 DEF Between
    <3>. HIDE DEF c, last
    <3>3. Pattern!Ord(c) = Pattern!Ord(ch) => ch = c
      BY <3>1
    <3>4. Pattern!Ord(ch) = Pattern!Ord(last) => ch = last
      BY <3>1
    <3>. QED
      BY <3>1, <3>2, <3>3, <3>4
  <2>10. ch = last => HasFrom(w, k + 2, ch)
    <3>1. k + 3 \in (k + 2) + 1 .. Len(w) /\ k + 3 = (k + 2) + 1
      BY <1>1, <2>3 DEF n
    <3>. QED
      BY <3>1 DEF HasFrom
  <2>11. ScannedFrom(Scanner(ch)[Tail(p)], w, q, k + 2, ch)
    <3>1. k + 2 \in 0 .. Len(w) - 1 /\ k < k + 2 /\ w[(k + 2) + 1] # "-"
      BY <2>2, <2>3 DEF n
    <3>. QED
      BY <1>3, <3>1, Zenon
  <2>12. ch = c => here
    OBVIOUS
  <2>. HIDE DEF here, c, last
  <2>13. CASE here
    <3>1. x = A(TRUE, Tail(p)) /\ HasFrom(w, k, ch)
      BY <2>6, <2>7, <2>8, <2>10, <2>13
    <3>. QED
      BY <1>3, <2>3, <3>1 DEF ScannedFrom, x, r, n
  <2>14. CASE ~ here
    <3>1. x = Scanner(ch)[Tail(p)] /\ (HasFrom(w, k, ch) <=> HasFrom(w, k + 2, ch))
      BY <2>6, <2>7, <2>9, <2>12, <2>14
    <3>. QED
      BY <2>11, <3>1 DEF ScannedFrom, x, r
  <2>. QED
    BY <2>13, <2>14
<1>8. CASE k + 1 # n /\ w[k + 2] # "-"
  <2>1. k + 2 \in 1 .. n /\ k + 2 <= n /\ k + 1 \in 0 .. n - 1
    BY <1>1, <1>2, <1>8
  <2>2. Head(p) = w[k + 2] /\ w[k + 2] # "]" /\ Head(r) = w[k + 1]
    BY <1>1, <1>2, <1>3, <2>1, Zenon
  <2>3. x = IF ch \in {w[k + 1], w[k + 2]} THEN A(TRUE, p) ELSE Scanner(ch)[p]
    BY <1>3, <1>4, <1>5, <1>8, <2>2, Zenon DEF ScanStep
  <2>4. HasFrom(w, k, ch) <=> ch = w[k + 1] \/ HasFrom(w, k + 1, ch)
    BY <1>1, <1>8, <2>1, HasPlain DEF n
  <2>5. ch = w[k + 2] => HasFrom(w, k + 1, ch)
    <3>1. k + 2 \in (k + 1) + 1 .. Len(w) /\ k + 2 = (k + 1) + 1
      BY <1>1, <2>1 DEF n
    <3>. QED
      BY <3>1 DEF HasFrom
  <2>6. ScannedFrom(Scanner(ch)[p], w, q, k + 1, ch)
    <3>1. k + 1 \in 0 .. Len(w) - 1 /\ k < k + 1 /\ w[(k + 1) + 1] # "-"
      BY <1>2, <1>8, <2>1 DEF n
    <3>. QED
      BY <3>1 DEF p
  <2>7. CASE ch \in {w[k + 1], w[k + 2]}
    <3>1. x = A(TRUE, p) /\ HasFrom(w, k, ch)
      BY <2>3, <2>4, <2>5, <2>7
    <3>. QED
      BY <1>2, <3>1 DEF ScannedFrom, x, r, p, n
  <2>8. CASE ch \notin {w[k + 1], w[k + 2]}
    <3>1. x = Scanner(ch)[p] /\ (HasFrom(w, k, ch) <=> HasFrom(w, k + 1, ch))
      BY <2>3, <2>4, <2>8
    <3>. QED
      BY <2>6, <3>1 DEF ScannedFrom, x, r
  <2>. QED
    BY <2>7, <2>8
<1>. QED
  BY <1>6, <1>7, <1>8

(* Scan, Set: what the loop over a set comes to, and where the bracket is. *)
LEMMA SetScanned ==
  ASSUME NEW w, Pattern!IsBody(w), NEW q, Enclosed(w, q), NEW ch \in Pattern!Characters
  PROVE  LET x == Pattern!Scan(ch, q)
         IN  /\ x.ok = TRUE /\ x.match \in BOOLEAN /\ (x.match <=> ch \in Pattern!Members(w))
             /\ Pattern!From(x.rest, {"]"}) = Suffix(q, Len(w))
<1> DEFINE n == Len(w)
           P(k) == k = 0 \/ w[k + 1] # "-"
           Claim(k) == ScannedFrom(Scanner(ch)[Suffix(q, k)], w, q, k, ch)
           S == {m \in Nat : \A k \in 0 .. n - 1 : n - k <= m /\ P(k) => Claim(k)}
           x == Pattern!Scan(ch, q)
<1>1. /\ n \in Nat \ {0} /\ DOMAIN w = 1 .. n /\ q \in Seq(STRING) /\ Len(q) \in Nat /\ n < Len(q)
      /\ q[n + 1] = "]" /\ \A i \in 1 .. n : q[i] # "]"
  <2>1. w # <<>> /\ w \in Seq(Pattern!Characters \ {"]"})
    BY DEF Pattern!IsBody
  <2>2. n \in Nat \ {0} /\ DOMAIN w = 1 .. n
    BY <2>1
  <2>3. \A i \in 1 .. n : w[i] # "]"
    BY <2>1
  <2>. QED
    BY <2>2, <2>3 DEF Enclosed, Pattern!Strings
<1>. HIDE DEF n, Claim, P
<1>2. 0 \in S
  BY <1>1
<1>3. ASSUME NEW m \in Nat, m \in S PROVE m + 1 \in S
  <2>. SUFFICES ASSUME NEW k \in 0 .. n - 1, n - k <= m + 1, P(k) PROVE Claim(k)
    OBVIOUS
  <2>1. ASSUME NEW j \in 0 .. n - 1, k < j, w[j + 1] # "-" PROVE Claim(j)
    <3>1. n - j <= m
      BY <1>1, <2>1
    <3>. QED
      BY <1>3, <2>1, <3>1 DEF P
  <2>. QED
    BY <2>1, ScanTurn DEF P, Claim, n
<1>4. n \in S
  <2>. HIDE DEF S
  <2>. QED
    BY <1>1, <1>2, <1>3, SetInduction, Zenon
<1>5. Claim(0)
  <2>1. 0 \in 0 .. n - 1 /\ n - 0 <= n /\ P(0)
    BY <1>1 DEF P
  <2>. QED
    BY <1>4, <2>1
<1>6. x = Scanner(ch)[Suffix(q, 0)]
  <2>1. Suffix(q, 0) = q
    BY <1>1, SuffixEnds
  <2>. QED
    BY <1>1, <2>1, ScanIs DEF Pattern!Strings
<1>. HIDE DEF x
<1>7. ScannedFrom(x, w, q, 0, ch)
  BY <1>5, <1>6 DEF Claim
<1>8. x.match <=> ch \in Pattern!Members(w)
  BY <1>1, <1>7, MembersAre DEF ScannedFrom, n
<1>9. PICK j \in 1 .. n : x.rest = Suffix(q, j)
  BY <1>7 DEF ScannedFrom, n
<1>10. /\ Suffix(q, j) \in Seq(STRING) /\ Len(Suffix(q, j)) = Len(q) - j
       /\ \A i \in 1 .. Len(q) - j : Suffix(q, j)[i] = q[j + i]
  <2>1. j \in 0 .. Len(q)
    BY <1>1
  <2>. QED
    BY <1>1, <2>1, SuffixFacts
<1>11. Pattern!From(Suffix(q, j), {"]"}) = Suffix(Suffix(q, j), n - j)
  <2>1. /\ n - j \in 0 .. Len(Suffix(q, j)) - 1 /\ (n - j) + 1 \in 1 .. Len(q) - j
        /\ j + ((n - j) + 1) = n + 1
    BY <1>1, <1>10
  <2>2. Suffix(q, j)[(n - j) + 1] \in {"]"}
    BY <1>1, <1>10, <2>1
  <2>3. ASSUME NEW i \in 1 .. n - j PROVE Suffix(q, j)[i] \notin {"]"}
    <3>1. i \in 1 .. Len(q) - j /\ j + i \in 1 .. n
      BY <1>1
    <3>. QED
      BY <1>1, <1>10, <3>1
  <2>. HIDE DEF Suffix
  <2>. QED
    BY <1>10, <2>1, <2>2, <2>3, FromAt, Zenon
<1>12. Suffix(Suffix(q, j), n - j) = Suffix(q, n)
  <2>1. j \in 0 .. Len(q) /\ n - j \in 0 .. Len(q) - j /\ j + (n - j) = n
    BY <1>1
  <2>. QED
    BY <1>1, <2>1, SuffixOfSuffix
<1>. QED
  BY <1>7, <1>8, <1>9, <1>11, <1>12 DEF ScannedFrom, x, n

(* A set stands for its characters, or for the letters that it has not.    *)
LEMMA SetIs ==
  ASSUME NEW t \in Pattern!Strings, Pattern!IsSet(t), NEW s \in Pattern!Strings,
         s # <<>> => Head(s) \in Letters, NEW r \in Pattern!Strings
  PROVE  Matched(s, t \o r) <=> s # <<>> /\ <<Head(s)>> \in Meaning[t] /\ Matched(Tail(s), r)
<1> DEFINE p == t \o r
           negate == Len(t) > 1 /\ t[2] = "!"
           from == IF negate THEN 2 ELSE 1
           w == SubSeq(t, IF negate THEN 3 ELSE 2, Len(t) - 1)
           q == Suffix(p, from)
           ch == Head(s)
           x == Pattern!Scan(ch, q)
<1>1. /\ Len(t) > 2 /\ Head(t) = "[" /\ t[Len(t)] = "]" /\ Pattern!IsBody(w)
      /\ Meaning[t] = {<<c>> : c \in {l \in Letters : negate # (l \in Pattern!Members(w))}}
  BY DEF Pattern!IsSet
<1>2. /\ t \in Seq(STRING) /\ r \in Seq(STRING) /\ Len(t) \in Nat /\ Len(r) \in Nat
      /\ p \in Seq(STRING) /\ Len(p) = Len(t) + Len(r)
      /\ \A i \in 1 .. Len(t) : p[i] = t[i]
  BY DEF Pattern!Strings
<1>3. Suffix(p, Len(t)) = r
  <2>1. Len(t) \in 0 .. Len(p) /\ Len(p) - Len(t) = Len(r)
    BY <1>2
  <2>2. /\ Suffix(p, Len(t)) \in Seq(STRING) /\ Len(Suffix(p, Len(t))) = Len(r)
        /\ \A i \in 1 .. Len(r) : Suffix(p, Len(t))[i] = p[Len(t) + i]
    BY <1>2, <2>1, SuffixFacts, Zenon
  <2>3. \A i \in 1 .. Len(r) : p[Len(t) + i] = r[i]
    BY <1>2
  <2>. QED
    BY <1>2, <2>2, <2>3, SameSeq
<1>. HIDE DEF p
<1>4. /\ negate \in BOOLEAN /\ from \in {1, 2} /\ (negate <=> from = 2)
      /\ Len(w) = Len(t) - 1 - from /\ \A i \in 1 .. Len(w) : w[i] = t[from + i]
      /\ Len(w) \in Nat \ {0}
  <2>1. Len(w) # 0
    BY <1>1, <1>2 DEF Pattern!IsBody
  <2>0. negate \in BOOLEAN
    OBVIOUS
  <2>2. CASE negate
    <3>1. w = SubSeq(t, 3, Len(t) - 1)
      BY <2>2
    <3>. HIDE DEF w, negate
    <3>. QED
      BY <1>1, <1>2, <2>0, <2>1, <2>2, <3>1
  <2>3. CASE ~ negate
    <3>1. w = SubSeq(t, 2, Len(t) - 1)
      BY <2>3
    <3>. HIDE DEF w, negate
    <3>. QED
      BY <1>1, <1>2, <2>0, <2>1, <2>3, <3>1
  <2>. QED
    BY <2>2, <2>3, Zenon
<1>5. negate <=> t[2] = "!"
  BY <1>1, <1>2
<1>. HIDE DEF negate, w, from
<1>6. from \in 0 .. Len(p) /\ from + Len(w) + 1 = Len(t) /\ from + Len(w) + 1 \in 1 .. Len(p)
  BY <1>1, <1>2, <1>4
<1>7. /\ q \in Seq(STRING) /\ Len(q) = Len(p) - from
      /\ \A i \in 1 .. Len(p) - from : q[i] = p[from + i]
  BY <1>2, <1>6, SuffixFacts, Zenon
<1>. HIDE DEF q
<1>8. Enclosed(w, q)
  <2>1. Len(w) < Len(q) /\ Len(w) + 1 \in 1 .. Len(p) - from /\ from + (Len(w) + 1) = Len(t)
        /\ Len(t) \in 1 .. Len(t)
    BY <1>1, <1>2, <1>4, <1>6, <1>7
  <2>2. q[Len(w) + 1] = "]"
    BY <1>1, <1>2, <1>7, <2>1
  <2>3. ASSUME NEW i \in 1 .. Len(w) PROVE q[i] = w[i]
    <3>1. i \in 1 .. Len(p) - from /\ from + i \in 1 .. Len(t)
      BY <1>2, <1>4, <2>1
    <3>. QED
      BY <1>2, <1>4, <1>7, <3>1
  <2>. QED
    BY <1>7, <2>1, <2>2, <2>3 DEF Enclosed, Pattern!Strings
<1>9. /\ p # <<>> /\ Head(p) = "[" /\ Tail(p) \in Pattern!Strings /\ Tail(p) = Suffix(p, 1)
      /\ Tail(p) # <<>> /\ Head(Tail(p)) = t[2] /\ Tail(Tail(p)) = Suffix(p, 2)
  <2>1. p # <<>> /\ 1 \in 0 .. Len(p) - 1 /\ 1 \in 1 .. Len(t) /\ 2 \in 1 .. Len(t)
    BY <1>1, <1>2
  <2>2. Head(p) = p[1] /\ Tail(p) = Suffix(p, 1) /\ Tail(p) \in Seq(STRING) /\ Head(t) = t[1]
    <3>1. t # <<>>
      BY <1>1, <1>2
    <3>. QED
      BY <1>2, <2>1, <3>1, SuffixEnds
  <2>3. Suffix(p, 1) # <<>> /\ Head(Suffix(p, 1)) = p[1 + 1] /\ Tail(Suffix(p, 1)) = Suffix(p, 1 + 1)
    BY <1>2, <2>1, SuffixHead, Zenon
  <2>. QED
    <3>1. 1 + 1 = 2 /\ p[1] = t[1] /\ p[2] = t[2]
      BY <1>2, <2>1
    <3>. QED
      BY <1>1, <2>1, <2>2, <2>3, <3>1, Zenon DEF Pattern!Strings
<1>10. Matched(s, p) <=> \E d \in Pattern!Steps(s, "[", Tail(p)) : Pattern!Match[d]
  BY <1>2, <1>9, MatchedIs, Zenon DEF Pattern!Strings
<1>11. CASE s = <<>>
  <2>1. Pattern!Steps(s, "[", Tail(p)) = {}
    BY <1>11 DEF Pattern!Steps
  <2>. QED
    BY <1>10, <1>11, <2>1 DEF p
<1>12. CASE s # <<>>
  <2>1. ch \in Letters /\ ch \in Pattern!Characters
    BY <1>12, PatternAssumption
  <2>2. /\ x.ok = TRUE /\ x.match \in BOOLEAN /\ (x.match <=> ch \in Pattern!Members(w))
        /\ Pattern!From(x.rest, {"]"}) = Suffix(q, Len(w))
    BY <1>1, <1>8, <2>1, SetScanned, Zenon
  <2>3. Suffix(q, Len(w)) # <<>> /\ Tail(Suffix(q, Len(w))) = r
    <3>1. Len(w) \in 0 .. Len(q) - 1
      BY <1>2, <1>4, <1>6, <1>7
    <3>2. /\ Suffix(q, Len(w)) # <<>>
          /\ Tail(Suffix(q, Len(w))) = Suffix(q, Len(w) + 1)
      BY <1>7, <3>1, SuffixHead, Zenon
    <3>3. Suffix(q, Len(w) + 1) = Suffix(p, from + (Len(w) + 1))
      <4>1. Len(w) + 1 \in 0 .. Len(p) - from
        BY <1>2, <1>4, <1>6
      <4>. QED
        BY <1>2, <1>6, <4>1, SuffixOfSuffix, Zenon DEF q
    <3>4. from + (Len(w) + 1) = Len(t)
      BY <1>2, <1>4, <1>6
    <3>. QED
      BY <1>3, <3>2, <3>3, <3>4
  <2>4. Pattern!Steps(s, "[", Tail(p)) = Pattern!Set(s, Tail(p))
    BY <1>12 DEF Pattern!Steps
  <2>5. /\ (Tail(p) # <<>> /\ Head(Tail(p)) = "!") <=> negate
        /\ (IF negate THEN Tail(Tail(p)) ELSE Tail(p)) = q
    BY <1>4, <1>5, <1>9, Zenon DEF q
  <2>6. Pattern!Set(s, Tail(p)) =
          IF x.ok /\ negate # x.match THEN Pattern!AfterSet(s, x.rest) ELSE {}
    <3> DEFINE neg == Tail(p) # <<>> /\ Head(Tail(p)) = "!"
               scan == Pattern!Scan(Head(s), IF neg THEN Tail(Tail(p)) ELSE Tail(p))
    <3>1. Pattern!Set(s, Tail(p)) =
            IF scan.ok /\ neg # scan.match THEN Pattern!AfterSet(s, scan.rest) ELSE {}
      BY DEF Pattern!Set
    <3>2. neg = negate
      BY <1>4, <2>5
    <3>3. scan = x
      BY <2>5, <3>2, Zenon
    <3>. HIDE DEF neg, scan, x, ch
    <3>. QED
      BY <3>1, <3>2, <3>3
  <2>7. Pattern!AfterSet(s, x.rest) = {<<Tail(s), r>>}
    BY <2>2, <2>3, Zenon DEF Pattern!AfterSet
  <2>8. <<ch>> \in Meaning[t] <=> negate # (ch \in Pattern!Members(w))
    BY <1>1, <2>1
  <2>9. (ch \in Pattern!Members(w)) = x.match
    BY <2>2
  <2>. HIDE DEF x
  <2>10. Matched(s, p) <=> negate # x.match /\ Matched(Tail(s), r)
    BY <1>10, <2>2, <2>4, <2>6, <2>7, Zenon DEF Matched
  <2>. QED
    BY <1>12, <2>8, <2>9, <2>10 DEF p
<1>. QED
  BY <1>11, <1>12

(* Less of what is at most m is at most m.                                 *)
LEMMA Lessened ==
  ASSUME NEW a \in Nat, NEW m \in Nat, a <= m, NEW k \in 0 .. a
  PROVE  a - k <= m
  OBVIOUS

(* A sequence of one element is the sequence of its head.                  *)
LEMMA Singleton ==
  ASSUME NEW X, NEW s \in Seq(X), Len(s) = 1
  PROVE  s = <<Head(s)>> /\ Head(s) \in X
<1>1. s[1] \in X /\ Head(s) = s[1]
  OBVIOUS
<1>2. <<s[1]>> \in Seq(X) /\ Len(<<s[1]>>) = 1 /\ <<s[1]>>[1] = s[1]
  BY <1>1
<1>3. \A j \in 1 .. 1 : j = 1
  OBVIOUS
<1>. QED
  BY <1>1, <1>2, <1>3, SameSeq

(* What stands for strings of one character stands for the first one.      *)
LEMMA SingleIs ==
  ASSUME NEW M, \A x \in M : Len(x) = 1, NEW s \in Pattern!Strings, NEW r
  PROVE  (\E k \in 0 .. Len(s) : SubSeq(s, 1, k) \in M /\ Matched(Suffix(s, k), r))
         <=> s # <<>> /\ <<Head(s)>> \in M /\ Matched(Tail(s), r)
<1>1. s \in Seq(STRING) /\ Len(s) \in Nat
  BY DEF Pattern!Strings
<1>2. ASSUME NEW k \in 0 .. Len(s), SubSeq(s, 1, k) \in M PROVE k = 1
  <2>1. Len(SubSeq(s, 1, k)) = k
    BY <1>1, PrefixIs
  <2>2. Len(SubSeq(s, 1, k)) = 1
    BY <1>2, Zenon
  <2>. QED
    BY <2>1, <2>2
<1>3. CASE s = <<>>
  <2>1. \A k \in 0 .. Len(s) : k # 1
    BY <1>3
  <2>. QED
    BY <1>2, <1>3, <2>1
<1>4. CASE s # <<>>
  <2>1. 1 \in 0 .. Len(s) /\ Tail(s) = Suffix(s, 1) /\ Head(s) = s[1]
    BY <1>1, <1>4, SuffixEnds
  <2>2. SubSeq(s, 1, 1) = <<Head(s)>>
    BY <1>1, <2>1, PrefixIs
  <2>3. ASSUME NEW k \in 0 .. Len(s), SubSeq(s, 1, k) \in M, Matched(Suffix(s, k), r)
        PROVE  <<Head(s)>> \in M /\ Matched(Tail(s), r)
    <3>1. k = 1
      BY <1>2, <2>3
    <3>. HIDE DEF Matched, Suffix
    <3>. QED
      BY <2>1, <2>2, <2>3, <3>1, Zenon
  <2>4. ASSUME <<Head(s)>> \in M, Matched(Tail(s), r)
        PROVE  \E k \in 0 .. Len(s) : SubSeq(s, 1, k) \in M /\ Matched(Suffix(s, k), r)
    BY <2>1, <2>2, <2>4, Zenon
  <2>. QED
    BY <1>4, <2>3, <2>4, Zenon
<1>. QED
  BY <1>3, <1>4

(* The letters of paths are characters.                                    *)
LEMMA LettersAre ==
  /\ Letters \subseteq STRING /\ Seq(Letters) \subseteq Pattern!Strings
  /\ MaxLength \in Nat
<1>1. Alphabet \in Seq(STRING) /\ Letters \subseteq Pattern!Characters /\ MaxLength \in Nat
  BY PatternAssumption
<1>2. Letters \subseteq STRING
  BY <1>1 DEF Pattern!Characters, Pattern!Range
<1>3. ASSUME NEW s \in Seq(Letters) PROVE s \in Pattern!Strings
  BY <1>2, WiderSeq, Zenon DEF Pattern!Strings
<1>. QED
  BY <1>1, <1>2, <1>3, Zenon

(* What `*' stands for: every string that is short enough.                 *)
LEMMA StarPieceIs ==
  ASSUME NEW t \in Pattern!Strings, t = <<"*">>,
         NEW M, M = UNION {[1 .. n -> Letters] : n \in 0 .. MaxLength},
         NEW s \in Seq(Letters), Len(s) <= MaxLength, NEW r \in Pattern!Strings
  PROVE  Matched(s, t \o r)
         <=> \E k \in 0 .. Len(s) : SubSeq(s, 1, k) \in M /\ Matched(Suffix(s, k), r)
<1>1. s \in Pattern!Strings /\ Len(s) \in Nat /\ MaxLength \in Nat
  BY LettersAre, WiderSeq
<1>2. ASSUME NEW k \in 0 .. Len(s) PROVE SubSeq(s, 1, k) \in M
  <2>1. SubSeq(s, 1, k) \in [1 .. k -> Letters]
    BY PrefixIs
  <2>2. k \in 0 .. MaxLength
    BY <1>1
  <2>. QED
    BY <2>1, <2>2
<1>3. Matched(s, t \o r) <=> \E k \in 0 .. Len(s) : Matched(Suffix(s, k), r)
  BY <1>1, StarIs
<1>. QED
  BY <1>2, <1>3, Zenon

(* What `?' stands for: every letter.                                      *)
LEMMA AnyPieceIs ==
  ASSUME NEW t \in Pattern!Strings, t = <<"?">>, NEW M, M = {<<c>> : c \in Letters},
         NEW s \in Seq(Letters), NEW r \in Pattern!Strings
  PROVE  Matched(s, t \o r)
         <=> \E k \in 0 .. Len(s) : SubSeq(s, 1, k) \in M /\ Matched(Suffix(s, k), r)
<1>1. s \in Pattern!Strings /\ (s # <<>> => Head(s) \in Letters)
  BY LettersAre, SuffixEnds
<1>2. \A x \in M : Len(x) = 1
  OBVIOUS
<1>3. s # <<>> => <<Head(s)>> \in M
  BY <1>1
<1>4. Matched(s, t \o r) <=> s # <<>> /\ "?" \in {"?", Head(s)} /\ Matched(Tail(s), r)
  BY <1>1, PlainIs, Zenon
<1>5. (\E k \in 0 .. Len(s) : SubSeq(s, 1, k) \in M /\ Matched(Suffix(s, k), r))
      <=> s # <<>> /\ <<Head(s)>> \in M /\ Matched(Tail(s), r)
  BY <1>1, <1>2, SingleIs, Zenon
<1>. QED
  BY <1>3, <1>4, <1>5, Zenon

(* What a set stands for: its members, or what is none of them.            *)
LEMMA SetPieceIs ==
  ASSUME NEW t \in Pattern!Strings, Pattern!IsSet(t), NEW s \in Seq(Letters),
         NEW r \in Pattern!Strings
  PROVE  Matched(s, t \o r)
         <=> \E k \in 0 .. Len(s) : SubSeq(s, 1, k) \in Meaning[t] /\ Matched(Suffix(s, k), r)
<1>1. s \in Pattern!Strings /\ (s # <<>> => Head(s) \in Letters)
  BY LettersAre, SuffixEnds
<1>2. \A x \in Meaning[t] : Len(x) = 1
  <2>1. PICK L : Meaning[t] = {<<c>> : c \in L}
    BY Zenon DEF Pattern!IsSet
  <2>. QED
    BY <2>1
<1>3. Matched(s, t \o r) <=> s # <<>> /\ <<Head(s)>> \in Meaning[t] /\ Matched(Tail(s), r)
  BY <1>1, SetIs
<1>. QED
  BY <1>1, <1>2, <1>3, SingleIs, Zenon

(* What any other character stands for: itself.                            *)
LEMMA PlainPieceIs ==
  ASSUME NEW t \in Pattern!Strings, Len(t) = 1, Head(t) \notin {"*", "?", "[", "{"},
         NEW M, M = {t}, NEW s \in Seq(Letters), NEW r \in Pattern!Strings
  PROVE  Matched(s, t \o r)
         <=> \E k \in 0 .. Len(s) : SubSeq(s, 1, k) \in M /\ Matched(Suffix(s, k), r)
<1>1. PICK c : t = <<c>> /\ c = Head(t)
  BY Singleton, Zenon DEF Pattern!Strings
<1>2. s \in Pattern!Strings
  BY LettersAre, Zenon
<1>3. c \notin {"*", "[", "{"} /\ c # "?"
  BY <1>1, Zenon
<1>4. Matched(s, t \o r) <=> s # <<>> /\ c \in {"?", Head(s)} /\ Matched(Tail(s), r)
  BY <1>1, <1>2, <1>3, PlainIs, Zenon
<1>5. \A x \in M : Len(x) = 1
  BY Zenon
<1>6. <<Head(s)>> \in M <=> c \in {"?", Head(s)}
  <2>1. <<Head(s)>> = <<c>> <=> Head(s) = c
    BY Zenon
  <2>. QED
    BY <1>1, <1>3, <2>1, Zenon
<1>7. (\E k \in 0 .. Len(s) : SubSeq(s, 1, k) \in M /\ Matched(Suffix(s, k), r))
      <=> s # <<>> /\ <<Head(s)>> \in M /\ Matched(Tail(s), r)
  BY <1>2, <1>5, SingleIs, Zenon
<1>. QED
  BY <1>4, <1>6, <1>7, Zenon

(* A piece, before the rest of the pattern, takes a beginning of the       *)
(* string that it stands for.                                              *)
LEMMA PieceIs ==
  ASSUME NEW t \in DOMAIN Meaning, Head(t) # "{", NEW s \in Seq(Letters),
         Len(s) <= MaxLength, NEW r \in Pattern!Strings
  PROVE  Matched(s, t \o r)
         <=> \E k \in 0 .. Len(s) : SubSeq(s, 1, k) \in Meaning[t] /\ Matched(Suffix(s, k), r)
<1>1. Pattern!IsPiece(t)
  BY PatternAssumption, Zenon
<1>2. t \in Pattern!Strings
  BY <1>1, Zenon DEF Pattern!IsPiece
<1>3. \/ t = <<"*">> /\ Meaning[t] = UNION {[1 .. n -> Letters] : n \in 0 .. MaxLength}
      \/ t = <<"?">> /\ Meaning[t] = {<<c>> : c \in Letters}
      \/ Pattern!IsSet(t)
      \/ Len(t) = 1 /\ Head(t) \notin {"*", "?", "[", "{"} /\ Meaning[t] = {t}
  BY <1>1, Zenon DEF Pattern!IsPiece
<1>. HIDE DEF Matched, Suffix
<1>. QED
  BY <1>2, <1>3, StarPieceIs, AnyPieceIs, SetPieceIs, PlainPieceIs, Zenon

(* No piece of ps is a list in braces.                                     *)
Listless(ps) == \A i \in 1 .. Len(ps) : Head(ps[i]) # "{"

\* The pattern of the pieces ps tells what they stand for.
TellsAll(ps) ==
  \A x \in Seq(Letters) : Len(x) <= MaxLength =>
    (Matched(x, Pattern!FlattenSeq(ps)) <=> Stands(ps, x))

(* Pieces are strings, and so are what pieces make together.               *)
LEMMA PiecesAre ==
  ASSUME NEW ps \in Seq(DOMAIN Meaning)
  PROVE  ps \in Seq(Pattern!Strings) /\ Pattern!FlattenSeq(ps) \in Pattern!Strings
<1>1. DOMAIN Meaning \subseteq Pattern!Strings
  BY PatternAssumption, Zenon DEF Pattern!IsPiece
<1>2. ps \in Seq(Pattern!Strings)
  BY <1>1, WiderSeq
<1>. QED
  BY <1>2, FlattenFirst

(* No pieces stand for the empty string only.                              *)
LEMMA NothingTells ==
  ASSUME NEW ps \in Seq(DOMAIN Meaning), ps = <<>>
  PROVE  TellsAll(ps)
<1>1. Pattern!FlattenSeq(ps) = <<>> /\ <<>> \in Pattern!Strings
  BY PiecesAre, FlattenFirst, Zenon
<1>2. ASSUME NEW x \in Seq(Letters)
      PROVE  Matched(x, Pattern!FlattenSeq(ps)) <=> Stands(ps, x)
  <2>1. x \in Pattern!Strings
    BY LettersAre
  <2>2. Matched(x, Pattern!FlattenSeq(ps)) <=> x = <<>>
    BY <1>1, <2>1, MatchedIs
  <2>3. Stands(ps, x) <=> x = <<>>
    BY <2>1, StandsIs, Zenon
  <2>. QED
    BY <2>2, <2>3, Zenon
<1>. QED
  BY <1>2, Zenon DEF TellsAll

(* A pattern tells what its pieces stand for when it does without the      *)
(* first of them.                                                          *)
LEMMA OneMoreTells ==
  ASSUME NEW ps \in Seq(DOMAIN Meaning), ps # <<>>, Head(ps[1]) # "{", TellsAll(Tail(ps))
  PROVE  TellsAll(ps)
<1> DEFINE t == Head(ps)
           rest == Tail(ps)
<1>1. t \in DOMAIN Meaning /\ t = ps[1] /\ rest \in Seq(DOMAIN Meaning)
  BY SuffixEnds, Zenon
<1>2. /\ Pattern!FlattenSeq(ps) = t \o Pattern!FlattenSeq(rest)
      /\ Pattern!FlattenSeq(rest) \in Pattern!Strings
  BY <1>1, PiecesAre, FlattenFirst, Zenon
<1>3. TellsAll(rest)
  BY Zenon
<1>. SUFFICES ASSUME NEW x \in Seq(Letters), Len(x) <= MaxLength
              PROVE  Matched(x, Pattern!FlattenSeq(ps)) <=> Stands(ps, x)
  BY Zenon DEF TellsAll
<1>4. Stands(ps, x) <=> \E k \in 0 .. Len(x) : /\ SubSeq(x, 1, k) \in Meaning[t]
                                               /\ Stands(rest, Suffix(x, k))
  <2>1. x \in Pattern!Strings
    BY LettersAre, Zenon
  <2>. QED
    BY <2>1, StandsIs, Zenon
<1>. HIDE DEF t, rest
<1>5. Matched(x, Pattern!FlattenSeq(ps))
      <=> \E k \in 0 .. Len(x) : /\ SubSeq(x, 1, k) \in Meaning[t]
                                 /\ Matched(Suffix(x, k), Pattern!FlattenSeq(rest))
  BY <1>1, <1>2, PieceIs, Zenon
<1>6. ASSUME NEW k \in 0 .. Len(x)
      PROVE  Matched(Suffix(x, k), Pattern!FlattenSeq(rest)) <=> Stands(rest, Suffix(x, k))
  <2>1. Suffix(x, k) \in Seq(Letters) /\ Len(Suffix(x, k)) = Len(x) - k
    BY SuffixFacts, Zenon
  <2>2. Len(x) \in Nat /\ MaxLength \in Nat
    BY LettersAre, WiderSeq, Zenon
  <2>3. Len(x) - k <= MaxLength
    BY <2>2, Lessened, Zenon
  <2>. QED
    BY <1>3, <2>1, <2>3, Zenon DEF TellsAll
<1>. QED
  BY <1>4, <1>5, <1>6, Zenon

(* lo_pattern_match tells for every pattern without a list in braces what  *)
(* the pattern stands for.                                                 *)
LEMMA PatternIs ==
  ASSUME NEW ps \in Seq(DOMAIN Meaning), Listless(ps)
  PROVE  TellsAll(ps)
<1> DEFINE S == {n \in Nat : \A q \in Seq(DOMAIN Meaning) :
                               Len(q) = n /\ Listless(q) => TellsAll(q)}
<1>1. 0 \in S
  <2>. SUFFICES ASSUME NEW q \in Seq(DOMAIN Meaning), Len(q) = 0 PROVE TellsAll(q)
    OBVIOUS
  <2>1. q = <<>>
    OBVIOUS
  <2>. QED
    BY <2>1, NothingTells, Zenon
<1>2. ASSUME NEW n \in Nat, n \in S PROVE n + 1 \in S
  <2>. SUFFICES ASSUME NEW q \in Seq(DOMAIN Meaning), Len(q) = n + 1, Listless(q)
                PROVE  TellsAll(q)
    OBVIOUS
  <2>1. q # <<>>
    OBVIOUS
  <2>2. /\ Tail(q) \in Seq(DOMAIN Meaning) /\ Len(Tail(q)) = n
        /\ Tail(q) = Suffix(q, 1) /\ 1 \in 0 .. Len(q) /\ Len(q) - 1 = n
    BY <2>1, SuffixEnds
  <2>3. Head(q[1]) # "{"
    <3>1. 1 \in 1 .. Len(q)
      OBVIOUS
    <3>. QED
      BY <3>1, Zenon DEF Listless
  <2>4. Listless(Tail(q))
    <3>1. \A i \in 1 .. n : Tail(q)[i] = q[1 + i] /\ 1 + i \in 1 .. Len(q)
      BY <2>2, SuffixFacts
    <3>. QED
      BY <2>2, <3>1, Zenon DEF Listless
  <2>5. TellsAll(Tail(q))
    BY <1>2, <2>2, <2>4, Zenon
  <2>. QED
    BY <2>1, <2>3, <2>5, OneMoreTells, Zenon
<1>3. Len(ps) \in Nat
  OBVIOUS
<1>4. Len(ps) \in S
  <2>. HIDE DEF S
  <2>. QED
    BY <1>1, <1>2, <1>3, SetInduction
<1>. QED
  BY <1>4

(* A pattern is made of its pieces, a path of letters.                     *)
PatternTypeOK ==
  /\ pieces \in Seq(DOMAIN Meaning) /\ path \in Seq(Letters) /\ Len(path) <= MaxLength

(* A pattern is of pieces and a path of letters, at every step.            *)
LEMMA PatternsTyped == Pattern!Spec => []PatternTypeOK
<1>1. Pattern!Init => PatternTypeOK
  BY LettersAre DEF Pattern!Init, PatternTypeOK
<1>2. PatternTypeOK /\ [Pattern!Next]_Pattern!vars => PatternTypeOK'
  <2>. SUFFICES ASSUME PatternTypeOK, [Pattern!Next]_Pattern!vars PROVE PatternTypeOK'
    OBVIOUS
  <2>1. CASE Pattern!AddPiece
    BY <2>1 DEF Pattern!AddPiece, PatternTypeOK
  <2>2. CASE Pattern!AddChar
    <3>1. PICK c \in Letters : path' = Append(path, c)
      BY <2>2 DEF Pattern!AddChar
    <3>2. Len(path) \in Nat /\ Len(path) < MaxLength /\ MaxLength \in Nat
      BY <2>2, LettersAre DEF Pattern!AddChar, PatternTypeOK
    <3>3. path' \in Seq(Letters) /\ Len(path') = Len(path) + 1
      BY <3>1 DEF PatternTypeOK
    <3>. QED
      BY <2>2, <3>2, <3>3 DEF Pattern!AddChar, PatternTypeOK
  <2>3. CASE UNCHANGED Pattern!vars
    BY <2>3 DEF Pattern!vars, PatternTypeOK
  <2>. QED
    BY <2>1, <2>2, <2>3 DEF Pattern!Next
<1>. QED
  BY <1>1, <1>2, PTL DEF Pattern!Spec

(* lo_pattern_match: a path matches a pattern without a list in braces     *)
(* exactly if it is one of the strings that the pattern stands for.        *)
THEOREM PatternsMatch == Pattern!Spec => []GlobMatches
<1>1. PatternTypeOK => GlobMatches
  <2>. SUFFICES ASSUME PatternTypeOK, ~ Pattern!HasList PROVE Pattern!Matches
    BY DEF GlobMatches, Pattern!GlobMatches
  <2>1. Listless(pieces)
    <3>1. DOMAIN pieces = 1 .. Len(pieces)
      BY WiderSeq DEF PatternTypeOK
    <3>. QED
      BY <3>1, Zenon DEF Pattern!HasList, Listless
  <2>2. Matched(path, Pattern!FlattenSeq(pieces)) <=> Stands(pieces, path)
    BY <2>1, PatternIs DEF PatternTypeOK, TellsAll
  <2>. QED
    BY <2>2 DEF Pattern!Matches, Matched, Stands
<1>. QED
  BY <1>1, PatternsTyped, PTL

=============================================================================
