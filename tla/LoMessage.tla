----------------------------- MODULE LoMessage -----------------------------
(***************************************************************************)
(* Messages of liblo (src/liblo-0.30/src/message.c, blob.c): a program     *)
(* builds one argument by argument, it is serialised into a packet, the    *)
(* network may hand the packet on damaged, and a server validates it and   *)
(* makes a message of it again.                                            *)
(*                                                                         *)
(* Memory is a sequence of bytes.  The host is little-endian, so that a    *)
(* conversion between host and network order reverses a word.  Type        *)
(* characters that the code treats alike have one representative: I for    *)
(* i, f and c, H for h and d, S for s and S, T for T, F, N and I.          *)
(***************************************************************************)
EXTENDS Integers, Sequences, SequencesExt

Comma == 44   Dollar == 36
I == 105      H == 104      S == 115     B == 98
TT == 116     M == 109      T == 84

Sizeless == {T}
OneWord == {I, M}
TwoWords == {H, TT}
Types == Sizeless \cup OneWord \cup TwoWords \cup {S, B}

NoMessage == [types |-> <<>>]
Zeros(n) == [k \in 1 .. n |-> 0]

CONSTANTS
  Values,      \* the arguments a program adds: pairs of a type and contents
  TypeStrings, \* what it passes to lo_message_add as type strings
  Paths,
  Noise,       \* what a byte can become on the way
  MaxTypes,    \* bounds: arguments of a message when more are added,
  MaxDamage    \* and changes to a packet on its way

VARIABLES
  m,       \* the program's message: types and data, the sizes of their
           \* allocations, and the pointers into data that were handed out
  packet,  \* what arrives at a server
  damage   \* how often it was changed

vars == <<m, packet, damage>>

DefSize == 8   \* LO_DEF_TYPE_SIZE, LO_DEF_DATA_SIZE

----------------------------------------------------------------------------
(***************************************************************************)
(* Sizes.                                                                  *)
(***************************************************************************)
StrSize(n) == 4 * (n \div 4 + 1)              \* of n characters: lo_strsize
BlobSize(n) == 4 * ((4 + n + 3) \div 4)       \* lo_blobsize

Word(n) == << n % 256, (n \div 256) % 256, (n \div 65536) % 256, n \div 16777216 >>
Number(w) == w[1] + 256 * w[2] + 65536 * w[3] + 16777216 * w[4]

Zero(d) == { k \in DOMAIN d : d[k] = 0 }
StrLen(d) == (CHOOSE k \in Zero(d) : \A l \in Zero(d) : k <= l) - 1

\* lo_arg_size, on data in host order
ArgSize(t, d) ==
  CASE t \in Sizeless -> 0
    [] t \in OneWord -> 4
    [] t \in TwoWords -> 8
    [] t = S -> StrSize(StrLen(d))
    [] t = B -> BlobSize(Number(d))

\* lo_pow2_over, which divides a natural logarithm by 0.69315 for ln 2: the
\* quotient reaches n only at a * 2^n * (1 + n / 354680), and is cut off.
Reaches(a, b, n) == b - a * 2^n >= (a * 2^n * n + 354679) \div 354680
Doublings(a, b) == (CHOOSE n \in 0 .. 20 : Reaches(a, b, n) /\ ~Reaches(a, b, n + 1)) + 1
Pow2Over(a, b) == IF b > a THEN a * 2^Doublings(a, b) ELSE a

----------------------------------------------------------------------------
(***************************************************************************)
(* Building a message.                                                     *)
(***************************************************************************)
New == [types |-> <<Comma>>, typesize |-> DefSize,
        data |-> <<>>, datasize |-> 0, argv |-> <<>>]

\* lo_message_add_data
AddData(msg, d) ==
  LET old == IF msg.datasize = 0 THEN DefSize ELSE msg.datasize
  IN  [msg EXCEPT !.data = @ \o d, !.argv = <<>>,
                  !.datasize = Pow2Over(old, Len(msg.data) + Len(d))]

\* Mutant: the string grows only when the terminator no longer fits.
AddTypechar_Fault(msg, t) ==
  [msg EXCEPT !.types = Append(@, t),
              !.typesize = IF Len(msg.types) + 1 <= @ THEN @ ELSE 2 * @]
\* lo_message_add_typechar
AddTypechar(msg, t) ==
  [msg EXCEPT !.types = Append(@, t), !.argv = <<>>,
              !.typesize = CASE Len(msg.types) + 1 < @ -> @
                             [] Len(msg.types) + 1 >= @ /\ @ # 0 -> 2 * @
                             [] OTHER -> DefSize]

\* The bytes an argument takes in the message.
Contents(t, x) ==
  CASE t = S -> x \o Zeros(StrSize(Len(x)) - Len(x))
    [] t = B -> Word(Len(x)) \o x \o Zeros(BlobSize(Len(x)) - 4 - Len(x))
    [] OTHER -> x

\* lo_message_add_int32, _float, _string, _blob, ..., _true, _nil
AddArg(msg, t, x) ==
  AddTypechar(IF t \in Sizeless THEN msg ELSE AddData(msg, Contents(t, x)), t)

\* lo_message_add_varargs_internal: an unknown type is reported and skipped,
\* and $$ ends the string.
Dollars(ts) == { k \in 1 .. Len(ts) - 1 : ts[k] = Dollar /\ ts[k + 1] = Dollar }
Given(ts) ==
  IF Dollars(ts) = {} THEN ts
  ELSE SubSeq(ts, 1, (CHOOSE k \in Dollars(ts) : \A l \in Dollars(ts) : k <= l) - 1)
AddVarargs(msg, ts, given) ==
  LET types == Given(ts)
      after[k \in 0 .. Len(types)] ==
        IF k = 0 THEN msg
        ELSE IF types[k] \in Types THEN AddArg(after[k - 1], types[k], given[types[k]])
        ELSE after[k - 1]
  IN  after[Len(types)]

\* The arguments of a message lie one after the other.  Where the pointer of
\* the loop stands after each of them, over data in host order:
Rest(data, offset) == SubSeq(data, offset + 1, Len(data))
Ends(types, data) ==
  LET end[k \in 0 .. Len(types) - 1] ==
        IF k = 0 THEN 0
        ELSE end[k - 1] + ArgSize(types[k + 1], Rest(data, end[k - 1]))
  IN  end

\* lo_message_get_argv: the offset of every argument, and Null for one of
\* size 0.
Null == 0
Argv(types, ends) ==
  [k \in 1 .. Len(types) - 1 |-> IF ends[k] = ends[k - 1] THEN Null ELSE ends[k - 1] + 1]
Offsets(types, data) == Argv(types, Ends(types, data))
GetArgv(msg) ==
  IF msg.argv # <<>> THEN msg ELSE [msg EXCEPT !.argv = Offsets(msg.types, msg.data)]

\* lo_message_clone: without the pointers, which are into m's data
Clone(msg) == [msg EXCEPT !.argv = <<>>]

----------------------------------------------------------------------------
(***************************************************************************)
(* The packet.                                                             *)
(***************************************************************************)
\* lo_arg_network_endian and lo_arg_host_endian swap an argument where it
\* lies: which of its bytes comes to stand at j
Mirrored(t, j) ==
  CASE t \in {I, B} /\ j <= 4 -> 5 - j
    [] t = H /\ j <= 8 -> 9 - j
    [] t = TT /\ j <= 4 -> 5 - j
    [] t = TT /\ j \in 5 .. 8 -> 13 - j
    [] OTHER -> j
Origin(types, ends, i) ==
  LET at == { k \in 1 .. Len(types) - 1 : ends[k - 1] < i /\ i <= ends[k] }
      k == CHOOSE k \in at : TRUE
  IN  IF at = {} THEN i ELSE ends[k - 1] + Mirrored(types[k + 1], i - ends[k - 1])
SwapEndian(types, ends, data) == [i \in 1 .. Len(data) |-> data[Origin(types, ends, i)]]

CString(x) == x \o Zeros(StrSize(Len(x)) - Len(x))

\* lo_message_length, lo_message_serialise
Length(msg, path) == StrSize(Len(path)) + StrSize(Len(msg.types)) + Len(msg.data)
NetworkData(msg) == SwapEndian(msg.types, Ends(msg.types, msg.data), msg.data)
Serialise(msg, path) == CString(path) \o CString(msg.types) \o NetworkData(msg)

Bad == -1   \* every error code: all that callers look at is the sign

\* Mutant: the padding is not looked at.
ValidateString_Fault(d) ==
  IF Zero(d) = {} THEN Bad
  ELSE LET len == StrSize(StrLen(d)) IN IF len <= Len(d) THEN len ELSE Bad
\* lo_validate_string
ValidateString(d) ==
  IF Zero(d) = {} THEN Bad
  ELSE LET len == StrSize(StrLen(d))
       IN  IF len <= Len(d) /\ \A k \in StrLen(d) + 1 .. len : d[k] = 0 THEN len ELSE Bad

\* lo_validate_blob.  With less than a word left it reads its size from
\* behind the data; whatever it finds there, the blob does not fit.
ValidateBlob(d) ==
  IF Len(d) < 4 THEN Bad
  ELSE LET dsize == Number(Reverse(SubSeq(d, 1, 4)))
           len == BlobSize(dsize)
       IN  IF /\ dsize <= Len(d) /\ len <= Len(d)
              /\ \A k \in 4 + dsize + 1 .. len : d[k] = 0
           THEN len ELSE Bad

\* lo_validate_arg
ValidateArg(t, d) ==
  CASE t \in Sizeless -> 0
    [] t \in OneWord -> IF Len(d) >= 4 THEN 4 ELSE Bad
    [] t \in TwoWords -> IF Len(d) >= 8 THEN 8 ELSE Bad
    [] t = S -> ValidateString(d)
    [] t = B -> ValidateBlob(d)
    [] OTHER -> Bad

\* The loop of lo_message_deserialise over the arguments: where each ends,
\* over data in network order, or Bad from the first invalid one on
ValidEnds(types, data) ==
  LET end[k \in 0 .. Len(types) - 1] ==
        IF k = 0 THEN 0
        ELSE LET len == ValidateArg(types[k + 1], Rest(data, end[k - 1]))
             IN  IF end[k - 1] = Bad \/ len = Bad THEN Bad ELSE end[k - 1] + len
  IN  end

\* lo_message_deserialise
Deserialise(p) ==
  LET pathlen == ValidateString(p)
      rest == Rest(p, pathlen)
      typeslen == ValidateString(rest)
      types == SubSeq(rest, 1, StrLen(rest))
      data == Rest(rest, typeslen)
      ends == ValidEnds(types, data)
  IN  IF \/ p = <<>> \/ pathlen = Bad \/ rest = <<>> \/ typeslen = Bad
         \/ rest[1] # Comma \/ ends[Len(types) - 1] # Len(data)
      THEN NoMessage
      ELSE [types |-> types, typesize |-> typeslen,
            data |-> SwapEndian(types, ends, data), datasize |-> Len(data),
            argv |-> Argv(types, ends)]
PathOf(p) == SubSeq(p, 1, StrLen(p))

----------------------------------------------------------------------------
(***************************************************************************)
(* What a program, the network and a server do, one call at a time.        *)
(***************************************************************************)
Init == m = NoMessage /\ packet = <<>> /\ damage = 0

Becomes(msg) == m' = msg /\ UNCHANGED <<packet, damage>>

NewMessage == m = NoMessage /\ packet = <<>> /\ m' = New /\ damage' = 0 /\ UNCHANGED packet

Room == m # NoMessage /\ Len(m.types) <= MaxTypes
Add == Room /\ \E v \in Values : Becomes(AddArg(m, v[1], v[2]))
Chosen == [t \in Types |-> (CHOOSE v \in Values : v[1] = t)[2]]
AddMany == Room /\ \E ts \in TypeStrings : Becomes(AddVarargs(m, ts, Chosen))

LookAt == m # NoMessage /\ Becomes(GetArgv(m))
Copy == m # NoMessage /\ Becomes(Clone(m))
Free == m # NoMessage /\ Becomes(NoMessage)

Send == /\ m # NoMessage
        /\ \E path \in Paths : packet' = Serialise(m, path)
        /\ m' = NoMessage /\ UNCHANGED damage

Damaged(p) == damage < MaxDamage /\ damage' = damage + 1 /\ packet' = p /\ UNCHANGED m
Truncate == \E k \in 0 .. Len(packet) - 1 : Damaged(SubSeq(packet, 1, k))
Damage == \E k \in DOMAIN packet, x \in Noise : Damaged([packet EXCEPT ![k] = x])
\* The server keeps the message, as a handler may that counts a reference,
\* and may add to it and send it on.
Receive == /\ packet # <<>>
           /\ m' = Deserialise(packet) /\ packet' = <<>> /\ UNCHANGED damage

Next == NewMessage \/ Add \/ AddMany \/ LookAt \/ Copy \/ Free
          \/ Send \/ Truncate \/ Damage \/ Receive
Spec == Init /\ [][Next]_vars

----------------------------------------------------------------------------
TypesFit == m # NoMessage => Len(m.types) + 1 <= m.typesize

\* A message never holds more data than lo_message_add_data allocated for it
\* (lo_pow2_over).
DataFits == m # NoMessage => Len(m.data) <= m.datasize

\* The pointers that lo_message_get_argv keeps for the next call are those
\* it would compute now, whatever was added since.
ArgvFresh ==
  m # NoMessage /\ m.argv # <<>> => m.argv = Offsets(m.types, m.data)

\* What a server makes of an undamaged packet is the message that was sent,
\* with its path, its types, its arguments in the host's order and pointers
\* to them; and the packet has the length lo_message_length allocates.
RoundTrip ==
  m # NoMessage => \A path \in Paths :
    LET p == Serialise(m, path)
        r == Deserialise(p)
    IN  /\ Len(p) = Length(m, path)
        /\ r.types = m.types /\ r.data = m.data /\ PathOf(p) = path
        /\ r.argv = Offsets(m.types, m.data)

\* What a server accepts, of any damaged packet, fills the packet exactly:
\* sending it on gives the same bytes.
Canonical ==
  LET r == Deserialise(packet)
  IN  r # NoMessage => Serialise(r, PathOf(packet)) = packet
=============================================================================
