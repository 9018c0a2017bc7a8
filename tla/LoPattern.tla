----------------------------- MODULE LoPattern -----------------------------
(***************************************************************************)
(* lo_pattern_match of liblo (src/liblo-0.30/src/pattern_match.c): does   *)
(* the path of a method match the pattern a message was sent to?          *)
(*                                                                         *)
(* A C string is a sequence of one-character strings and a pointer into    *)
(* it is the suffix it points at, so that *p is Head(p), p++ is Tail(p)    *)
(* and the terminating NUL is the empty sequence.  A call that goes on     *)
(* with a string and a pattern is the pair of the two; of the calls that   *)
(* the function makes one after the other it asks whether one returns      *)
(* true, so they are a set.                                                *)
(***************************************************************************)
EXTENDS Naturals, Sequences, SequencesExt

CONSTANTS
  Alphabet,   \* the characters in use, in the order of their codes
  Meaning,    \* the pieces that patterns are made of, and the strings each
              \* stands for
  Letters,    \* the characters of paths
  MaxPieces, MaxLength   \* bounds on a pattern and a path

Strings == Seq(STRING)

Ord(c) == CHOOSE i \in DOMAIN Alphabet : Alphabet[i] = c

\* The suffix of q that starts with the first element in S, or <<>>.
From(q, S) ==
  LET found == { k \in DOMAIN q : q[k] \in S }
  IN  IF found = {} THEN <<>>
      ELSE SubSeq(q, CHOOSE k \in found : \A l \in found : k <= l, Len(q))

SkipStars(p) == From(p, STRING \ {"*"})

\* The loop over the body q of a set: does it have the character ch, and
\* where does it stop?  `bad' is its return false on a missing bracket.
Scan(ch, q) ==
  LET bad == [ok |-> FALSE, match |-> FALSE, rest |-> <<>>]
      At(m, r) == [ok |-> TRUE, match |-> m, rest |-> r]
      scan[r \in Strings] ==
        LET c == Head(r)
            p == Tail(r)
            last == Head(Tail(p))
        IN  IF Len(r) < 2 \/ (Head(p) = "-" /\ Len(p) = 1) THEN bad
            ELSE IF Head(p) = "-" /\ last = "]" THEN At(Ord(ch) >= Ord(c), Tail(p))
            ELSE IF Head(p) = "-"
            THEN IF ch \in {c, last} \/ (Ord(c) < Ord(ch) /\ Ord(ch) < Ord(last))
                 THEN At(TRUE, Tail(p)) ELSE scan[Tail(p)]
            ELSE IF ch # c /\ Head(p) = "]" THEN At(FALSE, p)
            ELSE IF ch \in {c, Head(p)} THEN At(TRUE, p) ELSE scan[p]
  IN  scan[q]

\* What is left to match after a set: p must have the bracket.
AfterSet(s, p) ==
  LET end == From(p, {"]"})
  IN  IF end = <<>> THEN {} ELSE { <<Tail(s), Tail(end)>> }

\* Mutant: the `!' of a set is skipped and forgotten.
Set_Fault(s, p) ==
  LET scan == Scan(Head(s), IF p # <<>> /\ Head(p) = "!" THEN Tail(p) ELSE p)
  IN  IF scan.ok /\ scan.match THEN AfterSet(s, scan.rest) ELSE {}
Set(s, p) ==
  LET negate == p # <<>> /\ Head(p) = "!"
      scan == Scan(Head(s), IF negate THEN Tail(p) ELSE p)
  IN  IF scan.ok /\ negate # scan.match THEN AfterSet(s, scan.rest) ELSE {}

\* `*' tries the rest p of the pattern at the non-empty suffixes of s, from
\* the first that can match a literal at the head of p.
Tries(s, p) ==
  LET t == IF Head(p) \in {"?", "[", "{"} THEN s ELSE From(s, {Head(p)})
  IN  { <<SubSeq(t, k, Len(t)), p>> : k \in 1 .. Len(t) }

\* The loop over a list in braces: what it goes on with.  c has what is left
\* of the string, which starts at place, and of the pattern, inside the list;
\* remainder is the pattern behind the list.  After an alternative that
\* matched, while the remainder did not, the character behind the comma is
\* skipped, for the comma already was.
NextAlternative(p) == IF p = <<>> THEN p ELSE Tail(p)
List(place, q, remainder) ==
  LET list[c \in Strings \X Strings] ==
        LET str == c[1]
            p == Tail(c[2])
            next == From(p, {",", "}"})
        IN  IF c[2] = <<>> THEN {}
            ELSE IF Head(c[2]) = ","
            THEN { <<str, remainder>> } \cup list[<<place, NextAlternative(p)>>]
            ELSE IF Head(c[2]) = "}" THEN { <<str, p>> }
            ELSE IF str # <<>> /\ Head(c[2]) = Head(str)
            THEN IF Tail(str) = <<>> /\ remainder # <<>> THEN {} ELSE list[<<Tail(str), p>>]
            ELSE IF next # <<>> /\ Head(next) = "," THEN list[<<place, Tail(next)>>]
            ELSE {}
  IN  list[<<place, q>>]
Braces(s, p) ==
  LET end == From(p, {"}"}) IN IF end = <<>> THEN {} ELSE List(s, p, Tail(end))

\* What the character c at the head of a pattern makes of the string s, when
\* p is behind it.
Steps(s, c, p) ==
  IF c = "*" THEN Tries(s, SkipStars(p))
  ELSE IF s = <<>> THEN {}
  ELSE IF c = "[" THEN Set(s, p)
  ELSE IF c = "{" THEN Braces(s, p)
  ELSE IF c \in {"?", Head(s)} THEN { <<Tail(s), p>> }
  ELSE {}

\* lo_pattern_match(c[1], c[2])
Match[c \in Strings \X Strings] ==
  IF c[2] = <<>> THEN c[1] = <<>>
  ELSE \/ Head(c[2]) = "*" /\ SkipStars(Tail(c[2])) = <<>>
       \/ \E d \in Steps(c[1], Head(c[2]), Tail(c[2])) : Match[d]

----------------------------------------------------------------------------
(***************************************************************************)
(* What a pattern means.  A pattern is a sequence of pieces: each is the   *)
(* text it is written as, and Meaning has the strings it stands for by the *)
(* comments at the head of pattern_match.c and at its case '{'.            *)
(***************************************************************************)
Characters == Range(Alphabet)

\* The body of a set is characters and ranges, of two characters with a
\* hyphen between them; a hyphen at its start is a character.
IsBody(w) ==
  /\ w # <<>> /\ w \in Seq(Characters \ {"]"})
  /\ \A k \in 2 .. Len(w) :
       w[k] = "-" => k < Len(w) /\ w[k - 1] # "-" /\ w[k + 1] # "-"
Members(w) ==
  { w[k] : k \in { l \in DOMAIN w : l = 1 \/ w[l] # "-" } }
  \cup { c \in Characters :
           \E k \in 2 .. Len(w) - 1 :
              w[k] = "-" /\ Ord(w[k - 1]) <= Ord(c) /\ Ord(c) <= Ord(w[k + 1]) }

IsSet(t) ==
  LET negate == Len(t) > 1 /\ t[2] = "!"
      w == SubSeq(t, IF negate THEN 3 ELSE 2, Len(t) - 1)
  IN  /\ Len(t) > 2 /\ Head(t) = "[" /\ t[Len(t)] = "]" /\ IsBody(w)
      /\ Meaning[t] = { <<c>> : c \in { l \in Letters : negate # (l \in Members(w)) } }

\* What a list in braces stands for is left open.
IsPiece(t) ==
  /\ t \in Strings /\ t # <<>>
  /\ \/ Head(t) = "{"
     \/ t = <<"*">> /\ Meaning[t] = UNION { [1 .. n -> Letters] : n \in 0 .. MaxLength }
     \/ t = <<"?">> /\ Meaning[t] = { <<c>> : c \in Letters }
     \/ IsSet(t)
     \/ Len(t) = 1 /\ Head(t) \notin {"*", "?", "[", "{"} /\ Meaning[t] = {t}

VARIABLES pieces, path

vars == <<pieces, path>>

\* Is c[2] a string that the pieces c[1] stand for?
Denotes[c \in Seq(DOMAIN Meaning) \X Strings] ==
  IF c[1] = <<>> THEN c[2] = <<>>
  ELSE \E k \in 0 .. Len(c[2]) :
         /\ SubSeq(c[2], 1, k) \in Meaning[Head(c[1])]
         /\ Denotes[<<Tail(c[1]), SubSeq(c[2], k + 1, Len(c[2]))>>]

\* Patterns and paths grow at their ends, so that the shortest comes first.
Init == pieces = <<>> /\ path = <<>>
AddPiece == /\ Len(pieces) < MaxPieces
            /\ \E i \in DOMAIN Meaning : pieces' = Append(pieces, i)
            /\ UNCHANGED path
AddChar == /\ Len(path) < MaxLength
           /\ \E c \in Letters : path' = Append(path, c)
           /\ UNCHANGED pieces
Next == AddPiece \/ AddChar
Spec == Init /\ [][Next]_vars

\* A path matches a pattern exactly if it is one of the strings that the
\* pattern stands for.
Matches == Match[<<path, FlattenSeq(pieces)>>] <=> Denotes[<<pieces, path>>]

HasList == \E i \in DOMAIN pieces : Head(pieces[i]) = "{"
\* The same of the patterns without a list in braces.
GlobMatches == ~HasList => Matches
=============================================================================
