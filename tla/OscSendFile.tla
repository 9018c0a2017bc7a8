----------------------------- MODULE OscSendFile -----------------------------
(***************************************************************************)
(* oscsendfile (src/liblo-0.30/src/tools): it reads a file of messages,    *)
(* each on a line with its time, types and values, and sends those of the  *)
(* same time as one bundle when that time has come.  oscsend makes one     *)
(* message of its command line in the same way.                            *)
(*                                                                         *)
(* A time tag has two digits to the base W (2^32 in the code; its doubles  *)
(* are exact up to 2^53).  A value of a line is named by its line, its     *)
(* place and what it can be read as.  The array of types and values is not *)
(* cleared between two lines: what is left in it points into the line's    *)
(* buffer, which holds the new line by then, and can be read as anything.  *)
(* A place that was never set, and what is beyond the array, is undefined: *)
(* nothing is said of the program after it was used.                       *)
(***************************************************************************)
EXTENDS Integers, Sequences, FiniteSets

CONSTANTS
  W,         \* the base of a time tag's digits
  Speed,     \* how many times faster the file is played
  Files,     \* what fgets makes of files, which cuts lines at 1023 characters:
             \*   sequences of lines [tt, path, types, reads]; tt is <<>>, <<sec>>
             \*   or <<sec, frac>>, types <<>> when there are none, reads the
             \*   kinds of the values
  MaxValues, \* how many values the array takes
  Start,     \* the time at which the program starts, as a number of fractions
  Micro,     \* the fractions in a microsecond, which usleep counts in
  MaxTime    \* bound

\* Time tags, two digits each, and the numbers they are
Tag(n) == [sec |-> (n \div W) % W, frac |-> n % W]
Value(t) == t.sec * W + t.frac
Immediate == [sec |-> 0, frac |-> 1]
Zero == [sec |-> 0, frac |-> 0]

\* timetag_add, timetag_subtract, with the carry they find by comparing
TimetagAdd(t, a) ==
  LET frac == (t.frac + a.frac) % W
  IN  [sec |-> (t.sec + a.sec + (IF frac < a.frac THEN 1 ELSE 0)) % W, frac |-> frac]
TimetagSubtract(t, s) ==
  [sec |-> (t.sec - s.sec - (IF t.frac < s.frac THEN 1 ELSE 0)) % W,
   frac |-> (t.frac - s.frac) % W]
\* timetag_multiply, by 1 / Speed
TimetagMultiply(t) == Tag(Value(t) \div Speed)

----------------------------------------------------------------------------
(* create_message *)

Numbers == {"i", "h", "f", "d"}
Valued == Numbers \cup {"s", "S", "c", "m"}
Constants == {"T", "F", "N", "I"}
\* What a value can be read as: "word" is no number, "big" one beyond an int.
Readable(type, v) ==
  CASE type = "i" -> v.read = "int"
    [] type \in {"h", "f", "d"} -> v.read \in {"int", "big"}
    [] type = "m" -> v.read # "word"
    [] OTHER -> TRUE
NoValue == [line |-> 0, place |-> 0, read |-> "none"]
\* Which value the i-th type takes
ValueOf(types, i) == Cardinality({ j \in 1 .. i : types[j] \in Valued })
\* A message may be made if the values that the line n gives can be read, and
\* is made if there are no others.
MayCreate(types, args, n) ==
  \A i \in 1 .. Len(types) :
    \/ types[i] \in Constants
    \/ /\ types[i] \in Valued
       /\ args[ValueOf(types, i)].line = n => Readable(types[i], args[ValueOf(types, i)])
Created(types, args, n) ==
  /\ MayCreate(types, args, n)
  /\ \A i \in 1 .. Len(types) : types[i] \in Valued => args[ValueOf(types, i)].line = n
CreateMessage(types, args) ==
  [i \in 1 .. Len(types) |->
     IF types[i] \in Constants THEN <<types[i], NoValue>>
     ELSE <<types[i], args[ValueOf(types, i)]>>]

----------------------------------------------------------------------------
Places == 1 .. MaxValues
VARIABLES
  file, at,         \* the lines, and how many were read
  args,             \* the values, with what is left of earlier lines
  tts, this,        \* the two time tags, and which of them is tt_this
  first,            \* tt_start_file, once tt_init
  b,                \* the bundle that is being filled, if there is one
  now,
  sent,             \* the bundles sent, and when
  made,             \* the lines that a message was made of
  pc                \* "read", "wait" (the message is made), "done", "failed" or
                    \* "undefined"

vars == <<file, at, args, tts, this, first, b, now, sent, made, pc>>
last == 3 - this

Init ==
  /\ file \in Files /\ at = 0
  /\ args = [k \in Places |-> NoValue]
  /\ tts = <<Zero, Zero>> /\ this = 2 /\ first = <<>>
  /\ b = <<>> /\ now = Start /\ sent = <<>> /\ made = <<>> /\ pc = "read"

Tick == now < MaxTime /\ now' = now + 1
        /\ UNCHANGED <<file, at, args, tts, this, first, b, sent, made, pc>>

Line == file[at]
\* The digits that a line gives, over what its buffer held
Given(tt) ==
  [sec |-> IF Len(tt) > 0 THEN tt[1] ELSE tts[this].sec,
   frac |-> IF Len(tt) > 1 THEN tt[2] ELSE tts[this].frac]
FirstTag(tt) == [sec |-> tt[1], frac |-> IF Len(tt) > 1 THEN tt[2] ELSE 0]
\* tt_start_file, of which a digit that the line does not give is not set
Starts(tt) ==
  IF first # <<>> \/ tt = <<>> THEN {first}
  ELSE { << [sec |-> tt[1], frac |-> f] >> : f \in IF Len(tt) > 1 THEN {tt[2]} ELSE 0 .. W - 1 }
Played(t, start) ==
  TimetagAdd(TimetagMultiply(TimetagSubtract(t, start)), Tag(Start))

\* The array of values once those of the line l, the next one, are read
Filled(l) ==
  [k \in Places |->
     IF k <= Len(l.reads) THEN [line |-> at + 1, place |-> k, read |-> l.reads[k]] ELSE args[k]]

\* The types of the message of the line l.  With none of its own, those that an
\* earlier line left: the buffer may hold any by now.
TypesFor(l) ==
  IF l.types # <<>> THEN {l.types} ELSE {<<>>} \cup { file[i].types : i \in 1 .. at }
\* Its values, and those that its types ask for, are within the array.
Fits(l, types) == Len(l.reads) <= MaxValues /\ ValueOf(types, Len(types)) <= MaxValues
\* A place is used that no line has set.
Unset(l, types, new) ==
  \/ l.types = <<>> /\ \A i \in 1 .. at : file[i].types = <<>>
  \/ \E i \in 1 .. Len(types) : types[i] \in Valued /\ new[ValueOf(types, i)] = NoValue

\* create_message, of the values in new
MakeMessage(l, types, new) ==
  \/ /\ Fits(l, types) /\ MayCreate(types, new, at + 1) /\ pc' = "wait"
     /\ made' = Append(made, [line |-> at + 1, args |-> CreateMessage(types, new)])
  \/ /\ Fits(l, types) /\ (l.types = <<>> \/ ~Created(types, new, at + 1))
     /\ pc' = "failed" /\ UNCHANGED made
  \/ /\ ~Fits(l, types) \/ Unset(l, types, new)
     /\ pc' = "undefined" /\ UNCHANGED made

ReadLine ==
  /\ pc = "read" /\ at < Len(file)
  /\ \E start \in Starts(file[at + 1].tt) :
       LET l == file[at + 1]
           tt == IF l.tt = <<>> THEN Immediate ELSE Played(Given(l.tt), start[1])
       IN  /\ at' = at + 1 /\ first' = start
           /\ tts' = IF l.tt = <<>> /\ ~l.path THEN tts ELSE [tts EXCEPT ![this] = tt]
           /\ IF ~l.path THEN UNCHANGED <<args, made, pc>>
              ELSE /\ args' = Filled(l)
                   /\ \E types \in TypesFor(l) : MakeMessage(l, types, Filled(l))
  /\ UNCHANGED <<file, this, b, now, sent>>

\* Mutant: the message replaces the bundle's messages.
JoinBundle_Fault ==
  /\ pc = "wait" /\ b # <<>> /\ tts[this] = tts[last]
  /\ b' = << [b[1] EXCEPT !.msgs = <<at>>] >>
  /\ pc' = "read"
  /\ UNCHANGED <<file, at, args, tts, this, first, now, sent, made>>
\* lo_bundle_add_message, with the number of the line
JoinBundle ==
  /\ pc = "wait" /\ b # <<>> /\ tts[this] = tts[last]
  /\ b' = << [b[1] EXCEPT !.msgs = Append(@, at)] >>
  /\ pc' = "read"
  /\ UNCHANGED <<file, at, args, tts, this, first, now, sent, made>>

\* The bundle before is sent when its time has come, to the microsecond.
Flush == sent' = IF b = <<>> THEN sent ELSE Append(sent, [b[1] EXCEPT !.at = now])
Waited == Value(tts[last]) < now + Micro
NewBundle ==
  /\ pc = "wait" /\ (b = <<>> \/ tts[this] # tts[last]) /\ Waited
  /\ Flush
  /\ b' = << [tt |-> tts[this], msgs |-> <<at>>, at |-> 0] >>
  /\ this' = last /\ pc' = "read"
  /\ UNCHANGED <<file, at, args, tts, first, now, made>>
EndOfFile ==
  /\ pc = "read" /\ at = Len(file) /\ Waited
  /\ Flush /\ b' = <<>> /\ pc' = "done"
  /\ UNCHANGED <<file, at, args, tts, this, first, now, made>>
\* A bundle could not be sent, and the one with the line just read is left out;
\* ret, which tells, is not set before the first bundle is sent.
SendFails ==
  /\ pc = "read" /\ b # <<>> /\ pc' = "failed"
  /\ UNCHANGED <<file, at, args, tts, this, first, b, now, sent, made>>

Next == Tick \/ ReadLine \/ JoinBundle \/ NewBundle \/ EndOfFile \/ SendFails
Spec == Init /\ [][Next]_vars /\ WF_vars(Next)
----------------------------------------------------------------------------
\* The messages sent, and those that wait in the bundle, are those of the lines
\* with a path, in the order of the file, each of them once.
Bundles == sent \o b
Taken == { i \in 1 .. at : file[i].path }
InFileOrder ==
  pc \in {"read", "done"} =>
    /\ \A i \in Taken : \E n \in DOMAIN Bundles :
         \E k \in DOMAIN Bundles[n].msgs : Bundles[n].msgs[k] = i
    /\ \A n \in DOMAIN Bundles : \A k \in DOMAIN Bundles[n].msgs :
         /\ Bundles[n].msgs[k] \in Taken
         /\ \A m \in DOMAIN Bundles : \A j \in DOMAIN Bundles[m].msgs :
              m < n \/ (m = n /\ j < k) => Bundles[m].msgs[j] < Bundles[n].msgs[k]

\* No bundle is sent a microsecond before the time it carries, which is as far from
\* the start as the file says, at the given speed, where both times have all digits.
Timed(i) == { j \in 1 .. i : file[j].tt # <<>> }
Origin(i) == CHOOSE j \in Timed(i) : \A k \in Timed(i) : j <= k
Distance(i) == (Value(FirstTag(file[i].tt)) - Value(FirstTag(file[Origin(i)].tt))) \div Speed
TagRight(t, i) ==
  IF file[i].tt = <<>> THEN t = Immediate
  ELSE Len(file[i].tt) = 2 /\ Len(file[Origin(i)].tt) = 2 => Value(t) = Start + Distance(i)
OnTime ==
  \A n \in 1 .. Len(sent) :
    /\ Value(sent[n].tt) < sent[n].at + Micro
    /\ \A k \in 1 .. Len(sent[n].msgs) : TagRight(sent[n].tt, sent[n].msgs[k])

\* The message of a line that gives its types and all their values has these, in
\* their order, and none that an earlier line left in the array.
Complete(l) == l.types # <<>> /\ Len(l.reads) >= ValueOf(l.types, Len(l.types))
OwnValues ==
  \A n \in 1 .. Len(made) :
    LET m == made[n]
        l == file[m.line]
    IN  Complete(l) =>
          /\ Len(m.args) = Len(l.types)
          /\ \A i \in 1 .. Len(l.types) :
               /\ m.args[i][1] = l.types[i]
               /\ l.types[i] \in Valued =>
                    /\ m.args[i][2].line = m.line
                    /\ \A j \in 1 .. i - 1 :
                         l.types[j] \in Valued => m.args[j][2].place < m.args[i][2].place

\* oscsendfile.c:72 of a message of no types: "empty message is allowed."
EmptyAllowed ==
  \A n \in 1 .. Len(made) : file[made[n].line].types = <<>> => made[n].args = <<>>
=============================================================================
