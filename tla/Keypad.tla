------------------------------- MODULE Keypad -------------------------------
(***************************************************************************)
(* The keys of kbd.py that become MIDI messages (handle_key): two of them  *)
(* announce a number of three digits, which is sent as the velocity of     *)
(* their note; every other key that is no command plays a note itself,     *)
(* digits included.  Config models the keys that write settings.           *)
(*                                                                         *)
(* A key is a record of what handle_key makes of it: its kind, and its     *)
(* value (a digit, or the note that it stands for).                        *)
(***************************************************************************)
EXTENDS Integers, Sequences

CONSTANTS Keys       \* the keys in use

None == 0            \* no note

VARIABLES
  digits_read, digit_note_to_send, plus_minus_mode,
  typed,     \* the last four keys
  sent       \* what the last key sent: <<>>, or <<note, velocity>>

vars == <<digits_read, digit_note_to_send, plus_minus_mode, typed, sent>>

DefaultVelocity == 64     \* of a mido note_on

Init ==
  /\ digits_read = <<>> /\ digit_note_to_send = None /\ plus_minus_mode = "volume"
  /\ typed = <<>> /\ sent = <<>>

Type(k) == typed' = Append(IF Len(typed) < 4 THEN typed ELSE Tail(typed), k)

\* int of the three digits in the order they were read
Number(ds) == 100 * ds[1] + 10 * ds[2] + ds[3]

\* Mutant: the digits wait for the next announcement.
Forgotten_Fault == digits_read
\* What any key that is no digit of a number leaves of one that was begun.
Forgotten == <<>>

Digit(k) ==
  /\ k.kind = "digit" /\ digit_note_to_send # None
  /\ LET ds == Append(digits_read, k.value)
     IN  IF Len(ds) < 3
         THEN /\ digits_read' = ds /\ sent' = <<>> /\ UNCHANGED digit_note_to_send
         ELSE /\ digits_read' = <<>> /\ digit_note_to_send' = None
              /\ sent' = IF Number(ds) <= 127 THEN <<digit_note_to_send, Number(ds)>> ELSE <<>>
  /\ Type(k) /\ UNCHANGED plus_minus_mode

Announce(k) ==
  /\ k.kind = "announce"
  /\ digits_read' = Forgotten /\ digit_note_to_send' = k.value
  /\ sent' = <<>> /\ Type(k) /\ UNCHANGED plus_minus_mode

\* A letter, a function key, or a digit that nothing announced
Play(k) ==
  /\ k.kind = "note" \/ (k.kind = "digit" /\ digit_note_to_send = None)
  /\ digits_read' = Forgotten /\ digit_note_to_send' = None
  /\ sent' = << IF k.kind = "digit" THEN 48 + k.value ELSE k.value, DefaultVelocity >>
  /\ Type(k) /\ UNCHANGED plus_minus_mode

\* KEY_KPSLASH and KEY_KPASTERISK
Mode(k) ==
  /\ k.kind = "mode" /\ plus_minus_mode' = k.value
  /\ digits_read' = Forgotten /\ digit_note_to_send' = None
  /\ sent' = <<>> /\ Type(k)

\* A key that writes a setting, or is only printed
Command(k) ==
  /\ k.kind = "command"
  /\ digits_read' = Forgotten /\ digit_note_to_send' = None
  /\ sent' = <<>> /\ Type(k) /\ UNCHANGED plus_minus_mode

HandleKey(k) == Digit(k) \/ Announce(k) \/ Play(k) \/ Mode(k) \/ Command(k)
Next == \E k \in Keys : HandleKey(k)
Spec == Init /\ [][Next]_vars
----------------------------------------------------------------------------
\* The last four keys were an announcement and the digits of n, and these
\* digits were not already part of an earlier number.
Spells(n, note) ==
  /\ Len(typed) = 4 /\ typed[1].kind = "announce" /\ typed[1].value = note
  /\ \A i \in 2 .. 4 : typed[i].kind = "digit"
  /\ n = 100 * typed[2].value + 10 * typed[3].value + typed[4].value

\* A number is sent exactly when its three digits were typed one after the
\* other behind the key that announces it, and it is a velocity: whatever was
\* begun and given up before, no digit of it is in another number.
NumbersAsTyped ==
  \A n \in 0 .. 127, note \in {105, 108} :
    LET announced == \E k \in Keys : k.kind = "announce" /\ k.value = note
        plays == \E k \in Keys : k.kind = "note" /\ k.value = note
    IN  announced /\ ~(plays /\ n = DefaultVelocity) => ((sent = <<note, n>>) <=> Spells(n, note))
=============================================================================
