------------------------------- MODULE Config -------------------------------
(***************************************************************************)
(* How the keypad daemon (kbd.py) and the synthesizer (zeros.c) share      *)
(* their settings.  The only channel between the two processes is a set of *)
(* one-digit files: the keypad rewrites them, the synthesizer's poller     *)
(* thread rereads three of them every 50 ms.  Neither side locks, and a    *)
(* rewrite is not atomic: open(fname, 'w') truncates the file, the digit   *)
(* arrives when the file is closed.  One action is one file operation, so  *)
(* the poller and the crashes fall between any two of them.                *)
(*                                                                         *)
(* What update_iff does besides storing the value (init_octaver,           *)
(* init_gains) touches no file and is the subject of other modules.        *)
(*                                                                         *)
(* An operator whose name ends in _Fault is the definition after it with a *)
(* plausible mistake in it; only the mutation runs use it.                 *)
(***************************************************************************)
EXTENDS Integers

CONSTANTS
  MaxDigit,      (* 9: the keypad clamps to 0..9, volumes[] has ten entries *)
  KbdDefault,    (* 5: the keypad's level where no file exists             *)
  SynthDefault,  (* zeros.c starts with voice 6, volume 5, gate 1          *)
  MaxKeys,       (* bound: key presses in a behaviour                      *)
  MaxCrashes,    (* bound: crashes of each process in a behaviour          *)
  Empty,         (* the content of a truncated file                        *)
  Missing,       (* the content of a file that does not exist              *)
  Unset          (* gate_squared before init_gate first ran                *)

Digits == 0 .. MaxDigit

Names == {"voice", "volume", "gate"}

ASSUME DigitsAssumption ==
  /\ MaxDigit \in Nat
  /\ KbdDefault \in Digits
  /\ SynthDefault \in [Names -> Digits]

ASSUME BoundsAssumption == MaxKeys \in Nat /\ MaxCrashes \in Nat

ASSUME MarkersAssumption ==
  /\ Empty \notin Int /\ Missing \notin Int /\ Unset \notin Int
  /\ Empty # Missing

VARIABLES
  current,       (* content of current-voice, current-volume, current-gate *)
  configured,    (* content of configured-volume-<voice>                   *)
  pc,            (* where the keypad daemon is, "down" while not running   *)
  val,           (* the digit it is about to write                         *)
  mode,          (* plus_minus_mode                                        *)
  up,            (* whether the synthesizer is running                     *)
  poll,          (* the file its poller reads next                         *)
  iff,           (* voice_iff.value, volume_iff.value, gate_iff.value      *)
  gate_squared,  (* index into volumes[] gate_squared was computed from    *)
  keys,          (* key presses so far                                     *)
  kbd_crashes,   (* crashes of the daemon so far, not counting exceptions  *)
  synth_crashes, (* crashes of the synthesizer so far                      *)
  saved          (* history: every digit each current file has held        *)

kbdVars == <<current, configured, pc, val, mode, keys, kbd_crashes, saved>>
synthVars == <<up, poll, iff, gate_squared, synth_crashes>>
vars == <<kbdVars, synthVars>>

-----------------------------------------------------------------------------
(* The keypad daemon.  A handler runs to its end before the next key.      *)

Clamp_Fault(n) == IF n < 0 THEN 0 ELSE n

Clamp(n) == IF n < 0 THEN 0 ELSE IF n > MaxDigit THEN MaxDigit ELSE n

(* read_number raises ValueError on an empty file and FileNotFoundError on *)
(* a missing one; nothing catches either.                                  *)
Readable(content) == content \notin {Empty, Missing}

(* current_volume and current_gate: a missing file counts as KbdDefault,   *)
(* an empty one does not.                                                  *)
OrDefault_MissingFault(content) == content

OrDefault(content) == IF content = Missing THEN KbdDefault ELSE content

Press == pc = "idle" /\ keys < MaxKeys /\ keys' = keys + 1

Die == pc' = "down" /\ UNCHANGED <<current, configured, val, mode, saved>>

Truncate(f) == current' = [current EXCEPT ![f] = Empty]

Store(f) ==
  /\ current' = [current EXCEPT ![f] = val]
  /\ saved' = [saved EXCEPT ![f] = @ \union {val}]

(* A voice key: write_number opens current-voice.                          *)
KeyVoice(voice) ==
  /\ Press
  /\ Truncate("voice")
  /\ pc' = "voice_open"
  /\ val' = voice
  /\ UNCHANGED <<configured, mode, kbd_crashes, saved, synthVars>>

WriteVoice ==
  /\ pc = "voice_open"
  /\ Store("voice")
  /\ pc' = "voice_done"
  /\ UNCHANGED <<configured, val, mode, keys, kbd_crashes, synthVars>>

(* save_volume(current_volume() + increment) up to opening                 *)
(* configured-volume-<voice>.                                              *)
StartSaveVolume(increment) ==
  LET voice == current["voice"]
      level == OrDefault(configured[voice])
  IN  \/ /\ Readable(voice) /\ Readable(level)
         /\ configured' = [configured EXCEPT ![voice] = Empty]
         /\ pc' = "configured_open"
         /\ val' = Clamp(level + increment)
         /\ UNCHANGED <<current, mode, saved>>
      \/ /\ ~(Readable(voice) /\ Readable(level))
         /\ Die

(* The volume of the voice before is kept.                                 *)
KeepVolume_Fault ==
  /\ pc = "voice_done"
  /\ pc' = "idle"
  /\ UNCHANGED <<current, configured, val, mode, keys, kbd_crashes, saved,
                 synthVars>>

(* The rest of a voice key's handler: save_volume(current_volume()).       *)
KeepVolume ==
  /\ pc = "voice_done"
  /\ StartSaveVolume(0)
  /\ UNCHANGED <<keys, kbd_crashes, synthVars>>

KeyVolume(increment) ==
  /\ mode = "volume"
  /\ Press
  /\ StartSaveVolume(increment)
  /\ UNCHANGED <<kbd_crashes, synthVars>>

WriteConfigured ==
  /\ pc = "configured_open"
  /\ configured' = [configured EXCEPT ![current["voice"]] = val]
  /\ pc' = "configured_done"
  /\ UNCHANGED <<current, val, mode, keys, kbd_crashes, saved, synthVars>>

OpenVolume ==
  /\ pc = "configured_done"
  /\ Truncate("volume")
  /\ pc' = "volume_open"
  /\ UNCHANGED <<configured, val, mode, keys, kbd_crashes, saved, synthVars>>

WriteVolume ==
  /\ pc = "volume_open"
  /\ Store("volume")
  /\ pc' = "idle"
  /\ UNCHANGED <<configured, val, mode, keys, kbd_crashes, synthVars>>

(* gate_change: read current-gate, open it for writing.                    *)
KeyGate(increment) ==
  LET level == OrDefault(current["gate"])
  IN  /\ mode = "gate"
      /\ Press
      /\ \/ /\ Readable(level)
            /\ Truncate("gate")
            /\ pc' = "gate_open"
            /\ val' = Clamp(level + increment)
            /\ UNCHANGED <<configured, mode, saved>>
         \/ ~Readable(level) /\ Die
      /\ UNCHANGED <<kbd_crashes, synthVars>>

WriteGate ==
  /\ pc = "gate_open"
  /\ Store("gate")
  /\ pc' = "idle"
  /\ UNCHANGED <<configured, val, mode, keys, kbd_crashes, synthVars>>

(* KEY_KPSLASH and KEY_KPASTERISK.                                         *)
KeyMode(m) ==
  /\ Press
  /\ mode' = m
  /\ UNCHANGED <<current, configured, pc, val, kbd_crashes, saved, synthVars>>

(* The daemon is killed or loses power between two file operations.        *)
KbdCrash ==
  /\ pc # "down"
  /\ kbd_crashes < MaxCrashes
  /\ kbd_crashes' = kbd_crashes + 1
  /\ pc' = "down"
  /\ UNCHANGED <<current, configured, val, mode, keys, saved, synthVars>>

(* systemd: Restart=always.                                                *)
KbdRestart ==
  /\ pc = "down"
  /\ pc' = "idle"
  /\ mode' = "volume"
  /\ UNCHANGED <<current, configured, val, keys, kbd_crashes, saved, synthVars>>

-----------------------------------------------------------------------------
(* The synthesizer.                                                        *)

(* main sets the defaults, the poller thread opens the three files.        *)
SynthStart ==
  /\ ~up
  /\ \A f \in Names : current[f] # Missing
  /\ up' = TRUE
  /\ poll' = "voice"
  /\ iff' = SynthDefault
  /\ gate_squared' = Unset
  /\ UNCHANGED <<kbdVars, synth_crashes>>

(* open_iff_or_die: the process exits, and systemd starts it again.        *)
SynthStartFails ==
  /\ ~up
  /\ \E f \in Names : current[f] = Missing
  /\ UNCHANGED vars

(* zeros.c's read_number: atoi of what is there, 0 when nothing is.        *)
ReadNumber(content) == IF content = Empty THEN 0 ELSE content

NextPoll_Fault == [voice |-> "volume", volume |-> "gate", gate |-> "gate"]

NextPoll == [voice |-> "volume", volume |-> "gate", gate |-> "voice"]

(* init_gate reads volumes[9 - gate_iff.value].                            *)
GateIndex(gate) == MaxDigit - gate

(* gate_squared is computed before the new value is stored.                *)
InitGate_Fault(values) == GateIndex(iff["gate"])

InitGate(values) == GateIndex(values["gate"])

(* update_iff of the next file.  Any changed value recomputes the gate.    *)
Poll ==
  LET new == ReadNumber(current[poll])
  IN  /\ up
      /\ poll' = NextPoll[poll]
      /\ iff' = [iff EXCEPT ![poll] = new]
      /\ gate_squared' = IF iff[poll] # new THEN InitGate(iff')
                                            ELSE gate_squared
      /\ UNCHANGED <<kbdVars, up, synth_crashes>>

SynthCrash ==
  /\ up
  /\ synth_crashes < MaxCrashes
  /\ synth_crashes' = synth_crashes + 1
  /\ up' = FALSE
  /\ UNCHANGED <<kbdVars, poll, iff, gate_squared>>

-----------------------------------------------------------------------------
(* The files before the first start: a digit each, the volume being the    *)
(* one configured for the voice, as in the repository; current-gate and    *)
(* the other voices' volumes need not exist.                               *)
Init ==
  /\ current \in [Names -> Digits \union {Missing}]
  /\ current["voice"] \in Digits /\ current["volume"] \in Digits
  /\ configured \in [Digits -> Digits \union {Missing}]
  /\ configured[current["voice"]] = current["volume"]
  /\ pc = "idle" /\ val = 0 /\ mode = "volume"
  /\ up = FALSE /\ poll = "voice" /\ iff = SynthDefault /\ gate_squared = Unset
  /\ keys = 0 /\ kbd_crashes = 0 /\ synth_crashes = 0
  /\ saved = [f \in Names |-> {current[f]} \ {Missing}]

Handler ==
  \/ WriteVoice \/ KeepVolume \/ WriteConfigured \/ OpenVolume
  \/ WriteVolume \/ WriteGate

Key ==
  \/ \E voice \in Digits : KeyVoice(voice)
  \/ \E increment \in {-1, 1} : KeyVolume(increment) \/ KeyGate(increment)
  \/ \E m \in {"volume", "gate"} : KeyMode(m)

Next ==
  \/ Key \/ Handler \/ KbdCrash \/ KbdRestart
  \/ SynthStart \/ SynthStartFails \/ Poll \/ SynthCrash

Spec == Init /\ [][Next]_vars

(* Nobody has to press a key and nothing has to crash; the kernel runs     *)
(* both processes, systemd restarts them, and the poller loops for ever.   *)
Fairness ==
  /\ WF_vars(Handler) /\ WF_vars(KbdRestart)
  /\ WF_vars(SynthStart) /\ WF_vars(Poll)

FairSpec == Spec /\ Fairness

-----------------------------------------------------------------------------
(* Properties.                                                             *)

Contents == Int \union {Empty, Missing}

Places == {"idle", "voice_open", "voice_done", "configured_open",
           "configured_done", "volume_open", "gate_open", "down"}

(* Every variable keeps its type; that the digits stay in range is         *)
(* IndexInBounds.                                                          *)
TypeOK ==
  /\ current \in [Names -> Contents] /\ configured \in [Digits -> Contents]
  /\ pc \in Places
  /\ val \in Int /\ mode \in {"volume", "gate"}
  /\ up \in BOOLEAN /\ poll \in Names
  /\ iff \in [Names -> Int] /\ gate_squared \in Int \union {Unset}
  /\ keys \in 0 .. MaxKeys
  /\ kbd_crashes \in 0 .. MaxCrashes /\ synth_crashes \in 0 .. MaxCrashes
  /\ saved \in [Names -> SUBSET Int]

(* The synthesizer indexes volumes[] with the volume and with 9 - gate     *)
(* and checks neither: whatever the keypad writes, whenever it is          *)
(* interrupted, both stay inside the table.                                *)
IndexInBounds ==
  /\ iff["volume"] \in Digits
  /\ GateIndex(iff["gate"]) \in Digits
  /\ gate_squared \in Digits \union {Unset}

(* A daemon that was never killed and waits for a key has left the current *)
(* volume equal to the one configured for the current voice: the three     *)
(* files a voice key rewrites agree again.                                 *)
VolumeMatchesVoice ==
  pc = "idle" /\ kbd_crashes = 0 =>
    /\ current["voice"] \in Digits
    /\ configured[current["voice"]] = current["volume"]

(* The daemon's uncaught ValueError is out of reach until something kills  *)
(* it: it never trips over a file of its own making.                       *)
NoSelfInflictedDeath == kbd_crashes = 0 => pc # "down"

(* gate_squared follows gate_iff.value, or was never computed -- and that  *)
(* only while all three settings have kept the values zeros.c starts with. *)
GateApplied ==
  \/ gate_squared = GateIndex(iff["gate"])
  \/ gate_squared = Unset /\ iff = SynthDefault

(* A read that falls into a rewrite is a 0: the poller never sees a digit  *)
(* that nobody saved, other than 0 and its own default.                    *)
TornReadIsZero ==
  \A f \in Names : iff[f] \in saved[f] \union {0, SynthDefault[f]}

(* README.md: "Keys 0-8 on the keypad should select voices."  The voice    *)
(* played is one somebody selected, or the one zeros.c starts with.        *)
OnlySelectedVoices ==
  iff["voice"] \in saved["voice"] \union {SynthDefault["voice"]}

(* The configured volume of v was truncated and nobody is about to fill it.*)
Lost(v) ==
  configured[v] = Empty /\ ~(pc = "configured_open" /\ current["voice"] = v)

(* A voice whose configured volume was lost in a crash stays lost: every   *)
(* key that could rewrite the file reads it first and dies.                *)
LostVolumeStaysLost == [][\A v \in Digits : Lost(v) => Lost(v)']_vars

(* Once keys and crashes stop, the synthesizer plays what the files say    *)
(* (unless it cannot start because there is no current-gate).              *)
Converges ==
  <>[](current["gate"] # Missing =>
         \A f \in Names : iff[f] = ReadNumber(current[f]))

=============================================================================
