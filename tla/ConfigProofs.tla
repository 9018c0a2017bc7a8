---------------------------- MODULE ConfigProofs ----------------------------
(* Proofs about Config, for every number of digits, keys and crashes.      *)
EXTENDS Config, TLAPS

Content == Digits \union {Empty, Missing}

LEMMA ClampInRange == \A n \in Int : Clamp(n) \in Digits
  BY DigitsAssumption DEF Clamp, Digits

LEMMA DigitsAreInts == Digits \subseteq Int /\ 0 \in Digits
  BY DigitsAssumption DEF Digits

LEMMA MarkersAreNoDigits ==
  Empty \notin Digits /\ Missing \notin Digits /\ Unset \notin Digits
  BY DigitsAreInts, MarkersAssumption

-----------------------------------------------------------------------------
(* The keypad's half of the type invariant: every file holds a digit or    *)
(* nothing, and the two the repository ships are never missing.            *)
FileInv ==
  /\ current \in [Names -> Content] /\ configured \in [Digits -> Content]
  /\ current["voice"] # Missing /\ current["volume"] # Missing
  /\ pc \in Places /\ mode \in {"volume", "gate"}
  /\ val \in Digits
  /\ saved \in [Names -> SUBSET Digits]
  /\ keys \in 0 .. MaxKeys /\ kbd_crashes \in 0 .. MaxCrashes

(* An update of one file that stores a digit or nothing is an update of    *)
(* the right type.                                                         *)
LEMMA TruncateType ==
  ASSUME FileInv, NEW f \in Names, Truncate(f)
  PROVE  /\ current' \in [Names -> Content]
         /\ current'["voice"] # Missing /\ current'["volume"] # Missing
  BY MarkersAssumption DEF FileInv, Truncate, Content, Names

LEMMA StoreType ==
  ASSUME FileInv, NEW f \in Names, Store(f)
  PROVE  /\ current' \in [Names -> Content]
         /\ current'["voice"] # Missing /\ current'["volume"] # Missing
         /\ saved' \in [Names -> SUBSET Digits]
<1>1. val \in Content /\ val # Missing
  BY MarkersAreNoDigits DEF FileInv, Content
<1>2. /\ current' \in [Names -> Content]
      /\ current'["voice"] # Missing /\ current'["volume"] # Missing
  BY <1>1 DEF FileInv, Store, Names
<1>3. saved' \in [Names -> SUBSET Digits]
  <2>1. saved[f] \union {val} \in SUBSET Digits
    BY DEF FileInv
  <2> QED  BY <2>1 DEF FileInv, Store
<1> QED  BY <1>2, <1>3

(* What a step may do to the files and the digit to be written.            *)
LEMMA StartSaveVolumeType ==
  ASSUME FileInv, NEW increment \in {-1, 0, 1}, StartSaveVolume(increment)
  PROVE  /\ configured' \in [Digits -> Content] /\ val' \in Digits
         /\ UNCHANGED <<current, mode, saved>>
         /\ pc' \in {"configured_open", "down"}
<1> DEFINE voice == current["voice"]
           level == OrDefault(configured[voice])
<1>1. CASE /\ Readable(voice) /\ Readable(level)
           /\ configured' = [configured EXCEPT ![voice] = Empty]
           /\ pc' = "configured_open"
           /\ val' = Clamp(level + increment)
           /\ UNCHANGED <<current, mode, saved>>
  <2>1. voice \in Digits
    BY <1>1 DEF FileInv, Content, Names, Readable
  <2>2. configured[voice] \in Content
    BY <2>1 DEF FileInv
  <2>3. level \in Digits
    BY <2>2, <1>1, DigitsAssumption DEF OrDefault, Content, Readable
  <2> HIDE DEF level
  <2>4. level \in Int /\ increment \in Int
    BY <2>3, DigitsAreInts
  <2>5. level + increment \in Int
    BY <2>4
  <2>6. val' \in Digits
    BY <1>1, <2>5, ClampInRange
  <2>7. configured' \in [Digits -> Content]
    BY <1>1, <2>1 DEF FileInv, Content
  <2> QED  BY <1>1, <2>6, <2>7
<1>2. CASE Die
  BY <1>2 DEF Die, FileInv
<1> QED  BY <1>1, <1>2 DEF StartSaveVolume

LEMMA PressType ==
  ASSUME FileInv, Press
  PROVE  keys' \in 0 .. MaxKeys /\ pc = "idle"
  BY BoundsAssumption DEF FileInv, Press

LEMMA KeyGateType ==
  ASSUME FileInv, NEW increment \in {-1, 1}, KeyGate(increment)
  PROVE  /\ current' \in [Names -> Content] /\ val' \in Digits
         /\ current'["voice"] # Missing /\ current'["volume"] # Missing
         /\ UNCHANGED <<configured, mode, saved>>
         /\ pc' \in {"gate_open", "down"}
<1> DEFINE level == OrDefault(current["gate"])
<1>1. CASE /\ Readable(level)
           /\ Truncate("gate")
           /\ pc' = "gate_open"
           /\ val' = Clamp(level + increment)
           /\ UNCHANGED <<configured, mode, saved>>
  <2>1. current["gate"] \in Content
    BY DEF FileInv, Names
  <2>2. level \in Digits
    BY <1>1, <2>1, DigitsAssumption DEF OrDefault, Content, Readable
  <2> HIDE DEF level
  <2>3. level + increment \in Int
    <3>1. level \in Int /\ increment \in Int
      BY <2>2, DigitsAreInts
    <3> QED  BY <3>1
  <2>4. val' \in Digits
    BY <1>1, <2>3, ClampInRange
  <2>5. "gate" \in Names
    BY DEF Names
  <2> QED  BY <1>1, <2>4, <2>5, TruncateType
<1>2. CASE Die
  BY <1>2 DEF Die, FileInv
<1> QED  BY <1>1, <1>2 DEF KeyGate

LEMMA FileInvInductive == FileInv /\ [Next]_vars => FileInv'
<1> SUFFICES ASSUME FileInv, [Next]_vars PROVE FileInv'
  OBVIOUS
<1>0. {"voice", "volume", "gate"} = Names
  BY DEF Names
<1>1. ASSUME NEW voice \in Digits, KeyVoice(voice) PROVE FileInv'
  <2>1. Truncate("voice") /\ Press
    BY <1>1 DEF KeyVoice
  <2> QED
    BY <1>0, <1>1, <2>1, TruncateType, PressType DEF KeyVoice, FileInv, Places
<1>2. CASE WriteVoice
  BY <1>0, <1>2, StoreType DEF WriteVoice, FileInv, Places
<1>3. CASE KeepVolume
  <2>1. StartSaveVolume(0)
    BY <1>3 DEF KeepVolume
  <2> QED
    BY <1>3, <2>1, StartSaveVolumeType DEF KeepVolume, FileInv, Places
<1>4. ASSUME NEW increment \in {-1, 1}, KeyVolume(increment) PROVE FileInv'
  <2>1. StartSaveVolume(increment) /\ Press /\ increment \in {-1, 0, 1}
    BY <1>4 DEF KeyVolume
  <2> QED
    BY <1>4, <2>1, StartSaveVolumeType, PressType DEF KeyVolume, FileInv, Places
<1>5. CASE WriteConfigured
  <2>1. configured' \in [Digits -> Content]
    BY <1>5 DEF WriteConfigured, FileInv, Content
  <2> QED
    BY <1>5, <2>1 DEF WriteConfigured, FileInv, Places
<1>6. CASE OpenVolume
  BY <1>0, <1>6, TruncateType DEF OpenVolume, FileInv, Places
<1>7. CASE WriteVolume
  BY <1>0, <1>7, StoreType DEF WriteVolume, FileInv, Places
<1>8. ASSUME NEW increment \in {-1, 1}, KeyGate(increment) PROVE FileInv'
  <2>1. Press
    BY <1>8 DEF KeyGate
  <2> QED
    BY <1>8, <2>1, KeyGateType, PressType DEF KeyGate, FileInv, Places
<1>9. CASE WriteGate
  BY <1>0, <1>9, StoreType DEF WriteGate, FileInv, Places
<1>10. ASSUME NEW m \in {"volume", "gate"}, KeyMode(m) PROVE FileInv'
  BY <1>10, PressType DEF KeyMode, FileInv
<1>11. CASE KbdCrash
  BY <1>11, BoundsAssumption DEF KbdCrash, FileInv, Places
<1>12. CASE KbdRestart
  BY <1>12 DEF KbdRestart, FileInv, Places
<1>13. CASE UNCHANGED kbdVars
  BY <1>13 DEF kbdVars, FileInv
<1> QED
  BY <1>1, <1>2, <1>3, <1>4, <1>5, <1>6, <1>7, <1>8, <1>9, <1>10, <1>11,
     <1>12, <1>13
  DEF Next, Key, Handler, SynthStart, SynthStartFails, Poll, SynthCrash, vars

LEMMA FileInvInit == Init => FileInv
<1> SUFFICES ASSUME Init PROVE FileInv
  OBVIOUS
<1>1. saved \in [Names -> SUBSET Digits]
  <2>1. \A f \in Names : {current[f]} \ {Missing} \in SUBSET Digits
    BY DEF Init
  <2> QED  BY <2>1 DEF Init
<1>2. current["voice"] # Missing /\ current["volume"] # Missing
  BY MarkersAreNoDigits DEF Init
<1>3. /\ current \in [Names -> Content] /\ configured \in [Digits -> Content]
  BY DEF Init, Content
<1> QED
  BY <1>1, <1>2, <1>3, DigitsAreInts, BoundsAssumption
  DEF Init, FileInv, Places

-----------------------------------------------------------------------------
(* The synthesizer's half: it reads digits, and a running synthesizer has  *)
(* found its three files.                                                  *)
SynthInv ==
  /\ up \in BOOLEAN /\ poll \in Names /\ synth_crashes \in 0 .. MaxCrashes
  /\ iff \in [Names -> Digits]
  /\ gate_squared \in Digits \union {Unset}
  /\ up => \A f \in Names : current[f] # Missing

(* The daemon only ever brings files into being.                           *)
LEMMA FilesAppear ==
  ASSUME FileInv, [Next]_vars, NEW f \in Names, current[f] # Missing
  PROVE  current'[f] # Missing
<1>1. val # Missing
  BY MarkersAreNoDigits DEF FileInv
<1>2. ASSUME NEW increment \in {-1, 0, 1}, StartSaveVolume(increment)
      PROVE current' = current
  BY <1>2 DEF StartSaveVolume, Die
<1>3. current' = current \/ \E g \in Names : Truncate(g) \/ Store(g)
  BY <1>2
  DEF Next, Key, Handler, KeyVoice, WriteVoice, KeepVolume, KeyVolume,
      WriteConfigured, OpenVolume, WriteVolume, KeyGate, WriteGate, KeyMode,
      Die, KbdCrash, KbdRestart, SynthStart, SynthStartFails, Poll, SynthCrash,
      vars, kbdVars, Names
<1> QED
  BY <1>1, <1>3, MarkersAssumption DEF Truncate, Store, FileInv

LEMMA ReadNumberType ==
  ASSUME FileInv, SynthInv, up
  PROVE  ReadNumber(current[poll]) \in Digits
  BY DigitsAreInts DEF FileInv, SynthInv, ReadNumber, Content

LEMMA GateIndexType == \A d \in Digits : GateIndex(d) \in Digits
  BY DigitsAssumption DEF GateIndex, Digits

LEMMA SynthInvInductive == FileInv /\ SynthInv /\ [Next]_vars => SynthInv'
<1> SUFFICES ASSUME FileInv, SynthInv, [Next]_vars PROVE SynthInv'
  OBVIOUS
<1>1. CASE SynthStart
  BY <1>1, DigitsAssumption DEF SynthStart, SynthInv, Names, kbdVars
<1>2. CASE Poll
  <2> DEFINE new == ReadNumber(current[poll])
  <2>1. new \in Digits
    BY <1>2, ReadNumberType DEF Poll
  <2> HIDE DEF new
  <2>2. iff' = [iff EXCEPT ![poll] = new] /\ poll' = NextPoll[poll]
    BY <1>2 DEF Poll, new
  <2>3. iff' \in [Names -> Digits] /\ poll' \in Names
    BY <2>1, <2>2 DEF SynthInv, NextPoll, Names
  <2>4. GateIndex(iff'["gate"]) \in Digits
    BY <2>3, GateIndexType DEF Names
  <2>5. gate_squared' \in Digits \union {Unset}
    BY <1>2, <2>4 DEF Poll, SynthInv, InitGate
  <2> QED  BY <1>2, <2>3, <2>5 DEF Poll, SynthInv, kbdVars
<1>3. CASE SynthCrash
  <2>1. synth_crashes' \in 0 .. MaxCrashes
    BY <1>3, BoundsAssumption DEF SynthCrash, SynthInv
  <2>2. up' \in BOOLEAN /\ ~up'
    BY <1>3, Zenon DEF SynthCrash
  <2> QED  BY <1>3, <2>1, <2>2, Zenon DEF SynthCrash, SynthInv
<1>4. CASE UNCHANGED synthVars
  BY <1>4, FilesAppear DEF synthVars, SynthInv
<1> QED
  BY <1>1, <1>2, <1>3, <1>4
  DEF Next, Key, Handler, KeyVoice, WriteVoice, KeepVolume, KeyVolume,
      WriteConfigured, OpenVolume, WriteVolume, KeyGate, WriteGate, KeyMode,
      KbdCrash, KbdRestart, SynthStartFails, vars

LEMMA SynthInvInit == Init => SynthInv
<1> SUFFICES ASSUME Init PROVE SynthInv
  OBVIOUS
<1>1. up \in BOOLEAN /\ ~up
  BY Zenon DEF Init
<1>2. poll \in Names /\ synth_crashes \in 0 .. MaxCrashes
  BY BoundsAssumption DEF Init, Names
<1>3. iff \in [Names -> Digits] /\ gate_squared \in Digits \union {Unset}
  BY DigitsAssumption DEF Init
<1> QED  BY <1>1, <1>2, <1>3, Zenon DEF SynthInv

LEMMA TypeInvariant == Spec => [](FileInv /\ SynthInv)
  BY FileInvInit, SynthInvInit, FileInvInductive, SynthInvInductive, PTL DEF Spec

(* The files and the poller's values keep their types, whatever is pressed *)
(* and whenever either process dies.                                       *)
THEOREM ConfigTypeCorrect == Spec => []TypeOK
<1>1. FileInv /\ SynthInv => TypeOK
  BY DigitsAreInts DEF FileInv, SynthInv, TypeOK, Content, Contents
<1> QED  BY TypeInvariant, <1>1, PTL

(* update and init_gate never index volumes[] out of bounds, whatever is   *)
(* typed and whenever either process is interrupted.                       *)
THEOREM ConfigIndexInBounds == Spec => []IndexInBounds
<1>1. SynthInv => IndexInBounds
  BY GateIndexType DEF SynthInv, IndexInBounds, Names
<1> QED  BY TypeInvariant, <1>1, PTL

-----------------------------------------------------------------------------
(* GateApplied is inductive on its own once the types are known.           *)
LEMMA GateAppliedInductive ==
  SynthInv /\ GateApplied /\ [Next]_vars => GateApplied'
<1> SUFFICES ASSUME SynthInv, GateApplied, [Next]_vars PROVE GateApplied'
  OBVIOUS
<1>1. CASE SynthStart
  BY <1>1 DEF SynthStart, GateApplied
<1>2. CASE Poll
  <2>1. CASE iff[poll] = ReadNumber(current[poll])
    <3>1. iff' = iff
      BY <1>2, <2>1 DEF Poll, SynthInv
    <3> QED  BY <1>2, <2>1, <3>1 DEF Poll, GateApplied
  <2>2. CASE iff[poll] # ReadNumber(current[poll])
    BY <1>2, <2>2 DEF Poll, GateApplied, InitGate
  <2> QED  BY <2>1, <2>2
<1>3. CASE UNCHANGED <<iff, gate_squared>>
  BY <1>3 DEF GateApplied
<1> QED
  BY <1>1, <1>2, <1>3
  DEF Next, Key, Handler, KeyVoice, WriteVoice, KeepVolume, KeyVolume,
      WriteConfigured, OpenVolume, WriteVolume, KeyGate, WriteGate, KeyMode,
      KbdCrash, KbdRestart, SynthStartFails, SynthCrash, vars, synthVars

(* The gate's threshold follows gate_iff.value, except that it is not      *)
(* computed while every setting is still the one zeros.c starts with.      *)
THEOREM ConfigGateApplied == Spec => []GateApplied
<1>1. Init => GateApplied
  BY DEF Init, GateApplied
<1> QED  BY <1>1, TypeInvariant, GateAppliedInductive, PTL DEF Spec

-----------------------------------------------------------------------------
(* What a daemon that was never killed knows of its files: which one is    *)
(* truncated at each place, and from which place on the volume written is  *)
(* the one configured for the voice.                                       *)
DaemonInv ==
  kbd_crashes = 0 =>
    /\ pc # "down"
    /\ current["voice"] = Empty => pc = "voice_open"
    /\ current["gate"] = Empty => pc = "gate_open"
    /\ \A v \in Digits :
         configured[v] = Empty => pc = "configured_open" /\ v = current["voice"]
    /\ pc \in {"configured_done", "volume_open"} =>
         configured[current["voice"]] = val
    /\ pc \in {"idle", "gate_open"} =>
         configured[current["voice"]] = current["volume"]

(* Outside of voice_open, current-voice holds a digit.                     *)
LEMMA VoiceKnown ==
  ASSUME FileInv, DaemonInv, kbd_crashes = 0, pc # "voice_open"
  PROVE  current["voice"] \in Digits
  BY DEF FileInv, DaemonInv, Content, Names

(* save_volume finds both its files readable, so it opens the configured   *)
(* volume.                                                                 *)
LEMMA SaveVolumeLives ==
  ASSUME FileInv, DaemonInv, kbd_crashes = 0, pc \in {"idle", "voice_done"},
         NEW increment \in {-1, 0, 1}, StartSaveVolume(increment)
  PROVE  /\ configured' = [configured EXCEPT ![current["voice"]] = Empty]
         /\ pc' = "configured_open"
         /\ UNCHANGED current
<1>1. current["voice"] \in Digits
  BY VoiceKnown
<1>2. configured[current["voice"]] \in Digits \union {Missing}
  BY <1>1 DEF FileInv, DaemonInv, Content
<1>3. Readable(current["voice"])
  BY <1>1, MarkersAreNoDigits DEF Readable
<1>4. Readable(OrDefault(configured[current["voice"]]))
  BY <1>2, MarkersAreNoDigits, DigitsAssumption DEF Readable, OrDefault
<1> QED  BY <1>3, <1>4 DEF StartSaveVolume

LEMMA DaemonInvInductive ==
  FileInv /\ DaemonInv /\ [Next]_vars => DaemonInv'
<1> SUFFICES ASSUME FileInv, DaemonInv, [Next]_vars, kbd_crashes' = 0
             PROVE  DaemonInv'
  BY DEF DaemonInv
<1>0. kbd_crashes = 0 /\ ~KbdCrash
  BY DEF FileInv, Next, Key, Handler, KeyVoice, WriteVoice, KeepVolume,
     KeyVolume, WriteConfigured, OpenVolume, WriteVolume, KeyGate, WriteGate,
     KeyMode, KbdCrash, KbdRestart, SynthStart, SynthStartFails, Poll,
     SynthCrash, vars, kbdVars
<1> DEFINE voice == current["voice"]
<1>1. ASSUME NEW v \in Digits, KeyVoice(v) PROVE DaemonInv'
  <2>1. current' = [current EXCEPT !["voice"] = Empty] /\ pc = "idle"
    BY <1>1 DEF KeyVoice, Truncate, Press
  <2>2. current'["gate"] = current["gate"]
    BY <2>1 DEF FileInv, Names
  <2> QED  BY <1>0, <1>1, <2>1, <2>2 DEF KeyVoice, DaemonInv
<1>2. CASE WriteVoice
  <2>1. current' = [current EXCEPT !["voice"] = val]
    BY <1>2 DEF WriteVoice, Store
  <2>2. current'["voice"] # Empty /\ current'["gate"] = current["gate"]
    BY <2>1, MarkersAreNoDigits DEF FileInv, Names
  <2> QED  BY <1>0, <1>2, <2>2 DEF WriteVoice, DaemonInv
<1>3. ASSUME NEW increment \in {-1, 0, 1}, StartSaveVolume(increment),
             pc \in {"idle", "voice_done"}
      PROVE DaemonInv'
  <2>1. /\ configured' = [configured EXCEPT ![voice] = Empty]
        /\ pc' = "configured_open" /\ UNCHANGED current
    BY <1>0, <1>3, SaveVolumeLives
  <2>2. \A v \in Digits : configured'[v] = Empty => v = voice
    BY <1>0, <1>3, <2>1 DEF FileInv, DaemonInv
  <2>3. voice # Empty /\ current["gate"] # Empty
    BY <1>0, <1>3 DEF DaemonInv
  <2> QED  BY <2>1, <2>2, <2>3 DEF DaemonInv
<1>4. CASE WriteConfigured
  <2>1. voice \in Digits
    BY <1>0, <1>4, VoiceKnown DEF WriteConfigured
  <2>2. /\ configured' = [configured EXCEPT ![voice] = val]
        /\ pc = "configured_open" /\ pc' = "configured_done"
        /\ UNCHANGED <<current, val>>
    BY <1>4 DEF WriteConfigured
  <2>3. configured'[voice] = val /\ val # Empty
    BY <2>1, <2>2, MarkersAreNoDigits DEF FileInv
  <2>4. \A v \in Digits : configured'[v] # Empty
    BY <1>0, <2>2, <2>3 DEF FileInv, DaemonInv
  <2> QED  BY <1>0, <2>2, <2>3, <2>4 DEF DaemonInv
<1>5. CASE OpenVolume
  <2>1. current' = [current EXCEPT !["volume"] = Empty]
    BY <1>5 DEF OpenVolume, Truncate
  <2>2. current'["voice"] = voice /\ current'["gate"] = current["gate"]
    BY <2>1 DEF FileInv, Names
  <2> QED  BY <1>0, <1>5, <2>2 DEF OpenVolume, DaemonInv
<1>6. CASE WriteVolume
  <2>1. current' = [current EXCEPT !["volume"] = val]
    BY <1>6 DEF WriteVolume, Store
  <2>2. /\ current'["voice"] = voice /\ current'["gate"] = current["gate"]
        /\ current'["volume"] = val
    BY <2>1 DEF FileInv, Names
  <2> QED  BY <1>0, <1>6, <2>2 DEF WriteVolume, DaemonInv
<1>7. ASSUME NEW increment \in {-1, 1}, KeyGate(increment) PROVE DaemonInv'
  <2>1. pc = "idle" /\ UNCHANGED kbd_crashes
    BY <1>7 DEF KeyGate, Press
  <2>2. current["gate"] \in Digits \union {Missing}
    BY <1>0, <2>1 DEF FileInv, DaemonInv, Content, Names
  <2>3. Readable(OrDefault(current["gate"]))
    BY <2>2, MarkersAreNoDigits, DigitsAssumption DEF Readable, OrDefault
  <2>4. /\ current' = [current EXCEPT !["gate"] = Empty]
        /\ pc' = "gate_open" /\ UNCHANGED configured
    BY <1>7, <2>3 DEF KeyGate, Truncate
  <2>5. current'["voice"] = voice /\ current'["volume"] = current["volume"]
    BY <2>4 DEF FileInv, Names
  <2> QED  BY <1>0, <2>1, <2>4, <2>5 DEF DaemonInv
<1>8. CASE WriteGate
  <2>1. current' = [current EXCEPT !["gate"] = val]
    BY <1>8 DEF WriteGate, Store
  <2>2. /\ current'["voice"] = voice /\ current'["volume"] = current["volume"]
        /\ current'["gate"] # Empty
    BY <2>1, MarkersAreNoDigits DEF FileInv, Names
  <2> QED  BY <1>0, <1>8, <2>2 DEF WriteGate, DaemonInv
<1>9. CASE KbdRestart
  BY <1>0, <1>9 DEF KbdRestart, DaemonInv
<1>10. CASE UNCHANGED <<current, configured, pc, val, kbd_crashes>>
  BY <1>10 DEF DaemonInv
<1> QED
  BY <1>0, <1>1, <1>2, <1>3, <1>4, <1>5, <1>6, <1>7, <1>8, <1>9, <1>10
  DEF Next, Key, Handler, KeepVolume, KeyVolume, KeyMode, Press, SynthStart,
      SynthStartFails, Poll, SynthCrash, vars, kbdVars

LEMMA DaemonInvInit == Init => DaemonInv
<1> SUFFICES ASSUME Init PROVE DaemonInv
  OBVIOUS
<1>1. current["voice"] # Empty
  BY MarkersAreNoDigits DEF Init
<1>2. current["gate"] # Empty
  BY MarkersAreNoDigits, MarkersAssumption DEF Init, Names
<1>3. \A v \in Digits : configured[v] # Empty
  BY MarkersAreNoDigits, MarkersAssumption DEF Init
<1> QED  BY <1>1, <1>2, <1>3 DEF Init, DaemonInv

LEMMA DaemonInvariant == Spec => [](FileInv /\ DaemonInv)
  BY FileInvInit, DaemonInvInit, FileInvInductive, DaemonInvInductive, PTL
  DEF Spec

(* Every handler of kbd.py that runs to its end leaves current-volume and  *)
(* configured-volume-<voice> equal.                                        *)
THEOREM ConfigVolumeMatchesVoice == Spec => []VolumeMatchesVoice
<1>1. FileInv /\ DaemonInv => VolumeMatchesVoice
  BY VoiceKnown DEF DaemonInv, VolumeMatchesVoice
<1> QED  BY DaemonInvariant, <1>1, PTL

(* Unless something else kills it, kbd.py never dies on a file of its own. *)
THEOREM ConfigNoSelfInflictedDeath == Spec => []NoSelfInflictedDeath
<1>1. DaemonInv => NoSelfInflictedDeath
  BY DEF DaemonInv, NoSelfInflictedDeath
<1> QED  BY DaemonInvariant, <1>1, PTL

-----------------------------------------------------------------------------
(* Where a digit the poller holds came from.                               *)
OriginInv ==
  /\ \A f \in Names : current[f] \in saved[f] \union {Empty, Missing}
  /\ TornReadIsZero

LEMMA OriginInvInductive ==
  FileInv /\ SynthInv /\ OriginInv /\ [Next]_vars => OriginInv'
<1> SUFFICES ASSUME FileInv, SynthInv, OriginInv, [Next]_vars PROVE OriginInv'
  OBVIOUS
<1>1. ASSUME NEW f \in Names, Truncate(f), UNCHANGED <<saved, iff>>
      PROVE OriginInv'
  BY <1>1 DEF Truncate, OriginInv, TornReadIsZero, FileInv
<1>2. ASSUME NEW f \in Names, Store(f), UNCHANGED iff PROVE OriginInv'
  <2>1. \A g \in Names : saved[g] \subseteq saved'[g] /\ (g = f => val \in saved'[g])
    BY <1>2 DEF Store, FileInv
  <2>2. \A g \in Names : current'[g] = IF g = f THEN val ELSE current[g]
    BY <1>2 DEF Store, FileInv
  <2>3. \A g \in Names : current'[g] \in saved'[g] \union {Empty, Missing}
    BY <2>1, <2>2 DEF OriginInv
  <2>4. TornReadIsZero'
    BY <1>2, <2>1 DEF OriginInv, TornReadIsZero
  <2> QED  BY <2>3, <2>4 DEF OriginInv
<1>3. CASE SynthStart
  BY <1>3 DEF SynthStart, kbdVars, OriginInv, TornReadIsZero
<1>4. CASE Poll
  <2> DEFINE new == ReadNumber(current[poll])
  <2>1. new \in saved[poll] \union {0}
    BY <1>4 DEF Poll, SynthInv, OriginInv, ReadNumber
  <2>2. iff' = [iff EXCEPT ![poll] = new] /\ UNCHANGED <<current, saved>>
    BY <1>4 DEF Poll, kbdVars
  <2> HIDE DEF new
  <2>3. \A f \in Names : iff'[f] = IF f = poll THEN new ELSE iff[f]
    BY <2>2 DEF SynthInv
  <2> QED  BY <2>1, <2>2, <2>3 DEF OriginInv, TornReadIsZero
<1>5. CASE UNCHANGED <<current, saved, iff>>
  BY <1>5 DEF OriginInv, TornReadIsZero
<1>6. ASSUME NEW increment \in {-1, 0, 1}, StartSaveVolume(increment)
      PROVE UNCHANGED <<current, saved>>
  BY <1>6 DEF StartSaveVolume, Die
<1> QED
  BY <1>1, <1>2, <1>3, <1>4, <1>5, <1>6
  DEF Next, Key, Handler, KeyVoice, WriteVoice, KeepVolume, KeyVolume,
      WriteConfigured, OpenVolume, WriteVolume, KeyGate, WriteGate, KeyMode,
      Die, KbdCrash, KbdRestart, SynthStartFails, SynthCrash, vars, kbdVars,
      synthVars, Names

(* A read that falls into a rewrite is a 0; any other value was saved.     *)
THEOREM ConfigTornReadIsZero == Spec => []TornReadIsZero
<1>1. Init => OriginInv
  BY DEF Init, OriginInv, TornReadIsZero
<1>2. OriginInv => TornReadIsZero
  BY DEF OriginInv
<1> QED  BY <1>1, <1>2, TypeInvariant, OriginInvInductive, PTL DEF Spec

(* After a crash has left configured-volume-<v> empty, no key press ever   *)
(* fills it again.                                                         *)
THEOREM ConfigLostVolumeStaysLost == Spec => LostVolumeStaysLost
<1> DEFINE A == \A v \in Digits : Lost(v) => Lost(v)'
<1>1. FileInv /\ [Next]_vars => [A]_vars
  <2> SUFFICES ASSUME FileInv, [Next]_vars, NEW v \in Digits, Lost(v)
               PROVE  Lost(v)'
    OBVIOUS
  <2>1. ASSUME NEW increment \in {-1, 0, 1}, StartSaveVolume(increment),
               pc \in {"idle", "voice_done"}
        PROVE Lost(v)'
    <3>1. CASE Die
      BY <2>1, <3>1 DEF Die, Lost
    <3>2. CASE Readable(OrDefault(configured[current["voice"]])) /\ ~Die
      <4>1. current["voice"] # v
        BY <3>2, MarkersAssumption DEF Lost, Readable, OrDefault
      <4> QED
        BY <2>1, <3>2, <4>1 DEF StartSaveVolume, Lost, FileInv
    <3> QED  BY <2>1, <3>1, <3>2 DEF StartSaveVolume
  <2>2. CASE WriteConfigured
    BY <2>2 DEF WriteConfigured, Lost, FileInv
  <2>3. CASE UNCHANGED configured /\ pc' # "configured_open"
    BY <2>3 DEF Lost
  <2>4. CASE UNCHANGED <<configured, pc, current>>
    BY <2>4 DEF Lost
  <2> QED
    BY <2>1, <2>2, <2>3, <2>4
    DEF Next, Key, Handler, KeyVoice, WriteVoice, KeepVolume, KeyVolume, Press,
        OpenVolume, WriteVolume, KeyGate, WriteGate, KeyMode, Die, KbdCrash,
        KbdRestart, SynthStart, SynthStartFails, Poll, SynthCrash, vars, kbdVars
<1> QED
  BY <1>1, FileInvInit, FileInvInductive, PTL DEF Spec, LostVolumeStaysLost

=============================================================================
