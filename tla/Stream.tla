------------------------------- MODULE Stream -------------------------------
(* The audio thread of zeros.c around its samples: start_audio chooses a   *)
(* sound card, opens a stream on it, and reads, processes and writes       *)
(* blocks until PortAudio reports an error it does not ignore.  systemd    *)
(* then starts the program again (README.md: Restart=always).              *)
(*                                                                         *)
(* An operator whose name ends in _Fault is the definition after it with a *)
(* plausible mistake in it; only the mutation runs use it.                 *)
EXTENDS Integers, Sequences, FiniteSets

CONSTANTS
  DeviceLists,  (* what Pa_GetDeviceCount and Pa_GetDeviceInfo may show: a *)
                (* sequence of whether a name starts with "Scarlett"       *)
  Indices,      (* what the file device-index may hold                     *)
  Codes         (* the errors that PortAudio's calls may fail with         *)

(* PortAudio: error codes are negative, flags are single bits.             *)
paNoError == 0

paInputOverflowed == -9981

paOutputUnderflowed == -9980

paInputOverflow == 2

paOutputUnderflow == 4

paNoDevice == -1

ASSUME StreamAssumption ==
  /\ DeviceLists \subseteq Seq(BOOLEAN)
  /\ Indices \subseteq Int
  /\ Codes \subseteq Int \ {paNoError}

VARIABLES
  pc,            (* where start_audio is                                   *)
  devices,       (* the devices PortAudio lists                            *)
  device_index,
  i,             (* the device it looks at next                            *)
  seen_good_devices,
  best_audio_device_index,
  err,
  fault,         (* the error every call on the stream returns from now on *)
  initialized,   (* between Pa_Initialize and Pa_Terminate                 *)
  stream,        (* NULL, or what Pa_OpenStream made                       *)
  blocks         (* of sampleBlockIn and sampleBlockOut, the allocated ones*)

selection ==
  <<devices, device_index, i, seen_good_devices, best_audio_device_index>>
resources == <<initialized, stream, blocks>>
vars == <<pc, selection, err, fault, resources>>

(* A device's name as the code numbers it, from 0.                         *)
Good(n) == devices[n + 1]

-----------------------------------------------------------------------------
(* Choosing a device.                                                      *)

(* main, as systemd starts it, up to Pa_Initialize.                        *)
Start ==
  /\ pc \in {"exited", "returned"}
  /\ devices' \in DeviceLists
  /\ device_index' \in Indices
  /\ i' = 0 /\ seen_good_devices' = 0 /\ best_audio_device_index' = paNoDevice
  /\ fault' = paNoError
  /\ stream' = "NULL" /\ blocks' = {}
  /\ \/ err' = paNoError /\ initialized' = TRUE /\ pc' = "choose"
     \/ err' \in Codes /\ initialized' = FALSE /\ pc' = "error2"

(* die, or an exit of the poller's thread.  Nothing is released.           *)
Exit == pc' = "exited" /\ UNCHANGED <<selection, err, fault, resources>>

NoDevices == pc = "choose" /\ Exit

Searching == i < Len(devices) /\ best_audio_device_index = paNoDevice

Seen_Fault == seen_good_devices + 1

Seen == IF Good(i) THEN seen_good_devices + 1 ELSE seen_good_devices

Candidate == i

(* One device of the list: "Take the Nth device whose name starts with     *)
(* USB_SOUND_CARD_PREFIX".                                                 *)
Look ==
  /\ pc = "choose" /\ Searching
  /\ i' = i + 1
  /\ \/ /\ Good(i) /\ seen_good_devices = device_index
        /\ best_audio_device_index' = Candidate
        /\ UNCHANGED seen_good_devices
     \/ /\ ~(Good(i) /\ seen_good_devices = device_index)
        /\ seen_good_devices' = Seen
        /\ UNCHANGED best_audio_device_index
  /\ UNCHANGED <<pc, devices, device_index, err, fault, resources>>

Found ==
  /\ pc = "choose" /\ best_audio_device_index # paNoDevice
  /\ pc' = "open"
  /\ UNCHANGED <<selection, err, fault, resources>>

Exhausted == pc = "choose" /\ ~Searching /\ best_audio_device_index = paNoDevice

(* "falling back to default"                                               *)
FallBack ==
  /\ Exhausted /\ device_index = 0
  /\ best_audio_device_index' \in paNoDevice .. Len(devices) - 1
  /\ pc' = "open"
  /\ UNCHANGED <<devices, device_index, i, seen_good_devices, err, fault,
                 resources>>

NoGoodDevice == Exhausted /\ device_index # 0 /\ Exit

-----------------------------------------------------------------------------
(* Opening the stream.                                                     *)

(* Pa_GetDeviceInfo is NULL for a default device that does not exist.      *)
NoDefaultDevice ==
  pc = "open" /\ best_audio_device_index = paNoDevice /\ Exit

Open ==
  /\ pc = "open" /\ best_audio_device_index # paNoDevice
  /\ \/ err' = paNoError /\ stream' = "open" /\ pc' = "allocate"
     \/ err' \in Codes /\ UNCHANGED stream /\ pc' = "error2"
  /\ UNCHANGED <<selection, fault, initialized, blocks>>

Both == {"in", "out"}

Allocated(some) == some = Both

(* Either malloc may fail; err is still paNoError then.                    *)
Allocate ==
  /\ pc = "allocate"
  /\ blocks' \in SUBSET Both
  /\ pc' = IF Allocated(blocks') THEN "start" ELSE "error1"
  /\ UNCHANGED <<selection, err, fault, initialized, stream>>

StartStream ==
  /\ pc = "start"
  /\ \/ err' = paNoError /\ stream' = "started" /\ pc' = "read"
     \/ err' \in Codes /\ UNCHANGED stream /\ pc' = "error1"
  /\ UNCHANGED <<selection, fault, initialized, blocks>>

-----------------------------------------------------------------------------
(* The loop.                                                               *)

Ignored_Fault(error, flag) == error # paNoError

(* error & flag, of the two's complement of a negative error.              *)
Ignored(error, flag) == (error \div flag) % 2 = 1

Continues(error, flag) == error = paNoError \/ Ignored(error, flag)

(* What a call on the stream returns.                                      *)
Results(xrun) == IF fault = paNoError THEN {paNoError, xrun} ELSE {fault}

Read ==
  /\ pc = "read"
  /\ err' \in Results(paInputOverflowed)
  /\ pc' = IF Continues(err', paInputOverflow) THEN "process" ELSE "xrun"
  /\ UNCHANGED <<selection, fault, resources>>

(* The block's samples go through update, delay_update and the output      *)
(* stage, then to Pa_WriteStream.                                          *)
Write ==
  /\ pc = "process"
  /\ err' \in Results(paOutputUnderflowed)
  /\ pc' = IF Continues(err', paOutputUnderflow) THEN "read" ELSE "xrun"
  /\ UNCHANGED <<selection, fault, resources>>

(* The sound card is unplugged, or its driver gives up on the stream.      *)
Break(code) ==
  /\ stream = "started" /\ fault = paNoError
  /\ fault' = code
  /\ UNCHANGED <<pc, selection, err, resources>>

(* The poller's thread exits, or the program is killed.                    *)
Kill == pc \notin {"exited", "returned"} /\ Exit

-----------------------------------------------------------------------------
(* Cleaning up.                                                            *)

Close == stream' = "NULL" /\ initialized' = FALSE

Xrun ==
  /\ pc = "xrun"
  /\ Close
  /\ blocks' = {}
  /\ pc' = "returned"
  /\ UNCHANGED <<selection, err, fault>>

AfterError1_Fault == "returned"

(* The label error1 falls through to error2.                               *)
AfterError1 == "error2"

Error1 ==
  /\ pc = "error1"
  /\ blocks' = {}
  /\ pc' = AfterError1
  /\ UNCHANGED <<selection, err, fault, initialized, stream>>

Error2 ==
  /\ pc = "error2"
  /\ Close
  /\ pc' = "returned"
  /\ UNCHANGED <<selection, err, fault, blocks>>

-----------------------------------------------------------------------------
Init ==
  /\ pc = "exited"
  /\ devices \in DeviceLists /\ device_index \in Indices
  /\ i = 0 /\ seen_good_devices = 0 /\ best_audio_device_index = paNoDevice
  /\ err = paNoError /\ fault = paNoError
  /\ initialized = FALSE /\ stream = "NULL" /\ blocks = {}

Program ==
  \/ Start \/ Look \/ Found \/ FallBack \/ NoGoodDevice \/ NoDefaultDevice
  \/ Open \/ Allocate \/ StartStream \/ Read \/ Write
  \/ Xrun \/ Error1 \/ Error2

Next == Program \/ NoDevices \/ Kill \/ \E code \in Codes : Break(code)

Spec == Init /\ [][Next]_vars

(* The program runs, its calls return, and systemd restarts it.            *)
FairSpec == Spec /\ WF_vars(Program)

-----------------------------------------------------------------------------
(* Properties.                                                             *)

Places == {"exited", "returned", "choose", "open", "allocate", "start", "read",
           "process", "xrun", "error1", "error2"}

TypeOK ==
  /\ pc \in Places
  /\ devices \in DeviceLists /\ device_index \in Indices
  /\ i \in 0 .. Len(devices) /\ seen_good_devices \in 0 .. i
  /\ best_audio_device_index \in paNoDevice .. Len(devices) - 1
  /\ err \in Codes \union {paNoError, paInputOverflowed, paOutputUnderflowed}
  /\ fault \in Codes \union {paNoError}
  /\ initialized \in BOOLEAN /\ stream \in {"NULL", "open", "started"}
  /\ blocks \subseteq Both

GoodBefore(n) == Cardinality({m \in 0 .. n - 1 : Good(m)})

(* "Take the Nth device": a stream is only opened on the good device that  *)
(* has device_index good ones before it or, if N is 0 and there is none,   *)
(* on the default.                                                         *)
NthDevice ==
  pc = "open" /\ best_audio_device_index # paNoDevice =>
    \/ device_index = 0 /\ \A n \in 0 .. Len(devices) - 1 : ~Good(n)
    \/ /\ Good(best_audio_device_index)
       /\ GoodBefore(best_audio_device_index) = device_index

(* However start_audio returns -- from a failed call half-way through its  *)
(* set-up, a failed allocation, or the loop -- it leaves nothing open.     *)
Released ==
  pc = "returned" => ~initialized /\ stream = "NULL" /\ blocks = {}

(* Blocks are only read from and written to a started stream with both     *)
(* buffers.                                                                *)
LoopReady ==
  pc \in {"read", "process"} =>
    initialized /\ stream = "started" /\ blocks = Both

(* "ignoring input undeflow" (zeros.c:975): a block is only processed if   *)
(* it was read, with or without an overflow before it.                     *)
OnlyXrunsIgnored == pc = "process" => err \in {paNoError, paInputOverflowed}

(* When the stream fails for good the program ends, so that systemd can    *)
(* start it anew -- unless the error has both bits that the loop takes for *)
(* an overflow of the input and an underflow of the output.                *)
Recovers ==
  \A code \in Codes :
    code % 8 \notin {6, 7} => (fault = code ~> fault = paNoError)

=============================================================================
