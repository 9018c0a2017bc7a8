-------------------------------- MODULE Web --------------------------------
(***************************************************************************)
(* The synthesizer in a web page: html/index.html starts it in steps that  *)
(* wait for the user's permission and for the worklet's code, while the    *)
(* sliders and the mute button are live; page and worklet (combined.js)    *)
(* talk by messages, each in order; and the worklet's envelope, which      *)
(* ramps every note up from silence.                                       *)
(*                                                                         *)
(* A configuration is a model value.  Levels are integers: the input's     *)
(* root mean square, and the amplitude that follows it.                    *)
(***************************************************************************)
EXTENDS Integers, Sequences

CONSTANTS
  Configs,     \* the positions of the sliders,
  Default,     \* and those that the reset button gives them
  MaxLevel,    \* the loudest input
  Ramp,        \* ONSET_RAMP_SAMPLES
  MaxMessages  \* bound: messages under way in one direction

None == "none"

VARIABLES
  page,       \* how far start has come: "idle", "mic", "module", "ready", "failed"
  sliders,
  running, connected,  \* what the mute button shows, and playerNode's connection
  toNode, toPage,      \* messages under way
  worklet,    \* was the processor constructed?
  config,     \* its configuration, None before it has one
  gated, smoothed_amp, onset_ramp,   \* its synth's envelope,
  pitch,      \* and whether it ever found a period in range
  level       \* smoothed_amp * onset_scale of the sample that was put out

envelope == <<gated, smoothed_amp, onset_ramp, pitch, level>>
processor == <<worklet, config>>
vars == <<page, sliders, running, connected, toNode, toPage, processor, envelope>>

Init ==
  /\ page = "idle" /\ sliders \in Configs
  /\ running = FALSE /\ connected = FALSE /\ toNode = <<>> /\ toPage = <<>>
  /\ worklet = FALSE /\ config = None
  /\ gated = TRUE /\ smoothed_amp = 0 /\ onset_ramp = 0 /\ pitch = FALSE /\ level = 0

playerNode == page = "ready"

----------------------------------------------------------------------------
(* the page *)

ClickStart ==
  /\ page = "idle" /\ page' = "mic" /\ running' = TRUE
  /\ UNCHANGED <<sliders, connected, toNode, toPage, processor, envelope>>
\* getUserMedia and addModule, each of which may be refused
MicGranted ==
  /\ page = "mic" /\ page' = "module"
  /\ UNCHANGED <<sliders, running, connected, toNode, toPage, processor, envelope>>
\* The node is made and connected, and listens, before anything else happens.
ModuleAdded ==
  /\ page = "module" /\ page' = "ready" /\ connected' = TRUE
  /\ UNCHANGED <<sliders, running, toNode, toPage, processor, envelope>>
Refused ==
  /\ page \in {"mic", "module"} /\ page' = "failed"
  /\ UNCHANGED <<sliders, running, connected, toNode, toPage, processor, envelope>>

\* The button is there from the first click on start.  While playerNode is
\* not, its handler throws before it changes anything.
ClickMute ==
  /\ playerNode
  /\ running' = ~running /\ connected' = ~running
  /\ UNCHANGED <<page, sliders, toNode, toPage, processor, envelope>>

\* configChange, with the sliders at c
ConfigChange(c) ==
  toNode' = IF playerNode THEN Append(toNode, c) ELSE toNode

\* Sliders are live as soon as they are shown.
Slide(c) ==
  /\ page # "idle" /\ Len(toNode) < MaxMessages /\ c # sliders
  /\ sliders' = c /\ ConfigChange(c)
  /\ UNCHANGED <<page, running, connected, toPage, processor, envelope>>
SetDefaults == Slide(Default)

\* Mutant: the page sends nothing when the worklet is ready.
PageReceives_Fault ==
  /\ toPage # <<>> /\ toPage' = Tail(toPage)
  /\ UNCHANGED <<page, sliders, running, connected, toNode, processor, envelope>>
\* "ready" makes the page send what the sliders say.
PageReceives ==
  /\ toPage # <<>> /\ toPage' = Tail(toPage) /\ ConfigChange(sliders)
  /\ UNCHANGED <<page, sliders, running, connected, processor, envelope>>

----------------------------------------------------------------------------
(* the worklet, in the audio thread *)

Construct ==
  /\ playerNode /\ ~worklet /\ worklet' = TRUE /\ toPage' = Append(toPage, "ready")
  /\ UNCHANGED <<page, sliders, running, connected, toNode, config, envelope>>
\* The first configuration makes the synth, the others leave its state alone.
NodeReceives ==
  /\ worklet /\ toNode # <<>>
  /\ config' = Head(toNode) /\ toNode' = Tail(toNode)
  /\ UNCHANGED <<page, sliders, running, connected, toPage, worklet, envelope>>

\* Half the way to the target, and at least a step
Toward(amp, target) ==
  IF target > amp THEN amp + (target - amp + 1) \div 2 ELSE amp - (amp - target + 1) \div 2

\* Mutant: the ramp of the last note is not started again.
Onset_Fault == onset_ramp
\* The ramp at the first sample of a note
Onset == 0

\* One sample of process and update: the gate may be open although the input
\* is weak, while its energy is in the longer history; a period is found or not.
\* An amplitude is snapped to the input's when the gate opens.
Update(rms, open, found) ==
  LET opens == gated /\ open
      ramp == IF opens THEN Onset ELSE onset_ramp
      amp == IF opens THEN rms ELSE Toward(smoothed_amp, IF open THEN rms ELSE 0)
  IN  /\ config # None /\ (rms = MaxLevel => open)
      /\ gated' = ~open /\ smoothed_amp' = amp
      /\ onset_ramp' = IF ramp < Ramp THEN ramp + 1 ELSE ramp
      /\ pitch' = (pitch \/ found)
      /\ level' = IF pitch' THEN amp * ramp ELSE 0
      /\ UNCHANGED <<page, sliders, running, connected, toNode, toPage, processor>>

Next ==
  \/ ClickStart \/ MicGranted \/ ModuleAdded \/ Refused \/ ClickMute
  \/ SetDefaults \/ PageReceives \/ Construct \/ NodeReceives
  \/ \E c \in Configs : Slide(c)
  \/ \E rms \in 0 .. MaxLevel, open, found \in BOOLEAN : Update(rms, open, found)
Spec == Init /\ [][Next]_vars
----------------------------------------------------------------------------
\* When no message is under way the synth plays what the sliders show, however
\* they were moved while the worklet was being loaded.
ConfigsAgree == worklet /\ toNode = <<>> /\ toPage = <<>> => config = sliders

\* Once there is a node, the mute button tells whether it is heard, whatever was
\* clicked before.
MuteTells == playerNode => (running <=> connected)

\* Once a period was found, the sound never swells by more than one step of the
\* ramp and one of the amplitude at a time: a note that begins does not click.
Swell == MaxLevel + Ramp * ((MaxLevel + 1) \div 2)
GentleOnset == [][pitch => level' - level <= Swell]_vars
=============================================================================
