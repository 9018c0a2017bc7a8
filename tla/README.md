# Verification of whistle-synth

TLA+ models of the whistle synthesizer of this repository, model-checked with
TLC, and theorems about them that TLAPS proves for every value of their
constants. References such as `zeros.c:164` are to the files of the repository
at this commit.

Contents: [the system](#1-the-system), [modules](#2-modules-and-the-code),
[runs](#3-runs), [bounds](#4-bounds), [fairness and memory
order](#5-fairness-and-memory-order), [proofs](#6-what-is-proved),
[model-checked only](#7-what-is-model-checked-only),
[disagreements](#8-disagreements-found), [left out](#9-what-is-not-modelled),
[plan](#10-plan), [running it](#11-running-it).

## 1. The system

A musician whistles into a sound card; `zeros.c` detects the pitch and plays it
some octaves lower with one of ten voices. A keypad next to the musician sets
voice, volume and noise gate through `kbd.py`. Both run headless under systemd
with `Restart=always` (`README.md:27`, `:44`).

```
 keypad --evdev--> kbd.py --MIDI--> (other programs)
                     |
      current-voice, current-volume, current-gate, configured-volume-N
                     |
   zeros.c  poller thread ---- update_iff, init_octaver, init_gains, init_gate
                     |   (globals, no lock)
            audio thread ---- read block, update / delay_update, write block
                     |
             sound card (PortAudio)
```

| Component | State | Operations | Talks to |
|---|---|---|---|
| Keypad daemon, `kbd.py` | the settings files; `plus_minus_mode`; `digits_read`, `digit_note_to_send` | `handle_key`: voice, volume, gate, mode, digits, notes | the files; a virtual MIDI port |
| Settings poller, `zeros.c:787-857` | `voice_iff`, `volume_iff`, `gate_iff`, `gate_squared` | `open_iff_or_die`, `update_iff` every 50 ms | reads the files; writes the audio thread's globals |
| Sample history and gate, `zeros.c:131-198, 640-656, 727-738` | `hist`, `hist_pos`, `hist_sq`, `recent_hist_sq`, `ticks` | `set_hist`, `get_hist`, two recomputes, `init_octaver` | written by both threads |
| Pitch detection, `zeros.c:658-720` | `positive`, `previous_sample`, `samples_since_last_crossing`, `rough_input_period`, `cycles` | `update` | starts oscillators; reset by the poller |
| Oscillators, `zeros.c:221-636` | `oscs[18]`, `gain`, `ungain` | `osc_init`, `init_oscs`, `osc_next`, `handle_cycle` | read the history by age |
| Echo, `zeros.c:746-783` | `delay_history` (fifteen minutes), `delay_write_pos` | `delay_update` | second channel of the card |
| Output stage, `zeros.c:978-1003` | `output` (one-pole low-pass) | `saturate`, `clip` | reads `voice_iff`, `volume_iff`, `ungain` |
| Stream, `zeros.c:859-1038` | PortAudio's state, two buffers | choose a card, open, loop, clean up | PortAudio, systemd |
| Note duration, `zeros.c:101-128` | ring of block means | `update_duration` | nothing reads its result in `zeros.c` |
| Teensy port, `zeros.ino` | a second copy of the octaver | the same, per interrupt | audio library, buttons |
| Web synthesizer, `html/` | page, worklet | asynchronous start, configuration messages | browser |
| Others | `zeros.py` (prototype), `txt_to_wav.py`, `Makefile` | | |

The repository also keeps a copy of **liblo** 0.30, a C library that sends and
receives Open Sound Control messages. No file outside of `src/liblo-0.30` includes
it; it is more than half of the code, and has a server thread, a scheduler and
stream sockets of its own:

```
 program --lo_message_add, lo_bundle_add--> packet --send.c, address.c--> network
                                                                             |
 handlers <--lo_methods-- dispatch <--queue-- lo_server_recv <--framing-- sockets
                                                  |
                                           server thread (start, stop, free)
```

| Component of liblo | State | Operations |
|---|---|---|
| Messages, `message.c`, `blob.c` | types, data, argument pointers, reference count | add, validate, serialise, deserialise, clone, free |
| Bundles, `bundle.c` | elements, reference counts | add, search for circles, serialise, free |
| Pattern matching, `pattern_match.c` | none | `lo_pattern_match` |
| Framing and sockets, `server.c:922-1347, 1694-1773`, `send.c:401-481` | `sockets`, `contexts` with a buffer each | accept, receive a piece, close, remove |
| Queue, `server.c:1583-1692, 1786-2140` | `queued`, the time | insert, wait, dispatch; a handler may insert, too |
| Methods, `server.c:1866-2110` | a linked list | add, delete (also from handlers), dispatch, coerce, reply |
| Server thread, `server_thread.c` | `active`, `done`, the thread | start, stop, free; handlers call them, too |
| Creation, `server.c:424-859` | descriptors, `lo_client_sockets` | try ports, bind, fail, free |
| Addresses, `send.c`, `address.c` | a socket, addresses left to try | resolve, connect, send, retry, close |
| `oscsendfile` | the values of a line, the pending bundle | read a line, join, wait, send |

**What is hard to get right here.**
*Concurrency*: two processes share files that are rewritten by truncating them;
two threads share every field of the octaver without a lock.
*Failure*: either process may be killed between any two file operations and is
started again; PortAudio calls fail half-way through the set-up; a card is
unplugged.
*Long runs*: running sums collect a rounding error per sample for hours; a
`float` counts positions in a fifteen-minute buffer.
*Protocols without checks*: `osc_next` and `get_hist` never check a position;
`volumes[]` is indexed with what a file says; a layer of oscillators is reused
by counting crossings; a page starts in steps that wait while its buttons live;
an interrupt runs before `setup` is done. *liblo*: a stream cut anywhere, handlers
that change the list or the queue they are called from, a thread that stops
itself, descriptors shared by an address and a server. `PROJECT.json` lists each of these hazards at its line
with the properties that would catch it.

**What makes each component correct.**
Settings: the synthesizer ends up playing what the files say, indices stay in
the table, a voice keeps its own volume, a crash is not fatal for ever.
History: the buffer is the window of the newest samples and the sums are near
its energy, so that the gate opens on an onset and closes in silence.
Oscillators: they read inside the history, end in turn, are not cut off, and
end at all. Echo: it is as late as it should be and reads inside the buffer.
Threads: a reset in the middle of a sample does bounded damage that heals.
Stream: the right card, nothing leaked, and an end when the card is gone.
Keypad: what is typed is what is sent. Web: page and node agree, and no note clicks.
Teensy: the early interrupts leave no trace. liblo: what is read is what was
written; counts are those of the references; messages come whole, in order, on time and
once; one thread serves; descriptors are accounted for.

## 2. Modules and the code

Definitions carry the source's names. `PROJECT.json`, "map", gives the lines of
each. An operator whose name ends in `_Fault` is a plausible mistake in the
definition it precedes; the mutation runs put it in that definition's place and
expect the named property to fail.

**`Config`** -- daemon and poller, through the files. One action is one file
operation: opening for writing truncates (`current[f] = Empty`), the digit
arrives with the close. A handler is a chain of actions linked by `pc`, so polls,
kills and restarts fall between any two. `StartSaveVolume` is `save_volume` up
to the first truncation, with the two uncaught exceptions of `read_number` as
`Die`. `Poll` is one `update_iff` (the 50 ms sleep is a stutter); `ReadNumber`
is `atoi`, which makes 0 of an empty file. `SynthStartFails` is
`open_iff_or_die`. `saved` is a history variable.

**`Totals`, `SlidingWindow`, `History`** -- `set_hist`, the recomputes and the
gate, one action per sample that goes through the octaver. Each update of a sum
may round by any amount in `Rounding`; the sum of zeros is exact. `ticks` counts
modulo the ten seconds, as the code tests it. `SlidingWindow` is the abstract
specification: the last `HISTORY_LENGTH` samples by age. `ImplementsWindow` is
`Window!Spec` under the mapping `window[age] = get_hist(age)`, the one the
readers use. (`get_hist(0)` is the oldest sample, for `hist_pos` is where the next
will go.)

**`Oscs`** -- crossings, layers and oscillators. `Crossing(position)` is the
whole branch of `update` at a downward crossing: the range test, `init_oscs` on the layer
of `cycles % DURATION`, `cycles++`, `handle_cycle` and then `osc_next` of every
oscillator; `NoCrossing` is any other sample. A voice's block in `init_oscs` is
data (`Recipe`: the speed in each slot). The amplitude in release is counted in
samples until it is below 0.001; positions are in 1/`Unit` of a sample.
`Reset` is what any changed setting does, and what it does not: the oscillators
stay.

**`DelayTaps`, `DelayLine`** -- `delay_update`. `DelayTaps` computes where it
reads, with `float`'s rounding to nearest even (`Float`); `DelayLine` adds the
buffer, whose elements are their own age, since the echo promises nothing else.

**`HistoryRace`** -- the history again, one action per load or store of a shared
field. `hist_sq += s*s` is `Take` and `Add`; `hist[hist_pos]*hist[hist_pos]`
loads both indices and both elements separately. The poller's `init_octaver` is
a set of `pending` fields, cleared in any order.

**`CrossingRace`** -- pitch detection, again by loads and stores, with the
poller's stores in program order. What a crossing between two negative samples
is interpolated to is any value of `Wild`, infinity included. `TestVoice` is the
chain of `if (voice_iff.value == ...)` in `init_oscs`, each of which loads the
voice again.

**`Stream`** -- `start_audio` from `Pa_Initialize` to each `return`: the search
for the sound card one device per action, every call that may fail, the labels
`xrun`, `error1` and `error2`, and systemd's restart. Error codes are
PortAudio's numbers and `Ignored` is the bit test the code makes
on their two's complement.

**`Keypad`** -- `handle_key` for the keys that end in MIDI messages, one action
per kind of key; `typed` keeps the last four keys.

**`Web`** -- the page's `start` is `ClickStart`, `MicGranted`, `ModuleAdded`: its
`await`s are the borders between the actions, and `ClickMute`, `Slide` and messages fall
between them. `toNode` and `toPage` are the two directions of the worklet's port.
`Update` is the worklet's gate, envelope and onset ramp for one sample.

**`Teensy`** -- one action for each statement of `setup` that `update` can tell
from its neighbours; `Update` is a whole block, since the interrupt is
not interrupted by `setup`.

**`LoPattern`** -- `lo_pattern_match` branch by branch: `Steps` has the calls that go on behind
the first character of the pattern, each a pair of a string and a pattern, and `Match` asks whether one of them
returns true. The loops over a set and over a list in braces, and `Match`, are recursive functions of what is left.
A pattern is put together of pieces, each of which comes with the set of strings it stands for (`Denotes`).

**`LoMessage`**, **`LoBundle`** -- memory as a sequence of bytes, allocation by its
size; bundles as a heap of counted objects. A packet may be changed in one byte
or cut off before it is read. The loops over a message's arguments -- writing, swapping,
validating, pointing at them -- are recursive functions of the argument's number: `Ends` and
`ValidEnds` say where each argument ends, `Origin` where each byte of swapped data comes from.

**`LoFraming`**, **`LoSockets`** -- `LoFraming` has the functions on a context,
`LoSockets` the sockets, the peers and the loop of `lo_server_recv_raw_stream`,
which receives any part of what is on the wire. The loops over bytes and the `goto again` are
recursive functions of the number of turns: `Recv` is one `recv`, `Received` all of them.
Three things that the code does to SLIP are in the model as they are. The up to three bytes that a connection sent before the
four that tell SLIP are stored where the count of the first message goes and never decoded: the message begins with so many
zeros (`lost`, `Blanked`). The byte behind an ESC that is neither of the two it may be is decoded again, and the bytes read are one
more than those consumed (`late`). And the memory: `OffStack` says that a `recv` may put more on the stack than the
buffer there has (1114-1120), `OffBuffer` that the decoder writes headers past the end of its buffer, or that the buffer was
doubled by `realloc` while `buffer_after` points into the old block (1169, 1198-1202). What the program then does is
undefined; `Damage` puts the connection into `wild`, and the server takes no further step.

**`LoQueue`** -- a packet is walked element by element, as `dispatch_data` does. A
handler may hand one more bundle to `lo_server_dispatch_data` (`HandlerQueues`). `Shown` and `HandTo` are what
`oscdump` makes of the handlers' calls.

**`LoMethods`** -- deletion walks the list one node per action; between two
handlers' calls any method may come or go, the next one and the handler's own too. Behind a handler that deleted its own,
`dispatch_method` takes the next node out of freed memory (`server.c:1935`, 1923): `it` is then `Astray`, and the walk has no
further step. What is freed while its handler runs is `live` no more.

**`LoServerThread`** -- program and threads; a handler that stops its own thread makes
an orphan of it, for `pthread_join` fails. When no thread could be created, `stop` joins a handle that was never set
(`server_thread.c:164`, 202): the join may fail or the program not get back (`Waits`).

**`LoServerNew`**, **`LoClient`** -- descriptors: which of them creation opens,
forgets and closes; which an address shares with a server that closes it
behind its back. The system gives out the lowest free descriptor, and a server goes on listing
one that was closed elsewhere: `inherited` is the set of connections that got such a descriptor.

**`LoWait`** -- `lo_servers_wait` over the flat array of all sockets, and the receives
after it. Only `poll` takes time.

**`OscSendFile`** -- one action per line, one per wait. A digit of `tt_start_file` that no line has set, and a
value that the array holds from an earlier line, can be anything. The types of a line that has a path alone are those that an earlier
line left (`TypesFor`; `oscsendfile.c:334-336`), as the buffer they are in stands now. Where the code uses a place that was never set, or writes
past `args[64]` (340), the program may go on or be in `pc = "undefined"`, of which no more is said. `usleep` counts in
microseconds, so a bundle may leave less than one of these early.

`MC*` modules give constants for TLC, `*Proofs` modules hold the theorems.
**`HistoryParts`**, **`Parts`** and **`LoServerParts`** put models that share no state side by side,
each an instance with parameters of its own, with what is assumed of those and
the properties (`HistoryParts` holds the sums, their race and that of the crossings, all three checked by `MCHistory`); **`LoCodec`** does the
same for the messages, the patterns they are sent to and the streams they come in; an `MC*` and a `*Proofs` module extend each of them, so that TLC checks and TLAPS
proves the same formula.
`MCHistory`, `MCParts`, `MCLoServer` and `MCLoParts` put models that share no
state side by side: the first state chooses one (`part`) and only that one
moves.
The states are the sum of the parts' and not the product, each property sees the
part it is about, and one run answers for all of them. The other parts stay in
their initial states, in which the property is checked as well.

## 3. Runs

| Run | Checks | Shows |
|---|---|---|
| `config` | `IndexInBounds`, `VolumeMatchesVoice`, `NoSelfInflictedDeath`, `GateApplied`, `Converges` | Whatever is killed and whenever the poller reads: no index leaves `volumes[]`; until the daemon is killed once, a voice keeps its own volume and the daemon does not trip over its own files; after the last key and crash the synthesizer plays what the files say. |
| `history` | `DriftBounded`, `RecentBounded`, `OnsetOpensGate`, `ImplementsWindow`; `RaceSound`; `CleanStart`, `GainsFit`; `SilenceCloses` | `History`: sums near their energies under every pattern of samples, roundings and resets; the gate opens; the buffer is the window. `HistoryRace`: no index leaves the buffer; `hist_sq` is exact unless a reset overlapped a sample, off by a bounded amount if one did. `CrossingRace`: one undisturbed sample after a reset oscillators start between the last two samples; gains fit the voice unless it changed in the middle of a sample. The first two: silence closes the gate. |
| `oscs` | `ReadsInHistory`, `Staggered`, `StealsOnlyReleased`, `NoteEnds` | Reads stay inside, layers end in turn, none is cut off unless a reset was less than two crossings ago, no note hangs. |
| `parts` | `EchoDelayed` (`DelayLine`) | Two laps: every tap is as old as its repeat, within `float`'s error. |
| | `NthDevice`, `Released`, `Recovers` (`Stream`) | The Nth card, nothing left open, and an exit once the stream fails for good. |
| | `NumbersAsTyped` (`Keypad`) | A number that is sent has the digits typed after the key that asked for it. |
| | `PageAndNodeAgree`, `GentleOnset` (`Web`) | When no message is on its way the worklet plays with the sliders' settings and the mute button says what it will do; the level rises by no more than the ramp allows. |
| | `SetupHeals` (`Teensy`) | After `setup` and a recompute the sum is that of the buffer; no layer is restarted too early. |
| `lo_server` | `InOrder`, `NothingLost`, `Handover`, `Served` (`LoQueue`) | Order of time and of arrival; none lost or twice as long as no handler queues any, none early or printed with another bundle's time (`NeverEarly`, `DumpShows`), all in the end. |
| | `Framed` (`LoSockets`) | However TCP cuts a stream, messages come out in order and whole, but for up to three zeros at the beginning of a SLIP stream, and a connection is only dropped with cause; a stream with counts never makes the server leave its memory. All this as long as sockets are removed from the end and no SLIP stream has damaged the memory. |
| | `OneThread`, `Served` (`LoServerThread`) | No thread serves once stop has returned; stop and free return. |
| | `MessageFits`, `RoundTrips` (`LoMessage`) | Types stay inside what is allocated, and pointers are those to the arguments; a packet that is accepted reads back as written, and a damaged one as something well-formed. |
| | `GlobMatches` (`LoPattern`) | Every pattern of three pieces without braces matches what its pieces stand for, and nothing else. |
| `lo_parts` | `MethodsExact` (`LoMethods`) | The list is what was registered; every method that stays and fits is called in turn; the walk reads what was freed only behind a handler that deleted its own method. |
| | `SocketsAccounted` (`LoServerNew`) | Every open descriptor belongs to a server, but for one per retried port. |
| | `Delivered` (`LoClient`) | Frames stay whole on connections that no server shares, a message goes at most once, a success was written if no connection was shared, the descriptor that the address owns is its latest connection unless a server listed it before. |
| | `WaitTells` (`LoWait`) | Who waits for several servers is told of all that are busy and of no other, not after the next event, and is told nothing only once the time is up. |
| | `FileAsWritten` (`OscSendFile`) | Messages leave in the order of the file, each once, in bundles that carry the file's times and leave when these have come, with the values of their own lines if these give types and all their values. |
| | `CountsExact` (`LoBundle`) | Counts are the references; what is live is reachable; no circle; a bundle is dispatched as it was built. |
| `stream_ignored` | `OnlyXrunsIgnored` (violated) | Two errors that are not overruns are ignored as such. |
| `delay_taps` | `AInside` (violated) | With the real constants an index equals the buffer's length. |
| `history_recent` | `RecentExact` (violated) | Even without rounding the short sum is wrong after its recompute. |
| `send_file_empty` | `EmptyAllowed` (violated) | A line with only a path is sent with what the line before left. |
| `lo_context` | `ContextPerSocket` (violated) | A closed connection leaves its neighbour with the wrong context. |
| `lo_capacity` | `DataFits` (violated) | A blob of 131072 bytes outgrows what is allocated for it. |

No run spends its time on a `TypeOK`: those of the modules with proofs are theorems (see below), and
the others are there for the reader.

`RecentNeverDecides`, a theorem of `HistoryProofs`, deserves a word: with the constants of `zeros.c` the
threshold of the short sum is `RECENT_LENGTH * RECENT_GATE_SQUARED` = 256 * 0.16
and that of the long one `HISTORY_LENGTH * GATE_SQUARED` = 8192 * 0.0001, fifty
times less, so the gate's second condition (`zeros.c:729`) follows from its
first whatever the samples are.

## 4. Bounds

- `config`: digits 0-2 (three voices, levels and defaults that differ from each
  other as 6, 5, 1 and 5 do), two key presses, one crash of each process. Two
  keys suffice for a handler to meet what a killed one left behind; exceptions
  and restarts are not bounded. The theorems have no such bounds.
- `history`: four elements of which two are recent, samples 0-2, rounding -1..1,
  recompute every three samples, so that it falls on every position. A sum cannot
  drift without end since the recompute bounds it: the state space is finite
  without a constraint. `RecentThreshold = 13` is the least for which
  the premise of `RecentNeverDecides` holds.
- `oscs`: three layers as in the code, two slots, a voice that fills one, one
  that fills both, one that is not processed; a crossing at least every three
  samples, half-sample positions, and a history that is just long enough
  (`GapAssumption` holds with equality: 2 * 10 + 4 = 24).
- `parts`: the echo has sixty elements, floats of four significant bits, neighbours four
  samples apart at the end as in `zeros.c`. The ages settle after the first lap.
  The keypad has a key of each kind and four digits that keep a number near 127; the page two
  settings, four levels and two messages each way; the Teensy a buffer of two, two layers
  and blocks of two samples.
- `delay_taps`: the constants of `zeros.c`, 1/32 of a sample.
- `history`, the race: two elements, a recompute every three samples, samples -1, 0, 1.
- `history`, the crossings: both raw voices and two others, times in whole samples; a plausible
  period is between one sample and three, and 2 is the value a reset stores. Times beyond
  3 samples are one. What a wild crossing is interpolated to is -3, -2, 1 or 3, outside of the
  last sample on both sides.
- `parts`, the sound card: all lists of up to three devices, `device-index` from -1 to 3, and two
  error codes each of the three kinds that the loop's tests tell apart.
- `lo_server`: five packets that nest, hold immediate and late tags and
  elements that are no message, two arrivals and one bundle from a handler, time up to
  4; three threads, one after the other; two peers, one of each framing, with
  two messages each, one longer than the first buffer and one longer than any, so that SLIP does both
  kinds of damage, loses one to three bytes, and gets through without either; messages of
  two arguments of ten values (each size of padding, each kind of swap),
  or one of four type strings with constants, one damaged byte out of four values or a cut;
  patterns of three pieces and names up to three characters, which takes every
  branch of the matcher.
- `lo_parts`: three methods; two servers, five descriptors, two ports to try; one descriptor that two connections get in turn,
  in three calls, the least in which a server still lists the number of the second; a wait for a
  TCP and a UDP server, two arrivals, waits of 0, 1 and 3 ms of which the last is above the
  longest, half milliseconds on the clock so that what is left of a time is rounded; files of
  up to three lines of nine kinds (with both digits of a time, one and none; with too few values, no types, and
  more values than the array of three takes; blank), a second
  of four fractions and a microsecond of two, time up to 7, when every bundle has left whose times have both digits;
  three bundles, two messages, two elements each and counts up to three, the least for a
  circle, a shared child and a double use at once (bundles are interchangeable, so
  symmetric).
- `lo_capacity`: one value, a blob of 131072 bytes; its size is what the run is about, and
  no message is sent.

Some runs do not look for deadlocks (`CHECK_DEADLOCK FALSE` in the `.cfg`): there a program that is done, a peer
that has sent its script or a part whose bound is reached stops.

## 5. Fairness and memory order

Fairness is weak, and only of what keeps running by itself. `Config`: the
daemon's current handler, systemd's restarts and the poller's loop; nobody has to
press a key. `History`, `Oscs`, `HistoryRace`: the sound card keeps delivering
samples; which ones is open, and a setting need never change. `Stream`: the program
makes progress and systemd restarts it; no call has to succeed and no card has
to come back. `LoQueue`: time passes, and the program calls `lo_server_recv` as
the server thread does. `LoServerThread`: threads run, and a join returns once its thread has ended.
The other models of liblo state no fairness and no liveness. `NoteEnds` assumes what `Oscs` assumes everywhere, a downward
crossing at least every `MaxGap` samples: in digital silence released
oscillators are not dropped, and their positions grow (hazard
`zeros.c:631`). It also assumes that the voice does not stay raw, since `update` then
returns before it ages anything.

`Converges` excludes a missing `current-gate`: the daemon treats it as 5 but the
synthesizer cannot start.

The unlocked accesses are data races in C; the models take the outcomes a
compiler without whole-loop optimisations produces (the `Makefile` asks for no
optimisation): each access in the source is one load or store of a whole field.
`HistoryRace` lets the poller's stores arrive in any order, as on ARM (the
Raspberry Pi of the README); the audio thread sees its own in order.
`CrossingRace` keeps both threads in program order, the mildest case: its two
positive results therefore hold for processors that keep stores in order, its
violation holds for all.

## 6. What is proved

Each theorem has the form `Spec => []P` (or `Spec => P` for an action property or
a refinement) and holds for every value of the constants that the named `ASSUME`s
admit. TLC evaluates the assumptions in the runs.

- `ConfigProofs`: type, `IndexInBounds`, `GateApplied`, `VolumeMatchesVoice`,
  `NoSelfInflictedDeath`, `TornReadIsZero`, `LostVolumeStaysLost`, for any number of
  digits, keys and crashes. `FileInv` (every file holds a digit or nothing, and
  voice and volume exist) is what makes a daemon's write a digit; `SynthInv` carries it
  across `ReadNumber` to the table's indices. `DaemonInv` says for each `pc` which of the
  three files a voice key rewrites agree already: `VolumeMatchesVoice` alone says
  nothing about a half-finished handler. `OriginInv` ties every content to `saved`.
- `TotalsProofs`: sums over the elements of a function -- replacing an element,
  splitting, bounding, rotating -- and sequences: suffixes, concatenation, and that a
  recursion over `1 .. n` has a solution (`Recursion`).
- `HistoryProofs`: type, `DriftBounded`, `RecentBounded`, `RecentNeverDecides`,
  `OnsetOpensGate`, and that `History` implements `SlidingWindow`. `DriftBounded` is
  inductive with the type. `RecentInv` counts the roundings since the short sum's
  recompute by the position in the buffer, and the one wrong sample it starts with.
- `OscsProofs`: type, `ReadsInHistory`, `Staggered`, `StealsOnlyReleased`.
  `Staggered` is inductive with the type. `TurnInv` relates the duration that a layer has
  left to its distance from the current layer and the crossings since a reset. `PosInv`
  bounds an oscillator's position by the samples it can have been read for, from its
  duration, amplitude and the samples since the last crossing.
- `HistoryProofs`, the race: `RaceSound`, for every length, period and set of samples, and
  whichever of the poller's stores are visible first. `BoundInv` says at each place of `update` how far the sum
  can be off after that many samples since a recompute; `ExactInv` what the sum has yet to add
  and to subtract there, unless the threads overlapped.
- `HistoryProofs`, the crossings: type, `CleanStart`, `GainsFit`, for every set of voices, every length of a
  sample and every range of plausible periods. A stale sign is what makes a crossing wild:
  `BetweenSamples` says that once a sample was left alone `positive` is only set behind a sample that is not
  negative, `FractionKept` that a crossing then computes a fraction. `VoiceStays` and `GainsStored` say the same of the voice
  and the gains.
- `PartsProofs`, for every value of the parameters:
  `DelayLine`: type and `EchoDelayed`, for every length, tempo, number of repeats
  and float format. `LineInv` gives each element's age by its distance from
  the write position; `RepeatPosNear` bounds the four roundings.
  `Web`: `PageAndNodeAgree` and `GentleOnset`. `WebAgrees` says that the last message under way is what
  the sliders show and that at most one `ready` is sent; `EnvelopeInv` ties the level to where the
  onset ramp was.
  `Keypad`: `NumbersAsTyped`, for any keys. `KeypadInv` finds the announcement and the digits
  among the last keys, and says that nothing is pending unless they are there.
  `Teensy`: `SetupHeals`, for any lengths, samples, block size and any interrupts. `TeensyInv` says that a layer's
  duration is at most the crossings until it is started again, if `init_oscs` has cleared it, and that the sum
  is exact until an interrupt comes too early, and again once `setup` is done and a recompute has been.
  `BlockFacts` carries it through the samples of a block.
  `Stream`: type, `NthDevice`, `Released`, `LoopReady`, for every list of devices,
  index and set of errors. `SearchCounts` says that the loop's counter is the
  number of good devices before `i`, and zero as long as it looks for the first;
  `HoldsInv` says what is open at each place.
- `LoServerProofs`. `LoQueue`: `InOrder`, `NothingLost`, `Handover`, for every set of packets in which each bundle
  ends, any times and any number of bundles from handlers. `BeforeIsPrefix` and `QueueDataOrdered` are about the
  insertion: in a sorted queue what precedes a time is a prefix, so inserting behind it
  keeps the order. The invariant ties the numbers in the queue and of those handled to the
  counter, also half-way through a round of `dispatch_queued`. `Closing` is why `oscdump`'s one variable for
  all bundles is enough: while it is set, the bundle on top is the one it stands for, and its end is
  in what is left of the packet, so no queued message is printed with it.
  `LoServerThread`: type and `OneThread`, for any number of threads. `ThreadInv` adds
  that whoever waits waits for a thread that exists and that what is freed was
  stopped; `OneThread` alone does not say why a join ends the right thread.
  `LoServerNew`: `SocketsAccounted`, for any number of servers, descriptors and tries.
  `SocketsOwned` says that servers that bind or are bound have open sockets of their own, no two the same;
  `SocketsCounted` that what is open beyond those is one descriptor per retried port, which `server.c:575` loses.
  `LoClient`: `Delivered`, for any number of descriptors, connections and calls. `LatestConnection` and `OwnedInv` say what
  the address's descriptor may have become; `FramedInv` where in a frame a connection is that was never shared; `OnceInv` that
  no two writes are of the same call.
  `LoMethods`: `MethodsExact`, for every set of paths, types and messages and every pattern's matches.
  `Linked` says that the list goes up through all that is not freed; `DeletionInv` what a
  deletion that is under way has yet to free, all of it behind where it is; `TraversalInv` that
  what fits and stayed is served up to where the walk is, unless it is astray.
  `LoWait`: `WaitTells`, for any number of servers, sockets, times and timeouts. `PlacesDistinct` gives every socket
  a place of its own in the flat array; `TimeInv` says how much of the time is left and that no
  event is missed; `ScheduleInv` why `poll` waits no longer, and no shorter; `StatusInv` and `ArrayInv` what is told
  already and what is yet to be found in the array.
  `OscSendFile`: `FileAsWritten`, for every file whose times do not go back and fit a time tag as played, lines without types and with any
  number of values included, every speed and start. (`FileAssumption` has values only behind types, as the first word behind a path is the types.) `SubtractValue`, `AddValue` and `MultiplyValue` say that the three operations on time tags, which carry
  by comparing digits, compute with the numbers these stand for, whatever the base; `PlayedValue` puts them
  together. `CarriedInv` says which lines the bundles hold while a message waits for its own, `TagInv` that the
  bundle that is filled has the time of the other of the two tags, which the next line's is compared with.
  That the times fit is what keeps them from wrapping: the bundle of a line that is earlier than the first would wait
  2^32 seconds, at speed 1, less the difference.
- `LoCodecProofs`: `MessageFits` and `RoundTrips`, for any values, strings of types, paths, lengths and
  any damage. `WellMade` says that the data are the arguments of the types one after the other (`Laid`), each with the
  size it claims and padded with zeros, and that the pointers kept are those to them. `HostLaid` and `NetworkValid` carry that
  through validating and swapping, both ways: `HostFromNetwork` and `NetworkFromHost` do it for one argument, `SwapFacts` for all,
  since swapping twice changes nothing. `Accepted` is the stronger half: whatever bytes the validation lets through, the message made
  of them would be sent as those very bytes. The induction over arguments is one over their number
  (`Recursion`, with `SetInduction`). `CodecAssumption` has a value fit its type, and a blob's length a word.
  `LoPattern`: `GlobMatches`, for any alphabet, any pieces and patterns and paths of any length. `Descends` says that a
  recursion to arguments of a smaller measure has a solution; it gives the loops over sets (`ScanIs`) and lists (`ListFacts`)
  and `Match` itself (`MatchIs`, for `StepsShorten`: every call has less of the pattern). Then each kind of piece is shown to take
  the beginnings that it stands for: `StarIs` is why a star need not try the suffixes that begin with another character than
  the literal behind it, `ScannedFrom` goes through the characters and ranges of a set turn by turn, `AfterSet`
  finds its bracket (`SetIs`). `FlattenFirst` and induction over the number of pieces put them together (`PatternIs`). `PatternAssumption`
  has sets be well formed: a body that does not end in a hyphen, and no range next to another hyphen.
- `LoStreamProofs`: `Framed` (`LoFraming`, `LoSockets`), for any peers, messages and sizes of the buffers. `Cat` is what messages make put one behind the other,
  with counts (`Counted`) or as SLIP (`Slipped`), and the invariant is an equation between streams: for a connection of which `d`
  messages were dispatched and `N` sent, the buffer of its context followed by what is on the wire is
  the messages from `d` to `N` with their counts (`PlainKept`); for SLIP, the buffer is those that are complete, with their counts, and the part of the next
  that was decoded, and the wire the rest in SLIP, perhaps in the middle of an escape (`SlipKept`); before four bytes came it is neither (`Fresh`).
  `SlipDecodeIs` is one byte, `KeptStore` one segment, `RecvKeeps` one `recv`, `ReceivedKeeps` all that are repeated while they fill the buffer.
  `StreamsKept` has this for every socket and its context (`LinksKept`), says for every peer what was delivered and why a connection is
  gone (`PeersKept`: closed and all delivered, or the next message is `Blocked`, one the greatest buffer has no room for), and that the list of sockets
  names no peer twice (`ListKept`), as long as no socket was `shifted` from its context. `StreamSend`, `StreamAdd`, `StreamDispatch`, `StreamReceive`,
  `StreamEnd` and `StreamDamage` are the steps. Of a SLIP stream `SlipKept` is about its messages with the blanks that they arrive with (`Zeroed`): `Starting`
  is a stream that is not known yet, and `Loses` counts what was read until it is. What `recv` may do to the memory with counts, no bytes can make it
  do (`DamageIsSlip`). `StreamAssumption` has messages of a byte at least and less than 2^24, so that the first byte of a count is zero,
  and SLIP streams begin with what `detect_slip` looks for.

## 7. What is model-checked only

*Liveness* (`Converges`, `SilenceCloses`, `NoteEnds`, `Recovers`, `Served`): TLAPS does
not prove properties under fairness here.

*Recursion over data*: what a recursive definition computes for every input needs induction over the
input, which the prover cannot do with an operator for a parameter. This is so for
`CountsExact` (the elements of a bundle), whose module declares `RECURSIVE` operators: bundles nest, and
the recursion of `Length` and `Serialise` over a tree has no number of turns. `Listing`, `UpdateBlock`, the sums of `Totals` and the loops of
`LoMessage` and `LoFraming` recurse over numbers, and there `SetInduction`, induction over a set and not over an operator, does it;
those of `LoPattern` recurse over pairs of strings, and there `Descends` does.
What a list in braces matches is checked only in so far as it is modelled (see section 8).

*Violations*, by nature. `DelayTaps` with the constants of `zeros.c`.

## 8. Disagreements found

1. **`stream_ignored`** (`zeros.c:974`). The loop tests `err & paInputOverflow`,
   which is bit 2 of the flags of PortAudio's callbacks, on a negative error code. It passes for
   `paInputOverflowed`, and also for `paInternalError` and `paDeviceUnavailable`, which pass
   the test of the write, too: a stream that returns these for good is
   never left. `Recovers` shows that all other errors end the program.
2. **`delay_taps`** (`zeros.c:773`). `repeat_pos` is a `float`; a small negative
   position plus 39690000 rounds to 39690000, one past the end of the buffer, at
   the 22328th sample. Only `repeat_B_pos` is wrapped.
3. **`history_recent`** (`zeros.c:655`). The recompute of the short sum runs one
   position early. `RecentBounded` bounds the damage to one sample's square, and
   `RecentNeverDecides` shows that nothing is decided on it.
4. **`lo_context`** (`server.c:1754`). `lo_server_del_socket` moves the sockets
   behind the removed one down a slot, but not their contexts ("Some extra data needed
   per open socket", `lo_types_internal.h:166`). `Framed`, proved, shows that nothing is lost
   as long as it is the last socket that goes.

5. **`lo_capacity`** (`message.c:64`). `lo_pow2_over` "simply finds the next
   highest power of 2", but divides by 0.69315, which is more than ln 2: for 131076 bytes it
   yields 131072. `MessageFits`, proved, is about the types and the pointers, which do not depend on it.

6. **`send_file_empty`** (`oscsendfile.c:335`). "empty message is allowed" (72), and `create_message` makes one if
   it gets no types; but `send_file` sets `args[0]` only if the line has types, and never clears it. A line with a path alone
   is sent with the types and values of an earlier line, and as the first of the file it reads a pointer that was never set.

The modules state more of what comments and documentation say and the code does not do. They
hold no place among the runs. TLC finds each violated when it is checked with the constants of
`MCConfig`, or through the instances of `HistoryParts`, `MCLoServer` and
`MCLoParts`; `ClosedIsRemoved` takes a message longer than the first buffer, for which one
peer, a message of 20 bytes and `MaxMsgSize = 32` do.

- `OnlySelectedVoices` (`Config`, `MCConfig.cfg`): `README.md:87` has keys select
  voices; a poll inside a rewrite plays voice 0 for 50 ms (`kbd.py:61`).
- `LastPositive` (`CrossingRace`, the constants of `MCHistory.cfg`): "p is always positive"
  (`zeros.c:688`); an unlocked reset between two loads. `CleanStart` shows that it heals.
- `ClosedIsRemoved` (`LoSockets`): "Either way, we remove it from
  the server" (`server.c:1127`), but at the end of a stream `recv` leaves `errno` alone, and an old `EAGAIN`
  makes the test before it (1124) return.
- `Matches` (`LoPattern`): lists in braces (`pattern_match.c:192`); the character after a
  comma is skipped (216).
- `HandledStops` (`LoMethods`): a handler that returns 0 ends the dispatch (`lo_types.h`), but not of a
  pattern (`server.c:1979`).
- `FreeStops` (`LoServerThread`): freeing "will stop the associated thread"; not one whose
  handler has marked it as stopped.
- `MessagesInBundles` (`LoQueue`): "Nested bundles: push and pop" in `oscdump`; queued
  messages are handled after the pop.
- `ServerResponsible`, `NodelayApplied` (`LoClient`): a socket that is given to a server is "now" the
  server's to close (`send.c:469`), but a later failure closes it here; `TCP_NODELAY` is set from the
  flags before they change (`address.c:503`).

The attempt to prove `Delivered` found one more. A server keeps listing a descriptor
that an address closed (`send.c:533-548`, `:455-475`), and the next connection that the process opens gets its
number: the server's thread then reads that connection and closes it, while the address takes it for its own.
`OwnedIsOpen` therefore excepts the connections in `inherited`.

The attempt to prove `Framed` found two boundaries that the bounds of the run had missed; the properties state them. A SLIP message of exactly
`max_msg_size` - 4 bytes, which fits with its count, can be dropped: the byte that ends it has yet to be read, and
there is no room to read it into (`Unfit`). And a SLIP message that does not fit may arrive all the same: when a message ends in
a full buffer, the buffer is doubled without a look at `max_msg_size` (`server.c:1198-1201`), so that `AllDelivered`
says "at least" for SLIP.

What the models hold and no run is about, because the code promises nothing there or has no defined outcome:

- SLIP and memory (`Damage`). Once a stream is known as SLIP, the stack buffer has four bytes less than `recv` may put there
  (`server.c:1114-1120`). A message that ends in the segment may need room for which the buffer is doubled, and
  `buffer_after` (1169) still points into the block that `realloc` freed (1198); the test for that room, a difference of unsigned
  numbers, passes if the headers are beyond the end already (1195). `Framed` shows that a stream with counts never does any of this.
- SLIP and the first bytes (`lost`). "copy the read data into stack memory and decode it back" (1154-1155) is done with the
  bytes of this `recv`; those of the ones before are skipped as if they were the count, and the first message begins with up to three zeros.
- A handler that deletes its own method (`Astray`): `dispatch_method` reads `it->next` of the freed node (`server.c:1935`, 1923).
- `pthread_join` of a thread that was never created (`Waits`), and `args[++i]` past the array's end (`Fits`).

The reading of the code gave four observations that no model holds. A handler of a queued message that calls `lo_server_recv` makes
`dispatch_queued` begin again at the same head: the message is handled twice, its path and the message are freed
twice, and what the outer call then frees is the event behind it, which the queue goes on with (`server.c:2116-2126`). A SLIP stream may begin with an END, "here we only handle one extra one"
(`server.c:979-981`), but that END is then decoded as the end of a message of no bytes, whose count of 0 is what
`lo_server_buffer_contains_msg` returns for no message: nothing behind it is dispatched (`StreamAssumption` leaves such streams out).
`osc_next` (593-598) interpolates with the
weights of its two samples swapped, and the README has the card "USB Audio
Device" set up while the prefix that is compiled in is "Scarlett", so that such a
card is only used if it is the default and `device-index` is 0.

## 9. What is not modelled

- *Waveforms and volumes*: what an oscillator sounds like, `saturate`, `clip` and the
  low-pass. They are functions of a sample; no state depends on them.
- *Polarity of odd cycles* (`osc_init`, 242): planned, its hazard is a float product.
- *Note duration*: nothing reads it in `zeros.c`.
- *Keyboards appearing and leaving* in `kbd.py`; the Teensy's knobs and the drawing of the web page;
  the worklet's pitch detection, which repeats that of `zeros.c`.
- *`zeros.py`, `txt_to_wav.py`*: a prototype and a stateless conversion.
- *liblo*: the C++ wrapper, which forwards each call; the headers; URLs, multicast and
  interfaces, which are calls of the system; the values of `lo_coerce`; printing; the Windows variants; its tests
  and examples. `lo_throw` (`server.c:2393`) holds a mutex that does not nest while it calls the program's error
  handler: a handler that fails itself would wait for ever. `dispatch_queued` loses a message that a handler
  queues before the one noted as next; `NothingLost` is stated for handlers that queue nothing, though the model has those
  that queue one. Handlers that call `lo_server_recv` are not modelled (section 8).
- *What follows undefined behaviour*: once a SLIP stream has damaged the memory, a walk has read a freed method, a thread that never was is
  joined, or `oscsendfile` has used what was never set, the models say nothing of what comes next, and neither do the theorems.
- *Properties stated with an exception*: `VolumeMatchesVoice` and `NoSelfInflictedDeath` are for daemons that were not killed (a kill between
  two of the three files leaves them apart, which `Converges` admits, and an empty file stops the daemon; hazards `kbd.py:62`, 70 and 84);
  `GateApplied` admits `main`'s defaults; `Accounted` admits the descriptor that `server.c:575` loses; `OwnValues` is of lines that give all
  their values; `GlobMatches` leaves braces out; `GainsFit` leaves out a voice that changes within a sample.

- *The delay counter past 2^24*: `Float` covers it, no run reaches it.

## 10. Plan

Done, in this order: `Config` and its proofs; `Totals`, `SlidingWindow`, `History` and
theirs; `Oscs`; `DelayTaps`, `DelayLine`; `HistoryRace`; `CrossingRace`; `Stream`; the modules
of liblo; `Keypad`, `Web`, `Teensy`.

What would come next: `CountsExact`, with an induction over the depth of a bundle; `Octaver`, one sample of
`update` with the gate's early return, as an
implementation of `History` and `Oscs` at once; `LoSockets` with two sockets in one queue, to
compose it with `LoQueue`.

## 11. Running it

    tlc -workers 2 -config MCConfig.cfg MCConfig      # any run
    tlapm ConfigProofs.tla                            # any proofs

Every run ends within four minutes on two cores.
