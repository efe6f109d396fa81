# Verification of gnomecast

gnomecast is an RDP client for webOS TVs: several sessions run at once, one of
them owns the screen and the only hardware decoder, and all of them feed one
audio mix. This directory holds TLA+ models of the part where threads, servers
and timers meet, the TLC runs that check them, and proofs TLAPS checks.

Paths are relative to the repository's root. `PROJECT.json` maps every
definition to the lines it models and lists the hazards with the properties
aimed at them.

## The system

| Component | Source | State | Operations | What is hard |
|---|---|---|---|---|
| RDP worker | `webrdp-min/src/native.rs` | connection stage, attempt, pending input and control buffers, suppress latch | connect stages, run_active, drive_reactivation, retry, stop | commands arrive at any time; the thread waits for a network that may stay silent; a silent retry starts the server from scratch |
| Command channel | same, `rdp_send_*`, `rdp_session_stop` | bounded channel, stop flag | enqueue, blocking send, stop and join | backpressure on the UI thread, stop against a full channel |
| Session slots and switching | `native/src/main.c` | 4 slots: session, state, suppressed, snapshot pending, refresh-ineffective; active index; deferred target; watchdog | switch, background, prepare, tick, drain, configurator, connect | worker callbacks between any two steps of a switch; two timers; several failures at once |
| Access-unit callback | `main.c` `on_video_au`, `ndl_adapter/video_ndl.c` | decoder, its owner and connection epoch, keyframe gate | cache, refuse, feed, count | streams of several sessions reach one decoder |
| Snapshot cache | `native/src/au_snapshot.c` | armed flag, entries, bytes | arm, disarm, append, ready | limits and a refused allocation in the middle of a chain |
| Media pipeline | `ndl_adapter/*.c` | one video and one audio track | apply_tracks, clear | changing one track reloads both |
| EGFX and bitmap path | `native.rs` | surfaces, size pending, frame queue | GFX handler, drain_gfx | order of resets, frames and acknowledgements |
| rdpsnd | `native.rs` | negotiated format | format, wave, close | renegotiation under play |
| Audio pipeline | `native/src/audio_pipeline.c` | per-source ring, generations, mixer | write, reset, pump | single-producer rings whose format changes while samples flow |
| Input | `input_evdev.c`, `input_sdl.c`, `main.c` | held keys and buttons, grabs | dispatch, drain, release | focus loss and switches with keys held |
| HUB, configurator, mixer | `ui_preconnect.c`, `ui_mixer.c`, `main.c` | screen shown, latched requests | navigation, save, delete, connect | requests latched in callbacks, served by the loop |
| System volume | `luna_volume.c` | wanted and confirmed value, call in flight | set, refresh, replies | late and missing replies |
| Configuration | `settings_json.c`, `config_paths.c` | the saved file | load, save | a crash between write and rename |
| Logging | `category_log.c` | two sink slots | set_sink, deliver | swap with deliveries in flight |
| NLA | `credssp.rs`, `ntlm.rs`, `der.rs`, `crypto.rs` | one exchange | challenge, response | conversion of data only |

How they interact. The SDL thread runs one loop: events, the switch tick, the
drain of failed slots, the watchdog, UI requests. It owns the slots. Each
session has a worker thread, to which it speaks through `rdp_send_*` (channel)
and `rdp_session_stop` (flag, command, join). A worker speaks back only through
callbacks on its own thread: `on_state`, `on_video_au`, `on_audio_format`.
They share the atomics of the slot and, under `video_lock` and `audio_lock`, the
decoder and the audio track. What a hidden session's server does is governed by
suppress, resume and refresh commands that take effect later.

For each component that has no module yet, what makes it correct:

* EGFX: one size change per distinct size, frames in order, none acknowledged
  before it was handed on;
* rdpsnd: no sample is decoded in a format other than the one it was sent in;
* media pipeline: the record of tracks agrees with what the backend plays, also
  after a refused change.

## Modules

| Module | What it is |
|---|---|
| `DisplayIntent` | abstract: a register that catches up with the last display toggle |
| `RdpWorker` | the worker thread, the channel, the client's entry points, a nondeterministic server |
| `MCRdpWorker` | the two command sets the runs give the client |
| `RdpWorkerProofs` | type correctness, "the last toggle wins", the step refinement of `DisplayIntent`, keys and buttons, quiet after a stop; for all constants |
| `AuSnapshot` | the snapshot cache as operators |
| `SessionSwitch` | the SDL thread's loop, one worker and one server per slot, the decoder; uses `AuSnapshot` |
| `SessionSwitchProofs` | appending keeps a snapshot whole; what each composed handler does; the types and the decoder's hand-over, for all constants |
| `SessionReplayProofs` | what servers are told, the pipeline, snapshots and replays, for all constants, from the module before |
| `SoundQueue` | abstract: a bounded queue of sound that may lose its oldest frames |
| `AudioSource`, `AudioSourceProofs` | one source's ring between the decoding thread and the pump; that it implements `SoundQueue` |
| `CategoryLog`, `CategoryLogProofs` | the log sink, swapped while others deliver; the levels |
| `LunaVolume` | the system volume between the SDL thread, the Luna loop's thread and the bus |
| `HeldInput`, `HeldInputProofs` | what is held down, from the evdev reader to the servers |
| `SavedCell` | abstract: a cell that a save replaces in one step or not at all |
| `ConfigStore` | the saved settings, through full disks, removed directories and crashes |
| `PlatformProofs` | proofs about `LunaVolume` and `ConfigStore` |
| `MCParts` | the five parts (`AudioSource`, `CategoryLog`, `LunaVolume`, `HeldInput`, `ConfigStore`) as one instance for TLC |
| `PartsProofs` | what is proved of the five parts holds of `MCParts` |

### RdpWorker

`wpc` is the worker's program counter, `phase` the stage of its connection. Each
access to shared state is a step: `PollFlag` and `PollRecv` are `poll_stop`,
`IoWaits` is a bounded wait for the socket, `StageDone` an answer that completes
a stage, `IoFails` an error; `run` tells an ultimatum from other errors by its message
alone, so one that the connector reads, late in a handshake or in a reactivation, is
retried like one of the active loop. `AnnounceActive` and `BeginActive` are the beginning of `run_active`:
the state callback, then the discarded input and the re-asserted latch.
`CheckStop`, `DrainControl`, `DrainInput`, `DrainRecv`, `ServerQuiet` and its
alternatives are its loop. `Retry` carries `reset_session_state`, which folds
buffered toggles into the latch (`FoldLatch`). `ReportError`, `ReportStopped`
and `DropReceiver` are the end of `worker_main`. The client's side is `Send`
with `Enqueue` (try_send, drop of a move, blocking send), `SendUnblocks`, and
`StopStore`, `StopSend`, `StopJoin`.

The server keeps what it has been told (`shown`, `refreshed`, `serverDown`,
`serverAt`): that is what commands are for. `want`, `wantFresh`, `keysHeld`,
`keysSent` and `pointer` are history of what the client commanded.

Abstractions: the contents of PDUs; buttons, scancodes and code points are
`Keys`; wheel and lock-sync commands, which are delivered like a key event, are
left out.

### AuSnapshot and SessionSwitch

A unit is a number in its connection and a kind: an IDR, parameter sets alone
(which the transport flags as a keyframe as well), or a delta. `Cache` is
`native_au_snapshot_append`; that the bytes fit is an argument.

`sdl.pc` is the SDL thread's place in its loop; one iteration runs from
`"input"` back to `"input"`. `link[s].hand` is the worker's place inside
`on_video_au`: `Emit`, then `Keep` for a hidden session (`"behind"`) or `Feed`
for the active one (`"front"`), then `Count`, which happens after the lock was
released; `Break` and `Flag` are the two halves of a terminal `on_state`. What
either side does under `video_lock` is one step, everything else that the other
side can observe in between is a step boundary. `Switch`, `Flip`, `Demote`,
`Promote`, `Replay`, `Replayed`, `Wake`, `Watch` are
`native_complete_session_switch`; `Background` is `native_background_slot`;
`Prepare` a deferred switch; `Scan`, `Filled`, `StillFilling`, `FillExpires`,
`Deferred`, `DeferredExpires`, `Recover`, `Watchdog`, `WatchdogExpires`, `Renew`
are `native_switch_tick` and the watchdog; `DrainSwitch`, `Bury`, `DrainStop`
the terminal drain; `Enter` and `Dial` the first sight of a stream and Connect
in a configurator.

Abstractions and assumptions, each of them a restriction of what is claimed:

* Every stream is H.264; `video_via_bitmap`, the RGBA overlay, the HUB and the
  mixer overlay are left out. A key press in HUB or mixer is therefore not an
  input here. The ring keys call the same function as the colour keys.
* A decoder error of the active session ends the process by design; no action
  follows it, so it is left out.
* The silent retry inside a worker (`RdpWorker`) is not repeated here: a
  connection ends with `Break`.
* The endpoint of a slot does not change, so `refresh_ineffective` is not reset.
* Units of parameter sets alone (`kind = "config"`) are sent in `switching` only, once
  (`MaxSets`): with them the other runs take longer than a run should. `liveness` leaves them out
  for another reason too: a decoder of the same size accepts such a unit, which counts
  as a frame and disarms the watchdog though it shows no picture. A stream of another
  size starts with an IDR.
* `FallQuiet` (the quiet window `NATIVE_SNAPSHOT_QUIET_MS` passing) carries the
  three timing assumptions the design rests on: a suppress takes hold and its tail
  dies out within the window; the tick silences a filled slot before the window has
  passed; and the window does not open between the flip and the replay of one
  switch. A server that takes longer than the window to obey is not covered.
* `Elapsed`: a deadline of seconds does not pass while a worker is between
  releasing `video_lock` and incrementing a counter.
* An incomplete profile is not dialled; cancelling a deferred switch
  (`PressCancel`) costs no press of the bound.

### AudioSource

`ppc` is the step of the thread that decodes a session's sound: `SetFormat` or
`CloseSource`, then `StoreBoundary`, `NextGeneration`, `OpenSource`; or
`PushBegin`, `NextSpurt` after a long gap, `Fit` (what does not fit is dropped),
`Copy`, `Publish`, `Stamp`. `cpc` is the step of the pump in `source_read`:
`ReadBegin`; `LoadGeneration`, `LoadRate`, `ApplyGeneration` and `LoadSpurt`,
`ApplySpurt`, which it takes before it samples the source and again before every
stretch it converts (`after` says where it returns to); `Sample`, `Gauge`, `Trim`,
`Untrim`, `Decide`; `NextFrames` and `Take`; `ReadEnd`. Every load and store of an
atomic that the other thread can tell from its neighbours is a step.

A frame remembers its place, and the generation, format and talkspurt it was
pushed in; that is what the properties ask about. The cursors are counted without
wrapping, but compared as the code compares them, modulo `Width`. Time is seen
through what is compared with the clock: nothing was published for the timeout
(`quiet`), the stamp is older than it, the stamp or the clock was read afterwards
(`stampOld`, `stampAfter`, `clockAfter`); `Elapse` lets it pass. Rate correction,
jitter histogram and underruns may ask for any delay in `Targets`. Resampling,
fades and gains change no cursor by themselves and are left out.

`SoundQueue` is what all this is for, without threads, cursors or loads: a queue whose
`Push` appends, whose `Drop` loses the oldest frames and may apply a newer stamp, and
whose `Convert` takes frames of the applied stamp only and only between two `Turn`s.
Under the mapping of `ImplementsSoundQueue` the queue is what lies between `read` and
`write`, the stamp of a push is `generation` and `spurt`, and the stamp applied is the
pump's. `Publish` is then `Push`, the applications of a boundary, `Trim` and the
other discards are `Drop`, and `Take` is `Convert`; all else stutters.

Two statements are in the module that no run checks, because they do *not* hold;
the comments say what is seen instead. `RateMatches`: the rate is loaded in a step
of its own, so the frames of one block may be resampled at the next format's rate.
`RePrimes`: the push that ends a gap stores `last_push_ms` after it published, so
the pump may still take the burst for stale and start it below its target delay.

### CategoryLog

`SetSink`, `LockSet`, `Install`, `Drained` are `clogx_set_sink` of each thread in
`Setters`, with the two waits it spins in; `NewRules`, `NewLevel` is
`clogx_configure`, which writes one category after the other. A call of a thread
in `Loggers` is `Log`, `Register` (under the guard), `RaiseFlag`, `ReadLevel`
(without it), `Deliver` and `SinkReturns`. A caller frees the old context when
its call returns (`alive`). A level is the number of the configuration that
wrote it: whether a statement passes a level is arithmetic.

### LunaVolume

The SDL thread: `SetVolume` with `SetInvoke` (the two halves of a set, before and
after its lock is released), `Refresh`, `Show`, `Hide`, `EnterStream` (with the watcher's new
baseline), `LeaveStream`, and the watcher that raises the mixer, `TickLoad`, `TickCompare`,
which does nothing off the streaming screen. The loop's thread: `Boot`, `Dispatch` (the
flag is cleared) and `DispatchSend` (the value is taken), `RunRefresh`, `SetReply`, `GetReply` with `Count`, and `Stall`, which is the time
after which a call counts as lost. The bus answers a call in flight late, out of
order with the other method's, or never; a cancelled call may still be answered if the
answer had been queued. Counters are only compared for a change, so they are kept
as "moved". `asked` and `sentPct` are history: the volume the user set last, and the one
the bus was called with since. A value is gone when the bus refuses the call, and when
there is no registration to call with (`handle`); the code does not keep it either. The watcher loads the cached value before it loads the counter of
replies: an answer between the two makes it raise the mixer for a change it has
not seen. That is visible in the model and not claimed otherwise.

### HeldInput

`fingers` are the keys and buttons down on the devices. The reader (`Press`,
`Release`, `PressRemote`, `Unplug`) pushes into the two rings if the devices are
grabbed, dropping the oldest event when one is full. The loop takes a batch out of
one ring (`PopBatch`), and what it does with it (`NextEvent`) may end in any
handler: forward to the server and track, switch, show the mixer, the HUB or a
configurator. `FocusLost`, `FocusGained`, `Connect`, `DrainFailure`,
`AutoHideMixer`, `PickSession`, `SwitchLater` and `Tick` are the other turns of the loop.
`Flush`, `Grab` (which empties the rings), `Ungrab`, `StopStreamingInput`,
`HideMixer`, `ShowMixer`, `Switch`, `ShowConfigurator`, `ShowHub` are the functions
of `main.c` these are made of; they are operators, so that an action is the whole
handler. Of a session only `current_state` is seen (`Activate`, `Fail`).
`pressed[s]` is what server `s` holds down, which is the point of the module; what
happens between the channel and the server is `RdpWorker`'s. Motion and wheel are left
out, and so are the buttons of the SDL pointer (`main.c:4436`): in builds without evdev,
and in evdev builds as long as no USB mouse is grabbed. A mouse plugged in between a
press by SDL and its release makes the loop ignore that release (`main.c:4511`); nothing
is claimed of such a button.

### ConfigStore

`Save` begins a save, `Probe` tries one candidate, `Open`, `Write`, `Rename` are
`native_settings_save_file`; each may fail, after which the save tries again
without the cached path, once. `Disk` fills a candidate up, frees it, or removes
it with what it holds; `Crash`, `Quit` and `Launch` end and restart the process.
A file is the number of the save that wrote it, and whether it is whole.

`SavedComesBack` excuses two cases (`excused`). The first is a directory removed with
its file. The second is the code's: a candidate of higher priority that holds an older
file refuses a save, the save goes to a lower one and returns true, and the next
start loads the older file, because loading takes the first that is readable.
`SavedCell` is the promise without disks: one cell, replaced when a save is
acknowledged (`Replace`) or not at all. Its cell is `Loaded`, what a start at this
moment would find; `excused` is its `hidden`, and even then only an acknowledged save,
an older one, is found.
What was renamed is taken to survive a crash of the process; a power cut before
the disk is synced is not modelled.

### MCParts

The five parts share no variable. `focus`, chosen at the start, names the one that
moves: steps of parts that share nothing commute, so nothing one part can do is
lost by letting the others rest. Fairness conditions of several parts share a
disjunction because only those of the part in focus can be enabled.

## Runs

| Run | Checks | Expect |
|---|---|---|
| `display` | `TypeOK`, `CommandedDisplayWins`, `ImplementsDisplayIntent` | pass |
| `input` | `NoStuckKey`, `NoLostPress`, `QuietAfterStop`, `StopReturns`, `SendReturns` | pass |
| `refresh` | `RefreshFollowsResume` | violation |
| `pointer` | `LatestPositionKept` | violation |
| `switching` | `TypeOK`, `ScreenStreams`, `HiddenSilenced`, `CacheEndsWithStream`, `ReplayRejoins`, `OnlyKeyframesTakeOver` | pass |
| `failures` | `HiddenSilenced`, `NoMediaLeak` | pass |
| `loading` | `ScreenStreams`, `ReplayRejoins` | pass |
| `parts` | `TypeOK`; audio: `RingIntact`, `NoTornFrame`, `FramesAreCurrent`, `ImplementsSoundQueue`, `BurstDrains`; log: `SinkAlive`, `SlotsCounted`, `LevelInForce`, `SetReturns`; volume: `OneCallEach`, `NewestSent`, `ReadingsInOrder`, `SetGoesOut`; input: `NothingStranded`, `NoGhostPress`, `PressesGoToTheScreen`; settings: `SavedComesBack`, `SaveFindsRoom`, `ImplementsSavedCell` | pass |
| `grab` | `StreamHasInput` | violation |
| `liveness` | `SwitchAnswered`, `PictureComes` | pass |
| `watchdog` | `WatchdogHonest` | violation |
| `screen` | `ScreenHasSession` | violation |

What they show:

* `display`: while the worker lives, the last toggle commanded is in force or the
  last one on its way, through three attempts and a reactivation; and the worker
  refines `DisplayIntent`: it never rests on anything but the last command, and
  settles if the server answers.
* `input`: no release is lost, hence no key sticks; no press made on this
  connection is lost; `rdp_session_stop` returns whatever stage the worker is in,
  a blocking send returns too, and after the stop there is no callback.
* `switching`, `failures`, `loading`: the session on the screen streams, all others
  are silent or filling a snapshot; a snapshot that may be replayed ends where the
  server stopped, so the resumed stream joins it without a gap; and after the last
  session the pipeline is closed. The decoder changes hands with an IDR only, with one
  exception that `switching` reaches: a running decoder of the same size is handed over
  for parameter sets alone, because `main.c:1736` looks at the transport's flag and
  `native.rs:830` sets it for them too. Until the next IDR the new stream's deltas are
  then fed to a decoder that still holds the old one's pictures, which is what the
  comment at `main.c:1727` says cannot happen. Without the exception in
  `OnlyKeyframesTakeOver` (`OffersSets`) TLC finds this in 19 steps;
* `liveness`: a deferred switch is answered, and the session on the screen gets a
  picture or ends.

* `parts`, audio: the ring is never overrun or read torn, what is played was pushed
  under the format and talkspurt in force, frames come out in order, unchanged and at
  most once whatever is dropped (`ImplementsSoundQueue`), and a burst too short to start playing
  does not stay behind;
* `parts`, log: nobody is in a sink whose context was freed, a new sink is only set
  where nobody is left, `clogx_set_sink` returns, and a call obeys every
  configuration that was complete when it began;
* `parts`, volume: one call of each kind in flight, the bus is called with the newest
  value or something that will take it is under way, an overtaken answer is ignored, and
  a value held back by an answer that never comes is taken as long as the user keeps
  coming back to the stream. On the HUB or a configurator nothing polls
  (`main.c:3522`), and it stays where it is;
* `parts`, input: a server holds down only what is held on a grabbed device aimed at
  it, or what a ring lost; a press never reaches a session that is not on the
  screen, or that the mixer or the HUB covers;
* `parts`, settings: a start after any crash loads the last save that returned true
  (see the excused cases above), a save finds a writable candidate if there is one, and
  one that fails or is killed changes nothing (`ImplementsSavedCell`).

The five violations are disagreements between the code and what its comments or
documents say; `PROJECT.json` quotes them:

* `refresh`: the buffer kept while the worker waits keeps an *older* refresh ahead
  of a newer resume, so the full frame is asked for while output is suppressed.
* `pointer`: on a full channel the *newest* move is dropped.
* `watchdog`: "no decodable frame arrives" is measured by frames the decoder
  accepted, which includes a delta over a gap: A's tail is dropped after it was
  demoted, B dies before its IDR, the drain switches back to A, and A's next delta
  disarms the watchdog.
* `screen`: the survivor the drain picks dies before the switch tests it again;
  the dead session is stopped and the application stays in its streaming state
  with no session and no form.
* `grab`: the focus is lost, the session on the screen is reconnected in place, the
  focus comes back while it connects: nothing grabs the devices once it is active,
  until the focus is lost and regained.

### Bounds, and why they are enough

| Constant | Code | Runs | Reason |
|---|---|---|---|
| `Depth` | 1024 (`INPUT_QUEUE_DEPTH`) | 2 | full, empty and in between all occur; the theorems hold for every depth |
| `MaxAttempts` | 3 | 3, 2, 1 | a latch carried over two retries needs three; a key needs one retry |
| `MaxSends` | unbounded | 3 to 6 | two more than the channel holds, so that a send blocks |
| `Keys`, `Positions` | | 2, 1 or 2 | keys do not interact; two positions distinguish newest from older |
| `NumSlots` | 4 | 2 | one shown and one hidden; a switch relates two slots. Two hidden slots interact only through the loop's order |
| `MaxEntries` | snapshot limit | 1 or 2 | with 1 a second unit overflows, with 2 a chain is replayed |
| `MaxAUs` | unbounded | 1 to 3 | after so many units no further *delta* is sent on a connection; keyframes still are |
| `MaxSets` (`SessionSwitch`) | unbounded | 0, in `switching` 1 | units of parameter sets alone; one is enough to hand the decoder over without an IDR |
| `MaxPresses` | unbounded | 2 or 3 | away, back, and one in the middle of either |
| `MaxFailures` | unbounded | 0 to 2 | a failure at any point, a double failure in `screen` |
| `MaxDrops` | unbounded | 0 or 1 | one discarded IDR |
| `Capacity`, `Width`, `Packet` | 65536 frames, 2^32, a packet | 2, 8, 2 | the ring wraps and a push may fill it; the cursors wrap |
| `MaxFrames`, `MaxFormats`, `MaxSpurts` | unbounded | 3, 2, 1 | the ring is lapped; a format, its close and frames of either; one gap |
| `Targets`, `Excess`, `Kept` | milliseconds | {2}, 0, 0 | a full ring starts, any excess is trimmed |
| `Loggers`, `Setters`, `Contexts` | unbounded | 2 each | two setters contend for the lock; either slot is delivered to while it is replaced |
| `Categories`, `MaxSets`, `MaxConfigurations` | unbounded | 1, 3, 1 | both slots are used again; one configuration passes a registration |
| `Volumes`, `MaxEvents` | 0 to 100, unbounded | 1, 2 | which value is sent does not matter to who sends it; with one value the watcher never raises the mixer by itself, it is opened by `Show` |
| `Sessions`, `Keys`, `Buttons`, `MouseRing`, `KeyboardRing`, `Remote` | 4, many, many, 511, 255, four | 2, 1, 0 or 1, 1, 2 or 1, two or three | a switch relates two sessions; the keyboard's ring overflows; a button behaves like a key but for its ring, and is in `grab` and in the proofs only |
| `Candidates`, `MaxSaves`, `MaxMishaps` | at most 8, unbounded | 2, 3, 3 | a save to the lower, to the higher and to the lower candidate again; alone it was also checked with 3, 4 and 4 (573,130 states) |
| `Faults` | | per run | which of thread start, allocation, fit, size change, late audio may go wrong |

Not reached within these bounds: a unit refused during a replay, the branch of
`Enter` that resumes a suppressed slot, and Connect on a slot that is still
connecting. `display` sends no input and `input` no display
commands: the two questions share no state but the channel.

Deadlock. The `RdpWorker` configurations disable the deadlock check: after
`rdp_session_stop`, or when the worker has ended and the bound on commands is
spent, the system really stops. In `SessionSwitch`, `MCParts` and `HeldInput` it is
checked: loops and pumps go on for ever.

### Fairness

`RdpWorker`: `FairSpec` is weak fairness of the worker, of a blocked send that can
proceed and of a stop that was begun; the client owes no command and no stop. Every
wait of the worker is bounded (the I/O poll, `CONNECT_TIMEOUT`, `WRITE_TIMEOUT`), the
channel wakes a blocked sender, and threads are scheduled. No server answer is assumed; `StopReturns` and
`SendReturns` hold without one. Settling (`ImplementsDisplayIntent`) needs
`ServerAnswers`: no handshake or reactivation is left hanging and reactivations do
not follow one another without end, because nothing in the code bounds either.

`SessionSwitch`: weak fairness of the SDL loop; strong fairness of the three
deadlines, because each time the loop comes by it may be too early, but not for
ever; weak fairness of each worker's callbacks and handshake; and of each server
that sends the keyframe it owes and obeys. Failures and presses are not fair. The
`liveness` run has `MaxDrops = 0`: if a loading decoder discards the only IDR of a
session dialled from the configurator, no watchdog is armed (`main.c:5298`), and the
picture does not come.

`AudioSource`: the pump renders every 10 ms, a push or format change that began ends,
and time passes; that anything is ever pushed is not assumed. `CategoryLog`: every
thread runs and a sink returns; that a thread stops logging is not. `LunaVolume`:
both threads run, a call's time limit passes, and if the stream is shown again and again
so is the 200 ms poll taken (strongly fair, since a drag of the fader holds it off, and
enabled on the streaming screen only). That the user returns there is a premise of
`SetGoesOut` itself; nothing is assumed of the bus.
`HeldInput` and `ConfigStore` state none: a process may die, a finger may stay.

## Proofs

`RdpWorkerProofs` proves for every `Depth`, `MaxAttempts`, `MaxSends`, `Keys`,
`Positions` and `Sendable` allowed by the assumptions of `RdpWorker`:

* `TypeCorrect`: `Spec => []TypeOK`. The part that is not a type is that the control
  buffer stays minimal: at most one toggle and one refresh (`BufferControl`), also
  after the latch was re-asserted.
* `CommandedWins`: `Spec => []CommandedDisplayWins`. By itself it is not inductive:
  whether a toggle may be forgotten depends on who will re-assert it. `IInv` adds
  `PhaseOK` (where the worker can be in each phase, and that a connection not in
  use shows its display) and `LatchOK` (on a connection in use with no toggle
  buffered, the latch says what the server was told). The lemmas about `LastIn`
  and `NoneIn` split what is under way into the buffer, the channel and the
  blocked send; then there is one step per action.

* `RefinesDisplayIntent`: the worker's initial states are initial states of
  `DisplayIntent` and each of its steps is a step of it or leaves it alone, under
  the mapping the `display` run checks. What the worker owes is a toggle under way
  or one that a retry will re-assert; `OwedByParts` and `WorkerOwes` say how the
  parts determine it, `NeverRevived` that a worker that ended stays ended.
  `SettlesOnLast` carries the invariant of `DisplayIntent` over to the sessions: one
  with no toggle under way shows the last command.
* `ReleasesArrive`, `PressesArrive`: `Spec => []NoStuckKey`, `Spec => []NoLostPress`.
  `KeyInv` adds that a connection not in use has pressed nothing, that the last event
  of a key wherever it is (blocked send, channel, buffer, or at last the server) is what
  the client did last (`Ends`), and that when a connection begins the presses made on it
  are still in the channel or the blocked send, so that discarding the buffered
  input loses none.
* `StoppedIsQuiet`: `Spec => QuietAfterStop`. The join returns when the receiver was
  dropped, which is the worker's last act (`JoinedDead`); a worker that is dead takes
  no step (`DeadWorkerRests`), and what the client does by itself tells the server
  nothing (`ClientTellsNobody`).

`AudioSourceProofs` proves `RingIntact`, `NoTornFrame` and `FramesAreCurrent` for
every capacity, cursor width, set of targets and bound. `AudioInv` adds what each
step of either thread knows: how far the other may have moved since a cursor was
loaded, that boundaries published and not yet applied lie in order between the
cursors, and which frames belong to which generation and talkspurt on either side
of them. The pump reads cursors that are already stale: that the difference
modulo `Width` is the real one needs `Width > 3 * Capacity`.
`RefinesSoundQueue` is `AudioSpec => ImplementsSoundQueue`: first that each step which
leaves the mapped variables alone is a stutter (`SoundStutters`), then one lemma for
what a publication, a drop, an applied boundary and a conversion do to the frames that
stay (`PublishPushes`, `PumpDrops`, `BringsFrames`, `TakeConverts`). `AudioInv` is needed
throughout: a drop applies a stamp only where every frame that stays carries at
least that one, and a push never overwrites a frame that is still queued. `SoundQueue`
states no fairness, so this refinement is proved in full.

`CategoryLogProofs` proves `SinkAlive`, `SlotsCounted` (`SinkInv`: the counter of a
slot is the number of calls in it, and the slot not active is idle unless a
`clogx_set_sink` waits for it), `LevelInForce` (`LevelsInv`) and the types (`LogTypes`).

`PlatformProofs` proves of `LunaVolume` `OneCallEach` and `NewestSent` (`VolumeInv`: a
call not cancelled is the newest, and without the in-flight flag there is none; the flag
`invokeQueued` says that a dispatch is queued, and before the loop runs there is nothing
to queue one for, or the edit that finds it not running would be lost),
`ReadingsInOrder` (`NewestFresh`: the newest read is overtaken by none; inductive only
with `VolumeInv`, by which there is at most one newest) and the types, and of `ConfigStore` `SavedComesBack` and `SaveFindsRoom`
(`StoreInv`: every `settings.json` is whole, and unless the run is excused no candidate
before the one a save writes holds a file). `RefinesSavedCell` is
`ConfigSpec => ImplementsSavedCell`; besides `StoreInv` it needs that no file is newer
than the last acknowledged save (`FilesOld`) and that what is loaded is the first file
there is (`LoadsLeast`). `HeldInputProofs` proves `NothingStranded`, `NoGhostPress`
and `PressesGoToTheScreen` (`HeldInv`: `AimOK`, what armed implies of
the screen; `HoldOK`, pressed is within held; `GrabOK`, rings are empty without a
grab; `OrderOK`, a press in a ring or in the batch at hand is followed by its release
unless the key is still down or the release was lost).

`PartsProofs` carries these results over to `MCParts`. `PartsImplement`: a behaviour of
the composition is one of each part's specification, because a step of one part
leaves the variables of the others alone. `PartsTyped` and `PartsSafe` follow: every
invariant and action property of the `parts` run holds for all constants; only its
liveness properties are left to TLC.

`SessionSwitchProofs` and `SessionReplayProofs` prove every safety property the
passing runs of `SessionSwitch` check, for any number of slots, any set `Answering`
and `Faults`, and any limit of the cache, the presses, the failures and the units.
A switch, a stop or a reconnect is one step of the SDL thread that composes several
helpers, so the first part says of each composed handler what it does to the slot
it is for and that it leaves the others alone; the invariants rest on those lemmas.
Each is inductive only together with the ones before it:

* `CacheKeepsChain`: if a snapshot is whole (it begins with a keyframe and every
  unit follows its predecessor) and the unit offered continues it, then appending
  leaves it whole and within `MaxEntries`, and a unit taken is its last one.
* `Core` (`TypesOK`, `StateOK`, `PlaceOK`): where the SDL thread can be in its loop
  and what its locals mean there, which state of a slot goes with which flags, and
  that the unit in a worker's hand is the one its server sent last. It gives
  `SessionTypes` (`TypeOK`, with `LengthOK` for the snapshots).
* `SilenceOK`: `HiddenSilenced` alone breaks inside a switch, so it names the steps
  that are about to silence a slot (`Excused`) or to wake one (`Waking`), and says
  that `suppressed` is what the server was told last, with the commands on their
  way counted (`Flow`). It gives `HiddenAreSilenced` and `ScreenIsFed`.
* `MediaOK`: a pipeline without a session is held only on the way to the drain that
  releases it. It gives `MediaGoesWithSessions`.
* `ChainOK`: a snapshot's last unit is the server's last, or the one before it
  while that one is in the worker's hand, and once the quiet window has passed and
  the slot is suppressed nothing is under way any more (`StoppedAt`); `Retrying` and
  `SeenOK` are the two places where the SDL thread acts on what it read before.
  With `SilenceOK` and `CacheKeepsChain` it gives `ReplayableIsCurrent`.
* `ReplayOK`: what is left of a replay is consecutive deltas up to the server's last
  unit, and the decoder stands right before them (`Joined`), unless a keyframe is
  asked for or the session failed. With `ChainOK` it gives `ReplaysRejoin`, and, since
  a replay that has begun owns the decoder, `KeyframesTakeOver` (`OnlyKeyframesTakeOver`):
  what takes over is an IDR or comes from the worker's hand (`OfferTakesOver`).

These proofs take the timing assumptions of `FallQuiet` as the model does: a unit
sent before the suppression was obeyed arrives within the window.

Only model-checked is liveness, and nothing else: `StopReturns`, `SendReturns`,
`BurstDrains`, `SetReturns`, `SetGoesOut`, `SwitchAnswered`, `PictureComes`, and the
`Settles` part of `ImplementsDisplayIntent` (fairness and ENABLED are beyond the prover).
Every safety property of every passing run is a theorem.

One would like at least the safety core of `PictureComes` for all constants: between two
iterations, a session on the screen that shows no picture has a refresh under way, a
watchdog armed or an IDR on its way. That does not hold. A worker that fed a frame
before the decoder was reloaded (`main.c:1915`) or before the switch away may count it
(`main.c:1828`, after `video_lock` was released) when the SDL thread has already taken
its baseline (`main.c:3803`, `4304`); the count disarms the watchdog (`main.c:4313`), and
a server that answers no refresh sends no picture. The `liveness` run assumes servers
that answer and has no late audio, so it does not meet this; it is the hazard that
`watchdog` shows in another form. No module declares a RECURSIVE operator.

## Not modelled

Pixels, sound, PDU contents, cryptography, JSON, widget layout, fonts, packaging and
build scripts: conversions of data or external libraries. Most of the lines of the
repository are font tables.

The NDL backend is a submodule that is not part of the repository; its behaviour is
what `main.c` and the adapters rely on. For the same reason the adapters have no
module of their own: what a refused change leaves behind depends on the backend.
The order of `video_lock` and `audio_lock` needs none: they are held together in
`main.c:1670`, `1904` and `2019` only, each time in that order.

Everything else that is missing is in the plan.

## Plan

Done: `RdpWorker` with `DisplayIntent`, `AuSnapshot`, `SessionSwitch`, `AudioSource`,
`HeldInput`, `LunaVolume`, `CategoryLog`, `ConfigStore`. Left, in order:

1. `HubNavigation`: HUB, configurator, Connect from the HUB, save and delete, over
   the slot states of `SessionSwitch`.
2. `GfxHandler` (with drain_gfx) and `AudioDvc`.
3. `NdlMedia`, once the backend's answers are known: track records, reload, rollback.
4. Pure operators against reference definitions: the Annex B scan, the pointer
   mapping.

Theorems worth proving next: refinements of an abstract specification by `SessionSwitch`
(who is told to stream, from `HiddenSilenced` and `ScreenStreams`) and by `CategoryLog`
(an atomically swapped sink); then the safety properties of the modules above.
