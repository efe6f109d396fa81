---------------------------- MODULE AudioSource ----------------------------
(***************************************************************************)
(* One source of the audio pipeline (audio_pipeline.c): a ring with one    *)
(* producer, the thread that decodes a session's sound, and one consumer,  *)
(* the pump that renders a block every 10 ms.  They share atomics and no   *)
(* lock.  Every load and store the other side can tell apart is a step.    *)
(*                                                                         *)
(* A cursor is counted without wrapping; the code keeps it modulo Width    *)
(* and only ever looks at differences (Ahead) and at ring positions        *)
(* (Slot), which agree because the capacity divides Width.                 *)
(***************************************************************************)
EXTENDS Integers

CONSTANTS
    Capacity,       \* NATIVE_AUDIO_PIPELINE_CAPACITY_FRAMES
    Width,          \* the number of values of a cursor, 2^32
    Targets,        \* the delays the controllers may ask for, in frames
    InitialTarget,  \* NATIVE_AUDIO_TARGET_INITIAL_MS
    Excess,         \* NATIVE_AUDIO_HARD_TRIM_ERROR_MS
    Kept,           \* NATIVE_AUDIO_HARD_TRIM_KEEP_MS
    Packet,         \* the most frames one push brings
    MaxFrames,      \* bound: frames pushed
    MaxFormats,     \* bound: formats set and sources closed
    MaxSpurts       \* bound: talkspurts

ASSUME AudioConstants ==
    /\ Capacity \in Nat \ {0}
    /\ Width \in Nat /\ Width > 3 * Capacity /\ Width % Capacity = 0
    /\ Targets \subseteq Nat /\ InitialTarget \in Targets
    /\ Excess \in Nat /\ Kept \in Nat
    /\ Packet \in Nat \ {0} /\ MaxFrames \in Nat
    /\ MaxFormats \in Nat /\ MaxSpurts \in Nat

VARIABLES
    read, write,    \* the cursors
    ring,           \* slot -> the frame in it
    open, generation, pending, reset,       \* the format handed over
    spurt, spurtCursor,                     \* the talkspurt handed over
    trim, target,
    ppc, arrived, count,                    \* producer: step, have_arrival, frames to copy
    cpc, after,                             \* consumer: step, where a shared step returns to
    applied, rate, seen, loaded,            \* format, rate and talkspurt it plays; a loaded generation
    live, fading, cut, dry,                 \* ~rebuffering, trim_after_fade, discontinuity, underrun
    snapshot,                               \* the write cursor it loaded
    quiet, stampOld, stampAfter, clockAfter \* time, see Elapse

shared == <<read, write, ring, open, generation, pending, reset, spurt, spurtCursor, trim, target>>
producer == <<ppc, arrived, count>>
consumer == <<cpc, after, applied, rate, seen, loaded, live, fading, cut, dry, snapshot>>
time == <<quiet, stampOld, stampAfter, clockAfter>>
audioVars == <<shared, producer, consumer, time>>

\* A frame remembers its place in the stream and what was in force when it was pushed.
Frames == [index: Nat, generation: Nat, format: Nat, spurt: Nat]

Slot(cursor) == cursor % Capacity
Ahead(cursor, base) == (cursor - base) % Width
Queue == Ahead(write, read)
Backlog == Queue > target + Excess
\* Mutant: waits for the target delay whatever happens.
StaleNever == FALSE

Stale == stampOld \/ stampAfter

\* The rate is the number of the format it came with; 0 is the sink's own.
AudioInit ==
    /\ read = 0 /\ write = 0
    /\ ring = [s \in 0 .. Capacity - 1 |-> [index |-> 0, generation |-> 0, format |-> 0, spurt |-> 0]]
    /\ open = FALSE /\ generation = 0 /\ pending = 0 /\ reset = 0
    /\ spurt = 0 /\ spurtCursor = 0 /\ trim = FALSE /\ target = InitialTarget
    /\ ppc = "idle" /\ arrived = FALSE /\ count = 0
    /\ cpc = "rest" /\ after = "sample" /\ applied = 0 /\ rate = 0 /\ seen = 0 /\ loaded = 0
    /\ live = FALSE /\ fading = FALSE /\ cut = FALSE /\ dry = FALSE /\ snapshot = 0
    /\ quiet = TRUE /\ stampOld = TRUE /\ stampAfter = FALSE /\ clockAfter = FALSE

----------------------------------------------------------------------------
(* The producer: native_audio_pipeline_set_source_format, _close_source    *)
(* and _push.                                                              *)

SetFormat ==
    /\ ppc = "idle" /\ generation < MaxFormats
    /\ ppc' = "format boundary"
    /\ pending' = generation + 1
    /\ target' = InitialTarget
    /\ arrived' = FALSE
    /\ UNCHANGED <<read, write, ring, open, generation, reset, spurt, spurtCursor, trim, count, consumer, time>>

\* Also by the SDL thread, which has joined the producer.
CloseSource ==
    /\ ppc = "idle" /\ generation < MaxFormats
    /\ ppc' = "close boundary"
    /\ open' = FALSE
    /\ UNCHANGED <<read, write, ring, generation, pending, reset, spurt, spurtCursor, trim, target,
                   arrived, count, consumer, time>>

StoreBoundary ==
    /\ \/ ppc = "format boundary" /\ ppc' = "format generation"
       \/ ppc = "close boundary" /\ ppc' = "close generation"
    /\ reset' = write
    /\ UNCHANGED <<read, write, ring, open, generation, pending, spurt, spurtCursor, trim, target,
                   arrived, count, consumer, time>>

NextGeneration ==
    /\ \/ ppc = "format generation" /\ ppc' = "open" /\ UNCHANGED arrived
       \/ ppc = "close generation" /\ ppc' = "idle" /\ arrived' = FALSE
    /\ generation' = generation + 1
    /\ UNCHANGED <<read, write, ring, open, pending, reset, spurt, spurtCursor, trim, target,
                   count, consumer, time>>

OpenSource ==
    /\ ppc = "open" /\ ppc' = "idle"
    /\ open' = TRUE
    /\ UNCHANGED <<read, write, ring, generation, pending, reset, spurt, spurtCursor, trim, target,
                   arrived, count, consumer, time>>

\* source_update_arrival_controller: a long gap begins a talkspurt, anything
\* else may move the target.  The clock was read before it.
PushBegin ==
    /\ ppc = "idle" /\ open /\ write + Packet <= MaxFrames
    /\ arrived' = TRUE
    /\ \/ /\ arrived /\ quiet /\ spurt < MaxSpurts
          /\ ppc' = "spurt" /\ spurtCursor' = write /\ target' = InitialTarget
       \/ /\ ppc' = "room" /\ UNCHANGED spurtCursor
          /\ IF arrived THEN target' \in Targets ELSE UNCHANGED target
    /\ clockAfter' \in (IF cpc \in {"gauge", "trim", "untrim", "decide"} THEN BOOLEAN ELSE {FALSE})
    /\ UNCHANGED <<read, write, ring, open, generation, pending, reset, spurt, trim, count,
                   consumer, quiet, stampOld, stampAfter>>

NextSpurt ==
    /\ ppc = "spurt" /\ ppc' = "room"
    /\ spurt' = spurt + 1
    /\ UNCHANGED <<read, write, ring, open, generation, pending, reset, spurtCursor, trim, target,
                   arrived, count, consumer, time>>

\* Mutant: counts the slot that keeps the cursors apart as free.
FreeOffByOne == IF Queue < Capacity THEN Capacity - Queue + 1 ELSE 0

\* What does not fit is dropped, and the consumer asked to trim.
Free == IF Queue < Capacity THEN Capacity - Queue ELSE 0

Fit ==
    /\ ppc = "room"
    /\ \E frames \in 1 .. Packet :
          /\ count' = IF frames < Free THEN frames ELSE Free
          /\ trim' = (trim \/ count' < frames)
    /\ ppc' = IF count' = 0 THEN "idle" ELSE "copy"
    /\ UNCHANGED <<read, write, ring, open, generation, pending, reset, spurt, spurtCursor, target,
                   arrived, consumer, time>>

Incoming == write .. write + count - 1

Copy ==
    /\ ppc = "copy" /\ ppc' = "publish"
    /\ ring' = [s \in 0 .. Capacity - 1 |->
                   IF \E i \in Incoming : Slot(i) = s
                   THEN [index |-> CHOOSE i \in Incoming : Slot(i) = s,
                         generation |-> generation, format |-> pending, spurt |-> spurt]
                   ELSE ring[s]]
    /\ UNCHANGED <<read, write, open, generation, pending, reset, spurt, spurtCursor, trim, target,
                   arrived, count, consumer, time>>

Publish ==
    /\ ppc = "publish" /\ ppc' = "stamp"
    /\ write' = write + count
    /\ count' = 0
    /\ quiet' = FALSE
    /\ UNCHANGED <<read, ring, open, generation, pending, reset, spurt, spurtCursor, trim, target,
                   arrived, consumer, stampOld, stampAfter, clockAfter>>

\* last_push_ms takes the clock read when the push began.
Stamp ==
    /\ ppc = "stamp" /\ ppc' = "idle"
    /\ stampOld' = FALSE
    /\ stampAfter' = clockAfter
    /\ clockAfter' = FALSE
    /\ UNCHANGED <<shared, arrived, count, consumer, quiet>>

\* Time is what the comparisons see of it.  quiet: nothing was published for
\* NATIVE_AUDIO_STALE_BURST_MS; stampOld: last_push_ms is that old; stampAfter:
\* last_push_ms is later than the clock the consumer has read, so that their
\* unsigned difference is enormous; clockAfter: the push under way will stamp so.
\* A push takes less than the interval.
Elapse ==
    /\ ppc = "idle" /\ ~(quiet /\ stampOld)
    /\ quiet' = TRUE /\ stampOld' = TRUE
    /\ UNCHANGED <<shared, producer, consumer, stampAfter, clockAfter>>

----------------------------------------------------------------------------
(* The consumer: source_read and what it calls, for one 480-frame block.   *)

ReadBegin ==
    /\ cpc = "rest" /\ cpc' = "generation"
    /\ after' = "sample"
    /\ cut' = FALSE
    /\ UNCHANGED <<shared, producer, applied, rate, seen, loaded, live, fading, dry, snapshot, time>>

\* source_apply_generation
LoadGeneration ==
    /\ cpc = "generation"
    /\ IF generation = applied
       THEN cpc' = "spurt" /\ UNCHANGED loaded
       ELSE cpc' = "rate" /\ loaded' = generation
    /\ UNCHANGED <<shared, producer, after, applied, rate, seen, live, fading, cut, dry, snapshot, time>>

LoadRate ==
    /\ cpc = "rate" /\ cpc' = "boundary"
    /\ rate' = pending
    /\ UNCHANGED <<shared, producer, after, applied, seen, loaded, live, fading, cut, dry, snapshot, time>>

\* Mutant: follows a boundary it has already passed.
AdvancedBack(boundary) == boundary

\* source_advance_read_cursor: a boundary already passed lies almost Width ahead.
Advanced(boundary) == IF Ahead(boundary, read) <= Capacity THEN boundary ELSE read

Discontinue == live' = FALSE /\ fading' = FALSE /\ cut' = TRUE

ApplyGeneration ==
    /\ cpc = "boundary" /\ cpc' = "spurt"
    /\ read' = Advanced(reset)
    /\ applied' = loaded
    /\ Discontinue
    /\ UNCHANGED <<write, ring, open, generation, pending, reset, spurt, spurtCursor, trim, target,
                   producer, after, rate, seen, loaded, dry, snapshot, time>>

\* In the middle of a block a discontinuity ends the block.
Onward(wasCut) == IF after = "take" /\ wasCut THEN "end" ELSE after

\* source_apply_talkspurt
LoadSpurt ==
    /\ cpc = "spurt"
    /\ IF spurt = seen
       THEN cpc' = Onward(cut) /\ UNCHANGED loaded
       ELSE cpc' = "cursor" /\ loaded' = spurt
    /\ UNCHANGED <<shared, producer, after, applied, rate, seen, live, fading, cut, dry, snapshot, time>>

ApplySpurt ==
    /\ cpc = "cursor" /\ cpc' = Onward(TRUE)
    /\ read' = Advanced(spurtCursor)
    /\ seen' = loaded
    /\ Discontinue
    /\ UNCHANGED <<write, ring, open, generation, pending, reset, spurt, spurtCursor, trim, target,
                   producer, after, applied, rate, loaded, dry, snapshot, time>>

\* The clock is read; a closed source throws its queue away.
Sample ==
    /\ cpc = "sample"
    /\ stampAfter' = FALSE /\ clockAfter' = FALSE
    /\ IF open
       THEN cpc' = "gauge" /\ UNCHANGED <<read, live>>
       ELSE cpc' = "end" /\ read' = write /\ live' = FALSE
    /\ UNCHANGED <<write, ring, open, generation, pending, reset, spurt, spurtCursor, trim, target,
                   producer, after, applied, rate, seen, loaded, fading, cut, dry, snapshot,
                   quiet, stampOld>>

Gauge ==
    /\ cpc = "gauge"
    /\ \/ live /\ cpc' = "loop" /\ fading' = (fading \/ trim \/ Backlog) /\ UNCHANGED after
       \/ ~live /\ (trim \/ Backlog) /\ cpc' = "trim" /\ after' = "decide" /\ UNCHANGED fading
       \/ ~live /\ ~(trim \/ Backlog) /\ cpc' = "decide" /\ UNCHANGED <<after, fading>>
    /\ UNCHANGED <<shared, producer, applied, rate, seen, loaded, live, cut, dry, snapshot, time>>

\* Mutant: rewinds a queue that is shorter than it should become.
TrimRewinding ==
    /\ cpc = "trim" /\ cpc' = "untrim"
    /\ read' = write - (target + Kept)
    /\ UNCHANGED <<write, ring, open, generation, pending, reset, spurt, spurtCursor, trim, target,
                   producer, after, applied, rate, seen, loaded, live, fading, cut, dry, snapshot, time>>

\* source_trim_to_target
Trim ==
    /\ cpc = "trim" /\ cpc' = "untrim"
    /\ read' = IF Queue <= target + Kept THEN read ELSE read + (Queue - (target + Kept))
    /\ UNCHANGED <<write, ring, open, generation, pending, reset, spurt, spurtCursor, trim, target,
                   producer, after, applied, rate, seen, loaded, live, fading, cut, dry, snapshot, time>>

Untrim ==
    /\ cpc = "untrim" /\ cpc' = after
    /\ trim' = FALSE
    /\ fading' = (fading /\ after # "loop")
    /\ UNCHANGED <<read, write, ring, open, generation, pending, reset, spurt, spurtCursor, target,
                   producer, after, applied, rate, seen, loaded, live, cut, dry, snapshot, time>>

\* Rebuffering ends at the target delay, or with a burst that was not followed up.
Decide ==
    /\ cpc = "decide"
    /\ IF Queue >= target \/ (Queue > 0 /\ Stale)
       THEN cpc' = "loop" /\ live' = TRUE /\ fading' = (fading \/ trim \/ Backlog)
       ELSE cpc' = "end" /\ UNCHANGED <<live, fading>>
    /\ UNCHANGED <<shared, producer, after, applied, rate, seen, loaded, cut, dry, snapshot, time>>

\* Mutant: trusts the generations the block began with.
NextFramesUnchecked ==
    /\ cpc = "loop" /\ cpc' = "take"
    /\ snapshot' = write
    /\ after' = "take"
    /\ cut' = FALSE
    /\ UNCHANGED <<shared, producer, applied, rate, seen, loaded, live, fading, dry, time>>

\* source_convert_frames: the cursor first, then both generations.
NextFrames ==
    /\ cpc = "loop" /\ cpc' = "generation"
    /\ snapshot' = write
    /\ after' = "take"
    /\ cut' = FALSE
    /\ UNCHANGED <<shared, producer, applied, rate, seen, loaded, live, fading, dry, time>>

\* A block that is to be trimmed has two segments, the faded one and the rest.
SegmentEnd ==
    IF fading THEN cpc' = "trim" /\ after' = "loop"
              ELSE cpc' = "end" /\ UNCHANGED after

Available == Ahead(snapshot, read)
Contiguous == IF Available < Capacity - Slot(read) THEN Available ELSE Capacity - Slot(read)

Take ==
    /\ cpc = "take"
    /\ IF Available = 0
       THEN dry' = TRUE /\ SegmentEnd /\ UNCHANGED read
       ELSE /\ \E n \in 1 .. Contiguous : read' = read + n
            /\ \/ cpc' = "loop" /\ UNCHANGED after
               \/ SegmentEnd
            /\ UNCHANGED dry
    /\ UNCHANGED <<write, ring, open, generation, pending, reset, spurt, spurtCursor, trim, target,
                   producer, applied, rate, seen, loaded, live, fading, cut, snapshot, time>>

\* An underrun raises the target and rebuffers.
ReadEnd ==
    /\ cpc = "end" /\ cpc' = "rest"
    /\ dry' = FALSE
    /\ IF dry
       THEN /\ target' \in {t \in Targets : t >= target}
            /\ live' = FALSE /\ fading' = FALSE
       ELSE UNCHANGED <<target, live, fading>>
    /\ UNCHANGED <<read, write, ring, open, generation, pending, reset, spurt, spurtCursor, trim,
                   producer, after, applied, rate, seen, loaded, cut, snapshot, time>>

----------------------------------------------------------------------------
Pushing ==
    \/ StoreBoundary \/ NextGeneration \/ OpenSource
    \/ NextSpurt \/ Fit \/ Copy \/ Publish \/ Stamp
Producer == SetFormat \/ CloseSource \/ PushBegin \/ Pushing
Consumer ==
    \/ ReadBegin \/ LoadGeneration \/ LoadRate \/ ApplyGeneration \/ LoadSpurt \/ ApplySpurt
    \/ Sample \/ Gauge \/ Trim \/ Untrim \/ Decide \/ NextFrames \/ Take \/ ReadEnd

AudioNext == Producer \/ Consumer \/ Elapse
AudioSpec == AudioInit /\ [][AudioNext]_audioVars

\* The pump renders a block every 10 ms, what a producer began it ends, time passes.
AudioFairness == WF_audioVars(Consumer) /\ WF_audioVars(Pushing) /\ WF_audioVars(Elapse)
FairAudioSpec == AudioSpec /\ AudioFairness

----------------------------------------------------------------------------
Readable == read .. write - 1
Taken == read .. snapshot - 1
FrameAt(i) == ring[Slot(i)]

\* Every variable keeps to its type.
AudioTypeOK ==
    /\ read \in Nat /\ write \in Nat /\ reset \in Nat /\ spurtCursor \in Nat /\ snapshot \in Nat
    /\ ring \in [0 .. Capacity - 1 -> Frames]
    /\ generation \in Nat /\ pending \in Nat /\ spurt \in Nat
    /\ applied \in Nat /\ rate \in Nat /\ seen \in Nat /\ loaded \in Nat
    /\ target \in Targets /\ count \in 0 .. Packet
    /\ {open, trim, arrived, live, fading, cut, dry, quiet, stampOld, stampAfter, clockAfter}
           \subseteq BOOLEAN
    /\ ppc \in {"idle", "format boundary", "format generation", "open", "close boundary",
                "close generation", "spurt", "room", "copy", "publish", "stamp"}
    /\ cpc \in {"rest", "generation", "rate", "boundary", "spurt", "cursor", "sample", "gauge",
                "trim", "untrim", "decide", "loop", "take", "end"}
    /\ after \in {"sample", "take", "decide", "loop"}

\* The consumer never passes the producer, the producer never laps the consumer,
\* and what was pushed and not yet played is in the ring, in order and unchanged
\* (the cursors of audio_pipeline.c, moved by push, trim, conversion, a closed
\* source and boundaries that may be stale).
RingIntact ==
    /\ read <= write /\ write <= read + Capacity
    /\ \A i \in Readable : FrameAt(i).index = i

\* The producer never copies into a slot the converter is reading (push against
\* source_convert_frames: there is no lock between the two).
NoTornFrame ==
    ppc = "copy" /\ cpc = "take" =>
        \A i \in Taken, j \in Incoming : Slot(i) # Slot(j)

\* What is converted was pushed under exactly the format generation and the
\* talkspurt the consumer has applied: frames queued before a format change, a
\* close or a long gap are dropped, and newer ones wait until the change was
\* applied (the comment in source_convert_frames, and audio_pipeline.h on a format
\* change).
FramesAreCurrent ==
    cpc = "take" =>
        \A i \in Taken : FrameAt(i).generation = applied /\ FrameAt(i).spurt = seen

StampedFrame(i) ==
    [index |-> FrameAt(i).index, generation |-> FrameAt(i).generation, spurt |-> FrameAt(i).spurt]

Sound == INSTANCE SoundQueue
    WITH first <- read, next <- write,
         frame <- [i \in Readable |-> StampedFrame(i)],
         now <- [generation |-> generation, spurt |-> spurt],
         applied <- [generation |-> applied, spurt |-> seen],
         converting <- cpc = "take"

\* A source implements the lossy queue of SoundQueue: whatever the pump drops, and
\* however its two threads interleave, frames are heard in order, unchanged, at most
\* once and under the format and the talkspurt they were pushed with.
ImplementsSoundQueue == Sound!Spec

\* Sound that was queued is heard or dropped even if nothing follows it: a short
\* burst that never reaches the target delay does not stay in the ring
\* (stale_short_burst in source_read).
BurstDrains ==
    open /\ write > read /\ ppc = "idle" ~> read = write \/ ppc # "idle"

\* "A gap over 500ms is a talkspurt boundary and re-primes at least 60ms"
\* (native-runbook.md): a source that rebuffers goes live below its target delay
\* only when nothing was published for a while.  Does not hold: the push that ends
\* the gap stores last_push_ms after it published.
RePrimes == [][~live /\ live' => Queue >= target \/ quiet]_audioVars

\* "A format change is handed to the render side by an atomic generation boundary"
\* (audio_pipeline.h): what is converted was pushed at the rate it is converted at.
\* Does not hold: the rate is loaded in a step of its own, it may be the next format's.
RateMatches ==
    cpc = "take" => \A i \in Taken : FrameAt(i).format = rate
=============================================================================
