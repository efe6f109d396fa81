---------------------------- MODULE SessionSwitch ----------------------------
(***************************************************************************)
(* Which session owns the screen of native/src/main.c: the SDL thread's    *)
(* loop (colour keys, native_switch_tick, the failure drain, entering the  *)
(* stream, Connect) against the rdp-worker threads that deliver access     *)
(* units to one shared hardware decoder, and the servers behind them.      *)
(*                                                                         *)
(* The SDL thread is a program with a program counter (sdl).  What it does *)
(* under video_lock, and what a worker does under it, is one step each;    *)
(* every other place where the two can interleave is a step boundary.      *)
(* Every stream is H.264 (video_via_bitmap stays false).  Errors of the    *)
(* decoder itself end the process and are left out.                        *)
(***************************************************************************)
EXTENDS AuSnapshot, FiniteSets

CONSTANTS
    NumSlots,      \* NATIVE_SETTINGS_MAX_SESSIONS
    Answering,     \* the slots whose server produces a keyframe on request
    MaxAUs,        \* bound: a connection with this many units gets IDRs only
    MaxPresses,    \* bound: key presses of the user
    MaxFailures,   \* bound: connections the network takes down
    MaxDrops,      \* bound: IDRs a still-loading decoder discards
    MaxSets,       \* bound: units a server sends that hold parameter sets only
    Faults         \* what may fail to go well, among Mishaps

NoSlot == 0
Slots  == 1 .. NumSlots

ASSUME SlotsAssumption     == NumSlots \in Nat \ {0}
ASSUME AnsweringAssumption == Answering \subseteq Slots
ASSUME BoundsAssumption    == {MaxAUs, MaxPresses, MaxFailures, MaxDrops, MaxSets} \subseteq Nat

(* A worker thread that does not start, a snapshot buffer that is not      *)
(* allocated, a unit that overflows it, a stream of another size, an audio *)
(* track that opens only after the video.                                  *)
Mishaps == {"start", "alloc", "fit", "size", "audio"}
ASSUME FaultsAssumption == Faults \subseteq Mishaps
Succeeds(what) == {TRUE, what \notin Faults}

-----------------------------------------------------------------------------
VARIABLES
    slot,      \* NativeSessionSlot: what the SDL thread and on_state keep
    cache,     \* snapshot, snapshot_idr_ready and the quiet window, per slot
    link,      \* per slot: commands on their way, the server, the worker's hand
    decoder,   \* App.video and its owner, decoder_keyframe_pending, App.audio
    active,    \* active_index
    streaming, \* streaming_visible
    target,    \* pending_switch_target
    request,   \* the Connect the configurator has latched
    refresh,   \* video_refresh_needed
    watchdog,  \* switch_deadline_ticks and switch_reconnect_used
    sdl,       \* where the SDL thread is, and the locals it holds there
    budget     \* what is left of the bounds

vars == <<slot, cache, link, decoder, active, streaming, target, request,
          refresh, watchdog, sdl, budget>>

screen == <<active, streaming, target, request>>

(* rdp is "slot->rdp is not NULL"; moved is "video_ok_frames is not what   *)
(* it was when the SDL thread last took a baseline of this slot".          *)
IdleSlot == [rdp |-> FALSE, state |-> "idle", failed |-> FALSE,
             suppressed |-> FALSE, filling |-> FALSE, timed |-> FALSE,
             retried |-> FALSE, ineffective |-> FALSE, moved |-> FALSE]

(* told: sent to this connection and not yet obeyed.  out: the server      *)
(* sends graphics.  owes: its next frame is an IDR.  sent: frames so far.  *)
(* hand: the worker's place in a callback, with the unit au.               *)
NoAU      == [n |-> 0, kind |-> "delta"]
FreshLink == [told |-> <<>>, out |-> TRUE, owes |-> TRUE, sent |-> 0,
              hand |-> "none", au |-> NoAU]

(* owner with live: the slot and "its connect_epoch is still that one".    *)
(* gate "idr": a decoder that takes nothing before an IDR.  last: the unit *)
(* it decoded last.  whole: it never decoded a delta over a gap since its  *)
(* last IDR.  pending is decoder_keyframe_pending, audio is App.audio.     *)
NoDecoder == [owner |-> NoSlot, live |-> FALSE, gate |-> "idr", last |-> 0,
              whole |-> TRUE, pending |-> FALSE, audio |-> FALSE]

Init ==
    /\ slot  = [s \in Slots |-> IdleSlot]
    /\ cache = [s \in Slots |-> [snap |-> Disarmed, ready |-> FALSE, quiet |-> TRUE]]
    /\ link  = [s \in Slots |-> FreshLink]
    /\ decoder = NoDecoder
    /\ active = 1 /\ streaming = FALSE /\ target = NoSlot /\ request = NoSlot
    /\ refresh = FALSE
    /\ watchdog = [on |-> FALSE, used |-> FALSE]
    /\ sdl = [pc |-> "input", at |-> NoSlot, goal |-> NoSlot, old |-> NoSlot, back |-> "input",
              seen |-> FALSE, left |-> <<>>, fed |-> FALSE]
    /\ budget = [presses |-> MaxPresses, failures |-> MaxFailures, drops |-> MaxDrops,
                 sets |-> MaxSets]

(* native_slot_is_live_stream_target, native_session_is_still_connecting   *)
Target(s)     == slot[s].rdp /\ ~slot[s].failed /\ (slot[s].state = "active" \/ slot[s].filling)
Connecting(s) == slot[s].rdp /\ slot[s].state # "active"
Connected     == {s \in Slots : slot[s].rdp}

(* Neither a deadline of seconds passes nor a handshake completes while a  *)
(* worker is between releasing video_lock and counting the frame it fed.   *)
Elapsed == \A s \in Slots : link[s].hand # "fed"

(* A worker can be joined once it is out of its callback.                  *)
Joinable(s) == link[s].hand = "none"

-----------------------------------------------------------------------------
(* The shared decoder: what on_video_au does under video_lock.             *)

(* The decoder still holds another stream, or another connection of s.     *)
Foreign(s) == decoder.owner # NoSlot /\ (decoder.owner # s \/ ~decoder.live)

(* The decoder after it was offered au by s, and what the offer came to:   *)
(* decoded, or a keyframe asked for.  A keyframe of another size reopens   *)
(* it (same), opening it may open the mixed audio track first (opens), and *)
(* a pipeline that is still loading discards an IDR (drops).               *)
Fed(s, au, same, opens, drops) ==
    LET closes == decoder.owner # NoSlot /\ ~same /\ IsKeyframe(au)
        reopen == decoder.owner = NoSlot \/ closes
        gate   == IF reopen THEN "idr" ELSE decoder.gate
        needs  == gate = "idr" /\ au.kind # "idr"
        ok     == ~needs /\ ~(gate = "idr" /\ drops)
        before == ~Foreign(s) /\ ~closes /\ decoder.pending
    IN  [ok    |-> ok,
         asks  |-> needs /\ ~before,
         drops |-> ~needs /\ ~ok,
         decoder |->
            [owner |-> s, live |-> TRUE,
             gate  |-> IF ok THEN "open" ELSE gate,
             last  |-> IF ok THEN au.n ELSE 0,
             whole |-> ~ok \/ au.kind = "idr"
                       \/ (decoder.whole /\ ~Foreign(s) /\ decoder.last + 1 = au.n),
             pending |-> before \/ needs,
             audio   |-> decoder.audio \/ (reopen /\ opens)]]

(* Mutant: a delta is fed to whatever stream the decoder holds.            *)
Refused_never(s, au) == FALSE

(* Whether the offer is turned away: a delta for a foreign decoder.        *)
Refused(s, au) == Foreign(s) /\ ~IsKeyframe(au)

Offers(s, au) ==
    {r \in {Fed(s, au, same, opens, ~loaded) :
                same \in Succeeds("size"), opens \in Succeeds("audio"), loaded \in BOOLEAN} :
        r.drops => budget.drops > 0}

(* native_video_feed returned r.                                           *)
Accept(r) ==
    /\ decoder' = r.decoder
    /\ refresh' = (refresh \/ r.asks)
    /\ budget'  = [budget EXCEPT !.drops = IF r.drops THEN @ - 1 ELSE @]

-----------------------------------------------------------------------------
(* The server of slot s, and the rdp-worker thread.                        *)

Hand(s, where) == link' = [link EXCEPT ![s].hand = where]

(* The handshake completes: on_state(ACTIVE).                              *)
Activate(s) ==
    /\ Elapsed
    /\ slot[s].rdp /\ slot[s].state = "connecting" /\ link[s].hand = "none"
    /\ slot' = [slot EXCEPT ![s].state = "active"]
    /\ UNCHANGED <<cache, link, decoder, screen, refresh, watchdog, sdl, budget>>

(* The server acts on the next command it was sent.                        *)
Obey(s) ==
    /\ slot[s].state = "active" /\ link[s].told # <<>>
    /\ LET command == Head(link[s].told) IN
       link' = [link EXCEPT ![s].told = Tail(@),
                            ![s].out  = IF command = "refresh" THEN @ ELSE command = "resume",
                            ![s].owes = @ \/ (command = "refresh" /\ s \in Answering)]
    /\ UNCHANGED <<slot, cache, decoder, screen, refresh, watchdog, sdl, budget>>

(* What the server sends next: the IDR it owes, or else a delta; or, ahead *)
(* of either, parameter sets in a unit of their own.                       *)
Picture(s) == IF link[s].owes THEN "idr" ELSE "delta"

(* A unit of the server reaches on_video_au, which looks at active_index   *)
(* before it takes video_lock.                                             *)
Emit(s) ==
    /\ slot[s].state = "active" /\ link[s].out /\ link[s].hand = "none"
    /\ \E kind \in {Picture(s), "config"} :
          /\ kind # "idr" => link[s].sent < MaxAUs
          /\ kind = "config" => budget.sets > 0
          /\ link' = [link EXCEPT ![s].sent = @ + 1, ![s].owes = @ /\ kind = "config",
                                  ![s].hand = IF s = active THEN "front" ELSE "behind",
                                  ![s].au = [n |-> link[s].sent + 1, kind |-> kind]]
          /\ budget' = [budget EXCEPT !.sets = IF kind = "config" THEN @ - 1 ELSE @]
    /\ UNCHANGED <<slot, cache, decoder, screen, refresh, watchdog, sdl>>

(* Mutant: a cached unit does not restart the quiet window.                *)
Keep_unstamped(s) ==
    /\ link[s].hand = "behind"
    /\ IF s = active THEN Hand(s, "front") /\ UNCHANGED cache
       ELSE /\ LET snap == Cache(cache[s].snap, link[s].au, TRUE) IN
               cache' = [cache EXCEPT ![s].snap = snap, ![s].ready = Ready(snap)]
            /\ Hand(s, "none")
    /\ UNCHANGED <<slot, decoder, screen, refresh, watchdog, sdl, budget>>

(* The background branch, under the lock: promoted meanwhile, the unit     *)
(* belongs to the live stream; otherwise it goes to an armed snapshot.     *)
Keep(s) ==
    /\ link[s].hand = "behind"
    /\ \/ /\ s = active
          /\ Hand(s, "front") /\ UNCHANGED cache
       \/ /\ s # active /\ cache[s].snap.armed
          /\ \E fits \in Succeeds("fit") :
                LET snap == Cache(cache[s].snap, link[s].au, fits) IN
                cache' = [cache EXCEPT ![s] = [snap |-> snap, ready |-> Ready(snap), quiet |-> FALSE]]
          /\ Hand(s, "none")
       \/ /\ s # active /\ ~cache[s].snap.armed
          /\ Hand(s, "none") /\ UNCHANGED cache
    /\ UNCHANGED <<slot, decoder, screen, refresh, watchdog, sdl, budget>>

(* The active branch, under the lock: demoted meanwhile, or a delta of a   *)
(* stream the decoder does not hold, and the unit is dropped.              *)
Feed(s) ==
    /\ link[s].hand = "front"
    /\ IF s # active \/ Refused(s, link[s].au)
       THEN Hand(s, "none") /\ UNCHANGED <<decoder, refresh, budget>>
       ELSE \E r \in Offers(s, link[s].au) :
                Accept(r) /\ Hand(s, IF r.ok THEN "fed" ELSE "none")
    /\ UNCHANGED <<slot, cache, screen, watchdog, sdl>>

(* After the lock: decoder_keyframe_pending, then video_ok_frames.         *)
Counted(s) ==
    /\ decoder' = [decoder EXCEPT !.pending = FALSE]
    /\ slot' = [slot EXCEPT ![s].moved = TRUE]
Count(s) ==
    /\ link[s].hand = "fed"
    /\ Counted(s)
    /\ Hand(s, "none")
    /\ sdl' = IF sdl.pc = "replay" /\ sdl.goal = s THEN [sdl EXCEPT !.fed = TRUE] ELSE sdl
    /\ UNCHANGED <<cache, screen, refresh, watchdog, budget>>

(* The connection ends: on_state stores the state, then slot_stop_with_    *)
(* state the failure.                                                      *)
Break(s) ==
    /\ slot[s].rdp /\ slot[s].state \in {"connecting", "active"} /\ link[s].hand = "none"
    /\ budget.failures > 0
    /\ budget' = [budget EXCEPT !.failures = @ - 1]
    /\ slot' = [slot EXCEPT ![s].state = "over"]
    /\ Hand(s, "failing")
    /\ UNCHANGED <<cache, decoder, screen, refresh, watchdog, sdl>>
Flag(s) ==
    /\ link[s].hand = "failing"
    /\ slot' = [slot EXCEPT ![s].failed = TRUE]
    /\ Hand(s, "none")
    /\ UNCHANGED <<cache, decoder, screen, refresh, watchdog, sdl, budget>>

(* The mixed audio track opens under a live video track (on_audio_format): *)
(* the pipeline reloads, and the video track goes until the next IDR.      *)
OpenAudio(s) ==
    /\ slot[s].state = "active" /\ link[s].hand = "none" /\ ~decoder.audio
    /\ IF decoder.owner = NoSlot
       THEN decoder' = [decoder EXCEPT !.audio = TRUE] /\ UNCHANGED refresh
       ELSE decoder' = [NoDecoder EXCEPT !.audio = TRUE] /\ refresh' = TRUE
    /\ UNCHANGED <<slot, cache, link, screen, watchdog, sdl, budget>>

(* NATIVE_SNAPSHOT_QUIET_MS pass without a unit for the snapshot of s.     *)
(* The timing the design rests on: a suppress takes hold and its tail dies *)
(* out within the window; the tick, whose period is far below it, silences *)
(* a filled slot before it opens; and it does not open between the flip    *)
(* and the replay of one switch.                                           *)
FallQuiet(s) ==
    /\ ~cache[s].quiet /\ ~slot[s].filling
    /\ sdl.pc \notin {"flip", "demote", "promote"}
    /\ link[s].hand = "none" /\ link[s].told = <<>>
    /\ cache' = [cache EXCEPT ![s].quiet = TRUE]
    /\ UNCHANGED <<slot, link, decoder, screen, refresh, watchdog, sdl, budget>>

Worker(s) ==
    \/ Activate(s) \/ Obey(s) \/ Emit(s) \/ Keep(s) \/ Feed(s)
    \/ Count(s) \/ Break(s) \/ Flag(s) \/ OpenAudio(s) \/ FallQuiet(s)

-----------------------------------------------------------------------------
(* The SDL thread: what its steps are made of.                             *)

At(pc)    == sdl.pc = pc
Loop(pc, s) == sdl' = [pc |-> pc, at |-> s, goal |-> NoSlot, old |-> NoSlot,
                       back |-> "input", seen |-> FALSE, left |-> <<>>, fed |-> FALSE]
Rest(pc)    == Loop(pc, NoSlot)
Goto(pc)    == sdl' = [sdl EXCEPT !.pc = pc]
Call(pc, s, back) == sdl' = [sdl EXCEPT !.pc = pc, !.goal = s, !.back = back, !.seen = FALSE]
Return == Loop(sdl.back, sdl.at)

Say(s, commands) == link' = [link EXCEPT ![s].told = @ \o commands]

Forget(s) == cache' = [cache EXCEPT ![s].snap = Disarmed, ![s].ready = FALSE]

(* native_stop_slot; native_stop_media once no slot is connected.          *)
Stopped(s) == [slot[s] EXCEPT !.rdp = FALSE, !.state = "idle", !.failed = FALSE,
                              !.suppressed = FALSE, !.filling = FALSE]
NoMedia == [NoDecoder EXCEPT !.pending = decoder.pending]
(* Mutant: the pipeline goes only with the session on the screen.          *)
StopSlot_leaky(s) ==
    /\ Joinable(s)
    /\ slot' = [slot EXCEPT ![s] = Stopped(s)]
    /\ link' = [link EXCEPT ![s] = FreshLink]
    /\ Forget(s)
    /\ decoder' = IF s = active /\ Connected \subseteq {s} THEN NoMedia ELSE decoder
StopSlot(s) ==
    /\ Joinable(s)
    /\ slot' = [slot EXCEPT ![s] = Stopped(s)]
    /\ link' = [link EXCEPT ![s] = FreshLink]
    /\ Forget(s)
    /\ decoder' = IF Connected \subseteq {s} THEN NoMedia ELSE decoder

(* native_slot_connect: stops the slot, arms the snapshot if it is asked   *)
(* to and can, bumps connect_epoch and starts a worker.                    *)
Started(s, starts) == [Stopped(s) EXCEPT !.rdp = starts,
                                         !.state = IF starts THEN "connecting" ELSE "idle"]
Connect(s, snap, told) ==
    /\ Joinable(s)
    /\ link' = [link EXCEPT ![s] = [FreshLink EXCEPT !.told = told]]
    /\ cache' = [cache EXCEPT ![s].snap = snap, ![s].ready = FALSE]
Orphaned(s) == [decoder EXCEPT !.live = @ /\ decoder.owner # s,
                               !.pending = @ /\ active # s]
Snaps == {IF ok THEN Armed ELSE Disarmed : ok \in Succeeds("alloc")}

(* A start that fails is a session that failed (slot_stop_with_state).     *)
Reconnect(s) ==
    /\ Connect(s, Disarmed, <<>>)
    /\ decoder' = Orphaned(s)
    /\ \E starts \in Succeeds("start") :
          slot' = [slot EXCEPT ![s] = [Started(s, starts) EXCEPT !.failed = ~starts]]

-----------------------------------------------------------------------------
(* native_complete_session_switch, from Switch to the watchdog it arms.    *)

Switch ==
    /\ At("switch")
    /\ LET s == sdl.goal IN
       IF ~slot[s].rdp \/ slot[s].failed \/ s = active
       THEN Return /\ UNCHANGED <<slot, target>>
       ELSE /\ target' = NoSlot
            /\ slot' = [slot EXCEPT ![s].moved = FALSE]
            /\ Call("flip", s, sdl.back)
    /\ UNCHANGED <<cache, link, decoder, active, streaming, request, refresh, watchdog, budget>>

(* Under video_lock: the demoted slot stops feeding the decoder here.      *)
Flip ==
    /\ At("flip")
    /\ active' = sdl.goal
    /\ refresh' = FALSE
    /\ sdl' = [sdl EXCEPT !.pc = "demote", !.old = active]
    /\ UNCHANGED <<slot, cache, link, decoder, streaming, target, request, watchdog, budget>>

(* native_background_slot(s)                                               *)
Background(s) ==
    IF ~slot[s].rdp \/ slot[s].suppressed
    THEN UNCHANGED <<slot, cache, link, decoder>>
    ELSE IF slot[s].ineffective /\ slot[s].state = "active"
    THEN \E starts \in Succeeds("start"), snap \in Snaps :
            /\ Connect(s, snap, IF starts /\ ~snap.armed THEN <<"suppress">> ELSE <<>>)
            /\ decoder' = Orphaned(s)
            /\ slot' = [slot EXCEPT ![s] =
                    [Started(s, starts) EXCEPT !.failed = ~starts,
                                               !.filling = starts /\ snap.armed,
                                               !.timed = @ /\ ~(starts /\ snap.armed),
                                               !.suppressed = starts /\ ~snap.armed]]
    ELSE /\ Say(s, <<"suppress">>)
         /\ slot' = [slot EXCEPT ![s].suppressed = TRUE]
         /\ UNCHANGED <<cache, decoder>>

Demote ==
    /\ At("demote")
    /\ Background(sdl.old)
    /\ Goto("promote")
    /\ UNCHANGED <<screen, refresh, watchdog, budget>>

(* Mutant: a switch does not arm the watchdog.                             *)
Watch_disarmed == watchdog' = [on |-> FALSE, used |-> FALSE] /\ Return

(* The switch is done: it arms the watchdog and goes back to its caller.   *)
Watch == watchdog' = [on |-> TRUE, used |-> FALSE] /\ Return

(* Mutant: a replay does not wait for the quiet window.                    *)
Promote_hasty ==
    /\ At("promote")
    /\ LET s == sdl.goal
           replays == cache[s].ready /\ Ready(cache[s].snap)
       IN
       IF slot[s].suppressed /\ ~slot[s].filling
       THEN /\ slot' = [slot EXCEPT ![s].suppressed = FALSE]
            /\ IF cache[s].ready THEN Forget(s) ELSE UNCHANGED cache
            /\ sdl' = [sdl EXCEPT !.pc = IF replays THEN "replay" ELSE "wake",
                                  !.left = IF replays THEN cache[s].snap.aus ELSE <<>>]
            /\ UNCHANGED watchdog
       ELSE /\ slot' = [slot EXCEPT ![s].filling = FALSE]
            /\ (IF slot[s].filling THEN Forget(s) ELSE UNCHANGED cache)
            /\ Watch
    /\ UNCHANGED <<link, decoder, screen, refresh, budget>>

(* The target's side: a fill in flight goes live as it is, a suppressed    *)
(* slot replays its snapshot if it has one that has fallen quiet.          *)
Promote ==
    /\ At("promote")
    /\ LET s == sdl.goal
           replays == cache[s].ready /\ Ready(cache[s].snap) /\ cache[s].quiet
       IN
       \/ /\ slot[s].filling
          /\ slot' = [slot EXCEPT ![s].filling = FALSE]
          /\ Forget(s) /\ Watch
       \/ /\ ~slot[s].filling /\ slot[s].suppressed
          /\ slot' = [slot EXCEPT ![s].suppressed = FALSE]
          /\ IF cache[s].ready THEN Forget(s) ELSE UNCHANGED cache
          /\ sdl' = [sdl EXCEPT !.pc = IF replays THEN "replay" ELSE "wake",
                                !.left = IF replays THEN cache[s].snap.aus ELSE <<>>]
          /\ UNCHANGED watchdog
       \/ /\ ~slot[s].filling /\ ~slot[s].suppressed
          /\ Watch /\ UNCHANGED <<slot, cache>>
    /\ UNCHANGED <<link, decoder, screen, refresh, budget>>

(* Mutant: a unit the loading decoder discarded counts as fed.             *)
Replay_dropCounts ==
    /\ At("replay") /\ sdl.left # <<>>
    /\ \E r \in Offers(sdl.goal, Head(sdl.left)) :
          /\ Accept(r)
          /\ sdl' = [sdl EXCEPT !.left = Tail(@), !.fed = TRUE]
    /\ UNCHANGED <<slot, cache, link, screen, watchdog>>

(* native_snapshot_replay: the cached units go through on_video_au, one at *)
(* a time; a session that failed meanwhile ends it.                        *)
Replay ==
    /\ At("replay") /\ sdl.left # <<>>
    /\ LET s == sdl.goal
           rest == IF slot[s].failed THEN <<>> ELSE Tail(sdl.left)
       IN
       IF Refused(s, Head(sdl.left))
       THEN /\ sdl' = [sdl EXCEPT !.left = rest]
            /\ UNCHANGED <<slot, decoder, refresh, budget>>
       ELSE \E r \in Offers(s, Head(sdl.left)) :
            /\ refresh' = (refresh \/ r.asks)
            /\ budget' = [budget EXCEPT !.drops = IF r.drops THEN @ - 1 ELSE @]
            /\ decoder' = [r.decoder EXCEPT !.pending = @ /\ ~r.ok]
            /\ slot' = [slot EXCEPT ![s].moved = @ \/ r.ok]
            /\ sdl' = [sdl EXCEPT !.left = rest, !.fed = @ \/ r.ok]
    /\ UNCHANGED <<cache, link, screen, watchdog>>

(* The replay is over: the server goes on from where it ends, if it fed    *)
(* anything.                                                               *)
Replayed ==
    /\ At("replay") /\ sdl.left = <<>>
    /\ IF sdl.fed
       THEN Say(sdl.goal, <<"resume">>) /\ Watch
       ELSE Goto("wake") /\ UNCHANGED <<link, watchdog>>
    /\ UNCHANGED <<slot, cache, decoder, screen, refresh, budget>>

(* Mutant: the server is asked for a keyframe, but not to resume.          *)
Wake_refreshOnly ==
    /\ At("wake")
    /\ Say(sdl.goal, <<"refresh">>)
    /\ Watch
    /\ UNCHANGED <<slot, cache, decoder, screen, refresh, budget>>

(* No replay: the failure drain has the slot, or it reconnects, or it is   *)
(* asked to resume and to send a keyframe.                                 *)
Wake ==
    /\ At("wake")
    /\ LET s == sdl.goal IN
       \/ /\ slot[s].failed
          /\ UNCHANGED <<slot, cache, link, decoder>>
       \/ /\ ~slot[s].failed /\ slot[s].ineffective
          /\ Reconnect(s)
       \/ /\ ~slot[s].failed /\ ~slot[s].ineffective
          /\ Say(s, <<"resume", "refresh">>)
          /\ UNCHANGED <<slot, cache, decoder>>
    /\ Watch
    /\ UNCHANGED <<screen, refresh, budget>>

-----------------------------------------------------------------------------
(* native_prepare_pending_switch(sdl.goal)                                 *)

Prepare ==
    /\ At("prepare")
    /\ LET s == sdl.goal IN
       \/ /\ slot[s].filling
          /\ Return /\ UNCHANGED <<slot, cache, link, decoder, target>>
       \/ /\ ~slot[s].filling /\ slot[s].ineffective
          /\ \E starts \in Succeeds("start"), snap \in Snaps :
                /\ Connect(s, snap, <<>>)
                /\ decoder' = Orphaned(s)
                /\ slot' = [slot EXCEPT ![s] =
                        [Started(s, starts) EXCEPT !.failed = ~starts, !.retried = TRUE,
                                                   !.filling = starts /\ snap.armed,
                                                   !.timed = @ /\ ~(starts /\ snap.armed)]]
                /\ IF starts /\ ~snap.armed
                   THEN target' = NoSlot /\ Goto("switch")
                   ELSE Return /\ UNCHANGED target
       \/ /\ ~slot[s].filling /\ ~slot[s].ineffective
          /\ \E snap \in Snaps :
                /\ cache' = [cache EXCEPT ![s].snap = snap, ![s].ready = FALSE]
                /\ IF snap.armed
                   THEN /\ slot' = [slot EXCEPT ![s].filling = TRUE, ![s].timed = FALSE,
                                                ![s].suppressed = FALSE]
                        /\ Say(s, <<"resume", "refresh">>)
                        /\ Return /\ UNCHANGED target
                   ELSE /\ target' = NoSlot /\ Goto("switch")
                        /\ UNCHANGED <<slot, link>>
          /\ UNCHANGED decoder
    /\ UNCHANGED <<active, streaming, request, refresh, watchdog, budget>>

-----------------------------------------------------------------------------
(* A colour key (native_request_session_switch).                           *)

(* The target can take the screen without a black reload window.           *)
ReadyNow(s) ==
    /\ ~slot[s].filling
    /\ slot[s].suppressed => cache[s].ready /\ cache[s].quiet

Spend == budget.presses > 0 /\ budget' = [budget EXCEPT !.presses = @ - 1]

(* The key of the slot on the screen takes a deferred switch back; it is   *)
(* free, for the press it takes back was not.                              *)
PressCancel ==
    /\ At("input") /\ target # NoSlot
    /\ target' = NoSlot
    /\ Rest("scan")
    /\ UNCHANGED <<slot, cache, link, decoder, active, streaming, request, refresh, watchdog, budget>>

PressLive(s) ==
    /\ At("input") /\ Target(s) /\ Spend
    /\ s = active => target = NoSlot /\ ~streaming
    /\ s # target
    /\ IF ReadyNow(s)
       THEN /\ target' = NoSlot
            /\ Call("switch", s, "scan") /\ UNCHANGED slot
       ELSE /\ target' = s
            /\ slot' = [slot EXCEPT ![s].retried = FALSE]
            /\ IF slot[s].suppressed /\ cache[s].ready
               THEN Rest("scan") ELSE Call("prepare", s, "scan")
    /\ UNCHANGED <<cache, link, decoder, active, streaming, request, refresh, watchdog>>

(* An offline slot: its configurator (native_show_slot_configurator), with *)
(* Connect pressed for it if its profile is complete.                      *)
PressOffline(s) ==
    /\ At("input") /\ ~Target(s) /\ ~slot[s].rdp /\ Spend
    /\ s = active => target = NoSlot
    /\ target' = NoSlot /\ streaming' = FALSE /\ active' = s
    /\ request' \in {s, NoSlot}
    /\ IF s = active
       THEN Rest("scan") /\ UNCHANGED watchdog
       ELSE /\ sdl' = [sdl EXCEPT !.pc = "leave", !.old = active]
            /\ watchdog' = [watchdog EXCEPT !.on = FALSE]
    /\ UNCHANGED <<slot, cache, link, decoder, refresh>>

Leave ==
    /\ At("leave")
    /\ Background(sdl.old)
    /\ Rest("scan")
    /\ UNCHANGED <<screen, refresh, watchdog, budget>>

-----------------------------------------------------------------------------
(* native_switch_tick, first part: slots that fill a snapshot unseen.      *)

First(S) == CHOOSE s \in S : \A t \in S : s <= t
Last_(S) == CHOOSE s \in S : \A t \in S : t <= s

Filling == {s \in Slots : s > sdl.at /\ s # active /\ slot[s].filling
                          /\ slot[s].rdp /\ slot[s].state = "active"}
Scan ==
    /\ At("input") \/ At("scan")
    /\ IF Filling = {}
       THEN Rest(IF target = NoSlot THEN "watchdog" ELSE "deferred")
       ELSE sdl' = [sdl EXCEPT !.pc = "filled", !.at = First(Filling),
                               !.seen = cache[First(Filling)].ready]
    /\ UNCHANGED <<slot, cache, link, decoder, screen, refresh, watchdog, budget>>

(* Mutants: the suppress is not sent; the slot still counts as filling.    *)
Silence_untold(s) ==
    /\ slot' = [slot EXCEPT ![s].suppressed = TRUE, ![s].filling = FALSE]
    /\ UNCHANGED link
Silence_stillFilling(s) ==
    /\ slot' = [slot EXCEPT ![s].suppressed = TRUE]
    /\ Say(s, <<"suppress">>)
Silence(s) ==
    /\ slot' = [slot EXCEPT ![s].suppressed = TRUE, ![s].filling = FALSE]
    /\ Say(s, <<"suppress">>)

(* A silenced slot without a cache answers a deferred switch to it now.    *)
NextOrSwitch(s) ==
    IF s = target
    THEN target' = NoSlot /\ Call("switch", s, "scan")
    ELSE Loop("scan", s) /\ UNCHANGED target

(* Cached or voided: silence the server.                                   *)
Filled ==
    /\ At("filled")
    /\ LET s == sdl.at IN
       /\ sdl.seen \/ ~cache[s].snap.armed
       /\ Silence(s)
       /\ IF sdl.seen THEN Loop("scan", s) /\ UNCHANGED target ELSE NextOrSwitch(s)
    /\ UNCHANGED <<cache, decoder, active, streaming, request, refresh, watchdog, budget>>

(* Not yet: the deadline starts with the first tick that sees the slot     *)
(* ACTIVE, and is not passed.                                              *)
StillFilling ==
    /\ At("filled") /\ ~sdl.seen /\ cache[sdl.at].snap.armed
    /\ slot' = [slot EXCEPT ![sdl.at].timed = TRUE]
    /\ Loop("scan", sdl.at)
    /\ UNCHANGED <<cache, link, decoder, screen, refresh, watchdog, budget>>

(* The deadline passed: a deferred switch learns that the server does not  *)
(* answer and fills by reconnecting, once; anything else gives the cache   *)
(* up.                                                                     *)
FillExpires ==
    /\ Elapsed
    /\ At("filled") /\ ~sdl.seen /\ cache[sdl.at].snap.armed /\ slot[sdl.at].timed
    /\ LET s == sdl.at IN
       IF s = target /\ ~slot[s].retried
       THEN /\ slot' = [slot EXCEPT ![s].ineffective = TRUE, ![s].filling = FALSE]
            /\ Call("prepare", s, "scan")
            /\ UNCHANGED <<cache, link, target>>
       ELSE /\ cache' = [cache EXCEPT ![s].snap = Disarmed]
            /\ Silence(s)
            /\ NextOrSwitch(s)
    /\ UNCHANGED <<decoder, active, streaming, request, refresh, watchdog, budget>>

(* Second part: the deferred switch.                                       *)
Gone(s) == ~slot[s].rdp \/ slot[s].failed
Ripe(s) == ~slot[s].filling /\ slot[s].suppressed /\ cache[s].ready /\ cache[s].quiet

Deferred ==
    /\ At("deferred")
    /\ IF Gone(target) THEN target' = NoSlot /\ Rest("watchdog")
       ELSE IF Ripe(target) THEN target' = NoSlot /\ Call("switch", target, "watchdog")
       ELSE Rest("watchdog") /\ UNCHANGED target
    /\ UNCHANGED <<slot, cache, link, decoder, active, streaming, request, refresh, watchdog, budget>>

(* Mutant: the deadline is looked at only while the target fills.          *)
DeferredExpires_whileFilling ==
    /\ Elapsed
    /\ At("deferred") /\ ~Gone(target) /\ slot[target].filling
    /\ target' = NoSlot /\ Call("switch", target, "watchdog")
    /\ UNCHANGED <<slot, cache, link, decoder, active, streaming, request, refresh, watchdog, budget>>

DeferredExpires ==
    /\ Elapsed
    /\ At("deferred") /\ ~Gone(target) /\ ~Ripe(target)
    /\ target' = NoSlot /\ Call("switch", target, "watchdog")
    /\ UNCHANGED <<slot, cache, link, decoder, active, streaming, request, refresh, watchdog, budget>>

(* Third part: a recovery a worker asked for, and the keyframe watchdog.   *)
Live(s) == slot[s].rdp /\ slot[s].state = "active"

Recover ==
    /\ At("watchdog") /\ refresh
    /\ refresh' = FALSE
    /\ Goto("deadline")
    /\ IF Live(active)
       THEN /\ slot' = [slot EXCEPT ![active].moved = FALSE]
            /\ Say(active, <<"refresh">>)
            /\ watchdog' = [on |-> TRUE, used |-> FALSE]
       ELSE UNCHANGED <<slot, link, watchdog>>
    /\ UNCHANGED <<cache, decoder, screen, budget>>

Deadline == At("deadline") \/ (At("watchdog") /\ ~refresh)
Watchdog ==
    /\ Deadline
    /\ watchdog' = [watchdog EXCEPT !.on = @ /\ ~slot[active].moved]
    /\ Rest("drain")
    /\ UNCHANGED <<slot, cache, link, decoder, screen, refresh, budget>>

(* It counts from ACTIVE: while the slot connects it is put off.           *)
WatchdogExpires ==
    /\ Elapsed
    /\ Deadline /\ watchdog.on /\ ~slot[active].moved /\ ~Connecting(active)
    /\ IF ~watchdog.used /\ slot[active].rdp
       THEN /\ slot' = [slot EXCEPT ![active].ineffective = TRUE, ![active].moved = FALSE]
            /\ watchdog' = [watchdog EXCEPT !.used = TRUE]
            /\ Goto("renew")
       ELSE /\ watchdog' = [watchdog EXCEPT !.on = FALSE]
            /\ Rest("drain") /\ UNCHANGED slot
    /\ UNCHANGED <<cache, link, decoder, screen, refresh, budget>>

Renew ==
    /\ At("renew")
    /\ Reconnect(active)
    /\ Rest("drain")
    /\ UNCHANGED <<screen, refresh, watchdog, budget>>

-----------------------------------------------------------------------------
(* The rest of the loop: the failure drain, entering a stream, Connect.    *)

Failed    == {s \in Slots : s > sdl.at /\ slot[s].failed}
Survivors == {s \in Slots \ {active} : Target(s) /\ slot[s].state = "active"}

(* The session on the screen died: another one takes over.                 *)
DrainSwitch ==
    /\ At("drain") /\ Failed # {} /\ First(Failed) = active
    /\ Survivors # {} /\ streaming
    /\ sdl' = [sdl EXCEPT !.pc = "switch", !.goal = Last_(Survivors),
                          !.back = "bury", !.at = active]
    /\ UNCHANGED <<slot, cache, link, decoder, screen, refresh, watchdog, budget>>
Bury ==
    /\ At("bury")
    /\ StopSlot(sdl.at)
    /\ Loop("drain", sdl.at)
    /\ UNCHANGED <<screen, refresh, watchdog, budget>>

(* Otherwise the slot is stopped; without a survivor the form comes back.  *)
DrainStop ==
    /\ At("drain") /\ Failed # {}
    /\ LET s == First(Failed) IN
       /\ s = active => Survivors = {} \/ ~streaming
       /\ StopSlot(s)
       /\ IF s = active /\ Survivors = {}
          THEN streaming' = FALSE /\ watchdog' = [watchdog EXCEPT !.on = FALSE]
          ELSE UNCHANGED <<streaming, watchdog>>
       /\ Loop("drain", s)
    /\ UNCHANGED <<active, target, request, refresh, budget>>

(* Nothing (more) failed.  If the slot of the form is ACTIVE its stream    *)
(* takes the screen; one left suppressed is resumed.                       *)
Enters == Live(active) /\ ~streaming /\ target = NoSlot
Enter ==
    /\ At("drain") /\ Failed = {}
    /\ streaming' = (streaming \/ Enters)
    /\ IF Enters /\ slot[active].suppressed
       THEN /\ slot' = [slot EXCEPT ![active].suppressed = FALSE, ![active].moved = FALSE]
            /\ Say(active, <<"resume", "refresh">>)
            /\ watchdog' = [on |-> TRUE, used |-> FALSE]
       ELSE UNCHANGED <<slot, link, watchdog>>
    /\ Rest(IF request = NoSlot THEN "input" ELSE "connect")
    /\ UNCHANGED <<cache, decoder, active, target, request, refresh, budget>>

(* Connect, for the slot whose form is shown; refused while it connects.   *)
Dial ==
    /\ At("connect")
    /\ request' = NoSlot
    /\ LET s == request IN
       IF Connecting(s)
       THEN UNCHANGED <<slot, cache, link, decoder, active, target, refresh, watchdog>>
       ELSE /\ active' = s /\ target' = NoSlot /\ refresh' = FALSE
            /\ watchdog' = [watchdog EXCEPT !.on = FALSE]
            /\ \E starts \in Succeeds("start") :
                  /\ slot' = [slot EXCEPT ![s] = Started(s, starts)]
                  /\ decoder' = IF ~starts /\ Connected \subseteq {s}
                                THEN NoMedia ELSE Orphaned(s)
            /\ Connect(s, Disarmed, <<>>)
    /\ Rest("input")
    /\ UNCHANGED <<streaming, budget>>

Sdl ==
    \/ PressCancel \/ Leave
    \/ \E s \in Slots : PressLive(s) \/ PressOffline(s)
    \/ Switch \/ Flip \/ Demote \/ Promote \/ Replay \/ Replayed \/ Wake \/ Prepare
    \/ Scan \/ Filled \/ StillFilling \/ FillExpires
    \/ Deferred \/ DeferredExpires
    \/ Recover \/ Watchdog \/ WatchdogExpires \/ Renew
    \/ DrainSwitch \/ Bury \/ DrainStop
    \/ Enter \/ Dial

Next == Sdl \/ \E s \in Slots : Worker(s)

Spec == Init /\ [][Next]_vars

(* Fairness: the SDL thread is not blocked for ever, a deadline that keeps *)
(* coming up passes, handshakes complete or fail, callbacks end, and a     *)
(* server sends the keyframe it owes and acts on what it is told.          *)
Progress(s) ==
    \/ Activate(s) \/ (Emit(s) /\ link[s].owes)
    \/ Keep(s) \/ Feed(s) \/ Count(s) \/ Flag(s)
FairSpec ==
    /\ Spec
    /\ WF_vars(Sdl)
    /\ SF_vars(FillExpires) /\ SF_vars(DeferredExpires) /\ SF_vars(WatchdogExpires)
    /\ \A s \in Slots : WF_vars(Progress(s)) /\ WF_vars(Obey(s) \/ FallQuiet(s))

-----------------------------------------------------------------------------
(* Properties.                                                             *)

(* The SDL thread is between two iterations of its loop.                   *)
Rested == At("input")

(* What the server of s will do once it has obeyed.                        *)
Toggled(s) == {i \in 1 .. Len(link[s].told) : link[s].told[i] # "refresh"}
Streams(s) == IF Toggled(s) = {} THEN link[s].out
              ELSE link[s].told[Last_(Toggled(s))] = "resume"

(* The decoder shows the current connection of s.                          *)
Shows(s) == decoder.owner = s /\ decoder.live /\ decoder.gate = "open"

SlotType == [rdp : BOOLEAN, state : {"idle", "connecting", "active", "over"},
             failed : BOOLEAN, suppressed : BOOLEAN, filling : BOOLEAN, timed : BOOLEAN,
             retried : BOOLEAN, ineffective : BOOLEAN, moved : BOOLEAN]
CacheType == [snap : [armed : BOOLEAN, aus : Seq(AUs)], ready : BOOLEAN, quiet : BOOLEAN]
LinkType == [told : Seq({"suppress", "resume", "refresh"}), out : BOOLEAN, owes : BOOLEAN,
             sent : Nat, hand : {"none", "behind", "front", "fed", "failing"},
             au : [n : Nat, kind : Kinds]]

(* Types; and what the fields of a slot may be together: a slot fills or   *)
(* is suppressed, never both, and a snapshot stays within its bound.       *)
TypeOK ==
    /\ slot \in [Slots -> SlotType] /\ cache \in [Slots -> CacheType]
    /\ link \in [Slots -> LinkType]
    /\ active \in Slots /\ target \in Slots \cup {NoSlot} /\ request \in Slots \cup {NoSlot}
    /\ streaming \in BOOLEAN /\ refresh \in BOOLEAN
    /\ \A s \in Slots : ~(slot[s].filling /\ slot[s].suppressed)
    /\ \A s \in Slots : Len(cache[s].snap.aus) <= MaxEntries

(* The stream on the screen is never left switched off.                    *)
ScreenStreams ==
    Rested /\ streaming /\ slot[active].rdp /\ ~slot[active].failed =>
        Streams(active) /\ ~slot[active].suppressed /\ ~slot[active].filling

(* A session nobody sees is silenced, or is filling a snapshot that the    *)
(* tick will end.                                                          *)
HiddenSilenced ==
    Rested => \A s \in Slots \ {active} :
        slot[s].rdp /\ ~slot[s].filling /\ ~slot[s].failed => slot[s].suppressed /\ ~Streams(s)

(* A snapshot that may be replayed ends exactly where its server's stream  *)
(* stopped.                                                                *)
CacheEndsWithStream ==
    \A s \in Slots :
        slot[s].suppressed /\ cache[s].ready /\ cache[s].quiet /\ cache[s].snap.armed
        /\ slot[s].state = "active" =>
            LET aus == cache[s].snap.aus IN
            /\ Whole(aus)
            /\ aus[Len(aus)].n = link[s].sent
            /\ link[s].hand = "none"

(* A replay that resumes the server leaves the decoder at the server's     *)
(* last frame, unless recovery is already under way.                       *)
ReplayRejoins ==
    [][Replayed /\ sdl.fed =>
        \/ Shows(sdl.goal) /\ decoder.whole /\ decoder.last = link[sdl.goal].sent
        \/ refresh \/ slot[sdl.goal].failed]_vars

(* Parameter sets alone of the current stream of s, for a decoder that     *)
(* runs: the unit the transport's keyframe flag does not tell from an IDR. *)
OffersSets(s) == decoder.gate = "open" /\ link[s].hand = "front" /\ link[s].au.kind = "config"

(* Another stream, or another connection, takes the decoder over with its  *)
(* IDR, and so does a stream that finds it closed or reloading.  The one   *)
(* exception is a running decoder of the same size, which on_video_au also *)
(* hands over for parameter sets alone, never for a delta or in a replay.  *)
OnlyKeyframesTakeOver ==
    [][decoder'.gate = "open" /\ decoder'.live
       /\ (decoder'.owner # decoder.owner \/ ~decoder.live \/ decoder.gate = "idr") =>
           decoder'.whole \/ OffersSets(decoder'.owner)]_vars

(* Without a session there is no media pipeline.                           *)
NoMediaLeak == Rested /\ Connected = {} => decoder.owner = NoSlot /\ ~decoder.audio

(* A deferred switch is answered.                                          *)
SwitchAnswered == target # NoSlot ~> target = NoSlot

(* The session on the screen gets its picture.                             *)
PictureComes ==
    \A s \in Slots :
        (streaming /\ active = s /\ slot[s].rdp) ~>
            (Shows(s) \/ active # s \/ ~streaming \/ slot[s].failed \/ ~slot[s].rdp)

(* The watchdog is satisfied by frames the decoder could decode.           *)
WatchdogHonest ==
    [][Deadline /\ watchdog.on /\ ~watchdog'.on /\ slot[active].moved =>
        decoder.whole]_vars

(* A dead session is never what the user is left looking at.               *)
ScreenHasSession == Rested /\ streaming => slot[active].rdp
===============================================================================
