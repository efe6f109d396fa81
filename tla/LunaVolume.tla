----------------------------- MODULE LunaVolume -----------------------------
(***************************************************************************)
(* The system volume: the application's thread (main.c: the MASTER fader,  *)
(* the watcher that raises the mixer), the thread with the loop that talks *)
(* to the Luna bus (luna_volume.c), and a bus that answers late, out of    *)
(* order or never.  Times are what the comparisons see of them: a call is  *)
(* stalled once LUNA_VOLUME_CALL_STALL_US have passed.  reply_seq is only  *)
(* ever compared with the value recorded, so it is kept as "moved"; a token *)
(* with the last one, so it is kept as "last".                             *)
(***************************************************************************)
EXTENDS Naturals, Sequences, FiniteSets

CONSTANTS
    Volumes,    \* percentages
    Unknown,    \* no percentage, -1
    MaxEvents   \* bound: sources attached to the loop and not run

ASSUME VolumeConstants == Unknown \notin Volumes /\ MaxEvents \in Nat

VARIABLES
    cache, moved,               \* volume_pct; reply_seq # baseline_seq
    desired, invokeQueued, loopReady,
    handle,                     \* the bus took the registration
    events, loopStep,           \* sources attached to the loop; the callback it is in
    setInFlight, setStalled,
    getInFlight, getStalled,
    setCalls, getCalls,         \* calls the bus may still answer, with their tokens
    streaming,                  \* streaming_visible
    mainStep, tickPct, volumeSeen, mixerUp,
    asked, sentPct              \* history: the volume the user set last, and the one the
                                \* bus was called with since then

cacheVars == <<cache, moved>>
loopVars == <<desired, asked, invokeQueued, loopReady, handle, events, loopStep>>
setVars == <<setInFlight, setStalled, setCalls, sentPct>>
getVars == <<getInFlight, getStalled, getCalls>>
mainVars == <<streaming, mainStep, tickPct, volumeSeen, mixerUp>>
volumeVars == <<cacheVars, loopVars, setVars, getVars, mainVars>>

VolumeInit ==
    /\ cache = Unknown /\ moved = FALSE
    /\ desired = Unknown /\ invokeQueued = FALSE /\ loopReady = FALSE /\ handle = FALSE
    /\ events = <<>> /\ loopStep = "idle"
    /\ setInFlight = FALSE /\ setStalled = FALSE /\ setCalls = {}
    /\ asked = Unknown /\ sentPct = Unknown
    /\ getInFlight = FALSE /\ getStalled = FALSE /\ getCalls = {}
    /\ streaming = FALSE /\ mainStep = "idle" /\ tickPct = Unknown /\ volumeSeen = Unknown
    /\ mixerUp = FALSE

----------------------------------------------------------------------------
(* The application's thread.                                               *)

\* luna_volume_invoke: what is posted before the loop runs is lost.
Invoke(event) == events' = IF loopReady THEN Append(events, event) ELSE events
Room == Len(events) < MaxEvents

\* A set stores the value, then queues a dispatch unless one is queued.
SetVolume(pct) ==
    /\ mainStep = "idle" /\ mixerUp /\ cache # Unknown
    /\ mainStep' = "invoke"
    /\ cache' = pct /\ desired' = pct
    /\ asked' = pct /\ sentPct' = Unknown
    /\ UNCHANGED <<moved, invokeQueued, loopReady, handle, events, loopStep, setInFlight,
                   setStalled, setCalls, getVars, streaming, tickPct, volumeSeen, mixerUp>>

SetInvoke ==
    /\ mainStep = "invoke" /\ mainStep' = "idle"
    /\ \/ invokeQueued /\ UNCHANGED <<invokeQueued, events>>
       \/ ~invokeQueued /\ Room /\ Invoke("dispatch") /\ invokeQueued' = loopReady
    /\ UNCHANGED <<cacheVars, desired, asked, loopReady, handle, loopStep, setVars, getVars,
                   streaming, tickPct, volumeSeen, mixerUp>>

beyondEvents == <<cacheVars, desired, asked, invokeQueued, loopReady, handle, loopStep,
                  setVars, getVars>>

\* native_luna_volume_refresh, by the overlay's own poll and by an adjusted fader of
\* unknown volume.
Refresh ==
    /\ mainStep = "idle" /\ mixerUp /\ Room
    /\ Invoke("refresh")
    /\ UNCHANGED <<beyondEvents, mainVars>>

\* Opened by a key it asks for the volume too.
Show ==
    /\ mainStep = "idle" /\ streaming /\ ~mixerUp /\ Room
    /\ mixerUp' = TRUE
    /\ Invoke("refresh")
    /\ UNCHANGED <<beyondEvents, streaming, mainStep, tickPct, volumeSeen>>

Hide ==
    /\ mainStep = "idle" /\ mixerUp
    /\ mixerUp' = FALSE
    /\ UNCHANGED <<cacheVars, loopVars, setVars, getVars, streaming, mainStep, tickPct, volumeSeen>>

\* The streaming screen is entered: native_system_volume_rebaseline.
EnterStream ==
    /\ mainStep = "idle" /\ ~streaming
    /\ streaming' = TRUE
    /\ volumeSeen' = Unknown /\ moved' = FALSE
    /\ UNCHANGED <<cache, loopVars, setVars, getVars, mainStep, tickPct, mixerUp>>

\* It is left for the HUB, a configurator or the form of a failed session, none of
\* which keeps the mixer open.
LeaveStream ==
    /\ mainStep = "idle" /\ streaming
    /\ streaming' = FALSE /\ mixerUp' = FALSE
    /\ UNCHANGED <<cacheVars, loopVars, setVars, getVars, mainStep, tickPct, volumeSeen>>

\* native_system_volume_tick: nothing off the streaming screen; the poll, then the
\* cached volume, then the sequence.
TickLoad(poll) ==
    /\ mainStep = "idle" /\ streaming /\ mainStep' = "compare"
    /\ IF poll THEN Room /\ Invoke("refresh") ELSE UNCHANGED events
    /\ tickPct' = cache
    /\ UNCHANGED <<beyondEvents, streaming, volumeSeen, mixerUp>>

Quiet == tickPct = Unknown \/ (volumeSeen = Unknown /\ ~moved) \/ tickPct = volumeSeen

\* The first trusted value is the baseline, a change raises the mixer.
TickCompare ==
    /\ mainStep = "compare" /\ mainStep' = "idle"
    /\ tickPct' = Unknown
    /\ IF Quiet
       THEN UNCHANGED <<volumeSeen, mixerUp, events>>
       ELSE /\ volumeSeen' = tickPct
            /\ IF volumeSeen = Unknown \/ mixerUp
               THEN UNCHANGED <<mixerUp, events>>
               ELSE Room /\ Invoke("refresh") /\ mixerUp' = TRUE
    /\ UNCHANGED <<beyondEvents, streaming>>

----------------------------------------------------------------------------
(* The loop's thread.                                                      *)

\* The refresh of the program's start (main.c) comes too early and is lost, or just in time.
Boot ==
    /\ ~loopReady /\ loopReady' = TRUE
    /\ handle' \in BOOLEAN
    /\ UNCHANGED events \/ (Room /\ events' = Append(events, "refresh"))
    /\ UNCHANGED <<cacheVars, desired, asked, invokeQueued, loopStep, setVars, getVars, mainVars>>

\* The last call is cancelled, or it is too late for that.
Cancelled(calls) == {c \in calls : ~c.last}
TooLate(calls) == {[c EXCEPT !.cancelled = @ \/ c.last] : c \in calls}
Older(calls) == {[c EXCEPT !.last = FALSE] : c \in calls}

\* luna_volume_send_set, with the calls left: the value is taken, also when there is no
\* registration to make a call with or the bus refuses the call.
SendSet(calls) ==
    LET calling == handle /\ desired # Unknown IN
    /\ desired' = Unknown /\ setStalled' = FALSE
    /\ sentPct' = IF calling THEN desired ELSE sentPct
    /\ \/ /\ calling /\ setInFlight' = TRUE
          /\ setCalls' = Older(calls) \cup {[last |-> TRUE, cancelled |-> FALSE]}
       \/ setInFlight' = FALSE /\ setCalls' = calls

RecoverSet == \E calls \in {Cancelled(setCalls), TooLate(setCalls)} : SendSet(calls)

Run(event) == loopStep = "idle" /\ events # <<>> /\ Head(events) = event /\ events' = Tail(events)

\* luna_volume_dispatch_cb: the flag first, for an edit from here on queues another
\* dispatch; then the value, unless a call is in flight.
Dispatch ==
    /\ Run("dispatch")
    /\ invokeQueued' = FALSE /\ loopStep' = "send"
    /\ UNCHANGED <<cacheVars, desired, asked, loopReady, handle, setVars, getVars, mainVars>>

Sending == loopStep = "send" /\ loopStep' = "idle"
besidesSets == <<cacheVars, asked, invokeQueued, loopReady, handle, getVars, mainVars>>

\* Mutant: sends although a call is in flight.
DispatchSend_always ==
    /\ Sending /\ SendSet(setCalls)
    /\ UNCHANGED <<besidesSets, events>>

\* Mutant: takes the value although it cannot send it yet.
DispatchSend_taking ==
    /\ Sending
    /\ IF setInFlight
       THEN desired' = Unknown /\ UNCHANGED setVars
       ELSE SendSet(setCalls)
    /\ UNCHANGED <<besidesSets, events>>

DispatchSend ==
    /\ Sending
    /\ IF setInFlight
       THEN IF setStalled THEN RecoverSet ELSE UNCHANGED <<desired, setVars>>
       ELSE SendSet(setCalls)
    /\ UNCHANGED <<besidesSets, events>>

\* A get with the calls left; the bus may refuse it.
SendGet(calls) ==
    /\ getStalled' = FALSE
    /\ \/ /\ getInFlight' = TRUE
          /\ getCalls' = Older(calls) \cup {[last |-> TRUE, cancelled |-> FALSE, overtaken |-> FALSE]}
       \/ getInFlight' = FALSE /\ getCalls' = calls

\* Mutant: recovers the get alone.
RunRefreshGet ==
    /\ Run("refresh")
    /\ IF ~handle \/ (getInFlight /\ ~getStalled)
       THEN UNCHANGED getVars
       ELSE IF getInFlight
            THEN \E calls \in {Cancelled(getCalls), TooLate(getCalls)} : SendGet(calls)
            ELSE SendGet(getCalls)
    /\ UNCHANGED <<cacheVars, desired, asked, setVars, invokeQueued, loopReady, handle, loopStep,
                   mainVars>>

\* luna_volume_refresh_cb: a stalled set is sent again, a stalled get replaced.
RunRefresh ==
    /\ Run("refresh")
    /\ IF handle /\ setInFlight /\ setStalled THEN RecoverSet ELSE UNCHANGED <<desired, setVars>>
    /\ IF ~handle \/ (getInFlight /\ ~getStalled)
       THEN UNCHANGED getVars
       ELSE IF getInFlight
            THEN \E calls \in {Cancelled(getCalls), TooLate(getCalls)} : SendGet(calls)
            ELSE SendGet(getCalls)
    /\ UNCHANGED <<cacheVars, asked, invokeQueued, loopReady, handle, loopStep, mainVars>>

\* luna_volume_set_reply_cb
SetReply ==
    /\ loopStep = "idle"
    /\ \E c \in setCalls :
          IF ~c.last
          THEN /\ setCalls' = setCalls \ {c}
               /\ UNCHANGED <<desired, setInFlight, setStalled, sentPct>>
          ELSE SendSet(setCalls \ {c})
    /\ UNCHANGED <<besidesSets, events, loopStep>>

Overtake(calls) == {[c EXCEPT !.overtaken = TRUE] : c \in calls}

Reading == loopStep' = "count" /\ cache' \in Volumes
besidesGets == <<moved, desired, asked, invokeQueued, loopReady, handle, events, setVars,
                 getStalled, mainVars>>

\* Mutant: stores whatever arrives.
GetReplyAny ==
    /\ loopStep = "idle"
    /\ \E c \in getCalls :
          /\ getInFlight' = FALSE
          /\ Reading
          /\ getCalls' = Overtake(getCalls \ {c})
    /\ UNCHANGED besidesGets

\* luna_volume_get_reply_cb: a reading is stored, and then counted.
GetReply ==
    /\ loopStep = "idle"
    /\ \E c \in getCalls :
          IF ~c.last
          THEN getCalls' = getCalls \ {c} /\ UNCHANGED <<cache, loopStep, getInFlight>>
          ELSE /\ getInFlight' = FALSE
               /\ \/ Reading /\ getCalls' = Overtake(getCalls \ {c})
                  \/ UNCHANGED <<cache, loopStep>> /\ getCalls' = getCalls \ {c}
    /\ UNCHANGED besidesGets

Count ==
    /\ loopStep = "count" /\ loopStep' = "idle"
    /\ moved' = TRUE
    /\ UNCHANGED <<cache, desired, asked, invokeQueued, loopReady, handle, events, setVars, getVars,
                   mainVars>>

Stall ==
    /\ (setInFlight /\ ~setStalled) \/ (getInFlight /\ ~getStalled)
    /\ setStalled' = setInFlight /\ getStalled' = getInFlight
    /\ UNCHANGED <<cacheVars, loopVars, setInFlight, setCalls, sentPct,
                   getInFlight, getCalls, mainVars>>

----------------------------------------------------------------------------
Loop == Dispatch \/ DispatchSend \/ RunRefresh \/ Count
Ticking == SetInvoke \/ TickCompare
Polling == TickLoad(TRUE)

VolumeNext ==
    \/ \E pct \in Volumes : SetVolume(pct)
    \/ Ticking \/ Refresh \/ Show \/ Hide \/ EnterStream \/ LeaveStream
    \/ \E poll \in BOOLEAN : TickLoad(poll)
    \/ Boot \/ Loop \/ SetReply \/ GetReply \/ Stall

VolumeSpec == VolumeInit /\ [][VolumeNext]_volumeVars

\* Both threads run and time passes.  A stream that is shown again and again is polled
\* again and again: a drag of the fader holds the poll off, and ends; off the streaming
\* screen there is none.  Nothing is assumed of the user, nor of the bus.
VolumeFairness ==
    /\ WF_volumeVars(Loop) /\ WF_volumeVars(Ticking) /\ WF_volumeVars(Stall)
    /\ SF_volumeVars(Polling)

FairVolumeSpec == VolumeSpec /\ VolumeFairness

----------------------------------------------------------------------------
\* Every variable keeps to its type.
VolumeTypeOK ==
    /\ {cache, desired, asked, sentPct, tickPct, volumeSeen} \subseteq Volumes \cup {Unknown}
    /\ {moved, invokeQueued, loopReady, handle, setInFlight, setStalled, getInFlight,
        getStalled, streaming, mixerUp} \subseteq BOOLEAN
    /\ events \in Seq({"dispatch", "refresh"}) /\ Len(events) <= MaxEvents
    /\ loopStep \in {"idle", "send", "count"}
    /\ setCalls \subseteq [last : BOOLEAN, cancelled : BOOLEAN]
    /\ getCalls \subseteq [last : BOOLEAN, cancelled : BOOLEAN, overtaken : BOOLEAN]
    /\ mainStep \in {"idle", "invoke", "compare"}

\* "At most ONE call in flight" (luna_volume.h): however edits, replies, refusals and
\* stalls follow each other, the bus holds one set and one get that was not cancelled.
OneCallEach ==
    \A calls \in {setCalls, getCalls} : Cardinality({c \in calls : ~c.cancelled}) <= 1

\* The cache only ever moves to a newer reading: a get that is answered after a later
\* one was is ignored (the tokens of luna_volume.c).
ReadingsInOrder ==
    [][\A c \in getCalls \ getCalls' : c.overtaken /\ loopStep' # loopStep => loopStep' # "count"]_volumeVars

\* The value of desired will be looked at: the edit is about to queue a dispatch, one is
\* queued or running, or a call is in flight whose reply or stall chains it.
Awaited ==
    \/ mainStep = "invoke" \/ loopStep = "send" \/ setInFlight
    \/ \E i \in 1 .. Len(events) : events[i] = "dispatch"

\* "The newest requested value is sent when the bus is idle, otherwise it chains from
\* the in-flight call's reply" (luna_volume.h): the value the user set last waits where
\* something will take it, or the bus, if there is one, was called with it since.  The
\* bus may refuse that call: its value is gone.
NewestSent ==
    IF desired = Unknown
    THEN handle => sentPct = asked
    ELSE desired = asked /\ Awaited

\* A value that waits for a dispatch or for a reply is taken to be sent, also when the
\* reply never comes (luna_volume_refresh_cb): as long as the user comes back to the
\* stream, for nothing polls anywhere else.
SetGoesOut == []<>streaming => (desired # Unknown ~> desired = Unknown)
=============================================================================
