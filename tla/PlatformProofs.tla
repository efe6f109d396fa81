--------------------------- MODULE PlatformProofs ---------------------------
(***************************************************************************)
(* Theorems about the two components that speak with the platform, for     *)
(* every value of their constants: LunaVolume, the calls to the television's *)
(* volume service and the readings they bring back, and ConfigStore, the   *)
(* settings in the files.                                                  *)
(***************************************************************************)
EXTENDS LunaVolume, ConfigStore, FiniteSetTheorems, WellFoundedInduction, TLAPS

----------------------------------------------------------------------------
(* The system volume: the types of what is not a call.                     *)

PercentagesOK == {cache, desired, asked, sentPct, tickPct, volumeSeen} \subseteq Volumes \cup {Unknown}
FlagsTyped ==
    {moved, invokeQueued, loopReady, handle, setInFlight, setStalled, getInFlight, getStalled,
     streaming, mixerUp} \subseteq BOOLEAN
EventsOK == events \in Seq({"dispatch", "refresh"}) /\ Len(events) <= MaxEvents
WhereaboutsOK == mainStep \in {"idle", "invoke", "compare"} /\ loopStep \in {"idle", "send", "count"}
VolumeTyped == PercentagesOK /\ FlagsTyped /\ EventsOK /\ WhereaboutsOK

LEMMA AppendTyped ==
    ASSUME EventsOK, Room, NEW event \in {"dispatch", "refresh"},
           UNCHANGED events \/ events' = Append(events, event)
    PROVE  EventsOK'
  BY VolumeConstants DEF EventsOK, Room

(* What a step does with the sources attached to the loop.                 *)
LEMMA EventsMove ==
    ASSUME [VolumeNext]_volumeVars
    PROVE  \/ UNCHANGED <<events, invokeQueued>>
           \/ Dispatch
           \/ Run("refresh") /\ UNCHANGED invokeQueued
           \/ /\ Room /\ (UNCHANGED events \/ events' = Append(events, "refresh"))
              /\ UNCHANGED invokeQueued
           \/ SetInvoke
  BY DEF VolumeNext, Ticking, Loop, SetVolume, TickCompare, Refresh, Show, Hide, EnterStream,
     LeaveStream, TickLoad, Boot, DispatchSend, RunRefresh, Count, SetReply, GetReply, Stall, Invoke,
     volumeVars, loopVars, beyondEvents, besidesSets, besidesGets

LEMMA EventsStep ==
    ASSUME VolumeTyped, [VolumeNext]_volumeVars
    PROVE  EventsOK'
<1>1. EventsOK
  BY DEF VolumeTyped
<1>2. CASE UNCHANGED events
  BY <1>1, <1>2 DEF EventsOK
<1>3. CASE Dispatch \/ Run("refresh")
  BY <1>1, <1>3, VolumeConstants DEF EventsOK, Dispatch, Run
<1>4. CASE Room /\ (UNCHANGED events \/ events' = Append(events, "refresh"))
  BY <1>1, <1>4, AppendTyped
<1>5. CASE SetInvoke
  BY <1>1, <1>2, <1>5, AppendTyped DEF SetInvoke, Invoke
<1> QED BY <1>2, <1>3, <1>4, <1>5, EventsMove

LEMMA PercentagesStep ==
    ASSUME VolumeTyped, [VolumeNext]_volumeVars
    PROVE  PercentagesOK'
<1> USE DEF VolumeTyped, PercentagesOK
<1>1. ASSUME NEW pct \in Volumes, SetVolume(pct) PROVE PercentagesOK'
  BY <1>1 DEF SetVolume
<1>2. CASE \/ SetInvoke \/ Refresh \/ Show \/ Hide \/ EnterStream \/ LeaveStream \/ TickCompare
           \/ Boot \/ Dispatch \/ Count \/ Stall
  BY <1>2 DEF SetInvoke, Refresh, Show, Hide, EnterStream, LeaveStream, TickCompare, Boot,
     Dispatch, Count, Stall, mainVars, cacheVars, loopVars, setVars, beyondEvents
<1>3. ASSUME NEW poll \in BOOLEAN, TickLoad(poll) PROVE PercentagesOK'
  BY <1>3 DEF TickLoad, cacheVars, setVars, beyondEvents
<1>4. CASE DispatchSend \/ RunRefresh \/ SetReply
  <2>1. /\ UNCHANGED <<cache, asked, tickPct, volumeSeen>>
        /\ desired' \in {desired, Unknown} /\ sentPct' \in {sentPct, desired}
    BY <1>4 DEF DispatchSend, RunRefresh, SetReply, RecoverSet, SendSet, cacheVars, mainVars,
       setVars, besidesSets
  <2> QED BY <2>1
<1>5. CASE GetReply
  <2>1. UNCHANGED <<desired, asked, sentPct, tickPct, volumeSeen>> /\ cache' \in Volumes \cup {cache}
    BY <1>5 DEF GetReply, Reading, mainVars, setVars, besidesGets
  <2> QED BY <2>1
<1>6. CASE UNCHANGED volumeVars
  BY <1>6 DEF volumeVars, cacheVars, loopVars, mainVars, setVars
<1> QED BY <1>1, <1>2, <1>3, <1>4, <1>5, <1>6 DEF VolumeNext, Ticking, Loop

LEMMA FlagsTypedStep ==
    ASSUME VolumeTyped, [VolumeNext]_volumeVars
    PROVE  FlagsTyped' /\ WhereaboutsOK'
<1> USE DEF VolumeTyped, FlagsTyped, WhereaboutsOK
<1>1. ASSUME NEW pct \in Volumes, SetVolume(pct) PROVE FlagsTyped' /\ WhereaboutsOK'
  BY <1>1 DEF SetVolume, getVars
<1>2. CASE SetInvoke \/ Refresh \/ Show \/ Hide \/ EnterStream \/ LeaveStream \/ TickCompare
  BY <1>2 DEF SetInvoke, Refresh, Show, Hide, EnterStream, LeaveStream, TickCompare, setVars,
     getVars, mainVars, cacheVars, loopVars, beyondEvents
<1>3. CASE Boot \/ Dispatch \/ Count \/ Stall
  BY <1>3 DEF Boot, Dispatch, Count, Stall, setVars, getVars, mainVars, cacheVars, loopVars
<1>4. ASSUME NEW poll \in BOOLEAN, TickLoad(poll) PROVE FlagsTyped' /\ WhereaboutsOK'
  BY <1>4 DEF TickLoad, setVars, getVars, cacheVars, beyondEvents
<1>5. CASE DispatchSend \/ RunRefresh \/ SetReply
  <2>1. /\ UNCHANGED <<moved, invokeQueued, loopReady, handle, streaming, mixerUp, mainStep>>
        /\ loopStep' \in {loopStep, "idle"}
    BY <1>5 DEF DispatchSend, Sending, RunRefresh, SetReply, cacheVars, mainVars, besidesSets
  <2>2. {setInFlight', setStalled'} \subseteq BOOLEAN
    BY <1>5 DEF DispatchSend, RunRefresh, SetReply, RecoverSet, SendSet, setVars
  <2>3. {getInFlight', getStalled'} \subseteq BOOLEAN
    BY <1>5 DEF DispatchSend, RunRefresh, SetReply, SendGet, getVars, besidesSets
  <2> QED BY <2>1, <2>2, <2>3
<1>6. CASE GetReply
  BY <1>6 DEF GetReply, Reading, setVars, mainVars, besidesGets
<1>7. CASE UNCHANGED volumeVars
  BY <1>7 DEF volumeVars, cacheVars, loopVars, setVars, getVars, mainVars
<1> QED BY <1>1, <1>2, <1>3, <1>4, <1>5, <1>6, <1>7 DEF VolumeNext, Ticking, Loop

THEOREM VolumeTypedAlways == VolumeSpec => []VolumeTyped
<1>1. ASSUME VolumeInit PROVE VolumeTyped
  <2>1. EventsOK
    BY <1>1, VolumeConstants DEF VolumeInit, EventsOK
  <2>2. PercentagesOK /\ FlagsTyped
    BY <1>1 DEF VolumeInit, PercentagesOK, FlagsTyped
  <2>3. WhereaboutsOK
    BY <1>1 DEF VolumeInit, WhereaboutsOK
  <2> QED BY <2>1, <2>2, <2>3 DEF VolumeTyped
<1>2. VolumeTyped /\ [VolumeNext]_volumeVars => VolumeTyped'
  BY EventsStep, PercentagesStep, FlagsTypedStep DEF VolumeTyped
<1> QED BY <1>1, <1>2, PTL DEF VolumeSpec

----------------------------------------------------------------------------
(* The calls the bus may still answer.                                     *)

SetCall == [last : BOOLEAN, cancelled : BOOLEAN]
GetCall == [last : BOOLEAN, cancelled : BOOLEAN, overtaken : BOOLEAN]

(* A call that was replaced was cancelled before, there is one last call,  *)
(* and nothing that is still wanted is outstanding when none is in flight. *)
AllCancelled(calls) == \A c \in calls : c.cancelled
Replaced(calls) == \A c \in calls : c.last \/ c.cancelled
OneLast(calls) == \A c, d \in calls : c.last /\ d.last => c = d

SetsInv ==
    /\ setCalls \subseteq SetCall /\ Replaced(setCalls) /\ OneLast(setCalls)
    /\ ~setInFlight => AllCancelled(setCalls)
GetsInv ==
    /\ getCalls \subseteq GetCall /\ Replaced(getCalls) /\ OneLast(getCalls)
    /\ ~getInFlight => AllCancelled(getCalls)

(* Before the loop runs there is nothing to queue a dispatch for; after it *)
(* the flag says that one is queued.                                       *)
Queued == \E i \in 1 .. Len(events) : events[i] = "dispatch"
LoopInv ==
    /\ ~loopReady => /\ events = <<>> /\ loopStep = "idle" /\ mainStep # "invoke"
                     /\ ~handle /\ setCalls = {} /\ getCalls = {}
                     /\ {cache, desired, asked, sentPct} = {Unknown}
    /\ invokeQueued => Queued

VolumeInv == SetsInv /\ GetsInv /\ LoopInv /\ NewestSent

----------------------------------------------------------------------------
(* What happens to the calls of either kind.                               *)

LEMMA Without ==
    ASSUME NEW calls, NEW c
    PROVE  /\ Replaced(calls) => Replaced(calls \ {c})
           /\ OneLast(calls) => OneLast(calls \ {c})
           /\ AllCancelled(calls) => AllCancelled(calls \ {c})
  BY DEF Replaced, OneLast, AllCancelled

LEMMA CancelledSets ==
    ASSUME SetsInv, NEW calls \in {Cancelled(setCalls), TooLate(setCalls)}
    PROVE  /\ calls \subseteq SetCall /\ OneLast(calls)
           /\ AllCancelled(calls)
<1>1. CASE calls = Cancelled(setCalls)
  BY <1>1 DEF SetsInv, Cancelled, Replaced, OneLast, AllCancelled
<1>2. CASE calls = TooLate(setCalls)
  <2>1. ASSUME NEW c \in calls
        PROVE  \E d \in setCalls : /\ d \in SetCall /\ (d.last \/ d.cancelled)
                                   /\ c = [d EXCEPT !.cancelled = d.cancelled \/ d.last]
    BY <1>2, <2>1 DEF SetsInv, TooLate, Replaced
  <2>2. ASSUME NEW c \in calls
        PROVE  c \in SetCall /\ c.cancelled
    <3>1. PICK d \in setCalls : /\ d \in SetCall /\ (d.last \/ d.cancelled)
                                /\ c = [d EXCEPT !.cancelled = d.cancelled \/ d.last]
      BY <2>1
    <3> QED BY <3>1 DEF SetCall
  <2>3. OneLast(calls)
    <3> SUFFICES ASSUME NEW c \in calls, NEW e \in calls, c.last, e.last PROVE c = e
      BY DEF OneLast
    <3>1. PICK d \in setCalls : d \in SetCall /\ c = [d EXCEPT !.cancelled = d.cancelled \/ d.last]
      BY <2>1
    <3>2. PICK f \in setCalls : f \in SetCall /\ e = [f EXCEPT !.cancelled = f.cancelled \/ f.last]
      BY <2>1
    <3>3. d.last /\ f.last
      BY <3>1, <3>2 DEF SetCall
    <3>4. d = f
      BY <3>3 DEF SetsInv, OneLast
    <3> QED BY <3>1, <3>2, <3>4
  <2> QED BY <2>2, <2>3 DEF AllCancelled
<1> QED BY <1>1, <1>2

LEMMA SentSets ==
    ASSUME NewestSent, NEW calls, calls \subseteq SetCall, OneLast(calls), AllCancelled(calls),
           SendSet(calls), UNCHANGED <<asked, handle>>
    PROVE  SetsInv' /\ NewestSent'
<1>1. NewestSent'
  BY DEF SendSet, NewestSent
<1>2. CASE setCalls' = calls
  <2>1. Replaced(calls)
    BY DEF Replaced, AllCancelled
  <2> QED BY <1>1, <1>2, <2>1 DEF SetsInv
<1>3. CASE /\ setInFlight'
           /\ setCalls' = Older(calls) \cup {[last |-> TRUE, cancelled |-> FALSE]}
  <2>1. ASSUME NEW c \in Older(calls)
        PROVE  c \in SetCall /\ ~c.last /\ c.cancelled
    <3>1. PICK d \in calls : d \in SetCall /\ d.cancelled /\ c = [d EXCEPT !.last = FALSE]
      BY <2>1 DEF Older, AllCancelled
    <3> QED BY <3>1 DEF SetCall
  <2>2. [last |-> TRUE, cancelled |-> FALSE] \in SetCall
    BY DEF SetCall
  <2> DEFINE left == Older(calls) \cup {[last |-> TRUE, cancelled |-> FALSE]}
  <2>3. left \subseteq SetCall /\ Replaced(left)
    <3>1. ASSUME NEW c \in left PROVE c \in SetCall /\ (c.last \/ c.cancelled)
      <4>1. CASE c \in Older(calls)
        BY <2>1, <4>1
      <4>2. CASE c = [last |-> TRUE, cancelled |-> FALSE]
        BY <2>2, <4>2
      <4> QED BY <4>1, <4>2
    <3> QED BY <3>1 DEF Replaced
  <2>4. OneLast(left)
    BY <2>1 DEF OneLast
  <2> HIDE DEF left
  <2>5. setCalls' = left
    BY <1>3 DEF left
  <2> QED BY <1>1, <1>3, <2>3, <2>4, <2>5 DEF SetsInv
<1> QED BY <1>2, <1>3 DEF SendSet

LEMMA CancelledGets ==
    ASSUME GetsInv, NEW calls \in {Cancelled(getCalls), TooLate(getCalls)}
    PROVE  /\ calls \subseteq GetCall /\ OneLast(calls)
           /\ AllCancelled(calls)
<1>1. CASE calls = Cancelled(getCalls)
  BY <1>1 DEF GetsInv, Cancelled, Replaced, OneLast, AllCancelled
<1>2. CASE calls = TooLate(getCalls)
  <2>1. ASSUME NEW c \in calls
        PROVE  \E d \in getCalls : /\ d \in GetCall /\ (d.last \/ d.cancelled)
                                   /\ c = [d EXCEPT !.cancelled = d.cancelled \/ d.last]
    BY <1>2, <2>1 DEF GetsInv, TooLate, Replaced
  <2>2. ASSUME NEW c \in calls
        PROVE  c \in GetCall /\ c.cancelled
    <3>1. PICK d \in getCalls : /\ d \in GetCall /\ (d.last \/ d.cancelled)
                                /\ c = [d EXCEPT !.cancelled = d.cancelled \/ d.last]
      BY <2>1
    <3> QED BY <3>1 DEF GetCall
  <2>3. OneLast(calls)
    <3> SUFFICES ASSUME NEW c \in calls, NEW e \in calls, c.last, e.last PROVE c = e
      BY DEF OneLast
    <3>1. PICK d \in getCalls : d \in GetCall /\ c = [d EXCEPT !.cancelled = d.cancelled \/ d.last]
      BY <2>1
    <3>2. PICK f \in getCalls : f \in GetCall /\ e = [f EXCEPT !.cancelled = f.cancelled \/ f.last]
      BY <2>1
    <3>3. d.last /\ f.last
      BY <3>1, <3>2 DEF GetCall
    <3>4. d = f
      BY <3>3 DEF GetsInv, OneLast
    <3> QED BY <3>1, <3>2, <3>4
  <2> QED BY <2>2, <2>3 DEF AllCancelled
<1> QED BY <1>1, <1>2

LEMMA SentGets ==
    ASSUME NEW calls, calls \subseteq GetCall, OneLast(calls), AllCancelled(calls),
           SendGet(calls)
    PROVE  GetsInv'
<1>1. CASE getCalls' = calls
  <2>1. Replaced(calls)
    BY DEF Replaced, AllCancelled
  <2> QED BY <1>1, <2>1 DEF GetsInv
<1>2. CASE /\ getInFlight'
           /\ getCalls' = Older(calls) \cup {[last |-> TRUE, cancelled |-> FALSE, overtaken |-> FALSE]}
  <2>1. ASSUME NEW c \in Older(calls)
        PROVE  c \in GetCall /\ ~c.last /\ c.cancelled
    <3>1. PICK d \in calls : d \in GetCall /\ d.cancelled /\ c = [d EXCEPT !.last = FALSE]
      BY <2>1 DEF Older, AllCancelled
    <3> QED BY <3>1 DEF GetCall
  <2>2. [last |-> TRUE, cancelled |-> FALSE, overtaken |-> FALSE] \in GetCall
    BY DEF GetCall
  <2> DEFINE left == Older(calls) \cup {[last |-> TRUE, cancelled |-> FALSE, overtaken |-> FALSE]}
  <2>3. left \subseteq GetCall /\ Replaced(left)
    <3>1. ASSUME NEW c \in left PROVE c \in GetCall /\ (c.last \/ c.cancelled)
      <4>1. CASE c \in Older(calls)
        BY <2>1, <4>1
      <4>2. CASE c = [last |-> TRUE, cancelled |-> FALSE, overtaken |-> FALSE]
        BY <2>2, <4>2
      <4> QED BY <4>1, <4>2
    <3> QED BY <3>1 DEF Replaced
  <2>4. OneLast(left)
    BY <2>1 DEF OneLast
  <2> HIDE DEF left
  <2>5. getCalls' = left
    BY <1>2 DEF left
  <2> QED BY <1>2, <2>3, <2>4, <2>5 DEF GetsInv
<1> QED BY <1>1, <1>2 DEF SendGet

----------------------------------------------------------------------------
(* The steps.                                                              *)

LEMMA SetsStep ==
    ASSUME VolumeInv, [VolumeNext]_volumeVars, ~DispatchSend, ~RunRefresh, ~SetReply
    PROVE  SetsInv' /\ UNCHANGED <<setCalls, setInFlight>>
<1>1. UNCHANGED <<setCalls, setInFlight>>
  BY DEF VolumeNext, Ticking, Loop, SetVolume, SetInvoke, TickCompare, Refresh, Show, Hide,
     EnterStream, LeaveStream, TickLoad, Boot, Dispatch, Count, GetReply, Stall, volumeVars, setVars,
     beyondEvents, besidesGets
<1> QED BY <1>1 DEF VolumeInv, SetsInv, Replaced, OneLast, AllCancelled

LEMMA GetsStep ==
    ASSUME VolumeInv, [VolumeNext]_volumeVars
    PROVE  GetsInv'
<1>1. CASE RunRefresh
  <2>1. CASE ~handle \/ (getInFlight /\ ~getStalled)
    BY <1>1, <2>1 DEF RunRefresh, VolumeInv, getVars, GetsInv, Replaced, OneLast, AllCancelled
  <2>2. CASE ~(~handle \/ (getInFlight /\ ~getStalled)) /\ getInFlight
    <3>1. PICK calls \in {Cancelled(getCalls), TooLate(getCalls)} : SendGet(calls)
      BY <1>1, <2>2 DEF RunRefresh
    <3> QED BY <3>1, CancelledGets, SentGets DEF VolumeInv
  <2>3. CASE ~(~handle \/ (getInFlight /\ ~getStalled)) /\ ~getInFlight
    BY <1>1, <2>3, SentGets DEF RunRefresh, VolumeInv, GetsInv
  <2> QED BY <2>1, <2>2, <2>3
<1>2. CASE GetReply
  <2>1. PICK c \in getCalls :
           \/ ~c.last /\ getCalls' = getCalls \ {c} /\ UNCHANGED getInFlight
           \/ c.last /\ getCalls' \in {getCalls \ {c}, Overtake(getCalls \ {c})}
    BY <1>2 DEF GetReply
  <2>2. CASE ~c.last
    <3>1. getCalls' = getCalls \ {c} /\ UNCHANGED getInFlight
      BY <2>1, <2>2
    <3> QED BY <3>1, Without DEF VolumeInv, GetsInv
  <2>3. CASE c.last
    <3>1. \A d \in getCalls \ {c} : d \in GetCall /\ ~d.last /\ d.cancelled
      BY <2>3 DEF VolumeInv, GetsInv, Replaced, OneLast
    <3>2. CASE getCalls' = getCalls \ {c}
      BY <3>1, <3>2 DEF GetsInv, Replaced, OneLast, AllCancelled
    <3>3. CASE getCalls' = Overtake(getCalls \ {c})
      <4> DEFINE left == Overtake(getCalls \ {c})
      <4>1. ASSUME NEW d \in left PROVE d \in GetCall /\ ~d.last /\ d.cancelled
        <5>1. PICK e \in getCalls \ {c} : d = [e EXCEPT !.overtaken = TRUE]
          BY DEF Overtake
        <5>2. e \in GetCall /\ ~e.last /\ e.cancelled
          BY <3>1
        <5> QED BY <5>1, <5>2 DEF GetCall
      <4> HIDE DEF left
      <4>2. left \subseteq GetCall /\ Replaced(left) /\ OneLast(left) /\ AllCancelled(left)
        BY <4>1 DEF Replaced, OneLast, AllCancelled
      <4>3. getCalls' = left
        BY <3>3 DEF left
      <4> QED BY <4>2, <4>3 DEF GetsInv
    <3> QED BY <2>1, <2>3, <3>2, <3>3
  <2> QED BY <2>2, <2>3
<1>3. CASE ~RunRefresh /\ ~GetReply
  <2>1. UNCHANGED <<getCalls, getInFlight>>
    BY <1>3 DEF VolumeNext, Ticking, Loop, SetVolume, SetInvoke, TickCompare, Refresh, Show, Hide,
       EnterStream, LeaveStream, TickLoad, Boot, Dispatch, DispatchSend, Count, SetReply, Stall,
       volumeVars, getVars, beyondEvents, besidesSets
  <2> QED BY <2>1 DEF VolumeInv, GetsInv, Replaced, OneLast, AllCancelled
<1> QED BY <1>1, <1>2, <1>3

(* A dispatch once queued is queued until it runs.                         *)
LEMMA QueuedAppended ==
    ASSUME EventsOK, NEW event, events' = Append(events, event)
    PROVE  Queued \/ event = "dispatch" => Queued'
  BY DEF EventsOK, Queued

LEMMA QueuedTail ==
    ASSUME EventsOK, Queued, Run("refresh")
    PROVE  Queued'
<1>1. PICK i \in 1 .. Len(events) : events[i] = "dispatch"
  BY DEF Queued
<1>2. i - 1 \in 1 .. Len(events') /\ events'[i - 1] = "dispatch"
  BY <1>1 DEF EventsOK, Run
<1> QED BY <1>2 DEF Queued

LEMMA QueuedStep ==
    ASSUME VolumeTyped, Queued, [VolumeNext]_volumeVars
    PROVE  Queued' \/ Dispatch
<1>1. EventsOK
  BY DEF VolumeTyped
<1>2. CASE UNCHANGED events
  BY <1>2 DEF Queued
<1>3. CASE events' = Append(events, "refresh") \/ events' = Append(events, "dispatch")
  BY <1>1, <1>3, QueuedAppended
<1>4. CASE Run("refresh")
  BY <1>1, <1>4, QueuedTail
<1> QED BY <1>2, <1>3, <1>4, EventsMove DEF SetInvoke, Invoke

LEMMA InvokeQueues ==
    ASSUME VolumeTyped, LoopInv, SetInvoke
    PROVE  Queued'
<1>1. EventsOK
  BY DEF VolumeTyped
<1>2. CASE invokeQueued
  BY <1>2 DEF SetInvoke, LoopInv, Queued
<1>3. CASE ~invokeQueued
  <2>1. events' = Append(events, "dispatch")
    BY <1>3 DEF SetInvoke, Invoke, LoopInv
  <2> QED BY <1>1, <2>1, QueuedAppended
<1> QED BY <1>2, <1>3

LEMMA LoopStep ==
    ASSUME VolumeTyped, VolumeInv, [VolumeNext]_volumeVars
    PROVE  LoopInv'
<1>1. invokeQueued' => Queued'
  <2> SUFFICES ASSUME invokeQueued' PROVE Queued'
    OBVIOUS
  <2>1. CASE SetInvoke
    BY <2>1, InvokeQueues DEF VolumeInv
  <2>2. CASE ~SetInvoke
    <3>1. ~Dispatch
      BY DEF Dispatch
    <3>2. invokeQueued
      BY <2>2, <3>1, EventsMove
    <3>3. Queued
      BY <3>2 DEF VolumeInv, LoopInv
    <3> QED BY <3>1, <3>3, QueuedStep
  <2> QED BY <2>1, <2>2
<1>2. CASE loopReady
  <2>1. loopReady'
    BY <1>2 DEF VolumeNext, Ticking, Loop, SetVolume, SetInvoke, TickCompare, Refresh, Show, Hide,
       EnterStream, LeaveStream, TickLoad, Boot, Dispatch, DispatchSend, RunRefresh, Count,
       SetReply, GetReply, Stall, volumeVars, loopVars, beyondEvents, besidesSets, besidesGets
  <2> QED BY <1>1, <2>1 DEF LoopInv
<1>3. CASE ~loopReady
  <2>1. /\ events = <<>> /\ loopStep = "idle" /\ mainStep # "invoke"
        /\ ~handle /\ setCalls = {} /\ getCalls = {}
        /\ cache = Unknown /\ desired = Unknown /\ asked = Unknown /\ sentPct = Unknown
    BY <1>3 DEF VolumeInv, LoopInv
  <2>2. CASE Boot
    BY <1>1, <2>2 DEF Boot, LoopInv
  <2>3. CASE ~Boot
    <3>1. /\ ~\E pct \in Volumes : SetVolume(pct)
          /\ ~SetInvoke /\ ~Loop /\ ~SetReply /\ ~GetReply
      BY <2>1 DEF SetVolume, SetInvoke, Loop, Dispatch, DispatchSend, Sending, RunRefresh, Run,
         Count, SetReply, GetReply
    <3>2. /\ UNCHANGED <<events, loopStep, handle, setCalls, getCalls, cache, desired, asked, sentPct>>
          /\ mainStep' # "invoke"
      BY <1>3, <2>1, <2>3, <3>1 DEF VolumeNext, Ticking, TickCompare, Refresh, Show, Hide,
         EnterStream, LeaveStream, TickLoad, Stall, Invoke, volumeVars, cacheVars, loopVars,
         setVars, getVars, mainVars, beyondEvents
    <3> QED BY <1>1, <2>1, <3>2 DEF LoopInv
  <2> QED BY <2>2, <2>3
<1> QED BY <1>2, <1>3

(* The steps that take the value.                                          *)
LEMMA TakeStep ==
    ASSUME VolumeTyped, VolumeInv, [VolumeNext]_volumeVars, DispatchSend \/ RunRefresh \/ SetReply
    PROVE  SetsInv' /\ NewestSent'
<1>1. UNCHANGED <<asked, handle, mainStep>>
  BY DEF DispatchSend, RunRefresh, SetReply, mainVars, besidesSets
<1>2. ASSUME RecoverSet PROVE SetsInv' /\ NewestSent'
  <2>1. PICK calls \in {Cancelled(setCalls), TooLate(setCalls)} : SendSet(calls)
    BY <1>2 DEF RecoverSet
  <2> QED BY <1>1, <2>1, CancelledSets, SentSets DEF VolumeInv
<1>3. CASE DispatchSend
  <2>1. CASE setInFlight /\ ~setStalled
    BY <1>1, <1>3, <2>1 DEF DispatchSend, VolumeInv, setVars, SetsInv, NewestSent, Awaited,
       Replaced, OneLast, AllCancelled
  <2>2. CASE ~setInFlight
    BY <1>1, <1>3, <2>2, SentSets DEF DispatchSend, VolumeInv, SetsInv
  <2> QED BY <1>2, <1>3, <2>1, <2>2 DEF DispatchSend
<1>4. CASE RunRefresh /\ UNCHANGED <<desired, setVars>>
  <2>1. Queued => Queued'
    BY <1>4, QueuedTail DEF VolumeTyped, RunRefresh
  <2>2. SetsInv'
    BY <1>4 DEF VolumeInv, setVars, SetsInv, Replaced, OneLast, AllCancelled
  <2>3. NewestSent'
    BY <1>1, <1>4, <2>1 DEF VolumeInv, RunRefresh, setVars, NewestSent, Awaited, Queued
  <2> QED BY <2>2, <2>3
<1>5. CASE SetReply
  <2>1. PICK c \in setCalls :
           IF ~c.last
           THEN /\ setCalls' = setCalls \ {c}
                /\ UNCHANGED <<desired, setInFlight, setStalled, sentPct>>
           ELSE SendSet(setCalls \ {c})
    BY <1>5 DEF SetReply
  <2>2. CASE ~c.last
    <3>1. setCalls' = setCalls \ {c} /\ UNCHANGED <<desired, setInFlight, sentPct>>
      BY <2>1, <2>2
    <3>2. SetsInv'
      BY <3>1, Without DEF VolumeInv, SetsInv
    <3>3. NewestSent'
      BY <1>1, <1>5, <3>1 DEF VolumeInv, SetReply, NewestSent, Awaited
    <3> QED BY <3>2, <3>3
  <2>3. CASE c.last
    <3>1. /\ setCalls \ {c} \subseteq SetCall /\ OneLast(setCalls \ {c})
          /\ AllCancelled(setCalls \ {c})
      BY <2>3 DEF VolumeInv, SetsInv, Replaced, OneLast, AllCancelled
    <3> QED BY <1>1, <2>1, <2>3, <3>1, SentSets DEF VolumeInv
  <2> QED BY <2>2, <2>3
<1> QED BY <1>2, <1>3, <1>4, <1>5 DEF RunRefresh

(* The others leave it where it waits.                                     *)
LEMMA KeepStep ==
    ASSUME VolumeTyped, VolumeInv, [VolumeNext]_volumeVars, ~DispatchSend, ~RunRefresh, ~SetReply
    PROVE  NewestSent'
<1>1. CASE \E pct \in Volumes : SetVolume(pct)
  BY <1>1, VolumeConstants DEF SetVolume, NewestSent, Awaited
<1>2. CASE ~\E pct \in Volumes : SetVolume(pct)
  <2>1. UNCHANGED <<desired, asked, sentPct>>
    BY <1>2 DEF VolumeNext, Ticking, Loop, SetInvoke, TickCompare, Refresh, Show, Hide,
       EnterStream, LeaveStream, TickLoad, Boot, Dispatch, Count, GetReply, Stall, volumeVars,
       loopVars, setVars, beyondEvents, besidesGets
  <2>2. CASE desired = Unknown
    <3>1. CASE Boot
      BY <2>1, <3>1 DEF Boot, VolumeInv, LoopInv, NewestSent
    <3>2. CASE ~Boot
      <4>1. UNCHANGED handle
        BY <1>2, <3>2 DEF VolumeNext, Ticking, Loop, SetInvoke, TickCompare, Refresh, Show, Hide,
           EnterStream, LeaveStream, TickLoad, Dispatch, Count, GetReply, Stall, volumeVars,
           loopVars, beyondEvents, besidesGets
      <4> QED BY <2>1, <2>2, <4>1 DEF VolumeInv, NewestSent
    <3> QED BY <3>1, <3>2
  <2>3. CASE desired # Unknown
    <3>1. desired = asked /\ (mainStep = "invoke" \/ loopStep = "send" \/ setInFlight \/ Queued)
      BY <2>3 DEF VolumeInv, NewestSent, Awaited, Queued
    <3>2. CASE mainStep = "invoke"
      <4>1. ASSUME SetInvoke PROVE Awaited'
        BY <4>1, InvokeQueues DEF VolumeInv, Awaited, Queued
      <4>2. ASSUME ~SetInvoke PROVE Awaited'
        <5>1. mainStep' = "invoke"
          BY <1>2, <3>2, <4>2 DEF VolumeNext, Ticking, Loop, TickCompare, Refresh, Show, Hide,
             EnterStream, LeaveStream, TickLoad, Boot, Dispatch, Count, GetReply, Stall, volumeVars,
             mainVars, besidesGets
        <5> QED BY <5>1 DEF Awaited
      <4>3. Awaited'
        BY <4>1, <4>2
      <4> QED BY <2>1, <2>3, <3>1, <4>3 DEF NewestSent
    <3>3. CASE loopStep = "send"
      <4>1. loopStep' = "send"
        BY <1>2, <3>3 DEF VolumeNext, Ticking, Loop, SetInvoke, TickCompare, Refresh, Show, Hide,
           EnterStream, LeaveStream, TickLoad, Boot, Dispatch, Run, Count, GetReply, Stall,
           volumeVars, loopVars, beyondEvents
      <4> QED BY <2>1, <2>3, <3>1, <4>1 DEF NewestSent, Awaited
    <3>4. CASE setInFlight
      BY <2>1, <2>3, <3>1, <3>4, SetsStep DEF NewestSent, Awaited
    <3>5. CASE Queued
      <4>1. Queued' \/ loopStep' = "send"
        <5>1. Queued' \/ Dispatch
          BY <3>5, QueuedStep
        <5> QED BY <5>1 DEF Dispatch
      <4> QED BY <2>1, <2>3, <3>1, <4>1 DEF NewestSent, Awaited, Queued
    <3> QED BY <3>1, <3>2, <3>3, <3>4, <3>5
  <2> QED BY <2>2, <2>3
<1> QED BY <1>1, <1>2

THEOREM VolumeInvariance == VolumeSpec => []VolumeInv
<1>1. VolumeInit => VolumeInv
  BY DEF VolumeInit, VolumeInv, SetsInv, GetsInv, LoopInv, NewestSent, Replaced, OneLast, AllCancelled
<1>2. VolumeTyped /\ VolumeInv /\ [VolumeNext]_volumeVars => VolumeInv'
  BY SetsStep, GetsStep, LoopStep, TakeStep, KeepStep DEF VolumeInv
<1> QED BY <1>1, <1>2, VolumeTypedAlways, PTL DEF VolumeSpec

(* The volume the user set last waits where something will take it, or the *)
(* bus was called with it, whichever of the edits, dispatches, replies and *)
(* recoveries comes first.                                                 *)
THEOREM NewestKept == VolumeSpec => []NewestSent
<1>1. VolumeInv => NewestSent
  BY DEF VolumeInv
<1> QED BY <1>1, VolumeInvariance, PTL

LEMMA AtMostOne ==
    ASSUME NEW calls, Replaced(calls), OneLast(calls)
    PROVE  Cardinality({c \in calls : ~c.cancelled}) <= 1
<1> DEFINE wanted == {c \in calls : ~c.cancelled}
<1>1. \A c, d \in wanted : c = d
  BY DEF Replaced, OneLast
<1>2. CASE wanted = {}
  BY <1>2, FS_EmptySet
<1>3. CASE wanted # {}
  <2>1. PICK c : c \in wanted
    BY <1>3
  <2>2. wanted = {c}
    BY <1>1, <2>1
  <2>3. Cardinality({c}) = 1
    BY FS_Singleton
  <2> QED BY <2>2, <2>3
<1> QED BY <1>2, <1>3

(* The bus is never asked twice: a call that is still wanted was answered, *)
(* refused or cancelled before the next of its kind is made.               *)
THEOREM NeverTwo == VolumeSpec => []OneCallEach
<1>1. VolumeInv => OneCallEach
  BY AtMostOne DEF VolumeInv, SetsInv, GetsInv, OneCallEach
<1> QED BY <1>1, VolumeInvariance, PTL

----------------------------------------------------------------------------
(* The newest get is overtaken by none.                                    *)

NewestFresh == \A c \in getCalls : c.last => ~c.overtaken

LEMMA SentFresh ==
    ASSUME NEW calls, calls \subseteq GetCall, SendGet(calls), \A c \in calls : c.last => ~c.overtaken
    PROVE  NewestFresh'
<1>1. ASSUME NEW c \in Older(calls) PROVE ~c.last
  <2>1. PICK d \in calls : c = [d EXCEPT !.last = FALSE]
    BY DEF Older
  <2> QED BY <2>1 DEF GetCall
<1> QED BY <1>1 DEF SendGet, NewestFresh

LEMMA FreshStep ==
    ASSUME VolumeInv, NewestFresh, [VolumeNext]_volumeVars
    PROVE  NewestFresh'
<1>1. \A c \in getCalls : c \in GetCall
  BY DEF VolumeInv, GetsInv
<1>2. CASE RunRefresh
  <2>1. CASE UNCHANGED getVars
    BY <2>1 DEF getVars, NewestFresh
  <2>2. CASE SendGet(getCalls)
    BY <1>1, <2>2, SentFresh DEF NewestFresh
  <2>3. ASSUME NEW calls \in {Cancelled(getCalls), TooLate(getCalls)}, SendGet(calls)
        PROVE  NewestFresh'
    <3>1. ASSUME NEW c \in calls PROVE c \in GetCall /\ (c.last => ~c.overtaken)
      <4>1. CASE calls = Cancelled(getCalls)
        BY <1>1, <3>1, <4>1 DEF Cancelled
      <4>2. CASE calls = TooLate(getCalls)
        <5>1. PICK d \in getCalls : c = [d EXCEPT !.cancelled = d.cancelled \/ d.last]
          BY <3>1, <4>2 DEF TooLate
        <5> QED BY <1>1, <5>1 DEF GetCall, NewestFresh
      <4> QED BY <2>3, <4>1, <4>2 DEF NewestFresh
    <3> QED BY <2>3, <3>1, SentFresh
  <2> QED BY <1>2, <2>1, <2>2, <2>3 DEF RunRefresh
<1>3. CASE GetReply
  <2>1. PICK c \in getCalls :
           \/ getCalls' = getCalls \ {c}
           \/ c.last /\ getCalls' = Overtake(getCalls \ {c})
    BY <1>3 DEF GetReply
  <2>2. ASSUME c.last, NEW d \in Overtake(getCalls \ {c}) PROVE ~d.last
    <3>1. PICK e \in getCalls \ {c} : d = [e EXCEPT !.overtaken = TRUE]
      BY <2>2 DEF Overtake
    <3>2. ~e.last
      BY <2>2, <3>1 DEF VolumeInv, GetsInv, OneLast
    <3> QED BY <1>1, <3>1, <3>2 DEF GetCall
  <2> QED BY <2>1, <2>2 DEF NewestFresh
<1>4. ASSUME ~RunRefresh, ~GetReply PROVE UNCHANGED getCalls
  BY <1>4 DEF VolumeNext, Ticking, Loop, SetVolume, SetInvoke, TickCompare, Refresh, Show, Hide,
     EnterStream, LeaveStream, TickLoad, Boot, Dispatch, DispatchSend, Count, SetReply, Stall,
     volumeVars, getVars, beyondEvents, besidesSets
<1> QED BY <1>2, <1>3, <1>4 DEF NewestFresh

THEOREM VolumeReadings == VolumeSpec => [](VolumeInv /\ NewestFresh)
<1>1. VolumeInit => NewestFresh
  BY DEF VolumeInit, NewestFresh
<1> QED BY <1>1, FreshStep, VolumeInvariance, PTL DEF VolumeSpec

(* The reply that moves the cache is never one that a newer get overtook,  *)
(* however late, cancelled or out of order the replies arrive.             *)
THEOREM NewerOnly == VolumeSpec => ReadingsInOrder
<1> DEFINE Moves == \A c \in getCalls \ getCalls' :
                       c.overtaken /\ loopStep' # loopStep => loopStep' # "count"
<1>1. ASSUME VolumeInv, NewestFresh, [VolumeNext]_volumeVars PROVE [Moves]_volumeVars
  <2> SUFFICES ASSUME NEW c \in getCalls, c \notin getCalls', c.overtaken,
                      loopStep' # loopStep, loopStep' = "count"
               PROVE  FALSE
    OBVIOUS
  <2>1. GetReply
    BY <1>1 DEF VolumeNext, Ticking, Loop, SetVolume, SetInvoke, TickCompare, Refresh, Show, Hide,
       EnterStream, LeaveStream, TickLoad, Boot, Dispatch, DispatchSend, Sending, RunRefresh, Count,
       SetReply, Stall, volumeVars, loopVars, beyondEvents, besidesSets
  <2>2. PICK d \in getCalls : d.last /\ getCalls' = Overtake(getCalls \ {d})
    BY <2>1 DEF GetReply
  <2>3. c # d
    BY <1>1, <2>2 DEF NewestFresh
  <2>4. c \in GetCall
    BY <1>1 DEF VolumeInv, GetsInv
  <2>5. [c EXCEPT !.overtaken = TRUE] = c
    BY <2>4 DEF GetCall
  <2>6. [c EXCEPT !.overtaken = TRUE] \in getCalls'
    BY <2>2, <2>3 DEF Overtake
  <2> QED BY <2>5, <2>6
<1> QED BY <1>1, VolumeReadings, PTL DEF VolumeSpec, ReadingsInOrder

(* Every variable keeps to its type, and the loop never has more than      *)
(* MaxEvents sources attached.                                             *)
THEOREM VolumeTypes == VolumeSpec => []VolumeTypeOK
<1>1. VolumeInv /\ VolumeTyped => VolumeTypeOK
  BY DEF VolumeInv, SetsInv, GetsInv, SetCall, GetCall, VolumeTyped, PercentagesOK, FlagsTyped,
     EventsOK, WhereaboutsOK, VolumeTypeOK
<1> QED BY <1>1, VolumeTypedAlways, VolumeInvariance, PTL

----------------------------------------------------------------------------
(* The saved settings.                                                     *)

\* A file is only ever replaced by a whole one, and while a save writes there is a
\* path, a number and the temporary file, unless its directory was removed.
WritingOK ==
    /\ \A p \in Paths : file[p].whole /\ (file[p].version = 0 => file[p] = Absent)
    /\ saver.step \in {"probe", "open", "write", "rename"} => saves > 0
    /\ saver.step \in {"open", "write", "rename"} => cached \in Paths
    /\ saver.step \in {"write", "rename"} => dir[cached] = "gone" \/ temp[cached].version = saves
    /\ saver.step = "rename" => temp[cached].whole \/ dir[cached] = "gone"

\* No file of higher priority than the one a save writes, or is about to: the
\* candidates that were passed over are empty, or the run is excused.
SaveOrderOK ==
    ~excused =>
        /\ saver.step = "probe" => \A q \in Paths : q < saver.at => ~Holds(q)
        /\ cached # NoPath => \A q \in Paths : q < cached => ~Holds(q)

\* While the disks do not change, what was probed is as the probe found it.
CalmOK ==
    calm =>
        /\ saver.step = "probe" => \A q \in Paths : q < saver.at => dir[q] = "full"
        /\ saver.step \in {"open", "write", "rename"} /\ saver.last => dir[cached] = "ok"

StoreInv == ConfigTypeOK /\ WritingOK /\ SaveOrderOK /\ CalmOK /\ SavedComesBack

\* Loaded, of any state of the files.
LoadedFrom(f) ==
    LET readable == {p \in Paths : f[p].version # 0 /\ f[p].whole} IN
    IF readable = {} THEN 0
    ELSE f[CHOOSE p \in readable : \A q \in readable : p <= q].version

LEMMA LoadsFirst ==
    ASSUME NEW f, NEW p \in Paths, f[p].version # 0, f[p].whole,
           \A q \in Paths : q < p => f[q].version = 0
    PROVE  LoadedFrom(f) = f[p].version
<1> DEFINE readable == {q \in Paths : f[q].version # 0 /\ f[q].whole}
<1> DEFINE first == CHOOSE q \in readable : \A r \in readable : q <= r
<1>1. p \in readable
  OBVIOUS
<1>2. \A r \in readable : p <= r
  BY ConfigConstants DEF Paths
<1>3. first \in readable /\ \A r \in readable : first <= r
  <2> HIDE DEF readable
  <2> QED
    BY <1>1, <1>2
<1>4. first = p
  <2>1. first \in Paths
    BY <1>3
  <2>2. first <= p /\ p <= first
    BY <1>1, <1>2, <1>3
  <2> HIDE DEF first
  <2> QED
    BY <2>1, <2>2, ConfigConstants DEF Paths
<1> QED
  <2>1. readable # {}
    BY <1>1
  <2>2. LoadedFrom(f) = f[first].version
    BY <2>1 DEF LoadedFrom
  <2> QED
    BY <2>2, <1>4

----------------------------------------------------------------------------
LEMMA FieldsTyped ==
    /\ Absent \in Contents
    /\ Ready \in Progress /\ Exited \in Progress
    /\ [Ready EXCEPT !.step = "probe"] \in Progress /\ [Ready EXCEPT !.step = "open"] \in Progress
    /\ [step |-> "open", at |-> 1, last |-> TRUE] \in Progress
<1>1. 1 \in 1 .. Candidates + 1 /\ 0 \in 0 .. MaxSaves
  BY ConfigConstants
<1>2. Absent \in Contents
  BY <1>1 DEF Absent, Contents
<1>3. Ready \in Progress /\ [step |-> "open", at |-> 1, last |-> TRUE] \in Progress
  BY <1>1 DEF Ready, Progress
<1>4. \A s \in Progress :
         /\ [s EXCEPT !.step = "probe"] \in Progress
         /\ [s EXCEPT !.step = "open"] \in Progress
         /\ [s EXCEPT !.step = "down"] \in Progress
  BY DEF Progress
<1> QED
  BY <1>2, <1>3, <1>4 DEF Exited

LEMMA Advancing ==
    ASSUME NEW s \in Progress
    PROVE  /\ s.at \in 1 .. Candidates + 1 /\ s.last \in BOOLEAN
           /\ [s EXCEPT !.step = "write"] \in Progress
           /\ [s EXCEPT !.step = "rename"] \in Progress
           /\ s.at \in Paths => [s EXCEPT !.at = @ + 1] \in Progress
<1>1. s.at \in Paths => s.at + 1 \in 1 .. Candidates + 1
  BY ConfigConstants DEF Paths
<1> QED
  BY <1>1 DEF Progress

LEMMA StoreStarts == ConfigInit => StoreInv
<1> SUFFICES ASSUME ConfigInit PROVE StoreInv
  OBVIOUS
<1>1. ConfigTypeOK
  <2>1. file \in [Paths -> Contents] /\ temp \in [Paths -> Contents]
    BY FieldsTyped DEF ConfigInit
  <2>2. saves \in 0 .. MaxSaves /\ stored \in 0 .. MaxSaves /\ mishaps \in 0 .. MaxMishaps
    BY ConfigConstants DEF ConfigInit
  <2> QED
    BY <2>1, <2>2, FieldsTyped DEF ConfigInit, ConfigTypeOK
<1>2. WritingOK /\ SaveOrderOK /\ CalmOK
  BY DEF ConfigInit, WritingOK, SaveOrderOK, CalmOK, Absent, Ready, NoPath, Holds
<1>3. SavedComesBack
  BY DEF ConfigInit, SavedComesBack, Loaded, Holds, Absent
<1> QED
  BY <1>1, <1>2, <1>3 DEF StoreInv

LEMMA StoreTypes == ASSUME ConfigTypeOK, [ConfigNext]_configVars PROVE ConfigTypeOK'
<1>1. cached \in Paths => dir[cached] \in {"ok", "full", "gone"} /\ temp[cached] \in Contents
  BY DEF ConfigTypeOK
<1>2. Fails => saver' \in Progress /\ cached' \in Paths \cup {NoPath}
  BY FieldsTyped DEF Fails, ConfigTypeOK
<1>3. Discard => temp' \in [Paths -> Contents]
  BY FieldsTyped DEF Discard, ConfigTypeOK
<1>4. \A c \in Contents : [c EXCEPT !.whole = TRUE] \in Contents
  BY DEF Contents
<1>5. CASE Save
  <2>1. saves' \in 0 .. MaxSaves
    BY <1>5, ConfigConstants DEF Save, ConfigTypeOK
  <2>2. saver' \in Progress
    BY <1>5, FieldsTyped DEF Save
  <2> QED
    BY <1>5, <2>1, <2>2 DEF Save, ConfigTypeOK
<1>6. CASE Probe
  <2>1. saver \in Progress /\ saver.at \in 1 .. Candidates + 1
    BY Advancing DEF ConfigTypeOK
  <2>2. ~(saver.at > Candidates) => saver.at \in Paths
    BY <2>1, ConfigConstants DEF Paths
  <2>3. saver' \in Progress
    BY <1>6, <2>1, <2>2, FieldsTyped, Advancing DEF Probe
  <2>4. dir' \in [Paths -> {"ok", "full", "gone"}] /\ cached' \in Paths \cup {NoPath}
    BY <1>6, <2>2 DEF Probe, ConfigTypeOK
  <2>5. excused' \in BOOLEAN
    BY <1>6 DEF Probe, ConfigTypeOK, Holds
  <2> QED
    BY <1>6, <2>3, <2>4, <2>5 DEF Probe, ConfigTypeOK
<1>7. CASE Open
  <2>1. [version |-> saves, whole |-> FALSE] \in Contents
    BY DEF ConfigTypeOK, Contents
  <2>2. saver' \in Progress /\ cached' \in Paths \cup {NoPath}
    BY <1>7, Advancing, <1>2 DEF Open, ConfigTypeOK
  <2>3. temp' \in [Paths -> Contents]
    BY <1>7, <2>1 DEF Open, ConfigTypeOK
  <2> QED
    BY <1>7, <2>2, <2>3 DEF Open, ConfigTypeOK
<1>8. CASE Write
  <2>1. saver' \in Progress /\ cached' \in Paths \cup {NoPath}
    BY <1>8, Advancing, <1>2 DEF Write, ConfigTypeOK
  <2>2. temp' \in [Paths -> Contents]
    BY <1>8, <1>3, <1>4 DEF Write, ConfigTypeOK
  <2> QED
    BY <1>8, <2>1, <2>2 DEF Write, ConfigTypeOK
<1>9. CASE Rename
  <2>1. CASE Replace
    <3>1. file' \in [Paths -> Contents] /\ temp' \in [Paths -> Contents]
      BY <2>1, <1>1, FieldsTyped DEF Replace, ConfigTypeOK
    <3>2. excused' \in BOOLEAN
      BY <2>1 DEF Replace, ConfigTypeOK
    <3> QED
      BY <1>9, <2>1, <3>1, <3>2, FieldsTyped DEF Rename, Replace, ConfigTypeOK
  <2>2. CASE Fails /\ Discard /\ UNCHANGED <<file, stored, excused>>
    BY <1>9, <2>2, <1>2, <1>3 DEF Rename, ConfigTypeOK
  <2> QED
    BY <1>9, <2>1, <2>2 DEF Rename
<1>10. ASSUME NEW p \in Paths, Disk(p) PROVE ConfigTypeOK'
  <2>1. dir' \in [Paths -> {"ok", "full", "gone"}]
    BY <1>10 DEF Disk, ConfigTypeOK
  <2>2. file' \in [Paths -> Contents] /\ temp' \in [Paths -> Contents]
    BY <1>10, FieldsTyped DEF Disk, ConfigTypeOK
  <2>3. excused' \in BOOLEAN /\ calm' \in BOOLEAN
    BY <1>10 DEF Disk, ConfigTypeOK, Holds
  <2>4. mishaps' \in 0 .. MaxMishaps
    BY <1>10, ConfigConstants DEF Disk, ConfigTypeOK
  <2> QED
    BY <1>10, <2>1, <2>2, <2>3, <2>4 DEF Disk, ConfigTypeOK
<1>11. CASE Crash
  <2>1. mishaps' \in 0 .. MaxMishaps
    BY <1>11, ConfigConstants DEF Crash, ConfigTypeOK
  <2> QED
    BY <1>11, <2>1, FieldsTyped DEF Crash, ConfigTypeOK
<1>12. CASE Quit
  BY <1>12, FieldsTyped DEF Quit, ConfigTypeOK
<1>13. CASE Launch
  BY <1>13, FieldsTyped DEF Launch, ConfigTypeOK
<1>14. CASE UNCHANGED configVars
  BY <1>14 DEF configVars, ConfigTypeOK
<1> QED
  BY <1>5, <1>6, <1>7, <1>8, <1>9, <1>10, <1>11, <1>12, <1>13, <1>14 DEF ConfigNext

LEMMA LoadedIs == Loaded = LoadedFrom(file) /\ Loaded' = LoadedFrom(file')
BY DEF Loaded, LoadedFrom, Holds

\* What the three ways of giving up have in common: nothing that is saved moves, and
\* either the save ends or every candidate is tried from the first one on.
LEMMA Failing ==
    ASSUME ConfigTypeOK, StoreInv, Fails, saver.step \in {"open", "write", "rename"},
           UNCHANGED <<dir, file, saves, stored, calm, excused>>
    PROVE  WritingOK' /\ SaveOrderOK' /\ CalmOK'
<1>1. CASE saver.last
  BY <1>1 DEF Fails, StoreInv, WritingOK, SaveOrderOK, CalmOK, Holds, Ready, NoPath
<1>2. CASE ~saver.last
  <2>1. saver'.step = "probe" /\ saver'.at = 1 /\ cached' = NoPath
    BY <1>2 DEF Fails, Ready
  <2>2. \A q \in Paths : ~(q < saver'.at)
    BY <2>1, ConfigConstants DEF Paths
  <2> QED
    BY <2>1, <2>2 DEF StoreInv, WritingOK, SaveOrderOK, CalmOK, Holds
<1> QED
  BY <1>1, <1>2

LEMMA StoreStep == ASSUME StoreInv, [ConfigNext]_configVars PROVE StoreInv'
<1>1. ConfigTypeOK /\ ConfigTypeOK'
  BY StoreTypes DEF StoreInv
<1>2. file' = file /\ stored' = stored /\ excused' = excused => SavedComesBack'
  BY LoadedIs DEF StoreInv, SavedComesBack
<1>3. saver.at \in 1 .. Candidates + 1 /\ (saver.at <= Candidates => saver.at \in Paths)
  <2>1. saver.at \in 1 .. Candidates + 1
    BY <1>1, Advancing DEF ConfigTypeOK
  <2> QED
    BY <2>1, ConfigConstants DEF Paths
<1>4. CASE Save
  <2>1. saver'.at = 1 /\ saver'.step \in {"probe", "open"} /\ ~saver'.last
    BY <1>4 DEF Save, Ready
  <2>2. saver'.step = "open" => cached # NoPath
    BY <1>4 DEF Save, Ready
  <2>3. \A q \in Paths : ~(q < saver'.at)
    BY <2>1, ConfigConstants DEF Paths
  <2>4. saves' > 0
    BY <1>4, <1>1 DEF Save, ConfigTypeOK
  <2>5. WritingOK'
    BY <1>4, <1>1, <2>1, <2>2, <2>4 DEF Save, StoreInv, WritingOK, ConfigTypeOK
  <2>6. SaveOrderOK' /\ CalmOK'
    BY <1>4, <2>1, <2>3 DEF Save, StoreInv, SaveOrderOK, CalmOK, Holds
  <2> QED
    BY <1>4, <1>1, <1>2, <2>5, <2>6 DEF Save, StoreInv
<1>5. CASE Probe
  <2>1. SavedComesBack'
    BY <1>5, LoadedIs DEF Probe, StoreInv, SavedComesBack
  <2>2. CASE saver.at > Candidates
    BY <1>5, <1>1, <2>1, <2>2 DEF Probe, StoreInv, WritingOK, SaveOrderOK, CalmOK, Holds, Ready
  <2>3. CASE saver.at <= Candidates /\ dir[saver.at] = "full"
    <3>1. /\ saver' = [saver EXCEPT !.at = @ + 1] /\ excused' = (excused \/ Holds(saver.at))
          /\ UNCHANGED <<dir, cached, file, temp, saves, stored, calm>>
      BY <1>5, <1>3, <2>3, ConfigConstants DEF Probe
    <3>2. saver'.step = "probe" /\ saver'.at = saver.at + 1
      BY <1>1, <1>5, <3>1 DEF ConfigTypeOK, Progress, Probe
    <3>3. \A q \in Paths : q < saver'.at => q < saver.at \/ q = saver.at
      BY <1>3, <3>2, ConfigConstants DEF Paths
    <3>4. WritingOK'
      BY <3>1, <3>2 DEF StoreInv, WritingOK
    <3>5. SaveOrderOK'
      BY <1>5, <3>1, <3>2, <3>3 DEF Probe, StoreInv, SaveOrderOK, Holds
    <3>6. CalmOK'
      BY <1>5, <2>3, <3>1, <3>2, <3>3 DEF Probe, StoreInv, CalmOK
    <3> QED
      BY <1>1, <2>1, <3>4, <3>5, <3>6 DEF StoreInv
  <2>4. CASE saver.at <= Candidates /\ dir[saver.at] # "full"
    <3>1. /\ saver' = [step |-> "open", at |-> 1, last |-> TRUE] /\ cached' = saver.at
          /\ dir' = [dir EXCEPT ![saver.at] = "ok"]
          /\ UNCHANGED <<file, temp, saves, stored, calm, excused>>
      BY <1>5, <1>3, <2>4, ConfigConstants DEF Probe
    <3>2. saver.at \in Paths /\ dir'[saver.at] = "ok"
      BY <1>1, <1>3, <2>4, <3>1 DEF ConfigTypeOK
    <3>3. saves > 0
      BY <1>5 DEF Probe, StoreInv, WritingOK
    <3>4. WritingOK'
      BY <3>1, <3>2, <3>3 DEF StoreInv, WritingOK
    <3>5. SaveOrderOK'
      BY <1>5, <3>1 DEF Probe, StoreInv, SaveOrderOK, Holds
    <3>6. CalmOK'
      BY <3>1, <3>2 DEF CalmOK
    <3> QED
      BY <1>1, <2>1, <3>4, <3>5, <3>6 DEF StoreInv
  <2> QED
    BY <1>3, <2>2, <2>3, <2>4, ConfigConstants
<1>6. CASE Open
  <2>1. CASE dir[cached] = "ok"
    <3>1. saver' = [saver EXCEPT !.step = "write"] /\ UNCHANGED <<cached, dir, file, saves, calm, excused>>
      BY <1>6, <2>1 DEF Open
    <3>2. saver'.step = "write" /\ saver'.last = saver.last
      BY <1>1, <3>1 DEF ConfigTypeOK, Progress
    <3>3. cached \in Paths /\ saves > 0
      BY <1>6 DEF Open, StoreInv, WritingOK
    <3>4. temp'[cached].version = saves
      BY <1>1, <1>6, <2>1, <3>3 DEF Open, ConfigTypeOK
    <3>5. WritingOK' /\ SaveOrderOK' /\ CalmOK'
      BY <1>6, <3>1, <3>2, <3>3, <3>4 DEF Open, StoreInv, WritingOK, SaveOrderOK, CalmOK, Holds
    <3> QED
      BY <1>1, <1>2, <1>6, <3>5 DEF Open, StoreInv
  <2>2. CASE dir[cached] # "ok"
    <3>1. WritingOK' /\ SaveOrderOK' /\ CalmOK'
      BY <1>1, <1>6, <2>2, Failing DEF Open
    <3> QED
      BY <1>1, <1>2, <1>6, <3>1 DEF Open, StoreInv
  <2> QED
    BY <2>1, <2>2
<1>7. CASE Write
  <2>1. CASE dir[cached] # "full"
    <3>1. saver' = [saver EXCEPT !.step = "rename"] /\ UNCHANGED <<cached, dir, file, saves, calm, excused>>
      BY <1>7, <2>1 DEF Write
    <3>2. saver'.step = "rename" /\ saver'.last = saver.last
      BY <1>1, <3>1 DEF ConfigTypeOK, Progress
    <3>3. cached \in Paths /\ saves > 0
      BY <1>7 DEF Write, StoreInv, WritingOK
    <3>4. temp'[cached].version = temp[cached].version /\ temp'[cached].whole
      BY <1>1, <1>7, <2>1, <3>3 DEF Write, ConfigTypeOK, Contents
    <3>5. WritingOK' /\ SaveOrderOK' /\ CalmOK'
      BY <1>7, <3>1, <3>2, <3>3, <3>4 DEF Write, StoreInv, WritingOK, SaveOrderOK, CalmOK, Holds
    <3> QED
      BY <1>1, <1>2, <1>7, <3>5 DEF Write, StoreInv
  <2>2. CASE dir[cached] = "full"
    <3>1. WritingOK' /\ SaveOrderOK' /\ CalmOK'
      BY <1>1, <1>7, <2>2, Failing DEF Write
    <3> QED
      BY <1>1, <1>2, <1>7, <3>1 DEF Write, StoreInv
  <2> QED
    BY <2>1, <2>2
<1>8. CASE Rename
  <2>1. CASE Replace
    <3>1. /\ cached \in Paths /\ saves > 0
          /\ temp[cached].version = saves /\ temp[cached].whole
      BY <1>8, <2>1 DEF Rename, Replace, StoreInv, WritingOK
    <3>2. /\ file'[cached] = temp[cached]
          /\ \A q \in Paths \ {cached} : file'[q] = file[q]
      BY <1>1, <2>1, <3>1 DEF Replace, ConfigTypeOK
    <3>3. ~excused' => \A q \in Paths : q < cached => ~Holds(q) /\ file'[q] = file[q]
      <4>1. ~excused' => \A q \in Paths : q < cached => ~Holds(q)
        <5>1. cached # NoPath
          BY <3>1, ConfigConstants DEF NoPath, Paths
        <5>2. CASE excused
          BY <2>1, <5>2 DEF Replace
        <5>3. CASE ~excused
          BY <5>1, <5>3 DEF StoreInv, SaveOrderOK
        <5> QED
          BY <5>2, <5>3
      <4>2. \A q \in Paths : q < cached => q # cached
        BY <3>1, ConfigConstants DEF Paths
      <4> QED
        BY <3>2, <4>1, <4>2
    <3>4. saver'.step = "idle"
      BY <2>1 DEF Replace, Ready
    <3>5. WritingOK'
      <4>1. \A p \in Paths : file'[p].whole /\ (file'[p].version = 0 => file'[p] = Absent)
        BY <3>1, <3>2 DEF StoreInv, WritingOK
      <4> QED
        BY <3>4, <4>1 DEF WritingOK
    <3>6. SaveOrderOK'
      BY <2>1, <3>3, <3>4 DEF Replace, SaveOrderOK, Holds
    <3>7. CalmOK'
      BY <3>4 DEF CalmOK
    <3>8. SavedComesBack'
      <4>1. ~excused' => LoadedFrom(file') = file'[cached].version
        BY <3>1, <3>2, <3>3, LoadsFirst DEF Holds
      <4> QED
        BY <2>1, <3>1, <3>2, <4>1, LoadedIs DEF Replace, SavedComesBack
    <3> QED
      BY <1>1, <3>5, <3>6, <3>7, <3>8 DEF StoreInv
  <2>2. CASE Fails /\ Discard /\ UNCHANGED <<file, stored, excused>>
    <3>1. WritingOK' /\ SaveOrderOK' /\ CalmOK'
      BY <1>1, <1>8, <2>2, Failing DEF Rename
    <3> QED
      BY <1>1, <1>2, <2>2, <3>1 DEF StoreInv
  <2> QED
    BY <1>8, <2>1, <2>2 DEF Rename
<1>9. ASSUME NEW p \in Paths, Disk(p) PROVE StoreInv'
  <2>1. calm' = FALSE /\ UNCHANGED <<cached, saver, saves, stored>>
    BY <1>9 DEF Disk
  <2>2. CalmOK'
    BY <2>1 DEF CalmOK
  <2>3. CASE /\ dir[p] # "gone" /\ dir' = [dir EXCEPT ![p] = "gone"]
             /\ file' = [file EXCEPT ![p] = Absent] /\ temp' = [temp EXCEPT ![p] = Absent]
             /\ excused' = (excused \/ Holds(p))
    <3>1. ~Holds(p) => file' = file
      BY <1>1, <2>3 DEF StoreInv, WritingOK, Holds, ConfigTypeOK
    <3>2. WritingOK'
      <4>1. \A q \in Paths : file'[q].whole /\ (file'[q].version = 0 => file'[q] = Absent)
        BY <1>1, <2>3 DEF StoreInv, WritingOK, ConfigTypeOK, Absent
      <4>2. cached \in Paths =>
              \/ dir'[cached] = "gone"
              \/ dir'[cached] = dir[cached] /\ temp'[cached] = temp[cached]
        <5>1. CASE cached = p
          <6>1. dir'[p] = "gone"
            BY <1>1, <1>9, <2>3 DEF ConfigTypeOK
          <6> QED
            BY <5>1, <6>1
        <5>2. CASE cached # p
          BY <1>1, <2>3, <5>2 DEF ConfigTypeOK
        <5> QED
          BY <5>1, <5>2
      <4> QED
        BY <2>1, <4>1, <4>2 DEF StoreInv, WritingOK
    <3>3. SaveOrderOK'
      BY <2>1, <2>3, <3>1 DEF StoreInv, SaveOrderOK, Holds
    <3>4. SavedComesBack'
      BY <2>1, <2>3, <3>1, LoadedIs DEF StoreInv, SavedComesBack
    <3> QED
      BY <1>1, <2>2, <3>2, <3>3, <3>4 DEF StoreInv
  <2>4. CASE /\ dir[p] # "gone" /\ \E d \in {"ok", "full"} : dir' = [dir EXCEPT ![p] = d]
             /\ UNCHANGED <<file, temp, excused>>
    <3>1. \A q \in Paths : dir[q] = "gone" => dir'[q] = "gone"
      BY <1>1, <2>4 DEF ConfigTypeOK
    <3>2. WritingOK'
      BY <2>1, <2>4, <3>1 DEF StoreInv, WritingOK
    <3>3. SaveOrderOK'
      BY <2>1, <2>4 DEF StoreInv, SaveOrderOK, Holds
    <3> QED
      BY <1>1, <1>2, <2>1, <2>2, <2>4, <3>2, <3>3 DEF StoreInv
  <2> QED
    BY <1>9, <2>3, <2>4 DEF Disk
<1>10. CASE Crash \/ Quit
  <2>1. saver'.step = "down" /\ UNCHANGED <<dir, file, temp, cached, saves, stored, calm, excused>>
    BY <1>10 DEF Crash, Quit, Exited, Ready
  <2> QED
    BY <1>1, <1>2, <2>1 DEF StoreInv, WritingOK, SaveOrderOK, CalmOK, Holds
<1>11. CASE Launch
  <2>1. /\ saver'.step = "idle" /\ cached' = NoPath
        /\ UNCHANGED <<dir, file, temp, saves, stored, calm, excused>>
    BY <1>11 DEF Launch, Ready
  <2> QED
    BY <1>1, <1>2, <2>1 DEF StoreInv, WritingOK, SaveOrderOK, CalmOK, Holds
<1>12. CASE UNCHANGED configVars
  BY <1>1, <1>2, <1>12 DEF configVars, StoreInv, WritingOK, SaveOrderOK, CalmOK, Holds
<1> QED
  BY <1>4, <1>5, <1>6, <1>7, <1>8, <1>9, <1>10, <1>11, <1>12 DEF ConfigNext

LEMMA StoreInvariance == ConfigSpec => []StoreInv
<1>1. StoreInv /\ [ConfigNext]_configVars => StoreInv'
  BY StoreStep
<1> QED
  BY StoreStarts, <1>1, PTL DEF ConfigSpec

----------------------------------------------------------------------------
\* Every variable keeps to its type.
THEOREM StoreTyped == ConfigSpec => []ConfigTypeOK
<1>1. StoreInv => ConfigTypeOK
  BY DEF StoreInv
<1> QED
  BY StoreInvariance, <1>1, PTL

\* Whenever the process dies, the next one loads what was last reported as saved,
\* unless a directory was removed with its file or refused with an older one in it
\* (native_config_save_persisted, native_settings_save_file).
THEOREM SavedIsBack == ConfigSpec => []SavedComesBack
<1>1. StoreInv => SavedComesBack
  BY DEF StoreInv
<1> QED
  BY StoreInvariance, <1>1, PTL

\* A save during which the disks do not change is only refused if no candidate can be
\* written: the cached path is given up for the others in the same call.
THEOREM RoomIsFound == ConfigSpec => SaveFindsRoom
<1> DEFINE NoneWritable == saver.step \notin {"idle", "down"} /\ saver'.step = "idle" /\ stored' # saves
                           => ~calm \/ \A p \in Paths : dir[p] = "full"
<1>1. ASSUME StoreInv, [ConfigNext]_configVars PROVE [NoneWritable]_configVars
  <2> SUFFICES ASSUME calm, saver.step \notin {"idle", "down"}, saver'.step = "idle",
                      stored' # saves
               PROVE  \A p \in Paths : dir[p] = "full"
    OBVIOUS
  <2>1. Fails => saver.last
    BY DEF Fails, Ready
  <2>2. ~Save /\ ~Crash /\ ~Quit /\ ~Launch
    BY DEF Save, Crash, Quit, Launch, Exited, Ready
  <2>3. ~\E p \in Paths : Disk(p)
    BY DEF Disk
  <2>4. ~(UNCHANGED configVars)
    BY DEF configVars
  <2>5. CASE Probe
    <3>1. saver.at > Candidates
      BY <1>1, <2>5 DEF Probe, StoreInv, ConfigTypeOK, Progress
    <3>2. \A p \in Paths : p < saver.at
      <4>1. saver.at \in 1 .. Candidates + 1
        BY <1>1, Advancing DEF StoreInv, ConfigTypeOK
      <4> QED
        BY <3>1, <4>1, ConfigConstants DEF Paths
    <3> QED
      BY <1>1, <2>5, <3>2 DEF Probe, StoreInv, CalmOK
  <2>6. CASE Open
    BY <1>1, <2>1, <2>6 DEF Open, StoreInv, CalmOK, ConfigTypeOK, Progress
  <2>7. CASE Write
    BY <1>1, <2>1, <2>7 DEF Write, StoreInv, CalmOK, ConfigTypeOK, Progress
  <2>8. CASE Rename
    BY <1>1, <2>1, <2>8 DEF Rename, Replace, StoreInv, CalmOK
  <2> QED
    BY <1>1, <2>2, <2>3, <2>4, <2>5, <2>6, <2>7, <2>8 DEF ConfigNext
<1> QED
  BY StoreInvariance, <1>1, PTL DEF ConfigSpec, SaveFindsRoom

----------------------------------------------------------------------------
(* The settings are the cell of SavedCell.                                 *)

\* No file is newer than the last save that was acknowledged.
FilesOld == stored <= saves /\ \A p \in Paths : file[p].version <= stored

LEMMA ConfigNumbers ==
    ASSUME ConfigTypeOK
    PROVE  /\ stored \in Nat /\ saves \in Nat
           /\ \A p \in Paths : file[p].version \in Nat /\ temp[p].version \in Nat
  BY ConfigConstants DEF ConfigTypeOK, Contents

\* While the save writes, its number is the one in the temporary file it renames.
LEMMA Replaces ==
    ASSUME StoreInv, Rename, Replace
    PROVE  /\ cached \in Paths /\ temp[cached].version = saves /\ temp[cached].whole /\ saves > 0
           /\ file'[cached] = temp[cached]
           /\ \A q \in Paths \ {cached} : file'[q] = file[q]
           /\ saver.step = "rename" /\ saver'.step = "idle" /\ saves' = saves /\ stored' = saves
<1>1. /\ cached \in Paths /\ temp[cached].version = saves /\ temp[cached].whole /\ saves > 0
      /\ saver.step = "rename"
  BY DEF Rename, Replace, StoreInv, WritingOK
<1>2. file'[cached] = temp[cached] /\ \A q \in Paths \ {cached} : file'[q] = file[q]
  BY <1>1 DEF Replace, StoreInv, ConfigTypeOK
<1> QED BY <1>1, <1>2 DEF Rename, Replace, Ready

LEMMA OldStep ==
    ASSUME StoreInv, FilesOld, [ConfigNext]_configVars
    PROVE  FilesOld'
<1>1. /\ stored \in Nat /\ saves \in Nat
      /\ \A p \in Paths : file[p].version \in Nat
  BY ConfigNumbers DEF StoreInv
<1>2. CASE Rename /\ Replace
  <2>1. /\ stored' = saves /\ saves' = saves
        /\ \A p \in Paths : file'[p].version = saves \/ file'[p].version = file[p].version
    BY <1>2, Replaces
  <2> QED BY <1>1, <2>1 DEF FilesOld
<1>3. ASSUME NEW q \in Paths, Disk(q) PROVE FilesOld'
  <2>1. UNCHANGED <<stored, saves>>
    BY <1>3 DEF Disk
  <2>2. \A p \in Paths : file'[p].version = 0 \/ file'[p] = file[p]
    BY <1>3 DEF Disk, StoreInv, ConfigTypeOK, Absent
  <2> QED BY <1>1, <2>1, <2>2 DEF FilesOld
<1>4. CASE Save
  <2>1. saves' = saves + 1 /\ UNCHANGED <<stored, file>>
    BY <1>4 DEF Save
  <2> QED BY <1>1, <2>1 DEF FilesOld
<1>5. CASE ~Save /\ ~(Rename /\ Replace) /\ ~\E q \in Paths : Disk(q)
  <2>1. UNCHANGED <<stored, saves, file>>
    BY <1>5 DEF ConfigNext, Probe, Open, Write, Rename, Crash, Quit, Launch, configVars
  <2> QED BY <2>1 DEF FilesOld
<1> QED BY <1>2, <1>3, <1>4, <1>5

LEMMA Least ==
    ASSUME NEW S, S \subseteq Nat, S # {}
    PROVE  \E p \in S : \A q \in S : p <= q
<1>1. PICK p \in S : \A q \in S : ~(<<q, p>> \in OpToRel(<, Nat))
  BY NatLessThanWellFounded, WFMin
<1>2. ASSUME NEW q \in S PROVE p <= q
  <2>1. q \in Nat /\ p \in Nat /\ ~(q < p)
    BY <1>1 DEF OpToRel
  <2> QED BY <2>1
<1> QED BY <1>2

\* What is loaded is the first file there is.
Whole(f) == \A p \in Paths : f[p].whole
Filled(f) == \E p \in Paths : f[p].version # 0
First(f, p) ==
    /\ f[p].version # 0 /\ \A q \in Paths : q < p => f[q].version = 0
    /\ LoadedFrom(f) = f[p].version

LEMMA LoadsLeast ==
    ASSUME NEW f, Whole(f), Filled(f)
    PROVE  \E p \in Paths : First(f, p)
<1> DEFINE held == {p \in Paths : f[p].version # 0}
<1>1. held \subseteq Nat /\ held # {} /\ Paths \subseteq Nat
  BY ConfigConstants DEF Paths, Filled
<1>2. PICK p \in held : \A q \in held : p <= q
  <2> HIDE DEF held
  <2> QED BY <1>1, Least
<1>3. p \in Nat /\ \A q \in Paths : q \in Nat
  BY <1>1
<1>4. \A q \in Paths : q < p => f[q].version = 0
  BY <1>2, <1>3
<1>5. LoadedFrom(f) = f[p].version
  BY <1>2, <1>4, LoadsFirst DEF Whole
<1> QED BY <1>2, <1>4, <1>5 DEF First

LEMMA LoadsOld ==
    ASSUME NEW f, NEW n \in Nat, Whole(f),
           \A p \in Paths : f[p].version \in Nat /\ f[p].version <= n
    PROVE  LoadedFrom(f) \in 0 .. n
<1>1. CASE Filled(f)
  <2>1. PICK p \in Paths : First(f, p)
    BY <1>1, LoadsLeast
  <2>2. f[p].version \in 0 .. n
    OBVIOUS
  <2> QED BY <2>1, <2>2 DEF First
<1>2. CASE ~Filled(f)
  BY <1>2 DEF LoadedFrom, Filled
<1> QED BY <1>1, <1>2

\* The step that makes a save succeed: it is found from now on, or what hid it before
\* still does.
LEMMA SavesCell ==
    ASSUME StoreInv, FilesOld, Rename, Replace
    PROVE  Cell!Acknowledge
<1>1. /\ cached \in Paths /\ temp[cached].version = saves /\ temp[cached].whole /\ saves > 0
      /\ file'[cached] = temp[cached]
      /\ \A q \in Paths \ {cached} : file'[q] = file[q]
      /\ saver.step = "rename" /\ saver'.step = "idle" /\ saves' = saves /\ stored' = saves
  BY Replaces
<1>2. excused' = (excused /\ \E q \in Paths : q < cached /\ Holds(q))
  BY DEF Replace
<1>3. Whole(file)
  BY DEF StoreInv, WritingOK, Whole
<1>4. excused \in BOOLEAN
  BY DEF StoreInv, ConfigTypeOK
<1>5. cached # NoPath /\ Paths \subseteq Nat
  BY <1>1, ConfigConstants DEF NoPath, Paths
<1>6. \A q \in Paths : q < cached => file'[q] = file[q]
  BY <1>1, <1>5
<1>7. CASE \E q \in Paths : q < cached /\ Holds(q)
  <2>1. excused
    BY <1>5, <1>7 DEF StoreInv, SaveOrderOK
  <2>2. PICK p \in Paths : First(file, p)
    <3>1. Filled(file)
      BY <1>7 DEF Holds, Filled
    <3> QED BY <1>3, <3>1, LoadsLeast
  <2>3. p < cached
    <3>1. PICK q \in Paths : q < cached /\ file[q].version # 0
      BY <1>7 DEF Holds
    <3>2. ~(q < p)
      BY <2>2, <3>1 DEF First
    <3> QED BY <1>1, <1>5, <3>1, <3>2
  <2>4. \A q \in Paths : q < p => q < cached
    BY <1>1, <1>5, <2>3
  <2>5. LoadedFrom(file') = file'[p].version
    BY <1>3, <1>6, <2>2, <2>3, <2>4, LoadsFirst DEF First, Whole
  <2>6. Loaded' = Loaded
    BY <1>6, <2>2, <2>3, <2>5, LoadedIs DEF First
  <2>7. excused' = excused
    BY <1>2, <1>7, <2>1
  <2> QED BY <1>1, <2>1, <2>6, <2>7 DEF Cell!Acknowledge
<1>8. CASE ~\E q \in Paths : q < cached /\ Holds(q)
  <2>1. \A q \in Paths : q < cached => file'[q].version = 0
    BY <1>6, <1>8 DEF Holds
  <2>2. LoadedFrom(file') = file'[cached].version
    BY <1>1, <2>1, LoadsFirst
  <2>3. Loaded' = saves /\ excused' = FALSE
    BY <1>1, <1>2, <1>8, <2>2, LoadedIs
  <2> QED BY <1>1, <1>4, <2>3 DEF Cell!Acknowledge
<1> QED BY <1>7, <1>8

LEMMA DisksLose ==
    ASSUME StoreInv, FilesOld, NEW p \in Paths, Disk(p)
    PROVE  [Cell!Next]_(Cell!vars)
<1>1. UNCHANGED <<cached, saver, saves, stored>>
  BY DEF Disk
<1>2. CASE UNCHANGED <<file, excused>>
  BY <1>1, <1>2, LoadedIs DEF Cell!vars
<1>3. CASE file' = [file EXCEPT ![p] = Absent] /\ excused' = (excused \/ Holds(p))
  <2>1. CASE ~Holds(p)
    <3>1. file' = file
      BY <1>3, <2>1 DEF StoreInv, WritingOK, Holds, ConfigTypeOK
    <3>2. excused' = excused
      BY <1>3, <2>1 DEF StoreInv, ConfigTypeOK
    <3> QED BY <1>2, <3>1, <3>2
  <2>2. CASE Holds(p)
    <3>1. /\ stored \in Nat
          /\ \A q \in Paths : file[q].version \in Nat /\ file[q].version <= stored
      BY ConfigNumbers DEF StoreInv, FilesOld
    <3>2. \A q \in Paths : file'[q] = Absent \/ file'[q] = file[q]
      BY <1>3 DEF StoreInv, ConfigTypeOK
    <3>3. /\ Whole(file')
          /\ \A q \in Paths : file'[q].version \in Nat /\ file'[q].version <= stored
      BY <3>1, <3>2 DEF StoreInv, WritingOK, Absent, Whole
    <3>4. Loaded' \in 0 .. stored
      BY <3>1, <3>3, LoadsOld, LoadedIs
    <3>5. excused' = TRUE
      BY <1>3, <2>2
    <3> QED BY <1>1, <3>4, <3>5 DEF Cell!Next, Cell!Lose
  <2> QED BY <2>1, <2>2
<1> QED BY <1>2, <1>3 DEF Disk

LEMMA SavesNothing ==
    ASSUME StoreInv, UNCHANGED <<file, saves, stored, excused>>,
           saver.step \notin {"idle", "down"} \/ saver'.step \in {"idle", "down"}
    PROVE  [Cell!Next]_(Cell!vars)
<1>1. Loaded' = Loaded
  BY LoadedIs
<1>2. CASE (saver.step \in {"idle", "down"}) = (saver'.step \in {"idle", "down"})
  BY <1>1, <1>2 DEF Cell!vars
<1>3. CASE saver.step \notin {"idle", "down"} /\ saver'.step \in {"idle", "down"}
  BY <1>1, <1>3 DEF Cell!Next, Cell!GiveUp
<1> QED BY <1>2, <1>3

\* Saving is atomic, for any number of candidates, saves and mishaps: whatever a save
\* fails of, and whenever the process is killed, what a start would load changes only
\* in the step that makes a save succeed or with a directory that is removed.
THEOREM RefinesSavedCell == ConfigSpec => ImplementsSavedCell
<1>1. ConfigInit => Cell!Init
  <2> SUFFICES ASSUME ConfigInit PROVE Cell!Init
    OBVIOUS
  <2>1. Loaded = 0
    BY DEF ConfigInit, Loaded, Holds, Absent
  <2> QED BY <2>1 DEF ConfigInit, Ready, Cell!Init
<1>2. ConfigInit => FilesOld
  BY DEF ConfigInit, FilesOld, Absent
<1>3. StoreInv /\ FilesOld /\ [ConfigNext]_configVars => FilesOld'
  BY OldStep
<1>4. ASSUME StoreInv, FilesOld, [ConfigNext]_configVars
      PROVE  [Cell!Next]_(Cell!vars)
  <2>1. CASE Save
    <3>1. /\ saver.step = "idle" /\ saver'.step \in {"probe", "open"}
          /\ saves' = saves + 1 /\ UNCHANGED <<file, stored, excused>>
      BY <2>1 DEF Save, Ready
    <3>2. Loaded' = Loaded
      BY <3>1, LoadedIs
    <3> QED BY <3>1, <3>2 DEF Cell!Next, Cell!Begin
  <2>2. CASE Probe
    <3>1. /\ saver.step = "probe" /\ UNCHANGED <<file, saves, stored>>
          /\ excused' = excused \/ (excused' = TRUE /\ saver'.step = "probe")
      BY <1>4, <2>2 DEF Probe, StoreInv, ConfigTypeOK, Progress
    <3>2. CASE excused' = excused
      BY <1>4, <3>1, <3>2, SavesNothing
    <3>3. CASE excused' = TRUE /\ saver'.step = "probe"
      BY <3>1, <3>3, LoadedIs DEF Cell!Next, Cell!Hide
    <3> QED BY <3>1, <3>2, <3>3
  <2>3. CASE Rename /\ Replace
    BY <1>4, <2>3, SavesCell DEF Cell!Next
  <2>4. CASE Open \/ Write \/ (Rename /\ ~Replace)
    <3>1. saver.step \notin {"idle", "down"} /\ UNCHANGED <<file, saves, stored, excused>>
      BY <2>4 DEF Open, Write, Rename
    <3> QED BY <1>4, <3>1, SavesNothing
  <2>5. ASSUME NEW p \in Paths, Disk(p) PROVE [Cell!Next]_(Cell!vars)
    BY <1>4, <2>5, DisksLose
  <2>6. CASE Crash \/ Quit \/ Launch
    <3>1. saver'.step \in {"idle", "down"} /\ UNCHANGED <<file, saves, stored, excused>>
      BY <2>6 DEF Crash, Quit, Launch, Exited, Ready
    <3> QED BY <1>4, <3>1, SavesNothing
  <2>7. CASE UNCHANGED configVars
    BY <2>7, LoadedIs DEF configVars, Cell!vars
  <2> QED BY <1>4, <2>1, <2>2, <2>3, <2>4, <2>5, <2>6, <2>7 DEF ConfigNext
<1> QED BY <1>1, <1>2, <1>3, <1>4, StoreInvariance, PTL DEF ConfigSpec, ImplementsSavedCell, Cell!Spec
=============================================================================
