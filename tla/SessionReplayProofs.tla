------------------------- MODULE SessionReplayProofs -------------------------
(***************************************************************************)
(* What the sessions of native/src/main.c (SessionSwitch) tell their       *)
(* servers, hold of the media pipeline, replay and feed to the decoder,    *)
(* for every number of slots and every bound, from Core of                 *)
(* SessionSwitchProofs.                                                    *)
(*                                                                         *)
(* Four invariants, each on top of the ones before: SilenceOK, MediaOK,    *)
(* ChainOK and ReplayOK.                                                   *)
(***************************************************************************)
EXTENDS SessionSwitchProofs

-----------------------------------------------------------------------------
(* What a server does once it has obeyed: the last toggle decides.         *)

(* Streams(s), of the commands on their way and what the server does now.  *)
Flow(told, out) ==
    LET toggles == {i \in 1 .. Len(told) : told[i] # "refresh"} IN
    IF toggles = {} THEN out ELSE told[Last_(toggles)] = "resume"

LEMMA StreamsFlow ==
    ASSUME NEW s \in Slots
    PROVE  /\ Streams(s) = Flow(link[s].told, link[s].out)
           /\ Streams(s)' = Flow(link'[s].told, link'[s].out)
  BY DEF Streams, Toggled, Flow

LEMMA FlowEmpty ==
    ASSUME NEW told \in Seq(Commands), NEW out, \A i \in 1 .. Len(told) : told[i] = "refresh"
    PROVE  Flow(told, out) = out
  BY DEF Flow

LEMMA FlowLast ==
    ASSUME NEW told \in Seq(Commands), NEW out, NEW i \in 1 .. Len(told), told[i] # "refresh",
           \A j \in i + 1 .. Len(told) : told[j] = "refresh"
    PROVE  Flow(told, out) = (told[i] = "resume")
<1> DEFINE toggles == {k \in 1 .. Len(told) : told[k] # "refresh"}
<1>1. Len(told) \in Nat /\ i \in toggles /\ toggles \in SUBSET (1 .. Len(told))
  OBVIOUS
<1>2. Last_(toggles) \in toggles /\ \A k \in toggles : k <= Last_(toggles)
  BY <1>1, LastIn
<1>3. Last_(toggles) = i
  <2>1. Last_(toggles) >= i /\ Last_(toggles) \in 1 .. Len(told)
    BY <1>1, <1>2
  <2>2. told[Last_(toggles)] # "refresh"
    BY <1>2
  <2> HIDE DEF toggles
  <2> QED BY <1>1, <2>1, <2>2
<1> QED BY <1>1, <1>3 DEF Flow

LEMMA FlowCases ==
    ASSUME NEW told \in Seq(Commands)
    PROVE  \/ \A i \in 1 .. Len(told) : told[i] = "refresh"
           \/ \E i \in 1 .. Len(told) : told[i] # "refresh" /\ \A j \in i + 1 .. Len(told) : told[j] = "refresh"
<1> DEFINE toggles == {k \in 1 .. Len(told) : told[k] # "refresh"}
<1>1. CASE toggles = {}
  BY <1>1
<1>2. CASE toggles # {}
  <2>1. Len(told) \in Nat /\ toggles \in SUBSET (1 .. Len(told))
    OBVIOUS
  <2>2. PICK i \in toggles : \A k \in toggles : k <= i
    BY <1>2, <2>1, Greatest
  <2>3. ASSUME NEW j \in i + 1 .. Len(told) PROVE told[j] = "refresh"
    <3>1. j \in 1 .. Len(told) /\ ~(j <= i)
      BY <2>1, <2>2
    <3> QED BY <2>2, <3>1
  <2> QED BY <2>2, <2>3
<1> QED BY <1>1, <1>2

LEMMA FlowTold ==
    ASSUME NEW told \in Seq(Commands), NEW out
    PROVE  /\ Flow(<<>>, out) = out
           /\ ~Flow(<<"suppress">>, out)
           /\ ~Flow(told \o <<"suppress">>, out)
           /\ Flow(told \o <<"resume">>, out)
           /\ Flow(told \o <<"resume", "refresh">>, out)
           /\ Flow(told \o <<"refresh">>, out) = Flow(told, out)
<1>0. "suppress" \in Commands /\ "resume" \in Commands /\ "refresh" \in Commands
  BY DEF Commands
<1>1. Flow(<<>>, out) = out
  <2>1. <<>> \in Seq(Commands) /\ \A i \in 1 .. Len(<<>>) : <<>>[i] = "refresh"
    BY Empty
  <2> QED BY <2>1, FlowEmpty
<1>2. ~Flow(<<"suppress">>, out)
  <2>1. /\ <<"suppress">> \in Seq(Commands) /\ 1 \in 1 .. Len(<<"suppress">>)
        /\ <<"suppress">>[1] = "suppress" /\ \A j \in 1 + 1 .. Len(<<"suppress">>) : FALSE
    BY <1>0
  <2> DEFINE w == <<"suppress">>
  <2>2. w \in Seq(Commands) /\ 1 \in 1 .. Len(w) /\ w[1] = "suppress"
        /\ \A j \in 1 + 1 .. Len(w) : w[j] = "refresh"
    BY <2>1
  <2> HIDE DEF w
  <2>3. Flow(w, out) = (w[1] = "resume")
    BY <2>2, FlowLast
  <2> QED BY <2>2, <2>3 DEF w
<1>3. ASSUME NEW c \in {"suppress", "resume"} PROVE Flow(told \o <<c>>, out) = (c = "resume")
  <2> DEFINE w == told \o <<c>>
             n == Len(told) + 1
  <2>1. w \in Seq(Commands) /\ Len(w) = n /\ n \in 1 .. Len(w) /\ w[n] = c
        /\ \A j \in n + 1 .. Len(w) : w[j] = "refresh"
    BY <1>0
  <2> HIDE DEF w, n
  <2>2. Flow(w, out) = (w[n] = "resume")
    BY <2>1, FlowLast
  <2> QED BY <2>1, <2>2 DEF w
<1>4. Flow(told \o <<"resume", "refresh">>, out)
  <2> DEFINE w == told \o <<"resume", "refresh">>
             n == Len(told) + 1
  <2>1. w \in Seq(Commands) /\ Len(w) = n + 1 /\ n \in 1 .. Len(w) /\ w[n] = "resume"
        /\ w[n + 1] = "refresh" /\ n \in Nat
    BY <1>0
  <2> HIDE DEF w, n
  <2>2. \A j \in n + 1 .. Len(w) : w[j] = "refresh"
    BY <2>1
  <2>3. Flow(w, out) = (w[n] = "resume")
    BY <2>1, <2>2, FlowLast
  <2> QED BY <2>1, <2>3 DEF w
<1>5. Flow(told \o <<"refresh">>, out) = Flow(told, out)
  <2> DEFINE w == told \o <<"refresh">>
             n == Len(told)
  <2>1. w \in Seq(Commands) /\ Len(w) = n + 1 /\ n \in Nat /\ w[n + 1] = "refresh"
        /\ \A j \in 1 .. n : w[j] = told[j]
    BY <1>0
  <2>2. CASE \A i \in 1 .. n : told[i] = "refresh"
    <3> HIDE DEF w
    <3>1. \A i \in 1 .. Len(w) : w[i] = "refresh"
      BY <2>1, <2>2
    <3> QED BY <2>1, <2>2, <3>1, FlowEmpty DEF w
  <2>3. ASSUME NEW i \in 1 .. n, told[i] # "refresh", \A j \in i + 1 .. n : told[j] = "refresh"
        PROVE  Flow(w, out) = Flow(told, out)
    <3>1. Flow(told, out) = (told[i] = "resume")
      BY <2>3, FlowLast
    <3> HIDE DEF w
    <3>2. i \in 1 .. Len(w) /\ w[i] = told[i]
      BY <2>1
    <3>3. \A j \in i + 1 .. Len(w) : w[j] = "refresh"
      BY <2>1, <2>3
    <3>4. Flow(w, out) = (w[i] = "resume")
      BY <2>1, <2>3, <3>2, <3>3, FlowLast
    <3> QED BY <3>1, <3>2, <3>4
  <2> QED BY <2>2, <2>3, FlowCases
<1> QED BY <1>1, <1>2, <1>3, <1>4, <1>5

(* Whether the server will stream does not change by its acting on what it *)
(* was told.                                                               *)
LEMMA FlowObeyed ==
    ASSUME NEW told \in Seq(Commands), NEW out, told # <<>>
    PROVE  Flow(Tail(told), IF Head(told) = "refresh" THEN out ELSE Head(told) = "resume")
              = Flow(told, out)
<1> DEFINE w == Tail(told)
           o == IF Head(told) = "refresh" THEN out ELSE Head(told) = "resume"
           n == Len(w)
<1>1. /\ w \in Seq(Commands) /\ n \in Nat /\ Len(told) = n + 1 /\ Head(told) = told[1]
      /\ \A i \in 1 .. n : w[i] = told[i + 1]
  OBVIOUS
<1> HIDE DEF w
<1>2. CASE \A i \in 1 .. n : w[i] = "refresh"
  <2>1. \A i \in 2 .. Len(told) : told[i] = "refresh"
    <3> TAKE i \in 2 .. Len(told)
    <3>1. i - 1 \in 1 .. n /\ (i - 1) + 1 = i
      BY <1>1
    <3> QED BY <1>1, <1>2, <3>1
  <2>2. Flow(w, o) = o
    BY <1>1, <1>2, FlowEmpty
  <2>3. CASE told[1] = "refresh"
    <3>1. \A i \in 1 .. Len(told) : told[i] = "refresh"
      BY <1>1, <2>1, <2>3
    <3> QED BY <1>1, <2>2, <2>3, <3>1, FlowEmpty DEF w
  <2>4. CASE told[1] # "refresh"
    <3>1. 1 \in 1 .. Len(told) /\ \A j \in 1 + 1 .. Len(told) : told[j] = "refresh"
      BY <1>1, <2>1
    <3>2. Flow(told, out) = (told[1] = "resume")
      BY <2>4, <3>1, FlowLast
    <3> QED BY <1>1, <2>2, <2>4, <3>2 DEF w
  <2> QED BY <2>3, <2>4
<1>3. ASSUME NEW i \in 1 .. n, w[i] # "refresh", \A j \in i + 1 .. n : w[j] = "refresh"
      PROVE  Flow(w, o) = Flow(told, out)
  <2>1. Flow(w, o) = (w[i] = "resume")
    BY <1>1, <1>3, FlowLast
  <2>2. i + 1 \in 1 .. Len(told) /\ told[i + 1] = w[i]
    BY <1>1
  <2>3. \A j \in (i + 1) + 1 .. Len(told) : told[j] = "refresh"
    <3> TAKE j \in (i + 1) + 1 .. Len(told)
    <3>1. j - 1 \in i + 1 .. n /\ j - 1 \in 1 .. n /\ (j - 1) + 1 = j
      BY <1>1
    <3> QED BY <1>1, <1>3, <3>1
  <2>4. Flow(told, out) = (told[i + 1] = "resume")
    BY <1>3, <2>2, <2>3, FlowLast
  <2> QED BY <2>1, <2>2, <2>4
<1> QED BY <1>1, <1>2, <1>3, FlowCases DEF w

-----------------------------------------------------------------------------
(* A hidden session is told to be silent, the one on the screen to stream. *)

(* A step that leaves the SDL thread in the middle of silencing or waking  *)
(* a slot.                                                                 *)
Excused(s) ==
    \/ sdl.pc \in {"demote", "leave"} /\ s = sdl.old
    \/ sdl.pc \in {"prepare", "switch", "flip"} /\ s = sdl.goal
Waking(s) == sdl.pc \in {"replay", "wake"} /\ s = active

HiddenAt(s) ==
    s # active /\ slot[s].rdp /\ ~slot[s].filling /\ ~slot[s].failed => slot[s].suppressed \/ Excused(s)
ToldAt(s) ==
    /\ slot[s].suppressed => ~Streams(s)
    /\ slot[s].rdp /\ ~slot[s].suppressed /\ ~slot[s].failed => Streams(s) \/ Waking(s)
(* A hidden session is suppressed, or a step is under way that does it;    *)
(* and suppressed is what its server was told last.                        *)
SilenceOK == \A s \in Slots : HiddenAt(s) /\ ToldAt(s)

LEMMA StreamsSame ==
    ASSUME NEW s \in Slots, link'[s].told = link[s].told, link'[s].out = link[s].out
    PROVE  Streams(s)' = Streams(s)
  BY StreamsFlow

LEMMA ToldStreams ==
    ASSUME TypesOK, NEW s \in Slots, NEW commands,
           link'[s].told = link[s].told \o commands, link'[s].out = link[s].out
    PROVE  /\ commands = <<"suppress">> => ~Streams(s)'
           /\ commands \in {<<"resume">>, <<"resume", "refresh">>} => Streams(s)'
           /\ commands = <<"refresh">> => Streams(s)' = Streams(s)
<1>1. link[s].told \in Seq(Commands)
  BY DEF TypesOK, LinksOK, Links
<1>2. /\ Streams(s) = Flow(link[s].told, link[s].out)
      /\ Streams(s)' = Flow(link[s].told \o commands, link[s].out)
  BY StreamsFlow
<1>3. CASE commands = <<"suppress">>
  BY <1>1, <1>2, <1>3, FlowTold
<1>4. CASE commands = <<"resume">>
  BY <1>1, <1>2, <1>4, FlowTold
<1>5. CASE commands = <<"resume", "refresh">>
  BY <1>1, <1>2, <1>5, FlowTold
<1>6. CASE commands = <<"refresh">>
  BY <1>1, <1>2, <1>6, FlowTold
<1> QED BY <1>3, <1>4, <1>5, <1>6

LEMMA WorkerStreams ==
    ASSUME TypesOK, NEW s \in Slots, Worker(s), NEW t \in Slots
    PROVE  Streams(t)' = Streams(t)
<1>0. LinksOK
  BY DEF TypesOK
<1>1. CASE Obey(s)
  <2>1. /\ link'[s].told = Tail(link[s].told) /\ link[s].told # <<>> /\ link[s].told \in Seq(Commands)
        /\ link'[s].out = IF Head(link[s].told) = "refresh" THEN link[s].out
                          ELSE Head(link[s].told) = "resume"
        /\ \A x \in Slots \ {s} : link'[x] = link[x]
    BY <1>0, <1>1 DEF Obey, LinksOK, Links
  <2>2. CASE t = s
    BY <2>1, <2>2, StreamsFlow, FlowObeyed
  <2>3. CASE t # s
    BY <2>1, <2>3, StreamsSame
  <2> QED BY <2>2, <2>3
<1>2. CASE Emit(s)
  <2>1. link'[t].told = link[t].told /\ link'[t].out = link[t].out
    BY <1>0, <1>2 DEF Emit, LinksOK, Links
  <2> QED BY <2>1, StreamsSame
<1>3. ASSUME UNCHANGED link \/ \E where : Hand(s, where) PROVE Streams(t)' = Streams(t)
  <2>1. link'[t].told = link[t].told /\ link'[t].out = link[t].out
    BY <1>3, HandEffect
  <2> QED BY <2>1, StreamsSame
<1>4. CASE Keep(s) \/ Feed(s)
  BY <1>3, <1>4 DEF Keep, Feed
<1>5. CASE Activate(s) \/ Count(s) \/ Break(s) \/ Flag(s) \/ OpenAudio(s) \/ FallQuiet(s)
  BY <1>3, <1>5 DEF Activate, Count, Break, Flag, OpenAudio, FallQuiet
<1> QED BY <1>1, <1>2, <1>4, <1>5 DEF Worker

LEMMA WorkerSilence ==
    ASSUME Core, SilenceOK, NEW s \in Slots, Worker(s)
    PROVE  SilenceOK'
<1>1. WorkerKeeps(s)
  BY WorkerState DEF Core
<1>2. ASSUME NEW t \in Slots
      PROVE  /\ slot'[t].rdp = slot[t].rdp /\ slot'[t].filling = slot[t].filling
             /\ slot'[t].suppressed = slot[t].suppressed
             /\ slot'[t].failed = slot[t].failed \/ slot'[t].failed = TRUE
  BY <1>1 DEF WorkerKeeps, Others
<1>3. \A t \in Slots : Streams(t)' = Streams(t)
  BY WorkerStreams DEF Core
<1> SUFFICES ASSUME NEW t \in Slots PROVE (HiddenAt(t) /\ ToldAt(t))'
  BY DEF SilenceOK
<1>4. active' = active /\ (Excused(t)' <=> Excused(t)) /\ (Waking(t)' <=> Waking(t))
  BY <1>1 DEF WorkerKeeps, Excused, Waking
<1>5. HiddenAt(t) /\ ToldAt(t) /\ Streams(t)' = Streams(t)
  BY <1>3 DEF SilenceOK
<1>6. HiddenAt(t)'
  BY <1>2, <1>4, <1>5 DEF HiddenAt
<1>7. ToldAt(t)'
  BY <1>2, <1>4, <1>5 DEF ToldAt
<1> QED BY <1>6, <1>7

(* A slot that is as it was stays silenced, unless it loses its excuse.    *)
LEMMA SilenceKept ==
    ASSUME SilenceOK, NEW t \in Slots,
           slot'[t].rdp = slot[t].rdp, slot'[t].failed = slot[t].failed,
           slot'[t].filling = slot[t].filling, slot'[t].suppressed = slot[t].suppressed,
           Streams(t)' = Streams(t),
           t # active' => t # active \/ Excused(t)',
           t # active /\ Excused(t) /\ slot[t].rdp /\ ~slot[t].failed /\ ~slot[t].suppressed
              /\ ~slot[t].filling => Excused(t)' \/ t = active',
           Waking(t) /\ ~slot[t].failed => Waking(t)'
    PROVE  (HiddenAt(t) /\ ToldAt(t))'
  BY DEF SilenceOK, HiddenAt, ToldAt

LEMMA SilenceFlags ==
    ASSUME SilenceOK, Flags, UNCHANGED active, sdl.pc \notin {"replay", "wake"},
           \A t \in Slots : Streams(t)' = Streams(t),
           \A t \in Slots : t # active /\ Excused(t) /\ slot[t].rdp /\ ~slot[t].failed
                            /\ ~slot[t].suppressed /\ ~slot[t].filling => Excused(t)'
    PROVE  SilenceOK'
<1> SUFFICES ASSUME NEW t \in Slots PROVE (HiddenAt(t) /\ ToldAt(t))'
  BY DEF SilenceOK
<1> QED BY SilenceKept DEF Flags, Waking

(* A new connection is as quiet as it was told to be.                      *)
LEMMA SilenceFresh ==
    ASSUME NEW s \in Slots, NEW starts \in BOOLEAN, NEW filling \in BOOLEAN, NEW suppressed \in BOOLEAN,
           NEW told, NEW snap, Fresh(s, starts, filling, suppressed, told, snap),
           told = (IF suppressed THEN <<"suppress">> ELSE <<>>), suppressed => starts
    PROVE  /\ ToldAt(s)'
           /\ s = active' \/ ~starts \/ filling \/ suppressed \/ Excused(s)' => HiddenAt(s)'
<1>1. Flow(<<>>, TRUE) /\ ~Flow(<<"suppress">>, TRUE)
  <2>1. <<>> \in Seq(Commands)
    BY Empty
  <2> QED BY <2>1, FlowTold
<1>2. Streams(s)' = Flow(told, TRUE)
  BY StreamsFlow DEF Fresh
<1>3. ToldAt(s)'
  BY <1>1, <1>2 DEF ToldAt, Fresh
<1> QED BY <1>3 DEF HiddenAt, Fresh

LEMMA SilenceSuppressed ==
    ASSUME TypesOK, NEW s \in Slots, NEW filling, Told(s, filling, TRUE, <<"suppress">>)
    PROVE  (HiddenAt(s) /\ ToldAt(s))'
<1>1. ~Streams(s)'
  BY ToldStreams DEF Told
<1> QED BY <1>1 DEF HiddenAt, ToldAt, Told

LEMMA OthersStreams ==
    ASSUME NEW s \in Slots, NEW t \in Slots \ {s}, Others(s)
    PROVE  Streams(t)' = Streams(t)
  BY StreamsSame DEF Others

LEMMA BackgroundSilence ==
    ASSUME TypesOK, SilenceOK, NEW s \in Slots, Background(s), UNCHANGED active, s # active,
           sdl.pc \in {"demote", "leave"}, s = sdl.old,
           sdl'.pc \notin {"replay", "wake"}
    PROVE  SilenceOK'
<1> SUFFICES ASSUME NEW t \in Slots PROVE (HiddenAt(t) /\ ToldAt(t))'
  BY DEF SilenceOK
<1>1. Others(s)
  BY BackgroundEffect
<1>2. CASE t # s
  <2>1. Streams(t)' = Streams(t)
    BY <1>1, <1>2, OthersStreams
  <2> QED BY <1>1, <1>2, <2>1, SilenceKept DEF Others, Excused, Waking
<1>3. CASE t = s
  <2>1. CASE UNCHANGED <<slot, link, cache>> /\ (~slot[s].rdp \/ slot[s].suppressed)
    <3>1. Streams(s)' = Streams(s)
      BY <2>1, StreamsSame
    <3> QED BY <1>3, <2>1, <3>1, SilenceKept DEF Waking
  <2>2. ASSUME NEW starts \in BOOLEAN, NEW snap \in Snaps,
               Fresh(s, starts, starts /\ snap.armed, starts /\ ~snap.armed,
                     IF starts /\ ~snap.armed THEN <<"suppress">> ELSE <<>>, snap)
        PROVE  (HiddenAt(t) /\ ToldAt(t))'
    <3>1. (starts /\ snap.armed) \in BOOLEAN /\ (starts /\ ~snap.armed) \in BOOLEAN
      OBVIOUS
    <3> QED BY <1>3, <2>2, <3>1, SilenceFresh
  <2>3. CASE Told(s, slot[s].filling, TRUE, <<"suppress">>)
    <3>1. PICK filling : filling = slot[s].filling
      OBVIOUS
    <3> QED BY <1>3, <2>3, <3>1, SilenceSuppressed
  <2> QED BY <2>1, <2>2, <2>3, BackgroundEffect
<1> QED BY <1>2, <1>3

LEMMA SwitchSilence ==
    ASSUME Core, SilenceOK,
           \/ Switch \/ Flip \/ Demote \/ Promote \/ Replay \/ Replayed \/ Wake \/ Prepare
    PROVE  SilenceOK'
<1> USE DEF Core
<1>0. active \in Slots /\ LoopOK /\ (sdl.pc \in Switching => sdl.goal \in Slots)
  BY DEF TypesOK, ScreenOK, PlaceOK
<1>01. UNCHANGED link => \A t \in Slots : Streams(t)' = Streams(t)
  BY StreamsSame
<1>1. CASE Switch
  <2>1. sdl.goal \in Slots /\ sdl.pc = "switch" /\ UNCHANGED <<active, link>>
    BY <1>0, <1>1 DEF Switch, At, Switching
  <2>2. Flags
    <3>1. UNCHANGED slot \/ slot' = [slot EXCEPT ![sdl.goal].moved = FALSE]
      BY <1>1 DEF Switch
    <3> QED BY <2>1, <3>1, FlagsFrom
  <2>3. CASE ~slot[sdl.goal].rdp \/ slot[sdl.goal].failed \/ sdl.goal = active
    BY <1>01, <2>1, <2>2, <2>3, SilenceFlags DEF Excused
  <2>4. CASE Call("flip", sdl.goal, sdl.back)
    <3>1. sdl'.pc = "flip" /\ sdl'.goal = sdl.goal
      BY <1>0, <2>4, LoopEffect
    <3>2. \A t \in Slots : Excused(t) => Excused(t)'
      BY <2>1, <3>1 DEF Excused
    <3> QED BY <1>01, <2>1, <2>2, <3>2, SilenceFlags
  <2> QED BY <1>1, <2>3, <2>4 DEF Switch
<1>2. CASE Flip
  <2>1. /\ sdl.pc = "flip" /\ active' = sdl.goal /\ UNCHANGED <<slot, link>>
        /\ sdl'.pc = "demote" /\ sdl'.old = active
    BY <1>0, <1>2 DEF Flip, At, LoopOK
  <2> SUFFICES ASSUME NEW t \in Slots PROVE (HiddenAt(t) /\ ToldAt(t))'
    BY DEF SilenceOK
  <2>2. t # active' => t # active \/ Excused(t)'
    BY <2>1 DEF Excused
  <2>3. t # active /\ Excused(t) => t = active'
    BY <2>1 DEF Excused
  <2> QED BY <1>01, <2>1, <2>2, <2>3, SilenceKept DEF Waking
<1>3. CASE Demote
  <2>1. PICK s \in Slots : s = sdl.old /\ s # active
    BY <1>3 DEF Demote, At, PlaceOK
  <2>2. UNCHANGED active /\ sdl.pc = "demote" /\ sdl'.pc = "promote" /\ Background(s)
    BY <1>0, <1>3, <2>1, LoopEffect DEF Demote, At, screen
  <2> QED BY <2>1, <2>2, BackgroundSilence
<1>4. CASE Promote
  <2>1. /\ sdl.pc = "promote" /\ sdl.goal = active /\ UNCHANGED <<active, link>>
    BY <1>4 DEF Promote, At, PlaceOK, screen
  <2>2. \A t \in Slots \ {active} : slot'[t] = slot[t]
    BY <1>4, <2>1 DEF Promote, TypesOK, SlotsOK
  <2>3. /\ slot'[active].rdp = slot[active].rdp /\ slot'[active].failed = slot[active].failed
        /\ slot'[active].suppressed = FALSE
        /\ slot[active].suppressed => sdl'.pc \in {"replay", "wake"}
    <3>1. CASE slot[active].filling /\ slot' = [slot EXCEPT ![active].filling = FALSE]
      BY <1>0, <3>1 DEF TypesOK, SlotsOK, SlotType, StateOK, StateAt
    <3>2. CASE /\ slot' = [slot EXCEPT ![active].suppressed = FALSE]
               /\ \E replays : sdl' = [sdl EXCEPT !.pc = IF replays THEN "replay" ELSE "wake",
                                     !.left = IF replays THEN cache[active].snap.aus ELSE <<>>]
      BY <1>0, <3>2 DEF TypesOK, SlotsOK, SlotType, LoopOK
    <3>3. CASE ~slot[active].filling /\ ~slot[active].suppressed /\ UNCHANGED slot
      BY <1>0, <3>3 DEF TypesOK, SlotsOK, SlotType
    <3> QED BY <1>4, <2>1, <3>1, <3>2, <3>3 DEF Promote
  <2> SUFFICES ASSUME NEW t \in Slots PROVE (HiddenAt(t) /\ ToldAt(t))'
    BY DEF SilenceOK
  <2>4. CASE t # active
    BY <1>01, <2>1, <2>2, <2>4, SilenceKept DEF Excused, Waking
  <2>5. CASE t = active
    <3>1. Streams(t)' = Streams(t) /\ ToldAt(t) /\ ~Waking(t)
      BY <1>01, <2>1 DEF SilenceOK, Waking
    <3>2. sdl'.pc \in {"replay", "wake"} => Waking(t)'
      BY <2>1, <2>5 DEF Waking
    <3> QED BY <2>1, <2>3, <2>5, <3>1, <3>2 DEF HiddenAt, ToldAt
  <2> QED BY <2>4, <2>5
<1>5. CASE Replay
  <2>1. /\ sdl.pc = "replay" /\ sdl.goal = active /\ UNCHANGED <<active, link>>
    BY <1>5 DEF Replay, At, PlaceOK, screen
  <2>2. sdl'.pc = "replay"
    BY <1>0, <1>5, <2>1 DEF Replay, LoopOK
  <2>3. Flags
    <3>1. CASE UNCHANGED slot
      BY <3>1, <1>0, FlagsFrom
    <3>2. CASE \E r \in Offers(active, Head(sdl.left)) : slot' = [slot EXCEPT ![active].moved = @ \/ r.ok]
      <4>1. PICK r : slot' = [slot EXCEPT ![active].moved = @ \/ r.ok]
        BY <3>2
      <4>2. slot' = [slot EXCEPT ![active].moved = slot[active].moved \/ r.ok]
        BY <1>0, <4>1 DEF TypesOK, SlotsOK, SlotType
      <4> QED BY <1>0, <4>2, FlagsFrom
    <3> QED BY <1>5, <2>1, <3>1, <3>2 DEF Replay
  <2> SUFFICES ASSUME NEW t \in Slots PROVE (HiddenAt(t) /\ ToldAt(t))'
    BY DEF SilenceOK
  <2> QED BY <1>01, <2>1, <2>2, <2>3, SilenceKept DEF Flags, Excused, Waking
<1>6. CASE Replayed
  <2>1. /\ sdl.pc = "replay" /\ sdl.goal = active /\ UNCHANGED <<active, slot>>
        /\ ~slot[active].suppressed
    BY <1>6 DEF Replayed, At, PlaceOK, screen
  <2> SUFFICES ASSUME NEW t \in Slots PROVE (HiddenAt(t) /\ ToldAt(t))'
    BY DEF SilenceOK
  <2>2. CASE Goto("wake") /\ UNCHANGED link
    <3>1. sdl'.pc = "wake"
      BY <1>0, <2>2, LoopEffect
    <3> QED BY <1>01, <2>1, <2>2, <3>1, SilenceKept DEF Excused, Waking
  <2>3. CASE Say(active, <<"resume">>)
    <3>1. Streams(active)' /\ \A x \in Slots \ {active} : link'[x] = link[x]
      <4>1. PICK s \in Slots : s = active
        BY <1>0
      <4>2. /\ link'[s].told = link[s].told \o <<"resume">> /\ link'[s].out = link[s].out
            /\ \A x \in Slots \ {s} : link'[x] = link[x]
        BY <2>3, <4>1, SayEffect
      <4>3. Streams(s)'
        BY <4>2, ToldStreams
      <4> QED BY <2>1, <4>1, <4>2, <4>3
    <3>2. CASE t = active
      BY <2>1, <3>1, <3>2 DEF HiddenAt, ToldAt
    <3>3. CASE t # active
      <4>1. Streams(t)' = Streams(t)
        BY <3>1, <3>3, StreamsSame
      <4> QED BY <2>1, <3>3, <4>1, SilenceKept DEF Excused, Waking
    <3> QED BY <3>2, <3>3
  <2> QED BY <1>6, <2>1, <2>2, <2>3 DEF Replayed
<1>7. CASE Wake
  <2>1. /\ sdl.pc = "wake" /\ sdl.goal = active /\ UNCHANGED active /\ ~slot[active].suppressed
    BY <1>7 DEF Wake, At, PlaceOK, screen
  <2>2. PICK s \in Slots : s = active
    BY <1>0
  <2> SUFFICES ASSUME NEW t \in Slots PROVE (HiddenAt(t) /\ ToldAt(t))'
    BY DEF SilenceOK
  <2>3. CASE slot[s].failed /\ UNCHANGED <<slot, link>>
    BY <1>01, <2>1, <2>2, <2>3, SilenceKept DEF Excused, Waking
  <2>4. CASE Reconnect(s)
    <3>1. PICK starts \in BOOLEAN : Others(s) /\ Fresh(s, starts, FALSE, FALSE, <<>>, Disarmed)
      BY <2>4, ReconnectEffect
    <3>2. CASE t = s
      BY <2>1, <2>2, <3>1, <3>2, SilenceFresh
    <3>3. CASE t # s
      BY <2>1, <2>2, <3>1, <3>3, OthersStreams, SilenceKept DEF Others, Excused, Waking
    <3> QED BY <3>2, <3>3
  <2>5. CASE Say(s, <<"resume", "refresh">>) /\ UNCHANGED slot
    <3>1. Streams(s)' /\ \A x \in Slots \ {s} : link'[x] = link[x]
      BY <2>5, SayEffect, ToldStreams
    <3>2. CASE t = s
      BY <2>1, <2>2, <2>5, <3>1, <3>2 DEF HiddenAt, ToldAt
    <3>3. CASE t # s
      <4>1. Streams(t)' = Streams(t)
        BY <3>1, <3>3, StreamsSame
      <4> QED BY <2>1, <2>2, <2>5, <3>3, <4>1, SilenceKept DEF Excused, Waking
    <3> QED BY <3>2, <3>3
  <2> QED BY <1>7, <2>1, <2>2, <2>3, <2>4, <2>5 DEF Wake
<1>8. CASE Prepare
  <2>1. PICK s \in Slots : s = sdl.goal /\ Others(s) /\ Prepared(s) /\ s # active
    BY <1>8, PrepareEffect DEF Prepare, At, PlaceOK
  <2>2. sdl.pc = "prepare" /\ UNCHANGED active
    BY <1>8 DEF Prepare, At
  <2> SUFFICES ASSUME NEW t \in Slots PROVE (HiddenAt(t) /\ ToldAt(t))'
    BY DEF SilenceOK
  <2>3. CASE t # s
    BY <2>1, <2>2, <2>3, OthersStreams, SilenceKept DEF Others, Excused, Waking
  <2>4. Goto("switch") => Excused(s)'
    <3>1. Goto("switch") => sdl'.pc = "switch" /\ sdl'.goal = s
      BY <1>0, <2>1, LoopEffect
    <3> QED BY <3>1 DEF Excused
  <2>5. CASE t = s /\ slot[s].filling /\ UNCHANGED <<slot, link>>
    BY <1>01, <2>1, <2>2, <2>5, SilenceKept DEF Waking
  <2>6. ASSUME NEW starts \in BOOLEAN, NEW snap \in Snaps, t = s,
               Fresh(s, starts, starts /\ snap.armed, FALSE, <<>>, snap),
               \/ starts /\ ~snap.armed /\ Goto("switch")
               \/ ~(starts /\ ~snap.armed)
        PROVE  (HiddenAt(t) /\ ToldAt(t))'
    <3>1. (starts /\ snap.armed) \in BOOLEAN
      OBVIOUS
    <3> QED BY <2>4, <2>6, <3>1, SilenceFresh
  <2>7. CASE t = s /\ UNCHANGED <<slot, link>> /\ Goto("switch")
    BY <1>01, <2>1, <2>2, <2>4, <2>7, SilenceKept DEF Waking
  <2>8. CASE t = s /\ Told(s, TRUE, FALSE, <<"resume", "refresh">>)
    <3>1. Streams(s)'
      BY <2>8, ToldStreams DEF Told
    <3> QED BY <2>8, <3>1 DEF Told, HiddenAt, ToldAt
  <2> QED BY <2>1, <2>3, <2>5, <2>6, <2>7, <2>8 DEF Prepared
<1> QED BY <1>1, <1>2, <1>3, <1>4, <1>5, <1>6, <1>7, <1>8

LEMMA ReconnectSilence ==
    ASSUME Core, SilenceOK, NEW s \in Slots, Reconnect(s), s = active, UNCHANGED active,
           sdl.pc \notin {"replay", "wake", "demote", "leave", "prepare", "switch", "flip"}
    PROVE  SilenceOK'
<1> SUFFICES ASSUME NEW t \in Slots PROVE (HiddenAt(t) /\ ToldAt(t))'
  BY DEF SilenceOK
<1>1. PICK starts \in BOOLEAN : Others(s) /\ Fresh(s, starts, FALSE, FALSE, <<>>, Disarmed)
  BY ReconnectEffect DEF Core
<1>2. CASE t = s
  BY <1>1, <1>2, SilenceFresh
<1>3. CASE t # s
  BY <1>1, <1>3, OthersStreams, SilenceKept DEF Others, Excused, Waking
<1> QED BY <1>2, <1>3

LEMMA StopSilence ==
    ASSUME Core, SilenceOK, NEW s \in Slots, StopSlot(s), UNCHANGED active,
           sdl.pc \in {"bury", "drain"}
    PROVE  SilenceOK'
<1> SUFFICES ASSUME NEW t \in Slots PROVE (HiddenAt(t) /\ ToldAt(t))'
  BY DEF SilenceOK
<1>1. Others(s) /\ Fresh(s, FALSE, FALSE, FALSE, <<>>, Disarmed)
  BY StopEffect DEF Core
<1>2. CASE t = s
  BY <1>1, <1>2 DEF Fresh, HiddenAt, ToldAt
<1>3. CASE t # s
  BY <1>1, <1>3, OthersStreams, SilenceKept DEF Others, Excused, Waking
<1> QED BY <1>2, <1>3

LEMMA PressSilence ==
    ASSUME Core, SilenceOK,
           \/ PressCancel \/ Leave \/ \E s \in Slots : PressLive(s) \/ PressOffline(s)
    PROVE  SilenceOK'
<1> USE DEF Core
<1>0. active \in Slots /\ LoopOK
  BY DEF TypesOK, ScreenOK
<1>01. UNCHANGED link => \A t \in Slots : Streams(t)' = Streams(t)
  BY StreamsSame
<1>1. CASE PressCancel
  BY <1>0, <1>01, <1>1, FlagsFrom, SilenceFlags DEF PressCancel, At, Excused
<1>2. CASE Leave
  <2>1. PICK s \in Slots : s = sdl.old /\ s # active
    BY <1>2 DEF Leave, At, PlaceOK
  <2>2. UNCHANGED active /\ sdl.pc = "leave" /\ sdl'.pc = "scan" /\ Background(s)
    BY <1>0, <1>2, <2>1, LoopEffect DEF Leave, At, screen
  <2> QED BY <2>1, <2>2, BackgroundSilence
<1>3. ASSUME NEW s \in Slots, PressLive(s) PROVE SilenceOK'
  <2>1. Flags
    BY <1>3 DEF PressLive, Flags, TypesOK, SlotsOK, SlotType
  <2> QED BY <1>01, <1>3, <2>1, SilenceFlags DEF PressLive, At, Excused
<1>4. ASSUME NEW s \in Slots, PressOffline(s) PROVE SilenceOK'
  <2>1. sdl.pc = "input" /\ UNCHANGED <<slot, link>> /\ active' = s
    BY <1>4 DEF PressOffline, At
  <2>2. s # active => sdl'.pc = "leave" /\ sdl'.old = active
    BY <1>0, <1>4 DEF PressOffline, LoopOK
  <2> SUFFICES ASSUME NEW t \in Slots PROVE (HiddenAt(t) /\ ToldAt(t))'
    BY DEF SilenceOK
  <2>3. t # active' => t # active \/ Excused(t)'
    BY <2>1, <2>2 DEF Excused
  <2> QED BY <1>01, <2>1, <2>3, SilenceKept DEF Excused, Waking
<1> QED BY <1>1, <1>2, <1>3, <1>4

LEMMA TickSilence ==
    ASSUME Core, SilenceOK,
           \/ Scan \/ Filled \/ StillFilling \/ FillExpires \/ Deferred \/ DeferredExpires
           \/ Recover \/ Watchdog \/ WatchdogExpires \/ Renew
    PROVE  SilenceOK'
<1> USE DEF Core
<1>0. active \in Slots /\ LoopOK
  BY DEF TypesOK, ScreenOK
<1>01. UNCHANGED link => \A t \in Slots : Streams(t)' = Streams(t)
  BY StreamsSame
<1>1. CASE \/ Scan \/ StillFilling \/ Deferred \/ DeferredExpires
           \/ Recover \/ Watchdog \/ WatchdogExpires
  <2>1. /\ sdl.pc \in {"input", "scan", "filled", "deferred", "watchdog", "deadline"}
        /\ UNCHANGED active
    BY <1>1 DEF Scan, StillFilling, Deferred, DeferredExpires, Recover, Watchdog,
                WatchdogExpires, Deadline, At, screen
  <2>2. Flags
    <3>1. CASE StillFilling
      <4>1. sdl.at \in Slots
        BY <3>1 DEF StillFilling, At, PlaceOK
      <4> QED BY <3>1, <4>1, FlagsFrom DEF StillFilling
    <3>2. CASE Scan \/ Deferred \/ DeferredExpires \/ Watchdog
      BY <1>0, <3>2, FlagsFrom DEF Scan, Deferred, DeferredExpires, Watchdog
    <3>3. CASE Recover \/ WatchdogExpires
      <4>1. \/ UNCHANGED slot \/ slot' = [slot EXCEPT ![active].moved = FALSE]
            \/ slot' = [slot EXCEPT ![active].ineffective = TRUE, ![active].moved = FALSE]
        BY <3>3 DEF Recover, WatchdogExpires
      <4> QED BY <1>0, <4>1, FlagsFrom
    <3> QED BY <1>1, <3>1, <3>2, <3>3
  <2>3. ASSUME NEW t \in Slots PROVE Streams(t)' = Streams(t)
    <3>1. UNCHANGED link \/ Say(active, <<"refresh">>)
      BY <1>1 DEF Scan, StillFilling, Deferred, DeferredExpires, Recover, Watchdog, WatchdogExpires
    <3>2. CASE Say(active, <<"refresh">>)
      <4>1. PICK s \in Slots : s = active
        BY <1>0
      <4>2. Streams(s)' = Streams(s) /\ \A x \in Slots \ {s} : link'[x] = link[x]
        BY <3>2, <4>1, SayEffect, ToldStreams
      <4>3. t # s => Streams(t)' = Streams(t)
        BY <4>2, StreamsSame
      <4> QED BY <4>2, <4>3
    <3> QED BY <1>01, <3>1, <3>2
  <2> QED BY <2>1, <2>2, <2>3, SilenceFlags DEF Excused
<1>2. ASSUME NEW s \in Slots, Silence(s), UNCHANGED active, sdl.pc = "filled" PROVE SilenceOK'
  <2>1. /\ Told(s, FALSE, TRUE, <<"suppress">>)
        /\ \A t \in Slots \ {s} : slot'[t] = slot[t] /\ link'[t] = link[t]
    BY <1>2, SilenceEffect
  <2> SUFFICES ASSUME NEW t \in Slots PROVE (HiddenAt(t) /\ ToldAt(t))'
    BY DEF SilenceOK
  <2>2. CASE t = s
    BY <2>1, <2>2, SilenceSuppressed
  <2>3. CASE t # s
    <3>1. Streams(t)' = Streams(t)
      BY <2>1, <2>3, StreamsSame
    <3> QED BY <1>2, <2>1, <2>3, <3>1, SilenceKept DEF Excused, Waking
  <2> QED BY <2>2, <2>3
<1>3. CASE Filled
  <2>1. sdl.at \in Slots /\ Silence(sdl.at) /\ UNCHANGED active /\ sdl.pc = "filled"
    BY <1>3 DEF Filled, At, PlaceOK
  <2> QED BY <1>2, <2>1
<1>4. CASE FillExpires
  <2>1. PICK s \in Slots : s = sdl.at
    BY <1>4 DEF FillExpires, At, PlaceOK
  <2>2. sdl.pc = "filled" /\ UNCHANGED active /\ s # active /\ slot[s].filling
    BY <1>4, <2>1 DEF FillExpires, At, PlaceOK
  <2>3. CASE Silence(s)
    BY <1>2, <2>2, <2>3
  <2>4. CASE /\ slot' = [slot EXCEPT ![s].ineffective = TRUE, ![s].filling = FALSE]
             /\ Call("prepare", s, "scan") /\ UNCHANGED link
    <3> DEFINE new == [slot[s] EXCEPT !.ineffective = TRUE, !.filling = FALSE]
    <3>1. /\ new.rdp = slot[s].rdp /\ new.failed = slot[s].failed
          /\ new.suppressed = slot[s].suppressed
      BY DEF TypesOK, SlotsOK, SlotType
    <3>2. slot' = [slot EXCEPT ![s] = new]
      BY <2>4 DEF TypesOK, SlotsOK, SlotType
    <3> HIDE DEF new
    <3>3. /\ slot'[s].rdp = slot[s].rdp /\ slot'[s].failed = slot[s].failed
          /\ slot'[s].suppressed = slot[s].suppressed
          /\ \A t \in Slots \ {s} : slot'[t] = slot[t]
      BY <3>1, <3>2 DEF TypesOK, SlotsOK
    <3>4. Excused(s)'
      <4>1. sdl'.pc = "prepare" /\ sdl'.goal = s
        BY <1>0, <2>4, LoopEffect
      <4> QED BY <4>1 DEF Excused
    <3> SUFFICES ASSUME NEW t \in Slots PROVE (HiddenAt(t) /\ ToldAt(t))'
      BY DEF SilenceOK
    <3>5. CASE t = s
      <4>1. Streams(s)' = Streams(s) /\ ToldAt(s) /\ ~Waking(s)
        BY <1>01, <2>2, <2>4 DEF SilenceOK, Waking
      <4> QED BY <3>3, <3>4, <3>5, <4>1 DEF HiddenAt, ToldAt
    <3>6. CASE t # s
      BY <1>01, <2>2, <2>4, <3>3, <3>6, SilenceKept DEF Excused, Waking
    <3> QED BY <3>5, <3>6
  <2> QED BY <1>4, <2>1, <2>3, <2>4 DEF FillExpires
<1>5. CASE Renew
  <2>1. sdl.pc = "renew" /\ UNCHANGED active /\ Reconnect(active)
    BY <1>5 DEF Renew, At, screen
  <2> QED BY <1>0, <2>1, ReconnectSilence
<1> QED BY <1>1, <1>3, <1>4, <1>5

LEMMA DrainSilence ==
    ASSUME Core, SilenceOK, DrainSwitch \/ Bury \/ DrainStop \/ Enter \/ Dial
    PROVE  SilenceOK'
<1> USE DEF Core
<1>0. active \in Slots /\ LoopOK
  BY DEF TypesOK, ScreenOK
<1>01. UNCHANGED link => \A t \in Slots : Streams(t)' = Streams(t)
  BY StreamsSame
<1>1. CASE DrainSwitch \/ Enter
  <2>1. sdl.pc = "drain" /\ UNCHANGED <<slot, link, active>>
    BY <1>1 DEF DrainSwitch, Enter, At, PlaceOK, screen
  <2> QED BY <1>0, <1>01, <2>1, FlagsFrom, SilenceFlags DEF Excused
<1>2. CASE Bury
  <2>1. sdl.at \in Slots /\ StopSlot(sdl.at) /\ UNCHANGED active /\ sdl.pc = "bury"
    BY <1>2 DEF Bury, At, PlaceOK, screen
  <2> QED BY <2>1, StopSilence
<1>3. CASE DrainStop
  <2>1. /\ First(Failed) \in Slots /\ StopSlot(First(Failed)) /\ UNCHANGED active
        /\ sdl.pc = "drain"
    BY <1>3, FirstIn DEF DrainStop, Failed, At
  <2> QED BY <2>1, StopSilence
<1>4. CASE Dial
  <2>1. PICK s \in Slots : s = request
    BY <1>4, DialEffect
  <2>2. sdl.pc = "connect" /\ s = active
    BY <1>4, <2>1, SlotsAssumption DEF Dial, At, PlaceOK, NoSlot, Slots
  <2>3. CASE UNCHANGED <<slot, link, active>>
    BY <1>0, <1>01, <2>2, <2>3, FlagsFrom, SilenceFlags DEF Excused
  <2>4. ASSUME NEW starts \in BOOLEAN, Others(s), active' = s,
               Fresh(s, starts, FALSE, FALSE, <<>>, Disarmed)
        PROVE  SilenceOK'
    <3> SUFFICES ASSUME NEW t \in Slots PROVE (HiddenAt(t) /\ ToldAt(t))'
      BY DEF SilenceOK
    <3>1. CASE t = s
      BY <2>4, <3>1, SilenceFresh
    <3>2. CASE t # s
      BY <2>2, <2>4, <3>2, OthersStreams, SilenceKept DEF Others, Excused, Waking
    <3> QED BY <3>1, <3>2
  <2> QED BY <1>4, <2>1, <2>3, <2>4, DialEffect
<1> QED BY <1>1, <1>2, <1>3, <1>4

LEMMA NextSilence ==
    ASSUME Core, SilenceOK, [Next]_vars
    PROVE  SilenceOK'
<1>1. CASE UNCHANGED vars
  <2>1. \A t \in Slots : Streams(t)' = Streams(t)
    BY <1>1, StreamsSame DEF vars
  <2> QED BY <1>1, <2>1 DEF vars, screen, SilenceOK, HiddenAt, ToldAt, Excused, Waking
<1>2. ASSUME NEW s \in Slots, Worker(s) PROVE SilenceOK'
  BY <1>2, WorkerSilence
<1>3. CASE Sdl
  BY <1>3, SdlGroups, SwitchSilence, PressSilence, TickSilence, DrainSilence
     DEF Switches, Presses, Ticks, Drains
<1> QED BY <1>1, <1>2, <1>3 DEF Next

LEMMA InitSilence == Init => SilenceOK
  BY DEF Init, IdleSlot, SilenceOK, HiddenAt, ToldAt

LEMMA SpecSilence == Spec => [](Core /\ SilenceOK)
<1>1. Core /\ SilenceOK /\ [Next]_vars => (Core /\ SilenceOK)'
  BY NextCore, NextSilence
<1> QED BY <1>1, InitCore, InitSilence, PTL DEF Spec

LEMMA RestedPlace == Rested => \A s \in Slots : ~Excused(s) /\ ~Waking(s)
  BY DEF Rested, At, Excused, Waking

(* Between two iterations of the loop, every session off the screen has    *)
(* been told to suppress its output last, or fills a snapshot, or failed.  *)
THEOREM HiddenAreSilenced == Spec => []HiddenSilenced
<1>1. Core /\ SilenceOK => HiddenSilenced
  BY RestedPlace DEF SilenceOK, HiddenAt, ToldAt, HiddenSilenced
<1> QED BY <1>1, SpecSilence, PTL

(* Between two iterations of the loop, the session on the screen has not   *)
(* been left suppressed or filling: the last it was told is to stream.     *)
THEOREM ScreenIsFed == Spec => []ScreenStreams
<1>1. Core /\ SilenceOK => ScreenStreams
  <2> SUFFICES ASSUME Core, SilenceOK, Rested, slot[active].rdp, ~slot[active].failed
               PROVE  Streams(active) /\ ~slot[active].suppressed /\ ~slot[active].filling
    BY DEF ScreenStreams
  <2>1. active \in Slots /\ ~slot[active].suppressed /\ ~slot[active].filling
    BY DEF Core, TypesOK, ScreenOK, PlaceOK, Rested, At
  <2> QED BY <2>1, RestedPlace DEF SilenceOK, ToldAt
<1> QED BY <1>1, SpecSilence, PTL

-----------------------------------------------------------------------------
(* The media pipeline and the sessions.                                    *)

(* What waits for the loop to release it: a session that did not start     *)
(* left the pipeline without a session, and the failure drain of this      *)
(* iteration is still to come.                                             *)
Held == decoder.owner # NoSlot \/ decoder.audio
MediaOK ==
    Held /\ Connected = {} =>
        \/ sdl.pc = "bury"
        \/ /\ sdl.pc \in {"scan", "deferred", "watchdog", "deadline", "renew"}
           /\ \E s \in Slots : slot[s].failed
        \/ sdl.pc = "drain" /\ Failed # {}

(* Outside a replay the SDL thread only ever gives the pipeline up.        *)
LEMMA HeldKept ==
    ASSUME Core, Sdl, ~Replay, Held'
    PROVE  Held
<1>1. CASE decoder' = decoder
  BY <1>1 DEF Held
<1>2. CASE decoder' = NoMedia
  BY <1>2 DEF Held, NoMedia, NoDecoder
<1>3. ASSUME NEW s \in Slots, decoder' = Orphaned(s) PROVE Held
  BY <1>3 DEF Held, Orphaned, Core, TypesOK, DecoderOK
<1> QED BY <1>1, <1>2, <1>3, SdlDecoder

LEMMA ConnectedFlags ==
    ASSUME Flags
    PROVE  Connected' = Connected /\ \A s \in Slots : slot'[s].failed = slot[s].failed
  BY DEF Flags, Connected

LEMMA ConnectedOne ==
    ASSUME NEW s \in Slots, slot'[s].rdp
    PROVE  MediaOK'
  BY DEF MediaOK, Connected

(* No session, so no worker: none can take the pipeline.                   *)
LEMMA WorkerMedia ==
    ASSUME Core, MediaOK, NEW s \in Slots, Worker(s)
    PROVE  MediaOK'
<1>1. CASE slot[s].rdp
  BY <1>1, WorkerState, ConnectedOne DEF Core, WorkerKeeps
<1>2. CASE ~slot[s].rdp
  <2>1. slot[s].state = "idle" /\ link[s].hand = "none"
    <3>1. link[s].hand \in {"none", "behind", "front", "fed", "failing"}
      BY DEF Core, TypesOK, LinksOK, Links
    <3> QED BY <1>2, <3>1 DEF Core, StateOK, StateAt
  <2>2. FallQuiet(s)
    BY <1>2, <2>1 DEF Worker, Activate, Obey, Emit, Keep, Feed, Count, Break, Flag, OpenAudio
  <2> QED BY <2>2 DEF FallQuiet, MediaOK, Held, Connected, Failed
<1> QED BY <1>1, <1>2

LEMMA SwitchMedia ==
    ASSUME Core, MediaOK, Switches
    PROVE  MediaOK'
<1> USE DEF Core
<1>0. active \in Slots /\ LoopOK
  BY DEF TypesOK, ScreenOK
<1>1. PICK g \in Slots : g = sdl.goal /\ slot[g].rdp
  BY DEF Switches, Switch, Flip, Demote, Promote, Replay, Replayed, Wake, Prepare, At, PlaceOK, Switching
<1>2. CASE Switch \/ Flip \/ Replay \/ Replayed
  <2>1. Flags
    <3>1. UNCHANGED slot \/ (\E b : slot' = [slot EXCEPT ![g].moved = b])
      BY <1>1, <1>2 DEF Switch, Flip, Replay, Replayed
    <3> QED BY <3>1, FlagsFrom
  <2> QED BY <1>1, <2>1, ConnectedOne DEF Flags
<1>3. CASE Promote
  <2>0. \/ slot' = [slot EXCEPT ![g].filling = FALSE]
        \/ slot' = [slot EXCEPT ![g].suppressed = FALSE]
        \/ UNCHANGED slot
    BY <1>1, <1>3 DEF Promote
  <2>1. slot'[g].rdp = slot[g].rdp
    BY <2>0 DEF TypesOK, SlotsOK, SlotType
  <2> QED BY <1>1, <2>1, ConnectedOne
<1>4. CASE Demote
  <2>1. sdl.old \in Slots /\ Background(sdl.old) /\ g # sdl.old
    BY <1>1, <1>4 DEF Demote, At, PlaceOK
  <2>2. slot'[g] = slot[g]
    BY <2>1, BackgroundEffect DEF Others
  <2> QED BY <1>1, <2>2, ConnectedOne
<1>5. CASE Wake
  <2>1. sdl.pc = "wake" /\ sdl.back \in {"scan", "watchdog", "bury"} /\ sdl'.pc = sdl.back
    BY <1>0, <1>5, LoopEffect DEF Wake, At, Watch, PlaceOK, Switching, LoopOK
  <2>2. CASE UNCHANGED slot
    BY <1>1, <2>2, ConnectedOne
  <2>3. CASE Reconnect(g)
    <3>1. PICK starts \in BOOLEAN : slot'[g].rdp = starts /\ slot'[g].failed = ~starts
      BY <2>3, ReconnectEffect DEF Fresh
    <3>2. CASE starts
      BY <3>1, <3>2, ConnectedOne
    <3>3. CASE ~starts
      BY <2>1, <3>1, <3>3 DEF MediaOK
    <3> QED BY <3>2, <3>3
  <2>4. ASSUME Say(g, <<"resume", "refresh">>), UNCHANGED slot PROVE MediaOK'
    BY <1>1, <2>4, ConnectedOne
  <2> QED BY <1>1, <1>5, <2>2, <2>3 DEF Wake
<1>6. CASE Prepare
  <2>1. sdl.pc = "prepare" /\ sdl.back \in {"scan", "watchdog", "bury"}
    BY <1>0, <1>6 DEF Prepare, At, PlaceOK, Switching, LoopOK
  <2>2. Return => sdl'.pc = sdl.back
    BY <1>0, LoopEffect
  <2>3. Prepared(g)
    BY <1>1, <1>6, PrepareEffect
  <2>4. ASSUME NEW starts \in BOOLEAN, NEW snap,
               Fresh(g, starts, starts /\ snap.armed, FALSE, <<>>, snap), slot'[g].failed = ~starts,
               starts \/ Return
        PROVE  MediaOK'
    <3>1. CASE starts
      BY <2>4, <3>1, ConnectedOne DEF Fresh
    <3>2. CASE ~starts
      BY <2>1, <2>2, <2>4, <3>2 DEF MediaOK
    <3> QED BY <3>1, <3>2
  <2>5. CASE slot'[g].rdp = slot[g].rdp
    BY <1>1, <2>5, ConnectedOne
  <2> QED BY <2>3, <2>4, <2>5 DEF Prepared, Told
<1> QED BY <1>2, <1>3, <1>4, <1>5, <1>6 DEF Switches

LEMMA PressMedia ==
    ASSUME Core, MediaOK, Sdl, Presses
    PROVE  MediaOK'
<1> USE DEF Core
<1>0. active \in Slots /\ LoopOK
  BY DEF TypesOK, ScreenOK
<1>1. sdl.pc \in {"input", "leave"} /\ ~Replay
  BY DEF Presses, PressCancel, Leave, PressLive, PressOffline, Replay, At
<1>2. Held' /\ Connected = {} => FALSE
  BY <1>1, HeldKept DEF MediaOK
<1>3. CASE Flags
  BY <1>2, <1>3, ConnectedFlags DEF MediaOK
<1>4. CASE Leave
  <2>1. sdl.old \in Slots /\ Background(sdl.old) /\ sdl'.pc = "scan"
    BY <1>0, <1>4, LoopEffect DEF Leave, At, PlaceOK
  <2>2. PICK o \in Slots : o = sdl.old
    BY <2>1
  <2>3. Others(o)
    BY <2>1, <2>2, BackgroundEffect
  <2>4. CASE slot'[o].rdp = slot[o].rdp
    <3>1. Connected' = Connected
      BY <2>3, <2>4 DEF Connected, Others
    <3> QED BY <1>2, <3>1 DEF MediaOK
  <2>5. CASE \E starts \in BOOLEAN : slot'[o].rdp = starts /\ slot'[o].failed = ~starts
    <3>1. slot'[o].rdp \/ slot'[o].failed
      BY <2>5
    <3> QED BY <2>1, <3>1, ConnectedOne DEF MediaOK
  <2>6. \/ slot'[o].rdp = slot[o].rdp
        \/ \E starts \in BOOLEAN : slot'[o].rdp = starts /\ slot'[o].failed = ~starts
    BY <2>1, <2>2, BackgroundEffect DEF Fresh, Told
  <2> QED BY <2>4, <2>5, <2>6
<1>5. Flags \/ Leave
  <2>1. UNCHANGED slot \/ (\E s \in Slots : slot' = [slot EXCEPT ![s].retried = FALSE]) \/ Leave
    BY DEF Presses, PressCancel, PressLive, PressOffline
  <2> QED BY <2>1 DEF Flags, TypesOK, SlotsOK, SlotType
<1> QED BY <1>3, <1>4, <1>5

LEMMA TickMedia ==
    ASSUME Core, MediaOK, Sdl, Ticks
    PROVE  MediaOK'
<1> USE DEF Core
<1>0. active \in Slots /\ LoopOK /\ ~Replay
  BY DEF TypesOK, ScreenOK, Ticks, Scan, Filled, StillFilling, FillExpires, Deferred,
         DeferredExpires, Recover, Watchdog, WatchdogExpires, Renew, Deadline, Replay, At
<1>01. Held' => Held
  BY <1>0, HeldKept
<1>02. \A pc : Rest(pc) => sdl'.pc = pc /\ sdl'.at = NoSlot
  BY DEF Rest, Loop
<1>03. \A s \in Slots : s > NoSlot
  BY SlotsAssumption DEF Slots, NoSlot
(* The failed session is still there, and the drain that starts over sees  *)
(* it.                                                                     *)
<1>04. ASSUME Flags, sdl.pc \in {"input", "scan", "deferred", "watchdog", "deadline"},
              \/ sdl'.pc \in {"scan", "deferred", "watchdog", "deadline", "renew"}
              \/ sdl'.pc = "drain" /\ sdl'.at = NoSlot
       PROVE  MediaOK'
  <2> SUFFICES ASSUME Held', Connected' = {}
               PROVE  \/ /\ sdl'.pc \in {"scan", "deferred", "watchdog", "deadline", "renew"}
                         /\ \E s \in Slots : slot'[s].failed
                      \/ sdl'.pc = "drain" /\ Failed' # {}
    BY DEF MediaOK
  <2>1. PICK s \in Slots : slot'[s].failed
    BY <1>01, <1>04, ConnectedFlags DEF MediaOK
  <2>2. sdl'.at = NoSlot => s \in Failed'
    BY <1>03, <2>1 DEF Failed
  <2> QED BY <1>04, <2>1, <2>2
<1>1. CASE Scan
  <2>1. CASE Filling = {}
    <3>1. sdl.pc \in {"input", "scan"} /\ UNCHANGED slot /\ sdl'.pc \in {"watchdog", "deferred"}
      BY <1>1, <1>02, <2>1 DEF Scan, At
    <3> QED BY <1>0, <1>04, <3>1, FlagsFrom
  <2>2. CASE Filling # {}
    <3>1. PICK s \in Slots : slot[s].rdp
      BY <2>2 DEF Filling
    <3> QED BY <1>1, <3>1, ConnectedOne DEF Scan
  <2> QED BY <2>1, <2>2
<1>2. CASE Filled \/ StillFilling \/ FillExpires
  <2>1. PICK s \in Slots : s = sdl.at /\ slot[s].rdp
    BY <1>2 DEF Filled, StillFilling, FillExpires, At, PlaceOK
  <2>2. CASE Silence(s)
    BY <2>1, <2>2, SilenceEffect, ConnectedOne DEF Told
  <2>3. CASE slot' = [slot EXCEPT ![s].timed = TRUE]
    BY <2>1, <2>3, FlagsFrom, ConnectedOne DEF Flags
  <2>4. CASE slot' = [slot EXCEPT ![s].ineffective = TRUE, ![s].filling = FALSE]
    <3>1. slot'[s].rdp = slot[s].rdp
      BY <2>4 DEF TypesOK, SlotsOK, SlotType
    <3> QED BY <2>1, <3>1, ConnectedOne
  <2> QED BY <1>2, <2>1, <2>2, <2>3, <2>4 DEF Filled, StillFilling, FillExpires
<1>3. CASE Deferred \/ DeferredExpires
  <2>1. PICK t : t = target
    OBVIOUS
  <2>2. t \in Slots /\ sdl.pc = "deferred" /\ UNCHANGED slot
    BY <1>3, <2>1 DEF Deferred, DeferredExpires, At, PlaceOK, TypesOK, ScreenOK
  <2>3. CASE slot[t].rdp
    BY <2>2, <2>3, ConnectedOne
  <2>4. CASE ~slot[t].rdp
    <3>1. sdl'.pc = "watchdog"
      BY <1>3, <1>02, <2>1, <2>4 DEF Deferred, DeferredExpires, Gone
    <3> QED BY <1>0, <1>04, <2>2, <3>1, FlagsFrom
  <2> QED BY <2>3, <2>4
<1>4. CASE Recover
  <2>1. UNCHANGED slot \/ slot' = [slot EXCEPT ![active].moved = FALSE]
    BY <1>4 DEF Recover
  <2>2. sdl.pc = "watchdog" /\ sdl'.pc = "deadline"
    BY <1>0, <1>4, LoopEffect DEF Recover, At
  <2> QED BY <1>0, <1>04, <2>1, <2>2, FlagsFrom
<1>5. CASE Watchdog
  <2>1. sdl.pc \in {"watchdog", "deadline"} /\ UNCHANGED slot /\ sdl'.pc = "drain" /\ sdl'.at = NoSlot
    BY <1>5, <1>02 DEF Watchdog, Deadline, At
  <2> QED BY <1>0, <1>04, <2>1, FlagsFrom
<1>6. CASE WatchdogExpires
  <2>1. \/ slot' = [slot EXCEPT ![active].ineffective = TRUE, ![active].moved = FALSE]
        \/ UNCHANGED slot
    BY <1>6 DEF WatchdogExpires
  <2>2. /\ sdl.pc \in {"watchdog", "deadline"}
        /\ sdl'.pc = "renew" \/ (sdl'.pc = "drain" /\ sdl'.at = NoSlot)
    BY <1>0, <1>6, <1>02, LoopEffect DEF WatchdogExpires, Deadline, At
  <2> QED BY <1>0, <1>04, <2>1, <2>2, FlagsFrom
<1>7. CASE Renew
  <2>1. PICK s \in Slots : s = active
    BY <1>0
  <2>2. PICK starts \in BOOLEAN : slot'[s].rdp = starts /\ slot'[s].failed = ~starts
    BY <1>7, <2>1, ReconnectEffect DEF Renew, Fresh
  <2>3. sdl'.pc = "drain" /\ sdl'.at = NoSlot
    BY <1>7, <1>02 DEF Renew
  <2>4. CASE starts
    BY <2>2, <2>4, ConnectedOne
  <2>5. CASE ~starts
    <3>1. s \in Failed'
      BY <1>03, <2>2, <2>3, <2>5 DEF Failed
    <3> QED BY <2>3, <3>1 DEF MediaOK
  <2> QED BY <2>4, <2>5
<1> QED BY <1>1, <1>2, <1>3, <1>4, <1>5, <1>6, <1>7 DEF Ticks

LEMMA StopMedia ==
    ASSUME Core, NEW s \in Slots, StopSlot(s)
    PROVE  MediaOK'
<1>1. Others(s) /\ ~slot'[s].rdp /\ decoder' = IF Connected \subseteq {s} THEN NoMedia ELSE decoder
  BY StopEffect DEF Core, Fresh
<1>2. Connected' = {} => Connected \subseteq {s}
  BY <1>1 DEF Connected, Others
<1> QED BY <1>1, <1>2 DEF MediaOK, Held, NoMedia, NoDecoder

LEMMA DrainMedia ==
    ASSUME Core, MediaOK, Sdl, Drains
    PROVE  MediaOK'
<1> USE DEF Core
<1>0. active \in Slots /\ LoopOK /\ ~Replay
  BY DEF TypesOK, ScreenOK, Drains, DrainSwitch, Bury, DrainStop, Enter, Dial, Replay, At
<1>01. Held' => Held
  BY <1>0, HeldKept
<1>1. CASE DrainSwitch
  <2>1. PICK s \in Slots : slot[s].rdp
    BY <1>1 DEF DrainSwitch, Survivors, Target
  <2> QED BY <1>1, <2>1, ConnectedOne DEF DrainSwitch
<1>2. CASE Bury
  BY <1>2, StopMedia DEF Bury, At, PlaceOK
<1>3. CASE DrainStop
  <2>1. First(Failed) \in Slots
    BY <1>3, FirstIn DEF DrainStop, Failed
  <2> QED BY <1>3, <2>1, StopMedia DEF DrainStop
<1>4. CASE Enter
  <2>1. Held => Connected # {}
    BY <1>4 DEF Enter, At, MediaOK
  <2>2. UNCHANGED slot \/ slot' = [slot EXCEPT ![active].suppressed = FALSE, ![active].moved = FALSE]
    BY <1>4 DEF Enter
  <2>3. \A s \in Slots : slot'[s].rdp = slot[s].rdp
    BY <1>0, <2>2 DEF TypesOK, SlotsOK, SlotType
  <2> QED BY <1>01, <2>1, <2>3 DEF MediaOK, Connected
<1>5. CASE Dial
  <2>1. sdl.pc = "connect" /\ (Held => Connected # {})
    BY <1>5 DEF Dial, At, MediaOK
  <2>2. CASE UNCHANGED slot
    BY <1>01, <2>1, <2>2 DEF MediaOK, Connected
  <2>3. PICK s \in Slots : s = request
    BY <1>5, DialEffect
  <2>4. ASSUME NEW starts \in BOOLEAN, Others(s), slot'[s].rdp = starts,
               decoder' = IF ~starts /\ Connected \subseteq {s} THEN NoMedia ELSE Orphaned(s)
        PROVE  MediaOK'
    <3>1. CASE starts
      BY <2>4, <3>1, ConnectedOne
    <3>2. CASE ~starts
      <4>1. Connected' = {} => Connected \subseteq {s}
        BY <2>4 DEF Connected, Others
      <4> QED BY <2>4, <3>2, <4>1 DEF MediaOK, Held, NoMedia, NoDecoder
    <3> QED BY <3>1, <3>2
  <2> QED BY <1>5, <2>2, <2>3, <2>4, DialEffect DEF Fresh
<1> QED BY <1>1, <1>2, <1>3, <1>4, <1>5 DEF Drains

LEMMA NextMedia ==
    ASSUME Core, MediaOK, [Next]_vars
    PROVE  MediaOK'
<1>1. CASE UNCHANGED vars
  BY <1>1 DEF vars, MediaOK, Held, Connected, Failed
<1>2. ASSUME NEW s \in Slots, Worker(s) PROVE MediaOK'
  BY <1>2, WorkerMedia
<1>3. CASE Sdl
  BY <1>3, SdlGroups, SwitchMedia, PressMedia, TickMedia, DrainMedia
<1> QED BY <1>1, <1>2, <1>3 DEF Next

(* native_stop_media runs no later than the iteration in which the last    *)
(* session goes, also when it goes because its worker did not start.       *)
THEOREM MediaGoesWithSessions == Spec => []NoMediaLeak
<1>1. Init => MediaOK
  BY DEF Init, MediaOK, Held, NoDecoder
<1>2. MediaOK => NoMediaLeak
  BY DEF MediaOK, NoMediaLeak, Rested, At, Held
<1>3. Core /\ MediaOK /\ [Next]_vars => MediaOK'
  BY NextMedia
<1> QED BY <1>1, <1>2, <1>3, SpecCore, PTL DEF Spec

-----------------------------------------------------------------------------
(* The snapshot and its server.                                            *)

Final(aus) == aus[Len(aus)].n

(* The chain of s ends at the unit sent last, or one before while that is  *)
(* in the worker's hand on its way to the snapshot; only a live slot whose *)
(* window is open may be past it.                                          *)
EndAt(s) ==
    LET end == Final(cache[s].snap.aus) IN
    \/ link[s].hand = "behind" /\ end + 1 = link[s].sent
    \/ link[s].hand \in {"none", "failing"} /\ end = link[s].sent
    \/ s = active /\ ~cache[s].quiet
StoppedAt(s) ==
    /\ link[s].told = <<>> /\ ~link[s].out /\ link[s].hand \in {"none", "failing"}
    /\ Final(cache[s].snap.aus) = link[s].sent
FullAt(s) ==
    /\ slot[s].rdp /\ cache[s].snap.armed
    /\ Whole(cache[s].snap.aus)
    /\ link[s].hand \in {"front", "fed"} => s = active
    /\ EndAt(s)
    /\ slot[s].filling => ~cache[s].quiet
    /\ cache[s].quiet /\ slot[s].suppressed => StoppedAt(s)
Retrying(s) == sdl.pc = "prepare" /\ s = sdl.goal
ArmedAt(s) ==
    cache[s].snap.armed =>
        /\ cache[s].ready <=> cache[s].snap.aus # <<>>
        /\ slot[s].rdp => \/ slot[s].filling
                          \/ slot[s].suppressed /\ cache[s].ready
                          \/ Retrying(s)
ChainAt(s) == ArmedAt(s) /\ (cache[s].snap.aus # <<>> => FullAt(s))
SeenOK == sdl.pc = "filled" /\ sdl.seen => cache[sdl.at].ready \/ ~cache[sdl.at].snap.armed
ChainOK == SeenOK /\ \A s \in Slots : ChainAt(s)

LEMMA ChainCleared ==
    ASSUME NEW s \in Slots, cache'[s].snap.aus = <<>>,
           cache'[s].snap.armed => ~cache'[s].ready /\ (slot'[s].rdp => slot'[s].filling)
    PROVE  ChainAt(s)'
  BY DEF ChainAt, ArmedAt

(* Nothing is cached and nothing will be.                                  *)
LEMMA ChainDormant ==
    ASSUME NEW s \in Slots, ChainAt(s), cache'[s] = cache[s],
           ~cache[s].snap.armed \/ (~slot[s].rdp /\ ~slot'[s].rdp)
    PROVE  ChainAt(s)'
  BY DEF ChainAt, ArmedAt, FullAt

LEMMA ChainKept ==
    ASSUME NEW s \in Slots, ChainAt(s), cache'[s] = cache[s], link'[s] = link[s],
           slot'[s].rdp = slot[s].rdp, slot'[s].filling = slot[s].filling,
           slot'[s].suppressed = slot[s].suppressed,
           s = active => s = active', Retrying(s) => Retrying(s)'
    PROVE  ChainAt(s)'
<1>1. ArmedAt(s)'
  BY DEF ChainAt, ArmedAt
<1>2. FullAt(s) => FullAt(s)'
  BY DEF FullAt, EndAt, StoppedAt
<1> QED BY <1>1, <1>2 DEF ChainAt

LEMMA ChainFlags ==
    ASSUME \A t \in Slots : ChainAt(t), Flags, UNCHANGED <<cache, link, active>>,
           \A t \in Slots : Retrying(t) => Retrying(t)'
    PROVE  \A t \in Slots : ChainAt(t)'
<1> SUFFICES ASSUME NEW t \in Slots PROVE ChainAt(t)'
  OBVIOUS
<1> QED BY ChainKept DEF Flags

(* A session that neither fills nor is suppressed caches nothing.          *)
LEMMA BareSlot ==
    ASSUME NEW s \in Slots, ChainAt(s), slot[s].rdp, ~slot[s].filling, ~slot[s].suppressed,
           ~Retrying(s)
    PROVE  ~cache[s].snap.armed
  BY DEF ChainAt, ArmedAt

LEMMA ActiveBare ==
    ASSUME Core, \A t \in Slots : ChainAt(t), sdl.pc \notin {"demote", "promote"},
           NEW s \in Slots, s = active, slot[s].rdp
    PROVE  ~cache[s].snap.armed
<1>1. ~slot[s].filling /\ ~slot[s].suppressed /\ ~Retrying(s)
  BY DEF Core, PlaceOK, Retrying
<1> QED BY <1>1, BareSlot

LEMMA FreshChain ==
    ASSUME TypesOK, NEW s \in Slots, NEW starts, NEW filling, NEW suppressed, NEW told, NEW snap \in Snaps,
           Fresh(s, starts, filling, suppressed, told, snap), starts /\ snap.armed => filling
    PROVE  ChainAt(s)'
<1>1. snap.aus = <<>>
  BY SnapTyped
<1> QED BY <1>1, ChainCleared DEF Fresh

LEMMA DisarmedSnap == Disarmed.aus = <<>> /\ ~Disarmed.armed
  BY DEF Disarmed

LEMMA StopChain ==
    ASSUME NEW s \in Slots, NEW starts, NEW filling, NEW suppressed, NEW told,
           Fresh(s, starts, filling, suppressed, told, Disarmed)
    PROVE  ChainAt(s)'
  BY DisarmedSnap, ChainCleared DEF Fresh

LEMMA OthersChain ==
    ASSUME \A t \in Slots : ChainAt(t), NEW s \in Slots, Others(s), UNCHANGED active,
           \A t \in Slots \ {s} : Retrying(t) => Retrying(t)'
    PROVE  \A t \in Slots \ {s} : ChainAt(t)'
<1> SUFFICES ASSUME NEW t \in Slots \ {s} PROVE ChainAt(t)'
  OBVIOUS
<1> QED BY ChainKept DEF Others

LEMMA BackgroundChain ==
    ASSUME Core, \A t \in Slots : ChainAt(t), NEW s \in Slots, Background(s), ~slot[s].filling,
           UNCHANGED active, sdl.pc \in {"demote", "leave"}
    PROVE  \A t \in Slots : ChainAt(t)'
<1> USE DEF Core
<1>1. Others(s) /\ \A t \in Slots : ~Retrying(t)
  BY BackgroundEffect DEF Retrying
<1>2. \A t \in Slots \ {s} : ChainAt(t)'
  BY <1>1, OthersChain
<1>3. CASE UNCHANGED <<slot, link, cache>>
  BY <1>1, <1>3, ChainKept
<1>4. ASSUME NEW starts \in BOOLEAN, NEW snap \in Snaps,
             Fresh(s, starts, starts /\ snap.armed, starts /\ ~snap.armed,
                   IF starts /\ ~snap.armed THEN <<"suppress">> ELSE <<>>, snap)
      PROVE  ChainAt(s)'
  BY <1>4, FreshChain
<1>5. ASSUME slot[s].rdp, ~slot[s].suppressed, UNCHANGED cache PROVE ChainAt(s)'
  <2>1. ~cache[s].snap.armed
    BY <1>1, <1>5, BareSlot
  <2> QED BY <1>5, <2>1, ChainDormant
<1>6. ChainAt(s)'
  BY <1>3, <1>4, <1>5, BackgroundEffect
<1> QED BY <1>2, <1>6

LEMMA ReconnectChain ==
    ASSUME Core, \A t \in Slots : ChainAt(t), NEW s \in Slots, Reconnect(s),
           UNCHANGED active, sdl.pc # "prepare"
    PROVE  \A t \in Slots : ChainAt(t)'
<1>1. PICK starts \in BOOLEAN : Others(s) /\ Fresh(s, starts, FALSE, FALSE, <<>>, Disarmed)
  BY ReconnectEffect DEF Core
<1>2. \A t \in Slots \ {s} : ChainAt(t)'
  BY <1>1, OthersChain DEF Retrying
<1>3. ChainAt(s)'
  BY <1>1, StopChain
<1> QED BY <1>2, <1>3

LEMMA StopSlotChain ==
    ASSUME Core, \A t \in Slots : ChainAt(t), NEW s \in Slots, StopSlot(s),
           UNCHANGED active, sdl.pc # "prepare"
    PROVE  \A t \in Slots : ChainAt(t)'
<1>1. Others(s) /\ Fresh(s, FALSE, FALSE, FALSE, <<>>, Disarmed)
  BY StopEffect DEF Core
<1>2. \A t \in Slots \ {s} : ChainAt(t)'
  BY <1>1, OthersChain DEF Retrying
<1>3. ChainAt(s)'
  BY <1>1, StopChain
<1> QED BY <1>2, <1>3

(* What is said to a slot that caches nothing does not matter here.        *)
LEMMA SayChain ==
    ASSUME Core, \A t \in Slots : ChainAt(t), NEW s \in Slots, ~cache[s].snap.armed,
           UNCHANGED <<cache, active>>, Flags, sdl.pc # "prepare",
           \A t \in Slots \ {s} : link'[t] = link[t]
    PROVE  \A t \in Slots : ChainAt(t)'
<1> SUFFICES ASSUME NEW t \in Slots PROVE ChainAt(t)'
  OBVIOUS
<1>1. CASE t = s
  BY <1>1, ChainDormant
<1>2. CASE t # s
  BY <1>2, ChainKept DEF Flags, Retrying
<1> QED BY <1>1, <1>2

LEMMA SwitchChain ==
    ASSUME Core, \A t \in Slots : ChainAt(t), Switches
    PROVE  \A t \in Slots : ChainAt(t)'
<1> USE DEF Core
<1>0. active \in Slots /\ LoopOK
  BY DEF TypesOK, ScreenOK
<1>1. PICK g \in Slots : g = sdl.goal /\ slot[g].rdp
  BY DEF Switches, Switch, Flip, Demote, Promote, Replay, Replayed, Wake, Prepare, At, PlaceOK, Switching
<1>2. CASE Switch \/ Replay
  <2>1. UNCHANGED slot \/ (\E b : slot' = [slot EXCEPT ![g].moved = b])
    BY <1>1, <1>2 DEF Switch, Replay
  <2>2. Flags /\ UNCHANGED <<cache, link, active>> /\ sdl.pc \in {"switch", "replay"}
    BY <1>2, <2>1, FlagsFrom DEF Switch, Replay, At, screen
  <2> QED BY <2>2, ChainFlags DEF Retrying
<1>3. CASE Flip
  <2>1. UNCHANGED <<slot, cache, link>> /\ active' = g /\ sdl.pc = "flip"
    BY <1>1, <1>3 DEF Flip, At
  <2> SUFFICES ASSUME NEW t \in Slots PROVE ChainAt(t)'
    OBVIOUS
  <2>2. CASE t = active
    BY <2>1, <2>2, ActiveBare, ChainDormant
  <2>3. CASE t # active
    BY <2>1, <2>3, ChainKept DEF Retrying
  <2> QED BY <2>2, <2>3
<1>4. CASE Demote
  <2>1. PICK o \in Slots : o = sdl.old
    BY <1>4 DEF Demote, At, PlaceOK
  <2>2. Background(o) /\ ~slot[o].filling /\ UNCHANGED active /\ sdl.pc = "demote"
    BY <1>4, <2>1 DEF Demote, At, PlaceOK, screen
  <2> QED BY <2>2, BackgroundChain
<1>5. CASE Promote
  <2>1. g = active /\ UNCHANGED <<link, active>> /\ sdl.pc = "promote"
    BY <1>1, <1>5 DEF Promote, At, PlaceOK, screen
  <2>2. /\ \A t \in Slots \ {g} : slot'[t] = slot[t]
        /\ Forget(g) \/ UNCHANGED cache
    <3>1. CASE slot' = [slot EXCEPT ![g].filling = FALSE]
      BY <1>1, <1>5, <3>1 DEF Promote, TypesOK, SlotsOK
    <3>2. CASE slot' = [slot EXCEPT ![g].suppressed = FALSE]
      BY <1>1, <1>5, <3>2 DEF Promote, TypesOK, SlotsOK
    <3>3. CASE UNCHANGED slot
      BY <1>1, <1>5, <3>3 DEF Promote
    <3> QED BY <1>1, <1>5, <3>1, <3>2, <3>3 DEF Promote
  <2>3. CASE Forget(g)
    <3>1. cache'[g].snap = Disarmed /\ \A t \in Slots \ {g} : cache'[t] = cache[t]
      BY <2>3 DEF Forget, TypesOK, CachesOK
    <3>2. ChainAt(g)'
      BY <3>1, DisarmedSnap, ChainCleared
    <3>3. \A t \in Slots \ {g} : ChainAt(t)'
      BY <2>1, <2>2, <3>1, OthersChain DEF Others, Retrying
    <3> QED BY <3>2, <3>3
  <2>4. CASE UNCHANGED cache
    <3>1. Forget(g) \/ ~cache[g].snap.armed
      <4>1. CASE slot[g].suppressed /\ cache[g].ready
        BY <1>1, <1>5, <4>1 DEF Promote, StateOK, StateAt
      <4>2. CASE slot[g].filling
        BY <1>1, <1>5, <4>2 DEF Promote
      <4>3. CASE ~slot[g].filling /\ ~(slot[g].suppressed /\ cache[g].ready)
        BY <1>1, <2>1, <4>3 DEF ChainAt, ArmedAt, Retrying
      <4> QED BY <4>1, <4>2, <4>3
    <3>2. CASE ~cache[g].snap.armed
      BY <2>1, <2>2, <2>4, <3>2, ChainDormant, OthersChain DEF Others, Retrying
    <3> QED BY <2>3, <3>1, <3>2
  <2> QED BY <2>2, <2>3, <2>4
<1>6. CASE Replayed
  <2>1. g = active /\ UNCHANGED <<slot, cache, active>> /\ sdl.pc = "replay"
    BY <1>1, <1>6 DEF Replayed, At, PlaceOK, screen
  <2>2. \A t \in Slots \ {g} : link'[t] = link[t]
    BY <1>1, <1>6, SayEffect DEF Replayed
  <2>3. ~cache[g].snap.armed
    BY <1>1, <2>1, ActiveBare
  <2> QED BY <2>1, <2>2, <2>3, FlagsFrom, SayChain
<1>7. CASE Wake
  <2>1. g = active /\ UNCHANGED active /\ sdl.pc = "wake"
    BY <1>1, <1>7 DEF Wake, At, PlaceOK, screen
  <2>2. ~cache[g].snap.armed
    BY <1>1, <2>1, ActiveBare
  <2>3. CASE Reconnect(g)
    BY <2>1, <2>3, ReconnectChain
  <2>4. CASE UNCHANGED <<slot, cache>> /\ (UNCHANGED link \/ Say(g, <<"resume", "refresh">>))
    <3>1. \A t \in Slots \ {g} : link'[t] = link[t]
      BY <2>4, SayEffect
    <3> QED BY <2>1, <2>2, <2>4, <3>1, FlagsFrom, SayChain
  <2> QED BY <1>1, <1>7, <2>3, <2>4 DEF Wake
<1>8. CASE Prepare
  <2>1. Others(g) /\ Prepared(g) /\ UNCHANGED active /\ sdl.pc = "prepare"
    BY <1>1, <1>8, PrepareEffect DEF Prepare, At
  <2>2. \A t \in Slots \ {g} : ChainAt(t)'
    BY <1>1, <2>1, OthersChain DEF Retrying
  <2>3. CASE slot[g].filling /\ UNCHANGED <<slot, link, cache>>
    <3>1. ArmedAt(g)'
      BY <2>3 DEF ChainAt, ArmedAt
    <3>2. FullAt(g) => FullAt(g)'
      BY <2>1, <2>3 DEF FullAt, EndAt, StoppedAt
    <3> QED BY <2>2, <2>3, <3>1, <3>2 DEF ChainAt
  <2>4. ASSUME NEW starts \in BOOLEAN, NEW snap \in Snaps,
               Fresh(g, starts, starts /\ snap.armed, FALSE, <<>>, snap)
        PROVE  ChainAt(g)'
    BY <2>4, FreshChain
  <2>5. ASSUME NEW snap \in Snaps, cache'[g].snap = snap, cache'[g].ready = FALSE,
               snap.armed => slot'[g].filling
        PROVE  ChainAt(g)'
    BY <2>5, SnapTyped, ChainCleared
  <2> QED BY <2>1, <2>2, <2>3, <2>4, <2>5 DEF Prepared, Told
<1> QED BY <1>2, <1>3, <1>4, <1>5, <1>6, <1>7, <1>8 DEF Switches

LEMMA PressChain ==
    ASSUME Core, \A t \in Slots : ChainAt(t), Presses
    PROVE  \A t \in Slots : ChainAt(t)'
<1> USE DEF Core
<1>0. active \in Slots /\ LoopOK
  BY DEF TypesOK, ScreenOK
<1>1. CASE PressCancel
  BY <1>0, <1>1, FlagsFrom, ChainFlags DEF PressCancel, At, Retrying
<1>2. CASE Leave
  <2>1. PICK o \in Slots : o = sdl.old
    BY <1>2 DEF Leave, At, PlaceOK
  <2>2. Background(o) /\ ~slot[o].filling /\ UNCHANGED active /\ sdl.pc = "leave"
    BY <1>2, <2>1 DEF Leave, At, PlaceOK, screen
  <2> QED BY <2>2, BackgroundChain
<1>3. ASSUME NEW s \in Slots, PressLive(s) PROVE \A t \in Slots : ChainAt(t)'
  <2>1. Flags
    BY <1>3 DEF PressLive, Flags, TypesOK, SlotsOK, SlotType
  <2> QED BY <1>3, <2>1, ChainFlags DEF PressLive, At, Retrying
<1>4. ASSUME NEW s \in Slots, PressOffline(s) PROVE \A t \in Slots : ChainAt(t)'
  <2>1. sdl.pc = "input" /\ UNCHANGED <<slot, link, cache>> /\ active' = s
    BY <1>4 DEF PressOffline, At
  <2> SUFFICES ASSUME NEW t \in Slots PROVE ChainAt(t)'
    OBVIOUS
  <2>2. CASE t = active
    <3>1. ~slot[t].rdp \/ ~cache[t].snap.armed
      BY <2>1, <2>2, ActiveBare
    <3> QED BY <2>1, <3>1, ChainDormant
  <2>3. CASE t # active
    BY <2>1, <2>3, ChainKept DEF Retrying
  <2> QED BY <2>2, <2>3
<1> QED BY <1>1, <1>2, <1>3, <1>4 DEF Presses

LEMMA TickChain ==
    ASSUME Core, ChainOK, Ticks
    PROVE  \A t \in Slots : ChainAt(t)'
<1> USE DEF Core
<1>0. active \in Slots /\ LoopOK /\ \A t \in Slots : ChainAt(t)
  BY DEF TypesOK, ScreenOK, ChainOK
<1>1. CASE \/ Scan \/ Deferred \/ DeferredExpires \/ Watchdog
  <2>1. /\ UNCHANGED <<slot, cache, link, active>>
        /\ sdl.pc \in {"input", "scan", "deferred", "watchdog", "deadline"}
    BY <1>1 DEF Scan, Deferred, DeferredExpires, Watchdog, Deadline, At, screen
  <2> QED BY <1>0, <2>1, FlagsFrom, ChainFlags DEF Retrying
<1>2. CASE StillFilling
  <2>1. PICK s \in Slots : s = sdl.at
    BY <1>2 DEF StillFilling, At, PlaceOK
  <2>2. slot' = [slot EXCEPT ![s].timed = TRUE] /\ UNCHANGED <<cache, link, active>> /\ sdl.pc = "filled"
    BY <1>2, <2>1 DEF StillFilling, At, screen
  <2> QED BY <1>0, <2>2, FlagsFrom, ChainFlags DEF Retrying
<1>3. CASE Filled
  <2>1. PICK s \in Slots : s = sdl.at /\ slot[s].filling /\ sdl.pc = "filled"
    BY <1>3 DEF Filled, At, PlaceOK
  <2>2. Silence(s) /\ UNCHANGED <<cache, active>>
    BY <1>3, <2>1 DEF Filled
  <2>3. Told(s, FALSE, TRUE, <<"suppress">>) /\ \A t \in Slots \ {s} : slot'[t] = slot[t] /\ link'[t] = link[t]
    BY <2>2, SilenceEffect
  <2>4. \A t \in Slots \ {s} : ChainAt(t)'
    BY <1>0, <2>1, <2>2, <2>3, OthersChain DEF Others, Retrying
  <2>5. cache[s].ready \/ ~cache[s].snap.armed
    BY <1>3, <2>1 DEF Filled, ChainOK, SeenOK
  <2>6. CASE ~cache[s].snap.armed
    BY <1>0, <2>2, <2>4, <2>6, ChainDormant
  <2>7. CASE cache[s].snap.armed /\ cache[s].ready
    <3>1. ArmedAt(s)'
      BY <1>0, <2>2, <2>3, <2>7 DEF ChainAt, ArmedAt, Told
    <3>2. ASSUME FullAt(s) PROVE FullAt(s)'
      <4>1. ~cache[s].quiet /\ cache'[s] = cache[s] /\ slot'[s].rdp = slot[s].rdp /\ ~slot'[s].filling
        BY <2>1, <2>2, <2>3, <3>2 DEF FullAt, Told
      <4>2. link'[s].hand = link[s].hand /\ link'[s].sent = link[s].sent /\ active' = active
        BY <2>2, <2>3 DEF Told
      <4>3. EndAt(s)'
        BY <3>2, <4>1, <4>2 DEF FullAt, EndAt
      <4> QED BY <3>2, <4>1, <4>2, <4>3 DEF FullAt
    <3>3. ChainAt(s)'
      BY <1>0, <2>2, <3>1, <3>2 DEF ChainAt
    <3> QED BY <2>4, <3>3
  <2> QED BY <2>4, <2>5, <2>6, <2>7
<1>4. CASE FillExpires
  <2>1. PICK s \in Slots : s = sdl.at /\ s # active /\ slot[s].filling /\ sdl.pc = "filled"
    BY <1>4 DEF FillExpires, At, PlaceOK
  <2>2. CASE /\ slot' = [slot EXCEPT ![s].ineffective = TRUE, ![s].filling = FALSE]
             /\ Call("prepare", s, "scan") /\ UNCHANGED <<cache, link, active>>
    <3>1. /\ slot'[s].rdp = slot[s].rdp /\ ~slot'[s].filling /\ slot'[s].suppressed = slot[s].suppressed
          /\ \A t \in Slots \ {s} : slot'[t] = slot[t]
      BY <2>2 DEF TypesOK, SlotsOK, SlotType
    <3>2. sdl'.pc = "prepare" /\ sdl'.goal = s
      BY <1>0, <2>2 DEF Call, LoopOK
    <3>3. \A t \in Slots \ {s} : ChainAt(t)'
      BY <1>0, <2>1, <2>2, <3>1, OthersChain DEF Others, Retrying
    <3>4. ArmedAt(s)'
      BY <1>0, <2>2, <3>1, <3>2 DEF ChainAt, ArmedAt, Retrying
    <3>5. FullAt(s) => FullAt(s)'
      BY <2>1, <2>2, <3>1 DEF FullAt, EndAt, StoppedAt, StateOK, StateAt
    <3> QED BY <1>0, <2>2, <3>3, <3>4, <3>5 DEF ChainAt
  <2>3. CASE cache' = [cache EXCEPT ![s].snap = Disarmed] /\ Silence(s) /\ UNCHANGED active
    <3>1. cache'[s].snap = Disarmed /\ \A t \in Slots \ {s} : cache'[t] = cache[t]
      BY <2>3 DEF TypesOK, CachesOK
    <3>2. \A t \in Slots \ {s} : slot'[t] = slot[t] /\ link'[t] = link[t]
      BY <2>3, SilenceEffect
    <3>3. \A t \in Slots \ {s} : ChainAt(t)'
      BY <1>0, <2>1, <2>3, <3>1, <3>2, OthersChain DEF Others, Retrying
    <3>4. ChainAt(s)'
      BY <3>1, DisarmedSnap, ChainCleared
    <3> QED BY <3>3, <3>4
  <2> QED BY <1>4, <2>1, <2>2, <2>3 DEF FillExpires
<1>5. CASE Recover
  <2>1. PICK s \in Slots : s = active
    BY <1>0
  <2>2. UNCHANGED <<cache, active>> /\ sdl.pc = "watchdog"
    BY <1>5 DEF Recover, At, screen
  <2>3. CASE UNCHANGED <<slot, link>>
    BY <1>0, <2>2, <2>3, FlagsFrom, ChainFlags DEF Retrying
  <2>4. CASE Live(s) /\ slot' = [slot EXCEPT ![s].moved = FALSE] /\ Say(s, <<"refresh">>)
    <3>1. ~cache[s].snap.armed
      BY <1>0, <2>1, <2>2, <2>4, ActiveBare DEF Live
    <3>2. \A t \in Slots \ {s} : link'[t] = link[t]
      BY <2>4, SayEffect
    <3>3. Flags
      BY <2>4, FlagsFrom
    <3> QED BY <1>0, <2>2, <3>1, <3>2, <3>3, SayChain
  <2> QED BY <1>5, <2>1, <2>3, <2>4 DEF Recover
<1>6. CASE WatchdogExpires
  <2>1. \/ slot' = [slot EXCEPT ![active].ineffective = TRUE, ![active].moved = FALSE]
        \/ UNCHANGED slot
    BY <1>6 DEF WatchdogExpires
  <2>2. UNCHANGED <<cache, link, active>> /\ sdl.pc \in {"watchdog", "deadline"}
    BY <1>6 DEF WatchdogExpires, Deadline, At, screen
  <2>3. Flags
    BY <1>0, <2>1, FlagsFrom
  <2> QED BY <1>0, <2>2, <2>3, ChainFlags DEF Retrying
<1>7. CASE Renew
  <2>1. PICK s \in Slots : s = active /\ Reconnect(s)
    BY <1>0, <1>7 DEF Renew
  <2> QED BY <1>0, <1>7, <2>1, ReconnectChain DEF Renew, At, screen
<1> QED BY <1>1, <1>2, <1>3, <1>4, <1>5, <1>6, <1>7 DEF Ticks

LEMMA DrainChain ==
    ASSUME Core, \A t \in Slots : ChainAt(t), Drains
    PROVE  \A t \in Slots : ChainAt(t)'
<1> USE DEF Core
<1>0. active \in Slots /\ LoopOK
  BY DEF TypesOK, ScreenOK
<1>1. CASE DrainSwitch \/ Enter
  <2>1. sdl.pc = "drain" /\ UNCHANGED <<slot, cache, link, active>>
    BY <1>1 DEF DrainSwitch, Enter, At, PlaceOK, screen
  <2> QED BY <1>0, <2>1, FlagsFrom, ChainFlags DEF Retrying
<1>2. CASE Bury
  <2>1. PICK s \in Slots : s = sdl.at /\ StopSlot(s) /\ UNCHANGED active /\ sdl.pc = "bury"
    BY <1>2 DEF Bury, At, PlaceOK, screen
  <2> QED BY <2>1, StopSlotChain
<1>3. CASE DrainStop
  <2>1. PICK s \in Slots : StopSlot(s) /\ UNCHANGED active /\ sdl.pc = "drain"
    BY <1>3, FirstIn DEF DrainStop, Failed, At
  <2> QED BY <2>1, StopSlotChain
<1>4. CASE Dial
  <2>1. sdl.pc = "connect" /\ request = active
    BY <1>4, SlotsAssumption DEF Dial, At, PlaceOK, NoSlot, Slots
  <2>2. PICK s \in Slots : s = active
    BY <1>0
  <2>3. CASE UNCHANGED <<slot, link, cache, active>>
    BY <1>0, <2>1, <2>3, FlagsFrom, ChainFlags DEF Retrying
  <2>4. ASSUME NEW starts \in BOOLEAN, Others(s), active' = s,
               Fresh(s, starts, FALSE, FALSE, <<>>, Disarmed)
        PROVE  \A t \in Slots : ChainAt(t)'
    <3>1. \A t \in Slots \ {s} : ChainAt(t)'
      BY <2>1, <2>2, <2>4, OthersChain DEF Retrying
    <3>2. ChainAt(s)'
      BY <2>4, StopChain
    <3> QED BY <3>1, <3>2
  <2> QED BY <1>4, <2>1, <2>2, <2>3, <2>4, DialEffect
<1> QED BY <1>1, <1>2, <1>3, <1>4 DEF Drains

(* The tick decides on what it saw of a cache; a unit that arrives         *)
(* meanwhile leaves it ready, or voids it.                                 *)
LEMMA SdlSeen ==
    ASSUME Core, Sdl
    PROVE  SeenOK'
<1> USE DEF Core
<1>0. LoopOK
  BY DEF TypesOK
<1>1. CASE Scan
  <2>1. CASE Filling = {}
    BY <1>0, <1>1, <2>1, LoopEffect DEF Scan, SeenOK
  <2>2. CASE Filling # {}
    BY <1>0, <1>1, <2>2 DEF Scan, SeenOK, LoopOK
  <2> QED BY <2>1, <2>2
<1>2. ASSUME sdl'.pc # "filled" PROVE SeenOK'
  BY <1>2 DEF SeenOK
<1>3. /\ \A pc, s : Loop(pc, s) => sdl'.pc = pc
      /\ \A pc : Rest(pc) => sdl'.pc = pc
      /\ \A pc : Goto(pc) => sdl'.pc = pc
      /\ \A pc, s, back : Call(pc, s, back) => sdl'.pc = pc
      /\ Return => sdl'.pc # "filled"
  BY <1>0, LoopEffect DEF Call, LoopOK
<1>4. CASE Switches
  <2>1. ASSUME Watch PROVE sdl'.pc # "filled"
    BY <1>3, <2>1 DEF Watch
  <2>2. CASE Switch \/ Demote \/ Replayed \/ Wake
    BY <1>2, <1>3, <2>1, <2>2 DEF Switch, Demote, Replayed, Wake
  <2>3. CASE Flip \/ Replay
    BY <1>0, <1>2, <2>3 DEF Flip, Replay, LoopOK, At
  <2>4. CASE Promote
    BY <1>0, <1>2, <2>1, <2>4 DEF Promote, LoopOK
  <2>5. CASE Prepare
    BY <1>2, <1>3, <2>5, PrepareEffect DEF Prepared
  <2> QED BY <1>4, <2>2, <2>3, <2>4, <2>5 DEF Switches
<1>5. CASE Presses
  <2>1. CASE PressCancel \/ Leave \/ \E s \in Slots : PressLive(s)
    BY <1>2, <1>3, <2>1 DEF PressCancel, Leave, PressLive
  <2>2. ASSUME NEW s \in Slots, PressOffline(s) PROVE SeenOK'
    BY <1>0, <1>2, <1>3, <2>2 DEF PressOffline, LoopOK
  <2> QED BY <1>5, <2>1, <2>2 DEF Presses
<1>6. CASE Ticks /\ ~Scan
  BY <1>2, <1>3, <1>6 DEF Ticks, Filled, StillFilling, FillExpires, NextOrSwitch, Deferred,
     DeferredExpires, Recover, Watchdog, WatchdogExpires, Renew
<1>7. CASE Drains
  <2>1. CASE DrainSwitch
    BY <1>0, <1>2, <2>1 DEF DrainSwitch, LoopOK
  <2>2. CASE Bury \/ DrainStop \/ Enter \/ Dial
    BY <1>2, <1>3, <2>2 DEF Bury, DrainStop, Enter, Dial
  <2> QED BY <1>7, <2>1, <2>2 DEF Drains
<1> QED BY <1>1, <1>4, <1>5, <1>6, <1>7, SdlGroups

(* A unit of a hidden session in the worker's hand is the one after the    *)
(* chain's end.                                                            *)
LEMMA KeepChain ==
    ASSUME Core, LengthOK, NEW s \in Slots, ChainAt(s), Keep(s)
    PROVE  /\ ChainAt(s)'
           /\ cache[s].ready \/ ~cache[s].snap.armed => cache'[s].ready \/ ~cache'[s].snap.armed
<1> USE DEF Core
<1>0. /\ link[s].hand = "behind" /\ slot[s].rdp /\ UNCHANGED <<slot, active, sdl>>
      /\ link[s].au \in Units /\ link[s].au.n = link[s].sent
  BY UnitInHand DEF Keep, StateOK, StateAt, TypesOK, screen
<1>1. /\ link'[s].told = link[s].told /\ link'[s].out = link[s].out /\ link'[s].sent = link[s].sent
      /\ link'[s].hand = IF s = active THEN "front" ELSE "none"
  BY HandEffect DEF Keep
<1>2. CASE s = active
  <2>1. UNCHANGED cache
    BY <1>2 DEF Keep
  <2>2. ASSUME FullAt(s) PROVE FullAt(s)'
    <3>1. slot[s].filling \/ slot[s].suppressed
      BY <1>0, <1>2, <2>2 DEF FullAt, ChainAt, ArmedAt, Retrying, PlaceOK
    <3>2. ~cache[s].quiet
      BY <1>0, <2>2, <3>1 DEF FullAt, StoppedAt
    <3> QED BY <1>0, <1>1, <1>2, <2>1, <2>2, <3>2 DEF FullAt, EndAt
  <2> QED BY <1>0, <2>1, <2>2 DEF ChainAt, ArmedAt, Retrying
<1>3. CASE s # active /\ ~cache[s].snap.armed
  BY <1>3, ChainDormant DEF Keep
<1>4. CASE s # active /\ cache[s].snap.armed
  <2>1. PICK fits \in BOOLEAN :
           LET snap == Cache(cache[s].snap, link[s].au, fits) IN
           cache' = [cache EXCEPT ![s] = [snap |-> snap, ready |-> Ready(snap), quiet |-> FALSE]]
    BY <1>4, SucceedsTyped DEF Keep
  <2> DEFINE snap == cache[s].snap
             result == Cache(snap, link[s].au, fits)
  <2>2. /\ cache'[s].snap = result /\ cache'[s].ready = Ready(result) /\ ~cache'[s].quiet
    BY <2>1 DEF TypesOK, CachesOK
  <2>3. snap \in UnitSnapshots /\ snap \in Snapshots /\ link[s].au \in AUs
    <3>1. Units \subseteq AUs
      BY DEF Units, AUs, Kinds
    <3>2. snap \in UnitSnapshots
      BY DEF TypesOK, CachesOK
    <3>3. snap.aus \in Seq(AUs)
      BY <3>1, <3>2 DEF UnitSnapshots
    <3> QED BY <1>0, <3>1, <3>2, <3>3 DEF UnitSnapshots, Snapshots
  <2>4. Whole(snap.aus) /\ Continues(snap, link[s].au) /\ Len(snap.aus) <= MaxEntries
    <3>1. CASE snap.aus = <<>>
      BY <3>1 DEF Whole, Continues, LengthOK
    <3>2. CASE snap.aus # <<>>
      BY <1>0, <1>4, <3>2 DEF ChainAt, FullAt, EndAt, Final, Continues, LengthOK
    <3> QED BY <3>1, <3>2
  <2>5. /\ Whole(result.aus)
        /\ Ready(result) => result.aus[Len(result.aus)] = link[s].au
    BY <1>4, <2>3, <2>4, CacheKeepsChain
  <2>6. /\ result.armed => Ready(result) <=> result.aus # <<>>
        /\ result.aus # <<>> => result.armed
        /\ cache[s].ready => Ready(result) \/ ~result.armed
    <3>1. CASE result = snap /\ snap.aus = <<>>
      BY <1>4, <3>1 DEF Ready, ChainAt, ArmedAt
    <3>2. CASE result = Disarmed
      BY <3>2 DEF Ready, Disarmed
    <3>3. CASE result = [armed |-> TRUE, aus |-> <<link[s].au>>]
      BY <3>3 DEF Ready
    <3>4. CASE result = [armed |-> TRUE, aus |-> Append(snap.aus, link[s].au)]
      <4>1. Append(snap.aus, link[s].au) # <<>>
        BY <1>0, <2>3 DEF UnitSnapshots
      <4> QED BY <3>4, <4>1 DEF Ready
    <3> QED BY <1>4, <2>3, <3>1, <3>2, <3>3, <3>4, CacheCases
  <2> HIDE DEF result
  <2>7. result.armed => \/ slot'[s].filling
                        \/ slot'[s].suppressed /\ cache'[s].ready
                        \/ Retrying(s)'
    BY <1>0, <1>4, <2>2, <2>6 DEF ChainAt, ArmedAt, Retrying
  <2>8. ArmedAt(s)'
    BY <2>2, <2>6, <2>7 DEF ArmedAt
  <2>9. result.aus # <<>> => FullAt(s)'
    <3> SUFFICES ASSUME result.aus # <<>> PROVE FullAt(s)'
      OBVIOUS
    <3>1. Final(result.aus) = link[s].sent
      BY <1>0, <2>5, <2>6 DEF Final
    <3>2. link'[s].hand = "none" /\ link'[s].sent = link[s].sent
      BY <1>1, <1>4
    <3>3. EndAt(s)'
      BY <2>2, <3>1, <3>2 DEF EndAt
    <3> QED BY <1>0, <2>2, <2>5, <2>6, <3>2, <3>3 DEF FullAt
  <2> QED BY <1>4, <2>2, <2>6, <2>8, <2>9 DEF ChainAt
<1> QED BY <1>2, <1>3, <1>4

(* A step of the worker that leaves the cache alone moves the end of the   *)
(* stream and the unit in hand together.                                   *)
LEMMA HandChain ==
    ASSUME Core, NEW s \in Slots, ChainAt(s), Worker(s), ~Keep(s), ~FallQuiet(s)
    PROVE  UNCHANGED cache /\ ChainAt(s)'
<1> USE DEF Core
<1>0. WorkerKeeps(s) /\ UNCHANGED cache
  BY WorkerState DEF Worker, Activate, Obey, Emit, Feed, Count, Break, Flag, OpenAudio
<1>1. CASE Activate(s) \/ OpenAudio(s)
  BY <1>0, <1>1, ChainKept DEF WorkerKeeps, Retrying, Activate, OpenAudio
<1>2. CASE cache[s].snap.aus = <<>>
  BY <1>0, <1>2 DEF ChainAt, ArmedAt, Retrying, WorkerKeeps
<1>3. CASE cache[s].snap.aus # <<>>
  <2>1. ArmedAt(s)'
    BY <1>0 DEF ChainAt, ArmedAt, Retrying, WorkerKeeps
  <2>2. FullAt(s)
    BY <1>3 DEF ChainAt
  <2>3. /\ slot'[s].rdp = slot[s].rdp /\ slot'[s].filling = slot[s].filling
        /\ slot'[s].suppressed = slot[s].suppressed /\ cache'[s] = cache[s] /\ active' = active
    BY <1>0 DEF WorkerKeeps
  <2>4. ~cache[s].quiet \/ slot[s].suppressed \/ (s # active /\ ~slot[s].filling)
    BY <1>0, <2>2 DEF FullAt, ChainAt, ArmedAt, Retrying, PlaceOK
  <2>5. CASE Obey(s)
    <3>1. link[s].told # <<>> /\ link'[s].hand = link[s].hand /\ link'[s].sent = link[s].sent
      BY <2>5 DEF Obey, TypesOK, LinksOK, Links
    <3>2. EndAt(s)' /\ ~(cache[s].quiet /\ slot[s].suppressed)
      BY <2>2, <2>3, <3>1 DEF FullAt, EndAt, StoppedAt
    <3> QED BY <1>0, <2>1, <2>2, <2>3, <3>1, <3>2 DEF ChainAt, FullAt
  <2>6. CASE Emit(s)
    <3>1. /\ link[s].out /\ link[s].hand = "none" /\ link'[s].sent = link[s].sent + 1
          /\ link'[s].hand = IF s = active THEN "front" ELSE "behind"
      BY <2>6 DEF Emit, TypesOK, LinksOK, Links
    <3>2. ~(cache[s].quiet /\ slot[s].suppressed)
      BY <2>2, <3>1 DEF FullAt, StoppedAt
    <3>3. s = active => ~cache[s].quiet
      BY <2>4, <3>2
    <3>4. s # active => Final(cache[s].snap.aus) = link[s].sent
      BY <2>2, <3>1 DEF FullAt, EndAt
    <3>5. EndAt(s)'
      BY <2>3, <3>1, <3>3, <3>4 DEF EndAt
    <3> QED BY <1>0, <2>1, <2>2, <2>3, <3>1, <3>2, <3>5 DEF ChainAt, FullAt
  <2>7. CASE Feed(s) \/ Count(s)
    <3>1. /\ link[s].hand \in {"front", "fed"} /\ link'[s].hand \in {"fed", "none"}
          /\ link'[s].sent = link[s].sent
      BY <2>7, HandEffect DEF Feed, Count
    <3>2. s = active /\ ~cache[s].quiet
      BY <2>2, <3>1 DEF FullAt, EndAt
    <3> QED BY <1>0, <2>1, <2>2, <2>3, <3>1, <3>2 DEF ChainAt, FullAt, EndAt
  <2>8. CASE Break(s) \/ Flag(s)
    <3>1. /\ {link[s].hand, link'[s].hand} \subseteq {"none", "failing"}
          /\ link'[s].sent = link[s].sent /\ link'[s].told = link[s].told /\ link'[s].out = link[s].out
      BY <2>8, HandEffect DEF Break, Flag
    <3>2. FullAt(s)'
      BY <2>2, <2>3, <3>1 DEF FullAt, EndAt, StoppedAt
    <3> QED BY <1>0, <2>1, <3>2 DEF ChainAt
  <2> QED BY <1>1, <2>5, <2>6, <2>7, <2>8 DEF Worker
<1> QED BY <1>0, <1>2, <1>3

(* The window opens on a suppressed session after its last unit.           *)
LEMMA QuietChain ==
    ASSUME Core, SilenceOK, NEW s \in Slots, ChainAt(s), FallQuiet(s)
    PROVE  /\ ChainAt(s)'
           /\ cache'[s].ready = cache[s].ready /\ cache'[s].snap = cache[s].snap
<1> USE DEF Core
<1>0. /\ cache'[s].ready = cache[s].ready /\ cache'[s].snap = cache[s].snap /\ cache'[s].quiet
      /\ UNCHANGED <<slot, link, sdl, active>>
  BY DEF FallQuiet, TypesOK, CachesOK, screen
<1>1. ArmedAt(s)'
  BY <1>0 DEF ChainAt, ArmedAt, Retrying
<1>2. ASSUME FullAt(s) PROVE FullAt(s)'
  <2>1. ~cache[s].quiet /\ ~slot[s].filling /\ link[s].hand = "none" /\ link[s].told = <<>>
    BY DEF FallQuiet
  <2>2. slot[s].suppressed => ~link[s].out
    <3>1. Streams(s) = link[s].out
      BY <2>1, Empty, StreamsFlow, FlowEmpty DEF TypesOK, LinksOK, Links
    <3> QED BY <3>1 DEF SilenceOK, ToldAt
  <2>3. s # active
    <3>1. slot[s].suppressed \/ Retrying(s)
      BY <1>2, <2>1 DEF ChainAt, ArmedAt, FullAt
    <3> QED BY <3>1 DEF FallQuiet, PlaceOK, Retrying
  <2>4. Final(cache[s].snap.aus) = link[s].sent
    BY <1>2, <2>1, <2>3 DEF FullAt, EndAt
  <2>5. EndAt(s)'
    BY <1>0, <2>1, <2>4 DEF EndAt
  <2>6. slot[s].suppressed => StoppedAt(s)'
    BY <1>0, <2>1, <2>2, <2>4 DEF StoppedAt
  <2> QED BY <1>0, <1>2, <2>1, <2>5, <2>6 DEF FullAt
<1> QED BY <1>0, <1>1, <1>2 DEF ChainAt

LEMMA WorkerChain ==
    ASSUME Core, LengthOK, SilenceOK, ChainOK, NEW s \in Slots, Worker(s)
    PROVE  ChainOK'
<1> USE DEF Core
<1>0. ChainAt(s) /\ \A t \in Slots : ChainAt(t)
  BY DEF ChainOK
<1>1. WorkerKeeps(s)
  BY WorkerState
<1>2. /\ ChainAt(s)'
      /\ cache[s].ready \/ ~cache[s].snap.armed => cache'[s].ready \/ ~cache'[s].snap.armed
  <2>1. CASE Keep(s)
    BY <1>0, <2>1, KeepChain
  <2>2. CASE FallQuiet(s)
    BY <1>0, <2>2, QuietChain
  <2>3. CASE ~Keep(s) /\ ~FallQuiet(s)
    BY <1>0, <2>3, HandChain
  <2> QED BY <2>1, <2>2, <2>3
<1>3. \A t \in Slots \ {s} : ChainAt(t)'
  BY <1>0, <1>1, OthersChain DEF WorkerKeeps, Retrying
<1>4. SeenOK'
  <2> SUFFICES ASSUME sdl.pc = "filled", sdl.seen
               PROVE  cache'[sdl.at].ready \/ ~cache'[sdl.at].snap.armed
    BY <1>1 DEF SeenOK, WorkerKeeps
  <2>1. PICK t \in Slots : t = sdl.at
    BY DEF PlaceOK
  <2>2. cache[t].ready \/ ~cache[t].snap.armed
    BY <2>1 DEF ChainOK, SeenOK
  <2>3. t # s => cache'[t] = cache[t]
    BY <1>1 DEF WorkerKeeps, Others
  <2> QED BY <1>2, <2>1, <2>2, <2>3
<1> QED BY <1>2, <1>3, <1>4 DEF ChainOK

LEMMA NextChain ==
    ASSUME Core, LengthOK, SilenceOK, ChainOK, [Next]_vars
    PROVE  ChainOK'
<1>0. \A t \in Slots : ChainAt(t)
  BY DEF ChainOK
<1>1. CASE UNCHANGED vars
  BY <1>1 DEF vars, screen, ChainOK, SeenOK, ChainAt, ArmedAt, FullAt, EndAt, StoppedAt, Retrying
<1>2. ASSUME NEW s \in Slots, Worker(s) PROVE ChainOK'
  BY <1>2, WorkerChain
<1>3. CASE Sdl
  <2>1. \A t \in Slots : ChainAt(t)'
    BY <1>0, <1>3, SdlGroups, SwitchChain, PressChain, TickChain, DrainChain
  <2> QED BY <1>3, <2>1, SdlSeen DEF ChainOK
<1> QED BY <1>1, <1>2, <1>3 DEF Next

LEMMA InitLength == Init => LengthOK
<1>1. MaxEntries \in Nat /\ Len(<<>>) = 0
  BY EntriesAssumption
<1> QED BY <1>1 DEF Init, LengthOK, Disarmed

LEMMA InitChain == Init => ChainOK
<1> SUFFICES ASSUME Init PROVE ChainOK
  OBVIOUS
<1>1. SeenOK
  BY DEF Init, SeenOK
<1>2. ASSUME NEW s \in Slots PROVE ChainAt(s)
  BY DEF Init, Disarmed, ChainAt, ArmedAt
<1> QED BY <1>1, <1>2 DEF ChainOK

(* A snapshot that native_snapshot_replay may take is a whole group of     *)
(* pictures and ends with the last unit its server sent: nothing was lost  *)
(* between the cache, the quiet window and the worker.                     *)
THEOREM ReplayableIsCurrent == Spec => []CacheEndsWithStream
<1>1. Core /\ ChainOK => CacheEndsWithStream
  <2> SUFFICES ASSUME Core, ChainOK, NEW s \in Slots, slot[s].suppressed, cache[s].ready,
                      cache[s].quiet, cache[s].snap.armed, slot[s].state = "active"
               PROVE  LET aus == cache[s].snap.aus IN
                      Whole(aus) /\ aus[Len(aus)].n = link[s].sent /\ link[s].hand = "none"
    BY DEF CacheEndsWithStream
  <2>1. FullAt(s) /\ StoppedAt(s)
    BY DEF ChainOK, ChainAt, ArmedAt, FullAt
  <2>2. link[s].hand # "failing"
    BY DEF Core, StateOK, StateAt
  <2> QED BY <2>1, <2>2 DEF FullAt, StoppedAt, Final
<1>2. Core /\ LengthOK /\ SilenceOK /\ ChainOK /\ [Next]_vars => (LengthOK /\ ChainOK)'
  BY NextLength, NextChain
<1>3. Spec => [](Core /\ SilenceOK)
  BY SpecSilence
<1> QED BY <1>1, <1>2, <1>3, InitLength, InitChain, PTL DEF Spec

-----------------------------------------------------------------------------
(* The replay and the decoder.                                             *)

Followers(aus) == \A i \in 2 .. Len(aus) : aus[i].kind # "idr"
Steps(aus)  == \A i \in 1 .. Len(aus) - 1 : aus[i + 1].n = aus[i].n + 1
FollowersOK == \A s \in Slots : Followers(cache[s].snap.aus)

(* A decoder that takes nothing before an IDR; the decoder where the       *)
(* replay has it.                                                          *)
Waits(s)  == decoder.owner = NoSlot \/ (~Foreign(s) /\ decoder.gate = "idr")
Joined(s) ==
    /\ Shows(s) /\ decoder.whole
    /\ IF sdl.left = <<>> THEN decoder.last = link[s].sent ELSE sdl.left[1].n = decoder.last + 1

(* What is left of a replay: no IDR but for the first unit of all, up to   *)
(* the server's last unit, which stays the last until the replay is over.  *)
(* Once it fed its IDR, the decoder is this session's or closed.           *)
LeftOK ==
    /\ Followers(sdl.left) /\ Steps(sdl.left)
    /\ link[active].told = <<>> /\ ~link[active].out /\ link[active].hand \in {"none", "failing"}
    /\ slot[active].failed \/ sdl.left = <<>> \/ Final(sdl.left) = link[active].sent
    /\ IF sdl.fed
       THEN /\ sdl.left # <<>> => sdl.left[1].kind # "idr"
            /\ slot[active].failed \/ refresh \/ Joined(active)
            /\ ~Foreign(active)
       ELSE sdl.left # <<>> /\ sdl.left[1].kind # "idr" => Waits(active)
ReplayOK == IF sdl.pc = "replay" THEN LeftOK ELSE ~sdl.fed

LEMMA CacheFollowers ==
    ASSUME NEW snap \in UnitSnapshots, NEW au \in Units, NEW fits \in BOOLEAN, Followers(snap.aus)
    PROVE  Followers(Cache(snap, au, fits).aus)
<1>1. snap \in Snapshots /\ au \in AUs
  <2>1. Units \subseteq AUs
    BY DEF Units, AUs, Kinds
  <2>2. snap.aus \in Seq(AUs)
    BY <2>1 DEF UnitSnapshots
  <2> QED BY <2>1, <2>2 DEF UnitSnapshots, Snapshots
<1> DEFINE result == Cache(snap, au, fits)
<1>2. CASE result = snap
  BY <1>2
<1>3. CASE result = Disarmed \/ result = [armed |-> TRUE, aus |-> <<au>>]
  <2> HIDE DEF result
  <2>1. Len(<<>>) = 0 /\ Len(<<au>>) = 1
    OBVIOUS
  <2>2. result.aus = <<>> \/ result.aus = <<au>>
    BY <1>3 DEF Disarmed
  <2>3. Len(result.aus) = 0 \/ Len(result.aus) = 1
    BY <2>1, <2>2
  <2>4. Followers(result.aus)
    BY <2>3 DEF Followers
  <2> QED BY <2>4 DEF result
<1>4. CASE au.kind # "idr" /\ result = [armed |-> TRUE, aus |-> Append(snap.aus, au)]
  <2> DEFINE n == Len(snap.aus)
             longer == Append(snap.aus, au)
  <2>1. n \in Nat /\ Len(longer) = n + 1 /\ longer[n + 1] = au /\ \A i \in 1 .. n : longer[i] = snap.aus[i]
    BY DEF UnitSnapshots
  <2>3. result.aus = longer
    BY <1>4
  <2>4. \A i \in 2 .. n : snap.aus[i].kind # "idr"
    BY DEF Followers
  <2> HIDE DEF longer, n, result
  <2>5. ASSUME NEW i \in 2 .. n + 1 PROVE longer[i].kind # "idr"
    <3>1. CASE i = n + 1
      BY <1>4, <2>1, <3>1
    <3>2. CASE i # n + 1
      <4>1. i \in 2 .. n /\ i \in 1 .. n
        BY <2>1, <3>2
      <4> QED BY <2>1, <2>4, <4>1
    <3> QED BY <3>1, <3>2
  <2>6. Followers(result.aus)
    BY <2>1, <2>3, <2>5 DEF Followers
  <2> QED BY <2>6 DEF result
<1> HIDE DEF result
<1> QED BY <1>1, <1>2, <1>3, <1>4, CacheCases DEF result

LEMMA NextFollowers ==
    ASSUME Core, FollowersOK, [Next]_vars
    PROVE  FollowersOK'
<1>0. Len(<<>>) = 0
  OBVIOUS
<1>1. CASE UNCHANGED cache
  BY <1>1 DEF FollowersOK, Followers
<1>2. CASE Sdl
  <2> SUFFICES ASSUME NEW t \in Slots PROVE Followers(cache'[t].snap.aus)
    BY DEF FollowersOK
  <2>1. cache'[t] = cache[t] \/ cache'[t].snap.aus = <<>>
    BY <1>2, SdlCaches
  <2> QED BY <1>0, <2>1 DEF FollowersOK, Followers
<1>3. ASSUME NEW s \in Slots, Keep(s) PROVE FollowersOK'
  <2>1. CASE \E fits \in Succeeds("fit") :
                 LET snap == Cache(cache[s].snap, link[s].au, fits) IN
                 cache' = [cache EXCEPT ![s] = [snap |-> snap, ready |-> Ready(snap), quiet |-> FALSE]]
    <3>1. PICK fits \in BOOLEAN :
             LET snap == Cache(cache[s].snap, link[s].au, fits) IN
             cache' = [cache EXCEPT ![s] = [snap |-> snap, ready |-> Ready(snap), quiet |-> FALSE]]
      BY <2>1, SucceedsTyped
    <3>2. cache[s].snap \in UnitSnapshots /\ link[s].au \in Units
      BY <1>3, UnitInHand DEF Keep, Core, TypesOK, CachesOK
    <3>3. Followers(Cache(cache[s].snap, link[s].au, fits).aus)
      BY <3>2, CacheFollowers DEF FollowersOK
    <3>4. /\ cache'[s].snap = Cache(cache[s].snap, link[s].au, fits)
          /\ \A t \in Slots \ {s} : cache'[t] = cache[t]
      BY <3>1 DEF Core, TypesOK, CachesOK
    <3> QED BY <3>3, <3>4 DEF FollowersOK
  <2> QED BY <1>1, <1>3, <2>1 DEF Keep
<1>4. ASSUME NEW s \in Slots, FallQuiet(s) PROVE FollowersOK'
  <2>1. \A t \in Slots : cache'[t].snap = cache[t].snap
    BY <1>4 DEF FallQuiet, Core, TypesOK, CachesOK
  <2> QED BY <2>1 DEF FollowersOK
<1>5. ASSUME NEW s \in Slots,
             \/ Activate(s) \/ Obey(s) \/ Emit(s) \/ Feed(s) \/ Count(s) \/ Break(s) \/ Flag(s)
             \/ OpenAudio(s)
      PROVE  FollowersOK'
  BY <1>1, <1>5 DEF Activate, Obey, Emit, Feed, Count, Break, Flag, OpenAudio
<1> QED BY <1>1, <1>2, <1>3, <1>4, <1>5 DEF Next, Worker, vars

(* What a replay has left after a unit.                                    *)
LEMMA TailLeft ==
    ASSUME NEW left \in Seq(Units), left # <<>>, Followers(left), Steps(left)
    PROVE  /\ Followers(Tail(left)) /\ Steps(Tail(left)) /\ Tail(left) \in Seq(Units)
           /\ Tail(left) # <<>> => /\ Tail(left)[1].kind # "idr"
                                   /\ Tail(left)[1].n = left[1].n + 1
                                   /\ Final(Tail(left)) = Final(left)
           /\ Tail(left) = <<>> => Final(left) = left[1].n
           /\ Head(left) = left[1] /\ left[1] \in Units
<1> DEFINE n == Len(left)
           rest == Tail(left)
<1>1. /\ n \in Nat /\ n >= 1 /\ rest \in Seq(Units) /\ Len(rest) = n - 1
      /\ \A i \in 1 .. n - 1 : rest[i] = left[i + 1]
      /\ Head(left) = left[1] /\ left[1] \in Units
  OBVIOUS
<1> HIDE DEF rest
<1>2. rest # <<>> <=> n >= 2
  <2>1. rest = <<>> <=> Len(rest) = 0
    BY <1>1
  <2> QED BY <1>1, <2>1
<1>3. \A i \in 2 .. n : left[i].kind # "idr"
  BY DEF Followers
<1>4. \A i \in 1 .. n - 1 : left[i + 1].n = left[i].n + 1
  BY DEF Steps
<1>5. Final(left) = left[n].n
  BY DEF Final
<1> HIDE DEF n
<1>6. Followers(rest)
  <2> SUFFICES ASSUME NEW i \in 2 .. n - 1 PROVE rest[i].kind # "idr"
    BY <1>1 DEF Followers
  <2>1. i + 1 \in 2 .. n /\ i \in 1 .. n - 1
    BY <1>1
  <2> QED BY <1>1, <1>3, <2>1
<1>7. Steps(rest)
  <2> SUFFICES ASSUME NEW i \in 1 .. (n - 1) - 1 PROVE rest[i + 1].n = rest[i].n + 1
    BY <1>1 DEF Steps
  <2>1. i \in 1 .. n - 1 /\ i + 1 \in 1 .. n - 1
    BY <1>1
  <2> QED BY <1>1, <1>4, <2>1
<1>8. ASSUME rest # <<>>
      PROVE  rest[1].kind # "idr" /\ rest[1].n = left[1].n + 1 /\ Final(rest) = Final(left)
  <2>1. 1 \in 1 .. n - 1 /\ 2 \in 2 .. n /\ n - 1 \in 1 .. n - 1
    BY <1>1, <1>2, <1>8
  <2>2. rest[1] = left[2] /\ left[2].n = left[1].n + 1 /\ rest[n - 1] = left[n]
    BY <1>1, <1>4, <2>1
  <2> QED BY <1>1, <1>3, <1>5, <2>1, <2>2 DEF Final
<1>9. rest = <<>> => Final(left) = left[1].n
  BY <1>1, <1>2, <1>5
<1> QED BY <1>1, <1>6, <1>7, <1>8, <1>9 DEF rest

(* A replay starts from a snapshot that ends with the stream.              *)
LEMMA PromoteReplay ==
    ASSUME Core, ChainOK, FollowersOK, ReplayOK, Promote
    PROVE  ReplayOK'
<1> USE DEF Core
<1>0. LoopOK /\ sdl.pc = "promote" /\ ~sdl.fed /\ UNCHANGED <<link, decoder, refresh, active>>
  BY DEF TypesOK, Promote, At, ReplayOK, screen
<1>1. PICK g \in Slots : g = sdl.goal /\ g = active
  BY DEF Promote, At, PlaceOK, Switching
<1>2. ASSUME Watch PROVE ReplayOK'
  <2>1. sdl'.pc = sdl.back /\ ~sdl'.fed /\ sdl.back # "replay"
    BY <1>0, <1>2 DEF Watch, Return, Loop, LoopOK
  <2> QED BY <2>1 DEF ReplayOK
<1>3. CASE /\ slot[g].suppressed /\ slot' = [slot EXCEPT ![g].suppressed = FALSE]
           /\ sdl' = [sdl EXCEPT !.pc = "replay", !.left = cache[g].snap.aus]
           /\ cache[g].ready /\ Ready(cache[g].snap) /\ cache[g].quiet
  <2>1. FullAt(g) /\ StoppedAt(g) /\ Followers(cache[g].snap.aus)
    BY <1>3 DEF Ready, ChainOK, ChainAt, FullAt, FollowersOK
  <2>2. /\ sdl'.pc = "replay" /\ ~sdl'.fed /\ sdl'.left = cache[g].snap.aus
    BY <1>0, <1>3 DEF LoopOK
  <2>3. Steps(cache[g].snap.aus) /\ cache[g].snap.aus[1].kind = "idr"
    BY <1>3, <2>1 DEF Ready, FullAt, Whole, Steps
  <2> QED BY <1>0, <1>1, <2>1, <2>2, <2>3 DEF ReplayOK, LeftOK, StoppedAt
<1>4. CASE sdl' = [sdl EXCEPT !.pc = "wake", !.left = <<>>]
  BY <1>0, <1>4 DEF ReplayOK, LoopOK
<1> QED BY <1>1, <1>2, <1>3, <1>4 DEF Promote

(* One unit of a replay.                                                   *)
LEMMA ReplayReplay ==
    ASSUME Core, ReplayOK, Replay
    PROVE  ReplayOK'
<1> USE DEF Core
<1>0. /\ LoopOK /\ SlotsOK /\ DecoderOK /\ LeftOK /\ sdl.pc = "replay" /\ sdl.left # <<>>
      /\ sdl.left \in Seq(Units) /\ UNCHANGED <<link, active>>
  BY DEF TypesOK, Replay, At, ReplayOK, LoopOK, screen
<1>1. PICK g \in Slots : g = sdl.goal /\ g = active
  BY DEF Replay, At, PlaceOK, Switching
<1>2. PICK au \in Units : au = Head(sdl.left) /\ au = sdl.left[1]
  BY <1>0, TailLeft DEF LeftOK
<1>3. au.n \in Nat
  BY DEF Units
<1> DEFINE rest == IF slot[g].failed THEN <<>> ELSE Tail(sdl.left)
<1>4. /\ Followers(rest) /\ Steps(rest)
      /\ rest # <<>> => rest[1].kind # "idr" /\ rest[1].n = au.n + 1 /\ Final(rest) = Final(sdl.left)
      /\ ~slot[g].failed /\ rest = <<>> => Final(sdl.left) = au.n
  <2>1. CASE slot[g].failed
    <3>1. Len(<<>>) = 0 /\ rest = <<>>
      BY <2>1
    <3> HIDE DEF rest
    <3> QED BY <2>1, <3>1 DEF Followers, Steps
  <2>2. CASE ~slot[g].failed
    BY <1>0, <1>2, <2>2, TailLeft DEF LeftOK
  <2> QED BY <2>1, <2>2
<1> HIDE DEF rest
<1>5. /\ link[g].told = <<>> /\ ~link[g].out /\ link[g].hand \in {"none", "failing"}
      /\ slot[g].failed \/ rest = <<>> \/ Final(rest) = link[g].sent
      /\ ~slot[g].failed /\ rest = <<>> => au.n = link[g].sent
  BY <1>0, <1>1, <1>4 DEF LeftOK
<1>6. CASE /\ Refused(g, au) /\ sdl' = [sdl EXCEPT !.left = rest]
           /\ UNCHANGED <<slot, decoder, refresh>>
  <2>1. Foreign(g) /\ au.kind # "idr"
    BY <1>6 DEF Refused, IsKeyframe
  <2>2. ~Waits(g)
    BY <2>1 DEF Waits, Foreign
  <2> QED BY <1>0, <1>1, <1>2, <2>1, <2>2 DEF LeftOK
<1>7. ASSUME NEW r \in Offers(g, au), ~Refused(g, au), refresh' = (refresh \/ r.asks),
             decoder' = [r.decoder EXCEPT !.pending = @ /\ ~r.ok],
             slot' = [slot EXCEPT ![g].moved = @ \/ r.ok],
             sdl' = [sdl EXCEPT !.left = rest, !.fed = @ \/ r.ok]
      PROVE  ReplayOK'
  <2>1. sdl'.pc = "replay" /\ sdl'.left = rest /\ sdl'.fed = (sdl.fed \/ r.ok)
    BY <1>0, <1>7 DEF LoopOK
  <2>2. slot'[g].failed = slot[g].failed /\ (refresh => refresh')
    BY <1>0, <1>7 DEF SlotsOK, SlotType
  <2>3. r.decoder \in Decoders
    BY <1>0, <1>7, OfferFacts
  <2>4. /\ decoder'.owner = g /\ decoder'.live /\ decoder'.gate = r.decoder.gate
        /\ decoder'.last = r.decoder.last /\ decoder'.whole = r.decoder.whole
    BY <1>0, <1>7, <2>3, OfferFacts DEF Decoders
  <2>0. ~Foreign(g)'
    BY <2>4 DEF Foreign
  <2>5. CASE ~sdl.fed /\ ~r.ok
    <3>1. decoder'.gate = "idr"
      BY <1>0, <1>7, <2>4, <2>5, OfferFacts
    <3>2. Waits(g)'
      BY <2>4, <3>1 DEF Waits, Foreign
    <3> QED BY <1>0, <1>1, <1>4, <1>5, <2>1, <2>2, <2>5, <3>2 DEF ReplayOK, LeftOK
  <2>6. CASE sdl.fed /\ (slot[g].failed \/ refresh)
    BY <1>0, <1>1, <1>4, <1>5, <2>0, <2>1, <2>2, <2>6 DEF ReplayOK, LeftOK
  <2>7. CASE sdl.fed /\ Joined(g)
    <3>1. au.kind # "idr" /\ Joins(g, au)
      BY <1>0, <1>2, <1>3, <2>7 DEF LeftOK, Joined, Joins, Shows, Foreign
    <3>2. r.ok \/ refresh'
      BY <1>0, <1>1, <1>7, <2>7, <3>1, OfferFacts, SlotsAssumption DEF Joined, Shows, Slots, NoSlot
    <3>3. r.ok => decoder'.gate = "open" /\ decoder'.last = au.n /\ decoder'.whole
      BY <1>0, <1>7, <2>4, <3>1, OfferFacts
    <3>4. slot[g].failed \/ refresh' \/ Joined(g)'
      BY <1>0, <1>4, <1>5, <2>1, <2>4, <3>2, <3>3 DEF Joined, Shows
    <3> QED BY <1>0, <1>1, <1>4, <1>5, <2>0, <2>1, <2>2, <2>7, <3>4 DEF ReplayOK, LeftOK
  <2>8. CASE ~sdl.fed /\ r.ok
    <3>1. au.kind = "idr"
      <4>1. ASSUME au.kind # "idr" PROVE FALSE
        <5>1. Waits(g)
          BY <1>0, <1>1, <1>2, <2>8, <4>1 DEF LeftOK
        <5>2. decoder.owner # NoSlot /\ decoder.gate = "open"
          BY <1>0, <1>7, <2>8, <4>1, OfferFacts
        <5> QED BY <5>1, <5>2 DEF Waits
      <4> QED BY <4>1
    <3>2. decoder'.gate = "open" /\ decoder'.last = au.n /\ decoder'.whole
      BY <1>0, <1>7, <2>4, <2>8, <3>1, OfferFacts
    <3>3. slot[g].failed \/ Joined(g)'
      BY <1>0, <1>4, <1>5, <2>1, <2>4, <3>2 DEF Joined, Shows
    <3> QED BY <1>0, <1>1, <1>4, <1>5, <2>0, <2>1, <2>2, <2>8, <3>3 DEF ReplayOK, LeftOK
  <2> QED BY <1>0, <1>1, <2>5, <2>6, <2>7, <2>8 DEF LeftOK
<1> QED BY <1>1, <1>2, <1>6, <1>7 DEF Replay, rest

(* While a replay runs no unit of its session is in a worker's hand; the   *)
(* rest of the workers can at most open the audio, which asks for a        *)
(* keyframe.                                                               *)
LEMMA WorkerReplay ==
    ASSUME Core, ReplayOK, NEW s \in Slots, Worker(s)
    PROVE  ReplayOK'
<1> USE DEF Core
<1>0. WorkerKeeps(s) /\ LoopOK
  BY WorkerState DEF TypesOK
<1>1. CASE sdl.pc # "replay"
  <2>1. sdl' = sdl
    BY <1>1 DEF Worker, Activate, Obey, Emit, Keep, Feed, Count, Break, Flag, OpenAudio, FallQuiet
  <2> QED BY <1>1, <2>1 DEF ReplayOK
<1>2. CASE sdl.pc = "replay"
  <2>0. LeftOK /\ sdl.goal = active /\ sdl'.pc = "replay" /\ sdl'.left = sdl.left /\ active' = active
    BY <1>0, <1>2 DEF ReplayOK, PlaceOK, WorkerKeeps
  <2>1. PICK a \in Slots : a = active
    BY DEF TypesOK, ScreenOK
  <2>2. /\ link[a].told = <<>> /\ ~link[a].out /\ link[a].hand \in {"none", "failing"}
    BY <2>0, <2>1 DEF LeftOK
  <2>3. s = a => Activate(s) \/ Break(s) \/ Flag(s) \/ OpenAudio(s) \/ FallQuiet(s)
    BY <2>2 DEF Worker, Obey, Emit, Keep, Feed, Count
  <2>4. /\ link'[a].told = link[a].told /\ link'[a].out = link[a].out
        /\ link'[a].sent = link[a].sent /\ link'[a].hand \in {"none", "failing"}
    <3>1. CASE s # a
      BY <1>0, <2>2, <3>1 DEF WorkerKeeps, Others
    <3>2. CASE s = a
      <4>1. CASE Break(s) \/ Flag(s)
        BY <3>2, <4>1, HandEffect DEF Break, Flag
      <4>2. CASE Activate(s) \/ OpenAudio(s) \/ FallQuiet(s)
        BY <2>2, <4>2 DEF Activate, OpenAudio, FallQuiet
      <4> QED BY <2>3, <3>2, <4>1, <4>2
    <3> QED BY <3>1, <3>2
  <2>5. slot[a].failed => slot'[a].failed
    <3>1. slot'[s].failed = slot[s].failed \/ slot'[s].failed
      BY <1>0 DEF WorkerKeeps
    <3> QED BY <1>0, <3>1 DEF WorkerKeeps, Others
  <2>6. sdl'.fed = sdl.fed
    <3>1. CASE Count(s)
      <4>1. s # sdl.goal
        BY <2>0, <2>1, <2>2, <3>1 DEF Count
      <4> QED BY <3>1, <4>1 DEF Count
    <3>2. CASE ~Count(s)
      BY <3>2 DEF Worker, Activate, Obey, Emit, Keep, Feed, Break, Flag, OpenAudio, FallQuiet
    <3> QED BY <3>1, <3>2
  <2>7. \/ UNCHANGED refresh /\ \E b : decoder' = [decoder EXCEPT !.pending = b]
        \/ UNCHANGED <<decoder, refresh>>
        \/ UNCHANGED refresh /\ decoder.owner = NoSlot /\ decoder' = [decoder EXCEPT !.audio = TRUE]
        \/ refresh' = TRUE /\ decoder' = [NoDecoder EXCEPT !.audio = TRUE]
    <3>1. CASE Feed(s)
      <4>1. s # active
        BY <2>1, <2>2, <3>1 DEF Feed
      <4> QED BY <3>1, <4>1 DEF Feed
    <3>2. CASE Count(s)
      BY <3>2 DEF Count, Counted
    <3>3. CASE OpenAudio(s)
      BY <3>3 DEF OpenAudio
    <3>4. CASE ~Feed(s) /\ ~Count(s) /\ ~OpenAudio(s)
      BY <3>4 DEF Worker, Activate, Obey, Emit, Keep, Break, Flag, FallQuiet
    <3> QED BY <3>1, <3>2, <3>3, <3>4
  <2>8. /\ Waits(a) => Waits(a)'
        /\ Joined(a) \/ refresh => Joined(a)' \/ refresh'
        /\ ~Foreign(a) => ~Foreign(a)'
    <3>1. CASE refresh' = TRUE /\ decoder' = [NoDecoder EXCEPT !.audio = TRUE]
      BY <3>1 DEF Waits, Foreign, NoDecoder
    <3>2. ASSUME UNCHANGED refresh, decoder'.owner = decoder.owner, decoder'.live = decoder.live,
                 decoder'.gate = decoder.gate, decoder'.last = decoder.last,
                 decoder'.whole = decoder.whole
          PROVE  /\ Waits(a) => Waits(a)'
                 /\ Joined(a) \/ refresh => Joined(a)' \/ refresh'
                 /\ ~Foreign(a) => ~Foreign(a)'
      BY <2>0, <2>4, <3>2 DEF Waits, Foreign, Joined, Shows
    <3>3. ASSUME NEW b, decoder' = [decoder EXCEPT !.pending = b] \/ decoder' = [decoder EXCEPT !.audio = b]
          PROVE  /\ decoder'.owner = decoder.owner /\ decoder'.live = decoder.live
                 /\ decoder'.gate = decoder.gate /\ decoder'.last = decoder.last
                 /\ decoder'.whole = decoder.whole
      BY <3>3 DEF TypesOK, DecoderOK
    <3> QED BY <2>7, <3>1, <3>2, <3>3
  <2> QED BY <2>0, <2>1, <2>2, <2>4, <2>5, <2>6, <2>8 DEF ReplayOK, LeftOK
<1> QED BY <1>1, <1>2

(* Only a promotion starts a replay, and nothing but a replay counts as    *)
(* fed.                                                                    *)
LEMMA SdlReplay ==
    ASSUME Core, ReplayOK, Sdl, ~Promote, ~Replay
    PROVE  ReplayOK'
<1> USE DEF Core
<1>0. LoopOK
  BY DEF TypesOK
<1>1. ASSUME sdl'.pc # "replay", ~sdl'.fed PROVE ReplayOK'
  BY <1>1 DEF ReplayOK
<1>2. /\ \A pc, s : Loop(pc, s) => sdl'.pc = pc /\ ~sdl'.fed
      /\ \A pc : Rest(pc) => sdl'.pc = pc /\ ~sdl'.fed
      /\ Return => sdl'.pc # "replay" /\ ~sdl'.fed
  BY <1>0 DEF Rest, Return, Loop, LoopOK
<1>3. ~sdl.fed => /\ \A pc : Goto(pc) => sdl'.pc = pc /\ ~sdl'.fed
                  /\ \A pc, s, back : Call(pc, s, back) => sdl'.pc = pc /\ ~sdl'.fed
  BY <1>0 DEF Goto, Call, LoopOK
<1>4. sdl.pc # "replay" => ~sdl.fed
  BY DEF ReplayOK
<1>5. CASE Switches
  <2>1. ASSUME Watch PROVE ReplayOK'
    BY <1>1, <1>2, <2>1 DEF Watch
  <2>2. CASE Switch \/ Demote
    BY <1>1, <1>2, <1>3, <1>4, <2>2 DEF Switch, Demote, At
  <2>3. CASE Wake
    BY <2>1, <2>3 DEF Wake
  <2>4. CASE Replayed
    <3>1. ASSUME ~sdl.fed, Goto("wake") PROVE ReplayOK'
      BY <1>1, <1>3, <3>1
    <3> QED BY <2>1, <2>4, <3>1 DEF Replayed
  <2>5. CASE Flip
    BY <1>0, <1>1, <1>4, <2>5 DEF Flip, LoopOK, At
  <2>6. CASE Prepare
    BY <1>1, <1>2, <1>3, <1>4, <2>6, PrepareEffect DEF Prepared, Prepare, At
  <2> QED BY <1>5, <2>2, <2>3, <2>4, <2>5, <2>6 DEF Switches
<1>6. CASE Presses
  <2>1. CASE PressCancel \/ Leave \/ \E s \in Slots : PressLive(s)
    BY <1>1, <1>2, <1>3, <1>4, <2>1 DEF PressCancel, Leave, PressLive, At
  <2>2. ASSUME NEW s \in Slots, PressOffline(s) PROVE ReplayOK'
    <3>1. ~sdl.fed
      BY <1>4, <2>2 DEF PressOffline, At
    <3>2. Rest("scan") \/ sdl' = [sdl EXCEPT !.pc = "leave", !.old = active]
      BY <2>2 DEF PressOffline
    <3>3. CASE Rest("scan")
      BY <1>1, <1>2, <3>3
    <3>4. CASE sdl' = [sdl EXCEPT !.pc = "leave", !.old = active]
      BY <1>0, <1>1, <3>1, <3>4 DEF LoopOK
    <3> QED BY <3>2, <3>3, <3>4
  <2> QED BY <1>6, <2>1, <2>2 DEF Presses
<1>7. CASE Ticks
  <2>1. CASE Scan
    <3>1. ~sdl.fed
      BY <1>4, <2>1 DEF Scan, At
    <3>2. CASE Filling = {}
      BY <1>1, <1>2, <2>1, <3>2 DEF Scan
    <3>3. CASE Filling # {}
      <4>1. sdl' = [sdl EXCEPT !.pc = "filled", !.at = First(Filling), !.seen = cache[First(Filling)].ready]
        BY <2>1, <3>3 DEF Scan
      <4> QED BY <1>0, <1>1, <3>1, <4>1 DEF LoopOK
    <3> QED BY <3>2, <3>3
  <2>2. CASE Filled \/ StillFilling \/ FillExpires \/ Deferred \/ DeferredExpires
    BY <1>1, <1>2, <1>3, <1>4, <2>2 DEF Filled, StillFilling, FillExpires, NextOrSwitch, Deferred,
       DeferredExpires, At
  <2>3. CASE Recover \/ Watchdog \/ WatchdogExpires \/ Renew
    BY <1>1, <1>2, <1>3, <1>4, <2>3 DEF Recover, Watchdog, WatchdogExpires, Renew, Deadline, At
  <2> QED BY <1>7, <2>1, <2>2, <2>3 DEF Ticks
<1>8. CASE Drains
  <2>1. CASE DrainSwitch
    BY <1>0, <1>1, <1>4, <2>1 DEF DrainSwitch, LoopOK, At
  <2>2. CASE Bury \/ DrainStop \/ Enter \/ Dial
    BY <1>1, <1>2, <2>2 DEF Bury, DrainStop, Enter, Dial
  <2> QED BY <1>8, <2>1, <2>2 DEF Drains
<1> QED BY <1>5, <1>6, <1>7, <1>8, SdlGroups

LEMMA NextReplay ==
    ASSUME Core, ChainOK, FollowersOK, ReplayOK, [Next]_vars
    PROVE  ReplayOK'
<1>1. CASE UNCHANGED vars
  BY <1>1 DEF vars, screen, ReplayOK, LeftOK, Waits, Joined, Foreign, Shows
<1>2. ASSUME NEW s \in Slots, Worker(s) PROVE ReplayOK'
  BY <1>2, WorkerReplay
<1>3. CASE Sdl
  BY <1>3, PromoteReplay, ReplayReplay, SdlReplay
<1> QED BY <1>1, <1>2, <1>3 DEF Next

(* The chains and the replay, in every behaviour.                          *)
LEMMA SpecReplay == Spec => [](Core /\ ReplayOK)
<1>1. Init => FollowersOK /\ ReplayOK
  <2>1. Len(<<>>) = 0
    OBVIOUS
  <2> QED BY <2>1 DEF Init, FollowersOK, Followers, Disarmed, ReplayOK
<1>2. /\ LengthOK /\ Core /\ SilenceOK /\ [Next]_vars => LengthOK'
      /\ LengthOK /\ Core /\ SilenceOK /\ ChainOK /\ [Next]_vars => ChainOK'
      /\ Core /\ ChainOK /\ FollowersOK /\ ReplayOK /\ [Next]_vars => (FollowersOK /\ ReplayOK)'
  BY NextLength, NextChain, NextFollowers, NextReplay
<1>3. Spec => [](Core /\ SilenceOK)
  BY SpecSilence
<1> QED BY <1>1, <1>2, <1>3, InitLength, InitChain, PTL DEF Spec

(* When native_snapshot_replay ends and the server is told to resume, the  *)
(* decoder has followed an unbroken chain to the unit the server sent      *)
(* last, unless a keyframe is asked for already or the session failed.     *)
THEOREM ReplaysRejoin == Spec => ReplayRejoins
<1>1. Core /\ ReplayOK /\ [Next]_vars =>
         [Replayed /\ sdl.fed =>
            \/ Shows(sdl.goal) /\ decoder.whole /\ decoder.last = link[sdl.goal].sent
            \/ refresh \/ slot[sdl.goal].failed]_vars
  <2> SUFFICES ASSUME Core, ReplayOK, Replayed, sdl.fed
               PROVE  \/ Shows(sdl.goal) /\ decoder.whole /\ decoder.last = link[sdl.goal].sent
                      \/ refresh \/ slot[sdl.goal].failed
    OBVIOUS
  <2>1. LeftOK /\ sdl.left = <<>> /\ sdl.goal = active
    BY DEF Replayed, At, ReplayOK, Core, PlaceOK
  <2> QED BY <2>1 DEF LeftOK, Joined
<1> QED BY <1>1, SpecReplay, PTL DEF Spec, ReplayRejoins

-----------------------------------------------------------------------------
(* Who may take the decoder.                                               *)

(* An offer that is not turned away takes over, or starts, with an IDR; or *)
(* it is parameter sets for a decoder that runs another stream.            *)
LEMMA OfferTakesOver ==
    ASSUME DecoderOK, NEW s \in Slots, NEW au \in Units, NEW r \in Offers(s, au), ~Refused(s, au),
           r.decoder.gate = "open",
           decoder.owner # s \/ ~decoder.live \/ decoder.gate = "idr"
    PROVE  r.decoder.whole \/ (au.kind = "config" /\ decoder.gate = "open" /\ Foreign(s))
<1>1. r.ok
  BY OfferFacts
<1>2. CASE au.kind = "idr"
  BY <1>1, <1>2, OfferFacts
<1>3. CASE au.kind # "idr"
  <2>1. decoder.owner # NoSlot /\ decoder.gate = "open"
    BY <1>1, <1>3, OfferFacts
  <2>2. Foreign(s)
    BY <2>1 DEF Foreign
  <2>3. au.kind = "config"
    BY <1>3, <2>2 DEF Refused, IsKeyframe, Units
  <2> QED BY <2>1, <2>2, <2>3
<1> QED BY <1>2, <1>3

LEMMA NextTakesOver ==
    ASSUME Core, ReplayOK, [Next]_vars, decoder'.gate = "open", decoder'.live,
           decoder'.owner # decoder.owner \/ ~decoder.live \/ decoder.gate = "idr"
    PROVE  decoder'.whole \/ OffersSets(decoder'.owner)
<1> USE DEF Core
<1>0. DecoderOK /\ LinksOK /\ LoopOK
  BY DEF TypesOK
<1>1. UNCHANGED decoder => FALSE
  OBVIOUS
<1>2. ASSUME NEW s \in Slots, NEW au \in Units, NEW r \in Offers(s, au), ~Refused(s, au),
             decoder' = r.decoder \/ \E p : decoder' = [r.decoder EXCEPT !.pending = p]
      PROVE  /\ decoder'.owner = s
             /\ decoder'.whole \/ (au.kind = "config" /\ decoder.gate = "open" /\ Foreign(s))
  <2>1. r.decoder \in Decoders /\ r.decoder.owner = s
    BY <1>0, <1>2, OfferFacts
  <2>2. /\ decoder'.owner = s /\ decoder'.whole = r.decoder.whole
        /\ decoder'.gate = r.decoder.gate
    BY <1>2, <2>1 DEF Decoders
  <2>3. r.decoder.gate = "open" /\ (decoder.owner # s \/ ~decoder.live \/ decoder.gate = "idr")
    BY <2>2
  <2> QED BY <1>0, <1>2, <2>2, <2>3, OfferTakesOver
<1>3. ASSUME NEW s \in Slots, Feed(s) PROVE decoder'.whole \/ OffersSets(decoder'.owner)
  <2>1. link[s].au \in Units
    BY <1>3, UnitInHand DEF Feed, TypesOK
  <2>2. PICK r \in Offers(s, link[s].au) : ~Refused(s, link[s].au) /\ decoder' = r.decoder
    BY <1>1, <1>3 DEF Feed, Accept
  <2>3. link[s].hand = "front"
    BY <1>3 DEF Feed
  <2> QED BY <1>2, <2>1, <2>2, <2>3 DEF OffersSets
<1>4. CASE Replay
  <2>1. sdl.goal \in Slots /\ sdl.goal = active /\ sdl.left \in Seq(Units) /\ sdl.left # <<>> /\ LeftOK
    BY <1>0, <1>4 DEF Replay, At, PlaceOK, Switching, LoopOK, ReplayOK
  <2>2. Head(sdl.left) \in Units /\ Head(sdl.left) = sdl.left[1]
    BY <2>1
  <2>3. ~Refused(sdl.goal, Head(sdl.left))
    BY <1>1, <1>4 DEF Replay
  <2>4. PICK r \in Offers(sdl.goal, Head(sdl.left)) :
            decoder' = [r.decoder EXCEPT !.pending = @ /\ ~r.ok]
    BY <1>4, <2>3 DEF Replay
  <2>5. decoder' = [r.decoder EXCEPT !.pending = r.decoder.pending /\ ~r.ok]
    BY <2>4
  <2>6. \/ decoder'.whole
        \/ Head(sdl.left).kind = "config" /\ Foreign(sdl.goal)
    BY <1>2, <2>1, <2>2, <2>3, <2>5
  <2>7. ASSUME sdl.left[1].kind # "idr", Foreign(active) PROVE FALSE
    BY <2>1, <2>7 DEF LeftOK, Waits, Foreign
  <2> QED BY <2>1, <2>2, <2>6, <2>7
<1>5. ASSUME NEW s \in Slots, Count(s) PROVE FALSE
  BY <1>0, <1>5 DEF Count, Counted, DecoderOK
<1>6. ASSUME NEW s \in Slots, OpenAudio(s) PROVE FALSE
  BY <1>0, <1>6 DEF OpenAudio, DecoderOK, NoDecoder
<1>7. ASSUME NEW s \in Slots,
             Activate(s) \/ Obey(s) \/ Emit(s) \/ Keep(s) \/ Break(s) \/ Flag(s) \/ FallQuiet(s)
      PROVE  FALSE
  BY <1>1, <1>7 DEF Activate, Obey, Emit, Keep, Break, Flag, FallQuiet
<1>8. ASSUME Sdl, ~Replay PROVE FALSE
  <2>1. ASSUME NEW s \in Slots, decoder' = Orphaned(s) PROVE FALSE
    BY <1>0, <2>1 DEF Orphaned, DecoderOK
  <2>2. decoder' # NoMedia
    BY DEF NoMedia, NoDecoder
  <2> QED BY <1>1, <1>8, <2>1, <2>2, SdlDecoder
<1> QED BY <1>1, <1>3, <1>4, <1>5, <1>6, <1>7, <1>8 DEF Next, Worker, vars

(* Whichever way the SDL thread, the workers and the replays of            *)
(* native_snapshot_replay follow one another, a decoder starts, restarts   *)
(* and changes streams with an IDR only, but for the hand-over that        *)
(* on_video_au makes for parameter sets alone while the decoder runs.      *)
THEOREM KeyframesTakeOver == Spec => OnlyKeyframesTakeOver
<1>1. Core /\ ReplayOK /\ [Next]_vars =>
         [decoder'.gate = "open" /\ decoder'.live
          /\ (decoder'.owner # decoder.owner \/ ~decoder.live \/ decoder.gate = "idr") =>
              decoder'.whole \/ OffersSets(decoder'.owner)]_vars
  BY NextTakesOver
<1> QED BY <1>1, SpecReplay, PTL DEF Spec, OnlyKeyframesTakeOver
=============================================================================
