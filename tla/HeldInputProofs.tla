-------------------------- MODULE HeldInputProofs --------------------------
(***************************************************************************)
(* What HeldInput promises for any number of sessions, keys and buttons    *)
(* and rings of any size: no server is left holding a key the user cannot  *)
(* let go of, none holds one that came up unseen, and every press goes to  *)
(* the session on the screen.                                              *)
(*                                                                         *)
(* None of the three is inductive.  Flushing only helps while input is     *)
(* armed and wired to the session that holds something, so AimOK says what *)
(* arming implies, and a batch in progress keeps the grab.  That a release *)
(* is never overtaken needs the order of events in the rings (Orderly).    *)
(***************************************************************************)
EXTENDS HeldInput, Integers, TLAPS

Up(i) == [what |-> i, down |-> FALSE]
Down(i) == [what |-> i, down |-> TRUE]
Rings == {"mouse", "keyboard"}
Pending == fingers \cup lost

\* Input is armed only for a session that has the screen, and wired to it.
AimOK ==
    /\ state[screen] # "idle" => wired = screen
    /\ armed => visible /\ ~mixer /\ state[screen] # "idle"
    /\ visible => ~hub

\* A server holds something down only where it can still be let go of.
HoldOK ==
    \A s \in Sessions : pressed[s] # {} =>
        /\ wired = s /\ screen = s /\ armed /\ grabbed /\ Live(s)
        /\ pressed[s] \subseteq held

\* A batch outlives the grab only unarmed; without a grab the rings are empty.
GrabOK ==
    /\ batch # <<>> /\ armed => grabbed
    /\ ~grabbed => rings = NoEvents

RaisedAfter(events, i, n) == \E m \in DOMAIN events : m > n /\ events[m] = Up(i)

\* A press is followed by its release, unless the thing is in S.
Orderly(events, S) ==
    \A i \in Inputs : \A n \in DOMAIN events :
        events[n] = Down(i) => i \in S \/ RaisedAfter(events, i, n)

\* Each ring has the events that are its own; only keys and buttons are released.
InPlace(event, ring) ==
    /\ event.what \in Inputs => Ring(event.what) = ring
    /\ event.down \/ event.what \in Inputs

OrderOK ==
    /\ \A ring \in Rings : Orderly(rings[ring], Pending)
    /\ \A ring \in Rings : \A n \in DOMAIN rings[ring] : InPlace(rings[ring][n], ring)
    /\ armed => \A i \in Inputs : \A n \in DOMAIN batch :
          batch[n] = Down(i) =>
             i \in Pending \/ RaisedAfter(batch, i, n) \/ Raised(rings[Ring(i)], i)

HeldInv == HeldTypeOK /\ AimOK /\ HoldOK /\ GrabOK /\ OrderOK /\ NoGhostPress

----------------------------------------------------------------------------
(* Facts about events and sequences.                                       *)

LEMMA RingOf == \A i : Ring(i) \in Rings
BY DEF Ring, Rings

LEMMA RemoteIsNoInput == \A what \in Remote : what \notin Inputs /\ Ring(what) = "keyboard"
BY HeldConstants DEF Inputs, Ring

LEMMA RingHasRoom == \A ring \in Rings : RingSize(ring) \in Nat \ {0}
BY HeldConstants DEF RingSize, Rings

\* kept is q without its k oldest events.
Shifted(q, kept, k) ==
    Len(kept) = Len(q) - k /\ \A n \in 1 .. Len(kept) : kept[n] = q[n + k]

\* What r, the ring after e was pushed, has of q, the ring before.
PushedOn(q, r, k, e) ==
    /\ Len(r) = Len(q) - k + 1
    /\ \A n \in DOMAIN r : r[n] = e \/ \E m \in DOMAIN q : r[n] = q[m]
    /\ \A i : e = Up(i) => Raised(r, i)
    /\ \A i : Raised(q, i) => Raised(r, i) \/ (k = 1 /\ q[1] = Up(i))

\* Pushing an event into a ring whose k oldest were dropped keeps the order, and
\* every release but the dropped ones (evdev_push_key_event and _mouse_event).
LEMMA Pushed ==
    ASSUME NEW q \in Seq(Events), NEW e \in Events, NEW k \in {0, 1},
           NEW kept \in Seq(Events), Shifted(q, kept, k),
           NEW S, NEW T, Orderly(q, S),
           \A i \in Inputs : i \in S => i \in T \/ e = Up(i),
           \A i \in Inputs : e = Down(i) => i \in T
    PROVE  /\ Append(kept, e) \in Seq(Events)
           /\ Orderly(Append(kept, e), T)
           /\ PushedOn(q, Append(kept, e), k, e)
<1> DEFINE r == Append(kept, e)
<1>1. /\ r \in Seq(Events) /\ Len(r) = Len(kept) + 1 /\ r[Len(r)] = e
      /\ DOMAIN r = 1 .. Len(r) /\ DOMAIN q = 1 .. Len(q)
      /\ Len(q) \in Nat /\ Len(kept) \in Nat /\ Len(r) \in Nat
      /\ \A n \in 1 .. Len(kept) : r[n] = kept[n]
  OBVIOUS
<1>2. Len(kept) = Len(q) - k /\ \A n \in 1 .. Len(kept) : r[n] = q[n + k]
  BY <1>1 DEF Shifted
<1> HIDE DEF r
<1>3. PICK l \in Nat : l = Len(kept)
  BY <1>1
<1>4. /\ Len(r) = l + 1 /\ Len(q) = l + k
      /\ \A n \in DOMAIN r : n = l + 1 \/ (n \in 1 .. l /\ n + k \in DOMAIN q)
      /\ \A m \in DOMAIN q : m - k \in 1 .. l \/ (k = 1 /\ m = 1)
      /\ 1 .. l \subseteq DOMAIN r /\ l + 1 \in DOMAIN r
      /\ \A m \in DOMAIN q : m \in Int /\ (m - k) + k = m
  BY <1>1, <1>2, <1>3
<1>5. r[l + 1] = e /\ \A n \in 1 .. l : r[n] = q[n + k]
  BY <1>1, <1>2, <1>3, <1>4
<1>6. \A m \in DOMAIN q : r[m - k] = q[m] \/ (k = 1 /\ m = 1)
  BY <1>4, <1>5
<1>7. \A n \in DOMAIN r : r[n] = e \/ \E m \in DOMAIN q : r[n] = q[m]
  BY <1>4, <1>5
<1>8. Orderly(r, T)
  <2> SUFFICES ASSUME NEW i \in Inputs, NEW n \in DOMAIN r, r[n] = Down(i), i \notin T
               PROVE  RaisedAfter(r, i, n)
    BY DEF Orderly
  <2>1. n \in 1 .. l /\ n + k \in DOMAIN q /\ q[n + k] = Down(i) /\ n \in Int
    BY <1>4, <1>5
  <2>2. CASE i \in S
    <3>1. e = Up(i) /\ l + 1 > n
      BY <2>1, <2>2
    <3> QED
      BY <3>1, <1>4, <1>5 DEF RaisedAfter
  <2>3. CASE i \notin S
    <3>1. PICK m \in DOMAIN q : m > n + k /\ q[m] = Up(i)
      BY <2>1, <2>3 DEF Orderly, RaisedAfter
    <3>2. m - k \in 1 .. l /\ m - k > n /\ r[m - k] = Up(i)
      BY <3>1, <1>4, <1>6, <2>1
    <3> QED
      BY <3>2, <1>4 DEF RaisedAfter
  <2> QED
    BY <2>2, <2>3
<1>9. \A i : e = Up(i) => Raised(r, i)
  BY <1>4, <1>5 DEF Raised, Up
<1>10. ASSUME NEW i, Raised(q, i) PROVE Raised(r, i) \/ (k = 1 /\ q[1] = Up(i))
  <2>1. PICK m \in DOMAIN q : q[m] = [what |-> i, down |-> FALSE]
    BY <1>10 DEF Raised
  <2>2. CASE m - k \in 1 .. l /\ r[m - k] = q[m]
    BY <2>1, <2>2, <1>4 DEF Raised
  <2>3. CASE k = 1 /\ m = 1
    BY <2>1, <2>3 DEF Up
  <2> QED
    BY <2>2, <2>3, <1>4, <1>6
<1>11. Len(r) = Len(q) - k + 1
  BY <1>3, <1>4
<1> QED
  BY <1>1, <1>7, <1>8, <1>9, <1>10, <1>11 DEF r, PushedOn

----------------------------------------------------------------------------
(* Types, split as the steps need them.                                    *)

RingsTyped ==
    /\ rings \in [Rings -> Seq(Events)] /\ batch \in Seq(Events)
    /\ \A ring \in Rings : Len(rings[ring]) <= RingSize(ring)

AimTyped ==
    /\ wired \in Sessions \cup {NoSession} /\ screen \in Sessions
    /\ held \subseteq Inputs /\ pressed \in [Sessions -> SUBSET Inputs]
    /\ grabbed \in BOOLEAN /\ armed \in BOOLEAN /\ visible \in BOOLEAN
    /\ mixer \in BOOLEAN /\ hub \in BOOLEAN /\ focused \in BOOLEAN
    /\ state \in [Sessions -> {"idle", "connecting", "active", "failed"}]

FingersTyped == fingers \subseteq Inputs /\ lost \subseteq Inputs

LEMMA TypeSplit == HeldTypeOK <=> RingsTyped /\ AimTyped /\ FingersTyped
<1>1. DOMAIN rings = Rings \/ rings \notin [Rings -> Seq(Events)]
  OBVIOUS
<1>2. {grabbed, armed, visible, mixer, hub, focused} \subseteq BOOLEAN
      <=> /\ grabbed \in BOOLEAN /\ armed \in BOOLEAN /\ visible \in BOOLEAN
          /\ mixer \in BOOLEAN /\ hub \in BOOLEAN /\ focused \in BOOLEAN
  BY Zenon
<1> QED
  BY <1>1, <1>2, Zenon DEF HeldTypeOK, RingsTyped, AimTyped, FingersTyped, Rings

NoneHeld == [s \in Sessions |-> {}]

\* What every step but the reader's own and the forwarding of an event may do to the
\* rings and to what is held down.
Handled ==
    /\ \/ pressed' = NoneHeld
       \/ rings' = rings /\ \A s \in Sessions : pressed'[s] \subseteq pressed[s]
    /\ rings' = rings \/ rings' = NoEvents
    /\ ~grabbed' => rings' = NoEvents
    /\ batch # <<>> /\ armed' => armed /\ rings' = rings /\ (grabbed => grabbed')

\* Whoever is given a press has the screen to himself.
PressesHere ==
    \A s \in Sessions : ~(pressed'[s] \subseteq pressed[s]) =>
        s = screen /\ visible /\ ~mixer /\ ~hub /\ Live(s)

\* Flushing leaves no server holding anything (native_flush_held_inputs).
LEMMA Flushed ==
    ASSUME AimTyped, HoldOK, Flush
    PROVE  pressed' = NoneHeld /\ held' = {}
<1>1. CASE armed /\ wired # NoSession
  <2>1. wired \in Sessions /\ pressed' = [pressed EXCEPT ![wired] = @ \ held]
    BY <1>1 DEF AimTyped, Flush
  <2>2. \A s \in Sessions : pressed'[s] = {}
    BY <2>1 DEF AimTyped, HoldOK
  <2>3. pressed' = [s \in Sessions |-> pressed'[s]]
    BY <2>1 DEF AimTyped
  <2> QED
    BY <2>2, <2>3, Zenon DEF NoneHeld, Flush
<1>2. CASE ~(armed /\ wired # NoSession)
  <2>1. pressed' = pressed
    BY <1>2, Zenon DEF Flush
  <2>2. \A s \in Sessions : pressed[s] = {}
    BY <1>2, HeldConstants DEF HoldOK
  <2>3. pressed = [s \in Sessions |-> pressed[s]]
    BY DEF AimTyped
  <2> QED
    BY <2>1, <2>2, <2>3, Zenon DEF NoneHeld, Flush
<1> QED
  BY <1>1, <1>2

LEMMA NoneHeldOK ==
    ASSUME pressed' = NoneHeld
    PROVE  pressed' \in [Sessions -> SUBSET Inputs] /\ HoldOK'
BY DEF NoneHeld, HoldOK

\* Hiding the mixer disturbs nobody: while it is shown nothing is held down.
LEMMA MixerHidden ==
    ASSUME AimTyped, AimOK, GrabOK, HideMixer
    PROVE  /\ mixer' = FALSE /\ grabbed' \in BOOLEAN
           /\ grabbed => grabbed'
           /\ rings' = rings
           /\ ~grabbed' => rings' = NoEvents
BY DEF AimTyped, AimOK, GrabOK, HideMixer, Grab

\* A completed switch leaves input unarmed and wired to the session it shows
\* (native_complete_session_switch).
LEMMA Switched ==
    ASSUME AimTyped, AimOK, HoldOK, GrabOK, NEW s \in Sessions, Switch(s),
           hub' \in BOOLEAN, visible => ~hub',
           state' \in [Sessions -> {"idle", "connecting", "active", "failed"}]
    PROVE  AimTyped' /\ AimOK' /\ HoldOK' /\ Handled
<1>1. pressed' = NoneHeld /\ held' = {}
  BY Flushed DEF Switch
<1>2. /\ mixer' = FALSE /\ grabbed' \in BOOLEAN
      /\ rings' = rings
      /\ ~grabbed' => rings' = NoEvents
  BY MixerHidden DEF Switch
<1>3. armed' = FALSE /\ wired' = s /\ screen' = s /\ visible' = visible /\ focused' = focused
  BY DEF Switch
<1>4. AimTyped'
  BY <1>1, <1>2, <1>3, NoneHeldOK DEF AimTyped
<1>5. AimOK'
  BY <1>3 DEF AimOK
<1>6. Handled
  BY <1>1, <1>2, <1>3 DEF Handled
<1> QED
  BY <1>1, <1>4, <1>5, <1>6, NoneHeldOK

\* The handler of a colour key or a card (native_request_session_switch).
LEMMA Requested ==
    ASSUME AimTyped, AimOK, HoldOK, GrabOK, NEW s \in Sessions, RequestSwitch(s), state' = state
    PROVE  AimTyped' /\ AimOK' /\ HoldOK' /\ Handled
<1>1. CASE mixer /\ s = screen
           /\ HideMixer /\ UNCHANGED <<inputVars, screen, visible, hub, focused>>
  BY <1>1, MixerHidden DEF inputVars, AimTyped, AimOK, HoldOK, Handled, Live
<1>2. CASE Nothing
  BY <1>2 DEF Nothing, inputVars, screenVars, AimTyped, AimOK, HoldOK, GrabOK, Handled, Live
<1>3. CASE ShowMixer
  <2>1. pressed' = NoneHeld /\ held' = {}
    BY <1>3, Flushed DEF ShowMixer, StopStreamingInput
  <2> QED
    BY <1>3, <2>1, NoneHeldOK DEF ShowMixer, StopStreamingInput, Ungrab, AimTyped, AimOK, Handled
<1>4. CASE ~mixer /\ Live(s) /\ s = screen /\ ~visible /\ hub' = FALSE
           /\ UNCHANGED <<grabbed, rings, inputVars, screen, visible, mixer, focused>>
  BY <1>4 DEF inputVars, AimTyped, AimOK, HoldOK, GrabOK, Handled, Live
<1>5. CASE Switch(s) /\ hub' = FALSE
  BY <1>5, Switched DEF AimTyped
<1>6. CASE ~mixer /\ Live(s) /\ s # screen /\ hub' = FALSE
           /\ UNCHANGED <<grabbed, rings, inputVars, screen, visible, mixer, focused>>
  BY <1>6 DEF inputVars, AimTyped, AimOK, HoldOK, GrabOK, Handled, Live
<1>7. CASE ~mixer /\ state[s] = "idle" /\ ShowConfigurator(s)
  <2>1. CASE s # screen
    <3>1. pressed' = NoneHeld /\ held' = {}
      BY <1>7, <2>1, Flushed DEF ShowConfigurator, StopStreamingInput
    <3> QED
      BY <1>7, <2>1, <3>1, NoneHeldOK
      DEF ShowConfigurator, StopStreamingInput, Ungrab, Session, AimTyped, AimOK, Handled
  <2>2. CASE s = screen
    BY <1>7, <2>2
    DEF ShowConfigurator, inputVars, AimTyped, AimOK, HoldOK, GrabOK, Handled, Live
  <2> QED
    BY <2>1, <2>2
<1> QED
  <2>1. CASE mixer /\ s = screen
    BY <2>1, <1>1 DEF RequestSwitch
  <2>2. CASE mixer /\ s # screen
    BY <2>2, <1>2 DEF RequestSwitch
  <2>3. CASE ~mixer /\ Live(s) /\ s = screen /\ visible
    BY <2>3, <1>3 DEF RequestSwitch, Live
  <2>4. CASE ~mixer /\ Live(s) /\ s = screen /\ ~visible
    BY <2>4, <1>4 DEF RequestSwitch, Live
  <2>5. CASE ~mixer /\ Live(s) /\ s # screen
    BY <2>5, <1>5, <1>6 DEF RequestSwitch, Live
  <2>6. CASE ~mixer /\ state[s] = "idle"
    BY <2>6, <1>7 DEF RequestSwitch, Live
  <2>7. CASE ~mixer /\ ~Live(s) /\ state[s] # "idle"
    BY <2>7, <1>2 DEF RequestSwitch, Live
  <2> QED
    BY <2>1, <2>2, <2>3, <2>4, <2>5, <2>6, <2>7

----------------------------------------------------------------------------
(* What handling keeps of the rings.                                       *)

LEMMA EmptyRings ==
    /\ NoEvents \in [Rings -> Seq(Events)]
    /\ \A ring \in Rings : DOMAIN NoEvents[ring] = {} /\ Len(NoEvents[ring]) = 0
BY DEF NoEvents, Rings

LEMMA HandledKeeps ==
    ASSUME RingsTyped, AimTyped, GrabOK, OrderOK, NoGhostPress, Handled, AimTyped',
           UNCHANGED <<fingers, batch, lost>>
    PROVE  RingsTyped' /\ GrabOK' /\ OrderOK' /\ NoGhostPress'
<1>1. RingsTyped'
  <2>1. CASE rings' = rings
    BY <2>1 DEF RingsTyped
  <2>2. CASE rings' = NoEvents
    BY <2>2, EmptyRings, RingHasRoom DEF RingsTyped
  <2> QED
    BY <2>1, <2>2 DEF Handled
<1>2. GrabOK'
  BY DEF Handled, GrabOK, AimTyped
<1>3. OrderOK'
  <2>1. \A ring \in Rings : Orderly(rings'[ring], Pending')
    <3>1. CASE rings' = rings
      BY <3>1 DEF OrderOK, Pending
    <3>2. CASE rings' = NoEvents
      BY <3>2, EmptyRings DEF Orderly
    <3> QED
      BY <3>1, <3>2 DEF Handled
  <2>2. \A ring \in Rings : \A n \in DOMAIN rings'[ring] : InPlace(rings'[ring][n], ring)
    <3>1. CASE rings' = rings
      BY <3>1 DEF OrderOK
    <3>2. CASE rings' = NoEvents
      BY <3>2, EmptyRings
    <3> QED
      BY <3>1, <3>2 DEF Handled
  <2>3. ASSUME armed', NEW i \in Inputs, NEW n \in DOMAIN batch', batch'[n] = Down(i)
        PROVE  i \in Pending' \/ RaisedAfter(batch', i, n) \/ Raised(rings'[Ring(i)], i)
    <3>1. batch # <<>>
      BY <2>3
    <3> QED
      BY <2>3, <3>1 DEF Handled, OrderOK, Pending
  <2> QED
    BY <2>1, <2>2, <2>3 DEF OrderOK
<1>4. NoGhostPress'
  <2> SUFFICES ASSUME NEW s \in Sessions, NEW i \in pressed'[s] \ (fingers \cup lost)
               PROVE  Raised(rings'[Ring(i)], i) \/ Raised(batch, i)
    BY DEF NoGhostPress
  <2>1. rings' = rings /\ i \in pressed[s]
    BY DEF Handled, NoneHeld
  <2> QED
    BY <2>1 DEF NoGhostPress
<1> QED
  BY <1>1, <1>2, <1>3, <1>4

\* Taking the first event of the batch leaves the others in their order.
LEMMA BatchTail ==
    ASSUME NEW b \in Seq(Events), b # <<>>
    PROVE  /\ Tail(b) \in Seq(Events)
           /\ Head(b) \in Events /\ 1 \in DOMAIN b /\ b[1] = Head(b)
           /\ \A n \in DOMAIN Tail(b) : n + 1 \in DOMAIN b /\ Tail(b)[n] = b[n + 1]
           /\ \A i : \A n \in DOMAIN Tail(b) : RaisedAfter(b, i, n + 1) => RaisedAfter(Tail(b), i, n)
           /\ \A i : RaisedAfter(b, i, 1) => Raised(Tail(b), i)
           /\ \A i : Raised(b, i) => Raised(Tail(b), i) \/ Head(b) = Up(i)
<1> DEFINE t == Tail(b)
<1>1. /\ t \in Seq(Events) /\ Head(b) \in Events /\ b[1] = Head(b)
      /\ Len(b) \in Nat \ {0} /\ Len(t) = Len(b) - 1
      /\ DOMAIN t = 1 .. Len(t) /\ DOMAIN b = 1 .. Len(b)
      /\ \A n \in 1 .. Len(t) : t[n] = b[n + 1]
  OBVIOUS
<1> HIDE DEF t
<1>2. /\ \A n \in DOMAIN t : n + 1 \in DOMAIN b /\ t[n] = b[n + 1] /\ n \in Int
      /\ \A m \in DOMAIN b : m \in Int /\ (m > 1 => m - 1 \in DOMAIN t /\ t[m - 1] = b[m])
      /\ \A m \in DOMAIN b : m > 1 \/ m = 1
      /\ 1 \in DOMAIN b
  <2>1. PICK l \in Nat : Len(b) = l + 1
    BY <1>1
  <2>2. /\ DOMAIN t = 1 .. l /\ DOMAIN b = 1 .. l + 1
    BY <1>1, <2>1
  <2>3. \A m \in DOMAIN b : m > 1 => m - 1 \in 1 .. l /\ (m - 1) + 1 = m
    BY <2>2
  <2>4. \A m \in DOMAIN b : m > 1 => t[m - 1] = b[m]
    BY <1>1, <2>2, <2>3
  <2> QED
    BY <1>1, <2>2, <2>3, <2>4
<1>3. ASSUME NEW i, NEW n \in DOMAIN t, RaisedAfter(b, i, n + 1) PROVE RaisedAfter(t, i, n)
  <2>1. PICK m \in DOMAIN b : m > n + 1 /\ b[m] = Up(i)
    BY <1>3 DEF RaisedAfter
  <2>2. m > 1 /\ m - 1 > n
    <3>1. n > 0
      BY <1>1
    <3> QED
      BY <2>1, <3>1, <1>2
  <2> QED
    BY <2>1, <2>2, <1>2 DEF RaisedAfter
<1>4. ASSUME NEW i, RaisedAfter(b, i, 1) PROVE Raised(t, i)
  BY <1>4, <1>2 DEF RaisedAfter, Raised, Up
<1>5. ASSUME NEW i, Raised(b, i) PROVE Raised(t, i) \/ Head(b) = Up(i)
  BY <1>5, <1>1, <1>2 DEF Raised, Up
<1> QED
  BY <1>1, <1>2, <1>3, <1>4, <1>5 DEF t

----------------------------------------------------------------------------
(* The reader thread.                                                      *)

\* An event the reader pushes keeps the order and covers whatever it drops.
LEMMA PushKeeps ==
    ASSUME RingsTyped, AimTyped, HoldOK, GrabOK, OrderOK, NoGhostPress,
           NEW what \in Inputs \cup Remote, NEW down \in BOOLEAN, Push(what, down),
           down \/ what \in Inputs,
           UNCHANGED <<grabbed, batch, armed, pressed>>,
           grabbed => \A i \in Inputs :
              /\ i \in Pending \cup Dropped(Ring(what)) => i \in Pending' \/ (down = FALSE /\ i = what)
              /\ down = TRUE /\ i = what => i \in Pending'
    PROVE  RingsTyped' /\ GrabOK' /\ OrderOK' /\ NoGhostPress'
<1>1. CASE ~grabbed
  <2>1. rings' = rings /\ rings = NoEvents
    BY <1>1 DEF Push, GrabOK
  <2>2. \A s \in Sessions : pressed[s] = {}
    BY <1>1 DEF HoldOK
  <2>3. batch = <<>> \/ ~armed
    BY <1>1 DEF GrabOK
  <2>4. OrderOK'
    BY <2>1, <2>3, EmptyRings DEF OrderOK, Orderly
  <2> QED
    BY <2>1, <2>2, <2>4 DEF RingsTyped, GrabOK, NoGhostPress
<1>2. CASE grabbed
  <2> DEFINE ring == Ring(what)
             q == rings[ring]
             e == [what |-> what, down |-> down]
             kept == IF Full(ring) THEN Tail(q) ELSE q
             k == IF Full(ring) THEN 1 ELSE 0
  <2>1. ring \in Rings /\ RingSize(ring) \in Nat \ {0}
    BY RingOf, RingHasRoom
  <2>2. q \in Seq(Events) /\ Len(q) <= RingSize(ring) /\ e \in Events
    BY <2>1 DEF RingsTyped, Events
  <2>3. /\ kept \in Seq(Events) /\ k \in {0, 1} /\ Shifted(q, kept, k)
        /\ Len(q) - k + 1 <= RingSize(ring)
        /\ k = 1 => Full(ring) /\ q # <<>> /\ Head(q) = q[1]
    <3>1. CASE Full(ring)
      BY <3>1, <2>1, <2>2 DEF Full, Shifted
    <3>2. CASE ~Full(ring)
      BY <3>2, <2>1, <2>2 DEF Full, Shifted
    <3> QED
      BY <3>1, <3>2
  <2>4. rings' = [rings EXCEPT ![ring] = Append(kept, e)]
    BY <1>2 DEF Push
  <2> HIDE DEF kept, k
  <2>5. \A i : k = 1 /\ q[1] = Up(i) => i \in Dropped(ring)
    BY <2>3 DEF Dropped, Up
  <2> HIDE DEF ring
  <2>6. \A i : e = Up(i) <=> down = FALSE /\ i = what
    BY Zenon DEF Up
  <2>7. \A i : e = Down(i) => down = TRUE /\ i = what
    BY DEF Down
  <2>8. \A i \in Inputs : i \in Pending => i \in Pending' \/ e = Up(i)
    BY <1>2, <2>6
  <2>9. \A i \in Inputs : e = Down(i) => i \in Pending'
    BY <1>2, <2>7
  <2> HIDE DEF e
  <2>10. Orderly(q, Pending)
    BY <2>1 DEF OrderOK
  <2> HIDE DEF q
  <2>11. /\ Append(kept, e) \in Seq(Events)
         /\ Orderly(Append(kept, e), Pending')
         /\ PushedOn(q, Append(kept, e), k, e)
    BY <2>2, <2>3, <2>8, <2>9, <2>10, Pushed, Zenon
  <2>12. PICK r : r = Append(kept, e)
    OBVIOUS
  <2>13. /\ \A rg \in Rings : rings'[rg] = IF rg = ring THEN r ELSE rings[rg]
         /\ rings' \in [Rings -> Seq(Events)]
    BY <2>1, <2>4, <2>11, <2>12 DEF RingsTyped
  <2>14. RingsTyped'
    BY <2>3, <2>11, <2>12, <2>13 DEF RingsTyped, PushedOn
  <2>15. ASSUME NEW i \in Inputs, i \notin Pending', i \in Pending \/ Raised(rings[Ring(i)], i)
         PROVE  Raised(rings'[Ring(i)], i)
    <3>1. CASE e = Up(i)
      <4>1. Ring(i) = ring
        BY <3>1, <2>6 DEF ring, e
      <4> QED
        BY <3>1, <4>1, <2>1, <2>11, <2>12, <2>13 DEF PushedOn
    <3>2. CASE e # Up(i)
      <4>1. Raised(rings[Ring(i)], i)
        BY <3>2, <2>8, <2>15
      <4>2. CASE Ring(i) = ring
        <5>1. i \notin Dropped(ring)
          BY <1>2, <2>6, <2>15, <3>2 DEF ring, e
        <5> QED
          BY <4>1, <4>2, <5>1, <2>1, <2>5, <2>11, <2>12, <2>13 DEF q, PushedOn
      <4>3. CASE Ring(i) # ring
        BY <4>1, <4>3, <2>13, RingOf
      <4> QED
        BY <4>2, <4>3
    <3> QED
      BY <3>1, <3>2
  <2>16. \A rg \in Rings : Orderly(rings'[rg], Pending')
    <3> SUFFICES ASSUME NEW rg \in Rings, rg # ring PROVE Orderly(rings[rg], Pending')
      BY <2>11, <2>12, <2>13
    <3> SUFFICES ASSUME NEW i \in Inputs, NEW n \in DOMAIN rings[rg], rings[rg][n] = Down(i)
                 PROVE  i \in Pending' \/ RaisedAfter(rings[rg], i, n)
      BY DEF Orderly
    <3>1. Ring(i) = rg
      BY DEF OrderOK, InPlace, Down
    <3>2. e # Up(i)
      BY <3>1, <2>6 DEF ring, e
    <3>3. i \in Pending \/ RaisedAfter(rings[rg], i, n)
      BY DEF OrderOK, Orderly
    <3> QED
      BY <3>2, <3>3, <2>8
  <2>17. \A rg \in Rings : \A n \in DOMAIN rings'[rg] : InPlace(rings'[rg][n], rg)
    <3>1. InPlace(e, ring)
      BY DEF e, ring, InPlace
    <3>2. \A n \in DOMAIN r : InPlace(r[n], ring)
      BY <3>1, <2>1, <2>11, <2>12 DEF OrderOK, q, PushedOn
    <3> QED
      BY <3>2, <2>13 DEF OrderOK
  <2>18. OrderOK'
    <3> SUFFICES ASSUME armed, NEW i \in Inputs, NEW n \in DOMAIN batch, batch[n] = Down(i)
                 PROVE  i \in Pending' \/ RaisedAfter(batch, i, n) \/ Raised(rings'[Ring(i)], i)
      BY <2>16, <2>17 DEF OrderOK
    <3>1. i \in Pending \/ RaisedAfter(batch, i, n) \/ Raised(rings[Ring(i)], i)
      BY DEF OrderOK
    <3> QED
      BY <3>1, <2>15
  <2>19. NoGhostPress'
    <3> SUFFICES ASSUME NEW s \in Sessions, NEW i \in pressed[s], i \notin Pending'
                 PROVE  Raised(rings'[Ring(i)], i) \/ Raised(batch, i)
      BY DEF NoGhostPress, Pending
    <3>1. i \in Inputs
      BY DEF AimTyped
    <3>2. i \in Pending \/ Raised(rings[Ring(i)], i) \/ Raised(batch, i)
      BY DEF NoGhostPress, Pending
    <3> QED
      BY <3>1, <3>2, <2>15
  <2> QED
    BY <1>2, <2>14, <2>18, <2>19 DEF GrabOK
<1> QED
  BY <1>1, <1>2

LEMMA Unpacked ==
    HeldInv <=> /\ RingsTyped /\ AimTyped /\ FingersTyped
                /\ AimOK /\ HoldOK /\ GrabOK /\ OrderOK /\ NoGhostPress
BY TypeSplit DEF HeldInv

LEMMA UnpackedNext ==
    /\ RingsTyped' /\ AimTyped' /\ FingersTyped'
    /\ AimOK' /\ HoldOK' /\ GrabOK' /\ OrderOK' /\ NoGhostPress'
    => HeldInv'
BY Unpacked, PTL

\* A step that leaves input and screen alone keeps what only they are about.
LEMMA Unaimed ==
    ASSUME HeldInv, UNCHANGED <<grabbed, inputVars, screenVars, state>>
    PROVE  AimTyped' /\ AimOK' /\ HoldOK' /\ PressesHere
BY Unpacked DEF inputVars, screenVars, AimTyped, AimOK, HoldOK, Live, PressesHere

\* Only a release that is dropped is lost, and that is one of a key or a button.
LEMMA DroppedTyped ==
    ASSUME RingsTyped, OrderOK, NEW ring \in Rings
    PROVE  Dropped(ring) \subseteq Inputs
<1>1. CASE Full(ring)
  <2>1. 1 \in DOMAIN rings[ring] /\ Head(rings[ring]) = rings[ring][1]
    BY <1>1, RingHasRoom DEF RingsTyped, Full
  <2>2. InPlace(rings[ring][1], ring)
    BY <2>1 DEF OrderOK
  <2> QED
    BY <2>1, <2>2 DEF InPlace, Dropped
<1>2. CASE ~Full(ring)
  BY <1>2 DEF Dropped
<1> QED
  BY <1>1, <1>2

LEMMA PressKeeps ==
    ASSUME HeldInv, NEW i \in Inputs, Press(i)
    PROVE  HeldInv' /\ PressesHere
<1>1. AimTyped' /\ AimOK' /\ HoldOK' /\ PressesHere
  BY Unaimed DEF Press
<1>2. Dropped(Ring(i)) \subseteq Inputs
  BY Unpacked, DroppedTyped, RingOf
<1>3. /\ fingers' = fingers \cup {i}
      /\ lost' = (lost \cup (IF grabbed THEN Dropped(Ring(i)) ELSE {})) \ {i}
  BY DEF Press
<1>4. FingersTyped'
  BY <1>2, <1>3, Unpacked DEF FingersTyped
<1>5. grabbed => \A j \in Inputs : j \in Pending \cup Dropped(Ring(i)) => j \in Pending'
  BY <1>3 DEF Pending
<1>6. i \in Pending'
  BY <1>3 DEF Pending
<1>7. Push(i, TRUE) /\ UNCHANGED <<grabbed, batch, armed, pressed>>
  BY DEF Press, inputVars
<1>8. RingsTyped' /\ GrabOK' /\ OrderOK' /\ NoGhostPress'
  BY <1>5, <1>6, <1>7, Unpacked, PushKeeps
<1> QED
  BY <1>1, <1>4, <1>8, UnpackedNext

LEMMA ReleaseKeeps ==
    ASSUME HeldInv, NEW i \in Inputs, Release(i)
    PROVE  HeldInv' /\ PressesHere
<1>1. AimTyped' /\ AimOK' /\ HoldOK' /\ PressesHere
  BY Unaimed DEF Release
<1>2. Dropped(Ring(i)) \subseteq Inputs
  BY Unpacked, DroppedTyped, RingOf
<1>3. /\ fingers' = fingers \ {i}
      /\ lost' = lost \cup (IF grabbed THEN Dropped(Ring(i)) ELSE {})
  BY DEF Release
<1>4. FingersTyped'
  BY <1>2, <1>3, Unpacked DEF FingersTyped
<1>5. grabbed => \A j \in Inputs :
         j \in Pending \cup Dropped(Ring(i)) => j \in Pending' \/ j = i
  BY <1>3 DEF Pending
<1>6. Push(i, FALSE) /\ UNCHANGED <<grabbed, batch, armed, pressed>>
  BY DEF Release, inputVars
<1>7. RingsTyped' /\ GrabOK' /\ OrderOK' /\ NoGhostPress'
  BY <1>5, <1>6, Unpacked, PushKeeps
<1> QED
  BY <1>1, <1>4, <1>7, UnpackedNext

LEMMA PressRemoteKeeps ==
    ASSUME HeldInv, NEW what \in Remote, PressRemote(what)
    PROVE  HeldInv' /\ PressesHere
<1>1. AimTyped' /\ AimOK' /\ HoldOK' /\ PressesHere
  BY Unaimed DEF PressRemote
<1>2. what \notin Inputs /\ Ring(what) = "keyboard"
  BY RemoteIsNoInput
<1>3. Dropped(Ring(what)) \subseteq Inputs
  BY Unpacked, DroppedTyped, RingOf
<1>4. fingers' = fingers /\ lost' = lost \cup Dropped(Ring(what))
  BY <1>2 DEF PressRemote
<1>5. FingersTyped'
  BY <1>3, <1>4, Unpacked DEF FingersTyped
<1>6. \A j \in Inputs : j \in Pending \cup Dropped(Ring(what)) => j \in Pending' /\ j # what
  BY <1>2, <1>4 DEF Pending
<1>7. \A j \in Inputs : j # what
  BY <1>2
<1>8. Push(what, TRUE) /\ UNCHANGED <<grabbed, batch, armed, pressed>>
  BY DEF PressRemote, inputVars
<1>9. RingsTyped' /\ GrabOK' /\ OrderOK' /\ NoGhostPress'
  BY <1>6, <1>7, <1>8, Unpacked, PushKeeps
<1> QED
  BY <1>1, <1>5, <1>9, UnpackedNext

LEMMA UnplugKeeps ==
    ASSUME HeldInv, NEW i \in Inputs, Unplug(i)
    PROVE  HeldInv' /\ PressesHere
<1>1. AimTyped' /\ AimOK' /\ HoldOK' /\ PressesHere
  BY Unaimed DEF Unplug
<1>2. Pending' = Pending /\ FingersTyped'
  BY Unpacked DEF Unplug, Pending, FingersTyped
<1>3. UNCHANGED <<grabbed, rings, batch, armed, pressed>>
  BY DEF Unplug, inputVars
<1>4. RingsTyped' /\ GrabOK'
  BY <1>3, Unpacked DEF RingsTyped, GrabOK
<1>5. OrderOK'
  BY <1>2, <1>3, Unpacked DEF OrderOK
<1>6. NoGhostPress'
  <2>1. \A s \in Sessions : \A j \in pressed[s] \ Pending :
           Raised(rings[Ring(j)], j) \/ Raised(batch, j)
    BY Unpacked DEF NoGhostPress, Pending
  <2> QED
    BY <2>1, <1>2, <1>3 DEF NoGhostPress, Pending
<1> QED
  BY <1>1, <1>2, <1>4, <1>5, <1>6, UnpackedNext

----------------------------------------------------------------------------
(* The batches.                                                            *)

LEMMA PopBatchKeeps ==
    ASSUME HeldInv, NEW ring \in Rings, PopBatch(ring)
    PROVE  HeldInv' /\ PressesHere
<1>1. AimTyped' /\ AimOK' /\ HoldOK' /\ PressesHere
  BY Unaimed DEF PopBatch
<1>2. /\ batch = <<>> /\ grabbed /\ batch' = rings[ring]
      /\ rings' = [rings EXCEPT ![ring] = <<>>]
      /\ UNCHANGED <<fingers, lost, grabbed, armed, pressed>>
  BY DEF PopBatch, Between, inputVars
<1>3. RingsTyped' /\ FingersTyped' /\ Pending' = Pending
  BY <1>2, Unpacked, RingHasRoom DEF RingsTyped, FingersTyped, Pending
<1>4. GrabOK'
  BY <1>2, Unpacked DEF GrabOK
<1>5. \A rg \in Rings : rings'[rg] = IF rg = ring THEN <<>> ELSE rings[rg]
  BY <1>2, Unpacked DEF RingsTyped
<1>6. OrderOK'
  <2>1. \A rg \in Rings : Orderly(rings'[rg], Pending')
    BY <1>3, <1>5, Unpacked DEF OrderOK, Orderly
  <2>2. \A rg \in Rings : \A n \in DOMAIN rings'[rg] : InPlace(rings'[rg][n], rg)
    BY <1>5, Unpacked DEF OrderOK
  <2>3. ASSUME NEW i \in Inputs, NEW n \in DOMAIN batch', batch'[n] = Down(i)
        PROVE  i \in Pending' \/ RaisedAfter(batch', i, n)
    BY <2>3, <1>2, <1>3, Unpacked DEF OrderOK, Orderly
  <2> QED
    BY <2>1, <2>2, <2>3 DEF OrderOK
<1>7. NoGhostPress'
  <2> SUFFICES ASSUME NEW s \in Sessions, NEW i \in pressed[s] \ (fingers \cup lost)
               PROVE  Raised(rings'[Ring(i)], i) \/ Raised(batch', i)
    BY <1>2 DEF NoGhostPress
  <2>1. Raised(rings[Ring(i)], i)
    BY <1>2, Unpacked DEF NoGhostPress, Raised
  <2> QED
    BY <2>1, <1>2, <1>5, RingOf
<1> QED
  BY <1>1, <1>3, <1>4, <1>6, <1>7, UnpackedNext

\* A key or a button of the batch is forwarded (native_drain_evdev_*, native_input_*).
LEMMA ForwardKeeps ==
    ASSUME HeldInv, batch # <<>>, batch' = Tail(batch),
           Head(batch).what \in Inputs, Forward(Head(batch).what, Head(batch).down),
           UNCHANGED <<fingers, lost, state>>
    PROVE  HeldInv' /\ PressesHere
<1> DEFINE i == Head(batch).what
           down == Head(batch).down
           heard == armed /\ wired # NoSession /\ Live(wired)
<1>1. RingsTyped /\ AimTyped /\ AimOK /\ HoldOK /\ GrabOK /\ OrderOK /\ NoGhostPress
  BY Unpacked
<1>2. /\ batch' \in Seq(Events)
      /\ Head(batch) \in Events /\ 1 \in DOMAIN batch /\ batch[1] = Head(batch)
      /\ \A n \in DOMAIN batch' : n + 1 \in DOMAIN batch /\ batch'[n] = batch[n + 1]
      /\ \A j : \A n \in DOMAIN batch' : RaisedAfter(batch, j, n + 1) => RaisedAfter(batch', j, n)
      /\ \A j : RaisedAfter(batch, j, 1) => Raised(batch', j)
      /\ \A j : Raised(batch, j) => Raised(batch', j) \/ Head(batch) = Up(j)
  BY <1>1, BatchTail DEF RingsTyped
<1>3. /\ UNCHANGED <<fingers, lost, state, grabbed, rings, wired, armed, screenVars>>
      /\ down \in BOOLEAN /\ i \in Inputs
      /\ Head(batch) = [what |-> i, down |-> down]
  BY <1>2 DEF Forward, Events
<1>4. RingsTyped' /\ FingersTyped' /\ AimOK' /\ GrabOK' /\ Pending' = Pending
  BY <1>1, <1>2, <1>3, Unpacked
  DEF RingsTyped, FingersTyped, AimOK, GrabOK, screenVars, Pending
<1>5. OrderOK'
  <2> SUFFICES ASSUME armed, NEW j \in Inputs, NEW n \in DOMAIN batch', batch'[n] = Down(j)
               PROVE  j \in Pending \/ RaisedAfter(batch', j, n) \/ Raised(rings[Ring(j)], j)
    BY <1>1, <1>3, <1>4 DEF OrderOK
  <2> QED
    BY <1>1, <1>2 DEF OrderOK
<1>6. CASE heard /\ down
  <2>1. pressed' = [pressed EXCEPT ![wired] = @ \cup {i}] /\ held' = held \cup {i}
    BY <1>6 DEF Forward
  <2>2. wired \in Sessions /\ wired = screen /\ grabbed /\ Live(wired)
    BY <1>1, <1>6 DEF AimTyped, AimOK, GrabOK
  <2>3. AimTyped' /\ HoldOK'
    BY <1>1, <1>3, <2>1, <2>2, <1>6 DEF AimTyped, HoldOK, screenVars, Live
  <2>4. i \in Pending \/ Raised(batch', i) \/ Raised(rings[Ring(i)], i)
    <3>1. batch[1] = Down(i)
      BY <1>2, <1>3, <1>6 DEF Down
    <3> QED
      BY <1>1, <1>2, <1>3, <1>6, <3>1 DEF OrderOK
  <2>5. NoGhostPress'
    <3> SUFFICES ASSUME NEW s \in Sessions, NEW j \in pressed'[s] \ Pending
                 PROVE  Raised(rings[Ring(j)], j) \/ Raised(batch', j)
      BY <1>3 DEF NoGhostPress, Pending
    <3>1. CASE j = i
      BY <3>1, <2>4
    <3>2. CASE j # i
      <4>1. j \in pressed[s]
        BY <3>2, <1>1, <2>1, <2>2 DEF AimTyped
      <4>2. Head(batch) # Up(j)
        BY <3>2, <1>3 DEF Up
      <4> QED
        BY <4>1, <4>2, <1>1, <1>2 DEF NoGhostPress, Pending
    <3> QED
      BY <3>1, <3>2
  <2>6. PressesHere
    BY <1>1, <1>6, <2>1, <2>2 DEF AimTyped, AimOK, PressesHere
  <2> QED
    BY <1>4, <1>5, <2>3, <2>5, <2>6, UnpackedNext
<1>7. CASE heard /\ ~down
  <2>1. pressed' = [pressed EXCEPT ![wired] = @ \ {i}] /\ held' = held \ {i}
    BY <1>7 DEF Forward
  <2>2. wired \in Sessions /\ \A s \in Sessions : pressed'[s] = IF s = wired THEN pressed[s] \ {i}
                                                              ELSE pressed[s]
    BY <1>1, <1>7, <2>1 DEF AimTyped
  <2>3. AimTyped' /\ HoldOK'
    BY <1>1, <1>3, <2>1, <2>2 DEF AimTyped, HoldOK, screenVars, Live
  <2>4. NoGhostPress'
    <3> SUFFICES ASSUME NEW s \in Sessions, NEW j \in pressed'[s] \ Pending
                 PROVE  Raised(rings[Ring(j)], j) \/ Raised(batch', j)
      BY <1>3 DEF NoGhostPress, Pending
    <3>1. j \in pressed[s] /\ j # i
      BY <1>1, <2>2 DEF HoldOK
    <3>2. Head(batch) # Up(j)
      BY <3>1, <1>3 DEF Up
    <3> QED
      BY <3>1, <3>2, <1>1, <1>2 DEF NoGhostPress, Pending
  <2>5. PressesHere
    BY <2>2 DEF PressesHere
  <2> QED
    BY <1>4, <1>5, <2>3, <2>4, <2>5, UnpackedNext
<1>8. CASE ~heard
  <2>1. \A s \in Sessions : pressed[s] = {}
    BY <1>1, <1>8, HeldConstants DEF HoldOK
  <2>2. pressed' = pressed
    BY <1>8 DEF Forward
  <2>3. held' \subseteq Inputs
    BY <1>1, <1>3 DEF Forward, AimTyped
  <2>4. AimTyped' /\ HoldOK' /\ NoGhostPress'
    BY <1>1, <1>3, <2>1, <2>2, <2>3 DEF AimTyped, HoldOK, NoGhostPress, screenVars
  <2>5. PressesHere
    BY <2>2 DEF PressesHere
  <2> QED
    BY <1>4, <1>5, <2>4, <2>5, UnpackedNext
<1> QED
  BY <1>6, <1>7, <1>8

LEMMA HandledPresses ==
    ASSUME Handled
    PROVE  PressesHere
BY DEF Handled, NoneHeld, PressesHere

\* A colour key or Confirm of the batch acts; the others of the batch follow.
LEMMA RemoteKeeps ==
    ASSUME HeldInv, batch # <<>>, batch' = Tail(batch),
           Handled, AimTyped', AimOK', HoldOK',
           Head(batch).what \notin Inputs,
           UNCHANGED <<fingers, lost>>
    PROVE  HeldInv' /\ PressesHere
<1>1. RingsTyped /\ AimTyped /\ HoldOK /\ GrabOK /\ OrderOK /\ NoGhostPress /\ FingersTyped
  BY Unpacked
<1>2. /\ batch' \in Seq(Events)
      /\ \A n \in DOMAIN batch' : n + 1 \in DOMAIN batch /\ batch'[n] = batch[n + 1]
      /\ \A j : \A n \in DOMAIN batch' : RaisedAfter(batch, j, n + 1) => RaisedAfter(batch', j, n)
      /\ \A j : Raised(batch, j) => Raised(batch', j) \/ Head(batch) = Up(j)
  BY <1>1, BatchTail DEF RingsTyped
<1>3. RingsTyped'
  <2>1. CASE rings' = rings
    BY <2>1, <1>1, <1>2 DEF RingsTyped
  <2>2. CASE rings' = NoEvents
    BY <2>2, <1>2, EmptyRings, RingHasRoom DEF RingsTyped
  <2> QED
    BY <2>1, <2>2 DEF Handled
<1>4. FingersTyped' /\ Pending' = Pending
  BY <1>1 DEF FingersTyped, Pending
<1>5. GrabOK'
  BY <1>1 DEF Handled, GrabOK, AimTyped
<1>6. OrderOK'
  <2>1. \A ring \in Rings : Orderly(rings'[ring], Pending)
    BY <1>1, EmptyRings DEF Handled, OrderOK, Orderly
  <2>2. \A ring \in Rings : \A n \in DOMAIN rings'[ring] : InPlace(rings'[ring][n], ring)
    BY <1>1, EmptyRings DEF Handled, OrderOK
  <2>3. ASSUME armed', NEW i \in Inputs, NEW n \in DOMAIN batch', batch'[n] = Down(i)
        PROVE  i \in Pending \/ RaisedAfter(batch', i, n) \/ Raised(rings'[Ring(i)], i)
    <3>1. armed /\ rings' = rings
      BY <2>3 DEF Handled
    <3>2. n + 1 \in DOMAIN batch /\ batch[n + 1] = Down(i)
      BY <2>3, <1>2
    <3> QED
      BY <3>1, <3>2, <1>1, <1>2 DEF OrderOK
  <2> QED
    BY <2>1, <2>2, <2>3, <1>4 DEF OrderOK
<1>7. NoGhostPress'
  <2> SUFFICES ASSUME NEW s \in Sessions, NEW j \in pressed'[s] \ Pending
               PROVE  Raised(rings'[Ring(j)], j) \/ Raised(batch', j)
    BY <1>4 DEF NoGhostPress, Pending
  <2>1. rings' = rings /\ j \in pressed[s]
    BY DEF Handled, NoneHeld
  <2>2. Head(batch) # Up(j)
    BY <2>1, <1>1 DEF AimTyped, Up
  <2> QED
    BY <2>1, <2>2, <1>1, <1>2 DEF NoGhostPress, Pending
<1> QED
  BY <1>3, <1>4, <1>5, <1>6, <1>7, UnpackedNext, HandledPresses

LEMMA NextEventKeeps ==
    ASSUME HeldInv, NextEvent
    PROVE  HeldInv' /\ PressesHere
<1> DEFINE what == Head(batch).what
<1>1. RingsTyped /\ AimTyped /\ AimOK /\ HoldOK /\ GrabOK
  BY Unpacked
<1>2. batch # <<>> /\ batch' = Tail(batch) /\ UNCHANGED <<fingers, lost, state>>
  BY DEF NextEvent, Between
<1>3. CASE what \in Inputs /\ Forward(what, Head(batch).down)
  BY <1>2, <1>3, ForwardKeeps
<1>4. CASE what \in Sessions /\ RequestSwitch(what)
  <2>1. AimTyped' /\ AimOK' /\ HoldOK' /\ Handled
    BY <1>1, <1>2, <1>4, Requested
  <2>2. what \notin Inputs
    BY <1>4, HeldConstants DEF Inputs
  <2> QED
    BY <2>1, <2>2, <1>2, RemoteKeeps
<1>5. CASE what = Confirm /\ ShowHub
  <2>1. pressed' = NoneHeld /\ held' = {}
    BY <1>1, <1>5, Flushed DEF ShowHub, StopStreamingInput
  <2>2. AimTyped' /\ AimOK' /\ HoldOK' /\ Handled
    BY <1>1, <1>2, <1>5, <2>1, NoneHeldOK
    DEF ShowHub, StopStreamingInput, Ungrab, AimTyped, AimOK, Handled
  <2>3. what \notin Inputs
    BY <1>5, HeldConstants DEF Inputs
  <2> QED
    BY <2>2, <2>3, <1>2, RemoteKeeps
<1>6. CASE what = Confirm /\ Nothing
  <2>1. AimTyped' /\ AimOK' /\ HoldOK' /\ Handled
    BY <1>1, <1>2, <1>6
    DEF Nothing, inputVars, screenVars, AimTyped, AimOK, HoldOK, GrabOK, Handled, Live
  <2>2. what \notin Inputs
    BY <1>6, HeldConstants DEF Inputs
  <2> QED
    BY <2>1, <2>2, <1>2, RemoteKeeps
<1> QED
  BY <1>3, <1>4, <1>5, <1>6 DEF NextEvent

----------------------------------------------------------------------------
(* The other handlers of the main thread, and the workers.                 *)

\* A whole handler keeps the invariant if it keeps what is aimed where.
LEMMA WholeKeeps ==
    ASSUME HeldInv, AimTyped', AimOK', HoldOK', Handled, UNCHANGED <<fingers, batch, lost>>
    PROVE  HeldInv' /\ PressesHere
<1>1. RingsTyped' /\ GrabOK' /\ OrderOK' /\ NoGhostPress'
  BY Unpacked, HandledKeeps
<1>2. FingersTyped'
  BY Unpacked DEF FingersTyped
<1> QED
  BY <1>1, <1>2, UnpackedNext, HandledPresses

LEMMA ScreenKeeps ==
    ASSUME HeldInv,
           \/ \E s \in Sessions : PickSession(s) \/ SwitchLater(s)
           \/ AutoHideMixer \/ FocusLost \/ FocusGained \/ Tick
    PROVE  HeldInv' /\ PressesHere
<1>1. RingsTyped /\ AimTyped /\ AimOK /\ HoldOK /\ GrabOK
  BY Unpacked
<1>2. batch = <<>> /\ UNCHANGED <<fingers, batch, lost, state>>
  BY DEF PickSession, SwitchLater, AutoHideMixer, FocusLost, FocusGained, Tick, Between
<1>3. ASSUME NEW s \in Sessions, PickSession(s)
      PROVE  AimTyped' /\ AimOK' /\ HoldOK' /\ Handled
  BY <1>1, <1>2, <1>3, Requested DEF PickSession
<1>4. ASSUME NEW s \in Sessions, SwitchLater(s)
      PROVE  AimTyped' /\ AimOK' /\ HoldOK' /\ Handled
  <2>1. Switch(s) /\ hub' = hub /\ state' = state
    BY <1>4, <1>2 DEF SwitchLater
  <2> QED
    BY <2>1, <1>1, Switched DEF AimTyped, AimOK
<1>5. ASSUME AutoHideMixer PROVE AimTyped' /\ AimOK' /\ HoldOK' /\ Handled
  <2>1. /\ mixer' = FALSE /\ grabbed' \in BOOLEAN /\ rings' = rings
        /\ ~grabbed' => rings' = NoEvents
    BY <1>1, <1>5, MixerHidden DEF AutoHideMixer
  <2>2. mixer /\ UNCHANGED <<inputVars, screen, visible, hub, focused, state>>
    BY <1>5 DEF AutoHideMixer
  <2>3. ~armed /\ \A s \in Sessions : pressed[s] = {}
    BY <2>2, <1>1 DEF AimOK, HoldOK
  <2> QED
    BY <1>1, <1>2, <2>1, <2>2, <2>3 DEF inputVars, AimTyped, AimOK, HoldOK, Handled
<1>6. ASSUME FocusLost PROVE AimTyped' /\ AimOK' /\ HoldOK' /\ Handled
  <2>1. pressed' = NoneHeld /\ held' = {}
    BY <1>1, <1>6, Flushed DEF FocusLost, StopStreamingInput
  <2> QED
    BY <1>1, <1>2, <1>6, <2>1, NoneHeldOK
    DEF FocusLost, StopStreamingInput, Ungrab, AimTyped, AimOK, Handled
<1>7. ASSUME FocusGained PROVE AimTyped' /\ AimOK' /\ HoldOK' /\ Handled
  <2>1. /\ UNCHANGED <<rings, inputVars, screen, visible, mixer, hub, state>>
        /\ focused' = TRUE
        /\ grabbed' = TRUE \/ grabbed' = grabbed
    BY <1>7 DEF FocusGained, Grab
  <2> QED
    BY <1>1, <1>2, <2>1 DEF inputVars, AimTyped, AimOK, HoldOK, GrabOK, Handled, Live
<1>8. ASSUME Tick PROVE AimTyped' /\ AimOK' /\ HoldOK' /\ Handled
  <2>1. /\ armed' = (visible /\ Live(screen) /\ ~mixer)
        /\ UNCHANGED <<wired, held, pressed, screen, mixer, state>>
        /\ UNCHANGED rings
    BY <1>8 DEF Tick, Grab
  <2>2. CASE Live(screen) /\ ~visible
             /\ focused' = TRUE /\ visible' = TRUE /\ hub' = FALSE /\ Grab
    BY <1>1, <1>2, <2>1, <2>2 DEF Grab, AimTyped, AimOK, HoldOK, Handled, Live
  <2>3. CASE UNCHANGED <<focused, visible, hub, grabbed, rings>>
    <3>1. armed' \in BOOLEAN
      BY <2>1
    <3>2. AimTyped'
      BY <1>1, <2>1, <2>3, <3>1 DEF AimTyped
    <3>3. AimOK'
      BY <1>1, <2>1, <2>3 DEF AimOK, Live
    <3>4. HoldOK'
      BY <1>1, <2>1, <2>3 DEF HoldOK, AimOK, Live
    <3> QED
      BY <3>2, <3>3, <3>4, <1>1, <1>2, <2>1, <2>3 DEF Handled, GrabOK
  <2> QED
    BY <1>8, <2>2, <2>3 DEF Tick
<1> QED
  BY <1>2, <1>3, <1>4, <1>5, <1>6, <1>7, <1>8, WholeKeeps

LEMMA ConnectKeeps ==
    ASSUME HeldInv, NEW s \in Sessions, Connect(s)
    PROVE  HeldInv' /\ PressesHere
<1>1. RingsTyped /\ AimTyped /\ AimOK /\ HoldOK /\ GrabOK
  BY Unpacked
<1>2. /\ batch = <<>>
      /\ state' = [state EXCEPT ![s] = "connecting"]
      /\ pressed' = [pressed EXCEPT ![s] = {}]
      /\ UNCHANGED <<fingers, grabbed, rings, batch, lost, held, screen, visible, mixer, hub, focused>>
  BY DEF Connect, Between, evdevVars, screenVars
<1>3. CASE s = screen /\ armed' = FALSE /\ wired' = s
  BY <1>1, <1>2, <1>3, WholeKeeps DEF AimTyped, AimOK, HoldOK, GrabOK, Handled, Live
<1>4. CASE s # screen /\ UNCHANGED <<armed, wired>>
  BY <1>1, <1>2, <1>4, WholeKeeps DEF AimTyped, AimOK, HoldOK, GrabOK, Handled, Live
<1> QED
  BY <1>3, <1>4 DEF Connect

LEMMA DrainFailureKeeps ==
    ASSUME HeldInv, NEW s \in Sessions, DrainFailure(s)
    PROVE  HeldInv' /\ PressesHere
<1>1. RingsTyped /\ AimTyped /\ AimOK /\ HoldOK /\ GrabOK
  BY Unpacked
<1>2. /\ batch = <<>> /\ state[s] = "failed"
      /\ state' = [state EXCEPT ![s] = "idle"]
      /\ state' \in [Sessions -> {"idle", "connecting", "active", "failed"}]
      /\ \A t \in Sessions : t # s => state'[t] = state[t]
      /\ UNCHANGED <<fingers, batch, lost>>
  BY <1>1 DEF DrainFailure, Between, AimTyped
<1>3. \A t \in Sessions : pressed[t] # {} => t # s /\ t = screen
  BY <1>1, <1>2 DEF HoldOK, Live
<1>4. ASSUME NEW t \in Sessions \ {s}, Switch(t), UNCHANGED hub
      PROVE  HeldInv' /\ PressesHere
  BY <1>1, <1>2, <1>4, Switched, WholeKeeps DEF AimTyped, AimOK
<1>5. CASE s = screen /\ Detach(s) /\ UNCHANGED <<grabbed, rings, held, pressed, screenVars>>
  BY <1>1, <1>2, <1>3, <1>5, WholeKeeps
  DEF Detach, screenVars, AimTyped, AimOK, HoldOK, GrabOK, Handled
<1>6. CASE s = screen /\ StopStreamingInput /\ Detach(s)
           /\ visible' = FALSE /\ mixer' = FALSE /\ UNCHANGED <<screen, hub, focused>>
  <2>1. pressed' = NoneHeld /\ held' = {}
    BY <1>1, <1>6, Flushed DEF StopStreamingInput
  <2> QED
    BY <1>1, <1>2, <1>6, <2>1, NoneHeldOK, WholeKeeps
    DEF Detach, StopStreamingInput, Ungrab, AimTyped, AimOK, Handled
<1>7. CASE s # screen /\ UNCHANGED <<grabbed, rings, inputVars, screenVars>>
  BY <1>1, <1>2, <1>3, <1>7, WholeKeeps
  DEF inputVars, screenVars, AimTyped, AimOK, HoldOK, GrabOK, Handled, Live
<1> QED
  BY <1>4, <1>5, <1>6, <1>7 DEF DrainFailure

LEMMA WorkerKeeps ==
    ASSUME HeldInv, NEW s \in Sessions, Activate(s) \/ Fail(s)
    PROVE  HeldInv' /\ PressesHere
<1>1. RingsTyped /\ AimTyped /\ AimOK /\ HoldOK /\ GrabOK
  BY Unpacked
<1>2. CASE Activate(s)
  BY <1>1, <1>2, WholeKeeps
  DEF Activate, evdevVars, inputVars, screenVars, AimTyped, AimOK, HoldOK, GrabOK, Handled, Live
<1>3. CASE Fail(s)
  BY <1>1, <1>3, WholeKeeps
  DEF Fail, evdevVars, screenVars, AimTyped, AimOK, HoldOK, GrabOK, Handled, Live
<1> QED
  BY <1>2, <1>3

----------------------------------------------------------------------------
LEMMA HeldInitially ==
    ASSUME HeldInit
    PROVE  HeldInv
<1>1. RingsTyped /\ GrabOK /\ OrderOK
  BY EmptyRings, RingHasRoom DEF HeldInit, RingsTyped, GrabOK, OrderOK, Orderly
<1>2. AimTyped /\ FingersTyped /\ AimOK
  BY DEF HeldInit, AimTyped, FingersTyped, AimOK
<1>3. HoldOK /\ NoGhostPress
  BY DEF HeldInit, HoldOK, NoGhostPress
<1> QED
  BY <1>1, <1>2, <1>3, Unpacked

LEMMA HeldSteps ==
    ASSUME HeldInv, [HeldNext]_heldVars
    PROVE  HeldInv' /\ PressesHere
<1>1. CASE UNCHANGED heldVars
  <2>1. AimTyped' /\ AimOK' /\ HoldOK'
    BY <1>1, Unaimed DEF heldVars, evdevVars
  <2>2. Handled /\ UNCHANGED <<fingers, batch, lost>>
    BY <1>1, Unpacked DEF heldVars, evdevVars, inputVars, Handled, GrabOK
  <2> QED
    BY <2>1, <2>2, WholeKeeps
<1>2. ASSUME NEW i \in Inputs, Press(i) \/ Release(i) \/ Unplug(i) PROVE HeldInv' /\ PressesHere
  BY <1>2, PressKeeps, ReleaseKeeps, UnplugKeeps
<1>3. ASSUME NEW what \in Remote, PressRemote(what) PROVE HeldInv' /\ PressesHere
  BY <1>3, PressRemoteKeeps
<1>4. ASSUME NEW ring \in Rings, PopBatch(ring) PROVE HeldInv' /\ PressesHere
  BY <1>4, PopBatchKeeps
<1>5. CASE NextEvent
  BY <1>5, NextEventKeeps
<1>6. CASE AutoHideMixer \/ FocusLost \/ FocusGained \/ Tick
  BY <1>6, ScreenKeeps
<1>7. ASSUME NEW s \in Sessions, PickSession(s) \/ SwitchLater(s) PROVE HeldInv' /\ PressesHere
  BY <1>7, ScreenKeeps
<1>8. ASSUME NEW s \in Sessions, Connect(s) \/ DrainFailure(s) \/ Activate(s) \/ Fail(s)
      PROVE  HeldInv' /\ PressesHere
  BY <1>8, ConnectKeeps, DrainFailureKeeps, WorkerKeeps
<1> QED
  BY <1>1, <1>2, <1>3, <1>4, <1>5, <1>6, <1>7, <1>8 DEF HeldNext, Rings

THEOREM HeldInvariant == HeldSpec => []HeldInv
BY HeldInitially, HeldSteps, PTL DEF HeldSpec

\* Every variable keeps to its type, for any number of sessions, keys and buttons and
\* rings of any size; no ring ever holds more than its size.
THEOREM HeldTyped == HeldSpec => []HeldTypeOK
<1>1. HeldInv => HeldTypeOK
  BY DEF HeldInv
<1> QED
  BY <1>1, HeldInvariant, PTL

\* No server is left holding a key or a button that can no longer be let go of
\* (native_flush_held_inputs), through switches, the HUB, the mixer, the configurator,
\* lost focus, reconnects and failures.
THEOREM NoneStranded == HeldSpec => []NothingStranded
<1>1. HeldInv => NothingStranded
  BY Unpacked DEF AimOK, HoldOK, NothingStranded
<1> QED
  BY <1>1, HeldInvariant, PTL

\* A server holds down nothing that came up, unless its release is still on its way or
\* was dropped or never made (the rings of input_evdev.c and their drains in main.c).
THEOREM NoGhosts == HeldSpec => []NoGhostPress
<1>1. HeldInv => NoGhostPress
  BY DEF HeldInv
<1> QED
  BY <1>1, HeldInvariant, PTL

\* A press goes to the session on the screen with nothing of the application's own in
\* front of it ("nothing leaks to the session", main.c).
THEOREM PressesOnScreen == HeldSpec => PressesGoToTheScreen
<1>1. HeldInv /\ [HeldNext]_heldVars => [PressesHere]_heldVars
  BY HeldSteps
<1>2. [PressesHere]_heldVars <=> [\A s \in Sessions : ~(pressed'[s] \subseteq pressed[s]) =>
         s = screen /\ visible /\ ~mixer /\ ~hub /\ Live(s)]_heldVars
  BY DEF PressesHere
<1> QED
  BY <1>1, <1>2, HeldInvariant, PTL DEF HeldSpec, PressesGoToTheScreen
=============================================================================
