----------------------------- MODULE HeldInput -----------------------------
(***************************************************************************)
(* Keys and mouse buttons on their way from the grabbed devices to the     *)
(* servers: the reader thread and its rings (input_evdev.c), the grab and  *)
(* the arming of input (main.c), and what each server is left holding.     *)
(* The main thread's handlers are whole steps, except that a batch popped  *)
(* from a ring is worked through one event at a time while the reader and  *)
(* the workers go on.  Sessions are seen through current_state alone.      *)
(***************************************************************************)
EXTENDS Naturals, Sequences

CONSTANTS
    Sessions,   \* the slots
    NoSession,
    Keys,       \* scancodes
    Buttons,    \* mouse buttons
    Confirm,    \* the remote's central button
    MouseRing, KeyboardRing,    \* events the rings hold
    Remote      \* bound: colour keys (as their slots) and Confirm, as the reader gets them

ASSUME HeldConstants ==
    /\ NoSession \notin Sessions
    /\ Remote \subseteq Sessions \cup {Confirm}
    /\ (Keys \cup Buttons) \cap (Sessions \cup {Confirm}) = {}
    /\ MouseRing \in Nat \ {0} /\ KeyboardRing \in Nat \ {0}

VARIABLES
    fingers,                    \* keys and buttons physically down
    grabbed, rings, batch,      \* evdev: grab, the two rings, the batch popped last
    wired, armed,               \* NativeInput: session, active
    held,                       \* held_mouse and held_keys
    screen, visible, mixer, hub, focused,   \* active_index, what is shown, window focus
    state,                      \* slot -> current_state
    pressed,                    \* slot -> what its server holds down
    lost                        \* what came up without an event, or with one dropped

evdevVars == <<fingers, grabbed, rings, batch, lost>>
inputVars == <<wired, armed, held, pressed>>
screenVars == <<screen, visible, mixer, hub, focused>>
heldVars == <<evdevVars, inputVars, screenVars, state>>

Inputs == Keys \cup Buttons
Ring(what) == IF what \in Buttons THEN "mouse" ELSE "keyboard"
NoEvents == [ring \in {"mouse", "keyboard"} |-> <<>>]
Live(s) == state[s] = "active"

HeldInit ==
    /\ fingers = {} /\ grabbed = FALSE /\ rings = NoEvents /\ batch = <<>> /\ lost = {}
    /\ wired = NoSession /\ armed = FALSE /\ held = {}
    /\ screen \in Sessions /\ visible = FALSE /\ mixer = FALSE /\ hub = FALSE /\ focused = TRUE
    /\ state = [s \in Sessions |-> "idle"]
    /\ pressed = [s \in Sessions |-> {}]

----------------------------------------------------------------------------
(* The reader thread.  A full ring drops its oldest event.                 *)

RingSize(ring) == IF ring = "mouse" THEN MouseRing ELSE KeyboardRing
Full(ring) == Len(rings[ring]) = RingSize(ring)
Dropped(ring) ==
    IF Full(ring) /\ ~Head(rings[ring]).down THEN {Head(rings[ring]).what} ELSE {}

\* Mutant: a full ring grows.
PushGrowing(what, down) ==
    IF grabbed
    THEN rings' = [rings EXCEPT ![Ring(what)] = Append(@, [what |-> what, down |-> down])]
    ELSE UNCHANGED rings

\* Mutant: a full ring drops what comes last.
PushDropping(what, down) ==
    IF grabbed /\ ~Full(Ring(what))
    THEN rings' = [rings EXCEPT ![Ring(what)] = Append(@, [what |-> what, down |-> down])]
    ELSE UNCHANGED rings

Push(what, down) ==
    LET ring == Ring(what)
        kept == IF Full(ring) THEN Tail(rings[ring]) ELSE rings[ring]
    IN IF grabbed
       THEN rings' = [rings EXCEPT ![ring] = Append(kept, [what |-> what, down |-> down])]
       ELSE UNCHANGED rings

Press(i) ==
    /\ i \notin fingers
    /\ fingers' = fingers \cup {i}
    /\ lost' = (lost \cup (IF grabbed THEN Dropped(Ring(i)) ELSE {})) \ {i}
    /\ Push(i, TRUE)
    /\ UNCHANGED <<grabbed, batch, inputVars, screenVars, state>>

Release(i) ==
    /\ i \in fingers
    /\ fingers' = fingers \ {i}
    /\ lost' = lost \cup (IF grabbed THEN Dropped(Ring(i)) ELSE {})
    /\ Push(i, FALSE)
    /\ UNCHANGED <<grabbed, batch, inputVars, screenVars, state>>

\* A colour key, or the central button, which acts when it is let go.
PressRemote(what) ==
    /\ grabbed
    /\ lost' = lost \cup Dropped("keyboard")
    /\ Push(what, TRUE)
    /\ UNCHANGED <<fingers, grabbed, batch, inputVars, screenVars, state>>

\* A device that vanishes takes what it held with it.
Unplug(i) ==
    /\ grabbed /\ i \in fingers
    /\ fingers' = fingers \ {i}
    /\ lost' = lost \cup {i}
    /\ UNCHANGED <<grabbed, rings, batch, inputVars, screenVars, state>>

----------------------------------------------------------------------------
(* What the main thread's handlers are made of.                            *)

\* native_flush_held_inputs: native_input_key and _button go through while armed.
Flush ==
    /\ held' = {}
    /\ pressed' = IF armed /\ wired # NoSession
                  THEN [pressed EXCEPT ![wired] = @ \ held]
                  ELSE pressed

\* native_evdev_input_start and _stop; the latter joins the reader.
Grab == grabbed' = TRUE /\ UNCHANGED rings
Ungrab == grabbed' = FALSE /\ rings' = NoEvents

StopStreamingInput == Flush /\ Ungrab

Session(s) == IF state[s] = "idle" THEN NoSession ELSE s

\* native_mixer_overlay_hide grabs again only on a focused, live stream.
HideMixer ==
    /\ mixer' = FALSE
    /\ IF mixer /\ visible /\ focused /\ Live(screen) THEN Grab ELSE UNCHANGED <<grabbed, rings>>

\* Mutant: leaves input armed.
ShowMixerArmed ==
    /\ StopStreamingInput
    /\ mixer' = TRUE
    /\ UNCHANGED <<armed, wired, screen, visible, hub, focused>>

\* native_mixer_overlay_show
ShowMixer ==
    /\ StopStreamingInput
    /\ armed' = FALSE /\ mixer' = TRUE
    /\ UNCHANGED <<wired, screen, visible, hub, focused>>

\* Mutant: what is held down stays with the session that is left.
SwitchHolding(s) ==
    /\ HideMixer
    /\ armed' = FALSE /\ wired' = s /\ screen' = s
    /\ UNCHANGED <<held, pressed, visible, focused>>

\* native_complete_session_switch, to a session that has a worker and is not shown.
Switch(s) ==
    /\ HideMixer
    /\ Flush
    /\ armed' = FALSE /\ wired' = s /\ screen' = s
    /\ UNCHANGED <<visible, focused>>

\* native_show_slot_configurator
ShowConfigurator(s) ==
    /\ IF s # screen
       THEN StopStreamingInput /\ armed' = FALSE /\ wired' = Session(s)
       ELSE UNCHANGED <<grabbed, rings, armed, wired, held, pressed>>
    /\ screen' = s /\ visible' = FALSE
    /\ UNCHANGED <<mixer, hub, focused>>

\* native_show_hub
ShowHub ==
    /\ StopStreamingInput
    /\ armed' = FALSE /\ visible' = FALSE /\ hub' = TRUE
    /\ UNCHANGED <<wired, screen, mixer, focused>>

Nothing == UNCHANGED <<grabbed, rings, inputVars, screenVars>>

\* native_request_session_switch; a switch that is put off comes as SwitchLater.
RequestSwitch(s) ==
    CASE mixer /\ s = screen -> HideMixer /\ UNCHANGED <<inputVars, screen, visible, hub, focused>>
      [] mixer /\ s # screen -> Nothing
      [] ~mixer /\ Live(s) /\ s = screen /\ visible -> ShowMixer
      [] ~mixer /\ Live(s) /\ s = screen /\ ~visible ->
             hub' = FALSE /\ UNCHANGED <<grabbed, rings, inputVars, screen, visible, mixer, focused>>
      [] ~mixer /\ Live(s) /\ s # screen ->
             \/ Switch(s) /\ hub' = FALSE
             \/ hub' = FALSE /\ UNCHANGED <<grabbed, rings, inputVars, screen, visible, mixer, focused>>
      [] ~mixer /\ state[s] = "idle" -> ShowConfigurator(s)
      [] OTHER -> Nothing

----------------------------------------------------------------------------
(* The main thread.                                                        *)

Between == batch = <<>>

\* native_drain_evdev_mouse and _keyboard pop a batch ...
PopBatch(ring) ==
    /\ Between /\ visible /\ Live(screen)
    /\ grabbed /\ rings[ring] # <<>>
    /\ batch' = rings[ring]
    /\ rings' = [rings EXCEPT ![ring] = <<>>]
    /\ UNCHANGED <<fingers, grabbed, lost, inputVars, screenVars, state>>

\* ... and forward it.  A button is tracked even when it could not be sent; a
\* session without a server takes what is sent and drops it.
Forward(what, down) ==
    /\ pressed' = IF armed /\ wired # NoSession /\ Live(wired)
                  THEN [pressed EXCEPT ![wired] = IF down THEN @ \cup {what} ELSE @ \ {what}]
                  ELSE pressed
    /\ held' = IF (armed /\ wired # NoSession) \/ what \in Buttons
               THEN IF down THEN held \cup {what} ELSE held \ {what}
               ELSE held
    /\ UNCHANGED <<grabbed, rings, wired, armed, screenVars>>

NextEvent ==
    /\ ~Between
    /\ batch' = Tail(batch)
    /\ LET event == Head(batch) IN
       \/ event.what \in Inputs /\ Forward(event.what, event.down)
       \/ event.what \in Sessions /\ RequestSwitch(event.what)
       \/ event.what = Confirm /\ visible /\ ~mixer /\ ShowHub
       \/ event.what = Confirm /\ (~visible \/ mixer) /\ Nothing
    /\ UNCHANGED <<fingers, lost, state>>

\* A remote's press that reached SDL, or a card picked on the HUB.
PickSession(s) ==
    /\ Between /\ (~grabbed \/ hub)
    /\ RequestSwitch(s)
    /\ UNCHANGED <<fingers, batch, lost, state>>

SwitchLater(s) ==
    /\ Between /\ Live(s) /\ s # screen
    /\ Switch(s)
    /\ UNCHANGED <<fingers, batch, lost, hub, state>>

AutoHideMixer ==
    /\ Between /\ mixer
    /\ HideMixer
    /\ UNCHANGED <<fingers, batch, lost, inputVars, screen, visible, hub, focused, state>>

FocusLost ==
    /\ Between /\ focused
    /\ focused' = FALSE
    /\ StopStreamingInput
    /\ UNCHANGED <<fingers, batch, lost, wired, armed, screen, visible, mixer, hub, state>>

\* native_resume_streaming_input
FocusGained ==
    /\ Between /\ ~focused
    /\ focused' = TRUE
    /\ IF visible /\ Live(screen) /\ ~mixer THEN Grab ELSE UNCHANGED <<grabbed, rings>>
    /\ UNCHANGED <<fingers, batch, lost, inputVars, screen, visible, mixer, hub, state>>

\* native_slot_connect: a first connection, or a reconnect that stops the worker.
Connect(s) ==
    /\ Between
    /\ (state[s] = "idle" /\ s = screen /\ ~visible) \/ Live(s)
    /\ state' = [state EXCEPT ![s] = "connecting"]
    /\ pressed' = [pressed EXCEPT ![s] = {}]
    /\ IF s = screen THEN armed' = FALSE /\ wired' = s ELSE UNCHANGED <<armed, wired>>
    /\ UNCHANGED <<evdevVars, held, screenVars>>

\* The part of native_stop_slot that is about input.
Detach(s) ==
    IF s = screen THEN armed' = FALSE /\ wired' = NoSession ELSE UNCHANGED <<armed, wired>>

\* The terminal drain: a survivor takes a visible screen, the form the others.
DrainFailure(s) ==
    /\ Between /\ state[s] = "failed"
    /\ state' = [state EXCEPT ![s] = "idle"]
    /\ \/ /\ s = screen /\ visible
          /\ \E t \in Sessions \ {s} : Live(t) /\ Switch(t)
          /\ UNCHANGED hub
       \/ /\ s = screen /\ ~visible /\ \E t \in Sessions : Live(t)
          /\ Detach(s)
          /\ UNCHANGED <<grabbed, rings, held, pressed, screenVars>>
       \/ /\ s = screen /\ \A t \in Sessions : ~Live(t)
          /\ StopStreamingInput
          /\ Detach(s)
          /\ visible' = FALSE /\ mixer' = FALSE
          /\ UNCHANGED <<screen, hub, focused>>
       \/ /\ s # screen
          /\ UNCHANGED <<grabbed, rings, inputVars, screenVars>>
    /\ UNCHANGED <<fingers, batch, lost>>

\* The end of a turn of the loop: arming is derived, a live session gets the screen,
\* from the HUB only the one that was asked to connect there.
Tick ==
    /\ Between
    /\ armed' = (visible /\ Live(screen) /\ ~mixer)
    /\ \/ /\ Live(screen) /\ ~visible
          /\ focused' = TRUE /\ visible' = TRUE /\ hub' = FALSE /\ Grab
       \/ /\ ~Live(screen) \/ visible \/ hub
          /\ UNCHANGED <<focused, visible, hub, grabbed, rings>>
    /\ UNCHANGED <<fingers, batch, lost, wired, held, pressed, screen, mixer, state>>

----------------------------------------------------------------------------
(* The workers: on_state.                                                  *)

Activate(s) ==
    /\ state[s] = "connecting"
    /\ state' = [state EXCEPT ![s] = "active"]
    /\ UNCHANGED <<evdevVars, inputVars, screenVars>>

Fail(s) ==
    /\ state[s] \in {"connecting", "active"}
    /\ state' = [state EXCEPT ![s] = "failed"]
    /\ pressed' = [pressed EXCEPT ![s] = {}]
    /\ UNCHANGED <<evdevVars, wired, armed, held, screenVars>>

----------------------------------------------------------------------------
HeldNext ==
    \/ \E i \in Inputs : Press(i) \/ Release(i) \/ Unplug(i)
    \/ \E what \in Remote : PressRemote(what)
    \/ \E ring \in {"mouse", "keyboard"} : PopBatch(ring)
    \/ NextEvent \/ AutoHideMixer \/ FocusLost \/ FocusGained \/ Tick
    \/ \E s \in Sessions :
          \/ PickSession(s) \/ SwitchLater(s) \/ Connect(s) \/ DrainFailure(s)
          \/ Activate(s) \/ Fail(s)

HeldSpec == HeldInit /\ [][HeldNext]_heldVars

----------------------------------------------------------------------------
Events == [what : Inputs \cup Remote, down : BOOLEAN]

\* Every variable keeps to its type.
HeldTypeOK ==
    /\ fingers \subseteq Inputs /\ lost \subseteq Inputs
    /\ rings \in [{"mouse", "keyboard"} -> Seq(Events)] /\ batch \in Seq(Events)
    /\ \A ring \in DOMAIN rings : Len(rings[ring]) <= RingSize(ring)
    /\ wired \in Sessions \cup {NoSession} /\ screen \in Sessions
    /\ held \subseteq Inputs /\ pressed \in [Sessions -> SUBSET Inputs]
    /\ {grabbed, armed, visible, mixer, hub, focused} \subseteq BOOLEAN
    /\ state \in [Sessions -> {"idle", "connecting", "active", "failed"}]

\* "Its desktop keeps a stuck drag" is what native_flush_held_inputs is for: a server
\* holds something down only while input is aimed at it, its stream has the screen and
\* the devices are grabbed, through switches, the HUB, the mixer, the configurator,
\* lost focus, reconnects and failures, also in the middle of a batch.
NothingStranded ==
    \A s \in Sessions : pressed[s] # {} =>
        /\ wired = s /\ screen = s /\ grabbed /\ visible /\ ~mixer
        /\ pressed[s] \subseteq held

Raised(events, i) == \E e \in DOMAIN events : events[e] = [what |-> i, down |-> FALSE]

\* What a server holds down is down, or its release is in a ring or in the batch at
\* hand, unless a ring overflowed or a device vanished.  (Of the devices' own keys and
\* buttons: those of the SDL pointer, used while no USB mouse is grabbed, are left out.)
NoGhostPress ==
    \A s \in Sessions : \A i \in pressed[s] \ (fingers \cup lost) :
        Raised(rings[Ring(i)], i) \/ Raised(batch, i)

\* "Nothing leaks to the session" (the mixer comment in the loop): a press goes to the
\* session on the screen, with nothing of the application's own in front of it.
PressesGoToTheScreen ==
    [][\A s \in Sessions : ~(pressed'[s] \subseteq pressed[s]) =>
          s = screen /\ visible /\ ~mixer /\ ~hub /\ Live(s)]_heldVars

\* "Its hide path re-grabs (focus-gated) once it closes" (native_resume_streaming_input):
\* a focused stream without the mixer has the devices.
StreamHasInput == visible /\ focused /\ ~mixer /\ Live(screen) => grabbed
=============================================================================
