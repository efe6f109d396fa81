------------------------------ MODULE RdpWorker ------------------------------
(***************************************************************************)
(* One RDP session of webrdp-min/src/native.rs: the SDL thread that owns   *)
(* the RdpSession handle and enqueues commands, the bounded channel, and   *)
(* the "rdp-worker" thread that connects, activates, dispatches commands   *)
(* to the server, follows a Deactivate-Reactivate, and reconnects silently *)
(* after a disconnect provider ultimatum.                                  *)
(*                                                                         *)
(* Every access the worker makes to state it shares with the SDL thread    *)
(* (the stop flag, the channel) is a step of its own.  What the server     *)
(* does is nondeterministic; what it has been told (display updates,       *)
(* keys down, pointer position) is kept, because that is what the commands *)
(* are for.  A connection attempt number stands for the connection.        *)
(***************************************************************************)
EXTENDS Naturals, Sequences

CONSTANTS
    Depth,        \* capacity of the command channel (INPUT_QUEUE_DEPTH)
    MaxAttempts,  \* MAX_SESSION_ATTEMPTS
    MaxSends,     \* bound: commands the SDL thread issues in one behaviour
    Keys,         \* keys and buttons that can be held down
    Positions,    \* pointer positions
    NoPosition,   \* no position sent yet on this connection
    Sendable      \* the commands the SDL thread issues in this instance

-----------------------------------------------------------------------------
(* WorkerCommand, ControlCommand and InputCommand.  Buttons, scancodes and *)
(* code points that go down and up are one kind of event here.             *)

Suppress   == [op |-> "suppress"]      \* SuppressOutput { allow_display: false }
Resume     == [op |-> "resume"]        \* SuppressOutput { allow_display: true }
Refresh    == [op |-> "refresh"]       \* RequestRefresh
Stop       == [op |-> "stop"]
Move(p)    == [op |-> "move", at |-> p]
Press(k)   == [op |-> "press", key |-> k]
Release(k) == [op |-> "release", key |-> k]

Toggles   == {Suppress, Resume}
Controls  == Toggles \cup {Refresh}
Moves     == {Move(p) : p \in Positions}
KeyEvents == {Press(k) : k \in Keys} \cup {Release(k) : k \in Keys}
Inputs    == Moves \cup KeyEvents
Commands  == Controls \cup Inputs \cup {Stop}

ASSUME DepthAssumption    == Depth \in Nat \ {0}
ASSUME AttemptsAssumption == MaxAttempts \in Nat \ {0}
ASSUME SendsAssumption    == MaxSends \in Nat
ASSUME SendableAssumption == Sendable \subseteq Controls \cup Inputs
ASSUME PositionAssumption == NoPosition \notin Positions

-----------------------------------------------------------------------------
VARIABLES
    \* the SDL thread
    cpc,        \* "running", "stopping", "joining" or "joined" (rdp_session_stop)
    parked,     \* the command of a blocking send, <<>> when none blocks
    sends,      \* commands issued so far
    want,       \* history: last display toggle commanded
    wantFresh,  \* history: a refresh was commanded after the last toggle
    keysHeld,   \* keys the user holds
    keysSent,   \* those of them pressed since this connection was announced
    pointer,    \* last position sent since this connection was announced
    \* shared
    chan,       \* the sync_channel
    stop,       \* RdpSession.stop
    announced,  \* the last state given to the state callback
    \* the worker
    wpc, phase, attempt, failure,
    pendingInput, pendingControl,
    latch,      \* suppress_display_latched
    \* the server end of the current connection
    shown,      \* last display toggle in force: a fresh connection shows
    refreshed,  \* a full frame was produced since display was last resumed
    serverDown, \* keys the server holds down
    serverAt    \* pointer position

issued     == <<sends, want, wantFresh, keysHeld, keysSent, pointer>>
clientVars == <<cpc, parked, issued>>
link       == <<phase, attempt, failure>>
buffers    == <<pendingInput, pendingControl, latch>>
workerVars == <<wpc, link, buffers>>
serverVars == <<shown, refreshed, serverDown, serverAt>>
vars == <<clientVars, chan, stop, announced, workerVars, serverVars>>

Handshake == {"tcp", "x224", "tls", "credssp", "pump"}
Phases    == Handshake \cup {"down", "active", "reactivate"}
Connected == phase \in {"active", "reactivate"}

(* The worker can still apply commands; past this it only unwinds.         *)
Alive == wpc \notin {"exit", "stopped", "drop", "dead"} /\ failure # "fatal"

Init ==
    /\ cpc = "running" /\ parked = <<>> /\ sends = 0
    /\ want = Resume /\ wantFresh = FALSE
    /\ keysHeld = {} /\ keysSent = {} /\ pointer = NoPosition
    /\ chan = <<>> /\ stop = FALSE /\ announced = "idle"
    /\ wpc = "start" /\ phase = "down" /\ attempt = 1 /\ failure = "none"
    /\ pendingInput = <<>> /\ pendingControl = <<>> /\ latch = FALSE
    /\ shown = Resume /\ refreshed = TRUE
    /\ serverDown = {} /\ serverAt = NoPosition

-----------------------------------------------------------------------------
(* The SDL thread.                                                         *)

PressedBy(c)  == {k \in Keys : c = Press(k)}
ReleasedBy(c) == {k \in Keys : c = Release(k)}

(* What the user's side remembers of a command it issues.                  *)
Record(c) ==
    /\ want' = IF c \in Toggles THEN c ELSE want
    /\ wantFresh' = (c = Refresh \/ (wantFresh /\ c \notin Toggles))
    /\ keysHeld' = (keysHeld \cup PressedBy(c)) \ ReleasedBy(c)
    /\ keysSent' = IF announced = "active"
                   THEN (keysSent \cup PressedBy(c)) \ ReleasedBy(c)
                   ELSE keysSent \ ReleasedBy(c)
    /\ pointer' = IF c \in Moves /\ announced = "active" THEN c.at ELSE pointer

(* A key goes down when it is up and up when it is down, and a refresh is  *)
(* asked for when the display is wanted.                                   *)
Plausible(c) ==
    /\ PressedBy(c) \cap keysHeld = {}
    /\ ReleasedBy(c) \subseteq keysHeld
    /\ c = Refresh => want = Resume

(* enqueue_command: try_send; on Full a pointer move is dropped and any    *)
(* other command falls back to a blocking send; with the receiver gone the *)
(* command is dropped.                                                     *)
Enqueue_dropFull(c) ==  \* mutant: any command is dropped on Full
    /\ chan' = IF wpc # "dead" /\ Len(chan) < Depth THEN Append(chan, c) ELSE chan
    /\ UNCHANGED parked

Full == Len(chan) = Depth

Enqueue(c) ==
    \/ /\ wpc # "dead" /\ ~Full
       /\ chan' = Append(chan, c) /\ UNCHANGED parked
    \/ /\ wpc # "dead" /\ Full /\ c \notin Moves
       /\ parked' = <<c>> /\ UNCHANGED chan
    \/ /\ wpc = "dead" \/ (Full /\ c \in Moves)
       /\ UNCHANGED <<chan, parked>>

Send(c) ==
    /\ cpc = "running" /\ parked = <<>> /\ sends < MaxSends
    /\ Plausible(c)
    /\ sends' = sends + 1
    /\ Record(c)
    /\ Enqueue(c)
    /\ UNCHANGED <<cpc, stop, announced, workerVars, serverVars>>

(* The blocking send returns: a slot was freed, or the receiver is gone.   *)
SendUnblocks ==
    /\ parked # <<>>
    /\ parked' = <<>>
    /\ \/ wpc = "dead" /\ UNCHANGED chan
       \/ wpc # "dead" /\ Len(chan) < Depth /\ chan' = chan \o parked
    /\ UNCHANGED <<cpc, issued, stop, announced, workerVars, serverVars>>

(* rdp_session_stop: store the flag, try_send Stop, join the worker.       *)
StopStore ==
    /\ cpc = "running" /\ parked = <<>>
    /\ cpc' = "stopping" /\ stop' = TRUE
    /\ UNCHANGED <<parked, issued, chan, announced, workerVars, serverVars>>

StopSend ==
    /\ cpc = "stopping"
    /\ cpc' = "joining"
    /\ chan' = IF wpc # "dead" /\ Len(chan) < Depth THEN Append(chan, Stop) ELSE chan
    /\ UNCHANGED <<parked, issued, stop, announced, workerVars, serverVars>>

\* Mutant: the worker is not joined.
StopJoin_detached ==
    /\ cpc = "joining"
    /\ cpc' = "joined"
    /\ UNCHANGED <<parked, issued, chan, stop, announced, workerVars, serverVars>>

StopJoin ==
    /\ cpc = "joining" /\ wpc = "dead"
    /\ cpc' = "joined"
    /\ UNCHANGED <<parked, issued, chan, stop, announced, workerVars, serverVars>>

Client == (\E c \in Sendable : Send(c)) \/ SendUnblocks
            \/ StopStore \/ StopSend \/ StopJoin

-----------------------------------------------------------------------------
(* The worker: leaving a connection.                                       *)

(* run_session returns; dropping the TLS stream closes the connection.     *)
Disconnect ==
    /\ phase' = "down"
    /\ shown' = Resume /\ refreshed' = TRUE
    /\ serverDown' = {} /\ serverAt' = NoPosition

Fail(kind) ==
    /\ failure' = kind /\ wpc' = "failed"
    /\ Disconnect
    /\ UNCHANGED <<clientVars, announced, attempt, buffers>>

(* A return on the stop flag: whatever Result it carries, worker_main says *)
(* nothing of it because the flag is set.                                  *)
LeaveStopped ==
    /\ wpc' = "exit"
    /\ Disconnect
    /\ UNCHANGED <<clientVars, announced, attempt, failure, buffers>>

-----------------------------------------------------------------------------
(* The worker: connecting, and waiting inside a handshake or reactivation. *)

StartAttempt ==
    /\ wpc = "start"
    /\ announced' = "connecting" /\ phase' = "tcp" /\ wpc' = "poll"
    /\ UNCHANGED <<clientVars, chan, stop, attempt, failure, buffers, serverVars>>

(* poll_stop, its load of the flag.                                        *)
PollFlag_blind ==  \* mutant: only the Stop command is looked for
    /\ wpc = "poll"
    /\ wpc' = "recv"
    /\ UNCHANGED <<clientVars, chan, stop, announced, link, buffers, serverVars>>

PollFlag ==
    /\ wpc = "poll"
    /\ IF stop
       THEN LeaveStopped
       ELSE /\ wpc' = "recv"
            /\ UNCHANGED <<clientVars, announced, link, buffers, serverVars>>
    /\ UNCHANGED <<chan, stop>>

(* poll_stop's buffers: consecutive moves coalesce into the latest; only   *)
(* the last toggle is kept and goes to the end; a refresh is kept where it *)
(* stands, and another one is dropped.                                     *)
BufferInput(s, c) ==
    IF c \in Moves /\ s # <<>> /\ s[Len(s)] \in Moves
    THEN [s EXCEPT ![Len(s)] = c]
    ELSE Append(s, c)

HasToggle(s)  == \E i \in DOMAIN s : s[i] \in Toggles
HasRefresh(s) == \E i \in DOMAIN s : s[i] = Refresh

\* Mutant: poll_stop pushes every control command.
BufferControl_keepAll(s, c) == Append(s, c)

BufferControl(s, c) ==
    IF c \in Toggles
    THEN IF HasRefresh(s) THEN <<Refresh, c>> ELSE <<c>>
    ELSE IF HasRefresh(s) THEN s ELSE Append(s, c)

(* poll_stop, one try_recv.                                                *)
PollRecv_flagOnly ==  \* mutant: the channel is not drained while waiting
    /\ wpc = "recv"
    /\ wpc' = "io"
    /\ UNCHANGED <<clientVars, chan, stop, announced, link, buffers, serverVars>>

PollRecv ==
    /\ wpc = "recv"
    /\ \/ /\ chan = <<>>
          /\ wpc' = "io"
          /\ UNCHANGED <<clientVars, chan, stop, announced, link, buffers, serverVars>>
       \/ /\ chan # <<>> /\ Head(chan) = Stop
          /\ chan' = Tail(chan) /\ stop' = TRUE
          /\ LeaveStopped
       \/ /\ chan # <<>> /\ Head(chan) \in Inputs
          /\ chan' = Tail(chan)
          /\ pendingInput' = BufferInput(pendingInput, Head(chan))
          /\ UNCHANGED <<clientVars, stop, announced, wpc, link, pendingControl, latch,
                         serverVars>>
       \/ /\ chan # <<>> /\ Head(chan) \in Controls
          /\ chan' = Tail(chan)
          /\ pendingControl' = BufferControl(pendingControl, Head(chan))
          /\ UNCHANGED <<clientVars, stop, announced, wpc, link, pendingInput, latch,
                         serverVars>>

(* One bounded wait on the socket: nothing complete yet, or an error.      *)
IoWaits ==
    /\ wpc = "io"
    /\ wpc' = "poll"
    /\ UNCHANGED <<clientVars, chan, stop, announced, link, buffers, serverVars>>

(* The connector reads an ultimatum too; run tells it by the message alone. *)
IoFails ==
    /\ wpc = "io"
    /\ \/ Fail("fatal")
       \/ phase \in {"pump", "reactivate"} /\ Fail("ultimatum")
    /\ UNCHANGED <<chan, stop>>

(* The stages of run_session, in order, and the states it announces.       *)
NextPhase == [tcp |-> "x224", x224 |-> "tls", tls |-> "credssp", credssp |-> "pump"]

StageDone ==
    /\ wpc = "io" /\ phase \in DOMAIN NextPhase
    /\ phase' = NextPhase[phase]
    /\ announced' = IF phase' \in {"tls", "credssp"} THEN phase' ELSE announced
    /\ wpc' = "poll"
    /\ UNCHANGED <<clientVars, chan, stop, attempt, failure, buffers, serverVars>>

(* run_active up to the Active callback; from here the SDL thread may send *)
(* input for this connection.                                              *)
AnnounceActive ==
    /\ wpc = "io" /\ phase = "pump"
    /\ phase' = "active" /\ announced' = "active" /\ wpc' = "begin"
    /\ keysSent' = {} /\ pointer' = NoPosition
    /\ UNCHANGED <<cpc, parked, sends, want, wantFresh, keysHeld, chan, stop, attempt, failure,
                   buffers, serverVars>>

(* run_active: discard input buffered before activation, and re-assert a   *)
(* latched suppression unless a toggle is already pending.                 *)
BeginActive_forget ==  \* mutant: the latch is not re-asserted
    /\ wpc = "begin"
    /\ pendingInput' = <<>>
    /\ wpc' = "top"
    /\ UNCHANGED <<clientVars, chan, stop, announced, link, pendingControl, latch, serverVars>>

BeginActive ==
    /\ wpc = "begin"
    /\ pendingInput' = <<>>
    /\ pendingControl' =
         IF latch /\ ~HasToggle(pendingControl)
         THEN Append(pendingControl, Suppress)
         ELSE pendingControl
    /\ wpc' = "top"
    /\ UNCHANGED <<clientVars, chan, stop, announced, link, latch, serverVars>>

-----------------------------------------------------------------------------
(* The worker: the active loop.                                            *)

CheckStop ==
    /\ wpc = "top"
    /\ IF stop
       THEN LeaveStopped
       ELSE /\ wpc' = "drain"
            /\ UNCHANGED <<clientVars, announced, link, buffers, serverVars>>
    /\ UNCHANGED <<chan, stop>>

(* dispatch_control and dispatch_input: the server has the command.        *)
Dispatch(c) ==
    /\ latch' = IF c \in Toggles THEN c = Suppress ELSE latch
    /\ shown' = IF c \in Toggles THEN c ELSE shown
    /\ refreshed' = IF shown = Resume THEN refreshed \/ c = Refresh
                    ELSE refreshed /\ c # Resume
    /\ serverDown' = (serverDown \cup PressedBy(c)) \ ReleasedBy(c)
    /\ serverAt' = IF c \in Moves THEN c.at ELSE serverAt

(* drain_input.  The taken buffers are popped from the front: nothing is   *)
(* appended to them meanwhile, and an error ends the session.              *)
DrainControl ==
    /\ wpc = "drain" /\ pendingControl # <<>>
    /\ Dispatch(Head(pendingControl))
    /\ pendingControl' = Tail(pendingControl)
    /\ UNCHANGED <<clientVars, chan, stop, announced, wpc, link, pendingInput>>

DrainInput ==
    /\ wpc = "drain" /\ pendingControl = <<>> /\ pendingInput # <<>>
    /\ Dispatch(Head(pendingInput))
    /\ pendingInput' = Tail(pendingInput)
    /\ UNCHANGED <<clientVars, chan, stop, announced, wpc, link, pendingControl>>

DrainRecv ==
    /\ wpc = "drain" /\ pendingControl = <<>> /\ pendingInput = <<>> /\ chan # <<>>
    /\ chan' = Tail(chan)
    /\ \/ /\ Head(chan) = Stop
          /\ stop' = TRUE
          /\ LeaveStopped
       \/ /\ Head(chan) # Stop
          /\ Dispatch(Head(chan))
          /\ UNCHANGED <<clientVars, stop, announced, wpc, link, pendingInput, pendingControl>>

(* A write fails: the command that was being dispatched is lost with the   *)
(* connection, and such an error is never retried.                         *)
DrainFails ==
    /\ wpc = "drain" /\ pendingControl \o pendingInput \o chan # <<>>
    /\ Fail("fatal")
    /\ UNCHANGED <<chan, stop>>

(* The channel is empty; then the second test of the flag.                 *)
DrainDone ==
    /\ wpc = "drain" /\ pendingControl = <<>> /\ pendingInput = <<>> /\ chan = <<>>
    /\ IF stop
       THEN LeaveStopped
       ELSE /\ wpc' = "pdu"
            /\ UNCHANGED <<clientVars, announced, link, buffers, serverVars>>
    /\ UNCHANGED <<chan, stop>>

(* What arrives on the socket: nothing that concerns commands, an error,   *)
(* an ultimatum, or a Deactivate All.                                      *)
ServerQuiet ==
    /\ wpc = "pdu"
    /\ wpc' = "top"
    /\ UNCHANGED <<clientVars, chan, stop, announced, link, buffers, serverVars>>

ServerFails == wpc = "pdu" /\ Fail("fatal") /\ UNCHANGED <<chan, stop>>

ServerTerminates == wpc = "pdu" /\ Fail("ultimatum") /\ UNCHANGED <<chan, stop>>

ServerDeactivates ==
    /\ wpc = "pdu"
    /\ phase' = "reactivate" /\ wpc' = "poll"
    /\ UNCHANGED <<clientVars, chan, stop, announced, attempt, failure, buffers, serverVars>>

(* drive_reactivation is finalized; the loop goes on with the next PDU.    *)
Reactivated_discard ==  \* mutant: buffered input is discarded as on a connect
    /\ wpc = "io" /\ phase = "reactivate"
    /\ phase' = "active" /\ wpc' = "pdu" /\ pendingInput' = <<>>
    /\ UNCHANGED <<clientVars, chan, stop, announced, attempt, failure,
                   pendingControl, latch, serverVars>>

Reactivated ==
    /\ wpc = "io" /\ phase = "reactivate"
    /\ phase' = "active" /\ wpc' = "pdu"
    /\ UNCHANGED <<clientVars, chan, stop, announced, attempt, failure, buffers, serverVars>>

-----------------------------------------------------------------------------
(* The worker: run and worker_main.                                        *)

(* reset_session_state: the pending toggles are folded into the latch in   *)
(* order, so the last one stands; pending input and refreshes are dropped. *)
FoldLatch_drop(s) == latch  \* mutant: pending toggles are dropped

FoldLatch(s) ==
    IF HasToggle(s)
    THEN \E i \in DOMAIN s : s[i] = Suppress /\ \A j \in DOMAIN s : j > i => s[j] \notin Toggles
    ELSE latch

Retry ==
    /\ wpc = "failed" /\ failure = "ultimatum" /\ attempt < MaxAttempts /\ ~stop
    /\ latch' = FoldLatch(pendingControl)
    /\ pendingInput' = <<>> /\ pendingControl' = <<>>
    /\ attempt' = attempt + 1 /\ failure' = "none" /\ wpc' = "sleep"
    /\ UNCHANGED <<clientVars, chan, stop, announced, phase, serverVars>>

GiveUp ==
    /\ wpc = "failed"
    /\ failure # "ultimatum" \/ attempt = MaxAttempts \/ stop
    /\ wpc' = "exit"
    /\ UNCHANGED <<clientVars, chan, stop, announced, link, buffers, serverVars>>

Wake ==
    /\ wpc = "sleep"
    /\ wpc' = "start"
    /\ UNCHANGED <<clientVars, chan, stop, announced, link, buffers, serverVars>>

(* worker_main: the error is announced unless the client asked to stop.    *)
ReportError ==
    /\ wpc = "exit"
    /\ announced' = IF failure # "none" /\ ~stop THEN "error" ELSE announced
    /\ wpc' = "stopped"
    /\ UNCHANGED <<clientVars, chan, stop, link, buffers, serverVars>>

ReportStopped ==
    /\ wpc = "stopped"
    /\ announced' = "stopped" /\ wpc' = "drop"
    /\ UNCHANGED <<clientVars, chan, stop, link, buffers, serverVars>>

(* The worker value is dropped, and the receiver with it.                  *)
DropReceiver ==
    /\ wpc = "drop"
    /\ wpc' = "dead" /\ chan' = <<>>
    /\ UNCHANGED <<clientVars, stop, announced, link, buffers, serverVars>>

Connecting == StartAttempt \/ PollFlag \/ PollRecv \/ IoWaits \/ IoFails
                \/ StageDone \/ AnnounceActive \/ BeginActive \/ Reactivated
Serving    == CheckStop \/ DrainControl \/ DrainInput \/ DrainRecv \/ DrainFails
                \/ DrainDone \/ ServerQuiet \/ ServerFails \/ ServerTerminates
                \/ ServerDeactivates
Unwinding  == Retry \/ GiveUp \/ Wake \/ ReportError \/ ReportStopped \/ DropReceiver

Worker == Connecting \/ Serving \/ Unwinding

Next == Client \/ Worker

Spec == Init /\ [][Next]_vars

(* The worker thread keeps running: its waits are bounded by IO_POLL,      *)
(* CONNECT_TIMEOUT and WRITE_TIMEOUT.  The SDL thread finishes the calls   *)
(* it has begun; it owes no command and no stop.                           *)
FairSpec ==
    Spec /\ WF_vars(Worker) /\ WF_vars(SendUnblocks) /\ WF_vars(StopSend) /\ WF_vars(StopJoin)

(* A server that answers: no handshake or reactivation is left hanging,    *)
(* and reactivations do not follow one another without end.                *)
ServerAnswers ==
    /\ SF_vars(StageDone \/ AnnounceActive \/ Reactivated \/ IoFails)
    /\ SF_vars(ServerQuiet \/ ServerFails \/ ServerTerminates)

AnsweredSpec == FairSpec /\ ServerAnswers
-----------------------------------------------------------------------------
(* Properties.                                                             *)

Failures == {"none", "fatal", "ultimatum"}
Announcements == Handshake \cup {"idle", "connecting", "active", "error", "stopped"}

(* At most one toggle and at most one refresh.                             *)
Minimal(s) ==
    \A i, j \in DOMAIN s : (s[i] \in Toggles <=> s[j] \in Toggles) => i = j

(* Every variable keeps its type; the control buffer stays minimal         *)
(* whatever the client sends while the worker is busy (poll_stop), and the *)
(* channel never exceeds its capacity.                                     *)
TypeOK ==
    /\ cpc \in {"running", "stopping", "joining", "joined"}
    /\ parked \in Seq(Commands) /\ Len(parked) <= 1
    /\ sends \in 0..MaxSends
    /\ want \in Toggles /\ wantFresh \in BOOLEAN
    /\ keysHeld \subseteq Keys /\ keysSent \subseteq keysHeld
    /\ pointer \in Positions \cup {NoPosition}
    /\ chan \in Seq(Commands) /\ Len(chan) <= Depth
    /\ stop \in BOOLEAN /\ announced \in Announcements
    /\ wpc \in {"start", "poll", "recv", "io", "begin", "top", "drain", "pdu",
                "failed", "sleep", "exit", "stopped", "drop", "dead"}
    /\ phase \in Phases /\ attempt \in 1..MaxAttempts /\ failure \in Failures
    /\ pendingInput \in Seq(Inputs)
    /\ pendingControl \in Seq(Controls) /\ Minimal(pendingControl)
    /\ latch \in BOOLEAN
    /\ shown \in Toggles /\ refreshed \in BOOLEAN
    /\ serverDown \subseteq Keys /\ serverAt \in Positions \cup {NoPosition}

(* The last command of s that lies in S is c.                              *)
LastIn(s, S, c) ==
    \E i \in DOMAIN s : s[i] = c /\ \A j \in DOMAIN s : j > i => s[j] \notin S

NoneIn(s, S) == \A i \in DOMAIN s : s[i] \notin S

(* Commands on their way to the server, oldest first.                      *)
ControlsOnTheWay == pendingControl \o chan \o parked
InputsOnTheWay   == pendingInput \o chan \o parked

(* The display state the next commands build on: what the server has been  *)
(* told, or, before a connection is in use, what the latch will re-assert. *)
InForce ==
    IF Connected /\ wpc # "begin" THEN shown
    ELSE IF latch THEN Suppress ELSE Resume

(* However commands interleave with reconnects and reactivations, the      *)
(* toggle that will be in force once everything under way has been applied *)
(* is the last one the client commanded: none is overridden by the latch,  *)
(* none is lost by a retry (native.rs, suppress_display_latched).          *)
CommandedDisplayWins ==
    Alive => \/ LastIn(ControlsOnTheWay, Toggles, want)
             \/ NoneIn(ControlsOnTheWay, Toggles) /\ InForce = want

KeyEventsOf(k) == {Press(k), Release(k)}

(* A key the user has released is up on the server, or its release is      *)
(* still on its way: no back-pressure, buffering, reactivation or retry    *)
(* drops a release (enqueue_command and poll_stop say why it would stick). *)
NoStuckKey ==
    Alive => \A k \in Keys \ keysHeld :
                \/ LastIn(InputsOnTheWay, KeyEventsOf(k), Release(k))
                \/ NoneIn(InputsOnTheWay, KeyEventsOf(k)) /\ k \notin serverDown

(* A key pressed after this connection was announced active, and still     *)
(* held, is down on the server or its press is on its way: run_active's    *)
(* discarding of early input never takes a press of the new connection.    *)
NoLostPress ==
    Alive /\ Connected => \A k \in keysSent :
                \/ LastIn(InputsOnTheWay, KeyEventsOf(k), Press(k))
                \/ NoneIn(InputsOnTheWay, KeyEventsOf(k)) /\ k \in serverDown

(* A session implements the register that catches up: DisplayIntent.       *)
Intent == INSTANCE DisplayIntent
    WITH On    <- Resume, Off <- Suppress,
         want  <- IF Alive THEN want ELSE Resume,
         shown <- IF Alive THEN InForce ELSE Resume,
         owed  <- Alive /\ ~NoneIn(ControlsOnTheWay, Toggles),
         over  <- ~Alive

ImplementsDisplayIntent == Intent!Spec

(* A refresh commanded after the display was resumed has its full frame    *)
(* once nothing is under way ("one queued refresh is as good as many").    *)
RefreshFollowsResume ==
    Alive /\ wpc = "pdu" /\ ControlsOnTheWay = <<>> /\ want = Resume /\ wantFresh
        => refreshed

(* The pointer is where the client last put it once nothing is under way   *)
(* ("only the latest position matters").                                   *)
LatestPositionKept ==
    Alive /\ wpc = "pdu" /\ InputsOnTheWay = <<>> /\ pointer # NoPosition
        => serverAt = pointer

(* After rdp_session_stop has returned no callback is made and nothing     *)
(* reaches the server.                                                     *)
QuietAfterStop ==
    [][cpc = "joined" => UNCHANGED <<announced, serverVars>>]_vars

(* rdp_session_stop returns, whatever the worker is waiting for and even   *)
(* when the Stop command found the channel full.                           *)
StopReturns == cpc \in {"stopping", "joining"} ~> cpc = "joined"

(* A blocking send returns ("it is bounded").                              *)
SendReturns == parked # <<>> ~> parked = <<>>
=============================================================================
