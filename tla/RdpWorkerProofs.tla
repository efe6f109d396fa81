--------------------------- MODULE RdpWorkerProofs ---------------------------
(***************************************************************************)
(* Theorems about RdpWorker for every channel depth, number of attempts,   *)
(* number of commands, and set of keys and positions.                      *)
(***************************************************************************)
EXTENDS RdpWorker, SequenceTheorems, TLAPS

(* How appending, joining and taking the head move the last command of a   *)
(* sequence that lies in S.                                                *)
LEMMA LastInAppend ==
    ASSUME NEW T, NEW s \in Seq(T), NEW c \in T, NEW S, NEW d \in S
    PROVE  /\ LastIn(Append(s, c), S, d) <=> c = d \/ (c \notin S /\ LastIn(s, S, d))
           /\ NoneIn(Append(s, c), S) <=> c \notin S /\ NoneIn(s, S)
<1> DEFINE t == Append(s, c)
<1>1. /\ t \in Seq(T) /\ Len(t) = Len(s) + 1 /\ t[Len(s) + 1] = c
      /\ DOMAIN t = 1..(Len(s) + 1) /\ DOMAIN s = 1..Len(s) /\ Len(s) \in Nat
      /\ \A i \in 1..Len(s) : t[i] = s[i]
  OBVIOUS
<1> HIDE DEF t
<1>2. NoneIn(t, S) <=> c \notin S /\ NoneIn(s, S)
  BY <1>1 DEF NoneIn
<1>3. ASSUME LastIn(t, S, d) PROVE c = d \/ (c \notin S /\ LastIn(s, S, d))
  BY <1>1, <1>3 DEF LastIn
<1>4. ASSUME c = d PROVE LastIn(t, S, d)
  BY <1>1, <1>4 DEF LastIn
<1>5. ASSUME c \notin S, LastIn(s, S, d) PROVE LastIn(t, S, d)
  BY <1>1, <1>5 DEF LastIn
<1> QED BY <1>2, <1>3, <1>4, <1>5 DEF t

LEMMA LastInConcat ==
    ASSUME NEW T, NEW s \in Seq(T), NEW t \in Seq(T), NEW S, NEW d \in S
    PROVE  /\ LastIn(s \o t, S, d) <=> LastIn(t, S, d) \/ (NoneIn(t, S) /\ LastIn(s, S, d))
           /\ NoneIn(s \o t, S) <=> NoneIn(s, S) /\ NoneIn(t, S)
<1> DEFINE u == s \o t
<1>1. /\ u \in Seq(T) /\ DOMAIN u = 1..(Len(s) + Len(t))
      /\ DOMAIN s = 1..Len(s) /\ Len(s) \in Nat /\ DOMAIN t = 1..Len(t) /\ Len(t) \in Nat
      /\ \A i \in 1..Len(s) : u[i] = s[i]
      /\ \A i \in 1..Len(t) : u[Len(s) + i] = t[i]
  OBVIOUS
<1>2. \A i \in DOMAIN u : i \in DOMAIN s \/ (i > Len(s) /\ i - Len(s) \in DOMAIN t /\ u[i] = t[i - Len(s)])
  BY <1>1
<1> HIDE DEF u
<1>3. NoneIn(u, S) <=> NoneIn(s, S) /\ NoneIn(t, S)
  <2>1. ASSUME NoneIn(u, S) PROVE NoneIn(s, S)
    BY <1>1, <2>1 DEF NoneIn
  <2>2. ASSUME NoneIn(u, S) PROVE NoneIn(t, S)
    <3>1. \A i \in DOMAIN t : Len(s) + i \in DOMAIN u /\ u[Len(s) + i] = t[i]
      BY <1>1
    <3> QED BY <3>1, <2>2 DEF NoneIn
  <2>3. ASSUME NoneIn(s, S), NoneIn(t, S) PROVE NoneIn(u, S)
    BY <1>1, <1>2, <2>3 DEF NoneIn
  <2> QED BY <2>1, <2>2, <2>3
<1>4. ASSUME LastIn(u, S, d) PROVE LastIn(t, S, d) \/ (NoneIn(t, S) /\ LastIn(s, S, d))
  <2>1. PICK i \in DOMAIN u : u[i] = d /\ \A j \in DOMAIN u : j > i => u[j] \notin S
    BY <1>4 DEF LastIn
  <2>2. CASE i \in DOMAIN s
    <3>1. s[i] = d /\ \A j \in DOMAIN s : j > i => s[j] \notin S
      BY <1>1, <2>1, <2>2
    <3>2. \A j \in DOMAIN t : Len(s) + j \in DOMAIN u /\ Len(s) + j > i /\ u[Len(s) + j] = t[j]
      BY <1>1, <2>2
    <3>3. NoneIn(t, S)
      BY <2>1, <3>2 DEF NoneIn
    <3>4. LastIn(s, S, d)
      BY <2>2, <3>1 DEF LastIn
    <3> QED BY <3>3, <3>4
  <2>3. CASE i > Len(s) /\ i - Len(s) \in DOMAIN t /\ u[i] = t[i - Len(s)]
    <3>1. \A j \in DOMAIN t : j > i - Len(s) =>
              Len(s) + j \in DOMAIN u /\ Len(s) + j > i /\ u[Len(s) + j] = t[j]
      BY <1>1, <2>3
    <3>2. \A j \in DOMAIN t : j > i - Len(s) => t[j] \notin S
      BY <2>1, <3>1
    <3> QED BY <3>2, <2>1, <2>3 DEF LastIn
  <2> QED BY <1>2, <2>1, <2>2, <2>3
<1>5. ASSUME LastIn(t, S, d) PROVE LastIn(u, S, d)
  <2>1. PICK i \in DOMAIN t : t[i] = d /\ \A j \in DOMAIN t : j > i => t[j] \notin S
    BY <1>5 DEF LastIn
  <2>2. Len(s) + i \in DOMAIN u /\ u[Len(s) + i] = d
    BY <1>1, <2>1
  <2>3. \A j \in DOMAIN u : j > Len(s) + i => u[j] \notin S
    BY <1>1, <1>2, <2>1
  <2> QED BY <2>2, <2>3 DEF LastIn
<1>6. ASSUME NoneIn(t, S), LastIn(s, S, d) PROVE LastIn(u, S, d)
  <2>1. PICK i \in DOMAIN s : s[i] = d /\ \A j \in DOMAIN s : j > i => s[j] \notin S
    BY <1>6 DEF LastIn
  <2>2. i \in DOMAIN u /\ u[i] = d
    BY <1>1, <2>1
  <2>3. \A j \in DOMAIN u : j > i => u[j] \notin S
    BY <1>1, <1>2, <1>6, <2>1 DEF NoneIn
  <2> QED BY <2>2, <2>3 DEF LastIn
<1> QED BY <1>3, <1>4, <1>5, <1>6 DEF u

LEMMA LastInConcat3 ==
    ASSUME NEW T, NEW r \in Seq(T), NEW s \in Seq(T), NEW t \in Seq(T), NEW S, NEW d \in S
    PROVE  /\ LastIn(r \o s \o t, S, d) <=>
                \/ LastIn(t, S, d)
                \/ NoneIn(t, S) /\ LastIn(s, S, d)
                \/ NoneIn(t, S) /\ NoneIn(s, S) /\ LastIn(r, S, d)
           /\ NoneIn(r \o s \o t, S) <=> NoneIn(t, S) /\ NoneIn(s, S) /\ NoneIn(r, S)
<1> DEFINE u == r \o s
<1>1. u \in Seq(T)
  OBVIOUS
<1>2. /\ LastIn(u, S, d) <=> LastIn(s, S, d) \/ (NoneIn(s, S) /\ LastIn(r, S, d))
      /\ NoneIn(u, S) <=> NoneIn(r, S) /\ NoneIn(s, S)
  BY LastInConcat
<1> HIDE DEF u
<1>3. /\ LastIn(u \o t, S, d) <=> LastIn(t, S, d) \/ (NoneIn(t, S) /\ LastIn(u, S, d))
      /\ NoneIn(u \o t, S) <=> NoneIn(u, S) /\ NoneIn(t, S)
  BY <1>1, LastInConcat
<1> QED BY <1>2, <1>3 DEF u

LEMMA LastInTail ==
    ASSUME NEW T, NEW s \in Seq(T), s # <<>>, NEW S, NEW d \in S
    PROVE  /\ LastIn(s, S, d)
                <=> LastIn(Tail(s), S, d) \/ (NoneIn(Tail(s), S) /\ Head(s) = d)
           /\ NoneIn(s, S) <=> Head(s) \notin S /\ NoneIn(Tail(s), S)
<1> DEFINE t == Tail(s)
<1>1. /\ t \in Seq(T) /\ Len(t) \in Nat /\ Len(s) = Len(t) + 1
      /\ DOMAIN s = 1..(Len(t) + 1) /\ DOMAIN t = 1..Len(t)
      /\ s[1] = Head(s) /\ \A i \in 1..Len(t) : t[i] = s[i + 1]
  OBVIOUS
<1>2. \A i \in DOMAIN s : i = 1 \/ (i - 1 \in DOMAIN t /\ s[i] = t[i - 1])
  BY <1>1
<1> HIDE DEF t
<1>3. NoneIn(s, S) <=> Head(s) \notin S /\ NoneIn(t, S)
  <2>1. \A i \in DOMAIN t : i + 1 \in DOMAIN s /\ s[i + 1] = t[i]
    BY <1>1
  <2>2. 1 \in DOMAIN s
    BY <1>1
  <2> QED BY <1>1, <1>2, <2>1, <2>2 DEF NoneIn
<1>4. ASSUME LastIn(s, S, d) PROVE LastIn(t, S, d) \/ (NoneIn(t, S) /\ Head(s) = d)
  <2>1. PICK i \in DOMAIN s : s[i] = d /\ \A j \in DOMAIN s : j > i => s[j] \notin S
    BY <1>4 DEF LastIn
  <2>2. CASE i = 1
    <3>1. \A j \in DOMAIN t : j + 1 \in DOMAIN s /\ j + 1 > i /\ s[j + 1] = t[j]
      BY <1>1, <2>2
    <3> QED BY <1>1, <2>1, <2>2, <3>1 DEF NoneIn
  <2>3. CASE i - 1 \in DOMAIN t /\ s[i] = t[i - 1]
    <3>1. \A j \in DOMAIN t : j > i - 1 => t[j] \notin S
      BY <1>1, <2>1, <2>3
    <3> QED BY <3>1, <2>1, <2>3 DEF LastIn
  <2> QED BY <1>2, <2>1, <2>2, <2>3
<1>5. ASSUME LastIn(t, S, d) PROVE LastIn(s, S, d)
  <2>1. PICK i \in DOMAIN t : t[i] = d /\ \A j \in DOMAIN t : j > i => t[j] \notin S
    BY <1>5 DEF LastIn
  <2>2. i + 1 \in DOMAIN s /\ s[i + 1] = d
    BY <1>1, <2>1
  <2>3. \A j \in DOMAIN s : j > i + 1 => s[j] \notin S
    BY <1>1, <1>2, <2>1
  <2> QED BY <2>2, <2>3 DEF LastIn
<1>6. ASSUME NoneIn(t, S), Head(s) = d PROVE LastIn(s, S, d)
  <2>1. \A j \in DOMAIN s : j > 1 => s[j] \notin S
    BY <1>1, <1>2, <1>6 DEF NoneIn
  <2> QED BY <1>1, <1>6, <2>1 DEF LastIn
<1> QED BY <1>3, <1>4, <1>5, <1>6 DEF t

LEMMA EmptyHasNone == ASSUME NEW S, NEW d PROVE NoneIn(<<>>, S) /\ ~LastIn(<<>>, S, d)
  BY DEF NoneIn, LastIn

LEMMA NotBoth ==
    ASSUME NEW s, NEW S, NEW d \in S PROVE ~(NoneIn(s, S) /\ LastIn(s, S, d))
  BY DEF NoneIn, LastIn

-----------------------------------------------------------------------------
(* Types.                                                                  *)

LEMMA CommandKinds ==
    /\ Toggles \subseteq Controls /\ Controls \subseteq Commands /\ Inputs \subseteq Commands
    /\ Moves \subseteq Inputs /\ Stop \in Commands /\ Refresh \in Controls
    /\ Suppress \in Toggles /\ Resume \in Toggles /\ Suppress # Resume
    /\ \A c \in Commands : c \in Controls \/ c \in Inputs \/ c = Stop
    /\ Sendable \subseteq Commands
  BY SendableAssumption DEF Commands, Controls, Toggles, Inputs, Suppress, Resume

LEMMA OpsDiffer ==
    /\ Refresh \notin Toggles /\ Stop \notin Toggles
    /\ \A c \in Inputs : c \notin Controls /\ c # Stop
    /\ Stop \notin Controls
  BY DEF Toggles, Controls, Inputs, Moves, KeyEvents, Suppress, Resume, Refresh, Stop,
         Move, Press, Release

LEMMA BufferControlType ==
    ASSUME NEW s \in Seq(Controls), Minimal(s), NEW c \in Controls
    PROVE  BufferControl(s, c) \in Seq(Controls) /\ Minimal(BufferControl(s, c))
<1> DEFINE t == BufferControl(s, c)
<1>1. CASE c \in Toggles /\ HasRefresh(s)
  <2>1. t = <<Refresh, c>>
    BY <1>1 DEF BufferControl
  <2>2. t \in Seq(Controls) /\ DOMAIN t = 1..2 /\ t[1] = Refresh /\ t[2] = c
    BY <2>1, CommandKinds
  <2> QED BY <1>1, <2>2, OpsDiffer DEF Minimal
<1>2. CASE c \in Toggles /\ ~HasRefresh(s)
  <2>1. t = <<c>>
    BY <1>2 DEF BufferControl
  <2>2. t \in Seq(Controls) /\ DOMAIN t = 1..1
    BY <2>1, CommandKinds
  <2> QED BY <2>2 DEF Minimal
<1>3. CASE c = Refresh /\ ~HasRefresh(s)
  <2>1. t = Append(s, Refresh)
    BY <1>3, OpsDiffer DEF BufferControl
  <2>2. /\ t \in Seq(Controls) /\ DOMAIN t = 1..(Len(s) + 1) /\ t[Len(s) + 1] = Refresh
        /\ \A i \in 1..Len(s) : t[i] = s[i]
        /\ DOMAIN s = 1..Len(s) /\ Len(s) \in Nat
    BY <2>1, CommandKinds
  <2>3. \A i \in DOMAIN s : s[i] \in Toggles
    BY <1>3 DEF HasRefresh, Controls
  <2> HIDE DEF t
  <2>4. Minimal(t)
    BY <2>2, <2>3, OpsDiffer DEF Minimal
  <2> QED BY <2>2, <2>4 DEF t
<1>4. CASE c = Refresh /\ HasRefresh(s)
  BY <1>4, OpsDiffer DEF BufferControl
<1> QED BY <1>1, <1>2, <1>3, <1>4 DEF Controls

LEMMA MinimalTail ==
    ASSUME NEW s \in Seq(Controls), Minimal(s), s # <<>>
    PROVE  Head(s) \in Controls /\ Tail(s) \in Seq(Controls) /\ Minimal(Tail(s))
<1> DEFINE t == Tail(s)
<1>1. /\ t \in Seq(Controls) /\ DOMAIN t = 1..Len(t) /\ Len(t) \in Nat
      /\ \A i \in DOMAIN t : i + 1 \in DOMAIN s /\ s[i + 1] = t[i]
  OBVIOUS
<1> HIDE DEF t
<1>2. Minimal(t)
  <2> SUFFICES ASSUME NEW i \in DOMAIN t, NEW j \in DOMAIN t,
                      t[i] \in Toggles <=> t[j] \in Toggles
               PROVE  i = j
    BY DEF Minimal
  <2>1. i + 1 = j + 1
    BY <1>1 DEF Minimal
  <2> QED BY <1>1, <2>1
<1> QED BY <1>1, <1>2 DEF t

LEMMA MinimalReassert ==
    ASSUME NEW s \in Seq(Controls), Minimal(s), ~HasToggle(s)
    PROVE  Append(s, Suppress) \in Seq(Controls) /\ Minimal(Append(s, Suppress))
<1> DEFINE t == Append(s, Suppress)
<1>1. /\ t \in Seq(Controls) /\ DOMAIN t = 1..(Len(s) + 1) /\ t[Len(s) + 1] = Suppress
      /\ \A i \in 1..Len(s) : t[i] = s[i]
      /\ DOMAIN s = 1..Len(s) /\ Len(s) \in Nat
  BY CommandKinds
<1>2. \A i \in DOMAIN s : s[i] \notin Toggles
  BY DEF HasToggle
<1> HIDE DEF t
<1> QED BY <1>1, <1>2, CommandKinds DEF Minimal, t

LEMMA BufferInputType ==
    ASSUME NEW s \in Seq(Inputs), NEW c \in Inputs
    PROVE  BufferInput(s, c) \in Seq(Inputs)
  BY CommandKinds DEF BufferInput

LEMMA FoldLatchType == ASSUME latch \in BOOLEAN, NEW s PROVE FoldLatch(s) \in BOOLEAN
  BY DEF FoldLatch

LEMMA DispatchType ==
    ASSUME TypeOK, NEW c \in Commands, Dispatch(c)
    PROVE  /\ latch' \in BOOLEAN /\ shown' \in Toggles /\ refreshed' \in BOOLEAN
           /\ serverDown' \subseteq Keys /\ serverAt' \in Positions \cup {NoPosition}
<1>1. latch' \in BOOLEAN
  BY DEF TypeOK, Dispatch
<1>2. shown' \in Toggles
  BY DEF TypeOK, Dispatch
<1>3. refreshed' \in BOOLEAN
  BY DEF TypeOK, Dispatch
<1>4. serverDown' \subseteq Keys
  BY DEF TypeOK, Dispatch, PressedBy
<1>5. serverAt' \in Positions \cup {NoPosition}
  BY DEF TypeOK, Dispatch, Moves, Move
<1> QED BY <1>1, <1>2, <1>3, <1>4, <1>5

LEMMA RecordType ==
    ASSUME TypeOK, NEW c \in Commands, Record(c)
    PROVE  /\ want' \in Toggles /\ wantFresh' \in BOOLEAN
           /\ keysHeld' \subseteq Keys /\ keysSent' \subseteq keysHeld'
           /\ pointer' \in Positions \cup {NoPosition}
<1>1. want' \in Toggles /\ wantFresh' \in BOOLEAN
  BY DEF TypeOK, Record
<1>2. keysHeld' \subseteq Keys /\ keysSent' \subseteq keysHeld'
  BY DEF TypeOK, Record, PressedBy
<1>3. pointer' \in Positions \cup {NoPosition}
  BY DEF TypeOK, Record, Moves, Move
<1> QED BY <1>1, <1>2, <1>3

LEMMA FailType ==
    ASSUME TypeOK, NEW kind \in Failures, Fail(kind), UNCHANGED <<chan, stop>>
    PROVE  TypeOK'
  BY CommandKinds
  DEF TypeOK, Fail, Disconnect, clientVars, issued, buffers, Phases

LEMMA LeaveType ==
    ASSUME TypeOK, LeaveStopped, chan' \in Seq(Commands), Len(chan') <= Depth, stop' \in BOOLEAN
    PROVE  TypeOK'
  BY CommandKinds
  DEF TypeOK, LeaveStopped, Disconnect, clientVars, issued, buffers, Phases

LEMMA ClientType == TypeOK /\ Client => TypeOK'
<1> SUFFICES ASSUME TypeOK, Client PROVE TypeOK'
  OBVIOUS
<1> USE DepthAssumption, SendsAssumption
<1>1. ASSUME NEW c \in Sendable, Send(c) PROVE TypeOK'
  <2>1. c \in Commands
    BY CommandKinds
  <2>2. sends' \in 0..MaxSends
    BY <1>1 DEF Send, TypeOK
  <2>3. /\ chan' \in Seq(Commands) /\ Len(chan') <= Depth
        /\ parked' \in Seq(Commands) /\ Len(parked') <= 1
    <3>1. Append(chan, c) \in Seq(Commands) /\ Len(Append(chan, c)) = Len(chan) + 1
      BY <2>1 DEF TypeOK
    <3>2. <<c>> \in Seq(Commands) /\ Len(<<c>>) = 1 /\ Len(chan) \in Nat
      BY <2>1 DEF TypeOK
    <3>3. Enqueue(c)
      BY <1>1 DEF Send
    <3>4. chan \in Seq(Commands) /\ Len(chan) <= Depth /\ Depth \in Nat
          /\ parked \in Seq(Commands) /\ Len(parked) <= 1
      BY DEF TypeOK
    <3>5. CASE chan' = Append(chan, c) /\ Len(chan) # Depth /\ parked' = parked
      BY <3>1, <3>2, <3>4, <3>5
    <3>6. CASE chan' = chan /\ parked' = <<c>>
      BY <3>2, <3>4, <3>6
    <3>7. CASE chan' = chan /\ parked' = parked
      BY <3>4, <3>7
    <3> QED BY <3>3, <3>5, <3>6, <3>7 DEF Enqueue, Full
  <2>4. /\ want' \in Toggles /\ wantFresh' \in BOOLEAN
        /\ keysHeld' \subseteq Keys /\ keysSent' \subseteq keysHeld'
        /\ pointer' \in Positions \cup {NoPosition}
    BY <1>1, <2>1, RecordType DEF Send
  <2> QED BY <1>1, <2>2, <2>3, <2>4 DEF Send, TypeOK, workerVars, link, buffers, serverVars
<1>2. CASE SendUnblocks
  <2>1. chan' \in Seq(Commands) /\ Len(chan') <= Depth /\ parked' = <<>>
    <3>1. /\ chan \o parked \in Seq(Commands) /\ Len(chan) \in Nat
          /\ Len(chan \o parked) = Len(chan) + Len(parked)
      BY DEF TypeOK
    <3>2. /\ parked' = <<>>
          /\ chan' = chan \/ (Len(chan) < Depth /\ chan' = chan \o parked)
      BY <1>2 DEF SendUnblocks
    <3>3. /\ chan \in Seq(Commands) /\ Len(chan) <= Depth /\ Depth \in Nat
          /\ Len(parked) \in Nat /\ Len(parked) <= 1
      BY DEF TypeOK
    <3> QED BY <3>1, <3>2, <3>3
  <2> QED BY <1>2, <2>1
          DEF SendUnblocks, TypeOK, issued, workerVars, link, buffers, serverVars
<1>3. CASE StopStore
  BY <1>3 DEF StopStore, TypeOK, issued, workerVars, link, buffers, serverVars
<1>4. CASE StopSend
  <2>1. chan' \in Seq(Commands) /\ Len(chan') <= Depth
    BY <1>4, CommandKinds DEF StopSend, TypeOK
  <2> QED BY <1>4, <2>1 DEF StopSend, TypeOK, issued, workerVars, link, buffers, serverVars
<1>5. CASE StopJoin
  BY <1>5 DEF StopJoin, TypeOK, issued, workerVars, link, buffers, serverVars
<1> QED BY <1>1, <1>2, <1>3, <1>4, <1>5 DEF Client

LEMMA ConnectingType == TypeOK /\ Connecting => TypeOK'
<1> SUFFICES ASSUME TypeOK, Connecting PROVE TypeOK'
  OBVIOUS
<1> USE DEF clientVars, issued, link, buffers, serverVars, Announcements, Handshake, Phases
<1>1. CASE StartAttempt
  BY <1>1 DEF StartAttempt, TypeOK
<1>2. CASE PollFlag
  BY <1>2, LeaveType DEF PollFlag, TypeOK
<1>3. CASE PollRecv
  <2>1. CASE chan # <<>>
    <3>1. Head(chan) \in Commands /\ Tail(chan) \in Seq(Commands) /\ Len(Tail(chan)) <= Depth
      BY <2>1, DepthAssumption DEF TypeOK
    <3>2. CASE Head(chan) = Stop /\ chan' = Tail(chan) /\ stop' = TRUE /\ LeaveStopped
      BY <3>1, <3>2, LeaveType
    <3>3. CASE /\ Head(chan) \in Inputs
               /\ pendingInput' = BufferInput(pendingInput, Head(chan))
               /\ chan' = Tail(chan)
               /\ UNCHANGED <<clientVars, stop, announced, wpc, link, pendingControl, latch,
                              serverVars>>
      BY <3>1, <3>3, BufferInputType DEF TypeOK
    <3>4. CASE /\ Head(chan) \in Controls
               /\ pendingControl' = BufferControl(pendingControl, Head(chan))
               /\ chan' = Tail(chan)
               /\ UNCHANGED <<clientVars, stop, announced, wpc, link, pendingInput, latch,
                              serverVars>>
      BY <3>1, <3>4, BufferControlType DEF TypeOK
    <3> QED BY <1>3, <2>1, <3>2, <3>3, <3>4 DEF PollRecv
  <2>2. CASE chan = <<>>
    BY <1>3, <2>2 DEF PollRecv, TypeOK
  <2> QED BY <2>1, <2>2
<1>4. CASE IoWaits
  BY <1>4 DEF IoWaits, TypeOK
<1>5. CASE IoFails
  BY <1>5, FailType DEF IoFails, Failures
<1>6. CASE StageDone
  BY <1>6 DEF StageDone, NextPhase, TypeOK
<1>7. CASE AnnounceActive
  BY <1>7 DEF AnnounceActive, TypeOK
<1>8. CASE BeginActive
  <2>1. pendingControl' \in Seq(Controls) /\ Minimal(pendingControl')
    BY <1>8, MinimalReassert DEF BeginActive, TypeOK
  <2> QED BY <1>8, <2>1 DEF BeginActive, TypeOK
<1>9. CASE Reactivated
  BY <1>9 DEF Reactivated, TypeOK
<1> QED BY <1>1, <1>2, <1>3, <1>4, <1>5, <1>6, <1>7, <1>8, <1>9 DEF Connecting

LEMMA ServingType == TypeOK /\ Serving => TypeOK'
<1> SUFFICES ASSUME TypeOK, Serving PROVE TypeOK'
  OBVIOUS
<1> USE DEF clientVars, issued, link, buffers, serverVars, Phases
<1>1. CASE CheckStop
  BY <1>1, LeaveType DEF CheckStop, TypeOK
<1>2. CASE DrainControl
  <2>1. /\ Head(pendingControl) \in Commands
        /\ pendingControl' \in Seq(Controls) /\ Minimal(pendingControl')
    BY <1>2, MinimalTail, CommandKinds DEF DrainControl, TypeOK
  <2>2. /\ latch' \in BOOLEAN /\ shown' \in Toggles /\ refreshed' \in BOOLEAN
        /\ serverDown' \subseteq Keys /\ serverAt' \in Positions \cup {NoPosition}
    BY <1>2, <2>1, DispatchType DEF DrainControl
  <2> QED BY <1>2, <2>1, <2>2 DEF DrainControl, TypeOK
<1>3. CASE DrainInput
  <2>1. Head(pendingInput) \in Commands /\ pendingInput' \in Seq(Inputs)
    BY <1>3, CommandKinds DEF DrainInput, TypeOK
  <2>2. /\ latch' \in BOOLEAN /\ shown' \in Toggles /\ refreshed' \in BOOLEAN
        /\ serverDown' \subseteq Keys /\ serverAt' \in Positions \cup {NoPosition}
    BY <1>3, <2>1, DispatchType DEF DrainInput
  <2> QED BY <1>3, <2>1, <2>2 DEF DrainInput, TypeOK
<1>4. CASE DrainRecv
  <2>1. Head(chan) \in Commands /\ chan' \in Seq(Commands) /\ Len(chan') <= Depth
    BY <1>4, DepthAssumption DEF DrainRecv, TypeOK
  <2>2. CASE Head(chan) = Stop
    BY <1>4, <2>1, <2>2, LeaveType DEF DrainRecv
  <2>3. CASE Head(chan) # Stop
    <3>1. /\ latch' \in BOOLEAN /\ shown' \in Toggles /\ refreshed' \in BOOLEAN
          /\ serverDown' \subseteq Keys /\ serverAt' \in Positions \cup {NoPosition}
      BY <1>4, <2>1, <2>3, DispatchType DEF DrainRecv
    <3> QED BY <1>4, <2>1, <2>3, <3>1 DEF DrainRecv, TypeOK
  <2> QED BY <2>2, <2>3
<1>5. CASE DrainFails
  BY <1>5, FailType DEF DrainFails, Failures
<1>6. CASE DrainDone
  BY <1>6, LeaveType DEF DrainDone, TypeOK
<1>7. CASE ServerQuiet
  BY <1>7 DEF ServerQuiet, TypeOK
<1>8. CASE ServerFails
  BY <1>8, FailType DEF ServerFails, Failures
<1>9. CASE ServerTerminates
  BY <1>9, FailType DEF ServerTerminates, Failures
<1>10. CASE ServerDeactivates
  BY <1>10 DEF ServerDeactivates, TypeOK
<1> QED
  BY <1>1, <1>2, <1>3, <1>4, <1>5, <1>6, <1>7, <1>8, <1>9, <1>10 DEF Serving

LEMMA UnwindingType == TypeOK /\ Unwinding => TypeOK'
<1> SUFFICES ASSUME TypeOK, Unwinding PROVE TypeOK'
  OBVIOUS
<1> USE DEF clientVars, issued, link, buffers, serverVars, Announcements, Failures
<1>1. CASE Retry
  <2>1. latch' \in BOOLEAN
    BY <1>1, FoldLatchType DEF Retry, TypeOK
  <2>2. attempt' \in 1..MaxAttempts
    BY <1>1, AttemptsAssumption DEF Retry, TypeOK
  <2>3. <<>> \in Seq(Inputs) /\ <<>> \in Seq(Controls) /\ Minimal(<<>>)
    BY DEF Minimal
  <2> QED BY <1>1, <2>1, <2>2, <2>3 DEF Retry, TypeOK
<1>2. CASE GiveUp
  BY <1>2 DEF GiveUp, TypeOK
<1>3. CASE Wake
  BY <1>3 DEF Wake, TypeOK
<1>4. CASE ReportError
  BY <1>4 DEF ReportError, TypeOK
<1>5. CASE ReportStopped
  BY <1>5 DEF ReportStopped, TypeOK
<1>6. CASE DropReceiver
  BY <1>6, DepthAssumption DEF DropReceiver, TypeOK
<1> QED BY <1>1, <1>2, <1>3, <1>4, <1>5, <1>6 DEF Unwinding

LEMMA TypeInit == Init => TypeOK
<1>1. /\ <<>> \in Seq(Commands) /\ <<>> \in Seq(Inputs) /\ <<>> \in Seq(Controls)
      /\ Len(<<>>) = 0 /\ Minimal(<<>>)
  BY DEF Minimal
<1>2. 0 \in 0..MaxSends /\ 1 \in 1..MaxAttempts /\ 0 <= Depth
  BY DepthAssumption, AttemptsAssumption, SendsAssumption
<1> SUFFICES ASSUME Init PROVE TypeOK
  OBVIOUS
<1>3. /\ parked \in Seq(Commands) /\ Len(parked) <= 1 /\ chan \in Seq(Commands)
      /\ Len(chan) <= Depth
  BY <1>1, <1>2 DEF Init
<1>4. /\ pendingInput \in Seq(Inputs) /\ pendingControl \in Seq(Controls)
      /\ Minimal(pendingControl)
  BY <1>1 DEF Init
<1>5. sends \in 0..MaxSends /\ attempt \in 1..MaxAttempts
  BY <1>2 DEF Init
<1> QED BY <1>3, <1>4, <1>5, CommandKinds DEF Init, TypeOK, Announcements, Phases, Failures

LEMMA TypeStep == TypeOK /\ [Next]_vars => TypeOK'
<1>1. ASSUME TypeOK, UNCHANGED vars PROVE TypeOK'
  BY <1>1 DEF TypeOK, vars, clientVars, issued, workerVars, link, buffers, serverVars
<1> QED BY <1>1, ClientType, ConnectingType, ServingType, UnwindingType DEF Next, Worker

(* Type correctness, the minimal control buffer and the bound on the       *)
(* channel, for every instance.                                            *)
THEOREM TypeCorrect == Spec => []TypeOK
  BY TypeInit, TypeStep, PTL DEF Spec

-----------------------------------------------------------------------------
(* The last toggle commanded wins.                                         *)

InUse == Connected /\ wpc # "begin"

(* Where the worker can be in each phase; a connection that is not in use  *)
(* yet, or is gone, shows.                                                 *)
PhaseOK ==
    /\ wpc \in {"poll", "recv", "io"} => phase \in Handshake \cup {"reactivate"}
    /\ wpc \in {"begin", "top", "drain", "pdu"} => phase = "active"
    /\ wpc \in {"start", "failed", "sleep", "exit", "stopped", "drop", "dead"}
            => phase = "down"
    /\ wpc \notin {"failed", "exit", "stopped", "drop", "dead"} => failure = "none"
    /\ ~InUse => shown = Resume

(* The latch agrees with the server unless a toggle is about to be told.   *)
LatchOK == InUse /\ NoneIn(pendingControl, Toggles) => latch = (shown = Suppress)

IInv == TypeOK /\ PhaseOK /\ LatchOK /\ CommandedDisplayWins

LEMMA OnTheWay ==
    ASSUME TypeOK, NEW d \in Toggles
    PROVE  /\ LastIn(ControlsOnTheWay, Toggles, d) <=>
                \/ LastIn(parked, Toggles, d)
                \/ NoneIn(parked, Toggles) /\ LastIn(chan, Toggles, d)
                \/ NoneIn(parked, Toggles) /\ NoneIn(chan, Toggles)
                     /\ LastIn(pendingControl, Toggles, d)
           /\ NoneIn(ControlsOnTheWay, Toggles) <=>
                /\ NoneIn(parked, Toggles) /\ NoneIn(chan, Toggles)
                /\ NoneIn(pendingControl, Toggles)
<1>1. /\ pendingControl \in Seq(Commands) /\ chan \in Seq(Commands) /\ parked \in Seq(Commands)
  BY CommandKinds, SeqMonotonic DEF TypeOK
<1> QED BY <1>1, LastInConcat3 DEF ControlsOnTheWay

LEMMA OnTheWayNext ==
    ASSUME TypeOK', NEW d \in Toggles
    PROVE  /\ LastIn(ControlsOnTheWay, Toggles, d)' <=>
                \/ LastIn(parked', Toggles, d)
                \/ NoneIn(parked', Toggles) /\ LastIn(chan', Toggles, d)
                \/ NoneIn(parked', Toggles) /\ NoneIn(chan', Toggles)
                     /\ LastIn(pendingControl', Toggles, d)
           /\ NoneIn(ControlsOnTheWay, Toggles)' <=>
                /\ NoneIn(parked', Toggles) /\ NoneIn(chan', Toggles)
                /\ NoneIn(pendingControl', Toggles)
<1>1. /\ pendingControl' \in Seq(Commands) /\ chan' \in Seq(Commands)
      /\ parked' \in Seq(Commands)
  BY CommandKinds, SeqMonotonic DEF TypeOK
<1>2. ControlsOnTheWay' = pendingControl' \o chan' \o parked'
  BY DEF ControlsOnTheWay
<1>3. /\ LastIn(ControlsOnTheWay, Toggles, d)' <=> LastIn(ControlsOnTheWay', Toggles, d)
      /\ NoneIn(ControlsOnTheWay, Toggles)' <=> NoneIn(ControlsOnTheWay', Toggles)
  BY DEF LastIn, NoneIn, Toggles, Suppress, Resume
<1> QED BY <1>1, <1>2, <1>3, LastInConcat3

LEMMA BufferedLast ==
    ASSUME NEW s \in Seq(Controls), NEW c \in Controls, NEW d \in Toggles
    PROVE  /\ c \in Toggles => /\ LastIn(BufferControl(s, c), Toggles, c)
                               /\ ~NoneIn(BufferControl(s, c), Toggles)
           /\ c \notin Toggles =>
                /\ LastIn(BufferControl(s, c), Toggles, d) <=> LastIn(s, Toggles, d)
                /\ NoneIn(BufferControl(s, c), Toggles) <=> NoneIn(s, Toggles)
<1>1. CASE c \in Toggles /\ HasRefresh(s)
  <2> DEFINE t == <<Refresh, c>>
  <2>1. DOMAIN t = 1..2 /\ t[1] = Refresh /\ t[2] = c
    OBVIOUS
  <2>2. BufferControl(s, c) = t
    BY <1>1 DEF BufferControl
  <2> HIDE DEF t
  <2>3. LastIn(t, Toggles, c) /\ ~NoneIn(t, Toggles)
    BY <1>1, <2>1 DEF LastIn, NoneIn
  <2> QED BY <1>1, <2>2, <2>3
<1>2. CASE c \in Toggles /\ ~HasRefresh(s)
  <2> DEFINE t == <<c>>
  <2>1. DOMAIN t = 1..1 /\ t[1] = c
    OBVIOUS
  <2>2. BufferControl(s, c) = t
    BY <1>2 DEF BufferControl
  <2> HIDE DEF t
  <2>3. LastIn(t, Toggles, c) /\ ~NoneIn(t, Toggles)
    BY <1>2, <2>1 DEF LastIn, NoneIn
  <2> QED BY <1>2, <2>2, <2>3
<1>3. CASE c \notin Toggles
  <2>1. BufferControl(s, c) = s \/ BufferControl(s, c) = Append(s, c)
    BY <1>3 DEF BufferControl
  <2>2. /\ LastIn(Append(s, c), Toggles, d) <=> LastIn(s, Toggles, d)
        /\ NoneIn(Append(s, c), Toggles) <=> NoneIn(s, Toggles)
    BY <1>3, LastInAppend
  <2> QED BY <1>3, <2>1, <2>2
<1> QED BY <1>1, <1>2, <1>3

(* CommandedDisplayWins by parts: what each place the next toggle could    *)
(* come from has to say.                                                   *)
Last(p, ch, pc, d) ==
    \/ LastIn(p, Toggles, d)
    \/ NoneIn(p, Toggles) /\ LastIn(ch, Toggles, d)
    \/ NoneIn(p, Toggles) /\ NoneIn(ch, Toggles) /\ LastIn(pc, Toggles, d)

None(p, ch, pc) == NoneIn(p, Toggles) /\ NoneIn(ch, Toggles) /\ NoneIn(pc, Toggles)

LEMMA WinsByParts ==
    ASSUME TypeOK
    PROVE  CommandedDisplayWins <=>
             (Alive => \/ Last(parked, chan, pendingControl, want)
                       \/ None(parked, chan, pendingControl) /\ InForce = want)
  BY OnTheWay DEF CommandedDisplayWins, Last, None, TypeOK

LEMMA WinsByPartsNext ==
    ASSUME TypeOK'
    PROVE  CommandedDisplayWins' <=>
             (Alive' => \/ Last(parked', chan', pendingControl', want')
                        \/ None(parked', chan', pendingControl') /\ InForce' = want')
<1>1. want' \in Toggles
  BY DEF TypeOK
<1>2. LastIn(ControlsOnTheWay, Toggles, want)' <=> LastIn(ControlsOnTheWay', Toggles, want')
  BY DEF LastIn, Toggles, Suppress, Resume
<1>3. \A d : LastIn(ControlsOnTheWay, Toggles, d)' <=> LastIn(ControlsOnTheWay', Toggles, d)
  BY DEF LastIn, Toggles, Suppress, Resume
<1> QED BY <1>1, <1>2, <1>3, OnTheWayNext DEF CommandedDisplayWins, Last, None

LEMMA WinsKept ==
    ASSUME TypeOK, TypeOK', CommandedDisplayWins, Alive' => Alive, InForce' = InForce,
           UNCHANGED <<want, parked, chan, pendingControl>>
    PROVE  CommandedDisplayWins'
  BY WinsByParts, WinsByPartsNext

LEMMA DeadWins == ASSUME ~Alive' PROVE CommandedDisplayWins'
  BY DEF CommandedDisplayWins

LEMMA FailStep ==
    ASSUME IInv, TypeOK', wpc \in {"io", "drain", "pdu"}, UNCHANGED <<chan, stop>>,
           \/ Fail("fatal")
           \/ Fail("ultimatum") /\ wpc \in {"io", "pdu"}
    PROVE  PhaseOK' /\ LatchOK' /\ CommandedDisplayWins'
<1> USE DEF IInv, clientVars, issued, buffers
<1>1. PhaseOK'
  BY DEF Fail, Disconnect, PhaseOK, InUse, Connected
<1>2. LatchOK'
  BY DEF Fail, Disconnect, LatchOK, InUse, Connected
<1>3. CASE Fail("fatal")
  BY <1>1, <1>2, <1>3, DeadWins DEF Fail, Alive
<1>4. CASE Fail("ultimatum") /\ wpc \in {"io", "pdu"}
  <2>1. ~InUse' /\ Alive
    BY <1>4 DEF Fail, Disconnect, PhaseOK, InUse, Connected, Alive
  <2>2. NoneIn(pendingControl, Toggles) => InForce' = InForce
    BY <1>4, <2>1, CommandKinds DEF LatchOK, InForce, InUse, TypeOK, Toggles, Fail
  <2> QED BY <1>1, <1>2, <1>4, <2>1, <2>2, WinsByParts, WinsByPartsNext DEF Fail, None, Last
<1> QED BY <1>3, <1>4

LEMMA LeaveStep ==
    ASSUME LeaveStopped PROVE PhaseOK' /\ LatchOK' /\ CommandedDisplayWins'
<1>1. PhaseOK' /\ LatchOK'
  BY DEF LeaveStopped, Disconnect, PhaseOK, LatchOK, InUse, Connected
<1>2. CommandedDisplayWins'
  BY DeadWins DEF LeaveStopped, Alive
<1> QED BY <1>1, <1>2

LEMMA ClientStep ==
    ASSUME IInv, TypeOK', Client
    PROVE  PhaseOK' /\ LatchOK' /\ CommandedDisplayWins'
<1> USE DEF IInv, workerVars, link, buffers, serverVars, issued
<1>1. UNCHANGED <<workerVars, serverVars>>
  BY DEF Client, Send, SendUnblocks, StopStore, StopSend, StopJoin
<1>2. PhaseOK' /\ LatchOK' /\ InForce' = InForce /\ (Alive' <=> Alive)
  BY <1>1 DEF PhaseOK, LatchOK, InUse, Connected, InForce, Alive, NoneIn
<1>3. ASSUME NEW c \in Sendable, Send(c) PROVE CommandedDisplayWins'
  <2> SUFFICES ASSUME Alive PROVE CommandedDisplayWins'
    BY <1>2, DeadWins
  <2>1. c \in Commands /\ chan \in Seq(Commands) /\ parked = <<>> /\ wpc # "dead"
    BY <1>3, CommandKinds DEF Send, TypeOK, Alive
  <2>2. want' \in Toggles /\ want' = IF c \in Toggles THEN c ELSE want
    BY <1>3 DEF Send, Record, TypeOK
  <2>3. /\ LastIn(Append(chan, c), Toggles, want')
             <=> c = want' \/ (c \notin Toggles /\ LastIn(chan, Toggles, want'))
        /\ NoneIn(Append(chan, c), Toggles) <=> c \notin Toggles /\ NoneIn(chan, Toggles)
    BY <2>1, <2>2, LastInAppend
  <2>4. /\ LastIn(<<c>>, Toggles, want') <=> c = want'
        /\ NoneIn(<<c>>, Toggles) <=> c \notin Toggles
    <3>1. DOMAIN <<c>> = 1..1 /\ <<c>>[1] = c
      OBVIOUS
    <3> QED BY <2>2, <3>1 DEF LastIn, NoneIn
  <2>5. NoneIn(<<>>, Toggles) /\ ~LastIn(<<>>, Toggles, want')
    BY EmptyHasNone
  <2>6. c \in Moves => c \notin Toggles
    BY OpsDiffer, CommandKinds
  <2>7. \/ chan' = Append(chan, c) /\ parked' = <<>>
        \/ chan' = chan /\ parked' = <<c>>
        \/ chan' = chan /\ parked' = <<>> /\ c \in Moves
    BY <1>3, <2>1 DEF Send, Enqueue
  <2>8. \/ Last(parked, chan, pendingControl, want)
        \/ None(parked, chan, pendingControl) /\ InForce = want
    BY WinsByParts
  <2>9. \/ Last(parked', chan', pendingControl', want')
        \/ None(parked', chan', pendingControl') /\ InForce' = want'
    BY <1>1, <1>2, <2>1, <2>2, <2>3, <2>4, <2>5, <2>6, <2>7, <2>8 DEF Last, None
  <2> QED BY <2>9, WinsByPartsNext
<1>4. CASE SendUnblocks
  <2> SUFFICES ASSUME Alive PROVE CommandedDisplayWins'
    BY <1>2, DeadWins
  <2>1. /\ chan' = chan \o parked /\ parked' = <<>> /\ want' = want
        /\ chan \in Seq(Commands) /\ parked \in Seq(Commands) /\ want \in Toggles
    BY <1>4 DEF SendUnblocks, Alive, TypeOK
  <2>2. /\ LastIn(chan', Toggles, want) <=>
             LastIn(parked, Toggles, want)
               \/ (NoneIn(parked, Toggles) /\ LastIn(chan, Toggles, want))
        /\ NoneIn(chan', Toggles) <=> NoneIn(chan, Toggles) /\ NoneIn(parked, Toggles)
    BY <2>1, LastInConcat
  <2>3. NoneIn(<<>>, Toggles) /\ ~LastIn(<<>>, Toggles, want)
    BY EmptyHasNone
  <2> QED BY <1>1, <1>2, <2>1, <2>2, <2>3, WinsByParts, WinsByPartsNext DEF Last, None
<1>5. CASE StopStore \/ StopJoin
  BY <1>1, <1>2, <1>5, WinsKept DEF StopStore, StopJoin
<1>6. CASE StopSend
  <2>1. /\ want' = want /\ parked' = parked /\ want \in Toggles /\ chan \in Seq(Commands)
        /\ chan' = chan \/ chan' = Append(chan, Stop)
    BY <1>6 DEF StopSend, TypeOK
  <2>2. /\ LastIn(Append(chan, Stop), Toggles, want) <=> LastIn(chan, Toggles, want)
        /\ NoneIn(Append(chan, Stop), Toggles) <=> NoneIn(chan, Toggles)
    <3>1. Stop \in Commands /\ Stop \notin Toggles /\ Stop # want
      BY <2>1, CommandKinds, OpsDiffer
    <3> QED BY <2>1, <3>1, LastInAppend
  <2> QED BY <1>1, <1>2, <2>1, <2>2, WinsByParts, WinsByPartsNext DEF Last, None
<1> QED BY <1>2, <1>3, <1>4, <1>5, <1>6 DEF Client

(* A step that only moves the worker, and does not put a connection into   *)
(* use or out of use.                                                      *)
LEMMA MoveStep ==
    ASSUME IInv, TypeOK', PhaseOK', InUse' <=> InUse, Alive' => Alive,
           UNCHANGED <<clientVars, chan, buffers, shown>>
    PROVE  LatchOK' /\ CommandedDisplayWins'
<1> USE DEF IInv, clientVars, issued, buffers
<1>1. InForce' = InForce
  BY DEF InForce, InUse
<1>2. LatchOK'
  BY DEF LatchOK, NoneIn
<1> QED BY <1>1, <1>2, WinsKept

(* Telling the server: the command taken from the front of a buffer or of  *)
(* the channel comes into force.                                           *)
LEMMA DispatchedWins ==
    ASSUME TypeOK, NEW c, Dispatch(c), InUse, InUse'
    PROVE  /\ c \in Toggles => InForce' = c /\ latch' = (shown' = Suppress)
           /\ c \notin Toggles => InForce' = InForce /\ latch' = latch /\ shown' = shown
<1>1. InForce = shown /\ InForce' = shown'
  BY DEF InForce, InUse
<1>2. CASE c \in Toggles
  BY <1>1, <1>2 DEF Dispatch
<1>3. CASE c \notin Toggles
  BY <1>1, <1>3 DEF Dispatch
<1> QED BY <1>2, <1>3

LEMMA TakeChan ==
    ASSUME TypeOK, chan # <<>>, NEW d \in Toggles
    PROVE  /\ LastIn(chan, Toggles, d) <=>
                \/ LastIn(Tail(chan), Toggles, d)
                \/ NoneIn(Tail(chan), Toggles) /\ Head(chan) = d
           /\ NoneIn(chan, Toggles) <=>
                Head(chan) \notin Toggles /\ NoneIn(Tail(chan), Toggles)
           /\ Head(chan) \in Commands
<1>1. chan \in Seq(Commands)
  BY DEF TypeOK
<1> QED BY <1>1, LastInTail

LEMMA ConnectingStep ==
    ASSUME IInv, TypeOK', Connecting
    PROVE  PhaseOK' /\ LatchOK' /\ CommandedDisplayWins'
<1> USE DEF IInv, clientVars, issued, link, buffers, serverVars
<1>1. CASE StartAttempt
  <2>1. PhaseOK' /\ ~InUse /\ ~InUse' /\ (Alive' => Alive)
    BY <1>1 DEF StartAttempt, PhaseOK, InUse, Connected, Handshake, Alive
  <2> QED BY <1>1, <2>1, MoveStep DEF StartAttempt
<1>2. CASE PollFlag
  <2>1. CASE stop
    BY <1>2, <2>1, LeaveStep DEF PollFlag
  <2>2. CASE ~stop
    <3>1. PhaseOK' /\ (InUse' <=> InUse) /\ (Alive' => Alive)
      BY <1>2, <2>2 DEF PollFlag, PhaseOK, InUse, Connected, Handshake, Alive
    <3> QED BY <1>2, <2>2, <3>1, MoveStep DEF PollFlag
  <2> QED BY <2>1, <2>2
<1>3. CASE PollRecv
  <2>1. CASE chan = <<>>
    <3>1. PhaseOK' /\ (InUse' <=> InUse) /\ (Alive' => Alive)
      BY <1>3, <2>1 DEF PollRecv, PhaseOK, InUse, Connected, Handshake, Alive
    <3> QED BY <1>3, <2>1, <3>1, MoveStep DEF PollRecv
  <2>2. CASE chan # <<>> /\ Head(chan) = Stop
    <3>1. LeaveStopped
      BY <1>3, <2>2, OpsDiffer DEF PollRecv
    <3> QED BY <3>1, LeaveStep
  <2>3. CASE chan # <<>> /\ Head(chan) # Stop
    <3>1. /\ chan' = Tail(chan)
          /\ UNCHANGED <<clientVars, wpc, link, latch, serverVars>>
          /\ \/ Head(chan) \in Inputs /\ pendingControl' = pendingControl
             \/ /\ Head(chan) \in Controls
                /\ pendingControl' = BufferControl(pendingControl, Head(chan))
      BY <1>3, <2>3 DEF PollRecv
    <3>2. PhaseOK' /\ (InUse' <=> InUse) /\ (Alive' <=> Alive) /\ InForce' = InForce
      BY <3>1 DEF PhaseOK, InUse, Connected, Alive, InForce
    <3>3. want \in Toggles /\ want' = want /\ parked' = parked
      BY <3>1 DEF TypeOK
    <3>4. CASE Head(chan) \in Toggles
      <4>1. /\ LastIn(pendingControl', Toggles, Head(chan))
            /\ ~NoneIn(pendingControl', Toggles)
        BY <3>1, <3>4, BufferedLast, OpsDiffer, CommandKinds DEF TypeOK
      <4>2. LatchOK'
        BY <4>1 DEF LatchOK, NoneIn
      <4>3. /\ Last(parked, chan, pendingControl, want)
                 => Last(parked', chan', pendingControl', want')
            /\ ~None(parked, chan, pendingControl)
        BY <2>3, <3>1, <3>3, <3>4, <4>1, TakeChan DEF Last, None
      <4> QED BY <3>2, <3>3, <4>2, <4>3, WinsByParts, WinsByPartsNext
    <3>5. CASE Head(chan) \notin Toggles
      <4>1. /\ LastIn(pendingControl', Toggles, want) <=> LastIn(pendingControl, Toggles, want)
            /\ NoneIn(pendingControl', Toggles) <=> NoneIn(pendingControl, Toggles)
        BY <3>1, <3>3, <3>5, BufferedLast, OpsDiffer DEF TypeOK
      <4>2. LatchOK'
        BY <3>1, <3>2, <4>1 DEF LatchOK, NoneIn
      <4>3. /\ Last(parked, chan, pendingControl, want)
                 => Last(parked', chan', pendingControl', want')
            /\ None(parked, chan, pendingControl)
                 => None(parked', chan', pendingControl')
        BY <2>3, <3>1, <3>3, <3>5, <4>1, TakeChan DEF Last, None
      <4> QED BY <3>2, <3>3, <4>2, <4>3, WinsByParts, WinsByPartsNext
    <3> QED BY <3>4, <3>5
  <2> QED BY <2>1, <2>2, <2>3
<1>4. CASE IoWaits
  <2>1. PhaseOK' /\ (InUse' <=> InUse) /\ (Alive' => Alive)
    BY <1>4 DEF IoWaits, PhaseOK, InUse, Connected, Handshake, Alive
  <2> QED BY <1>4, <2>1, MoveStep DEF IoWaits
<1>5. CASE IoFails
  BY <1>5, FailStep DEF IoFails
<1>6. CASE StageDone
  <2>1. PhaseOK' /\ (InUse' <=> InUse) /\ (Alive' => Alive)
    BY <1>6 DEF StageDone, NextPhase, PhaseOK, InUse, Connected, Handshake, Alive
  <2> QED BY <1>6, <2>1, MoveStep DEF StageDone
<1>7. CASE AnnounceActive
  <2>1. PhaseOK' /\ (InUse' <=> InUse) /\ (Alive' => Alive)
    BY <1>7 DEF AnnounceActive, PhaseOK, InUse, Connected, Handshake, Alive
  <2>2. UNCHANGED <<want, parked, chan, pendingControl, latch, shown>>
    BY <1>7 DEF AnnounceActive
  <2>3. LatchOK' /\ InForce' = InForce
    BY <2>1, <2>2 DEF LatchOK, InForce, InUse, NoneIn
  <2> QED BY <2>1, <2>2, <2>3, WinsKept
<1>8. CASE BeginActive
  <2>1. PhaseOK' /\ ~InUse /\ InUse' /\ Alive
    BY <1>8 DEF BeginActive, PhaseOK, InUse, Connected, Alive
  <2>2. shown = Resume /\ shown' = Resume /\ latch' = latch /\ latch \in BOOLEAN
    BY <1>8, <2>1 DEF BeginActive, PhaseOK, TypeOK
  <2>3. InForce' = Resume /\ InForce = (IF latch THEN Suppress ELSE Resume)
    BY <2>1, <2>2 DEF InForce, InUse
  <2>4. want \in Toggles /\ want' = want /\ parked' = parked /\ chan' = chan
    BY <1>8 DEF BeginActive, TypeOK
  <2>5. HasToggle(pendingControl) <=> ~NoneIn(pendingControl, Toggles)
    BY DEF HasToggle, NoneIn
  <2>6. CASE latch /\ ~HasToggle(pendingControl)
    <3>1. pendingControl' = Append(pendingControl, Suppress)
      BY <1>8, <2>6 DEF BeginActive
    <3>2. /\ LastIn(pendingControl', Toggles, want) <=> Suppress = want
          /\ ~NoneIn(pendingControl', Toggles)
      <4>1. /\ pendingControl \in Seq(Controls) /\ Suppress \in Controls /\ Suppress \in Toggles
            /\ ~LastIn(pendingControl, Toggles, want)
        BY <2>4, <2>5, <2>6, CommandKinds, NotBoth DEF TypeOK
      <4> QED BY <2>4, <3>1, <4>1, LastInAppend
    <3>3. LatchOK'
      BY <3>2 DEF LatchOK, NoneIn
    <3>4. NoneIn(pendingControl, Toggles) /\ InForce = Suppress
      BY <2>3, <2>5, <2>6
    <3>5. ~LastIn(pendingControl, Toggles, want)
      BY <2>4, <3>4, NotBoth
    <3> QED BY <2>1, <2>4, <3>2, <3>3, <3>4, <3>5, WinsByParts, WinsByPartsNext
            DEF Last, None
  <2>7. CASE ~(latch /\ ~HasToggle(pendingControl))
    <3>1. pendingControl' = pendingControl
      BY <1>8, <2>7 DEF BeginActive
    <3>2. NoneIn(pendingControl, Toggles) => ~latch
      BY <2>5, <2>7
    <3>3. LatchOK'
      BY <2>2, <3>1, <3>2, CommandKinds DEF LatchOK, NoneIn
    <3>4. NoneIn(pendingControl, Toggles) => InForce' = InForce
      BY <2>3, <3>2
    <3> QED BY <2>1, <2>4, <3>1, <3>3, <3>4, WinsByParts, WinsByPartsNext DEF Last, None
  <2> QED BY <2>6, <2>7
<1>9. CASE Reactivated
  <2>1. PhaseOK' /\ (InUse' <=> InUse) /\ (Alive' => Alive)
    BY <1>9 DEF Reactivated, PhaseOK, InUse, Connected, Handshake, Alive
  <2> QED BY <1>9, <2>1, MoveStep DEF Reactivated
<1> QED BY <1>1, <1>2, <1>3, <1>4, <1>5, <1>6, <1>7, <1>8, <1>9 DEF Connecting

(* Whatever is dispatched from the front, what comes after it decides; if  *)
(* nothing does, the dispatched toggle does.                               *)
LEMMA ServingStep ==
    ASSUME IInv, TypeOK', Serving
    PROVE  PhaseOK' /\ LatchOK' /\ CommandedDisplayWins'
<1> USE DEF IInv, clientVars, issued, link, buffers, serverVars
<1>1. CASE CheckStop
  <2>1. CASE stop
    BY <1>1, <2>1, LeaveStep DEF CheckStop
  <2>2. CASE ~stop
    <3>1. PhaseOK' /\ (InUse' <=> InUse) /\ (Alive' => Alive)
      BY <1>1, <2>2 DEF CheckStop, PhaseOK, InUse, Connected, Handshake, Alive
    <3> QED BY <1>1, <2>2, <3>1, MoveStep DEF CheckStop
  <2> QED BY <2>1, <2>2
<1>2. CASE DrainControl
  <2> DEFINE c == Head(pendingControl)
  <2>1. /\ Dispatch(c) /\ pendingControl # <<>> /\ pendingControl' = Tail(pendingControl)
        /\ UNCHANGED <<clientVars, chan, wpc, link>> /\ wpc = "drain"
    BY <1>2 DEF DrainControl
  <2>2. PhaseOK' /\ InUse /\ InUse' /\ Alive
    BY <2>1 DEF PhaseOK, InUse, Connected, Alive
  <2>3. want \in Toggles /\ want' = want /\ pendingControl \in Seq(Controls)
    BY <2>1 DEF TypeOK
  <2>4. /\ LastIn(pendingControl, Toggles, want) <=>
             LastIn(pendingControl', Toggles, want)
               \/ (NoneIn(pendingControl', Toggles) /\ c = want)
        /\ NoneIn(pendingControl, Toggles) <=>
             c \notin Toggles /\ NoneIn(pendingControl', Toggles)
    BY <2>1, <2>3, LastInTail
  <2> HIDE DEF c
  <2>5. /\ c \in Toggles => InForce' = c /\ latch' = (shown' = Suppress)
        /\ c \notin Toggles => InForce' = InForce /\ latch' = latch /\ shown' = shown
    BY <2>1, <2>2, DispatchedWins
  <2>6. LatchOK'
    BY <2>2, <2>4, <2>5 DEF LatchOK, NoneIn
  <2> QED BY <2>1, <2>2, <2>3, <2>4, <2>5, <2>6, WinsByParts, WinsByPartsNext
          DEF Last, None
<1>3. CASE DrainInput
  <2> DEFINE c == Head(pendingInput)
  <2>1. /\ Dispatch(c) /\ pendingControl' = pendingControl
        /\ UNCHANGED <<clientVars, chan, wpc, link>> /\ wpc = "drain"
    BY <1>3 DEF DrainInput
  <2>2. PhaseOK' /\ InUse /\ InUse' /\ Alive
    BY <2>1 DEF PhaseOK, InUse, Connected, Alive
  <2>3. c \notin Toggles
    <3>1. c \in Inputs
      BY <1>3 DEF DrainInput, TypeOK
    <3> QED BY <3>1, OpsDiffer, CommandKinds
  <2> HIDE DEF c
  <2>4. InForce' = InForce /\ latch' = latch /\ shown' = shown
    BY <2>1, <2>2, <2>3, DispatchedWins
  <2>5. LatchOK'
    BY <2>1, <2>2, <2>4 DEF LatchOK, NoneIn
  <2> QED BY <2>1, <2>2, <2>4, <2>5, WinsKept
<1>4. CASE DrainRecv
  <2>1. CASE Head(chan) = Stop
    BY <1>4, <2>1, LeaveStep DEF DrainRecv
  <2>2. CASE Head(chan) # Stop
    <3> DEFINE c == Head(chan)
    <3>1. /\ Dispatch(c) /\ chan # <<>> /\ chan' = Tail(chan)
          /\ pendingControl = <<>> /\ pendingControl' = <<>>
          /\ UNCHANGED <<clientVars, wpc, link>> /\ wpc = "drain"
      BY <1>4, <2>2 DEF DrainRecv
    <3>2. PhaseOK' /\ InUse /\ InUse' /\ Alive
      BY <3>1 DEF PhaseOK, InUse, Connected, Alive
    <3>3. want \in Toggles /\ want' = want
      BY <3>1 DEF TypeOK
    <3>4. /\ LastIn(chan, Toggles, want) <=>
               LastIn(chan', Toggles, want) \/ (NoneIn(chan', Toggles) /\ c = want)
          /\ NoneIn(chan, Toggles) <=> c \notin Toggles /\ NoneIn(chan', Toggles)
      BY <3>1, <3>3, TakeChan
    <3>5. NoneIn(<<>>, Toggles) /\ ~LastIn(<<>>, Toggles, want)
      BY EmptyHasNone
    <3> HIDE DEF c
    <3>6. /\ c \in Toggles => InForce' = c /\ latch' = (shown' = Suppress)
          /\ c \notin Toggles => InForce' = InForce /\ latch' = latch /\ shown' = shown
      BY <3>1, <3>2, DispatchedWins
    <3>7. LatchOK'
      BY <3>1, <3>2, <3>5, <3>6 DEF LatchOK, NoneIn
    <3> QED BY <3>1, <3>2, <3>3, <3>4, <3>5, <3>6, <3>7, WinsByParts, WinsByPartsNext
            DEF Last, None
  <2> QED BY <2>1, <2>2
<1>5. CASE DrainFails
  BY <1>5, FailStep DEF DrainFails
<1>6. CASE DrainDone
  <2>1. CASE stop
    BY <1>6, <2>1, LeaveStep DEF DrainDone
  <2>2. CASE ~stop
    <3>1. PhaseOK' /\ (InUse' <=> InUse) /\ (Alive' => Alive)
      BY <1>6, <2>2 DEF DrainDone, PhaseOK, InUse, Connected, Handshake, Alive
    <3> QED BY <1>6, <2>2, <3>1, MoveStep DEF DrainDone
  <2> QED BY <2>1, <2>2
<1>7. CASE ServerQuiet
  <2>1. PhaseOK' /\ (InUse' <=> InUse) /\ (Alive' => Alive)
    BY <1>7 DEF ServerQuiet, PhaseOK, InUse, Connected, Handshake, Alive
  <2> QED BY <1>7, <2>1, MoveStep DEF ServerQuiet
<1>8. CASE ServerFails
  BY <1>8, FailStep DEF ServerFails
<1>9. CASE ServerTerminates
  BY <1>9, FailStep DEF ServerTerminates
<1>10. CASE ServerDeactivates
  <2>1. PhaseOK' /\ (InUse' <=> InUse) /\ (Alive' => Alive)
    BY <1>10 DEF ServerDeactivates, PhaseOK, InUse, Connected, Handshake, Alive
  <2> QED BY <1>10, <2>1, MoveStep DEF ServerDeactivates
<1> QED
  BY <1>1, <1>2, <1>3, <1>4, <1>5, <1>6, <1>7, <1>8, <1>9, <1>10 DEF Serving

LEMMA FoldedLast ==
    ASSUME NEW s \in Seq(Controls), NEW d \in Toggles, LastIn(s, Toggles, d)
    PROVE  FoldLatch(s) <=> d = Suppress
<1>1. PICK i \in DOMAIN s : s[i] = d /\ \A j \in DOMAIN s : j > i => s[j] \notin Toggles
  BY DEF LastIn
<1>2. HasToggle(s)
  BY <1>1 DEF HasToggle
<1>3. ASSUME d = Suppress PROVE FoldLatch(s)
  BY <1>1, <1>2, <1>3 DEF FoldLatch
<1>4. ASSUME FoldLatch(s) PROVE d = Suppress
  <2>1. PICK k \in DOMAIN s :
              s[k] = Suppress /\ \A j \in DOMAIN s : j > k => s[j] \notin Toggles
    BY <1>2, <1>4 DEF FoldLatch
  <2>2. i = k
    <3>1. DOMAIN s \subseteq Nat
      OBVIOUS
    <3>2. ~(k > i) /\ ~(i > k)
      BY <1>1, <2>1, CommandKinds
    <3> QED BY <3>1, <3>2
  <2> QED BY <1>1, <2>1, <2>2
<1> QED BY <1>3, <1>4

LEMMA UnwindingStep ==
    ASSUME IInv, TypeOK', Unwinding
    PROVE  PhaseOK' /\ LatchOK' /\ CommandedDisplayWins'
<1> USE DEF IInv, clientVars, issued, link, buffers, serverVars
<1>1. CASE Retry
  <2>1. PhaseOK' /\ ~InUse /\ ~InUse' /\ Alive
    BY <1>1 DEF Retry, PhaseOK, InUse, Connected, Alive
  <2>2. /\ want \in Toggles /\ want' = want /\ parked' = parked /\ chan' = chan
        /\ pendingControl' = <<>> /\ latch' = FoldLatch(pendingControl)
        /\ pendingControl \in Seq(Controls)
    BY <1>1 DEF Retry, TypeOK
  <2>3. LatchOK'
    BY <2>1 DEF LatchOK
  <2>4. /\ InForce = IF latch THEN Suppress ELSE Resume
        /\ InForce' = IF latch' THEN Suppress ELSE Resume
    BY <2>1 DEF InForce, InUse
  <2>5. NoneIn(<<>>, Toggles)
    BY EmptyHasNone
  <2>6. LastIn(pendingControl, Toggles, want) => InForce' = want
    BY <2>2, <2>4, FoldedLast, CommandKinds DEF Toggles
  <2>7. NoneIn(pendingControl, Toggles) => InForce' = InForce
    BY <2>2, <2>4 DEF FoldLatch, HasToggle, NoneIn
  <2> QED BY <2>1, <2>2, <2>3, <2>5, <2>6, <2>7, WinsByParts, WinsByPartsNext
          DEF Last, None
<1>2. CASE GiveUp
  <2>1. PhaseOK' /\ LatchOK'
    BY <1>2 DEF GiveUp, PhaseOK, LatchOK, InUse, Connected
  <2>2. ~Alive'
    BY <1>2 DEF GiveUp, Alive
  <2> QED BY <2>1, <2>2, DeadWins
<1>3. CASE Wake
  <2>1. PhaseOK' /\ (InUse' <=> InUse) /\ (Alive' => Alive)
    BY <1>3 DEF Wake, PhaseOK, InUse, Connected, Handshake, Alive
  <2> QED BY <1>3, <2>1, MoveStep DEF Wake
<1>4. CASE ReportError \/ ReportStopped \/ DropReceiver
  <2>1. PhaseOK' /\ LatchOK'
    BY <1>4 DEF ReportError, ReportStopped, DropReceiver, PhaseOK, LatchOK, InUse, Connected
  <2>2. ~Alive'
    BY <1>4 DEF ReportError, ReportStopped, DropReceiver, Alive
  <2> QED BY <2>1, <2>2, DeadWins
<1> QED BY <1>1, <1>2, <1>3, <1>4 DEF Unwinding

LEMMA IInvInit == Init => IInv
<1> SUFFICES ASSUME Init PROVE IInv
  OBVIOUS
<1>1. TypeOK
  BY TypeInit
<1>2. PhaseOK /\ LatchOK /\ ~InUse
  BY DEF Init, PhaseOK, LatchOK, InUse, Connected
<1>3. None(parked, chan, pendingControl) /\ InForce = want
  BY <1>2, EmptyHasNone DEF Init, None, InForce, InUse
<1> QED BY <1>1, <1>2, <1>3, WinsByParts DEF IInv

LEMMA IInvStep == IInv /\ [Next]_vars => IInv'
<1> SUFFICES ASSUME IInv, [Next]_vars PROVE IInv'
  OBVIOUS
<1>1. TypeOK'
  BY TypeStep DEF IInv
<1>2. CASE UNCHANGED vars
  <2>1. PhaseOK' /\ (InUse' <=> InUse) /\ (Alive' => Alive)
    BY <1>2 DEF IInv, vars, workerVars, serverVars, link, PhaseOK, InUse, Connected, Alive
  <2> QED BY <1>1, <1>2, <2>1, MoveStep
          DEF IInv, vars, clientVars, workerVars, serverVars, link, buffers
<1> QED BY <1>1, <1>2, ClientStep, ConnectingStep, ServingStep, UnwindingStep
        DEF IInv, Next, Worker

(* The last toggle the client commanded wins, across reactivations,        *)
(* retries and full channels, for every channel depth and every number of  *)
(* connection attempts.                                                    *)
THEOREM CommandedWins == Spec => []CommandedDisplayWins
<1>1. IInv => CommandedDisplayWins
  BY DEF IInv
<1> QED BY <1>1, IInvInit, IInvStep, PTL DEF Spec

-----------------------------------------------------------------------------
(* The refinement of DisplayIntent.                                        *)

LEMMA OwedByParts ==
    ASSUME TypeOK
    PROVE  NoneIn(ControlsOnTheWay, Toggles) <=> None(parked, chan, pendingControl)
  BY OnTheWay, CommandKinds DEF None

LEMMA OwedByPartsNext ==
    ASSUME TypeOK'
    PROVE  NoneIn(ControlsOnTheWay, Toggles)' <=> None(parked', chan', pendingControl')
  BY OnTheWayNext, CommandKinds DEF None

(* A worker with nothing under way has nothing under way after a step, or  *)
(* it has begun a connection and re-asserts the suppression.               *)
LEMMA WorkerOwes ==
    ASSUME IInv, Alive, Alive', Worker, None(parked, chan, pendingControl)
    PROVE  \/ None(parked', chan', pendingControl')
           \/ InForce' = Resume /\ want = Suppress
<1> USE DEF IInv, clientVars, issued, link, buffers, serverVars
<1>1. CASE BeginActive
  <2>1. CASE latch /\ ~HasToggle(pendingControl)
    <3>1. ~InUse /\ InUse' /\ shown' = Resume
      BY <1>1 DEF BeginActive, PhaseOK, InUse, Connected
    <3>2. InForce = Suppress /\ InForce' = Resume
      BY <2>1, <3>1 DEF InForce, InUse
    <3>3. InForce = want
      <4>1. want \in Toggles
        BY DEF TypeOK
      <4> QED BY <4>1, WinsByParts, NotBoth DEF Last, None
    <3> QED BY <3>2, <3>3
  <2>2. CASE ~(latch /\ ~HasToggle(pendingControl))
    BY <1>1, <2>2 DEF BeginActive
  <2> QED BY <2>1, <2>2
<1>2. CASE Retry
  BY <1>2, EmptyHasNone DEF Retry, None
<1>3. CASE PollRecv
  <2>1. CASE chan = <<>> \/ LeaveStopped
    BY <1>3, <2>1, OpsDiffer DEF PollRecv, LeaveStopped, Alive
  <2>2. CASE chan # <<>> /\ ~LeaveStopped
    <3>1. /\ parked' = parked /\ chan' = Tail(chan)
          /\ \/ pendingControl' = pendingControl
             \/ /\ Head(chan) \in Controls
                /\ pendingControl' = BufferControl(pendingControl, Head(chan))
      BY <1>3, <2>2 DEF PollRecv
    <3>2. NoneIn(chan', Toggles) /\ Head(chan) \notin Toggles
      BY <2>2, <3>1, TakeChan, CommandKinds DEF None
    <3>3. NoneIn(pendingControl', Toggles)
      BY <3>1, <3>2, BufferedLast, CommandKinds DEF TypeOK, None
    <3> QED BY <3>1, <3>2, <3>3 DEF None
  <2> QED BY <2>1, <2>2
<1>4. CASE DrainControl
  <2>1. NoneIn(Tail(pendingControl), Toggles)
    BY <1>4, LastInTail, CommandKinds DEF DrainControl, TypeOK, None
  <2> QED BY <1>4, <2>1 DEF DrainControl, None
<1>5. CASE DrainRecv
  <2>1. chan # <<>> /\ chan' = Tail(chan)
    BY <1>5 DEF DrainRecv
  <2>2. NoneIn(Tail(chan), Toggles)
    BY <2>1, TakeChan, CommandKinds DEF None
  <2> QED BY <1>5, <2>1, <2>2 DEF DrainRecv, LeaveStopped, None
<1>6. CASE DropReceiver
  BY <1>6 DEF DropReceiver, Alive
<1>7. CASE StartAttempt \/ PollFlag \/ IoWaits \/ IoFails \/ StageDone \/ AnnounceActive
             \/ Reactivated
  BY <1>7 DEF StartAttempt, PollFlag, IoWaits, IoFails, StageDone, AnnounceActive,
              Reactivated, LeaveStopped, Fail
<1>8. CASE CheckStop \/ DrainInput \/ DrainFails \/ DrainDone \/ ServerQuiet
             \/ ServerFails \/ ServerTerminates \/ ServerDeactivates
  BY <1>8 DEF CheckStop, DrainInput, DrainFails, DrainDone, ServerQuiet, ServerFails,
              ServerTerminates, ServerDeactivates, LeaveStopped, Fail
<1>9. CASE GiveUp \/ Wake \/ ReportError \/ ReportStopped
  BY <1>9 DEF GiveUp, Wake, ReportError, ReportStopped
<1> QED BY <1>1, <1>2, <1>3, <1>4, <1>5, <1>6, <1>7, <1>8, <1>9
        DEF Worker, Connecting, Serving, Unwinding

LEMMA WorkerCommandsNothing == Worker => UNCHANGED want
<1> SUFFICES ASSUME Worker PROVE want' = want
  OBVIOUS
<1>1. CASE Connecting
  BY <1>1 DEF Connecting, StartAttempt, PollFlag, PollRecv, IoWaits, IoFails, StageDone,
              AnnounceActive, BeginActive, Reactivated, LeaveStopped, Fail, clientVars, issued
<1>2. CASE Serving
  BY <1>2 DEF Serving, CheckStop, DrainControl, DrainInput, DrainRecv, DrainFails, DrainDone,
              ServerQuiet, ServerFails, ServerTerminates, ServerDeactivates, LeaveStopped,
              Fail, clientVars, issued
<1>3. CASE Unwinding
  BY <1>3 DEF Unwinding, Retry, GiveUp, Wake, ReportError, ReportStopped, DropReceiver,
              clientVars, issued
<1> QED BY <1>1, <1>2, <1>3 DEF Worker

(* The client's step either commands a toggle, which is then under way, or *)
(* leaves what is under way as it was.                                     *)
LEMMA ClientOwes ==
    ASSUME IInv, Alive, Client
    PROVE  \/ /\ want' \in Toggles /\ ~None(parked', chan', pendingControl')
           \/ /\ want' = want
              /\ None(parked', chan', pendingControl') <=> None(parked, chan, pendingControl)
<1> USE DEF IInv, workerVars, buffers, issued
<1>1. ASSUME NEW c \in Sendable, Send(c)
      PROVE  \/ /\ want' \in Toggles /\ ~None(parked', chan', pendingControl')
             \/ /\ want' = want
                /\ None(parked', chan', pendingControl')
                     <=> None(parked, chan, pendingControl)
  <2>1. /\ c \in Commands /\ chan \in Seq(Commands) /\ parked = <<>>
        /\ want' = IF c \in Toggles THEN c ELSE want
        /\ pendingControl' = pendingControl
    BY <1>1, CommandKinds DEF Send, Record, TypeOK
  <2>2. /\ NoneIn(Append(chan, c), Toggles) <=> c \notin Toggles /\ NoneIn(chan, Toggles)
        /\ NoneIn(<<c>>, Toggles) <=> c \notin Toggles
    <3>1. DOMAIN <<c>> = 1..1 /\ <<c>>[1] = c
      OBVIOUS
    <3>2. NoneIn(<<c>>, Toggles) <=> c \notin Toggles
      BY <3>1 DEF NoneIn
    <3> QED BY <2>1, <3>2, LastInAppend, CommandKinds
  <2>3. NoneIn(<<>>, Toggles)
    BY EmptyHasNone
  <2>4. \/ chan' = Append(chan, c) /\ parked' = <<>>
        \/ chan' = chan /\ parked' = <<c>>
        \/ chan' = chan /\ parked' = <<>> /\ c \notin Toggles
    BY <1>1, <2>1, OpsDiffer, CommandKinds DEF Send, Enqueue, Alive
  <2> QED BY <2>1, <2>2, <2>3, <2>4 DEF None
<1>2. CASE SendUnblocks
  <2>1. /\ chan' = chan \o parked /\ parked' = <<>> /\ want' = want
        /\ pendingControl' = pendingControl
        /\ chan \in Seq(Commands) /\ parked \in Seq(Commands)
    BY <1>2 DEF SendUnblocks, Alive, TypeOK
  <2>2. NoneIn(chan \o parked, Toggles) <=> NoneIn(chan, Toggles) /\ NoneIn(parked, Toggles)
    BY <2>1, LastInConcat, CommandKinds
  <2> QED BY <2>1, <2>2, EmptyHasNone DEF None
<1>3. CASE StopStore \/ StopJoin
  BY <1>3 DEF StopStore, StopJoin
<1>4. CASE StopSend
  <2>1. /\ want' = want /\ parked' = parked /\ pendingControl' = pendingControl
        /\ chan \in Seq(Commands)
        /\ chan' = chan \/ chan' = Append(chan, Stop)
    BY <1>4 DEF StopSend, TypeOK
  <2>2. NoneIn(Append(chan, Stop), Toggles) <=> NoneIn(chan, Toggles)
    <3>1. Stop \in Commands /\ Stop \notin Toggles /\ Suppress \in Toggles
      BY CommandKinds, OpsDiffer
    <3> QED BY <2>1, <3>1, LastInAppend
  <2> QED BY <2>1, <2>2 DEF None
<1> QED BY <1>1, <1>2, <1>3, <1>4 DEF Client

LEMMA ClientForcesNothing == Client => (Alive' <=> Alive) /\ InForce' = InForce
<1> SUFFICES ASSUME Client PROVE (Alive' <=> Alive) /\ InForce' = InForce
  OBVIOUS
<1>1. UNCHANGED <<wpc, phase, failure, latch, shown>>
  BY DEF Client, Send, SendUnblocks, StopStore, StopSend, StopJoin, workerVars, link, buffers,
         serverVars
<1> QED BY <1>1 DEF Alive, InForce, Connected

(* What the register sees of a step.                                       *)
Owes == Alive /\ ~NoneIn(ControlsOnTheWay, Toggles)

LEMMA RegisterStep ==
    ASSUME IInv, IInv', [Next]_vars, Alive, Alive'
    PROVE  \/ want' \in Toggles /\ InForce' = InForce /\ Owes'
           \/ want' = want /\ InForce' = InForce /\ (Owes' <=> Owes)
           \/ want' = want /\ InForce' \in Toggles /\ Owes /\ (Owes' \/ InForce' = want)
           \/ want' = want /\ InForce' = Resume /\ Owes' /\ want = Suppress
<1>1. /\ Owes <=> ~None(parked, chan, pendingControl)
      /\ Owes' <=> ~None(parked', chan', pendingControl')
  BY OwedByParts, OwedByPartsNext DEF Owes, IInv
<1>2. /\ ~Owes => InForce = want
      /\ ~Owes' => InForce' = want'
  <2>1. ~Owes => InForce = want
    <3>1. want \in Toggles
      BY DEF IInv, TypeOK
    <3> QED BY <1>1, <3>1, WinsByParts, NotBoth DEF IInv, Last, None
  <2>2. ~Owes' => InForce' = want'
    <3>1. want' \in Toggles
      BY DEF IInv, TypeOK
    <3>2. \/ Last(parked', chan', pendingControl', want')
          \/ None(parked', chan', pendingControl') /\ InForce' = want'
      BY WinsByPartsNext DEF IInv
    <3> QED BY <1>1, <3>1, <3>2, NotBoth DEF Last, None
  <2> QED BY <2>1, <2>2
<1>3. InForce' \in Toggles
  BY CommandKinds DEF IInv, TypeOK, InForce
<1>4. CASE Client
  BY <1>1, <1>4, ClientOwes, ClientForcesNothing
<1>5. CASE Worker
  <2>1. want' = want
    BY <1>5, WorkerCommandsNothing
  <2>2. CASE Owes
    BY <1>2, <1>3, <2>1, <2>2
  <2>3. CASE ~Owes
    BY <1>1, <1>2, <1>5, <2>1, <2>3, WorkerOwes
  <2> QED BY <2>2, <2>3
<1>6. CASE UNCHANGED vars
  <2>1. UNCHANGED <<want, parked, chan, pendingControl, wpc, phase, latch, shown>>
    BY <1>6 DEF vars, clientVars, issued, workerVars, link, buffers, serverVars
  <2>2. InForce' = InForce
    BY <2>1 DEF InForce, Connected
  <2> QED BY <1>1, <2>1, <2>2
<1> QED BY <1>4, <1>5, <1>6 DEF Next

LEMMA NeverRevived == IInv /\ [Next]_vars /\ ~Alive => ~Alive'
<1> SUFFICES ASSUME IInv, [Next]_vars, ~Alive PROVE ~Alive'
  OBVIOUS
<1> USE DEF link
<1>1. CASE Client
  BY <1>1, ClientForcesNothing
<1>2. CASE Connecting \/ Serving
  <2>1. wpc \notin {"failed", "exit", "stopped", "drop", "dead"}
    BY <1>2 DEF Connecting, StartAttempt, PollFlag, PollRecv, IoWaits, IoFails, StageDone,
                AnnounceActive, BeginActive, Reactivated,
                Serving, CheckStop, DrainControl, DrainInput, DrainRecv, DrainFails,
                DrainDone, ServerQuiet, ServerFails, ServerTerminates, ServerDeactivates
  <2> QED BY <2>1 DEF Alive, IInv, PhaseOK
<1>3. CASE Unwinding
  BY <1>3 DEF Unwinding, Retry, GiveUp, Wake, ReportError, ReportStopped, DropReceiver, Alive
<1>4. CASE UNCHANGED vars
  BY <1>4 DEF vars, workerVars, Alive
<1> QED BY <1>1, <1>2, <1>3, <1>4 DEF Next, Worker

LEMMA IntentStep == IInv /\ IInv' /\ [Next]_vars => [Intent!Next]_(Intent!vars)
<1> SUFFICES ASSUME IInv, IInv', [Next]_vars PROVE [Intent!Next]_(Intent!vars)
  OBVIOUS
<1>1. CASE ~Alive
  <2>1. ~Alive'
    BY <1>1, NeverRevived
  <2> QED BY <1>1, <2>1 DEF Intent!vars
<1>2. CASE Alive /\ ~Alive'
  <2>1. Intent!End
    BY <1>2 DEF Intent!End
  <2> QED BY <2>1 DEF Intent!Next
<1>3. CASE Alive /\ Alive'
  <2>1. CASE want' \in Toggles /\ InForce' = InForce /\ Owes'
    <3>1. Intent!Command(want')
      BY <1>3, <2>1 DEF Intent!Command, Owes
    <3> QED BY <2>1, <3>1 DEF Intent!Next, Toggles
  <2>2. CASE want' = want /\ InForce' = InForce /\ (Owes' <=> Owes)
    BY <1>3, <2>2 DEF Intent!vars, Owes
  <2>3. CASE want' = want /\ InForce' \in Toggles /\ Owes /\ (Owes' \/ InForce' = want)
    <3>1. Intent!Show(InForce')
      BY <1>3, <2>3 DEF Intent!Show, Owes
    <3> QED BY <2>3, <3>1 DEF Intent!Next, Toggles
  <2>4. CASE want' = want /\ InForce' = Resume /\ Owes' /\ want = Suppress
    <3>1. Intent!Restart
      BY <1>3, <2>4, CommandKinds DEF Intent!Restart, Owes
    <3> QED BY <3>1 DEF Intent!Next
  <2> QED BY <1>3, <2>1, <2>2, <2>3, <2>4, RegisterStep
<1> QED BY <1>1, <1>2, <1>3

LEMMA IntentInit == Init => Intent!Init
<1> SUFFICES ASSUME Init PROVE Intent!Init
  OBVIOUS
<1>1. Alive /\ InForce = Resume /\ want = Resume
  BY DEF Init, Alive, InForce, Connected
<1>2. NoneIn(ControlsOnTheWay, Toggles)
  BY IInvInit, OwedByParts, EmptyHasNone DEF Init, IInv, None
<1> QED BY <1>1, <1>2 DEF Intent!Init

(* The safety part of ImplementsDisplayIntent: a session is a register     *)
(* that catches up, at every step and not only once it has settled.  A     *)
(* command puts it in debt, what the worker applies never settles it on    *)
(* anything but the last command, and only a new connection sets it back.  *)
THEOREM RefinesDisplayIntent == Spec => Intent!Init /\ [][Intent!Next]_(Intent!vars)
<1> QED BY IInvInit, IInvStep, IntentInit, IntentStep, PTL DEF Spec

LEMMA RegisterSettles ==
    ASSUME Intent!Settled, [Intent!Next]_(Intent!vars)
    PROVE  Intent!Settled'
<1>1. ASSUME NEW d \in {Resume, Suppress}, Intent!Command(d) PROVE Intent!Settled'
  BY <1>1 DEF Intent!Settled, Intent!Command
<1>2. ASSUME NEW d \in {Resume, Suppress}, Intent!Show(d) PROVE Intent!Settled'
  <2>1. CASE d = IF Alive THEN want ELSE Resume
    BY <1>2, <2>1, Zenon DEF Intent!Settled, Intent!Show
  <2>2. CASE d # IF Alive THEN want ELSE Resume
    BY <1>2, <2>2, Zenon DEF Intent!Settled, Intent!Show
  <2> QED BY <2>1, <2>2
<1>3. CASE Intent!Restart
  BY <1>3, Zenon DEF Intent!Settled, Intent!Restart
<1>4. CASE Intent!End
  BY <1>4 DEF Intent!Settled, Intent!End
<1>5. CASE UNCHANGED Intent!vars
  BY <1>5, Zenon DEF Intent!Settled, Intent!vars
<1> QED BY <1>1, <1>2, <1>3, <1>4, <1>5 DEF Intent!Next

(* Whatever toggles rdp_set_suppress_output saw overtaken, skipped or      *)
(* re-asserted by a retry: a session that owes nothing shows the last one. *)
THEOREM SettlesOnLast == Spec => []Intent!Settled
<1>1. Intent!Init => Intent!Settled
  BY DEF Intent!Init, Intent!Settled
<1> QED BY <1>1, RegisterSettles, RefinesDisplayIntent, PTL

-----------------------------------------------------------------------------
(* Keys.  What is under way ends with the event d of the key k, or has     *)
(* none of k and the server is already where d leaves it.                  *)

EndsBeyond(p, ch, k, d) ==
    \/ LastIn(p, KeyEventsOf(k), d)
    \/ NoneIn(p, KeyEventsOf(k)) /\ LastIn(ch, KeyEventsOf(k), d)

NoneBeyond(p, ch, k) == NoneIn(p, KeyEventsOf(k)) /\ NoneIn(ch, KeyEventsOf(k))

Ends(p, ch, in, down, k, d) ==
    \/ EndsBeyond(p, ch, k, d)
    \/ NoneBeyond(p, ch, k) /\ LastIn(in, KeyEventsOf(k), d)
    \/ /\ NoneBeyond(p, ch, k) /\ NoneIn(in, KeyEventsOf(k))
       /\ k \in down <=> d = Press(k)

(* A connection not in use has pressed nothing; the input it discards when *)
(* it comes into use is older than its announcement.                       *)
KeyInv ==
    /\ ~InUse => serverDown = {}
    /\ Alive => \A k \in Keys \ keysHeld :
          Ends(parked, chan, pendingInput, serverDown, k, Release(k))
    /\ Alive /\ Connected => \A k \in keysSent :
          Ends(parked, chan, pendingInput, serverDown, k, Press(k))
    /\ wpc = "begin" => \A k \in keysSent : EndsBeyond(parked, chan, k, Press(k))

LEMMA KeyEventFacts ==
    /\ \A k : Press(k) # Release(k) /\ Press(k) \in KeyEventsOf(k) /\ Release(k) \in KeyEventsOf(k)
    /\ \A k \in Keys : KeyEventsOf(k) \subseteq Inputs
    /\ \A k : Stop \notin KeyEventsOf(k)
    /\ \A k : \A c \in Controls \cup Moves : c \notin KeyEventsOf(k)
    /\ \A j, k : Press(j) = Press(k) \/ Release(j) = Release(k) => j = k
    /\ \A j, k : Press(j) # Release(k)
<1>1. \A j, k : Press(j) # Release(k)
  BY DEF Press, Release
<1>2. \A k \in Keys : KeyEventsOf(k) \subseteq Inputs
  BY DEF KeyEventsOf, Inputs, KeyEvents
<1>3. \A k : Stop \notin KeyEventsOf(k)
  BY DEF KeyEventsOf, Stop, Press, Release
<1>4. \A k : \A c \in Controls : c \notin KeyEventsOf(k)
  BY DEF KeyEventsOf, Controls, Toggles, Suppress, Resume, Refresh, Press, Release
<1>5. \A k : \A c \in Moves : c \notin KeyEventsOf(k)
  BY DEF KeyEventsOf, Moves, Move, Press, Release
<1>6. ASSUME NEW j, NEW k, Press(j) = Press(k) PROVE j = k
  <2>1. Press(j).key = Press(k).key
    BY <1>6
  <2> QED BY <2>1 DEF Press
<1>7. ASSUME NEW j, NEW k, Release(j) = Release(k) PROVE j = k
  <2>1. Release(j).key = Release(k).key
    BY <1>7
  <2> QED BY <2>1 DEF Release
<1>8. \A k : Press(k) \in KeyEventsOf(k) /\ Release(k) \in KeyEventsOf(k)
  BY DEF KeyEventsOf
<1> QED BY <1>1, <1>2, <1>3, <1>4, <1>5, <1>6, <1>7, <1>8

LEMMA KeysByParts ==
    ASSUME TypeOK, NEW k \in Keys, NEW d \in KeyEventsOf(k),
           Ends(parked, chan, pendingInput, serverDown, k, d)
    PROVE  \/ LastIn(InputsOnTheWay, KeyEventsOf(k), d)
           \/ NoneIn(InputsOnTheWay, KeyEventsOf(k)) /\ (k \in serverDown <=> d = Press(k))
<1>1. /\ pendingInput \in Seq(Commands) /\ chan \in Seq(Commands) /\ parked \in Seq(Commands)
  BY CommandKinds, SeqMonotonic DEF TypeOK
<1> QED BY <1>1, LastInConcat3 DEF InputsOnTheWay, Ends, EndsBeyond, NoneBeyond

LEMMA KeyInvSuffices == IInv /\ KeyInv => NoStuckKey /\ NoLostPress
<1> SUFFICES ASSUME TypeOK, KeyInv PROVE NoStuckKey /\ NoLostPress
  BY DEF IInv
<1>1. NoStuckKey
  <2> SUFFICES ASSUME Alive, NEW k \in Keys \ keysHeld
               PROVE  \/ LastIn(InputsOnTheWay, KeyEventsOf(k), Release(k))
                      \/ NoneIn(InputsOnTheWay, KeyEventsOf(k)) /\ k \notin serverDown
    BY DEF NoStuckKey
  <2>1. Ends(parked, chan, pendingInput, serverDown, k, Release(k))
    BY DEF KeyInv
  <2> QED BY <2>1, KeysByParts, KeyEventFacts
<1>2. NoLostPress
  <2> SUFFICES ASSUME Alive, Connected, NEW k \in keysSent
               PROVE  \/ LastIn(InputsOnTheWay, KeyEventsOf(k), Press(k))
                      \/ NoneIn(InputsOnTheWay, KeyEventsOf(k)) /\ k \in serverDown
    BY DEF NoLostPress
  <2>1. Ends(parked, chan, pendingInput, serverDown, k, Press(k))
    BY DEF KeyInv
  <2>2. k \in Keys
    BY DEF TypeOK
  <2> QED BY <2>1, <2>2, KeysByParts, KeyEventFacts
<1> QED BY <1>1, <1>2

(* Waiting: a move that takes the place of a move changes nothing for a    *)
(* key (poll_stop).                                                        *)
LEMMA BufferedInput ==
    ASSUME NEW s \in Seq(Inputs), NEW c \in Inputs, NEW k \in Keys, NEW d \in KeyEventsOf(k)
    PROVE  /\ LastIn(BufferInput(s, c), KeyEventsOf(k), d) <=>
                c = d \/ (c \notin KeyEventsOf(k) /\ LastIn(s, KeyEventsOf(k), d))
           /\ NoneIn(BufferInput(s, c), KeyEventsOf(k)) <=>
                c \notin KeyEventsOf(k) /\ NoneIn(s, KeyEventsOf(k))
<1>1. CASE c \in Moves /\ s # <<>> /\ s[Len(s)] \in Moves
  <2> DEFINE t == [s EXCEPT ![Len(s)] = c]
  <2>1. BufferInput(s, c) = t
    BY <1>1 DEF BufferInput
  <2>2. /\ DOMAIN t = DOMAIN s /\ Len(s) \in DOMAIN s /\ t[Len(s)] = c
        /\ \A i \in DOMAIN s : i # Len(s) => t[i] = s[i]
    BY <1>1
  <2>3. c \notin KeyEventsOf(k) /\ s[Len(s)] \notin KeyEventsOf(k)
    BY <1>1, KeyEventFacts
  <2> HIDE DEF t
  <2>4. \A i \in DOMAIN s : /\ t[i] = d <=> s[i] = d
                            /\ t[i] \in KeyEventsOf(k) <=> s[i] \in KeyEventsOf(k)
    BY <2>2, <2>3
  <2>5. LastIn(t, KeyEventsOf(k), d) <=> LastIn(s, KeyEventsOf(k), d)
    BY <2>2, <2>4 DEF LastIn
  <2>6. NoneIn(t, KeyEventsOf(k)) <=> NoneIn(s, KeyEventsOf(k))
    BY <2>2, <2>4 DEF NoneIn
  <2> QED BY <2>1, <2>3, <2>5, <2>6
<1>2. CASE ~(c \in Moves /\ s # <<>> /\ s[Len(s)] \in Moves)
  <2>1. BufferInput(s, c) = Append(s, c)
    BY <1>2 DEF BufferInput
  <2> QED BY <2>1, LastInAppend
<1> QED BY <1>1, <1>2

(* What a dispatched command does to a key at the server.                  *)
LEMMA DispatchedKey ==
    ASSUME NEW c, Dispatch(c), NEW k \in Keys, NEW d \in KeyEventsOf(k)
    PROVE  /\ c = d => (k \in serverDown' <=> d = Press(k))
           /\ c \notin KeyEventsOf(k) => (k \in serverDown' <=> k \in serverDown)
<1>1. serverDown' = (serverDown \cup {j \in Keys : c = Press(j)}) \ {j \in Keys : c = Release(j)}
  BY DEF Dispatch, PressedBy, ReleasedBy
<1>2. d = Press(k) \/ d = Release(k)
  BY DEF KeyEventsOf
<1>3. ASSUME c = d PROVE k \in serverDown' <=> d = Press(k)
  BY <1>1, <1>2, <1>3, KeyEventFacts
<1>4. ASSUME c \notin KeyEventsOf(k) PROVE k \in serverDown' <=> k \in serverDown
  BY <1>1, <1>4 DEF KeyEventsOf
<1> QED BY <1>3, <1>4

(* A step that touches nothing a key is about.                             *)
LEMMA KeysKept ==
    ASSUME IInv, KeyInv,
           UNCHANGED <<parked, keysHeld, keysSent, chan, pendingInput, serverDown>>,
           Alive' => Alive, Alive' /\ Connected' => Connected,
           wpc' = "begin" => wpc = "begin", ~InUse' => ~InUse
    PROVE  KeyInv'
  BY DEF KeyInv

(* The connection is gone, or the worker past applying commands.           *)
LEMMA KeysDropped ==
    ASSUME KeyInv, serverDown' = {}, ~Connected', wpc' # "begin",
           UNCHANGED <<parked, keysHeld, chan>>,
           pendingInput' = pendingInput \/ pendingInput' = <<>>,
           Alive' => Alive
    PROVE  KeyInv'
<1>1. ASSUME Alive', NEW k \in Keys \ keysHeld
      PROVE  Ends(parked, chan, pendingInput', {}, k, Release(k))
  <2>1. Ends(parked, chan, pendingInput, serverDown, k, Release(k))
    BY <1>1 DEF KeyInv
  <2>2. NoneIn(<<>>, KeyEventsOf(k))
    BY EmptyHasNone
  <2> QED BY <2>1, <2>2, KeyEventFacts DEF Ends
<1> QED BY <1>1 DEF KeyInv

LEMMA KeysLeft ==
    ASSUME LeaveStopped PROVE KeyInv'
  BY DEF LeaveStopped, Disconnect, KeyInv, Alive, Connected

LEMMA KeysFailed ==
    ASSUME IInv, KeyInv, UNCHANGED <<chan, stop>>,
           Fail("fatal") \/ (Fail("ultimatum") /\ wpc \in {"io", "pdu"})
    PROVE  KeyInv'
<1>1. /\ serverDown' = {} /\ ~Connected' /\ wpc' # "begin"
      /\ UNCHANGED <<parked, keysHeld, chan, pendingInput>>
  BY DEF Fail, Disconnect, Connected, clientVars, issued, buffers
<1>2. Alive' => Alive
  BY DEF Fail, Alive, IInv, PhaseOK
<1> QED BY <1>1, <1>2, KeysDropped

LEMMA ClientKeys ==
    ASSUME IInv, KeyInv, Client
    PROVE  KeyInv'
<1>1. UNCHANGED <<wpc, phase, failure, pendingInput, serverDown>>
  BY DEF Client, Send, SendUnblocks, StopStore, StopSend, StopJoin, workerVars, link, buffers,
         serverVars
<1>2. (InUse' <=> InUse) /\ (Connected' <=> Connected) /\ (Alive' <=> Alive)
  BY <1>1 DEF InUse, Connected, Alive
<1>3. ASSUME NEW c \in Sendable, Send(c) PROVE KeyInv'
  <2>1. /\ c \in Commands /\ chan \in Seq(Commands) /\ parked = <<>>
        /\ keysHeld' = (keysHeld \cup PressedBy(c)) \ ReleasedBy(c)
        /\ keysSent' \subseteq (keysSent \cup PressedBy(c)) \ ReleasedBy(c)
        /\ PressedBy(c) \cap keysHeld = {} /\ keysSent \subseteq keysHeld /\ keysHeld \subseteq Keys
    BY <1>3, CommandKinds DEF Send, Record, Plausible, IInv, TypeOK
  <2>2. Alive => \/ chan' = Append(chan, c) /\ parked' = <<>>
                 \/ chan' = chan /\ parked' = <<c>>
                 \/ chan' = chan /\ parked' = <<>> /\ c \in Moves
    BY <1>3, <2>1 DEF Send, Enqueue, Alive
  <2>3. ASSUME Alive, NEW k \in Keys, NEW d \in KeyEventsOf(k)
        PROVE  /\ c = d => EndsBeyond(parked', chan', k, d)
               /\ c \notin KeyEventsOf(k) =>
                    /\ EndsBeyond(parked, chan, k, d) => EndsBeyond(parked', chan', k, d)
                    /\ NoneBeyond(parked, chan, k) => NoneBeyond(parked', chan', k)
    <3>1. /\ LastIn(Append(chan, c), KeyEventsOf(k), d)
                <=> c = d \/ (c \notin KeyEventsOf(k) /\ LastIn(chan, KeyEventsOf(k), d))
          /\ NoneIn(Append(chan, c), KeyEventsOf(k))
                <=> c \notin KeyEventsOf(k) /\ NoneIn(chan, KeyEventsOf(k))
      BY <2>1, LastInAppend
    <3>2. /\ LastIn(<<c>>, KeyEventsOf(k), d) <=> c = d
          /\ NoneIn(<<c>>, KeyEventsOf(k)) <=> c \notin KeyEventsOf(k)
      <4>1. DOMAIN <<c>> = 1..1 /\ <<c>>[1] = c
        OBVIOUS
      <4> QED BY <2>3, <4>1 DEF LastIn, NoneIn
    <3>3. NoneIn(<<>>, KeyEventsOf(k)) /\ ~LastIn(<<>>, KeyEventsOf(k), d)
      BY EmptyHasNone
    <3>4. c \in Moves => c # d
      BY KeyEventFacts
    <3> QED BY <2>1, <2>2, <2>3, <3>1, <3>2, <3>3, <3>4 DEF EndsBeyond, NoneBeyond
  <2>4. ASSUME Alive, NEW k \in Keys \ keysHeld'
        PROVE  Ends(parked', chan', pendingInput, serverDown, k, Release(k))
    <3>1. CASE c = Release(k)
      BY <2>3, <2>4, <3>1, KeyEventFacts DEF Ends
    <3>2. CASE c # Release(k)
      <4>1. c # Press(k) /\ k \notin keysHeld
        BY <2>1, <2>4, <3>2, KeyEventFacts DEF PressedBy, ReleasedBy
      <4>2. Ends(parked, chan, pendingInput, serverDown, k, Release(k))
        BY <2>4, <4>1 DEF KeyInv
      <4> QED BY <2>3, <2>4, <3>2, <4>1, <4>2 DEF Ends, KeyEventsOf
    <3> QED BY <3>1, <3>2
  <2>5. ASSUME NEW k \in keysSent'
        PROVE  c = Press(k) \/ (c \notin KeyEventsOf(k) /\ k \in keysSent)
    BY <2>1, <2>5 DEF PressedBy, ReleasedBy, KeyEventsOf
  <2>6. keysSent' \subseteq Keys
    BY <2>1 DEF PressedBy
  <2>7. ASSUME Alive, Connected, NEW k \in keysSent'
        PROVE  Ends(parked', chan', pendingInput, serverDown, k, Press(k))
    <3>1. CASE c = Press(k)
      BY <2>3, <2>6, <2>7, <3>1, KeyEventFacts DEF Ends
    <3>2. CASE c \notin KeyEventsOf(k) /\ k \in keysSent
      <4>1. Ends(parked, chan, pendingInput, serverDown, k, Press(k))
        BY <2>7, <3>2 DEF KeyInv
      <4> QED BY <2>3, <2>6, <2>7, <3>2, <4>1, KeyEventFacts DEF Ends
    <3> QED BY <2>5, <3>1, <3>2
  <2>8. ASSUME wpc = "begin", NEW k \in keysSent'
        PROVE  EndsBeyond(parked', chan', k, Press(k))
    <3>1. Alive
      BY <2>8 DEF IInv, PhaseOK, Alive
    <3>2. CASE c = Press(k)
      BY <2>3, <2>6, <3>1, <3>2, KeyEventFacts
    <3>3. CASE c \notin KeyEventsOf(k) /\ k \in keysSent
      BY <2>3, <2>6, <2>8, <3>1, <3>3, KeyEventFacts DEF KeyInv
    <3> QED BY <2>5, <3>2, <3>3
  <2> QED BY <1>1, <1>2, <2>4, <2>7, <2>8 DEF KeyInv
<1>4. CASE SendUnblocks
  <2>1. /\ keysHeld' = keysHeld /\ keysSent' = keysSent /\ keysSent \subseteq Keys
        /\ chan \in Seq(Commands) /\ parked \in Seq(Commands) /\ parked' = <<>>
        /\ wpc # "dead" => chan' = chan \o parked
    BY <1>4 DEF SendUnblocks, issued, IInv, TypeOK
  <2>2. ASSUME wpc # "dead", NEW k \in Keys, NEW d \in KeyEventsOf(k)
        PROVE  /\ EndsBeyond(parked, chan, k, d) => EndsBeyond(parked', chan', k, d)
               /\ NoneBeyond(parked, chan, k) => NoneBeyond(parked', chan', k)
    <3>1. /\ LastIn(chan \o parked, KeyEventsOf(k), d) <=>
                LastIn(parked, KeyEventsOf(k), d)
                  \/ (NoneIn(parked, KeyEventsOf(k)) /\ LastIn(chan, KeyEventsOf(k), d))
          /\ NoneIn(chan \o parked, KeyEventsOf(k)) <=>
                NoneIn(chan, KeyEventsOf(k)) /\ NoneIn(parked, KeyEventsOf(k))
      BY <2>1, LastInConcat
    <3>2. NoneIn(<<>>, KeyEventsOf(k))
      BY EmptyHasNone
    <3> QED BY <2>1, <2>2, <3>1, <3>2 DEF EndsBeyond, NoneBeyond
  <2>3. (Alive => wpc # "dead") /\ (wpc = "begin" => wpc # "dead")
    BY DEF Alive
  <2>4. \A k \in Keys : Press(k) \in KeyEventsOf(k) /\ Release(k) \in KeyEventsOf(k)
    BY KeyEventFacts
  <2> QED BY <1>1, <1>2, <2>1, <2>2, <2>3, <2>4 DEF KeyInv, Ends
<1>5. CASE StopStore \/ StopJoin
  BY <1>1, <1>2, <1>5, KeysKept DEF StopStore, StopJoin, issued
<1>6. CASE StopSend
  <2>1. /\ keysHeld' = keysHeld /\ keysSent' = keysSent /\ parked' = parked
        /\ keysSent \subseteq Keys /\ chan \in Seq(Commands)
        /\ chan' = chan \/ chan' = Append(chan, Stop)
    BY <1>6 DEF StopSend, issued, IInv, TypeOK
  <2>2. ASSUME NEW k \in Keys, NEW d \in KeyEventsOf(k)
        PROVE  /\ EndsBeyond(parked, chan, k, d) => EndsBeyond(parked', chan', k, d)
               /\ NoneBeyond(parked, chan, k) => NoneBeyond(parked', chan', k)
    <3>1. Stop \in Commands /\ Stop \notin KeyEventsOf(k)
      BY CommandKinds, KeyEventFacts
    <3>2. /\ LastIn(Append(chan, Stop), KeyEventsOf(k), d)
                <=> Stop = d \/ (Stop \notin KeyEventsOf(k) /\ LastIn(chan, KeyEventsOf(k), d))
          /\ NoneIn(Append(chan, Stop), KeyEventsOf(k))
                <=> Stop \notin KeyEventsOf(k) /\ NoneIn(chan, KeyEventsOf(k))
      BY <2>1, <3>1, LastInAppend
    <3> QED BY <2>1, <3>1, <3>2 DEF EndsBeyond, NoneBeyond
  <2>3. \A k \in Keys : Press(k) \in KeyEventsOf(k) /\ Release(k) \in KeyEventsOf(k)
    BY KeyEventFacts
  <2> QED BY <1>1, <1>2, <2>1, <2>2, <2>3 DEF KeyInv, Ends
<1> QED BY <1>3, <1>4, <1>5, <1>6 DEF Client

(* What was to be last stays so.                                           *)
KeysFollow ==
    \A k \in Keys : \A d \in KeyEventsOf(k) :
        Ends(parked, chan, pendingInput, serverDown, k, d)
          => Ends(parked', chan', pendingInput', serverDown', k, d)

LEMMA FollowedKeys ==
    ASSUME IInv, KeyInv, KeysFollow, UNCHANGED <<keysHeld, keysSent>>, wpc' # "begin",
           ~InUse' => serverDown' = {}, Alive' => Alive, Connected' => Connected
    PROVE  KeyInv'
<1>1. keysSent \subseteq Keys
  BY DEF IInv, TypeOK
<1>2. ASSUME Alive', NEW k \in Keys \ keysHeld'
      PROVE  Ends(parked', chan', pendingInput', serverDown', k, Release(k))
  <2>1. k \in Keys \ keysHeld /\ Release(k) \in KeyEventsOf(k)
    BY <1>2, KeyEventFacts
  <2>2. Ends(parked, chan, pendingInput, serverDown, k, Release(k))
    BY <1>2, <2>1 DEF KeyInv
  <2> QED BY <2>1, <2>2 DEF KeysFollow
<1>3. ASSUME Alive', Connected', NEW k \in keysSent'
      PROVE  Ends(parked', chan', pendingInput', serverDown', k, Press(k))
  <2>1. k \in keysSent /\ k \in Keys /\ Press(k) \in KeyEventsOf(k)
    BY <1>1, <1>3, KeyEventFacts
  <2>2. Ends(parked, chan, pendingInput, serverDown, k, Press(k))
    BY <1>3, <2>1 DEF KeyInv
  <2> QED BY <2>1, <2>2 DEF KeysFollow
<1> QED BY <1>2, <1>3 DEF KeyInv

(* The oldest command leaves the channel.                                  *)
LEMMA TakenKey ==
    ASSUME NEW p, NEW s \in Seq(Commands), s # <<>>, NEW k, NEW d \in KeyEventsOf(k)
    PROVE  /\ EndsBeyond(p, s, k, d) =>
                \/ EndsBeyond(p, Tail(s), k, d)
                \/ NoneBeyond(p, Tail(s), k) /\ Head(s) = d
           /\ NoneBeyond(p, s, k) =>
                NoneBeyond(p, Tail(s), k) /\ Head(s) \notin KeyEventsOf(k)
<1>1. /\ LastIn(s, KeyEventsOf(k), d) <=>
             LastIn(Tail(s), KeyEventsOf(k), d)
               \/ (NoneIn(Tail(s), KeyEventsOf(k)) /\ Head(s) = d)
      /\ NoneIn(s, KeyEventsOf(k)) <=>
             Head(s) \notin KeyEventsOf(k) /\ NoneIn(Tail(s), KeyEventsOf(k))
  BY LastInTail
<1> QED BY <1>1 DEF EndsBeyond, NoneBeyond

LEMMA ConnectingKeys ==
    ASSUME IInv, KeyInv, Connecting
    PROVE  KeyInv'
<1> USE DEF IInv, clientVars, issued, link, buffers, serverVars
<1>1. CASE StartAttempt
  <2>1. (Alive' => Alive) /\ ~Connected' /\ wpc' # "begin" /\ ~InUse
    BY <1>1 DEF StartAttempt, PhaseOK, InUse, Connected, Alive
  <2> QED BY <1>1, <2>1, KeysKept DEF StartAttempt
<1>2. CASE PollFlag
  <2>1. CASE stop
    BY <1>2, <2>1, KeysLeft DEF PollFlag
  <2>2. CASE ~stop
    <3>1. (Alive' => Alive) /\ (Connected' => Connected) /\ wpc' # "begin" /\ (InUse' <=> InUse)
      BY <1>2, <2>2 DEF PollFlag, InUse, Connected, Alive
    <3> QED BY <1>2, <2>2, <3>1, KeysKept DEF PollFlag
  <2> QED BY <2>1, <2>2
<1>3. CASE PollRecv
  <2>1. CASE chan = <<>>
    <3>1. (Alive' => Alive) /\ (Connected' => Connected) /\ wpc' # "begin" /\ (InUse' <=> InUse)
      BY <1>3, <2>1 DEF PollRecv, InUse, Connected, Alive
    <3> QED BY <1>3, <2>1, <3>1, KeysKept DEF PollRecv
  <2>2. CASE chan # <<>> /\ Head(chan) = Stop
    <3>1. LeaveStopped
      BY <1>3, <2>2, OpsDiffer DEF PollRecv
    <3> QED BY <3>1, KeysLeft
  <2>3. CASE chan # <<>> /\ Head(chan) # Stop
    <3>1. /\ chan' = Tail(chan)
          /\ UNCHANGED <<clientVars, wpc, link, latch, serverVars>> /\ wpc = "recv"
          /\ \/ /\ Head(chan) \in Inputs
                /\ pendingInput' = BufferInput(pendingInput, Head(chan))
             \/ Head(chan) \in Controls /\ pendingInput' = pendingInput
      BY <1>3, <2>3 DEF PollRecv
    <3>2. ASSUME NEW k \in Keys, NEW d \in KeyEventsOf(k)
          PROVE  Ends(parked, chan, pendingInput, serverDown, k, d)
                   => Ends(parked', chan', pendingInput', serverDown', k, d)
      <4>1. /\ EndsBeyond(parked, chan, k, d) =>
                 \/ EndsBeyond(parked', chan', k, d)
                 \/ NoneBeyond(parked', chan', k) /\ Head(chan) = d
            /\ NoneBeyond(parked, chan, k) =>
                 NoneBeyond(parked', chan', k) /\ Head(chan) \notin KeyEventsOf(k)
        BY <2>3, <3>1, TakenKey DEF TypeOK
      <4>2. CASE Head(chan) \in Inputs /\ pendingInput' = BufferInput(pendingInput, Head(chan))
        <5>1. /\ LastIn(pendingInput', KeyEventsOf(k), d) <=>
                   \/ Head(chan) = d
                   \/ Head(chan) \notin KeyEventsOf(k)
                        /\ LastIn(pendingInput, KeyEventsOf(k), d)
              /\ NoneIn(pendingInput', KeyEventsOf(k)) <=>
                   Head(chan) \notin KeyEventsOf(k) /\ NoneIn(pendingInput, KeyEventsOf(k))
          BY <4>2, BufferedInput DEF TypeOK
        <5> QED BY <3>1, <4>1, <5>1 DEF Ends
      <4>3. CASE Head(chan) \in Controls /\ pendingInput' = pendingInput
        <5>1. Head(chan) # d
          BY <4>3, KeyEventFacts
        <5> QED BY <3>1, <4>1, <4>3, <5>1 DEF Ends
      <4> QED BY <3>1, <4>2, <4>3
    <3>3. KeysFollow
      BY <3>2 DEF KeysFollow
    <3>4. (Alive' => Alive) /\ (Connected' => Connected) /\ (InUse' <=> InUse)
      BY <3>1 DEF InUse, Connected, Alive
    <3>5. ~InUse' => serverDown' = {}
      BY <3>1, <3>4 DEF KeyInv
    <3> QED BY <3>1, <3>3, <3>4, <3>5, FollowedKeys
  <2> QED BY <2>1, <2>2, <2>3
<1>4. CASE IoWaits
  <2>1. (Alive' => Alive) /\ (Connected' => Connected) /\ wpc' # "begin" /\ (InUse' <=> InUse)
    BY <1>4 DEF IoWaits, InUse, Connected, Alive
  <2> QED BY <1>4, <2>1, KeysKept DEF IoWaits
<1>5. CASE IoFails
  BY <1>5, KeysFailed DEF IoFails
<1>6. CASE StageDone
  <2>1. (Alive' => Alive) /\ ~Connected' /\ wpc' # "begin" /\ ~InUse
    BY <1>6 DEF StageDone, NextPhase, InUse, Connected, Alive
  <2> QED BY <1>6, <2>1, KeysKept DEF StageDone
<1>7. CASE AnnounceActive
  <2>1. (Alive' => Alive) /\ ~InUse /\ keysSent' = {}
    BY <1>7 DEF AnnounceActive, InUse, Connected, Alive
  <2>2. UNCHANGED <<parked, keysHeld, chan, pendingInput, serverDown>>
    BY <1>7 DEF AnnounceActive
  <2> QED BY <2>1, <2>2 DEF KeyInv
<1>8. CASE BeginActive
  <2>1. /\ Alive /\ ~InUse /\ serverDown' = {} /\ serverDown = {} /\ pendingInput' = <<>>
        /\ UNCHANGED <<parked, keysHeld, keysSent, chan>> /\ wpc = "begin" /\ wpc' # "begin"
    BY <1>8 DEF BeginActive, PhaseOK, KeyInv, InUse, Alive
  <2>2. ASSUME NEW k \in Keys \ keysHeld
        PROVE  Ends(parked', chan', pendingInput', serverDown', k, Release(k))
    <3>1. Ends(parked, chan, pendingInput, serverDown, k, Release(k))
      BY <2>1 DEF KeyInv
    <3>2. NoneIn(<<>>, KeyEventsOf(k))
      BY EmptyHasNone
    <3> QED BY <2>1, <3>1, <3>2, KeyEventFacts DEF Ends
  <2>3. ASSUME NEW k \in keysSent
        PROVE  Ends(parked', chan', pendingInput', serverDown', k, Press(k))
    <3>1. EndsBeyond(parked, chan, k, Press(k))
      BY <2>1 DEF KeyInv
    <3> QED BY <2>1, <3>1 DEF Ends
  <2> QED BY <2>1, <2>2, <2>3 DEF KeyInv
<1>9. CASE Reactivated
  <2>1. (Alive' => Alive) /\ (Connected' => Connected) /\ wpc' # "begin" /\ InUse'
    BY <1>9 DEF Reactivated, PhaseOK, InUse, Connected, Alive
  <2> QED BY <1>9, <2>1, KeysKept DEF Reactivated, InUse, Connected
<1> QED BY <1>1, <1>2, <1>3, <1>4, <1>5, <1>6, <1>7, <1>8, <1>9 DEF Connecting

(* A key whose deciding event is dispatched is left at the server as the   *)
(* event says.                                                             *)
LEMMA ServingKeys ==
    ASSUME IInv, KeyInv, Serving
    PROVE  KeyInv'
<1> USE DEF IInv, clientVars, issued, link, buffers, serverVars
<1>1. CASE CheckStop
  <2>1. CASE stop
    BY <1>1, <2>1, KeysLeft DEF CheckStop
  <2>2. CASE ~stop
    <3>1. (Alive' => Alive) /\ (Connected' => Connected) /\ wpc' # "begin" /\ (InUse' <=> InUse)
      BY <1>1, <2>2 DEF CheckStop, InUse, Connected, Alive
    <3> QED BY <1>1, <2>2, <3>1, KeysKept DEF CheckStop
  <2> QED BY <2>1, <2>2
<1>2. CASE DrainControl
  <2>1. /\ Dispatch(Head(pendingControl)) /\ wpc = "drain"
        /\ UNCHANGED <<clientVars, chan, wpc, link, pendingInput>>
        /\ Head(pendingControl) \in Controls
    BY <1>2 DEF DrainControl, TypeOK
  <2>2. ASSUME NEW k \in Keys, NEW d \in KeyEventsOf(k)
        PROVE  Ends(parked, chan, pendingInput, serverDown, k, d)
                 => Ends(parked', chan', pendingInput', serverDown', k, d)
    <3>1. Head(pendingControl) \notin KeyEventsOf(k)
      BY <2>1, KeyEventFacts
    <3>2. k \in serverDown' <=> k \in serverDown
      BY <2>1, <3>1, DispatchedKey
    <3> QED BY <2>1, <3>2 DEF Ends
  <2>3. KeysFollow
    BY <2>2 DEF KeysFollow
  <2>4. InUse' /\ (Alive' => Alive) /\ (Connected' => Connected) /\ wpc' # "begin"
    BY <2>1 DEF PhaseOK, InUse, Connected, Alive
  <2> QED BY <2>1, <2>3, <2>4, FollowedKeys
<1>3. CASE DrainInput
  <2>1. /\ Dispatch(Head(pendingInput)) /\ wpc = "drain" /\ pendingInput # <<>>
        /\ pendingInput' = Tail(pendingInput)
        /\ UNCHANGED <<clientVars, chan, wpc, link>>
    BY <1>3 DEF DrainInput
  <2>2. ASSUME NEW k \in Keys, NEW d \in KeyEventsOf(k)
        PROVE  Ends(parked, chan, pendingInput, serverDown, k, d)
                 => Ends(parked', chan', pendingInput', serverDown', k, d)
    <3>1. /\ LastIn(pendingInput, KeyEventsOf(k), d) <=>
               \/ LastIn(pendingInput', KeyEventsOf(k), d)
               \/ NoneIn(pendingInput', KeyEventsOf(k)) /\ Head(pendingInput) = d
          /\ NoneIn(pendingInput, KeyEventsOf(k)) <=>
               /\ Head(pendingInput) \notin KeyEventsOf(k)
               /\ NoneIn(pendingInput', KeyEventsOf(k))
      BY <2>1, LastInTail DEF TypeOK
    <3>2. /\ Head(pendingInput) = d => (k \in serverDown' <=> d = Press(k))
          /\ Head(pendingInput) \notin KeyEventsOf(k) => (k \in serverDown' <=> k \in serverDown)
      BY <2>1, DispatchedKey
    <3> QED BY <2>1, <3>1, <3>2 DEF Ends
  <2>3. KeysFollow
    BY <2>2 DEF KeysFollow
  <2>4. InUse' /\ (Alive' => Alive) /\ (Connected' => Connected) /\ wpc' # "begin"
    BY <2>1 DEF PhaseOK, InUse, Connected, Alive
  <2> QED BY <2>1, <2>3, <2>4, FollowedKeys
<1>4. CASE DrainRecv
  <2>1. CASE Head(chan) = Stop
    BY <1>4, <2>1, KeysLeft DEF DrainRecv
  <2>2. CASE Head(chan) # Stop
    <3>1. /\ Dispatch(Head(chan)) /\ wpc = "drain" /\ chan # <<>> /\ chan' = Tail(chan)
          /\ pendingInput = <<>> /\ pendingInput' = <<>>
          /\ UNCHANGED <<clientVars, wpc, link>>
      BY <1>4, <2>2 DEF DrainRecv
    <3>2. ASSUME NEW k \in Keys, NEW d \in KeyEventsOf(k)
          PROVE  Ends(parked, chan, pendingInput, serverDown, k, d)
                   => Ends(parked', chan', pendingInput', serverDown', k, d)
      <4>1. /\ EndsBeyond(parked, chan, k, d) =>
                 \/ EndsBeyond(parked', chan', k, d)
                 \/ NoneBeyond(parked', chan', k) /\ Head(chan) = d
            /\ NoneBeyond(parked, chan, k) =>
                 NoneBeyond(parked', chan', k) /\ Head(chan) \notin KeyEventsOf(k)
        BY <3>1, TakenKey DEF TypeOK
      <4>2. /\ Head(chan) = d => (k \in serverDown' <=> d = Press(k))
            /\ Head(chan) \notin KeyEventsOf(k) => (k \in serverDown' <=> k \in serverDown)
        BY <3>1, DispatchedKey
      <4>3. NoneIn(<<>>, KeyEventsOf(k)) /\ ~LastIn(<<>>, KeyEventsOf(k), d)
        BY EmptyHasNone
      <4> QED BY <3>1, <4>1, <4>2, <4>3 DEF Ends
    <3>3. KeysFollow
      BY <3>2 DEF KeysFollow
    <3>4. InUse' /\ (Alive' => Alive) /\ (Connected' => Connected) /\ wpc' # "begin"
      BY <3>1 DEF PhaseOK, InUse, Connected, Alive
    <3> QED BY <3>1, <3>3, <3>4, FollowedKeys
  <2> QED BY <2>1, <2>2
<1>5. CASE DrainFails
  BY <1>5, KeysFailed DEF DrainFails
<1>6. CASE DrainDone
  <2>1. CASE stop
    BY <1>6, <2>1, KeysLeft DEF DrainDone
  <2>2. CASE ~stop
    <3>1. (Alive' => Alive) /\ (Connected' => Connected) /\ wpc' # "begin" /\ (InUse' <=> InUse)
      BY <1>6, <2>2 DEF DrainDone, InUse, Connected, Alive
    <3> QED BY <1>6, <2>2, <3>1, KeysKept DEF DrainDone
  <2> QED BY <2>1, <2>2
<1>7. CASE ServerQuiet
  <2>1. (Alive' => Alive) /\ (Connected' => Connected) /\ wpc' # "begin" /\ (InUse' <=> InUse)
    BY <1>7 DEF ServerQuiet, InUse, Connected, Alive
  <2> QED BY <1>7, <2>1, KeysKept DEF ServerQuiet
<1>8. CASE ServerFails
  BY <1>8, KeysFailed DEF ServerFails
<1>9. CASE ServerTerminates
  BY <1>9, KeysFailed DEF ServerTerminates
<1>10. CASE ServerDeactivates
  <2>1. (Alive' => Alive) /\ Connected /\ wpc' # "begin" /\ InUse'
    BY <1>10 DEF ServerDeactivates, PhaseOK, InUse, Connected, Alive
  <2> QED BY <1>10, <2>1, KeysKept DEF ServerDeactivates
<1> QED
  BY <1>1, <1>2, <1>3, <1>4, <1>5, <1>6, <1>7, <1>8, <1>9, <1>10 DEF Serving

LEMMA UnwindingKeys ==
    ASSUME IInv, KeyInv, Unwinding
    PROVE  KeyInv'
<1> USE DEF IInv, clientVars, issued, link, buffers, serverVars
<1>1. CASE Retry
  <2>1. ~InUse /\ ~Connected' /\ wpc' # "begin" /\ (Alive' => Alive)
    BY <1>1 DEF Retry, PhaseOK, InUse, Connected, Alive
  <2>2. serverDown' = {}
    BY <1>1, <2>1 DEF Retry, KeyInv
  <2> QED BY <1>1, <2>1, <2>2, KeysDropped DEF Retry
<1>2. CASE Wake
  <2>1. (Alive' => Alive) /\ (Connected' => Connected) /\ wpc' # "begin" /\ (InUse' <=> InUse)
    BY <1>2 DEF Wake, InUse, Connected, Alive
  <2> QED BY <1>2, <2>1, KeysKept DEF Wake
<1>3. CASE GiveUp \/ ReportError \/ ReportStopped \/ DropReceiver
  <2>1. ~Alive' /\ wpc' # "begin" /\ ~InUse /\ serverDown' = serverDown
    BY <1>3 DEF GiveUp, ReportError, ReportStopped, DropReceiver, Alive, PhaseOK, InUse,
                Connected
  <2> QED BY <2>1 DEF KeyInv
<1> QED BY <1>1, <1>2, <1>3 DEF Unwinding

LEMMA KeyInit == Init => KeyInv
<1> SUFFICES ASSUME Init PROVE KeyInv
  OBVIOUS
<1>1. ~Connected /\ wpc # "begin" /\ serverDown = {}
  BY DEF Init, Connected
<1>2. ASSUME NEW k \in Keys
      PROVE  Ends(parked, chan, pendingInput, serverDown, k, Release(k))
  <2>1. NoneIn(<<>>, KeyEventsOf(k))
    BY EmptyHasNone
  <2> QED BY <1>1, <2>1, KeyEventFacts DEF Init, Ends, NoneBeyond
<1> QED BY <1>1, <1>2 DEF KeyInv

LEMMA KeyStep == IInv /\ KeyInv /\ [Next]_vars => KeyInv'
<1> SUFFICES ASSUME IInv, KeyInv, [Next]_vars PROVE KeyInv'
  OBVIOUS
<1>1. CASE UNCHANGED vars
  <2>1. (Alive' => Alive) /\ (Connected' => Connected) /\ (InUse' <=> InUse) /\ wpc' = wpc
    BY <1>1 DEF vars, workerVars, link, InUse, Connected, Alive
  <2> QED BY <1>1, <2>1, KeysKept
          DEF vars, clientVars, issued, workerVars, buffers, serverVars
<1> QED BY <1>1, ClientKeys, ConnectingKeys, ServingKeys, UnwindingKeys DEF Next, Worker

(* A released key is up at the server or its release is on its way,        *)
(* whatever is coalesced, buffered, discarded or retried in between, for   *)
(* every channel depth, number of attempts and set of keys.                *)
THEOREM ReleasesArrive == Spec => []NoStuckKey
<1> QED BY IInvInit, IInvStep, KeyInit, KeyStep, KeyInvSuffices, PTL DEF Spec

(* A key pressed since this connection was announced and still held is     *)
(* down at the server or its press is on its way: the input run_active     *)
(* discards is older than the announcement.                                *)
THEOREM PressesArrive == Spec => []NoLostPress
<1> QED BY IInvInit, IInvStep, KeyInit, KeyStep, KeyInvSuffices, PTL DEF Spec

----------------------------------------------------------------------------
(* After rdp_session_stop has returned.                                    *)

(* The join returns when the worker has ended, and a worker that has ended *)
(* takes no step: this is the whole reason why nothing follows the return. *)
JoinedDead == cpc = "joined" => wpc = "dead"

LEMMA DeadWorkerRests == ASSUME wpc = "dead" PROVE ~Worker
  BY DEF Worker, Connecting, Serving, Unwinding, StartAttempt, PollFlag, PollRecv, IoWaits,
     IoFails, StageDone, AnnounceActive, BeginActive, Reactivated, CheckStop, DrainControl,
     DrainInput, DrainRecv, DrainFails, DrainDone, ServerQuiet, ServerFails, ServerTerminates,
     ServerDeactivates, Retry, GiveUp, Wake, ReportError, ReportStopped, DropReceiver

LEMMA ClientTellsNobody == Client => UNCHANGED <<wpc, announced, serverVars>>
  BY DEF Client, Send, SendUnblocks, StopStore, StopSend, StopJoin, workerVars, serverVars

LEMMA JoinedStep == JoinedDead /\ [Next]_vars => JoinedDead'
<1> SUFFICES ASSUME JoinedDead, [Next]_vars PROVE JoinedDead'
  OBVIOUS
<1>1. CASE Client
  <2>1. wpc' = wpc /\ (cpc' = "joined" => wpc = "dead")
    BY <1>1 DEF Client, Send, SendUnblocks, StopStore, StopSend, StopJoin, workerVars, JoinedDead
  <2> QED BY <2>1 DEF JoinedDead
<1>2. CASE Worker
  <2>1. cpc # "joined"
    BY <1>2, DeadWorkerRests DEF JoinedDead
  <2>2. cpc' = cpc
    BY <1>2 DEF Worker, Connecting, Serving, Unwinding, StartAttempt, PollFlag, PollRecv, IoWaits,
       IoFails, StageDone, AnnounceActive, BeginActive, Reactivated, CheckStop, DrainControl,
       DrainInput, DrainRecv, DrainFails, DrainDone, ServerQuiet, ServerFails, ServerTerminates,
       ServerDeactivates, Retry, GiveUp, Wake, ReportError, ReportStopped, DropReceiver,
       LeaveStopped, Fail, clientVars, issued
  <2> QED BY <2>1, <2>2 DEF JoinedDead
<1>3. CASE UNCHANGED vars
  BY <1>3 DEF vars, clientVars, workerVars, JoinedDead
<1> QED BY <1>1, <1>2, <1>3 DEF Next

(* Once rdp_session_stop has returned, the state callback is not called    *)
(* and the server is told nothing, for every channel depth and however the *)
(* stop found the worker.                                                  *)
THEOREM StoppedIsQuiet == Spec => QuietAfterStop
<1>1. Init => JoinedDead
  BY DEF Init, JoinedDead
<1>2. JoinedDead /\ [Next]_vars => [cpc = "joined" => UNCHANGED <<announced, serverVars>>]_vars
  BY DeadWorkerRests, ClientTellsNobody DEF JoinedDead, Next
<1> QED BY <1>1, <1>2, JoinedStep, PTL DEF Spec, QuietAfterStop
=============================================================================
