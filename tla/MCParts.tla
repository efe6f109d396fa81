------------------------------ MODULE MCParts ------------------------------
(***************************************************************************)
(* The parts of the application that share no state with one another, side *)
(* by side: the audio ring, the log, the system volume, the keys held down *)
(* and the saved settings.  Steps of parts that share nothing commute, so  *)
(* a run in which one part moves and the others rest shows all that can be *)
(* seen of that part: focus, chosen at the start, names it.                *)
(***************************************************************************)
EXTENDS AudioSource, CategoryLog, LunaVolume, HeldInput, ConfigStore

VARIABLE focus

Parts == {"audio", "log", "volume", "held", "config"}

Init ==
    /\ focus \in Parts
    /\ AudioInit /\ LogInit /\ VolumeInit /\ HeldInit /\ ConfigInit
    /\ focus = "held" \/ screen = CHOOSE s \in Sessions : TRUE
    /\ focus = "config" \/ dir = [p \in Paths |-> "ok"]

besidesAudio == <<focus, logVars, volumeVars, heldVars, configVars>>
besidesLog == <<focus, audioVars, volumeVars, heldVars, configVars>>
besidesVolume == <<focus, audioVars, logVars, heldVars, configVars>>
besidesHeld == <<focus, audioVars, logVars, volumeVars, configVars>>
besidesConfig == <<focus, audioVars, logVars, volumeVars, heldVars>>
vars == <<besidesConfig, configVars>>

Next ==
    \/ focus = "audio" /\ AudioNext /\ UNCHANGED besidesAudio
    \/ focus = "log" /\ LogNext /\ UNCHANGED besidesLog
    \/ focus = "volume" /\ VolumeNext /\ UNCHANGED besidesVolume
    \/ focus = "held" /\ HeldNext /\ UNCHANGED besidesHeld
    \/ focus = "config" /\ ConfigNext /\ UNCHANGED besidesConfig

\* The fairness each part states.  Only the steps of the part in focus can be
\* enabled, so one condition may stand for a step of several parts.
Fairness ==
    /\ WF_vars(\/ focus = "audio" /\ Consumer /\ UNCHANGED besidesAudio
               \/ focus = "log" /\ NewLevel /\ UNCHANGED besidesLog
               \/ focus = "volume" /\ Loop /\ UNCHANGED besidesVolume)
    /\ WF_vars(\/ focus = "audio" /\ Pushing /\ UNCHANGED besidesAudio
               \/ focus = "volume" /\ Ticking /\ UNCHANGED besidesVolume)
    /\ WF_vars(\/ focus = "audio" /\ Elapse /\ UNCHANGED besidesAudio
               \/ focus = "volume" /\ Stall /\ UNCHANGED besidesVolume)
    /\ \A s \in Setters : WF_vars(focus = "log" /\ Setting(s) /\ UNCHANGED besidesLog)
    /\ \A l \in Loggers : WF_vars(focus = "log" /\ Logging(l) /\ UNCHANGED besidesLog)
    /\ SF_vars(focus = "volume" /\ Polling /\ UNCHANGED besidesVolume)

Spec == Init /\ [][Next]_vars /\ Fairness

----------------------------------------------------------------------------
\* Every variable of every part keeps to its type.
TypeOK ==
    /\ focus \in Parts
    /\ AudioTypeOK /\ LogTypeOK /\ VolumeTypeOK /\ HeldTypeOK /\ ConfigTypeOK
=============================================================================
