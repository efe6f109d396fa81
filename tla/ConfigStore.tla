---------------------------- MODULE ConfigStore ----------------------------
(***************************************************************************)
(* The saved settings (settings_json.c, config_paths.c, main.c): a file in *)
(* one of several candidate directories, the first that can be written for *)
(* saving and the first that holds a readable file for loading.  Disks     *)
(* fill up, a reaper removes directories, and the process may die at any   *)
(* step.                                                                   *)
(*                                                                         *)
(* What a file holds is the number of the save that wrote it.  A candidate *)
(* that belongs to somebody else is neither read nor written and is left   *)
(* out.  What was renamed stays, as it does when a process dies; a power   *)
(* cut before the disk is synced is not modelled.                          *)
(***************************************************************************)
EXTENDS Naturals

CONSTANTS
    Candidates,     \* directories, in order of priority
    MaxSaves,       \* bound: saves
    MaxMishaps      \* bound: disks that fill up or are freed, reaped directories, crashes

ASSUME ConfigConstants ==
    Candidates \in Nat \ {0} /\ MaxSaves \in Nat /\ MaxMishaps \in Nat

VARIABLES
    dir,        \* candidate -> "ok", "full" (or read-only), "gone"
    file, temp, \* candidate -> settings.json and its .tmp
    cached,     \* cached_path, NoPath without have_cached_path
    saver,      \* step of the save, the candidate it probes, whether it is the last try
    saves, mishaps,
    stored,     \* the last save that returned true
    calm,       \* the disks have not changed since the save began
    excused     \* a directory was removed with its file, or refused with one in it

configVars == <<dir, file, temp, cached, saver, saves, mishaps, stored, calm, excused>>

Paths == 1 .. Candidates
NoPath == 0
Absent == [version |-> 0, whole |-> TRUE]
Holds(p) == file[p].version # 0
Ready == [step |-> "idle", at |-> 1, last |-> FALSE]
Exited == [Ready EXCEPT !.step = "down"]

ConfigInit ==
    /\ dir \in [Paths -> {"ok", "full", "gone"}]
    /\ file = [p \in Paths |-> Absent] /\ temp = file
    /\ cached = NoPath /\ saver = Ready
    /\ saves = 0 /\ mishaps = 0 /\ stored = 0
    /\ calm = TRUE /\ excused = FALSE

\* native_config_load_persisted: the first candidate whose file parses; 0 for the
\* defaults.
Loaded ==
    LET readable == {p \in Paths : Holds(p) /\ file[p].whole} IN
    IF readable = {} THEN 0
    ELSE file[CHOOSE p \in readable : \A q \in readable : p <= q].version

----------------------------------------------------------------------------
(* native_config_save_persisted                                            *)

Save ==
    /\ saver.step = "idle" /\ saves < MaxSaves
    /\ saves' = saves + 1
    /\ saver' = [Ready EXCEPT !.step = IF cached = NoPath THEN "probe" ELSE "open"]
    /\ calm' = TRUE
    /\ UNCHANGED <<dir, file, temp, cached, mishaps, stored, excused>>

\* native_config_find_persisted_save_candidate: creates the directory and writes a
\* byte to it.
Probe ==
    /\ saver.step = "probe"
    /\ IF saver.at > Candidates
       THEN saver' = Ready /\ UNCHANGED <<dir, cached, excused>>
       ELSE IF dir[saver.at] = "full"
       THEN /\ saver' = [saver EXCEPT !.at = @ + 1]
            /\ excused' = (excused \/ Holds(saver.at))
            /\ UNCHANGED <<dir, cached>>
       ELSE /\ dir' = [dir EXCEPT ![saver.at] = "ok"]
            /\ cached' = saver.at
            /\ saver' = [step |-> "open", at |-> 1, last |-> TRUE]
            /\ UNCHANGED excused
    /\ UNCHANGED <<file, temp, saves, mishaps, stored, calm>>

\* Mutant: gives up when the cached path does not take the file.
FailsAtOnce == saver' = Ready /\ cached' = NoPath

\* The cached path failed: every candidate is tried, in the same call.
Fails ==
    IF saver.last THEN saver' = Ready /\ UNCHANGED cached
    ELSE saver' = [Ready EXCEPT !.step = "probe"] /\ cached' = NoPath

(* native_settings_save_file                                               *)

\* Mutant: removes the settings before their replacement is written.
OpenRemoving ==
    /\ saver.step = "open"
    /\ IF dir[cached] = "ok"
       THEN /\ temp' = [temp EXCEPT ![cached] = [version |-> saves, whole |-> FALSE]]
            /\ file' = [file EXCEPT ![cached] = Absent]
            /\ saver' = [saver EXCEPT !.step = "write"]
            /\ UNCHANGED cached
       ELSE Fails /\ UNCHANGED <<file, temp>>
    /\ UNCHANGED <<dir, saves, mishaps, stored, calm, excused>>

Open ==
    /\ saver.step = "open"
    /\ IF dir[cached] = "ok"
       THEN /\ temp' = [temp EXCEPT ![cached] = [version |-> saves, whole |-> FALSE]]
            /\ saver' = [saver EXCEPT !.step = "write"]
            /\ UNCHANGED cached
       ELSE Fails /\ UNCHANGED temp
    /\ UNCHANGED <<dir, file, saves, mishaps, stored, calm, excused>>

\* Removing the temporary file may fail as well; the next save removes it.
Discard == temp' = temp \/ temp' = [temp EXCEPT ![cached] = Absent]

\* Mutant: the outcome of fclose is not looked at.
WriteUnchecked ==
    /\ saver.step = "write"
    /\ IF dir[cached] # "full"
       THEN temp' = [temp EXCEPT ![cached].whole = TRUE]
       ELSE UNCHANGED temp
    /\ saver' = [saver EXCEPT !.step = "rename"]
    /\ UNCHANGED <<dir, file, cached, saves, mishaps, stored, calm, excused>>

Write ==
    /\ saver.step = "write"
    /\ IF dir[cached] # "full"
       THEN /\ temp' = [temp EXCEPT ![cached].whole = TRUE]
            /\ saver' = [saver EXCEPT !.step = "rename"]
            /\ UNCHANGED cached
       ELSE Fails /\ Discard
    /\ UNCHANGED <<dir, file, saves, mishaps, stored, calm, excused>>

\* A full disk may still allow it, a read-only one does not.
Replace ==
    /\ dir[cached] # "gone"
    /\ file' = [file EXCEPT ![cached] = temp[cached]]
    /\ temp' = [temp EXCEPT ![cached] = Absent]
    /\ saver' = Ready
    /\ stored' = saves
    /\ excused' = (excused /\ \E q \in Paths : q < cached /\ Holds(q))
    /\ UNCHANGED cached

Rename ==
    /\ saver.step = "rename"
    /\ \/ Replace
       \/ dir[cached] # "ok" /\ Fails /\ Discard /\ UNCHANGED <<file, stored, excused>>
    /\ UNCHANGED <<dir, saves, mishaps, calm>>

----------------------------------------------------------------------------
(* What happens to the disks and to the process.                           *)

Disk(p) ==
    /\ mishaps < MaxMishaps
    /\ mishaps' = mishaps + 1
    /\ calm' = FALSE
    /\ \/ /\ dir[p] = "ok" /\ dir' = [dir EXCEPT ![p] = "full"]
          /\ UNCHANGED <<file, temp, excused>>
       \/ /\ dir[p] = "full" /\ dir' = [dir EXCEPT ![p] = "ok"]
          /\ UNCHANGED <<file, temp, excused>>
       \/ /\ dir[p] # "gone" /\ dir' = [dir EXCEPT ![p] = "gone"]
          /\ file' = [file EXCEPT ![p] = Absent]
          /\ temp' = [temp EXCEPT ![p] = Absent]
          /\ excused' = (excused \/ Holds(p))
    /\ UNCHANGED <<cached, saver, saves, stored>>

Crash ==
    /\ saver.step \notin {"idle", "down"} /\ mishaps < MaxMishaps
    /\ mishaps' = mishaps + 1
    /\ saver' = Exited
    /\ UNCHANGED <<dir, file, temp, cached, saves, stored, calm, excused>>

Quit ==
    /\ saver.step = "idle"
    /\ saver' = Exited
    /\ UNCHANGED <<dir, file, temp, cached, saves, mishaps, stored, calm, excused>>

\* The new process knows of no path.
Launch ==
    /\ saver.step = "down"
    /\ saver' = Ready /\ cached' = NoPath
    /\ UNCHANGED <<dir, file, temp, saves, mishaps, stored, calm, excused>>

ConfigNext ==
    \/ Save \/ Probe \/ Open \/ Write \/ Rename
    \/ \E p \in Paths : Disk(p)
    \/ Crash \/ Quit \/ Launch

ConfigSpec == ConfigInit /\ [][ConfigNext]_configVars

----------------------------------------------------------------------------
Contents == [version : 0 .. MaxSaves, whole : BOOLEAN]
Progress == [step : {"idle", "probe", "open", "write", "rename", "down"},
             at : 1 .. Candidates + 1, last : BOOLEAN]

\* Every variable keeps to its type.
ConfigTypeOK ==
    /\ dir \in [Paths -> {"ok", "full", "gone"}]
    /\ file \in [Paths -> Contents] /\ temp \in [Paths -> Contents]
    /\ cached \in Paths \cup {NoPath}
    /\ saver \in Progress
    /\ saves \in 0 .. MaxSaves /\ stored \in 0 .. MaxSaves /\ mishaps \in 0 .. MaxMishaps
    /\ calm \in BOOLEAN /\ excused \in BOOLEAN

\* Whenever the process dies, the next one loads what was last reported as saved
\* (native_settings_save_file, native_config_load_persisted), unless its directory
\* was removed, or one of higher priority was refused while it held a file: that
\* file then hides the newer one.
SavedComesBack == ~excused => Loaded = stored

Cell == INSTANCE SavedCell
    WITH begun <- saves, saving <- saver.step \notin {"idle", "down"},
         acked <- stored, cell <- Loaded, hidden <- excused

\* Saving is atomic: what a start would load changes only in the step that makes a save
\* succeed, to that save, or when a directory is removed, to an older one; a save that is
\* refused, fails half way or is killed changes nothing (native_settings_save_file).
ImplementsSavedCell == Cell!Spec

\* A save during which the disks do not change is only refused if no candidate can
\* be written, whatever became of the cached path or of a crashed save before it
\* ("so a save that just captured the user's updated credentials is not lost until
\* the next connect", main.c).
SaveFindsRoom ==
    [][saver.step \notin {"idle", "down"} /\ saver'.step = "idle" /\ stored' # saves
       => ~calm \/ \A p \in Paths : dir[p] = "full"]_configVars
=============================================================================
