----------------------------- MODULE SavedCell -----------------------------
(***************************************************************************)
(* What saving the settings promises, without disks, candidates and files: *)
(* one cell that a save replaces in a single step, when it is acknowledged,*)
(* or not at all, whatever it fails of.  A loss shows an older save        *)
(* instead, until one is acknowledged that nothing older hides.            *)
(***************************************************************************)
EXTENDS Naturals

VARIABLES
    begun,      \* saves begun; each has its number
    saving,     \* whether the last of them is under way
    acked,      \* the last save acknowledged
    cell,       \* the save a start of the process would find, 0 for none
    hidden      \* an older save may be found in place of the last

vars == <<begun, saving, acked, cell, hidden>>

Init ==
    /\ begun = 0 /\ acked = 0 /\ cell = 0
    /\ saving = FALSE /\ hidden = FALSE

Begin ==
    /\ ~saving /\ saving' = TRUE
    /\ begun' = begun + 1
    /\ UNCHANGED <<acked, cell, hidden>>

Acknowledge ==
    /\ saving /\ saving' = FALSE
    /\ acked' = begun
    /\ \/ cell' = begun /\ hidden' \in {hidden, FALSE}
       \/ hidden /\ UNCHANGED <<cell, hidden>>
    /\ UNCHANGED begun

(* Refused, failed or killed: what was there is there.                     *)
GiveUp ==
    /\ saving /\ saving' = FALSE
    /\ UNCHANGED <<begun, acked, cell, hidden>>

(* The save passes over a place that holds an older one.                   *)
Hide ==
    /\ saving /\ hidden' = TRUE
    /\ UNCHANGED <<begun, saving, acked, cell>>

Lose ==
    /\ hidden' = TRUE
    /\ cell' \in 0 .. acked
    /\ UNCHANGED <<begun, saving, acked>>

Next == Begin \/ Acknowledge \/ GiveUp \/ Hide \/ Lose

Spec == Init /\ [][Next]_vars

(* Nothing lost or hidden, a start finds the save acknowledged last.       *)
Durable == ~hidden => cell = acked
=============================================================================
