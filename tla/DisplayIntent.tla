---------------------------- MODULE DisplayIntent ----------------------------
(***************************************************************************)
(* What a session promises the client that toggles its display updates     *)
(* (rdp_set_suppress_output): a register that catches up.  Toggles that    *)
(* are overtaken may be skipped and a fresh connection starts by showing,  *)
(* but the session never settles on anything but the last command, and it  *)
(* always settles again unless it ends.                                    *)
(***************************************************************************)
CONSTANTS On, Off

VARIABLES
    want,   \* last commanded
    shown,  \* in force
    owed,   \* commands are still under way
    over    \* the session has ended

vars == <<want, shown, owed, over>>

Init == want = On /\ shown = On /\ owed = FALSE /\ over = FALSE

Command(d) ==
    /\ ~over
    /\ want' = d /\ owed' = TRUE
    /\ UNCHANGED <<shown, over>>

(* A command takes effect; only the last one settles the register.         *)
Show(d) ==
    /\ ~over /\ owed
    /\ shown' = d
    /\ owed' \in (IF d = want THEN BOOLEAN ELSE {TRUE})
    /\ UNCHANGED <<want, over>>

(* A fresh connection has to be told again.                                *)
Restart ==
    /\ ~over
    /\ shown' = On
    /\ owed' = (owed \/ want # On)
    /\ UNCHANGED <<want, over>>

End ==
    /\ ~over
    /\ over' = TRUE
    /\ want' = On /\ shown' = On /\ owed' = FALSE

Next == (\E d \in {On, Off} : Command(d) \/ Show(d)) \/ Restart \/ End

Settles == []<>(~owed \/ over)

Spec == Init /\ [][Next]_vars /\ Settles

(* What the specification comes to: a register that owes nothing shows     *)
(* what was commanded last, whatever was skipped or restarted on the way.  *)
Settled == ~owed => shown = want
=============================================================================
