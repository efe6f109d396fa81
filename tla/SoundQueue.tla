----------------------------- MODULE SoundQueue -----------------------------
(***************************************************************************)
(* What a source of the audio pipeline promises its listener: a bounded    *)
(* queue between a producer and a converter that share no lock.  Frames    *)
(* are heard in the order they were pushed, unchanged and at most once.    *)
(* The oldest may be dropped unheard, but never by the converter, and what *)
(* the converter takes was pushed under the very format and talkspurt it   *)
(* has applied.                                                            *)
(***************************************************************************)
EXTENDS Integers

CONSTANT Capacity

VARIABLES
    first, next,    \* the frames first .. next - 1 of the stream are queued
    frame,          \* what was pushed as each of them
    now,            \* the stamp (generation and talkspurt) of what is pushed
    applied,        \* the stamp of what is heard
    converting

vars == <<first, next, frame, now, applied, converting>>

Stamps == [generation : Nat, spurt : Nat]
Upto(a, b) == a.generation <= b.generation /\ a.spurt <= b.spurt

Pushed(i) == [index |-> i, generation |-> now.generation, spurt |-> now.spurt]
Start == [generation |-> 0, spurt |-> 0]

Init ==
    /\ first = 0 /\ next = 0
    /\ now = Start /\ applied = Start
    /\ frame = [i \in first .. next - 1 |-> Pushed(i)]
    /\ converting = FALSE

Push ==
    /\ next' > next /\ next' <= first + Capacity
    /\ frame' = [i \in first .. next' - 1 |-> IF i < next THEN frame[i] ELSE Pushed(i)]
    /\ UNCHANGED <<first, now, applied, converting>>

(* A new format, a close or a talkspurt; the next push carries it.         *)
Renew ==
    /\ now' \in Stamps /\ now' # now /\ Upto(now, now')
    /\ UNCHANGED <<first, next, frame, applied, converting>>

Keep == frame' = [i \in first' .. next - 1 |-> frame[i]]

(* The oldest frames go unheard; a stamp may be applied with it, and then  *)
(* nothing older stays.                                                    *)
Drop ==
    /\ ~converting
    /\ first' \in first .. next /\ Keep
    /\ applied' \in Stamps /\ Upto(applied, applied') /\ Upto(applied', now)
    /\ \A i \in first' .. next - 1 : Upto(applied', frame[i])
    /\ UNCHANGED <<next, now, converting>>

Turn ==
    /\ converting' = ~converting
    /\ UNCHANGED <<first, next, frame, now, applied>>

Convert ==
    /\ converting /\ converting' = FALSE
    /\ first' \in first + 1 .. next /\ Keep
    /\ \A i \in first .. first' - 1 : Upto(frame[i], applied) /\ Upto(applied, frame[i])
    /\ UNCHANGED <<next, now, applied>>

Next == Push \/ Renew \/ Drop \/ Turn \/ Convert

Spec == Init /\ [][Next]_vars
=============================================================================
