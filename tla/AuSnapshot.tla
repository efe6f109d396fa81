------------------------------ MODULE AuSnapshot ------------------------------
(***************************************************************************)
(* The compressed-AU snapshot of native/src/au_snapshot.c: the access      *)
(* units of one connection, kept from the newest IDR on, so that feeding   *)
(* them again puts a decoder where the server's next delta expects it.     *)
(*                                                                         *)
(* An access unit is its serial number on its connection and its kind:     *)
(* "idr", "delta", or "config" for a unit the transport flags as a         *)
(* keyframe although it only carries parameter sets.  Lengths are left     *)
(* out: whether a unit still fits the byte buffer is the caller's choice.  *)
(***************************************************************************)
EXTENDS Naturals, Sequences

CONSTANT MaxEntries   \* NATIVE_AU_SNAPSHOT_MAX_AUS

ASSUME EntriesAssumption == MaxEntries \in Nat \ {0}

Kinds == {"idr", "config", "delta"}
AUs   == [n : Nat \ {0}, kind : Kinds]

(* is_keyframe, the transport's flag, as opposed to the scan for an IDR.   *)
IsKeyframe(au) == au.kind \in {"idr", "config"}

(* A disarmed snapshot holds nothing; has_idr is "aus is not empty".       *)
Disarmed == [armed |-> FALSE, aus |-> <<>>]
Armed    == [armed |-> TRUE,  aus |-> <<>>]

(* native_au_snapshot_append: an IDR restarts the snapshot, anything       *)
(* before the first IDR is skipped, an overflow of either limit voids it,  *)
(* and a disarmed snapshot takes nothing.                                  *)
Cache(snap, au, fits) ==
    LET kept == IF au.kind = "idr" THEN <<>> ELSE snap.aus
        skip == au.kind # "idr" /\ snap.aus = <<>>
    IN  IF ~snap.armed \/ skip THEN snap
        ELSE IF ~fits \/ Len(kept) >= MaxEntries THEN Disarmed
        ELSE [armed |-> TRUE, aus |-> Append(kept, au)]

(* native_au_snapshot_ready                                                *)
Ready(snap) == snap.armed /\ snap.aus # <<>>

(* What a replay needs: an IDR, and each later unit the successor of the   *)
(* one before it.                                                          *)
Whole(aus) ==
    /\ aus # <<>> => aus[1].kind = "idr"
    /\ \A i \in 1 .. Len(aus) - 1 : aus[i + 1].n = aus[i].n + 1
===============================================================================
