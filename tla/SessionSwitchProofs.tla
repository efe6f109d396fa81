------------------------- MODULE SessionSwitchProofs -------------------------
(***************************************************************************)
(* What holds of the sessions of native/src/main.c (SessionSwitch) for     *)
(* every number of slots and every bound, and of the snapshot of access    *)
(* units they replay from (AuSnapshot) for every snapshot and unit.        *)
(*                                                                         *)
(* The order: the snapshot; types, action by action; what each composed    *)
(* operation does to its slot and to the others; Core, the invariant that  *)
(* everything after it uses, here and in SessionReplayProofs.              *)
(***************************************************************************)
EXTENDS SessionSwitch, WellFoundedInduction, TLAPS

-----------------------------------------------------------------------------
(* The snapshot.                                                           *)

Snapshots == [armed : BOOLEAN, aus : Seq(AUs)]

(* The unit continues the chain: an IDR starts one, anything else is the   *)
(* server's next unit after the last one cached.                           *)
Continues(snap, au) ==
    au.kind # "idr" /\ snap.aus # <<>> => au.n = snap.aus[Len(snap.aus)].n + 1

(* The outcomes of native_au_snapshot_append, one by one: the unit is      *)
(* skipped, voids the snapshot, restarts it, or extends the chain.         *)
LEMMA CacheCases ==
    ASSUME NEW snap \in Snapshots, NEW au \in AUs, NEW fits \in BOOLEAN
    PROVE  LET result == Cache(snap, au, fits) IN
           \/ result = snap /\ (~snap.armed \/ (au.kind # "idr" /\ snap.aus = <<>>))
           \/ result = Disarmed
           \/ snap.armed /\ au.kind = "idr" /\ result = [armed |-> TRUE, aus |-> <<au>>]
           \/ /\ snap.armed /\ au.kind # "idr" /\ snap.aus # <<>>
              /\ Len(snap.aus) < MaxEntries
              /\ result = [armed |-> TRUE, aus |-> Append(snap.aus, au)]
<1>1. CASE ~snap.armed \/ (au.kind # "idr" /\ snap.aus = <<>>)
  BY <1>1 DEF Cache
<1>2. CASE snap.armed /\ au.kind = "idr"
  <2>1. Append(<<>>, au) = <<au>>
    OBVIOUS
  <2> QED
    BY <1>2, <2>1 DEF Cache
<1>3. CASE snap.armed /\ au.kind # "idr" /\ snap.aus # <<>>
  <2>1. Len(snap.aus) \in Nat /\ MaxEntries \in Nat
    BY EntriesAssumption DEF Snapshots
  <2> QED
    BY <1>3, <2>1 DEF Cache
<1> QED
  BY <1>1, <1>2, <1>3 DEF Snapshots

(* native_au_snapshot_append never leaves a chain that a decoder could not *)
(* follow: the cached units stay consecutive from an IDR on, within the    *)
(* bound, and an accepted unit is the last one of the chain.               *)
THEOREM CacheKeepsChain ==
    ASSUME NEW snap \in Snapshots, NEW au \in AUs, NEW fits \in BOOLEAN,
           Whole(snap.aus), Len(snap.aus) <= MaxEntries, Continues(snap, au)
    PROVE  LET result == Cache(snap, au, fits) IN
           /\ result \in Snapshots
           /\ Whole(result.aus)
           /\ Len(result.aus) <= MaxEntries
           /\ snap.armed /\ Ready(result) => result.aus[Len(result.aus)] = au
<1> DEFINE result == Cache(snap, au, fits)
           Kept(r) == /\ r \in Snapshots
                      /\ Whole(r.aus)
                      /\ Len(r.aus) <= MaxEntries
                      /\ snap.armed /\ Ready(r) => r.aus[Len(r.aus)] = au
<1> SUFFICES Kept(result)
  OBVIOUS
<1>0. snap.aus \in Seq(AUs) /\ snap.armed \in BOOLEAN /\ MaxEntries \in Nat /\ MaxEntries >= 1
  BY EntriesAssumption DEF Snapshots
<1>1. CASE result = snap /\ (~snap.armed \/ (au.kind # "idr" /\ snap.aus = <<>>))
  BY <1>0, <1>1 DEF Ready, Snapshots
<1>2. CASE result = Disarmed
  BY <1>0, <1>2 DEF Disarmed, Snapshots, Whole, Ready
<1>3. CASE au.kind = "idr" /\ result = [armed |-> TRUE, aus |-> <<au>>]
  BY <1>0, <1>3 DEF Snapshots, Whole, Ready
<1>4. CASE /\ au.kind # "idr" /\ snap.aus # <<>> /\ Len(snap.aus) < MaxEntries
           /\ result = [armed |-> TRUE, aus |-> Append(snap.aus, au)]
  <2> DEFINE n == Len(snap.aus)
             longer == Append(snap.aus, au)
  <2>1. n \in Nat /\ n >= 1 /\ n < MaxEntries
    BY <1>0, <1>4
  <2>2. longer \in Seq(AUs) /\ Len(longer) = n + 1 /\ longer[n + 1] = au
    BY <1>0
  <2>3. \A i \in 1 .. n : longer[i] = snap.aus[i]
    BY <1>0
  <2>4. longer[1].kind = "idr"
    BY <1>4, <2>1, <2>3 DEF Whole
  <2>5. \A i \in 1 .. n : longer[i + 1].n = longer[i].n + 1
    <3>1. TAKE i \in 1 .. n
    <3>2. CASE i = n
      BY <1>4, <2>1, <2>2, <2>3, <3>2 DEF Continues
    <3>3. CASE i # n
      <4>1. i \in 1 .. n - 1 /\ i + 1 \in 1 .. n
        BY <2>1, <3>3
      <4> QED
        BY <2>3, <4>1 DEF Whole
    <3> QED
      BY <3>2, <3>3
  <2>6. Whole(longer)
    BY <2>1, <2>2, <2>4, <2>5 DEF Whole
  <2> DEFINE r == [armed |-> TRUE, aus |-> longer]
  <2> HIDE DEF longer, n
  <2>7. r \in Snapshots /\ r.aus = longer /\ Len(longer) = n + 1 /\ longer[n + 1] = au
    BY <2>2 DEF Snapshots
  <2>8. n + 1 <= MaxEntries
    BY <1>0, <2>1
  <2> HIDE DEF r
  <2>9. Len(r.aus) <= MaxEntries /\ r.aus[Len(r.aus)] = au
    BY <2>7, <2>8
  <2>10. Kept(r)
    BY <2>6, <2>7, <2>9
  <2> QED
    BY <1>4, <2>10 DEF r, longer
<1> HIDE DEF result
<1> QED
  BY <1>1, <1>2, <1>3, <1>4, CacheCases DEF result

-----------------------------------------------------------------------------
(* The least and the greatest of a finite set of numbers.                  *)
Less == {ss \in Nat \X Nat : ss[1] < ss[2]}

LEMMA LessWellFounded == IsWellFoundedOn(Less, Nat)
BY NatLessThanWellFounded DEF OpToRel, Less

LEMMA Least ==
  ASSUME NEW S \in SUBSET Nat, S # {}
  PROVE \E x \in S : \A y \in S : x <= y
<1>1. PICK x \in S : \A y \in S : ~ (<<y, x>> \in Less)
  BY LessWellFounded, WFMin
<1>2. \A a, b \in Nat : a < b => <<a, b>> \in Less
  BY DEF Less
<1>3. x \in Nat /\ \A y \in S : y \in Nat /\ ~ (y < x)
  BY <1>1, <1>2
<1>4. \A a, b \in Nat : ~(a < b) => b <= a
  OBVIOUS
<1> QED BY <1>3, <1>4

LEMMA Greatest ==
  ASSUME NEW n \in Nat, NEW S \in SUBSET (1 .. n), S # {}
  PROVE \E x \in S : \A y \in S : y <= x
<1> DEFINE T == {m \in Nat : \E x \in S : m = n - x}
<1>1. T # {} /\ T \subseteq Nat
  <2>1. PICK x \in S : TRUE 
    OBVIOUS
  <2>2. n - x \in T
    OBVIOUS
  <2> QED BY <2>2
<1>2. PICK m \in T : \A k \in T : m <= k
  BY <1>1, Least
<1>3. PICK x \in S : m = n - x
  OBVIOUS
<1>4. \A y \in S : y <= x
  <2>1. TAKE y \in S
  <2>2. n - y \in T
    OBVIOUS
  <2> QED BY <1>2, <1>3, <2>2
<1> QED BY <1>4

-----------------------------------------------------------------------------

Switching == {"switch", "flip", "demote", "promote", "replay", "wake", "prepare"}
Pcs == Switching \cup {"input", "scan", "filled", "deferred", "watchdog", "deadline", "renew",
                       "drain", "bury", "connect", "leave"}
Units == [n : Nat \ {0}, kind : {"idr", "config", "delta"}]
Commands == {"suppress", "resume", "refresh"}

SlotsOK == slot \in [Slots -> SlotType]
Links == [told : Seq(Commands), out : BOOLEAN, owes : BOOLEAN, sent : Nat,
          hand : {"none", "behind", "front", "fed", "failing"},
          au : [n : Nat, kind : {"idr", "config", "delta"}]]
LinksOK == link \in [Slots -> Links]
UnitSnapshots == [armed : BOOLEAN, aus : Seq(Units)]
CachesOK == cache \in [Slots -> [snap : UnitSnapshots, ready : BOOLEAN, quiet : BOOLEAN]]
LoopOK ==
    sdl \in [pc : Pcs, at : Slots \cup {NoSlot}, goal : Slots \cup {NoSlot}, old : Slots \cup {NoSlot},
             back : {"input", "scan", "watchdog", "bury"}, seen : BOOLEAN, left : Seq(Units),
             fed : BOOLEAN]
DecoderOK ==
    decoder \in [owner : Slots \cup {NoSlot}, live : BOOLEAN, gate : {"idr", "open"}, last : Nat,
                 whole : BOOLEAN, pending : BOOLEAN, audio : BOOLEAN]
ScreenOK ==
    /\ active \in Slots /\ target \in Slots \cup {NoSlot} /\ request \in Slots \cup {NoSlot}
    /\ streaming \in BOOLEAN /\ refresh \in BOOLEAN
    /\ watchdog \in [on : BOOLEAN, used : BOOLEAN]
    /\ budget \in [presses : Nat, failures : Nat, drops : Nat, sets : Nat]
TypesOK == SlotsOK /\ LinksOK /\ CachesOK /\ LoopOK /\ DecoderOK /\ ScreenOK

(* What a slot keeps agrees with where its worker is; it fills or is       *)
(* suppressed, not both; a unit in the worker's hand is the one it sent    *)
(* last.                                                                   *)
StateAt(s) ==
    /\ slot[s].rdp <=> slot[s].state # "idle"
    /\ slot[s].filling \/ slot[s].suppressed => slot[s].rdp
    /\ ~(slot[s].filling /\ slot[s].suppressed)
    /\ link[s].hand \in {"behind", "front", "fed"} =>
          slot[s].state = "active" /\ link[s].au.n = link[s].sent /\ link[s].au.n # 0
    /\ link[s].hand = "failing" => slot[s].state = "over"
StateOK == \A s \in Slots : StateAt(s)

(* Where the SDL thread can be, and what its locals mean there.            *)
PlaceOK ==
    /\ sdl.pc \in Switching => sdl.goal \in Slots /\ slot[sdl.goal].rdp /\ sdl.back # "input"
    /\ sdl.pc \in {"flip", "prepare"} => sdl.goal # active
    /\ sdl.pc \in {"demote", "promote", "replay", "wake"} => sdl.goal = active
    /\ sdl.pc \in {"demote", "leave"} => sdl.old \in Slots \ {active}
    /\ sdl.pc = "filled" =>
          sdl.at \in Slots \ {active} /\ slot[sdl.at].rdp /\ slot[sdl.at].filling
    /\ sdl.pc = "bury" \/ (sdl.pc \in Switching /\ sdl.back = "bury") => sdl.at \in Slots
    /\ sdl.pc = "deferred" => target # NoSlot
    /\ sdl.pc = "connect" => request # NoSlot
    /\ request # NoSlot =>
          /\ request = active /\ target = NoSlot /\ ~streaming /\ ~slot[active].rdp
          /\ sdl.pc \in {"leave", "scan", "filled", "watchdog", "deadline", "drain", "connect"}
    /\ slot[active].filling \/ slot[active].suppressed => sdl.pc \in {"demote", "promote"}
    /\ sdl.pc \in {"demote", "leave"} => ~slot[sdl.old].filling

-----------------------------------------------------------------------------
(* Types: one lemma per operation, XTyped, that it keeps the types of what *)
(* it writes; then one per group of actions.                               *)

LEMMA Empty == \A S : <<>> \in Seq(S)
  OBVIOUS

LEMMA SnapTyped ==
    /\ Disarmed \in UnitSnapshots /\ Armed \in UnitSnapshots
    /\ \A snap \in Snaps : snap \in UnitSnapshots /\ snap.aus = <<>>
<1>1. Disarmed \in UnitSnapshots /\ Armed \in UnitSnapshots
  BY Empty DEF Disarmed, Armed, UnitSnapshots
<1>2. Disarmed.aus = <<>> /\ Armed.aus = <<>>
  BY DEF Disarmed, Armed
<1> QED BY <1>1, <1>2 DEF Snaps

LEMMA SucceedsTyped == \A what : Succeeds(what) \subseteq BOOLEAN
  BY DEF Succeeds

LEMMA LoopTyped ==
    ASSUME NEW pc \in Pcs, NEW s \in Slots \cup {NoSlot}, Loop(pc, s)
    PROVE  LoopOK'
  BY DEF Loop, LoopOK

LEMMA RestTyped ==
    ASSUME NEW pc \in Pcs, Rest(pc)
    PROVE  LoopOK'
  BY LoopTyped DEF Rest

LEMMA GotoTyped ==
    ASSUME LoopOK, NEW pc \in Pcs, Goto(pc)
    PROVE  LoopOK'
  BY DEF Goto, LoopOK

LEMMA CallTyped ==
    ASSUME LoopOK, NEW pc \in Pcs, NEW s \in Slots \cup {NoSlot},
           NEW back \in {"input", "scan", "watchdog", "bury"}, Call(pc, s, back)
    PROVE  LoopOK'
  BY DEF Call, LoopOK

LEMMA ReturnTyped ==
    ASSUME LoopOK, Return
    PROVE  LoopOK'
<1>1. sdl.back \in Pcs /\ sdl.at \in Slots \cup {NoSlot}
  BY DEF LoopOK, Pcs
<1> QED BY <1>1, LoopTyped DEF Return

LEMMA SayTyped ==
    ASSUME LinksOK, NEW s \in Slots, NEW commands \in Seq(Commands), Say(s, commands)
    PROVE  LinksOK'
<1>1. link[s].told \o commands \in Seq(Commands)
  BY DEF LinksOK, Links
<1> QED BY <1>1 DEF Say, LinksOK, Links

LEMMA HandTyped ==
    ASSUME LinksOK, NEW s \in Slots, NEW where \in {"none", "behind", "front", "fed", "failing"},
           Hand(s, where)
    PROVE  LinksOK'
  BY DEF Hand, LinksOK, Links

LEMMA ForgetTyped ==
    ASSUME CachesOK, NEW s \in Slots, Forget(s)
    PROVE  CachesOK'
  BY SnapTyped DEF Forget, CachesOK

LEMMA FreshTyped ==
    ASSUME LinksOK, NEW s \in Slots, NEW commands \in Seq(Commands),
           link' = [link EXCEPT ![s] = [FreshLink EXCEPT !.told = commands]]
    PROVE  LinksOK'
  BY DEF LinksOK, Links, FreshLink, NoAU

LEMMA ConnectTyped ==
    ASSUME LinksOK, CachesOK, NEW s \in Slots, NEW snap \in Snaps, NEW commands \in Seq(Commands),
           Connect(s, snap, commands)
    PROVE  LinksOK' /\ CachesOK'
<1>1. snap \in UnitSnapshots
  BY SnapTyped
<1>2. CachesOK'
  BY <1>1 DEF Connect, CachesOK
<1> QED BY <1>2, FreshTyped DEF Connect

LEMMA StoppedTyped ==
    ASSUME SlotsOK, NEW s \in Slots, NEW starts \in BOOLEAN
    PROVE  Stopped(s) \in SlotType /\ Started(s, starts) \in SlotType
  BY DEF SlotsOK, Stopped, Started, SlotType

LEMMA OrphanedTyped ==
    ASSUME DecoderOK, NEW s \in Slots
    PROVE  /\ decoder' = Orphaned(s) => DecoderOK'
           /\ decoder' = NoMedia => DecoderOK'
<1>1. ASSUME decoder' = Orphaned(s) PROVE DecoderOK'
  <2>1. (decoder.live /\ decoder.owner # s) \in BOOLEAN /\ (decoder.pending /\ active # s) \in BOOLEAN
    OBVIOUS
  <2> QED BY <1>1, <2>1 DEF DecoderOK, Orphaned
<1>2. ASSUME decoder' = NoMedia PROVE DecoderOK'
  BY <1>2 DEF DecoderOK, NoMedia, NoDecoder
<1> QED BY <1>1, <1>2

LEMMA StopSlotTyped ==
    ASSUME TypesOK, NEW s \in Slots, StopSlot(s)
    PROVE  SlotsOK' /\ LinksOK' /\ CachesOK' /\ DecoderOK'
<1>1. SlotsOK'
  BY StoppedTyped DEF TypesOK, StopSlot, SlotsOK
<1>2. LinksOK'
  <2>1. FreshLink \in Links
    BY Empty DEF FreshLink, NoAU, Links
  <2> QED BY <2>1 DEF TypesOK, StopSlot, LinksOK
<1>3. CachesOK'
  BY ForgetTyped DEF TypesOK, StopSlot
<1>4. DecoderOK'
  BY OrphanedTyped DEF TypesOK, StopSlot, DecoderOK
<1> QED BY <1>1, <1>2, <1>3, <1>4

LEMMA ReconnectTyped ==
    ASSUME TypesOK, NEW s \in Slots, Reconnect(s)
    PROVE  SlotsOK' /\ LinksOK' /\ CachesOK' /\ DecoderOK'
<1>1. <<>> \in Seq(Commands)
  OBVIOUS
<1>2. PICK starts \in Succeeds("start") :
          slot' = [slot EXCEPT ![s] = [Started(s, starts) EXCEPT !.failed = ~starts]]
  BY DEF Reconnect
<1>3. starts \in BOOLEAN
  BY SucceedsTyped
<1>4. SlotsOK'
  <2>1. Started(s, starts) \in SlotType
    BY <1>3, StoppedTyped DEF TypesOK
  <2>2. \A r \in SlotType : [r EXCEPT !.failed = ~starts] \in SlotType
    BY DEF SlotType
  <2>3. [Started(s, starts) EXCEPT !.failed = ~starts] \in SlotType
    BY <2>1, <2>2
  <2> QED BY <1>2, <2>3 DEF TypesOK, SlotsOK
<1>5. CachesOK'
  BY SnapTyped DEF Reconnect, Connect, TypesOK, CachesOK
<1>6. LinksOK'
  BY <1>1, FreshTyped DEF Reconnect, Connect, TypesOK
<1> QED BY <1>4, <1>5, <1>6, OrphanedTyped DEF Reconnect, TypesOK

(* What an offer to the decoder comes to (native_video_feed).              *)
Decoders == [owner : Slots \cup {NoSlot}, live : BOOLEAN, gate : {"idr", "open"}, last : Nat,
             whole : BOOLEAN, pending : BOOLEAN, audio : BOOLEAN]
Joins(s, au) == ~Foreign(s) /\ decoder.whole /\ decoder.last + 1 = au.n

LEMMA OfferFacts ==
    ASSUME DecoderOK, NEW s \in Slots, NEW au \in Units, NEW r \in Offers(s, au)
    PROVE  /\ r.ok \in BOOLEAN /\ r.asks \in BOOLEAN /\ r.drops \in BOOLEAN
           /\ r.drops => budget.drops > 0
           /\ r.decoder \in Decoders
           /\ r.decoder.owner = s /\ r.decoder.live
           /\ r.ok => r.decoder.gate = "open" /\ r.decoder.last = au.n
           /\ r.ok /\ (au.kind = "idr" \/ Joins(s, au)) => r.decoder.whole
           /\ ~r.ok => r.decoder.whole
           /\ ~r.ok => r.decoder.gate = "idr"
           /\ au.kind # "idr" /\ r.ok => decoder.owner # NoSlot /\ decoder.gate = "open"
           /\ decoder.owner # NoSlot /\ decoder.gate = "open" => r.ok \/ r.asks \/ au.kind = "idr"
<1>1. PICK same \in BOOLEAN, opens \in BOOLEAN, loaded \in BOOLEAN :
          /\ r = Fed(s, au, same, opens, ~loaded)
          /\ r.drops => budget.drops > 0
  BY SucceedsTyped DEF Offers
<1> DEFINE drops == ~loaded
           closes == decoder.owner # NoSlot /\ ~same /\ IsKeyframe(au)
           reopen == decoder.owner = NoSlot \/ closes
           gate   == IF reopen THEN "idr" ELSE decoder.gate
           needs  == gate = "idr" /\ au.kind # "idr"
           ok     == ~needs /\ ~(gate = "idr" /\ drops)
           before == ~Foreign(s) /\ ~closes /\ decoder.pending
           whole  == ~ok \/ au.kind = "idr"
                     \/ (decoder.whole /\ ~Foreign(s) /\ decoder.last + 1 = au.n)
           after  == [owner |-> s, live |-> TRUE,
                      gate |-> IF ok THEN "open" ELSE gate,
                      last |-> IF ok THEN au.n ELSE 0,
                      whole |-> whole,
                      pending |-> before \/ needs,
                      audio |-> decoder.audio \/ (reopen /\ opens)]
<1>2. r = [ok |-> ok, asks |-> needs /\ ~before, drops |-> ~needs /\ ~ok, decoder |-> after]
  BY <1>1 DEF Fed
<1>3. /\ ok \in BOOLEAN /\ (needs /\ ~before) \in BOOLEAN /\ (~needs /\ ~ok) \in BOOLEAN
      /\ whole \in BOOLEAN /\ (before \/ needs) \in BOOLEAN
      /\ (decoder.audio \/ (reopen /\ opens)) \in BOOLEAN
  OBVIOUS
<1>4. au.n \in Nat
  BY DEF Units
<1>5. decoder.gate \in {"idr", "open"} /\ decoder.whole \in BOOLEAN
  BY DEF DecoderOK
<1>6. gate \in {"idr", "open"} /\ (~ok => gate = "idr" \/ needs)
  BY <1>5
<1>7. after \in Decoders
  BY <1>3, <1>4, <1>6 DEF Decoders
<1>9. /\ r.ok = ok /\ r.decoder = after /\ r.drops = (~needs /\ ~ok) /\ r.asks = (needs /\ ~before)
      /\ after.owner = s /\ after.live = TRUE /\ after.gate = (IF ok THEN "open" ELSE gate)
      /\ after.last = (IF ok THEN au.n ELSE 0) /\ after.whole = whole
  BY <1>2
<1>10. ~r.ok \/ au.kind = "idr" \/ Joins(s, au) => r.decoder.whole
  BY <1>9 DEF Joins
<1>11. /\ au.kind # "idr" /\ ok => decoder.owner # NoSlot /\ decoder.gate = "open"
       /\ decoder.owner # NoSlot /\ decoder.gate = "open" => ok \/ (needs /\ ~before) \/ au.kind = "idr"
  BY <1>5
<1> HIDE DEF drops, closes, reopen, before, whole, after
<1>12. ~ok => gate = "idr"
  BY <1>6
<1> HIDE DEF needs, ok, gate
<1>13. r.ok \in BOOLEAN /\ r.asks \in BOOLEAN /\ r.drops \in BOOLEAN
  BY <1>3, <1>9
<1>14. r.decoder \in Decoders /\ r.decoder.owner = s /\ r.decoder.live
  BY <1>7, <1>9
<1>15. r.ok => r.decoder.gate = "open" /\ r.decoder.last = au.n
  BY <1>9
<1>16. ~r.ok => r.decoder.gate = "idr"
  BY <1>9, <1>12
<1>17. /\ au.kind # "idr" /\ r.ok => decoder.owner # NoSlot /\ decoder.gate = "open"
       /\ decoder.owner # NoSlot /\ decoder.gate = "open" => r.ok \/ r.asks \/ au.kind = "idr"
  BY <1>9, <1>11
<1> QED BY <1>1, <1>10, <1>13, <1>14, <1>15, <1>16, <1>17

LEMMA AcceptTyped ==
    ASSUME TypesOK, NEW s \in Slots, NEW au \in Units, NEW r \in Offers(s, au), Accept(r)
    PROVE  /\ DecoderOK' /\ refresh' \in BOOLEAN
           /\ budget' \in [presses : Nat, failures : Nat, drops : Nat, sets : Nat]
<1>1. r.decoder \in Decoders /\ r.asks \in BOOLEAN /\ (r.drops => budget.drops > 0)
  BY OfferFacts DEF TypesOK
<1>2. DecoderOK'
  BY <1>1 DEF Accept, DecoderOK, Decoders
<1>3. budget' \in [presses : Nat, failures : Nat, drops : Nat, sets : Nat]
  BY <1>1 DEF Accept, TypesOK, ScreenOK
<1> QED BY <1>1, <1>2, <1>3 DEF Accept, TypesOK, ScreenOK

LEMMA CacheTyped ==
    ASSUME NEW snap \in UnitSnapshots, NEW au \in Units, NEW fits \in BOOLEAN
    PROVE  Cache(snap, au, fits) \in UnitSnapshots /\ Ready(Cache(snap, au, fits)) \in BOOLEAN
<1>1. snap \in Snapshots /\ au \in AUs
  <2>1. Units \subseteq AUs
    BY DEF Units, AUs, Kinds
  <2>2. Seq(Units) \subseteq Seq(AUs)
    BY <2>1
  <2> QED BY <2>1, <2>2 DEF UnitSnapshots, Snapshots
<1>2. <<au>> \in Seq(Units) /\ Append(snap.aus, au) \in Seq(Units)
  BY DEF UnitSnapshots
<1>3. Cache(snap, au, fits) \in UnitSnapshots
  <2> DEFINE result == Cache(snap, au, fits)
  <2>1. \/ result = snap \/ result = Disarmed
        \/ result = [armed |-> TRUE, aus |-> <<au>>]
        \/ result = [armed |-> TRUE, aus |-> Append(snap.aus, au)]
    BY <1>1, CacheCases
  <2>2. /\ [armed |-> TRUE, aus |-> <<au>>] \in UnitSnapshots
        /\ [armed |-> TRUE, aus |-> Append(snap.aus, au)] \in UnitSnapshots
    BY <1>2 DEF UnitSnapshots
  <2> HIDE DEF result
  <2>3. result \in UnitSnapshots
    BY <2>1, <2>2, SnapTyped
  <2> QED BY <2>3 DEF result
<1> QED BY <1>3 DEF Ready, UnitSnapshots

LEMMA UnitInHand ==
    ASSUME LinksOK, StateOK, NEW s \in Slots, link[s].hand \in {"behind", "front", "fed"}
    PROVE  link[s].au \in Units
<1>1. link[s].au \in [n : Nat, kind : {"idr", "config", "delta"}] /\ link[s].au.n # 0
  BY DEF LinksOK, Links, StateOK, StateAt
<1> QED BY <1>1 DEF Units

LEMMA SameTyped ==
    ASSUME TypesOK
    PROVE  /\ UNCHANGED slot => SlotsOK'
           /\ UNCHANGED link => LinksOK'
           /\ UNCHANGED cache => CachesOK'
           /\ UNCHANGED sdl => LoopOK'
           /\ UNCHANGED decoder => DecoderOK'
           /\ UNCHANGED <<screen, refresh, watchdog, budget>> => ScreenOK'
<1>1. UNCHANGED slot => SlotsOK'
  BY DEF TypesOK, SlotsOK
<1>2. UNCHANGED link => LinksOK'
  BY DEF TypesOK, LinksOK
<1>3. UNCHANGED cache => CachesOK'
  BY DEF TypesOK, CachesOK
<1>4. UNCHANGED sdl => LoopOK'
  BY DEF TypesOK, LoopOK
<1>5. UNCHANGED decoder => DecoderOK'
  BY DEF TypesOK, DecoderOK
<1>6. UNCHANGED <<screen, refresh, watchdog, budget>> => ScreenOK'
  BY DEF TypesOK, ScreenOK, screen
<1> QED BY <1>1, <1>2, <1>3, <1>4, <1>5, <1>6

LEMMA WorkerTyped ==
    ASSUME TypesOK, StateOK, NEW s \in Slots, Worker(s)
    PROVE  TypesOK'
<1> USE DEF TypesOK
<1>1. CASE Activate(s)
  <2>1. SlotsOK'
    BY <1>1 DEF Activate, SlotsOK, SlotType
  <2> QED BY <1>1, <2>1, SameTyped DEF Activate, screen
<1>2. CASE Obey(s)
  <2>1. LinksOK'
    <3>1. /\ link[s].told \in Seq(Commands) /\ link[s].told # <<>>
      BY <1>2 DEF Obey, LinksOK, Links
    <3>2. Tail(link[s].told) \in Seq(Commands)
      BY <3>1
    <3>3. PICK out \in BOOLEAN, owes \in BOOLEAN :
             link' = [link EXCEPT ![s].told = Tail(@), ![s].out = out, ![s].owes = owes]
      <4> DEFINE command == Head(link[s].told)
                 out == IF command = "refresh" THEN link[s].out ELSE command = "resume"
                 owes == link[s].owes \/ (command = "refresh" /\ s \in Answering)
      <4>1. out \in BOOLEAN /\ owes \in BOOLEAN
        BY DEF LinksOK, Links
      <4>2. link' = [link EXCEPT ![s].told = Tail(@), ![s].out = out, ![s].owes = owes]
        BY <1>2 DEF Obey
      <4> HIDE DEF out, owes
      <4> QED BY <4>1, <4>2
    <3> DEFINE obeyed == [link[s] EXCEPT !.told = Tail(link[s].told), !.out = out, !.owes = owes]
    <3>4. link' = [link EXCEPT ![s] = obeyed]
      BY <3>3 DEF LinksOK, Links
    <3>5. obeyed \in Links
      BY <3>2 DEF LinksOK, Links
    <3> HIDE DEF obeyed
    <3> QED BY <3>4, <3>5 DEF LinksOK, Links
  <2> QED BY <1>2, <2>1, SameTyped DEF Obey, screen
<1>3. CASE Emit(s)
  <2>1. LinksOK'
    <3>1. PICK kind \in {Picture(s), "config"} :
             link' = [link EXCEPT ![s].sent = @ + 1, ![s].owes = @ /\ kind = "config",
                                  ![s].hand = IF s = active THEN "front" ELSE "behind",
                                  ![s].au = [n |-> link[s].sent + 1, kind |-> kind]]
      BY <1>3 DEF Emit
    <3>2. kind \in {"idr", "config", "delta"}
      BY DEF Picture
    <3> DEFINE owes == link[s].owes /\ kind = "config"
               hand == IF s = active THEN "front" ELSE "behind"
               sent == [link[s] EXCEPT !.sent = link[s].sent + 1, !.owes = owes, !.hand = hand,
                                       !.au = [n |-> link[s].sent + 1, kind |-> kind]]
    <3>3. owes \in BOOLEAN /\ hand \in {"front", "behind"}
      BY DEF LinksOK, Links
    <3>4. link' = [link EXCEPT ![s] = sent]
      BY <3>1 DEF LinksOK, Links
    <3> HIDE DEF owes, hand
    <3>5. sent \in Links
      <4>1. [n |-> link[s].sent + 1, kind |-> kind] \in [n : Nat, kind : {"idr", "config", "delta"}]
        BY <3>2 DEF LinksOK, Links
      <4>2. link[s] \in Links /\ link[s].sent + 1 \in Nat
        BY DEF LinksOK, Links
      <4> QED BY <3>3, <4>1, <4>2 DEF Links
    <3> HIDE DEF sent
    <3> QED BY <3>4, <3>5 DEF LinksOK, Links
  <2>2. ScreenOK'
    <3>1. budget' \in [presses : Nat, failures : Nat, drops : Nat, sets : Nat]
      BY <1>3 DEF Emit, ScreenOK
    <3> QED BY <1>3, <3>1 DEF Emit, ScreenOK, screen
  <2> QED BY <1>3, <2>1, <2>2, SameTyped DEF Emit
<1>4. CASE Keep(s)
  <2>1. LinksOK'
    BY <1>4, HandTyped DEF Keep
  <2>2. CachesOK'
    <3>1. CASE UNCHANGED cache
      BY <3>1 DEF CachesOK
    <3>2. CASE \E fits \in Succeeds("fit") :
                 LET snap == Cache(cache[s].snap, link[s].au, fits) IN
                 cache' = [cache EXCEPT ![s] = [snap |-> snap, ready |-> Ready(snap), quiet |-> FALSE]]
      <4>1. PICK fits \in BOOLEAN :
                 cache' = [cache EXCEPT ![s] = [snap |-> Cache(cache[s].snap, link[s].au, fits),
                             ready |-> Ready(Cache(cache[s].snap, link[s].au, fits)), quiet |-> FALSE]]
        BY <3>2, SucceedsTyped
      <4>2. cache[s].snap \in UnitSnapshots /\ link[s].au \in Units
        BY <1>4, UnitInHand DEF Keep, CachesOK
      <4> QED BY <4>1, <4>2, CacheTyped DEF CachesOK
    <3> QED BY <1>4, <3>1, <3>2 DEF Keep
  <2> QED BY <1>4, <2>1, <2>2, SameTyped DEF Keep, screen
<1>5. CASE Feed(s)
  <2>1. LinksOK'
    BY <1>5, HandTyped DEF Feed
  <2>2. link[s].au \in Units
    BY <1>5, UnitInHand DEF Feed
  <2>3. /\ DecoderOK' /\ refresh' \in BOOLEAN
        /\ budget' \in [presses : Nat, failures : Nat, drops : Nat, sets : Nat]
    <3>1. CASE UNCHANGED <<decoder, refresh, budget>>
      BY <3>1 DEF DecoderOK, ScreenOK
    <3>2. CASE \E r \in Offers(s, link[s].au) : Accept(r)
      BY <2>2, <3>2, AcceptTyped
    <3> QED BY <1>5, <3>1, <3>2 DEF Feed
  <2> QED BY <1>5, <2>1, <2>3, SameTyped DEF Feed, ScreenOK, screen
<1>6. CASE Count(s)
  <2>1. LinksOK'
    BY <1>6, HandTyped DEF Count
  <2>2. SlotsOK' /\ DecoderOK'
    BY <1>6 DEF Count, Counted, SlotsOK, SlotType, DecoderOK
  <2>3. LoopOK'
    BY <1>6 DEF Count, LoopOK
  <2> QED BY <1>6, <2>1, <2>2, <2>3, SameTyped DEF Count, screen
<1>7. CASE Break(s)
  <2>1. LinksOK'
    BY <1>7, HandTyped DEF Break
  <2>2. SlotsOK'
    BY <1>7 DEF Break, SlotsOK, SlotType
  <2>3. budget' \in [presses : Nat, failures : Nat, drops : Nat, sets : Nat]
    BY <1>7 DEF Break, ScreenOK
  <2> QED BY <1>7, <2>1, <2>2, <2>3, SameTyped DEF Break, ScreenOK, screen
<1>8. CASE Flag(s)
  <2>1. LinksOK'
    BY <1>8, HandTyped DEF Flag
  <2>2. SlotsOK'
    BY <1>8 DEF Flag, SlotsOK, SlotType
  <2> QED BY <1>8, <2>1, <2>2, SameTyped DEF Flag, screen
<1>9. CASE OpenAudio(s)
  <2>1. DecoderOK' /\ refresh' \in BOOLEAN
    <3>1. [decoder EXCEPT !.audio = TRUE] \in Decoders /\ [NoDecoder EXCEPT !.audio = TRUE] \in Decoders
      BY DEF DecoderOK, Decoders, NoDecoder
    <3>2. decoder' \in Decoders
      BY <1>9, <3>1 DEF OpenAudio
    <3> QED BY <1>9, <3>2 DEF OpenAudio, DecoderOK, Decoders, ScreenOK
  <2> QED BY <1>9, <2>1, SameTyped DEF OpenAudio, ScreenOK, screen
<1>10. CASE FallQuiet(s)
  <2>1. CachesOK'
    BY <1>10 DEF FallQuiet, CachesOK
  <2> QED BY <1>10, <2>1, SameTyped DEF FallQuiet, screen
<1> QED BY <1>1, <1>2, <1>3, <1>4, <1>5, <1>6, <1>7, <1>8, <1>9, <1>10 DEF Worker

LEMMA SlotFields ==
    ASSUME NEW r \in SlotType, NEW b \in BOOLEAN, NEW c \in BOOLEAN, NEW d \in BOOLEAN
    PROVE  /\ [r EXCEPT !.failed = b] \in SlotType
           /\ [r EXCEPT !.failed = b, !.filling = c, !.timed = @ /\ ~c, !.suppressed = d] \in SlotType
           /\ [r EXCEPT !.failed = b, !.retried = TRUE, !.filling = c, !.timed = @ /\ ~c] \in SlotType
<1>1. (r.timed /\ ~c) \in BOOLEAN
  OBVIOUS
<1> QED BY <1>1 DEF SlotType

LEMMA FieldsTyped ==
    ASSUME SlotsOK, NEW s \in Slots
    PROVE  /\ UNCHANGED slot => SlotsOK'
           /\ slot' = [slot EXCEPT ![s].moved = FALSE] => SlotsOK'
           /\ slot' = [slot EXCEPT ![s].filling = FALSE] => SlotsOK'
           /\ slot' = [slot EXCEPT ![s].suppressed = FALSE] => SlotsOK'
           /\ slot' = [slot EXCEPT ![s].ineffective = TRUE, ![s].filling = FALSE] => SlotsOK'
           /\ slot' = [slot EXCEPT ![s].ineffective = TRUE, ![s].moved = FALSE] => SlotsOK'
           /\ slot' = [slot EXCEPT ![s].suppressed = FALSE, ![s].moved = FALSE] => SlotsOK'
           /\ slot' = [slot EXCEPT ![s].filling = TRUE, ![s].timed = FALSE, ![s].suppressed = FALSE] => SlotsOK'
           /\ \A b \in BOOLEAN : slot' = [slot EXCEPT ![s].moved = b] => SlotsOK'
<1>1. UNCHANGED slot => SlotsOK'
  BY DEF SlotsOK
<1>2. slot' = [slot EXCEPT ![s].moved = FALSE] => SlotsOK'
  BY DEF SlotsOK, SlotType
<1>3. slot' = [slot EXCEPT ![s].filling = FALSE] => SlotsOK'
  BY DEF SlotsOK, SlotType
<1>4. slot' = [slot EXCEPT ![s].suppressed = FALSE] => SlotsOK'
  BY DEF SlotsOK, SlotType
<1>5. slot' = [slot EXCEPT ![s].ineffective = TRUE, ![s].filling = FALSE] => SlotsOK'
  <2> DEFINE new == [slot[s] EXCEPT !.ineffective = TRUE, !.filling = FALSE]
  <2>1. [slot EXCEPT ![s].ineffective = TRUE, ![s].filling = FALSE] = [slot EXCEPT ![s] = new]
    BY DEF SlotsOK, SlotType
  <2>2. new \in SlotType
    BY DEF SlotsOK, SlotType
  <2> HIDE DEF new
  <2> QED BY <2>1, <2>2 DEF SlotsOK
<1>6. slot' = [slot EXCEPT ![s].ineffective = TRUE, ![s].moved = FALSE] => SlotsOK'
  <2> DEFINE new == [slot[s] EXCEPT !.ineffective = TRUE, !.moved = FALSE]
  <2>1. [slot EXCEPT ![s].ineffective = TRUE, ![s].moved = FALSE] = [slot EXCEPT ![s] = new]
    BY DEF SlotsOK, SlotType
  <2>2. new \in SlotType
    BY DEF SlotsOK, SlotType
  <2> HIDE DEF new
  <2> QED BY <2>1, <2>2 DEF SlotsOK
<1>7. slot' = [slot EXCEPT ![s].suppressed = FALSE, ![s].moved = FALSE] => SlotsOK'
  <2> DEFINE new == [slot[s] EXCEPT !.suppressed = FALSE, !.moved = FALSE]
  <2>1. [slot EXCEPT ![s].suppressed = FALSE, ![s].moved = FALSE] = [slot EXCEPT ![s] = new]
    BY DEF SlotsOK, SlotType
  <2>2. new \in SlotType
    BY DEF SlotsOK, SlotType
  <2> HIDE DEF new
  <2> QED BY <2>1, <2>2 DEF SlotsOK
<1>8. slot' = [slot EXCEPT ![s].filling = TRUE, ![s].timed = FALSE, ![s].suppressed = FALSE] => SlotsOK'
  <2> DEFINE new == [slot[s] EXCEPT !.filling = TRUE, !.timed = FALSE, !.suppressed = FALSE]
  <2>1. [slot EXCEPT ![s].filling = TRUE, ![s].timed = FALSE, ![s].suppressed = FALSE] = [slot EXCEPT ![s] = new]
    BY DEF SlotsOK, SlotType
  <2>2. new \in SlotType
    BY DEF SlotsOK, SlotType
  <2> HIDE DEF new
  <2> QED BY <2>1, <2>2 DEF SlotsOK
<1>9. ASSUME NEW b \in BOOLEAN, slot' = [slot EXCEPT ![s].moved = b] PROVE SlotsOK'
  BY <1>9 DEF SlotsOK, SlotType
<1> QED BY <1>1, <1>2, <1>3, <1>4, <1>5, <1>6, <1>7, <1>8, <1>9

LEMMA WatchdogTyped ==
    ASSUME ScreenOK
    PROVE  /\ UNCHANGED watchdog => watchdog' \in [on : BOOLEAN, used : BOOLEAN]
           /\ \A b, c \in BOOLEAN : watchdog' = [on |-> b, used |-> c] =>
                 watchdog' \in [on : BOOLEAN, used : BOOLEAN]
<1>1. UNCHANGED watchdog => watchdog' \in [on : BOOLEAN, used : BOOLEAN]
  BY DEF ScreenOK
<1> QED BY <1>1

LEMMA BackgroundTyped ==
    ASSUME TypesOK, NEW s \in Slots, Background(s)
    PROVE  SlotsOK' /\ LinksOK' /\ CachesOK' /\ DecoderOK'
<1>1. CASE UNCHANGED <<slot, cache, link, decoder>>
  BY <1>1, SameTyped
<1>2. CASE \E starts \in Succeeds("start"), snap \in Snaps :
            /\ Connect(s, snap, IF starts /\ ~snap.armed THEN <<"suppress">> ELSE <<>>)
            /\ decoder' = Orphaned(s)
            /\ slot' = [slot EXCEPT ![s] =
                    [Started(s, starts) EXCEPT !.failed = ~starts,
                                               !.filling = starts /\ snap.armed,
                                               !.timed = @ /\ ~(starts /\ snap.armed),
                                               !.suppressed = starts /\ ~snap.armed]]
  <2>1. PICK starts \in BOOLEAN, snap \in Snaps :
            /\ Connect(s, snap, IF starts /\ ~snap.armed THEN <<"suppress">> ELSE <<>>)
            /\ decoder' = Orphaned(s)
            /\ slot' = [slot EXCEPT ![s] =
                    [Started(s, starts) EXCEPT !.failed = ~starts,
                                               !.filling = starts /\ snap.armed,
                                               !.timed = @ /\ ~(starts /\ snap.armed),
                                               !.suppressed = starts /\ ~snap.armed]]
    <3>1. PICK starts \in Succeeds("start"), snap \in Snaps :
            /\ Connect(s, snap, IF starts /\ ~snap.armed THEN <<"suppress">> ELSE <<>>)
            /\ decoder' = Orphaned(s)
            /\ slot' = [slot EXCEPT ![s] =
                    [Started(s, starts) EXCEPT !.failed = ~starts,
                                               !.filling = starts /\ snap.armed,
                                               !.timed = @ /\ ~(starts /\ snap.armed),
                                               !.suppressed = starts /\ ~snap.armed]]
      BY <1>2
    <3>2. starts \in BOOLEAN
      BY SucceedsTyped
    <3> QED BY <3>1, <3>2
  <2> DEFINE told == IF starts /\ ~snap.armed THEN <<"suppress">> ELSE <<>>
  <2>2. told \in Seq(Commands)
    <3>1. <<"suppress">> \in Seq(Commands) /\ <<>> \in Seq(Commands)
      BY Empty DEF Commands
    <3> QED BY <3>1
  <2> HIDE DEF told
  <2>3. LinksOK' /\ CachesOK'
    BY <2>1, <2>2, ConnectTyped DEF told, TypesOK
  <2>4. (~starts) \in BOOLEAN /\ (starts /\ snap.armed) \in BOOLEAN /\ (starts /\ ~snap.armed) \in BOOLEAN
    OBVIOUS
  <2>5. Started(s, starts) \in SlotType
    BY StoppedTyped DEF TypesOK
  <2>6. [Started(s, starts) EXCEPT !.failed = ~starts,
                                   !.filling = starts /\ snap.armed,
                                   !.timed = @ /\ ~(starts /\ snap.armed),
                                   !.suppressed = starts /\ ~snap.armed] \in SlotType
    BY <2>4, <2>5, SlotFields
  <2>7. SlotsOK'
    BY <2>1, <2>6 DEF TypesOK, SlotsOK
  <2> QED BY <2>1, <2>3, <2>7, OrphanedTyped DEF TypesOK
<1>3. CASE /\ Say(s, <<"suppress">>)
           /\ slot' = [slot EXCEPT ![s].suppressed = TRUE]
           /\ UNCHANGED <<cache, decoder>>
  <2>1. <<"suppress">> \in Seq(Commands)
    BY DEF Commands
  <2>2. LinksOK'
    BY <1>3, <2>1, SayTyped DEF TypesOK
  <2>3. SlotsOK'
    BY <1>3 DEF TypesOK, SlotsOK, SlotType
  <2> QED BY <1>3, <2>2, <2>3, SameTyped
<1> QED BY <1>1, <1>2, <1>3 DEF Background

LEMMA FirstIn ==
    ASSUME NEW S \in SUBSET Slots, S # {}
    PROVE  First(S) \in S /\ \A t \in S : First(S) <= t
<1>1. \E s \in S : \A t \in S : s <= t
  BY Least DEF Slots
<1> QED BY <1>1 DEF First

LEMMA LastIn ==
    ASSUME NEW n \in Nat, NEW S \in SUBSET (1 .. n), S # {}
    PROVE  Last_(S) \in S /\ \A t \in S : t <= Last_(S)
<1>1. \E s \in S : \A t \in S : t <= s
  BY Greatest
<1> QED BY <1>1 DEF Last_

LEMMA SwitchTyped ==
    ASSUME TypesOK, PlaceOK,
           \/ Switch \/ Flip \/ Demote \/ Promote \/ Replay \/ Replayed \/ Wake \/ Prepare
    PROVE  TypesOK'
<1> DEFINE s == sdl.goal
<1> USE DEF TypesOK
<1>0. sdl.pc \in Switching => s \in Slots /\ sdl.at \in Slots \cup {NoSlot}
  BY DEF PlaceOK, LoopOK
<1>1. CASE Switch
  <2>1. s \in Slots /\ sdl.back \in {"input", "scan", "watchdog", "bury"} /\ "flip" \in Pcs
    BY <1>0, <1>1 DEF Switch, At, Switching, LoopOK, Pcs
  <2>2. LoopOK'
    BY <1>1, <2>1, CallTyped, ReturnTyped DEF Switch
  <2>3. SlotsOK'
    <3>1. UNCHANGED slot \/ slot' = [slot EXCEPT ![s].moved = FALSE]
      BY <1>1 DEF Switch
    <3> QED BY <2>1, <3>1, FieldsTyped
  <2>4. ScreenOK'
    BY <1>1 DEF Switch, ScreenOK
  <2> QED BY <1>1, <2>2, <2>3, <2>4, SameTyped DEF Switch
<1>2. CASE Flip
  <2>1. s \in Slots
    BY <1>0, <1>2 DEF Flip, At, Switching
  <2>2. LoopOK'
    BY <1>2 DEF Flip, LoopOK, ScreenOK, Pcs, Switching
  <2>3. ScreenOK'
    BY <1>2, <2>1 DEF Flip, ScreenOK
  <2> QED BY <1>2, <2>2, <2>3, SameTyped DEF Flip
<1>3. CASE Demote
  <2>1. sdl.old \in Slots /\ "promote" \in Pcs
    BY <1>3 DEF Demote, At, PlaceOK, Pcs, Switching
  <2> QED BY <1>3, <2>1, BackgroundTyped, GotoTyped, SameTyped DEF Demote
<1>4. CASE Promote
  <2>1. s \in Slots
    BY <1>0, <1>4 DEF Promote, At, Switching
  <2>2. SlotsOK'
    <3>1. \/ UNCHANGED slot \/ slot' = [slot EXCEPT ![s].filling = FALSE]
          \/ slot' = [slot EXCEPT ![s].suppressed = FALSE]
      BY <1>4 DEF Promote
    <3> QED BY <2>1, <3>1, FieldsTyped
  <2>3. CachesOK'
    BY <1>4, <2>1, ForgetTyped, SameTyped DEF Promote
  <2>4. cache[s].snap.aus \in Seq(Units)
    BY <2>1 DEF CachesOK, UnitSnapshots
  <2>5. LoopOK'
    <3>1. CASE Return
      BY <3>1, ReturnTyped
    <3>2. ASSUME NEW replays \in BOOLEAN,
                 sdl' = [sdl EXCEPT !.pc = IF replays THEN "replay" ELSE "wake",
                                    !.left = IF replays THEN cache[s].snap.aus ELSE <<>>]
          PROVE LoopOK'
      <4> DEFINE pc == IF replays THEN "replay" ELSE "wake"
                 left == IF replays THEN cache[s].snap.aus ELSE <<>>
      <4>1. pc \in Pcs /\ left \in Seq(Units)
        BY <2>4, Empty DEF Pcs, Switching
      <4> HIDE DEF pc, left
      <4> QED BY <3>2, <4>1 DEF LoopOK, pc, left
    <3> QED BY <1>4, <3>1, <3>2 DEF Promote, Watch
  <2>6. ScreenOK'
    <3>1. watchdog' \in [on : BOOLEAN, used : BOOLEAN]
      BY <1>4, WatchdogTyped DEF Promote, Watch
    <3> QED BY <1>4, <3>1 DEF Promote, ScreenOK, screen
  <2> QED BY <1>4, <2>2, <2>3, <2>5, <2>6, SameTyped DEF Promote
<1>5. CASE Replay
  <2>1. s \in Slots /\ sdl.left \in Seq(Units) /\ sdl.left # <<>>
    BY <1>0, <1>5 DEF Replay, At, Switching, LoopOK
  <2> DEFINE rest == IF slot[s].failed THEN <<>> ELSE Tail(sdl.left)
  <2>2. Head(sdl.left) \in Units /\ rest \in Seq(Units)
    BY <2>1, Empty
  <2>3. CASE sdl' = [sdl EXCEPT !.left = rest] /\ UNCHANGED <<slot, decoder, refresh, budget>>
    <3> HIDE DEF rest
    <3>1. LoopOK'
      BY <2>2, <2>3 DEF LoopOK
    <3> QED BY <1>5, <2>3, <3>1, SameTyped DEF Replay, screen
  <2>4. CASE \E r \in Offers(s, Head(sdl.left)) :
            /\ refresh' = (refresh \/ r.asks)
            /\ budget' = [budget EXCEPT !.drops = IF r.drops THEN @ - 1 ELSE @]
            /\ decoder' = [r.decoder EXCEPT !.pending = @ /\ ~r.ok]
            /\ slot' = [slot EXCEPT ![s].moved = @ \/ r.ok]
            /\ sdl' = [sdl EXCEPT !.left = rest, !.fed = @ \/ r.ok]
    <3>1. PICK r \in Offers(s, Head(sdl.left)) :
            /\ refresh' = (refresh \/ r.asks)
            /\ budget' = [budget EXCEPT !.drops = IF r.drops THEN @ - 1 ELSE @]
            /\ decoder' = [r.decoder EXCEPT !.pending = @ /\ ~r.ok]
            /\ slot' = [slot EXCEPT ![s].moved = @ \/ r.ok]
            /\ sdl' = [sdl EXCEPT !.left = rest, !.fed = @ \/ r.ok]
      BY <2>4
    <3>2. /\ r.ok \in BOOLEAN /\ r.asks \in BOOLEAN /\ (r.drops => budget.drops > 0)
          /\ r.decoder \in Decoders
      BY <2>1, <2>2, OfferFacts
    <3>3. /\ (r.decoder.pending /\ ~r.ok) \in BOOLEAN /\ (slot[s].moved \/ r.ok) \in BOOLEAN
          /\ (sdl.fed \/ r.ok) \in BOOLEAN
      OBVIOUS
    <3>4. DecoderOK'
      BY <3>1, <3>2, <3>3 DEF DecoderOK, Decoders
    <3>5. SlotsOK'
      <4>1. slot' = [slot EXCEPT ![s].moved = slot[s].moved \/ r.ok]
        BY <2>1, <3>1 DEF SlotsOK, SlotType
      <4> QED BY <2>1, <3>3, <4>1, FieldsTyped
    <3> HIDE DEF rest
    <3>6. LoopOK'
      BY <2>2, <3>1, <3>3 DEF LoopOK
    <3>7. refresh' \in BOOLEAN /\ budget' \in [presses : Nat, failures : Nat, drops : Nat, sets : Nat]
      BY <3>1, <3>2 DEF ScreenOK
    <3>8. ScreenOK'
      BY <1>5, <3>7 DEF Replay, ScreenOK, screen
    <3> QED BY <1>5, <3>4, <3>5, <3>6, <3>8, SameTyped DEF Replay
  <2> QED BY <1>5, <2>3, <2>4 DEF Replay
<1>6. CASE Replayed
  <2>1. s \in Slots /\ <<"resume">> \in Seq(Commands) /\ "wake" \in Pcs
    BY <1>0, <1>6 DEF Replayed, At, Switching, Commands, Pcs
  <2>2. LinksOK'
    BY <1>6, <2>1, SayTyped, SameTyped DEF Replayed
  <2>3. LoopOK'
    BY <1>6, <2>1, ReturnTyped, GotoTyped DEF Replayed, Watch
  <2>4. ScreenOK'
    <3>1. watchdog' \in [on : BOOLEAN, used : BOOLEAN]
      BY <1>6, WatchdogTyped DEF Replayed, Watch
    <3> QED BY <1>6, <3>1 DEF Replayed, ScreenOK, screen
  <2> QED BY <1>6, <2>2, <2>3, <2>4, SameTyped DEF Replayed
<1>7. CASE Wake
  <2>1. s \in Slots /\ <<"resume", "refresh">> \in Seq(Commands)
    BY <1>0, <1>7 DEF Wake, At, Switching, Commands
  <2>2. SlotsOK' /\ LinksOK' /\ CachesOK' /\ DecoderOK'
    BY <1>7, <2>1, SayTyped, ReconnectTyped, SameTyped DEF Wake
  <2>3. LoopOK' /\ ScreenOK'
    BY <1>7, ReturnTyped DEF Wake, Watch, ScreenOK, screen
  <2> QED BY <2>2, <2>3
<1>8. CASE Prepare
  <2>1. /\ s \in Slots /\ "switch" \in Pcs
        /\ <<"resume", "refresh">> \in Seq(Commands) /\ <<>> \in Seq(Commands)
    <3>1. s \in Slots /\ "switch" \in Pcs
      BY <1>0, <1>8 DEF Prepare, At, Switching, Pcs
    <3>2. <<"resume", "refresh">> \in Seq(Commands) /\ <<>> \in Seq(Commands)
      BY Empty DEF Commands
    <3> QED BY <3>1, <3>2
  <2>2. LoopOK'
    BY <1>8, <2>1, ReturnTyped, GotoTyped DEF Prepare
  <2>3. ScreenOK'
    BY <1>8 DEF Prepare, ScreenOK
  <2>4. CASE UNCHANGED <<slot, cache, link, decoder>>
    BY <2>2, <2>3, <2>4, SameTyped
  <2>5. CASE \E starts \in Succeeds("start"), snap \in Snaps :
                /\ Connect(s, snap, <<>>)
                /\ decoder' = Orphaned(s)
                /\ slot' = [slot EXCEPT ![s] =
                        [Started(s, starts) EXCEPT !.failed = ~starts, !.retried = TRUE,
                                                   !.filling = starts /\ snap.armed,
                                                   !.timed = @ /\ ~(starts /\ snap.armed)]]
    <3>1. PICK starts \in BOOLEAN, snap \in Snaps :
                /\ Connect(s, snap, <<>>)
                /\ decoder' = Orphaned(s)
                /\ slot' = [slot EXCEPT ![s] =
                        [Started(s, starts) EXCEPT !.failed = ~starts, !.retried = TRUE,
                                                   !.filling = starts /\ snap.armed,
                                                   !.timed = @ /\ ~(starts /\ snap.armed)]]
      <4>1. PICK starts \in Succeeds("start"), snap \in Snaps :
                /\ Connect(s, snap, <<>>)
                /\ decoder' = Orphaned(s)
                /\ slot' = [slot EXCEPT ![s] =
                        [Started(s, starts) EXCEPT !.failed = ~starts, !.retried = TRUE,
                                                   !.filling = starts /\ snap.armed,
                                                   !.timed = @ /\ ~(starts /\ snap.armed)]]
        BY <2>5
      <4>2. starts \in BOOLEAN
        BY SucceedsTyped
      <4> QED BY <4>1, <4>2
    <3>2. (~starts) \in BOOLEAN /\ (starts /\ snap.armed) \in BOOLEAN
      OBVIOUS
    <3>3. Started(s, starts) \in SlotType
      BY <2>1, StoppedTyped
    <3>4. [Started(s, starts) EXCEPT !.failed = ~starts, !.retried = TRUE,
                                     !.filling = starts /\ snap.armed,
                                     !.timed = @ /\ ~(starts /\ snap.armed)] \in SlotType
      BY <3>2, <3>3, SlotFields
    <3>5. SlotsOK'
      BY <3>1, <3>4 DEF SlotsOK
    <3> QED BY <2>1, <2>2, <2>3, <3>1, <3>5, ConnectTyped, OrphanedTyped
  <2>6. CASE \E snap \in Snaps :
                /\ cache' = [cache EXCEPT ![s].snap = snap, ![s].ready = FALSE]
                /\ \/ /\ slot' = [slot EXCEPT ![s].filling = TRUE, ![s].timed = FALSE,
                                              ![s].suppressed = FALSE]
                      /\ Say(s, <<"resume", "refresh">>)
                   \/ UNCHANGED <<slot, link>>
                /\ UNCHANGED decoder
    <3>1. CachesOK'
      BY <2>1, <2>6, SnapTyped DEF CachesOK
    <3>2. SlotsOK' /\ LinksOK'
      <4>1. \/ UNCHANGED slot
            \/ slot' = [slot EXCEPT ![s].filling = TRUE, ![s].timed = FALSE,
                                    ![s].suppressed = FALSE]
        BY <2>6
      <4>2. SlotsOK'
        BY <2>1, <4>1, FieldsTyped
      <4>3. LinksOK'
        BY <2>1, <2>6, SayTyped, SameTyped
      <4> QED BY <4>2, <4>3
    <3> QED BY <2>2, <2>3, <2>6, <3>1, <3>2, SameTyped
  <2> QED BY <1>8, <2>4, <2>5, <2>6 DEF Prepare
<1> QED BY <1>1, <1>2, <1>3, <1>4, <1>5, <1>6, <1>7, <1>8

LEMMA LoopsTyped ==
    ASSUME TypesOK, NEW pc \in Pcs
    PROVE  /\ \A s \in Slots \cup {NoSlot} : Loop(pc, s) => LoopOK'
           /\ Rest(pc) => LoopOK'
           /\ Goto(pc) => LoopOK'
           /\ \A s \in Slots \cup {NoSlot}, back \in {"input", "scan", "watchdog", "bury"} :
                 Call(pc, s, back) => LoopOK'
  BY LoopTyped, RestTyped, GotoTyped, CallTyped DEF TypesOK

LEMMA PressTyped ==
    ASSUME TypesOK, PlaceOK,
           \/ PressCancel \/ Leave \/ \E s \in Slots : PressLive(s) \/ PressOffline(s)
    PROVE  TypesOK'
<1> USE DEF TypesOK
<1>0. {"scan", "leave", "switch", "prepare"} \subseteq Pcs
  BY DEF Pcs, Switching
<1>1. CASE PressCancel
  <2>1. LoopOK'
    BY <1>0, <1>1, LoopsTyped DEF PressCancel
  <2>2. ScreenOK'
    BY <1>1 DEF PressCancel, ScreenOK
  <2> QED BY <1>1, <2>1, <2>2, SameTyped DEF PressCancel
<1>2. CASE Leave
  <2>1. sdl.old \in Slots
    BY <1>2 DEF Leave, At, PlaceOK
  <2> QED BY <1>0, <1>2, <2>1, BackgroundTyped, LoopsTyped, SameTyped DEF Leave
<1>3. ASSUME NEW s \in Slots, PressLive(s) PROVE TypesOK'
  <2>1. LoopOK'
    BY <1>0, <1>3, LoopsTyped DEF PressLive
  <2>2. SlotsOK'
    BY <1>3 DEF PressLive, SlotsOK, SlotType
  <2>3. budget' \in [presses : Nat, failures : Nat, drops : Nat, sets : Nat]
    BY <1>3 DEF PressLive, Spend, ScreenOK
  <2>4. ScreenOK'
    BY <1>3, <2>3 DEF PressLive, ScreenOK
  <2> QED BY <1>3, <2>1, <2>2, <2>4, SameTyped DEF PressLive
<1>4. ASSUME NEW s \in Slots, PressOffline(s) PROVE TypesOK'
  <2>1. LoopOK'
    <3>1. [sdl EXCEPT !.pc = "leave", !.old = active] \in
             [pc : Pcs, at : Slots \cup {NoSlot}, goal : Slots \cup {NoSlot}, old : Slots \cup {NoSlot},
              back : {"input", "scan", "watchdog", "bury"}, seen : BOOLEAN, left : Seq(Units),
              fed : BOOLEAN]
      BY <1>0 DEF LoopOK, ScreenOK
    <3> QED BY <1>0, <1>4, <3>1, LoopsTyped DEF PressOffline, LoopOK
  <2>2. budget' \in [presses : Nat, failures : Nat, drops : Nat, sets : Nat]
    BY <1>4 DEF PressOffline, Spend, ScreenOK
  <2>3. watchdog' \in [on : BOOLEAN, used : BOOLEAN]
    BY <1>4 DEF PressOffline, ScreenOK
  <2>4. ScreenOK'
    BY <1>4, <2>2, <2>3 DEF PressOffline, ScreenOK
  <2> QED BY <1>4, <2>1, <2>4, SameTyped DEF PressOffline
<1> QED BY <1>1, <1>2, <1>3, <1>4

LEMMA SilenceTyped ==
    ASSUME TypesOK, NEW s \in Slots, Silence(s)
    PROVE  SlotsOK' /\ LinksOK'
<1>1. <<"suppress">> \in Seq(Commands)
  BY DEF Commands
<1>2. SlotsOK'
  BY DEF Silence, TypesOK, SlotsOK, SlotType
<1> QED BY <1>1, <1>2, SayTyped DEF Silence, TypesOK

LEMMA NextOrSwitchTyped ==
    ASSUME TypesOK, NEW s \in Slots, NextOrSwitch(s)
    PROVE  LoopOK' /\ target' \in Slots \cup {NoSlot}
<1>1. {"scan", "switch"} \subseteq Pcs
  BY DEF Pcs, Switching
<1> QED BY <1>1, LoopsTyped DEF NextOrSwitch, TypesOK, ScreenOK

LEMMA TickTyped ==
    ASSUME TypesOK, PlaceOK,
           \/ Scan \/ Filled \/ StillFilling \/ FillExpires \/ Deferred \/ DeferredExpires
           \/ Recover \/ Watchdog \/ WatchdogExpires \/ Renew
    PROVE  TypesOK'
<1> USE DEF TypesOK
<1>0. /\ {"scan", "filled", "deferred", "watchdog", "deadline", "renew", "drain", "switch", "prepare"}
            \subseteq Pcs
      /\ active \in Slots
  BY DEF Pcs, Switching, ScreenOK
<1>1. CASE Scan
  <2>1. LoopOK'
    <3>1. CASE Filling = {}
      BY <1>0, <1>1, <3>1, LoopsTyped DEF Scan
    <3>2. CASE Filling # {}
      <4>1. First(Filling) \in Slots
        BY <3>2, FirstIn DEF Filling
      <4>2. cache[First(Filling)].ready \in BOOLEAN
        BY <4>1 DEF CachesOK
      <4> QED BY <1>0, <1>1, <3>2, <4>1, <4>2 DEF Scan, LoopOK
    <3> QED BY <3>1, <3>2
  <2> QED BY <1>1, <2>1, SameTyped DEF Scan
<1>2. CASE Filled
  <2>1. sdl.at \in Slots
    BY <1>2 DEF Filled, At, PlaceOK
  <2>2. SlotsOK' /\ LinksOK'
    BY <1>2, <2>1, SilenceTyped DEF Filled
  <2>3. LoopOK' /\ target' \in Slots \cup {NoSlot}
    BY <1>0, <1>2, <2>1, LoopsTyped, NextOrSwitchTyped DEF Filled, ScreenOK
  <2>4. ScreenOK'
    BY <1>2, <2>3 DEF Filled, ScreenOK
  <2> QED BY <1>2, <2>2, <2>3, <2>4, SameTyped DEF Filled
<1>3. CASE StillFilling
  <2>1. sdl.at \in Slots
    BY <1>3 DEF StillFilling, At, PlaceOK
  <2>2. SlotsOK'
    BY <1>3, <2>1 DEF StillFilling, SlotsOK, SlotType
  <2>3. LoopOK'
    BY <1>0, <1>3, <2>1, LoopsTyped DEF StillFilling
  <2> QED BY <1>3, <2>2, <2>3, SameTyped DEF StillFilling
<1>4. CASE FillExpires
  <2>1. sdl.at \in Slots
    BY <1>4 DEF FillExpires, At, PlaceOK
  <2>2. CASE /\ slot' = [slot EXCEPT ![sdl.at].ineffective = TRUE, ![sdl.at].filling = FALSE]
             /\ Call("prepare", sdl.at, "scan")
             /\ UNCHANGED <<cache, link, target>>
    <3>1. SlotsOK'
      BY <2>1, <2>2, FieldsTyped
    <3>2. LoopOK'
      BY <1>0, <2>1, <2>2, LoopsTyped
    <3>3. ScreenOK'
      BY <1>4, <2>2 DEF FillExpires, ScreenOK
    <3> QED BY <1>4, <2>2, <3>1, <3>2, <3>3, SameTyped DEF FillExpires
  <2>3. CASE /\ cache' = [cache EXCEPT ![sdl.at].snap = Disarmed]
             /\ Silence(sdl.at)
             /\ NextOrSwitch(sdl.at)
    <3>1. CachesOK'
      BY <2>1, <2>3, SnapTyped DEF CachesOK
    <3>2. SlotsOK' /\ LinksOK' /\ LoopOK' /\ target' \in Slots \cup {NoSlot}
      BY <2>1, <2>3, SilenceTyped, NextOrSwitchTyped
    <3>3. ScreenOK'
      BY <1>4, <3>2 DEF FillExpires, ScreenOK
    <3> QED BY <1>4, <3>1, <3>2, <3>3, SameTyped DEF FillExpires
  <2> QED BY <1>4, <2>2, <2>3 DEF FillExpires
<1>5. CASE Deferred
  <2>1. LoopOK'
    BY <1>0, <1>5, LoopsTyped DEF Deferred, ScreenOK
  <2>2. ScreenOK'
    BY <1>5 DEF Deferred, ScreenOK
  <2> QED BY <1>5, <2>1, <2>2, SameTyped DEF Deferred
<1>6. CASE DeferredExpires
  <2>1. LoopOK'
    BY <1>0, <1>6, LoopsTyped DEF DeferredExpires, ScreenOK
  <2>2. ScreenOK'
    BY <1>6 DEF DeferredExpires, ScreenOK
  <2> QED BY <1>6, <2>1, <2>2, SameTyped DEF DeferredExpires
<1>7. CASE Recover
  <2>1. LoopOK'
    BY <1>0, <1>7, LoopsTyped DEF Recover
  <2>2. <<"refresh">> \in Seq(Commands)
    BY DEF Commands
  <2>3. SlotsOK' /\ LinksOK'
    <3>1. UNCHANGED slot \/ slot' = [slot EXCEPT ![active].moved = FALSE]
      BY <1>7 DEF Recover
    <3>2. SlotsOK'
      BY <1>0, <3>1, FieldsTyped
    <3> QED BY <1>0, <1>7, <2>2, <3>2, SayTyped, SameTyped DEF Recover
  <2>4. ScreenOK'
    <3>1. watchdog' \in [on : BOOLEAN, used : BOOLEAN]
      BY <1>7, WatchdogTyped DEF Recover
    <3> QED BY <1>7, <3>1 DEF Recover, ScreenOK, screen
  <2> QED BY <1>7, <2>1, <2>3, <2>4, SameTyped DEF Recover
<1>8. CASE Watchdog
  <2>1. LoopOK'
    BY <1>0, <1>8, LoopsTyped DEF Watchdog
  <2>2. (watchdog.on /\ ~slot[active].moved) \in BOOLEAN
    OBVIOUS
  <2>3. watchdog' \in [on : BOOLEAN, used : BOOLEAN]
    BY <1>8, <2>2 DEF Watchdog, ScreenOK
  <2>4. ScreenOK'
    BY <1>8, <2>3 DEF Watchdog, ScreenOK, screen
  <2> QED BY <1>8, <2>1, <2>4, SameTyped DEF Watchdog
<1>9. CASE WatchdogExpires
  <2>1. LoopOK'
    BY <1>0, <1>9, LoopsTyped DEF WatchdogExpires
  <2>2. SlotsOK'
    <3>1. UNCHANGED slot \/ slot' = [slot EXCEPT ![active].ineffective = TRUE, ![active].moved = FALSE]
      BY <1>9 DEF WatchdogExpires
    <3> QED BY <1>0, <3>1, FieldsTyped
  <2>3. watchdog' \in [on : BOOLEAN, used : BOOLEAN]
    BY <1>9 DEF WatchdogExpires, ScreenOK
  <2>4. ScreenOK'
    BY <1>9, <2>3 DEF WatchdogExpires, ScreenOK, screen
  <2> QED BY <1>9, <2>1, <2>2, <2>4, SameTyped DEF WatchdogExpires
<1>10. CASE Renew
  <2> QED BY <1>0, <1>10, ReconnectTyped, LoopsTyped, SameTyped DEF Renew
<1> QED BY <1>1, <1>2, <1>3, <1>4, <1>5, <1>6, <1>7, <1>8, <1>9, <1>10

LEMMA DrainTyped ==
    ASSUME TypesOK, PlaceOK, DrainSwitch \/ Bury \/ DrainStop \/ Enter \/ Dial
    PROVE  TypesOK'
<1> USE DEF TypesOK
<1>0. {"drain", "switch", "input", "connect"} \subseteq Pcs /\ active \in Slots
  BY DEF Pcs, Switching, ScreenOK
<1>1. CASE DrainSwitch
  <2>1. Last_(Survivors) \in Slots
    BY <1>1, LastIn, SlotsAssumption DEF DrainSwitch, Survivors, Slots
  <2>2. LoopOK'
    BY <1>0, <1>1, <2>1 DEF DrainSwitch, LoopOK
  <2> QED BY <1>1, <2>2, SameTyped DEF DrainSwitch
<1>2. CASE Bury
  <2>1. sdl.at \in Slots
    BY <1>2 DEF Bury, At, PlaceOK
  <2> QED BY <1>0, <1>2, <2>1, StopSlotTyped, LoopsTyped, SameTyped DEF Bury
<1>3. CASE DrainStop
  <2>1. First(Failed) \in Slots
    BY <1>3, FirstIn DEF DrainStop, Failed
  <2>2. SlotsOK' /\ LinksOK' /\ CachesOK' /\ DecoderOK'
    BY <1>3, <2>1, StopSlotTyped DEF DrainStop
  <2>3. LoopOK'
    BY <1>0, <1>3, <2>1, LoopsTyped DEF DrainStop
  <2>4. streaming' \in BOOLEAN /\ watchdog' \in [on : BOOLEAN, used : BOOLEAN]
    BY <1>3 DEF DrainStop, ScreenOK
  <2>5. ScreenOK'
    BY <1>3, <2>4 DEF DrainStop, ScreenOK
  <2> QED BY <2>2, <2>3, <2>5
<1>4. CASE Enter
  <2>1. <<"resume", "refresh">> \in Seq(Commands)
    BY DEF Commands
  <2>2. LoopOK'
    BY <1>0, <1>4, LoopsTyped DEF Enter
  <2>3. SlotsOK' /\ LinksOK'
    <3>1. UNCHANGED slot \/ slot' = [slot EXCEPT ![active].suppressed = FALSE, ![active].moved = FALSE]
      BY <1>4 DEF Enter
    <3>2. SlotsOK'
      BY <1>0, <3>1, FieldsTyped
    <3> QED BY <1>0, <1>4, <2>1, <3>2, SayTyped, SameTyped DEF Enter
  <2>4. watchdog' \in [on : BOOLEAN, used : BOOLEAN] /\ streaming' \in BOOLEAN
    <3>1. watchdog' \in [on : BOOLEAN, used : BOOLEAN]
      BY <1>4, WatchdogTyped DEF Enter
    <3>2. streaming' \in BOOLEAN
      BY <1>4, WatchdogTyped DEF Enter
    <3> QED BY <3>1, <3>2
  <2>5. ScreenOK'
    BY <1>4, <2>4 DEF Enter, ScreenOK
  <2> QED BY <1>4, <2>2, <2>3, <2>5, SameTyped DEF Enter
<1>5. CASE Dial
  <2>1. request \in Slots
    BY <1>5 DEF Dial, At, PlaceOK, ScreenOK
  <2>2. LoopOK'
    BY <1>0, <1>5, LoopsTyped DEF Dial
  <2>3. watchdog' \in [on : BOOLEAN, used : BOOLEAN]
    BY <1>5 DEF Dial, ScreenOK
  <2>4. ScreenOK'
    BY <1>5, <2>1, <2>3 DEF Dial, ScreenOK
  <2>5. CASE UNCHANGED <<slot, cache, link, decoder>>
    BY <2>2, <2>4, <2>5, SameTyped
  <2>6. CASE /\ \E starts \in Succeeds("start") :
                  /\ slot' = [slot EXCEPT ![request] = Started(request, starts)]
                  /\ decoder' = IF ~starts /\ Connected \subseteq {request}
                                THEN NoMedia ELSE Orphaned(request)
             /\ Connect(request, Disarmed, <<>>)
    <3>1. PICK starts \in BOOLEAN :
                  /\ slot' = [slot EXCEPT ![request] = Started(request, starts)]
                  /\ decoder' = NoMedia \/ decoder' = Orphaned(request)
      BY <2>6, SucceedsTyped
    <3>2. SlotsOK'
      BY <2>1, <3>1, StoppedTyped DEF SlotsOK
    <3>3. LinksOK'
      BY <2>1, <2>6, Empty, FreshTyped DEF Connect
    <3>4. CachesOK'
      BY <2>1, <2>6, SnapTyped DEF Connect, CachesOK
    <3> QED BY <2>1, <2>2, <2>4, <3>1, <3>2, <3>3, <3>4, OrphanedTyped
  <2> QED BY <1>5, <2>5, <2>6 DEF Dial
<1> QED BY <1>1, <1>2, <1>3, <1>4, <1>5

-----------------------------------------------------------------------------
(* What the composed steps do to a slot: XEffect is the whole effect of X  *)
(* on the slot it is for, and that it leaves the others alone.             *)

Others(s) == \A t \in Slots \ {s} : slot'[t] = slot[t] /\ link'[t] = link[t] /\ cache'[t] = cache[t]

(* A new connection, or none if it does not start.                         *)
Fresh(s, starts, filling, suppressed, told, snap) ==
    /\ link[s].hand = "none"
    /\ slot'[s].rdp = starts /\ slot'[s].state = (IF starts THEN "connecting" ELSE "idle")
    /\ slot'[s].filling = filling /\ slot'[s].suppressed = suppressed
    /\ link'[s].told = told /\ link'[s].out = TRUE /\ link'[s].sent = 0 /\ link'[s].hand = "none"
    /\ cache'[s].snap = snap /\ cache'[s].ready = FALSE /\ cache'[s].quiet = cache[s].quiet

(* More commands for the one there is.                                     *)
Told(s, filling, suppressed, commands) ==
    /\ slot'[s].rdp = slot[s].rdp /\ slot'[s].state = slot[s].state
    /\ slot'[s].failed = slot[s].failed
    /\ slot'[s].filling = filling /\ slot'[s].suppressed = suppressed
    /\ link'[s].told = link[s].told \o commands /\ link'[s].out = link[s].out
    /\ link'[s].sent = link[s].sent /\ link'[s].hand = link[s].hand /\ link'[s].au = link[s].au

LEMMA ConnectEffect ==
    ASSUME TypesOK, NEW s \in Slots, NEW snap \in Snaps, NEW told, Connect(s, snap, told)
    PROVE  /\ link[s].hand = "none"
           /\ link'[s].told = told /\ link'[s].out = TRUE /\ link'[s].sent = 0 /\ link'[s].hand = "none"
           /\ cache'[s].snap = snap /\ cache'[s].ready = FALSE /\ cache'[s].quiet = cache[s].quiet
           /\ \A t \in Slots \ {s} : link'[t] = link[t] /\ cache'[t] = cache[t]
<1>1. /\ link'[s] = [FreshLink EXCEPT !.told = told]
      /\ \A t \in Slots \ {s} : link'[t] = link[t]
  BY DEF Connect, TypesOK, LinksOK
<1>2. /\ cache'[s].snap = snap /\ cache'[s].ready = FALSE /\ cache'[s].quiet = cache[s].quiet
      /\ \A t \in Slots \ {s} : cache'[t] = cache[t]
  BY DEF Connect, TypesOK, CachesOK
<1>3. link[s].hand = "none"
  BY DEF Connect, Joinable
<1>4. /\ [FreshLink EXCEPT !.told = told].told = told /\ [FreshLink EXCEPT !.told = told].out = TRUE
      /\ [FreshLink EXCEPT !.told = told].sent = 0 /\ [FreshLink EXCEPT !.told = told].hand = "none"
  BY DEF FreshLink
<1> QED BY <1>1, <1>2, <1>3, <1>4

LEMMA StartedEffect ==
    ASSUME TypesOK, NEW s \in Slots, NEW starts \in BOOLEAN
    PROVE  /\ Started(s, starts).rdp = starts
           /\ Started(s, starts).state = (IF starts THEN "connecting" ELSE "idle")
           /\ Started(s, starts).failed = FALSE
           /\ Started(s, starts).filling = FALSE /\ Started(s, starts).suppressed = FALSE
  BY DEF Started, Stopped, TypesOK, SlotsOK, SlotType

LEMMA SayEffect ==
    ASSUME TypesOK, NEW s \in Slots, NEW commands, Say(s, commands)
    PROVE  /\ link'[s].told = link[s].told \o commands /\ link'[s].out = link[s].out
           /\ link'[s].sent = link[s].sent /\ link'[s].hand = link[s].hand
           /\ link'[s].au = link[s].au
           /\ \A t \in Slots \ {s} : link'[t] = link[t]
  BY DEF Say, TypesOK, LinksOK, Links

LEMMA BackgroundEffect ==
    ASSUME TypesOK, NEW s \in Slots, Background(s)
    PROVE  /\ Others(s)
           /\ \/ UNCHANGED <<slot, link, cache>> /\ (~slot[s].rdp \/ slot[s].suppressed)
              \/ \E starts \in BOOLEAN, snap \in Snaps :
                    /\ Fresh(s, starts, starts /\ snap.armed, starts /\ ~snap.armed,
                             IF starts /\ ~snap.armed THEN <<"suppress">> ELSE <<>>, snap)
                    /\ slot'[s].failed = ~starts /\ slot[s].state = "active"
              \/ /\ Told(s, slot[s].filling, TRUE, <<"suppress">>)
                 /\ slot[s].rdp /\ ~slot[s].suppressed /\ UNCHANGED cache
           /\ decoder' \in {decoder, Orphaned(s)}
<1>1. CASE ~slot[s].rdp \/ slot[s].suppressed
  BY <1>1 DEF Background, Others
<1>2. CASE /\ slot[s].rdp /\ ~slot[s].suppressed
           /\ ~(slot[s].ineffective /\ slot[s].state = "active")
  <2>1. /\ Say(s, <<"suppress">>) /\ slot' = [slot EXCEPT ![s].suppressed = TRUE]
        /\ UNCHANGED <<cache, decoder>>
    BY <1>2 DEF Background
  <2>2. /\ slot'[s].rdp = slot[s].rdp /\ slot'[s].state = slot[s].state
        /\ slot'[s].failed = slot[s].failed
        /\ slot'[s].filling = slot[s].filling /\ slot'[s].suppressed = TRUE
        /\ \A t \in Slots \ {s} : slot'[t] = slot[t]
    BY <2>1 DEF TypesOK, SlotsOK, SlotType
  <2> QED BY <1>2, <2>1, <2>2, SayEffect DEF Told, Others
<1>3. CASE slot[s].rdp /\ ~slot[s].suppressed /\ slot[s].ineffective /\ slot[s].state = "active"
  <2>1. PICK starts \in BOOLEAN, snap \in Snaps :
            /\ Connect(s, snap, IF starts /\ ~snap.armed THEN <<"suppress">> ELSE <<>>)
            /\ decoder' = Orphaned(s)
            /\ slot' = [slot EXCEPT ![s] =
                    [Started(s, starts) EXCEPT !.failed = ~starts,
                                               !.filling = starts /\ snap.armed,
                                               !.timed = @ /\ ~(starts /\ snap.armed),
                                               !.suppressed = starts /\ ~snap.armed]]
    <3>1. PICK starts \in Succeeds("start"), snap \in Snaps :
            /\ Connect(s, snap, IF starts /\ ~snap.armed THEN <<"suppress">> ELSE <<>>)
            /\ decoder' = Orphaned(s)
            /\ slot' = [slot EXCEPT ![s] =
                    [Started(s, starts) EXCEPT !.failed = ~starts,
                                               !.filling = starts /\ snap.armed,
                                               !.timed = @ /\ ~(starts /\ snap.armed),
                                               !.suppressed = starts /\ ~snap.armed]]
      BY <1>3 DEF Background
    <3>2. starts \in BOOLEAN
      BY SucceedsTyped
    <3> QED BY <3>1, <3>2
  <2>2. Started(s, starts) \in SlotType
    BY StoppedTyped DEF TypesOK
  <2> DEFINE new == [Started(s, starts) EXCEPT !.failed = ~starts,
                                               !.filling = starts /\ snap.armed,
                                               !.timed = @ /\ ~(starts /\ snap.armed),
                                               !.suppressed = starts /\ ~snap.armed]
  <2>3. /\ new.rdp = starts /\ new.state = (IF starts THEN "connecting" ELSE "idle")
        /\ new.failed = (~starts) /\ new.filling = (starts /\ snap.armed)
        /\ new.suppressed = (starts /\ ~snap.armed)
    BY <2>2, StartedEffect DEF SlotType
  <2>4. slot' = [slot EXCEPT ![s] = new]
    BY <2>1
  <2> HIDE DEF new
  <2>5. slot'[s] = new /\ \A t \in Slots \ {s} : slot'[t] = slot[t]
    BY <2>4 DEF TypesOK, SlotsOK
  <2> DEFINE told == IF starts /\ ~snap.armed THEN <<"suppress">> ELSE <<>>
  <2>6. Connect(s, snap, told)
    BY <2>1
  <2> HIDE DEF told
  <2>7. Fresh(s, starts, starts /\ snap.armed, starts /\ ~snap.armed, told, snap) /\ Others(s)
    BY <2>3, <2>5, <2>6, ConnectEffect DEF Fresh, Others
  <2>8. slot'[s].failed = (~starts)
    BY <2>3, <2>5
  <2> QED BY <1>3, <2>1, <2>7, <2>8 DEF told
<1> QED BY <1>1, <1>2, <1>3

LEMMA ReconnectEffect ==
    ASSUME TypesOK, NEW s \in Slots, Reconnect(s)
    PROVE  /\ Others(s)
           /\ \E starts \in BOOLEAN :
                 /\ Fresh(s, starts, FALSE, FALSE, <<>>, Disarmed)
                 /\ slot'[s].failed = ~starts
           /\ decoder' = Orphaned(s)
<1>1. PICK starts \in BOOLEAN :
          slot' = [slot EXCEPT ![s] = [Started(s, starts) EXCEPT !.failed = ~starts]]
  <2>1. PICK starts \in Succeeds("start") :
          slot' = [slot EXCEPT ![s] = [Started(s, starts) EXCEPT !.failed = ~starts]]
    BY DEF Reconnect
  <2>2. starts \in BOOLEAN
    BY SucceedsTyped
  <2> QED BY <2>1, <2>2
<1>2. Started(s, starts) \in SlotType
  BY StoppedTyped DEF TypesOK
<1> DEFINE new == [Started(s, starts) EXCEPT !.failed = ~starts]
<1>3. /\ new.rdp = starts /\ new.state = (IF starts THEN "connecting" ELSE "idle")
      /\ new.failed = (~starts) /\ new.filling = FALSE /\ new.suppressed = FALSE
  BY <1>2, StartedEffect DEF SlotType
<1>4. slot' = [slot EXCEPT ![s] = new]
  BY <1>1
<1> HIDE DEF new
<1>5. slot'[s] = new /\ \A t \in Slots \ {s} : slot'[t] = slot[t]
  BY <1>4 DEF TypesOK, SlotsOK
<1>6. Connect(s, Disarmed, <<>>)
  BY DEF Reconnect
<1>7. Others(s) /\ Fresh(s, starts, FALSE, FALSE, <<>>, Disarmed)
  <2>1. link[s].hand = "none"
    BY <1>6 DEF Connect, Joinable
  <2>2. link'[s] = [FreshLink EXCEPT !.told = <<>>] /\ \A t \in Slots \ {s} : link'[t] = link[t]
    BY <1>6 DEF Connect, TypesOK, LinksOK
  <2>3. /\ cache'[s].snap = Disarmed /\ cache'[s].ready = FALSE /\ cache'[s].quiet = cache[s].quiet
        /\ \A t \in Slots \ {s} : cache'[t] = cache[t]
    BY <1>6 DEF Connect, TypesOK, CachesOK
  <2>4. /\ link'[s].told = <<>> /\ link'[s].out = TRUE /\ link'[s].sent = 0
        /\ link'[s].hand = "none"
    BY <2>2 DEF FreshLink
  <2> QED BY <1>3, <1>5, <2>1, <2>2, <2>3, <2>4 DEF Others, Fresh
<1> QED BY <1>3, <1>5, <1>7 DEF Reconnect

LEMMA StopEffect ==
    ASSUME TypesOK, NEW s \in Slots, StopSlot(s)
    PROVE  /\ Others(s)
           /\ Fresh(s, FALSE, FALSE, FALSE, <<>>, Disarmed)
           /\ slot'[s].failed = FALSE
           /\ decoder' = IF Connected \subseteq {s} THEN NoMedia ELSE decoder
<1>1. link'[s] = FreshLink /\ \A t \in Slots \ {s} : link'[t] = link[t]
  BY DEF StopSlot, TypesOK, LinksOK
<1>2. /\ cache'[s].snap = Disarmed /\ cache'[s].ready = FALSE /\ cache'[s].quiet = cache[s].quiet
      /\ \A t \in Slots \ {s} : cache'[t] = cache[t]
  BY DEF StopSlot, Forget, TypesOK, CachesOK
<1>3. slot'[s] = Stopped(s) /\ \A t \in Slots \ {s} : slot'[t] = slot[t]
  BY DEF StopSlot, TypesOK, SlotsOK
<1>4. /\ Stopped(s).rdp = FALSE /\ Stopped(s).state = "idle" /\ Stopped(s).failed = FALSE
      /\ Stopped(s).filling = FALSE /\ Stopped(s).suppressed = FALSE
  BY DEF Stopped, TypesOK, SlotsOK, SlotType
<1>5. link[s].hand = "none"
  BY DEF StopSlot, Joinable
<1>6. /\ link'[s].told = <<>> /\ link'[s].out = TRUE /\ link'[s].sent = 0 /\ link'[s].hand = "none"
  BY <1>1 DEF FreshLink
<1> QED BY <1>1, <1>2, <1>3, <1>4, <1>5, <1>6 DEF Others, Fresh, StopSlot

LEMMA SilenceEffect ==
    ASSUME TypesOK, NEW s \in Slots, Silence(s)
    PROVE  /\ Told(s, FALSE, TRUE, <<"suppress">>)
           /\ \A t \in Slots \ {s} : slot'[t] = slot[t] /\ link'[t] = link[t]
<1>1. /\ slot'[s].rdp = slot[s].rdp /\ slot'[s].state = slot[s].state
      /\ slot'[s].failed = slot[s].failed
      /\ slot'[s].filling = FALSE /\ slot'[s].suppressed = TRUE
      /\ \A t \in Slots \ {s} : slot'[t] = slot[t]
  BY DEF Silence, TypesOK, SlotsOK, SlotType
<1> QED BY <1>1, SayEffect DEF Silence, Told

(* What Prepare makes of the slot it is for.                               *)
Prepared(s) ==
    \/ /\ slot[s].filling
       /\ UNCHANGED <<slot, link, cache, decoder, target>> /\ Return
    \/ /\ ~slot[s].filling
       /\ \E starts \in BOOLEAN, snap \in Snaps :
             /\ Fresh(s, starts, starts /\ snap.armed, FALSE, <<>>, snap)
             /\ slot'[s].failed = ~starts
             /\ \/ starts /\ ~snap.armed /\ target' = NoSlot /\ Goto("switch")
                \/ ~(starts /\ ~snap.armed) /\ UNCHANGED target /\ Return
       /\ decoder' = Orphaned(s)
    \/ /\ ~slot[s].filling /\ ~slot[s].ineffective
       /\ \E snap \in Snaps :
             /\ cache'[s].snap = snap /\ cache'[s].ready = FALSE /\ cache'[s].quiet = cache[s].quiet
             /\ \/ /\ snap.armed /\ Told(s, TRUE, FALSE, <<"resume", "refresh">>)
                   /\ UNCHANGED target /\ Return
                \/ /\ ~snap.armed /\ UNCHANGED <<slot, link>> /\ target' = NoSlot /\ Goto("switch")
       /\ UNCHANGED decoder

LEMMA PrepareEffect ==
    ASSUME TypesOK, PlaceOK, Prepare
    PROVE  /\ sdl.goal \in Slots /\ Others(sdl.goal) /\ Prepared(sdl.goal)
           /\ UNCHANGED <<active, streaming, request, refresh, watchdog>>
<1> DEFINE s == sdl.goal
<1>0. s \in Slots
  BY DEF Prepare, At, PlaceOK, Switching
<1>1. CASE slot[s].filling
  BY <1>0, <1>1 DEF Prepare, Others, Prepared
<1>2. CASE ~slot[s].filling /\ slot[s].ineffective
  <2>1. PICK starts \in BOOLEAN, snap \in Snaps :
                /\ Connect(s, snap, <<>>)
                /\ decoder' = Orphaned(s)
                /\ slot' = [slot EXCEPT ![s] =
                        [Started(s, starts) EXCEPT !.failed = ~starts, !.retried = TRUE,
                                                   !.filling = starts /\ snap.armed,
                                                   !.timed = @ /\ ~(starts /\ snap.armed)]]
                /\ \/ starts /\ ~snap.armed /\ target' = NoSlot /\ Goto("switch")
                   \/ ~(starts /\ ~snap.armed) /\ UNCHANGED target /\ Return
    <3>1. PICK starts \in Succeeds("start"), snap \in Snaps :
                /\ Connect(s, snap, <<>>)
                /\ decoder' = Orphaned(s)
                /\ slot' = [slot EXCEPT ![s] =
                        [Started(s, starts) EXCEPT !.failed = ~starts, !.retried = TRUE,
                                                   !.filling = starts /\ snap.armed,
                                                   !.timed = @ /\ ~(starts /\ snap.armed)]]
                /\ IF starts /\ ~snap.armed
                   THEN target' = NoSlot /\ Goto("switch")
                   ELSE Return /\ UNCHANGED target
      BY <1>2 DEF Prepare
    <3>2. starts \in BOOLEAN
      BY SucceedsTyped
    <3>3. \/ starts /\ ~snap.armed /\ target' = NoSlot /\ Goto("switch")
          \/ ~(starts /\ ~snap.armed) /\ UNCHANGED target /\ Return
      BY <3>1
    <3> QED BY <3>1, <3>2, <3>3
  <2>2. Started(s, starts) \in SlotType
    BY <1>0, StoppedTyped DEF TypesOK
  <2> DEFINE new == [Started(s, starts) EXCEPT !.failed = ~starts, !.retried = TRUE,
                                               !.filling = starts /\ snap.armed,
                                               !.timed = @ /\ ~(starts /\ snap.armed)]
  <2>3. /\ new.rdp = starts /\ new.state = (IF starts THEN "connecting" ELSE "idle")
        /\ new.failed = (~starts) /\ new.filling = (starts /\ snap.armed)
        /\ new.suppressed = FALSE
    BY <1>0, <2>2, StartedEffect DEF SlotType
  <2>4. slot' = [slot EXCEPT ![s] = new]
    BY <2>1
  <2> HIDE DEF new
  <2>5. slot'[s] = new /\ \A t \in Slots \ {s} : slot'[t] = slot[t]
    BY <1>0, <2>4 DEF TypesOK, SlotsOK
  <2> HIDE DEF s
  <2>6. Fresh(s, starts, starts /\ snap.armed, FALSE, <<>>, snap) /\ Others(s)
    <3>1. /\ link[s].hand = "none"
          /\ link'[s].told = <<>> /\ link'[s].out = TRUE /\ link'[s].sent = 0 /\ link'[s].hand = "none"
          /\ cache'[s].snap = snap /\ cache'[s].ready = FALSE /\ cache'[s].quiet = cache[s].quiet
          /\ \A t \in Slots \ {s} : link'[t] = link[t] /\ cache'[t] = cache[t]
      <4>1. Connect(s, snap, <<>>)
        BY <2>1
      <4> QED BY <1>0, <4>1, ConnectEffect
    <3> QED BY <2>3, <2>5, <3>1 DEF Fresh, Others
  <2>7. slot'[s].failed = ~starts
    BY <2>3, <2>5
  <2>8. Prepared(s)
    BY <1>2, <2>1, <2>6, <2>7 DEF Prepared, s
  <2> QED BY <1>0, <2>6, <2>8 DEF Prepare, s
<1>3. CASE ~slot[s].filling /\ ~slot[s].ineffective
  <2>1. PICK snap \in Snaps :
                /\ cache' = [cache EXCEPT ![s].snap = snap, ![s].ready = FALSE]
                /\ IF snap.armed
                   THEN /\ slot' = [slot EXCEPT ![s].filling = TRUE, ![s].timed = FALSE,
                                                ![s].suppressed = FALSE]
                        /\ Say(s, <<"resume", "refresh">>)
                        /\ Return /\ UNCHANGED target
                   ELSE /\ target' = NoSlot /\ Goto("switch")
                        /\ UNCHANGED <<slot, link>>
    BY <1>3 DEF Prepare
  <2>2. /\ cache'[s].snap = snap /\ cache'[s].ready = FALSE /\ cache'[s].quiet = cache[s].quiet
        /\ \A t \in Slots \ {s} : cache'[t] = cache[t]
    BY <1>0, <2>1 DEF TypesOK, CachesOK
  <2>3. UNCHANGED decoder
    BY <1>3 DEF Prepare
  <2>4. CASE snap.armed
    <3>1. /\ slot'[s].rdp = slot[s].rdp /\ slot'[s].state = slot[s].state
          /\ slot'[s].failed = slot[s].failed
          /\ slot'[s].filling = TRUE /\ slot'[s].suppressed = FALSE
          /\ \A t \in Slots \ {s} : slot'[t] = slot[t]
      BY <1>0, <2>1, <2>4 DEF TypesOK, SlotsOK, SlotType
    <3> HIDE DEF s
    <3>2. Told(s, TRUE, FALSE, <<"resume", "refresh">>) /\ Others(s)
      BY <1>0, <2>1, <2>2, <2>4, <3>1, SayEffect DEF Told, Others
    <3>3. Prepared(s)
      BY <1>3, <2>1, <2>2, <2>3, <2>4, <3>2 DEF Prepared, s
    <3> QED BY <1>0, <3>2, <3>3 DEF Prepare, s
  <2>5. CASE ~snap.armed
    <3>1. Others(s)
      BY <2>1, <2>2, <2>5 DEF Others
    <3> HIDE DEF s
    <3>2. Prepared(s)
      BY <1>3, <2>1, <2>2, <2>3, <2>5 DEF Prepared, s
    <3> QED BY <1>0, <3>1, <3>2 DEF Prepare, s
  <2> QED BY <2>4, <2>5
<1> QED BY <1>1, <1>2, <1>3

LEMMA DialEffect ==
    ASSUME TypesOK, PlaceOK, Dial
    PROVE  /\ request \in Slots /\ Rest("input")
           /\ \/ UNCHANGED <<slot, link, cache, decoder, active, target>>
              \/ /\ Others(request) /\ active' = request /\ target' = NoSlot
                 /\ \E starts \in BOOLEAN :
                       /\ Fresh(request, starts, FALSE, FALSE, <<>>, Disarmed)
                       /\ decoder' = IF ~starts /\ Connected \subseteq {request}
                                     THEN NoMedia ELSE Orphaned(request)
                 /\ slot'[request].failed = FALSE
           /\ request' = NoSlot /\ UNCHANGED streaming
<1>1. request \in Slots
  BY DEF Dial, At, PlaceOK, TypesOK, ScreenOK
<1>2. CASE Connecting(request)
  BY <1>1, <1>2 DEF Dial
<1>3. CASE ~Connecting(request)
  <2>1. PICK starts \in BOOLEAN :
           /\ slot' = [slot EXCEPT ![request] = Started(request, starts)]
           /\ decoder' = IF ~starts /\ Connected \subseteq {request}
                         THEN NoMedia ELSE Orphaned(request)
    BY <1>3, SucceedsTyped DEF Dial
  <2>2. slot'[request] = Started(request, starts) /\ \A t \in Slots \ {request} : slot'[t] = slot[t]
    BY <1>1, <2>1 DEF TypesOK, SlotsOK
  <2>3. Connect(request, Disarmed, <<>>)
    BY <1>3 DEF Dial
  <2>4. link[request].hand = "none"
    BY <2>3 DEF Connect, Joinable
  <2>5. /\ link'[request] = [FreshLink EXCEPT !.told = <<>>]
        /\ \A t \in Slots \ {request} : link'[t] = link[t]
    BY <1>1, <2>3 DEF Connect, TypesOK, LinksOK
  <2>6. /\ cache'[request].snap = Disarmed /\ cache'[request].ready = FALSE
        /\ cache'[request].quiet = cache[request].quiet
        /\ \A t \in Slots \ {request} : cache'[t] = cache[t]
    BY <1>1, <2>3 DEF Connect, TypesOK, CachesOK
  <2>7. /\ link'[request].told = <<>> /\ link'[request].out = TRUE /\ link'[request].sent = 0
        /\ link'[request].hand = "none"
    BY <2>5 DEF FreshLink
  <2>8. Others(request) /\ Fresh(request, starts, FALSE, FALSE, <<>>, Disarmed)
    <3>1. Others(request)
      BY <2>2, <2>5, <2>6 DEF Others
    <3>2. Fresh(request, starts, FALSE, FALSE, <<>>, Disarmed)
      <4>1. /\ slot'[request].rdp = starts
            /\ slot'[request].state = (IF starts THEN "connecting" ELSE "idle")
            /\ slot'[request].filling = FALSE /\ slot'[request].suppressed = FALSE
        BY <1>1, <2>2, StartedEffect
      <4> QED BY <2>4, <2>6, <2>7, <4>1 DEF Fresh
    <3> QED BY <3>1, <3>2
  <2>9. slot'[request].failed = FALSE
    BY <1>1, <2>2, StartedEffect
  <2> QED BY <1>1, <1>3, <2>1, <2>8, <2>9 DEF Dial
<1> QED BY <1>2, <1>3

-----------------------------------------------------------------------------
(* What holds of each slot after a step (StateOK).                         *)

(* What holds of a slot whose flags alone may have changed.                *)
Flags == \A t \in Slots :
    /\ slot'[t].rdp = slot[t].rdp /\ slot'[t].state = slot[t].state
    /\ slot'[t].failed = slot[t].failed
    /\ slot'[t].filling = slot[t].filling /\ slot'[t].suppressed = slot[t].suppressed

LEMMA LoopEffect ==
    ASSUME LoopOK
    PROVE  /\ \A pc, s : Loop(pc, s) => sdl'.pc = pc /\ sdl'.at = s
           /\ \A pc : Rest(pc) => sdl'.pc = pc
           /\ Return => sdl'.pc = sdl.back /\ sdl'.at = sdl.at
           /\ \A pc : Goto(pc) =>
                 /\ sdl'.pc = pc /\ sdl'.at = sdl.at /\ sdl'.goal = sdl.goal /\ sdl'.old = sdl.old
                 /\ sdl'.back = sdl.back /\ sdl'.seen = sdl.seen
           /\ \A pc, s, back : Call(pc, s, back) =>
                 /\ sdl'.pc = pc /\ sdl'.at = sdl.at /\ sdl'.goal = s /\ sdl'.old = sdl.old
                 /\ sdl'.back = back
<1>1. \A pc, s : Loop(pc, s) => sdl'.pc = pc /\ sdl'.at = s
  BY DEF Loop
<1>2. \A pc : Goto(pc) =>
                 /\ sdl'.pc = pc /\ sdl'.at = sdl.at /\ sdl'.goal = sdl.goal /\ sdl'.old = sdl.old
                 /\ sdl'.back = sdl.back /\ sdl'.seen = sdl.seen
  BY DEF Goto, LoopOK
<1>3. \A pc, s, back : Call(pc, s, back) =>
                 /\ sdl'.pc = pc /\ sdl'.at = sdl.at /\ sdl'.goal = s /\ sdl'.old = sdl.old
                 /\ sdl'.back = back
  BY DEF Call, LoopOK
<1> QED BY <1>1, <1>2, <1>3 DEF Rest, Return

LEMMA OthersState ==
    ASSUME StateOK, NEW s \in Slots, Others(s), StateAt(s)'
    PROVE  StateOK'
  BY DEF StateOK, StateAt, Others

LEMMA FreshState ==
    ASSUME NEW s \in Slots, NEW starts \in BOOLEAN, NEW filling \in BOOLEAN,
           NEW suppressed \in BOOLEAN, NEW told, NEW snap,
           Fresh(s, starts, filling, suppressed, told, snap),
           filling \/ suppressed => starts, ~(filling /\ suppressed)
    PROVE  StateAt(s)'
  BY DEF StateAt, Fresh

LEMMA ToldState ==
    ASSUME StateOK, NEW s \in Slots, NEW filling, NEW suppressed, NEW commands,
           Told(s, filling, suppressed, commands),
           filling \/ suppressed => slot[s].rdp, ~(filling /\ suppressed)
    PROVE  StateAt(s)'
  BY DEF StateOK, StateAt, Told

LEMMA FlagsState ==
    ASSUME StateOK, Flags, UNCHANGED link
    PROVE  StateOK'
  BY DEF StateOK, StateAt, Flags

LEMMA BackgroundState ==
    ASSUME TypesOK, StateOK, NEW s \in Slots, Background(s), ~slot[s].filling
    PROVE  StateOK'
<1>1. CASE UNCHANGED <<slot, link, cache>>
  BY <1>1 DEF StateOK, StateAt
<1>2. ASSUME NEW starts \in BOOLEAN, NEW snap \in Snaps,
             Fresh(s, starts, starts /\ snap.armed, starts /\ ~snap.armed,
                   IF starts /\ ~snap.armed THEN <<"suppress">> ELSE <<>>, snap)
      PROVE  StateAt(s)'
  <2>1. (starts /\ snap.armed) \in BOOLEAN /\ (starts /\ ~snap.armed) \in BOOLEAN
    OBVIOUS
  <2> QED BY <1>2, <2>1, FreshState
<1>3. ASSUME Told(s, slot[s].filling, TRUE, <<"suppress">>), slot[s].rdp PROVE StateAt(s)'
  BY <1>3 DEF StateOK, StateAt, Told
<1> QED BY <1>1, <1>2, <1>3, BackgroundEffect, OthersState

LEMMA BackgroundSlots ==
    ASSUME TypesOK, NEW s \in Slots, NEW t \in Slots \ {s}, Background(s)
    PROVE  slot'[t] = slot[t]
  BY BackgroundEffect DEF Others

LEMMA PressState ==
    ASSUME TypesOK, StateOK, PlaceOK,
           \/ PressCancel \/ Leave \/ \E s \in Slots : PressLive(s) \/ PressOffline(s)
    PROVE  StateOK' /\ PlaceOK'
<1>0. active \in Slots
  BY DEF TypesOK, ScreenOK
<1>1. CASE PressCancel
  BY <1>1 DEF PressCancel, At, Rest, Loop, StateOK, StateAt, PlaceOK, Switching
<1>2. CASE Leave
  <2>1. sdl.old \in Slots \ {active} /\ ~slot[sdl.old].filling
    BY <1>2 DEF Leave, At, PlaceOK
  <2>2. slot'[active] = slot[active]
    BY <1>0, <1>2, <2>1, BackgroundSlots DEF Leave
  <2> QED BY <1>2, <2>1, <2>2, BackgroundState DEF Leave, At, Rest, Loop, PlaceOK, Switching, screen
<1>3. ASSUME NEW s \in Slots, PressLive(s) PROVE StateOK' /\ PlaceOK'
  <2>1. Flags
    BY <1>3 DEF PressLive, Flags, TypesOK, SlotsOK, SlotType
  <2>2. StateOK'
    BY <1>3, <2>1, FlagsState DEF PressLive
  <2>3. slot[s].rdp /\ request = NoSlot
    BY <1>3 DEF PressLive, Target, At, PlaceOK
  <2>4. s # active \/ ReadyNow(s)
    BY <1>3 DEF PressLive, ReadyNow, At, PlaceOK
  <2>5. CASE Call("switch", s, "scan")
    <3>1. sdl'.pc = "switch" /\ sdl'.goal = s /\ sdl'.back = "scan"
      BY <2>5, LoopEffect DEF TypesOK
    <3> QED BY <1>0, <1>3, <2>1, <2>2, <2>3, <3>1 DEF PressLive, Flags, PlaceOK, Switching, At
  <2>6. CASE Rest("scan")
    <3>1. sdl'.pc = "scan"
      BY <2>6, LoopEffect DEF TypesOK
    <3> QED BY <1>0, <1>3, <2>1, <2>2, <2>3, <3>1 DEF PressLive, Flags, PlaceOK, Switching, At
  <2>7. CASE Call("prepare", s, "scan") /\ s # active
    <3>1. sdl'.pc = "prepare" /\ sdl'.goal = s /\ sdl'.back = "scan"
      BY <2>7, LoopEffect DEF TypesOK
    <3> QED BY <1>0, <1>3, <2>1, <2>2, <2>3, <2>7, <3>1 DEF PressLive, Flags, PlaceOK, Switching, At
  <2> QED BY <1>3, <2>4, <2>5, <2>6, <2>7 DEF PressLive
<1>4. ASSUME NEW s \in Slots, PressOffline(s) PROVE StateOK' /\ PlaceOK'
  <2>1. StateOK'
    BY <1>4 DEF PressOffline, StateOK, StateAt
  <2>2. ~slot[s].filling /\ ~slot[s].suppressed /\ ~slot[active].filling
    BY <1>4 DEF PressOffline, PlaceOK, StateOK, StateAt, At
  <2>3. sdl'.pc \in {"scan", "leave"} /\ (sdl'.pc = "leave" => sdl'.old = active /\ s # active)
    <3>1. CASE Rest("scan")
      BY <3>1, LoopEffect DEF TypesOK
    <3>2. CASE sdl' = [sdl EXCEPT !.pc = "leave", !.old = active] /\ s # active
      BY <3>2 DEF TypesOK, LoopOK
    <3> QED BY <1>4, <3>1, <3>2 DEF PressOffline
  <2> QED BY <1>0, <1>4, <2>1, <2>2, <2>3 DEF PressOffline, PlaceOK, Switching
<1> QED BY <1>1, <1>2, <1>3, <1>4

-----------------------------------------------------------------------------
(* A switch, from its start to the watchdog it arms.                       *)

LEMMA FlagsFrom ==
    ASSUME TypesOK, NEW s \in Slots
    PROVE  /\ UNCHANGED slot => Flags
           /\ \A b : slot' = [slot EXCEPT ![s].moved = b] => Flags
           /\ \A b : slot' = [slot EXCEPT ![s].timed = b] => Flags
           /\ \A b, c : slot' = [slot EXCEPT ![s].ineffective = b, ![s].moved = c] => Flags
<1>0. SlotsOK
  BY DEF TypesOK
<1>1. ASSUME UNCHANGED slot PROVE Flags
  BY <1>1 DEF Flags
<1>2. ASSUME NEW b, slot' = [slot EXCEPT ![s].moved = b] PROVE Flags
  BY <1>0, <1>2 DEF Flags, SlotsOK, SlotType
<1>3. ASSUME NEW b, slot' = [slot EXCEPT ![s].timed = b] PROVE Flags
  BY <1>0, <1>3 DEF Flags, SlotsOK, SlotType
<1>4. ASSUME NEW b, NEW c, slot' = [slot EXCEPT ![s].ineffective = b, ![s].moved = c] PROVE Flags
  <2> DEFINE new == [slot[s] EXCEPT !.ineffective = b, !.moved = c]
  <2>1. slot' = [slot EXCEPT ![s] = new]
    BY <1>0, <1>4 DEF SlotsOK, SlotType
  <2>2. /\ new.rdp = slot[s].rdp /\ new.state = slot[s].state /\ new.failed = slot[s].failed
        /\ new.filling = slot[s].filling /\ new.suppressed = slot[s].suppressed
    BY <1>0 DEF SlotsOK, SlotType
  <2> HIDE DEF new
  <2> QED BY <1>0, <2>1, <2>2 DEF Flags, SlotsOK
<1> QED BY <1>1, <1>2, <1>3, <1>4

(* Back in the caller of a switch: nothing is pending there but the slot   *)
(* to bury.                                                                *)
LEMMA ReturnPlace ==
    ASSUME TypesOK, PlaceOK, sdl.pc \in Switching, Return,
           active' = active, request' = request,
           ~slot'[active].filling, ~slot'[active].suppressed
    PROVE  PlaceOK'
<1>1. sdl'.pc = sdl.back /\ sdl'.at = sdl.at
  BY LoopEffect DEF TypesOK
<1>2. sdl.back \in {"scan", "watchdog", "bury"} /\ request = NoSlot
  BY DEF PlaceOK, TypesOK, LoopOK, Switching
<1> QED BY <1>1, <1>2 DEF PlaceOK, Switching

LEMMA ToldPlace ==
    ASSUME TypesOK, NEW s \in Slots, NEW commands, Say(s, commands)
    PROVE  \A t \in Slots : link'[t].hand = link[t].hand /\ link'[t].au = link[t].au
                            /\ link'[t].sent = link[t].sent
  BY SayEffect

LEMMA PromoteState ==
    ASSUME TypesOK, StateOK, PlaceOK, Promote
    PROVE  StateOK' /\ PlaceOK'
<1> DEFINE s == sdl.goal
<1>1. s \in Slots /\ s = active /\ slot[s].rdp /\ sdl.pc \in Switching /\ request = NoSlot
  BY DEF Promote, At, PlaceOK, Switching
<1>2. /\ slot'[s].rdp = slot[s].rdp /\ slot'[s].state = slot[s].state
      /\ slot'[s].filling = FALSE /\ slot'[s].suppressed = FALSE
      /\ \A t \in Slots \ {s} : slot'[t] = slot[t]
  <2>1. CASE slot[s].filling /\ slot' = [slot EXCEPT ![s].filling = FALSE]
    BY <1>1, <2>1 DEF TypesOK, SlotsOK, SlotType, StateOK, StateAt
  <2>2. CASE ~slot[s].filling /\ slot' = [slot EXCEPT ![s].suppressed = FALSE]
    BY <1>1, <2>2 DEF TypesOK, SlotsOK, SlotType
  <2>3. CASE ~slot[s].filling /\ ~slot[s].suppressed /\ UNCHANGED slot
    BY <1>1, <2>3 DEF TypesOK, SlotsOK, SlotType
  <2> QED BY <2>1, <2>2, <2>3 DEF Promote
<1>3. UNCHANGED <<link, active, request, target, streaming>>
  BY DEF Promote, screen
<1> HIDE DEF s
<1>4. StateOK'
  BY <1>1, <1>2, <1>3 DEF StateOK, StateAt
<1>5. CASE Return
  <2>1. ~slot'[active].filling /\ ~slot'[active].suppressed /\ active' = active /\ request' = request
    BY <1>1, <1>2, <1>3
  <2> QED BY <1>1, <1>4, <1>5, <2>1, ReturnPlace
<1>6. CASE sdl' = [sdl EXCEPT !.pc = sdl'.pc, !.left = sdl'.left] /\ sdl'.pc \in {"replay", "wake"}
  <2>1. sdl'.goal = s /\ sdl'.back = sdl.back /\ sdl'.at = sdl.at
    BY <1>6 DEF TypesOK, LoopOK, s
  <2>2. /\ ~slot'[s].filling /\ ~slot'[s].suppressed /\ slot'[s].rdp
        /\ active' = s /\ request' = NoSlot
    BY <1>1, <1>2, <1>3
  <2>3. sdl.back # "input" /\ (sdl.back = "bury" => sdl.at \in Slots)
    BY <1>1 DEF PlaceOK
  <2> QED BY <1>1, <1>4, <1>6, <2>1, <2>2, <2>3 DEF PlaceOK, Switching
<1>7. ASSUME NEW replays,
             sdl' = [sdl EXCEPT !.pc = IF replays THEN "replay" ELSE "wake",
                                !.left = IF replays THEN cache[s].snap.aus ELSE <<>>]
      PROVE  sdl' = [sdl EXCEPT !.pc = sdl'.pc, !.left = sdl'.left] /\ sdl'.pc \in {"replay", "wake"}
  BY <1>7 DEF TypesOK, LoopOK
<1> QED BY <1>4, <1>5, <1>6, <1>7 DEF Promote, Watch, s

LEMMA SwitchState ==
    ASSUME TypesOK, StateOK, PlaceOK,
           \/ Switch \/ Flip \/ Demote \/ Promote \/ Replay \/ Replayed \/ Wake \/ Prepare
    PROVE  StateOK' /\ PlaceOK'
<1> DEFINE s == sdl.goal
<1>0. /\ active \in Slots
      /\ sdl.pc \in Switching => s \in Slots /\ slot[s].rdp /\ request = NoSlot
  BY DEF PlaceOK, TypesOK, ScreenOK, Switching
<1>1. CASE Switch
  <2>1. At("switch") /\ s \in Slots /\ UNCHANGED <<active, request, link, streaming>>
    BY <1>0, <1>1 DEF Switch, At, Switching
  <2>2. Flags
    <3>1. UNCHANGED slot \/ slot' = [slot EXCEPT ![s].moved = FALSE]
      BY <1>1 DEF Switch
    <3> QED BY <2>1, <3>1, FlagsFrom
  <2>3. StateOK'
    BY <2>1, <2>2, FlagsState
  <2>4. ~slot'[active].filling /\ ~slot'[active].suppressed
    BY <1>0, <2>1, <2>2 DEF PlaceOK, At, Flags
  <2>5. CASE Return
    BY <2>1, <2>3, <2>4, <2>5, ReturnPlace DEF At, Switching
  <2>6. CASE Call("flip", s, sdl.back) /\ s # active
    <3>1. sdl'.pc = "flip" /\ sdl'.goal = s /\ sdl'.back = sdl.back /\ sdl'.at = sdl.at
      BY <2>6, LoopEffect DEF TypesOK
    <3>2. slot'[s].rdp
      BY <1>0, <2>1, <2>2 DEF Flags, At, Switching
    <3> HIDE DEF s
    <3> QED BY <1>0, <2>1, <2>3, <2>4, <2>6, <3>1, <3>2 DEF PlaceOK, At, Switching
  <2> QED BY <1>1, <2>5, <2>6 DEF Switch
<1>2. CASE Flip
  <2>1. /\ s \in Slots \ {active} /\ slot[s].rdp /\ request = NoSlot /\ ~slot[active].filling
        /\ UNCHANGED <<slot, link, streaming, target, request>> /\ active' = s
    BY <1>0, <1>2 DEF Flip, At, PlaceOK, Switching
  <2>2. /\ sdl'.pc = "demote" /\ sdl'.goal = s /\ sdl'.back = sdl.back /\ sdl'.at = sdl.at
        /\ sdl'.old = active
    BY <1>2 DEF Flip, TypesOK, LoopOK
  <2>3. sdl.back # "input" /\ (sdl.back = "bury" => sdl.at \in Slots)
    BY <1>2 DEF Flip, At, PlaceOK, Switching
  <2>4. StateOK'
    BY <2>1 DEF StateOK, StateAt
  <2> HIDE DEF s
  <2> QED BY <1>0, <2>1, <2>2, <2>3, <2>4 DEF PlaceOK, Switching
<1>3. CASE Demote
  <2>1. /\ s \in Slots /\ s = active /\ slot[s].rdp /\ request = NoSlot
        /\ sdl.old \in Slots \ {active} /\ ~slot[sdl.old].filling
        /\ sdl.back # "input" /\ (sdl.back = "bury" => sdl.at \in Slots)
        /\ UNCHANGED <<active, request>>
    BY <1>0, <1>3 DEF Demote, At, PlaceOK, Switching, screen
  <2>2. StateOK' /\ slot'[s] = slot[s]
    BY <1>3, <2>1, BackgroundState, BackgroundSlots DEF Demote
  <2>3. /\ sdl'.pc = "promote" /\ sdl'.goal = s /\ sdl'.back = sdl.back /\ sdl'.at = sdl.at
    BY <1>3, LoopEffect DEF Demote, TypesOK
  <2> HIDE DEF s
  <2> QED BY <2>1, <2>2, <2>3 DEF PlaceOK, Switching
<1>4. CASE Promote
  BY <1>4, PromoteState
<1>5. CASE Replay
  <2>1. /\ s \in Slots /\ s = active /\ slot[s].rdp /\ request = NoSlot
        /\ ~slot[active].filling /\ ~slot[active].suppressed
        /\ sdl.back # "input" /\ (sdl.back = "bury" => sdl.at \in Slots)
        /\ UNCHANGED <<active, request, link>>
    BY <1>0, <1>5 DEF Replay, At, PlaceOK, Switching, screen
  <2>2. Flags
    <3>1. UNCHANGED slot \/ \E b : slot' = [slot EXCEPT ![s].moved = b]
      <4>1. CASE UNCHANGED slot
        BY <4>1
      <4>2. CASE \E r \in Offers(s, Head(sdl.left)) : slot' = [slot EXCEPT ![s].moved = @ \/ r.ok]
        <5>1. PICK r : slot' = [slot EXCEPT ![s].moved = @ \/ r.ok]
          BY <4>2
        <5>2. slot' = [slot EXCEPT ![s].moved = slot[s].moved \/ r.ok]
          BY <2>1, <5>1 DEF TypesOK, SlotsOK, SlotType
        <5> QED BY <5>2
      <4> QED BY <1>5, <4>1, <4>2 DEF Replay
    <3> QED BY <2>1, <3>1, FlagsFrom
  <2>3. /\ sdl'.pc = "replay" /\ sdl'.goal = s /\ sdl'.back = sdl.back /\ sdl'.at = sdl.at
    BY <1>5 DEF Replay, At, TypesOK, LoopOK
  <2>4. StateOK'
    BY <2>1, <2>2, FlagsState
  <2> HIDE DEF s
  <2> QED BY <2>1, <2>2, <2>3, <2>4 DEF PlaceOK, Switching, Flags
<1>6. CASE Replayed
  <2>1. /\ s \in Slots /\ s = active /\ slot[s].rdp /\ request = NoSlot
        /\ ~slot[active].filling /\ ~slot[active].suppressed /\ sdl.pc \in Switching
        /\ sdl.back # "input" /\ (sdl.back = "bury" => sdl.at \in Slots)
        /\ UNCHANGED <<active, request, slot>>
    BY <1>0, <1>6 DEF Replayed, At, PlaceOK, Switching, screen
  <2>2. StateOK'
    <3>1. \A t \in Slots : link'[t].hand = link[t].hand /\ link'[t].au = link[t].au
                           /\ link'[t].sent = link[t].sent
      BY <1>6, <2>1, ToldPlace DEF Replayed
    <3> QED BY <2>1, <3>1 DEF StateOK, StateAt
  <2>3. CASE Return
    BY <2>1, <2>2, <2>3, ReturnPlace
  <2>4. CASE Goto("wake")
    <3>1. /\ sdl'.pc = "wake" /\ sdl'.goal = s /\ sdl'.back = sdl.back /\ sdl'.at = sdl.at
      BY <2>4, LoopEffect DEF TypesOK
    <3> HIDE DEF s
    <3> QED BY <2>1, <2>2, <3>1 DEF PlaceOK, Switching
  <2> QED BY <1>6, <2>3, <2>4 DEF Replayed, Watch
<1>7. CASE Wake
  <2>1. /\ s \in Slots /\ s = active /\ slot[s].rdp /\ request = NoSlot
        /\ ~slot[active].filling /\ ~slot[active].suppressed /\ sdl.pc \in Switching
        /\ UNCHANGED <<active, request>> /\ Return
    BY <1>0, <1>7 DEF Wake, Watch, At, PlaceOK, Switching, screen
  <2>2. CASE Reconnect(s)
    <3>1. PICK starts \in BOOLEAN : Others(s) /\ Fresh(s, starts, FALSE, FALSE, <<>>, Disarmed)
      BY <2>1, <2>2, ReconnectEffect
    <3>2. StateOK'
      BY <2>1, <3>1, FreshState, OthersState
    <3>3. ~slot'[s].filling /\ ~slot'[s].suppressed
      BY <3>1 DEF Fresh
    <3> QED BY <2>1, <3>2, <3>3, ReturnPlace
  <2>3. CASE UNCHANGED slot /\ (UNCHANGED link \/ Say(s, <<"resume", "refresh">>))
    <3>1. \A t \in Slots : link'[t].hand = link[t].hand /\ link'[t].au = link[t].au
                           /\ link'[t].sent = link[t].sent
      BY <2>1, <2>3, ToldPlace
    <3>2. StateOK'
      BY <2>3, <3>1 DEF StateOK, StateAt
    <3> QED BY <2>1, <2>3, <3>2, ReturnPlace
  <2> QED BY <1>7, <2>2, <2>3 DEF Wake
<1>8. CASE Prepare
  <2>1. /\ s \in Slots \ {active} /\ slot[s].rdp /\ request = NoSlot
        /\ ~slot[active].filling /\ ~slot[active].suppressed /\ sdl.pc \in Switching
        /\ sdl.back # "input" /\ (sdl.back = "bury" => sdl.at \in Slots)
        /\ UNCHANGED <<active, request>> /\ Others(s) /\ Prepared(s)
    BY <1>0, <1>8, PrepareEffect DEF Prepare, At, PlaceOK, Switching
  <2>2. slot'[active] = slot[active]
    BY <1>0, <2>1 DEF Others
  <2>3. StateOK' /\ (Goto("switch") => slot'[s].rdp)
    <3>1. CASE UNCHANGED <<slot, link, cache, decoder, target>> /\ Return
      <4>1. sdl'.pc # "switch"
        BY <3>1, LoopEffect DEF TypesOK, LoopOK
      <4> QED BY <2>1, <3>1 DEF StateOK, StateAt
    <3>2. ASSUME NEW starts \in BOOLEAN, NEW snap \in Snaps,
                 Fresh(s, starts, starts /\ snap.armed, FALSE, <<>>, snap),
                 \/ starts /\ ~snap.armed /\ target' = NoSlot /\ Goto("switch")
                 \/ ~(starts /\ ~snap.armed) /\ UNCHANGED target /\ Return
          PROVE  StateOK' /\ (Goto("switch") => slot'[s].rdp)
      <4>1. (starts /\ snap.armed) \in BOOLEAN
        OBVIOUS
      <4>2. StateOK'
        BY <2>1, <3>2, <4>1, FreshState, OthersState
      <4>3. Return => ~Goto("switch")
        BY LoopEffect DEF TypesOK, LoopOK
      <4> QED BY <3>2, <4>2, <4>3 DEF Fresh
    <3>3. CASE UNCHANGED <<slot, link>>
      BY <2>1, <3>3 DEF StateOK, StateAt
    <3>4. CASE Told(s, TRUE, FALSE, <<"resume", "refresh">>)
      <4>1. PICK x \in Slots : x = s
        BY <2>1
      <4>2. Told(x, TRUE, FALSE, <<"resume", "refresh">>) /\ Others(x) /\ slot[x].rdp
        BY <2>1, <3>4, <4>1
      <4>3. StateAt(x)'
        BY <4>2, ToldState
      <4>4. StateOK' /\ slot'[x].rdp
        BY <4>2, <4>3, OthersState DEF Told
      <4> QED BY <4>1, <4>4
    <3> QED BY <2>1, <3>1, <3>2, <3>3, <3>4 DEF Prepared
  <2>4. CASE Return
    BY <2>1, <2>2, <2>3, <2>4, ReturnPlace
  <2>5. CASE Goto("switch")
    <3>1. /\ sdl'.pc = "switch" /\ sdl'.goal = s /\ sdl'.back = sdl.back /\ sdl'.at = sdl.at
      BY <2>5, LoopEffect DEF TypesOK
    <3> HIDE DEF s
    <3> QED BY <2>1, <2>2, <2>3, <2>5, <3>1 DEF PlaceOK, Switching
  <2> QED BY <2>1, <2>4, <2>5 DEF Prepared
<1> QED BY <1>1, <1>2, <1>3, <1>4, <1>5, <1>6, <1>7, <1>8

-----------------------------------------------------------------------------
(* The tick, the drain and the workers.                                    *)

(* Somewhere in the loop without locals, with the form's slot as it was.   *)
Resting == {"input", "scan", "watchdog", "deadline", "renew", "drain"}

LEMMA RestPlace ==
    ASSUME sdl'.pc \in Resting, ~slot'[active'].filling, ~slot'[active'].suppressed,
           request' # NoSlot =>
              /\ request' = active' /\ target' = NoSlot /\ ~streaming' /\ ~slot'[active'].rdp
              /\ sdl'.pc \in {"scan", "watchdog", "deadline", "drain"}
    PROVE  PlaceOK'
  BY DEF PlaceOK, Resting, Switching

LEMMA TickState ==
    ASSUME TypesOK, StateOK, PlaceOK,
           \/ Scan \/ Filled \/ StillFilling \/ FillExpires \/ Deferred \/ DeferredExpires
           \/ Recover \/ Watchdog \/ WatchdogExpires \/ Renew
    PROVE  StateOK' /\ PlaceOK'
<1>0. active \in Slots /\ LoopOK /\ NoSlot \notin Slots
  BY SlotsAssumption DEF TypesOK, ScreenOK, NoSlot, Slots
<1>00. sdl.pc \notin {"demote", "promote"} => ~slot[active].filling /\ ~slot[active].suppressed
  BY DEF PlaceOK
<1>1. CASE Scan
  <2>1. /\ UNCHANGED <<slot, link, active, target, request, streaming>>
        /\ ~slot[active].filling /\ ~slot[active].suppressed
    BY <1>00, <1>1 DEF Scan, At, screen
  <2>2. StateOK'
    BY <2>1 DEF StateOK, StateAt
  <2>3. request # NoSlot => request = active /\ target = NoSlot /\ ~streaming /\ ~slot[active].rdp
    BY DEF PlaceOK
  <2>4. CASE Filling = {}
    <3>1. sdl'.pc = (IF target = NoSlot THEN "watchdog" ELSE "deferred")
      BY <1>0, <1>1, <2>4, LoopEffect DEF Scan
    <3>2. CASE target = NoSlot
      BY <2>1, <2>2, <2>3, <3>1, <3>2, RestPlace DEF Resting
    <3>3. CASE target # NoSlot
      BY <2>1, <2>2, <2>3, <3>1, <3>3 DEF PlaceOK, Switching
    <3> QED BY <3>2, <3>3
  <2>5. CASE Filling # {}
    <3>1. First(Filling) \in Filling
      BY <2>5, FirstIn DEF Filling
    <3>2. sdl'.pc = "filled" /\ sdl'.at = First(Filling)
      BY <1>0, <1>1, <2>5 DEF Scan, LoopOK
    <3>3. sdl'.at \in Slots \ {active} /\ slot[sdl'.at].rdp /\ slot[sdl'.at].filling
      BY <3>1, <3>2 DEF Filling
    <3> QED BY <2>1, <2>2, <2>3, <3>2, <3>3 DEF PlaceOK, Switching
  <2> QED BY <2>4, <2>5
<1>2. ASSUME NEW s \in Slots, s = sdl.at, sdl.pc = "filled", Silence(s), UNCHANGED cache,
             UNCHANGED <<active, streaming, request>>,
             NextOrSwitch(s) \/ (Loop("scan", s) /\ UNCHANGED target)
      PROVE  StateOK' /\ PlaceOK'
  <2>1. s # active /\ slot[s].rdp
    BY <1>2 DEF PlaceOK
  <2>2. Told(s, FALSE, TRUE, <<"suppress">>) /\ Others(s)
    BY <1>2, SilenceEffect DEF Others
  <2>3. StateOK'
    BY <2>1, <2>2, ToldState, OthersState
  <2>4. slot'[active] = slot[active] /\ slot'[s].rdp
    BY <1>0, <2>1, <2>2 DEF Others, Told
  <2>5. CASE Loop("scan", s) /\ UNCHANGED target
    <3>1. sdl'.pc = "scan"
      BY <1>0, <2>5, LoopEffect
    <3> QED BY <1>00, <1>2, <2>3, <2>4, <2>5, <3>1, RestPlace DEF PlaceOK, Resting
  <2>6. CASE s = target /\ Call("switch", s, "scan") /\ target' = NoSlot
    <3>1. sdl'.pc = "switch" /\ sdl'.goal = s /\ sdl'.back = "scan"
      BY <1>0, <2>6, LoopEffect
    <3>2. request = NoSlot
      BY <1>0, <2>6 DEF PlaceOK
    <3> QED BY <1>00, <1>2, <2>3, <2>4, <2>6, <3>1, <3>2 DEF PlaceOK, Switching
  <2> QED BY <1>2, <2>5, <2>6 DEF NextOrSwitch
<1>3. CASE Filled
  <2>1. sdl.at \in Slots /\ sdl.pc = "filled"
    BY <1>3 DEF Filled, At, PlaceOK
  <2> QED BY <1>2, <1>3, <2>1 DEF Filled
<1>4. CASE StillFilling
  <2>1. sdl.at \in Slots /\ sdl.pc = "filled"
    BY <1>4 DEF StillFilling, At, PlaceOK
  <2>2. Flags /\ UNCHANGED <<link, active, request, target, streaming>>
    BY <1>4, <2>1, FlagsFrom DEF StillFilling, screen
  <2>3. sdl'.pc = "scan"
    BY <1>0, <1>4, LoopEffect DEF StillFilling
  <2>4. StateOK'
    BY <2>2, FlagsState
  <2>5. ~slot'[active].filling /\ ~slot'[active].suppressed /\ slot'[active].rdp = slot[active].rdp
    BY <1>0, <1>00, <2>1, <2>2 DEF Flags
  <2> QED BY <2>2, <2>3, <2>4, <2>5, RestPlace DEF PlaceOK, Resting
<1>5. CASE FillExpires
  <2>1. /\ sdl.at \in Slots \ {active} /\ sdl.pc = "filled" /\ slot[sdl.at].rdp
        /\ UNCHANGED <<active, streaming, request>>
    BY <1>5 DEF FillExpires, At, PlaceOK
  <2>2. CASE /\ sdl.at = target
             /\ slot' = [slot EXCEPT ![sdl.at].ineffective = TRUE, ![sdl.at].filling = FALSE]
             /\ Call("prepare", sdl.at, "scan")
             /\ UNCHANGED <<cache, link, target>>
    <3>1. PICK s \in Slots : s = sdl.at
      BY <2>1
    <3>2. sdl'.pc = "prepare" /\ sdl'.goal = s /\ sdl'.back = "scan"
      BY <1>0, <2>2, <3>1, LoopEffect
    <3>3. request = NoSlot
      BY <1>0, <2>1, <2>2 DEF PlaceOK
    <3> DEFINE new == [slot[s] EXCEPT !.ineffective = TRUE, !.filling = FALSE]
    <3>4. /\ new.rdp = slot[s].rdp /\ new.state = slot[s].state /\ new.filling = FALSE
          /\ new.suppressed = slot[s].suppressed
      BY DEF TypesOK, SlotsOK, SlotType
    <3>5. slot' = [slot EXCEPT ![s] = new]
      BY <2>2, <3>1 DEF TypesOK, SlotsOK, SlotType
    <3> HIDE DEF new
    <3>6. slot'[s] = new /\ \A t \in Slots \ {s} : slot'[t] = slot[t]
      BY <3>5 DEF TypesOK, SlotsOK
    <3>7. StateOK'
      <4>1. /\ slot'[s].rdp = slot[s].rdp /\ slot'[s].state = slot[s].state /\ slot'[s].filling = FALSE
            /\ slot'[s].suppressed = slot[s].suppressed /\ link'[s] = link[s]
        BY <2>2, <3>4, <3>6
      <4>2. StateAt(s)'
        BY <4>1 DEF StateOK, StateAt
      <4> QED BY <2>2, <3>6, <4>2, OthersState DEF Others
    <3>8. ~slot'[active].filling /\ ~slot'[active].suppressed /\ slot'[s].rdp /\ s # active
      BY <1>0, <1>00, <2>1, <3>1, <3>4, <3>6
    <3> QED BY <2>1, <3>2, <3>3, <3>7, <3>8 DEF PlaceOK, Switching
  <2>3. CASE /\ cache' = [cache EXCEPT ![sdl.at].snap = Disarmed]
             /\ Silence(sdl.at)
             /\ NextOrSwitch(sdl.at)
    <3>1. PICK s \in Slots : s = sdl.at
      BY <2>1
    <3>2. Told(s, FALSE, TRUE, <<"suppress">>) /\ slot[s].rdp /\ s # active
          /\ \A t \in Slots \ {s} : slot'[t] = slot[t] /\ link'[t] = link[t]
      BY <2>1, <2>3, <3>1, SilenceEffect
    <3>3. StateAt(s)'
      BY <3>2, ToldState
    <3>4. StateOK'
      BY <3>2, <3>3 DEF StateOK, StateAt
    <3>5. slot'[active] = slot[active] /\ slot'[s].rdp
      BY <1>0, <3>2 DEF Told
    <3>6. CASE Loop("scan", s) /\ UNCHANGED target
      <4>1. sdl'.pc = "scan"
        BY <1>0, <3>6, LoopEffect
      <4> QED BY <1>00, <2>1, <3>4, <3>5, <3>6, <4>1, RestPlace DEF PlaceOK, Resting
    <3>7. CASE s = target /\ Call("switch", s, "scan") /\ target' = NoSlot
      <4>1. sdl'.pc = "switch" /\ sdl'.goal = s /\ sdl'.back = "scan"
        BY <1>0, <3>7, LoopEffect
      <4>2. request = NoSlot
        BY <1>0, <3>7 DEF PlaceOK
      <4> QED BY <1>00, <2>1, <3>4, <3>5, <3>7, <4>1, <4>2 DEF PlaceOK, Switching
    <3> QED BY <2>3, <3>1, <3>6, <3>7 DEF NextOrSwitch
  <2> QED BY <1>5, <2>2, <2>3 DEF FillExpires
<1>6. CASE Deferred \/ DeferredExpires
  <2>1. /\ target \in Slots /\ request = NoSlot /\ sdl.pc = "deferred"
        /\ UNCHANGED <<slot, link, active, request, streaming>>
    BY <1>6 DEF Deferred, DeferredExpires, At, PlaceOK, TypesOK, ScreenOK
  <2>2. StateOK'
    BY <2>1 DEF StateOK, StateAt
  <2>3. CASE Rest("watchdog")
    <3>1. sdl'.pc = "watchdog"
      BY <1>0, <2>3, LoopEffect
    <3> QED BY <1>00, <2>1, <2>2, <3>1, RestPlace DEF Resting
  <2>4. CASE Call("switch", target, "watchdog") /\ slot[target].rdp
    <3>1. sdl'.pc = "switch" /\ sdl'.goal = target /\ sdl'.back = "watchdog"
      BY <1>0, <2>4, LoopEffect
    <3> QED BY <1>00, <2>1, <2>2, <2>4, <3>1 DEF PlaceOK, Switching
  <2> QED BY <1>6, <2>3, <2>4 DEF Deferred, DeferredExpires, Gone
<1>7. CASE Recover \/ Watchdog \/ WatchdogExpires
  <2>1. /\ sdl.pc \in {"watchdog", "deadline"}
        /\ UNCHANGED <<active, request, target, streaming>>
    BY <1>7 DEF Recover, Watchdog, WatchdogExpires, Deadline, At, screen
  <2>2. Flags
    <3>1. \/ UNCHANGED slot \/ slot' = [slot EXCEPT ![active].moved = FALSE]
          \/ slot' = [slot EXCEPT ![active].ineffective = TRUE, ![active].moved = FALSE]
      BY <1>7 DEF Recover, Watchdog, WatchdogExpires
    <3> QED BY <1>0, <3>1, FlagsFrom
  <2>3. StateOK'
    <3>1. UNCHANGED link \/ Say(active, <<"refresh">>)
      BY <1>7 DEF Recover, Watchdog, WatchdogExpires
    <3>2. \A t \in Slots : link'[t].hand = link[t].hand /\ link'[t].au = link[t].au
                           /\ link'[t].sent = link[t].sent
      BY <1>0, <3>1, ToldPlace
    <3> QED BY <2>2, <3>2 DEF StateOK, StateAt, Flags
  <2>4. /\ sdl'.pc \in {"deadline", "drain", "renew"}
        /\ sdl'.pc = "renew" => slot[active].rdp
    <3>1. CASE Goto("deadline") \/ Rest("drain")
      BY <1>0, <3>1, LoopEffect
    <3>2. CASE Goto("renew") /\ slot[active].rdp
      BY <1>0, <3>2, LoopEffect
    <3> QED BY <1>7, <3>1, <3>2 DEF Recover, Watchdog, WatchdogExpires
  <2>5. ~slot'[active].filling /\ ~slot'[active].suppressed /\ slot'[active].rdp = slot[active].rdp
    BY <1>0, <1>00, <2>1, <2>2 DEF Flags
  <2>6. request # NoSlot => request = active /\ target = NoSlot /\ ~streaming /\ ~slot[active].rdp
    BY DEF PlaceOK
  <2> QED BY <2>1, <2>3, <2>4, <2>5, <2>6, RestPlace DEF Resting
<1>8. CASE Renew
  <2>1. request = NoSlot /\ UNCHANGED <<active, request>> /\ sdl'.pc = "drain"
    BY <1>0, <1>8, LoopEffect DEF Renew, At, PlaceOK, screen
  <2>2. PICK s \in Slots : s = active
    BY <1>0
  <2>3. PICK starts \in BOOLEAN : Others(s) /\ Fresh(s, starts, FALSE, FALSE, <<>>, Disarmed)
    BY <1>8, <2>2, ReconnectEffect DEF Renew
  <2>4. StateOK'
    BY <2>3, FreshState, OthersState
  <2>5. ~slot'[s].filling /\ ~slot'[s].suppressed
    BY <2>3 DEF Fresh
  <2> QED BY <2>1, <2>2, <2>4, <2>5, RestPlace DEF Resting
<1> QED BY <1>1, <1>3, <1>4, <1>5, <1>6, <1>7, <1>8

LEMMA DrainState ==
    ASSUME TypesOK, StateOK, PlaceOK, DrainSwitch \/ Bury \/ DrainStop \/ Enter \/ Dial
    PROVE  StateOK' /\ PlaceOK'
<1>0. active \in Slots /\ LoopOK /\ NoSlot \notin Slots
  BY SlotsAssumption DEF TypesOK, ScreenOK, NoSlot, Slots
<1>00. sdl.pc \notin {"demote", "promote"} => ~slot[active].filling /\ ~slot[active].suppressed
  BY DEF PlaceOK
<1>000. request # NoSlot => request = active /\ target = NoSlot /\ ~streaming /\ ~slot[active].rdp
  BY DEF PlaceOK
<1>1. CASE DrainSwitch
  <2>1. /\ sdl.pc = "drain" /\ request = NoSlot /\ UNCHANGED <<slot, link, active, request>>
    BY <1>1, <1>000 DEF DrainSwitch, At, screen
  <2>2. Last_(Survivors) \in Survivors
    BY <1>1, LastIn, SlotsAssumption DEF DrainSwitch, Survivors, Slots
  <2>3. Last_(Survivors) \in Slots \ {active} /\ slot[Last_(Survivors)].rdp
    BY <2>2 DEF Survivors, Target
  <2>4. /\ sdl'.pc = "switch" /\ sdl'.goal = Last_(Survivors) /\ sdl'.back = "bury"
        /\ sdl'.at = active
    BY <1>0, <1>1 DEF DrainSwitch, LoopOK
  <2>5. StateOK'
    BY <2>1 DEF StateOK, StateAt
  <2> QED BY <1>0, <1>00, <2>1, <2>3, <2>4, <2>5 DEF PlaceOK, Switching
<1>2. ASSUME NEW s \in Slots, StopSlot(s)
      PROVE  /\ StateOK'
             /\ slot[active].filling = FALSE /\ slot[active].suppressed = FALSE =>
                   ~slot'[active].filling /\ ~slot'[active].suppressed
             /\ slot'[active].rdp => slot[active].rdp
  <2>1. Others(s) /\ Fresh(s, FALSE, FALSE, FALSE, <<>>, Disarmed)
    BY <1>2, StopEffect
  <2>2. StateOK'
    BY <2>1, FreshState, OthersState
  <2> QED BY <1>0, <2>1, <2>2 DEF Others, Fresh
<1>3. slot[active].filling \in BOOLEAN /\ slot[active].suppressed \in BOOLEAN
  BY <1>0 DEF TypesOK, SlotsOK, SlotType
<1>4. CASE Bury
  <2>1. sdl.at \in Slots /\ sdl.pc = "bury" /\ request = NoSlot /\ UNCHANGED <<active, request>>
    BY <1>4 DEF Bury, At, PlaceOK, screen
  <2>2. sdl'.pc = "drain"
    BY <1>0, <1>4, LoopEffect DEF Bury
  <2>3. StateOK' /\ ~slot'[active].filling /\ ~slot'[active].suppressed
    BY <1>00, <1>2, <1>3, <1>4, <2>1 DEF Bury
  <2> QED BY <2>1, <2>2, <2>3, RestPlace DEF Resting
<1>5. CASE DrainStop
  <2>1. /\ First(Failed) \in Slots /\ sdl.pc = "drain" /\ UNCHANGED <<active, target, request>>
        /\ (streaming' => streaming)
    BY <1>5, FirstIn DEF DrainStop, Failed, At
  <2>2. sdl'.pc = "drain"
    BY <1>0, <1>5, LoopEffect DEF DrainStop
  <2>3. /\ StateOK' /\ ~slot'[active].filling /\ ~slot'[active].suppressed
        /\ slot'[active].rdp => slot[active].rdp
    BY <1>00, <1>2, <1>3, <1>5, <2>1 DEF DrainStop
  <2> QED BY <1>000, <2>1, <2>2, <2>3, RestPlace DEF Resting
<1>6. CASE Enter
  <2>1. /\ sdl.pc = "drain" /\ UNCHANGED <<active, target, request>>
        /\ ~slot[active].suppressed /\ UNCHANGED <<slot, link>>
        /\ (streaming' => streaming \/ slot[active].rdp)
    BY <1>00, <1>6 DEF Enter, At, Enters, Live
  <2>2. sdl'.pc = IF request = NoSlot THEN "input" ELSE "connect"
    BY <1>0, <1>6, LoopEffect DEF Enter
  <2>3. StateOK'
    BY <2>1 DEF StateOK, StateAt
  <2>4. ~slot[active].filling
    BY <1>00, <2>1
  <2>5. CASE request = NoSlot
    BY <2>1, <2>2, <2>3, <2>4, <2>5, RestPlace DEF Resting
  <2>6. CASE request # NoSlot
    BY <1>000, <2>1, <2>2, <2>3, <2>4, <2>6 DEF PlaceOK, Switching
  <2> QED BY <2>5, <2>6
<1>7. CASE Dial
  <2>1. PICK s \in Slots : s = request
    BY <1>7, DialEffect
  <2>2. s = active /\ sdl'.pc = "input" /\ request' = NoSlot /\ sdl.pc = "connect"
    BY <1>0, <1>000, <1>7, <2>1, DialEffect, LoopEffect DEF Dial, At
  <2>3. CASE UNCHANGED <<slot, link, cache, decoder, active, target>>
    <3>1. StateOK'
      BY <2>3 DEF StateOK, StateAt
    <3> QED BY <1>00, <2>2, <2>3, <3>1, RestPlace DEF Resting
  <2>4. ASSUME NEW starts \in BOOLEAN, Others(s), active' = s,
               Fresh(s, starts, FALSE, FALSE, <<>>, Disarmed)
        PROVE  StateOK' /\ PlaceOK'
    <3>1. StateOK'
      BY <2>4, FreshState, OthersState
    <3>2. ~slot'[s].filling /\ ~slot'[s].suppressed
      BY <2>4 DEF Fresh
    <3> QED BY <2>2, <2>4, <3>1, <3>2, RestPlace DEF Resting
  <2> QED BY <1>7, <2>1, <2>3, <2>4, DialEffect
<1> QED BY <1>1, <1>4, <1>5, <1>6, <1>7

(* A step of a worker: another slot is not touched, nor what the SDL       *)
(* thread decides on.                                                      *)
WorkerKeeps(s) ==
    /\ Others(s)
    /\ slot'[s].rdp = slot[s].rdp /\ slot'[s].filling = slot[s].filling
    /\ slot'[s].suppressed = slot[s].suppressed
    /\ slot'[s].failed = slot[s].failed \/ slot'[s].failed = TRUE
    /\ UNCHANGED <<active, streaming, target, request, watchdog>>
    /\ sdl'.pc = sdl.pc /\ sdl'.at = sdl.at /\ sdl'.goal = sdl.goal /\ sdl'.old = sdl.old
    /\ sdl'.back = sdl.back /\ sdl'.seen = sdl.seen /\ sdl'.left = sdl.left
    /\ sdl'.fed = sdl.fed \/ (link[s].hand = "fed" /\ sdl'.fed = TRUE)

LEMMA HandEffect ==
    ASSUME TypesOK, NEW s \in Slots, NEW where, Hand(s, where)
    PROVE  /\ link'[s].hand = where /\ link'[s].told = link[s].told /\ link'[s].out = link[s].out
           /\ link'[s].sent = link[s].sent /\ link'[s].au = link[s].au
           /\ \A t \in Slots \ {s} : link'[t] = link[t]
  BY DEF Hand, TypesOK, LinksOK, Links

LEMMA WorkerState ==
    ASSUME TypesOK, StateOK, NEW s \in Slots, Worker(s)
    PROVE  StateOK' /\ WorkerKeeps(s)
<1>0. SlotsOK /\ LinksOK
  BY DEF TypesOK
<1>00. StateAt(s)
  BY DEF StateOK
<1>1. CASE Activate(s)
  <2>1. /\ slot'[s].rdp = slot[s].rdp /\ slot'[s].filling = slot[s].filling
        /\ slot'[s].suppressed = slot[s].suppressed /\ slot'[s].failed = slot[s].failed
        /\ slot'[s].state = "active" /\ \A t \in Slots \ {s} : slot'[t] = slot[t]
    BY <1>0, <1>1 DEF Activate, SlotsOK, SlotType
  <2>2. WorkerKeeps(s)
    BY <1>1, <2>1 DEF Activate, WorkerKeeps, Others, screen
  <2>3. StateAt(s)'
    BY <1>00, <1>1, <2>1 DEF Activate, StateAt
  <2> QED BY <2>2, <2>3, OthersState DEF WorkerKeeps
<1>2. CASE Obey(s)
  <2>1. /\ link'[s].hand = link[s].hand /\ link'[s].sent = link[s].sent /\ link'[s].au = link[s].au
        /\ \A t \in Slots \ {s} : link'[t] = link[t]
    BY <1>0, <1>2 DEF Obey, LinksOK, Links
  <2>2. WorkerKeeps(s)
    BY <1>2, <2>1 DEF Obey, WorkerKeeps, Others, screen
  <2>3. StateAt(s)'
    BY <1>00, <1>2, <2>1 DEF Obey, StateAt
  <2> QED BY <2>2, <2>3, OthersState DEF WorkerKeeps
<1>3. CASE Emit(s)
  <2>1. /\ link'[s].sent = link[s].sent + 1 /\ link'[s].au.n = link[s].sent + 1
        /\ link'[s].hand \in {"front", "behind"} /\ link[s].sent \in Nat
        /\ \A t \in Slots \ {s} : link'[t] = link[t]
    BY <1>0, <1>3 DEF Emit, LinksOK, Links
  <2>2. WorkerKeeps(s)
    BY <1>3, <2>1 DEF Emit, WorkerKeeps, Others, screen
  <2>3. link'[s].sent # 0
    BY <2>1
  <2>4. StateAt(s)'
    BY <1>00, <1>3, <2>1, <2>3 DEF Emit, StateAt
  <2> QED BY <2>2, <2>4, OthersState DEF WorkerKeeps
<1>4. CASE Keep(s)
  <2>1. /\ link'[s].hand \in {"none", "front"} /\ link'[s].sent = link[s].sent
        /\ link'[s].au = link[s].au /\ \A t \in Slots \ {s} : link'[t] = link[t]
    BY <1>4, HandEffect DEF Keep
  <2>2. \A t \in Slots \ {s} : cache'[t] = cache[t]
    BY <1>4 DEF Keep, TypesOK, CachesOK
  <2>3. WorkerKeeps(s)
    BY <1>4, <2>1, <2>2 DEF Keep, WorkerKeeps, Others, screen
  <2>4. StateAt(s)'
    BY <1>00, <1>4, <2>1 DEF Keep, StateAt
  <2> QED BY <2>3, <2>4, OthersState DEF WorkerKeeps
<1>5. CASE Feed(s)
  <2>1. /\ link'[s].hand \in {"none", "fed"} /\ link'[s].sent = link[s].sent
        /\ link'[s].au = link[s].au /\ \A t \in Slots \ {s} : link'[t] = link[t]
    BY <1>5, HandEffect DEF Feed
  <2>2. WorkerKeeps(s)
    BY <1>5, <2>1 DEF Feed, WorkerKeeps, Others, screen
  <2>3. StateAt(s)'
    BY <1>00, <1>5, <2>1 DEF Feed, StateAt
  <2> QED BY <2>2, <2>3, OthersState DEF WorkerKeeps
<1>6. CASE Count(s)
  <2>1. /\ link'[s].hand = "none" /\ link'[s].sent = link[s].sent
        /\ link'[s].au = link[s].au /\ \A t \in Slots \ {s} : link'[t] = link[t]
    BY <1>6, HandEffect DEF Count
  <2>2. /\ slot'[s].rdp = slot[s].rdp /\ slot'[s].filling = slot[s].filling
        /\ slot'[s].suppressed = slot[s].suppressed /\ slot'[s].failed = slot[s].failed
        /\ slot'[s].state = slot[s].state /\ \A t \in Slots \ {s} : slot'[t] = slot[t]
    BY <1>0, <1>6 DEF Count, Counted, SlotsOK, SlotType
  <2>3. /\ sdl'.pc = sdl.pc /\ sdl'.at = sdl.at /\ sdl'.goal = sdl.goal /\ sdl'.old = sdl.old
        /\ sdl'.back = sdl.back /\ sdl'.seen = sdl.seen /\ sdl'.left = sdl.left
        /\ sdl'.fed = sdl.fed \/ sdl'.fed = TRUE
    BY <1>6 DEF Count, TypesOK, LoopOK
  <2>4. WorkerKeeps(s)
    BY <1>6, <2>1, <2>2, <2>3 DEF Count, WorkerKeeps, Others, screen
  <2>5. StateAt(s)'
    BY <1>00, <1>6, <2>1, <2>2 DEF Count, StateAt
  <2> QED BY <2>4, <2>5, OthersState DEF WorkerKeeps
<1>7. CASE Break(s)
  <2>1. /\ link'[s].hand = "failing" /\ \A t \in Slots \ {s} : link'[t] = link[t]
    BY <1>7, HandEffect DEF Break
  <2>2. /\ slot'[s].rdp = slot[s].rdp /\ slot'[s].filling = slot[s].filling
        /\ slot'[s].suppressed = slot[s].suppressed /\ slot'[s].failed = slot[s].failed
        /\ slot'[s].state = "over" /\ \A t \in Slots \ {s} : slot'[t] = slot[t]
    BY <1>0, <1>7 DEF Break, SlotsOK, SlotType
  <2>3. WorkerKeeps(s)
    BY <1>7, <2>1, <2>2 DEF Break, WorkerKeeps, Others, screen
  <2>4. StateAt(s)'
    BY <1>00, <1>7, <2>1, <2>2 DEF Break, StateAt
  <2> QED BY <2>3, <2>4, OthersState DEF WorkerKeeps
<1>8. CASE Flag(s)
  <2>1. /\ link'[s].hand = "none" /\ \A t \in Slots \ {s} : link'[t] = link[t]
    BY <1>8, HandEffect DEF Flag
  <2>2. /\ slot'[s].rdp = slot[s].rdp /\ slot'[s].filling = slot[s].filling
        /\ slot'[s].suppressed = slot[s].suppressed /\ slot'[s].failed = TRUE
        /\ slot'[s].state = slot[s].state /\ \A t \in Slots \ {s} : slot'[t] = slot[t]
    BY <1>0, <1>8 DEF Flag, SlotsOK, SlotType
  <2>3. WorkerKeeps(s)
    BY <1>8, <2>1, <2>2 DEF Flag, WorkerKeeps, Others, screen
  <2>4. StateAt(s)'
    BY <1>00, <1>8, <2>1, <2>2 DEF Flag, StateAt
  <2> QED BY <2>3, <2>4, OthersState DEF WorkerKeeps
<1>9. CASE OpenAudio(s)
  BY <1>9 DEF OpenAudio, WorkerKeeps, Others, screen, StateOK, StateAt
<1>10. CASE FallQuiet(s)
  <2>1. \A t \in Slots \ {s} : cache'[t] = cache[t]
    BY <1>10 DEF FallQuiet, TypesOK, CachesOK
  <2> QED BY <1>10, <2>1 DEF FallQuiet, WorkerKeeps, Others, screen, StateOK, StateAt
<1> QED BY <1>1, <1>2, <1>3, <1>4, <1>5, <1>6, <1>7, <1>8, <1>9, <1>10 DEF Worker

LEMMA WorkerPlace ==
    ASSUME TypesOK, PlaceOK, NEW s \in Slots, WorkerKeeps(s)
    PROVE  PlaceOK'
<1>1. \A t \in Slots : /\ slot'[t].rdp = slot[t].rdp /\ slot'[t].filling = slot[t].filling
                       /\ slot'[t].suppressed = slot[t].suppressed
  BY DEF WorkerKeeps, Others
<1>2. active \in Slots
  BY DEF TypesOK, ScreenOK
<1> QED BY <1>1, <1>2 DEF WorkerKeeps, PlaceOK, Switching

-----------------------------------------------------------------------------
(* The core invariant, and the types.                                      *)

(* The invariant every later proof stands on.                              *)
Core == TypesOK /\ StateOK /\ PlaceOK

LEMMA InitCore == Init => Core
<1> SUFFICES ASSUME Init PROVE Core
  OBVIOUS
<1>0. 1 \in Slots /\ NoSlot \notin Slots
  BY SlotsAssumption DEF Slots, NoSlot
<1>1. SlotsOK
  BY DEF Init, IdleSlot, SlotsOK, SlotType
<1>2. LinksOK
  <2>1. FreshLink \in Links
    BY Empty DEF FreshLink, NoAU, Links
  <2> QED BY <2>1 DEF Init, LinksOK
<1>3. CachesOK
  BY SnapTyped DEF Init, CachesOK
<1>4. LoopOK
  <2>1. <<>> \in Seq(Units) /\ "input" \in Pcs
    BY Empty DEF Pcs
  <2> QED BY <2>1 DEF Init, LoopOK
<1>5. DecoderOK
  BY DEF Init, NoDecoder, DecoderOK
<1>6. ScreenOK
  <2>1. MaxPresses \in Nat /\ MaxFailures \in Nat /\ MaxDrops \in Nat /\ MaxSets \in Nat
    BY BoundsAssumption
  <2> QED BY <1>0, <2>1 DEF Init, ScreenOK
<1>7. \A s \in Slots : slot[s] = IdleSlot /\ link[s] = FreshLink
  BY DEF Init
<1>8. StateOK
  BY <1>7 DEF StateOK, StateAt, IdleSlot, FreshLink
<1>9. /\ sdl.pc = "input" /\ active = 1 /\ request = NoSlot
  BY DEF Init
<1>10. ~slot[active].filling /\ ~slot[active].suppressed
  BY <1>0, <1>7, <1>9 DEF IdleSlot
<1>11. PlaceOK
  BY <1>9, <1>10 DEF PlaceOK, Switching
<1> QED BY <1>1, <1>2, <1>3, <1>4, <1>5, <1>6, <1>8, <1>11 DEF Core, TypesOK

(* The steps of the SDL thread, as the lemmas above group them.            *)
Switches == Switch \/ Flip \/ Demote \/ Promote \/ Replay \/ Replayed \/ Wake \/ Prepare
Presses == PressCancel \/ Leave \/ \E s \in Slots : PressLive(s) \/ PressOffline(s)
Ticks == \/ Scan \/ Filled \/ StillFilling \/ FillExpires \/ Deferred \/ DeferredExpires
         \/ Recover \/ Watchdog \/ WatchdogExpires \/ Renew
Drains == DrainSwitch \/ Bury \/ DrainStop \/ Enter \/ Dial

LEMMA SdlGroups == Sdl => Switches \/ Presses \/ Ticks \/ Drains
  BY DEF Sdl, Switches, Presses, Ticks, Drains

LEMMA NextCore ==
    ASSUME Core, [Next]_vars
    PROVE  Core'
<1> USE DEF Core
<1>1. CASE UNCHANGED vars
  <2>1. TypesOK'
    <3>1. /\ UNCHANGED slot /\ UNCHANGED link /\ UNCHANGED cache /\ UNCHANGED sdl
          /\ UNCHANGED decoder /\ UNCHANGED <<screen, refresh, watchdog, budget>>
      BY <1>1 DEF vars, screen
    <3> QED BY <3>1, SameTyped DEF TypesOK
  <2>2. StateOK' /\ PlaceOK'
    BY <1>1 DEF vars, screen, StateOK, StateAt, PlaceOK
  <2> QED BY <2>1, <2>2
<1>2. ASSUME NEW s \in Slots, Worker(s) PROVE Core'
  BY <1>2, WorkerTyped, WorkerState, WorkerPlace
<1>3. CASE Switches
  BY <1>3, SwitchTyped, SwitchState DEF Switches
<1>4. CASE Presses
  BY <1>4, PressTyped, PressState DEF Presses
<1>5. CASE Ticks
  BY <1>5, TickTyped, TickState DEF Ticks
<1>6. CASE Drains
  BY <1>6, DrainTyped, DrainState DEF Drains
<1> QED BY <1>1, <1>2, <1>3, <1>4, <1>5, <1>6, SdlGroups DEF Next

LEMMA SpecCore == Spec => []Core
  BY InitCore, NextCore, PTL DEF Spec

(* The SDL thread puts nothing into a snapshot.                            *)
LEMMA SdlCaches ==
    ASSUME Core, Sdl, NEW t \in Slots
    PROVE  cache'[t] = cache[t] \/ cache'[t].snap.aus = <<>>
<1> USE DEF Core
<1>0. active \in Slots
  BY DEF TypesOK, ScreenOK
<1>1. Disarmed.aus = <<>> /\ \A snap \in Snaps : snap.aus = <<>>
  BY SnapTyped DEF Disarmed
<1>2. ASSUME NEW s \in Slots, Others(s),
             cache'[s] = cache[s] \/ cache'[s].snap = Disarmed \/ cache'[s].snap \in Snaps
      PROVE  cache'[t] = cache[t] \/ cache'[t].snap.aus = <<>>
  BY <1>1, <1>2 DEF Others
<1>3. ASSUME NEW s \in Slots, Background(s)
      PROVE  cache'[t] = cache[t] \/ cache'[t].snap.aus = <<>>
  BY <1>2, <1>3, BackgroundEffect DEF Fresh
<1>4. ASSUME NEW s \in Slots, Reconnect(s)
      PROVE  cache'[t] = cache[t] \/ cache'[t].snap.aus = <<>>
  BY <1>2, <1>4, ReconnectEffect DEF Fresh
<1>5. ASSUME NEW s \in Slots, StopSlot(s)
      PROVE  cache'[t] = cache[t] \/ cache'[t].snap.aus = <<>>
  BY <1>2, <1>5, StopEffect DEF Fresh
<1>6. ASSUME NEW s \in Slots, Forget(s)
      PROVE  cache'[t] = cache[t] \/ cache'[t].snap.aus = <<>>
  BY <1>1, <1>6 DEF Forget, TypesOK, CachesOK
<1>7. CASE UNCHANGED cache
  BY <1>7
<1>8. CASE Leave \/ Demote
  <2>1. sdl.old \in Slots /\ Background(sdl.old)
    BY <1>8 DEF Leave, Demote, At, PlaceOK
  <2> QED BY <1>3, <2>1
<1>9. CASE Promote
  <2>1. sdl.goal \in Slots
    BY <1>9 DEF Promote, At, PlaceOK, Switching
  <2> QED BY <1>6, <1>9, <2>1 DEF Promote
<1>10. CASE Wake
  <2>1. sdl.goal \in Slots
    BY <1>10 DEF Wake, At, PlaceOK, Switching
  <2> QED BY <1>4, <1>10, <2>1 DEF Wake
<1>11. CASE Prepare
  <2>1. sdl.goal \in Slots /\ Others(sdl.goal) /\ Prepared(sdl.goal)
    BY <1>11, PrepareEffect
  <2>2. cache'[sdl.goal] = cache[sdl.goal] \/ cache'[sdl.goal].snap \in Snaps
    BY <2>1 DEF Prepared, Fresh
  <2> QED BY <1>2, <2>1, <2>2
<1>12. CASE FillExpires
  <2>1. sdl.at \in Slots
    BY <1>12 DEF FillExpires, At, PlaceOK
  <2>2. UNCHANGED cache \/ cache' = [cache EXCEPT ![sdl.at].snap = Disarmed]
    BY <1>12 DEF FillExpires
  <2> QED BY <1>1, <2>1, <2>2 DEF TypesOK, CachesOK
<1>13. CASE Renew
  BY <1>0, <1>4, <1>13 DEF Renew
<1>14. CASE Bury
  <2>1. sdl.at \in Slots /\ StopSlot(sdl.at)
    BY <1>14 DEF Bury, At, PlaceOK
  <2> QED BY <1>5, <2>1
<1>15. CASE DrainStop
  <2>1. First(Failed) \in Slots /\ StopSlot(First(Failed))
    BY <1>15, FirstIn DEF DrainStop, Failed
  <2> QED BY <1>5, <2>1
<1>16. CASE Dial
  <2>1. request \in Slots /\ (UNCHANGED cache \/ (Others(request) /\ cache'[request].snap = Disarmed))
    BY <1>16, DialEffect DEF Fresh
  <2> QED BY <1>2, <2>1
<1>17. CASE Switch \/ Flip \/ Replay \/ Replayed \/ PressCancel \/ \E s \in Slots : PressLive(s) \/ PressOffline(s)
  BY <1>7, <1>17 DEF Switch, Flip, Replay, Replayed, PressCancel, PressLive, PressOffline
<1>18. CASE \/ Scan \/ Filled \/ StillFilling \/ Deferred \/ DeferredExpires
            \/ Recover \/ Watchdog \/ WatchdogExpires \/ DrainSwitch \/ Enter
  BY <1>7, <1>18 DEF Scan, Filled, StillFilling, Deferred, DeferredExpires, Recover, Watchdog,
                     WatchdogExpires, DrainSwitch, Enter
<1> QED BY <1>8, <1>9, <1>10, <1>11, <1>12, <1>13, <1>14, <1>15, <1>16, <1>17, <1>18 DEF Sdl

LEMMA CacheLength ==
    ASSUME NEW snap \in UnitSnapshots, NEW au \in Units, NEW fits \in BOOLEAN,
           Len(snap.aus) <= MaxEntries
    PROVE  Len(Cache(snap, au, fits).aus) <= MaxEntries
<1>1. Units \subseteq AUs
  BY DEF Units, AUs, Kinds
<1>2. snap \in Snapshots /\ au \in AUs /\ MaxEntries \in Nat \ {0} /\ snap.aus \in Seq(AUs)
  <2>1. snap.aus \in Seq(AUs)
    BY <1>1 DEF UnitSnapshots
  <2> QED BY <1>1, <2>1, EntriesAssumption DEF UnitSnapshots, Snapshots
<1> DEFINE result == Cache(snap, au, fits)
<1>3. CASE result = snap
  BY <1>3
<1>4. CASE result = Disarmed
  BY <1>2, <1>4 DEF Disarmed
<1>5. CASE result = [armed |-> TRUE, aus |-> <<au>>]
  BY <1>2, <1>5
<1>6. CASE Len(snap.aus) < MaxEntries /\ result = [armed |-> TRUE, aus |-> Append(snap.aus, au)]
  <2>1. result.aus = Append(snap.aus, au)
    BY <1>6
  <2>2. Len(Append(snap.aus, au)) = Len(snap.aus) + 1 /\ Len(snap.aus) \in Nat
    BY <1>2
  <2> QED BY <1>2, <1>6, <2>1, <2>2
<1> HIDE DEF result
<1> QED BY <1>2, <1>3, <1>4, <1>5, <1>6, CacheCases DEF result

(* No snapshot is over its bound.                                          *)
LengthOK == \A s \in Slots : Len(cache[s].snap.aus) <= MaxEntries

LEMMA NextLength ==
    ASSUME Core, LengthOK, [Next]_vars
    PROVE  LengthOK'
<1>0. MaxEntries \in Nat /\ Len(<<>>) = 0
  BY EntriesAssumption
<1>1. CASE UNCHANGED cache
  BY <1>1 DEF LengthOK
<1>2. CASE Sdl
  <2> SUFFICES ASSUME NEW t \in Slots PROVE Len(cache'[t].snap.aus) <= MaxEntries
    BY DEF LengthOK
  <2>1. cache'[t] = cache[t] \/ cache'[t].snap.aus = <<>>
    BY <1>2, SdlCaches
  <2> QED BY <1>0, <2>1 DEF LengthOK
<1>3. ASSUME NEW s \in Slots, Keep(s) PROVE LengthOK'
  <2>1. CASE \E fits \in Succeeds("fit") :
                 LET snap == Cache(cache[s].snap, link[s].au, fits) IN
                 cache' = [cache EXCEPT ![s] = [snap |-> snap, ready |-> Ready(snap), quiet |-> FALSE]]
    <3>1. PICK fits \in BOOLEAN :
             LET snap == Cache(cache[s].snap, link[s].au, fits) IN
             cache' = [cache EXCEPT ![s] = [snap |-> snap, ready |-> Ready(snap), quiet |-> FALSE]]
      BY <2>1, SucceedsTyped
    <3>2. cache[s].snap \in UnitSnapshots /\ link[s].au \in Units
      BY <1>3, UnitInHand DEF Keep, Core, TypesOK, CachesOK
    <3>3. Len(Cache(cache[s].snap, link[s].au, fits).aus) <= MaxEntries
      BY <3>2, CacheLength DEF LengthOK
    <3>4. /\ cache'[s].snap = Cache(cache[s].snap, link[s].au, fits)
          /\ \A t \in Slots \ {s} : cache'[t] = cache[t]
      BY <3>1 DEF Core, TypesOK, CachesOK
    <3> QED BY <3>3, <3>4 DEF LengthOK
  <2> QED BY <1>1, <1>3, <2>1 DEF Keep
<1>4. ASSUME NEW s \in Slots, FallQuiet(s) PROVE LengthOK'
  <2>1. \A t \in Slots : cache'[t].snap = cache[t].snap
    BY <1>4 DEF FallQuiet, Core, TypesOK, CachesOK
  <2> QED BY <2>1 DEF LengthOK
<1>5. ASSUME NEW s \in Slots,
             \/ Activate(s) \/ Obey(s) \/ Emit(s) \/ Feed(s) \/ Count(s) \/ Break(s) \/ Flag(s)
             \/ OpenAudio(s)
      PROVE  LengthOK'
  BY <1>1, <1>5 DEF Activate, Obey, Emit, Feed, Count, Break, Flag, OpenAudio
<1> QED BY <1>1, <1>2, <1>3, <1>4, <1>5 DEF Next, Worker, vars

LEMMA CoreTypes ==
    ASSUME Core, LengthOK
    PROVE  TypeOK
<1>1. Units \subseteq AUs /\ {"idr", "config", "delta"} \subseteq Kinds
  BY DEF Units, AUs, Kinds
<1>2. cache \in [Slots -> CacheType]
  <2>1. UnitSnapshots \subseteq [armed : BOOLEAN, aus : Seq(AUs)]
    <3>1. Seq(Units) \subseteq Seq(AUs)
      BY <1>1
    <3> QED BY <3>1 DEF UnitSnapshots
  <2> HIDE DEF UnitSnapshots
  <2> QED BY <2>1 DEF Core, TypesOK, CachesOK, CacheType
<1>3. link \in [Slots -> LinkType]
  BY <1>1 DEF Core, TypesOK, LinksOK, Links, LinkType, Commands
<1>4. \A s \in Slots : ~(slot[s].filling /\ slot[s].suppressed)
  BY DEF Core, StateOK, StateAt
<1> QED BY <1>2, <1>3, <1>4 DEF Core, TypesOK, SlotsOK, ScreenOK, LengthOK, TypeOK

(* Every variable keeps its type; a slot of native_slots fills or is       *)
(* suppressed, never both; a snapshot stays within its bound.              *)
THEOREM SessionTypes == Spec => []TypeOK
<1>1. Init => LengthOK
  <2>1. MaxEntries \in Nat /\ Len(<<>>) = 0
    BY EntriesAssumption
  <2> QED BY <2>1 DEF Init, LengthOK, Disarmed
<1> QED BY <1>1, SpecCore, NextLength, CoreTypes, PTL DEF Spec

-----------------------------------------------------------------------------
(* Who may take the decoder.                                               *)

(* What a step of the SDL thread other than a replay may do to the         *)
(* decoder.                                                                *)
LEMMA SdlDecoder ==
    ASSUME Core, Sdl, ~Replay
    PROVE  decoder' = decoder \/ decoder' = NoMedia \/ \E s \in Slots : decoder' = Orphaned(s)
<1> USE DEF Core
<1>0. active \in Slots
  BY DEF TypesOK, ScreenOK
<1>1. ASSUME NEW s \in Slots, Background(s)
      PROVE  decoder' = decoder \/ \E x \in Slots : decoder' = Orphaned(x)
  BY <1>1, BackgroundEffect
<1>2. ASSUME NEW s \in Slots, Reconnect(s)
      PROVE  \E x \in Slots : decoder' = Orphaned(x)
  BY <1>2, ReconnectEffect
<1>3. ASSUME NEW s \in Slots, StopSlot(s)
      PROVE  decoder' = decoder \/ decoder' = NoMedia
  BY <1>3 DEF StopSlot
<1>8. CASE Leave \/ Demote
  <2>1. sdl.old \in Slots /\ Background(sdl.old)
    BY <1>8 DEF Leave, Demote, At, PlaceOK
  <2> QED BY <1>1, <2>1
<1>10. CASE Wake
  <2>1. sdl.goal \in Slots
    BY <1>10 DEF Wake, At, PlaceOK, Switching
  <2>2. UNCHANGED decoder \/ Reconnect(sdl.goal)
    BY <1>10 DEF Wake
  <2> QED BY <1>2, <2>1, <2>2
<1>11. CASE Prepare
  <2>1. sdl.goal \in Slots /\ Prepared(sdl.goal)
    BY <1>11, PrepareEffect
  <2>2. UNCHANGED decoder \/ decoder' = Orphaned(sdl.goal)
    BY <2>1 DEF Prepared
  <2> QED BY <2>1, <2>2
<1>13. CASE Renew
  BY <1>0, <1>2, <1>13 DEF Renew
<1>14. CASE Bury
  <2>1. sdl.at \in Slots /\ StopSlot(sdl.at)
    BY <1>14 DEF Bury, At, PlaceOK
  <2> QED BY <1>3, <2>1
<1>15. CASE DrainStop
  <2>1. First(Failed) \in Slots /\ StopSlot(First(Failed))
    BY <1>15, FirstIn DEF DrainStop, Failed
  <2> QED BY <1>3, <2>1
<1>16. CASE Dial
  BY <1>16, DialEffect
<1>17. CASE \/ Switch \/ Flip \/ Promote \/ Replayed \/ PressCancel
            \/ \E s \in Slots : PressLive(s) \/ PressOffline(s)
  BY <1>17 DEF Switch, Flip, Promote, Replayed, PressCancel, PressLive, PressOffline
<1>18. CASE \/ Scan \/ Filled \/ StillFilling \/ FillExpires \/ Deferred \/ DeferredExpires
            \/ Recover \/ Watchdog \/ WatchdogExpires \/ DrainSwitch \/ Enter
  BY <1>18 DEF Scan, Filled, StillFilling, FillExpires, Deferred, DeferredExpires, Recover,
               Watchdog, WatchdogExpires, DrainSwitch, Enter
<1> QED BY <1>8, <1>10, <1>11, <1>13, <1>14, <1>15, <1>16, <1>17, <1>18 DEF Sdl
=============================================================================
