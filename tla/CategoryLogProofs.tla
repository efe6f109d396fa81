-------------------------- MODULE CategoryLogProofs --------------------------
(***************************************************************************)
(* Theorems about CategoryLog for every number of threads, callers and     *)
(* contexts: no thread is inside a sink whose context was freed, and the   *)
(* counts of the slots are the calls under way.                            *)
(***************************************************************************)
EXTENDS CategoryLog, FiniteSetTheorems, TLAPS

Logger ==
    [step : {"idle"}]
    \cup [step : {"register", "flag", "level", "deliver"}, category : Categories, since : Int]
    \cup [step : {"sink"}, slot : Slots, context : Contexts]

SinksOK ==
    /\ sinks \in [Slots -> [context : Contexts \cup {NoContext}, inFlight : Nat]]
    /\ activeSlot \in Slots /\ old \in Slots \cup {NoSlot}
    /\ setting \in Setters \cup {Nobody}
    /\ wanted \in [Setters -> Contexts \cup {NoContext, "nothing"}]
    /\ alive \subseteq Contexts
    /\ logger \in [Loggers -> Logger] /\ rules \in Int

Active == sinks[activeSlot].context
Old == sinks[old].context

(* Whose a context is: of the active sink, of the one being replaced, or of *)
(* a caller that still waits; only the caller between its two waits shares  *)
(* it with the active sink.                                                 *)
OwnersInv ==
    /\ old # NoSlot => old = 1 - activeSlot /\ setting # Nobody /\ Active = wanted[setting]
    /\ setting # Nobody => wanted[setting] # "nothing"
    /\ Active \in alive \cup {NoContext}
    /\ old # NoSlot => Old \in alive \cup {NoContext} /\ (Old # NoContext => Old # Active)
    /\ \A s \in Setters : wanted[s] \in Contexts =>
          /\ wanted[s] \in alive
          /\ \A t \in Setters : wanted[t] = wanted[s] => t = s
          /\ wanted[s] = Active => setting = s /\ old # NoSlot
          /\ old # NoSlot => wanted[s] # Old

CountsInv ==
    /\ \A s \in Slots :
          /\ sinks[s].inFlight = Cardinality(InSink(s))
          /\ \A l \in InSink(s) : logger[l].context = sinks[s].context
    /\ old = NoSlot => sinks[1 - activeSlot].inFlight = 0

SinkInv == SinksOK /\ OwnersInv /\ CountsInv

----------------------------------------------------------------------------
(* Calls in a slot.                                                        *)

LEMMA InSinkFinite ==
    ASSUME NEW s
    PROVE  IsFiniteSet(InSink(s))
<1>1. InSink(s) \subseteq Loggers
  BY DEF InSink
<1> QED BY <1>1, FS_Subset, LogConstants

LEMMA EmptySlot ==
    ASSUME CountsInv, NEW s \in Slots, sinks[s].inFlight = 0
    PROVE  InSink(s) = {}
<1>1. Cardinality(InSink(s)) = 0
  BY DEF CountsInv
<1> QED BY <1>1, InSinkFinite, FS_EmptySet

LEMMA Alive ==
    ASSUME SinkInv, NEW l \in Loggers, logger[l].step = "sink"
    PROVE  logger[l].context \in alive
<1>1. logger[l].slot \in Slots /\ logger[l].context \in Contexts
  <2>1. logger[l] \in Logger
    BY DEF SinkInv, SinksOK
  <2> QED BY <2>1 DEF Logger
<1>2. l \in InSink(logger[l].slot)
  BY DEF InSink
<1>3. logger[l].context = sinks[logger[l].slot].context
  BY <1>1, <1>2 DEF SinkInv, CountsInv
<1>4. CASE logger[l].slot = activeSlot
  BY <1>1, <1>3, <1>4, LogConstants DEF SinkInv, OwnersInv, Active
<1>5. CASE logger[l].slot # activeSlot
  <2>1. logger[l].slot = 1 - activeSlot /\ 1 - activeSlot \in Slots
    BY <1>1, <1>5 DEF SinkInv, SinksOK, Slots
  <2>2. old # NoSlot
    <3>1. InSink(1 - activeSlot) # {}
      BY <1>2, <2>1
    <3> QED BY <2>1, <3>1, EmptySlot DEF SinkInv, CountsInv
  <2> QED BY <1>1, <1>3, <2>1, <2>2, LogConstants DEF SinkInv, OwnersInv, Old
<1> QED BY <1>4, <1>5

----------------------------------------------------------------------------
(* A step that leaves the sinks and the calls inside them alone.           *)

LEMMA SinkFrame ==
    ASSUME SinkInv, UNCHANGED sinkVars, logger' \in [Loggers -> Logger], rules' \in Int,
           \A l \in Loggers : logger[l].step = "sink" \/ logger'[l].step = "sink" => logger'[l] = logger[l]
    PROVE  SinkInv'
<1>1. SinksOK'
  BY DEF SinkInv, SinksOK, sinkVars
<1>2. OwnersInv'
  BY DEF SinkInv, OwnersInv, sinkVars, Active, Old
<1>3. \A s : InSink(s)' = InSink(s)
  BY DEF InSink
<1>4. UNCHANGED <<sinks, activeSlot, old>>
  BY DEF sinkVars
<1>5. \A s, l : l \in InSink(s) => logger'[l] = logger[l]
  BY DEF InSink
<1>6. CountsInv'
  BY <1>3, <1>4, <1>5 DEF SinkInv, CountsInv
<1> QED BY <1>1, <1>2, <1>6 DEF SinkInv

LEMMA SetterStep ==
    ASSUME SinkInv, NEW s \in Setters, SetSink(s) \/ Setting(s)
    PROVE  SinkInv'
<1>0. SinksOK /\ OwnersInv /\ CountsInv
  BY DEF SinkInv
<1>1. CASE SetSink(s)
  <2>1. PICK c \in (Contexts \ alive) \cup {NoContext} :
           /\ wanted' = [wanted EXCEPT ![s] = c]
           /\ alive' = alive \cup ({c} \ {NoContext})
    BY <1>1 DEF SetSink
  <2>2. wanted[s] = "nothing" /\ UNCHANGED <<sinks, activeSlot, setting, old, logger, rules>>
    BY <1>1 DEF SetSink, levelVars
  <2>3. SinksOK'
    BY <1>0, <2>1, <2>2 DEF SinksOK
  <2>4. CountsInv'
    BY <1>0, <2>2 DEF CountsInv, InSink
  <2>5. setting # s
    BY <1>0, <2>2, LogConstants DEF OwnersInv, Nobody
  <2>6. wanted'[s] = c /\ \A t \in Setters : t # s => wanted'[t] = wanted[t]
    BY <1>0, <2>1 DEF SinksOK
  <2>7. OwnersInv'
    BY <1>0, <2>1, <2>2, <2>5, <2>6, LogConstants DEF SinksOK, OwnersInv, Active, Old, Nobody
  <2> QED BY <2>3, <2>4, <2>7 DEF SinkInv
<1>2. CASE LockSet(s)
  <2>1. /\ wanted[s] # "nothing" /\ setting = Nobody /\ setting' = s
        /\ UNCHANGED <<sinks, activeSlot, old, wanted, alive, logger, rules>>
    BY <1>2 DEF LockSet, levelVars
  <2>2. SinksOK'
    BY <1>0, <2>1 DEF SinksOK
  <2>3. CountsInv'
    BY <1>0, <2>1 DEF CountsInv, InSink
  <2>4. OwnersInv'
    BY <1>0, <2>1, LogConstants DEF OwnersInv, Active, Old
  <2> QED BY <2>2, <2>3, <2>4 DEF SinkInv
<1>3. CASE Install(s)
  <2>1. /\ setting = s /\ old = NoSlot /\ old' = activeSlot /\ activeSlot' = 1 - activeSlot
        /\ sinks[1 - activeSlot].inFlight = 0
        /\ sinks' = [sinks EXCEPT ![1 - activeSlot].context = wanted[s]]
        /\ UNCHANGED <<setting, wanted, alive, logger, rules>>
    BY <1>3 DEF Install, levelVars
  <2>2. /\ activeSlot \in Slots /\ 1 - activeSlot \in Slots /\ 1 - activeSlot # activeSlot
        /\ activeSlot # NoSlot /\ 1 - (1 - activeSlot) = activeSlot
    BY <1>0 DEF SinksOK, Slots, NoSlot
  <2>3. wanted[s] \in Contexts \cup {NoContext}
    BY <1>0, <2>1, LogConstants DEF SinksOK, OwnersInv, Nobody
  <2>4. /\ sinks'[1 - activeSlot].context = wanted[s]
        /\ sinks'[1 - activeSlot].inFlight = sinks[1 - activeSlot].inFlight
        /\ sinks'[activeSlot] = sinks[activeSlot]
    BY <1>0, <2>1, <2>2 DEF SinksOK
  <2>5. SinksOK'
    BY <1>0, <2>1, <2>2, <2>3 DEF SinksOK
  <2>6. InSink(1 - activeSlot) = {}
    BY <1>0, <2>1, <2>2, EmptySlot
  <2>7. CountsInv'
    <3>1. \A r \in Slots : InSink(r)' = InSink(r)
      BY <2>1 DEF InSink
    <3>2. ASSUME NEW r \in Slots
          PROVE  /\ sinks'[r].inFlight = Cardinality(InSink(r))
                 /\ \A l \in InSink(r) : logger[l].context = sinks'[r].context
      <4>1. CASE r = activeSlot
        BY <1>0, <2>4, <4>1 DEF CountsInv
      <4>2. CASE r = 1 - activeSlot
        BY <1>0, <2>2, <2>4, <2>6, <4>2 DEF CountsInv
      <4> QED BY <2>2, <4>1, <4>2 DEF Slots
    <3>3. old' # NoSlot
      BY <2>1, <2>2
    <3> QED BY <2>1, <3>1, <3>2, <3>3 DEF CountsInv
  <2>8. Active' = wanted[s] /\ Old' = Active
    BY <2>1, <2>4 DEF Active, Old
  <2>9. OwnersInv'
    BY <1>0, <2>1, <2>2, <2>3, <2>8, LogConstants DEF OwnersInv, SinksOK, Nobody
  <2> QED BY <2>5, <2>7, <2>9 DEF SinkInv
<1>4. CASE Drained(s)
  <2>1. /\ setting = s /\ old # NoSlot /\ sinks[old].inFlight = 0
        /\ alive' = alive \ {Old}
        /\ setting' = Nobody /\ old' = NoSlot
        /\ wanted' = [wanted EXCEPT ![s] = "nothing"]
        /\ UNCHANGED <<sinks, activeSlot, logger, rules>>
    BY <1>4 DEF Drained, Old, levelVars
  <2>2. wanted'[s] = "nothing" /\ \A t \in Setters : t # s => wanted'[t] = wanted[t]
    BY <1>0, <2>1 DEF SinksOK
  <2>3. SinksOK'
    BY <1>0, <2>1 DEF SinksOK
  <2>4. CountsInv'
    BY <1>0, <2>1 DEF CountsInv, OwnersInv, InSink
  <2>5. Active' = Active
    BY <2>1 DEF Active
  <2>6. OwnersInv'
    BY <1>0, <2>1, <2>2, <2>5, LogConstants DEF OwnersInv, SinksOK, Nobody
  <2> QED BY <2>3, <2>4, <2>6 DEF SinkInv
<1> QED BY <1>1, <1>2, <1>3, <1>4 DEF Setting

LEMMA DeliverStep ==
    ASSUME SinkInv, NEW l \in Loggers, Deliver(l) \/ SinkReturns(l)
    PROVE  SinkInv'
<1>0. SinksOK /\ OwnersInv /\ CountsInv
  BY DEF SinkInv
<1>1. UNCHANGED <<activeSlot, setting, old, wanted, alive, rules>>
  BY DEF Deliver, SinkReturns, levelVars
<1>2. ASSUME NEW slot \in Slots, NEW k \in Nat, sinks' = [sinks EXCEPT ![slot].inFlight = k]
      PROVE  /\ sinks' \in [Slots -> [context : Contexts \cup {NoContext}, inFlight : Nat]]
             /\ sinks'[slot].inFlight = k
             /\ \A s \in Slots : sinks'[s].context = sinks[s].context
             /\ \A s \in Slots : s # slot => sinks'[s] = sinks[s]
  BY <1>0, <1>2 DEF SinksOK
<1>3. ASSUME \A s \in Slots : sinks'[s].context = sinks[s].context
      PROVE  OwnersInv'
  <2>1. Active' = Active /\ (old # NoSlot => Old' = Old)
    BY <1>0, <1>1, <1>3 DEF Active, Old, SinksOK
  <2> QED BY <1>0, <1>1, <2>1 DEF OwnersInv
<1>4. CASE Deliver(l) /\ Active = NoContext
  <2>1. logger[l].step = "deliver" /\ logger' = [logger EXCEPT ![l] = Idle] /\ UNCHANGED sinks
    BY <1>4 DEF Deliver, Active
  <2>2. logger' \in [Loggers -> Logger]
    BY <1>0, <2>1 DEF SinksOK, Logger, Idle
  <2>3. \A k \in Loggers : logger[k].step = "sink" \/ logger'[k].step = "sink" => logger'[k] = logger[k]
    BY <1>0, <2>1 DEF SinksOK, Idle
  <2>4. UNCHANGED sinkVars
    BY <1>4, <2>1 DEF Deliver, sinkVars
  <2> QED BY <1>0, <1>1, <2>2, <2>3, <2>4, SinkFrame DEF SinksOK
<1>5. CASE Deliver(l) /\ Active # NoContext
  <2>0. PICK a \in Slots : a = activeSlot
    BY <1>0 DEF SinksOK
  <2> DEFINE call == [step |-> "sink", slot |-> a, context |-> Active]
             n == sinks[a].inFlight + 1
  <2>1. /\ logger[l].step = "deliver" /\ logger' = [logger EXCEPT ![l] = call]
        /\ sinks' = [sinks EXCEPT ![a].inFlight = n]
    BY <1>5, <2>0 DEF Deliver, Active
  <2>2. n \in Nat /\ Active \in Contexts
    BY <1>0, <1>5, <2>0 DEF SinksOK, Active
  <2>3. call \in Logger
    BY <2>0, <2>2 DEF Logger
  <2>4. logger' \in [Loggers -> Logger] /\ logger'[l] = call
        /\ \A k \in Loggers : k # l => logger'[k] = logger[k]
    BY <1>0, <2>1, <2>3 DEF SinksOK
  <2>5. InSink(a)' = InSink(a) \cup {l} /\ l \notin InSink(a)
    BY <1>1, <2>1, <2>4 DEF InSink
  <2>6. \A s \in Slots : s # a => InSink(s)' = InSink(s)
    BY <1>1, <2>1, <2>4 DEF InSink
  <2> HIDE DEF n, call
  <2>7. /\ sinks' \in [Slots -> [context : Contexts \cup {NoContext}, inFlight : Nat]]
        /\ sinks'[a].inFlight = n
        /\ \A s \in Slots : sinks'[s].context = sinks[s].context
        /\ \A s \in Slots : s # a => sinks'[s] = sinks[s]
    BY <1>2, <2>1, <2>2
  <2>8. SinksOK' /\ OwnersInv'
    BY <1>0, <1>1, <1>3, <2>4, <2>7 DEF SinksOK
  <2>9. CountsInv'
    <3>1. Cardinality(InSink(a)') = n
      <4>1. Cardinality(InSink(a) \cup {l}) = Cardinality(InSink(a)) + 1
        BY <2>5, InSinkFinite, FS_AddElement
      <4> QED BY <1>0, <2>2, <2>5, <4>1 DEF CountsInv, n
    <3>2. ASSUME NEW s \in Slots
          PROVE  /\ sinks'[s].inFlight = Cardinality(InSink(s)')
                 /\ \A k \in InSink(s)' : logger'[k].context = sinks'[s].context
      <4>1. CASE s = a
        <5>1. \A k \in InSink(a)' :
                 \/ k = l
                 \/ k \in InSink(a) /\ logger'[k] = logger[k]
          BY <2>4, <2>5 DEF InSink
        <5>2. logger'[l].context = sinks[a].context
          BY <2>0, <2>4 DEF call, Active
        <5>3. \A k \in InSink(a)' : logger'[k].context = sinks[a].context
          BY <1>0, <2>2, <5>1, <5>2 DEF CountsInv
        <5> QED BY <2>2, <2>7, <3>1, <4>1, <5>3
      <4>2. CASE s # a
        <5>1. \A k \in InSink(s) : logger'[k] = logger[k]
          BY <2>1, <2>4, <4>2 DEF InSink
        <5> QED BY <1>0, <2>6, <2>7, <4>2, <5>1 DEF CountsInv
      <4> QED BY <4>1, <4>2
    <3>3. old' = NoSlot => sinks'[1 - activeSlot'].inFlight = 0
      <4>1. 1 - activeSlot \in Slots /\ 1 - activeSlot # a
        BY <2>0 DEF Slots
      <4> QED BY <1>0, <1>1, <2>7, <4>1 DEF CountsInv
    <3> QED BY <3>2, <3>3 DEF CountsInv
  <2> QED BY <2>8, <2>9 DEF SinkInv
<1>6. CASE SinkReturns(l)
  <2>0. PICK slot \in Slots : slot = logger[l].slot
    <3>1. logger[l] \in Logger /\ logger[l].step = "sink"
      BY <1>0, <1>6 DEF SinksOK, SinkReturns
    <3> QED BY <3>1 DEF Logger
  <2> DEFINE n == sinks[slot].inFlight - 1
  <2>1. /\ logger[l].step = "sink" /\ logger' = [logger EXCEPT ![l] = Idle]
        /\ sinks' = [sinks EXCEPT ![slot].inFlight = n]
    BY <1>6, <2>0 DEF SinkReturns
  <2>3. logger' \in [Loggers -> Logger] /\ logger'[l] = Idle
        /\ \A k \in Loggers : k # l => logger'[k] = logger[k]
    BY <1>0, <2>1 DEF SinksOK, Logger, Idle
  <2>4. InSink(slot)' = InSink(slot) \ {l} /\ l \in InSink(slot)
    <3>1. l \in InSink(slot)
      BY <2>0, <2>1 DEF InSink
    <3>2. logger'[l].step # "sink"
      BY <2>3 DEF Idle
    <3> QED BY <2>3, <3>1, <3>2 DEF InSink
  <2>5. \A s \in Slots : s # slot => InSink(s)' = InSink(s)
    <3>1. logger'[l].step # "sink"
      BY <2>3 DEF Idle
    <3>2. \A s \in Slots : s # slot => l \notin InSink(s)
      BY <2>0 DEF InSink
    <3> QED BY <2>3, <3>1, <3>2 DEF InSink
  <2>6. /\ sinks[slot].inFlight = Cardinality(InSink(slot)) /\ IsFiniteSet(InSink(slot))
        /\ Cardinality(InSink(slot) \ {l}) = Cardinality(InSink(slot)) - 1
        /\ Cardinality(InSink(slot)) \in Nat /\ Cardinality(InSink(slot) \ {l}) \in Nat
    <3>1. IsFiniteSet(InSink(slot)) /\ IsFiniteSet(InSink(slot) \ {l})
      BY InSinkFinite, FS_RemoveElement
    <3> QED BY <1>0, <2>4, <3>1, FS_RemoveElement, FS_CardinalityType DEF CountsInv
  <2>7. n \in Nat /\ Cardinality(InSink(slot)') = n
    BY <2>4, <2>6
  <2> HIDE DEF n
  <2>8. /\ sinks' \in [Slots -> [context : Contexts \cup {NoContext}, inFlight : Nat]]
        /\ sinks'[slot].inFlight = n
        /\ \A s \in Slots : sinks'[s].context = sinks[s].context
        /\ \A s \in Slots : s # slot => sinks'[s] = sinks[s]
    BY <1>2, <2>1, <2>7
  <2>9. SinksOK' /\ OwnersInv'
    BY <1>0, <1>1, <1>3, <2>3, <2>8 DEF SinksOK
  <2>10. CountsInv'
    <3>1. ASSUME NEW s \in Slots
          PROVE  /\ sinks'[s].inFlight = Cardinality(InSink(s)')
                 /\ \A k \in InSink(s)' : logger'[k].context = sinks'[s].context
      <4>1. CASE s = slot
        <5>1. \A k \in InSink(slot)' : k \in InSink(slot) /\ logger'[k] = logger[k]
          BY <2>3, <2>4 DEF InSink
        <5> QED BY <1>0, <2>7, <2>8, <4>1, <5>1 DEF CountsInv
      <4>2. CASE s # slot
        <5>1. \A k \in InSink(s) : logger'[k] = logger[k]
          BY <2>0, <2>3, <4>2 DEF InSink
        <5> QED BY <1>0, <2>5, <2>8, <4>2, <5>1 DEF CountsInv
      <4> QED BY <4>1, <4>2
    <3>2. old' = NoSlot => sinks'[1 - activeSlot'].inFlight = 0
      <4> SUFFICES ASSUME old = NoSlot PROVE sinks'[1 - activeSlot].inFlight = 0
        BY <1>1
      <4>1. 1 - activeSlot \in Slots /\ sinks[1 - activeSlot].inFlight = 0
        BY <1>0 DEF CountsInv, SinksOK, Slots
      <4>2. InSink(1 - activeSlot) = {}
        BY <1>0, <4>1, EmptySlot
      <4>3. 1 - activeSlot # slot
        BY <2>4, <4>2
      <4> QED BY <2>8, <4>1, <4>3
    <3> QED BY <3>1, <3>2 DEF CountsInv
  <2> QED BY <2>9, <2>10 DEF SinkInv
<1> QED BY <1>4, <1>5, <1>6

THEOREM SinkInvariance == LogSpec => []SinkInv
<1>1. LogInit => SinkInv
  <2> SUFFICES ASSUME LogInit PROVE SinkInv
    OBVIOUS
  <2>1. \A l \in Loggers : logger[l] = Idle
    BY DEF LogInit
  <2>2. \A s \in Slots : InSink(s) = {} /\ sinks[s] = [context |-> NoContext, inFlight |-> 0]
    BY <2>1 DEF LogInit, InSink, Idle
  <2>3. SinksOK
    BY DEF LogInit, SinksOK, Slots, NoSlot, Logger, Idle
  <2>4. 0 \in Slots /\ 1 \in Slots /\ Cardinality({}) = 0
    BY FS_EmptySet DEF Slots
  <2>5. OwnersInv
    BY <2>2, <2>4, LogConstants DEF LogInit, OwnersInv, Active
  <2>6. CountsInv
    <3>1. old = NoSlot => sinks[1 - activeSlot].inFlight = 0
      BY <2>2, <2>4 DEF LogInit
    <3>2. \A s \in Slots : sinks[s].inFlight = Cardinality(InSink(s)) /\ InSink(s) = {}
      BY <2>2, <2>4
    <3> QED BY <3>1, <3>2 DEF CountsInv
  <2> QED BY <2>3, <2>5, <2>6 DEF SinkInv
<1>2. SinkInv /\ [LogNext]_logVars => SinkInv'
  <2> SUFFICES ASSUME SinkInv, [LogNext]_logVars PROVE SinkInv'
    OBVIOUS
  <2>0. logger \in [Loggers -> Logger] /\ rules \in Int
    BY DEF SinkInv, SinksOK
  <2>1. ASSUME NEW s \in Setters, SetSink(s) \/ Setting(s) PROVE SinkInv'
    BY <2>1, SetterStep
  <2>2. CASE NewRules \/ NewLevel \/ UNCHANGED logVars
    <3>1. UNCHANGED <<sinkVars, logger>> /\ rules' \in Int
      BY <2>0, <2>2 DEF NewRules, NewLevel, logVars, levelVars
    <3> QED BY <2>0, <3>1, SinkFrame
  <2>3. ASSUME NEW l \in Loggers, Log(l) \/ Register(l) \/ RaiseFlag(l) \/ ReadLevel(l) PROVE SinkInv'
    <3>1. UNCHANGED sinkVars /\ rules' \in Int
      BY <2>0, <2>3 DEF Log, Register, RaiseFlag, ReadLevel, levelVars
    <3>2. PICK new \in Logger : logger' = [logger EXCEPT ![l] = new] /\ new.step # "sink"
      <4>1. CASE Log(l)
        <5>1. PICK c \in Categories :
                 logger' = [logger EXCEPT ![l] =
                     [step |-> IF c \in registered THEN "level" ELSE "register",
                      category |-> c, since |-> Settled]]
          BY <4>1 DEF Log
        <5>2. Settled \in Int
          BY <2>0 DEF Settled
        <5> HIDE DEF Settled
        <5> DEFINE first == IF c \in registered THEN "level" ELSE "register"
        <5>3. first \in {"level", "register"}
          OBVIOUS
        <5> HIDE DEF first
        <5> DEFINE new == [step |-> first, category |-> c, since |-> Settled]
        <5>4. new \in Logger /\ new.step # "sink"
          BY <5>2, <5>3 DEF Logger
        <5>5. logger' = [logger EXCEPT ![l] = new]
          BY <5>1 DEF first
        <5> HIDE DEF new
        <5> QED BY <5>4, <5>5
      <4>2. CASE Register(l) \/ RaiseFlag(l) \/ ReadLevel(l)
        BY <2>0, <4>2 DEF Register, RaiseFlag, ReadLevel, Step, Logger, Idle
      <4> QED BY <2>3, <4>1, <4>2
    <3>3. logger[l].step # "sink"
      BY <2>3 DEF Log, Register, RaiseFlag, ReadLevel, Idle
    <3>4. logger' \in [Loggers -> Logger]
      BY <2>0, <3>2
    <3>5. \A k \in Loggers : logger[k].step = "sink" \/ logger'[k].step = "sink" => logger'[k] = logger[k]
      BY <2>0, <3>2, <3>3
    <3> QED BY <3>1, <3>4, <3>5, SinkFrame
  <2>4. ASSUME NEW l \in Loggers, Deliver(l) \/ SinkReturns(l) PROVE SinkInv'
    BY <2>4, DeliverStep
  <2> QED BY <2>1, <2>2, <2>3, <2>4 DEF LogNext, Logging
<1> QED BY <1>1, <1>2, PTL DEF LogSpec

(* What a sink writes to is not freed while a thread is inside it, whatever *)
(* the order in which sinks are replaced and calls return.                  *)
THEOREM NoUseAfterFree == LogSpec => []SinkAlive
<1>1. SinkInv => SinkAlive
  BY Alive DEF SinkAlive
<1> QED BY <1>1, SinkInvariance, PTL

(* The counts are exact, so that a caller never waits for ever on a slot that *)
(* nobody is in.                                                              *)
THEOREM Counted == LogSpec => []SlotsCounted
<1>1. SinkInv => SlotsCounted
  BY DEF SinkInv, CountsInv, SlotsCounted
<1> QED BY <1>1, SinkInvariance, PTL

----------------------------------------------------------------------------
(* The levels: the list holds the registered categories and the one being  *)
(* linked, and all of them are at the current rules unless a configuration *)
(* is on its way through the list.                                         *)

Linked == {listed[i] : i \in DOMAIN listed}
Linking == IF guard \in Loggers THEN {logger[guard].category} ELSE {}

LevelsOK ==
    /\ rules \in Int /\ level \in [Categories -> Int]
    /\ registered \subseteq Categories /\ listed \in Seq(Categories)
    /\ guard \in Loggers \cup {Nobody, Configurer}
    /\ logger \in [Loggers -> Logger]

ListInv ==
    /\ \A i, j \in DOMAIN listed : listed[i] = listed[j] => i = j
    /\ Linked = registered \cup Linking
    /\ \A l \in Loggers : logger[l].step = "flag" <=> guard = l

LevelInv ==
    /\ guard # Configurer => \A c \in registered \cup Linking : level[c] = rules
    /\ guard = Configurer => \A c \in registered : level[c] >= rules - 1
    /\ \A l \in Loggers :
          /\ logger[l].step = "level" => logger[l].category \in registered
          /\ logger[l].step \in {"register", "flag", "level"} =>
                logger[l].category \in Categories /\ logger[l].since \in Int /\ logger[l].since <= Settled

LevelsInv == LevelsOK /\ ListInv /\ LevelInv

LEMMA NoHolder ==
    /\ Nobody \notin Loggers /\ Configurer \notin Loggers /\ Nobody # Configurer
  BY LogConstants DEF Nobody, Configurer

(* A step that only moves a thread, and not to or from the link.           *)
LEMMA ThreadStep ==
    ASSUME LevelsInv, UNCHANGED levelVars, NEW l \in Loggers, NEW new \in Logger,
           logger' = [logger EXCEPT ![l] = new],
           logger[l].step # "flag", new.step # "flag",
           new.step = "level" => new.category \in registered,
           new.step \in {"register", "level"} =>
              new.category \in Categories /\ new.since \in Int /\ new.since <= Settled
    PROVE  LevelsInv'
<1>0. LevelsOK /\ ListInv /\ LevelInv
  BY DEF LevelsInv
<1>1. /\ UNCHANGED <<guard, rules, level, registered, listed>>
      /\ logger'[l] = new /\ \A k \in Loggers : k # l => logger'[k] = logger[k]
      /\ logger' \in [Loggers -> Logger]
  BY <1>0 DEF levelVars, LevelsOK
<1>2. LevelsOK'
  BY <1>0, <1>1 DEF LevelsOK
<1>3. guard # l
  BY <1>0 DEF ListInv
<1>4. Linking' = Linking /\ Linked' = Linked /\ Settled' = Settled
  BY <1>1, <1>3 DEF Linking, Linked, Settled
<1>5. ListInv'
  BY <1>0, <1>1, <1>3, <1>4 DEF ListInv
<1>6. LevelInv'
  BY <1>0, <1>1, <1>4 DEF LevelInv
<1> QED BY <1>2, <1>5, <1>6 DEF LevelsInv

LEMMA LinkStep ==
    ASSUME LevelsInv, NEW l \in Loggers, Register(l)
    PROVE  LevelsInv'
<1>0. LevelsOK /\ ListInv /\ LevelInv
  BY DEF LevelsInv
<1>1. PICK c \in Categories : c = logger[l].category
  BY <1>0 DEF Register, LevelInv
<1>2. /\ logger[l].step = "register" /\ guard = Nobody /\ logger[l] \in Logger
      /\ UNCHANGED <<sinkVars, rules, registered>>
  BY <1>0 DEF Register, LevelsOK
<1>3. CASE c \in registered
  <2> DEFINE new == [logger[l] EXCEPT !.step = "level"]
  <2>1. /\ new \in Logger /\ new.step = "level" /\ new.category = c
        /\ new.since = logger[l].since
    BY <1>1, <1>2 DEF Logger
  <2>2. logger' = [logger EXCEPT ![l] = new] /\ UNCHANGED levelVars
    BY <1>1, <1>2, <1>3 DEF Register, Step, levelVars
  <2>3. new.since \in Int /\ new.since <= Settled
    BY <1>0, <1>2, <2>1 DEF LevelInv
  <2> HIDE DEF new
  <2> QED BY <1>2, <1>3, <2>1, <2>2, <2>3, ThreadStep
<1>4. CASE c \notin registered
  <2> DEFINE new == [logger[l] EXCEPT !.step = "flag"]
  <2>1. /\ new \in Logger /\ new.step = "flag" /\ new.category = c
        /\ new.since = logger[l].since
    BY <1>1, <1>2 DEF Logger
  <2>2. /\ guard' = l /\ level' = [level EXCEPT ![c] = rules] /\ listed' = <<c>> \o listed
        /\ logger' = [logger EXCEPT ![l] = new]
    BY <1>1, <1>2, <1>4 DEF Register, Step
  <2> HIDE DEF new
  <2>3. /\ logger' \in [Loggers -> Logger] /\ logger'[l] = new
        /\ \A k \in Loggers : k # l => logger'[k] = logger[k]
    BY <1>0, <2>1, <2>2 DEF LevelsOK
  <2>4. /\ level' \in [Categories -> Int] /\ level'[c] = rules
        /\ \A d \in Categories : d # c => level'[d] = level[d]
    BY <1>0, <2>2 DEF LevelsOK
  <2>5. LevelsOK'
    <3>1. <<c>> \o listed \in Seq(Categories)
      BY <1>0 DEF LevelsOK
    <3> QED BY <1>0, <1>2, <2>2, <2>3, <2>4, <3>1 DEF LevelsOK
  <2>6. Linking = {} /\ Linking' = {c} /\ Linked = registered
    BY <1>0, <1>2, <2>1, <2>2, <2>3, NoHolder DEF Linking, ListInv
  <2>7. Settled' = Settled
    BY <1>2, <2>2, NoHolder DEF Settled
  <2>8. /\ Len(listed) \in Nat /\ DOMAIN listed = 1 .. Len(listed)
        /\ DOMAIN (<<c>> \o listed) = 1 .. Len(listed) + 1
        /\ (<<c>> \o listed)[1] = c
        /\ \A i \in DOMAIN listed : (<<c>> \o listed)[i + 1] = listed[i]
        /\ \A i \in 2 .. Len(listed) + 1 : i - 1 \in DOMAIN listed /\ (<<c>> \o listed)[i] = listed[i - 1]
    BY <1>0 DEF LevelsOK
  <2>9. \A i \in DOMAIN listed : listed[i] # c
    BY <1>4, <2>6 DEF Linked
  <2>10. ListInv'
    <3> DEFINE more == <<c>> \o listed
    <3>1. \A i, j \in DOMAIN more : more[i] = more[j] => i = j
      <4> SUFFICES ASSUME NEW i \in 1 .. Len(listed) + 1, NEW j \in 1 .. Len(listed) + 1, more[i] = more[j]
                   PROVE  i = j
        BY <2>8
      <4>1. CASE i = 1 /\ j # 1
        <5>1. j \in 2 .. Len(listed) + 1
          BY <2>8, <4>1
        <5> QED BY <2>8, <2>9, <4>1, <5>1
      <4>2. CASE i # 1 /\ j = 1
        <5>1. i \in 2 .. Len(listed) + 1
          BY <2>8, <4>2
        <5> QED BY <2>8, <2>9, <4>2, <5>1
      <4>3. CASE i # 1 /\ j # 1
        <5>1. i \in 2 .. Len(listed) + 1 /\ j \in 2 .. Len(listed) + 1
          BY <2>8, <4>3
        <5>2. i - 1 = j - 1
          BY <1>0, <2>8, <5>1 DEF ListInv
        <5> QED BY <2>8, <5>2
      <4> QED BY <4>1, <4>2, <4>3
    <3>2. {more[i] : i \in DOMAIN more} = Linked \cup {c}
      <4>1. \A i \in DOMAIN more : more[i] \in Linked \cup {c}
        <5> SUFFICES ASSUME NEW i \in 1 .. Len(listed) + 1 PROVE more[i] \in Linked \cup {c}
          BY <2>8
        <5>1. CASE i = 1
          BY <2>8, <5>1
        <5>2. CASE i # 1
          <6>1. i \in 2 .. Len(listed) + 1
            BY <2>8, <5>2
          <6> QED BY <2>8, <6>1 DEF Linked
        <5> QED BY <5>1, <5>2
      <4>2. c \in {more[i] : i \in DOMAIN more}
        <5>1. 1 \in DOMAIN more
          BY <2>8
        <5> QED BY <2>8, <5>1
      <4>3. ASSUME NEW i \in DOMAIN listed PROVE listed[i] \in {more[k] : k \in DOMAIN more}
        <5>1. i + 1 \in DOMAIN more
          BY <2>8, <4>3
        <5> QED BY <2>8, <5>1
      <4> HIDE DEF more
      <4> QED BY <4>1, <4>2, <4>3 DEF Linked
    <3> HIDE DEF more
    <3>3. listed' = more
      BY <2>2 DEF more
    <3>4. Linked' = Linked \cup {c}
      BY <3>2, <3>3 DEF Linked
    <3>5. Linked' = registered' \cup Linking'
      BY <1>2, <2>6, <3>4
    <3>6. \A k \in Loggers : logger'[k].step = "flag" <=> guard' = k
      BY <1>0, <1>2, <2>1, <2>2, <2>3, NoHolder DEF ListInv
    <3> QED BY <3>1, <3>3, <3>5, <3>6 DEF ListInv
  <2>11. LevelInv'
    <3>1. \A d \in registered' \cup Linking' : level'[d] = rules'
      BY <1>0, <1>2, <2>4, <2>6, NoHolder DEF LevelInv, LevelsOK
    <3>2. guard' # Configurer
      BY <2>2, NoHolder
    <3>3. \A k \in Loggers :
             /\ logger'[k].step = "level" => logger'[k].category \in registered
             /\ logger'[k].step \in {"register", "flag", "level"} =>
                   logger'[k].category \in Categories /\ logger'[k].since \in Int /\ logger'[k].since <= Settled
      BY <1>0, <1>2, <2>1, <2>3 DEF LevelInv
    <3> QED BY <1>2, <2>7, <3>1, <3>2, <3>3 DEF LevelInv
  <2> QED BY <2>5, <2>10, <2>11 DEF LevelsInv
<1> QED BY <1>3, <1>4

LEMMA FlagStep ==
    ASSUME LevelsInv, NEW l \in Loggers, RaiseFlag(l)
    PROVE  LevelsInv'
<1>0. LevelsOK /\ ListInv /\ LevelInv
  BY DEF LevelsInv
<1>1. /\ logger[l].step = "flag" /\ guard = l /\ logger[l] \in Logger /\ guard' = Nobody
      /\ registered' = registered \cup {logger[l].category}
      /\ UNCHANGED <<rules, level, listed>>
  BY <1>0 DEF RaiseFlag, ListInv, LevelsOK
<1> DEFINE new == [logger[l] EXCEPT !.step = "level"]
<1>2. /\ new \in Logger /\ new.step = "level" /\ new.category = logger[l].category
      /\ new.since = logger[l].since
  BY <1>1 DEF Logger
<1>3. logger' = [logger EXCEPT ![l] = new]
  BY DEF RaiseFlag, Step
<1> HIDE DEF new
<1>4. /\ logger' \in [Loggers -> Logger] /\ logger'[l] = new
      /\ \A k \in Loggers : k # l => logger'[k] = logger[k]
  BY <1>0, <1>2, <1>3 DEF LevelsOK
<1>5. Linking = {logger[l].category} /\ Linking' = {} /\ Linked' = Linked
  BY <1>1, NoHolder DEF Linking, Linked
<1>6. Settled' = Settled
  BY <1>1, NoHolder DEF Settled
<1>7. LevelsOK'
  BY <1>0, <1>1, <1>4 DEF LevelsOK, LevelInv
<1>8. ListInv'
  <2>1. \A k \in Loggers : logger'[k].step = "flag" <=> guard' = k
    BY <1>0, <1>1, <1>2, <1>4, NoHolder DEF ListInv
  <2> QED BY <1>0, <1>1, <1>5, <2>1 DEF ListInv
<1>9. LevelInv'
  <2>1. \A d \in registered' \cup Linking' : level'[d] = rules'
    BY <1>0, <1>1, <1>5, NoHolder DEF LevelInv
  <2>2. \A k \in Loggers :
           /\ logger'[k].step = "level" => logger'[k].category \in registered'
           /\ logger'[k].step \in {"register", "flag", "level"} =>
                 logger'[k].category \in Categories /\ logger'[k].since \in Int /\ logger'[k].since <= Settled
    BY <1>0, <1>1, <1>2, <1>4 DEF LevelInv
  <2> QED BY <1>1, <1>6, <2>1, <2>2, NoHolder DEF LevelInv
<1> QED BY <1>7, <1>8, <1>9 DEF LevelsInv

LEMMA ConfigureStep ==
    ASSUME LevelsInv, NewRules \/ NewLevel
    PROVE  LevelsInv'
<1>0. LevelsOK /\ ListInv /\ LevelInv
  BY DEF LevelsInv
<1>1. CASE NewRules
  <2>1. /\ guard = Nobody /\ guard' = Configurer /\ rules' = rules + 1
        /\ UNCHANGED <<level, registered, listed, logger>>
    BY <1>1 DEF NewRules
  <2>2. Linking = {} /\ Linking' = {} /\ Linked' = Linked
    BY <2>1, NoHolder DEF Linking, Linked
  <2>3. Settled' = Settled
    BY <1>0, <2>1, NoHolder DEF Settled, LevelsOK
  <2>4. LevelsOK'
    BY <1>0, <2>1 DEF LevelsOK
  <2>5. ListInv'
    BY <1>0, <2>1, <2>2, NoHolder DEF ListInv
  <2>6. \A c \in registered : level[c] >= rules' - 1
    BY <1>0, <2>1, NoHolder DEF LevelInv, LevelsOK
  <2>7. LevelInv'
    BY <1>0, <2>1, <2>2, <2>3, <2>6 DEF LevelInv
  <2> QED BY <2>4, <2>5, <2>7 DEF LevelsInv
<1>2. CASE NewLevel /\ Behind # {}
  <2>1. PICK x : level' = [level EXCEPT ![x] = rules]
    BY <1>2 DEF NewLevel
  <2>2. guard = Configurer /\ UNCHANGED <<guard, rules, registered, listed, logger>>
    BY <1>2 DEF NewLevel
  <2>3. /\ level' \in [Categories -> Int]
        /\ \A c \in Categories : level'[c] = rules \/ level'[c] = level[c]
    BY <1>0, <2>1 DEF LevelsOK
  <2>4. LevelsOK'
    BY <1>0, <2>2, <2>3 DEF LevelsOK
  <2>5. ListInv'
    BY <1>0, <2>2 DEF ListInv, Linked, Linking
  <2>6. \A c \in registered : level'[c] >= rules - 1
    BY <1>0, <2>2, <2>3 DEF LevelInv, LevelsOK
  <2>7. LevelInv'
    BY <1>0, <2>2, <2>6 DEF LevelInv, Settled
  <2> QED BY <2>4, <2>5, <2>7 DEF LevelsInv
<1>3. CASE NewLevel /\ Behind = {}
  <2>1. guard = Configurer /\ guard' = Nobody /\ UNCHANGED <<level, rules, registered, listed, logger>>
    BY <1>3 DEF NewLevel
  <2>2. Linking = {} /\ Linking' = {} /\ Linked' = Linked
    BY <2>1, NoHolder DEF Linking, Linked
  <2>3. \A c \in registered : level[c] = rules
    BY <1>0, <1>3, <2>2 DEF Behind, Linked, ListInv
  <2>4. Settled \in Int /\ Settled' = rules /\ Settled = rules - 1
    BY <1>0, <2>1, NoHolder DEF Settled, LevelsOK
  <2>5. LevelsOK'
    BY <1>0, <2>1 DEF LevelsOK
  <2>6. ListInv'
    BY <1>0, <2>1, <2>2, NoHolder DEF ListInv
  <2>7. \A l \in Loggers : logger[l].step \in {"register", "flag", "level"} =>
           /\ logger[l].category \in Categories /\ logger[l].since \in Int
           /\ logger[l].since <= rules
    BY <1>0, <2>4 DEF LevelInv, LevelsOK
  <2>8. LevelInv'
    BY <1>0, <2>1, <2>2, <2>3, <2>4, <2>7, NoHolder DEF LevelInv
  <2> QED BY <2>5, <2>6, <2>8 DEF LevelsInv
<1> QED BY <1>1, <1>2, <1>3

THEOREM LevelInvariance == LogSpec => [](LevelsInv /\ SinkInv)
<1>1. LogInit => LevelsInv
  <2> SUFFICES ASSUME LogInit PROVE LevelsInv
    OBVIOUS
  <2>1. LevelsOK /\ listed = <<>> /\ registered = {} /\ guard = Nobody /\ Linking = {}
    BY NoHolder DEF LogInit, LevelsOK, Linking, Logger, Idle
  <2>2. Linked = {}
    BY <2>1 DEF Linked
  <2>3. \A l \in Loggers : logger[l].step = "idle"
    BY DEF LogInit, Idle
  <2>4. ListInv
    BY <2>1, <2>2, <2>3, NoHolder DEF ListInv
  <2>5. LevelInv
    BY <2>1, <2>3, NoHolder DEF LevelInv
  <2> QED BY <2>1, <2>4, <2>5 DEF LevelsInv
<1>2. LevelsInv /\ SinkInv /\ [LogNext]_logVars => LevelsInv'
  <2> SUFFICES ASSUME LevelsInv, SinkInv, [LogNext]_logVars PROVE LevelsInv'
    OBVIOUS
  <2>0. LevelsOK /\ LevelInv /\ Settled \in Int
    BY DEF LevelsInv, LevelsOK, Settled
  <2>1. ASSUME UNCHANGED <<levelVars, logger>> PROVE LevelsInv'
    BY <2>1 DEF LevelsInv, LevelsOK, ListInv, LevelInv, Linked, Linking, Settled, levelVars
  <2>2. ASSUME NEW s \in Setters, SetSink(s) \/ Setting(s) PROVE LevelsInv'
    BY <2>1, <2>2 DEF SetSink, Setting, LockSet, Install, Drained
  <2>3. CASE NewRules \/ NewLevel
    BY <2>3, ConfigureStep
  <2>4. CASE UNCHANGED logVars
    BY <2>1, <2>4 DEF logVars
  <2>5. ASSUME NEW l \in Loggers, Log(l) PROVE LevelsInv'
    <3>1. PICK c \in Categories :
             logger' = [logger EXCEPT ![l] =
                 [step |-> IF c \in registered THEN "level" ELSE "register",
                  category |-> c, since |-> Settled]]
      BY <2>5 DEF Log
    <3> DEFINE first == IF c \in registered THEN "level" ELSE "register"
               new == [step |-> first, category |-> c, since |-> Settled]
    <3>2. first \in {"level", "register"} /\ (first = "level" => c \in registered)
      OBVIOUS
    <3>3. logger' = [logger EXCEPT ![l] = new]
      BY <3>1
    <3>4. logger[l].step # "flag" /\ UNCHANGED levelVars
      BY <2>5 DEF Log, Idle
    <3> HIDE DEF first, Settled
    <3>5. new \in Logger /\ new.step = first /\ new.category = c /\ new.since = Settled
      BY <2>0, <3>2 DEF Logger
    <3> HIDE DEF new
    <3>6. Settled <= Settled
      BY <2>0
    <3> QED BY <2>0, <3>2, <3>3, <3>4, <3>5, <3>6, ThreadStep
  <2>6. ASSUME NEW l \in Loggers, Register(l) PROVE LevelsInv'
    BY <2>6, LinkStep
  <2>7. ASSUME NEW l \in Loggers, RaiseFlag(l) PROVE LevelsInv'
    BY <2>7, FlagStep
  <2>8. ASSUME NEW l \in Loggers, ReadLevel(l) \/ Deliver(l) \/ SinkReturns(l) PROVE LevelsInv'
    <3>1. UNCHANGED levelVars /\ logger[l].step \in {"level", "deliver", "sink"}
      BY <2>8 DEF ReadLevel, Deliver, SinkReturns
    <3>2. PICK new \in Logger : logger' = [logger EXCEPT ![l] = new] /\ new.step \in {"idle", "deliver", "sink"}
      <4>0. Idle \in Logger /\ Idle.step = "idle"
        BY DEF Logger, Idle
      <4>1. CASE ReadLevel(l)
        <5> DEFINE on == [logger[l] EXCEPT !.step = "deliver"]
        <5>1. logger[l] \in Logger /\ logger[l].step = "level"
          BY <2>0, <4>1 DEF LevelsOK, ReadLevel
        <5>2. on \in Logger /\ on.step = "deliver"
          BY <5>1 DEF Logger
        <5>3. logger' = [logger EXCEPT ![l] = on] \/ logger' = [logger EXCEPT ![l] = Idle]
          BY <4>1 DEF ReadLevel, Step
        <5> HIDE DEF on
        <5> QED BY <4>0, <5>2, <5>3
      <4>2. CASE Deliver(l) /\ Active = NoContext
        BY <4>2 DEF Deliver, Active, Logger, Idle
      <4>3. CASE Deliver(l) /\ Active # NoContext
        <5>1. activeSlot \in Slots /\ Active \in Contexts
          BY <4>3 DEF SinkInv, SinksOK, Active
        <5> DEFINE call == [step |-> "sink", slot |-> activeSlot, context |-> Active]
        <5>2. call \in Logger /\ call.step = "sink"
          BY <5>1 DEF Logger
        <5>3. logger' = [logger EXCEPT ![l] = call]
          BY <4>3 DEF Deliver, Active
        <5> HIDE DEF call
        <5> QED BY <5>2, <5>3
      <4>4. CASE SinkReturns(l)
        BY <4>0, <4>4 DEF SinkReturns
      <4> QED BY <2>8, <4>1, <4>2, <4>3, <4>4
    <3> QED BY <3>1, <3>2, ThreadStep
  <2> QED BY <2>2, <2>3, <2>4, <2>5, <2>6, <2>7, <2>8 DEF LogNext, Logging
<1> QED BY <1>1, <1>2, SinkInvariance, PTL DEF LogSpec

(* A call obeys every configuration that was complete when it began, and a *)
(* category is linked once, however many threads register it together.     *)
THEOREM InForce == LogSpec => []LevelInForce
<1>1. LevelsInv => LevelInForce
  <2> SUFFICES ASSUME LevelsInv PROVE LevelInForce
    OBVIOUS
  <2>0. LevelsOK /\ ListInv /\ LevelInv
    BY DEF LevelsInv
  <2>1. ASSUME NEW l \in Loggers, logger[l].step = "level"
        PROVE  level[logger[l].category] >= logger[l].since
    <3>1. /\ logger[l].category \in registered /\ logger[l].category \in Categories
          /\ logger[l].since \in Int /\ logger[l].since <= Settled
      BY <2>0, <2>1 DEF LevelInv
    <3>2. CASE guard = Configurer
      BY <2>0, <3>1, <3>2 DEF LevelInv, LevelsOK, Settled
    <3>3. CASE guard # Configurer
      BY <2>0, <3>1, <3>3 DEF LevelInv, LevelsOK, Settled
    <3> QED BY <3>2, <3>3
  <2>2. guard = Nobody => \A c \in registered : level[c] = rules
    BY <2>0, NoHolder DEF LevelInv
  <2> QED BY <2>0, <2>1, <2>2 DEF LevelInForce, ListInv
<1> QED BY <1>1, LevelInvariance, PTL

----------------------------------------------------------------------------
(* The types: the counters stay below their bounds, the rest is part of    *)
(* the invariants above.                                                   *)

RangesOK ==
    /\ sets \in 0 .. MaxSets
    /\ rules \in 0 .. MaxConfigurations /\ level \in [Categories -> 0 .. MaxConfigurations]

LEMMA RangesStep ==
    ASSUME RangesOK, [LogNext]_logVars
    PROVE  RangesOK'
<1>1. CASE UNCHANGED <<sets, rules, level>>
  BY <1>1 DEF RangesOK
<1>2. CASE sets < MaxSets /\ sets' = sets + 1 /\ UNCHANGED <<rules, level>>
  BY <1>2, LogConstants DEF RangesOK
<1>3. CASE rules < MaxConfigurations /\ rules' = rules + 1 /\ UNCHANGED <<sets, level>>
  BY <1>3, LogConstants DEF RangesOK
<1>4. CASE UNCHANGED <<sets, rules>> /\ \E c : level' = [level EXCEPT ![c] = rules]
  BY <1>4 DEF RangesOK
<1>5. \/ UNCHANGED <<sets, rules, level>>
      \/ sets < MaxSets /\ sets' = sets + 1 /\ UNCHANGED <<rules, level>>
      \/ rules < MaxConfigurations /\ rules' = rules + 1 /\ UNCHANGED <<sets, level>>
      \/ UNCHANGED <<sets, rules>> /\ \E c : level' = [level EXCEPT ![c] = rules]
  <2>1. ASSUME NEW s \in Setters, SetSink(s) \/ Setting(s)
        PROVE  \/ UNCHANGED <<sets, rules, level>>
               \/ sets < MaxSets /\ sets' = sets + 1 /\ UNCHANGED <<rules, level>>
    BY <2>1 DEF SetSink, Setting, LockSet, Install, Drained, levelVars
  <2>2. NewRules => rules < MaxConfigurations /\ rules' = rules + 1 /\ UNCHANGED <<sets, level>>
    BY DEF NewRules, sinkVars
  <2>3. NewLevel => /\ UNCHANGED <<sets, rules>>
                    /\ UNCHANGED level \/ \E c : level' = [level EXCEPT ![c] = rules]
    BY DEF NewLevel, sinkVars
  <2>4. ASSUME NEW l \in Loggers, Log(l) \/ Logging(l)
        PROVE  /\ UNCHANGED <<sets, rules>>
               /\ UNCHANGED level \/ \E c : level' = [level EXCEPT ![c] = rules]
    BY <2>4 DEF Log, Logging, Register, RaiseFlag, ReadLevel, Deliver, SinkReturns, sinkVars, levelVars
  <2>5. UNCHANGED logVars => UNCHANGED <<sets, rules, level>>
    BY DEF logVars, sinkVars, levelVars
  <2> QED BY <2>1, <2>2, <2>3, <2>4, <2>5 DEF LogNext
<1> QED BY <1>1, <1>2, <1>3, <1>4, <1>5

(* Every variable keeps to its type, for every number of threads, callers  *)
(* and contexts.                                                           *)
THEOREM LogTypes == LogSpec => []LogTypeOK
<1>1. LogInit => RangesOK
  BY LogConstants DEF LogInit, RangesOK
<1>2. RangesOK /\ [LogNext]_logVars => RangesOK'
  BY RangesStep
<1>3. LevelsInv /\ SinkInv /\ RangesOK => LogTypeOK
  <2> SUFFICES ASSUME LevelsInv, SinkInv, RangesOK PROVE LogTypeOK
    OBVIOUS
  <2>1. SinksOK /\ LevelsOK
    BY DEF LevelsInv, SinkInv
  <2>2. \A l \in Loggers :
           logger[l].step \in {"idle", "register", "flag", "level", "deliver", "sink"}
    <3> SUFFICES ASSUME NEW l \in Loggers
                 PROVE  logger[l].step \in {"idle", "register", "flag", "level", "deliver", "sink"}
      OBVIOUS
    <3>1. logger[l] \in Logger
      BY <2>1 DEF SinksOK
    <3> QED BY <3>1 DEF Logger
  <2> QED BY <2>1, <2>2 DEF SinksOK, LevelsOK, RangesOK, LogTypeOK
<1> QED BY <1>1, <1>2, <1>3, LevelInvariance, PTL DEF LogSpec
=============================================================================
