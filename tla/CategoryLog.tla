---------------------------- MODULE CategoryLog ----------------------------
(***************************************************************************)
(* Category logging (category_log.c): threads that log, callers that       *)
(* replace the sink and free the old one's context, and reconfiguration of *)
(* the levels.  One spin lock guards the state, another lets one caller at *)
(* a time replace the sink; a category's level and its registered flag are *)
(* read without a lock.                                                    *)
(*                                                                         *)
(* Rules and levels are abstracted to the number of the configuration they *)
(* come from; 0 gives every category the level it was compiled with.       *)
(***************************************************************************)
EXTENDS Naturals, Sequences, FiniteSets

CONSTANTS
    Loggers,            \* threads that log
    Setters,            \* callers that replace the sink
    Contexts,           \* what a sink writes to
    NoContext,          \* of the default sink
    Categories,
    MaxSets,            \* bound: sinks set
    MaxConfigurations   \* bound: configurations

ASSUME LogConstants ==
    /\ IsFiniteSet(Loggers)
    /\ NoContext \notin Contexts \cup {"nothing"} /\ "nothing" \notin Contexts
    /\ {"nobody", "configurer"} \cap (Loggers \cup Setters) = {}
    /\ MaxSets \in Nat /\ MaxConfigurations \in Nat

VARIABLES
    sinks,      \* slot -> the context of its sink and the calls in flight
    activeSlot,
    setting,    \* holder of g_sink_set_lock
    old,        \* the slot that holder replaced, NoSlot before
    wanted,     \* setter -> the context it installs
    alive,      \* contexts not freed
    sets,
    guard,      \* holder of g_state_lock between two steps
    rules, level, registered, listed,
    logger      \* thread -> its step, category, slot, and what was in force when it began

sinkVars == <<sinks, activeSlot, setting, old, wanted, alive, sets>>
levelVars == <<guard, rules, level, registered, listed>>
logVars == <<sinkVars, levelVars, logger>>

Slots == {0, 1}
NoSlot == 2
Nobody == "nobody"
Configurer == "configurer"
Idle == [step |-> "idle"]

LogInit ==
    /\ sinks = [s \in Slots |-> [context |-> NoContext, inFlight |-> 0]]
    /\ activeSlot = 0 /\ setting = Nobody /\ old = NoSlot
    /\ wanted = [s \in Setters |-> "nothing"]
    /\ alive = {} /\ sets = 0
    /\ guard = Nobody /\ rules = 0 /\ level = [c \in Categories |-> 0]
    /\ registered = {} /\ listed = <<>>
    /\ logger = [l \in Loggers |-> Idle]

----------------------------------------------------------------------------
(* clogx_set_sink, clogx_reset_sink and the callers that own the contexts. *)

SetSink(s) ==
    /\ wanted[s] = "nothing" /\ sets < MaxSets
    /\ \E c \in (Contexts \ alive) \cup {NoContext} :
          /\ wanted' = [wanted EXCEPT ![s] = c]
          /\ alive' = alive \cup ({c} \ {NoContext})
    /\ sets' = sets + 1
    /\ UNCHANGED <<sinks, activeSlot, setting, old, levelVars, logger>>

LockSet(s) ==
    /\ wanted[s] # "nothing" /\ setting = Nobody
    /\ setting' = s
    /\ UNCHANGED <<sinks, activeSlot, old, wanted, alive, sets, levelVars, logger>>

Install(s) ==
    /\ setting = s /\ old = NoSlot /\ guard = Nobody
    /\ sinks[1 - activeSlot].inFlight = 0
    /\ sinks' = [sinks EXCEPT ![1 - activeSlot].context = wanted[s]]
    /\ activeSlot' = 1 - activeSlot
    /\ old' = activeSlot
    /\ UNCHANGED <<setting, wanted, alive, sets, levelVars, logger>>

\* Mutant: does not wait for the calls inside the old sink.
DrainedEarly(s) ==
    /\ setting = s /\ old # NoSlot /\ guard = Nobody
    /\ alive' = alive \ {sinks[old].context}
    /\ setting' = Nobody /\ old' = NoSlot
    /\ wanted' = [wanted EXCEPT ![s] = "nothing"]
    /\ UNCHANGED <<sinks, activeSlot, sets, levelVars, logger>>

\* Mutant: waits for the new sink, which never rests.
DrainedNew(s) ==
    /\ setting = s /\ old # NoSlot /\ guard = Nobody
    /\ sinks[activeSlot].inFlight = 0
    /\ alive' = alive \ {sinks[old].context}
    /\ setting' = Nobody /\ old' = NoSlot
    /\ wanted' = [wanted EXCEPT ![s] = "nothing"]
    /\ UNCHANGED <<sinks, activeSlot, sets, levelVars, logger>>

\* The call returns once the old slot is seen drained; the caller frees what the
\* old sink wrote to.
Drained(s) ==
    /\ setting = s /\ old # NoSlot /\ guard = Nobody
    /\ sinks[old].inFlight = 0
    /\ alive' = alive \ {sinks[old].context}
    /\ setting' = Nobody /\ old' = NoSlot
    /\ wanted' = [wanted EXCEPT ![s] = "nothing"]
    /\ UNCHANGED <<sinks, activeSlot, sets, levelVars, logger>>

----------------------------------------------------------------------------
(* clogx_configure: the rules are parsed before, the levels of the         *)
(* registered categories follow one by one, all under the state lock.      *)

NewRules ==
    /\ guard = Nobody /\ rules < MaxConfigurations
    /\ guard' = Configurer
    /\ rules' = rules + 1
    /\ UNCHANGED <<sinkVars, level, registered, listed, logger>>

Behind == {i \in DOMAIN listed : level[listed[i]] # rules}

NewLevel ==
    /\ guard = Configurer
    /\ \/ /\ Behind # {}
          /\ level' = [level EXCEPT ![listed[CHOOSE i \in Behind : \A j \in Behind : i <= j]] = rules]
          /\ UNCHANGED guard
       \/ /\ Behind = {}
          /\ guard' = Nobody
          /\ UNCHANGED level
    /\ UNCHANGED <<sinkVars, rules, registered, listed, logger>>

----------------------------------------------------------------------------
(* A call that logs: clogx_enabled, clogx_register_category, clogx_deliver. *)

Step(l, step) == logger' = [logger EXCEPT ![l].step = step]

\* What any call made now must at least obey: the configurations that are complete.
Settled == IF guard = Configurer THEN rules - 1 ELSE rules

\* The first look at the registered flag, without the lock.
Log(l) ==
    /\ logger[l] = Idle
    /\ \E c \in Categories :
          logger' = [logger EXCEPT ![l] =
              [step |-> IF c \in registered THEN "level" ELSE "register",
               category |-> c, since |-> Settled]]
    /\ UNCHANGED <<sinkVars, levelVars>>

\* Mutant: links the category without a second look.
RegisterTwice(l) ==
    /\ logger[l].step = "register" /\ guard = Nobody
    /\ guard' = l
    /\ level' = [level EXCEPT ![logger[l].category] = rules]
    /\ listed' = <<logger[l].category>> \o listed
    /\ Step(l, "flag")
    /\ UNCHANGED <<sinkVars, rules, registered>>

\* Under the lock it looks again, links the category and stores its level ...
Register(l) ==
    /\ logger[l].step = "register" /\ guard = Nobody
    /\ LET c == logger[l].category IN
       IF c \in registered
       THEN Step(l, "level") /\ UNCHANGED <<guard, level, listed>>
       ELSE /\ guard' = l
            /\ level' = [level EXCEPT ![c] = rules]
            /\ listed' = <<c>> \o listed
            /\ Step(l, "flag")
    /\ UNCHANGED <<sinkVars, rules, registered>>

\* ... and raises the flag last.
RaiseFlag(l) ==
    /\ logger[l].step = "flag"
    /\ registered' = registered \cup {logger[l].category}
    /\ guard' = Nobody
    /\ Step(l, "level")
    /\ UNCHANGED <<sinkVars, rules, level, listed>>

\* The level lets the event through or not.
ReadLevel(l) ==
    /\ logger[l].step = "level"
    /\ \/ Step(l, "deliver")
       \/ logger' = [logger EXCEPT ![l] = Idle]
    /\ UNCHANGED <<sinkVars, levelVars>>

Deliver(l) ==
    /\ logger[l].step = "deliver" /\ guard = Nobody
    /\ IF sinks[activeSlot].context = NoContext
       THEN logger' = [logger EXCEPT ![l] = Idle] /\ UNCHANGED sinks
       ELSE /\ logger' = [logger EXCEPT ![l] =
                   [step |-> "sink", slot |-> activeSlot, context |-> sinks[activeSlot].context]]
            /\ sinks' = [sinks EXCEPT ![activeSlot].inFlight = @ + 1]
    /\ UNCHANGED <<activeSlot, setting, old, wanted, alive, sets, levelVars>>

\* Mutant: gives back the slot that is active now.
SinkReturnsNow(l) ==
    /\ logger[l].step = "sink" /\ guard = Nobody
    /\ sinks' = [sinks EXCEPT ![activeSlot].inFlight = @ - 1]
    /\ logger' = [logger EXCEPT ![l] = Idle]
    /\ UNCHANGED <<activeSlot, setting, old, wanted, alive, sets, levelVars>>

SinkReturns(l) ==
    /\ logger[l].step = "sink" /\ guard = Nobody
    /\ sinks' = [sinks EXCEPT ![logger[l].slot].inFlight = @ - 1]
    /\ logger' = [logger EXCEPT ![l] = Idle]
    /\ UNCHANGED <<activeSlot, setting, old, wanted, alive, sets, levelVars>>

----------------------------------------------------------------------------
Setting(s) == LockSet(s) \/ Install(s) \/ Drained(s)
Logging(l) == Register(l) \/ RaiseFlag(l) \/ ReadLevel(l) \/ Deliver(l) \/ SinkReturns(l)

LogNext ==
    \/ \E s \in Setters : SetSink(s) \/ Setting(s)
    \/ NewRules \/ NewLevel
    \/ \E l \in Loggers : Log(l) \/ Logging(l)

LogSpec == LogInit /\ [][LogNext]_logVars

\* Every thread runs, and a sink returns.
LogFairness ==
    /\ \A s \in Setters : WF_logVars(Setting(s))
    /\ WF_logVars(NewLevel)
    /\ \A l \in Loggers : WF_logVars(Logging(l))

FairLogSpec == LogSpec /\ LogFairness

----------------------------------------------------------------------------
InSink(slot) == {l \in Loggers : logger[l].step = "sink" /\ logger[l].slot = slot}

\* Every variable keeps to its type.
LogTypeOK ==
    /\ sinks \in [Slots -> [context : Contexts \cup {NoContext}, inFlight : Nat]]
    /\ activeSlot \in Slots /\ old \in Slots \cup {NoSlot}
    /\ setting \in Setters \cup {Nobody}
    /\ wanted \in [Setters -> Contexts \cup {NoContext, "nothing"}]
    /\ alive \subseteq Contexts /\ sets \in 0 .. MaxSets
    /\ guard \in Loggers \cup {Nobody, Configurer}
    /\ rules \in 0 .. MaxConfigurations /\ level \in [Categories -> 0 .. MaxConfigurations]
    /\ registered \subseteq Categories /\ listed \in Seq(Categories)
    /\ \A l \in Loggers :
          logger[l].step \in {"idle", "register", "flag", "level", "deliver", "sink"}

\* "Its old context may be released after clogx_set_sink returns" (category_log.h):
\* no thread is inside a sink whose context was freed.
SinkAlive ==
    \A l \in Loggers : logger[l].step = "sink" => logger[l].context \in alive

\* The counters are the calls under way, each of them with its slot's context, and
\* whenever a new sink may be set the slot it goes to is idle: clogx_set_sink only
\* ever waits for the sink it replaces.
SlotsCounted ==
    /\ \A s \in Slots :
          /\ sinks[s].inFlight = Cardinality(InSink(s))
          /\ \A l \in InSink(s) : logger[l].context = sinks[s].context
    /\ old = NoSlot => sinks[1 - activeSlot].inFlight = 0

\* A call obeys every configuration that was complete when it began, and a
\* category is linked once (clogx_register_category, against clogx_enabled without
\* the lock and clogx_configure).
LevelInForce ==
    /\ \A l \in Loggers : logger[l].step = "level" => level[logger[l].category] >= logger[l].since
    /\ \A i, j \in DOMAIN listed : listed[i] = listed[j] => i = j
    /\ guard = Nobody => \A c \in registered : level[c] = rules

\* A call of clogx_set_sink that has its lock returns, however busy the threads that
\* log (the two spin loops in it).
SetReturns == setting # Nobody ~> setting = Nobody
=============================================================================
