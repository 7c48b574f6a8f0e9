----------------------------- MODULE Bootstrap -----------------------------
(***************************************************************************)
(* How WithElasticDefaults calls on builders get their components: the     *)
(* builder state table of SignalBuilder, the pre-activation logger of      *)
(* CompositeLogger.GetOrCreate, the components of a service collection,    *)
(* SharedComponents, CreateComponents, and the disposal of components.     *)
(*                                                                         *)
(* Two locks: SignalBuilder.Lock around the configuration of a builder and *)
(* ElasticOpenTelemetry.Lock around Bootstrap and the removal from         *)
(* SharedComponents. What happens under ElasticOpenTelemetry.Lock between  *)
(* two accesses to state outside it is one step. A call of GetOrCreate,    *)
(* Activate or the timer callback is one step here: their inner            *)
(* interleavings are the subject of CompositeLogger.                       *)
(*                                                                         *)
(* Objects are numbered in the order of their creation; 0 is null. Of an   *)
(* options object only what Equals compares and bootstrap changes is kept: *)
(* what the user configured (key), whether the service name has been       *)
(* filled in from the resource attributes, and the log level.              *)
(***************************************************************************)
EXTENDS Naturals, Sequences

CONSTANTS
  Threads,     \* threads that register EDOT on builders
  Builders,    \* builder objects
  NoBuilder,   \* AutoInstrumentationPlugin bootstraps without a builder
  Services,    \* service collections
  NoServices,  \* the null reference
  ServicesOf,  \* the service collection passed with a builder, or NoServices
  Keys,        \* the configurations users ask for
  DefaultKey,  \* the configuration of CompositeElasticOpenTelemetryOptions.DefaultOptions
  OpAmp,       \* configurations with an OpAMP endpoint
  Named,       \* configurations with a service name of their own
  Attributed,  \* configurations whose service name is in the resource attributes only
  NoSignals,   \* configurations with Signals.None
  NoThread,    \* owner of a free lock
  MaxCalls     \* bound on the number of calls

ASSUME BootstrapAssumption ==
  /\ NoBuilder \notin Builders
  /\ NoServices \notin Services
  /\ NoThread \notin Threads
  /\ ServicesOf \in [Builders -> Services \cup {NoServices}]
  /\ DefaultKey \in Keys
  /\ OpAmp \subseteq Keys /\ Named \subseteq Keys /\ Attributed \subseteq Keys /\ NoSignals \subseteq Keys
  /\ MaxCalls \in Nat

VARIABLES
  objects,       \* the options objects
  loggers,       \* the CompositeLogger instances
  preActivation, \* CompositeLogger.PreActivationInstance
  components,    \* the ElasticOpenTelemetryComponents instances
  shared,        \* SharedComponents
  registered,    \* the components in each service collection, in order
  table,         \* BuilderStateTable: the components of each builder
  configured,    \* how often configureBuilder has been run on each builder
  failed,        \* how often it has thrown
  signalLock,    \* the owner of SignalBuilder.Lock
  bootstrapLock, \* the owner of ElasticOpenTelemetry.Lock
  pc,            \* where each thread is
  call,          \* what each thread is working on
  calls          \* calls made so far

loggerVars  == <<loggers, preActivation>>
sharedVars  == <<components, shared, registered>>
builderVars == <<table, configured, failed>>
locks       == <<signalLock, bootstrapLock>>

vars == <<objects, loggerVars, sharedVars, builderVars, locks, pc, call, calls>>

Fresh(k) == [key |-> k, named |-> FALSE, level |-> "local"]

Idle == [builder |-> NoBuilder, options |-> 0, logger |-> 0, components |-> 0]

TypeOK ==
  /\ objects \in Seq([key : Keys, named : BOOLEAN, level : {"local", "central"}])
  /\ loggers \in Seq([options : 0..Len(objects), mode : {"deferred", "discarded", "active"},
                      closed : BOOLEAN])
  /\ preActivation \in 0..Len(loggers)
  /\ components \in Seq([logger : 1..Len(loggers), options : 1..Len(objects),
                         phase : {"live", "gated", "removed", "disposed"}])
  /\ shared \subseteq 1..Len(components)
  /\ registered \in [Services -> Seq(1..Len(components))]
  /\ table \in [Builders -> 0..Len(components)]
  /\ configured \in [Builders -> Nat]
  /\ failed \in [Builders -> Nat]
  /\ signalLock \in Threads \cup {NoThread}
  /\ bootstrapLock \in Threads \cup {NoThread}
  /\ pc \in [Threads -> {"idle", "log", "try", "lock", "boot", "resolve", "central", "activate",
                         "finish", "configure", "store"}]
  /\ call \in [Threads -> [builder : Builders \cup {NoBuilder}, options : 0..Len(objects),
                           logger : 0..Len(loggers), components : 0..Len(components)]]
  /\ calls \in 0..MaxCalls

Init ==
  /\ objects = <<Fresh(DefaultKey)>>
  /\ loggers = << >>
  /\ preActivation = 0
  /\ components = << >>
  /\ shared = {}
  /\ registered = [s \in Services |-> << >>]
  /\ table = [b \in Builders |-> 0]
  /\ configured = [b \in Builders |-> 0]
  /\ failed = [b \in Builders |-> 0]
  /\ signalLock = NoThread
  /\ bootstrapLock = NoThread
  /\ pc = [t \in Threads |-> "idle"]
  /\ call = [t \in Threads |-> Idle]
  /\ calls = 0

Goto(t, to) == pc' = [pc EXCEPT ![t] = to]

\* The call of t returns, or an exception leaves it.
Return(t) == Goto(t, "idle") /\ call' = [call EXCEPT ![t] = Idle]

-----------------------------------------------------------------------------
(* CompositeLogger.GetOrCreate; o is an options object or null *)

SameOptions(o, p) == o = p \/ objects[o] = objects[p]

\* Still to be activated, and no options on either side or equal ones.
IsCompatible(l, o) ==
  /\ loggers[l].mode # "active"
  /\ o = 0 \/ loggers[l].options = 0 \/ SameOptions(loggers[l].options, o)

\* The constructor: active at once without an OpAMP endpoint, else deferred.
NewLogger(o) ==
  [options |-> o,
   mode    |-> IF o # 0 /\ objects[o].key \notin OpAmp THEN "active" ELSE "deferred",
   closed  |-> FALSE]

UsesExisting(o) == preActivation # 0 /\ IsCompatible(preActivation, o)

LoggerFor(o) == IF UsesExisting(o) THEN preActivation ELSE Len(loggers) + 1

\* The new instance becomes the singleton only if there is none.
GetOrCreate(o) ==
  IF UsesExisting(o)
  THEN /\ loggers' = [loggers EXCEPT ![preActivation].options = IF @ = 0 THEN o ELSE @]
       /\ UNCHANGED preActivation
  ELSE /\ loggers' = Append(loggers, NewLogger(o))
       /\ preActivation' = IF preActivation = 0 THEN Len(loggers) + 1 ELSE preActivation

\* SignalBuilder.GetLogger: the logger of the builder's components, if it has any.
GetLogger(b, o) ==
  IF table[b] # 0 THEN UNCHANGED loggerVars ELSE GetOrCreate(o)

\* ClearPreActivationInstance, or the conditional clearing of Activate.
ClearIf(l) == preActivation' = IF preActivation = l THEN 0 ELSE preActivation

-----------------------------------------------------------------------------
(* WithElasticDefaults *)

\* A user calls an overload on builder b: with options or a configuration of
\* their own (a new object), or without: DefaultOptions, or null.
WithElasticDefaults(t, b) ==
  /\ pc[t] = "idle"
  /\ calls < MaxCalls
  /\ calls' = calls + 1
  /\ \E o \in {0, 1, Len(objects) + 1} :
       /\ IF o <= 1 THEN UNCHANGED objects
          ELSE \E k \in Keys : objects' = Append(objects, Fresh(k))
       /\ call' = [call EXCEPT ![t] = [Idle EXCEPT !.builder = b, !.options = o]]
  /\ Goto(t, "log")
  /\ UNCHANGED <<loggerVars, sharedVars, builderVars, locks>>

\* No signal that this builder is for is enabled; null options enable all.
SignalsOff(t) == call[t].options # 0 /\ objects[call[t].options].key \in NoSignals

\* WithElasticDefaultsCore logs through GetLogger. The one of IOpenTelemetryBuilder
\* gives up here if no signal is enabled, the others leave it to SignalBuilder.
WithElasticDefaultsCore(t) ==
  /\ pc[t] = "log"
  /\ GetLogger(call[t].builder, call[t].options)
  /\ \/ SignalsOff(t) /\ Return(t)
     \/ Goto(t, "try") /\ UNCHANGED call
  /\ UNCHANGED <<objects, sharedVars, builderVars, locks, calls>>

\* SignalBuilder.WithElasticDefaults up to the lock: an unlocked look into the
\* table, GetLogger again, and the test of the signal.
TryGetBuilderState(t) ==
  /\ pc[t] = "try"
  /\ IF table[call[t].builder] # 0
     THEN Return(t) /\ UNCHANGED loggerVars
     ELSE /\ GetOrCreate(call[t].options)
          /\ IF SignalsOff(t) THEN Return(t) ELSE Goto(t, "lock") /\ UNCHANGED call
  /\ UNCHANGED <<objects, sharedVars, builderVars, locks, calls>>

\* Mutant of EnterSignalLock: no second look into the table.
EnterSignalLockUnchecked(t) ==
  /\ pc[t] = "lock"
  /\ signalLock = NoThread
  /\ signalLock' = t
  /\ call' = [call EXCEPT ![t].options = IF @ = 0 THEN 1 ELSE @]
  /\ Goto(t, "boot")
  /\ UNCHANGED <<objects, loggerVars, sharedVars, builderVars, bootstrapLock, calls>>

\* Enter SignalBuilder.Lock and look again; null options become DefaultOptions.
EnterSignalLock(t) ==
  /\ pc[t] = "lock"
  /\ signalLock = NoThread
  /\ IF table[call[t].builder] # 0
     THEN Return(t) /\ UNCHANGED signalLock
     ELSE /\ signalLock' = t
          /\ call' = [call EXCEPT ![t].options = IF @ = 0 THEN 1 ELSE @]
          /\ Goto(t, "boot")
  /\ UNCHANGED <<objects, loggerVars, sharedVars, builderVars, bootstrapLock, calls>>

\* configureBuilder: instrumentation, processors and exporters are added to the
\* builder, then the callback of the user runs; both may throw half-way.
ConfigureBuilder(t) ==
  /\ pc[t] = "configure"
  /\ configured' = [configured EXCEPT ![call[t].builder] = @ + 1]
  /\ \/ /\ Goto(t, "store")
        /\ UNCHANGED <<failed, signalLock, call>>
     \/ /\ failed' = [failed EXCEPT ![call[t].builder] = @ + 1]
        /\ signalLock' = NoThread
        /\ Return(t)
  /\ UNCHANGED <<objects, loggerVars, sharedVars, table, bootstrapLock, calls>>

\* BuilderStateTable.Add, and the end of the locked section.
StoreBuilderState(t) ==
  /\ pc[t] = "store"
  /\ table' = [table EXCEPT ![call[t].builder] = call[t].components]
  /\ signalLock' = NoThread
  /\ Return(t)
  /\ UNCHANGED <<objects, loggerVars, sharedVars, configured, failed, bootstrapLock, calls>>

-----------------------------------------------------------------------------
(* ElasticOpenTelemetry.Bootstrap *)

\* The static constructor of AutoInstrumentationPlugin: Bootstrap with options
\* of its own, no builder and no services.
PluginBootstrap(t) ==
  /\ pc[t] = "idle"
  /\ calls < MaxCalls
  /\ calls' = calls + 1
  /\ objects' = Append(objects, Fresh(DefaultKey))
  /\ call' = [call EXCEPT ![t] = [Idle EXCEPT !.options = Len(objects) + 1]]
  /\ Goto(t, "boot")
  /\ UNCHANGED <<loggerVars, sharedVars, builderVars, locks>>

CallServices(t) == IF call[t].builder = NoBuilder THEN NoServices ELSE ServicesOf[call[t].builder]

\* services?.AddSingleton(components)
Register(s, c) ==
  registered' = IF s = NoServices THEN registered ELSE [registered EXCEPT ![s] = Append(@, c)]

\* Bootstrap is left with components c: the builder is configured next.
LeaveBootstrap(t, c) ==
  IF call[t].builder = NoBuilder
  THEN Return(t)
  ELSE Goto(t, "configure") /\ call' = [call EXCEPT ![t].components = c]

InServices(t) == CallServices(t) # NoServices /\ registered[CallServices(t)] # << >>

Matching(t) == {c \in shared : SameOptions(components[c].options, call[t].options)}

\* Mutant of BootstrapReuse: components found in the services are added again.
BootstrapReuseRegistersAgain(t) ==
  /\ pc[t] = "boot"
  /\ bootstrapLock = NoThread
  /\ \/ /\ InServices(t)
        /\ Register(CallServices(t), Head(registered[CallServices(t)]))
        /\ LeaveBootstrap(t, Head(registered[CallServices(t)]))
     \/ /\ ~InServices(t)
        /\ \E c \in Matching(t) : Register(CallServices(t), c) /\ LeaveBootstrap(t, c)
  /\ preActivation' = 0
  /\ UNCHANGED <<objects, loggers, components, shared, builderVars, locks, calls>>

\* Under the lock: the components of the service collection, or else shared
\* components with equal options, which are added to the services. The
\* pre-activation logger is cleared.
BootstrapReuse(t) ==
  /\ pc[t] = "boot"
  /\ bootstrapLock = NoThread
  /\ \/ /\ InServices(t)
        /\ LeaveBootstrap(t, Head(registered[CallServices(t)]))
        /\ UNCHANGED registered
     \/ /\ ~InServices(t)
        /\ \E c \in Matching(t) : Register(CallServices(t), c) /\ LeaveBootstrap(t, c)
  /\ preActivation' = 0
  /\ UNCHANGED <<objects, loggers, components, shared, builderVars, locks, calls>>

\* Mutant of BootstrapCreate: without ElasticOpenTelemetry.Lock.
BootstrapCreateUnlocked(t) ==
  /\ pc[t] = "boot"
  /\ ~InServices(t)
  /\ Matching(t) = {}
  /\ GetOrCreate(call[t].options)
  /\ call' = [call EXCEPT ![t].logger = LoggerFor(call[t].options)]
  /\ Goto(t, "resolve")
  /\ UNCHANGED <<objects, sharedVars, builderVars, locks, calls>>

\* Enter the lock, find nothing to reuse: CreateComponents, which first gets the
\* logger.
BootstrapCreate(t) ==
  /\ pc[t] = "boot"
  /\ bootstrapLock = NoThread
  /\ ~InServices(t)
  /\ Matching(t) = {}
  /\ bootstrapLock' = t
  /\ GetOrCreate(call[t].options)
  /\ call' = [call EXCEPT ![t].logger = LoggerFor(call[t].options)]
  /\ Goto(t, "resolve")
  /\ UNCHANGED <<objects, sharedVars, builderVars, signalLock, calls>>

\* ResolveOpAmpServiceIdentity changes the options object in place.
ResolveServiceIdentity(t) ==
  LET o == call[t].options IN
  /\ pc[t] = "resolve"
  /\ objects' = [objects EXCEPT ![o].named = @ \/ objects[o].key \in Attributed]
  /\ Goto(t, IF objects[o].key \in OpAmp /\ objects[o].key \in Named \cup Attributed
             THEN "central" ELSE "activate")
  /\ UNCHANGED <<loggerVars, sharedVars, builderVars, locks, call, calls>>

\* The first configuration arrives in time and sets the log level, or not.
FetchCentralConfiguration(t) ==
  /\ pc[t] = "central"
  /\ \E level \in {objects[call[t].options].level, "central"} :
       objects' = [objects EXCEPT ![call[t].options].level = level]
  /\ Goto(t, "activate")
  /\ UNCHANGED <<loggerVars, sharedVars, builderVars, locks, call, calls>>

\* logger.Activate(options)
ActivateLogger(t) ==
  LET l == call[t].logger IN
  /\ pc[t] = "activate"
  /\ loggers' = [loggers EXCEPT ![l].mode = "active"]
  /\ ClearIf(l)
  /\ Goto(t, "finish")
  /\ UNCHANGED <<objects, sharedVars, builderVars, locks, call, calls>>

\* Mutant of AddComponents: what is shared was never created.
AddComponentsNull(t) ==
  LET c == Len(components) + 1 IN
  /\ pc[t] = "finish"
  /\ shared' = shared \cup {c}
  /\ Register(CallServices(t), c)
  /\ bootstrapLock' = NoThread
  /\ LeaveBootstrap(t, c)
  /\ UNCHANGED <<objects, loggerVars, components, builderVars, signalLock, calls>>

\* The components are created, shared and added to the services; unlock.
AddComponents(t) ==
  LET c == Len(components) + 1 IN
  /\ pc[t] = "finish"
  /\ components' = Append(components, [logger |-> call[t].logger, options |-> call[t].options,
                                       phase |-> "live"])
  /\ shared' = shared \cup {c}
  /\ Register(CallServices(t), c)
  /\ bootstrapLock' = NoThread
  /\ LeaveBootstrap(t, c)
  /\ UNCHANGED <<objects, loggerVars, builderVars, signalLock, calls>>

\* Mutant of CreateFails: the exception leaves ElasticOpenTelemetry.Lock held.
CreateFailsLocked(t) ==
  /\ pc[t] \in {"resolve", "central", "activate", "finish"}
  /\ signalLock' = IF signalLock = t THEN NoThread ELSE signalLock
  /\ Return(t)
  /\ UNCHANGED <<objects, loggerVars, sharedVars, builderVars, bootstrapLock, calls>>

\* CreateComponents throws: both locks are released by their scopes.
CreateFails(t) ==
  /\ pc[t] \in {"resolve", "central", "activate", "finish"}
  /\ bootstrapLock' = NoThread
  /\ signalLock' = IF signalLock = t THEN NoThread ELSE signalLock
  /\ Return(t)
  /\ UNCHANGED <<objects, loggerVars, sharedVars, builderVars, calls>>

-----------------------------------------------------------------------------
(* The safety timer of a deferred logger and the disposal of components *)

\* OnSafetyTimerElapsed: activate with the options at hand, or discard.
SafetyTimer(l) ==
  /\ loggers[l].mode = "deferred"
  /\ ~loggers[l].closed
  /\ loggers' = [loggers EXCEPT ![l].mode = IF loggers[l].options # 0 THEN "active" ELSE "discarded"]
  /\ ClearIf(l)
  /\ UNCHANGED <<objects, sharedVars, builderVars, locks, pc, call, calls>>

\* ElasticOpenTelemetryService.StoppedAsync disposes the components it got from
\* its service provider; the gate of Dispose and DisposeAsync lets one call in.
DisposeGate(c) ==
  /\ components[c].phase = "live"
  /\ \E s \in Services : registered[s] # << >> /\ Head(registered[s]) = c
  /\ components' = [components EXCEPT ![c].phase = "gated"]
  /\ UNCHANGED <<objects, loggerVars, shared, registered, builderVars, locks, pc, call, calls>>

\* Mutant of DisposeRemove: the components stay in SharedComponents.
DisposeRemoveNothing(c) ==
  /\ components[c].phase = "gated"
  /\ bootstrapLock = NoThread
  /\ components' = [components EXCEPT ![c].phase = "removed"]
  /\ UNCHANGED <<objects, loggerVars, shared, registered, builderVars, locks, pc, call, calls>>

\* Under ElasticOpenTelemetry.Lock: SharedComponents.Remove(this).
DisposeRemove(c) ==
  /\ components[c].phase = "gated"
  /\ bootstrapLock = NoThread
  /\ shared' = shared \ {c}
  /\ components' = [components EXCEPT ![c].phase = "removed"]
  /\ UNCHANGED <<objects, loggerVars, registered, builderVars, locks, pc, call, calls>>

\* The central configuration, the logger and the event listener are disposed.
DisposeParts(c) ==
  /\ components[c].phase = "removed"
  /\ loggers' = [loggers EXCEPT ![components[c].logger].closed = TRUE]
  /\ components' = [components EXCEPT ![c].phase = "disposed"]
  /\ UNCHANGED <<objects, preActivation, shared, registered, builderVars, locks, pc, call, calls>>

Dispose(c) == DisposeGate(c) \/ DisposeRemove(c) \/ DisposeParts(c)

-----------------------------------------------------------------------------

\* Steps of a thread inside a call.
Step(t) ==
  \/ WithElasticDefaultsCore(t) \/ TryGetBuilderState(t) \/ EnterSignalLock(t)
  \/ BootstrapReuse(t) \/ BootstrapCreate(t) \/ ResolveServiceIdentity(t)
  \/ FetchCentralConfiguration(t) \/ ActivateLogger(t) \/ AddComponents(t) \/ CreateFails(t)
  \/ ConfigureBuilder(t) \/ StoreBuilderState(t)

Next ==
  \/ \E t \in Threads, b \in Builders : WithElasticDefaults(t, b)
  \/ \E t \in Threads : PluginBootstrap(t) \/ Step(t)
  \/ \E l \in 1..Len(loggers) : SafetyTimer(l)
  \/ \E c \in 1..Len(components) : Dispose(c)

Spec == Init /\ [][Next]_vars

-----------------------------------------------------------------------------
(* Properties. *)

\* A builder is configured once, however many threads call WithElasticDefaults
\* on it: only a run of configureBuilder that threw is repeated.
ConfiguredOnce == \A b \in Builders : configured[b] <= failed[b] + 1

\* A service collection has one set of components, and every builder configured
\* with that collection uses it.
OneComponentsPerServices ==
  /\ \A s \in Services : Len(registered[s]) <= 1
  /\ \A b \in Builders :
       (table[b] # 0 /\ ServicesOf[b] # NoServices) => registered[ServicesOf[b]] = <<table[b]>>

\* No two sets of components own the same logger: disposing one would close the
\* log file of the other.
LoggersNotShared ==
  \A c, d \in 1..Len(components) : components[c].logger = components[d].logger => c = d

\* Components that Bootstrap can find in SharedComponents have an open logger:
\* disposal takes them off the set before it closes anything.
SharedComponentsUsable == \A c \in shared : ~loggers[components[c].logger].closed

\* The lock a thread waits for is taken.
Blocked(t) ==
  \/ pc[t] = "lock" /\ signalLock # NoThread
  \/ pc[t] = "boot" /\ bootstrapLock # NoThread

\* Registrations do not block each other for good: while calls are under way one
\* of them can go on, also when another one waits out the central configuration
\* under both locks or has failed there.
RegistrationsProceed ==
  (\E t \in Threads : pc[t] # "idle") => \E t \in Threads : pc[t] # "idle" /\ ~Blocked(t)

\* The comment in GetOrCreate: an isolated instance is for a concurrent flow with
\* other options. Here: equal options never lead to a second live logger.
OneLoggerPerOptions ==
  \A l, m \in 1..Len(loggers) :
    (loggers[l].options # 0 /\ loggers[l].options = loggers[m].options) => l = m

\* The comment in the test of shared components: the same user options find the
\* components that are there. Here: live components are for different requests.
SharedComponentsFound ==
  \A c, d \in shared : objects[components[c].options].key = objects[components[d].options].key => c = d

=============================================================================
