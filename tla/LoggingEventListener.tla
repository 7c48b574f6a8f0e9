------------------------ MODULE LoggingEventListener ------------------------
(***************************************************************************)
(* LoggingEventListener copies the events of the OpenTelemetry SDK's event *)
(* sources into the log. The runtime calls it back before the body of its  *)
(* constructor has run, from any thread that creates an event source, and  *)
(* until it is disposed of.                                                *)
(*                                                                         *)
(* Two locks: the runtime's EventListenersLock, held around the creation   *)
(* of event sources with their callbacks and taken by EnableEvents and by  *)
(* the base classes' constructor and Dispose, and _lock of this class.     *)
(* The second is explicit where a thread in its section could be made to   *)
(* wait for the first; its other sections are single steps. A source is    *)
(* created by a thread of the same name.                                   *)
(***************************************************************************)
EXTENDS Integers

CONSTANTS
  Sources,  \* event sources
  Foreign,  \* those whose names do not begin with "OpenTelemetry-"
  UserLevels, \* levels an additional ILogger of the user may have
  NoLogger, \* no additional ILogger
  NoThread  \* owner of a free lock

LogLevels == {"Trace", "Debug", "Information", "Warning", "Error", "Critical", "None"}

ASSUME SourcesAssumption ==
  /\ Foreign \subseteq Sources
  /\ {"ctor", "disposer", NoThread} \cap Sources = {}
  /\ NoThread \notin {"ctor", "disposer"}
  /\ UserLevels \subseteq LogLevels /\ NoLogger \notin LogLevels

Threads == Sources \cup {"ctor", "disposer"}

\* EventLevel: LogAlways, Critical, Error, Warning, Informational, Verbose
EventLevels == 0..5
Off == -1

VARIABLES
  logLevel,    \* options.LogLevel
  writes,      \* is there a console or file logger that is switched on?
  deferred,    \* CompositeLogger: _deferredQueue is not null
  additional,  \* CompositeLogger: the level of _additionalLogger, or NoLogger
  existing,    \* the event sources the runtime knows
  listening,   \* is this listener in the runtime's list?
  enabled,     \* the level at which it has enabled each source, or Off
  runtimeLock, \* the owner of EventListenersLock
  lock,        \* the owner of _lock
  before,      \* _eventSourcesBeforeConstructor, as long as it is there
  beforeNull,  \* _eventSourcesBeforeConstructor is null
  subscribed,  \* how often each source is in _subscribedEventSources
  loggerSet,   \* _logger is not null
  eventLevel,  \* _eventLevel
  pc,          \* where each thread is
  todo,        \* the sources the constructor has taken over and not yet handled
  logged       \* the sources of which events have been passed on to the logger

loggerVars  == <<logLevel, writes, deferred, additional>>
runtimeVars == <<existing, listening, enabled, runtimeLock>>
fieldVars   == <<before, beforeNull, subscribed, loggerSet, eventLevel>>

vars == <<loggerVars, runtimeVars, lock, fieldVars, pc, todo, logged>>

\* Some sources are there before the listener; _eventLevel starts as Informational.
\* CreateComponents has called Activate on the logger, which returns at once when
\* the safety timer is activating it: the queue may be there for a while.
Init ==
  /\ logLevel \in LogLevels
  /\ writes \in BOOLEAN
  /\ deferred \in BOOLEAN
  /\ additional \in IF deferred THEN {NoLogger} ELSE UserLevels \cup {NoLogger}
  /\ existing \in SUBSET Sources
  /\ listening = FALSE
  /\ enabled = [s \in Sources |-> Off]
  /\ runtimeLock = NoThread
  /\ lock = NoThread
  /\ before = {}
  /\ beforeNull = FALSE
  /\ subscribed = [s \in Sources |-> 0]
  /\ loggerSet = FALSE
  /\ eventLevel = 4
  /\ pc = [t \in Threads |-> IF t \in existing THEN "done" ELSE "start"]
  /\ todo = {}
  /\ logged = {}

Goto(t, to) == pc' = [pc EXCEPT ![t] = to]

\* Name.StartsWith(OpenTelemetryEventSourceNamePrefix)
HasPrefix(s) == s \notin Foreign

LogLevelToEventLevel(l) ==
  CASE l \in {"Trace", "Debug"} -> 0
    [] l = "Warning"  -> 3
    [] l = "Error"    -> 2
    [] l = "Critical" -> 1
    [] OTHER -> 4

\* GetLogLevel of OnEventWritten.
GetLogLevel(e) == <<"Information", "Critical", "Error", "Warning", "Information", "Debug">>[e + 1]

Severity(l) ==
  CASE l = "Trace" -> 0 [] l = "Debug" -> 1 [] l = "Information" -> 2 [] l = "Warning" -> 3
    [] l = "Error" -> 4 [] l = "Critical" -> 5 [] OTHER -> 6

\* Is l at or above level, for a logger of that level?
AtLeast(l, level) == level # "None" /\ Severity(l) >= Severity(level)

\* CompositeLogger.IsEnabled: everything while entries are deferred; then what the
\* console or the file logger takes, at the level of the options, or the
\* additional logger, at a level of its own.
IsEnabled(l) ==
  \/ deferred
  \/ writes /\ AtLeast(l, logLevel)
  \/ additional # NoLogger /\ AtLeast(l, additional)

\* The runtime hands over an event at or below the level of EnableEvents; level 0
\* on either side stands for no filtering.
Dispatches(level, e) == level # Off /\ (level = 0 \/ e <= level)

-----------------------------------------------------------------------------
(* Subscribing to a source, by its creator or by the constructor *)

\* The source thread t is subscribing to: its own, or the next one taken over.
SourceOf(t) == IF t = "ctor" THEN CHOOSE s \in todo : TRUE ELSE t

EnterAdd(t) ==
  /\ pc[t] = "enter"
  /\ lock = NoThread
  /\ lock' = t
  /\ Goto(t, "adding")
  /\ UNCHANGED <<loggerVars, runtimeVars, fieldVars, todo, logged>>

\* Mutant of LeaveAdd: EnableEvents is called inside the locked section.
LeaveAddEnabled(t) ==
  /\ pc[t] = "adding"
  /\ runtimeLock \in {NoThread, t}
  /\ subscribed' = [subscribed EXCEPT ![SourceOf(t)] = @ + 1]
  /\ enabled' = [enabled EXCEPT ![SourceOf(t)] = eventLevel]
  /\ lock' = NoThread
  /\ Goto(t, "log")
  /\ UNCHANGED <<loggerVars, existing, listening, runtimeLock, before, beforeNull, loggerSet,
                 eventLevel, todo, logged>>

\* _subscribedEventSources.Add, and the end of the locked section.
LeaveAdd(t) ==
  /\ pc[t] = "adding"
  /\ subscribed' = [subscribed EXCEPT ![SourceOf(t)] = @ + 1]
  /\ lock' = NoThread
  /\ Goto(t, "enable")
  /\ UNCHANGED <<loggerVars, runtimeVars, before, beforeNull, loggerSet, eventLevel, todo, logged>>

\* EnableEvents needs EventListenersLock, which a creator holds already.
EnableSource(t) ==
  /\ pc[t] = "enable"
  /\ runtimeLock \in {NoThread, t}
  /\ enabled' = [enabled EXCEPT ![SourceOf(t)] = eventLevel]
  /\ Goto(t, "log")
  /\ UNCHANGED <<loggerVars, existing, listening, runtimeLock, lock, fieldVars, todo, logged>>

\* LogDebug; the constructor goes on to the next source, the callback ends.
LogSubscribed(t) ==
  /\ pc[t] = "log"
  /\ IF ~loggerSet THEN Goto(t, "threw") /\ UNCHANGED <<runtimeLock, todo>>
     ELSE IF t = "ctor"
     THEN Goto(t, "next") /\ todo' = todo \ {SourceOf(t)} /\ UNCHANGED runtimeLock
     ELSE Goto(t, "done") /\ runtimeLock' = NoThread /\ UNCHANGED todo
  /\ UNCHANGED <<loggerVars, existing, listening, enabled, lock, fieldVars, logged>>

Subscribe(t) == EnterAdd(t) \/ LeaveAdd(t) \/ EnableSource(t) \/ LogSubscribed(t)

-----------------------------------------------------------------------------
(* The constructor *)

\* The base constructor, under EventListenersLock: the listener joins the list and
\* OnEventSourceCreated is called for every source there is. It finds the list
\* of this class and puts the sources of OpenTelemetry into it.
ConstructBase ==
  /\ pc["ctor"] = "start"
  /\ runtimeLock = NoThread
  /\ listening' = TRUE
  /\ before' = {s \in existing : HasPrefix(s)}
  /\ Goto("ctor", "fields")
  /\ UNCHANGED <<loggerVars, existing, enabled, runtimeLock, lock, beforeNull, subscribed, loggerSet,
                 eventLevel, todo, logged>>

\* Mutant of SetFields: the list is given up before the level is assigned.
SetFieldsLate ==
  /\ pc["ctor"] = "fields"
  /\ loggerSet' = TRUE
  /\ beforeNull' = TRUE
  /\ IF beforeNull
     THEN eventLevel' = LogLevelToEventLevel(logLevel) /\ Goto("ctor", "next") /\ UNCHANGED todo
     ELSE todo' = before /\ UNCHANGED <<eventLevel, pc>>
  /\ UNCHANGED <<loggerVars, runtimeVars, lock, before, subscribed, logged>>

\* _logger and _eventLevel
SetFields ==
  /\ pc["ctor"] = "fields"
  /\ loggerSet' = TRUE
  /\ eventLevel' = LogLevelToEventLevel(logLevel)
  /\ Goto("ctor", "take")
  /\ UNCHANGED <<loggerVars, runtimeVars, lock, before, beforeNull, subscribed, todo, logged>>

\* Under _lock: take the list over.
TakeSources ==
  /\ pc["ctor"] = "take"
  /\ lock = NoThread
  /\ todo' = before
  /\ beforeNull' = TRUE
  /\ Goto("ctor", "next")
  /\ UNCHANGED <<loggerVars, runtimeVars, lock, before, subscribed, loggerSet, eventLevel, logged>>

\* The loop over the sources taken over.
NextSource ==
  /\ pc["ctor"] = "next"
  /\ Goto("ctor", IF todo = {} THEN "done" ELSE "enter")
  /\ UNCHANGED <<loggerVars, runtimeVars, lock, fieldVars, todo, logged>>

Constructor == ConstructBase \/ SetFields \/ TakeSources \/ NextSource \/ Subscribe("ctor")

-----------------------------------------------------------------------------
(* Callbacks *)

\* A thread creates source s: under EventListenersLock the runtime adds it and
\* calls OnEventSourceCreated, which looks at the name.
CreateSource(s) ==
  /\ pc[s] = "start"
  /\ runtimeLock = NoThread
  /\ existing' = existing \cup {s}
  /\ IF listening /\ HasPrefix(s)
     THEN runtimeLock' = s /\ Goto(s, "check")
     ELSE UNCHANGED runtimeLock /\ Goto(s, "done")
  /\ UNCHANGED <<loggerVars, listening, enabled, lock, fieldVars, todo, logged>>

\* The look at _eventSourcesBeforeConstructor without the lock.
CheckBefore(s) ==
  /\ pc[s] = "check"
  /\ Goto(s, IF beforeNull THEN "enter" ELSE "recheck")
  /\ UNCHANGED <<loggerVars, runtimeVars, lock, fieldVars, todo, logged>>

\* Under _lock: leave the source to the constructor, if that is still to come.
AddBefore(s) ==
  /\ pc[s] = "recheck"
  /\ lock = NoThread
  /\ IF beforeNull
     THEN Goto(s, "enter") /\ UNCHANGED <<before, runtimeLock>>
     ELSE before' = before \cup {s} /\ Goto(s, "done") /\ runtimeLock' = NoThread
  /\ UNCHANGED <<loggerVars, existing, listening, enabled, lock, beforeNull, subscribed, loggerSet,
                 eventLevel, todo, logged>>

OnEventSourceCreated(s) == CheckBefore(s) \/ AddBefore(s) \/ Subscribe(s)

\* The runtime delivers an event of level e if the source is enabled for it; event
\* counters of any source go to every listener.
Delivered(s, e) == Dispatches(enabled[s], e) \/ (s \in Foreign /\ listening)

\* An event of a source whose creation is over; those of others are ignored.
OnEventWritten(s, e) ==
  /\ s \in existing
  /\ pc[s] = "done"
  /\ Delivered(s, e)
  /\ HasPrefix(s)
  /\ IF loggerSet
     THEN /\ logged' = IF IsEnabled(GetLogLevel(e)) THEN logged \cup {s} ELSE logged
          /\ UNCHANGED pc
     ELSE Goto(s, "threw") /\ UNCHANGED logged
  /\ UNCHANGED <<loggerVars, runtimeVars, lock, fieldVars, todo>>

-----------------------------------------------------------------------------
(* The logger, meanwhile, and the end *)

\* The thread that activates the logger creates its loggers, with the
\* AdditionalLogger of the options if there is one, and sets the queue to null.
EndDeferral ==
  /\ deferred
  /\ deferred' = FALSE
  /\ additional' \in UserLevels \cup {NoLogger}
  /\ UNCHANGED <<logLevel, writes, runtimeVars, lock, fieldVars, pc, todo, logged>>

\* The hosted service hands over the host's ILogger, once there are components;
\* it is ignored when there is one already.
SetAdditionalLogger ==
  /\ pc["ctor"] = "done"
  /\ additional = NoLogger
  /\ additional' \in UserLevels
  /\ UNCHANGED <<logLevel, writes, deferred, runtimeVars, lock, fieldVars, pc, todo, logged>>

\* The components dispose of the logger, which lets go of the additional one, ...
DisposeLogger ==
  /\ pc["disposer"] = "start"
  /\ pc["ctor"] = "done"
  /\ additional' = NoLogger
  /\ Goto("disposer", "listener")
  /\ UNCHANGED <<logLevel, writes, deferred, runtimeVars, lock, fieldVars, todo, logged>>

\* ... and then of the listener: base.Dispose, under EventListenersLock.
Dispose ==
  /\ pc["disposer"] = "listener"
  /\ runtimeLock = NoThread
  /\ listening' = FALSE
  /\ enabled' = [s \in Sources |-> Off]
  /\ Goto("disposer", "done")
  /\ UNCHANGED <<loggerVars, existing, runtimeLock, lock, fieldVars, todo, logged>>

-----------------------------------------------------------------------------

Next ==
  \/ Constructor
  \/ \E s \in Sources : CreateSource(s) \/ OnEventSourceCreated(s)
  \/ \E s \in Sources, e \in EventLevels : OnEventWritten(s, e)
  \/ EndDeferral
  \/ SetAdditionalLogger
  \/ DisposeLogger
  \/ Dispose

Spec == Init /\ [][Next]_vars

\* Threads inside the constructor and inside a callback keep running, and get a
\* lock that stays free.
FairSpec ==
  /\ Spec
  /\ WF_vars(Constructor)
  /\ \A s \in Sources : WF_vars(OnEventSourceCreated(s))

-----------------------------------------------------------------------------
(* Properties. *)

\* No callback meets a half-constructed listener: nobody logs through a null
\* _logger, a source is enabled only with its single entry in the list, and at a
\* level that lets through every event at or above the level of the options, so
\* that the console and the file logger miss nothing. An additional ILogger with
\* a level below that of the options takes more than the runtime hands over.
SubscribedAtLevel ==
  /\ \A t \in Threads : pc[t] # "threw"
  /\ \A s \in Sources : subscribed[s] <= 1
  /\ \A s \in Sources : enabled[s] # Off =>
       /\ subscribed[s] = 1
       /\ \A e \in EventLevels : AtLeast(GetLogLevel(e), logLevel) => Dispatches(enabled[s], e)

\* Every source of OpenTelemetry is subscribed to, whether it was created before,
\* during or after the construction, and the threads that construct the listener
\* and create sources do not wait for each other's locks for ever.
SourcesSubscribed ==
  /\ <>(pc["ctor"] = "done")
  /\ \A s \in Sources \ Foreign : s \in existing ~> (enabled[s] # Off \/ pc["disposer"] = "done")

=============================================================================
