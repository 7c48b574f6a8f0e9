--------------------- MODULE LoggingEventListenerProofs ---------------------
(***************************************************************************)
(* Proof of SubscribedAtLevel for any set of event sources.                *)
(***************************************************************************)
EXTENDS LoggingEventListener, TLAPS

\* Where a thread is while it subscribes to a source.
Subscribing == {"enter", "adding", "enable", "log"}

TypeInv ==
  /\ logLevel \in LogLevels
  /\ existing \subseteq Sources
  /\ listening \in BOOLEAN /\ beforeNull \in BOOLEAN /\ loggerSet \in BOOLEAN
  /\ enabled \in [Sources -> EventLevels \cup {Off}]
  /\ before \subseteq Sources
  /\ subscribed \in [Sources -> Nat]
  /\ eventLevel \in EventLevels
  /\ pc \in [Threads -> {"start", "fields", "take", "next", "check", "recheck", "listener",
                     "done", "threw"} \cup Subscribing]
  /\ todo \subseteq before

\* The constructor: nobody is called back before it has begun, and the list is
\* given up only after the fields are set.
ConstructionInv ==
  /\ pc["ctor"] \in {"start", "fields", "take", "next", "done"} \cup Subscribing
  /\ pc["ctor"] = "start" => /\ ~listening /\ before = {}
                             /\ \A s \in Sources : pc[s] \in {"start", "done"}
  /\ beforeNull => pc["ctor"] \in {"next", "done"} \cup Subscribing
  /\ ~beforeNull => pc["ctor"] \in {"start", "fields", "take"} /\ todo = {}
  /\ pc["ctor"] \notin {"start", "fields"} =>
       loggerSet /\ eventLevel = LogLevelToEventLevel(logLevel)
  /\ pc["ctor"] \in Subscribing => todo # {}

\* The creator of a source: the source is new to the runtime when it starts, and
\* it subscribes itself only if it has not left the source to the constructor.
CreatorInv ==
  /\ pc["disposer"] \in {"start", "listener", "done"}
  /\ \A s \in Sources : pc[s] \in {"start", "check", "recheck", "done"} \cup Subscribing
  /\ \A s \in existing : pc[s] # "start"
  /\ \A s \in before : pc[s] = "done"
  /\ \A s \in Sources : pc[s] \in Subscribing => beforeNull

\* Every source is in _subscribedEventSources at most once, and is there from the
\* moment its subscriber has left the locked section.
CountInv ==
  /\ \A s \in Sources : subscribed[s] <= 1
  /\ \A s \in Sources : pc[s] \in {"start", "check", "recheck", "enter", "adding"} => subscribed[s] = 0
  /\ \A s \in Sources : pc[s] \in {"enable", "log"} => subscribed[s] = 1
  /\ pc["ctor"] = "start" => \A s \in Sources : subscribed[s] = 0
  /\ ~beforeNull => \A s \in before : subscribed[s] = 0
  /\ \A s \in todo :
       subscribed[s] = IF s = SourceOf("ctor") /\ pc["ctor"] \in {"enable", "log"} THEN 1 ELSE 0

\* A source is enabled after it has been added, with the level of the options.
EnabledInv ==
  \A s \in Sources : enabled[s] # Off =>
    /\ subscribed[s] = 1
    /\ loggerSet
    /\ enabled[s] = LogLevelToEventLevel(logLevel)

\* The inductive invariant.
IInv == TypeInv /\ ConstructionInv /\ CreatorInv /\ CountInv /\ EnabledInv

-----------------------------------------------------------------------------

\* The level of EnableEvents lets through whatever is at or above the level of the
\* options.
LEMMA LevelSuffices ==
  ASSUME logLevel \in LogLevels, NEW e \in EventLevels, AtLeast(GetLogLevel(e), logLevel)
  PROVE  Dispatches(LogLevelToEventLevel(logLevel), e)
<1>1. GetLogLevel(e) = CASE e = 0 -> "Information" [] e = 1 -> "Critical" [] e = 2 -> "Error"
                         [] e = 3 -> "Warning" [] e = 4 -> "Information" [] e = 5 -> "Debug"
  <2>1. e = 0 \/ e = 1 \/ e = 2 \/ e = 3 \/ e = 4 \/ e = 5
    BY DEF EventLevels
  <2>. QED
    BY <2>1 DEF GetLogLevel
<1>2. CASE logLevel \in {"Trace", "Debug"}
  BY <1>2 DEF LogLevelToEventLevel, Dispatches, Off
<1>3. CASE logLevel = "Information"
  BY <1>1, <1>3 DEF LogLevelToEventLevel, Dispatches, Off, EventLevels, AtLeast, Severity
<1>4. CASE logLevel = "Warning"
  BY <1>1, <1>4 DEF LogLevelToEventLevel, Dispatches, Off, EventLevels, AtLeast, Severity
<1>5. CASE logLevel = "Error"
  BY <1>1, <1>5 DEF LogLevelToEventLevel, Dispatches, Off, EventLevels, AtLeast, Severity
<1>6. CASE logLevel = "Critical"
  BY <1>1, <1>6 DEF LogLevelToEventLevel, Dispatches, Off, EventLevels, AtLeast, Severity
<1>7. CASE logLevel = "None"
  BY <1>7 DEF AtLeast
<1>. QED
  BY <1>2, <1>3, <1>4, <1>5, <1>6, <1>7 DEF LogLevels

LEMMA EventLevelType == LogLevelToEventLevel(logLevel) \in EventLevels
  BY DEF LogLevelToEventLevel, EventLevels

LEMMA InitIInv == Init => IInv
<1> SUFFICES ASSUME Init PROVE IInv
  OBVIOUS
<1> USE SourcesAssumption DEF Init, Threads, Subscribing
<1>1. TypeInv
  <2>1. listening \in BOOLEAN /\ beforeNull \in BOOLEAN /\ loggerSet \in BOOLEAN
    BY Zenon
  <2>. QED
    BY <2>1 DEF TypeInv, EventLevels
<1>2. ConstructionInv
  BY DEF ConstructionInv
<1>3. CreatorInv
  BY DEF CreatorInv
<1>4. CountInv /\ EnabledInv
  BY DEF CountInv, EnabledInv
<1>. QED
  BY <1>1, <1>2, <1>3, <1>4 DEF IInv

\* A thread that subscribes to a source.
LEMMA SubscribeIInv ==
  ASSUME NEW t \in Sources \cup {"ctor"}, IInv, Subscribe(t)
  PROVE  IInv'
<1> USE SourcesAssumption DEF IInv, Threads, Subscribing, Goto, loggerVars, runtimeVars, fieldVars
<1>1. CASE EnterAdd(t)
  <2>1. TypeInv'
    BY <1>1 DEF EnterAdd, TypeInv
  <2>2. ConstructionInv'
    BY <1>1 DEF EnterAdd, ConstructionInv, TypeInv
  <2>3. CreatorInv'
    BY <1>1 DEF EnterAdd, CreatorInv, TypeInv
  <2>4. CountInv'
    BY <1>1 DEF EnterAdd, CountInv, TypeInv, SourceOf
  <2>5. EnabledInv'
    BY <1>1 DEF EnterAdd, EnabledInv
  <2>. QED
    BY <2>1, <2>2, <2>3, <2>4, <2>5
<1>2. CASE LeaveAdd(t)
  <2>1. TypeInv'
    <3>1. SourceOf(t) \in Sources
      BY <1>2 DEF LeaveAdd, SourceOf, ConstructionInv, TypeInv
    <3>. QED
      BY <1>2, <3>1 DEF LeaveAdd, TypeInv
  <2>2. ConstructionInv'
    BY <1>2 DEF LeaveAdd, ConstructionInv, TypeInv
  <2>3. CreatorInv'
    BY <1>2 DEF LeaveAdd, CreatorInv, TypeInv
  <2>4. CountInv'
    BY <1>2 DEF LeaveAdd, CountInv, TypeInv, SourceOf, CreatorInv, ConstructionInv
  <2>5. EnabledInv'
    BY <1>2 DEF LeaveAdd, EnabledInv, CountInv, ConstructionInv, TypeInv, SourceOf
  <2>. QED
    BY <2>1, <2>2, <2>3, <2>4, <2>5
<1>3. CASE EnableSource(t)
  <2>1. TypeInv'
    BY <1>3 DEF EnableSource, TypeInv
  <2>2. ConstructionInv'
    BY <1>3 DEF EnableSource, ConstructionInv, TypeInv
  <2>3. CreatorInv'
    BY <1>3 DEF EnableSource, CreatorInv, TypeInv
  <2>4. CountInv'
    BY <1>3 DEF EnableSource, CountInv, TypeInv, SourceOf
  <2>5. EnabledInv'
    BY <1>3 DEF EnableSource, EnabledInv, CountInv, ConstructionInv, CreatorInv, TypeInv, SourceOf
  <2>. QED
    BY <2>1, <2>2, <2>3, <2>4, <2>5
<1>4. CASE LogSubscribed(t)
  <2>1. loggerSet
    BY <1>4 DEF LogSubscribed, ConstructionInv, CreatorInv
  <2>2. TypeInv'
    BY <1>4, <2>1 DEF LogSubscribed, TypeInv
  <2>3. ConstructionInv'
    BY <1>4, <2>1 DEF LogSubscribed, ConstructionInv, TypeInv
  <2>4. CreatorInv'
    BY <1>4, <2>1 DEF LogSubscribed, CreatorInv, TypeInv
  <2>5. CountInv'
    BY <1>4, <2>1 DEF LogSubscribed, CountInv, TypeInv, SourceOf, ConstructionInv
  <2>6. EnabledInv'
    BY <1>4 DEF LogSubscribed, EnabledInv
  <2>. QED
    BY <2>2, <2>3, <2>4, <2>5, <2>6
<1>. QED
  BY <1>1, <1>2, <1>3, <1>4 DEF Subscribe

\* The constructor.
LEMMA ConstructorIInv == ASSUME IInv, Constructor PROVE IInv'
<1> USE SourcesAssumption DEF IInv, Threads, Subscribing, Goto, loggerVars, runtimeVars, fieldVars
<1>1. CASE ConstructBase
  <2>1. TypeInv'
    BY <1>1 DEF ConstructBase, TypeInv, ConstructionInv
  <2>2. ConstructionInv'
    BY <1>1 DEF ConstructBase, ConstructionInv, TypeInv
  <2>3. CreatorInv'
    BY <1>1 DEF ConstructBase, CreatorInv, ConstructionInv, TypeInv
  <2>4. CountInv'
    BY <1>1 DEF ConstructBase, CountInv, TypeInv, SourceOf, ConstructionInv
  <2>5. EnabledInv'
    BY <1>1 DEF ConstructBase, EnabledInv
  <2>. QED
    BY <2>1, <2>2, <2>3, <2>4, <2>5
<1>2. CASE SetFields
  <2>1. TypeInv'
    BY <1>2, EventLevelType DEF SetFields, TypeInv
  <2>2. ConstructionInv'
    BY <1>2 DEF SetFields, ConstructionInv, TypeInv
  <2>3. CreatorInv'
    BY <1>2 DEF SetFields, CreatorInv, TypeInv
  <2>4. CountInv'
    BY <1>2 DEF SetFields, CountInv, TypeInv, SourceOf
  <2>5. EnabledInv'
    BY <1>2 DEF SetFields, EnabledInv
  <2>. QED
    BY <2>1, <2>2, <2>3, <2>4, <2>5
<1>3. CASE TakeSources
  <2>1. TypeInv'
    BY <1>3 DEF TakeSources, TypeInv
  <2>2. ConstructionInv'
    BY <1>3 DEF TakeSources, ConstructionInv, TypeInv
  <2>3. CreatorInv'
    BY <1>3 DEF TakeSources, CreatorInv, TypeInv
  <2>4. CountInv'
    BY <1>3 DEF TakeSources, CountInv, TypeInv, SourceOf, ConstructionInv
  <2>5. EnabledInv'
    BY <1>3 DEF TakeSources, EnabledInv
  <2>. QED
    BY <2>1, <2>2, <2>3, <2>4, <2>5
<1>4. CASE NextSource
  <2>1. TypeInv'
    BY <1>4 DEF NextSource, TypeInv
  <2>2. ConstructionInv'
    BY <1>4 DEF NextSource, ConstructionInv, TypeInv
  <2>3. CreatorInv'
    BY <1>4 DEF NextSource, CreatorInv, TypeInv
  <2>4. CountInv'
    BY <1>4 DEF NextSource, CountInv, TypeInv, SourceOf
  <2>5. EnabledInv'
    BY <1>4 DEF NextSource, EnabledInv
  <2>. QED
    BY <2>1, <2>2, <2>3, <2>4, <2>5
<1>5. CASE Subscribe("ctor")
  BY <1>5, SubscribeIInv
<1>. QED
  BY <1>1, <1>2, <1>3, <1>4, <1>5 DEF Constructor

\* The callbacks of a source, and its creation.
LEMMA SourceIInv ==
  ASSUME NEW s \in Sources, IInv, CreateSource(s) \/ OnEventSourceCreated(s)
  PROVE  IInv'
<1> USE SourcesAssumption DEF IInv, Threads, Subscribing, Goto, loggerVars, runtimeVars, fieldVars
<1>1. CASE CreateSource(s)
  <2>1. TypeInv'
    BY <1>1 DEF CreateSource, TypeInv
  <2>2. ConstructionInv'
    BY <1>1 DEF CreateSource, ConstructionInv, TypeInv
  <2>3. CreatorInv'
    BY <1>1 DEF CreateSource, CreatorInv, TypeInv
  <2>4. CountInv'
    BY <1>1 DEF CreateSource, CountInv, TypeInv, SourceOf
  <2>5. EnabledInv'
    BY <1>1 DEF CreateSource, EnabledInv
  <2>. QED
    BY <2>1, <2>2, <2>3, <2>4, <2>5
<1>2. CASE CheckBefore(s)
  <2>1. TypeInv'
    BY <1>2 DEF CheckBefore, TypeInv
  <2>2. ConstructionInv'
    BY <1>2 DEF CheckBefore, ConstructionInv, TypeInv
  <2>3. CreatorInv'
    BY <1>2 DEF CheckBefore, CreatorInv, TypeInv
  <2>4. CountInv'
    BY <1>2 DEF CheckBefore, CountInv, TypeInv, SourceOf
  <2>5. EnabledInv'
    BY <1>2 DEF CheckBefore, EnabledInv
  <2>. QED
    BY <2>1, <2>2, <2>3, <2>4, <2>5
<1>3. CASE AddBefore(s)
  <2>1. TypeInv'
    BY <1>3 DEF AddBefore, TypeInv, ConstructionInv
  <2>2. ConstructionInv'
    BY <1>3 DEF AddBefore, ConstructionInv, TypeInv
  <2>3. CreatorInv'
    BY <1>3 DEF AddBefore, CreatorInv, TypeInv
  <2>4. CountInv'
    BY <1>3 DEF AddBefore, CountInv, TypeInv, SourceOf, ConstructionInv
  <2>5. EnabledInv'
    BY <1>3 DEF AddBefore, EnabledInv
  <2>. QED
    BY <2>1, <2>2, <2>3, <2>4, <2>5
<1>4. CASE Subscribe(s)
  BY <1>4, SubscribeIInv
<1>. QED
  BY <1>1, <1>2, <1>3, <1>4 DEF OnEventSourceCreated

\* An event: its source is enabled, so that the logger is there.
LEMMA OnEventWrittenIInv ==
  ASSUME NEW s \in Sources, NEW e \in EventLevels, IInv, OnEventWritten(s, e)
  PROVE  IInv'
<1>1. enabled[s] # Off
  BY DEF OnEventWritten, Delivered, Dispatches, HasPrefix
<1>2. loggerSet
  BY <1>1 DEF IInv, EnabledInv
<1>3. UNCHANGED <<logLevel, runtimeVars, fieldVars, pc, todo>>
  BY <1>2 DEF OnEventWritten, loggerVars
<1>. QED
  BY <1>3 DEF IInv, runtimeVars, fieldVars, TypeInv, ConstructionInv, CreatorInv, CountInv, EnabledInv, SourceOf

LEMMA DisposeIInv == ASSUME IInv, Dispose PROVE IInv'
<1> USE SourcesAssumption DEF IInv, Threads, Subscribing, Goto, loggerVars, fieldVars
<1>1. TypeInv'
  BY DEF Dispose, TypeInv
<1>2. ConstructionInv'
  BY DEF Dispose, ConstructionInv, TypeInv
<1>3. CreatorInv'
  BY DEF Dispose, CreatorInv, TypeInv
<1>4. CountInv'
  BY DEF Dispose, CountInv, TypeInv, SourceOf
<1>5. EnabledInv'
  BY DEF Dispose, EnabledInv
<1>. QED
  BY <1>1, <1>2, <1>3, <1>4, <1>5

\* The logger changes without the listener: it is activated, given an additional
\* logger, or disposed of.
LEMMA LoggerIInv ==
  ASSUME IInv, EndDeferral \/ SetAdditionalLogger \/ DisposeLogger
  PROVE  IInv'
<1> USE SourcesAssumption DEF IInv, Threads, Subscribing, Goto, runtimeVars, fieldVars
<1>1. CASE EndDeferral \/ SetAdditionalLogger
  BY <1>1 DEF EndDeferral, SetAdditionalLogger, TypeInv, ConstructionInv, CreatorInv, CountInv,
              EnabledInv, SourceOf
<1>2. CASE DisposeLogger
  <2>1. TypeInv'
    BY <1>2 DEF DisposeLogger, TypeInv
  <2>2. ConstructionInv'
    BY <1>2 DEF DisposeLogger, ConstructionInv, TypeInv
  <2>3. CreatorInv'
    BY <1>2 DEF DisposeLogger, CreatorInv, TypeInv
  <2>4. CountInv'
    BY <1>2 DEF DisposeLogger, CountInv, TypeInv, SourceOf
  <2>5. EnabledInv'
    BY <1>2 DEF DisposeLogger, EnabledInv
  <2>. QED
    BY <2>1, <2>2, <2>3, <2>4, <2>5
<1>. QED
  BY <1>1, <1>2

LEMMA NextIInv == IInv /\ [Next]_vars => IInv'
<1> SUFFICES ASSUME IInv, [Next]_vars PROVE IInv'
  OBVIOUS
<1>1. CASE Constructor
  BY <1>1, ConstructorIInv
<1>2. ASSUME NEW s \in Sources, CreateSource(s) \/ OnEventSourceCreated(s) PROVE IInv'
  BY <1>2, SourceIInv
<1>3. ASSUME NEW s \in Sources, NEW e \in EventLevels, OnEventWritten(s, e) PROVE IInv'
  BY <1>3, OnEventWrittenIInv
<1>4. CASE Dispose
  BY <1>4, DisposeIInv
<1>5. CASE EndDeferral \/ SetAdditionalLogger \/ DisposeLogger
  BY <1>5, LoggerIInv
<1>6. CASE UNCHANGED vars
  BY <1>6 DEF vars, loggerVars, runtimeVars, fieldVars, IInv, TypeInv, ConstructionInv, CreatorInv, CountInv, EnabledInv,
              SourceOf
<1>. QED
  BY <1>1, <1>2, <1>3, <1>4, <1>5, <1>6 DEF Next

-----------------------------------------------------------------------------

\* The inductive invariant holds in every reachable state.
THEOREM Invariance == Spec => []IInv
<1>1. Init => IInv
  BY InitIInv
<1>2. IInv /\ [Next]_vars => IInv'
  BY NextIInv
<1>. QED
  BY <1>1, <1>2, PTL DEF Spec

\* No callback of the runtime meets a half-constructed listener, whichever threads
\* create sources before, during and after its construction: no null _logger, one
\* entry for every enabled source, and a level that no event at or above the level
\* of the options is cut off by.
THEOREM ListenerSafe == Spec => []SubscribedAtLevel
<1>1. IInv => SubscribedAtLevel
  <2> SUFFICES ASSUME IInv PROVE SubscribedAtLevel
    OBVIOUS
  <2>1. \A t \in Threads : pc[t] # "threw"
    BY DEF IInv, ConstructionInv, CreatorInv, Threads, Subscribing
  <2>2. \A s \in Sources : subscribed[s] <= 1
    BY DEF IInv, CountInv
  <2>3. ASSUME NEW s \in Sources, enabled[s] # Off
        PROVE  /\ subscribed[s] = 1
               /\ \A e \in EventLevels : AtLeast(GetLogLevel(e), logLevel) => Dispatches(enabled[s], e)
    BY <2>3, LevelSuffices DEF IInv, TypeInv, EnabledInv
  <2>. QED
    BY <2>1, <2>2, <2>3 DEF SubscribedAtLevel
<1>. QED
  BY <1>1, Invariance, PTL

=============================================================================
