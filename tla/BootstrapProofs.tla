--------------------------- MODULE BootstrapProofs ---------------------------
(***************************************************************************)
(* Proofs of the safety properties of Bootstrap for any number of threads, *)
(* builders, service collections, configurations and calls.                *)
(***************************************************************************)
EXTENDS Bootstrap, SequenceTheorems, TLAPS

\* Inside CreateComponents, under ElasticOpenTelemetry.Lock.
Creating == {"resolve", "central", "activate", "finish"}

\* Past EnterSignalLock, or in the call of the plugin, which takes no such lock.
Bootstrapping == {"boot", "configure", "store"} \cup Creating

\* Who holds the locks, and what a thread works on at each place. DefaultOptions is
\* there from the start.
LockInv ==
  /\ \A t \in Threads : signalLock = t <=> pc[t] \in Bootstrapping /\ call[t].builder # NoBuilder
  /\ \A t \in Threads : bootstrapLock = t <=> pc[t] \in Creating
  /\ Len(objects) # 0
  /\ \A t \in Threads : pc[t] \in {"log", "try", "lock", "configure", "store"} => call[t].builder # NoBuilder
  /\ \A t \in Threads : pc[t] \in Bootstrapping => call[t].options # 0
  /\ \A t \in Threads : pc[t] \in Creating => call[t].logger # 0
  /\ \A t \in Threads : pc[t] \in {"configure", "store"} => call[t].components # 0

\* A thread in the signal lock has a builder without state; between the end of
\* configureBuilder and the entry in the table the builder is configured already.
ConfiguredInv ==
  /\ \A t \in Threads :
       (pc[t] \in Bootstrapping /\ call[t].builder # NoBuilder) => table[call[t].builder] = 0
  /\ \A t \in Threads :
       pc[t] = "store" => configured[call[t].builder] = failed[call[t].builder] + 1
  /\ \A b \in Builders : table[b] # 0 => configured[b] = failed[b] + 1
  /\ \A b \in Builders :
       (table[b] = 0 /\ \A t \in Threads : ~(pc[t] = "store" /\ call[t].builder = b))
         => configured[b] = failed[b]

\* Whoever creates components has found none in its services, and whoever has
\* left Bootstrap has those of its services.
ServicesInv ==
  /\ OneComponentsPerServices
  /\ \A t \in Threads :
       (pc[t] \in Creating /\ CallServices(t) # NoServices) => registered[CallServices(t)] = << >>
  /\ \A t \in Threads :
       (pc[t] \in {"configure", "store"} /\ CallServices(t) # NoServices)
         => registered[CallServices(t)] = <<call[t].components>>

\* The logger of components is active, so that GetOrCreate never hands it out
\* again; the one that CreateComponents works with belongs to no components.
OwnerInv ==
  /\ LoggersNotShared
  /\ \A c \in 1..Len(components) : loggers[components[c].logger].mode = "active"
  /\ \A t \in Threads : pc[t] \in Creating =>
       \A c \in 1..Len(components) : components[c].logger # call[t].logger
  /\ \A t \in Threads : pc[t] = "finish" => loggers[call[t].logger].mode = "active"

\* Only the loggers of disposed components are closed.
ClosedInv ==
  /\ \A c \in shared : components[c].phase \in {"live", "gated"}
  /\ \A c \in 1..Len(components) :
       components[c].phase # "disposed" => ~loggers[components[c].logger].closed
  /\ \A l \in 1..Len(loggers) : loggers[l].closed => loggers[l].mode = "active"
  /\ \A t \in Threads : pc[t] \in Creating => ~loggers[call[t].logger].closed

\* The inductive invariant.
IInv == TypeOK /\ LockInv /\ ConfiguredInv /\ ServicesInv /\ OwnerInv /\ ClosedInv

-----------------------------------------------------------------------------
(* What GetOrCreate and the other steps on loggers do *)

\* The instances of CompositeLogger, when there are n options objects.
LoggerType(n) ==
  [options : 0..n, mode : {"deferred", "discarded", "active"}, closed : BOOLEAN]

\* Loggers are never lost, an active one stays active, and none is closed.
LoggersKept ==
  /\ Len(loggers) \in Nat /\ Len(loggers') \in Nat
  /\ Len(loggers) <= Len(loggers')
  /\ \A l \in 1..Len(loggers) : /\ loggers'[l].closed = loggers[l].closed
                                /\ loggers[l].mode = "active" => loggers'[l].mode = "active"
  /\ \A l \in 1..Len(loggers') : (l > Len(loggers)) => ~loggers'[l].closed

\* GetOrCreate hands out the pre-activation logger only before its activation, and
\* changes nothing about another logger.
LEMMA GetOrCreateKeeps ==
  ASSUME TypeOK, NEW o \in 0..Len(objects), GetOrCreate(o)
  PROVE  /\ loggers' \in Seq(LoggerType(Len(objects)))
         /\ preActivation' \in 0..Len(loggers')
         /\ LoggersKept
         /\ LoggerFor(o) \in 1..Len(loggers')
         /\ LoggerFor(o) \in 1..Len(loggers) => loggers[LoggerFor(o)].mode # "active"
<1>1. loggers \in Seq(LoggerType(Len(objects))) /\ preActivation \in 0..Len(loggers)
      /\ Len(loggers) \in Nat /\ Len(objects) \in Nat
  BY DEF TypeOK, LoggerType
<1>2. CASE UsesExisting(o)
  <2>1. preActivation \in 1..Len(loggers)
    BY <1>1, <1>2 DEF UsesExisting
  <2> DEFINE e == [loggers[preActivation] EXCEPT !.options = IF @ = 0 THEN o ELSE @]
  <2>2. loggers[preActivation] \in LoggerType(Len(objects))
    BY <1>1, <2>1, ElementOfSeq
  <2>3. e \in LoggerType(Len(objects)) /\ e.mode = loggers[preActivation].mode
        /\ e.closed = loggers[preActivation].closed
    BY <2>2 DEF LoggerType
  <2>4. loggers' = [loggers EXCEPT ![preActivation] = e] /\ preActivation' = preActivation
    BY <1>2 DEF GetOrCreate
  <2> HIDE DEF e
  <2>5. /\ loggers' \in Seq(LoggerType(Len(objects))) /\ Len(loggers') = Len(loggers)
        /\ \A l \in 1..Len(loggers) : loggers'[l] = IF l = preActivation THEN e ELSE loggers[l]
    BY <1>1, <2>1, <2>3, <2>4, ExceptSeq
  <2>. QED
    BY <1>1, <1>2, <2>1, <2>3, <2>4, <2>5 DEF UsesExisting, IsCompatible, LoggersKept, LoggerFor
<1>3. CASE ~UsesExisting(o)
  <2>1. NewLogger(o) \in LoggerType(Len(objects)) /\ ~NewLogger(o).closed
    BY DEF NewLogger, LoggerType
  <2>2. loggers' = Append(loggers, NewLogger(o))
        /\ preActivation' \in {preActivation, Len(loggers) + 1}
    BY <1>3 DEF GetOrCreate
  <2>3. /\ loggers' \in Seq(LoggerType(Len(objects))) /\ Len(loggers') = Len(loggers) + 1
        /\ \A l \in 1..Len(loggers) : loggers'[l] = loggers[l]
        /\ loggers'[Len(loggers) + 1] = NewLogger(o)
    BY <1>1, <2>1, <2>2, AppendProperties
  <2>. QED
    BY <1>1, <1>3, <2>1, <2>2, <2>3 DEF LoggersKept, LoggerFor
<1>. QED
  BY <1>2, <1>3

-----------------------------------------------------------------------------
(* Types: objects are numbered, so that what refers to them keeps its type when
   there are more of them. *)

ObjectType == [key : Keys, named : BOOLEAN, level : {"local", "central"}]

ComponentType(n, m) ==
  [logger : 1..m, options : 1..n, phase : {"live", "gated", "removed", "disposed"}]

CallType(n, m, k) ==
  [builder : Builders \cup {NoBuilder}, options : 0..n, logger : 0..m, components : 0..k]

LEMMA WiderTypes ==
  ASSUME TypeOK, NEW n \in Nat, NEW m \in Nat, NEW k \in Nat,
         Len(objects) <= n, Len(loggers) <= m, Len(components) <= k
  PROVE  /\ loggers \in Seq(LoggerType(n))
         /\ components \in Seq(ComponentType(n, m))
         /\ shared \subseteq 1..k
         /\ registered \in [Services -> Seq(1..k)]
         /\ table \in [Builders -> 0..k]
         /\ call \in [Threads -> CallType(n, m, k)]
<1>1. Len(objects) \in Nat /\ Len(loggers) \in Nat /\ Len(components) \in Nat
  BY DEF TypeOK
<1>2. 0..Len(objects) \subseteq 0..n /\ 1..Len(objects) \subseteq 1..n
      /\ 0..Len(loggers) \subseteq 0..m /\ 1..Len(loggers) \subseteq 1..m
      /\ 0..Len(components) \subseteq 0..k /\ 1..Len(components) \subseteq 1..k
  BY <1>1
<1>3. loggers \in Seq(LoggerType(n))
  <2>1. loggers \in Seq(LoggerType(Len(objects)))
    BY DEF TypeOK, LoggerType
  <2>2. LoggerType(Len(objects)) \subseteq LoggerType(n)
    BY <1>2 DEF LoggerType
  <2>. QED
    BY <2>1, <2>2, SeqMonotonic
<1>4. components \in Seq(ComponentType(n, m))
  <2>1. components \in Seq(ComponentType(Len(objects), Len(loggers)))
    BY DEF TypeOK, ComponentType
  <2>2. ComponentType(Len(objects), Len(loggers)) \subseteq ComponentType(n, m)
    BY <1>2 DEF ComponentType
  <2>. QED
    BY <2>1, <2>2, SeqMonotonic
<1>5. registered \in [Services -> Seq(1..k)]
  <2>1. Seq(1..Len(components)) \subseteq Seq(1..k)
    BY <1>2, SeqMonotonic
  <2>. QED
    BY <2>1 DEF TypeOK
<1>6. shared \subseteq 1..k /\ table \in [Builders -> 0..k]
  BY <1>2 DEF TypeOK
<1>7. call \in [Threads -> CallType(n, m, k)]
  BY <1>2 DEF TypeOK, CallType
<1>. QED
  BY <1>3, <1>4, <1>5, <1>6, <1>7

Places == {"idle", "log", "try", "lock", "boot", "resolve", "central", "activate", "finish",
           "configure", "store"}

\* The next state is typed if what changed is; the rest is as before.
LEMMA TypedStep ==
  ASSUME TypeOK,
         \/ objects' = objects
         \/ objects' \in Seq(ObjectType) /\ Len(objects) <= Len(objects'),
         \/ loggers' = loggers /\ preActivation' = preActivation
         \/ /\ loggers' \in Seq(LoggerType(Len(objects'))) /\ Len(loggers) <= Len(loggers')
            /\ preActivation' \in 0..Len(loggers'),
         \/ components' = components
         \/ /\ components' \in Seq(ComponentType(Len(objects'), Len(loggers')))
            /\ Len(components) <= Len(components'),
         shared' = shared \/ shared' \subseteq 1..Len(components'),
         registered' = registered \/ registered' \in [Services -> Seq(1..Len(components'))],
         table' = table \/ table' \in [Builders -> 0..Len(components')],
         configured' \in [Builders -> Nat], failed' \in [Builders -> Nat],
         signalLock' \in Threads \cup {NoThread}, bootstrapLock' \in Threads \cup {NoThread},
         pc' \in [Threads -> Places],
         call' = call \/ call' \in [Threads -> CallType(Len(objects'), Len(loggers'), Len(components'))],
         calls' \in 0..MaxCalls
  PROVE  TypeOK'
<1>1. /\ objects' \in Seq(ObjectType) /\ Len(objects') \in Nat /\ Len(objects) <= Len(objects')
  <2>1. objects \in Seq(ObjectType) /\ Len(objects) \in Nat
    BY DEF TypeOK, ObjectType
  <2>2. ASSUME objects' \in Seq(ObjectType) PROVE Len(objects') \in Nat
    BY <2>2, LenProperties
  <2>. QED
    BY <2>1, <2>2
<1>2. Len(loggers') \in Nat /\ Len(loggers) <= Len(loggers') /\ preActivation' \in 0..Len(loggers')
  <2>1. Len(loggers) \in Nat /\ preActivation \in 0..Len(loggers)
    BY DEF TypeOK
  <2>2. ASSUME loggers' \in Seq(LoggerType(Len(objects'))) PROVE Len(loggers') \in Nat
    BY <2>2, LenProperties
  <2>. QED
    BY <2>1, <2>2
<1>3. Len(components') \in Nat /\ Len(components) <= Len(components')
  <2>1. Len(components) \in Nat
    BY DEF TypeOK
  <2>2. ASSUME components' \in Seq(ComponentType(Len(objects'), Len(loggers')))
        PROVE  Len(components') \in Nat
    BY <2>2, LenProperties
  <2>. QED
    BY <2>1, <2>2
<1>4. /\ loggers \in Seq(LoggerType(Len(objects')))
      /\ components \in Seq(ComponentType(Len(objects'), Len(loggers')))
      /\ shared \subseteq 1..Len(components')
      /\ registered \in [Services -> Seq(1..Len(components'))]
      /\ table \in [Builders -> 0..Len(components')]
      /\ call \in [Threads -> CallType(Len(objects'), Len(loggers'), Len(components'))]
  BY <1>1, <1>2, <1>3, WiderTypes
<1>5. /\ objects' \in Seq([key : Keys, named : BOOLEAN, level : {"local", "central"}])
      /\ loggers' \in Seq([options : 0..Len(objects'), mode : {"deferred", "discarded", "active"},
                            closed : BOOLEAN])
      /\ components' \in Seq([logger : 1..Len(loggers'), options : 1..Len(objects'),
                               phase : {"live", "gated", "removed", "disposed"}])
      /\ call' \in [Threads -> [builder : Builders \cup {NoBuilder}, options : 0..Len(objects'),
                                 logger : 0..Len(loggers'), components : 0..Len(components')]]
  BY <1>1, <1>4 DEF ObjectType, LoggerType, ComponentType, CallType
<1>6. /\ shared' \subseteq 1..Len(components') /\ registered' \in [Services -> Seq(1..Len(components'))]
      /\ table' \in [Builders -> 0..Len(components')]
  BY <1>4
<1>. QED
  BY <1>2, <1>5, <1>6 DEF TypeOK, Places

-----------------------------------------------------------------------------
(* Every step preserves the invariant *)

LEMMA Lengths ==
  ASSUME TypeOK
  PROVE  Len(objects) \in Nat /\ Len(loggers) \in Nat /\ Len(components) \in Nat
  BY DEF TypeOK

\* The program counters and locks, and what a call refers to.
LEMMA Typed ==
  ASSUME TypeOK
  PROVE  /\ call \in [Threads -> CallType(Len(objects), Len(loggers), Len(components))]
         /\ pc \in [Threads -> Places]
         /\ signalLock \in Threads \cup {NoThread} /\ bootstrapLock \in Threads \cup {NoThread}
  BY DEF TypeOK, CallType, Places

\* The same for components, whose loggers exist.
LEMMA TypedComponents ==
  ASSUME TypeOK
  PROVE  /\ \A c \in 1..Len(components) :
              /\ components[c] \in ComponentType(Len(objects), Len(loggers))
              /\ components[c].logger \in 1..Len(loggers)
         /\ \A l \in 1..Len(loggers) : loggers[l] \in LoggerType(Len(objects))
         /\ shared \subseteq 1..Len(components)
<1>1. loggers \in Seq(LoggerType(Len(objects)))
      /\ components \in Seq(ComponentType(Len(objects), Len(loggers)))
      /\ shared \subseteq 1..Len(components)
  BY DEF TypeOK, LoggerType, ComponentType
<1>2. \A c \in 1..Len(components) : components[c] \in ComponentType(Len(objects), Len(loggers))
  BY <1>1, ElementOfSeq
<1>3. \A l \in 1..Len(loggers) : loggers[l] \in LoggerType(Len(objects))
  BY <1>1, ElementOfSeq
<1>. QED
  BY <1>1, <1>2, <1>3 DEF ComponentType

\* A thread outside a call works on nothing.
LEMMA IdleCall ==
  ASSUME NEW n \in Nat, NEW m \in Nat, NEW k \in Nat
  PROVE  Idle \in CallType(n, m, k) /\ Idle.builder = NoBuilder /\ Idle.options = 0
  BY DEF Idle, CallType

\* A step that keeps the loggers and the components, and brings no thread into
\* CreateComponents or further in it.
LEMMA LoggersKeptInv ==
  ASSUME IInv, LoggersKept, components' = components, shared' = shared,
         \A u \in Threads : pc'[u] \in Creating =>
           pc[u] \in Creating /\ call'[u].logger = call[u].logger,
         \A u \in Threads : pc'[u] = "finish" => pc[u] = "finish"
  PROVE  OwnerInv' /\ ClosedInv'
<1>1. \A c \in 1..Len(components) : components[c].logger \in 1..Len(loggers)
  BY TypedComponents DEF IInv
<1>2. \A u \in Threads : pc[u] \in Creating => call[u].logger \in 1..Len(loggers)
  BY Lengths, Typed DEF IInv, LockInv, CallType
<1>4. OwnerInv'
  BY <1>1, <1>2 DEF IInv, OwnerInv, LoggersNotShared, LoggersKept, Creating
<1>5. ClosedInv'
  <2>1. \A c \in shared' : components'[c].phase \in {"live", "gated"}
    BY DEF IInv, ClosedInv
  <2>2. \A c \in 1..Len(components') :
          components'[c].phase # "disposed" => ~loggers'[components'[c].logger].closed
    BY <1>1 DEF IInv, ClosedInv, LoggersKept
  <2>3. \A l \in 1..Len(loggers') : loggers'[l].closed => loggers'[l].mode = "active"
    BY DEF IInv, ClosedInv, LoggersKept
  <2>4. \A u \in Threads : pc'[u] \in Creating => ~loggers'[call'[u].logger].closed
    BY <1>2 DEF IInv, ClosedInv, LoggersKept
  <2>. QED
    BY <2>1, <2>2, <2>3, <2>4 DEF ClosedInv
<1>. QED
  BY <1>4, <1>5

LEMMA UnchangedLoggers == ASSUME TypeOK, loggers' = loggers PROVE LoggersKept
  BY Lengths DEF LoggersKept

\* A call begins.
LEMMA WithElasticDefaultsIInv ==
  ASSUME NEW t \in Threads, NEW b \in Builders, IInv, WithElasticDefaults(t, b)
  PROVE  IInv'
<1> USE BootstrapAssumption DEF IInv, loggerVars, sharedVars, builderVars, locks, Goto, Creating, Bootstrapping
<1>1. PICK o \in {0, 1, Len(objects) + 1} :
        /\ IF o <= 1 THEN UNCHANGED objects
           ELSE \E k \in Keys : objects' = Append(objects, Fresh(k))
        /\ call' = [call EXCEPT ![t] = [Idle EXCEPT !.builder = b, !.options = o]]
  BY DEF WithElasticDefaults
<1>2. objects' \in Seq(ObjectType) /\ Len(objects) <= Len(objects') /\ Len(objects') \in Nat
      /\ o \in 0..Len(objects') /\ Len(objects') # 0
  <2>1. objects \in Seq(ObjectType)
    BY DEF TypeOK, ObjectType
  <2>2. CASE o <= 1
    BY <1>1, <2>1, <2>2, Lengths DEF LockInv
  <2>3. CASE ~(o <= 1)
    <3>1. PICK k \in Keys : objects' = Append(objects, Fresh(k))
      BY <1>1, <2>3
    <3>2. Fresh(k) \in ObjectType
      BY DEF Fresh, ObjectType
    <3>. QED
      BY <1>1, <2>1, <3>1, <3>2, AppendProperties, Lengths
  <2>. QED
    BY <2>2, <2>3
<1> DEFINE e == [Idle EXCEPT !.builder = b, !.options = o]
<1>3. call' = [call EXCEPT ![t] = e] /\ e \in CallType(Len(objects'), Len(loggers), Len(components))
      /\ e.builder = b
  <2>1. Idle \in CallType(Len(objects'), Len(loggers), Len(components))
    BY <1>2, IdleCall, Lengths
  <2>2. e \in CallType(Len(objects'), Len(loggers), Len(components)) /\ e.builder = b
    BY <1>2, <2>1 DEF CallType
  <2>. QED
    BY <1>1, <2>2
<1> HIDE DEF e
<1>4. /\ loggers' = loggers /\ preActivation' = preActivation
      /\ components' = components /\ shared' = shared /\ registered' = registered
      /\ table' = table /\ configured' = configured /\ failed' = failed
      /\ signalLock' = signalLock /\ bootstrapLock' = bootstrapLock
      /\ pc' = [pc EXCEPT ![t] = "log"] /\ pc[t] = "idle"
      /\ calls' = calls + 1 /\ calls < MaxCalls
  BY DEF WithElasticDefaults
<1>5. TypeOK'
  <2>1. call \in [Threads -> CallType(Len(objects'), Len(loggers), Len(components))]
    <3>1. Len(loggers) \in Nat /\ Len(components) \in Nat
      BY Lengths
    <3>. QED
      BY <1>2, <3>1, WiderTypes
  <2>2. call' \in [Threads -> CallType(Len(objects'), Len(loggers'), Len(components'))]
    BY <1>3, <1>4, <2>1
  <2>3. pc' \in [Threads -> Places]
    BY <1>4, Typed DEF Places
  <2>4. calls' \in 0..MaxCalls /\ configured' \in [Builders -> Nat] /\ failed' \in [Builders -> Nat]
    BY <1>4 DEF TypeOK
  <2>. QED
    BY <1>2, <1>4, <2>2, <2>3, <2>4, Typed, TypedStep
<1>6. LockInv'
  BY <1>2, <1>3, <1>4, Typed DEF LockInv
<1>7. ConfiguredInv'
  BY <1>3, <1>4, Typed DEF ConfiguredInv
<1>8. ServicesInv'
  BY <1>3, <1>4, Typed DEF ServicesInv, OneComponentsPerServices, CallServices
<1>9. OwnerInv' /\ ClosedInv'
  BY <1>3, <1>4, Typed, UnchangedLoggers, LoggersKeptInv
<1>. QED
  BY <1>5, <1>6, <1>7, <1>8, <1>9

\* The call of the plugin begins.
LEMMA PluginBootstrapIInv ==
  ASSUME NEW t \in Threads, IInv, PluginBootstrap(t)
  PROVE  IInv'
<1> USE BootstrapAssumption DEF IInv, loggerVars, sharedVars, builderVars, locks, Goto, Creating, Bootstrapping
<1>1. objects' \in Seq(ObjectType) /\ Len(objects') = Len(objects) + 1 /\ Len(objects) \in Nat
  <2>1. Fresh(DefaultKey) \in ObjectType
    BY DEF Fresh, ObjectType
  <2>2. objects \in Seq(ObjectType)
    BY DEF TypeOK, ObjectType
  <2>. QED
    BY <2>1, <2>2, AppendProperties, Lengths DEF PluginBootstrap
<1> DEFINE e == [Idle EXCEPT !.options = Len(objects) + 1]
<1>2. call' = [call EXCEPT ![t] = e] /\ e \in CallType(Len(objects'), Len(loggers), Len(components))
      /\ e.builder = NoBuilder /\ e.options # 0
  <2>1. Idle \in CallType(Len(objects'), Len(loggers), Len(components)) /\ Idle.builder = NoBuilder
    BY <1>1, IdleCall, Lengths
  <2>2. e \in CallType(Len(objects'), Len(loggers), Len(components)) /\ e.builder = NoBuilder
        /\ e.options # 0
    BY <1>1, <2>1 DEF CallType
  <2>. QED
    BY <2>2 DEF PluginBootstrap
<1> HIDE DEF e
<1>3. /\ loggers' = loggers /\ preActivation' = preActivation
      /\ components' = components /\ shared' = shared /\ registered' = registered
      /\ table' = table /\ configured' = configured /\ failed' = failed
      /\ signalLock' = signalLock /\ bootstrapLock' = bootstrapLock
      /\ pc' = [pc EXCEPT ![t] = "boot"] /\ pc[t] = "idle"
      /\ calls' = calls + 1 /\ calls < MaxCalls
  BY DEF PluginBootstrap
<1>4. TypeOK'
  <2>1. call \in [Threads -> CallType(Len(objects'), Len(loggers), Len(components))]
    <3>1. Len(loggers) \in Nat /\ Len(components) \in Nat
      BY Lengths
    <3>. QED
      BY <1>1, <3>1, WiderTypes
  <2>2. call' \in [Threads -> CallType(Len(objects'), Len(loggers'), Len(components'))]
    BY <1>2, <1>3, <2>1
  <2>3. pc' \in [Threads -> Places]
    BY <1>3, Typed DEF Places
  <2>4. calls' \in 0..MaxCalls /\ configured' \in [Builders -> Nat] /\ failed' \in [Builders -> Nat]
    BY <1>3 DEF TypeOK
  <2>. QED
    BY <1>1, <1>3, <2>2, <2>3, <2>4, Typed, TypedStep
<1>5. LockInv'
  BY <1>1, <1>2, <1>3, Typed DEF LockInv
<1>6. ConfiguredInv'
  BY <1>2, <1>3, Typed DEF ConfiguredInv
<1>7. ServicesInv'
  BY <1>2, <1>3, Typed DEF ServicesInv, OneComponentsPerServices, CallServices
<1>8. OwnerInv' /\ ClosedInv'
  BY <1>2, <1>3, Typed, UnchangedLoggers, LoggersKeptInv
<1>. QED
  BY <1>4, <1>5, <1>6, <1>7, <1>8

\* Outside the locks a thread gets a logger, goes on or returns.
LEMMA OutsideIInv ==
  ASSUME NEW t \in Threads, IInv, pc[t] \in {"log", "try", "lock"},
         \/ pc' = [pc EXCEPT ![t] = "idle"] /\ call' = [call EXCEPT ![t] = Idle]
         \/ pc' \in {[pc EXCEPT ![t] = "try"], [pc EXCEPT ![t] = "lock"]} /\ call' = call,
         \/ loggers' = loggers /\ preActivation' = preActivation
         \/ GetOrCreate(call[t].options),
         objects' = objects,
         components' = components /\ shared' = shared /\ registered' = registered,
         table' = table /\ configured' = configured /\ failed' = failed,
         signalLock' = signalLock /\ bootstrapLock' = bootstrapLock /\ calls' = calls
  PROVE  IInv'
<1> USE BootstrapAssumption DEF IInv, Creating, Bootstrapping
<1>1. /\ \/ loggers' = loggers /\ preActivation' = preActivation
         \/ loggers' \in Seq(LoggerType(Len(objects'))) /\ preActivation' \in 0..Len(loggers')
      /\ LoggersKept
  <2>1. CASE loggers' = loggers /\ preActivation' = preActivation
    BY <2>1, UnchangedLoggers
  <2>2. CASE GetOrCreate(call[t].options)
    <3>1. call[t].options \in 0..Len(objects)
      BY Typed DEF CallType
    <3>. QED
      BY <2>2, <3>1, GetOrCreateKeeps
  <2>. QED
    BY <2>1, <2>2
<1>2. Idle \in CallType(Len(objects), Len(loggers'), Len(components)) /\ Idle.builder = NoBuilder
  BY <1>1, IdleCall, Lengths DEF LoggersKept
<1>3. TypeOK'
  <2>1. call \in [Threads -> CallType(Len(objects), Len(loggers'), Len(components))]
    <3>1. Len(loggers') \in Nat /\ Len(loggers) <= Len(loggers')
      BY <1>1 DEF LoggersKept
    <3>2. Len(objects) \in Nat /\ Len(components) \in Nat
      BY Lengths
    <3>. QED
      BY <3>1, <3>2, WiderTypes
  <2>2. call' \in [Threads -> CallType(Len(objects'), Len(loggers'), Len(components'))]
    BY <1>2, <2>1
  <2>3. pc' \in [Threads -> Places]
    BY Typed DEF Places
  <2>4. calls' \in 0..MaxCalls /\ configured' \in [Builders -> Nat] /\ failed' \in [Builders -> Nat]
    BY DEF TypeOK
  <2>5. Len(loggers) <= Len(loggers')
    BY <1>1 DEF LoggersKept
  <2>. QED
    BY <1>1, <2>2, <2>3, <2>4, <2>5, Typed, TypedStep
<1>4. LockInv'
  BY <1>2, Typed DEF LockInv
<1>5. ConfiguredInv'
  BY <1>2, Typed DEF ConfiguredInv
<1>6. ServicesInv'
  BY <1>2, Typed DEF ServicesInv, OneComponentsPerServices, CallServices
<1>7. OwnerInv' /\ ClosedInv'
  <2>1. \A u \in Threads : pc'[u] \in Creating => pc[u] = pc'[u] /\ call'[u] = call[u]
    BY Typed
  <2>. QED
    BY <1>1, <2>1, LoggersKeptInv
<1>. QED
  BY <1>3, <1>4, <1>5, <1>6, <1>7

LEMMA WithElasticDefaultsCoreIInv ==
  ASSUME NEW t \in Threads, IInv, WithElasticDefaultsCore(t) PROVE IInv'
  BY OutsideIInv DEF WithElasticDefaultsCore, GetLogger, Return, Goto, loggerVars, sharedVars, builderVars, locks

LEMMA TryGetBuilderStateIInv ==
  ASSUME NEW t \in Threads, IInv, TryGetBuilderState(t) PROVE IInv'
  BY OutsideIInv DEF TryGetBuilderState, Return, Goto, loggerVars, sharedVars, builderVars, locks

\* The second look into the table finds no state, and nobody else is in the lock.
LEMMA EnterSignalLockIInv ==
  ASSUME NEW t \in Threads, IInv, EnterSignalLock(t) PROVE IInv'
<1>1. CASE table[call[t].builder] # 0
  BY <1>1, OutsideIInv DEF EnterSignalLock, Return, Goto, loggerVars, sharedVars, builderVars
<1>2. CASE table[call[t].builder] = 0
  <2> USE BootstrapAssumption DEF IInv, Creating, Bootstrapping
  <2> DEFINE e == [call[t] EXCEPT !.options = IF @ = 0 THEN 1 ELSE @]
  <2>1. /\ loggers' = loggers /\ preActivation' = preActivation /\ objects' = objects
        /\ components' = components /\ shared' = shared /\ registered' = registered
        /\ table' = table /\ configured' = configured /\ failed' = failed
        /\ signalLock = NoThread /\ signalLock' = t /\ bootstrapLock' = bootstrapLock
        /\ pc' = [pc EXCEPT ![t] = "boot"] /\ pc[t] = "lock"
        /\ call' = [call EXCEPT ![t] = e]
        /\ calls' = calls
    BY <1>2 DEF EnterSignalLock, Goto, loggerVars, sharedVars, builderVars
  <2>2. /\ e \in CallType(Len(objects), Len(loggers), Len(components))
        /\ e.builder = call[t].builder /\ e.builder # NoBuilder /\ e.options # 0
    <3>1. call[t] \in CallType(Len(objects), Len(loggers), Len(components)) /\ 1 \in 0..Len(objects)
          /\ call[t].builder # NoBuilder
      BY <2>1, Typed, Lengths DEF LockInv
    <3>. QED
      BY <3>1 DEF CallType
  <2> HIDE DEF e
  <2>3. TypeOK'
    <3>1. call' \in [Threads -> CallType(Len(objects'), Len(loggers'), Len(components'))]
      BY <2>1, <2>2, Typed
    <3>2. pc' \in [Threads -> Places] /\ signalLock' \in Threads \cup {NoThread}
      BY <2>1, Typed DEF Places
    <3>3. calls' \in 0..MaxCalls /\ configured' \in [Builders -> Nat] /\ failed' \in [Builders -> Nat]
      BY <2>1 DEF TypeOK
    <3>. QED
      BY <2>1, <3>1, <3>2, <3>3, Typed, TypedStep
  <2>4. LockInv'
    BY <2>1, <2>2, Typed DEF LockInv
  <2>5. ConfiguredInv'
    BY <1>2, <2>1, <2>2, Typed DEF ConfiguredInv
  <2>6. ServicesInv'
    BY <2>1, <2>2, Typed DEF ServicesInv, OneComponentsPerServices, CallServices
  <2>7. OwnerInv' /\ ClosedInv'
    BY <2>1, <2>2, Typed, UnchangedLoggers, LoggersKeptInv
  <2>. QED
    BY <2>3, <2>4, <2>5, <2>6, <2>7
<1>. QED
  BY <1>1, <1>2

\* In the lock the builder is configured by t alone; if configureBuilder throws,
\* there is one run more and one failed run more.
LEMMA ConfigureBuilderIInv ==
  ASSUME NEW t \in Threads, IInv, ConfigureBuilder(t) PROVE IInv'
<1> USE BootstrapAssumption DEF IInv, Creating, Bootstrapping
<1> DEFINE b == call[t].builder
<1>1. /\ loggers' = loggers /\ preActivation' = preActivation /\ objects' = objects
      /\ components' = components /\ shared' = shared /\ registered' = registered
      /\ table' = table /\ bootstrapLock' = bootstrapLock /\ calls' = calls
      /\ configured' = [configured EXCEPT ![b] = @ + 1]
      /\ pc[t] = "configure"
      /\ \/ /\ pc' = [pc EXCEPT ![t] = "store"] /\ call' = call
            /\ failed' = failed /\ signalLock' = signalLock
         \/ /\ pc' = [pc EXCEPT ![t] = "idle"] /\ call' = [call EXCEPT ![t] = Idle]
            /\ failed' = [failed EXCEPT ![b] = @ + 1] /\ signalLock' = NoThread
  BY DEF ConfigureBuilder, Return, Goto, loggerVars, sharedVars
<1>2. Idle \in CallType(Len(objects), Len(loggers), Len(components)) /\ Idle.builder = NoBuilder
  BY IdleCall, Lengths
<1>3. b \in Builders /\ signalLock = t
  BY <1>1, Typed DEF LockInv, CallType
<1>4. /\ configured \in [Builders -> Nat] /\ failed \in [Builders -> Nat]
      /\ configured' \in [Builders -> Nat] /\ failed' \in [Builders -> Nat]
      /\ calls' \in 0..MaxCalls
  <2>1. configured \in [Builders -> Nat] /\ failed \in [Builders -> Nat] /\ calls \in 0..MaxCalls
    BY DEF TypeOK
  <2>. QED
    BY <1>1, <1>3, <2>1
<1>5. TypeOK'
  <2>1. call' \in [Threads -> CallType(Len(objects'), Len(loggers'), Len(components'))]
    BY <1>1, <1>2, Typed
  <2>2. pc' \in [Threads -> Places] /\ signalLock' \in Threads \cup {NoThread}
    BY <1>1, Typed DEF Places
  <2>. QED
    BY <1>1, <1>4, <2>1, <2>2, Typed, TypedStep
<1>6. LockInv'
  BY <1>1, <1>2, <1>3, Typed DEF LockInv
<1>7. ConfiguredInv'
  <2>1. configured[b] = failed[b] /\ table[b] = 0
    BY <1>1, <1>3, <1>4, Typed DEF ConfiguredInv, LockInv
  <2>2. \A u \in Threads : call[u].builder = b /\ pc[u] \in Bootstrapping => u = t
    BY <1>3 DEF LockInv
  <2>3. \A u \in Threads : pc[u] = "store" => call[u].builder \in Builders /\ call[u].builder # b
    BY <1>1, <2>2, Typed DEF LockInv, CallType
  <2> HIDE DEF b
  <2>4. \A u \in Threads :
          (pc'[u] \in Bootstrapping /\ call'[u].builder # NoBuilder) => table'[call'[u].builder] = 0
    BY <1>1, <1>2, Typed DEF ConfiguredInv
  <2>5. \A u \in Threads :
          pc'[u] = "store" => configured'[call'[u].builder] = failed'[call'[u].builder] + 1
    <3> SUFFICES ASSUME NEW u \in Threads, pc'[u] = "store"
                 PROVE  configured'[call'[u].builder] = failed'[call'[u].builder] + 1
      OBVIOUS
    <3>1. CASE u = t
      BY <1>1, <1>3, <1>4, <2>1, <3>1, Typed DEF b
    <3>2. CASE u # t
      <4>1. pc[u] = "store" /\ call'[u] = call[u]
        BY <1>1, <3>2, Typed
      <4>. QED
        BY <1>1, <1>3, <1>4, <2>3, <4>1 DEF ConfiguredInv
    <3>. QED
      BY <3>1, <3>2
  <2>6. \A d \in Builders : table'[d] # 0 => configured'[d] = failed'[d] + 1
    BY <1>1, <1>3, <1>4, <2>1 DEF ConfiguredInv
  <2>7. \A d \in Builders :
          (table'[d] = 0 /\ \A u \in Threads : ~(pc'[u] = "store" /\ call'[u].builder = d))
            => configured'[d] = failed'[d]
    <3> SUFFICES ASSUME NEW d \in Builders, table'[d] = 0,
                        \A u \in Threads : ~(pc'[u] = "store" /\ call'[u].builder = d)
                 PROVE  configured'[d] = failed'[d]
      OBVIOUS
    <3>1. CASE d = b
      BY <1>1, <1>3, <1>4, <2>1, <3>1, Typed DEF b
    <3>2. CASE d # b
      <4>1. \A u \in Threads : ~(pc[u] = "store" /\ call[u].builder = d)
        BY <1>1, <3>2, Typed DEF b
      <4>. QED
        BY <1>1, <1>3, <1>4, <3>2, <4>1 DEF ConfiguredInv
    <3>. QED
      BY <3>1, <3>2
  <2>. QED
    BY <2>4, <2>5, <2>6, <2>7 DEF ConfiguredInv
<1>8. ServicesInv'
  BY <1>1, <1>2, Typed DEF ServicesInv, OneComponentsPerServices, CallServices
<1>9. OwnerInv' /\ ClosedInv'
  BY <1>1, Typed, UnchangedLoggers, LoggersKeptInv
<1>. QED
  BY <1>5, <1>6, <1>7, <1>8, <1>9

\* The builder enters the table configured, with the components of its services.
LEMMA StoreBuilderStateIInv ==
  ASSUME NEW t \in Threads, IInv, StoreBuilderState(t) PROVE IInv'
<1> USE BootstrapAssumption DEF IInv, Creating, Bootstrapping
<1> DEFINE b == call[t].builder
           c == call[t].components
<1>1. /\ loggers' = loggers /\ preActivation' = preActivation /\ objects' = objects
      /\ components' = components /\ shared' = shared /\ registered' = registered
      /\ table' = [table EXCEPT ![b] = c] /\ configured' = configured /\ failed' = failed
      /\ signalLock' = NoThread /\ bootstrapLock' = bootstrapLock /\ calls' = calls
      /\ pc' = [pc EXCEPT ![t] = "idle"] /\ pc[t] = "store" /\ call' = [call EXCEPT ![t] = Idle]
  BY DEF StoreBuilderState, Return, Goto, loggerVars, sharedVars
<1>2. Idle \in CallType(Len(objects), Len(loggers), Len(components)) /\ Idle.builder = NoBuilder
  BY IdleCall, Lengths
<1>3. /\ b \in Builders /\ signalLock = t /\ c \in 0..Len(components) /\ c # 0
      /\ \A u \in Threads : (call[u].builder = b /\ pc[u] \in Bootstrapping) => u = t
  BY <1>1, Typed DEF LockInv, CallType
<1>4. table' \in [Builders -> 0..Len(components)] /\ table'[b] = c
      /\ \A d \in Builders : d # b => table'[d] = table[d]
  <2>1. table \in [Builders -> 0..Len(components)]
    BY DEF TypeOK
  <2>. QED
    BY <1>1, <1>3, <2>1
<1>5. TypeOK'
  <2>1. call' \in [Threads -> CallType(Len(objects'), Len(loggers'), Len(components'))]
    BY <1>1, <1>2, Typed
  <2>2. pc' \in [Threads -> Places] /\ signalLock' \in Threads \cup {NoThread}
    BY <1>1, Typed DEF Places
  <2>3. calls' \in 0..MaxCalls /\ configured' \in [Builders -> Nat] /\ failed' \in [Builders -> Nat]
    BY <1>1 DEF TypeOK
  <2>. QED
    BY <1>1, <1>4, <2>1, <2>2, <2>3, Typed, TypedStep
<1>6. LockInv'
  BY <1>1, <1>2, <1>3, Typed DEF LockInv
<1>7. ConfiguredInv'
  <2>1. \A u \in Threads : pc'[u] \in Bootstrapping => u # t /\ pc'[u] = pc[u] /\ call'[u] = call[u]
    BY <1>1, Typed
  <2>2. configured[b] = failed[b] + 1
    BY <1>1 DEF ConfiguredInv
  <2>3. \A u \in Threads :
          (pc'[u] \in Bootstrapping /\ call'[u].builder # NoBuilder) => table'[call'[u].builder] = 0
    BY <1>3, <1>4, <2>1, Typed DEF ConfiguredInv, CallType
  <2>4. \A u \in Threads :
          pc'[u] = "store" => configured'[call'[u].builder] = failed'[call'[u].builder] + 1
    BY <1>1, <2>1 DEF ConfiguredInv
  <2>5. \A d \in Builders : table'[d] # 0 => configured'[d] = failed'[d] + 1
    BY <1>1, <1>4, <2>2 DEF ConfiguredInv
  <2>6. \A d \in Builders :
          (table'[d] = 0 /\ \A u \in Threads : ~(pc'[u] = "store" /\ call'[u].builder = d))
            => configured'[d] = failed'[d]
    <3> SUFFICES ASSUME NEW d \in Builders, table'[d] = 0,
                        \A u \in Threads : ~(pc'[u] = "store" /\ call'[u].builder = d)
                 PROVE  configured'[d] = failed'[d]
      OBVIOUS
    <3>1. d # b
      BY <1>3, <1>4
    <3>2. \A u \in Threads : ~(pc[u] = "store" /\ call[u].builder = d)
      BY <1>1, <3>1, Typed
    <3>. QED
      BY <1>1, <1>4, <3>1, <3>2 DEF ConfiguredInv
  <2>. QED
    BY <2>3, <2>4, <2>5, <2>6 DEF ConfiguredInv
<1>8. ServicesInv'
  <2>1. OneComponentsPerServices'
    BY <1>1, <1>3, <1>4 DEF ServicesInv, OneComponentsPerServices, CallServices
  <2>. QED
    BY <1>1, <1>2, <2>1, Typed DEF ServicesInv, CallServices
<1>9. OwnerInv' /\ ClosedInv'
  BY <1>1, Typed, UnchangedLoggers, LoggersKeptInv
<1>. QED
  BY <1>5, <1>6, <1>7, <1>8, <1>9

\* Bootstrap is left with components c, which are the only ones in the services.
LEMMA LeaveBootstrapInv ==
  ASSUME NEW t \in Threads, IInv, pc[t] \in {"boot", "finish"},
         bootstrapLock \in {NoThread, t}, bootstrapLock' = NoThread,
         NEW k \in Nat, Len(components) <= k, NEW c \in 1..k, LeaveBootstrap(t, c),
         \/ CallServices(t) = NoServices /\ registered' = registered
         \/ /\ CallServices(t) # NoServices
            /\ registered[CallServices(t)] \in {<< >>, <<c>>}
            /\ registered' = [registered EXCEPT ![CallServices(t)] = <<c>>],
         objects' = objects /\ signalLock' = signalLock,
         table' = table /\ configured' = configured /\ failed' = failed
  PROVE  /\ pc' \in [Threads -> Places]
         /\ call' \in [Threads -> CallType(Len(objects), Len(loggers), k)]
         /\ \A u \in Threads : pc'[u] \in Creating => u # t /\ pc'[u] = pc[u] /\ call'[u] = call[u]
         /\ LockInv' /\ ConfiguredInv' /\ ServicesInv'
<1> USE BootstrapAssumption DEF IInv, Creating, Bootstrapping
<1>1. /\ Len(objects) \in Nat /\ Len(loggers) \in Nat
      /\ call \in [Threads -> CallType(Len(objects), Len(loggers), k)]
  BY Lengths, WiderTypes
<1>2. Idle \in CallType(Len(objects), Len(loggers), k) /\ Idle.builder = NoBuilder
  BY <1>1, IdleCall
<1> DEFINE e == [call[t] EXCEPT !.components = c]
<1>3. /\ e \in CallType(Len(objects), Len(loggers), k) /\ e.builder = call[t].builder
      /\ e.options = call[t].options /\ e.components = c
  BY <1>1 DEF CallType
<1>4. \/ /\ call[t].builder = NoBuilder
         /\ pc' = [pc EXCEPT ![t] = "idle"] /\ call' = [call EXCEPT ![t] = Idle]
      \/ /\ call[t].builder # NoBuilder
         /\ pc' = [pc EXCEPT ![t] = "configure"] /\ call' = [call EXCEPT ![t] = e]
  BY DEF LeaveBootstrap, Return, Goto
<1> HIDE DEF e
<1>5. pc' \in [Threads -> Places] /\ call' \in [Threads -> CallType(Len(objects), Len(loggers), k)]
  BY <1>1, <1>2, <1>3, <1>4, Typed DEF Places
<1>6. \A u \in Threads : pc'[u] \in Creating => u # t /\ pc'[u] = pc[u] /\ call'[u] = call[u]
  BY <1>1, <1>4, Typed
<1>7. \A u \in Threads : u # t => pc'[u] = pc[u] /\ call'[u] = call[u] /\ pc[u] \notin Creating
  BY <1>1, <1>4, Typed DEF LockInv
<1>8. LockInv'
  <2>1. pc'[t] \notin Creating /\ t # NoThread
    BY <1>4, Typed
  <2>. QED
    BY <1>2, <1>3, <1>4, <1>7, <2>1, Typed DEF LockInv
<1>9. ConfiguredInv'
  BY <1>2, <1>3, <1>4, <1>7, Typed DEF ConfiguredInv
<1>10. ServicesInv'
  <2> DEFINE s == CallServices(t)
  <2>1. registered \in [Services -> Seq(1..Len(components))]
    BY DEF TypeOK
  <2>2. \A u \in Threads : CallServices(u) \in Services \cup {NoServices}
    BY <1>1 DEF CallServices, CallType
  <2>3. CASE s = NoServices
    <3>1. OneComponentsPerServices'
      BY <2>3 DEF ServicesInv, OneComponentsPerServices
    <3>2. \A u \in Threads : u # t => CallServices(u)' = CallServices(u)
      BY <1>7 DEF CallServices
    <3>3. pc'[t] = "configure" => CallServices(t)' = NoServices
      BY <1>1, <1>3, <1>4, <2>3, Typed DEF CallServices
    <3>4. pc'[t] # "store"
      BY <1>4, Typed
    <3>5. \A u \in Threads : pc'[u] \notin Creating
      BY <1>6, <1>7
    <3>. QED
      BY <1>7, <2>3, <3>1, <3>2, <3>3, <3>4, <3>5 DEF ServicesInv
  <2>4. CASE s # NoServices
    <3>1. /\ registered[s] \in {<< >>, <<c>>} /\ registered'[s] = <<c>> /\ s \in Services
          /\ \A r \in Services : r # s => registered'[r] = registered[r]
      BY <2>1, <2>2, <2>4
    <3>2. OneComponentsPerServices'
      <4>1. ASSUME NEW r \in Services PROVE Len(registered'[r]) <= 1
        <5>1. CASE r = s
          <6>1. registered'[r] = <<c>> /\ Len(<<c>>) = 1
            BY <3>1, <5>1
          <6>. QED
            BY ONLY <6>1
        <5>2. CASE r # s
          BY <3>1, <5>2 DEF ServicesInv, OneComponentsPerServices
        <5>. QED
          BY <5>1, <5>2
      <4>2. ASSUME NEW b \in Builders, table'[b] # 0, ServicesOf[b] # NoServices
            PROVE  registered'[ServicesOf[b]] = <<table'[b]>>
        <5>1. registered[ServicesOf[b]] = <<table[b]>> /\ ServicesOf[b] \in Services
          BY <4>2 DEF ServicesInv, OneComponentsPerServices
        <5>2. <<table[b]>> # << >>
          OBVIOUS
        <5>. QED
          BY <3>1, <5>1, <5>2
      <4>. QED
        BY <4>1, <4>2 DEF OneComponentsPerServices
    <3>3. \A u \in Threads :
            (pc'[u] \in {"configure", "store"} /\ CallServices(u)' # NoServices)
              => registered'[CallServices(u)'] = <<call'[u].components>>
      <4> SUFFICES ASSUME NEW u \in Threads, pc'[u] \in {"configure", "store"}, CallServices(u)' # NoServices
                   PROVE  registered'[CallServices(u)'] = <<call'[u].components>>
        OBVIOUS
      <4>1. CASE u = t
        <5>1. CallServices(t)' = s /\ call'[t].components = c
          BY <1>1, <1>3, <1>4, <4>1, Typed DEF CallServices
        <5>. QED
          BY <3>1, <4>1, <5>1
      <4>2. CASE u # t
        <5>1. CallServices(u)' = CallServices(u) /\ pc[u] = pc'[u] /\ call'[u] = call[u]
          BY <1>7, <4>2 DEF CallServices
        <5>2. registered[CallServices(u)] = <<call[u].components>> /\ CallServices(u) \in Services
          BY <2>2, <5>1 DEF ServicesInv
        <5>. QED
          BY <3>1, <5>1, <5>2
      <4>. QED
        BY <4>1, <4>2
    <3>4. \A u \in Threads : pc'[u] \notin Creating
      BY <1>6, <1>7
    <3>. QED
      BY <3>2, <3>3, <3>4 DEF ServicesInv
  <2>. QED
    BY <2>3, <2>4
<1>. QED
  BY <1>5, <1>6, <1>8, <1>9, <1>10

\* Components are found in the services, or in SharedComponents.
LEMMA BootstrapReuseIInv ==
  ASSUME NEW t \in Threads, IInv, BootstrapReuse(t) PROVE IInv'
<1> USE BootstrapAssumption DEF IInv
<1>1. /\ loggers' = loggers /\ preActivation' = 0 /\ objects' = objects
      /\ components' = components /\ shared' = shared
      /\ table' = table /\ configured' = configured /\ failed' = failed
      /\ signalLock' = signalLock /\ bootstrapLock = NoThread /\ bootstrapLock' = NoThread
      /\ calls' = calls /\ pc[t] = "boot"
  BY DEF BootstrapReuse, builderVars, locks
<1>2. registered \in [Services -> Seq(1..Len(components))] /\ Len(components) \in Nat
  BY DEF TypeOK
<1>3. CallServices(t) \in Services \cup {NoServices}
  BY Typed DEF CallServices, CallType
<1>4. PICK c \in 1..Len(components) :
        /\ LeaveBootstrap(t, c)
        /\ \/ CallServices(t) = NoServices /\ registered' = registered
           \/ /\ CallServices(t) # NoServices
              /\ registered[CallServices(t)] \in {<< >>, <<c>>}
              /\ registered' = [registered EXCEPT ![CallServices(t)] = <<c>>]
  <2>1. CASE InServices(t)
    <3> DEFINE r == registered[CallServices(t)]
    <3>1. r \in Seq(1..Len(components)) /\ r # << >> /\ Len(r) <= 1 /\ CallServices(t) # NoServices
      BY <1>2, <1>3, <2>1 DEF InServices, ServicesInv, OneComponentsPerServices
    <3>2. r = <<Head(r)>> /\ Head(r) \in 1..Len(components)
      BY <3>1
    <3>3. LeaveBootstrap(t, Head(r)) /\ registered' = registered
      BY <2>1 DEF BootstrapReuse
    <3>4. registered' = [registered EXCEPT ![CallServices(t)] = <<Head(r)>>]
      BY <1>2, <3>2, <3>3
    <3>. QED
      BY <3>1, <3>2, <3>3, <3>4
  <2>2. CASE ~InServices(t)
    <3>1. PICK c \in Matching(t) : Register(CallServices(t), c) /\ LeaveBootstrap(t, c)
      BY <2>2 DEF BootstrapReuse
    <3>2. c \in 1..Len(components)
      BY <3>1, TypedComponents DEF Matching
    <3>3. CASE CallServices(t) = NoServices
      BY <3>1, <3>2, <3>3 DEF Register
    <3>4. CASE CallServices(t) # NoServices
      <4>1. registered[CallServices(t)] = << >> /\ Append(<< >>, c) = <<c>>
        BY <2>2, <3>4 DEF InServices
      <4>2. registered' = [registered EXCEPT ![CallServices(t)] = <<c>>]
        BY <3>1, <3>4, <4>1 DEF Register
      <4>. QED
        BY <3>1, <3>2, <3>4, <4>1, <4>2
    <3>. QED
      BY <3>3, <3>4
  <2>. QED
    BY <2>1, <2>2
<1>5. /\ pc' \in [Threads -> Places]
      /\ call' \in [Threads -> CallType(Len(objects), Len(loggers), Len(components))]
      /\ \A u \in Threads : pc'[u] \in Creating => u # t /\ pc'[u] = pc[u] /\ call'[u] = call[u]
      /\ LockInv' /\ ConfiguredInv' /\ ServicesInv'
  BY <1>1, <1>2, <1>4, LeaveBootstrapInv
<1>6. TypeOK'
  <2>1. registered' \in [Services -> Seq(1..Len(components))]
    <3>1. <<c>> \in Seq(1..Len(components))
      OBVIOUS
    <3>. QED
      BY <1>2, <1>4, <3>1
  <2>2. /\ loggers' \in Seq(LoggerType(Len(objects))) /\ Len(loggers) <= Len(loggers')
        /\ preActivation' \in 0..Len(loggers')
    BY <1>1 DEF TypeOK, LoggerType
  <2>3. calls' \in 0..MaxCalls /\ configured' \in [Builders -> Nat] /\ failed' \in [Builders -> Nat]
    BY <1>1 DEF TypeOK
  <2>. QED
    BY <1>1, <1>5, <2>1, <2>2, <2>3, Typed, TypedStep
<1>7. OwnerInv' /\ ClosedInv'
  BY <1>1, <1>5, UnchangedLoggers, LoggersKeptInv DEF Creating
<1>. QED
  BY <1>5, <1>6, <1>7

\* CreateComponents begins: its logger is new, or not yet active and thus nobody's.
LEMMA BootstrapCreateIInv ==
  ASSUME NEW t \in Threads, IInv, BootstrapCreate(t) PROVE IInv'
<1> USE BootstrapAssumption DEF IInv, Creating, Bootstrapping
<1> DEFINE l == LoggerFor(call[t].options)
           e == [call[t] EXCEPT !.logger = l]
<1>1. /\ objects' = objects /\ components' = components /\ shared' = shared /\ registered' = registered
      /\ table' = table /\ configured' = configured /\ failed' = failed
      /\ signalLock' = signalLock /\ bootstrapLock = NoThread /\ bootstrapLock' = t /\ calls' = calls
      /\ pc' = [pc EXCEPT ![t] = "resolve"] /\ pc[t] = "boot" /\ call' = [call EXCEPT ![t] = e]
      /\ GetOrCreate(call[t].options) /\ ~InServices(t)
  BY DEF BootstrapCreate, Goto, sharedVars, builderVars
<1>2. /\ loggers' \in Seq(LoggerType(Len(objects'))) /\ preActivation' \in 0..Len(loggers')
      /\ LoggersKept
      /\ l \in 1..Len(loggers')
      /\ l \in 1..Len(loggers) => loggers[l].mode # "active"
  <2>1. call[t].options \in 0..Len(objects)
    BY Typed DEF CallType
  <2>. QED
    BY <1>1, <2>1, GetOrCreateKeeps
<1>3. /\ Len(loggers') \in Nat /\ Len(loggers) <= Len(loggers')
      /\ Len(objects) \in Nat /\ Len(components) \in Nat /\ Len(loggers) \in Nat
  BY <1>2, Lengths DEF LoggersKept
<1>4. call \in [Threads -> CallType(Len(objects), Len(loggers'), Len(components))]
  BY <1>3, WiderTypes
<1> HIDE DEF l
<1>5. /\ e \in CallType(Len(objects), Len(loggers'), Len(components))
      /\ e.builder = call[t].builder /\ e.options = call[t].options /\ e.logger = l /\ l # 0
  BY <1>2, <1>3, <1>4 DEF CallType
<1> HIDE DEF e
<1>6. TypeOK'
  <2>1. call' \in [Threads -> CallType(Len(objects'), Len(loggers'), Len(components'))]
    BY <1>1, <1>4, <1>5
  <2>2. pc' \in [Threads -> Places] /\ bootstrapLock' \in Threads \cup {NoThread}
    BY <1>1, Typed DEF Places
  <2>3. calls' \in 0..MaxCalls /\ configured' \in [Builders -> Nat] /\ failed' \in [Builders -> Nat]
    BY <1>1 DEF TypeOK
  <2>. QED
    BY <1>1, <1>2, <1>3, <2>1, <2>2, <2>3, Typed, TypedStep
<1>7. LockInv'
  BY <1>1, <1>4, <1>5, Typed DEF LockInv
<1>8. ConfiguredInv'
  BY <1>1, <1>4, <1>5, Typed DEF ConfiguredInv
<1>9. ServicesInv'
  <2>1. \A u \in Threads : CallServices(u)' = CallServices(u)
    BY <1>1, <1>4, <1>5 DEF CallServices
  <2>2. CallServices(t) # NoServices => registered[CallServices(t)] = << >>
    BY <1>1 DEF InServices
  <2>3. OneComponentsPerServices'
    BY <1>1 DEF ServicesInv, OneComponentsPerServices
  <2>. QED
    BY <1>1, <1>4, <2>1, <2>2, <2>3, Typed DEF ServicesInv
<1>10. \A u \in Threads : pc'[u] \in Creating =>
         \/ u = t /\ pc'[u] = "resolve" /\ call'[u].logger = l
         \/ u # t /\ pc'[u] = pc[u] /\ call'[u] = call[u] /\ call[u].logger \in 1..Len(loggers)
  BY <1>1, <1>3, <1>5, Typed DEF LockInv, CallType
<1>11. /\ \A c \in 1..Len(components) : components[c].logger \in 1..Len(loggers)
       /\ \A c \in 1..Len(components) : components[c].logger # l
       /\ ~loggers'[l].closed
  <2>1. \A c \in 1..Len(components) : components[c].logger \in 1..Len(loggers)
    BY TypedComponents
  <2>2. \A c \in 1..Len(components) : components[c].logger # l
    BY <1>2, <2>1 DEF OwnerInv
  <2>3. ~loggers'[l].closed
    BY <1>2, <1>3 DEF ClosedInv, LoggersKept
  <2>. QED
    BY <2>1, <2>2, <2>3
<1>12. OwnerInv'
  <2>1. LoggersNotShared'
    BY <1>1 DEF OwnerInv, LoggersNotShared
  <2>2. \A c \in 1..Len(components') : loggers'[components'[c].logger].mode = "active"
    BY <1>1, <1>2, <1>11 DEF OwnerInv, LoggersKept
  <2>3. \A u \in Threads : pc'[u] \in Creating =>
          \A c \in 1..Len(components') : components'[c].logger # call'[u].logger
    BY <1>1, <1>10, <1>11 DEF OwnerInv
  <2>4. ASSUME NEW u \in Threads, pc'[u] = "finish" PROVE loggers'[call'[u].logger].mode = "active"
    <3>1. pc[u] = "finish" /\ call'[u] = call[u] /\ call[u].logger \in 1..Len(loggers)
      BY <1>10, <2>4
    <3>. QED
      BY <1>2, <3>1 DEF OwnerInv, LoggersKept
  <2>. QED
    BY <2>1, <2>2, <2>3, <2>4 DEF OwnerInv
<1>13. ClosedInv'
  <2>1. \A c \in shared' : components'[c].phase \in {"live", "gated"}
    BY <1>1 DEF ClosedInv
  <2>2. \A c \in 1..Len(components') :
          components'[c].phase # "disposed" => ~loggers'[components'[c].logger].closed
    BY <1>1, <1>2, <1>11 DEF ClosedInv, LoggersKept
  <2>3. \A m \in 1..Len(loggers') : loggers'[m].closed => loggers'[m].mode = "active"
    BY <1>2 DEF ClosedInv, LoggersKept
  <2>4. ASSUME NEW u \in Threads, pc'[u] \in Creating PROVE ~loggers'[call'[u].logger].closed
    <3>1. CASE u = t
      BY <1>10, <1>11, <2>4, <3>1
    <3>2. CASE u # t
      <4>1. pc[u] \in Creating /\ call'[u] = call[u] /\ call[u].logger \in 1..Len(loggers)
        BY <1>10, <2>4, <3>2
      <4>. QED
        BY <1>2, <4>1 DEF ClosedInv, LoggersKept
    <3>. QED
      BY <3>1, <3>2
  <2>. QED
    BY <2>1, <2>2, <2>3, <2>4 DEF ClosedInv
<1>. QED
  BY <1>6, <1>7, <1>8, <1>9, <1>12, <1>13

\* The options object is changed in place; nothing else but the place of t.
LEMMA InPlaceIInv ==
  ASSUME NEW t \in Threads, IInv, NEW o \in ObjectType,
         objects' = [objects EXCEPT ![call[t].options] = o],
         NEW p \in {"central", "activate"}, pc[t] \in {"resolve", "central"},
         pc' = [pc EXCEPT ![t] = p],
         loggers' = loggers /\ preActivation' = preActivation,
         components' = components /\ shared' = shared /\ registered' = registered,
         table' = table /\ configured' = configured /\ failed' = failed,
         signalLock' = signalLock /\ bootstrapLock' = bootstrapLock,
         call' = call, calls' = calls
  PROVE  IInv'
<1> USE BootstrapAssumption DEF IInv, Creating, Bootstrapping
<1>1. objects' \in Seq(ObjectType) /\ Len(objects') = Len(objects) /\ Len(objects) \in Nat
  <2>1. objects \in Seq(ObjectType)
    BY DEF TypeOK, ObjectType
  <2>2. call[t].options \in 1..Len(objects)
    BY Typed, Lengths DEF LockInv, CallType
  <2>. QED
    BY <2>1, <2>2, ExceptSeq, Lengths
<1>2. TypeOK'
  <2>1. pc' \in [Threads -> Places]
    BY Typed DEF Places
  <2>2. calls' \in 0..MaxCalls /\ configured' \in [Builders -> Nat] /\ failed' \in [Builders -> Nat]
    BY DEF TypeOK
  <2>. QED
    BY <1>1, <2>1, <2>2, Typed, TypedStep
<1>3. \A u \in Threads : u # t => pc'[u] = pc[u]
  BY Typed
<1>4. pc'[t] = p
  BY Typed
<1>5. LockInv'
  BY <1>1, <1>3, <1>4 DEF LockInv
<1>6. ConfiguredInv'
  BY <1>3, <1>4 DEF ConfiguredInv
<1>7. ServicesInv'
  BY <1>3, <1>4 DEF ServicesInv, OneComponentsPerServices, CallServices
<1>8. OwnerInv' /\ ClosedInv'
  BY <1>3, <1>4, UnchangedLoggers, LoggersKeptInv
<1>. QED
  BY <1>2, <1>5, <1>6, <1>7, <1>8

LEMMA ResolveServiceIdentityIInv ==
  ASSUME NEW t \in Threads, IInv, ResolveServiceIdentity(t) PROVE IInv'
<1> DEFINE o == call[t].options
           e == [objects[o] EXCEPT !.named = @ \/ objects[o].key \in Attributed]
           p == IF objects[o].key \in OpAmp /\ objects[o].key \in Named \cup Attributed
                THEN "central" ELSE "activate"
<1>1. objects[o] \in ObjectType
  <2>1. objects \in Seq(ObjectType)
    BY DEF IInv, TypeOK, ObjectType
  <2>2. o \in 1..Len(objects)
    BY Typed, Lengths DEF ResolveServiceIdentity, IInv, LockInv, CallType, Bootstrapping, Creating
  <2>. QED
    BY <2>1, <2>2, ElementOfSeq
<1>2. e \in ObjectType
  BY <1>1, Zenon DEF ObjectType
<1>3. p \in {"central", "activate"}
  OBVIOUS
<1>4. objects' = [objects EXCEPT ![o] = e] /\ pc[t] = "resolve" /\ pc' = [pc EXCEPT ![t] = p]
  BY DEF ResolveServiceIdentity, Goto
<1> HIDE DEF e, p
<1>. QED
  BY <1>2, <1>3, <1>4, InPlaceIInv
    DEF ResolveServiceIdentity, loggerVars, sharedVars, builderVars, locks

LEMMA FetchCentralConfigurationIInv ==
  ASSUME NEW t \in Threads, IInv, FetchCentralConfiguration(t) PROVE IInv'
<1> DEFINE o == call[t].options
<1>1. objects[o] \in ObjectType
  <2>1. objects \in Seq(ObjectType)
    BY DEF IInv, TypeOK, ObjectType
  <2>2. o \in 1..Len(objects)
    BY Typed, Lengths DEF FetchCentralConfiguration, IInv, LockInv, CallType, Bootstrapping, Creating
  <2>. QED
    BY <2>1, <2>2, ElementOfSeq
<1>2. PICK level \in {objects[o].level, "central"} : objects' = [objects EXCEPT ![o].level = level]
  BY DEF FetchCentralConfiguration
<1> DEFINE e == [objects[o] EXCEPT !.level = level]
<1>3. e \in ObjectType
  BY <1>1 DEF ObjectType
<1>4. objects' = [objects EXCEPT ![o] = e] /\ pc[t] = "central" /\ pc' = [pc EXCEPT ![t] = "activate"]
  BY <1>2 DEF FetchCentralConfiguration, Goto
<1> HIDE DEF e
<1>. QED
  BY <1>3, <1>4, InPlaceIInv
    DEF FetchCentralConfiguration, loggerVars, sharedVars, builderVars, locks

\* The logger becomes active before the components are created.
LEMMA ActivateLoggerIInv ==
  ASSUME NEW t \in Threads, IInv, ActivateLogger(t) PROVE IInv'
<1> USE BootstrapAssumption DEF IInv, Creating, Bootstrapping
<1> DEFINE l == call[t].logger
           e == [loggers[l] EXCEPT !.mode = "active"]
<1>1. /\ objects' = objects /\ components' = components /\ shared' = shared /\ registered' = registered
      /\ table' = table /\ configured' = configured /\ failed' = failed
      /\ signalLock' = signalLock /\ bootstrapLock' = bootstrapLock /\ calls' = calls /\ call' = call
      /\ pc' = [pc EXCEPT ![t] = "finish"] /\ pc[t] = "activate"
      /\ loggers' = [loggers EXCEPT ![l] = e] /\ preActivation' \in {0, preActivation}
  BY DEF ActivateLogger, ClearIf, Goto, sharedVars, builderVars, locks
<1>2. /\ loggers \in Seq(LoggerType(Len(objects))) /\ preActivation \in 0..Len(loggers)
      /\ Len(loggers) \in Nat
  BY DEF TypeOK, LoggerType
<1>3. l \in 1..Len(loggers) /\ loggers[l] \in LoggerType(Len(objects))
  <2>1. l \in 1..Len(loggers)
    BY <1>1, Typed, Lengths DEF LockInv, CallType
  <2>. QED
    BY <2>1, TypedComponents
<1>4. e \in LoggerType(Len(objects)) /\ e.mode = "active" /\ e.closed = loggers[l].closed
  BY <1>3 DEF LoggerType
<1> HIDE DEF e
<1>5. /\ loggers' \in Seq(LoggerType(Len(objects))) /\ Len(loggers') = Len(loggers)
      /\ \A m \in 1..Len(loggers) : loggers'[m] = IF m = l THEN e ELSE loggers[m]
  BY <1>1, <1>2, <1>3, <1>4, ExceptSeq
<1>6. TypeOK'
  <2>1. pc' \in [Threads -> Places]
    BY <1>1, Typed DEF Places
  <2>2. calls' \in 0..MaxCalls /\ configured' \in [Builders -> Nat] /\ failed' \in [Builders -> Nat]
    BY <1>1 DEF TypeOK
  <2>. QED
    BY <1>1, <1>2, <1>5, <2>1, <2>2, Typed, TypedStep
<1>7. pc'[t] = "finish" /\ \A u \in Threads : u # t => pc'[u] = pc[u] /\ pc[u] \notin Creating
  BY <1>1, Typed DEF LockInv
<1>8. LockInv'
  BY <1>1, <1>7 DEF LockInv
<1>9. ConfiguredInv'
  BY <1>1, <1>7 DEF ConfiguredInv
<1>10. ServicesInv'
  BY <1>1, <1>7 DEF ServicesInv, OneComponentsPerServices, CallServices
<1>11. \A c \in 1..Len(components) : components[c].logger \in 1..Len(loggers)
  BY TypedComponents
<1>12. OwnerInv'
  <2>1. LoggersNotShared'
    BY <1>1 DEF OwnerInv, LoggersNotShared
  <2>2. \A c \in 1..Len(components') : loggers'[components'[c].logger].mode = "active"
    BY <1>1, <1>4, <1>5, <1>11 DEF OwnerInv
  <2>3. \A u \in Threads : pc'[u] \in Creating =>
          \A c \in 1..Len(components') : components'[c].logger # call'[u].logger
    BY <1>1, <1>7 DEF OwnerInv
  <2>4. \A u \in Threads : pc'[u] = "finish" => loggers'[call'[u].logger].mode = "active"
    BY <1>1, <1>3, <1>4, <1>5, <1>7
  <2>. QED
    BY <2>1, <2>2, <2>3, <2>4 DEF OwnerInv
<1>13. ClosedInv'
  <2>1. \A c \in shared' : components'[c].phase \in {"live", "gated"}
    BY <1>1 DEF ClosedInv
  <2>2. \A c \in 1..Len(components') :
          components'[c].phase # "disposed" => ~loggers'[components'[c].logger].closed
    BY <1>1, <1>4, <1>5, <1>11 DEF ClosedInv
  <2>3. \A m \in 1..Len(loggers') : loggers'[m].closed => loggers'[m].mode = "active"
    BY <1>4, <1>5 DEF ClosedInv
  <2>4. \A u \in Threads : pc'[u] \in Creating => ~loggers'[call'[u].logger].closed
    BY <1>1, <1>3, <1>4, <1>5, <1>7 DEF ClosedInv
  <2>. QED
    BY <2>1, <2>2, <2>3, <2>4 DEF ClosedInv
<1>. QED
  BY <1>6, <1>8, <1>9, <1>10, <1>12, <1>13

\* The new components own the logger that CreateComponents worked with.
LEMMA AddComponentsIInv ==
  ASSUME NEW t \in Threads, IInv, AddComponents(t) PROVE IInv'
<1> USE BootstrapAssumption DEF IInv, Creating, Bootstrapping
<1> DEFINE c == Len(components) + 1
           e == [logger |-> call[t].logger, options |-> call[t].options, phase |-> "live"]
<1>1. /\ loggers' = loggers /\ preActivation' = preActivation /\ objects' = objects
      /\ components' = Append(components, e) /\ shared' = shared \cup {c}
      /\ Register(CallServices(t), c) /\ LeaveBootstrap(t, c)
      /\ table' = table /\ configured' = configured /\ failed' = failed
      /\ signalLock' = signalLock /\ bootstrapLock' = NoThread /\ calls' = calls /\ pc[t] = "finish"
  BY DEF AddComponents, loggerVars, builderVars
<1>2. /\ components \in Seq(ComponentType(Len(objects), Len(loggers)))
      /\ registered \in [Services -> Seq(1..Len(components))]
      /\ shared \subseteq 1..Len(components)
  BY DEF TypeOK, ComponentType
<1>3. /\ bootstrapLock = t
      /\ call[t].logger \in 1..Len(loggers) /\ call[t].options \in 1..Len(objects)
      /\ Len(components) \in Nat
  BY <1>1, Typed, Lengths DEF LockInv, CallType
<1>4. /\ e \in ComponentType(Len(objects), Len(loggers)) /\ e.logger = call[t].logger
      /\ e.phase = "live"
  BY <1>3 DEF ComponentType
<1> HIDE DEF e
<1>5. /\ components' \in Seq(ComponentType(Len(objects), Len(loggers))) /\ Len(components') = c
      /\ \A d \in 1..Len(components) : components'[d] = components[d]
      /\ components'[c] = e
  BY <1>1, <1>2, <1>4, AppendProperties
<1>6. /\ c \in 1..c /\ c \in Nat /\ Len(components) <= c
      /\ \A d \in 1..c : d \in 1..Len(components) \/ d = c
      /\ c \notin 1..Len(components)
  BY <1>3
<1> HIDE DEF c
<1>7. \/ CallServices(t) = NoServices /\ registered' = registered
      \/ /\ CallServices(t) # NoServices
         /\ registered[CallServices(t)] \in {<< >>, <<c>>}
         /\ registered' = [registered EXCEPT ![CallServices(t)] = <<c>>]
  <2>1. CASE CallServices(t) = NoServices
    BY <1>1, <2>1 DEF Register
  <2>2. CASE CallServices(t) # NoServices
    <3>1. registered[CallServices(t)] = << >> /\ Append(<< >>, c) = <<c>>
      BY <1>1, <2>2 DEF ServicesInv
    <3>2. registered' = [registered EXCEPT ![CallServices(t)] = <<c>>]
      BY <1>1, <2>2, <3>1 DEF Register
    <3>. QED
      BY <2>2, <3>1, <3>2
  <2>. QED
    BY <2>1, <2>2
<1>8. /\ pc' \in [Threads -> Places]
      /\ call' \in [Threads -> CallType(Len(objects), Len(loggers), c)]
      /\ \A u \in Threads : pc'[u] \in Creating => u # t /\ pc'[u] = pc[u] /\ call'[u] = call[u]
      /\ LockInv' /\ ConfiguredInv' /\ ServicesInv'
  BY <1>1, <1>3, <1>6, <1>7, LeaveBootstrapInv
<1>9. TypeOK'
  <2>1. registered' \in [Services -> Seq(1..c)]
    <3>1. <<c>> \in Seq(1..c)
      BY <1>6
    <3>2. registered \in [Services -> Seq(1..c)]
      BY <1>3, <1>6, WiderTypes, Lengths
    <3>. QED
      BY <1>7, <3>1, <3>2
  <2>2. shared' \subseteq 1..c
    <3>1. shared \subseteq 1..c
      BY <1>6, WiderTypes, Lengths
    <3>. QED
      BY <1>1, <1>6, <3>1
  <2>3. calls' \in 0..MaxCalls /\ configured' \in [Builders -> Nat] /\ failed' \in [Builders -> Nat]
    BY <1>1 DEF TypeOK
  <2>. QED
    BY <1>1, <1>5, <1>6, <1>8, <2>1, <2>2, <2>3, Typed, TypedStep
<1>10. \A u \in Threads : pc'[u] \notin Creating
  BY <1>3, <1>8 DEF LockInv
<1>11. \A d \in 1..Len(components) : components[d].logger # call[t].logger
  BY <1>1 DEF OwnerInv
<1>12. OwnerInv'
  <2>1. LoggersNotShared'
    BY <1>4, <1>5, <1>6, <1>11 DEF OwnerInv, LoggersNotShared
  <2>2. \A d \in 1..Len(components') : loggers'[components'[d].logger].mode = "active"
    BY <1>1, <1>4, <1>5, <1>6 DEF OwnerInv
  <2>. QED
    BY <1>10, <2>1, <2>2 DEF OwnerInv
<1>13. ClosedInv'
  <2>1. \A d \in shared' : components'[d].phase \in {"live", "gated"}
    BY <1>1, <1>2, <1>4, <1>5 DEF ClosedInv
  <2>2. \A d \in 1..Len(components') :
          components'[d].phase # "disposed" => ~loggers'[components'[d].logger].closed
    BY <1>1, <1>4, <1>5, <1>6 DEF ClosedInv
  <2>3. \A m \in 1..Len(loggers') : loggers'[m].closed => loggers'[m].mode = "active"
    BY <1>1 DEF ClosedInv
  <2>. QED
    BY <1>10, <2>1, <2>2, <2>3 DEF ClosedInv
<1>. QED
  BY <1>8, <1>9, <1>12, <1>13

\* CreateComponents throws.
LEMMA CreateFailsIInv ==
  ASSUME NEW t \in Threads, IInv, CreateFails(t) PROVE IInv'
<1> USE BootstrapAssumption DEF IInv, Creating, Bootstrapping
<1>1. /\ loggers' = loggers /\ preActivation' = preActivation /\ objects' = objects
      /\ components' = components /\ shared' = shared /\ registered' = registered
      /\ table' = table /\ configured' = configured /\ failed' = failed
      /\ signalLock' = (IF signalLock = t THEN NoThread ELSE signalLock)
      /\ bootstrapLock' = NoThread /\ calls' = calls
      /\ pc' = [pc EXCEPT ![t] = "idle"] /\ pc[t] \in Creating /\ call' = [call EXCEPT ![t] = Idle]
  BY DEF CreateFails, Return, Goto, loggerVars, sharedVars, builderVars
<1>2. Idle \in CallType(Len(objects), Len(loggers), Len(components)) /\ Idle.builder = NoBuilder
  BY IdleCall, Lengths
<1>3. /\ bootstrapLock = t /\ pc'[t] = "idle"
      /\ \A u \in Threads : u # t => pc'[u] = pc[u] /\ call'[u] = call[u] /\ pc[u] \notin Creating
  BY <1>1, Typed DEF LockInv
<1>4. TypeOK'
  <2>1. call' \in [Threads -> CallType(Len(objects'), Len(loggers'), Len(components'))]
    BY <1>1, <1>2, Typed
  <2>2. pc' \in [Threads -> Places]
    BY <1>1, Typed DEF Places
  <2>3. signalLock' \in Threads \cup {NoThread} /\ bootstrapLock' \in Threads \cup {NoThread}
    BY <1>1, Typed
  <2>4. calls' \in 0..MaxCalls /\ configured' \in [Builders -> Nat] /\ failed' \in [Builders -> Nat]
    BY <1>1 DEF TypeOK
  <2>. QED
    BY <1>1, <2>1, <2>2, <2>3, <2>4, TypedStep
<1>5. LockInv'
  BY <1>1, <1>3 DEF LockInv
<1>6. ConfiguredInv'
  BY <1>1, <1>3 DEF ConfiguredInv
<1>7. ServicesInv'
  <2>1. OneComponentsPerServices'
    BY <1>1 DEF ServicesInv, OneComponentsPerServices
  <2>2. \A u \in Threads : u # t => CallServices(u)' = CallServices(u)
    BY <1>3 DEF CallServices
  <2>. QED
    BY <1>1, <1>3, <2>1, <2>2 DEF ServicesInv
<1>8. OwnerInv' /\ ClosedInv'
  BY <1>1, <1>3, UnchangedLoggers, LoggersKeptInv
<1>. QED
  BY <1>4, <1>5, <1>6, <1>7, <1>8

\* The timer of a deferred logger.
LEMMA SafetyTimerIInv ==
  ASSUME NEW l \in 1..Len(loggers), IInv, SafetyTimer(l) PROVE IInv'
<1> USE BootstrapAssumption DEF IInv
<1> DEFINE e == [loggers[l] EXCEPT !.mode = IF loggers[l].options # 0 THEN "active" ELSE "discarded"]
<1>1. /\ objects' = objects /\ components' = components /\ shared' = shared /\ registered' = registered
      /\ table' = table /\ configured' = configured /\ failed' = failed
      /\ signalLock' = signalLock /\ bootstrapLock' = bootstrapLock
      /\ pc' = pc /\ call' = call /\ calls' = calls
      /\ loggers[l].mode = "deferred"
      /\ loggers' = [loggers EXCEPT ![l] = e] /\ preActivation' \in {0, preActivation}
  BY DEF SafetyTimer, ClearIf, sharedVars, builderVars, locks
<1>2. /\ loggers \in Seq(LoggerType(Len(objects))) /\ preActivation \in 0..Len(loggers)
      /\ Len(loggers) \in Nat
  BY DEF TypeOK, LoggerType
<1>3. e \in LoggerType(Len(objects)) /\ e.closed = loggers[l].closed
  <2>1. loggers[l] \in LoggerType(Len(objects))
    BY TypedComponents
  <2>. QED
    BY <2>1 DEF LoggerType
<1> HIDE DEF e
<1>4. /\ loggers' \in Seq(LoggerType(Len(objects))) /\ Len(loggers') = Len(loggers)
      /\ \A m \in 1..Len(loggers) : loggers'[m] = IF m = l THEN e ELSE loggers[m]
  BY <1>1, <1>2, <1>3, ExceptSeq
<1>5. LoggersKept
  BY <1>1, <1>2, <1>3, <1>4 DEF LoggersKept
<1>6. TypeOK'
  <2>1. calls' \in 0..MaxCalls /\ configured' \in [Builders -> Nat] /\ failed' \in [Builders -> Nat]
    BY <1>1 DEF TypeOK
  <2>. QED
    BY <1>1, <1>2, <1>4, <2>1, Typed, TypedStep
<1>7. LockInv' /\ ConfiguredInv' /\ ServicesInv'
  BY <1>1 DEF LockInv, ConfiguredInv, ServicesInv, OneComponentsPerServices, CallServices
<1>8. OwnerInv' /\ ClosedInv'
  BY <1>1, <1>5, LoggersKeptInv
<1>. QED
  BY <1>6, <1>7, <1>8

\* Disposal moves components through their phases; the logger is closed when they
\* are no longer shared, and it is nobody else's.
LEMMA DisposeIInv ==
  ASSUME NEW c \in 1..Len(components), IInv, Dispose(c) PROVE IInv'
<1> USE BootstrapAssumption DEF IInv
<1>1. PICK p \in {"gated", "removed", "disposed"} :
        /\ objects' = objects /\ preActivation' = preActivation /\ registered' = registered
        /\ table' = table /\ configured' = configured /\ failed' = failed
        /\ signalLock' = signalLock /\ bootstrapLock' = bootstrapLock
        /\ pc' = pc /\ call' = call /\ calls' = calls
        /\ components' = [components EXCEPT ![c].phase = p]
        /\ shared' = IF p = "removed" THEN shared \ {c} ELSE shared
        /\ p = "gated" => components[c].phase = "live"
        /\ p = "removed" => components[c].phase = "gated"
        /\ p = "disposed" => components[c].phase = "removed"
        /\ loggers' = IF p = "disposed" THEN [loggers EXCEPT ![components[c].logger].closed = TRUE]
                       ELSE loggers
  <2>1. CASE DisposeGate(c)
    BY <2>1 DEF DisposeGate, loggerVars, builderVars, locks
  <2>2. CASE DisposeRemove(c)
    BY <2>2 DEF DisposeRemove, loggerVars, builderVars, locks
  <2>3. CASE DisposeParts(c)
    BY <2>3 DEF DisposeParts, builderVars, locks
  <2>. QED
    BY <2>1, <2>2, <2>3 DEF Dispose
<1>2. /\ components \in Seq(ComponentType(Len(objects), Len(loggers)))
      /\ loggers \in Seq(LoggerType(Len(objects)))
      /\ shared \subseteq 1..Len(components) /\ Len(loggers) \in Nat /\ Len(components) \in Nat
      /\ preActivation \in 0..Len(loggers)
  <2>1. components \in Seq(ComponentType(Len(objects), Len(loggers)))
    BY DEF TypeOK, ComponentType
  <2>2. loggers \in Seq(LoggerType(Len(objects))) /\ preActivation \in 0..Len(loggers)
    BY DEF TypeOK, LoggerType
  <2>. QED
    BY <2>1, <2>2, TypedComponents, Lengths
<1>3. \A d \in 1..Len(components) : /\ components[d] \in ComponentType(Len(objects), Len(loggers))
                                    /\ components[d].logger \in 1..Len(loggers)
  BY TypedComponents
<1> DEFINE e == [components[c] EXCEPT !.phase = p]
<1>4. /\ e \in ComponentType(Len(objects), Len(loggers)) /\ e.logger = components[c].logger
      /\ e.phase = p
  BY <1>3 DEF ComponentType
<1>5. components' = [components EXCEPT ![c] = e]
  BY <1>1
<1> HIDE DEF e
<1>6. /\ components' \in Seq(ComponentType(Len(objects), Len(loggers)))
      /\ Len(components') = Len(components)
      /\ \A d \in 1..Len(components) : components'[d] = IF d = c THEN e ELSE components[d]
  BY <1>2, <1>4, <1>5, ExceptSeq
<1> DEFINE l == components[c].logger
           f == [loggers[l] EXCEPT !.closed = TRUE]
<1>7. /\ loggers' \in Seq(LoggerType(Len(objects))) /\ Len(loggers') = Len(loggers)
      /\ \A m \in 1..Len(loggers) :
           /\ loggers'[m].mode = loggers[m].mode
           /\ loggers'[m].closed = (loggers[m].closed \/ (p = "disposed" /\ m = l))
  <2>1. CASE p = "disposed"
    <3>1. loggers[l] \in LoggerType(Len(objects)) /\ l \in 1..Len(loggers)
      BY <1>3, TypedComponents
    <3>2. f \in LoggerType(Len(objects)) /\ f.mode = loggers[l].mode /\ f.closed = TRUE
      BY <3>1 DEF LoggerType
    <3>3. loggers' = [loggers EXCEPT ![l] = f]
      BY <1>1, <2>1
    <3> HIDE DEF f, l
    <3>4. /\ loggers' \in Seq(LoggerType(Len(objects))) /\ Len(loggers') = Len(loggers)
          /\ \A m \in 1..Len(loggers) : loggers'[m] = IF m = l THEN f ELSE loggers[m]
      BY <1>2, <3>1, <3>2, <3>3, ExceptSeq
    <3>5. \A m \in 1..Len(loggers) : loggers[m].closed \in BOOLEAN
      BY TypedComponents DEF LoggerType
    <3>. QED
      BY <2>1, <3>2, <3>4, <3>5
  <2>2. CASE p # "disposed"
    <3>1. \A m \in 1..Len(loggers) : loggers[m].closed \in BOOLEAN
      BY TypedComponents DEF LoggerType
    <3>. QED
      BY <1>1, <1>2, <2>2, <3>1
  <2>. QED
    BY <2>1, <2>2
<1>8. TypeOK'
  <2>1. calls' \in 0..MaxCalls /\ configured' \in [Builders -> Nat] /\ failed' \in [Builders -> Nat]
    BY <1>1 DEF TypeOK
  <2>2. shared' \subseteq 1..Len(components')
    BY <1>1, <1>2, <1>6
  <2>. QED
    BY <1>1, <1>2, <1>6, <1>7, <2>1, <2>2, Typed, TypedStep
<1>9. LockInv' /\ ConfiguredInv' /\ ServicesInv'
  BY <1>1 DEF LockInv, ConfiguredInv, ServicesInv, OneComponentsPerServices, CallServices
<1>10. \A u \in Threads : pc[u] \in Creating => call[u].logger \in 1..Len(loggers)
  BY Typed, Lengths DEF LockInv, CallType
<1>11. \A d \in 1..Len(components) : components'[d].logger = components[d].logger
  BY <1>4, <1>6
<1>12. OwnerInv'
  <2>1. LoggersNotShared'
    BY <1>6, <1>11 DEF OwnerInv, LoggersNotShared
  <2>2. \A d \in 1..Len(components') : loggers'[components'[d].logger].mode = "active"
    BY <1>3, <1>6, <1>7, <1>11 DEF OwnerInv
  <2>3. \A u \in Threads : pc'[u] \in Creating =>
          \A d \in 1..Len(components') : components'[d].logger # call'[u].logger
    BY <1>1, <1>6, <1>11 DEF OwnerInv
  <2>4. \A u \in Threads : pc'[u] = "finish" => loggers'[call'[u].logger].mode = "active"
    BY <1>1, <1>7, <1>10 DEF OwnerInv, Creating
  <2>. QED
    BY <2>1, <2>2, <2>3, <2>4 DEF OwnerInv
<1>13. ClosedInv'
  <2>1. \A d \in shared' : components'[d].phase \in {"live", "gated"}
    BY <1>1, <1>2, <1>4, <1>6 DEF ClosedInv
  <2>2. ASSUME NEW d \in 1..Len(components'), components'[d].phase # "disposed"
        PROVE  ~loggers'[components'[d].logger].closed
    <3>1. CASE d = c
      BY <1>1, <1>3, <1>4, <1>6, <1>7, <2>2, <3>1 DEF ClosedInv
    <3>2. CASE d # c
      BY <1>3, <1>6, <1>7, <2>2, <3>2 DEF ClosedInv, OwnerInv, LoggersNotShared
    <3>. QED
      BY <3>1, <3>2
  <2>3. \A m \in 1..Len(loggers') : loggers'[m].closed => loggers'[m].mode = "active"
    BY <1>7 DEF ClosedInv, OwnerInv
  <2>4. \A u \in Threads : pc'[u] \in Creating => ~loggers'[call'[u].logger].closed
    BY <1>1, <1>7, <1>10 DEF ClosedInv, OwnerInv
  <2>. QED
    BY <2>1, <2>2, <2>3, <2>4 DEF ClosedInv
<1>. QED
  BY <1>8, <1>9, <1>12, <1>13

LEMMA InitIInv == Init => IInv
<1> SUFFICES ASSUME Init PROVE IInv
  OBVIOUS
<1>1. Len(<<Fresh(DefaultKey)>>) = 1 /\ Len(<< >>) = 0
  OBVIOUS
<1>2. TypeOK
  <2>1. <<Fresh(DefaultKey)>> \in Seq([key : Keys, named : BOOLEAN, level : {"local", "central"}])
    <3>1. Fresh(DefaultKey) \in [key : Keys, named : BOOLEAN, level : {"local", "central"}]
      BY BootstrapAssumption DEF Fresh
    <3>. QED
      BY <3>1
  <2>2. \A S : << >> \in Seq(S)
    OBVIOUS
  <2>3. Idle \in [builder : Builders \cup {NoBuilder}, options : 0..Len(objects),
                  logger : 0..Len(loggers), components : 0..Len(components)]
    BY <1>1 DEF Init, Idle
  <2>4. /\ loggers \in Seq([options : 0..Len(objects), mode : {"deferred", "discarded", "active"},
                            closed : BOOLEAN])
        /\ components \in Seq([logger : 1..Len(loggers), options : 1..Len(objects),
                               phase : {"live", "gated", "removed", "disposed"}])
        /\ registered \in [Services -> Seq(1..Len(components))]
    BY <2>2 DEF Init
  <2>5. calls \in 0..MaxCalls
    BY BootstrapAssumption DEF Init
  <2>. QED
    BY <1>1, <2>1, <2>3, <2>4, <2>5 DEF Init, TypeOK
<1>3. LockInv /\ ConfiguredInv
  BY <1>1, BootstrapAssumption DEF Init, LockInv, ConfiguredInv, Creating, Bootstrapping
<1>4. ServicesInv
  BY <1>1 DEF Init, ServicesInv, OneComponentsPerServices, Creating
<1>5. OwnerInv /\ ClosedInv
  BY <1>1 DEF Init, OwnerInv, LoggersNotShared, ClosedInv, Creating
<1>. QED
  BY <1>2, <1>3, <1>4, <1>5 DEF IInv

LEMMA NextIInv == IInv /\ [Next]_vars => IInv'
<1> SUFFICES ASSUME IInv, [Next]_vars PROVE IInv'
  OBVIOUS
<1>1. ASSUME NEW t \in Threads, NEW b \in Builders, WithElasticDefaults(t, b) PROVE IInv'
  BY <1>1, WithElasticDefaultsIInv
<1>2. ASSUME NEW t \in Threads, PluginBootstrap(t) PROVE IInv'
  BY <1>2, PluginBootstrapIInv
<1>3. ASSUME NEW t \in Threads, Step(t) PROVE IInv'
  <2>1. CASE WithElasticDefaultsCore(t) \/ TryGetBuilderState(t) \/ EnterSignalLock(t)
    BY <2>1, WithElasticDefaultsCoreIInv, TryGetBuilderStateIInv, EnterSignalLockIInv
  <2>2. CASE BootstrapReuse(t) \/ BootstrapCreate(t)
    BY <2>2, BootstrapReuseIInv, BootstrapCreateIInv
  <2>3. CASE ResolveServiceIdentity(t) \/ FetchCentralConfiguration(t) \/ ActivateLogger(t)
    BY <2>3, ResolveServiceIdentityIInv, FetchCentralConfigurationIInv, ActivateLoggerIInv
  <2>4. CASE AddComponents(t) \/ CreateFails(t)
    BY <2>4, AddComponentsIInv, CreateFailsIInv
  <2>5. CASE ConfigureBuilder(t) \/ StoreBuilderState(t)
    BY <2>5, ConfigureBuilderIInv, StoreBuilderStateIInv
  <2>. QED
    BY <1>3, <2>1, <2>2, <2>3, <2>4, <2>5 DEF Step
<1>4. ASSUME NEW l \in 1..Len(loggers), SafetyTimer(l) PROVE IInv'
  BY <1>4, SafetyTimerIInv
<1>5. ASSUME NEW c \in 1..Len(components), Dispose(c) PROVE IInv'
  BY <1>5, DisposeIInv
<1>6. CASE UNCHANGED vars
  BY <1>6 DEF vars, loggerVars, sharedVars, builderVars, locks, IInv, TypeOK, LockInv, ConfiguredInv,
              ServicesInv, OneComponentsPerServices, CallServices, OwnerInv, LoggersNotShared, ClosedInv
<1>. QED
  BY <1>1, <1>2, <1>3, <1>4, <1>5, <1>6 DEF Next

-----------------------------------------------------------------------------
(* The theorems *)

\* The inductive invariant holds in every reachable state.
THEOREM Invariance == Spec => []IInv
<1>1. Init => IInv
  BY InitIInv
<1>2. IInv /\ [Next]_vars => IInv'
  BY NextIInv
<1>. QED
  BY <1>1, <1>2, PTL DEF Spec

\* Every reference to an options object, a logger or components is to one that
\* exists, whatever the calls, timers and disposals.
THEOREM TypeCorrect == Spec => []TypeOK
<1>1. IInv => TypeOK
  BY DEF IInv
<1>. QED
  BY <1>1, Invariance, PTL

\* However many threads register EDOT on a builder, configureBuilder runs on it once,
\* and again only after it threw: the second look into BuilderStateTable is under
\* SignalBuilder.Lock, and the entry is made before the lock is released.
THEOREM BuildersConfiguredOnce == Spec => []ConfiguredOnce
<1>1. IInv => ConfiguredOnce
  <2> SUFFICES ASSUME IInv, NEW b \in Builders PROVE configured[b] <= failed[b] + 1
    BY DEF ConfiguredOnce
  <2>1. configured[b] \in Nat /\ failed[b] \in Nat
    BY DEF IInv, TypeOK
  <2>2. CASE table[b] # 0 \/ \E t \in Threads : pc[t] = "store" /\ call[t].builder = b
    BY <2>1, <2>2 DEF IInv, ConfiguredInv
  <2>3. CASE table[b] = 0 /\ \A t \in Threads : ~(pc[t] = "store" /\ call[t].builder = b)
    BY <2>1, <2>3 DEF IInv, ConfiguredInv
  <2>. QED
    BY <2>2, <2>3
<1>. QED
  BY <1>1, Invariance, PTL

\* A service collection gets one set of components, which all builders configured
\* with it use.
THEOREM ServicesHaveOneComponents == Spec => []OneComponentsPerServices
<1>1. IInv => OneComponentsPerServices
  BY DEF IInv, ServicesInv
<1>. QED
  BY <1>1, Invariance, PTL

\* No two sets of components own the same logger: GetOrCreate hands out a logger only
\* until it is active, and components are created with an active one.
THEOREM ComponentsOwnLoggers == Spec => []LoggersNotShared
<1>1. IInv => LoggersNotShared
  BY DEF IInv, OwnerInv
<1>. QED
  BY <1>1, Invariance, PTL

\* What Bootstrap finds in SharedComponents has an open logger: components leave the
\* set before their parts are disposed, and the logger is theirs alone.
THEOREM SharedComponentsOpen == Spec => []SharedComponentsUsable
<1>1. IInv => SharedComponentsUsable
  BY TypedComponents DEF IInv, ClosedInv, SharedComponentsUsable
<1>. QED
  BY <1>1, Invariance, PTL

\* The two locks cannot deadlock: ElasticOpenTelemetry.Lock is taken inside
\* SignalBuilder.Lock, never the other way round, and its owner waits for no lock.
THEOREM NoLockDeadlock == Spec => []RegistrationsProceed
<1>1. IInv => RegistrationsProceed
  <2> SUFFICES ASSUME IInv, NEW t \in Threads, pc[t] # "idle"
               PROVE  \E u \in Threads : pc[u] # "idle" /\ ~Blocked(u)
    BY DEF RegistrationsProceed
  <2>1. signalLock \in Threads \cup {NoThread} /\ bootstrapLock \in Threads \cup {NoThread}
    BY Typed DEF IInv
  <2>2. CASE bootstrapLock # NoThread
    <3>1. pc[bootstrapLock] \in Creating /\ bootstrapLock \in Threads
      BY <2>1, <2>2 DEF IInv, LockInv
    <3>. QED
      BY <3>1 DEF Blocked, Creating
  <2>3. CASE bootstrapLock = NoThread /\ signalLock # NoThread
    <3>1. pc[signalLock] \in Bootstrapping /\ signalLock \in Threads
      BY <2>1, <2>3 DEF IInv, LockInv
    <3>. QED
      BY <2>3, <3>1 DEF Blocked, Bootstrapping, Creating
  <2>4. CASE bootstrapLock = NoThread /\ signalLock = NoThread
    BY <2>4 DEF Blocked
  <2>. QED
    BY <2>2, <2>3, <2>4
<1>. QED
  BY <1>1, Invariance, PTL

=============================================================================
