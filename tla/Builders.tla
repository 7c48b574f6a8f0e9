------------------------------ MODULE Builders ------------------------------
(***************************************************************************)
(* What WithElasticDefaults registers on the builders of one service       *)
(* collection, and in which order: the EDOT defaults of each signal, what  *)
(* the callback of the user adds, and the OTLP exporter. The calls come    *)
(* from the start-up code of the application, one after the other or, in a *)
(* callback, one inside the other: stack holds the calls under way, all    *)
(* inside SignalBuilder.Lock, which is re-entrant. Calls of several        *)
(* threads are the subject of Bootstrap.                                   *)
(*                                                                         *)
(* A builder object is numbered by its creation; the SDK makes a new one   *)
(* for each AddOpenTelemetry and each WithTracing, WithMetrics or          *)
(* WithLogging, and all of them write to the pipelines of the collection.  *)
(* SharedComponents are found by equal options, so components are          *)
(* represented by their options.                                           *)
(***************************************************************************)
EXTENDS Naturals, Sequences, FiniteSets, SequencesExt

CONSTANTS
  SignalOrder,  \* the signals, in the order ConfigureBuilder takes them
  Settings,     \* options: the enabled signals and SkipOtlpExporter
  Default,      \* CompositeElasticOpenTelemetryOptions.DefaultOptions
  Null,         \* the null reference
  MaxCalls,     \* bound on the number of calls, nested ones included
  MaxAdditions  \* bound on the number of entries the callbacks add

Signals == ToSet(SignalOrder)

\* ConfigureBuilder takes each signal once; "any" is the kind of the builder of all.
ASSUME SignalsAssumption ==
  /\ SignalOrder \in Seq(Signals)
  /\ IsInjective(SignalOrder)
  /\ "any" \notin Signals

ASSUME BuildersAssumption ==
  /\ Settings \subseteq [signals : SUBSET Signals, skip : BOOLEAN]
  /\ Default \in Settings
  /\ Null \notin Settings
  /\ MaxCalls \in Nat /\ MaxAdditions \in Nat

VARIABLES
  objects,    \* the builder objects: kind, and the builder their entries are counted for
  table,      \* BuilderStateTable: the components of each builder, or Null
  registered, \* the components in the service collection, or Null
  pipeline,   \* what has been registered for each signal, in order
  stack,      \* the calls under way, the innermost first
  refused,    \* history: builders whose BuilderStateTable.Add has thrown
  reentered,  \* history: builders that a call inside their own callback has configured
  calls       \* calls made so far

vars == <<objects, table, registered, pipeline, stack, refused, reentered, calls>>

Frame ==
  [builder    : 1..Len(objects),
   components : Settings,
   user       : BOOLEAN,  \* a UserProvidedConfigureBuilder is given
   defer      : BOOLEAN,  \* DeferAddOtlpExporter
   todo       : {SubSeq(SignalOrder, i, Len(SignalOrder)) : i \in 1..Len(SignalOrder) + 1},
   at         : {"defaults", "callback", "export", "store"}]

TypeOK ==
  /\ objects \in Seq([kind : Signals \cup {"any"}, root : 1..Len(objects)])
  /\ table \in Seq(Settings \cup {Null})
  /\ Len(table) = Len(objects)
  /\ registered \in Settings \cup {Null}
  /\ pipeline \in [Signals -> Seq([step : {"defaults", "user", "exporter"}, by : 1..Len(objects)])]
  /\ stack \in Seq(Frame)
  /\ refused \subseteq 1..Len(objects) /\ reentered \subseteq 1..Len(objects)
  /\ calls \in 0..MaxCalls

Init ==
  /\ objects = << >>
  /\ table = << >>
  /\ registered = Null
  /\ pipeline = [s \in Signals |-> << >>]
  /\ stack = << >>
  /\ refused = {}
  /\ reentered = {}
  /\ calls = 0

Top == Head(stack)
TopObject == objects[Top.builder]

\* The code of the application has the floor: outside all calls or in a callback.
UserRuns == stack # << >> => Top.at = "callback"

Goto(at) == stack' = [stack EXCEPT ![1].at = at]

\* The entries of step, for the signals ss, made by the call on top.
Add(step, ss) ==
  pipeline' = [s \in Signals |->
                 IF s \in ss THEN Append(pipeline[s], [step |-> step, by |-> TopObject.root])
                             ELSE pipeline[s]]

-----------------------------------------------------------------------------
(* SignalBuilder.WithElasticDefaults *)

\* ElasticOpenTelemetry.Bootstrap: the components of the services, or components
\* with these options, which are then added to the services.
Bootstrap(o, inServices) == IF inServices /\ registered # Null THEN registered ELSE o

\* A new builder object of a kind, counted for root or for itself if that is 0.
NewObject(kind, root) ==
  /\ objects' = Append(objects, [kind |-> kind, root |-> IF root = 0 THEN Len(objects) + 1 ELSE root])
  /\ table' = Append(table, Null)

\* Inside the lock, for a builder that is not in the table: options or
\* DefaultOptions, Bootstrap, and configureBuilder begins.
Begin(b, o, inServices, user, defer) ==
  LET components == Bootstrap(IF o = Null THEN Default ELSE o, inServices) IN
  /\ registered' = IF inServices THEN components ELSE registered
  /\ stack' = <<[builder |-> b, components |-> components, user |-> user, defer |-> defer,
                 todo |-> SignalOrder, at |-> "defaults"]>> \o stack

\* Nothing is configured: the builder has its state, or no signal is enabled.
Skip == UNCHANGED <<registered, stack>>

\* The application calls WithElasticDefaults on an IOpenTelemetryBuilder, a new
\* one or one it has kept; without enabled signals that does nothing.
WithElasticDefaults(b, o, user) ==
  /\ UserRuns
  /\ calls < MaxCalls
  /\ calls' = calls + 1
  /\ IF b > Len(objects)
     THEN NewObject("any", 0)
     ELSE objects[b].kind = "any" /\ UNCHANGED <<objects, table>>
  /\ IF o.signals = {} \/ (b <= Len(objects) /\ table[b] # Null)
     THEN Skip
     ELSE Begin(b, o, TRUE, user, FALSE)
  /\ UNCHANGED <<pipeline, refused, reentered>>

\* The application calls WithElasticDefaults on the builder of a signal, or one of
\* WithElasticTracing, WithElasticMetrics and WithElasticLogging, which pass the
\* services along. Null options count as all signals enabled.
WithElasticSignal(b, s, o, inServices, user) ==
  /\ UserRuns
  /\ calls < MaxCalls
  /\ calls' = calls + 1
  /\ IF b > Len(objects)
     THEN NewObject(s, 0)
     ELSE objects[b] = [kind |-> s, root |-> b] /\ ~inServices /\ UNCHANGED <<objects, table>>
  /\ IF (o # Null /\ s \notin o.signals) \/ (b <= Len(objects) /\ table[b] # Null)
     THEN Skip
     ELSE Begin(b, o, inServices, user, FALSE)
  /\ UNCHANGED <<pipeline, refused, reentered>>

\* BuilderStateTable.Add after configureBuilder; it throws if the callback has
\* called WithElasticDefaults on the same builder.
StoreBuilderState ==
  /\ stack # << >>
  /\ Top.at = "store"
  /\ IF table[Top.builder] = Null
     THEN /\ table' = [table EXCEPT ![Top.builder] = Top.components]
          /\ reentered' = reentered \cup ({Top.builder} \cap {stack[i].builder : i \in 2..Len(stack)})
          /\ UNCHANGED refused
     ELSE refused' = refused \cup {Top.builder} /\ UNCHANGED <<table, reentered>>
  /\ stack' = Tail(stack)
  /\ UNCHANGED <<objects, registered, pipeline, calls>>

-----------------------------------------------------------------------------
(* ConfigureBuilder of OpenTelemetryBuilderExtensions *)

\* Mutant of ConfigureSignals: the exporter is not deferred.
ConfigureSignalsUndeferred ==
  /\ stack # << >>
  /\ TopObject.kind = "any"
  /\ Top.at = "defaults"
  /\ Top.todo # << >>
  /\ LET s == Head(Top.todo)
         rest == [stack EXCEPT ![1].todo = Tail(@)] IN
     IF s \in Top.components.signals
     THEN /\ NewObject(s, Top.builder)
          /\ stack' = <<[builder |-> Len(objects) + 1, components |-> Top.components, user |-> FALSE,
                         defer |-> FALSE, todo |-> SignalOrder, at |-> "defaults"]>> \o rest
     ELSE stack' = rest /\ UNCHANGED <<objects, table>>
  /\ UNCHANGED <<registered, pipeline, refused, reentered, calls>>

\* The next signal: if it is enabled, WithElasticDefaults on a new builder of it,
\* with the components at hand; its exporter is deferred if a callback is to run.
ConfigureSignals ==
  /\ stack # << >>
  /\ TopObject.kind = "any"
  /\ Top.at = "defaults"
  /\ Top.todo # << >>
  /\ LET s == Head(Top.todo)
         rest == [stack EXCEPT ![1].todo = Tail(@)] IN
     IF s \in Top.components.signals
     THEN /\ NewObject(s, Top.builder)
          /\ stack' = <<[builder |-> Len(objects) + 1, components |-> Top.components, user |-> FALSE,
                         defer |-> Top.user, todo |-> SignalOrder, at |-> "defaults"]>> \o rest
     ELSE stack' = rest /\ UNCHANGED <<objects, table>>
  /\ UNCHANGED <<registered, pipeline, refused, reentered, calls>>

\* All signals are done; without a callback so is the builder.
SignalsConfigured ==
  /\ stack # << >>
  /\ TopObject.kind = "any"
  /\ Top.at = "defaults"
  /\ Top.todo = << >>
  /\ Goto(IF Top.user THEN "callback" ELSE "store")
  /\ UNCHANGED <<objects, table, registered, pipeline, refused, reentered, calls>>

\* HandleOtlpExporter of each enabled signal, once the callback has returned.
HandleOtlpExporter ==
  /\ stack # << >>
  /\ TopObject.kind = "any"
  /\ Top.at = "export"
  /\ Add("exporter", IF Top.components.skip THEN {} ELSE Top.components.signals)
  /\ Goto("store")
  /\ UNCHANGED <<objects, table, registered, refused, reentered, calls>>

-----------------------------------------------------------------------------
(* ConfigureBuilder of the Tracer-, Meter- and LoggerProviderBuilderExtensions *)

\* Resource, sources, meters and instrumentation: the defaults of the signal.
ConfigureSignal ==
  /\ stack # << >>
  /\ TopObject.kind # "any"
  /\ Top.at = "defaults"
  /\ Add("defaults", {TopObject.kind})
  /\ Goto(IF Top.user THEN "callback" ELSE "export")
  /\ UNCHANGED <<objects, table, registered, refused, reentered, calls>>

\* The exporter, unless the caller adds it later or the options say not to.
AddOtlpExporter ==
  /\ stack # << >>
  /\ TopObject.kind # "any"
  /\ Top.at = "export"
  /\ Add("exporter", IF Top.defer \/ Top.components.skip THEN {} ELSE {TopObject.kind})
  /\ Goto("store")
  /\ UNCHANGED <<objects, table, registered, refused, reentered, calls>>

-----------------------------------------------------------------------------
(* The callback of the user *)

\* What callbacks have registered so far.
Additions ==
  UNION {{<<s, i>> : i \in {j \in 1..Len(pipeline[s]) : pipeline[s][j].step = "user"}} : s \in Signals}

\* Callbacks are running, the innermost of them with the floor: it registers
\* something on its builder or on one around it, as often as it likes, before and
\* after the calls it makes.
RunCallback ==
  /\ stack # << >>
  /\ UserRuns
  /\ Cardinality(Additions) < MaxAdditions
  /\ \E i \in 1..Len(stack), s \in Signals :
       LET b == stack[i].builder IN
       /\ objects[b].kind \in {s, "any"}
       /\ pipeline' = [pipeline EXCEPT ![s] = Append(@, [step |-> "user", by |-> objects[b].root])]
  /\ UNCHANGED <<objects, table, registered, stack, refused, reentered, calls>>

CallbackReturns ==
  /\ stack # << >>
  /\ Top.at = "callback"
  /\ Goto("export")
  /\ UNCHANGED <<objects, table, registered, pipeline, refused, reentered, calls>>

\* Mutant of CallbackThrows: the exporter is added all the same.
CallbackThrowsExported ==
  /\ stack # << >>
  /\ Top.at = "callback"
  /\ Add("exporter", IF Top.components.skip THEN {} ELSE Top.components.signals)
  /\ stack' = Tail(stack)
  /\ UNCHANGED <<objects, table, registered, refused, reentered, calls>>

\* It throws, or lets an exception of a nested call through. The code around the call,
\* an outer callback or the application, goes on and may try again.
CallbackThrows ==
  /\ stack # << >>
  /\ Top.at = "callback"
  /\ stack' = Tail(stack)
  /\ UNCHANGED <<objects, table, registered, pipeline, refused, reentered, calls>>

-----------------------------------------------------------------------------

Next ==
  \/ \E b \in 1..Len(objects) + 1, o \in Settings, user \in BOOLEAN : WithElasticDefaults(b, o, user)
  \/ \E b \in 1..Len(objects) + 1, s \in Signals, o \in Settings \cup {Null}, inServices, user \in BOOLEAN :
       WithElasticSignal(b, s, o, inServices, user)
  \/ ConfigureSignals \/ SignalsConfigured \/ HandleOtlpExporter
  \/ ConfigureSignal \/ AddOtlpExporter
  \/ RunCallback \/ CallbackReturns \/ CallbackThrows
  \/ StoreBuilderState

Spec == Init /\ [][Next]_vars

-----------------------------------------------------------------------------
(* Properties. *)

\* Builders the application has configured, with no call on them under way.
Settled ==
  {b \in 1..Len(objects) :
     /\ objects[b].root = b
     /\ table[b] # Null
     /\ \A i \in 1..Len(stack) : stack[i].builder # b}

\* The signals a builder is for.
Covers(b) == IF objects[b].kind = "any" THEN table[b].signals ELSE {objects[b].kind}

Entries(b, s) == {i \in 1..Len(pipeline[s]) : pipeline[s][i].by = b}

Exporters(b, s) == Cardinality({i \in 1..Len(pipeline[s]) : pipeline[s][i] = [step |-> "exporter", by |-> b]})

\* Telemetry is exported once per configured builder: each signal it covers has
\* one exporter of it, and none if SkipOtlpExporter is set, whatever the callback
\* did, also if an earlier call on the builder failed in its callback. A builder
\* that was configured inside its own callback has more, and the application has
\* had an exception for it.
ExportedOnce ==
  \A b \in Settled \ refused : \A s \in Signals :
    Exporters(b, s) = IF s \in Covers(b) /\ ~table[b].skip THEN 1 ELSE 0

\* The callback can rely on the defaults and the exporter sees all that it added:
\* in the signals a builder covers its defaults are first, and nothing of it comes
\* after its exporter. The second part is not for a builder that a call inside its
\* own callback has configured, since the callback may go on after that call.
CustomisedInBetween ==
  \A b \in Settled : \A s \in Covers(b) :
    /\ \E first \in Entries(b, s) :
         pipeline[s][first].step = "defaults" /\ \A i \in Entries(b, s) : first <= i
    /\ b \notin reentered =>
         \A i, j \in Entries(b, s) : i < j => pipeline[s][i].step # "exporter"

=============================================================================
