# Models of the Elastic Distribution of OpenTelemetry .NET

TLA+ specifications of the parts of EDOT .NET that are hard to test: how the
distribution starts up next to an application, how it logs while it does, how it
talks to an OpAMP server for its first configuration, and how all of that is
shut down again. Each module follows the C# under `src/src/`; `PROJECT.json`
lists, definition by definition, the lines it stands for.

Check a run with `tlc -config <cfg> <module>`, the proofs with `tlapm <module>`.

## The system

EDOT .NET wraps the OpenTelemetry SDK. An application calls
`WithElasticDefaults` on one or more builders, or the auto-instrumentation
plugin is loaded into it. Either way the code

1. builds a `CompositeElasticOpenTelemetryOptions` from environment variables,
   `IConfiguration` and user options,
2. obtains a `CompositeLogger`, which queues entries until it is known where to
   log to,
3. enters `ElasticOpenTelemetry.Bootstrap`, which finds or creates the
   components for the options,
4. while creating them, starts an OpAMP client on a thread of its own and waits a
   bounded time for the first central configuration,
5. activates the logger (a file, the console, a user's logger) with the final
   options, and
6. configures the builder: instrumentation, processors, exporters.

`ElasticOpenTelemetryService` disposes the components when the host stops.

| Component | State | Operations | Interacts with |
|---|---|---|---|
| `CentralConfiguration` | the client, its start outcome, the first configuration, a dispose gate | constructor with `StartClient` and its worker thread, `WaitForFirstConfig`, `TryGetInitialConfig`, `Dispose(Async)`, the subscriber's `HandleMessage` | OpAMP client (library), called by `CreateComponents` |
| `CompositeLogger` | deferred queue, activation state, sub-loggers, options, safety timer, the static pre-activation instance | `Log`, `GetOrCreate`, `Activate`, timer callback, `Dispose(Async)` | everything logs through it; owns `FileLogger` |
| `FileLogger` | line queue, semaphore, cancellation, stream, writing task | `Log`, `WritingTask`, `Dispose(Async)` | `CompositeLogger` |
| `ElasticOpenTelemetry`, `SignalBuilder`, `ElasticOpenTelemetryComponents` | `SharedComponents`, `BuilderStateTable`, two locks, registrations in service collections | `WithElasticDefaults`, `Bootstrap`, `CreateComponents`, `Dispose(Async)` | all of the above |
| `CompositeElasticOpenTelemetryOptions` | one `ConfigCell` per setting, cached OpAMP answer | constructors, `ResolveOpAmpServiceIdentity`, `IsOpAmpEnabled`, `SetLogLevelFromCentralConfig`, getters | read by all, changed by `CreateComponents` |
| OpAMP adapter (`RemoteConfigMessageListener`, `CentralConfigJsonParser`, `ElasticOpAmpClient`) | subscriber list | `HandleMessage`, `TryParseLogLevel`, `Subscribe` | called by the OpAMP client's threads, calls `CentralConfiguration`'s subscriber |
| `LoggingEventListener` | sources seen before the constructor, subscribed sources, level | constructor, `OnEventSourceCreated`, `OnEventWritten`, `Dispose` | called back by the runtime on any thread, logs through `CompositeLogger` |
| Builder extensions (`OpenTelemetryBuilderExtensions`, one per signal) | what is registered in a service collection | `WithElasticDefaults` with its overloads, `WithElasticTracing` and its like | run user callbacks inside `SignalBuilder`'s lock, which may call back in |
| Span processors, exporters, instrumentation tables, `BootstrapLogger`, load context | little or none | | not modelled (see below) |

What is hard here: six kinds of threads (application threads that register or
log, the OpAMP worker, message deliveries, the safety timer, the writing task,
and threads that create event sources)
meet in objects that are published before they are complete, adopted from a
static field and torn down by whoever comes first; timeouts (start, first
configuration, safety timer, drain on dispose) race with late answers; an
options object is compared for equality and changed in place. `PROJECT.json`
lists each hazard at its line with the property that covers it.

## Modules

| Module | Models | Runs |
|---|---|---|
| `CentralConfiguration`, `MCCentralConfiguration` | `CentralConfiguration.cs` | `central_config`, `central_config_orphan` |
| `CentralConfigurationProofs` | its safety, alone and behind the listener, for all constants | (tlapm) |
| `CentralConfigJsonParser` | `CentralConfigJsonParser.cs` as operators, with a reference | `central_config` |
| `CentralConfigJsonParserProofs` | the parser agrees with the reference, on every document | (tlapm) |
| `RemoteConfigMessageListener` | `RemoteConfigMessageListener.cs`, composed with `CentralConfiguration` and the parser | `central_config`, `central_config_orphan` |
| `AbstractLogger` | what a logger promises | `composite_logger` (refinement) |
| `CompositeLogger`, `MCCompositeLogger` | `CompositeLogger.cs`, one instance | `composite_logger` |
| `CompositeLoggerProofs` | its safety and the refinement of `AbstractLogger` | (tlapm) |
| `FileLogger`, `MCFileLogger` | `FileLogger.cs` | `file_logger`, `file_logger_flush` |
| `FileLoggerProofs` | its safety and the refinement of `AbstractLogger` | (tlapm) |
| `Bootstrap`, `MCBootstrap` | `SignalBuilder.cs`, `ElasticOpenTelemetry.cs`, `ElasticOpenTelemetryComponents.cs`, the entry of the builder extensions and of the plugin | `bootstrap`, `bootstrap_isolated_logger`, `bootstrap_shared_components` |
| `BootstrapProofs` | its safety | (tlapm) |
| `CompositeOptions`, `MCCompositeOptions` | `CompositeElasticOpenTelemetryOptions.cs`, `ConfigCell.cs`, the parsers | `options`, `options_metrics_switch` |
| `CompositeOptionsProofs` | its safety and the stable identity | (tlapm) |
| `LoggingEventListener`, `MCLoggingEventListener` | `LoggingEventListener.cs` | `event_listener` |
| `LoggingEventListenerProofs` | its safety | (tlapm) |
| `Builders`, `MCBuilders` | the `ConfigureBuilder` methods of the builder extensions, `SignalBuilder.WithElasticDefaults` for nested calls | `builders` |
| `BuildersProofs` | its safety | (tlapm) |

**CentralConfiguration.** `callerPc`, `workerPc`, `disposerPc` and `delivererPc`
say where the constructing thread, the worker, the disposing and the delivering
threads are;
`client` is the field `_client` (the created client or the empty one), `outcome`
the worker's `StartOutcome`, `cts` the token source, `initialConfig` and
`firstConfigTask` what the subscriber publishes. `stoppedBy` and `disposedBy` are
history: who stopped and disposed the created client. The OpAMP client is
external: `StartAsync`, `StopAsync` and `Dispose` succeed, fail or (the first
two) hang.

**RemoteConfigMessageListener** extends this module: `HandleMessage` of the
listener comes in front of `HandleMessage` of the subscriber, and a configuration
is the text the parser extracts from a body. A document is the sequence of its
members in the order of the text, at any depth: each has a key, a value (a
string, an object, or something else of no interest to the parser) and the number
of objects that end behind it. Bodies are token sequences rendered from documents,
whole or cut off anywhere; `LogLevelOf` says what the sender asked for without
parsing.
`announced` and `owed` are history: what messages asked for, and whether a
complete one did. There is one subscriber, added before the client starts, so
the retry loop of `Subscribe` has no rival and is left out.

**CompositeLogger.** One instance, seen by logging threads, bootstrap threads
(`GetOrCreate`, then `Activate`), the timer and a disposal. `queue` is
`_deferredQueue` as a set of entries, `deferred` whether the field is non-null,
`activationState` the field of that name. `delivered`, `dropped` and `discarded` record
what became of entries. A step is what the code does between two points where
another thread can interfere: the unlocked reads at the head of `Log`, the
section under `_activationLock`, each dequeue of the drain.

**AbstractLogger** knows neither threads nor queues: an entry is accepted, and
then written once or lost; nothing is lost before the logger is closing, and no
entry is left over. `CompositeLogger` maps its entries to it: accepted is what
Log was called with, written what was delivered, lost what was dropped or
discarded; closing is set by disposal or by the timer giving up. `FileLogger`
maps its lines to the same specification; there closing is set by disposal or by
a failed write.

**FileLogger.** The queue, the semaphore count, the cancellation flag and the
stream, with the writing task taking one line at a time. `remaining` is
history: what was queued when the writing task left its main loop.

**Bootstrap.** Objects are numbered as they are created. An options object is
its configuration (`key`), whether the service name was filled in, and the log
level: what `Equals` compares and bootstrap changes. The two locks are owners;
`GetOrCreate`, `Activate` and the timer callback are single steps, because
`CompositeLogger` shows what their interleavings preserve.

**CompositeOptions.** One options object, from raw values through parsers and
`ConfigCell.Assign` to the getters, and then the steps `CreateComponents`
performs on it, repeated for every bootstrap it is given to.

**LoggingEventListener.** One listener under construction, and a thread for each
event source that may be created before, during or after it. `runtimeLock` is
the runtime's `EventListenersLock`, which is held around the callbacks; `lock` is
`_lock`. `before`, `beforeNull` and `subscribed` are the two lists, `enabled` the
level `EnableEvents` was called with. The base class and the dispatch of events
belong to the runtime and are modelled from its documented behaviour. Of the
logger it has what `CompositeLogger.IsEnabled` looks at: whether the console or
the file logger writes (`writes`, at the level of the options), whether entries
are still deferred, and the level of the additional logger, which comes with
the options (`EndDeferral`) or from the host (`SetAdditionalLogger`) and goes when
the components dispose of the logger.

**Builders.** The calls of the start-up code on one service collection, with a
call stack, because a callback runs inside the call and can make calls of its
own or throw. `pipeline` is what is registered for each signal, in order; an
entry carries the builder it is counted for. Shared components are found by
equal options, so components are represented by their options here. What the
defaults of a signal consist of is one entry. A callback may register something
at any moment, before, between and after its own calls, and on the builder of
any call it runs inside. `reentered` is history: the builders that a call inside
their own callback has configured.

## Runs

| Run | Question | Result |
|---|---|---|
| `central_config` | Is the client started, retained, stopped and disposed by one owner at a time; is the first configuration there when announced and one the server asked for, also with lookalike keys, escapes and truncated bodies; do bootstrap, `Dispose` and (with a client that honours its token) the worker finish? | holds |
| `central_config_orphan` | Is a client whose start succeeds after the caller gave up cleaned up, as the comment says? | violated: the worker may look at `_client` after `Join` timed out and before the caller has replaced it |
| `composite_logger` | Does the hand-over from queue to sub-loggers keep every entry, exactly once; are sub-loggers created once; does the deferral end; does the logger implement `AbstractLogger`? | holds |
| `file_logger` | Are lines kept exactly once, wake-ups never lost, the writing task never broken by disposal; does disposal end although a write hangs? | holds |
| `file_logger_flush` | Are the remaining lines flushed before the task exits, as the comment says? | violated: `Dispose` has set its flag before it cancels, so the flush loop takes one line, sees the flag, and returns without writing it or the rest |
| `bootstrap` | Is a builder configured once, is there one set of components per service collection, one logger per set, none in reach that is closed, and can one of the registrations under way always go on? | holds |
| `bootstrap_isolated_logger` | Is the isolated logger only for other options, as the comment says? | violated without OpAMP: the stored instance is active, so it is never compatible |
| `bootstrap_shared_components` | Do the same user options find the shared components, as the test's comment says? | violated once bootstrap has changed the stored options |
| `options` | Do the sources combine in their order, over the defaults of the code; are identity and cached answer stable; do switches do as they are told; is a log opened when, and only when, the winning sources ask for it? | holds |
| `options_metrics_switch` | Is the environment switch for metrics respected? | violated when it is the only one given |
| `event_listener` | Does a callback ever meet a half-constructed listener; is every source subscribed to once, at a level that cuts off nothing at or above the level of the options; can construction and creation of sources wait for each other for ever? | holds: no, yes, no |
| `builders` | Has each configured builder one exporter per signal, its defaults first and what its callback adds in between, whenever callbacks register and whatever they call or throw? | holds; a builder configured inside its own callback is the exception, see "Divergences without a run" |

### Bounds

* `central_config`: three disposing threads (one passes the gate, two do not),
  two deliveries with two configurations (one is first). There is one caller and
  one worker per object in the code. The 111 documents have up to two members at
  the top, objects two levels deep, and keys and values with the name searched for
  in them, with and without blanks around colons; messages that lead to the same
  finding are one. 167 000 states.
* `composite_logger`: two logging threads with an entry each, two bootstrap
  threads and the timer: an entry before and one after any step of the
  activation, and two losing activations. A second entry of a thread takes the
  same steps as the first one of another; what is about safety is proved for any
  number of both. 45 000 states.
* `file_logger`: three logging threads with a line each and two disposals. Lines
  are interchangeable and the queue is a set, so a second line of a thread adds
  nothing a second thread does not. 173 000 states.
* `bootstrap`: two calls at a time on three builders, two of which share a
  service collection, with plain, OpAMP (named by its resource attributes),
  nameless OpAMP and switched-off configurations. Two calls are the least with
  which components can be shared. 1.1 million states up to symmetry of threads
  and of the two builders.
* `options`: settings that do not influence each other are varied group by group
  (logging, identity, switches, a plain one), every source of a group at once,
  each with valid, invalid and absent values; any number of bootstraps.
  757 000 states.
* `event_listener`: three sources of OpenTelemetry and one other, each there from
  the beginning or created at any time, every log level of the options. Two
  sources are needed for a creator to overtake the loop of the constructor, a
  third for one to come after it. The additional logger has level Debug: below,
  at and above those of the options. 285 000 states.
* `builders`: three calls, nested or in sequence, over traces and metrics (logs
  take the same path), with both, one and no signal enabled and with
  `SkipOtlpExporter`. Three calls are enough for a failed call, a call inside the
  callback of its repetition, and a return to a builder already configured.
  Callbacks add up to two entries (`MaxAdditions`): one before and one after a
  call they make. 1.46 million states.

The violation runs use the smallest instances that show the case. Deadlock
checking is off where all threads come to an end; `options` never stops.

### Fairness

Threads inside a call of this code keep running (weak fairness per thread), as
the scheduler provides, and timers and timeouts expire. Nothing is assumed of
what belongs to others: the arrival of messages, the creation of event sources,
calls of `Log`, `Dispose` or `WithElasticDefaults`, the end of `StartAsync` or of
a write. `WorkerEnds` and `LinesWritten` need more and say so in their premises:
a client that ends `StartAsync` after cancellation, a writing task that keeps
running.

## Proofs

Eight modules hold the theorems that matter, for all sets of threads, entries,
lines, configurations, builders, sources, signals and settings. Each component
has an inductive invariant `IInv`, a theorem `Spec => []IInv`, and from it type
correctness and every safety property of its run. `Builders` has a second one on
top of the first. Three theorems are about
refinement, three about action properties. The module about the parser is about
operators and has no invariant.

* *CentralConfiguration.* That nobody tears the client down twice rests on who
  holds it. `WorkerInv` ties the worker's position to its outcome and to the
  calls it has made, and says that after a success it acts on the client only
  when the caller has swapped it away; `CallerInv` says that a client kept past
  `Join` belongs to a worker that has ended with success; `DisposerInv` that one
  thread passes the gate and only for a kept client; `ConfigInv` that a
  configuration is there before anything announces it. `FirstConfigWins` is an
  action property and follows from the guard of `HandleMessage`.
* *CompositeLogger.* Conservation is not inductive alone: `ActivationInv` adds
  that the compare-and-swap lets one thread through and that sub-loggers exist
  whenever the queue is gone, unless the timer discarded it; `CaptureInv` that a
  thread drains only what it captured; `HandoffInv` that a thread past the lock
  of `Log` has seen the queue gone. `Refinement` (`Spec => Abstract!Safety`) goes
  action by action; its steps that write an entry need the invariant to know
  that the entry has not been written or lost before.
* *CentralConfigJsonParser.* `ParserCorrect`: for every document and any number of
  blanks around colons, `TryParseLogLevel` of the rendered body is `LogLevelOf` of
  the document. The argument goes along the body. Wherever a name stands in a
  member it is the key, the whole value, or the end of the value behind an escaped
  quote (`NamesInString`, `MemberTokens`); in the last two cases no colon follows
  and the search goes on (`ParseValue`); in the first the value is read up to the
  quote that ends it (`ClosingQuoteOfText`), so that `ParseMember` takes the search
  from one member to the next, and the members are counted through backwards.
  `CutBody`: of a body cut off anywhere the parser returns what it returns for the
  whole, or nothing, because each of its steps does (`ClosingQuotePrefix`,
  `StringAtPrefix`, `ParsePrefix`). Both need induction over the body. The
  induction theorems of the library take a predicate, which the provers cannot
  instantiate, so induction is stated for sets of numbers (`Induction`, `Descent`)
  and derived from the well-foundedness of `<`; in the same way the recursive
  functions are shown to exist (`ScanExists`, `ParseExists`, `FlattenExists`)
  before their equations are used.
* *RemoteConfigMessageListener.* `ReceiptsFaithful` turns the two theorems into
  what a message may lead to: a level it asked for or none, and the one it asked
  for if it arrived complete. With that `ListenerInv` is inductive: what threads
  are about to pass on, or have passed on, was announced, and a complete
  announcement is in some thread's hand or has been taken over; it gives
  `ServerLevelReceived`. `ListenerImplements` shows that every step of the
  composition is a step of `CentralConfiguration` or leaves its variables
  unchanged, so that the theorems above carry over (`ListenerOwnership`,
  `ListenerWaitFindsConfig`, `ListenerFirstWins`). Of documents only
  `DocumentsAssumption` is used: they are well formed, and `Configs` holds the
  levels they ask for.
* *FileLogger.* `DisposalInv` gives the order in which the one disposing thread
  takes things down relative to the writing task; `WriterInv` where a line can be
  in the task's hand. `NoLostWakeup` is inductive with these. `Refinement`
  (`Spec => Abstract!Safety`) adds `ClosingInv`: no line is lost before disposal
  has begun or a write has failed. Only the safety part is implemented: lines may
  stay in the queue after the writing task has ended (`file_logger_flush`), where
  the abstract logger leaves no entry over.
* *Bootstrap.* `LockInv` says at which places a thread holds which of the two
  locks, and so that `ElasticOpenTelemetry`'s is taken after `SignalBuilder`'s or
  without it: one registration can always go on (`RegistrationsProceed`).
  `ConfiguredInv` relates the table to how often a builder was configured, with
  the gap between the two, `ServicesInv` what a thread has found in its services
  to what is there now. `OwnerInv` is why loggers are not shared: the logger of
  components is active, and `GetOrCreate` hands out no active one. `ClosedInv`
  adds that only loggers of disposed components are closed and shared ones are
  not yet disposed.
* *CompositeOptions.* The sources are taken one by one, so the invariant
  (`CellInv`) says of every cell that it holds what the winner among the sources
  considered so far says. `Precedence` is its last instance. `OpAmpInv`: once
  OpAMP is found enabled there is an endpoint and a resolved name, which no later
  step changes (`OpAmpIdentityKept`). `SignalsInv`: signals and instrumentations
  follow from the environment alone. `LoggingAsAskedFor` follows from `CellInv`
  and says for each target when its log is open, in both directions.
* *LoggingEventListener.* `ConstructionInv` says that the list of early sources
  is given up only after the fields are set, `CreatorInv` that a thread that
  creates a source subscribes it only if it has not left it to the constructor,
  `CountInv` that a source is therefore added at most once and when,
  `EnabledInv` that an enabled source was added and has the listener's level.
  That this level cuts off nothing at or above the level of the options is a
  fact about the two tables of levels (`ListenerSafe`).
* *Builders.* Calls nest to any depth, so the invariant is about the stack:
  `Nesting` says that every call but the innermost is in its callback, or is the
  builder of all signals waiting for one of them; `InnermostInv` how much the
  innermost call has registered (`Progress`); `IdleInv` that a builder no call
  is adding to has its exporters, or none; `DefaultsInv` that defaults come
  before all else a builder adds; `OneComponents` that builders of all signals
  use the components of the services, without which a call repeated after a
  failure might cover other signals than the first. The invariant is stated over
  its parts of the state, so that steps which make a builder, begin a call or
  end one are lemmas of their own (`NewObjectInv`, `CallInv`, `ChildInv`,
  `PopInv`). `AfterInv` is the second invariant, about what stands behind an
  exporter: `ReentryInv`, a builder in the table that a call further out is still
  working on has been configured inside its own callback, and `OrderInv`, all
  others have nothing behind their exporter, whatever callbacks have registered
  since. It needs the first for when an exporter is added.

Assumptions are the named `ASSUME`s of the modules: sets of threads are disjoint
from each other and from the names of the other actors, bounds are naturals,
null is no value, documents are well formed and ask for known levels, every signal
has an instrumentation and is taken once. The
bounds on entries, lines, calls and objects stay parameters. TLC evaluates the
assumptions in the runs.

Only model-checked: all liveness, and with it the last part of `AbstractLogger`;
fairness is outside the prover. The violated properties have a counterexample
and no proof.

## Divergences without a run

Met while reading and modelling; no run states them as a property.

* `FileLogger.cs:176`: a `Log` call let in before disposal releases the disposed
  semaphore and throws `ObjectDisposedException`, where the comment at
  `CompositeLogger.cs:37` speaks of one extra entry at worst.
* `configuration.md:148` gives `Information` as the default of `LogLevel`. The code
  (`CompositeElasticOpenTelemetryOptions.cs:251`), the comment at
  `ElasticOpenTelemetryOptions.cs:48` and the test at
  `CompositeElasticOpenTelemetryOptionsTests.cs:34` say `Warning`; the model
  follows the code.
* `CompositeElasticOpenTelemetryOptions.cs:213`: a log file is opened for a level of
  Debug or more verbose alone (`OTEL_LOG_LEVEL=Debug`), and for `LogTargets` alone.
  By `configuration.md:138` there is no file logging without `LogDirectory`, and by
  line 162 the targets default to none when neither a directory nor a target is
  specified. The comment at line 209 of the code agrees with the code, and
  `LoggingAskedFor` states its rules.
* `LoggingEventListener.cs:49`: the level for `EnableEvents` comes from
  `options.LogLevel`, while `CompositeLogger.IsEnabled` (line 456) asks the
  additional logger too. An `ILogger` more verbose than the options gets the log
  of the distribution at its own level, but of the SDK's events only those at the
  level of the options. `SubscribedAtLevel` is therefore about the level of the
  options.
* `CompositeLogger.cs:366`: `Dispose` closes the file logger it finds. When the
  safety timer has won the compare-and-swap, `Activate` of `CreateComponents`
  returns at once, and the components may be disposed of before the timer's thread
  has created the file logger, whose stream and writing task then stay. The
  comment at line 138 says of a timer that passes its look at `_isDisposed` too
  early that no leak persists.
* `SignalBuilder.cs:157`: a callback that calls `WithElasticDefaults` on the builder
  it was called for configures it a second time. When it returns, `Add` at line 160
  throws, and the builder has two exporters; when it registers something and then
  throws, `Add` is never reached, and what it registered stands behind the
  exporter. `ExportedOnce` leaves out the first kind of builder (`refused`), the
  second half of `CustomisedInBetween` both (`reentered`).
* `SignalBuilder.cs:102`: without options and components all signals count as
  enabled, although the `DefaultOptions` taken at line 136, or the components of
  the service collection, may have disabled the one at hand.
* `TracerProviderBuilderExtensions.cs:478` and its counterparts for metrics and
  logs: the comment says that with a service collection the exporter options
  have been configured by the caller. Only `AddElasticOpenTelemetry` does so,
  `WithElasticDefaults` on an `IOpenTelemetryBuilder` does not.
* `TracerProviderBuilderExtensions.cs:491`: with `SkipInstrumentationAssemblyScanning`
  and the contributed HTTP instrumentation present neither it nor the native
  source is added.
* `Extensions/ResourceBuilderExtensions.cs:71` (Core): the comment says that
  environment variables come last; the detectors of `configure` at line 74 come
  after them.
* `CentralConfigJsonParser.cs:57`: the name is searched for byte by byte, so a key
  that ends in an escaped quote and `log_level` (`"a\"log_level"`) is taken for it.
  Documents with such a key are outside `IsDocument`.
* `BootstrapLogger.cs:17` says one minute where the code at line 183 waits two.

Three races of `CompositeLogger` are outside its model as well: a thread that logs
while `Activate` drains gets ahead of older entries (line 344; the queue is a
set), `_additionalLogger` is read three times while `Dispose` sets it to null
(line 428), and `SetAdditionalLogger` checks and sets without the lock (line 442);
in `LoggingEventListener` it is one step.

## Not modelled

Scopes of the logger, and what `SetAdditionalLogger` logs; the directory and
naming of log files; formatting; which instrumentation the defaults of a signal
consist of; stand-alone SDK builders in `Builders` (they appear in `Bootstrap`);
the assembly load context and reflection; the tables of contributed
instrumentations; resource and exporter defaults; build scripts, examples and
test applications. `PROJECT.json` gives the reason for each component. Times are
abstracted: a timeout may expire at any moment.

## Plan

In this order:

1. `CompositeLogger` composed with `FileLogger` as its sub-logger: both are shown to
   keep the promise of `AbstractLogger`, each on its own.
2. Start-up timing: the safety timer against the start and first-configuration
   timeouts, with a clock, and what a logger activated early keeps of the options.
3. The callbacks of the auto-instrumentation plugin, and the instrumentation a
   signal gets from what is installed and switched on.
4. Span processors: attribute mapping and compression as operators against
   reference definitions.
