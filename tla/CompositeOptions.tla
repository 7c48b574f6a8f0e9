-------------------------- MODULE CompositeOptions --------------------------
(***************************************************************************)
(* One CompositeElasticOpenTelemetryOptions object: its construction from  *)
(* environment variables, IConfiguration and user options, and what        *)
(* CreateComponents then does to it, once per bootstrap that is given it.  *)
(*                                                                         *)
(* A raw value is what a source holds before it is parsed: a token, where  *)
(* "" is an unset or an empty one; for log targets the set of the listed   *)
(* tokens; for resource attributes the sequence of the listed segments, a  *)
(* segment being a key and a value or, without '=', a single token.        *)
(* OpAmpHeaders is handled as OpAmpEndpoint is, and                        *)
(* SkipInstrumentationAssemblyScanning as SkipOtlpExporter; they are left  *)
(* out.                                                                    *)
(***************************************************************************)
EXTENDS Integers, Sequences, FiniteSetsExt

CONSTANTS
  Null,              \* the null reference, the absent value
  Inputs,            \* the environments, with the IConfiguration and the
                     \* ElasticOpenTelemetryOptions a caller passes, or Null
  Instrumentations,  \* the instrumentations of each signal
  CentralLevels      \* the log levels the server may send

Signals == {"Traces", "Metrics", "Logs"}

\* Signals.All is ~0: it has bits that belong to no signal.
All == Signals \cup {"OtherBits"}

\* ConfigSource; a higher ordinal wins.
Default        == 0
IConfiguration == 1
Environment    == 2
Options        == 3
Property       == 4
CentralConfig  == 5

Settings == {"LogDirectory", "LogLevel", "LogTargets", "SkipOtlpExporter", "OpAmpEndpoint",
             "ResourceAttributes", "ServiceName", "RunningInContainer"}

\* What AssignFromIConfiguration and AssignFromElasticOpenTelemetryOptions read.
FromConfiguration == Settings \ {"RunningInContainer"}
FromOptions == {"LogDirectory", "LogLevel", "LogTargets", "SkipOtlpExporter", "OpAmpEndpoint"}

Trace == 0
Debug == 1
Warning == 3
LevelNone == 6
LogLevels == Trace..LevelNone

\* Null is no truth value and not the empty set, and every signal has an
\* instrumentation, as the three enumerations of instrumentations do.
ASSUME SignalsAssumption ==
  /\ Null \notin BOOLEAN
  /\ Null # {}
  /\ \A g \in Signals : Instrumentations[g] # {}

\* An input is an environment, an IConfiguration and user options; these have the
\* types of the properties of ElasticOpenTelemetryOptions.
ASSUME InputsAssumption ==
  \A i \in Inputs :
    /\ i = <<i[1], i[2], i[3]>>
    /\ i[3] # Null =>
         /\ i[3]["LogLevel"] \in LogLevels \cup {Null}
         /\ i[3]["LogTargets"] \in (SUBSET {"stdout", "file"}) \cup {Null}
         /\ i[3]["SkipOtlpExporter"] \in BOOLEAN \cup {Null}

VARIABLES
  env, conf, opts,  \* the sources the object is built from
  cell,             \* the ConfigCell of each setting
  signals,          \* _signals
  enabled,          \* _tracing, _metrics and _logging
  version,          \* ServiceVersion
  resolved,         \* _identityResolved
  opAmp,            \* _isOpAmpEnabled is true
  pushed,           \* the last valid log level from the server
  phase             \* what happens to the object next

inputs == <<env, conf, opts>>
vars == <<inputs, cell, signals, enabled, version, resolved, opAmp, pushed, phase>>

-----------------------------------------------------------------------------
(* Parsers: from a raw value to a value, or Null *)

ToLogLevel(raw) ==
  CASE raw = "Trace" -> Trace
    [] raw = "Debug" -> Debug
    [] raw \in {"Info", "Information"} -> 2
    [] raw \in {"Warn", "Warning"} -> Warning
    [] raw = "Error" -> 4
    [] raw = "Critical" -> 5
    [] raw = "None" -> LevelNone
    [] OTHER -> Null

\* Null unless a target is recognised; "none" counts as recognised.
LogTargetsParser(raw) ==
  IF raw \cap {"stdout", "file", "none"} = {} THEN Null ELSE raw \cap {"stdout", "file"}

BoolParser(raw) ==
  CASE raw \in {"1", "true"} -> TRUE
    [] raw \in {"0", "false"} -> FALSE
    [] OTHER -> Null

StringParser(raw) == IF raw = "" THEN Null ELSE raw

\* The parser that goes with a setting.
Parse(s, raw) ==
  CASE s = "LogLevel" -> ToLogLevel(raw)
    [] s = "LogTargets" -> LogTargetsParser(raw)
    [] s \in {"SkipOtlpExporter", "RunningInContainer"} -> BoolParser(raw)
    [] s = "ResourceAttributes" -> IF raw = << >> THEN Null ELSE raw
    [] OTHER -> StringParser(raw)

-----------------------------------------------------------------------------
(* ConfigCell *)

\* Mutant of Assign: the source that comes later wins.
AssignLast(c, v, source) == [value |-> v, source |-> source]

\* A source does not overwrite a higher one; the same source may again.
Assign(c, v, source) ==
  IF source < c.source THEN c ELSE [value |-> v, source |-> source]

DefaultValue(s) ==
  CASE s = "LogLevel" -> Warning
    [] s \in {"SkipOtlpExporter", "RunningInContainer"} -> FALSE
    [] OTHER -> Null

\* Mutant of SetFrom: what does not parse is assigned, too.
SetFromUnparsed(cells, raws, S, source) ==
  [s \in Settings |-> IF s \in S THEN Assign(cells[s], Parse(s, raws[s]), source) ELSE cells[s]]

\* The settings in S take what parses of raws, from the given source.
SetFrom(cells, raws, S, source) ==
  [s \in Settings |->
     IF s \in S /\ Parse(s, raws[s]) # Null
     THEN Assign(cells[s], Parse(s, raws[s]), source)
     ELSE cells[s]]

\* A property getter: the default where the cell holds Null.
Value(s) == IF cell[s].value = Null THEN DefaultValue(s) ELSE cell[s].value

IsNullOrEmpty(v) == v \in {Null, ""}

-----------------------------------------------------------------------------
(* EnvironmentParser.ParseInstrumentationVariables *)

AllEnabled == BoolParser(env.auto)
Switch(g) == BoolParser(env.switch[g])
InstrumentationSwitch(i) == BoolParser(env.instrumentation[i])

\* source ?? allEnabled ?? true
Configured(g) ==
  IF Switch(g) # Null THEN Switch(g) ELSE IF AllEnabled # Null THEN AllEnabled ELSE TRUE

EnumerateEnabled(g) ==
  {i \in Instrumentations[g] :
     \/ InstrumentationSwitch(i) = TRUE
     \/ InstrumentationSwitch(i) = Null /\ Configured(g)}

Opted(g) == \E i \in Instrumentations[g] : InstrumentationSwitch(i) # Null

ParsedSignals ==
  LET on == {g \in Signals : EnumerateEnabled(g) # {}}
      defaultSignals == IF AllEnabled = FALSE THEN {} ELSE All
  IN  (defaultSignals \ Signals) \cup on

\* Mutant of SignalsConfigured: instrumentations switched one by one do not count.
SignalsConfiguredBySwitch ==
  Switch("Logs") # Null \/ Switch("Traces") # Null \/ AllEnabled # Null

\* The test names traces twice and metrics not at all.
SignalsConfigured ==
  \/ Switch("Logs") # Null \/ Switch("Traces") # Null \/ AllEnabled # Null
  \/ \E g \in Signals : Opted(g)

ParseInstrumentationVariables ==
  /\ signals' = IF SignalsConfigured THEN Assign(signals, ParsedSignals, Environment) ELSE signals
  /\ enabled' = [g \in Signals |->
                   IF Opted(g) THEN Assign(enabled[g], EnumerateEnabled(g), Environment)
                   ELSE enabled[g]]

-----------------------------------------------------------------------------
(* Construction *)

TypeOK ==
  /\ <<env, conf, opts>> \in Inputs
  /\ DOMAIN cell = Settings
  /\ \A s \in Settings : cell[s].source \in Default..CentralConfig
  /\ cell["LogLevel"].value \in LogLevels \cup {Null}
  /\ cell["LogTargets"].value \in (SUBSET {"stdout", "file"}) \cup {Null}
  /\ \A s \in {"SkipOtlpExporter", "RunningInContainer"} : cell[s].value \in BOOLEAN
  /\ signals.value \in SUBSET All
  /\ \A g \in Signals : enabled[g].value \subseteq Instrumentations[g]
  /\ resolved \in BOOLEAN /\ opAmp \in BOOLEAN
  /\ pushed \in LogLevels \cup {Null}
  /\ phase \in {"environment", "configuration", "options", "built", "resolved", "central"}

Init ==
  /\ \E i \in Inputs : env = i[1] /\ conf = i[2] /\ opts = i[3]
  /\ cell = [s \in Settings |-> [value |-> DefaultValue(s), source |-> Default]]
  /\ signals = [value |-> All, source |-> Default]
  /\ enabled = [g \in Signals |-> [value |-> Instrumentations[g], source |-> Default]]
  /\ version = Null
  /\ resolved = FALSE
  /\ opAmp = FALSE
  /\ pushed = Null
  /\ phase = "environment"

AssignFromEnvironment ==
  /\ phase = "environment"
  /\ cell' = SetFrom(cell, env, Settings, Environment)
  /\ ParseInstrumentationVariables
  /\ phase' = "configuration"
  /\ UNCHANGED <<inputs, version, resolved, opAmp, pushed>>

\* The level of the Logging section, if no source has set one; it may be Null.
LoggingSection(cells) ==
  IF conf.section # "" /\ cells["LogLevel"].source = Default
  THEN [cells EXCEPT !["LogLevel"] = Assign(@, ToLogLevel(conf.section), IConfiguration)]
  ELSE cells

AssignFromIConfiguration ==
  /\ phase = "configuration"
  /\ cell' = IF conf = Null THEN cell
             ELSE LoggingSection(SetFrom(cell, conf, FromConfiguration, IConfiguration))
  /\ phase' = "options"
  /\ UNCHANGED <<inputs, signals, enabled, version, resolved, opAmp, pushed>>

\* User options hold values, or Null; an empty directory counts as Null.
AssignFromElasticOpenTelemetryOptions ==
  /\ phase = "options"
  /\ cell' = IF opts = Null THEN cell
             ELSE [s \in Settings |->
                     IF s \notin FromOptions \/ opts[s] = Null
                          \/ (s = "LogDirectory" /\ opts[s] = "")
                     THEN cell[s] ELSE Assign(cell[s], opts[s], Options)]
  /\ phase' = "built"
  /\ UNCHANGED <<inputs, signals, enabled, version, resolved, opAmp, pushed>>

-----------------------------------------------------------------------------
(* The steps of CreateComponents on the object *)

\* The value of the first segment with that key.
LookupResourceAttribute(segments, key) ==
  LET matches == SelectSeq(segments, LAMBDA p : Len(p) = 2 /\ p[1] = key)
  IN  IF matches = << >> THEN Null ELSE matches[1][2]

\* Mutant of ResolveOpAmpServiceIdentity: the attributes beat a given name.
ResolveOverwritesName ==
  /\ phase = "built"
  /\ IF Value("ResourceAttributes") = Null
     THEN UNCHANGED <<cell, version>>
     ELSE LET attributes == Value("ResourceAttributes") IN
          /\ cell' = [cell EXCEPT !["ServiceName"] =
                        Assign(@, LookupResourceAttribute(attributes, "service.name"), Property)]
          /\ version' = IF IsNullOrEmpty(version)
                        THEN LookupResourceAttribute(attributes, "service.version") ELSE version
  /\ resolved' = TRUE
  /\ phase' = "resolved"
  /\ UNCHANGED <<inputs, signals, enabled, opAmp, pushed>>

ResolveOpAmpServiceIdentity ==
  /\ phase = "built"
  /\ IF Value("ResourceAttributes") = Null
     THEN UNCHANGED <<cell, version>>
     ELSE LET attributes == Value("ResourceAttributes") IN
          /\ cell' = IF IsNullOrEmpty(Value("ServiceName"))
                     THEN [cell EXCEPT !["ServiceName"] =
                             Assign(@, LookupResourceAttribute(attributes, "service.name"), Property)]
                     ELSE cell
          /\ version' = IF IsNullOrEmpty(version)
                        THEN LookupResourceAttribute(attributes, "service.version") ELSE version
  /\ resolved' = TRUE
  /\ phase' = "resolved"
  /\ UNCHANGED <<inputs, signals, enabled, opAmp, pushed>>

\* Mutant of IsOpAmpEnabled: the endpoint alone is enough.
IsOpAmpEnabledByEndpoint ==
  /\ phase = "resolved"
  /\ opAmp' = (opAmp \/ ~IsNullOrEmpty(Value("OpAmpEndpoint")))
  /\ phase' = IF opAmp' THEN "central" ELSE "built"
  /\ UNCHANGED <<inputs, cell, signals, enabled, version, resolved, pushed>>

\* Only true is cached. Without OpAMP the bootstrap is over for this object.
IsOpAmpEnabled ==
  /\ phase = "resolved"
  /\ opAmp' = (opAmp \/ ~(IsNullOrEmpty(Value("OpAmpEndpoint")) \/ IsNullOrEmpty(Value("ServiceName"))))
  /\ phase' = IF opAmp' THEN "central" ELSE "built"
  /\ UNCHANGED <<inputs, cell, signals, enabled, version, resolved, pushed>>

\* The server sends a level, and an unknown one changes nothing.
SetLogLevelFromCentralConfig(raw) ==
  /\ phase = "central"
  /\ IF ToLogLevel(raw) = Null
     THEN UNCHANGED <<cell, pushed>>
     ELSE /\ cell' = [cell EXCEPT !["LogLevel"] = Assign(@, ToLogLevel(raw), CentralConfig)]
          /\ pushed' = ToLogLevel(raw)
  /\ phase' = "built"
  /\ UNCHANGED <<inputs, signals, enabled, version, resolved, opAmp>>

\* No configuration arrives in time, or it says nothing of the level.
NoCentralConfig ==
  /\ phase = "central"
  /\ phase' = "built"
  /\ UNCHANGED <<inputs, cell, signals, enabled, version, resolved, opAmp, pushed>>

Next ==
  \/ AssignFromEnvironment \/ AssignFromIConfiguration \/ AssignFromElasticOpenTelemetryOptions
  \/ ResolveOpAmpServiceIdentity \/ IsOpAmpEnabled
  \/ \E raw \in CentralLevels : SetLogLevelFromCentralConfig(raw)
  \/ NoCentralConfig

Spec == Init /\ [][Next]_vars

-----------------------------------------------------------------------------
(* Derived values *)

LogLevel == Value("LogLevel")

\* Mutant of GlobalLogEnabled: log level None is forgotten.
GlobalLogEnabledByTargets ==
  /\ \/ LogLevel <= Debug
     \/ Value("LogDirectory") \notin {Null, "blank"}
     \/ Value("LogTargets") # Null
  /\ Value("LogTargets") # {}

\* Asked for by a verbose level, a directory or targets; not with None of either.
GlobalLogEnabled ==
  /\ \/ LogLevel <= Debug
     \/ Value("LogDirectory") \notin {Null, "blank"}
     \/ Value("LogTargets") # Null
  /\ LogLevel # LevelNone
  /\ Value("LogTargets") # {}

LogTargets ==
  IF Value("LogTargets") # Null THEN Value("LogTargets")
  ELSE IF ~GlobalLogEnabled THEN {}
  ELSE IF Value("RunningInContainer") THEN {"stdout"} ELSE {"file"}

\* The decision of the constructor of FileLogger and of StandardOutLogger.IsEnabled.
Active(target) == GlobalLogEnabled /\ target \in LogTargets

-----------------------------------------------------------------------------
(* Properties. *)

Built == phase \notin {"environment", "configuration", "options"}

\* What a source says of a setting, or Null.
Said(s, source) ==
  CASE source = Environment -> Parse(s, env[s])
    [] source = IConfiguration ->
         IF conf = Null \/ s \notin FromConfiguration THEN Null
         ELSE IF s = "LogLevel" /\ ToLogLevel(conf[s]) = Null THEN ToLogLevel(conf.section)
         ELSE Parse(s, conf[s])
    [] source = Options ->
         IF opts = Null \/ s \notin FromOptions \/ (s = "LogDirectory" /\ opts[s] = "")
         THEN Null ELSE opts[s]
    [] source = CentralConfig -> IF s = "LogLevel" THEN pushed ELSE Null

\* What the sources say together: the highest one that says anything.
Expected(s) ==
  LET who == {x \in {IConfiguration, Environment, Options, CentralConfig} : Said(s, x) # Null}
  IN  IF who = {} THEN DefaultValue(s) ELSE Said(s, Max(who))

\* The precedence the class comment and configuration.md state: central over
\* code over environment over IConfiguration, whatever does not parse is as if
\* unset, and however many bootstraps have used the object. Where no source says
\* anything it is the default of the getters and of the comments on them: for
\* LogLevel Warning, not the Information of configuration.md.
Precedence == Built => \A s \in Settings \ {"ServiceName"} : Value(s) = Expected(s)

\* A configured service name is used for OpAMP; only without one is it the
\* service.name of the effective resource attributes.
ServiceIdentity ==
  resolved =>
    Value("ServiceName") =
      IF Expected("ServiceName") # Null THEN Expected("ServiceName")
      ELSE IF Expected("ResourceAttributes") = Null THEN Null
      ELSE LookupResourceAttribute(Expected("ResourceAttributes"), "service.name")

\* The cached answer stays right, and central configuration is only asked for
\* with an endpoint and a name that does not change any more.
OpAmpIdentityKept ==
  [][opAmp => /\ ~IsNullOrEmpty(Value("OpAmpEndpoint")') /\ ~IsNullOrEmpty(Value("ServiceName")')
              /\ Value("ServiceName")' = Value("ServiceName")]_vars

\* A signal that is on has something to instrument, and one with a switch of its
\* own in the environment follows it unless single instrumentations are
\* switched: for traces and logs.
SignalsFollowSwitches ==
  Built =>
    /\ \A g \in signals.value \cap Signals : enabled[g].value # {}
    /\ \A g \in {"Traces", "Logs"} :
         ~Opted(g) => (g \in signals.value <=> Configured(g))

\* A log is opened exactly where the winning sources ask for it. With targets from
\* any source, in those, and in none of them if the list is empty or "none".
\* Without, a verbose level or a directory opens the one that suits the process.
\* And with level None from the winning source nothing is opened. These are the
\* rules of the comment in GlobalLogEnabled. configuration.md has others: by it a
\* level alone opens nothing, and without a directory no file is written.
LoggingAskedFor ==
  Built => \A target \in {"file", "stdout"} :
    Active(target) <=>
      /\ Expected("LogLevel") # LevelNone
      /\ IF Expected("LogTargets") # Null THEN target \in Expected("LogTargets")
         ELSE /\ \/ Expected("LogLevel") <= Debug
                 \/ Expected("LogDirectory") \notin {Null, "blank"}
              /\ target = IF Expected("RunningInContainer") THEN "stdout" ELSE "file"

\* The comment on Signals: the three switches of the environment are respected
\* out of the box. Here: for metrics, too.
MetricsSwitchRespected ==
  (Built /\ ~Opted("Metrics")) => ("Metrics" \in signals.value <=> Configured("Metrics"))

=============================================================================
