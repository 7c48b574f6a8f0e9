----------------------- MODULE CompositeOptionsProofs -----------------------
(***************************************************************************)
(* Proofs of the properties of CompositeOptions for any inputs,            *)
(* instrumentations and levels from the server, and any number of          *)
(* bootstraps with the object.                                             *)
(***************************************************************************)
EXTENDS CompositeOptions, TLAPS

Sources == {IConfiguration, Environment, Options, CentralConfig}

\* The sources the object has taken into account so far.
Considered ==
  CASE phase = "environment" -> {}
    [] phase = "configuration" -> {Environment}
    [] phase = "options" -> {IConfiguration, Environment}
    [] OTHER -> Sources

\* The highest of them that says anything of s.
Winner(s, x) ==
  /\ x \in Considered
  /\ Said(s, x) # Null
  /\ \A y \in Considered : Said(s, y) # Null => y <= x

\* The cell of s holds what its winner says; without one, nothing but the default.
\* The Logging section may leave a Null there.
Decided(s) ==
  \/ \E x \in Considered : Winner(s, x) /\ cell[s].value = Said(s, x) /\ cell[s].source = x
  \/ /\ \A x \in Considered : Said(s, x) = Null
     /\ cell[s].value \in {Null, DefaultValue(s)}
     /\ cell[s].source \in (IF phase \in {"environment", "configuration"} THEN {Default}
                            ELSE {Default, IConfiguration})

\* The service name once the identity has been resolved.
NameDecided ==
  /\ cell["ServiceName"].source \in Default..Property
  /\ cell["ServiceName"].value =
       IF Expected("ServiceName") # Null THEN Expected("ServiceName")
       ELSE IF Expected("ResourceAttributes") = Null THEN Null
       ELSE LookupResourceAttribute(Expected("ResourceAttributes"), "service.name")

\* The cells of all settings.
CellInv ==
  /\ cell = [s \in Settings |-> cell[s]]
  /\ \A s \in Settings \ {"ServiceName"} : Decided(s)
  /\ ~resolved => Decided("ServiceName")
  /\ resolved => Built /\ NameDecided
  /\ ~Built => pushed = Null
  /\ phase \in {"resolved", "central"} => resolved

\* OpAMP has been found enabled, with an endpoint and a name.
OpAmpInv ==
  opAmp => /\ Built /\ resolved
           /\ ~IsNullOrEmpty(Value("OpAmpEndpoint")) /\ ~IsNullOrEmpty(Value("ServiceName"))

\* The signals and instrumentations follow from the environment alone.
SignalsInv ==
  phase # "environment" =>
    /\ signals.value = IF SignalsConfigured THEN ParsedSignals ELSE All
    /\ \A g \in Signals : enabled[g].value = IF Opted(g) THEN EnumerateEnabled(g) ELSE Instrumentations[g]

\* The cells of the signals before the environment is read.
SignalsInitInv ==
  phase = "environment" =>
    /\ signals.value = All /\ signals.source = Default
    /\ \A g \in Signals : enabled[g].value = Instrumentations[g] /\ enabled[g].source = Default

\* The inductive invariant.
IInv == CellInv /\ OpAmpInv /\ SignalsInv /\ SignalsInitInv

-----------------------------------------------------------------------------
(* What the sources say *)

\* It changes only where the server sends a level.
LEMMA SaidKept ==
  ASSUME NEW s \in Settings, NEW x \in Sources,
         env' = env, conf' = conf, opts' = opts,
         pushed' = pushed \/ s # "LogLevel" \/ x # CentralConfig
  PROVE  Said(s, x)' = Said(s, x)
<1> USE DEF Sources, IConfiguration, Environment, Options, CentralConfig
<1>1. CASE x = Environment
  BY <1>1 DEF Said
<1>2. CASE x = IConfiguration
  BY <1>2 DEF Said
<1>3. CASE x = Options
  BY <1>3 DEF Said
<1>4. CASE x = CentralConfig
  BY <1>4 DEF Said
<1>. QED
  BY <1>1, <1>2, <1>3, <1>4

\* Only the server says anything of a log level it sent.
LEMMA SaidByServer ==
  ASSUME NEW s \in Settings
  PROVE  Said(s, CentralConfig) = IF s = "LogLevel" THEN pushed ELSE Null
  BY DEF Said, IConfiguration, Environment, Options, CentralConfig

\* An empty service name counts as none.
LEMMA SaidNameNotEmpty ==
  ASSUME NEW x \in Sources, Said("ServiceName", x) # Null
  PROVE  Said("ServiceName", x) # ""
<1> USE DEF Sources, IConfiguration, Environment, Options, CentralConfig
<1>1. \A raw : Parse("ServiceName", raw) = IF raw = "" THEN Null ELSE raw
  BY DEF Parse, StringParser
<1>2. CASE x = Environment
  <2>1. Said("ServiceName", x) = Parse("ServiceName", env["ServiceName"])
    BY <1>2 DEF Said
  <2>. QED
    BY <1>1, <2>1, Zenon
<1>3. CASE x = IConfiguration
  <2>1. \/ Said("ServiceName", x) = Null
        \/ Said("ServiceName", x) = Parse("ServiceName", conf["ServiceName"])
    BY <1>3 DEF Said
  <2>. QED
    BY <1>1, <2>1, Zenon
<1>4. CASE x = Options
  <2>1. Said("ServiceName", x) = Null
    BY <1>4 DEF Said, FromOptions
  <2>. QED
    BY <2>1
<1>5. CASE x = CentralConfig
  <2>1. Said("ServiceName", x) = Null
    BY <1>5 DEF Said
  <2>. QED
    BY <2>1
<1>. QED
  BY <1>2, <1>3, <1>4, <1>5

\* The winner among all sources says what is expected.
LEMMA ExpectedOfWinner ==
  ASSUME NEW s, NEW x \in Sources, Said(s, x) # Null,
         \A y \in Sources : Said(s, y) # Null => y <= x
  PROVE  Expected(s) = Said(s, x)
<1> DEFINE who == {y \in {IConfiguration, Environment, Options, CentralConfig} : Said(s, y) # Null}
<1>1. x \in who /\ \A y \in who : y \in Int /\ x >= y
  BY DEF Sources, IConfiguration, Environment, Options, CentralConfig
<1>2. \A z \in who : (\A y \in who : z >= y) => z = x
  BY <1>1
<1>3. Max(who) = x
  BY <1>1, <1>2 DEF Max
<1>. QED
  BY <1>1, <1>3 DEF Expected

LEMMA ExpectedOfNone ==
  ASSUME NEW s, \A x \in Sources : Said(s, x) = Null
  PROVE  Expected(s) = DefaultValue(s)
  BY DEF Expected, Sources

\* What a decided cell is worth.
LEMMA DecidedValue ==
  ASSUME NEW s, Built, Decided(s)
  PROVE  Value(s) = Expected(s)
<1>1. Considered = Sources
  BY DEF Built, Considered
<1>2. CASE \E x \in Considered : Winner(s, x) /\ cell[s].value = Said(s, x) /\ cell[s].source = x
  BY <1>1, <1>2, ExpectedOfWinner DEF Winner, Value
<1>3. CASE (\A x \in Considered : Said(s, x) = Null) /\ cell[s].value \in {Null, DefaultValue(s)}
  BY <1>1, <1>3, ExpectedOfNone DEF Value
<1>. QED
  BY <1>2, <1>3 DEF Decided

\* Before the object is built the server has not said anything.
LEMMA ServerSilent ==
  ASSUME NEW s \in Settings, pushed = Null
  PROVE  Said(s, CentralConfig) = Null
  BY SaidByServer

\* Steps that leave the inputs alone keep what is expected, of the log level only
\* if the server's is left alone, too.
LEMMA ExpectedKept ==
  ASSUME NEW s \in Settings, env' = env, conf' = conf, opts' = opts,
         pushed' = pushed \/ s # "LogLevel"
  PROVE  Expected(s)' = Expected(s)
<1>1. \A x \in {IConfiguration, Environment, Options, CentralConfig} : Said(s, x)' = Said(s, x)
  BY SaidKept DEF Sources
<1> DEFINE who == {x \in {IConfiguration, Environment, Options, CentralConfig} : Said(s, x) # Null}
<1>2. who' = who
  BY <1>1 DEF IConfiguration, Environment, Options, CentralConfig
<1>3. CASE who = {}
  BY <1>2, <1>3 DEF Expected, DefaultValue
<1>4. CASE who # {}
  <2>1. PICK x \in who : \A y \in who : x >= y
    BY <1>4 DEF IConfiguration, Environment, Options, CentralConfig
  <2>2. x \in Sources /\ Said(s, x) # Null /\ \A y \in Sources : Said(s, y) # Null => y <= x
    BY <2>1 DEF Sources, IConfiguration, Environment, Options, CentralConfig
  <2>3. Max(who) = x
    <3>1. \A z \in who : (\A y \in who : z >= y) => z = x
      BY <2>1 DEF IConfiguration, Environment, Options, CentralConfig
    <3>. QED
      BY <2>1, <3>1 DEF Max
  <2>4. Max(who') = x
    BY <1>2, <2>3
  <2>5. Said(s, x)' = Said(s, x)
    BY <1>1, <2>2 DEF Sources
  <2>. QED
    BY <1>2, <1>4, <2>3, <2>4, <2>5 DEF Expected
<1>. QED
  BY <1>3, <1>4

\* A cell that keeps its value in a later phase of the same kind stays decided.
LEMMA DecidedKept ==
  ASSUME NEW s \in Settings, env' = env, conf' = conf, opts' = opts,
         pushed' = pushed \/ s # "LogLevel", Built, Built', cell'[s] = cell[s], Decided(s)
  PROVE  Decided(s)'
<1>1. Considered = Sources /\ Considered' = Sources
  BY DEF Built, Considered, Sources
<1>2. \A x \in Sources : Said(s, x)' = Said(s, x)
  BY SaidKept
<1>3. phase \notin {"environment", "configuration"} /\ phase' \notin {"environment", "configuration"}
  BY DEF Built
<1>4. CASE \E x \in Considered : Winner(s, x) /\ cell[s].value = Said(s, x) /\ cell[s].source = x
  BY <1>1, <1>2, <1>4 DEF Decided, Winner
<1>5. CASE /\ \A x \in Considered : Said(s, x) = Null
           /\ cell[s].value \in {Null, DefaultValue(s)} /\ cell[s].source \in {Default, IConfiguration}
  <2>1. DefaultValue(s)' = DefaultValue(s)
    BY DEF DefaultValue
  <2>. QED
    BY <1>1, <1>2, <1>3, <1>5, <2>1 DEF Decided
<1>. QED
  BY <1>3, <1>4, <1>5 DEF Decided

LEMMA EnvironmentCells ==
  ASSUME CellInv, AssignFromEnvironment PROVE CellInv'
<1> USE DEF Default, IConfiguration, Environment, Options, Property, CentralConfig
<1>1. /\ phase = "environment" /\ phase' = "configuration"
      /\ env' = env /\ conf' = conf /\ opts' = opts /\ pushed' = pushed /\ resolved' = resolved
      /\ cell' = SetFrom(cell, env, Settings, Environment)
  BY DEF AssignFromEnvironment, inputs
<1>2. ~Built /\ ~Built' /\ ~resolved /\ pushed = Null
  BY <1>1 DEF CellInv, Built
<1>3. Considered = {} /\ Considered' = {Environment}
  BY <1>1 DEF Considered
<1>4. ASSUME NEW s \in Settings PROVE Decided(s)'
  <2>1. Decided(s)
    BY <1>2, <1>4 DEF CellInv
  <2>2. cell[s].value \in {Null, DefaultValue(s)} /\ cell[s].source = Default
    BY <1>1, <1>3, <2>1 DEF Decided
  <2>3. Said(s, Environment)' = Parse(s, env[s])
    BY <1>1 DEF Said
  <2>4. CASE Parse(s, env[s]) # Null
    <3>1. cell'[s] = [value |-> Parse(s, env[s]), source |-> Environment]
      BY <1>1, <1>4, <2>2, <2>4 DEF SetFrom, Assign
    <3>2. cell'[s].value = Parse(s, env[s]) /\ cell'[s].source = Environment
      BY <3>1
    <3>. QED
      BY <1>3, <2>3, <2>4, <3>2 DEF Decided, Winner
  <2>5. CASE Parse(s, env[s]) = Null
    <3>1. cell'[s] = cell[s]
      BY <1>1, <1>4, <2>5 DEF SetFrom
    <3>2. DefaultValue(s)' = DefaultValue(s)
      BY DEF DefaultValue
    <3>. QED
      BY <1>1, <1>3, <2>2, <2>3, <2>5, <3>1, <3>2 DEF Decided
  <2>. QED
    BY <2>4, <2>5
<1>5. "ServiceName" \in Settings
  BY DEF Settings
<1>6. cell' = [s \in Settings |-> cell'[s]]
  BY <1>1 DEF SetFrom
<1>. QED
  BY <1>1, <1>2, <1>4, <1>5, <1>6 DEF CellInv

\* Without a level in the section the Logging section says nothing.
LEMMA EmptyLevel == ToLogLevel("") = Null
  BY DEF ToLogLevel

LEMMA ParseLevel == ASSUME NEW raw PROVE Parse("LogLevel", raw) = ToLogLevel(raw)
  BY DEF Parse

LEMMA ConfigurationCells ==
  ASSUME CellInv, AssignFromIConfiguration PROVE CellInv'
<1> USE DEF Default, IConfiguration, Environment, Options, Property, CentralConfig
<1>1. /\ phase = "configuration" /\ phase' = "options"
      /\ env' = env /\ conf' = conf /\ opts' = opts /\ pushed' = pushed /\ resolved' = resolved
      /\ cell' = IF conf = Null THEN cell
                 ELSE LoggingSection(SetFrom(cell, conf, FromConfiguration, IConfiguration))
  BY DEF AssignFromIConfiguration, inputs
<1>2. ~Built /\ ~Built' /\ ~resolved /\ pushed = Null
  BY <1>1 DEF CellInv, Built
<1>3. Considered = {Environment} /\ Considered' = {IConfiguration, Environment}
  BY <1>1 DEF Considered
<1> DEFINE set == SetFrom(cell, conf, FromConfiguration, IConfiguration)
<1>4. /\ set = [s \in Settings |-> set[s]] /\ LoggingSection(set) = [s \in Settings |-> LoggingSection(set)[s]]
      /\ \A s \in Settings : s # "LogLevel" => LoggingSection(set)[s] = set[s]
      /\ LoggingSection(set)["LogLevel"] =
           IF conf.section # "" /\ set["LogLevel"].source = Default
           THEN Assign(set["LogLevel"], ToLogLevel(conf.section), IConfiguration)
           ELSE set["LogLevel"]
  <2>1. set = [s \in Settings |-> set[s]]
    BY DEF SetFrom
  <2> HIDE DEF set
  <2>2. "LogLevel" \in Settings
    BY DEF Settings
  <2>. QED
    BY <2>1, <2>2 DEF LoggingSection
<1>5. ASSUME NEW s \in Settings PROVE Decided(s)'
  <2>1. Decided(s)
    BY <1>2, <1>5 DEF CellInv
  <2>2. \/ /\ Said(s, Environment) # Null
           /\ cell[s].value = Said(s, Environment) /\ cell[s].source = Environment
        \/ /\ Said(s, Environment) = Null
           /\ cell[s].value \in {Null, DefaultValue(s)} /\ cell[s].source = Default
    BY <1>1, <1>3, <2>1 DEF Decided, Winner
  <2>3. Said(s, Environment)' = Said(s, Environment) /\ Said(s, IConfiguration)' = Said(s, IConfiguration)
    BY <1>1, <1>5, SaidKept DEF Sources
  <2>4. DefaultValue(s)' = DefaultValue(s)
    BY DEF DefaultValue
  \* It is enough to know the new cell.
  <2>5. ASSUME \/ /\ Said(s, Environment) # Null
                  /\ cell'[s].value = Said(s, Environment) /\ cell'[s].source = Environment
               \/ /\ Said(s, Environment) = Null /\ Said(s, IConfiguration) # Null
                  /\ cell'[s].value = Said(s, IConfiguration) /\ cell'[s].source = IConfiguration
               \/ /\ Said(s, Environment) = Null /\ Said(s, IConfiguration) = Null
                  /\ cell'[s].value \in {Null, DefaultValue(s)} /\ cell'[s].source \in {Default, IConfiguration}
        PROVE  Decided(s)'
    <3>1. CASE Said(s, Environment) # Null
      BY <1>3, <2>3, <2>5, <3>1 DEF Decided, Winner
    <3>2. CASE Said(s, Environment) = Null /\ Said(s, IConfiguration) # Null
      BY <1>3, <2>3, <2>5, <3>2 DEF Decided, Winner
    <3>3. CASE Said(s, Environment) = Null /\ Said(s, IConfiguration) = Null
      BY <1>1, <1>3, <2>3, <2>4, <2>5, <3>3 DEF Decided
    <3>. QED
      BY <3>1, <3>2, <3>3
  <2>6. CASE conf = Null
    <3>1. Said(s, IConfiguration) = Null
      BY <2>6 DEF Said
    <3>2. cell'[s] = cell[s]
      BY <1>1, <2>6
    <3>. QED
      BY <2>2, <2>5, <3>1, <3>2
  <2>7. CASE conf # Null /\ s # "LogLevel"
    <3>1. Said(s, IConfiguration) = IF s \in FromConfiguration THEN Parse(s, conf[s]) ELSE Null
      BY <2>7 DEF Said
    <3>2. cell'[s] = IF s \in FromConfiguration /\ Parse(s, conf[s]) # Null
                     THEN Assign(cell[s], Parse(s, conf[s]), IConfiguration) ELSE cell[s]
      BY <1>1, <1>4, <1>5, <2>7 DEF SetFrom
    <3>3. CASE s \in FromConfiguration /\ Parse(s, conf[s]) # Null
      <4>1. CASE Said(s, Environment) # Null
        BY <2>2, <2>5, <3>2, <3>3, <4>1 DEF Assign
      <4>2. CASE Said(s, Environment) = Null
        <5>1. cell'[s] = [value |-> Parse(s, conf[s]), source |-> IConfiguration]
          BY <2>2, <3>2, <3>3, <4>2 DEF Assign
        <5>2. cell'[s].value = Parse(s, conf[s]) /\ cell'[s].source = IConfiguration
          BY <5>1
        <5>. QED
          BY <2>5, <3>1, <3>3, <4>2, <5>2
      <4>. QED
        BY <4>1, <4>2
    <3>4. CASE ~(s \in FromConfiguration /\ Parse(s, conf[s]) # Null)
      BY <2>2, <2>5, <3>1, <3>2, <3>4
    <3>. QED
      BY <3>3, <3>4
  <2>8. CASE conf # Null /\ s = "LogLevel"
    <3> DEFINE l == ToLogLevel(conf["LogLevel"])
               x == ToLogLevel(conf.section)
    <3>1. Said(s, IConfiguration) = IF l = Null THEN x ELSE l
      BY <2>8, ParseLevel DEF Said, FromConfiguration, Settings
    <3>2. set[s] = IF l # Null THEN Assign(cell[s], l, IConfiguration) ELSE cell[s]
      BY <2>8, ParseLevel DEF SetFrom, FromConfiguration, Settings
    <3>3. cell'[s] = IF conf.section # "" /\ set[s].source = Default
                     THEN Assign(set[s], x, IConfiguration) ELSE set[s]
      BY <1>1, <1>4, <2>8
    <3> HIDE DEF set
    <3>4. conf.section = "" => x = Null
      BY EmptyLevel
    <3> HIDE DEF l, x
    <3>5. CASE Said(s, Environment) # Null
      <4>1. set[s] = cell[s]
        BY <2>2, <3>2, <3>5 DEF Assign
      <4>3. set[s].source # Default
        BY <2>2, <3>5, <4>1
      <4>2. cell'[s] = cell[s]
        BY <3>3, <4>1, <4>3, Zenon
      <4>. QED
        BY <2>2, <2>5, <3>5, <4>2
    <3>6. CASE Said(s, Environment) = Null /\ l # Null
      <4>1. set[s] = [value |-> l, source |-> IConfiguration]
        BY <2>2, <3>2, <3>6 DEF Assign
      <4>2. cell'[s] = set[s] /\ set[s].value = l /\ set[s].source = IConfiguration
        BY <3>3, <4>1
      <4>. QED
        BY <2>5, <3>1, <3>6, <4>2
    <3>7. CASE Said(s, Environment) = Null /\ l = Null
      <4>1. set[s] = cell[s] /\ cell[s].source = Default
        BY <2>2, <3>2, <3>7
      <4>2. CASE conf.section # ""
        <5>3. cell'[s] = Assign(cell[s], x, IConfiguration)
          BY <3>3, <4>1, <4>2, Zenon
        <5>1. cell'[s] = [value |-> x, source |-> IConfiguration]
          BY <4>1, <5>3 DEF Assign
        <5>2. cell'[s].value = x /\ cell'[s].source = IConfiguration
          BY <5>1
        <5>. QED
          BY <2>5, <3>1, <3>7, <5>2
      <4>3. CASE conf.section = ""
        <5>1. cell'[s] = cell[s]
          BY <3>3, <4>1, <4>3
        <5>. QED
          BY <2>2, <2>5, <3>1, <3>4, <3>7, <4>3, <5>1
      <4>. QED
        BY <4>2, <4>3
    <3>. QED
      BY <3>5, <3>6, <3>7
  <2>. QED
    BY <2>6, <2>7, <2>8
<1>6. "ServiceName" \in Settings
  BY DEF Settings
<1>7. cell' = [s \in Settings |-> cell'[s]]
  BY <1>1, <1>4 DEF CellInv
<1>. QED
  BY <1>1, <1>2, <1>5, <1>6, <1>7 DEF CellInv

LEMMA OptionsCells ==
  ASSUME CellInv, AssignFromElasticOpenTelemetryOptions PROVE CellInv'
<1> USE DEF Default, IConfiguration, Environment, Options, Property, CentralConfig
<1>1. /\ phase = "options" /\ phase' = "built"
      /\ env' = env /\ conf' = conf /\ opts' = opts /\ pushed' = pushed /\ resolved' = resolved
      /\ cell' = IF opts = Null THEN cell
                 ELSE [s \in Settings |->
                         IF s \notin FromOptions \/ opts[s] = Null
                              \/ (s = "LogDirectory" /\ opts[s] = "")
                         THEN cell[s] ELSE Assign(cell[s], opts[s], Options)]
  BY DEF AssignFromElasticOpenTelemetryOptions, inputs
<1>2. ~Built /\ Built' /\ ~resolved /\ pushed = Null
  BY <1>1 DEF CellInv, Built
<1>3. Considered = {IConfiguration, Environment} /\ Considered' = Sources
  BY <1>1 DEF Considered, Sources
<1>4. ASSUME NEW s \in Settings PROVE Decided(s)'
  <2>1. Decided(s)
    BY <1>2, <1>4 DEF CellInv
  <2>2. cell[s].source \in {Default, IConfiguration, Environment}
    BY <1>1, <1>3, <2>1 DEF Decided
  <2>3. \A x \in Sources : Said(s, x)' = Said(s, x)
    BY <1>1, <1>4, SaidKept
  <2>4. Said(s, CentralConfig) = Null
    BY <1>2, <1>4, ServerSilent
  <2>5. DefaultValue(s)' = DefaultValue(s)
    BY DEF DefaultValue
  <2> DEFINE silent == opts = Null \/ s \notin FromOptions \/ (s = "LogDirectory" /\ opts[s] = "")
  <2>8. Said(s, Options) = IF silent THEN Null ELSE opts[s]
    BY DEF Said
  <2>9. cell'[s] = IF silent \/ opts[s] = Null THEN cell[s] ELSE Assign(cell[s], opts[s], Options)
    <3>1. CASE opts = Null
      BY <1>1, <3>1, Zenon
    <3>2. CASE opts # Null
      BY <1>1, <1>4, <3>2, Zenon
    <3>. QED
      BY <3>1, <3>2
  <2> HIDE DEF silent
  <2>6. CASE Said(s, Options) # Null
    <3>1. Said(s, Options) = opts[s] /\ cell'[s] = Assign(cell[s], opts[s], Options)
      BY <2>8, <2>9, <2>6, Zenon
    <3>2. cell'[s] = [value |-> Said(s, Options), source |-> Options]
      BY <2>2, <3>1 DEF Assign
    <3>3. cell'[s].value = Said(s, Options) /\ cell'[s].source = Options
      BY <3>2
    <3>. QED
      BY <1>3, <2>3, <2>4, <2>6, <3>3 DEF Decided, Winner, Sources
  <2>7. CASE Said(s, Options) = Null
    <3>1. cell'[s] = cell[s]
      BY <2>8, <2>9, <2>7, Zenon
    <3>2. CASE \E x \in Considered : Winner(s, x) /\ cell[s].value = Said(s, x) /\ cell[s].source = x
      BY <1>3, <2>3, <2>4, <2>7, <3>1, <3>2 DEF Decided, Winner, Sources
    <3>3. CASE /\ \A x \in Considered : Said(s, x) = Null
               /\ cell[s].value \in {Null, DefaultValue(s)}
               /\ cell[s].source \in {Default, IConfiguration}
      BY <1>1, <1>3, <2>3, <2>4, <2>5, <2>7, <3>1, <3>3 DEF Decided, Sources
    <3>. QED
      BY <1>1, <2>1, <3>2, <3>3 DEF Decided
  <2>. QED
    BY <2>6, <2>7
<1>5. "ServiceName" \in Settings
  BY DEF Settings
<1>6. cell' = [s \in Settings |-> cell'[s]]
  BY <1>1 DEF CellInv
<1>. QED
  BY <1>1, <1>2, <1>4, <1>5, <1>6 DEF CellInv

\* Either nobody says anything of a setting, or there is a winner.
LEMMA WinnerExists ==
  ASSUME NEW s
  PROVE  \/ \A x \in Sources : Said(s, x) = Null
         \/ \E x \in Sources : Said(s, x) # Null /\ \A y \in Sources : Said(s, y) # Null => y <= x
  BY DEF Sources, IConfiguration, Environment, Options, CentralConfig

LEMMA NoDefaultName == DefaultValue("ServiceName") = Null
  BY DEF DefaultValue

\* An expected service name is not empty.
LEMMA ExpectedNameNotEmpty ==
  ASSUME Expected("ServiceName") # Null
  PROVE  Expected("ServiceName") # ""
<1>1. \/ \A x \in Sources : Said("ServiceName", x) = Null
      \/ \E x \in Sources : /\ Said("ServiceName", x) # Null
                            /\ \A y \in Sources : Said("ServiceName", y) # Null => y <= x
  BY WinnerExists
<1>2. PICK x \in Sources : /\ Said("ServiceName", x) # Null
                           /\ \A y \in Sources : Said("ServiceName", y) # Null => y <= x
  BY <1>1, ExpectedOfNone, NoDefaultName
<1>3. Expected("ServiceName") = Said("ServiceName", x)
  BY <1>2, ExpectedOfWinner
<1>4. Said("ServiceName", x) # ""
  BY <1>2, SaidNameNotEmpty
<1>. QED
  BY <1>3, <1>4

\* The cell of the service name, before and after the identity has been resolved.
LEMMA NameCell ==
  ASSUME CellInv, Built
  PROVE  /\ cell["ServiceName"].source \in Default..Property
         /\ Value("ServiceName") = cell["ServiceName"].value
         /\ Expected("ServiceName") # Null => cell["ServiceName"].value = Expected("ServiceName")
         /\ ~resolved => cell["ServiceName"].value = Expected("ServiceName")
<1>1. Value("ServiceName") = cell["ServiceName"].value
  BY NoDefaultName DEF Value
<1>2. CASE resolved
  <2>1. NameDecided
    BY <1>2 DEF CellInv
  <2>. QED
    BY <1>1, <1>2, <2>1 DEF NameDecided
<1>3. CASE ~resolved
  <2>1. Decided("ServiceName")
    BY <1>3 DEF CellInv
  <2>2. Value("ServiceName") = Expected("ServiceName")
    BY <2>1, DecidedValue
  <2>3. Considered = Sources
    BY DEF Built, Considered
  <2>4. Said("ServiceName", CentralConfig) = Null
    BY SaidByServer DEF Settings
  <2>5. cell["ServiceName"].source \in Default..Property
    BY <2>1, <2>3, <2>4
    DEF Decided, Winner, Sources, Default, IConfiguration, Environment, Options, Property, CentralConfig
  <2>. QED
    BY <1>1, <2>2, <2>5
<1>. QED
  BY <1>2, <1>3

LEMMA IdentityCells ==
  ASSUME CellInv, ResolveOpAmpServiceIdentity PROVE CellInv'
<1> DEFINE attributes == Value("ResourceAttributes")
           name == Value("ServiceName")
           found == LookupResourceAttribute(attributes, "service.name")
<1>1. /\ phase = "built" /\ phase' = "resolved" /\ resolved' = TRUE
      /\ env' = env /\ conf' = conf /\ opts' = opts /\ pushed' = pushed
  BY DEF ResolveOpAmpServiceIdentity, inputs
<1>2. \/ attributes = Null /\ cell' = cell
      \/ attributes # Null /\ ~IsNullOrEmpty(name) /\ cell' = cell
      \/ /\ attributes # Null /\ IsNullOrEmpty(name)
         /\ cell' = [cell EXCEPT !["ServiceName"] = Assign(@, found, Property)]
  BY DEF ResolveOpAmpServiceIdentity
<1>3. Built /\ Built'
  BY <1>1 DEF Built
<1>4. "ServiceName" \in Settings /\ "ResourceAttributes" \in Settings \ {"ServiceName"}
  BY DEF Settings
<1>5. /\ Expected("ServiceName")' = Expected("ServiceName")
      /\ Expected("ResourceAttributes")' = Expected("ResourceAttributes")
  BY <1>1, <1>4, ExpectedKept
<1>6. attributes = Expected("ResourceAttributes")
  <2>1. Decided("ResourceAttributes")
    BY <1>4 DEF CellInv
  <2>. QED
    BY <1>3, <2>1, DecidedValue
<1>7. /\ cell["ServiceName"].source \in Default..Property
      /\ name = cell["ServiceName"].value
      /\ Expected("ServiceName") # Null => name = Expected("ServiceName")
      /\ ~resolved => name = Expected("ServiceName")
  BY <1>3, NameCell
<1>8. /\ cell' = [s \in Settings |-> cell'[s]]
      /\ \A s \in Settings \ {"ServiceName"} : cell'[s] = cell[s]
      /\ \/ cell' = cell
         \/ cell'["ServiceName"] = Assign(cell["ServiceName"], found, Property)
  <2> HIDE DEF found, name, attributes
  <2>1. cell = [s \in Settings |-> cell[s]]
    BY DEF CellInv
  <2>. QED
    BY <1>2, <1>4, <2>1
<1>9. \A s \in Settings \ {"ServiceName"} : Decided(s)'
  BY <1>1, <1>3, <1>8, DecidedKept DEF CellInv
<1>10. name = "" \/ name = Null \/ ~IsNullOrEmpty(name)
  BY DEF IsNullOrEmpty
<1>11. IsNullOrEmpty(name) => Expected("ServiceName") = Null
  <2>1. Expected("ServiceName") # Null => Expected("ServiceName") # ""
    BY ExpectedNameNotEmpty
  <2> HIDE DEF name
  <2>. QED
    BY <1>7, <2>1, Zenon DEF IsNullOrEmpty
<1>12. /\ cell'["ServiceName"].source \in Default..Property
       /\ cell'["ServiceName"].value =
            IF Expected("ServiceName") # Null THEN Expected("ServiceName")
            ELSE IF attributes = Null THEN Null
            ELSE LookupResourceAttribute(attributes, "service.name")
  <2>1. CASE attributes # Null /\ IsNullOrEmpty(name)
    <3>1. cell'["ServiceName"] = Assign(cell["ServiceName"], found, Property)
      BY <1>2, <1>4, <2>1 DEF CellInv
    <3> HIDE DEF found, name, attributes
    <3>2. cell'["ServiceName"] = [value |-> found, source |-> Property]
      BY <1>7, <3>1 DEF Assign, Default, Property
    <3>3. cell'["ServiceName"].value = found /\ cell'["ServiceName"].source = Property
      BY <3>2
    <3>4. cell'["ServiceName"].source \in Default..Property
      BY <3>3 DEF Default, Property
    <3>. QED
      BY <1>11, <2>1, <3>3, <3>4 DEF found
  <2>2. CASE attributes = Null \/ ~IsNullOrEmpty(name)
    <3> HIDE DEF found, name, attributes
    <3>1. cell' = cell
      BY <1>2, <2>2
    <3>2. CASE ~resolved
      <4>1. name = Expected("ServiceName")
        BY <1>7, <3>2
      <4>2. Expected("ServiceName") = Null => attributes = Null
        BY <2>2, <4>1 DEF IsNullOrEmpty
      <4>. QED
        BY <1>7, <3>1, <4>1, <4>2, Zenon
    <3>3. CASE resolved
      <4>1. NameDecided
        BY <3>3 DEF CellInv
      <4>. QED
        BY <1>6, <1>7, <3>1, <4>1, Zenon DEF NameDecided
    <3>. QED
      BY <3>2, <3>3
  <2>. QED
    BY <2>1, <2>2
<1>13. NameDecided'
  <2>1. cell'["ServiceName"].source \in (Default..Property)'
    BY <1>12 DEF Default, Property
  <2> HIDE DEF attributes
  <2>. QED
    BY <1>5, <1>6, <1>12, <2>1 DEF NameDecided
<1>. QED
  BY <1>1, <1>3, <1>8, <1>9, <1>13 DEF CellInv

\* Steps of a built object that leave its cells alone.
LEMMA KeptCells ==
  ASSUME CellInv, Built, Built', env' = env, conf' = conf, opts' = opts, pushed' = pushed,
         resolved' = resolved, cell' = cell, phase' \in {"resolved", "central"} => resolved
  PROVE  CellInv'
<1>1. \A s \in Settings : Decided(s) => Decided(s)'
  BY DecidedKept
<1>2. "ServiceName" \in Settings /\ "ResourceAttributes" \in Settings
  BY DEF Settings
<1>3. /\ Expected("ServiceName")' = Expected("ServiceName")
      /\ Expected("ResourceAttributes")' = Expected("ResourceAttributes")
  BY <1>2, ExpectedKept
<1>4. NameDecided => NameDecided'
  BY <1>3 DEF NameDecided, Default, Property
<1>. QED
  BY <1>1, <1>2, <1>4 DEF CellInv

LEMMA EnabledCells ==
  ASSUME CellInv, IsOpAmpEnabled PROVE CellInv'
<1>1. /\ phase = "resolved" /\ phase' \in {"central", "built"}
      /\ env' = env /\ conf' = conf /\ opts' = opts /\ pushed' = pushed /\ resolved' = resolved
      /\ cell' = cell
  BY DEF IsOpAmpEnabled, inputs
<1>2. Built /\ Built' /\ resolved
  BY <1>1 DEF Built, CellInv
<1>. QED
  BY <1>1, <1>2, KeptCells

LEMMA NoCentralCells ==
  ASSUME CellInv, NoCentralConfig PROVE CellInv'
<1>1. /\ phase = "central" /\ phase' = "built"
      /\ env' = env /\ conf' = conf /\ opts' = opts /\ pushed' = pushed /\ resolved' = resolved
      /\ cell' = cell
  BY DEF NoCentralConfig, inputs
<1>2. Built /\ Built' /\ resolved
  BY <1>1 DEF Built, CellInv
<1>. QED
  BY <1>1, <1>2, KeptCells

LEMMA CentralCells ==
  ASSUME CellInv, NEW raw, SetLogLevelFromCentralConfig(raw) PROVE CellInv'
<1> DEFINE v == ToLogLevel(raw)
<1>1. /\ phase = "central" /\ phase' = "built"
      /\ env' = env /\ conf' = conf /\ opts' = opts /\ resolved' = resolved
  BY DEF SetLogLevelFromCentralConfig, inputs
<1>2. \/ cell' = cell /\ pushed' = pushed
      \/ /\ v # Null /\ pushed' = v
         /\ cell' = [cell EXCEPT !["LogLevel"] = Assign(@, v, CentralConfig)]
  BY DEF SetLogLevelFromCentralConfig
<1> HIDE DEF v
<1>3. Built /\ Built' /\ resolved
  BY <1>1 DEF Built, CellInv
<1>4. CASE cell' = cell /\ pushed' = pushed
  BY <1>1, <1>3, <1>4, KeptCells
<1>5. CASE /\ v # Null /\ pushed' = v
           /\ cell' = [cell EXCEPT !["LogLevel"] = Assign(@, v, CentralConfig)]
  <2>1. /\ "LogLevel" \in Settings \ {"ServiceName"} /\ "ServiceName" \in Settings
        /\ "ResourceAttributes" \in Settings
    BY DEF Settings
  <2>2. Considered = Sources /\ Considered' = Sources
    BY <1>3 DEF Built, Considered, Sources
  <2>3. cell = [s \in Settings |-> cell[s]] /\ Decided("LogLevel")
    BY <2>1 DEF CellInv
  <2>4. /\ cell' = [s \in Settings |-> cell'[s]]
        /\ \A s \in Settings \ {"LogLevel"} : cell'[s] = cell[s]
        /\ cell'["LogLevel"] = Assign(cell["LogLevel"], v, CentralConfig)
    BY <1>5, <2>1, <2>3
  <2>5. cell["LogLevel"].source \in Default..CentralConfig
    BY <2>2, <2>3
    DEF Decided, Sources, Default, IConfiguration, Environment, Options, CentralConfig
  <2>6. cell'["LogLevel"] = [value |-> v, source |-> CentralConfig]
    BY <2>4, <2>5 DEF Assign, Default, CentralConfig
  <2>7. cell'["LogLevel"].value = v /\ cell'["LogLevel"].source = CentralConfig
    BY <2>6
  <2>8. Said("LogLevel", CentralConfig)' = v
    BY <1>5 DEF Said, IConfiguration, Environment, Options, CentralConfig
  <2>9. Decided("LogLevel")'
    BY <1>5, <2>2, <2>7, <2>8
    DEF Decided, Winner, Sources, IConfiguration, Environment, Options, CentralConfig
  <2>10. \A s \in Settings \ {"ServiceName"} : Decided(s)'
    <3>1. SUFFICES ASSUME NEW s \in Settings \ {"ServiceName"}, s # "LogLevel" PROVE Decided(s)'
      BY <2>9
    <3>2. Decided(s) /\ cell'[s] = cell[s]
      BY <2>4, <3>1 DEF CellInv
    <3>. QED
      BY <1>1, <1>3, <3>1, <3>2, DecidedKept
  <2>11. /\ Expected("ServiceName")' = Expected("ServiceName")
         /\ Expected("ResourceAttributes")' = Expected("ResourceAttributes")
    BY <1>1, <2>1, ExpectedKept
  <2>12. NameDecided'
    <3>1. NameDecided /\ cell'["ServiceName"] = cell["ServiceName"]
      BY <1>3, <2>1, <2>4 DEF CellInv
    <3>. QED
      BY <2>11, <3>1 DEF NameDecided, Default, Property
  <2>. QED
    BY <1>1, <1>3, <2>4, <2>10, <2>12 DEF CellInv
<1>. QED
  BY <1>2, <1>4, <1>5

-----------------------------------------------------------------------------
(* OpAMP *)

LEMMA ValueKept ==
  ASSUME NEW s, cell'[s] = cell[s]
  PROVE  Value(s)' = Value(s)
  BY DEF Value, DefaultValue

\* Once OpAMP is enabled, no step touches the endpoint or the name.
LEMMA IdentityKept ==
  ASSUME CellInv, OpAmpInv, opAmp, [Next]_vars
  PROVE  /\ cell'["OpAmpEndpoint"] = cell["OpAmpEndpoint"]
         /\ cell'["ServiceName"] = cell["ServiceName"]
<1>1. Built /\ ~IsNullOrEmpty(Value("ServiceName"))
  BY DEF OpAmpInv
<1>2. /\ "ServiceName" \in Settings /\ "OpAmpEndpoint" \in Settings
      /\ cell = [s \in Settings |-> cell[s]]
  BY DEF Settings, CellInv
<1>3. CASE UNCHANGED vars
  BY <1>3 DEF vars
<1>4. CASE AssignFromEnvironment \/ AssignFromIConfiguration \/ AssignFromElasticOpenTelemetryOptions
  BY <1>1, <1>4
  DEF Built, AssignFromEnvironment, AssignFromIConfiguration, AssignFromElasticOpenTelemetryOptions
<1>5. CASE ResolveOpAmpServiceIdentity
  <2>1. cell' = cell
    BY <1>1, <1>5 DEF ResolveOpAmpServiceIdentity
  <2>. QED
    BY <2>1
<1>6. CASE IsOpAmpEnabled \/ NoCentralConfig
  BY <1>6 DEF IsOpAmpEnabled, NoCentralConfig
<1>7. ASSUME NEW raw \in CentralLevels, SetLogLevelFromCentralConfig(raw)
      PROVE  /\ cell'["OpAmpEndpoint"] = cell["OpAmpEndpoint"]
             /\ cell'["ServiceName"] = cell["ServiceName"]
  <2> DEFINE v == ToLogLevel(raw)
  <2>1. \/ cell' = cell
        \/ cell' = [cell EXCEPT !["LogLevel"] = Assign(@, v, CentralConfig)]
    BY <1>7 DEF SetLogLevelFromCentralConfig
  <2> HIDE DEF v
  <2>. QED
    BY <1>2, <2>1
<1>. QED
  BY <1>3, <1>4, <1>5, <1>6, <1>7 DEF Next

LEMMA OpAmpPreserved ==
  ASSUME CellInv, OpAmpInv, [Next]_vars, CellInv'
  PROVE  OpAmpInv'
<1>1. SUFFICES ASSUME opAmp'
               PROVE  /\ Built' /\ resolved'
                      /\ ~IsNullOrEmpty(Value("OpAmpEndpoint"))' /\ ~IsNullOrEmpty(Value("ServiceName"))'
  BY DEF OpAmpInv
<1>2. CASE opAmp
  <2>1. /\ cell'["OpAmpEndpoint"] = cell["OpAmpEndpoint"]
        /\ cell'["ServiceName"] = cell["ServiceName"]
    BY <1>2, IdentityKept
  <2>2. Value("OpAmpEndpoint")' = Value("OpAmpEndpoint") /\ Value("ServiceName")' = Value("ServiceName")
    BY <2>1, ValueKept
  <2>3. Built' /\ resolved'
    <3>1. Built /\ resolved
      BY <1>2 DEF OpAmpInv
    <3>. QED
      BY <3>1 DEF Next, vars, Built, AssignFromEnvironment, AssignFromIConfiguration,
        AssignFromElasticOpenTelemetryOptions, ResolveOpAmpServiceIdentity, IsOpAmpEnabled,
        SetLogLevelFromCentralConfig, NoCentralConfig
  <2>. QED
    BY <1>2, <2>2, <2>3 DEF OpAmpInv, IsNullOrEmpty
<1>3. CASE ~opAmp
  <2>1. IsOpAmpEnabled
    BY <1>1, <1>3 DEF Next, vars, AssignFromEnvironment, AssignFromIConfiguration,
      AssignFromElasticOpenTelemetryOptions, ResolveOpAmpServiceIdentity,
      SetLogLevelFromCentralConfig, NoCentralConfig
  <2>2. /\ ~IsNullOrEmpty(Value("OpAmpEndpoint")) /\ ~IsNullOrEmpty(Value("ServiceName"))
        /\ cell' = cell /\ resolved' = resolved /\ phase = "resolved" /\ phase' \in {"central", "built"}
    BY <1>1, <1>3, <2>1 DEF IsOpAmpEnabled
  <2>3. Value("OpAmpEndpoint")' = Value("OpAmpEndpoint") /\ Value("ServiceName")' = Value("ServiceName")
    BY <2>2, ValueKept
  <2>. QED
    BY <2>2, <2>3 DEF CellInv, Built, IsNullOrEmpty
<1>. QED
  BY <1>2, <1>3

-----------------------------------------------------------------------------
(* Signals *)

\* What the environment says of the signals depends on the environment alone.
LEMMA SignalsKept ==
  ASSUME env' = env
  PROVE  /\ SignalsConfigured' <=> SignalsConfigured
         /\ ParsedSignals' = ParsedSignals
         /\ \A g \in Signals : /\ Opted(g)' <=> Opted(g)
                               /\ EnumerateEnabled(g)' = EnumerateEnabled(g)
<1>1. AllEnabled' = AllEnabled
  BY DEF AllEnabled
<1>2. \A g : Switch(g)' = Switch(g)
  BY DEF Switch
<1>3. \A i : InstrumentationSwitch(i)' = InstrumentationSwitch(i)
  BY DEF InstrumentationSwitch
<1>4. \A g : Configured(g)' = Configured(g)
  BY <1>1, <1>2 DEF Configured
<1>5. \A g : EnumerateEnabled(g)' = EnumerateEnabled(g)
  BY <1>3, <1>4, Zenon DEF EnumerateEnabled
<1>6. \A g : Opted(g)' <=> Opted(g)
  BY <1>3, Zenon DEF Opted
<1>7. ParsedSignals' = ParsedSignals
  BY <1>1, <1>5 DEF ParsedSignals, Signals, All
<1>8. SignalsConfigured' <=> SignalsConfigured
  BY <1>1, <1>2, <1>6, Zenon DEF SignalsConfigured, Signals
<1>. QED
  BY <1>5, <1>6, <1>7, <1>8

LEMMA SignalsParsed ==
  ASSUME SignalsInitInv, AssignFromEnvironment
  PROVE  SignalsInv' /\ SignalsInitInv'
<1> USE DEF Default, Environment
<1>1. /\ phase = "environment" /\ phase' = "configuration" /\ env' = env
      /\ signals' = IF SignalsConfigured THEN Assign(signals, ParsedSignals, Environment) ELSE signals
      /\ enabled' = [g \in Signals |->
                       IF Opted(g) THEN Assign(enabled[g], EnumerateEnabled(g), Environment)
                       ELSE enabled[g]]
  BY DEF AssignFromEnvironment, ParseInstrumentationVariables, inputs
<1>2. /\ signals.value = All /\ signals.source = Default
      /\ \A g \in Signals : enabled[g].value = Instrumentations[g] /\ enabled[g].source = Default
  BY <1>1 DEF SignalsInitInv
<1>3. signals'.value = IF SignalsConfigured THEN ParsedSignals ELSE All
  BY <1>1, <1>2 DEF Assign
<1>4. \A g \in Signals : enabled'[g].value = IF Opted(g) THEN EnumerateEnabled(g) ELSE Instrumentations[g]
  BY <1>1, <1>2 DEF Assign
<1>5. All' = All /\ Signals' = Signals
  BY DEF All, Signals
<1>. QED
  BY <1>1, <1>3, <1>4, <1>5, SignalsKept DEF SignalsInv, SignalsInitInv

LEMMA SignalsPreserved ==
  ASSUME SignalsInv, SignalsInitInv, [Next]_vars
  PROVE  SignalsInv' /\ SignalsInitInv'
<1>1. CASE AssignFromEnvironment
  BY <1>1, SignalsParsed
<1>2. CASE /\ env' = env /\ signals' = signals /\ enabled' = enabled
           /\ phase = "environment" <=> phase' = "environment"
  BY <1>2, SignalsKept DEF SignalsInv, SignalsInitInv, All, Signals, Default
<1>. QED
  BY <1>1, <1>2 DEF Next, vars, inputs, AssignFromIConfiguration,
    AssignFromElasticOpenTelemetryOptions, ResolveOpAmpServiceIdentity, IsOpAmpEnabled,
    SetLogLevelFromCentralConfig, NoCentralConfig

-----------------------------------------------------------------------------
(* The invariant *)

LEMMA InitIInv == Init => IInv
<1>1. SUFFICES ASSUME Init PROVE IInv
  OBVIOUS
<1>2. /\ phase = "environment" /\ resolved = FALSE /\ opAmp = FALSE /\ pushed = Null
      /\ cell = [s \in Settings |-> [value |-> DefaultValue(s), source |-> Default]]
  BY <1>1 DEF Init
<1>3. ~Built /\ Considered = {}
  BY <1>2 DEF Built, Considered
<1>4. \A s \in Settings : cell[s].value = DefaultValue(s) /\ cell[s].source = Default
  BY <1>2
<1>5. \A s \in Settings : Decided(s)
  BY <1>2, <1>3, <1>4 DEF Decided
<1>6. CellInv
  BY <1>2, <1>3, <1>5 DEF CellInv, Settings
<1>7. SignalsInv /\ SignalsInitInv
  BY <1>1, <1>2 DEF Init, SignalsInv, SignalsInitInv
<1>. QED
  BY <1>2, <1>6, <1>7 DEF IInv, OpAmpInv

LEMMA NextIInv == IInv /\ [Next]_vars => IInv'
<1>1. SUFFICES ASSUME IInv, [Next]_vars PROVE IInv'
  OBVIOUS
<1>2. CellInv /\ OpAmpInv /\ SignalsInv /\ SignalsInitInv
  BY <1>1 DEF IInv
<1>3. CellInv'
  <2>1. CASE UNCHANGED vars
    <3>1. /\ env' = env /\ conf' = conf /\ opts' = opts /\ pushed' = pushed
          /\ resolved' = resolved /\ cell' = cell /\ phase' = phase
      BY <2>1 DEF vars, inputs
    <3>2. CASE Built
      BY <1>2, <3>1, <3>2, KeptCells DEF Built, CellInv
    <3>3. CASE ~Built
      <4>1. ~resolved /\ ~resolved' /\ pushed' = Null /\ phase' \notin {"resolved", "central"}
        BY <1>2, <3>1, <3>3 DEF CellInv
      <4>2. ASSUME NEW s \in Settings PROVE Decided(s)'
        <5>1. Decided(s)
          BY <1>2, <4>1, <4>2 DEF CellInv
        <5>2. \A x \in Sources : Said(s, x)' = Said(s, x)
          BY <3>1, <4>2, SaidKept
        <5>3. Considered' = Considered /\ Considered \subseteq Sources
          BY <3>1 DEF Considered, Sources
        <5>4. DefaultValue(s)' = DefaultValue(s)
          BY DEF DefaultValue
        <5>5. CASE \E x \in Considered : Winner(s, x) /\ cell[s].value = Said(s, x) /\ cell[s].source = x
          BY <3>1, <5>2, <5>3, <5>5 DEF Decided, Winner
        <5>6. CASE /\ \A x \in Considered : Said(s, x) = Null
                   /\ cell[s].value \in {Null, DefaultValue(s)}
                   /\ cell[s].source \in (IF phase \in {"environment", "configuration"} THEN {Default}
                                          ELSE {Default, IConfiguration})
          BY <3>1, <5>2, <5>3, <5>4, <5>6 DEF Decided, Default, IConfiguration
        <5>. QED
          BY <5>1, <5>5, <5>6 DEF Decided
      <4>3. "ServiceName" \in Settings
        BY DEF Settings
      <4>. QED
        BY <1>2, <3>1, <4>1, <4>2, <4>3 DEF CellInv
    <3>. QED
      BY <3>2, <3>3
  <2>2. CASE Next
    BY <1>2, <2>2, EnvironmentCells, ConfigurationCells, OptionsCells, IdentityCells, EnabledCells,
      CentralCells, NoCentralCells DEF Next
  <2>. QED
    BY <1>1, <2>1, <2>2
<1>4. OpAmpInv'
  BY <1>1, <1>2, <1>3, OpAmpPreserved
<1>5. SignalsInv' /\ SignalsInitInv'
  BY <1>1, <1>2, SignalsPreserved
<1>. QED
  BY <1>3, <1>4, <1>5 DEF IInv

\* The invariant holds in every state.
THEOREM Invariance == Spec => []IInv
  BY InitIInv, NextIInv, PTL DEF Spec

-----------------------------------------------------------------------------
(* The types *)

LEMMA AssignResult ==
  ASSUME NEW c, NEW v, NEW x
  PROVE  \/ Assign(c, v, x) = c
         \/ Assign(c, v, x).value = v /\ Assign(c, v, x).source = x
  BY DEF Assign

LEMMA LevelType == ASSUME NEW raw PROVE ToLogLevel(raw) \in LogLevels \cup {Null}
  BY DEF ToLogLevel, LogLevels, Trace, Debug, Warning, LevelNone

LEMMA BoolType == ASSUME NEW raw PROVE BoolParser(raw) \in BOOLEAN \cup {Null}
<1>1. BoolParser(raw) = TRUE \/ BoolParser(raw) = FALSE \/ BoolParser(raw) = Null
  BY DEF BoolParser
<1>. QED
  BY <1>1

\* The types of the values of the cells that have one.
TypeOf(s, v) ==
  /\ s = "LogLevel" => v \in LogLevels \cup {Null}
  /\ s = "LogTargets" => v \in (SUBSET {"stdout", "file"}) \cup {Null}
  /\ s \in {"SkipOtlpExporter", "RunningInContainer"} => v \in BOOLEAN

CellTypes(c) == \A s \in Settings : c[s].source \in Default..CentralConfig /\ TypeOf(s, c[s].value)

LEMMA ParseType ==
  ASSUME NEW s \in Settings, NEW raw, Parse(s, raw) # Null
  PROVE  TypeOf(s, Parse(s, raw))
<1>1. CASE s = "LogLevel"
  BY <1>1, ParseLevel, LevelType DEF TypeOf
<1>2. CASE s = "LogTargets"
  <2>1. Parse(s, raw) = LogTargetsParser(raw)
    BY <1>2 DEF Parse
  <2>2. LogTargetsParser(raw) = Null \/ LogTargetsParser(raw) = raw \cap {"stdout", "file"}
    BY DEF LogTargetsParser
  <2>3. raw \cap {"stdout", "file"} \in SUBSET {"stdout", "file"}
    OBVIOUS
  <2>4. Parse(s, raw) \in (SUBSET {"stdout", "file"}) \cup {Null}
    BY <2>1, <2>2, <2>3, Zenon
  <2>. QED
    BY <1>2, <2>4 DEF TypeOf
<1>3. CASE s \in {"SkipOtlpExporter", "RunningInContainer"}
  <2>1. Parse(s, raw) = BoolParser(raw)
    BY <1>3 DEF Parse
  <2>2. Parse(s, raw) \in BOOLEAN
    BY <2>1, BoolType, Zenon
  <2>. QED
    BY <1>3, <2>2, Zenon DEF TypeOf
<1>4. CASE s \notin {"LogLevel", "LogTargets", "SkipOtlpExporter", "RunningInContainer"}
  BY <1>4 DEF TypeOf
<1>. QED
  BY <1>1, <1>2, <1>3, <1>4

LEMMA AssignType ==
  ASSUME NEW s \in Settings, NEW c, c.source \in Default..CentralConfig, TypeOf(s, c.value),
         NEW v, TypeOf(s, v), NEW x \in Default..CentralConfig
  PROVE  Assign(c, v, x).source \in Default..CentralConfig /\ TypeOf(s, Assign(c, v, x).value)
<1>1. CASE Assign(c, v, x) = c
  BY <1>1
<1>2. CASE Assign(c, v, x).value = v /\ Assign(c, v, x).source = x
  BY <1>2
<1>. QED
  BY <1>1, <1>2, AssignResult

LEMMA SetFromType ==
  ASSUME NEW c, CellTypes(c), NEW raws, NEW S, NEW x \in Default..CentralConfig
  PROVE  CellTypes(SetFrom(c, raws, S, x))
<1>1. SUFFICES ASSUME NEW s \in Settings
               PROVE  /\ SetFrom(c, raws, S, x)[s].source \in Default..CentralConfig
                      /\ TypeOf(s, SetFrom(c, raws, S, x)[s].value)
  BY DEF CellTypes
<1>2. c[s].source \in Default..CentralConfig /\ TypeOf(s, c[s].value)
  BY DEF CellTypes
<1>3. \/ SetFrom(c, raws, S, x)[s] = c[s]
      \/ /\ Parse(s, raws[s]) # Null
         /\ SetFrom(c, raws, S, x)[s] = Assign(c[s], Parse(s, raws[s]), x)
  BY DEF SetFrom
<1>4. CASE SetFrom(c, raws, S, x)[s] = c[s]
  BY <1>2, <1>4
<1>5. CASE /\ Parse(s, raws[s]) # Null
           /\ SetFrom(c, raws, S, x)[s] = Assign(c[s], Parse(s, raws[s]), x)
  <2>1. TypeOf(s, Parse(s, raws[s]))
    BY <1>5, ParseType
  <2>. QED
    BY <1>2, <1>5, <2>1, AssignType
<1>. QED
  BY <1>3, <1>4, <1>5

\* The part of the type invariant that does not follow from IInv.
TypeInv ==
  /\ <<env, conf, opts>> \in Inputs
  /\ CellTypes(cell)
  /\ resolved \in BOOLEAN /\ opAmp \in BOOLEAN
  /\ pushed \in LogLevels \cup {Null}
  /\ phase \in {"environment", "configuration", "options", "built", "resolved", "central"}

LEMMA InitTypeInv == Init => TypeInv
<1>1. SUFFICES ASSUME Init PROVE TypeInv
  OBVIOUS
<1>2. <<env, conf, opts>> \in Inputs
  <2>1. PICK i \in Inputs : env = i[1] /\ conf = i[2] /\ opts = i[3]
    BY <1>1 DEF Init
  <2>2. i = <<i[1], i[2], i[3]>>
    BY InputsAssumption
  <2>. QED
    BY <2>1, <2>2
<1>3. CellTypes(cell)
  <2>1. \A s \in Settings : cell[s].value = DefaultValue(s) /\ cell[s].source = Default
    BY <1>1 DEF Init
  <2>2. ASSUME NEW s \in Settings PROVE TypeOf(s, DefaultValue(s))
    <3>1. s \in {"SkipOtlpExporter", "RunningInContainer"} => DefaultValue(s) \in BOOLEAN
      BY DEF DefaultValue
    <3>2. s = "LogLevel" => DefaultValue(s) \in LogLevels \cup {Null}
      BY DEF DefaultValue, LogLevels, Trace, Warning, LevelNone
    <3>3. s = "LogTargets" => DefaultValue(s) \in (SUBSET {"stdout", "file"}) \cup {Null}
      <4>1. s = "LogTargets" => DefaultValue(s) = Null
        BY DEF DefaultValue
      <4>. QED
        BY <4>1, Zenon
    <3>. QED
      BY <3>1, <3>2, <3>3, Zenon DEF TypeOf
  <2>3. Default \in Default..CentralConfig
    BY DEF Default, CentralConfig
  <2>. QED
    BY <2>1, <2>2, <2>3 DEF CellTypes
<1>. QED
  BY <1>1, <1>2, <1>3 DEF Init, TypeInv

\* The user options the object is given have the types of the properties they set.
LEMMA OptionType ==
  ASSUME <<env, conf, opts>> \in Inputs, opts # Null, NEW s \in FromOptions, opts[s] # Null
  PROVE  TypeOf(s, opts[s])
<1> DEFINE i == <<env, conf, opts>>
<1>1. i[3] = opts /\ i \in Inputs
  OBVIOUS
<1> HIDE DEF i
<1>2. /\ opts["LogLevel"] \in LogLevels \cup {Null}
      /\ opts["LogTargets"] \in (SUBSET {"stdout", "file"}) \cup {Null}
      /\ opts["SkipOtlpExporter"] \in BOOLEAN \cup {Null}
  BY <1>1, InputsAssumption, Zenon
<1>3. s # "RunningInContainer"
  BY DEF FromOptions
<1>4. s = "SkipOtlpExporter" => opts[s] \in BOOLEAN
  BY <1>2, Zenon
<1>5. s = "LogLevel" => opts[s] \in LogLevels \cup {Null}
  BY <1>2, Zenon
<1>6. s = "LogTargets" => opts[s] \in (SUBSET {"stdout", "file"}) \cup {Null}
  BY <1>2, Zenon
<1>. QED
  BY <1>3, <1>4, <1>5, <1>6, Zenon DEF TypeOf

\* Assigning to one cell.
LEMMA ExceptType ==
  ASSUME NEW c, c = [s \in Settings |-> c[s]], CellTypes(c), NEW t \in Settings, NEW v, TypeOf(t, v),
         NEW x \in Default..CentralConfig
  PROVE  CellTypes([c EXCEPT ![t] = Assign(@, v, x)])
<1> DEFINE d == [c EXCEPT ![t] = Assign(@, v, x)]
<1>1. d[t] = Assign(c[t], v, x) /\ \A s \in Settings \ {t} : d[s] = c[s]
  OBVIOUS
<1> HIDE DEF d
<1>2. \A s \in Settings : c[s].source \in Default..CentralConfig /\ TypeOf(s, c[s].value)
  BY DEF CellTypes
<1>3. d[t].source \in Default..CentralConfig /\ TypeOf(t, d[t].value)
  BY <1>1, <1>2, AssignType
<1>4. CellTypes(d)
  BY <1>1, <1>2, <1>3 DEF CellTypes
<1>. QED
  BY <1>4 DEF d

LEMMA NextTypeInv == IInv /\ TypeInv /\ [Next]_vars => TypeInv'
<1>1. SUFFICES ASSUME IInv, TypeInv, [Next]_vars PROVE TypeInv'
  OBVIOUS
<1>2. /\ CellTypes(cell) /\ <<env, conf, opts>> \in Inputs
      /\ cell = [s \in Settings |-> cell[s]]
  BY <1>1 DEF TypeInv, IInv, CellInv
<1>3. /\ {IConfiguration, Environment, Options, Property, CentralConfig} \subseteq Default..CentralConfig
      /\ {"LogLevel", "ServiceName"} \subseteq Settings
  BY DEF IConfiguration, Environment, Options, Property, Default, CentralConfig, Settings
<1>4. CellTypes(cell')
  <2>1. CASE cell' = cell
    BY <1>2, <2>1
  <2>2. CASE AssignFromEnvironment
    BY <1>2, <1>3, <2>2, SetFromType DEF AssignFromEnvironment
  <2>3. CASE AssignFromIConfiguration
    <3> DEFINE set == SetFrom(cell, conf, FromConfiguration, IConfiguration)
    <3>1. cell' = cell \/ cell' = LoggingSection(set)
      BY <2>3 DEF AssignFromIConfiguration
    <3>2. CellTypes(set)
      BY <1>2, <1>3, SetFromType
    <3>3. set = [s \in Settings |-> set[s]]
      BY DEF SetFrom
    <3> HIDE DEF set
    <3> DEFINE v == ToLogLevel(conf.section)
    <3>4. TypeOf("LogLevel", v)
      BY LevelType DEF TypeOf
    <3>5. LoggingSection(set) = set \/ LoggingSection(set) = [set EXCEPT !["LogLevel"] = Assign(@, v, IConfiguration)]
      BY Zenon DEF LoggingSection
    <3> HIDE DEF v
    <3>6. CellTypes([set EXCEPT !["LogLevel"] = Assign(@, v, IConfiguration)])
      BY <1>3, <3>2, <3>3, <3>4, ExceptType
    <3>. QED
      BY <1>2, <3>1, <3>2, <3>5, <3>6
  <2>4. CASE AssignFromElasticOpenTelemetryOptions
    <3>1. SUFFICES ASSUME opts # Null, NEW s \in Settings
                   PROVE  cell'[s].source \in Default..CentralConfig /\ TypeOf(s, cell'[s].value)
      BY <1>2, <2>4 DEF AssignFromElasticOpenTelemetryOptions, CellTypes
    <3>2. cell[s].source \in Default..CentralConfig /\ TypeOf(s, cell[s].value)
      BY <1>2 DEF CellTypes
    <3>3. \/ cell'[s] = cell[s]
          \/ s \in FromOptions /\ opts[s] # Null /\ cell'[s] = Assign(cell[s], opts[s], Options)
      <4>1. cell' = [t \in Settings |->
                       IF t \notin FromOptions \/ opts[t] = Null
                            \/ (t = "LogDirectory" /\ opts[t] = "")
                       THEN cell[t] ELSE Assign(cell[t], opts[t], Options)]
        BY <2>4, <3>1 DEF AssignFromElasticOpenTelemetryOptions
      <4>. QED
        BY <3>1, <4>1, Zenon
    <3>4. CASE cell'[s] = cell[s]
      BY <3>2, <3>4
    <3>5. CASE s \in FromOptions /\ opts[s] # Null /\ cell'[s] = Assign(cell[s], opts[s], Options)
      <4>1. TypeOf(s, opts[s])
        BY <1>2, <3>1, <3>5, OptionType
      <4>. QED
        BY <1>3, <3>2, <3>5, <4>1, AssignType
    <3>. QED
      BY <3>3, <3>4, <3>5
  <2>5. CASE ResolveOpAmpServiceIdentity
    <3> DEFINE v == LookupResourceAttribute(Value("ResourceAttributes"), "service.name")
    <3>1. cell' = cell \/ cell' = [cell EXCEPT !["ServiceName"] = Assign(@, v, Property)]
      BY <2>5 DEF ResolveOpAmpServiceIdentity
    <3> HIDE DEF v
    <3>2. TypeOf("ServiceName", v)
      BY DEF TypeOf
    <3>3. CellTypes([cell EXCEPT !["ServiceName"] = Assign(@, v, Property)])
      BY <1>2, <1>3, <3>2, ExceptType
    <3>. QED
      BY <1>2, <3>1, <3>3
  <2>6. ASSUME NEW raw \in CentralLevels, SetLogLevelFromCentralConfig(raw) PROVE CellTypes(cell')
    <3> DEFINE v == ToLogLevel(raw)
    <3>1. cell' = cell \/ cell' = [cell EXCEPT !["LogLevel"] = Assign(@, v, CentralConfig)]
      BY <2>6 DEF SetLogLevelFromCentralConfig
    <3>2. TypeOf("LogLevel", v)
      BY LevelType DEF TypeOf
    <3> HIDE DEF v
    <3>3. CellTypes([cell EXCEPT !["LogLevel"] = Assign(@, v, CentralConfig)])
      BY <1>2, <1>3, <3>2, ExceptType
    <3>. QED
      BY <1>2, <3>1, <3>3
  <2>. QED
    BY <1>1, <2>1, <2>2, <2>3, <2>4, <2>5, <2>6 DEF Next, vars, IsOpAmpEnabled, NoCentralConfig
<1>5. env' = env /\ conf' = conf /\ opts' = opts
  BY <1>1 DEF Next, vars, inputs, AssignFromEnvironment, AssignFromIConfiguration,
    AssignFromElasticOpenTelemetryOptions, ResolveOpAmpServiceIdentity, IsOpAmpEnabled,
    SetLogLevelFromCentralConfig, NoCentralConfig
<1>6. pushed' \in LogLevels \cup {Null}
  <2>1. pushed' = pushed \/ \E raw \in CentralLevels : pushed' = ToLogLevel(raw)
    BY <1>1 DEF Next, vars, AssignFromEnvironment, AssignFromIConfiguration,
      AssignFromElasticOpenTelemetryOptions, ResolveOpAmpServiceIdentity, IsOpAmpEnabled,
      SetLogLevelFromCentralConfig, NoCentralConfig
  <2>. QED
    BY <1>1, <2>1, LevelType, Zenon DEF TypeInv
<1>7. /\ resolved' \in BOOLEAN /\ opAmp' \in BOOLEAN
      /\ phase' \in {"environment", "configuration", "options", "built", "resolved", "central"}
  BY <1>1 DEF TypeInv, Next, vars, AssignFromEnvironment, AssignFromIConfiguration,
    AssignFromElasticOpenTelemetryOptions, ResolveOpAmpServiceIdentity, IsOpAmpEnabled,
    SetLogLevelFromCentralConfig, NoCentralConfig
<1>8. <<env', conf', opts'>> \in Inputs
  BY <1>2, <1>5
<1>9. CellTypes(cell)'
  BY <1>4 DEF CellTypes, TypeOf, Settings, Default, CentralConfig, LogLevels, Trace, LevelNone
<1>. QED
  BY <1>6, <1>7, <1>8, <1>9 DEF TypeInv, LogLevels, Trace, LevelNone

\* The type invariant follows.
LEMMA TypeFollows == IInv /\ TypeInv => TypeOK
<1>1. SUFFICES ASSUME IInv, TypeInv PROVE TypeOK
  OBVIOUS
<1>2. DOMAIN cell = Settings
  BY <1>1 DEF IInv, CellInv
<1>3. /\ \A s \in Settings : cell[s].source \in Default..CentralConfig
      /\ cell["LogLevel"].value \in LogLevels \cup {Null}
      /\ cell["LogTargets"].value \in (SUBSET {"stdout", "file"}) \cup {Null}
      /\ \A s \in {"SkipOtlpExporter", "RunningInContainer"} : cell[s].value \in BOOLEAN
  <2>1. {"LogLevel", "LogTargets", "SkipOtlpExporter", "RunningInContainer"} \subseteq Settings
    BY DEF Settings
  <2>2. \A s \in Settings : cell[s].source \in Default..CentralConfig /\ TypeOf(s, cell[s].value)
    BY <1>1 DEF TypeInv, CellTypes
  <2>. QED
    BY <2>1, <2>2, Zenon DEF TypeOf
<1>4. signals.value \in SUBSET All /\ \A g \in Signals : enabled[g].value \subseteq Instrumentations[g]
  <2>1. ParsedSignals \subseteq All
    BY DEF ParsedSignals, All
  <2>2. \A g \in Signals : EnumerateEnabled(g) \subseteq Instrumentations[g]
    BY Zenon DEF EnumerateEnabled
  <2>. QED
    BY <1>1, <2>1, <2>2, Zenon DEF IInv, SignalsInv, SignalsInitInv
<1>. QED
  BY <1>1, <1>2, <1>3, <1>4 DEF TypeOK, TypeInv

-----------------------------------------------------------------------------
(* Theorems *)

\* Types: whatever the sources hold, every cell of the options object has a value
\* of the type of its property and a known source, in every phase of the
\* construction and in every bootstrap that uses the object.
THEOREM TypeCorrect == Spec => []TypeOK
<1>1. Init => IInv /\ TypeInv
  BY InitIInv, InitTypeInv
<1>2. (IInv /\ TypeInv) /\ [Next]_vars => (IInv /\ TypeInv)'
  BY NextIInv, NextTypeInv
<1>3. IInv /\ TypeInv => TypeOK
  BY TypeFollows
<1>. QED
  BY <1>1, <1>2, <1>3, PTL DEF Spec

\* CompositeElasticOpenTelemetryOptions and ConfigCell.Assign: every setting but the
\* service name is worth what the highest source says that says anything.
THEOREM SourcesPrecede == Spec => []Precedence
<1>1. IInv => Precedence
  BY DecidedValue DEF IInv, CellInv, Precedence
<1>. QED
  BY <1>1, Invariance, PTL

\* ResolveOpAmpServiceIdentity: the service name is the configured one or, only
\* without one, the service.name of the effective resource attributes, and
\* resolving it again in a later bootstrap does not change that.
THEOREM IdentityResolved == Spec => []ServiceIdentity
<1>1. IInv => ServiceIdentity
  BY NameCell DEF IInv, CellInv, NameDecided, ServiceIdentity
<1>. QED
  BY <1>1, Invariance, PTL

\* IsOpAmpEnabled caches true: no later step takes the endpoint or the service name
\* away, or changes the name the client has been given.
THEOREM IdentityStable == Spec => OpAmpIdentityKept
<1>1. IInv /\ [Next]_vars =>
        [opAmp => /\ ~IsNullOrEmpty(Value("OpAmpEndpoint")') /\ ~IsNullOrEmpty(Value("ServiceName")')
                  /\ Value("ServiceName")' = Value("ServiceName")]_vars
  <2>1. SUFFICES ASSUME IInv, [Next]_vars, opAmp
                 PROVE  /\ ~IsNullOrEmpty(Value("OpAmpEndpoint")') /\ ~IsNullOrEmpty(Value("ServiceName")')
                        /\ Value("ServiceName")' = Value("ServiceName")
    OBVIOUS
  <2>2. /\ cell'["OpAmpEndpoint"] = cell["OpAmpEndpoint"]
        /\ cell'["ServiceName"] = cell["ServiceName"]
    BY <2>1, IdentityKept DEF IInv
  <2>3. Value("OpAmpEndpoint")' = Value("OpAmpEndpoint") /\ Value("ServiceName")' = Value("ServiceName")
    BY <2>2, ValueKept
  <2>4. ~IsNullOrEmpty(Value("OpAmpEndpoint")) /\ ~IsNullOrEmpty(Value("ServiceName"))
    BY <2>1 DEF IInv, OpAmpInv
  <2>. QED
    BY <2>3, <2>4
<1>. QED
  BY <1>1, Invariance, PTL DEF Spec, OpAmpIdentityKept

\* GlobalLogEnabled, LogTargets and the constructors of the loggers: a log is
\* opened if and only if the winning sources ask for it, by targets, or without
\* any by a verbose level or a directory, and never with log level None.
THEOREM LoggingAsAskedFor == Spec => []LoggingAskedFor
<1>1. ASSUME IInv PROVE LoggingAskedFor
  <2>1. SUFFICES ASSUME Built, NEW target \in {"file", "stdout"}
                 PROVE  Active(target) <=>
                          /\ Expected("LogLevel") # LevelNone
                          /\ IF Expected("LogTargets") # Null THEN target \in Expected("LogTargets")
                             ELSE /\ \/ Expected("LogLevel") <= Debug
                                     \/ Expected("LogDirectory") \notin {Null, "blank"}
                                  /\ target = IF Expected("RunningInContainer") THEN "stdout" ELSE "file"
    BY Zenon DEF LoggingAskedFor
  <2>2. {"LogLevel", "LogDirectory", "LogTargets", "RunningInContainer"} \subseteq Settings \ {"ServiceName"}
    BY DEF Settings
  <2>3. /\ Value("LogLevel") = Expected("LogLevel") /\ Value("LogDirectory") = Expected("LogDirectory")
        /\ Value("LogTargets") = Expected("LogTargets")
        /\ Value("RunningInContainer") = Expected("RunningInContainer")
    BY <1>1, <2>1, <2>2, DecidedValue DEF IInv, CellInv
  <2>4. CASE Expected("LogTargets") = Null
    <3>1. Expected("LogTargets") # {}
      BY <2>4, SignalsAssumption
    <3>2. GlobalLogEnabled <=> /\ Expected("LogLevel") # LevelNone
                               /\ \/ Expected("LogLevel") <= Debug
                                  \/ Expected("LogDirectory") \notin {Null, "blank"}
      BY <2>3, <2>4, <3>1, Zenon DEF GlobalLogEnabled, LogLevel
    <3>3. GlobalLogEnabled => LogTargets = IF Expected("RunningInContainer") THEN {"stdout"} ELSE {"file"}
      BY <2>3, <2>4, Zenon DEF LogTargets
    <3>. QED
      BY <2>4, <3>2, <3>3, Zenon DEF Active
  <2>5. CASE Expected("LogTargets") # Null
    <3>1. GlobalLogEnabled <=> Expected("LogLevel") # LevelNone /\ Expected("LogTargets") # {}
      BY <2>3, <2>5, Zenon DEF GlobalLogEnabled, LogLevel
    <3>2. LogTargets = Expected("LogTargets")
      BY <2>3, <2>5, Zenon DEF LogTargets
    <3>. QED
      BY <2>5, <3>1, <3>2, Zenon DEF Active
  <2>. QED
    BY <2>4, <2>5
<1>. QED
  BY <1>1, Invariance, PTL

\* ParseInstrumentationVariables: a signal that is on has an instrumentation that is,
\* and traces and logs follow their switch, and else the switch of all signals,
\* unless single instrumentations are switched.
THEOREM SwitchesFollowed == Spec => []SignalsFollowSwitches
<1>1. ASSUME IInv PROVE SignalsFollowSwitches
  <2>1. SUFFICES ASSUME Built
                 PROVE  /\ \A g \in signals.value \cap Signals : enabled[g].value # {}
                        /\ \A g \in {"Traces", "Logs"} :
                             ~Opted(g) => (g \in signals.value <=> Configured(g))
    BY DEF SignalsFollowSwitches
  <2>2. /\ signals.value = IF SignalsConfigured THEN ParsedSignals ELSE All
        /\ \A g \in Signals : enabled[g].value = IF Opted(g) THEN EnumerateEnabled(g) ELSE Instrumentations[g]
    BY <1>1, <2>1 DEF IInv, SignalsInv, Built
  <2>3. \A g \in Signals : g \in ParsedSignals <=> EnumerateEnabled(g) # {}
    BY Zenon DEF ParsedSignals
  <2>4. ASSUME NEW g \in signals.value \cap Signals PROVE enabled[g].value # {}
    <3>1. CASE Opted(g)
      <4>1. SignalsConfigured
        BY <2>4, <3>1, Zenon DEF SignalsConfigured
      <4>. QED
        BY <2>2, <2>3, <2>4, <3>1, <4>1, Zenon
    <3>2. CASE ~Opted(g)
      BY <2>2, <2>4, <3>2, SignalsAssumption, Zenon
    <3>. QED
      BY <3>1, <3>2
  <2>5. ASSUME NEW g \in {"Traces", "Logs"}, ~Opted(g)
        PROVE  g \in signals.value <=> Configured(g)
    <3>1. g \in Signals /\ g \in All
      BY <2>5 DEF Signals, All
    <3>2. \A i \in Instrumentations[g] : InstrumentationSwitch(i) = Null
      BY <2>5, Zenon DEF Opted
    <3>3. Null # TRUE /\ Null # FALSE
      BY SignalsAssumption, Zenon
    <3>4. \A i : i \in EnumerateEnabled(g) <=> i \in Instrumentations[g] /\ Configured(g)
      BY <3>2, <3>3, Zenon DEF EnumerateEnabled
    <3>5. PICK i : i \in Instrumentations[g]
      BY <3>1, SignalsAssumption, Zenon
    <3>6. EnumerateEnabled(g) # {} <=> Configured(g)
      BY <3>4, <3>5, Zenon
    <3>7. CASE SignalsConfigured
      BY <2>2, <2>3, <3>1, <3>6, <3>7, Zenon
    <3>8. CASE ~SignalsConfigured
      <4>1. Switch(g) = Null /\ AllEnabled = Null
        BY <2>5, <3>8, Zenon DEF SignalsConfigured
      <4>2. Configured(g)
        BY <4>1, Zenon DEF Configured
      <4>. QED
        BY <2>2, <3>1, <3>8, <4>2, Zenon
    <3>. QED
      BY <3>7, <3>8
  <2>. QED
    BY <2>4, <2>5
<1>. QED
  BY <1>1, Invariance, PTL

=============================================================================
