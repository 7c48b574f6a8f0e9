------------------------- MODULE MCCompositeOptions -------------------------
(***************************************************************************)
(* Small instances of CompositeOptions for TLC. Settings that have nothing *)
(* to do with each other are varied one group at a time: everything about  *)
(* logging, everything about the OpAMP identity, the switches of signals   *)
(* and instrumentations, and a plain setting.                              *)
(***************************************************************************)
EXTENDS CompositeOptions

MCInstrumentations ==
  [g \in Signals |-> CASE g = "Traces" -> {"sql", "http"} [] g = "Metrics" -> {"runtime"}
                       [] g = "Logs" -> {"ilogger"}]

Instrumented == UNION {MCInstrumentations[g] : g \in Signals}

\* Nothing set.
Unset ==
  [LogDirectory |-> "", LogLevel |-> "", LogTargets |-> {}, SkipOtlpExporter |-> "",
   OpAmpEndpoint |-> "", ResourceAttributes |-> << >>, ServiceName |-> "",
   RunningInContainer |-> "", section |-> "", auto |-> "",
   switch |-> [g \in Signals |-> ""], instrumentation |-> [i \in Instrumented |-> ""]]

NoOptions ==
  [LogDirectory |-> Null, LogLevel |-> Null, LogTargets |-> Null, SkipOtlpExporter |-> Null,
   OpAmpEndpoint |-> Null]

LoggingInputs ==
  {[Unset EXCEPT !.LogDirectory = d, !.LogLevel = l, !.LogTargets = t, !.RunningInContainer = c,
                 !.OpAmpEndpoint = "e1", !.ServiceName = "n1"] :
     d \in {"", "blank", "dir1"}, l \in {"", "Debug", "None", "bad"},
     t \in {{}, {"file"}, {"bad"}}, c \in {"", "1"}}
  \X ({Null} \cup
      {[Unset EXCEPT !.LogDirectory = d, !.LogLevel = l, !.LogTargets = t, !.section = x] :
         d \in {"", "dir2"}, l \in {"", "Warn", "bad"}, t \in {{}, {"none"}},
         x \in {"", "Trace"}})
  \X ({Null} \cup
      {[NoOptions EXCEPT !.LogDirectory = d, !.LogLevel = l, !.LogTargets = t] :
         d \in {Null, "", "dir3"}, l \in {Null, LevelNone, Trace},
         t \in {Null, {}, {"file", "stdout"}}})

Attributes ==
  {<< >>, <<<<"service.name", "n1">>>>, <<<<"service.name", "">>>>,
   <<<<"junk">>, <<"service.version", "v1">>, <<"service.name", "n2">>, <<"service.name", "n3">>>>}

IdentityInputs ==
  {[Unset EXCEPT !.OpAmpEndpoint = e, !.ServiceName = n, !.ResourceAttributes = a] :
     e \in {"", "e1"}, n \in {"", "n4"}, a \in Attributes}
  \X ({Null} \cup
      {[Unset EXCEPT !.OpAmpEndpoint = e, !.ServiceName = n, !.ResourceAttributes = a] :
         e \in {"", "e2"}, n \in {"", "n5"}, a \in Attributes})
  \X {Null, NoOptions, [NoOptions EXCEPT !.OpAmpEndpoint = ""],
      [NoOptions EXCEPT !.OpAmpEndpoint = "e3"]}

SwitchInputs ==
  {[Unset EXCEPT !.auto = a, !.switch = w, !.instrumentation = i] :
     a \in {"", "0", "1"}, w \in [Signals -> {"", "false", "true"}],
     i \in [Instrumented -> {"", "0", "1"}]}
  \X {Null} \X {Null}

PlainInputs ==
  {[Unset EXCEPT !.SkipOtlpExporter = v] : v \in {"", "1", "0", "bad"}}
  \X {[Unset EXCEPT !.SkipOtlpExporter = v] : v \in {"", "true", "false", "bad"}}
  \X {[NoOptions EXCEPT !.SkipOtlpExporter = v] : v \in {Null, TRUE, FALSE}}

MCInputs == LoggingInputs \cup IdentityInputs \cup SwitchInputs \cup PlainInputs

=============================================================================
