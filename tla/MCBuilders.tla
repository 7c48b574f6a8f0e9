----------------------------- MODULE MCBuilders -----------------------------
(* Small instance of Builders for TLC. Logs are left out: ConfigureBuilder    *)
(* treats them as it does metrics.                                            *)
EXTENDS Builders

MCSignalOrder == <<"Traces", "Metrics">>
MCAll         == [signals |-> {"Traces", "Metrics"}, skip |-> FALSE]
MCSettings ==
  {MCAll, [signals |-> {"Metrics"}, skip |-> FALSE],
   [signals |-> {"Traces"}, skip |-> TRUE], [signals |-> {}, skip |-> FALSE]}

=============================================================================
