\* Three sources of OpenTelemetry and one other, each there from the beginning or
\* created by a thread at any time; every level of the options; an additional
\* ILogger with level Debug, which is below most of them and above Trace, or none.
SPECIFICATION FairSpec
CONSTANTS
  Sources = {s1, s2, s3, f}
  Foreign = {f}
  UserLevels = {"Debug"}
  NoLogger = NoLogger
  NoThread = NoThread
INVARIANT SubscribedAtLevel
PROPERTY SourcesSubscribed
\* The threads run to their end and then the system stops.
CHECK_DEADLOCK FALSE
