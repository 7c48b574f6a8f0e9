--------------------- MODULE CentralConfigurationProofs ---------------------
(***************************************************************************)
(* Proofs of the safety properties of CentralConfiguration for any number  *)
(* of disposing and delivering threads and any set of configurations, then *)
(* of the message listener in front of it: the listener takes no step that *)
(* CentralConfiguration could not take, and passes on what was asked for.  *)
(***************************************************************************)
EXTENDS RemoteConfigMessageListener, CentralConfigJsonParserProofs

\* What the worker's position says about its outcome and the calls it has made.
\* The last two conjuncts are the heart of the ownership split: after a success
\* the worker tears the client down only when the caller has swapped it away.
WorkerInv ==
  /\ workerPc \in {"none", "starting"} => outcome = "Pending"
  /\ workerPc = "check" => outcome = "Succeeded"
  /\ workerPc \in {"stop", "dispose", "cts", "done"} => outcome # "Pending"
  /\ workerPc \in {"none", "starting", "check", "stop"} => "worker" \notin stoppedBy
  /\ workerPc = "dispose" => "worker" \in stoppedBy
  /\ "worker" \in disposedBy => "worker" \in stoppedBy
  /\ (workerPc \in {"cts", "done"} /\ outcome # "Succeeded") => "worker" \in disposedBy
  /\ workerPc = "done" => cts = "disposed"
  /\ (workerPc = "stop" /\ outcome = "Succeeded") => client = "Empty"
  /\ ("worker" \in stoppedBy /\ outcome = "Succeeded") => client = "Empty"

\* What the caller's position says about _client and the worker.
CallerInv ==
  /\ callerPc = "new" => client = "None" /\ workerPc = "none"
  /\ callerPc \in {"join", "swap"} => client = "Created"
  /\ callerPc \in {"constructed", "waiting", "read", "done"} => client # "None"
  /\ (client = "Created" /\ callerPc \in {"constructed", "waiting", "read", "done"})
        => workerPc = "done" /\ outcome = "Succeeded"

\* A disposing thread that has passed the gate, or has acted on the client.
Acting(d) == disposerPc[d] \in {"stop", "dispose"} \/ d \in stoppedBy

\* At most one thread passes the gate of Dispose, and only for a kept client.
DisposerInv ==
  /\ \A d \in Disposers : disposerPc[d] # "idle" \/ d \in stoppedBy => callerPc = "done"
  /\ \A d \in Disposers : Acting(d) => disposed /\ client = "Created"
  /\ \A d, e \in Disposers : Acting(d) /\ Acting(e) => d = e
  /\ \A d \in Disposers : disposerPc[d] = "dispose" => d \in stoppedBy
  /\ \A d \in Disposers : d \in disposedBy => d \in stoppedBy

\* The configuration is published before anything that announces it.
ConfigInv ==
  /\ firstConfigTask => initialConfig # NoConfig
  /\ \A h \in Deliverers : delivererPc[h] = "signal" => initialConfig # NoConfig
  /\ callerPc = "read" => initialConfig # NoConfig
  /\ applied # NoConfig => applied = initialConfig

\* The inductive invariant.
IInv == TypeOK /\ WorkerInv /\ CallerInv /\ DisposerInv /\ ConfigInv

-----------------------------------------------------------------------------

LEMMA InitIInv == Init => IInv
  BY ActorsAssumption
  DEF Init, IInv, TypeOK, StartOutcome, WorkerInv, CallerInv, DisposerInv, Acting, ConfigInv

\* The steps of the constructing thread.
LEMMA CallerIInv == IInv /\ Caller => IInv'
<1> SUFFICES ASSUME IInv, Caller PROVE IInv'
  OBVIOUS
<1> USE ActorsAssumption DEF IInv, TypeOK, StartOutcome, callerVars, workerVars, teardownVars,
       clientCalls, subscriberVars
<1>1. CASE ConstructEmpty
  BY <1>1 DEF ConstructEmpty, WorkerInv, CallerInv, DisposerInv, Acting, ConfigInv
<1>2. CASE StartClient
  BY <1>2 DEF StartClient, WorkerInv, CallerInv, DisposerInv, Acting, ConfigInv
<1>3. CASE JoinReturns
  BY <1>3 DEF JoinReturns, WorkerInv, CallerInv, DisposerInv, Acting, ConfigInv
<1>4. CASE JoinTimesOut
  BY <1>4 DEF JoinTimesOut, WorkerInv, CallerInv, DisposerInv, Acting, ConfigInv
<1>5. CASE SwapClient
  BY <1>5 DEF SwapClient, WorkerInv, CallerInv, DisposerInv, Acting, ConfigInv
<1>6. CASE WaitForFirstConfig
  BY <1>6 DEF WaitForFirstConfig, WorkerInv, CallerInv, DisposerInv, Acting, ConfigInv
<1>7. CASE WaitReturns
  BY <1>7 DEF WaitReturns, WorkerInv, CallerInv, DisposerInv, Acting, ConfigInv
<1>8. CASE TryGetInitialConfig
  BY <1>8 DEF TryGetInitialConfig, WorkerInv, CallerInv, DisposerInv, Acting, ConfigInv
<1>. QED
  BY <1>1, <1>2, <1>3, <1>4, <1>5, <1>6, <1>7, <1>8 DEF Caller

\* The steps of the worker thread and of the timer of its token.
LEMMA WorkerIInv == IInv /\ (Worker \/ CtsFires) => IInv'
<1> SUFFICES ASSUME IInv, Worker \/ CtsFires PROVE IInv'
  OBVIOUS
<1> USE ActorsAssumption DEF IInv, TypeOK, StartOutcome, callerVars, workerVars, teardownVars,
       clientCalls, subscriberVars
<1>1. CASE CtsFires
  BY <1>1 DEF CtsFires, WorkerInv, CallerInv, DisposerInv, Acting, ConfigInv
<1>2. CASE StartAsyncEnds
  BY <1>2 DEF StartAsyncEnds, WorkerInv, CallerInv, DisposerInv, Acting, ConfigInv
<1>3. CASE CheckOrphaned
  BY <1>3 DEF CheckOrphaned, WorkerInv, CallerInv, DisposerInv, Acting, ConfigInv
<1>4. CASE WorkerStop
  BY <1>4 DEF WorkerStop, WorkerInv, CallerInv, DisposerInv, Acting, ConfigInv
<1>5. CASE WorkerDispose
  BY <1>5 DEF WorkerDispose, WorkerInv, CallerInv, DisposerInv, Acting, ConfigInv
<1>6. CASE WorkerDisposeCts
  BY <1>6 DEF WorkerDisposeCts, WorkerInv, CallerInv, DisposerInv, Acting, ConfigInv
<1>. QED
  BY <1>1, <1>2, <1>3, <1>4, <1>5, <1>6 DEF Worker, WorkerFinally

\* The steps of a thread in Dispose or DisposeAsync.
LEMMA DisposerIInv == ASSUME NEW d \in Disposers PROVE IInv /\ Disposer(d) => IInv'
<1> SUFFICES ASSUME IInv, Disposer(d) PROVE IInv'
  OBVIOUS
<1> USE ActorsAssumption DEF IInv, TypeOK, StartOutcome, callerVars, workerVars, teardownVars,
       clientCalls, subscriberVars
<1>1. CASE DisposeGate(d)
  <2>a. disposed' \in BOOLEAN /\ disposerPc' \in [Disposers -> {"idle", "stop", "dispose", "done"}]
    <3>1. CASE client = "Empty" \/ disposed
      BY <1>1, <3>1 DEF DisposeGate
    <3>2. CASE ~(client = "Empty" \/ disposed)
      BY <1>1, <3>2 DEF DisposeGate
    <3>. QED
      BY <3>1, <3>2
  <2>1. TypeOK' /\ WorkerInv' /\ CallerInv' /\ ConfigInv'
    BY <1>1, <2>a DEF DisposeGate, WorkerInv, CallerInv, ConfigInv
  <2>2. CASE client = "Empty" \/ disposed
    <3>1. \A e \in Disposers : disposerPc'[e] \in {disposerPc[e], "done"}
      BY <1>1, <2>2 DEF DisposeGate
    <3>. QED
      BY <1>1, <2>1, <2>2, <3>1 DEF DisposeGate, DisposerInv, Acting
  <2>3. CASE ~(client = "Empty" \/ disposed)
    <3>1. client = "Created"
      BY <1>1, <2>3 DEF DisposeGate, CallerInv
    <3>2. \A e \in Disposers : ~Acting(e)
      BY <2>3 DEF DisposerInv
    <3>3. \A e \in Disposers : Acting(e)' => e = d
      BY <1>1, <2>3, <3>2 DEF DisposeGate, Acting
    <3>. QED
      BY <1>1, <2>1, <2>3, <3>1, <3>3 DEF DisposeGate, DisposerInv, Acting
  <2>. QED
    BY <2>2, <2>3
<1>2. CASE DisposeStop(d)
  BY <1>2 DEF DisposeStop, WorkerInv, CallerInv, DisposerInv, Acting, ConfigInv
<1>3. CASE DisposeClient(d)
  BY <1>3 DEF DisposeClient, WorkerInv, CallerInv, DisposerInv, Acting, ConfigInv
<1>. QED
  BY <1>1, <1>2, <1>3 DEF Disposer

\* The steps of a thread delivering a remote configuration.
LEMMA DelivererIInv == ASSUME NEW h \in Deliverers PROVE IInv /\ Deliverer(h) => IInv'
<1> SUFFICES ASSUME IInv, Deliverer(h) PROVE IInv'
  OBVIOUS
<1> USE ActorsAssumption DEF IInv, TypeOK, StartOutcome, callerVars, workerVars, teardownVars,
       clientCalls, subscriberVars
<1>1. ASSUME NEW c \in Configs, HandleMessage(h, c) PROVE IInv'
  BY <1>1 DEF HandleMessage, WorkerInv, CallerInv, DisposerInv, Acting, ConfigInv
<1>2. CASE CompleteFirstConfigTask(h)
  BY <1>2 DEF CompleteFirstConfigTask, WorkerInv, CallerInv, DisposerInv, Acting, ConfigInv
<1>. QED
  BY <1>1, <1>2 DEF Deliverer

\* The invariant is preserved by every step.
LEMMA NextIInv == IInv /\ [Next]_vars => IInv'
<1> SUFFICES ASSUME IInv, [Next]_vars PROVE IInv'
  OBVIOUS
<1>1. CASE UNCHANGED vars
  BY <1>1 DEF vars, callerVars, workerVars, teardownVars, clientCalls, subscriberVars,
       IInv, TypeOK, WorkerInv, CallerInv, DisposerInv, Acting, ConfigInv
<1>. QED
  BY <1>1, CallerIInv, WorkerIInv, DisposerIInv, DelivererIInv DEF Next

\* The inductive invariant holds throughout every behaviour.
THEOREM Invariance == Spec => []IInv
  BY InitIInv, NextIInv, PTL DEF Spec

-----------------------------------------------------------------------------

\* Type correctness of CentralConfiguration's state.
THEOREM TypeCorrect == Spec => []TypeOK
<1>1. IInv => TypeOK
  BY DEF IInv
<1>. QED
  BY <1>1, Invariance, PTL

\* StopAsync and Dispose never race with an in-flight StartAsync.
THEOREM CleanupAfterStart == Spec => []NoCleanupDuringStart
<1>1. IInv => NoCleanupDuringStart
  <2> SUFFICES ASSUME IInv, workerPc = "starting" PROVE stoppedBy = {} /\ disposedBy = {}
    BY DEF NoCleanupDuringStart
  <2>1. "worker" \notin stoppedBy /\ "worker" \notin disposedBy
    BY DEF IInv, WorkerInv
  <2>2. \A d \in Disposers : d \notin stoppedBy
    BY DEF IInv, DisposerInv, CallerInv, Acting
  <2>3. \A d \in Disposers : d \notin disposedBy
    BY <2>2 DEF IInv, DisposerInv
  <2>. QED
    BY <2>1, <2>2, <2>3 DEF IInv, TypeOK
<1>. QED
  BY <1>1, Invariance, PTL

\* The client is stopped and disposed at most once, in that order, whoever does it.
THEOREM TeardownOnce == Spec => []SingleTeardown
<1>1. IInv => SingleTeardown
  <2> SUFFICES ASSUME IInv PROVE SingleTeardown
    OBVIOUS
  <2>1. disposedBy \subseteq stoppedBy
    BY DEF IInv, TypeOK, WorkerInv, DisposerInv
  <2>2. ASSUME NEW d \in Disposers, d \in stoppedBy PROVE "worker" \notin stoppedBy
    BY <2>2 DEF IInv, DisposerInv, CallerInv, WorkerInv, Acting
  <2>3. ASSUME NEW a \in stoppedBy, NEW b \in stoppedBy PROVE a = b
    <3>1. CASE a \in Disposers /\ b \in Disposers
      BY <3>1 DEF IInv, DisposerInv, Acting
    <3>2. CASE a = "worker" \/ b = "worker"
      BY <2>2, <3>2 DEF IInv, TypeOK
    <3>. QED
      BY <3>1, <3>2 DEF IInv, TypeOK
  <2>. QED
    BY <2>1, <2>3 DEF SingleTeardown
<1>. QED
  BY <1>1, Invariance, PTL

\* A client the constructor kept has been started and is not torn down by the worker.
THEOREM RetainedStarted == Spec => []RetainedClientStarted
<1>1. IInv => RetainedClientStarted
  BY DEF IInv, TypeOK, CallerInv, WorkerInv, RetainedClientStarted
<1>. QED
  BY <1>1, Invariance, PTL

\* A failed or cancelled start is cleaned up by the time the worker has ended.
THEOREM FailureCleanedUp == Spec => []FailedStartCleanedUp
<1>1. IInv => FailedStartCleanedUp
  BY DEF IInv, TypeOK, CallerInv, WorkerInv, FailedStartCleanedUp
<1>. QED
  BY <1>1, Invariance, PTL

\* A successful wait for the first configuration finds one.
THEOREM WaitFindsConfig == Spec => []CompletedWaitHasConfig
<1>1. IInv => CompletedWaitHasConfig
  BY DEF IInv, ConfigInv, CompletedWaitHasConfig
<1>. QED
  BY <1>1, Invariance, PTL

\* No later message replaces the first configuration.
THEOREM FirstWins == Spec => FirstConfigWins
<1>1. [Next]_vars => [initialConfig # NoConfig => initialConfig' = initialConfig]_initialConfig
  BY DEF Next, Caller, Worker, WorkerFinally, Disposer, Deliverer, CtsFires,
       ConstructEmpty, StartClient, JoinReturns, JoinTimesOut, SwapClient,
       WaitForFirstConfig, WaitReturns, TryGetInitialConfig,
       StartAsyncEnds, CheckOrphaned, WorkerStop, WorkerDispose, WorkerDisposeCts,
       DisposeGate, DisposeStop, DisposeClient, HandleMessage, CompleteFirstConfigTask,
       vars, subscriberVars
<1>. QED
  BY <1>1, PTL DEF Spec, FirstConfigWins

-----------------------------------------------------------------------------
(* RemoteConfigMessageListener in front of CentralConfiguration. *)

\* Extract finds nothing but what the sender asks for, also in a body that was cut
\* off, and finds that in every complete body.
LEMMA ReceiptsFaithful ==
  ASSUME NEW r \in Receipts
  PROVE  /\ r.found \subseteq r.asked
         /\ r.complete => r.found = r.asked
         /\ r.asked \subseteq Configs
<1>1. PICK m \in Messages : r = [found |-> Extract(m), asked |-> Asked(m), complete |-> m.complete]
  BY DEF Receipts
<1>2. r.found = Extract(m) /\ r.asked = Asked(m) /\ r.complete = m.complete
  BY <1>1
<1>3. PICK doc \in Documents, n \in Blanks : m \in MessagesWith(doc, Render(doc, n))
  <2>1. PICK part \in {MessagesWith(doc, Render(doc, n)) : doc \in Documents, n \in Blanks} : m \in part
    BY DEF Messages
  <2>. QED
    BY <2>1
<1>4. IsDocument(doc) /\ LogLevelOf(doc) \subseteq Configs /\ n \in Nat
  BY DocumentsAssumption
<1> DEFINE text == Render(doc, n)
<1>5. text \in Seq(Tokens) /\ Len(text) \in Nat /\ TryParseLogLevel(text) = LogLevelOf(doc)
  BY <1>4, RenderLayout, ParserCorrect
<1>6. m.document = doc
  BY <1>3 DEF MessagesWith
<1>7. \/ m.complete /\ m.body = text
      \/ ~ m.complete /\ \E cut \in 0..Len(text) - 1 : m.body = SubSeq(text, 1, cut)
  BY <1>3 DEF MessagesWith
<1> HIDE DEF text
<1>8. CASE m.elastic /\ m.json
  <2>1. r.found = TryParseLogLevel(m.body) /\ r.asked = LogLevelOf(doc)
    BY <1>2, <1>6, <1>8 DEF Extract, Asked
  <2>2. TryParseLogLevel(m.body) \subseteq LogLevelOf(doc)
    <3>1. CASE m.complete /\ m.body = text
      BY <1>5, <3>1
    <3>2. CASE \E cut \in 0..Len(text) - 1 : m.body = SubSeq(text, 1, cut)
      <4>1. PICK cut \in 0..Len(text) : m.body = SubSeq(text, 1, cut)
        BY <1>5, <3>2
      <4>. QED
        BY <1>5, <4>1, CutBody
    <3>. QED
      BY <1>7, <3>1, <3>2
  <2>. QED
    BY <1>2, <1>4, <1>5, <1>7, <2>1, <2>2
<1>9. CASE ~ (m.elastic /\ m.json)
  <2>1. r.found = {} /\ r.asked = {}
    BY <1>2, <1>9 DEF Extract, Asked
  <2>. QED
    BY <2>1
<1>. QED
  BY <1>8, <1>9

\* The inductive invariant of the listener: what is on its way to the subscriber
\* has been asked for, like what has arrived there.
ListenerInv ==
  /\ mapped \in [Deliverers -> Configs \cup {NoConfig}]
  /\ \A h \in Deliverers : mapped[h] # NoConfig => mapped[h] \in announced
  /\ ServerLevelReceived

LEMMA ListenerInvariant == ListenerSpec => []ListenerInv
<1>1. ListenerInit => ListenerInv
  BY DEF ListenerInit, Init, ListenerInv, ServerLevelReceived
<1>2. ListenerInv /\ [ListenerNext]_<<vars, listenerVars>> => ListenerInv'
  <2> SUFFICES ASSUME ListenerInv, [ListenerNext]_<<vars, listenerVars>> PROVE ListenerInv'
    OBVIOUS
  <2> USE DEF ListenerInv, ServerLevelReceived
  <2>1. ASSUME NEW h \in Deliverers, ReceiveMessage(h) PROVE ListenerInv'
    <3>1. PICK r \in Receipts :
            /\ announced' = announced \cup r.asked
            /\ owed' = (owed \/ (r.complete /\ r.asked # {}))
            /\ IF r.found = {} THEN UNCHANGED mapped
               ELSE \E level \in r.found : mapped' = [mapped EXCEPT ![h] = level]
      BY <2>1 DEF ReceiveMessage
    <3>2. mapped[h] = NoConfig /\ initialConfig' = initialConfig
      BY <2>1 DEF ReceiveMessage, vars, subscriberVars
    <3>3. r.found \subseteq r.asked /\ (r.complete => r.found = r.asked) /\ r.asked \subseteq Configs
      BY ReceiptsFaithful
    <3>4. CASE r.found = {}
      BY <3>1, <3>2, <3>3, <3>4
    <3>5. CASE r.found # {}
      <4>1. PICK level \in r.found : mapped' = [mapped EXCEPT ![h] = level]
        BY <3>1, <3>5
      <4>2. level \in Configs /\ level \in announced' /\ level # NoConfig
        BY <3>1, <3>3, <4>1, ActorsAssumption
      <4>3. mapped' \in [Deliverers -> Configs \cup {NoConfig}] /\ mapped'[h] # NoConfig
        BY <4>1, <4>2
      <4>4. \A g \in Deliverers : mapped'[g] # NoConfig => mapped'[g] \in announced'
        BY <3>1, <4>1, <4>2
      <4>. QED
        BY <3>1, <3>2, <4>3, <4>4
    <3>. QED
      BY <3>4, <3>5
  <2>2. ASSUME NEW h \in Deliverers, NotifySubscriber(h) PROVE ListenerInv'
    <3>1. /\ mapped[h] # NoConfig /\ mapped' = [mapped EXCEPT ![h] = NoConfig]
          /\ announced' = announced /\ owed' = owed
      BY <2>2 DEF NotifySubscriber
    <3>2. initialConfig' # NoConfig /\ initialConfig' \in announced
      <4>1. CASE HandleMessage(h, mapped[h])
        BY <3>1, <4>1 DEF HandleMessage
      <4>2. CASE initialConfig # NoConfig /\ UNCHANGED vars
        BY <4>2 DEF vars, subscriberVars
      <4>. QED
        BY <2>2, <4>1, <4>2 DEF NotifySubscriber
    <3>3. mapped' \in [Deliverers -> Configs \cup {NoConfig}]
      BY <3>1
    <3>4. \A g \in Deliverers : mapped'[g] # NoConfig => mapped'[g] \in announced'
      BY <3>1
    <3>. QED
      BY <3>1, <3>2, <3>3, <3>4
  <2>3. CASE UNCHANGED listenerVars /\ initialConfig' = initialConfig
    BY <2>3 DEF listenerVars
  <2>4. ASSUME Caller \/ CtsFires \/ Worker PROVE initialConfig' = initialConfig
    BY <2>4 DEF Caller, ConstructEmpty, StartClient, JoinReturns, JoinTimesOut, SwapClient,
         WaitForFirstConfig, WaitReturns, TryGetInitialConfig, CtsFires, Worker, StartAsyncEnds,
         WorkerFinally, CheckOrphaned, WorkerStop, WorkerDispose, WorkerDisposeCts, subscriberVars
  <2>5. ASSUME NEW d \in Disposers, Disposer(d) PROVE initialConfig' = initialConfig
    BY <2>5 DEF Disposer, DisposeGate, DisposeStop, DisposeClient, subscriberVars
  <2>6. ASSUME NEW h \in Deliverers, CompleteFirstConfigTask(h) PROVE initialConfig' = initialConfig
    BY <2>6 DEF CompleteFirstConfigTask
  <2>7. CASE UNCHANGED <<vars, listenerVars>>
    BY <2>3, <2>7 DEF vars, subscriberVars
  <2>. QED
    BY <2>1, <2>2, <2>3, <2>4, <2>5, <2>6, <2>7 DEF ListenerNext
<1>. QED
  BY <1>1, <1>2, PTL DEF ListenerSpec

\* For any number of delivering threads and any documents, whole or cut off, what
\* CentralConfiguration takes over is a level the server asked for, and a complete
\* message that asks for one is not dropped between listener and subscriber.
THEOREM LevelReceived == ListenerSpec => []ServerLevelReceived
<1>1. ListenerInv => ServerLevelReceived
  BY DEF ListenerInv
<1>. QED
  BY <1>1, ListenerInvariant, PTL

\* CentralConfiguration behind the listener behaves like CentralConfiguration
\* with messages out of the blue: receiving and dropping a message is invisible,
\* notifying the subscriber is HandleMessage with the extracted text.
THEOREM ListenerImplements == ListenerSpec => Spec
<1>1. ListenerInit => Init
  BY DEF ListenerInit
<1>2. ListenerInv /\ [ListenerNext]_<<vars, listenerVars>> => [Next]_vars
  <2> SUFFICES ASSUME ListenerInv, [ListenerNext]_<<vars, listenerVars>> PROVE [Next]_vars
    OBVIOUS
  <2>1. ASSUME NEW h \in Deliverers, NotifySubscriber(h) PROVE [Next]_vars
    <3>1. mapped[h] \in Configs
      BY <2>1 DEF NotifySubscriber, ListenerInv
    <3>2. CASE HandleMessage(h, mapped[h])
      BY <3>1, <3>2 DEF Next, Deliverer
    <3>3. CASE UNCHANGED vars
      BY <3>3
    <3>. QED
      BY <2>1, <3>2, <3>3 DEF NotifySubscriber
  <2>2. ASSUME NEW h \in Deliverers, ReceiveMessage(h) PROVE [Next]_vars
    BY <2>2 DEF ReceiveMessage
  <2>3. CASE Caller \/ CtsFires \/ Worker \/ \E d \in Disposers : Disposer(d)
    BY <2>3 DEF Next
  <2>4. CASE \E h \in Deliverers : CompleteFirstConfigTask(h)
    BY <2>4 DEF Next, Deliverer
  <2>5. CASE UNCHANGED <<vars, listenerVars>>
    BY <2>5
  <2>. QED
    BY <2>1, <2>2, <2>3, <2>4, <2>5 DEF ListenerNext
<1>. QED
  BY <1>1, <1>2, ListenerInvariant, PTL DEF ListenerSpec, Spec

\* Behind the listener, a wait that ends with success finds a configuration, and
\* the configuration that was applied is the one every later reader sees.
THEOREM ListenerWaitFindsConfig == ListenerSpec => []CompletedWaitHasConfig
BY ListenerImplements, WaitFindsConfig, PTL

\* Behind the listener, too, nobody cleans up during StartAsync, the client is torn
\* down once, a client that was kept has been started, and a failed start leaves
\* nothing behind.
THEOREM ListenerOwnership ==
  ListenerSpec => [](NoCleanupDuringStart /\ SingleTeardown /\ RetainedClientStarted /\ FailedStartCleanedUp)
BY ListenerImplements, CleanupAfterStart, TeardownOnce, RetainedStarted, FailureCleanedUp, PTL

\* Behind the listener, too, the first configuration is never replaced.
THEOREM ListenerFirstWins == ListenerSpec => FirstConfigWins
BY ListenerImplements, FirstWins, PTL

=============================================================================
