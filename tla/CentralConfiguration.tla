------------------------ MODULE CentralConfiguration ------------------------
(***************************************************************************)
(* CentralConfiguration starts an OpAMP client on a dedicated worker       *)
(* thread, bounds the time the caller waits for it, receives the first     *)
(* remote configuration through a subscriber and tears the client down     *)
(* exactly once.                                                           *)
(*                                                                         *)
(* Actors: the caller (constructor, then WaitForFirstConfig and            *)
(* TryGetInitialConfig as CreateComponents calls them), the worker thread  *)
(* of StartClient, the threads of the OpAMP client that deliver remote     *)
(* configuration messages, and the threads that dispose the components.    *)
(*                                                                         *)
(* Timeouts are steps without a clock: a Join, a Wait or the cancellation  *)
(* token may expire at any moment it is pending.                           *)
(***************************************************************************)

CONSTANTS
  Disposers,   \* threads that call Dispose or DisposeAsync
  Deliverers,  \* threads of the OpAMP client that call HandleMessage
  Configs,     \* remote configurations (ElasticRemoteConfig references)
  NoConfig     \* the null reference

ASSUME ActorsAssumption ==
  /\ "worker" \notin Disposers
  /\ NoConfig \notin Configs

VARIABLES
  callerPc,        \* where the constructing thread is
  workerPc,        \* where the "EDOT-OpAmp-Bootstrap" thread is
  outcome,         \* StartOutcome, written by the worker
  cts,             \* the CancellationTokenSource of StartClient
  client,          \* _client: the created client or an EmptyOpAmpClient
  disposed,        \* _disposed, the exactly-once gate of Dispose
  disposerPc,      \* where each disposing thread is
  stoppedBy,       \* actors that called StopAsync on the created client
  disposedBy,      \* actors that called Dispose on the created client
  initialConfig,   \* RemoteConfigSubscriber._initialConfig
  firstConfigTask, \* is RemoteConfigSubscriber._taskCompletionSource completed?
  delivererPc,     \* where each delivering thread is
  applied          \* the configuration TryGetInitialConfig handed out

callerVars     == <<callerPc, applied>>
workerVars     == <<workerPc, outcome, cts>>
teardownVars   == <<disposed, disposerPc>>
clientCalls    == <<stoppedBy, disposedBy>>
subscriberVars == <<initialConfig, firstConfigTask, delivererPc>>

vars == <<callerVars, workerVars, client, teardownVars, clientCalls, subscriberVars>>

StartOutcome == {"Pending", "Succeeded", "Cancelled", "Faulted"}

TypeOK ==
  /\ callerPc \in {"new", "join", "swap", "constructed", "waiting", "read", "done"}
  /\ workerPc \in {"none", "starting", "check", "stop", "dispose", "cts", "done"}
  /\ outcome \in StartOutcome
  /\ cts \in {"none", "armed", "fired", "disposed"}
  /\ client \in {"None", "Created", "Empty"}
  /\ disposed \in BOOLEAN
  /\ disposerPc \in [Disposers -> {"idle", "stop", "dispose", "done"}]
  /\ stoppedBy \subseteq Disposers \cup {"worker"}
  /\ disposedBy \subseteq Disposers \cup {"worker"}
  /\ initialConfig \in Configs \cup {NoConfig}
  /\ firstConfigTask \in BOOLEAN
  /\ delivererPc \in [Deliverers -> {"idle", "signal"}]
  /\ applied \in Configs \cup {NoConfig}

Init ==
  /\ callerPc = "new"
  /\ workerPc = "none"
  /\ outcome = "Pending"
  /\ cts = "none"
  /\ client = "None"
  /\ disposed = FALSE
  /\ disposerPc = [d \in Disposers |-> "idle"]
  /\ stoppedBy = {}
  /\ disposedBy = {}
  /\ initialConfig = NoConfig
  /\ firstConfigTask = FALSE
  /\ delivererPc = [h \in Deliverers |-> "idle"]
  /\ applied = NoConfig

-----------------------------------------------------------------------------
(* The caller. *)

\* OpAMP is not enabled, not supported, or the client could not be created.
ConstructEmpty ==
  /\ callerPc = "new"
  /\ client' = "Empty"
  /\ callerPc' = "constructed"
  /\ UNCHANGED <<applied, workerVars, teardownVars, clientCalls, subscriberVars>>

\* The client exists: subscribe to it, arm the token, start the worker, Join.
StartClient ==
  /\ callerPc = "new"
  /\ client' = "Created"
  /\ cts' = "armed"
  /\ workerPc' = "starting"
  /\ callerPc' = "join"
  /\ UNCHANGED <<applied, outcome, teardownVars, clientCalls, subscriberVars>>

\* Mutant of JoinReturns: the outcome of the ended worker is not looked at.
JoinReturnsAlwaysKeeps ==
  /\ callerPc = "join"
  /\ workerPc = "done"
  /\ callerPc' = "constructed"
  /\ UNCHANGED <<applied, workerVars, client, teardownVars, clientCalls, subscriberVars>>

\* Join saw the worker end: its outcome is final.
JoinReturns ==
  /\ callerPc = "join"
  /\ workerPc = "done"
  /\ callerPc' = IF outcome = "Succeeded" THEN "constructed" ELSE "swap"
  /\ UNCHANGED <<applied, workerVars, client, teardownVars, clientCalls, subscriberVars>>

\* Mutant of JoinTimesOut: a Join without a timeout.
JoinNeverTimesOut == FALSE

\* Mutant of JoinTimesOut: the caller forgets to swap the client away.
JoinTimesOutKeepsClient ==
  /\ callerPc = "join"
  /\ workerPc # "done"
  /\ callerPc' = "constructed"
  /\ UNCHANGED <<applied, workerVars, client, teardownVars, clientCalls, subscriberVars>>

\* Join gave up on a live worker: the outcome is taken to be Pending.
JoinTimesOut ==
  /\ callerPc = "join"
  /\ workerPc # "done"
  /\ callerPc' = "swap"
  /\ UNCHANGED <<applied, workerVars, client, teardownVars, clientCalls, subscriberVars>>

\* Mutant of SwapClient: null instead of an EmptyOpAmpClient.
SwapClientToNull ==
  /\ callerPc = "swap"
  /\ client' = "Null"
  /\ callerPc' = "constructed"
  /\ UNCHANGED <<applied, workerVars, teardownVars, clientCalls, subscriberVars>>

\* Interlocked.Exchange(ref _client, new EmptyOpAmpClient())
SwapClient ==
  /\ callerPc = "swap"
  /\ client' = "Empty"
  /\ callerPc' = "constructed"
  /\ UNCHANGED <<applied, workerVars, teardownVars, clientCalls, subscriberVars>>

\* Without a real client there is nothing to wait for.
WaitForFirstConfig ==
  /\ callerPc = "constructed"
  /\ callerPc' = IF client = "Empty" THEN "done" ELSE "waiting"
  /\ UNCHANGED <<applied, workerVars, client, teardownVars, clientCalls, subscriberVars>>

\* The wait for FirstConfigTask ends: completed, or timed out while pending.
WaitReturns ==
  /\ callerPc = "waiting"
  /\ callerPc' = IF firstConfigTask THEN "read" ELSE "done"
  /\ UNCHANGED <<applied, workerVars, client, teardownVars, clientCalls, subscriberVars>>

TryGetInitialConfig ==
  /\ callerPc = "read"
  /\ applied' = initialConfig
  /\ callerPc' = "done"
  /\ UNCHANGED <<workerVars, client, teardownVars, clientCalls, subscriberVars>>

Caller ==
  \/ ConstructEmpty \/ StartClient
  \/ JoinReturns \/ JoinTimesOut \/ SwapClient
  \/ WaitForFirstConfig \/ WaitReturns \/ TryGetInitialConfig

-----------------------------------------------------------------------------
(* The worker thread of StartClient. *)

\* The token is cancelled by its timer.
CtsFires ==
  /\ cts = "armed"
  /\ cts' = "fired"
  /\ UNCHANGED <<workerPc, outcome, callerVars, client, teardownVars, clientCalls, subscriberVars>>

\* Mutant of StartAsyncEnds: failures take the path of a success.
StartAsyncEndsUnchecked ==
  /\ workerPc = "starting"
  /\ outcome' \in StartOutcome \ {"Pending"}
  /\ workerPc' = "check"
  /\ UNCHANGED <<cts, callerVars, client, teardownVars, clientCalls, subscriberVars>>

\* StartAsync returns, is cancelled or throws; the outcome is recorded. A client
\* may also report cancellation for reasons of its own, before the token fires.
StartAsyncEnds ==
  /\ workerPc = "starting"
  /\ outcome' \in StartOutcome \ {"Pending"}
  /\ workerPc' = IF outcome' = "Succeeded" THEN "check" ELSE "stop"
  /\ UNCHANGED <<cts, callerVars, client, teardownVars, clientCalls, subscriberVars>>

\* After a success: has the caller given up and swapped the client away?
CheckOrphaned ==
  /\ workerPc = "check"
  /\ workerPc' = IF client = "Created" THEN "cts" ELSE "stop"
  /\ UNCHANGED <<outcome, cts, callerVars, client, teardownVars, clientCalls, subscriberVars>>

\* Mutant of WorkerStop: a synchronous throw of StopAsync skips SafeDispose.
WorkerStopEscapes ==
  /\ workerPc = "stop"
  /\ stoppedBy' = stoppedBy \cup {"worker"}
  /\ workerPc' = "cts"
  /\ UNCHANGED <<outcome, cts, callerVars, client, teardownVars, disposedBy, subscriberVars>>

\* StopAsync completes, faults, throws or outlives its budget: all are swallowed.
WorkerStop ==
  /\ workerPc = "stop"
  /\ stoppedBy' = stoppedBy \cup {"worker"}
  /\ workerPc' = "dispose"
  /\ UNCHANGED <<outcome, cts, callerVars, client, teardownVars, disposedBy, subscriberVars>>

WorkerDispose ==
  /\ workerPc = "dispose"
  /\ disposedBy' = disposedBy \cup {"worker"}
  /\ workerPc' = "cts"
  /\ UNCHANGED <<outcome, cts, callerVars, client, teardownVars, stoppedBy, subscriberVars>>

\* The outer finally, after which the thread ends.
WorkerDisposeCts ==
  /\ workerPc = "cts"
  /\ cts' = "disposed"
  /\ workerPc' = "done"
  /\ UNCHANGED <<outcome, callerVars, client, teardownVars, clientCalls, subscriberVars>>

WorkerFinally == CheckOrphaned \/ WorkerStop \/ WorkerDispose \/ WorkerDisposeCts

Worker == StartAsyncEnds \/ WorkerFinally

-----------------------------------------------------------------------------
(* Dispose and DisposeAsync: the same control, one waits and one awaits. The *)
(* object is reachable by others only after CreateComponents is done with it. *)

\* Mutant of DisposeGate: _disposed is written but not tested.
DisposeGateOpen(d) ==
  /\ callerPc = "done"
  /\ disposerPc[d] = "idle"
  /\ disposed' = (disposed \/ client # "Empty")
  /\ disposerPc' = [disposerPc EXCEPT ![d] = IF client = "Empty" THEN "done" ELSE "stop"]
  /\ UNCHANGED <<callerVars, workerVars, client, clientCalls, subscriberVars>>

DisposeGate(d) ==
  /\ callerPc = "done"
  /\ disposerPc[d] = "idle"
  /\ IF client = "Empty" \/ disposed
     THEN /\ disposerPc' = [disposerPc EXCEPT ![d] = "done"]
          /\ UNCHANGED disposed
     ELSE /\ disposed' = TRUE
          /\ disposerPc' = [disposerPc EXCEPT ![d] = "stop"]
  /\ UNCHANGED <<callerVars, workerVars, client, clientCalls, subscriberVars>>

\* Mutant of DisposeStop: no finally, a failing StopAsync leaves the client undisposed.
DisposeStopEscapes(d) ==
  /\ disposerPc[d] = "stop"
  /\ stoppedBy' = IF client = "Created" THEN stoppedBy \cup {d} ELSE stoppedBy
  /\ \E pc \in {"dispose", "done"} : disposerPc' = [disposerPc EXCEPT ![d] = pc]
  /\ UNCHANGED <<callerVars, workerVars, client, disposed, disposedBy, subscriberVars>>

\* StopAsync within 500 ms, whatever becomes of it.
DisposeStop(d) ==
  /\ disposerPc[d] = "stop"
  /\ stoppedBy' = IF client = "Created" THEN stoppedBy \cup {d} ELSE stoppedBy
  /\ disposerPc' = [disposerPc EXCEPT ![d] = "dispose"]
  /\ UNCHANGED <<callerVars, workerVars, client, disposed, disposedBy, subscriberVars>>

DisposeClient(d) ==
  /\ disposerPc[d] = "dispose"
  /\ disposedBy' = IF client = "Created" THEN disposedBy \cup {d} ELSE disposedBy
  /\ disposerPc' = [disposerPc EXCEPT ![d] = "done"]
  /\ UNCHANGED <<callerVars, workerVars, client, disposed, stoppedBy, subscriberVars>>

Disposer(d) == DisposeGate(d) \/ DisposeStop(d) \/ DisposeClient(d)

-----------------------------------------------------------------------------
(* RemoteConfigSubscriber, called by the client once it has been subscribed. *)

\* Mutant of HandleMessage: the task is completed before the value is published.
HandleMessageSignalsFirst(h, c) ==
  /\ workerPc # "none"
  /\ initialConfig = NoConfig
  /\ IF delivererPc[h] = "idle" /\ ~firstConfigTask
     THEN firstConfigTask' = TRUE /\ UNCHANGED <<initialConfig, delivererPc>>
     ELSE initialConfig' = c /\ UNCHANGED <<firstConfigTask, delivererPc>>
  /\ UNCHANGED <<callerVars, workerVars, client, teardownVars, clientCalls>>

\* Only the message that finds _initialConfig null goes on to complete the task.
HandleMessage(h, c) ==
  /\ workerPc # "none"
  /\ delivererPc[h] = "idle"
  /\ initialConfig = NoConfig
  /\ initialConfig' = c
  /\ delivererPc' = [delivererPc EXCEPT ![h] = "signal"]
  /\ UNCHANGED <<callerVars, workerVars, client, teardownVars, clientCalls, firstConfigTask>>

\* _taskCompletionSource.TrySetResult(true)
CompleteFirstConfigTask(h) ==
  /\ delivererPc[h] = "signal"
  /\ firstConfigTask' = TRUE
  /\ delivererPc' = [delivererPc EXCEPT ![h] = "idle"]
  /\ UNCHANGED <<callerVars, workerVars, client, teardownVars, clientCalls, initialConfig>>

Deliverer(h) ==
  \/ \E c \in Configs : HandleMessage(h, c)
  \/ CompleteFirstConfigTask(h)

-----------------------------------------------------------------------------

Next ==
  \/ Caller
  \/ CtsFires
  \/ Worker
  \/ \E d \in Disposers : Disposer(d)
  \/ \E h \in Deliverers : Deliverer(h)

\* The threads of this code keep running and their timeouts expire; nothing is
\* assumed of StartAsync, which may hang, nor of the arrival of messages.
Fairness ==
  /\ WF_vars(Caller)
  /\ WF_vars(CtsFires)
  /\ WF_vars(WorkerFinally)
  /\ \A d \in Disposers : WF_vars(DisposeStop(d) \/ DisposeClient(d))

Spec == Init /\ [][Next]_vars

FairSpec == Spec /\ Fairness

\* A client that honours the token: StartAsync ends once it has been cancelled.
CooperativeClient == WF_vars(cts = "fired" /\ StartAsyncEnds)

-----------------------------------------------------------------------------
(* Properties. *)

\* The ownership split of StartClient's threading contract: nobody stops or
\* disposes the client while its StartAsync is in flight.
NoCleanupDuringStart ==
  workerPc = "starting" => stoppedBy = {} /\ disposedBy = {}

\* The worker's cleanup and the Dispose calls of the owner never both act on
\* the client: it is stopped at most once, disposed at most once, and stopped
\* before it is disposed.
SingleTeardown ==
  /\ \A a, b \in stoppedBy : a = b
  /\ disposedBy \subseteq stoppedBy

\* A client the constructor kept is a started one: its worker has ended with
\* success and has not torn it down behind the owner's back.
RetainedClientStarted ==
  (client = "Created" /\ callerPc \notin {"new", "join", "swap"})
     => /\ workerPc = "done"
        /\ outcome = "Succeeded"
        /\ "worker" \notin stoppedBy

\* A start that failed or was cancelled leaves nothing behind: when the worker
\* thread has ended, the client and the token source are disposed, and the
\* caller can only end up with the empty client.
FailedStartCleanedUp ==
  (workerPc = "done" /\ outcome # "Succeeded")
     => /\ "worker" \in disposedBy
        /\ cts = "disposed"
        /\ callerPc \notin {"join", "swap"} => client = "Empty"

\* WaitForFirstConfig answers true only when TryGetInitialConfig then finds a
\* configuration: HandleMessage publishes the value before the completion.
CompletedWaitHasConfig ==
  /\ callerPc = "read" => initialConfig # NoConfig
  /\ applied # NoConfig => applied = initialConfig

\* The first configuration wins: later messages never replace it, so what
\* CreateComponents applies is what every later reader sees.
FirstConfigWins ==
  [][initialConfig # NoConfig => initialConfig' = initialConfig]_initialConfig

\* The comments of StartClient: an abandoned client, whose start succeeded
\* after the caller gave up on it, is cleaned up by the worker.
OrphanCleanedUp ==
  (workerPc = "done" /\ client = "Empty") => "worker" \in disposedBy

\* The constructor and the wait are bounded: bootstrap gets past them even when
\* StartAsync never returns and no configuration ever arrives.
BootstrapContinues == <>(callerPc = "done")

\* With a client that honours its token the worker thread always ends, and a
\* start that did not succeed leads to a disposed client.
WorkerEnds ==
  CooperativeClient =>
    /\ workerPc = "starting" ~> (workerPc = "done" /\ cts = "disposed")
    /\ outcome \in {"Cancelled", "Faulted"} ~> "worker" \in disposedBy

\* Once Dispose has passed its gate, the client it retained gets disposed.
DisposeCompletes == disposed ~> (\E d \in Disposers : d \in disposedBy)

=============================================================================
