-------------------------- MODULE CompositeLogger --------------------------
(***************************************************************************)
(* One CompositeLogger instance: entries logged before the configuration   *)
(* is final are deferred in a queue; Activate creates the sub-loggers,     *)
(* takes the queue over and drains it; a safety timer activates (or, when  *)
(* no options were ever provided, discards) if nobody else does; Dispose   *)
(* ends it.                                                                *)
(*                                                                         *)
(* The sections under _activationLock (in Log, Activate and the timer      *)
(* callback) are single steps: every other access to _deferredQueue is one *)
(* read. The order of entries inside the queue plays no role in the        *)
(* properties, so the queue is a set.                                      *)
(***************************************************************************)
EXTENDS Naturals

CONSTANTS
  Loggers,     \* threads that call Log
  Activators,  \* bootstrap threads: GetOrCreate, then Activate
  MaxEntries   \* bound on the entries each logging thread writes

ASSUME LoggersAssumption ==
  /\ MaxEntries \in Nat
  /\ {"timer", "disposer"} \cap (Loggers \cup Activators) = {}
  /\ Loggers \cap Activators = {}

Threads == Loggers \cup Activators \cup {"timer", "disposer"}
Entries == Loggers \X (1..MaxEntries)

VARIABLES
  deferred,        \* _deferredQueue is not null
  queue,           \* the entries in the ConcurrentQueue object
  captured,        \* the threads that took the queue over in Activate
  activationState, \* _activationState
  subLoggers,      \* _fileLogger, _consoleLogger, _additionalLogger: "none", "open", "closed"
  created,         \* how often sub-loggers have been created
  options,         \* _options is not null
  singleton,       \* PreActivationInstance is this instance
  safetyTimer,     \* _safetyTimer is not null
  isDisposed,      \* _isDisposed
  pc,              \* where each thread is
  logged,          \* entries each thread has begun to log
  delivered,       \* entries handed to the sub-loggers
  dropped,         \* entries that went nowhere
  discarded        \* the timer callback has thrown the queue away

queueVars == <<deferred, queue, captured>>
stateVars == <<activationState, subLoggers, created>>
fateVars  == <<delivered, dropped>>

vars == <<queueVars, stateVars, options, singleton, safetyTimer, isDisposed,
          pc, logged, fateVars, discarded>>

TypeOK ==
  /\ deferred \in BOOLEAN
  /\ queue \subseteq Entries
  /\ captured \subseteq Activators \cup {"timer"}
  /\ activationState \in {0, 1}
  /\ subLoggers \in {"none", "open", "closed"}
  /\ created \in Nat
  /\ options \in BOOLEAN
  /\ singleton \in BOOLEAN
  /\ safetyTimer \in BOOLEAN
  /\ isDisposed \in BOOLEAN
  /\ pc \in [Threads -> {"idle", "locked", "active",
                         "get", "store", "activate", "create", "clear", "drain", "stop",
                         "armed", "check", "discard", "file", "left", "returned"}]
  /\ logged \in [Loggers -> 0..MaxEntries]
  /\ delivered \subseteq Entries
  /\ dropped \subseteq Entries
  /\ discarded \in BOOLEAN

\* The constructor: active when it has options without an OpAmp endpoint, else
\* deferred, with the options if it has any. GetOrCreate keeps the instance as
\* the singleton or hands out an isolated one to the thread that activates it.
Init ==
  /\ singleton \in BOOLEAN
  /\ deferred \in BOOLEAN
  /\ options \in BOOLEAN
  /\ ~deferred => options
  /\ queue = {}
  /\ captured = {}
  /\ activationState = IF deferred THEN 0 ELSE 1
  /\ subLoggers = IF deferred THEN "none" ELSE "open"
  /\ created = IF deferred THEN 0 ELSE 1
  /\ safetyTimer = deferred
  /\ isDisposed = FALSE
  /\ pc = [t \in Threads |-> CASE t \in Loggers -> "idle"
                               [] t = "timer" -> "armed"
                               [] t = "disposer" -> "idle"
                               [] OTHER -> IF singleton THEN "get"
                                           ELSE IF options THEN "activate" ELSE "left"]
  /\ logged = [t \in Loggers |-> 0]
  /\ delivered = {}
  /\ dropped = {}
  /\ discarded = FALSE

Goto(t, to) == pc' = [pc EXCEPT ![t] = to]

-----------------------------------------------------------------------------
(* Log *)

\* The entry a logging thread is busy with.
Current(t) == <<t, logged[t]>>

\* Log enters: the disposed check and the unlocked read of _deferredQueue.
LogBegin(t) ==
  /\ pc[t] = "idle"
  /\ logged[t] < MaxEntries
  /\ logged' = [logged EXCEPT ![t] = @ + 1]
  /\ IF isDisposed
     THEN /\ dropped' = dropped \cup {<<t, logged[t] + 1>>}
          /\ UNCHANGED pc
     ELSE /\ Goto(t, IF deferred THEN "locked" ELSE "active")
          /\ UNCHANGED dropped
  /\ UNCHANGED <<queueVars, stateVars, options, singleton, safetyTimer, isDisposed, delivered, discarded>>

\* Mutant of LogLocked: the snapshot taken before the lock is trusted.
LogLockedStaleQueue(t) ==
  /\ pc[t] = "locked"
  /\ queue' = queue \cup {Current(t)}
  /\ Goto(t, "idle")
  /\ UNCHANGED <<deferred, captured, stateVars, options, singleton, safetyTimer, isDisposed, logged, fateVars, discarded>>

\* Under the lock: enqueue if the queue is still there, else fall through.
LogLocked(t) ==
  /\ pc[t] = "locked"
  /\ IF deferred
     THEN queue' = queue \cup {Current(t)} /\ Goto(t, "idle")
     ELSE UNCHANGED queue /\ Goto(t, "active")
  /\ UNCHANGED <<deferred, captured, stateVars, options, singleton, safetyTimer, isDisposed, logged, fateVars, discarded>>

\* Route an entry to the sub-loggers, if there are any.
Route(e) ==
  IF subLoggers = "none"
  THEN dropped' = dropped \cup {e} /\ UNCHANGED delivered
  ELSE delivered' = delivered \cup {e} /\ UNCHANGED dropped

LogActive(t) ==
  /\ pc[t] = "active"
  /\ Route(Current(t))
  /\ Goto(t, "idle")
  /\ UNCHANGED <<queueVars, stateVars, options, singleton, safetyTimer, isDisposed, logged, discarded>>

Log(t) == LogBegin(t) \/ LogLocked(t) \/ LogActive(t)

-----------------------------------------------------------------------------
(* GetOrCreate, by a bootstrap thread that looks for the singleton *)

\* The singleton is gone, activated, or has other options: another instance.
GetOther(a) ==
  /\ pc[a] = "get"
  /\ ~singleton \/ activationState # 0 \/ options
  /\ Goto(a, "left")
  /\ UNCHANGED <<queueVars, stateVars, options, singleton, safetyTimer, isDisposed, logged, fateVars, discarded>>

\* IsCompatible: still pending, and no options yet or equal ones.
GetExisting(a) ==
  /\ pc[a] = "get"
  /\ singleton
  /\ activationState = 0
  /\ Goto(a, "store")
  /\ UNCHANGED <<queueVars, stateVars, options, singleton, safetyTimer, isDisposed, logged, fateVars, discarded>>

\* existing._options = options if it is null by now: it is set in any case.
StoreOptions(a) ==
  /\ pc[a] = "store"
  /\ options' = TRUE
  /\ Goto(a, "activate")
  /\ UNCHANGED <<queueVars, stateVars, singleton, safetyTimer, isDisposed, logged, fateVars, discarded>>

GetOrCreate(a) == GetOther(a) \/ GetExisting(a) \/ StoreOptions(a)

-----------------------------------------------------------------------------
(* Activate, by a bootstrap thread or by the timer callback *)

\* Mutant of ActivateClaim: an increment instead of a compare-and-swap.
ActivateClaimIncrements(a) ==
  /\ pc[a] = "activate"
  /\ activationState' = activationState + 1
  /\ IF activationState = 0
     THEN Goto(a, "create") /\ UNCHANGED singleton
     ELSE Goto(a, "returned") /\ singleton' = FALSE
  /\ UNCHANGED <<queueVars, subLoggers, created, options, safetyTimer, isDisposed, logged, fateVars, discarded>>

\* Interlocked.CompareExchange(ref _activationState, 1, 0); a loser only clears
\* the static reference.
ActivateClaim(a) ==
  /\ pc[a] = "activate"
  /\ activationState' = 1
  /\ IF activationState = 0
     THEN Goto(a, "create") /\ UNCHANGED singleton
     ELSE Goto(a, "returned") /\ singleton' = FALSE
  /\ UNCHANGED <<queueVars, subLoggers, created, options, safetyTimer, isDisposed, logged, fateVars, discarded>>

\* Mutant of CreateSubLoggers: the queue is nulled before the sub-loggers exist.
CreateSubLoggersLate(a) ==
  /\ pc[a] = "create"
  /\ deferred' = FALSE
  /\ captured' = IF deferred THEN captured \cup {a} ELSE captured
  /\ IF deferred
     THEN UNCHANGED <<pc, subLoggers, created, options>>
     ELSE /\ subLoggers' = "open"
          /\ created' = created + 1
          /\ options' = FALSE
          /\ Goto(a, "clear")
  /\ UNCHANGED <<queue, activationState, singleton, safetyTimer, isDisposed, logged, fateVars, discarded>>

\* Under the lock: create the sub-loggers, take the queue over, null it.
CreateSubLoggers(a) ==
  /\ pc[a] = "create"
  /\ subLoggers' = "open"
  /\ created' = created + 1
  /\ options' = FALSE
  /\ captured' = IF deferred THEN captured \cup {a} ELSE captured
  /\ deferred' = FALSE
  /\ Goto(a, "clear")
  /\ UNCHANGED <<queue, activationState, singleton, safetyTimer, isDisposed, logged, fateVars, discarded>>

\* Under StaticLock: this instance is no longer the pre-activation singleton.
ClearStatic(a) ==
  /\ pc[a] = "clear"
  /\ singleton' = FALSE
  /\ Goto(a, IF a \in captured THEN "drain" ELSE "stop")
  /\ UNCHANGED <<queueVars, stateVars, options, safetyTimer, isDisposed, logged, fateVars, discarded>>

\* Mutant of DrainNext: the entry is looked at but left in the queue.
DrainNextPeeks(a) ==
  /\ pc[a] = "drain"
  /\ \E e \in queue :
       IF isDisposed
       THEN dropped' = dropped \cup {e} /\ UNCHANGED delivered
       ELSE Route(e)
  /\ UNCHANGED <<queueVars, stateVars, options, singleton, safetyTimer, isDisposed, pc, logged, discarded>>

\* Dequeue one entry and Log it; a disposed logger ignores it.
DrainNext(a) ==
  /\ pc[a] = "drain"
  /\ \E e \in queue :
       /\ queue' = queue \ {e}
       /\ IF isDisposed
          THEN dropped' = dropped \cup {e} /\ UNCHANGED delivered
          ELSE Route(e)
  /\ UNCHANGED <<deferred, captured, stateVars, options, singleton, safetyTimer, isDisposed, pc, logged, discarded>>

\* Mutant of DrainDone: the drain loop is left before the queue is empty.
DrainDoneEarly(a) ==
  /\ pc[a] = "drain"
  /\ Goto(a, "stop")
  /\ UNCHANGED <<queueVars, stateVars, options, singleton, safetyTimer, isDisposed, logged, fateVars, discarded>>

\* TryDequeue finds the captured queue empty.
DrainDone(a) ==
  /\ pc[a] = "drain"
  /\ queue = {}
  /\ Goto(a, "stop")
  /\ UNCHANGED <<queueVars, stateVars, options, singleton, safetyTimer, isDisposed, logged, fateVars, discarded>>

\* Interlocked.Exchange(ref _safetyTimer, null), Stop, Dispose: the last step of
\* Activate, of the timer callback and of Dispose.
StopTimer(t) ==
  /\ pc[t] = "stop"
  /\ safetyTimer' = FALSE
  /\ Goto(t, "returned")
  /\ UNCHANGED <<queueVars, stateVars, options, singleton, isDisposed, logged, fateVars, discarded>>

Activate(a) ==
  \/ ActivateClaim(a) \/ CreateSubLoggers(a) \/ ClearStatic(a)
  \/ DrainNext(a) \/ DrainDone(a) \/ StopTimer(a)

-----------------------------------------------------------------------------
(* OnSafetyTimerElapsed *)

\* The timer elapses; its callback may run after the timer has been stopped.
TimerElapses ==
  /\ pc["timer"] = "armed"
  /\ safetyTimer
  /\ Goto("timer", "check")
  /\ UNCHANGED <<queueVars, stateVars, options, singleton, safetyTimer, isDisposed, logged, fateVars, discarded>>

\* The disposed check and the local copy of _options.
TimerCheck ==
  /\ pc["timer"] = "check"
  /\ Goto("timer", IF isDisposed THEN "returned" ELSE IF options THEN "activate" ELSE "discard")
  /\ UNCHANGED <<queueVars, stateVars, options, singleton, safetyTimer, isDisposed, logged, fateVars, discarded>>

\* Mutant of TimerDiscard: the callback gives up without ending the deferral.
TimerDiscardNothing ==
  /\ pc["timer"] = "discard"
  /\ Goto("timer", "clear")
  /\ UNCHANGED <<queueVars, stateVars, options, singleton, safetyTimer, isDisposed, logged, fateVars, discarded>>

\* Mutant of TimerDiscard: the callback also claims the activation, as if a
\* logger without a queue had been activated.
TimerDiscardClaims ==
  /\ pc["timer"] = "discard"
  /\ IF deferred
     THEN /\ deferred' = FALSE
          /\ dropped' = dropped \cup queue
          /\ queue' = {}
          /\ discarded' = TRUE
          /\ activationState' = 1
          /\ Goto("timer", "clear")
     ELSE /\ Goto("timer", "returned")
          /\ UNCHANGED <<deferred, dropped, queue, discarded, activationState>>
  /\ UNCHANGED <<captured, subLoggers, created, options, singleton, safetyTimer, isDisposed, logged, delivered>>

\* Under the lock: no options were found, throw the queue away.
TimerDiscard ==
  /\ pc["timer"] = "discard"
  /\ IF deferred
     THEN /\ deferred' = FALSE
          /\ dropped' = dropped \cup queue
          /\ queue' = {}
          /\ discarded' = TRUE
          /\ Goto("timer", "clear")
     ELSE /\ Goto("timer", "returned")
          /\ UNCHANGED <<deferred, dropped, queue, discarded>>
  /\ UNCHANGED <<captured, stateVars, options, singleton, safetyTimer, isDisposed, logged, delivered>>

Timer == TimerElapses \/ TimerCheck \/ TimerDiscard \/ Activate("timer")

-----------------------------------------------------------------------------
(* Dispose and DisposeAsync, called once, by the components that own the logger; *)
(* the components exist once the Activate call of their creation has returned.   *)

\* _isDisposed and _additionalLogger
DisposeMark ==
  /\ pc["disposer"] = "idle"
  /\ \E a \in Activators : pc[a] = "returned"
  /\ isDisposed' = TRUE
  /\ Goto("disposer", "file")
  /\ UNCHANGED <<queueVars, stateVars, options, singleton, safetyTimer, logged, fateVars, discarded>>

\* _fileLogger?.Dispose()
DisposeFileLogger ==
  /\ pc["disposer"] = "file"
  /\ subLoggers' = IF subLoggers = "open" THEN "closed" ELSE subLoggers
  /\ Goto("disposer", "stop")
  /\ UNCHANGED <<queueVars, activationState, created, options, singleton, safetyTimer, isDisposed, logged, fateVars, discarded>>

Dispose == DisposeMark \/ DisposeFileLogger \/ StopTimer("disposer")

-----------------------------------------------------------------------------

Next ==
  \/ \E t \in Loggers : Log(t)
  \/ \E a \in Activators : GetOrCreate(a) \/ Activate(a)
  \/ Timer
  \/ Dispose

Spec == Init /\ [][Next]_vars

\* Threads inside a call of this class keep running and the timer elapses.
\* Calling Log, GetOrCreate or Dispose is up to the application.
Fairness ==
  /\ \A t \in Loggers : WF_vars(LogLocked(t) \/ LogActive(t))
  /\ \A a \in Activators : WF_vars(StoreOptions(a) \/ Activate(a))
  /\ WF_vars(Timer)
  /\ WF_vars(DisposeFileLogger \/ StopTimer("disposer"))

FairSpec == Spec /\ Fairness

-----------------------------------------------------------------------------
(* Properties. *)

\* Is entry n of thread t still in the hands of that thread?
InFlight(t, n) == n = logged[t] /\ pc[t] \in {"locked", "active"}

\* Conservation: every entry a thread has begun to log is in exactly one place:
\* in the thread's hands, in the queue, handed to the sub-loggers, or dropped.
EntriesConserved ==
  /\ \A t \in Loggers, n \in 1..MaxEntries :
       n <= logged[t] => InFlight(t, n) \/ <<t, n>> \in queue \cup delivered \cup dropped
  /\ \A t \in Loggers, n \in 1..MaxEntries :
       n > logged[t] \/ InFlight(t, n) => <<t, n>> \notin queue \cup delivered \cup dropped
  /\ queue \cap delivered = {}
  /\ queue \cap dropped = {}
  /\ delivered \cap dropped = {}

\* Activation loses nothing: while the logger is not disposed and the timer has
\* not thrown the queue away for want of options, no entry is dropped, however
\* Log, Activate and the timer callback interleave.
NoEntryLost == (~isDisposed /\ ~discarded) => dropped = {}

\* No late enqueue into a queue nobody drains: entries wait only in a live queue
\* or in one whose capturing thread has yet to finish draining.
NoStrandedEntries ==
  queue # {} => \/ deferred
                \/ \E a \in captured : pc[a] \in {"clear", "drain"}

\* Sub-loggers are created once, since a second creation would leak an open log
\* file and its writing task; and they are created: when Activate has returned to
\* a bootstrap thread they exist, or the thread that claimed the activation is
\* about to create them, even when the timer has thrown the queue away meanwhile.
SingleActivation ==
  /\ created <= 1
  /\ (\E a \in Activators : pc[a] = "returned")
       => created = 1 \/ \E a \in Activators \cup {"timer"} : pc[a] = "create"

\* The safety timer bounds the deferral: the logger does not queue for ever.
DeferralEnds == deferred ~> ~deferred

\* The logger as the code that logs sees it: it is closing when it is disposed of
\* or has discarded its queue.
Abstract == INSTANCE AbstractLogger WITH
  accepted <- {e \in Entries : e[2] <= logged[e[1]]},
  written  <- delivered,
  lost     <- dropped,
  closing  <- isDisposed \/ discarded

\* Log, Activate, the timer callback and Dispose together keep the promise of
\* AbstractLogger: no entry is written twice or forgotten, none is lost while
\* the logger is open, and every one is settled in the end.
ImplementsAbstractLogger == Abstract!Spec

=============================================================================
