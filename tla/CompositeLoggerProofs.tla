----------------------- MODULE CompositeLoggerProofs -----------------------
(***************************************************************************)
(* Proofs of the safety properties of CompositeLogger for any number of    *)
(* logging threads, bootstrap threads and entries.                         *)
(***************************************************************************)
EXTENDS CompositeLogger, TLAPS

ActivatingThreads == Activators \cup {"timer"}

\* Each kind of thread stays in its own part of the code.
PcInv ==
  /\ \A t \in Loggers : pc[t] \in {"idle", "locked", "active"}
  /\ \A t \in Loggers : pc[t] # "idle" => logged[t] # 0
  /\ \A a \in Activators : pc[a] \in {"get", "store", "activate", "create", "clear",
                                      "drain", "stop", "left", "returned"}
  /\ pc["timer"] \in {"armed", "check", "discard", "activate", "create", "clear",
                      "drain", "stop", "returned"}
  /\ pc["disposer"] \in {"idle", "file", "stop", "returned"}

\* The compare-and-swap lets one thread through, and sub-loggers exist once it
\* has left the locked section, which every other call of Activate relies on; they exist whenever the queue is gone, unless
\* the timer threw the queue away.
ActivationInv ==
  /\ activationState = 0 => created = 0
  /\ \A a \in ActivatingThreads : pc[a] = "create" => activationState = 1 /\ created = 0
  /\ \A a, b \in ActivatingThreads : pc[a] = "create" /\ pc[b] = "create" => a = b
  /\ created \in {0, 1}
  /\ activationState = 1 => created = 1 \/ \E a \in ActivatingThreads : pc[a] = "create"
  /\ \A a \in Activators :
       pc[a] \in {"create", "clear", "drain", "stop", "returned"} => activationState = 1
  /\ subLoggers = "none" <=> created = 0
  /\ deferred => created = 0
  /\ (~deferred /\ ~discarded) => created = 1

\* A thread drains only what it captured, and it captured only by activating.
CaptureInv ==
  /\ captured # {} => created = 1
  /\ \A a \in ActivatingThreads : pc[a] = "drain" => a \in captured

\* A thread past the locked section of Log has seen the queue gone.
HandoffInv == \A t \in Loggers : pc[t] = "active" => ~deferred

\* The inductive invariant.
IInv ==
  /\ TypeOK /\ PcInv /\ ActivationInv /\ CaptureInv /\ HandoffInv
  /\ EntriesConserved /\ NoEntryLost /\ NoStrandedEntries

-----------------------------------------------------------------------------

LEMMA InitIInv == Init => IInv
<1> SUFFICES ASSUME Init PROVE IInv
  OBVIOUS
<1>1. /\ \A t \in Loggers : pc[t] = "idle"
      /\ \A a \in Activators : pc[a] \in {"get", "activate", "left"}
      /\ pc["timer"] = "armed"
      /\ pc["disposer"] = "idle"
      /\ pc \in [Threads -> {"idle", "get", "activate", "left", "armed"}]
  BY LoggersAssumption DEF Init, Threads
<1>2. \/ deferred /\ activationState = 0 /\ subLoggers = "none" /\ created = 0
      \/ ~deferred /\ activationState = 1 /\ subLoggers = "open" /\ created = 1
  BY Zenon DEF Init
<1>3. /\ deferred \in BOOLEAN /\ options \in BOOLEAN /\ singleton \in BOOLEAN
      /\ safetyTimer \in BOOLEAN /\ isDisposed \in BOOLEAN /\ discarded \in BOOLEAN
  BY Zenon DEF Init
<1>4. /\ queue = {} /\ captured = {} /\ delivered = {} /\ dropped = {}
      /\ logged = [t \in Loggers |-> 0]
  BY DEF Init
<1>5. TypeOK
  BY <1>1, <1>2, <1>3, <1>4, LoggersAssumption DEF TypeOK
<1>6. PcInv
  BY <1>1 DEF PcInv
<1>7. ActivationInv
  BY <1>1, <1>2, <1>3 DEF ActivationInv, ActivatingThreads
<1>8. CaptureInv /\ HandoffInv
  BY <1>1, <1>4 DEF CaptureInv, HandoffInv, ActivatingThreads
<1>9. EntriesConserved /\ NoEntryLost /\ NoStrandedEntries
  BY <1>1, <1>4, LoggersAssumption DEF EntriesConserved, NoEntryLost, NoStrandedEntries, InFlight
<1>. QED
  BY <1>5, <1>6, <1>7, <1>8, <1>9 DEF IInv

\* A logging thread.
LEMMA LogIInv == ASSUME NEW t \in Loggers PROVE IInv /\ Log(t) => IInv'
<1> SUFFICES ASSUME IInv, Log(t) PROVE IInv'
  OBVIOUS
<1> USE LoggersAssumption DEF IInv, TypeOK, Threads, Entries, queueVars, stateVars, fateVars,
       Goto, Current
<1>1. CASE LogBegin(t)
  <2>1. TypeOK' /\ PcInv'
    BY <1>1 DEF LogBegin, PcInv
  <2>2. ActivationInv' /\ CaptureInv' /\ HandoffInv'
    BY <1>1 DEF LogBegin, ActivationInv, CaptureInv, HandoffInv, ActivatingThreads
  <2>3. EntriesConserved'
    BY <1>1 DEF LogBegin, EntriesConserved, InFlight
  <2>4. NoEntryLost' /\ NoStrandedEntries'
    BY <1>1 DEF LogBegin, NoEntryLost, NoStrandedEntries
  <2>. QED
    BY <2>1, <2>2, <2>3, <2>4
<1>2. CASE LogLocked(t)
  <2>1. TypeOK' /\ PcInv'
    <3>1. Current(t) \in Entries
      BY <1>2 DEF LogLocked, PcInv
    <3>2. CASE deferred
      BY <1>2, <3>1, <3>2 DEF LogLocked, PcInv
    <3>3. CASE ~deferred
      BY <1>2, <3>3 DEF LogLocked, PcInv
    <3>. QED
      BY <3>2, <3>3
  <2>2. ActivationInv' /\ CaptureInv' /\ HandoffInv'
    BY <1>2 DEF LogLocked, ActivationInv, CaptureInv, HandoffInv, ActivatingThreads
  <2>3. EntriesConserved'
    BY <1>2 DEF LogLocked, EntriesConserved, InFlight
  <2>4. NoEntryLost' /\ NoStrandedEntries'
    BY <1>2 DEF LogLocked, NoEntryLost, NoStrandedEntries
  <2>. QED
    BY <2>1, <2>2, <2>3, <2>4
<1>3. CASE LogActive(t)
  <2>1. TypeOK' /\ PcInv'
    <3>1. Current(t) \in Entries
      BY <1>3 DEF LogActive, PcInv
    <3>. QED
      BY <1>3, <3>1 DEF LogActive, Route, PcInv
  <2>2. ActivationInv' /\ CaptureInv' /\ HandoffInv'
    BY <1>3 DEF LogActive, Route, ActivationInv, CaptureInv, HandoffInv, ActivatingThreads
  <2>3. EntriesConserved'
    BY <1>3 DEF LogActive, Route, EntriesConserved, InFlight
  <2>4. NoEntryLost' /\ NoStrandedEntries'
    BY <1>3 DEF LogActive, Route, NoEntryLost, NoStrandedEntries, HandoffInv, ActivationInv
  <2>. QED
    BY <2>1, <2>2, <2>3, <2>4
<1>. QED
  BY <1>1, <1>2, <1>3 DEF Log

\* A bootstrap thread looking for the singleton: only pc and options change.
LEMMA GetOrCreateIInv == ASSUME NEW a \in Activators PROVE IInv /\ GetOrCreate(a) => IInv'
<1> SUFFICES ASSUME IInv, GetOrCreate(a) PROVE IInv'
  OBVIOUS
<1> USE LoggersAssumption DEF IInv, TypeOK, Threads, Entries, queueVars, stateVars, fateVars, Goto
<1>1. /\ pc[a] \in {"get", "store"}
      /\ \E to \in {"left", "activate", "store"} : pc' = [pc EXCEPT ![a] = to]
      /\ options' \in BOOLEAN
      /\ UNCHANGED <<queueVars, stateVars, singleton, safetyTimer, isDisposed, logged, fateVars, discarded>>
  BY DEF GetOrCreate, GetOther, GetExisting, StoreOptions
<1>2. TypeOK' /\ PcInv'
  BY <1>1 DEF PcInv
<1>3. ActivationInv' /\ CaptureInv' /\ HandoffInv'
  BY <1>1 DEF ActivationInv, CaptureInv, HandoffInv, ActivatingThreads
<1>4. EntriesConserved'
  BY <1>1 DEF EntriesConserved, InFlight
<1>5. NoEntryLost' /\ NoStrandedEntries'
  BY <1>1 DEF NoEntryLost, NoStrandedEntries
<1>. QED
  BY <1>2, <1>3, <1>4, <1>5

\* A thread in Activate: a bootstrap thread or the timer callback.
LEMMA ActivateIInv == ASSUME NEW a \in ActivatingThreads PROVE IInv /\ Activate(a) => IInv'
<1> SUFFICES ASSUME IInv, Activate(a) PROVE IInv'
  OBVIOUS
<1> USE LoggersAssumption DEF IInv, TypeOK, Threads, Entries, queueVars, stateVars, fateVars,
       Goto, ActivatingThreads
<1>1. CASE ActivateClaim(a)
  <2>1. TypeOK' /\ PcInv'
    <3>1. \E to \in {"create", "returned"} : pc' = [pc EXCEPT ![a] = to]
      BY <1>1 DEF ActivateClaim
    <3>2. singleton' \in BOOLEAN
      BY <1>1, Zenon DEF ActivateClaim
    <3>. QED
      BY <1>1, <3>1, <3>2 DEF ActivateClaim, PcInv
  <2>2. ActivationInv' /\ CaptureInv' /\ HandoffInv'
    BY <1>1 DEF ActivateClaim, ActivationInv, CaptureInv, HandoffInv
  <2>3. EntriesConserved'
    BY <1>1 DEF ActivateClaim, EntriesConserved, InFlight
  <2>4. NoEntryLost' /\ NoStrandedEntries'
    BY <1>1 DEF ActivateClaim, NoEntryLost, NoStrandedEntries
  <2>. QED
    BY <2>1, <2>2, <2>3, <2>4
<1>2. CASE CreateSubLoggers(a)
  <2>1. TypeOK' /\ PcInv'
    <3>1. captured' \subseteq captured \cup {a}
      BY <1>2 DEF CreateSubLoggers
    <3>2. PcInv'
      BY <1>2 DEF CreateSubLoggers, PcInv
    <3>3. deferred' \in BOOLEAN /\ options' \in BOOLEAN
      BY <1>2, Zenon DEF CreateSubLoggers
    <3>. QED
      BY <1>2, <3>1, <3>2, <3>3 DEF CreateSubLoggers
  <2>2. ActivationInv' /\ CaptureInv' /\ HandoffInv'
    BY <1>2 DEF CreateSubLoggers, ActivationInv, CaptureInv, HandoffInv
  <2>3. EntriesConserved'
    BY <1>2 DEF CreateSubLoggers, EntriesConserved, InFlight
  <2>4. NoEntryLost' /\ NoStrandedEntries'
    BY <1>2 DEF CreateSubLoggers, NoEntryLost, NoStrandedEntries, ActivationInv, CaptureInv
  <2>. QED
    BY <2>1, <2>2, <2>3, <2>4
<1>3. CASE ClearStatic(a)
  <2>1. TypeOK' /\ PcInv'
    BY <1>3 DEF ClearStatic, PcInv
  <2>2. ActivationInv' /\ CaptureInv' /\ HandoffInv'
    BY <1>3 DEF ClearStatic, ActivationInv, CaptureInv, HandoffInv
  <2>3. EntriesConserved'
    BY <1>3 DEF ClearStatic, EntriesConserved, InFlight
  <2>4. NoEntryLost' /\ NoStrandedEntries'
    BY <1>3 DEF ClearStatic, NoEntryLost, NoStrandedEntries
  <2>. QED
    BY <2>1, <2>2, <2>3, <2>4
<1>4. CASE DrainNext(a)
  <2>1. PICK e \in queue :
          /\ queue' = queue \ {e}
          /\ \/ dropped' = dropped \cup {e} /\ delivered' = delivered /\ (isDisposed \/ subLoggers = "none")
             \/ delivered' = delivered \cup {e} /\ dropped' = dropped
    BY <1>4 DEF DrainNext, Route
  <2>2. TypeOK' /\ PcInv'
    BY <1>4, <2>1 DEF DrainNext, PcInv
  <2>3. ActivationInv' /\ CaptureInv' /\ HandoffInv'
    BY <1>4 DEF DrainNext, ActivationInv, CaptureInv, HandoffInv
  <2>4. EntriesConserved'
    BY <1>4, <2>1 DEF DrainNext, EntriesConserved, InFlight
  <2>5. NoEntryLost' /\ NoStrandedEntries'
    BY <1>4, <2>1 DEF DrainNext, NoEntryLost, NoStrandedEntries, ActivationInv, CaptureInv
  <2>. QED
    BY <2>2, <2>3, <2>4, <2>5
<1>5. CASE DrainDone(a)
  <2>1. TypeOK' /\ PcInv'
    BY <1>5 DEF DrainDone, PcInv
  <2>2. ActivationInv' /\ CaptureInv' /\ HandoffInv'
    BY <1>5 DEF DrainDone, ActivationInv, CaptureInv, HandoffInv
  <2>3. EntriesConserved'
    BY <1>5 DEF DrainDone, EntriesConserved, InFlight
  <2>4. NoEntryLost' /\ NoStrandedEntries'
    BY <1>5 DEF DrainDone, NoEntryLost, NoStrandedEntries
  <2>. QED
    BY <2>1, <2>2, <2>3, <2>4
<1>6. CASE StopTimer(a)
  <2>1. TypeOK' /\ PcInv'
    BY <1>6 DEF StopTimer, PcInv
  <2>2. ActivationInv' /\ CaptureInv' /\ HandoffInv'
    BY <1>6 DEF StopTimer, ActivationInv, CaptureInv, HandoffInv
  <2>3. EntriesConserved'
    BY <1>6 DEF StopTimer, EntriesConserved, InFlight
  <2>4. NoEntryLost' /\ NoStrandedEntries'
    BY <1>6 DEF StopTimer, NoEntryLost, NoStrandedEntries
  <2>. QED
    BY <2>1, <2>2, <2>3, <2>4
<1>. QED
  BY <1>1, <1>2, <1>3, <1>4, <1>5, <1>6 DEF Activate

\* The timer callback up to its call of Activate.
LEMMA TimerIInv == IInv /\ (TimerElapses \/ TimerCheck \/ TimerDiscard) => IInv'
<1> SUFFICES ASSUME IInv, TimerElapses \/ TimerCheck \/ TimerDiscard PROVE IInv'
  OBVIOUS
<1> USE LoggersAssumption DEF IInv, TypeOK, Threads, Entries, queueVars, stateVars, fateVars, Goto
<1>1. CASE TimerElapses
  <2>1. TypeOK' /\ PcInv'
    BY <1>1 DEF TimerElapses, PcInv
  <2>2. ActivationInv' /\ CaptureInv' /\ HandoffInv'
    BY <1>1 DEF TimerElapses, ActivationInv, CaptureInv, HandoffInv, ActivatingThreads
  <2>3. EntriesConserved'
    BY <1>1 DEF TimerElapses, EntriesConserved, InFlight
  <2>4. NoEntryLost' /\ NoStrandedEntries'
    BY <1>1 DEF TimerElapses, NoEntryLost, NoStrandedEntries
  <2>. QED
    BY <2>1, <2>2, <2>3, <2>4
<1>2. CASE TimerCheck
  <2>1. TypeOK' /\ PcInv'
    BY <1>2 DEF TimerCheck, PcInv
  <2>2. ActivationInv' /\ CaptureInv' /\ HandoffInv'
    BY <1>2 DEF TimerCheck, ActivationInv, CaptureInv, HandoffInv, ActivatingThreads
  <2>3. EntriesConserved'
    BY <1>2 DEF TimerCheck, EntriesConserved, InFlight
  <2>4. NoEntryLost' /\ NoStrandedEntries'
    BY <1>2 DEF TimerCheck, NoEntryLost, NoStrandedEntries
  <2>. QED
    BY <2>1, <2>2, <2>3, <2>4
<1>3. CASE TimerDiscard
  <2>1. TypeOK' /\ PcInv'
    <3>1. CASE deferred
      <4>1. deferred' \in BOOLEAN /\ discarded' \in BOOLEAN
        BY <1>3, <3>1, Zenon DEF TimerDiscard
      <4>2. pc' = [pc EXCEPT !["timer"] = "clear"] /\ dropped' = dropped \cup queue /\ queue' = {}
        BY <1>3, <3>1 DEF TimerDiscard
      <4>. QED
        BY <1>3, <4>1, <4>2 DEF TimerDiscard, PcInv
    <3>2. CASE ~deferred
      BY <1>3, <3>2 DEF TimerDiscard, PcInv
    <3>. QED
      BY <3>1, <3>2
  <2>2. ActivationInv' /\ CaptureInv' /\ HandoffInv'
    BY <1>3 DEF TimerDiscard, ActivationInv, CaptureInv, HandoffInv, ActivatingThreads
  <2>3. EntriesConserved'
    BY <1>3 DEF TimerDiscard, EntriesConserved, InFlight
  <2>4. NoEntryLost' /\ NoStrandedEntries'
    BY <1>3 DEF TimerDiscard, NoEntryLost, NoStrandedEntries, ActivationInv, CaptureInv
  <2>. QED
    BY <2>1, <2>2, <2>3, <2>4
<1>. QED
  BY <1>1, <1>2, <1>3

\* Disposal.
LEMMA DisposeIInv == IInv /\ Dispose => IInv'
<1> SUFFICES ASSUME IInv, Dispose PROVE IInv'
  OBVIOUS
<1> USE LoggersAssumption DEF IInv, TypeOK, Threads, Entries, queueVars, stateVars, fateVars, Goto
<1>1. CASE DisposeMark
  <2>1. TypeOK' /\ PcInv'
    BY <1>1 DEF DisposeMark, PcInv
  <2>2. ActivationInv' /\ CaptureInv' /\ HandoffInv'
    BY <1>1 DEF DisposeMark, ActivationInv, CaptureInv, HandoffInv, ActivatingThreads
  <2>3. EntriesConserved'
    BY <1>1 DEF DisposeMark, EntriesConserved, InFlight
  <2>4. NoEntryLost' /\ NoStrandedEntries'
    BY <1>1 DEF DisposeMark, NoEntryLost, NoStrandedEntries
  <2>. QED
    BY <2>1, <2>2, <2>3, <2>4
<1>2. CASE DisposeFileLogger
  <2>1. TypeOK' /\ PcInv'
    BY <1>2 DEF DisposeFileLogger, PcInv
  <2>2. ActivationInv' /\ CaptureInv' /\ HandoffInv'
    BY <1>2 DEF DisposeFileLogger, ActivationInv, CaptureInv, HandoffInv, ActivatingThreads
  <2>3. EntriesConserved'
    BY <1>2 DEF DisposeFileLogger, EntriesConserved, InFlight
  <2>4. NoEntryLost' /\ NoStrandedEntries'
    BY <1>2 DEF DisposeFileLogger, NoEntryLost, NoStrandedEntries
  <2>. QED
    BY <2>1, <2>2, <2>3, <2>4
<1>3. CASE StopTimer("disposer")
  <2>1. TypeOK' /\ PcInv'
    BY <1>3 DEF StopTimer, PcInv
  <2>2. ActivationInv' /\ CaptureInv' /\ HandoffInv'
    BY <1>3 DEF StopTimer, ActivationInv, CaptureInv, HandoffInv, ActivatingThreads
  <2>3. EntriesConserved'
    BY <1>3 DEF StopTimer, EntriesConserved, InFlight
  <2>4. NoEntryLost' /\ NoStrandedEntries'
    BY <1>3 DEF StopTimer, NoEntryLost, NoStrandedEntries
  <2>. QED
    BY <2>1, <2>2, <2>3, <2>4
<1>. QED
  BY <1>1, <1>2, <1>3 DEF Dispose

LEMMA NextIInv == IInv /\ [Next]_vars => IInv'
<1> SUFFICES ASSUME IInv, [Next]_vars PROVE IInv'
  OBVIOUS
<1>1. CASE \E t \in Loggers : Log(t)
  BY <1>1, LogIInv
<1>2. CASE \E a \in Activators : GetOrCreate(a) \/ Activate(a)
  BY <1>2, GetOrCreateIInv, ActivateIInv DEF ActivatingThreads
<1>3. CASE Timer
  BY <1>3, TimerIInv, ActivateIInv DEF Timer, ActivatingThreads
<1>4. CASE Dispose
  BY <1>4, DisposeIInv
<1>5. CASE UNCHANGED vars
  BY <1>5 DEF vars, queueVars, stateVars, fateVars, IInv, TypeOK, PcInv, ActivationInv,
       CaptureInv, HandoffInv, EntriesConserved, InFlight, NoEntryLost, NoStrandedEntries
<1>. QED
  BY <1>1, <1>2, <1>3, <1>4, <1>5 DEF Next

-----------------------------------------------------------------------------

\* The inductive invariant holds in every reachable state of CompositeLogger.
THEOREM Invariance == Spec => []IInv
BY InitIInv, NextIInv, PTL DEF Spec

\* The fields of CompositeLogger keep their types.
THEOREM TypeCorrect == Spec => []TypeOK
<1>1. IInv => TypeOK
  BY DEF IInv
<1>. QED
  BY <1>1, Invariance, PTL

\* Every entry passed to Log is at all times in exactly one place: with its
\* thread, in the deferred queue, delivered, or dropped.
THEOREM Conservation == Spec => []EntriesConserved
<1>1. IInv => EntriesConserved
  BY DEF IInv
<1>. QED
  BY <1>1, Invariance, PTL

\* The hand-over from the deferred queue to the sub-loggers drops no entry,
\* whatever the interleaving of Log, Activate and the timer callback.
THEOREM NothingLost == Spec => []NoEntryLost
<1>1. IInv => NoEntryLost
  BY DEF IInv
<1>. QED
  BY <1>1, Invariance, PTL

\* No entry is enqueued after the thread that captured the queue has drained it.
THEOREM NothingStranded == Spec => []NoStrandedEntries
<1>1. IInv => NoStrandedEntries
  BY DEF IInv
<1>. QED
  BY <1>1, Invariance, PTL

\* However many threads call Activate, sub-loggers are created at most once, and
\* no call returns to a bootstrap thread before somebody creates them.
THEOREM ActivatedOnce == Spec => []SingleActivation
<1>1. IInv => SingleActivation
  BY DEF IInv, TypeOK, ActivationInv, SingleActivation, ActivatingThreads
<1>. QED
  BY <1>1, Invariance, PTL

-----------------------------------------------------------------------------
(* The logger implements AbstractLogger. *)

\* The entries Log has been called with, as the refinement mapping sees them.
Accepted == {e \in Entries : e[2] <= logged[e[1]]}

\* An entry in flight or queued has been accepted and not settled.
LEMMA OpenEntries ==
  ASSUME IInv
  PROVE  /\ \A t \in Loggers : pc[t] \in {"locked", "active"}
              => Current(t) \in Accepted \ (delivered \cup dropped)
         /\ queue \subseteq Accepted \ (delivered \cup dropped)
<1> USE LoggersAssumption DEF IInv, TypeOK, Entries, Accepted, Current, InFlight, EntriesConserved
<1>1. ASSUME NEW t \in Loggers, pc[t] \in {"locked", "active"}
      PROVE  Current(t) \in Accepted \ (delivered \cup dropped)
  <2>1. logged[t] \in 1..MaxEntries
    BY <1>1 DEF PcInv
  <2>. QED
    BY <1>1, <2>1
<1>2. ASSUME NEW t \in Loggers, NEW n \in 1..MaxEntries, <<t, n>> \in queue
      PROVE  <<t, n>> \in Accepted \ (delivered \cup dropped)
  <2>1. n <= logged[t]
    BY <1>2
  <2>. QED
    BY <1>2, <2>1
<1>3. queue \subseteq Loggers \X (1..MaxEntries)
  OBVIOUS
<1>. QED
  BY <1>1, <1>2, <1>3

\* A step of Log accepts an entry, settles one, or is invisible.
LEMMA LogRefines ==
  ASSUME NEW t \in Loggers, IInv, Log(t)
  PROVE  [Abstract!Next]_(Abstract!vars)
<1> USE DEF queueVars, stateVars, fateVars, Goto
<1>1. CASE LogBegin(t)
  <2>0. PICK e : e = <<t, logged[t] + 1>>
    OBVIOUS
  <2>1. e \in Entries /\ e \notin Accepted /\ Accepted' = Accepted \cup {e}
    <3>1. /\ logged \in [Loggers -> 0..MaxEntries] /\ logged[t] < MaxEntries
          /\ logged' = [logged EXCEPT ![t] = logged[t] + 1]
      BY <1>1 DEF LogBegin, IInv, TypeOK
    <3>2. e \in Entries /\ e \notin Accepted
      BY <2>0, <3>1, LoggersAssumption DEF Accepted, Entries
    <3>3. ASSUME NEW u \in Loggers, NEW n \in 1..MaxEntries
          PROVE  n <= logged'[u] <=> n <= logged[u] \/ <<u, n>> = e
      BY <2>0, <3>1, LoggersAssumption
    <3>4. \A f \in Entries : f[2] <= logged'[f[1]] <=> f[2] <= logged[f[1]] \/ f = e
      BY <3>3 DEF Entries
    <3>. QED
      BY <3>2, <3>4 DEF Accepted
  <2>2. \/ dropped' = dropped
        \/ isDisposed /\ dropped' = dropped \cup {e}
    BY <2>0, <1>1 DEF LogBegin
  <2>3. UNCHANGED <<delivered, isDisposed, discarded>>
    BY <1>1 DEF LogBegin
  <2>4. Abstract!Accept(e)
    BY <2>1, <2>2, <2>3 DEF Abstract!Accept, Accepted
  <2>. QED
    BY <2>1, <2>4 DEF Abstract!Next
<1>2. CASE LogLocked(t)
  BY <1>2 DEF LogLocked, Abstract!vars
<1>3. CASE LogActive(t)
  <2>1. Current(t) \in Entries /\ Current(t) \in Accepted \ (delivered \cup dropped)
    BY <1>3, OpenEntries DEF LogActive, Accepted
  <2>2. \/ delivered' = delivered \cup {Current(t)} /\ dropped' = dropped
        \/ /\ dropped' = dropped \cup {Current(t)} /\ delivered' = delivered
           /\ subLoggers = "none"
    BY <1>3 DEF LogActive, Route
  <2>3. UNCHANGED <<logged, isDisposed, discarded>>
    BY <1>3 DEF LogActive
  <2>4. subLoggers = "none" => discarded
    BY <1>3 DEF LogActive, IInv, ActivationInv, HandoffInv
  <2>5. Abstract!Write(Current(t)) \/ Abstract!Lose(Current(t))
    BY <2>1, <2>2, <2>3, <2>4 DEF Abstract!Write, Abstract!Lose, Abstract!Open, Accepted
  <2>. QED
    BY <2>1, <2>5 DEF Abstract!Next
<1>. QED
  BY <1>1, <1>2, <1>3 DEF Log

\* The drain settles one entry; the other steps of Activate are invisible.
LEMMA ActivateRefines ==
  ASSUME NEW a \in ActivatingThreads, IInv, Activate(a)
  PROVE  [Abstract!Next]_(Abstract!vars)
<1> USE DEF queueVars, stateVars, fateVars, Goto
<1>1. CASE DrainNext(a)
  <2>1. PICK e \in queue :
          \/ dropped' = dropped \cup {e} /\ delivered' = delivered /\ (isDisposed \/ subLoggers = "none")
          \/ delivered' = delivered \cup {e} /\ dropped' = dropped
    BY <1>1 DEF DrainNext, Route
  <2>2. e \in Entries /\ e \in Accepted \ (delivered \cup dropped)
    BY OpenEntries DEF Accepted
  <2>3. UNCHANGED <<logged, isDisposed, discarded>>
    BY <1>1 DEF DrainNext
  <2>4. subLoggers # "none"
    BY <1>1 DEF DrainNext, IInv, CaptureInv, ActivationInv
  <2>5. Abstract!Write(e) \/ Abstract!Lose(e)
    BY <2>1, <2>2, <2>3, <2>4 DEF Abstract!Write, Abstract!Lose, Abstract!Open, Accepted
  <2>. QED
    BY <2>2, <2>5 DEF Abstract!Next
<1>2. CASE ActivateClaim(a) \/ CreateSubLoggers(a) \/ ClearStatic(a) \/ DrainDone(a) \/ StopTimer(a)
  BY <1>2 DEF ActivateClaim, CreateSubLoggers, ClearStatic, DrainDone, StopTimer, Abstract!vars
<1>. QED
  BY <1>1, <1>2 DEF Activate

\* Discarding the queue and disposing close the logger; the rest is invisible.
LEMMA NextRefines == IInv /\ [Next]_vars => [Abstract!Next]_(Abstract!vars)
<1> SUFFICES ASSUME IInv, [Next]_vars PROVE [Abstract!Next]_(Abstract!vars)
  OBVIOUS
<1> USE DEF queueVars, stateVars, fateVars, Goto
<1>1. CASE \E t \in Loggers : Log(t)
  BY <1>1, LogRefines
<1>2. CASE \E a \in Activators : GetOrCreate(a)
  BY <1>2 DEF GetOrCreate, GetOther, GetExisting, StoreOptions, Abstract!vars
<1>3. CASE \E a \in ActivatingThreads : Activate(a)
  BY <1>3, ActivateRefines
<1>4. CASE TimerElapses \/ TimerCheck
  BY <1>4 DEF TimerElapses, TimerCheck, Abstract!vars
<1>5. CASE TimerDiscard
  <2>1. CASE deferred
    <3>1. queue \subseteq Accepted \ (delivered \cup dropped)
      BY OpenEntries
    <3>2. dropped' = dropped \cup queue /\ discarded' /\ UNCHANGED <<logged, delivered, isDisposed>>
      BY <1>5, <2>1 DEF TimerDiscard
    <3>3. Abstract!Close
      BY <3>1, <3>2 DEF Abstract!Close, Abstract!Open, Accepted
    <3>. QED
      BY <3>3 DEF Abstract!Next
  <2>2. CASE ~deferred
    BY <1>5, <2>2 DEF TimerDiscard, Abstract!vars
  <2>. QED
    BY <2>1, <2>2
<1>6. CASE DisposeMark
  <2>1. isDisposed' /\ UNCHANGED <<logged, delivered, dropped, discarded>>
    BY <1>6 DEF DisposeMark
  <2>2. Abstract!Close
    <3>1. {} \in SUBSET Abstract!Open /\ dropped' = dropped \cup {}
      BY <2>1
    <3>. QED
      BY <2>1, <3>1 DEF Abstract!Close
  <2>. QED
    BY <2>2 DEF Abstract!Next
<1>7. CASE DisposeFileLogger \/ StopTimer("disposer")
  BY <1>7 DEF DisposeFileLogger, StopTimer, Abstract!vars
<1>8. CASE UNCHANGED vars
  BY <1>8 DEF vars, Abstract!vars
<1>. QED
  BY <1>1, <1>2, <1>3, <1>4, <1>5, <1>6, <1>7, <1>8
     DEF Next, Timer, Dispose, ActivatingThreads

\* CompositeLogger implements the safety part of AbstractLogger: for any number
\* of threads and entries, Log, Activate, the timer callback and Dispose write an
\* accepted entry at most once and lose none before the logger is closing.
THEOREM Refinement == Spec => Abstract!Safety
<1>1. Init => Abstract!Init
  BY DEF Init, Abstract!Init, Entries
<1>. QED
  BY <1>1, NextRefines, Invariance, PTL DEF Spec, Abstract!Safety

=============================================================================
