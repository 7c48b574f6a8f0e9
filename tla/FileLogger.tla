----------------------------- MODULE FileLogger -----------------------------
(***************************************************************************)
(* FileLogger: logging threads enqueue lines and release a semaphore, one  *)
(* writing task takes lines off the queue and writes them, Dispose stops   *)
(* the task and closes what it used.                                       *)
(*                                                                         *)
(* Lines reach Log through CompositeLogger.Log, which tests its own        *)
(* _isDisposed first; CompositeLogger.Dispose sets that flag before it     *)
(* disposes the file logger. The queue is a set: the order of lines plays  *)
(* no role in the properties. Lines below the configured level never get   *)
(* here. The wait of at most 5 seconds for the writing task is a step      *)
(* without a clock: it may time out whenever the task has not ended.       *)
(***************************************************************************)
EXTENDS Naturals

CONSTANTS
  Loggers,   \* threads that log
  Disposers, \* threads that call Dispose or DisposeAsync
  MaxLines   \* bound on the lines each thread logs

ASSUME FileLoggerAssumption ==
  /\ MaxLines \in Nat
  /\ Loggers \cap Disposers = {}

Lines == Loggers \X (1..MaxLines)

VARIABLES
  enabled,   \* FileLoggingEnabled: configured, and the file could be opened
  closing,   \* CompositeLogger._isDisposed
  queue,     \* _logQueue
  semaphore, \* the count of _logSemaphore
  semaphoreDisposed,
  cancelled, \* _cancellationTokenSource
  stream,    \* _streamWriter: "open" or "closed"
  disposed,  \* _disposed
  pc,        \* where each logging or disposing thread is
  logged,    \* lines each thread has begun to log
  writerPc,  \* where the writing task is
  hand,      \* the line the writing task has dequeued and not yet written
  written,   \* lines in the file
  lost,      \* lines dequeued and not written
  remaining, \* history: the lines queued when the writing task leaves its main loop
  timedOut,  \* Dispose gave up waiting for the writing task
  ioFailed   \* a write failed for another reason than disposal

logVars    == <<closing, logged>>
writerVars == <<writerPc, hand, written, lost, remaining, ioFailed>>
resources  == <<enabled, cancelled, semaphoreDisposed, stream>>
disposeVars == <<disposed, timedOut>>

vars == <<logVars, writerVars, resources, disposeVars, queue, semaphore, pc>>

TypeOK ==
  /\ enabled \in BOOLEAN
  /\ closing \in BOOLEAN
  /\ queue \subseteq Lines
  /\ semaphore \in Nat
  /\ semaphoreDisposed \in BOOLEAN
  /\ cancelled \in BOOLEAN
  /\ stream \in {"open", "closed"}
  /\ disposed \in BOOLEAN
  /\ pc \in [Loggers \cup Disposers ->
               {"idle", "enqueue", "release", "gate", "cancel", "wake", "await",
                "close", "semaphore", "returned", "threw"}]
  /\ logged \in [Loggers -> 0..MaxLines]
  /\ writerPc \in {"wait", "dequeue", "write", "flush", "flushWrite", "done", "faulted"}
  /\ hand \subseteq Lines
  /\ written \subseteq Lines
  /\ lost \subseteq Lines
  /\ remaining \subseteq Lines
  /\ timedOut \in BOOLEAN
  /\ ioFailed \in BOOLEAN

\* The constructor: without file logging the writing task is a completed one.
Init ==
  /\ enabled \in BOOLEAN
  /\ closing = FALSE
  /\ queue = {}
  /\ semaphore = 0
  /\ semaphoreDisposed = FALSE
  /\ cancelled = FALSE
  /\ stream = "open"
  /\ disposed = FALSE
  /\ pc = [t \in Loggers \cup Disposers |-> "idle"]
  /\ logged = [t \in Loggers |-> 0]
  /\ writerPc = IF enabled THEN "wait" ELSE "done"
  /\ hand = {}
  /\ written = {}
  /\ lost = {}
  /\ remaining = {}
  /\ timedOut = FALSE
  /\ ioFailed = FALSE

Goto(t, to) == pc' = [pc EXCEPT ![t] = to]

-----------------------------------------------------------------------------
(* Log *)

Current(t) == <<t, logged[t]>>

\* CompositeLogger.Log: not disposed, and the file logger is enabled.
LogEnter(t) ==
  /\ pc[t] = "idle"
  /\ logged[t] < MaxLines
  /\ ~closing
  /\ enabled
  /\ logged' = [logged EXCEPT ![t] = @ + 1]
  /\ Goto(t, "enqueue")
  /\ UNCHANGED <<closing, writerVars, resources, disposeVars, queue, semaphore>>

LogEnqueue(t) ==
  /\ pc[t] = "enqueue"
  /\ queue' = queue \cup {Current(t)}
  /\ Goto(t, "release")
  /\ UNCHANGED <<logVars, writerVars, resources, disposeVars, semaphore>>

\* Mutant of LogRelease: the writer is woken only by the line that finds the
\* queue empty, as seen after the enqueue.
LogReleaseIfFirst(t) ==
  /\ pc[t] = "release"
  /\ semaphore' = IF queue \subseteq {Current(t)} THEN semaphore + 1 ELSE semaphore
  /\ Goto(t, "idle")
  /\ UNCHANGED <<logVars, writerVars, resources, disposeVars, queue>>

\* SemaphoreSlim.Release throws ObjectDisposedException once it is disposed.
LogRelease(t) ==
  /\ pc[t] = "release"
  /\ IF semaphoreDisposed
     THEN Goto(t, "threw") /\ UNCHANGED semaphore
     ELSE Goto(t, "idle") /\ semaphore' = semaphore + 1
  /\ UNCHANGED <<logVars, writerVars, resources, disposeVars, queue>>

Log(t) == LogEnter(t) \/ LogEnqueue(t) \/ LogRelease(t)

-----------------------------------------------------------------------------
(* The writing task *)

\* Mutant of WriterWait: the count is taken without waiting for it.
WriterWaitUnblocked ==
  /\ writerPc = "wait"
  /\ semaphore' = semaphore - 1
  /\ IF cancelled
     THEN writerPc' = "flush" /\ remaining' = queue
     ELSE writerPc' = "dequeue" /\ UNCHANGED remaining
  /\ UNCHANGED <<logVars, hand, written, lost, ioFailed, resources, disposeVars, queue, pc>>

\* WaitAsync: released or cancelled (a wait that was released before the
\* cancellation still succeeds), or called on a disposed semaphore, whose
\* ObjectDisposedException nobody catches.
WriterWait ==
  /\ writerPc = "wait"
  /\ \/ semaphoreDisposed /\ writerPc' = "faulted" /\ UNCHANGED <<semaphore, remaining>>
     \/ cancelled /\ writerPc' = "flush" /\ remaining' = queue /\ UNCHANGED semaphore
     \/ /\ semaphore > 0
        /\ semaphore' = semaphore - 1
        /\ writerPc' = "dequeue"
        /\ UNCHANGED remaining
  /\ UNCHANGED <<logVars, hand, written, lost, ioFailed, resources, disposeVars, queue, pc>>

\* TryDequeue succeeds: write the line, or end at once if disposal has started.
TakeLine(next) ==
  \E e \in queue :
    /\ queue' = queue \ {e}
    /\ IF disposed
       THEN lost' = lost \cup {e} /\ writerPc' = "done" /\ UNCHANGED hand
       ELSE hand' = {e} /\ writerPc' = next /\ UNCHANGED lost

\* Mutant of WriterDequeue: the line is peeked at, not taken off the queue.
WriterDequeuePeeks ==
  /\ writerPc = "dequeue"
  /\ \E e \in queue : hand' = {e}
  /\ writerPc' = "write"
  /\ UNCHANGED <<logVars, queue, lost, written, remaining, ioFailed, resources, disposeVars, semaphore, pc>>

\* The inner loop: take the queued lines, then wait again.
WriterDequeue ==
  /\ writerPc = "dequeue"
  /\ \/ TakeLine("write")
     \/ queue = {} /\ writerPc' = "wait" /\ UNCHANGED <<queue, hand, lost>>
  /\ UNCHANGED <<logVars, written, remaining, ioFailed, resources, disposeVars, semaphore, pc>>

\* The loop after cancellation: take the remaining lines, then end.
WriterFlush ==
  /\ writerPc = "flush"
  /\ \/ TakeLine("flushWrite")
     \/ queue = {} /\ writerPc' = "done" /\ UNCHANGED <<queue, hand, lost>>
  /\ UNCHANGED <<logVars, written, remaining, ioFailed, resources, disposeVars, semaphore, pc>>

\* WriteLineAsync: done, or the stream has been disposed meanwhile.
WriterWrite ==
  /\ writerPc \in {"write", "flushWrite"}
  /\ IF stream = "open"
     THEN /\ written' = written \cup hand
          /\ writerPc' = IF writerPc = "write" THEN "dequeue" ELSE "flush"
          /\ UNCHANGED lost
     ELSE /\ lost' = lost \cup hand
          /\ writerPc' = "done"
          /\ UNCHANGED written
  /\ hand' = {}
  /\ UNCHANGED <<logVars, remaining, ioFailed, resources, disposeVars, queue, semaphore, pc>>

\* Any other exception (a full disk) escapes and faults the task.
WriterFails ==
  /\ writerPc \in {"write", "flushWrite"}
  /\ stream = "open"
  /\ lost' = lost \cup hand
  /\ hand' = {}
  /\ writerPc' = "faulted"
  /\ ioFailed' = TRUE
  /\ UNCHANGED <<logVars, written, remaining, resources, disposeVars, queue, semaphore, pc>>

Writer == WriterWait \/ WriterDequeue \/ WriterFlush \/ WriterWrite

-----------------------------------------------------------------------------
(* Dispose and DisposeAsync *)

\* CompositeLogger.Dispose has set its flag and calls Dispose.
DisposeEnter(d) ==
  /\ pc[d] = "idle"
  /\ closing' = TRUE
  /\ Goto(d, "gate")
  /\ UNCHANGED <<logged, writerVars, resources, disposeVars, queue, semaphore>>

\* Mutant of DisposeGate: every caller goes through.
DisposeGateOpen(d) ==
  /\ pc[d] = "gate"
  /\ disposed' = TRUE
  /\ Goto(d, "cancel")
  /\ UNCHANGED <<logVars, writerVars, resources, timedOut, queue, semaphore>>

\* Interlocked.Exchange(ref _disposed, 1)
DisposeGate(d) ==
  /\ pc[d] = "gate"
  /\ disposed' = TRUE
  /\ Goto(d, IF disposed THEN "returned" ELSE "cancel")
  /\ UNCHANGED <<logVars, writerVars, resources, timedOut, queue, semaphore>>

DisposeCancel(d) ==
  /\ pc[d] = "cancel"
  /\ cancelled' = TRUE
  /\ Goto(d, "wake")
  /\ UNCHANGED <<logVars, writerVars, enabled, semaphoreDisposed, stream, disposeVars, queue, semaphore>>

\* _logSemaphore.Release()
DisposeWake(d) ==
  /\ pc[d] = "wake"
  /\ IF semaphoreDisposed
     THEN Goto(d, "threw") /\ UNCHANGED semaphore
     ELSE Goto(d, "await") /\ semaphore' = semaphore + 1
  /\ UNCHANGED <<logVars, writerVars, resources, disposeVars, queue>>

\* Mutant of DisposeAwait: the writing task is not waited for.
DisposeAwaitSkipped(d) ==
  /\ pc[d] = "await"
  /\ Goto(d, "close")
  /\ UNCHANGED <<logVars, writerVars, resources, disposeVars, queue, semaphore>>

\* Mutant of DisposeAwait: the wait has no timeout.
DisposeAwaitForever(d) ==
  /\ pc[d] = "await"
  /\ writerPc \in {"done", "faulted"}
  /\ Goto(d, IF writerPc = "done" THEN "close" ELSE "threw")
  /\ UNCHANGED <<logVars, writerVars, resources, disposeVars, queue, semaphore>>

\* The writing task has ended, has faulted (the fault is rethrown here), or the
\* wait times out.
DisposeAwait(d) ==
  /\ pc[d] = "await"
  /\ \/ writerPc = "done" /\ Goto(d, "close") /\ UNCHANGED timedOut
     \/ writerPc = "faulted" /\ Goto(d, "threw") /\ UNCHANGED timedOut
     \/ writerPc \notin {"done", "faulted"} /\ Goto(d, "close") /\ timedOut' = TRUE
  /\ UNCHANGED <<logVars, writerVars, resources, disposed, queue, semaphore>>

\* _streamWriter.Dispose(): it closes the stream in any case, and throws
\* InvalidOperationException when an asynchronous write is in progress.
DisposeStream(d) ==
  /\ pc[d] = "close"
  /\ stream' = "closed"
  /\ \/ Goto(d, "semaphore")
     \/ writerPc \in {"write", "flushWrite"} /\ Goto(d, "threw")
  /\ UNCHANGED <<logVars, writerVars, enabled, cancelled, semaphoreDisposed, disposeVars, queue, semaphore>>

\* _logSemaphore.Dispose() and _cancellationTokenSource.Dispose()
DisposeSemaphore(d) ==
  /\ pc[d] = "semaphore"
  /\ semaphoreDisposed' = TRUE
  /\ Goto(d, "returned")
  /\ UNCHANGED <<logVars, writerVars, enabled, cancelled, stream, disposeVars, queue, semaphore>>

Dispose(d) ==
  \/ DisposeEnter(d) \/ DisposeGate(d) \/ DisposeCancel(d) \/ DisposeWake(d)
  \/ DisposeAwait(d) \/ DisposeStream(d) \/ DisposeSemaphore(d)

-----------------------------------------------------------------------------

Next ==
  \/ \E t \in Loggers : Log(t)
  \/ Writer
  \/ WriterFails
  \/ \E d \in Disposers : Dispose(d)

Spec == Init /\ [][Next]_vars

\* Threads inside a call keep running, and the wait in Dispose ends; whether Log
\* and Dispose are called is up to the application.
ThreadFairness ==
  /\ \A t \in Loggers : WF_vars(LogEnqueue(t) \/ LogRelease(t))
  /\ \A d \in Disposers : WF_vars(pc[d] # "idle" /\ Dispose(d))

\* Nothing is assumed of the writing task: a write may hang for ever.
FairSpec == Spec /\ ThreadFairness

\* The writing task keeps running, too.
WriterFairness == WF_vars(Writer)

-----------------------------------------------------------------------------
(* Properties. *)

\* Is line n of thread t on its way to the queue?
InFlight(t, n) == n = logged[t] /\ pc[t] = "enqueue"

\* Conservation: a line that was logged is in exactly one place: with its
\* thread, in the queue, in the writing task's hand, in the file, or lost.
LinesConserved ==
  /\ \A t \in Loggers, n \in 1..MaxLines :
       n <= logged[t] => InFlight(t, n) \/ <<t, n>> \in queue \cup hand \cup written \cup lost
  /\ \A t \in Loggers, n \in 1..MaxLines :
       n > logged[t] \/ InFlight(t, n) => <<t, n>> \notin queue \cup hand \cup written \cup lost
  /\ queue \cap (hand \cup written \cup lost) = {}
  /\ hand \cap (written \cup lost) = {}
  /\ written \cap lost = {}

\* No lost wake-up: the writing task never sleeps on a non-empty queue unless a
\* release is on its way or disposal has begun.
NoLostWakeup ==
  (writerPc = "wait" /\ queue # {})
     => semaphore > 0 \/ cancelled \/ \E t \in Loggers : pc[t] = "release"

\* Dispose never pulls the semaphore or the stream from under a live writing
\* task, except after the wait for it timed out: it never faults the task.
WriterSurvivesDispose ==
  /\ writerPc = "faulted" => ioFailed \/ timedOut
  /\ (stream = "closed" /\ ~timedOut) => writerPc = "done"

\* One thread disposes: a second caller neither repeats the teardown nor hits
\* the disposed semaphore; a Dispose throws only for a failed or a stuck write.
DisposeOnce ==
  /\ \A d, e \in Disposers :
       {pc[d], pc[e]} \subseteq {"cancel", "wake", "await", "close", "semaphore"} => d = e
  /\ (\E d \in Disposers : pc[d] = "threw") => ioFailed \/ timedOut

\* Every queued line is written, unless disposal starts or a write fails or
\* hangs.
LinesWritten == WriterFairness => (queue # {} ~> (queue = {} \/ disposed \/ ioFailed))

\* A Dispose that was called returns or throws, even when the writing task is
\* stuck in a write.
DisposeEnds ==
  \A d \in Disposers : pc[d] = "gate" ~> pc[d] \in {"returned", "threw"}

\* The logger seen through AbstractLogger: a line is accepted once a thread has
\* begun to log it, and lines may be lost from disposal or a failed write on.
Abstract == INSTANCE AbstractLogger WITH
  Entries  <- Lines,
  accepted <- {l \in Lines : l[2] <= logged[l[1]]},
  closing  <- closing \/ ioFailed

\* The comment over the last loop of the writing task: the remaining lines are
\* flushed before it exits. Here: the lines that are queued when that loop
\* begins are in the file when the task has ended without a failed write, and
\* Dispose did not give up waiting for it.
RemainingLinesFlushed == (writerPc = "done" /\ ~timedOut) => remaining \subseteq written

=============================================================================
