-------------------------- MODULE FileLoggerProofs --------------------------
(***************************************************************************)
(* Proofs of the safety properties of FileLogger for any number of logging *)
(* threads, disposing threads and lines.                                   *)
(***************************************************************************)
EXTENDS FileLogger, TLAPS

\* Inside Dispose, past the gate.
Teardown == {"cancel", "wake", "await", "close", "semaphore"}

\* Logging and disposing threads stay in their own part of the code.
PcInv ==
  /\ \A t \in Loggers : pc[t] \in {"idle", "enqueue", "release", "threw"}
  /\ \A t \in Loggers : pc[t] = "enqueue" => logged[t] # 0
  /\ \A d \in Disposers : pc[d] \in {"idle", "gate", "returned", "threw"} \cup Teardown

\* The writing task holds a line only between taking and writing it; it faults
\* only for a failed write or after the wait for it timed out.
WriterInv ==
  /\ hand # {} => writerPc \in {"write", "flushWrite"}
  /\ WriterSurvivesDispose

\* One thread is past the gate, and the order in which it takes things down.
DisposalInv ==
  /\ DisposeOnce
  /\ \A d \in Disposers : pc[d] \in Teardown => disposed /\ ~semaphoreDisposed
  /\ \A d \in Disposers : pc[d] \in {"cancel", "wake", "await", "close"} => stream = "open"
  /\ \A d \in Disposers : pc[d] \in Teardown \ {"cancel"} => cancelled
  /\ \A d \in Disposers : pc[d] = "close" => timedOut \/ writerPc = "done"
  /\ \A d \in Disposers : pc[d] = "semaphore" => stream = "closed"
  /\ semaphoreDisposed => cancelled /\ stream = "closed"
  /\ ~disposed => ~cancelled /\ ~semaphoreDisposed /\ stream = "open"

\* The inductive invariant.
IInv == TypeOK /\ PcInv /\ LinesConserved /\ WriterInv /\ DisposalInv /\ NoLostWakeup

-----------------------------------------------------------------------------

LEMMA InitIInv == Init => IInv
<1> SUFFICES ASSUME Init PROVE IInv
  OBVIOUS
<1>1. writerPc \in {"wait", "done"}
  BY DEF Init
<1>2. TypeOK
  <2>1. enabled \in BOOLEAN /\ closing \in BOOLEAN /\ semaphoreDisposed \in BOOLEAN
        /\ cancelled \in BOOLEAN /\ disposed \in BOOLEAN /\ timedOut \in BOOLEAN /\ ioFailed \in BOOLEAN
    BY Zenon DEF Init
  <2>. QED
    BY <1>1, <2>1, FileLoggerAssumption DEF Init, TypeOK
<1>3. PcInv /\ LinesConserved
  BY FileLoggerAssumption DEF Init, PcInv, LinesConserved, InFlight
<1>4. WriterInv /\ DisposalInv
  BY <1>1 DEF Init, WriterInv, WriterSurvivesDispose, DisposalInv, DisposeOnce, Teardown
<1>5. NoLostWakeup
  BY DEF Init, NoLostWakeup
<1>. QED
  BY <1>2, <1>3, <1>4, <1>5 DEF IInv

\* A logging thread.
LEMMA LogIInv == ASSUME NEW t \in Loggers PROVE IInv /\ Log(t) => IInv'
<1> SUFFICES ASSUME IInv, Log(t) PROVE IInv'
  OBVIOUS
<1> USE FileLoggerAssumption DEF IInv, TypeOK, Lines, logVars, writerVars, resources, disposeVars, Goto, Current,
       WriterSurvivesDispose, DisposeOnce, Teardown
<1>1. CASE LogEnter(t)
  <2>1. TypeOK'
    BY <1>1 DEF LogEnter
  <2>2. PcInv'
    BY <1>1 DEF LogEnter, PcInv
  <2>3. LinesConserved'
    BY <1>1 DEF LogEnter, LinesConserved, InFlight, PcInv
  <2>4. WriterInv' /\ DisposalInv'
    BY <1>1 DEF LogEnter, WriterInv, DisposalInv, PcInv
  <2>5. NoLostWakeup'
    BY <1>1 DEF LogEnter, NoLostWakeup, DisposalInv, PcInv
  <2>. QED
    BY <2>1, <2>2, <2>3, <2>4, <2>5
<1>2. CASE LogEnqueue(t)
  <2>1. TypeOK'
    <3>1. Current(t) \in Lines
      BY <1>2 DEF LogEnqueue, PcInv
    <3>. QED
      BY <1>2, <3>1 DEF LogEnqueue
  <2>2. PcInv'
    BY <1>2 DEF LogEnqueue, PcInv
  <2>3. LinesConserved'
    BY <1>2 DEF LogEnqueue, LinesConserved, InFlight, PcInv
  <2>4. WriterInv' /\ DisposalInv'
    BY <1>2 DEF LogEnqueue, WriterInv, DisposalInv, PcInv
  <2>5. NoLostWakeup'
    BY <1>2 DEF LogEnqueue, NoLostWakeup, DisposalInv, PcInv
  <2>. QED
    BY <2>1, <2>2, <2>3, <2>4, <2>5
<1>3. CASE LogRelease(t)
  <2>1. TypeOK'
    BY <1>3 DEF LogRelease
  <2>2. PcInv'
    BY <1>3 DEF LogRelease, PcInv
  <2>3. LinesConserved'
    BY <1>3 DEF LogRelease, LinesConserved, InFlight, PcInv
  <2>4. WriterInv' /\ DisposalInv'
    BY <1>3 DEF LogRelease, WriterInv, DisposalInv, PcInv
  <2>5. NoLostWakeup'
    BY <1>3 DEF LogRelease, NoLostWakeup, DisposalInv, PcInv
  <2>. QED
    BY <2>1, <2>2, <2>3, <2>4, <2>5
<1>. QED
  BY <1>1, <1>2, <1>3 DEF Log

\* The writing task.
LEMMA WriterIInv == IInv /\ (Writer \/ WriterFails) => IInv'
<1> SUFFICES ASSUME IInv, Writer \/ WriterFails PROVE IInv'
  OBVIOUS
<1> USE FileLoggerAssumption DEF IInv, TypeOK, Lines, logVars, writerVars, resources, disposeVars, Goto,
       WriterSurvivesDispose, DisposeOnce, Teardown
<1>1. CASE WriterWait
  <2>1. TypeOK'
    BY <1>1 DEF WriterWait
  <2>2. PcInv'
    BY <1>1 DEF WriterWait, PcInv
  <2>3. LinesConserved'
    BY <1>1 DEF WriterWait, LinesConserved, InFlight, PcInv
  <2>4. WriterInv' /\ DisposalInv'
    BY <1>1 DEF WriterWait, WriterInv, DisposalInv, PcInv
  <2>5. NoLostWakeup'
    BY <1>1 DEF WriterWait, NoLostWakeup, DisposalInv, PcInv
  <2>. QED
    BY <2>1, <2>2, <2>3, <2>4, <2>5
<1>2. CASE WriterDequeue
  <2>1. TypeOK'
    BY <1>2 DEF WriterDequeue, TakeLine
  <2>2. PcInv'
    BY <1>2 DEF WriterDequeue, TakeLine, PcInv
  <2>3. LinesConserved'
    <3>1. hand = {}
      BY <1>2 DEF WriterDequeue, WriterInv
    <3>2. CASE queue = {}
      BY <1>2, <3>2 DEF WriterDequeue, TakeLine, LinesConserved, InFlight
    <3>3. CASE queue # {}
      <4>1. PICK e \in queue :
              /\ queue' = queue \ {e}
              /\ hand' \cup lost' = lost \cup {e}
              /\ hand' \cap lost' = {}
              /\ written' = written /\ logged' = logged /\ pc' = pc
        BY <1>2, <3>1, <3>3 DEF WriterDequeue, TakeLine, LinesConserved
      <4>. QED
        BY <3>1, <4>1 DEF LinesConserved, InFlight
    <3>. QED
      BY <3>2, <3>3
  <2>4. WriterInv' /\ DisposalInv'
    BY <1>2 DEF WriterDequeue, TakeLine, WriterInv, DisposalInv, PcInv
  <2>5. NoLostWakeup'
    BY <1>2 DEF WriterDequeue, TakeLine, NoLostWakeup, DisposalInv, PcInv
  <2>. QED
    BY <2>1, <2>2, <2>3, <2>4, <2>5
<1>3. CASE WriterFlush
  <2>1. TypeOK'
    BY <1>3 DEF WriterFlush, TakeLine
  <2>2. PcInv'
    BY <1>3 DEF WriterFlush, TakeLine, PcInv
  <2>3. LinesConserved'
    <3>1. hand = {}
      BY <1>3 DEF WriterFlush, WriterInv
    <3>2. CASE queue = {}
      BY <1>3, <3>2 DEF WriterFlush, TakeLine, LinesConserved, InFlight
    <3>3. CASE queue # {}
      <4>1. PICK e \in queue :
              /\ queue' = queue \ {e}
              /\ hand' \cup lost' = lost \cup {e}
              /\ hand' \cap lost' = {}
              /\ written' = written /\ logged' = logged /\ pc' = pc
        BY <1>3, <3>1, <3>3 DEF WriterFlush, TakeLine, LinesConserved
      <4>. QED
        BY <3>1, <4>1 DEF LinesConserved, InFlight
    <3>. QED
      BY <3>2, <3>3
  <2>4. WriterInv' /\ DisposalInv'
    BY <1>3 DEF WriterFlush, TakeLine, WriterInv, DisposalInv, PcInv
  <2>5. NoLostWakeup'
    BY <1>3 DEF WriterFlush, TakeLine, NoLostWakeup, DisposalInv, PcInv
  <2>. QED
    BY <2>1, <2>2, <2>3, <2>4, <2>5
<1>4. CASE WriterWrite
  <2>1. TypeOK'
    BY <1>4 DEF WriterWrite
  <2>2. PcInv'
    BY <1>4 DEF WriterWrite, PcInv
  <2>3. LinesConserved'
    BY <1>4 DEF WriterWrite, LinesConserved, InFlight, PcInv
  <2>4. WriterInv' /\ DisposalInv'
    BY <1>4 DEF WriterWrite, WriterInv, DisposalInv, PcInv
  <2>5. NoLostWakeup'
    BY <1>4 DEF WriterWrite, NoLostWakeup, DisposalInv, PcInv
  <2>. QED
    BY <2>1, <2>2, <2>3, <2>4, <2>5
<1>5. CASE WriterFails
  <2>1. TypeOK'
    BY <1>5 DEF WriterFails
  <2>2. PcInv'
    BY <1>5 DEF WriterFails, PcInv
  <2>3. LinesConserved'
    BY <1>5 DEF WriterFails, LinesConserved, InFlight, PcInv
  <2>4. WriterInv' /\ DisposalInv'
    BY <1>5 DEF WriterFails, WriterInv, DisposalInv, PcInv
  <2>5. NoLostWakeup'
    BY <1>5 DEF WriterFails, NoLostWakeup, DisposalInv, PcInv
  <2>. QED
    BY <2>1, <2>2, <2>3, <2>4, <2>5
<1>. QED
  BY <1>1, <1>2, <1>3, <1>4, <1>5 DEF Writer

\* A disposing thread.
LEMMA DisposeIInv == ASSUME NEW d \in Disposers PROVE IInv /\ Dispose(d) => IInv'
<1> SUFFICES ASSUME IInv, Dispose(d) PROVE IInv'
  OBVIOUS
<1> USE FileLoggerAssumption DEF IInv, TypeOK, Lines, logVars, writerVars, resources, disposeVars, Goto,
       WriterSurvivesDispose, DisposeOnce, Teardown
<1>1. CASE DisposeEnter(d)
  <2>1. TypeOK'
    BY <1>1 DEF DisposeEnter
  <2>2. PcInv'
    BY <1>1 DEF DisposeEnter, PcInv
  <2>3. LinesConserved'
    BY <1>1 DEF DisposeEnter, LinesConserved, InFlight, PcInv
  <2>4. WriterInv' /\ DisposalInv'
    BY <1>1 DEF DisposeEnter, WriterInv, DisposalInv, PcInv
  <2>5. NoLostWakeup'
    BY <1>1 DEF DisposeEnter, NoLostWakeup, DisposalInv, PcInv
  <2>. QED
    BY <2>1, <2>2, <2>3, <2>4, <2>5
<1>2. CASE DisposeGate(d)
  <2>1. TypeOK'
    BY <1>2 DEF DisposeGate
  <2>2. PcInv'
    BY <1>2 DEF DisposeGate, PcInv
  <2>3. LinesConserved'
    BY <1>2 DEF DisposeGate, LinesConserved, InFlight, PcInv
  <2>4. WriterInv' /\ DisposalInv'
    BY <1>2 DEF DisposeGate, WriterInv, DisposalInv, PcInv
  <2>5. NoLostWakeup'
    BY <1>2 DEF DisposeGate, NoLostWakeup, DisposalInv, PcInv
  <2>. QED
    BY <2>1, <2>2, <2>3, <2>4, <2>5
<1>3. CASE DisposeCancel(d)
  <2>1. TypeOK'
    BY <1>3 DEF DisposeCancel
  <2>2. PcInv'
    BY <1>3 DEF DisposeCancel, PcInv
  <2>3. LinesConserved'
    BY <1>3 DEF DisposeCancel, LinesConserved, InFlight, PcInv
  <2>4. WriterInv' /\ DisposalInv'
    BY <1>3 DEF DisposeCancel, WriterInv, DisposalInv, PcInv
  <2>5. NoLostWakeup'
    BY <1>3 DEF DisposeCancel, NoLostWakeup, DisposalInv, PcInv
  <2>. QED
    BY <2>1, <2>2, <2>3, <2>4, <2>5
<1>4. CASE DisposeWake(d)
  <2>1. TypeOK'
    BY <1>4 DEF DisposeWake
  <2>2. PcInv'
    BY <1>4 DEF DisposeWake, PcInv
  <2>3. LinesConserved'
    BY <1>4 DEF DisposeWake, LinesConserved, InFlight, PcInv
  <2>4. WriterInv' /\ DisposalInv'
    BY <1>4 DEF DisposeWake, WriterInv, DisposalInv, PcInv
  <2>5. NoLostWakeup'
    BY <1>4 DEF DisposeWake, NoLostWakeup, DisposalInv, PcInv
  <2>. QED
    BY <2>1, <2>2, <2>3, <2>4, <2>5
<1>5. CASE DisposeAwait(d)
  <2>1. TypeOK'
    <3>1. timedOut' \in BOOLEAN
      BY <1>5 DEF DisposeAwait
    <3>2. pc' = [pc EXCEPT ![d] = "close"] \/ pc' = [pc EXCEPT ![d] = "threw"]
      BY <1>5 DEF DisposeAwait
    <3>3. UNCHANGED <<logVars, writerVars, resources, disposed, queue, semaphore>>
      BY <1>5 DEF DisposeAwait
    <3>. QED
      BY <3>1, <3>2, <3>3
  <2>2. PcInv'
    BY <1>5 DEF DisposeAwait, PcInv
  <2>3. LinesConserved'
    BY <1>5 DEF DisposeAwait, LinesConserved, InFlight, PcInv
  <2>4. WriterInv' /\ DisposalInv'
    BY <1>5 DEF DisposeAwait, WriterInv, DisposalInv, PcInv
  <2>5. NoLostWakeup'
    BY <1>5 DEF DisposeAwait, NoLostWakeup, DisposalInv, PcInv
  <2>. QED
    BY <2>1, <2>2, <2>3, <2>4, <2>5
<1>6. CASE DisposeStream(d)
  <2>1. TypeOK'
    BY <1>6 DEF DisposeStream
  <2>2. PcInv'
    BY <1>6 DEF DisposeStream, PcInv
  <2>3. LinesConserved'
    BY <1>6 DEF DisposeStream, LinesConserved, InFlight, PcInv
  <2>4. WriterInv' /\ DisposalInv'
    BY <1>6 DEF DisposeStream, WriterInv, DisposalInv, PcInv
  <2>5. NoLostWakeup'
    BY <1>6 DEF DisposeStream, NoLostWakeup, DisposalInv, PcInv
  <2>. QED
    BY <2>1, <2>2, <2>3, <2>4, <2>5
<1>7. CASE DisposeSemaphore(d)
  <2>1. TypeOK'
    BY <1>7 DEF DisposeSemaphore
  <2>2. PcInv'
    BY <1>7 DEF DisposeSemaphore, PcInv
  <2>3. LinesConserved'
    BY <1>7 DEF DisposeSemaphore, LinesConserved, InFlight, PcInv
  <2>4. WriterInv' /\ DisposalInv'
    BY <1>7 DEF DisposeSemaphore, WriterInv, DisposalInv, PcInv
  <2>5. NoLostWakeup'
    BY <1>7 DEF DisposeSemaphore, NoLostWakeup, DisposalInv, PcInv
  <2>. QED
    BY <2>1, <2>2, <2>3, <2>4, <2>5
<1>. QED
  BY <1>1, <1>2, <1>3, <1>4, <1>5, <1>6, <1>7 DEF Dispose

LEMMA NextIInv == IInv /\ [Next]_vars => IInv'
<1> SUFFICES ASSUME IInv, [Next]_vars PROVE IInv'
  OBVIOUS
<1>1. CASE \E t \in Loggers : Log(t)
  BY <1>1, LogIInv
<1>2. CASE Writer \/ WriterFails
  BY <1>2, WriterIInv
<1>3. CASE \E d \in Disposers : Dispose(d)
  BY <1>3, DisposeIInv
<1>4. CASE UNCHANGED vars
  BY <1>4 DEF vars, logVars, writerVars, resources, disposeVars, IInv, TypeOK, PcInv, LinesConserved,
       InFlight, WriterInv, WriterSurvivesDispose, DisposalInv, DisposeOnce, NoLostWakeup
<1>. QED
  BY <1>1, <1>2, <1>3, <1>4 DEF Next

-----------------------------------------------------------------------------

\* The inductive invariant holds in every reachable state of FileLogger.
THEOREM Invariance == Spec => []IInv
BY InitIInv, NextIInv, PTL DEF Spec

\* The fields of FileLogger keep their types.
THEOREM TypeCorrect == Spec => []TypeOK
<1>1. IInv => TypeOK
  BY DEF IInv
<1>. QED
  BY <1>1, Invariance, PTL

\* A line passed to FileLogger.Log is never duplicated and never disappears
\* untraced on its way through the queue and the writing task.
THEOREM LinesKept == Spec => []LinesConserved
<1>1. IInv => LinesConserved
  BY DEF IInv
<1>. QED
  BY <1>1, Invariance, PTL

\* The writing task never waits on a non-empty queue with no release to come:
\* releasing after the enqueue is enough for any number of threads.
THEOREM WakeupKept == Spec => []NoLostWakeup
<1>1. IInv => NoLostWakeup
  BY DEF IInv
<1>. QED
  BY <1>1, Invariance, PTL

\* Dispose takes the stream and the semaphore down under a live writing task
\* only after its wait timed out.
THEOREM WriterSurvives == Spec => []WriterSurvivesDispose
<1>1. IInv => WriterSurvivesDispose
  BY DEF IInv, WriterInv
<1>. QED
  BY <1>1, Invariance, PTL

\* One caller of Dispose and DisposeAsync runs the teardown, and it throws
\* only for a failed or a stuck write.
THEOREM DisposedOnce == Spec => []DisposeOnce
<1>1. IInv => DisposeOnce
  BY DEF IInv, DisposalInv
<1>. QED
  BY <1>1, Invariance, PTL

-----------------------------------------------------------------------------
(* The file logger implements the safety part of AbstractLogger. *)

\* Who disposes has closed the logger in front, and who writes has a line.
ClosingInv ==
  /\ disposed => closing
  /\ \A d \in Disposers : pc[d] = "gate" => closing
  /\ writerPc \in {"write", "flushWrite"} => \E e \in Lines : hand = {e}

LEMMA ClosingInvariant == Spec => []ClosingInv
<1>1. Init => ClosingInv
  BY FileLoggerAssumption DEF Init, ClosingInv
<1>2. IInv /\ ClosingInv /\ [Next]_vars => ClosingInv'
  <2> SUFFICES ASSUME IInv, ClosingInv, [Next]_vars PROVE ClosingInv'
    OBVIOUS
  <2> USE FileLoggerAssumption DEF ClosingInv, IInv, TypeOK, logVars, writerVars, resources, disposeVars, Goto
  <2>1. ASSUME NEW t \in Loggers, Log(t) PROVE ClosingInv'
    BY <2>1 DEF Log, LogEnter, LogEnqueue, LogRelease
  <2>2. CASE WriterWait \/ WriterWrite \/ WriterFails
    BY <2>2 DEF WriterWait, WriterWrite, WriterFails
  <2>3. CASE WriterDequeue \/ WriterFlush
    BY <2>3 DEF WriterDequeue, WriterFlush, TakeLine
  <2>4. ASSUME NEW d \in Disposers, Dispose(d) PROVE ClosingInv'
    <3>1. CASE DisposeEnter(d) \/ DisposeGate(d)
      BY <3>1 DEF DisposeEnter, DisposeGate
    <3>2. CASE DisposeCancel(d) \/ DisposeWake(d) \/ DisposeAwait(d)
      BY <3>2 DEF DisposeCancel, DisposeWake, DisposeAwait
    <3>3. CASE DisposeStream(d) \/ DisposeSemaphore(d)
      BY <3>3 DEF DisposeStream, DisposeSemaphore
    <3>. QED
      BY <2>4, <3>1, <3>2, <3>3 DEF Dispose
  <2>5. CASE UNCHANGED vars
    BY <2>5 DEF vars
  <2>. QED
    BY <2>1, <2>2, <2>3, <2>4, <2>5 DEF Next, Writer
<1>. QED
  BY <1>1, <1>2, Invariance, PTL DEF Spec

\* The lines the threads have begun to log, as the refinement mapping sees them.
Accepted == {l \in Lines : l[2] <= logged[l[1]]}

\* A line queued or in hand has been accepted and not settled.
LEMMA OpenLines == ASSUME IInv PROVE queue \cup hand \subseteq Accepted \ (written \cup lost)
<1> USE FileLoggerAssumption DEF IInv, TypeOK, Lines, Accepted, LinesConserved
<1>1. ASSUME NEW t \in Loggers, NEW n \in 1..MaxLines, <<t, n>> \in queue \cup hand
      PROVE  <<t, n>> \in Accepted \ (written \cup lost)
  <2>1. n <= logged[t]
    BY <1>1
  <2>. QED
    BY <1>1, <2>1
<1>2. queue \cup hand \subseteq Loggers \X (1..MaxLines)
  OBVIOUS
<1>. QED
  BY <1>1, <1>2

\* Entering Log accepts a line; enqueueing and releasing are invisible.
LEMMA LogRefines ==
  ASSUME NEW t \in Loggers, IInv, Log(t)
  PROVE  [Abstract!Next]_(Abstract!vars)
<1> USE DEF logVars, writerVars, resources, disposeVars
<1>1. CASE LogEnter(t)
  <2>0. PICK e : e = <<t, logged[t] + 1>>
    OBVIOUS
  <2>1. /\ logged \in [Loggers -> 0..MaxLines] /\ logged[t] < MaxLines
        /\ logged' = [logged EXCEPT ![t] = logged[t] + 1]
    BY <1>1 DEF LogEnter, IInv, TypeOK
  <2>2. e \in Lines /\ e \notin Accepted
    BY <2>0, <2>1, FileLoggerAssumption DEF Accepted, Lines
  <2>3. ASSUME NEW u \in Loggers, NEW n \in 1..MaxLines
        PROVE  n <= logged'[u] <=> n <= logged[u] \/ <<u, n>> = e
    BY <2>0, <2>1, FileLoggerAssumption
  <2>4. \A f \in Lines : f[2] <= logged'[f[1]] <=> f[2] <= logged[f[1]] \/ f = e
    BY <2>3 DEF Lines
  <2>5. Accepted' = Accepted \cup {e}
    BY <2>2, <2>4 DEF Accepted
  <2>6. UNCHANGED <<written, lost, closing, ioFailed>>
    BY <1>1 DEF LogEnter
  <2>7. Abstract!Accept(e)
    BY <2>2, <2>5, <2>6 DEF Abstract!Accept, Accepted
  <2>. QED
    BY <2>2, <2>7 DEF Abstract!Next
<1>2. CASE LogEnqueue(t) \/ LogRelease(t)
  BY <1>2 DEF LogEnqueue, LogRelease, Abstract!vars
<1>. QED
  BY <1>1, <1>2 DEF Log

\* The writing task writes a line, loses one once it may, or is invisible.
LEMMA WriterRefines ==
  ASSUME IInv, ClosingInv, Writer \/ WriterFails
  PROVE  [Abstract!Next]_(Abstract!vars)
<1> USE DEF logVars, writerVars, resources, disposeVars
<1>1. CASE WriterWait
  BY <1>1 DEF WriterWait, Abstract!vars
<1>2. CASE WriterDequeue \/ WriterFlush
  <2>1. UNCHANGED <<logged, written, closing, ioFailed>>
    BY <1>2 DEF WriterDequeue, WriterFlush
  <2>2. CASE lost' = lost
    BY <2>1, <2>2 DEF Abstract!vars
  <2>3. CASE lost' # lost
    <3>1. PICK e \in queue : disposed /\ lost' = lost \cup {e}
      BY <1>2, <2>3 DEF WriterDequeue, WriterFlush, TakeLine
    <3>2. e \in Lines /\ e \in Accepted \ (written \cup lost) /\ closing
      BY <3>1, OpenLines DEF Accepted, ClosingInv
    <3>3. Abstract!Lose(e)
      BY <2>1, <3>1, <3>2 DEF Abstract!Lose, Abstract!Open, Accepted
    <3>. QED
      BY <3>2, <3>3 DEF Abstract!Next
  <2>. QED
    BY <2>2, <2>3
<1>3. CASE WriterWrite
  <2>1. PICK e \in Lines : hand = {e}
    BY <1>3 DEF WriterWrite, ClosingInv
  <2>2. e \in Accepted \ (written \cup lost)
    BY <2>1, OpenLines
  <2>3. \/ written' = written \cup {e} /\ lost' = lost
        \/ stream # "open" /\ lost' = lost \cup {e} /\ written' = written
    BY <1>3, <2>1 DEF WriterWrite
  <2>4. stream # "open" => closing
    BY DEF IInv, DisposalInv, ClosingInv
  <2>5. UNCHANGED <<logged, closing, ioFailed>>
    BY <1>3 DEF WriterWrite
  <2>6. Abstract!Write(e) \/ Abstract!Lose(e)
    BY <2>2, <2>3, <2>4, <2>5 DEF Abstract!Write, Abstract!Lose, Abstract!Open, Accepted
  <2>. QED
    BY <2>6 DEF Abstract!Next
<1>4. CASE WriterFails
  <2>1. hand \subseteq Accepted \ (written \cup lost)
    BY OpenLines
  <2>2. lost' = lost \cup hand /\ ioFailed' /\ UNCHANGED <<logged, written, closing>>
    BY <1>4 DEF WriterFails
  <2>3. Abstract!Close
    BY <2>1, <2>2 DEF Abstract!Close, Abstract!Open, Accepted
  <2>. QED
    BY <2>3 DEF Abstract!Next
<1>. QED
  BY <1>1, <1>2, <1>3, <1>4 DEF Writer

\* The first Dispose closes the logger; the rest of it is invisible.
LEMMA DisposeRefines ==
  ASSUME NEW d \in Disposers, Dispose(d)
  PROVE  [Abstract!Next]_(Abstract!vars)
<1> USE DEF logVars, writerVars, resources, disposeVars
<1>1. CASE DisposeEnter(d)
  <2>1. closing' /\ UNCHANGED <<logged, written, lost, ioFailed>>
    BY <1>1 DEF DisposeEnter
  <2>2. {} \in SUBSET Abstract!Open /\ lost' = lost \cup {}
    BY <2>1
  <2>3. Abstract!Close
    BY <2>1, <2>2 DEF Abstract!Close
  <2>. QED
    BY <2>3 DEF Abstract!Next
<1>2. CASE DisposeGate(d) \/ DisposeCancel(d) \/ DisposeWake(d) \/ DisposeAwait(d)
  BY <1>2 DEF DisposeGate, DisposeCancel, DisposeWake, DisposeAwait, Abstract!vars
<1>3. CASE DisposeStream(d) \/ DisposeSemaphore(d)
  BY <1>3 DEF DisposeStream, DisposeSemaphore, Abstract!vars
<1>. QED
  BY <1>1, <1>2, <1>3 DEF Dispose

\* FileLogger implements the safety part of AbstractLogger: for any number of
\* threads and lines, Log, the writing task and Dispose write an accepted line at
\* most once, and lose none before disposal has begun or a write has failed.
THEOREM Refinement == Spec => Abstract!Safety
<1>1. Init => Abstract!Init
  <2>1. ASSUME Init PROVE Accepted = {}
    BY <2>1, FileLoggerAssumption DEF Init, Accepted, Lines
  <2>2. ASSUME Init PROVE written = {} /\ lost = {} /\ (closing \/ ioFailed) = FALSE
    BY <2>2 DEF Init
  <2>. QED
    BY <2>1, <2>2 DEF Abstract!Init, Accepted
<1>2. IInv /\ ClosingInv /\ [Next]_vars => [Abstract!Next]_(Abstract!vars)
  <2> SUFFICES ASSUME IInv, ClosingInv, [Next]_vars PROVE [Abstract!Next]_(Abstract!vars)
    OBVIOUS
  <2>1. CASE \E t \in Loggers : Log(t)
    BY <2>1, LogRefines
  <2>2. CASE Writer \/ WriterFails
    BY <2>2, WriterRefines
  <2>3. CASE \E d \in Disposers : Dispose(d)
    BY <2>3, DisposeRefines
  <2>4. CASE UNCHANGED vars
    BY <2>4 DEF vars, logVars, writerVars, Abstract!vars
  <2>. QED
    BY <2>1, <2>2, <2>3, <2>4 DEF Next
<1>. QED
  BY <1>1, <1>2, Invariance, ClosingInvariant, PTL DEF Spec, Abstract!Safety

=============================================================================
