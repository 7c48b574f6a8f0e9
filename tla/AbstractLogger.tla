--------------------------- MODULE AbstractLogger ---------------------------
(***************************************************************************)
(* What the distribution promises to code that logs, without threads,      *)
(* queues, activation or timers: an entry handed to Log is written once or *)
(* lost, never both and never neither; nothing is lost before the logger   *)
(* is closing, which is when it is disposed of or when it gives up waiting *)
(* for its configuration. CompositeLogger implements this specification,   *)
(* FileLogger, which may leave lines over, the safety part of it.          *)
(***************************************************************************)

CONSTANT Entries

VARIABLES
  accepted, \* entries handed to Log
  written,  \* entries that reached the log
  lost,     \* entries that never will
  closing   \* the logger may lose entries from now on

vars == <<accepted, written, lost, closing>>

Init ==
  /\ accepted = {}
  /\ written = {}
  /\ lost = {}
  /\ closing = FALSE

Open == accepted \ (written \cup lost)

Accept(e) ==
  /\ e \notin accepted
  /\ accepted' = accepted \cup {e}
  /\ lost' \in {lost} \cup (IF closing THEN {lost \cup {e}} ELSE {})
  /\ UNCHANGED <<written, closing>>

Write(e) ==
  /\ e \in Open
  /\ written' = written \cup {e}
  /\ UNCHANGED <<accepted, lost, closing>>

Lose(e) ==
  /\ closing
  /\ e \in Open
  /\ lost' = lost \cup {e}
  /\ UNCHANGED <<accepted, written, closing>>

\* Some of the entries not yet written go down with the logger.
Close ==
  /\ \E S \in SUBSET Open : lost' = lost \cup S
  /\ closing' = TRUE
  /\ UNCHANGED <<accepted, written>>

Next ==
  \/ \E e \in Entries : Accept(e) \/ Write(e) \/ Lose(e)
  \/ Close

\* No entry is left over.
Settled == \A e \in Entries : e \in accepted ~> e \in written \cup lost

Safety == Init /\ [][Next]_vars

Spec == Safety /\ Settled

=============================================================================
