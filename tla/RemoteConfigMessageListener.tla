--------------------- MODULE RemoteConfigMessageListener ---------------------
(***************************************************************************)
(* CentralConfiguration with the adapter that feeds it: threads of the     *)
(* OpAMP client deliver remote configuration messages to                   *)
(* RemoteConfigMessageListener, which looks for the "elastic" entry,       *)
(* parses its body and calls the subscribers. Configurations are the texts *)
(* the parser extracts.                                                    *)
(*                                                                         *)
(* There is one subscriber, CentralConfiguration's. StartClient adds it    *)
(* before it starts the client, so the copying of the subscriber array in  *)
(* Subscribe meets neither a second Subscribe nor a delivery.              *)
(***************************************************************************)
EXTENDS CentralConfiguration, CentralConfigJsonParser

CONSTANTS
  Documents, \* the documents a server may send
  Blanks     \* the numbers of blanks it puts on both sides of a colon

VARIABLES
  mapped,    \* the text each delivering thread is about to pass to the subscriber
  announced, \* history: the levels messages have asked for
  owed       \* history: a message with a complete body asked for one

listenerVars == <<mapped, announced, owed>>

\* Messages with a text as the body, or with the beginning of it.
MessagesWith(doc, text) ==
  [elastic : BOOLEAN, json : BOOLEAN, document : {doc}, body : {text}, complete : {TRUE}]
  \cup [elastic : {TRUE}, json : {TRUE}, document : {doc},
        body : {SubSeq(text, 1, cut) : cut \in 0..Len(text) - 1}, complete : {FALSE}]

Messages == UNION {MessagesWith(doc, Render(doc, n)) : doc \in Documents, n \in Blanks}

\* The listener looks for the "elastic" entry, the content type and the level.
Extract(m) == IF m.elastic /\ m.json THEN TryParseLogLevel(m.body) ELSE {}

\* What the sender of the message asks for.
Asked(m) == IF m.elastic /\ m.json THEN LogLevelOf(m.document) ELSE {}

\* Messages differ, for what follows, in what is found, asked for, and complete.
Receipts == {[found |-> Extract(m), asked |-> Asked(m), complete |-> m.complete] : m \in Messages}

\* Documents are well formed and Configs holds every level they ask for.
ASSUME DocumentsAssumption ==
  /\ \A doc \in Documents : IsDocument(doc) /\ LogLevelOf(doc) \subseteq Configs
  /\ Blanks \subseteq Nat

ListenerInit ==
  /\ Init
  /\ mapped = [h \in Deliverers |-> NoConfig]
  /\ announced = {}
  /\ owed = FALSE

\* HandleMessage up to the call of the subscribers: nothing found, nothing done.
ReceiveMessage(h) ==
  /\ workerPc # "none"
  /\ delivererPc[h] = "idle"
  /\ mapped[h] = NoConfig
  /\ \E r \in Receipts :
       /\ announced' = announced \cup r.asked
       /\ owed' = (owed \/ (r.complete /\ r.asked # {}))
       /\ IF r.found = {} THEN UNCHANGED mapped
          ELSE \E level \in r.found : mapped' = [mapped EXCEPT ![h] = level]
  /\ UNCHANGED vars

\* The call of the subscriber: the first one to get there sets the configuration
\* and goes on to complete the task, any other call does nothing.
NotifySubscriber(h) ==
  /\ mapped[h] # NoConfig
  /\ mapped' = [mapped EXCEPT ![h] = NoConfig]
  /\ \/ HandleMessage(h, mapped[h])
     \/ initialConfig # NoConfig /\ UNCHANGED vars
  /\ UNCHANGED <<announced, owed>>

ListenerNext ==
  \/ Caller /\ UNCHANGED listenerVars
  \/ CtsFires /\ UNCHANGED listenerVars
  \/ Worker /\ UNCHANGED listenerVars
  \/ \E d \in Disposers : Disposer(d) /\ UNCHANGED listenerVars
  \/ \E h \in Deliverers : \/ ReceiveMessage(h)
                           \/ NotifySubscriber(h)
                           \/ CompleteFirstConfigTask(h) /\ UNCHANGED listenerVars

ListenerSpec == ListenerInit /\ [][ListenerNext]_<<vars, listenerVars>>

\* The fairness of CentralConfiguration: nothing is assumed of deliveries.
ListenerFairSpec == ListenerSpec /\ Fairness

-----------------------------------------------------------------------------
(* Properties. *)

\* What CentralConfiguration takes over is a level some message asked for, also
\* when bodies are cut off, and a complete message that asks for one is enough:
\* once no thread is between listener and subscriber, a configuration is there.
ServerLevelReceived ==
  /\ initialConfig # NoConfig => initialConfig \in announced
  /\ owed => initialConfig # NoConfig \/ \E h \in Deliverers : mapped[h] # NoConfig

=============================================================================
