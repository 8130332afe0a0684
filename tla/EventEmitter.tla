---------------------------- MODULE EventEmitter -----------------------------
(***************************************************************************)
(* The lifecycle events sent to Kafka. Diagnostic events go through a      *)
(* bounded queue that one drain task empties; durable ones are sent while  *)
(* the caller waits, and the caller stamps its marker on success. The      *)
(* broker is connected in the background; the queue is flushed on          *)
(* shutdown, when everything that produces events has been told to stop.   *)
(***************************************************************************)
EXTENDS Integers, Sequences, SequencesExt, FiniteSetsExt

CONSTANTS
  EventKeys,         \* network and deployment of an event
  KeyHash,           \* [EventKeys -> FNV-1a hash of the partition key]
  TopicPartitions,   \* partitions the topic really has
  EventQueue,        \* event_queue_capacity
  MaxEvents,         \* bound on diagnostic events
  Markers,           \* agreements with a durable event to emit
  MarkerKey          \* [Markers -> EventKeys]

ASSUME EventEmitterAssumption ==
  /\ {TopicPartitions, EventQueue, MaxEvents} \subseteq Nat \ {0}
  /\ KeyHash \in [EventKeys -> Nat]
  /\ MarkerKey \in [Markers -> EventKeys]
  /\ Markers \cap Nat = {}   \* their events have other ids than the diagnostic ones

(* KafkaConfig, as far as a connection depends on it.                      *)
KafkaConfs ==
  [partitions : 0 .. TopicPartitions + 1,
   sasl       : {"none", "PLAIN", "unknown"},
   login      : BOOLEAN,               \* sasl_username and sasl_password are set
   tls        : {"off", "roots", "caFile", "noCaFile"}]

VARIABLES
  emConf,     \* the Kafka configuration, or Disabled
  emHandle,   \* whether the broker handle is there
  emQueue,    \* diagnostic events in the channel: [id, key]
  emDrain,    \* the drain task: [at, event]
  emPermit,   \* the permit of `shutdown`
  emDropped,  \* `dropped`
  emFailed,   \* diagnostic events whose send failed, ids
  emNext,     \* id of the next diagnostic event
  emTopic,    \* [partition -> what the broker has, in order]
  emMarker,   \* [durable event -> "unset", "sending", "set"]
  emSource,   \* who produces events: "run", "left" (a stop timed out) or "stopped"
  emFlush     \* flush_diagnostics: "no", "waits" or "ended"

emVars == <<emConf, emHandle, emQueue, emDrain, emPermit, emDropped, emFailed, emNext,
            emTopic, emMarker, emSource, emFlush>>

Disabled == [partitions |-> 0, sasl |-> "none", login |-> FALSE, tls |-> "off"]
Streaming == emConf # Disabled

DiagnosticEvents == [id : 1 .. MaxEvents, key : EventKeys]
NoEvent == [id |-> 0]
At(where, event) == [at |-> where, event |-> event]

EmitterTypeOK ==
  /\ emConf \in KafkaConfs
  /\ emHandle \in BOOLEAN /\ emPermit \in BOOLEAN
  /\ emQueue \in Seq(DiagnosticEvents) /\ Len(emQueue) <= EventQueue
  /\ emDrain \in [at : {"select", "final", "closing", "done"}, event : {NoEvent}]
                   \cup [at : {"wait", "send", "last"}, event : DiagnosticEvents]
  /\ emDropped \in 0 .. MaxEvents
  /\ emFailed \subseteq 1 .. MaxEvents
  /\ emNext \in 1 .. MaxEvents + 1
  /\ emTopic \in [0 .. TopicPartitions - 1 ->
                     Seq(DiagnosticEvents \cup [id : Markers, key : EventKeys])]
  /\ emMarker \in [Markers -> {"unset", "sending", "set"}]
  /\ emSource \in {"run", "left", "stopped"}
  /\ emFlush \in {"no", "waits", "ended"}

(* create_subgraph_indexing_agreements_events_emitter.                     *)
EmitterInit ==
  /\ LET conf(n, sasl, login) ==
           [partitions |-> n, sasl |-> sasl, login |-> login, tls |-> "roots"]
     IN emConf \in {Disabled, conf(TopicPartitions, "PLAIN", TRUE),
                    conf(TopicPartitions, "PLAIN", FALSE),
                    conf(TopicPartitions + 1, "none", FALSE)}
  /\ emHandle = FALSE /\ emPermit = FALSE
  /\ emQueue = <<>>
  /\ emDrain = At(IF Streaming THEN "select" ELSE "done", NoEvent)
  /\ emDropped = 0 /\ emFailed = {} /\ emNext = 1
  /\ emTopic = [p \in 0 .. TopicPartitions - 1 |-> <<>>]
  /\ emMarker = [d \in Markers |-> "unset"]
  /\ emSource = "run" /\ emFlush = "no"

-----------------------------------------------------------------------------
(* The broker.                                                             *)

SaslBuilds(conf) == conf.sasl = "none" \/ (conf.sasl = "PLAIN" /\ conf.login)
TlsBuilds(conf)  == conf.tls # "noCaFile"

(* KafkaProducer::new: a configuration that can ever connect.              *)
Connects(conf) ==
  /\ conf.partitions # 0
  /\ SaslBuilds(conf) /\ TlsBuilds(conf)
  /\ conf.partitions <= TopicPartitions

(* spawn_connect_task: an attempt succeeds; a failed one is tried again.   *)
Connect ==
  /\ Streaming /\ ~emHandle /\ Connects(emConf)
  /\ emHandle' = TRUE
  /\ UNCHANGED <<emConf, emQueue, emDrain, emPermit, emDropped, emFailed, emNext, emTopic,
                 emMarker, emSource, emFlush>>

(* KafkaProducer::partition_for_key.                                       *)
PartitionForKey(key) == KeyHash[key] % emConf.partitions

(* KafkaProducer::send: the broker has the record, has it but answers too  *)
(* late, or does not have it. A copy of a record that is there already     *)
(* (a durable event sent again) is left out: the consumers remove it.      *)
SendOutcomes == [stored : BOOLEAN, ok : BOOLEAN] \ {[stored |-> FALSE, ok |-> TRUE]}
Sent(event, outcome) ==
  emTopic' = IF outcome.stored /\ event \notin Range(emTopic[PartitionForKey(event.key)])
               THEN [emTopic EXCEPT ![PartitionForKey(event.key)] = Append(@, event)]
               ELSE emTopic

-----------------------------------------------------------------------------
(* Diagnostic events.                                                      *)

(* Mutant: the channel has no bound.                                       *)
RefusesWhenClosed == emDrain.at = "done"

(* try_send fails: the channel is closed or full.                          *)
Refuses == emDrain.at = "done" \/ Len(emQueue) = EventQueue

(* enqueue, for the produce_ methods: no wait, a full or closed queue      *)
(* drops the event.                                                        *)
Enqueue(key) ==
  /\ emSource # "stopped" /\ emNext <= MaxEvents
  /\ emNext' = emNext + 1
  /\ IF Streaming /\ Refuses
       THEN emDropped' = emDropped + 1 /\ UNCHANGED emQueue
       ELSE /\ emQueue' = IF Streaming THEN Append(emQueue, [id |-> emNext, key |-> key])
                                       ELSE emQueue
            /\ UNCHANGED emDropped
  /\ UNCHANGED <<emConf, emHandle, emDrain, emPermit, emFailed, emTopic, emMarker,
                 emSource, emFlush>>

(* Mutant: an event that finds no broker goes back to the end of the       *)
(* queue.                                                                  *)
TakeEventPutsBack ==
  /\ emDrain.at = "select" /\ emQueue # <<>>
  /\ IF emHandle
       THEN emDrain' = At("send", Head(emQueue)) /\ emQueue' = Tail(emQueue)
       ELSE emQueue' = Append(Tail(emQueue), Head(emQueue)) /\ UNCHANGED emDrain
  /\ UNCHANGED <<emConf, emHandle, emPermit, emDropped, emFailed, emNext, emTopic,
                 emMarker, emSource, emFlush>>

(* The drain task: rx.recv() gives an event, and wait_for_producer looks   *)
(* for the handle before it waits.                                         *)
TakeEvent ==
  /\ emDrain.at = "select" /\ emQueue # <<>>
  /\ emDrain' = At(IF emHandle THEN "send" ELSE "wait", Head(emQueue))
  /\ emQueue' = Tail(emQueue)
  /\ UNCHANGED <<emConf, emHandle, emPermit, emDropped, emFailed, emNext, emTopic,
                 emMarker, emSource, emFlush>>

(* wait_for_producer looks again and finds the handle.                     *)
HasProducer ==
  /\ emDrain.at = "wait" /\ emHandle
  /\ emDrain' = [emDrain EXCEPT !.at = "send"]
  /\ UNCHANGED <<emConf, emHandle, emQueue, emPermit, emDropped, emFailed, emNext, emTopic,
                 emMarker, emSource, emFlush>>

(* Mutant: the event the task held is not counted.                         *)
DroppedOnShutdownHeldAside(queue) == Len(queue)

(* The events given up when shutdown comes before the broker: the one held *)
(* and those in the queue.                                                 *)
DroppedOnShutdown(queue) == 1 + Len(queue)

(* wait_for_producer returns None: drop the held event and the rest. The   *)
(* handle may have come since it last looked.                              *)
GiveUpEvent ==
  /\ emDrain.at = "wait" /\ emPermit
  /\ emPermit' = FALSE
  /\ emDropped' = emDropped + DroppedOnShutdown(emQueue)
  /\ emQueue' = <<>>
  /\ emDrain' = At("closing", NoEvent)
  /\ UNCHANGED <<emConf, emHandle, emFailed, emNext, emTopic, emMarker, emSource, emFlush>>

(* send_event: best effort, a failure is logged. It ends by                *)
(* PRODUCE_TIMEOUT.                                                        *)
SendEvent ==
  /\ emDrain.at \in {"send", "last"}
  /\ \E outcome \in SendOutcomes :
       /\ Sent(emDrain.event, outcome)
       /\ emFailed' = IF outcome.ok THEN emFailed ELSE emFailed \cup {emDrain.event.id}
  /\ emDrain' = At(IF emDrain.at = "send" THEN "select" ELSE "final", NoEvent)
  /\ UNCHANGED <<emConf, emHandle, emQueue, emPermit, emDropped, emNext, emMarker,
                 emSource, emFlush>>

(* shutdown.notified() in the drain task's select.                         *)
SeesShutdown ==
  /\ emDrain.at = "select" /\ emPermit
  /\ emPermit' = FALSE
  /\ emDrain' = At("final", NoEvent)
  /\ UNCHANGED <<emConf, emHandle, emQueue, emDropped, emFailed, emNext, emTopic, emMarker,
                 emSource, emFlush>>

(* try_recv and drain_one; the loop ends when it finds the queue empty.    *)
DrainOne ==
  /\ emDrain.at = "final"
  /\ \/ /\ emQueue = <<>>
        /\ emDrain' = At("closing", NoEvent)
        /\ UNCHANGED <<emQueue, emDropped>>
     \/ /\ emQueue # <<>> /\ emHandle
        /\ emDrain' = At("last", Head(emQueue)) /\ emQueue' = Tail(emQueue)
        /\ UNCHANGED emDropped
     \/ /\ emQueue # <<>> /\ ~emHandle
        /\ emDropped' = emDropped + 1 /\ emQueue' = Tail(emQueue)
        /\ UNCHANGED emDrain
  /\ UNCHANGED <<emConf, emHandle, emPermit, emFailed, emNext, emTopic, emMarker, emSource,
                 emFlush>>

(* The task ends and the channel closes, with what came since the last     *)
(* look.                                                                   *)
CloseQueue ==
  /\ emDrain.at = "closing"
  /\ emDrain' = At("done", NoEvent) /\ emQueue' = <<>>
  /\ UNCHANGED <<emConf, emHandle, emPermit, emDropped, emFailed, emNext, emTopic, emMarker,
                 emSource, emFlush>>

-----------------------------------------------------------------------------
(* Durable events.                                                         *)

(* A caller with an unset marker calls an emit_ method.                    *)
StartEmit(d) ==
  /\ emSource # "stopped" /\ emMarker[d] = "unset"
  /\ emMarker' = [emMarker EXCEPT ![d] = "sending"]
  /\ UNCHANGED <<emConf, emHandle, emQueue, emDrain, emPermit, emDropped, emFailed, emNext,
                 emTopic, emSource, emFlush>>

(* Mutant: no broker yet counts as sent.                                   *)
SendDurableOkUnconnected(d, outcome) ==
  IF ~Streaming \/ ~emHandle
    THEN /\ outcome = [stored |-> FALSE, ok |-> FALSE]
         /\ UNCHANGED emTopic
         /\ emMarker' = [emMarker EXCEPT ![d] = "set"]
    ELSE /\ Sent([id |-> d, key |-> MarkerKey[d]], outcome)
         /\ emMarker' = [emMarker EXCEPT ![d] = IF outcome.ok THEN "set" ELSE "unset"]

(* send_durable, and the caller's marker after it.                         *)
SendDurable(d, outcome) ==
  IF ~Streaming \/ ~emHandle
    THEN /\ outcome = [stored |-> FALSE, ok |-> FALSE]
         /\ UNCHANGED emTopic
         /\ emMarker' = [emMarker EXCEPT ![d] = IF Streaming THEN "unset" ELSE "set"]
    ELSE /\ Sent([id |-> d, key |-> MarkerKey[d]], outcome)
         /\ emMarker' = [emMarker EXCEPT ![d] = IF outcome.ok THEN "set" ELSE "unset"]

(* The outcome of the send; a failed one is tried again on the next sweep. *)
EndEmit(d) ==
  /\ emMarker[d] = "sending"
  /\ \E outcome \in SendOutcomes : SendDurable(d, outcome)
  /\ UNCHANGED <<emConf, emHandle, emQueue, emDrain, emPermit, emDropped, emFailed, emNext,
                 emSource, emFlush>>

-----------------------------------------------------------------------------
(* Shutdown.                                                               *)

(* The stop steps before the flush end, in time or not.                    *)
StopSources ==
  /\ emSource = "run"
  /\ \/ emSource' = "stopped" /\ \A d \in Markers : emMarker[d] # "sending"
     \/ emSource' = "left"
  /\ UNCHANGED <<emConf, emHandle, emQueue, emDrain, emPermit, emDropped, emFailed, emNext,
                 emTopic, emMarker, emFlush>>

(* Mutant: only a task that waits for the signal hears it.                 *)
NotifyWaiters == emPermit' = (emDrain.at \in {"select", "wait"})

(* shutdown.notify_one().                                                  *)
NotifyShutdown == emPermit' = TRUE

(* flush_diagnostics: signal the drain task and wait for it.               *)
Flush ==
  /\ emSource # "run" /\ emFlush = "no"
  /\ IF Streaming THEN NotifyShutdown /\ emFlush' = "waits"
                  ELSE UNCHANGED emPermit /\ emFlush' = "ended"
  /\ UNCHANGED <<emConf, emHandle, emQueue, emDrain, emDropped, emFailed, emNext, emTopic,
                 emMarker, emSource>>

(* The drain task has ended, or FLUSH_TIMEOUT passed while it was sending  *)
(* (a send may take PRODUCE_TIMEOUT).                                      *)
FlushEnds ==
  /\ emFlush = "waits"
  /\ emDrain.at \in {"done", "send", "last"}
  /\ emFlush' = "ended"
  /\ UNCHANGED <<emConf, emHandle, emQueue, emDrain, emPermit, emDropped, emFailed, emNext,
                 emTopic, emMarker, emSource>>

DrainStep ==
  \/ TakeEvent \/ HasProducer \/ GiveUpEvent \/ SendEvent
  \/ SeesShutdown \/ DrainOne \/ CloseQueue

EmitterNext ==
  \/ Connect
  \/ \E key \in EventKeys : Enqueue(key)
  \/ DrainStep
  \/ \E d \in Markers : StartEmit(d) \/ EndEmit(d)
  \/ StopSources \/ Flush \/ FlushEnds

EmitterSpec == EmitterInit /\ [][EmitterNext]_emVars

(* Tasks run, sends end by their timeout and a stop step by its own. The   *)
(* broker may never be reachable.                                          *)
EmitterFairSpec ==
  /\ EmitterSpec
  /\ WF_emVars(DrainStep) /\ WF_emVars(StopSources) /\ WF_emVars(Flush)

-----------------------------------------------------------------------------

Stored(event) == \E p \in DOMAIN emTopic : event \in Range(emTopic[p])
StoredIds     == {n \in 1 .. MaxEvents : \E key \in EventKeys : Stored([id |-> n, key |-> key])}

(* EventsCounted. Every diagnostic event is in the queue, with the drain   *)
(* task, sent, logged as failed or in the dropped counter: the shutdown    *)
(* that finds the broker missing counts the one it held too. Only a        *)
(* service that outlived its stop can slip an event in behind the last     *)
(* look at the queue (the drain task, drain_one, enqueue).                 *)
EventsCounted ==
  Streaming /\ emSource # "left" =>
    /\ emDropped = Cardinality((1 .. emNext - 1) \ (StoredIds \cup emFailed
                                 \cup {e.id : e \in Range(emQueue)} \cup {emDrain.event.id}))
    /\ emDrain.at = "done" => emQueue = <<>>

(* KeyOrder. The diagnostic events of a key are in one partition, in the   *)
(* order they were produced, whatever was waiting for the broker, failed   *)
(* or was flushed (partition_for_key, the drain task).                     *)
KeyOrder ==
  \A p, q \in DOMAIN emTopic : \A i \in DOMAIN emTopic[p], j \in DOMAIN emTopic[q] :
    LET a == emTopic[p][i]
        b == emTopic[q][j]
    IN a.key = b.key /\ {a.id, b.id} \cap Markers = {} =>
         p = q /\ (i < j => a.id < b.id)

(* MarkedWasStored. A durable event whose marker is set is on the topic,   *)
(* or events are off (send_durable).                                       *)
MarkedWasStored ==
  \A d \in Markers :
    emMarker[d] = "set" /\ Streaming => Stored([id |-> d, key |-> MarkerKey[d]])

(* FlushHeard. The shutdown signal reaches the drain task wherever it is,  *)
(* a send included, and the task ends with or without a broker             *)
(* (flush_diagnostics, notify_one).                                        *)
FlushHeard == (emFlush # "no") ~> (emDrain.at = "done")
=============================================================================
