--------------------------- MODULE IndexPipeline ---------------------------
(***************************************************************************)
(* From the document service to the search index: Publisher                *)
(* (doc-service/mq), the queue "doc.index" of RabbitMQ, Consumer           *)
(* (search-service/consumer) and IndexDocument (search-service/service),   *)
(* which overwrites the document in Elasticsearch.  RabbitMQ and           *)
(* Elasticsearch are modelled from how the code uses them: unacknowledged  *)
(* messages go back to their places in the queue when they are rejected or *)
(* their channel closes, and none outlives the broker, as Publish asks for *)
(* no persistence.                                                         *)
(*                                                                         *)
(* A message is named by its position in sent.                             *)
(***************************************************************************)
EXTENDS Naturals, Sequences

CONSTANTS
  DocIds,
  Refused,      \* documents Elasticsearch will not have, however often it is asked
  Garbage,      \* a body that is no IndexMessage
  MaxMsgs,      \* bound on the messages published
  MaxFaults,    \* bound on errors of Elasticsearch, closed channels, restarts
  MaxConnLosses \* bound on lost connections and restarts of the broker

ASSUME IndexAssumption ==
  /\ Refused \subseteq DocIds /\ Garbage \notin DocIds
  /\ MaxMsgs \in Nat /\ MaxFaults \in Nat /\ MaxConnLosses \in Nat

VARIABLES
  linked,     \* the publisher's connection is up
  sent,       \* sent[i]: the document message i is about, or Garbage
  ready,      \* messages the queue holds for delivery
  conn,       \* the consumer's connection is up
  chan,       \* its channel: "none" (waiting to reconnect), "open" or "dead"
              \* (closed by the broker, and the consumer has yet to notice)
  prefetched, \* deliveries the consumer has yet to take from the channel
  cur,        \* the delivery in hand, or 0
  step,       \* what Consumer does with it next: "take", "index" or "ack"
  index,      \* index[d]: the message Elasticsearch applied last, or 0
  applied,    \* messages Elasticsearch ever applied (history)
  requeued,   \* messages that went back to the queue (history)
  wiped,      \* messages a restart of the broker took away (history)
  faults, losses

queueVars == <<linked, sent, ready>>
consumerVars == <<conn, chan, prefetched, cur, step>>
indexVars == <<index, applied>>
notes == <<requeued, wiped>>
vars == <<queueVars, consumerVars, indexVars, notes, faults, losses>>

MsgIds == 1 .. Len(sent)
Prefetched == {prefetched[i] : i \in 1 .. Len(prefetched)}
InHand == {cur} \ {0}
Oldest(S) == CHOOSE m \in S : \A n \in S : m <= n

\* What the broker waits for an answer to.
Unacked == IF chan = "open" THEN Prefetched \cup InHand ELSE {}

Init ==
  /\ linked = TRUE /\ sent = <<>> /\ ready = {}
  /\ conn = TRUE /\ chan = "none" /\ prefetched = <<>> /\ cur = 0 /\ step = "take"
  /\ index = [d \in DocIds |-> 0] /\ applied = {}
  /\ requeued = {} /\ wiped = {}
  /\ faults = 0 /\ losses = 0

Fault == faults < MaxFaults /\ faults' = faults + 1 /\ UNCHANGED losses
Loss == losses < MaxConnLosses /\ losses' = losses + 1 /\ UNCHANGED faults
NoFault == UNCHANGED <<faults, losses>>

-----------------------------------------------------------------------------
\* Publish.  One that fails is logged and leaves no trace.
Publish(d) ==
  /\ linked /\ Len(sent) < MaxMsgs
  /\ sent' = Append(sent, d)
  /\ ready' = ready \cup {Len(sent) + 1}
  /\ UNCHANGED <<linked, consumerVars, indexVars, notes>> /\ NoFault

\* Another producer's message; nothing in the repository sends one, but the
\* queue is open to any and the consumer is ready for it.
Stray ==
  /\ Len(sent) < MaxMsgs
  /\ sent' = Append(sent, Garbage)
  /\ ready' = ready \cup {Len(sent) + 1}
  /\ UNCHANGED <<linked, consumerVars, indexVars, notes>> /\ NoFault

\* consumeOnce up to its loop; on a connection that is lost it fails, and
\* Start tries again on the same one.
Reconnect ==
  /\ chan = "none" /\ conn
  /\ chan' = "open"
  /\ UNCHANGED <<queueVars, conn, prefetched, cur, step, indexVars, notes>> /\ NoFault

\* The connection is never dialled again.
RetryFails == chan = "none" /\ ~conn /\ UNCHANGED vars

\* The broker pushes the next message; Consume set no limit to how many.
Deliver ==
  /\ chan = "open" /\ ready # {}
  /\ prefetched' = Append(prefetched, Oldest(ready))
  /\ ready' = ready \ {Oldest(ready)}
  /\ UNCHANGED <<linked, sent, conn, chan, cur, step, indexVars, notes>> /\ NoFault

\* Mutant of Take: workers share the deliveries, and a later one may go first.
TakeAny ==
  /\ step = "take" /\ chan # "none"
  /\ \E i \in 1 .. Len(prefetched) :
       /\ prefetched' = SubSeq(prefetched, 1, i - 1) \o SubSeq(prefetched, i + 1, Len(prefetched))
       /\ IF sent[prefetched[i]] = Garbage
            THEN UNCHANGED <<cur, step>>
            ELSE cur' = prefetched[i] /\ step' = "index"
  /\ UNCHANGED <<queueVars, conn, chan, indexVars, notes>> /\ NoFault

\* The loop takes a delivery; a closed channel may have left some behind.  A
\* body that is no IndexMessage is rejected for good.
Take ==
  /\ step = "take" /\ chan # "none" /\ prefetched # <<>>
  /\ prefetched' = Tail(prefetched)
  /\ IF sent[Head(prefetched)] = Garbage
       THEN UNCHANGED <<cur, step>>
       ELSE cur' = Head(prefetched) /\ step' = "index"
  /\ UNCHANGED <<queueVars, conn, chan, indexVars, notes>> /\ NoFault

Apply(m) ==
  /\ index' = [index EXCEPT ![sent[m]] = m]
  /\ applied' = applied \cup {m}

IndexOk ==
  /\ step = "index" /\ sent[cur] \notin Refused
  /\ Apply(cur)
  /\ step' = "ack"
  /\ UNCHANGED <<queueVars, conn, chan, prefetched, cur, notes>> /\ NoFault

\* Nack(false, true): the message is sent back.  On a dead channel its error is
\* ignored, and the message is back already.
SendBack ==
  /\ cur' = 0 /\ step' = "take"
  /\ IF chan = "open" THEN ready' = ready \cup {cur} /\ requeued' = requeued \cup {cur}
                      ELSE UNCHANGED <<ready, requeued>>
  /\ UNCHANGED <<linked, sent, conn, chan, prefetched, wiped>>

\* Mutant of IndexFails: Nack(false, false).
IndexFailsDrop ==
  /\ step = "index" /\ Fault
  /\ cur' = 0 /\ step' = "take"
  /\ UNCHANGED <<queueVars, conn, chan, prefetched, indexVars, notes>>

\* Mutant of IndexFails: no `continue`, and an Ack follows the Nack.
IndexFailsGoesOn ==
  /\ step = "index" /\ Fault
  /\ step' = "ack"
  /\ IF chan = "open" THEN ready' = ready \cup {cur} /\ requeued' = requeued \cup {cur}
                      ELSE UNCHANGED <<ready, requeued>>
  /\ UNCHANGED <<linked, sent, conn, chan, prefetched, cur, indexVars, wiped>>

\* IndexDocument reports an error; Elasticsearch may have applied the message
\* all the same.
IndexFails ==
  /\ step = "index" /\ Fault
  /\ (sent[cur] \notin Refused /\ Apply(cur)) \/ UNCHANGED indexVars
  /\ SendBack

\* Mutant of IndexRefused: it is tried again at once, in place.
IndexRefusedRetry == step = "index" /\ sent[cur] \in Refused /\ UNCHANGED vars

\* Elasticsearch refuses the document.  To the consumer that is an error like
\* any other: the message comes again, without a pause.
IndexRefused ==
  /\ step = "index" /\ sent[cur] \in Refused
  /\ SendBack
  /\ UNCHANGED indexVars /\ NoFault

\* Ack; on a dead channel its error is ignored, and the message will come again.
Ack ==
  /\ step = "ack"
  /\ cur' = 0 /\ step' = "take"
  /\ UNCHANGED <<queueVars, conn, chan, prefetched, indexVars, notes>> /\ NoFault

-----------------------------------------------------------------------------
\* What the broker gets back when the channel goes.
Requeue ==
  /\ ready' = ready \cup Unacked
  /\ requeued' = requeued \cup Unacked
  /\ UNCHANGED <<linked, sent, wiped>>

\* The broker closes the channel.
ChannelClosed ==
  /\ chan = "open" /\ Fault
  /\ chan' = "dead"
  /\ Requeue
  /\ UNCHANGED <<conn, prefetched, cur, step, indexVars>>

\* The connection is lost, and the channel with it.
ConnLost ==
  /\ conn /\ Loss
  /\ conn' = FALSE
  /\ chan' = IF chan = "open" THEN "dead" ELSE chan
  /\ Requeue
  /\ UNCHANGED <<prefetched, cur, step, indexVars>>

\* The publisher's connection is lost: it is not dialled again either, and
\* nothing is published until the document service starts anew.
PublisherLost ==
  /\ linked /\ Loss
  /\ linked' = FALSE
  /\ UNCHANGED <<sent, ready, consumerVars, indexVars, notes>>

DocServiceRestarts ==
  /\ ~linked /\ linked' = TRUE
  /\ UNCHANGED <<sent, ready, consumerVars, indexVars, notes>> /\ NoFault

\* The broker restarts.  The queue is durable, its messages are not.
BrokerRestarts ==
  /\ Loss
  /\ linked' = FALSE /\ conn' = FALSE
  /\ chan' = IF chan = "open" THEN "dead" ELSE chan
  /\ ready' = {} /\ wiped' = wiped \cup ready \cup Unacked
  /\ UNCHANGED <<sent, prefetched, cur, step, indexVars, requeued>>

\* The loop sees closeCh or the end of its deliveries, and returns to Start.
Notice ==
  /\ chan = "dead" /\ step = "take"
  /\ chan' = "none"
  /\ prefetched' = <<>>
  /\ UNCHANGED <<queueVars, conn, cur, step, indexVars, notes>> /\ NoFault

\* The search service stops, at whatever point, and starts with a new connection.
Restart ==
  /\ Fault
  /\ conn' = TRUE /\ chan' = "none" /\ prefetched' = <<>> /\ cur' = 0 /\ step' = "take"
  /\ Requeue
  /\ UNCHANGED indexVars

Consume == Take \/ IndexOk \/ IndexRefused \/ Ack \/ Notice

\* All was published and handled.
Drained ==
  /\ Len(sent) = MaxMsgs /\ ready = {} /\ Unacked = {} /\ step = "take" /\ chan # "dead"
  /\ UNCHANGED vars

Next ==
  \/ (\E d \in DocIds : Publish(d)) \/ Stray
  \/ Reconnect \/ RetryFails \/ Deliver \/ Consume \/ IndexFails
  \/ ChannelClosed \/ ConnLost \/ Restart
  \/ PublisherLost \/ DocServiceRestarts \/ BrokerRestarts
  \/ Drained

Spec == Init /\ [][Next]_vars

\* Start tries again every 3s, IndexDocument ends, and the broker delivers a
\* message that is the oldest again and again, though others come back.
FairSpec ==
  /\ Spec /\ WF_vars(Reconnect) /\ WF_vars(Consume)
  /\ \A m \in 1 .. MaxMsgs : SF_vars(Deliver /\ m = Oldest(ready))

-----------------------------------------------------------------------------
(***************************************************************************)
(* Properties.                                                             *)
(***************************************************************************)

\* Every variable keeps its type, and a message is in one place only.
TypeOK ==
  /\ linked \in BOOLEAN /\ sent \in Seq(DocIds \cup {Garbage})
  /\ ready \subseteq MsgIds
  /\ conn \in BOOLEAN /\ chan \in {"none", "open", "dead"}
  /\ prefetched \in Seq(MsgIds)
  /\ cur \in MsgIds \cup {0} /\ step \in {"take", "index", "ack"}
  /\ (step = "take") <=> (cur = 0)
  /\ cur # 0 => sent[cur] # Garbage
  /\ index \in [DocIds -> MsgIds \cup {0}]
  /\ applied \subseteq MsgIds
  /\ requeued \subseteq MsgIds /\ wiped \subseteq MsgIds
  /\ faults \in Nat /\ losses \in Nat
  /\ ready \cap Unacked = {}

\* A message is acknowledged only after Elasticsearch has it: whatever fails,
\* closes or restarts, each one is in the queue, with the consumer, or applied.
\* Only what the broker holds when it restarts itself is gone.
NoMessageLost ==
  \A m \in MsgIds : sent[m] # Garbage => m \in ready \cup Unacked \cup applied \cup wiped

\* The index goes back to an older state of a document only by applying a
\* message that was put back in the queue, after the ones behind it.
OlderOnlyByRequeue ==
  [][\A d \in DocIds : index'[d] < index[d] => index'[d] \in requeued]_vars

\* Every message is applied at last, unless the connection is lost or the
\* broker restarts: errors, closed channels and restarts of the consumer send
\* it back, not away, and one that is refused for ever keeps no other from
\* being applied.
EventuallyIndexed ==
  \A m \in 1 .. MaxMsgs :
    (m \in MsgIds /\ sent[m] \notin Refused \cup {Garbage})
      ~> (m \in applied \cup wiped \/ ~conn)

\* rabbitmq.go: "Start runs the consumer loop with automatic reconnect on
\* channel close".
ReconnectsAfterClose == (chan = "dead") ~> (chan = "open")
=============================================================================
