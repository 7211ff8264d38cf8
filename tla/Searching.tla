----------------------------- MODULE Searching -----------------------------
(***************************************************************************)
(* The document service and the index pipeline together: what a search     *)
(* finds of a document, after calls that may overlap, messages that come   *)
(* again or are gone, and restarts of every process between the two.       *)
(***************************************************************************)
EXTENDS DocService

CONSTANTS
  Readers,     \* calls that only read
  MaxTroubles, \* bound on all that goes wrong, in either
  Garbage, MaxMsgs, MaxFaults, MaxConnLosses

ASSUME SearchAssumption ==
  /\ Readers \subseteq Calls /\ MaxTroubles \in Nat /\ Garbage \notin DocIds
  /\ MaxMsgs \in Nat /\ MaxFaults \in Nat /\ MaxConnLosses \in Nat

VARIABLES
  linked, ready, conn, chan, prefetched, cur, step, index, applied,
  requeued, wiped, faults, losses,   \* the pipeline
  missed,   \* documents whose last save was not published (history)
  raced     \* documents on which two saves have overlapped (history)

Pipe == INSTANCE IndexPipeline
          WITH sent <- [i \in 1 .. Len(queue) |-> queue[i].doc], Refused <- {}

pipeVars == <<linked, ready, conn, chan, prefetched, cur, step, index, applied,
              requeued, wiped, faults, losses>>
searchVars == <<vars, pipeVars, missed, raced>>

SearchInit ==
  /\ Init /\ Pipe!Init
  /\ missed = {} /\ raced = {}

\* What fails is within the bound.
MayFail == faults + losses + errors < MaxTroubles

Saves(c) == req[c].op \in {"create", "update"}

\* Documents a save of which is carried out, and ends in this step unpublished.
CutShort ==
  {Id(c) : c \in {b \in Calls :
     /\ pc[b] # pc'[b] /\ pc'[b] = "done" /\ Saves(b)
     /\ pc[b] \in {"insert", "write"} => coll' # coll}}

-----------------------------------------------------------------------------
\* A call begins, or one of its steps that publishes nothing.
CallBegins(c, r) ==
  /\ c \in Readers => r.op = "get"
  /\ Begin(c, r)
  /\ raced' = IF r.op = "update" /\ \E b \in Running(r.doc) : Saves(b)
                THEN raced \cup {r.doc} ELSE raced
  /\ UNCHANGED <<pipeVars, missed>>

CallStep ==
  /\ \/ \E c \in Calls : pc[c] # "publish" /\ Serve(c)
     \/ \E d \in DocIds : Expire(d) \/ Snapshot(d)
  /\ UNCHANGED errors \/ MayFail
  /\ missed' = missed \cup CutShort
  /\ UNCHANGED <<pipeVars, raced>>

\* The save reaches the queue ...
PublishSaved(c) ==
  /\ Publish(c) /\ Pipe!Publish(Id(c))
  /\ missed' = missed \ {Id(c)}
  /\ UNCHANGED raced

\* ... or does not: the error is logged, and the call succeeds.
PublishLost(c) ==
  /\ \/ ~linked /\ Step(c, "publish", "done") /\ errors' = errors + 1
     \/ MayFail /\ Fails(c, "publish", "done")
  /\ missed' = missed \cup {Id(c)}
  /\ UNCHANGED <<coll, used, cacheVars, queue, req, detail, overlapped, ended, pipeVars, raced>>

\* The process of the document service ends.  The next one dials the broker
\* anew, and serves without a publisher if that fails.
DocServiceCrashes ==
  /\ MayFail /\ Crash /\ Pipe!Fault
  /\ missed' = missed \cup CutShort
  /\ linked' \in BOOLEAN
  /\ UNCHANGED <<ready, conn, chan, prefetched, cur, step, index, applied, requeued,
                 wiped, raced>>

\* It is started anew between two calls, and dials the broker again.
DocServiceRestarts ==
  /\ Restart
  /\ Pipe!DocServiceRestarts \/ UNCHANGED pipeVars
  /\ UNCHANGED <<missed, raced>>

\* The queue, the consumer and Elasticsearch.
PipeStep ==
  /\ UNCHANGED <<vars, missed, raced>>
  /\ \/ Pipe!Reconnect \/ Pipe!Deliver \/ Pipe!Consume
     \/ /\ MayFail
        /\ \/ Pipe!IndexFails \/ Pipe!ChannelClosed \/ Pipe!ConnLost \/ Pipe!Restart
           \/ Pipe!PublisherLost \/ Pipe!BrokerRestarts

\* No call is left.
Rest == (\A c \in Calls : pc[c] = "done") /\ UNCHANGED searchVars

SearchNext ==
  \/ \E c \in Calls :
       PublishSaved(c) \/ PublishLost(c) \/ \E r \in Request : CallBegins(c, r)
  \/ CallStep \/ DocServiceCrashes \/ DocServiceRestarts \/ PipeStep \/ Rest

SearchSpec == SearchInit /\ [][SearchNext]_searchVars

-----------------------------------------------------------------------------
(***************************************************************************)
(* Properties.                                                             *)
(***************************************************************************)

About(d) == {i \in 1 .. Len(queue) : queue[i].doc = d}

\* Nothing is under way for a document that exists, and its last message is
\* no longer to come.
Settled(d) ==
  /\ coll[d] # Absent /\ About(d) # {} /\ Running(d) = {}
  /\ About(d) \cap (ready \cup Pipe!Prefetched \cup Pipe!InHand) = {}

\* A search finds a document as it was saved last, unless its save was not
\* published, a restart of the broker took the message, or a message about it
\* was sent back: the content if no two saves overlapped, the title if no calls
\* did and none had an error.  (UpdateDoc publishes the title that it reads
\* back, perhaps from an entry that a reader has just cached, or that a failed
\* cacheDel left.)
SearchFindsSaved ==
  \A d \in DocIds \ missed :
    Settled(d) /\ About(d) \cap requeued = {} /\ LastMessage(d) \notin wiped =>
      /\ d \notin raced => index[d] # 0 /\ queue[index[d]].content = coll[d].content
      /\ d \notin overlapped /\ errors = 0 => index[d] # 0 /\ queue[index[d]].title = coll[d].title
=============================================================================
