-------------------------------- MODULE Hub --------------------------------
(***************************************************************************)
(* The WebSocket hub of collab-service (hub/hub.go).  Its goroutines are   *)
(* Run, which owns the rooms; a read pump and a write pump per connection; *)
(* streamWorkers stream writers; a sendSync per join; and one goroutine    *)
(* per message and recipient.  An action is what one goroutine does        *)
(* between two points where it can wait: a channel operation, a command to *)
(* Redis or MongoDB, a read or a write of the connection.                  *)
(*                                                                         *)
(* A client stands for one connection and is used once.  Messages are      *)
(* named by their position in msgs; 0 names a client's sync frame.         *)
(***************************************************************************)
EXTENDS DocStore, Integers, FiniteSets

CONSTANTS
  Clients,
  NoDoc,         \* the doc_id of a client that has not connected
  Frames,        \* what browsers send: records in FrameRecord
  SendCap,       \* capacity of Client.Send (256)
  BroadcastCap,  \* capacity of Hub.broadcast (256)
  StreamCap,     \* capacity of Hub.streamCh (4096)
  Workers,       \* the stream writers (4)
  Faults,        \* TRUE: commands to Redis and MongoDB may fail
  MaxRetries,    \* how often go-redis sends a command again (3)
  MaxMsgs        \* bound on the number of frames read

FrameRecord == [json : BOOLEAN, doc : Docs, type : {"update", "awareness"},
                payload : Payloads]

ASSUME HubAssumption ==
  /\ NoDoc \notin Docs /\ Frames \subseteq FrameRecord
  /\ SendCap \in Nat \ {0} /\ BroadcastCap \in Nat \ {0} /\ StreamCap \in Nat \ {0}
  /\ Faults \in BOOLEAN /\ MaxRetries \in Nat /\ MaxMsgs \in Nat

VARIABLES
  doc, reader, writer, conn,  \* per client: DocID, the pumps, the connection
  closes,      \* closes[c]: how often c.done was closed
  rooms,       \* keys of Hub.rooms
  members,     \* members[d]: keys of Hub.rooms[d]
  conns,       \* gauge ws_active_connections
  roomGauge,   \* gauge ws_active_rooms
  msgs,        \* messages decoded so far
  holding,     \* holding[c]: the message the read pump of c is sending to Run
  broadcast,   \* Hub.broadcast
  streamCh,    \* Hub.streamCh
  worker,      \* worker[w]: the message a stream writer is appending, or 0
  tries,       \* tries[w]: how often it has sent that XADD again
  origin,      \* origin[n]: the message and the try entry n is of (history)
  missed,      \* updates streamCh had no room for, and those whose XADD
               \* reported an error in the end (history)
  trying,      \* delivery goroutines <<c, m>> at their first select
  evicting,    \* delivery goroutines <<c, m>> at their second select
  owed,        \* every <<c, m>> Run ever spawned a delivery for (history)
  send,        \* send[c]: Client.Send
  got,         \* got[c]: frames written to the open connection (history)
  sync,        \* sync[c]: the next step of sendSync
  buf          \* buf[c]: stream entries sendSync has collected

connVars == <<doc, reader, writer, conn>>
roomVars == <<rooms, members, conns, roomGauge, closes>>
inVars   == <<msgs, holding, broadcast, streamCh, worker, tries, origin, missed>>
outVars  == <<trying, evicting, owed, send, got>>
syncVars == <<sync, buf>>
hubVars  == <<connVars, roomVars, inVars, outVars, syncVars>>
vars     == <<storeVars, hubVars>>

Message == [doc : Docs, sender : Clients, type : {"update", "awareness"},
            payload : Payloads]
MsgIds == 1 .. Len(msgs)
Attempt == [msg : MsgIds, try : 0 .. MaxRetries]
Done(c) == closes[c] > 0

HubTypeOK ==
  /\ doc \in [Clients -> Docs \cup {NoDoc}]
  /\ reader \in [Clients -> {"new", "registering", "reading", "sending",
                             "leaving", "closing", "closed"}]
  /\ writer \in [Clients -> {"none", "running", "exited"}]
  /\ conn \in [Clients -> {"none", "open", "broken", "closed"}]
  /\ closes \in [Clients -> Nat]
  /\ rooms \subseteq Docs
  /\ members \in [Docs -> SUBSET Clients]
  /\ conns \in Nat /\ roomGauge \in Nat
  /\ msgs \in Seq(Message)
  /\ holding \in [Clients -> MsgIds \cup {0}]
  /\ broadcast \in Seq(MsgIds) /\ Len(broadcast) <= BroadcastCap
  /\ streamCh \in Seq(MsgIds) /\ Len(streamCh) <= StreamCap
  /\ worker \in [Workers -> MsgIds \cup {0}]
  /\ tries \in [Workers -> 0 .. MaxRetries]
  /\ origin \in Seq(Attempt)
  /\ missed \subseteq MsgIds
  /\ trying \subseteq Clients \X MsgIds
  /\ evicting \subseteq Clients \X MsgIds
  /\ owed \subseteq Clients \X MsgIds
  /\ send \in [Clients -> Seq(MsgIds \cup {0})]
  /\ \A c \in Clients : Len(send[c]) <= SendCap
  /\ got \in [Clients -> SUBSET (MsgIds \cup {0})]
  /\ sync \in [Clients -> {"none", "mongo", "redis", "offer", "over"}]
  /\ buf \in [Clients -> SUBSET EntryIds]

HubInit ==
  /\ doc = [c \in Clients |-> NoDoc]
  /\ reader = [c \in Clients |-> "new"]
  /\ writer = [c \in Clients |-> "none"]
  /\ conn = [c \in Clients |-> "none"]
  /\ closes = [c \in Clients |-> 0]
  /\ rooms = {} /\ members = [d \in Docs |-> {}]
  /\ conns = 0 /\ roomGauge = 0
  /\ msgs = <<>>
  /\ holding = [c \in Clients |-> 0]
  /\ broadcast = <<>> /\ streamCh = <<>>
  /\ worker = [w \in Workers |-> 0]
  /\ tries = [w \in Workers |-> 0]
  /\ origin = <<>> /\ missed = {}
  /\ trying = {} /\ evicting = {} /\ owed = {}
  /\ send = [c \in Clients |-> <<>>]
  /\ got = [c \in Clients |-> {}]
  /\ sync = [c \in Clients |-> "none"]
  /\ buf = [c \in Clients |-> {}]

-----------------------------------------------------------------------------
\* HandleWebSocket: without a doc_id the connection is closed at once;
\* otherwise the handler waits for Run to take the client.
HandleWebSocket(c) ==
  /\ reader[c] = "new"
  /\ \/ /\ reader' = [reader EXCEPT ![c] = "closed"]
        /\ conn' = [conn EXCEPT ![c] = "closed"]
        /\ UNCHANGED doc
     \/ /\ reader' = [reader EXCEPT ![c] = "registering"]
        /\ conn' = [conn EXCEPT ![c] = "open"]
        /\ \E d \in Docs : doc' = [doc EXCEPT ![c] = d]
  /\ UNCHANGED <<storeVars, writer, roomVars, inVars, outVars, syncVars>>

\* Run takes a client from register; the handler goes on to start the pumps.
Register(c) ==
  /\ reader[c] = "registering"
  /\ rooms' = rooms \cup {doc[c]}
  /\ members' = [members EXCEPT ![doc[c]] = @ \cup {c}]
  /\ conns' = conns + 1
  /\ roomGauge' = Cardinality(rooms')
  /\ sync' = [sync EXCEPT ![c] = "mongo"]
  /\ reader' = [reader EXCEPT ![c] = "reading"]
  /\ writer' = [writer EXCEPT ![c] = "running"]
  /\ UNCHANGED <<storeVars, doc, conn, closes, inVars, outVars, buf>>

\* closeDone: the channel is closed the first time only.
CloseDone(c) == closes' = [closes EXCEPT ![c] = IF @ = 0 THEN 1 ELSE @]

\* Mutants of Unregister: the gauges move whether or not the client was there;
\* an emptied room keeps its key; a client stays in the room.
UnregisterAlways(c) ==
  /\ members' = [members EXCEPT ![doc[c]] = @ \ {c}]
  /\ rooms' = {d \in rooms : members'[d] # {}}
  /\ conns' = conns - 1
  /\ roomGauge' = Cardinality(rooms')
  /\ CloseDone(c)

UnregisterDoneOnly(c) ==
  /\ CloseDone(c)
  /\ UNCHANGED <<members, rooms, conns, roomGauge>>

\* Run takes a client from unregister, which may be the second time.
Unregister(c) ==
  /\ IF c \in members[doc[c]]
       THEN /\ members' = [members EXCEPT ![doc[c]] = @ \ {c}]
            /\ rooms' = IF members'[doc[c]] = {} THEN rooms \ {doc[c]} ELSE rooms
            /\ conns' = conns - 1
            /\ roomGauge' = Cardinality(rooms')
       ELSE UNCHANGED <<members, rooms, conns, roomGauge>>
  /\ CloseDone(c)

-----------------------------------------------------------------------------
(* readPump *)

\* Mutant of Decode: a doc_id in the frame is believed.
DecodeTrusting(c, f) ==
  IF f.json THEN [doc |-> f.doc, sender |-> c, type |-> f.type, payload |-> f.payload]
            ELSE [doc |-> doc[c], sender |-> c, type |-> "update", payload |-> f.payload]

\* A frame that is not a JSON message is taken for an update as it is.  The
\* document is the connection's.
Decode(c, f) ==
  [doc |-> doc[c], sender |-> c, type |-> IF f.json THEN f.type ELSE "update",
   payload |-> f.payload]

Read(c, f) ==
  /\ reader[c] = "reading" /\ conn[c] # "closed"
  /\ Len(msgs) < MaxMsgs
  /\ msgs' = Append(msgs, Decode(c, f))
  /\ holding' = [holding EXCEPT ![c] = Len(msgs) + 1]
  /\ reader' = [reader EXCEPT ![c] = "sending"]
  /\ UNCHANGED <<storeVars, doc, writer, conn, roomVars, broadcast, streamCh, worker,
                 tries, origin, missed, outVars, syncVars>>

Enqueue(c) ==
  /\ reader[c] = "sending" /\ Len(broadcast) < BroadcastCap
  /\ broadcast' = Append(broadcast, holding[c])
  /\ holding' = [holding EXCEPT ![c] = 0]
  /\ reader' = [reader EXCEPT ![c] = "reading"]
  /\ UNCHANGED <<storeVars, doc, writer, conn, roomVars, msgs, streamCh, worker,
                 tries, origin, missed, outVars, syncVars>>

\* ReadMessage fails: the peer is gone, no pong came for 60s, or the
\* connection was closed on this side.
ReadFails(c) ==
  /\ reader[c] = "reading" /\ conn[c] # "open"
  /\ reader' = [reader EXCEPT ![c] = "leaving"]
  /\ UNCHANGED <<storeVars, doc, writer, conn, roomVars, inVars, outVars, syncVars>>

\* Run takes the client from the read pump's unregister.
Leave(c) ==
  /\ reader[c] = "leaving"
  /\ Unregister(c)
  /\ reader' = [reader EXCEPT ![c] = "closing"]
  /\ UNCHANGED <<storeVars, doc, writer, conn, inVars, outVars, syncVars>>

CloseConn(c) ==
  /\ reader[c] = "closing"
  /\ reader' = [reader EXCEPT ![c] = "closed"]
  /\ conn' = [conn EXCEPT ![c] = "closed"]
  /\ UNCHANGED <<storeVars, doc, writer, roomVars, inVars, outVars, syncVars>>

-----------------------------------------------------------------------------
(* Run, on a message *)

Targets(m) == members[msgs[m].doc] \ {msgs[m].sender}

\* An update is offered to the stream writers, and dropped when their queue is
\* full; then a delivery is spawned for each other client of the room.
RunBroadcast ==
  /\ broadcast # <<>>
  /\ LET m == Head(broadcast)
         update == msgs[m].type = "update"
         room == Len(streamCh) < StreamCap
     IN  /\ streamCh' = IF update /\ room THEN Append(streamCh, m) ELSE streamCh
         /\ missed' = IF update /\ ~room THEN missed \cup {m} ELSE missed
         /\ trying' = trying \cup (Targets(m) \X {m})
         /\ owed' = owed \cup (Targets(m) \X {m})
  /\ broadcast' = Tail(broadcast)
  /\ UNCHANGED <<storeVars, connVars, roomVars, msgs, holding, worker, tries, origin,
                 evicting, send, got, syncVars>>

-----------------------------------------------------------------------------
(* A delivery goroutine *)

DeliverSend(c, m) ==
  /\ <<c, m>> \in trying /\ Len(send[c]) < SendCap
  /\ send' = [send EXCEPT ![c] = Append(@, m)]
  /\ trying' = trying \ {<<c, m>>}
  /\ UNCHANGED <<storeVars, connVars, roomVars, inVars, evicting, owed, got, syncVars>>

DeliverDone(c, m) ==
  /\ <<c, m>> \in trying /\ Done(c)
  /\ trying' = trying \ {<<c, m>>}
  /\ UNCHANGED <<storeVars, connVars, roomVars, inVars, evicting, owed, send, got,
                 syncVars>>

\* Mutant of DeliverFull: the message is dropped, the client stays.
DeliverDrop(c, m) ==
  /\ <<c, m>> \in trying /\ ~Done(c) /\ Len(send[c]) = SendCap
  /\ trying' = trying \ {<<c, m>>}
  /\ UNCHANGED <<storeVars, connVars, roomVars, inVars, evicting, owed, send, got,
                 syncVars>>

\* Neither case of the first select is ready: the client is too slow.
DeliverFull(c, m) ==
  /\ <<c, m>> \in trying /\ ~Done(c) /\ Len(send[c]) = SendCap
  /\ trying' = trying \ {<<c, m>>}
  /\ evicting' = evicting \cup {<<c, m>>}
  /\ UNCHANGED <<storeVars, connVars, roomVars, inVars, owed, send, got, syncVars>>

\* Run takes the client from the delivery's unregister.
Evict(c, m) ==
  /\ <<c, m>> \in evicting
  /\ Unregister(c)
  /\ evicting' = evicting \ {<<c, m>>}
  /\ UNCHANGED <<storeVars, connVars, inVars, trying, owed, send, got, syncVars>>

EvictDone(c, m) ==
  /\ <<c, m>> \in evicting /\ Done(c)
  /\ evicting' = evicting \ {<<c, m>>}
  /\ UNCHANGED <<storeVars, connVars, roomVars, inVars, trying, owed, send, got,
                 syncVars>>

-----------------------------------------------------------------------------
(* writePump *)

WriteDone(c) ==
  /\ writer[c] = "running" /\ Done(c)
  /\ writer' = [writer EXCEPT ![c] = "exited"]
  /\ conn' = [conn EXCEPT ![c] = "closed"]
  /\ UNCHANGED <<storeVars, doc, reader, roomVars, inVars, outVars, syncVars>>

\* The error of WriteMessage is ignored: on a connection that is not open the
\* frame is lost.
WriteNext(c) ==
  /\ writer[c] = "running" /\ send[c] # <<>>
  /\ send' = [send EXCEPT ![c] = Tail(@)]
  /\ got' = IF conn[c] = "open" THEN [got EXCEPT ![c] = @ \cup {Head(send[c])}]
                                ELSE got
  /\ UNCHANGED <<storeVars, connVars, roomVars, inVars, trying, evicting, owed,
                 syncVars>>

\* A ping that fails ends the pump; one that succeeds changes nothing.
PingFails(c) ==
  /\ writer[c] = "running" /\ conn[c] # "open"
  /\ writer' = [writer EXCEPT ![c] = "exited"]
  /\ conn' = [conn EXCEPT ![c] = "closed"]
  /\ UNCHANGED <<storeVars, doc, reader, roomVars, inVars, outVars, syncVars>>

-----------------------------------------------------------------------------
(* sendSync *)

\* FindOne; a doc_id that is no ObjectID, a document that is absent and an
\* error all leave the list empty.
SyncMongo(c) ==
  /\ sync[c] = "mongo"
  /\ \/ buf' = [buf EXCEPT ![c] = IF doc[c] \in docs THEN Written(doc[c]) ELSE {}]
     \/ Faults /\ UNCHANGED buf
  /\ sync' = [sync EXCEPT ![c] = "redis"]
  /\ UNCHANGED <<storeVars, connVars, roomVars, inVars, outVars>>

\* Mutant of SyncRedis: the stream is read only when MongoDB held nothing.
SyncEither(c) ==
  /\ sync[c] = "redis"
  /\ buf' = [buf EXCEPT ![c] = IF @ = {} THEN stream[doc[c]] ELSE @]
  /\ sync' = [sync EXCEPT ![c] = IF buf'[c] = {} THEN "over" ELSE "offer"]
  /\ UNCHANGED <<storeVars, connVars, roomVars, inVars, outVars>>

\* XRANGE - +; nothing is sent when there is nothing to send.
SyncRedis(c) ==
  /\ sync[c] = "redis"
  /\ \/ buf' = [buf EXCEPT ![c] = @ \cup stream[doc[c]]]
     \/ Faults /\ UNCHANGED buf
  /\ sync' = [sync EXCEPT ![c] = IF buf'[c] = {} THEN "over" ELSE "offer"]
  /\ UNCHANGED <<storeVars, connVars, roomVars, inVars, outVars>>

\* The frame is dropped when Send is full.
SyncOffer(c) ==
  /\ sync[c] = "offer"
  /\ sync' = [sync EXCEPT ![c] = "over"]
  /\ send' = IF Len(send[c]) < SendCap THEN [send EXCEPT ![c] = Append(@, 0)]
                                       ELSE send
  /\ UNCHANGED <<storeVars, connVars, roomVars, inVars, trying, evicting, owed, got,
                 buf>>

-----------------------------------------------------------------------------
(* streamWriter *)

StreamTake(w) ==
  /\ worker[w] = 0 /\ streamCh # <<>>
  /\ worker' = [worker EXCEPT ![w] = Head(streamCh)]
  /\ streamCh' = Tail(streamCh)
  /\ UNCHANGED <<storeVars, connVars, roomVars, msgs, holding, broadcast, tries, origin,
                 missed, outVars, syncVars>>

\* Mutant of Execute: XADD with MAXLEN 1.
ExecuteTrimming(w) ==
  /\ LET m == msgs[worker[w]] IN
       /\ xadds' = Append(xadds, [doc |-> m.doc, payload |-> m.payload, at |-> now])
       /\ stream' = [stream EXCEPT ![m.doc] = {Len(xadds) + 1}]
  /\ origin' = Append(origin, [msg |-> worker[w], try |-> tries[w]])
  /\ UNCHANGED <<docs, yjs, now>>

\* Redis executes the XADD the stream writer has sent.
Execute(w) ==
  /\ XAdd(msgs[worker[w]].doc, msgs[worker[w]].payload)
  /\ origin' = Append(origin, [msg |-> worker[w], try |-> tries[w]])

\* The stream writer goes back to its queue.
Free(w) ==
  /\ worker[w] # 0
  /\ worker' = [worker EXCEPT ![w] = 0]
  /\ tries' = [tries EXCEPT ![w] = 0]

StreamAppend(w) ==
  /\ Free(w) /\ Execute(w)
  /\ UNCHANGED <<connVars, roomVars, msgs, holding, broadcast, streamCh, missed, outVars,
                 syncVars>>

\* No answer comes, executed or not, and the client of main.go:39 sends the
\* command again, as go-redis does unless told otherwise.
StreamRetry(w) ==
  /\ Faults /\ worker[w] # 0 /\ tries[w] < MaxRetries
  /\ Execute(w) \/ UNCHANGED <<storeVars, origin>>
  /\ tries' = [tries EXCEPT ![w] = @ + 1]
  /\ UNCHANGED <<connVars, roomVars, msgs, holding, broadcast, streamCh, worker, missed,
                 outVars, syncVars>>

\* Mutant of StreamFails: the update goes back to the end of the queue.
StreamRequeues(w) ==
  /\ Faults /\ Free(w)
  /\ Execute(w) \/ UNCHANGED <<storeVars, origin>>
  /\ streamCh' = IF Len(streamCh) < StreamCap THEN Append(streamCh, worker[w]) ELSE streamCh
  /\ missed' = IF Len(streamCh) < StreamCap THEN missed ELSE missed \cup {worker[w]}
  /\ UNCHANGED <<connVars, roomVars, msgs, holding, broadcast, outVars, syncVars>>

\* The retries or the 2s are used up, or the error is no matter of the
\* network.  It is ignored, and the entry may be there all the same.
StreamFails(w) ==
  /\ Faults /\ Free(w)
  /\ Execute(w) \/ UNCHANGED <<storeVars, origin>>
  /\ missed' = missed \cup {worker[w]}
  /\ UNCHANGED <<connVars, roomVars, msgs, holding, broadcast, streamCh, outVars, syncVars>>

-----------------------------------------------------------------------------
\* The peer goes away, or the network between.
Break(c) ==
  /\ conn[c] = "open"
  /\ conn' = [conn EXCEPT ![c] = "broken"]
  /\ UNCHANGED <<storeVars, doc, reader, writer, roomVars, inVars, outVars, syncVars>>

\* Everything a connection started has ended, and no queue holds anything:
\* the only place where the hub may stop.
Quiet ==
  /\ \A c \in Clients : /\ reader[c] = "closed" /\ writer[c] \in {"none", "exited"}
                        /\ sync[c] \in {"none", "over"}
  /\ broadcast = <<>> /\ streamCh = <<>> /\ \A w \in Workers : worker[w] = 0
  /\ trying = {} /\ evicting = {}
  /\ UNCHANGED vars

ReaderStep(c) ==
  Register(c) \/ Enqueue(c) \/ ReadFails(c) \/ Leave(c) \/ CloseConn(c)
WriterStep(c) == WriteDone(c) \/ WriteNext(c) \/ PingFails(c)
SyncStep(c)   == SyncMongo(c) \/ SyncRedis(c) \/ SyncOffer(c)
StreamStep(w) == StreamTake(w) \/ StreamAppend(w) \/ StreamRetry(w) \/ StreamFails(w)

\* Mutant of Delivery: the send is repeated until Send has room, without a look
\* at done and without eviction.
DeliveryRetrying(c, m) ==
  \/ DeliverSend(c, m) \/ Evict(c, m) \/ EvictDone(c, m)
  \/ <<c, m>> \in trying /\ Len(send[c]) = SendCap /\ UNCHANGED vars

Delivery(c, m) ==
  DeliverSend(c, m) \/ DeliverDone(c, m) \/ DeliverFull(c, m) \/ Evict(c, m) \/ EvictDone(c, m)

HubNext ==
  \/ RunBroadcast
  \/ \E c \in Clients :
       \/ HandleWebSocket(c) \/ (\E f \in Frames : Read(c, f)) \/ Break(c)
       \/ ReaderStep(c) \/ WriterStep(c) \/ SyncStep(c)
       \/ \E m \in MsgIds : Delivery(c, m)
  \/ \E w \in Workers : StreamStep(w)

Init == StoreInit /\ HubInit
Next == HubNext \/ Quiet
Spec == Init /\ [][Next]_vars

\* Each goroutine that can take a step takes one at last: the Go scheduler
\* runs every goroutine, and Run is always back at its select, which picks
\* among its ready cases at random.  ReadFails waits for a deadline of 60s at
\* most, and PingFails for the ticker of 30s.  Nobody has to connect, type or
\* leave.
Fairness ==
  /\ WF_vars(RunBroadcast)
  /\ \A c \in Clients :
       /\ WF_vars(ReaderStep(c)) /\ WF_vars(WriterStep(c)) /\ WF_vars(SyncStep(c))
       /\ WF_vars(\E m \in MsgIds : Delivery(c, m))
  /\ \A w \in Workers : WF_vars(StreamStep(w))

FairSpec == Spec /\ Fairness

-----------------------------------------------------------------------------
(***************************************************************************)
(* Properties.                                                             *)
(***************************************************************************)

\* Every variable keeps its type: no channel holds more than its capacity, and
\* no gauge goes below zero.
TypeOK == StoreTypeOK /\ HubTypeOK

\* Run took the client from register.
Registered(c) == sync[c] # "none"

\* A message Run owes a client is never dropped in silence: it is on its way,
\* was written, or the client is being disconnected (it will reconnect and
\* ask for the whole document).  A full Send means eviction, not loss.
NoSilentLoss ==
  \A c \in Clients, m \in MsgIds : <<c, m>> \in owed =>
    \/ <<c, m>> \in trying \cup evicting
    \/ \E i \in 1 .. Len(send[c]) : send[c][i] = m
    \/ m \in got[c] \/ Done(c) \/ conn[c] # "open"

\* The gauges count the connections and the rooms there are, though a client
\* may be unregistered by its read pump and by several deliveries.
GaugesExact ==
  /\ conns = Cardinality(UNION {members[d] : d \in Docs})
  /\ roomGauge = Cardinality(rooms)
  /\ rooms = {d \in Docs : members[d] # {}}

\* A client's done channel is closed exactly when it leaves its room, so that
\* nothing is delivered to a client on its way out and no pump outlives it.
DoneIffLeft ==
  \A c \in Clients : Registered(c) => (c \in members[doc[c]] <=> ~Done(c))

\* Whatever doc_id a frame claims, it reaches the other clients of its
\* sender's document and nobody else, and the entries a client is synced
\* with are its document's.
RoomIsolation ==
  \A c \in Clients :
    /\ \A m \in got[c] \ {0} : msgs[m].sender # c /\ doc[msgs[m].sender] = doc[c]
    /\ \A n \in buf[c] : xadds[n].doc = doc[c]

InSeq(x, s) == \E i \in 1 .. Len(s) : s[i] = x

\* The message has yet to reach its stream: a read pump holds it, it is in
\* broadcast or in streamCh, or a stream writer has it.
Held(m) == \E c \in Clients : holding[c] = m
Busy(m) == \E w \in Workers : worker[w] = m
Waiting(m) == Held(m) \/ InSeq(m, broadcast) \/ InSeq(m, streamCh) \/ Busy(m)

IsUpdate(m) == msgs[m].type = "update"
Copies(m) == {n \in EntryIds : origin[n].msg = m}

\* What is appended to a stream is an update a browser of that document sent,
\* and as often as go-redis sent its XADD, at most; and every update that no
\* longer waits is there, unless streamCh had no room for it or its XADD
\* ended in an error.
StreamedUnlessMissed ==
  /\ \A n \in EntryIds :
       LET m == origin[n].msg
       IN  IsUpdate(m) /\ xadds[n].doc = msgs[m].doc /\ xadds[n].payload = msgs[m].payload
  /\ \A m \in MsgIds :
       /\ Cardinality(Copies(m)) <= 1 + (IF Faults THEN MaxRetries ELSE 0)
       /\ IsUpdate(m) /\ ~Waiting(m) => Copies(m) # {} \/ m \in missed

\* Once a connection is lost, or its client evicted, everything it started
\* comes to an end: both pumps, and its place in the room.
TornDown(c) ==
  reader[c] = "closed" /\ writer[c] = "exited" /\ c \notin members[doc[c]]

Teardown ==
  \A c \in Clients : (conn[c] = "broken" \/ Done(c)) ~> TornDown(c)

\* No delivery goroutine stays for ever, whatever becomes of its recipient.
DeliveriesEnd ==
  \A c \in Clients, m \in 1 .. MaxMsgs :
    (<<c, m>> \in trying \cup evicting) ~> (<<c, m>> \notin trying \cup evicting)

\* yjs_test.mjs: clients in one room "converge".  When nothing is under way
\* any more, an open client has every update another client of its document
\* sent: as a frame of its own, or in its sync frame.
Settled ==
  /\ broadcast = <<>> /\ streamCh = <<>> /\ trying = {} /\ evicting = {}
  /\ \A w \in Workers : worker[w] = 0
  /\ \A c \in Clients : holding[c] = 0 /\ sync[c] \in {"none", "over"} /\ send[c] = <<>>

Has(c, m) ==
  \/ m \in got[c]
  \/ 0 \in got[c] /\ \E n \in buf[c] : xadds[n].payload = msgs[m].payload

JoinersConverge ==
  Settled =>
    \A c \in Clients : Registered(c) /\ conn[c] = "open" /\ ~Done(c) =>
      \A m \in MsgIds :
        msgs[m].type = "update" /\ msgs[m].doc = doc[c] /\ msgs[m].sender # c
          => Has(c, m)
=============================================================================
