------------------------------ MODULE Editors ------------------------------
(***************************************************************************)
(* The browsers that edit one document (web/editor.html), over the collab  *)
(* service: whether their Yjs documents become equal while connections     *)
(* break, tabs close and the service restarts.                             *)
(*                                                                         *)
(* A Yjs document is the set of edits it has: updates may be applied in    *)
(* any order and more than once.  The hub is coarser here than in Hub: the *)
(* read pump and Run are one step, and so are the write pump and the       *)
(* browser that receives.  The snapshotter moves all a stream holds in one *)
(* step, which is what Snapshotter comes to in the eyes of a reader.       *)
(***************************************************************************)
EXTENDS Naturals, Sequences, FiniteSets

CONSTANTS
  Pages,       \* editor pages, each with its own tab
  MaxEdits,    \* bound on edits
  SendCap,     \* capacity of a client's Send
  MaxFaults    \* bound on lost connections, closed tabs and errors

ASSUME EditorsAssumption ==
  MaxEdits \in Nat /\ SendCap \in Nat \ {0} /\ MaxFaults \in Nat

VARIABLES
  page,       \* page[p]: "closed", "offline", or "open": it has a socket, and
              \* a client in the room
  ydoc,       \* ydoc[p]: the edits in its Yjs document
  edits,      \* edits made so far
  out,        \* out[p]: frames sent and not read by the hub
  sync,       \* sync[p]: what sendSync does next: "mongo", "redis", "send"
  found,      \* found[p]: the updates it has read
  send,       \* send[p]: the frames in Send
  deliveries, \* the delivery goroutines, as <<page, frame>>
  streaming,  \* frames in streamCh and in the hands of its writers
  stream,     \* the edits in the Redis stream
  mongo,      \* the edits in yjs_updates
  faults,
  ahead,      \* ahead[p]: edits on their way to the stream when p joined (history)
  unstored,   \* edits lost on their way to the stream, and in no store (history)
  missed      \* <<page, edit>>: the page lacks the edit, and its sync did for
              \* a reason (history)

pageVars == <<page, ydoc, edits, out>>
clientVars == <<sync, found, send, deliveries>>
storeVars == <<streaming, stream, mongo>>
notes == <<ahead, unstored, missed>>
vars == <<pageVars, clientVars, storeVars, faults, notes>>

Edits == 1 .. MaxEdits
Frames == (SUBSET Edits) \ {{}}
Stored == stream \cup mongo
OnTheWay == UNION streaming

Init ==
  /\ page = [p \in Pages |-> "closed"] /\ ydoc = [p \in Pages |-> {}]
  /\ edits = 0 /\ out = [p \in Pages |-> <<>>]
  /\ sync = [p \in Pages |-> "none"] /\ found = [p \in Pages |-> {}]
  /\ send = [p \in Pages |-> <<>>] /\ deliveries = {}
  /\ streaming = {} /\ stream = {} /\ mongo = {}
  /\ faults = 0
  /\ ahead = [p \in Pages |-> {}] /\ unstored = {} /\ missed = {}

Fault == faults < MaxFaults /\ faults' = faults + 1

-----------------------------------------------------------------------------
\* The page is loaded: an empty Yjs document, then connectWS.
Load(p) ==
  /\ page[p] = "closed"
  /\ page' = [page EXCEPT ![p] = "offline"]
  /\ UNCHANGED <<ydoc, edits, out, clientVars, storeVars, faults, notes>>

\* ydoc.on('update'): an edit of this page is sent if the socket is open, and
\* otherwise only kept.
Type(p) ==
  /\ page[p] # "closed" /\ edits < MaxEdits
  /\ edits' = edits + 1
  /\ ydoc' = [ydoc EXCEPT ![p] = @ \cup {edits'}]
  /\ out' = IF page[p] = "open" THEN [out EXCEPT ![p] = Append(@, {edits'})] ELSE out
  /\ UNCHANGED <<page, clientVars, storeVars, faults, notes>>

\* The page gets a socket: Run takes its client into the room and starts
\* sendSync.
Join(p) ==
  /\ page[p] = "offline"
  /\ page' = [page EXCEPT ![p] = "open"]
  /\ sync' = [sync EXCEPT ![p] = "mongo"]
  /\ ahead' = [ahead EXCEPT ![p] = OnTheWay]
  /\ missed' = {m \in missed : m[1] # p}

\* Mutant of Connect: a page that connects only waits for the sync.
ConnectSilently(p) ==
  /\ Join(p)
  /\ UNCHANGED <<ydoc, edits, out, found, send, deliveries, storeVars, faults, unstored>>

\* onopen: all the page has is sent again, unless that is nothing.
Connect(p) ==
  /\ Join(p)
  /\ out' = [out EXCEPT ![p] = IF ydoc[p] = {} THEN <<>> ELSE <<ydoc[p]>>]
  /\ UNCHANGED <<ydoc, edits, found, send, deliveries, storeVars, faults, unstored>>

-----------------------------------------------------------------------------
InRoom == {p \in Pages : page[p] = "open"}
Lose(s) == unstored' = unstored \cup (s \ Stored)

\* The read pump and Run: a delivery for everybody else in the room, and the
\* update is offered to streamCh, which may be full.
Receive(p) ==
  /\ out[p] # <<>>
  /\ LET f == Head(out[p]) IN
     /\ deliveries' = deliveries \cup {<<q, f>> : q \in InRoom \ {p}}
     /\ \/ streaming' = streaming \cup {f} /\ UNCHANGED <<unstored, faults>>
        \/ Fault /\ Lose(f) /\ UNCHANGED streaming
  /\ out' = [out EXCEPT ![p] = Tail(@)]
  /\ UNCHANGED <<page, ydoc, edits, sync, found, send, stream, mongo, ahead, missed>>

\* XADD by a stream writer, in any order; its error is ignored.
AppendToStream(f) ==
  /\ f \in streaming
  /\ streaming' = streaming \ {f}
  /\ \/ stream' = stream \cup f /\ unstored' = unstored \ f /\ UNCHANGED faults
     \/ Fault /\ Lose(f) /\ UNCHANGED stream
  /\ UNCHANGED <<pageVars, clientVars, mongo, ahead, missed>>

\* The snapshotter.
Merge ==
  /\ stream # {}
  /\ mongo' = mongo \cup stream /\ stream' = {}
  /\ UNCHANGED <<pageVars, clientVars, streaming, faults, notes>>

\* The sockets of some pages end, and their clients leave: what was on its way
\* is lost (what the read pump still reads, it may as well have read before),
\* and so is what the hub had for them.
Disconnect(P) ==
  /\ page' = [p \in Pages |-> IF p \in P /\ page[p] = "open" THEN "offline" ELSE page[p]]
  /\ out' = [p \in Pages |-> IF p \in P THEN <<>> ELSE out[p]]
  /\ send' = [p \in Pages |-> IF p \in P THEN <<>> ELSE send[p]]
  /\ sync' = [p \in Pages |-> IF p \in P THEN "none" ELSE sync[p]]
  /\ found' = [p \in Pages |-> IF p \in P THEN {} ELSE found[p]]
  /\ ahead' = [p \in Pages |-> IF p \in P THEN {} ELSE ahead[p]]

\* Mutant of Deliver: a client that is slow misses the message.
DeliverOrSkip(d) ==
  /\ d \in deliveries /\ deliveries' = deliveries \ {d}
  /\ send' = IF Len(send[d[1]]) < SendCap
               THEN [send EXCEPT ![d[1]] = Append(@, d[2])] ELSE send
  /\ UNCHANGED <<pageVars, sync, found, storeVars, faults, notes>>

\* A delivery: into Send, or the slow client is unregistered, which closes
\* its socket.
Deliver(d) ==
  /\ d \in deliveries
  /\ LET q == d[1] IN
     IF Len(send[q]) < SendCap
       THEN /\ send' = [send EXCEPT ![q] = Append(@, d[2])]
            /\ deliveries' = deliveries \ {d}
            /\ UNCHANGED <<page, out, sync, found, ahead>>
       ELSE /\ Disconnect({q})
            /\ deliveries' = {e \in deliveries : e[1] # q}
  /\ UNCHANGED <<ydoc, edits, storeVars, faults, unstored, missed>>

\* The write pump, and onmessage: applied as 'remote', so that it is not sent.
Write(p) ==
  /\ send[p] # <<>>
  /\ ydoc' = [ydoc EXCEPT ![p] = @ \cup Head(send[p])]
  /\ send' = [send EXCEPT ![p] = Tail(@)]
  /\ missed' = missed \ ({p} \X Head(send[p]))
  /\ UNCHANGED <<page, edits, out, sync, found, deliveries, storeVars, faults, ahead, unstored>>

-----------------------------------------------------------------------------
SyncTo(p, from, to) == sync[p] = from /\ sync' = [sync EXCEPT ![p] = to]
Misses(p, s) == missed' = missed \cup ({p} \X (s \ ydoc[p]))

\* sendSync: FindOne, ...
SyncMongo(p) ==
  /\ SyncTo(p, "mongo", "redis")
  /\ \/ found' = [found EXCEPT ![p] = mongo] /\ UNCHANGED <<missed, faults>>
     \/ Fault /\ Misses(p, mongo) /\ UNCHANGED found
  /\ UNCHANGED <<pageVars, send, deliveries, storeVars, ahead, unstored>>

\* ... XRANGE, which misses what has gone from the stream to MongoDB since,
\* and what was broadcast before the client joined and is not yet appended, ...
SyncRedis(p) ==
  /\ SyncTo(p, "redis", "send")
  /\ \/ /\ found' = [found EXCEPT ![p] = @ \cup stream] /\ UNCHANGED faults
        /\ Misses(p, (mongo \ found[p]) \cup (ahead[p] \cap OnTheWay))
     \/ Fault /\ Misses(p, (mongo \ found[p]) \cup (ahead[p] \cap OnTheWay) \cup stream)
        /\ UNCHANGED found
  /\ ahead' = [ahead EXCEPT ![p] = {}]
  /\ UNCHANGED <<pageVars, send, deliveries, storeVars, unstored>>

\* Mutant of SyncSend: a sync that found nothing is sent too.
SyncSendEmpty(p) ==
  /\ SyncTo(p, "send", "none")
  /\ found' = [found EXCEPT ![p] = {}]
  /\ IF Len(send[p]) < SendCap
       THEN send' = [send EXCEPT ![p] = Append(@, found[p])] /\ UNCHANGED missed
       ELSE Misses(p, found[p]) /\ UNCHANGED send
  /\ UNCHANGED <<pageVars, deliveries, storeVars, faults, ahead, unstored>>

\* ... and the sync frame, which a full Send does without.
SyncSend(p) ==
  /\ SyncTo(p, "send", "none")
  /\ found' = [found EXCEPT ![p] = {}]
  /\ IF found[p] = {} THEN UNCHANGED <<send, missed>>
     ELSE IF Len(send[p]) < SendCap
       THEN send' = [send EXCEPT ![p] = Append(@, found[p])] /\ UNCHANGED missed
       ELSE Misses(p, found[p]) /\ UNCHANGED send
  /\ UNCHANGED <<pageVars, deliveries, storeVars, faults, ahead, unstored>>

-----------------------------------------------------------------------------
\* The network; onclose, and connectWS again after 3 s.
Drop(p) ==
  /\ page[p] = "open" /\ Fault
  /\ Disconnect({p}) /\ deliveries' = {d \in deliveries : d[1] # p}
  /\ UNCHANGED <<ydoc, edits, storeVars, unstored, missed>>

\* The tab is closed, and its Yjs document is gone.
CloseTab(p) ==
  /\ page[p] # "closed" /\ Fault
  /\ page' = [page EXCEPT ![p] = "closed"]
  /\ ydoc' = [ydoc EXCEPT ![p] = {}]
  /\ out' = [out EXCEPT ![p] = <<>>] /\ send' = [send EXCEPT ![p] = <<>>]
  /\ sync' = [sync EXCEPT ![p] = "none"] /\ found' = [found EXCEPT ![p] = {}]
  /\ deliveries' = {d \in deliveries : d[1] # p}
  /\ ahead' = [ahead EXCEPT ![p] = {}] /\ missed' = {m \in missed : m[1] # p}
  /\ UNCHANGED <<edits, storeVars, unstored>>

\* The collab service restarts: streamCh is gone, Redis and MongoDB are not.
RestartHub ==
  /\ Fault
  /\ Disconnect(Pages) /\ deliveries' = {}
  /\ streaming' = {} /\ Lose(OnTheWay)
  /\ UNCHANGED <<ydoc, edits, stream, mongo, missed>>

\* Nothing is under way, and no page is offline.
Quiet ==
  /\ deliveries = {} /\ streaming = {}
  /\ \A p \in Pages :
       /\ page[p] # "offline" /\ out[p] = <<>>
       /\ send[p] = <<>> /\ sync[p] = "none"

\* Nothing need happen any more.
Settled == Quiet /\ UNCHANGED vars

Syncing == \E p \in Pages : SyncMongo(p) \/ SyncRedis(p) \/ SyncSend(p)
Passing ==
  \/ \E p \in Pages : Receive(p) \/ Write(p)
  \/ \E d \in deliveries : Deliver(d)
  \/ \E f \in streaming : AppendToStream(f)

Next ==
  \/ Syncing \/ Passing \/ Merge
  \/ \E p \in Pages : Load(p) \/ Connect(p) \/ Type(p) \/ Drop(p) \/ CloseTab(p)
  \/ RestartHub \/ Settled

Spec == Init /\ [][Next]_vars

-----------------------------------------------------------------------------
(***************************************************************************)
(* Properties.                                                             *)
(***************************************************************************)

\* Every variable keeps its type: only a page that is open has frames on
\* their way, a place in the room or a sync.
TypeOK ==
  /\ page \in [Pages -> {"closed", "offline", "open"}]
  /\ ydoc \in [Pages -> SUBSET Edits] /\ edits \in 0 .. MaxEdits
  /\ out \in [Pages -> Seq(Frames)] /\ send \in [Pages -> Seq(Frames)]
  /\ sync \in [Pages -> {"none", "mongo", "redis", "send"}]
  /\ \A p \in Pages \ InRoom : out[p] = <<>> /\ send[p] = <<>> /\ sync[p] = "none"
  /\ found \in [Pages -> SUBSET Edits]
  /\ \A p \in Pages : Len(send[p]) <= SendCap /\ (sync[p] = "none" => found[p] = {})
  /\ deliveries \subseteq InRoom \X Frames /\ streaming \subseteq Frames
  /\ stream \subseteq Edits /\ mongo \subseteq Edits
  /\ faults \in 0 .. MaxFaults /\ ahead \in [Pages -> SUBSET Edits]
  /\ missed \subseteq Pages \X Edits /\ unstored \subseteq Edits \ Stored

\* Whatever was edited offline, broadcast to slow clients or lost with a
\* connection: once nothing is under way, two open pages differ only in edits
\* that never reached the stream, or that a sync lacked because it was torn
\* by the snapshotter, overtaken by a stream writer, cut short by an error, or
\* dropped at a full Send.
ConvergedUnlessMissed ==
  Quiet => \A p, q \in Pages : \A n \in ydoc[q] \ ydoc[p] :
    page[p] = "open" /\ page[q] = "open" =>
      <<p, n>> \in missed \/ n \in unstored

\* Once nothing is under way, a page that is open has no edit of which the
\* stores know nothing, unless streamCh or XADD lost it: what was edited
\* offline is sent when the page connects again.
StoredUnlessLost ==
  Quiet => \A p \in Pages : page[p] = "open" => ydoc[p] \subseteq Stored \cup unstored
=============================================================================
