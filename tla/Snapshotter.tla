---------------------------- MODULE Snapshotter ----------------------------
(***************************************************************************)
(* The snapshotter of collab-service (stream/snapshotter.go).  Every       *)
(* checkInterval it scans the streams and merges each one that is idle, or *)
(* whose oldest entry has waited for fallbackTimeout, into the document:   *)
(* XRANGE, then $push, then XDEL of the ids it read.  Each command is a    *)
(* step, so that XADDs of the hub, deletions of documents, errors and a    *)
(* restart of the process fall between any two of them.                    *)
(***************************************************************************)
EXTENDS DocStore, FiniteSets

CONSTANTS         \* durations, in units of the clock
  IdleTimeout,      \* idleTimeout
  FallbackTimeout,  \* fallbackTimeout
  CheckInterval,    \* checkInterval
  CheckTime,        \* a check whose commands succeed ends within CheckTime of
                    \* its tick; any value not below CheckInterval means: it
                    \* takes as it takes
  MaxTime,          \* bound on the clock
  MaxAdds,          \* bound on the number of XADDs
  MaxFaults         \* bound on errors and restarts

ASSUME TimeAssumption ==
  /\ IdleTimeout \in Nat /\ FallbackTimeout \in Nat
  /\ CheckInterval \in Nat \ {0} /\ CheckTime \in Nat
  /\ MaxTime \in Nat /\ MaxAdds \in Nat /\ MaxFaults \in Nat

VARIABLES
  pc,       \* the command the snapshotter sends next
  fired,    \* the ticker's channel (of capacity 1) holds a tick
  left,     \* time until the ticker fires
  todo,     \* keys the SCAN iterator has yet to return
  cur,      \* the document at hand
  oldest,   \* id read by XRANGE COUNT 1
  batch,    \* ids read by XRANGE
  faults    \* errors and restarts so far

snapVars == <<pc, fired, left, todo, cur, oldest, batch, faults>>
vars == <<storeVars, snapVars>>

PCs == {"wait", "scan", "oldest", "latest", "range", "push", "del"}

SnapTypeOK ==
  /\ pc \in PCs
  /\ fired \in BOOLEAN
  /\ left \in 1 .. CheckInterval
  /\ todo \subseteq Docs
  /\ cur \in Docs
  /\ oldest \in Nat
  /\ batch \subseteq EntryIds
  /\ faults \in Nat

SnapInit ==
  /\ pc = "wait"
  /\ fired = FALSE
  /\ left = CheckInterval
  /\ todo = {}
  /\ cur \in Docs
  /\ oldest = 0
  /\ batch = {}
  /\ faults = 0

MaxId(S) == CHOOSE n \in S : \A m \in S : m <= n

\* parseStreamTime: the time an entry was added is the front of its id.
AgeOf(n) == now - xadds[n].at

\* Mutant of ShouldMerge: no fallback for a stream that is never idle.
IdleOnly(first, last) == AgeOf(last) >= IdleTimeout

\* The decision of checkAndMerge on the ids of the oldest and latest entry.
ShouldMerge(first, last) ==
  \/ AgeOf(last) >= IdleTimeout
  \/ AgeOf(first) >= FallbackTimeout

\* Entries of the batch whose payload goes into the document.
ToPush(ids) == {n \in ids : ~IsBlank(n)}

-----------------------------------------------------------------------------
\* The loop of Start: a tick begins a scan of the keys.
StartScan ==
  /\ pc = "wait" /\ fired
  /\ pc' = "scan"
  /\ fired' = FALSE
  /\ todo' = StreamKeys
  /\ UNCHANGED <<storeVars, left, cur, oldest, batch, faults>>

NextKey(d) ==
  /\ pc = "scan" /\ d \in todo
  /\ pc' = "oldest"
  /\ todo' = todo \ {d}
  /\ cur' = d
  /\ UNCHANGED <<storeVars, fired, left, oldest, batch, faults>>

ScanDone ==
  /\ pc = "scan" /\ todo = {}
  /\ pc' = "wait"
  /\ UNCHANGED <<storeVars, fired, left, todo, cur, oldest, batch, faults>>

\* XRANGE - + COUNT 1; an empty stream is skipped.
ReadOldest ==
  /\ pc = "oldest"
  /\ \/ stream[cur] = {} /\ pc' = "scan" /\ UNCHANGED oldest
     \/ \E n \in stream[cur] : /\ \A m \in stream[cur] : n <= m
                              /\ pc' = "latest" /\ oldest' = n
  /\ UNCHANGED <<storeVars, fired, left, todo, cur, batch, faults>>

\* XREVRANGE + - COUNT 1, then the clock is read and the two ages compared.
ReadLatest ==
  /\ pc = "latest"
  /\ pc' = IF stream[cur] # {} /\ ShouldMerge(oldest, MaxId(stream[cur]))
             THEN "range" ELSE "scan"
  /\ UNCHANGED <<storeVars, fired, left, todo, cur, oldest, batch, faults>>

\* Mutant of ReadRange: the newest entry is taken for the whole stream.
ReadNewest ==
  /\ pc = "range"
  /\ IF cur \in HexDocs /\ ToPush(stream[cur]) # {}
       THEN pc' = "push" /\ batch' = {MaxId(ToPush(stream[cur]))}
       ELSE pc' = "scan" /\ UNCHANGED batch
  /\ UNCHANGED <<storeVars, fired, left, todo, cur, oldest, faults>>

\* mergeStream up to the write: an empty stream, an id that is no ObjectID
\* and a stream of blank payloads each end the merge, the entries staying.
ReadRange ==
  /\ pc = "range"
  /\ IF cur \in HexDocs /\ ToPush(stream[cur]) # {}
       THEN pc' = "push" /\ batch' = stream[cur]
       ELSE pc' = "scan" /\ UNCHANGED batch
  /\ UNCHANGED <<storeVars, fired, left, todo, cur, oldest, faults>>

Push ==
  /\ pc = "push"
  /\ PushEach(cur, ToPush(batch))
  /\ pc' = "del"
  /\ UNCHANGED <<fired, left, todo, cur, oldest, batch, faults>>

\* Mutants of Delete: the stream is emptied, read or not; nothing is deleted.
DeleteStream ==
  /\ pc = "del"
  /\ XDel(cur, stream[cur])
  /\ pc' = "scan"
  /\ batch' = {}
  /\ UNCHANGED <<fired, left, todo, cur, oldest, faults>>

DeleteNothing ==
  /\ pc = "del"
  /\ pc' = "scan"
  /\ batch' = {}
  /\ UNCHANGED <<storeVars, fired, left, todo, cur, oldest, faults>>

Delete ==
  /\ pc = "del"
  /\ XDel(cur, batch)
  /\ pc' = "scan"
  /\ batch' = {}
  /\ UNCHANGED <<fired, left, todo, cur, oldest, faults>>

-----------------------------------------------------------------------------
\* Errors.  Each counts as a fault.
Fault == faults < MaxFaults /\ faults' = faults + 1

\* A failed SCAN ends the iteration.
ScanFails ==
  /\ pc = "scan" /\ todo # {} /\ Fault
  /\ pc' = "wait"
  /\ todo' = {}
  /\ UNCHANGED <<storeVars, fired, left, cur, oldest, batch>>

\* A failed read of a stream skips it until the next scan.
ReadFails ==
  /\ pc \in {"oldest", "latest", "range"} /\ Fault
  /\ pc' = "scan"
  /\ UNCHANGED <<storeVars, fired, left, todo, cur, oldest, batch>>

\* Mutant of PushFails: the error is logged, and XDEL follows.
PushFailsTrims ==
  /\ pc = "push" /\ Fault
  /\ PushEach(cur, ToPush(batch)) \/ UNCHANGED storeVars
  /\ pc' = "del"
  /\ UNCHANGED <<fired, left, todo, cur, oldest, batch>>

\* UpdateOne reports an error; the server may have applied it all the same.
PushFails ==
  /\ pc = "push" /\ Fault
  /\ PushEach(cur, ToPush(batch)) \/ UNCHANGED storeVars
  /\ pc' = "scan"
  /\ batch' = {}
  /\ UNCHANGED <<fired, left, todo, cur, oldest>>

\* The error of XDEL is ignored.
DeleteFails ==
  /\ pc = "del" /\ Fault
  /\ pc' = "scan"
  /\ batch' = {}
  /\ UNCHANGED <<storeVars, fired, left, todo, cur, oldest>>

\* The process stops, without draining anything (main passes a context that
\* is never cancelled), and a new one starts.
Restart ==
  /\ Fault
  /\ pc' = "wait"
  /\ fired' = FALSE
  /\ left' = CheckInterval
  /\ todo' = {}
  /\ batch' = {}
  /\ UNCHANGED <<storeVars, cur, oldest>>

-----------------------------------------------------------------------------
\* The environment: the hub's stream writers, the document service, time.

\* Each check ends before the next tick, until a command fails: it may fail by
\* a timeout of any length.
ChecksEnd == CheckTime < CheckInterval

Append1(d, p) ==
  /\ Len(xadds) < MaxAdds
  /\ now + FallbackTimeout <= MaxTime
  /\ XAdd(d, p)
  /\ UNCHANGED snapVars

RemoveDoc(d) ==
  /\ d \in docs
  /\ DeleteOne(d)
  /\ UNCHANGED snapVars

\* The time since the last tick.
SinceTick == CheckInterval - left

\* A check is due or under way.
Busy == pc # "wait" \/ fired

\* A unit of time passes.  The clock stops at its bound, where every entry has
\* waited for fallbackTimeout; the ticker does not.
Tick ==
  /\ ChecksEnd /\ faults = 0 /\ Busy => SinceTick < CheckTime
  /\ now' = IF now < MaxTime THEN now + 1 ELSE now
  /\ left' = IF left = 1 THEN CheckInterval ELSE left - 1
  /\ fired' = (fired \/ left = 1)
  /\ UNCHANGED <<xadds, stream, docs, yjs, pc, todo, cur, oldest, batch, faults>>

Check ==
  \/ StartScan \/ ScanDone \/ (\E d \in Docs : NextKey(d))
  \/ ReadOldest \/ ReadLatest \/ ReadRange \/ Push \/ Delete

Failure == ScanFails \/ ReadFails \/ PushFails \/ DeleteFails \/ Restart

Environment ==
  \/ \E d \in Docs, p \in Payloads : Append1(d, p)
  \/ \E d \in Docs : RemoveDoc(d)
  \/ Tick

Init == StoreInit /\ SnapInit
Next == Check \/ Failure \/ Environment
Spec == Init /\ [][Next]_vars

\* Start never returns and its commands end (with a result or an error); the
\* ticker goes on.  Faults are finite in number, and nothing is asked of the
\* hub and of the document service.
FairSpec == Spec /\ WF_vars(Check) /\ WF_vars(Tick)

-----------------------------------------------------------------------------
(***************************************************************************)
(* Properties.                                                             *)
(***************************************************************************)

\* Every variable keeps its type: ids name commands that were executed, and
\* only documents that exist in MongoDB have an _id that parses.
TypeOK == StoreTypeOK /\ SnapTypeOK

\* A document whose updates must be kept: one in the collection, or one the
\* snapshotter cannot write because its id is no ObjectID.
Live(d) == d \in HexDocs => d \in docs

\* The updates a client that joins d would be sent.
Accepted(d) == {n \in stream[d] \cup Written(d) : ~IsBlank(n)}

\* Moving an update from the stream to the document never loses it: whatever
\* errors or restarts fall between XRANGE, $push and XDEL, each update ever
\* appended for a live document is in its stream or in its yjs_updates
\* (mergeStream writes before it deletes, and deletes only the ids it read).
NoLostUpdate ==
  \A n \in EntryIds :
    ~IsBlank(n) /\ Live(xadds[n].doc) => n \in Accepted(xadds[n].doc)

\* yjs_updates can be replayed front to back: an update is never stored
\* ahead of an earlier one of its document, whether that one is still in the
\* stream or in a later batch (mergeStream reads the stream from its start).
ReplayInOrder ==
  \A d \in Docs : \A i \in 1 .. Len(yjs[d]) : \A n \in yjs[d][i] : \A m \in 1 .. n :
    xadds[m].doc = d /\ ~IsBlank(m) => \E j \in 1 .. i : m \in yjs[d][j]

\* Merging is at-least-once, and no worse: an update is stored again only for
\* an error or a restart between its $push and its XDEL.
DuplicatesBoundedByFaults ==
  \A d \in Docs : \A n \in Written(d) :
    Cardinality({i \in 1 .. Len(yjs[d]) : n \in yjs[d][i]}) <= 1 + faults

\* However steadily clients keep typing, so that the stream is never idle, an
\* update of a document in the collection leaves it in less than
\* fallbackTimeout + checkInterval and what a check takes: the check before
\* may just miss it.  Provided that no command fails, and that each check ends
\* before the next tick.
BoundedStaleness ==
  ChecksEnd /\ faults = 0 =>
    \A d \in docs : \A n \in stream[d] :
      ~IsBlank(n) => AgeOf(n) < FallbackTimeout + CheckInterval + CheckTime

\* Every update of a document in the collection is written to it at last,
\* after however many errors and restarts, unless the document is deleted.
EventuallyPersisted ==
  \A n \in 1 .. MaxAdds, d \in HexDocs :
    (n \in EntryIds /\ xadds[n].doc = d /\ ~IsBlank(n))
      ~> (n \in Written(d) \/ d \notin docs)

\* Seen from outside, a document's updates are one append-only log: merges,
\* errors and restarts are invisible in it.
Log == INSTANCE UpdateLog
         WITH Numbers <- 1 .. MaxAdds,
              log <- [d \in Docs |-> IF Live(d) THEN Accepted(d) ELSE {}]
ImplementsUpdateLog == Log!Spec
=============================================================================
