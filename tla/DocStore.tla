------------------------------ MODULE DocStore ------------------------------
(***************************************************************************)
(* The two stores that hold the Yjs updates of a document, as the collab   *)
(* service uses them: the Redis stream "doc:updates:<doc>", where the hub  *)
(* appends each update, and the array yjs_updates of the document in       *)
(* MongoDB, where the snapshotter moves them.  Redis and MongoDB are not   *)
(* part of the repository: each operator is one atomic command, with the   *)
(* effect the calling code relies on.                                      *)
(*                                                                         *)
(* A stream entry is named by its position in xadds, the list of all XADD  *)
(* commands ever executed; Redis ids grow in the same order and carry the  *)
(* time of the command.  Nothing but the snapshotter's XDEL removes an     *)
(* entry.                                                                  *)
(***************************************************************************)
EXTENDS Naturals, Sequences

CONSTANTS
  Docs,      \* doc_id strings clients may join with
  HexDocs,   \* those primitive.ObjectIDFromHex accepts
  Updates,   \* payloads that are not empty
  Blank      \* the empty payload

ASSUME DocsAssumption == HexDocs \subseteq Docs /\ Blank \notin Updates

VARIABLES
  xadds,     \* every XADD so far: the document, the payload and the time
  stream,    \* stream[d]: ids of the entries now in the stream of d
  docs,      \* documents present in the MongoDB collection
  yjs,       \* yjs[d]: the batches $push appended to yjs_updates, in order;
             \* a batch is the set of its entries, stored in id order
  now        \* the clock (milliseconds, in Redis and in the code)

storeVars == <<xadds, stream, docs, yjs, now>>

Payloads == Updates \cup {Blank}
EntryIds == 1 .. Len(xadds)
XAddRecord == [doc: Docs, payload: Payloads, at: Nat]

StoreTypeOK ==
  /\ xadds \in Seq(XAddRecord)
  /\ stream \in [Docs -> SUBSET EntryIds]
  /\ docs \subseteq HexDocs
  /\ yjs \in [Docs -> Seq(SUBSET EntryIds)]
  /\ now \in Nat
  /\ \A d \in Docs : \A n \in stream[d] : xadds[n].doc = d
  /\ \A d \in Docs \ docs : yjs[d] = <<>>

StoreInit ==
  /\ xadds = <<>>
  /\ stream = [d \in Docs |-> {}]
  /\ docs \in SUBSET HexDocs
  /\ yjs = [d \in Docs |-> <<>>]
  /\ now = 0

IsBlank(n) == xadds[n].payload = Blank

\* Entries that some batch of yjs_updates of d holds.
Written(d) == UNION {yjs[d][i] : i \in 1 .. Len(yjs[d])}

\* The stream keys SCAN finds.  XDEL leaves the key of an emptied stream.
StreamKeys == {xadds[n].doc : n \in EntryIds}

XAdd(d, p) ==
  /\ xadds' = Append(xadds, [doc |-> d, payload |-> p, at |-> now])
  /\ stream' = [stream EXCEPT ![d] = @ \cup {Len(xadds) + 1}]
  /\ UNCHANGED <<docs, yjs, now>>

XDel(d, ids) ==
  /\ stream' = [stream EXCEPT ![d] = @ \ ids]
  /\ UNCHANGED <<xadds, docs, yjs, now>>

\* Mutant of PushEach: the write goes ahead whether a document matches or not.
UpsertEach(d, ids) ==
  /\ yjs' = [yjs EXCEPT ![d] = Append(@, ids)]
  /\ UNCHANGED <<xadds, stream, docs, now>>

\* UpdateOne with $push: no document matches when d is absent, and that is
\* not an error.
PushEach(d, ids) ==
  /\ yjs' = IF d \in docs THEN [yjs EXCEPT ![d] = Append(@, ids)] ELSE yjs
  /\ UNCHANGED <<xadds, stream, docs, now>>

\* DeleteOne of the document service: the array goes, the stream stays.
DeleteOne(d) ==
  /\ docs' = docs \ {d}
  /\ yjs' = [yjs EXCEPT ![d] = <<>>]
  /\ UNCHANGED <<xadds, stream, now>>
=============================================================================
