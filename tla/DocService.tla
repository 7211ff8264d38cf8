----------------------------- MODULE DocService -----------------------------
(***************************************************************************)
(* The document service (doc-service/service/doc.go): documents in         *)
(* MongoDB, their details cached in Redis under "doc:meta:<id>" for        *)
(* cacheTTL, and an index message in RabbitMQ for each write.  Calls run   *)
(* concurrently; a step is one command to a store.  The cache is filled by *)
(* readers and emptied by writers, and every error of it is swallowed.  The *)
(* gateway gives a call 5s: then what it has yet to send fails.  A process *)
(* that could not reach Redis when it started has no cache, and leaves the *)
(* entries as they are.                                                    *)
(***************************************************************************)
EXTENDS Naturals, Sequences

CONSTANTS
  Calls,     \* gRPC calls, each served once
  DocIds, Users, Titles, Contents,
  Times,     \* what clocks read, as RFC 3339 writes it
  Keep,      \* the empty title of an UpdateDoc that renames nothing
  Empty,     \* the content of a new document
  Absent,    \* no document, no cache entry
  NoRequest, \* the request of a call that has not started
  MaxErrors  \* bound on the commands that fail

ASSUME DocAssumption ==
  MaxErrors \in Nat /\ Keep \notin Titles /\ Empty \in Contents

\* DocDetail, without created_at, which never changes.
Detail == [title : Titles, content : Contents, owner : Users,
           collaborators : SUBSET Users, updated : Times]

\* What the routes of the gateway ask for: a title is required to create a
\* document, and optional when it is saved.
CreateDocRequest == [op : {"create"}, doc : DocIds, user : Users, title : Titles]
GetDocRequest    == [op : {"get"}, doc : DocIds]
UpdateDocRequest == [op : {"update"}, doc : DocIds, title : Titles \cup {Keep},
                     content : Contents]
ShareDocRequest  == [op : {"share"}, doc : DocIds, user : Users, with : Users]
DeleteDocRequest == [op : {"delete"}, doc : DocIds, user : Users]  \* no route
Request == CreateDocRequest \cup GetDocRequest \cup UpdateDocRequest
           \cup ShareDocRequest \cup DeleteDocRequest

IndexMessage == [doc : DocIds, title : Titles, content : Contents]

VARIABLES
  coll,       \* the collection: DocIds -> Detail or Absent
  used,       \* ids InsertOne has handed out
  cache,      \* the cache: DocIds -> Detail or Absent
  queue,      \* index messages published, in order
  pc,         \* pc[c]: the command call c sends next
  req,        \* req[c]: its request
  detail,     \* detail[c]: the document it has read
  cached,     \* the process has its cache: rdb is not nil
  stale,      \* entries that were behind the document when set, or that a
              \* process without its cache left (history)
  dated,      \* entries whose updated_at was, or that a merge left (history)
  overlapped, \* documents on which two calls have overlapped (history)
  errors,     \* how many commands have failed (history)
  ended       \* the process has ended during a call (history)

cacheVars == <<cache, cached, stale, dated>>
vars == <<coll, used, cacheVars, queue, pc, req, detail, overlapped, errors, ended>>

Init ==
  /\ coll \in [DocIds -> {Absent} \cup [title : Titles, content : {Empty},
                                        owner : Users, collaborators : {{}},
                                        updated : Times]]
  /\ used = {d \in DocIds : coll[d] # Absent}
  /\ cache = [d \in DocIds |-> Absent]
  /\ queue = <<>>
  /\ pc = [c \in Calls |-> "idle"]
  /\ req = [c \in Calls |-> NoRequest]
  /\ detail = [c \in Calls |-> Absent]
  /\ cached \in BOOLEAN /\ stale = {} /\ dated = {}
  /\ overlapped = {} /\ errors = 0 /\ ended = FALSE

Id(c) == req[c].doc
Doc(c) == coll[Id(c)]
Running(d) == {c \in Calls : pc[c] \notin {"idle", "done"} /\ Id(c) = d}

Step(c, from, to) == pc[c] = from /\ pc' = [pc EXCEPT ![c] = to]

\* The error of a command; the call goes on at `to`.
Fails(c, from, to) == errors < MaxErrors /\ errors' = errors + 1 /\ Step(c, from, to)

-----------------------------------------------------------------------------
\* A request arrives.  InsertOne finds an id nobody has seen.
Begin(c, r) ==
  /\ r.op = "create" => r.doc \notin used
  /\ Step(c, "idle", IF r.op = "create" THEN "insert"
                     ELSE IF r.op = "get" THEN "get" ELSE "write")
  /\ req' = [req EXCEPT ![c] = r]
  /\ used' = used \cup {r.doc}
  /\ overlapped' = IF Running(r.doc) = {} THEN overlapped ELSE overlapped \cup {r.doc}
  /\ UNCHANGED <<coll, cacheVars, queue, detail, errors, ended>>

NewDoc(c, t) == [title |-> req[c].title, content |-> Empty, owner |-> req[c].user,
                 collaborators |-> {}, updated |-> t]

\* InsertOne of CreateDoc; an error ends the call, carried out or not.
Insert(c) ==
  /\ \E t \in Times : LET inserted == [coll EXCEPT ![Id(c)] = NewDoc(c, t)] IN
       \/ /\ Step(c, "insert", "publish")
          /\ coll' = inserted /\ detail' = [detail EXCEPT ![c] = NewDoc(c, t)]
          /\ UNCHANGED errors
       \/ Fails(c, "insert", "done") /\ coll' \in {coll, inserted} /\ UNCHANGED detail
  /\ UNCHANGED <<used, cacheVars, queue, req, overlapped, ended>>

\* UpdateDoc's filter is the id; that nothing matched is no error to it.
\* DeleteDoc's and ShareDoc's filters name the owner too.
Matches(c) == Doc(c) # Absent /\ (req[c].op = "update" \/ Doc(c).owner = req[c].user)

\* What UpdateOne at time t, DeleteOne or $addToSet makes of the document.
Outcome(c, t) ==
  IF ~Matches(c) THEN Doc(c)
  ELSE IF req[c].op = "update"
    THEN [Doc(c) EXCEPT !.content = req[c].content, !.updated = t,
                        !.title = IF req[c].title = Keep THEN @ ELSE req[c].title]
  ELSE IF req[c].op = "share"
    THEN [Doc(c) EXCEPT !.collaborators = @ \cup {req[c].with}]
  ELSE Absent

\* Mutant of Write: a share leaves the cache alone.
WriteKeepingShared(c) ==
  /\ Step(c, "write", IF req[c].op = "update" \/ (req[c].op = "delete" /\ Matches(c))
                        THEN "del" ELSE "done")
  /\ \E t \in Times : coll' = [coll EXCEPT ![Id(c)] = Outcome(c, t)]
  /\ UNCHANGED <<used, cacheVars, queue, req, detail, overlapped, errors, ended>>

\* Without a match DeleteDoc reports no success and ShareDoc an error, and
\* neither touches the cache.
Write(c) ==
  /\ Step(c, "write", IF req[c].op = "update" \/ Matches(c) THEN "del" ELSE "done")
  /\ \E t \in Times : coll' = [coll EXCEPT ![Id(c)] = Outcome(c, t)]
  /\ UNCHANGED <<used, cacheVars, queue, req, detail, overlapped, errors, ended>>

\* The command reports an error, and may have been carried out before.
WriteFails(c) ==
  /\ Fails(c, "write", "done")
  /\ \E t \in Times : coll' \in {coll, [coll EXCEPT ![Id(c)] = Outcome(c, t)]}
  /\ UNCHANGED <<used, cacheVars, queue, req, detail, overlapped, ended>>

\* cacheDel; its error is ignored.  UpdateDoc goes on with GetDoc.
CacheDel(c) ==
  LET next == IF req[c].op = "update" THEN "get" ELSE "done" IN
  /\ pc[c] = "del"
  /\ \/ /\ cached /\ Step(c, "del", next)
        /\ cache' = [cache EXCEPT ![Id(c)] = Absent]
        /\ stale' = stale \ {Id(c)} /\ dated' = dated \ {Id(c)}
        /\ UNCHANGED errors
     \/ /\ ~cached /\ Step(c, "del", next)
        /\ stale' = IF cache[Id(c)] = Absent THEN stale ELSE stale \cup {Id(c)}
        /\ UNCHANGED <<cache, dated, errors>>
     \/ cached /\ Fails(c, "del", next) /\ UNCHANGED <<cache, stale, dated>>
  /\ UNCHANGED <<coll, used, cached, queue, req, detail, overlapped, ended>>

\* Where GetDoc returns to with a document: UpdateDoc then publishes.
Reply(c) == IF req[c].op = "update" THEN "publish" ELSE "done"

\* cacheGet; an error counts as a miss.
CacheGet(c) ==
  /\ pc[c] = "get"
  /\ \/ /\ cached /\ cache[Id(c)] # Absent /\ Step(c, "get", Reply(c))
        /\ detail' = [detail EXCEPT ![c] = cache[Id(c)]]
        /\ UNCHANGED errors
     \/ /\ ~cached \/ cache[Id(c)] = Absent
        /\ Step(c, "get", "find") /\ UNCHANGED <<detail, errors>>
     \/ cached /\ Fails(c, "get", "find") /\ UNCHANGED detail
  /\ UNCHANGED <<coll, used, cacheVars, queue, req, overlapped, ended>>

\* FindOne; a document that is absent and an error end the call.
FindOne(c) ==
  /\ pc[c] = "find"
  /\ \/ /\ Doc(c) # Absent /\ Step(c, "find", "set")
        /\ detail' = [detail EXCEPT ![c] = Doc(c)]
        /\ UNCHANGED errors
     \/ Doc(c) = Absent /\ Step(c, "find", "done") /\ UNCHANGED <<detail, errors>>
     \/ Fails(c, "find", "done") /\ UNCHANGED detail
  /\ UNCHANGED <<coll, used, cacheVars, queue, req, overlapped, ended>>

\* a and b are the same document, but for updated_at.
Same(a, b) ==
  \/ a = b
  \/ /\ {a, b} \subseteq Detail
     /\ \A f \in {"title", "content", "owner", "collaborators"} : a[f] = b[f]

\* cacheSet of what FindOne read, however long ago; an error is logged.
CacheSet(c) ==
  /\ pc[c] = "set"
  /\ \/ /\ cached /\ Step(c, "set", Reply(c))
        /\ cache' = [cache EXCEPT ![Id(c)] = detail[c]]
        /\ stale' = IF Same(detail[c], Doc(c)) THEN stale \ {Id(c)} ELSE stale \cup {Id(c)}
        /\ dated' = IF detail[c] = Doc(c) THEN dated \ {Id(c)} ELSE dated \cup {Id(c)}
        /\ UNCHANGED errors
     \/ ~cached /\ Step(c, "set", Reply(c)) /\ UNCHANGED <<cache, stale, dated, errors>>
     \/ cached /\ Fails(c, "set", Reply(c)) /\ UNCHANGED <<cache, stale, dated>>
  /\ UNCHANGED <<coll, used, cached, queue, req, detail, overlapped, ended>>

\* Mutant of Message: the title as requested, which is empty for no change.
MessageAsRequested(c) ==
  [doc |-> Id(c), title |-> req[c].title,
   content |-> IF req[c].op = "create" THEN Empty ELSE req[c].content]

\* The title comes from the document read back, the content from the request
\* (CreateDoc publishes the document it made).
Message(c) ==
  [doc |-> Id(c), title |-> detail[c].title,
   content |-> IF req[c].op = "create" THEN Empty ELSE req[c].content]

\* Publish; its error is logged.
Publish(c) ==
  /\ \/ Step(c, "publish", "done") /\ queue' = Append(queue, Message(c)) /\ UNCHANGED errors
     \/ Fails(c, "publish", "done") /\ UNCHANGED queue
  /\ UNCHANGED <<coll, used, cacheVars, req, detail, overlapped, ended>>

\* cacheTTL runs out.
Expire(d) ==
  /\ cache[d] # Absent
  /\ cache' = [cache EXCEPT ![d] = Absent]
  /\ stale' = stale \ {d} /\ dated' = dated \ {d}
  /\ UNCHANGED <<coll, used, cached, queue, pc, req, detail, overlapped, errors, ended>>

\* The snapshotter merges updates into the document: its $set of updated_at
\* is not followed by a cacheDel.
Snapshot(d) ==
  /\ coll[d] # Absent
  /\ \E t \in Times :
       /\ coll' = [coll EXCEPT ![d].updated = t]
       /\ dated' = IF cache[d] = Absent \/ cache[d].updated = t THEN dated ELSE dated \cup {d}
  /\ UNCHANGED <<used, cache, cached, stale, queue, pc, req, detail, overlapped, errors, ended>>

\* The process ends, and with it the calls it serves; what they have written
\* stays.  The next one has a cache if Redis answers its ping.
Crash ==
  LET served == {c \in Calls : pc[c] \notin {"idle", "done"}} IN
  /\ served # {}
  /\ pc' = [c \in Calls |-> IF c \in served THEN "done" ELSE pc[c]]
  /\ ended' = TRUE
  /\ cached' \in BOOLEAN
  /\ UNCHANGED <<coll, used, cache, stale, dated, queue, req, detail, overlapped, errors>>

\* It ends between two calls.
Restart ==
  /\ \A c \in Calls : pc[c] \in {"idle", "done"}
  /\ cached' \in BOOLEAN
  /\ UNCHANGED <<coll, used, cache, stale, dated, queue, pc, req, detail, overlapped, errors, ended>>

Serve(c) ==
  \/ Insert(c) \/ Write(c) \/ WriteFails(c) \/ CacheDel(c) \/ CacheGet(c)
  \/ FindOne(c) \/ CacheSet(c) \/ Publish(c)

\* Every call was served; the service waits for ever.
Served == (\A c \in Calls : pc[c] = "done") /\ UNCHANGED vars

Next ==
  \/ Served
  \/ \E c \in Calls : Serve(c) \/ \E r \in Request : Begin(c, r)
  \/ Crash \/ Restart \/ \E d \in DocIds : Expire(d) \/ Snapshot(d)

Spec == Init /\ [][Next]_vars

-----------------------------------------------------------------------------
(***************************************************************************)
(* Properties.                                                             *)
(***************************************************************************)

\* Every variable keeps its type: what is cached and published is complete.
TypeOK ==
  /\ coll \in [DocIds -> Detail \cup {Absent}]
  /\ used \subseteq DocIds
  /\ cache \in [DocIds -> Detail \cup {Absent}]
  /\ queue \in Seq(IndexMessage)
  /\ pc \in [Calls -> {"idle", "insert", "write", "del", "get", "find", "set",
                       "publish", "done"}]
  /\ req \in [Calls -> Request \cup {NoRequest}]
  /\ detail \in [Calls -> Detail \cup {Absent}]
  /\ cached \in BOOLEAN /\ stale \subseteq DocIds /\ dated \subseteq DocIds
  /\ overlapped \subseteq DocIds
  /\ errors \in Nat /\ ended \in BOOLEAN

Explained(d) ==
  cache[d] # Absent =>
    \/ \E c \in Running(d) : pc[c] = "del"
    \/ /\ d \notin stale => Same(cache[d], coll[d])
       /\ d \notin stale \cup dated => cache[d] = coll[d]

\* While no command fails and no call is cut short, the cache serves what is
\* no longer in the collection (an old title, a deleted document) in three
\* cases only: a writer is about to delete the entry, a reader set it from a
\* FindOne older than the last write, or a process without its cache wrote the
\* document and left the entry.  A merge since then shows in updated_at alone.
StaleOnlyByRace == errors = 0 /\ ~ended => \A d \in DocIds : Explained(d)

\* Where calls on a document do not overlap, and none fails or is cut short,
\* UpdateDoc answers with the document as it now is, but for what a merge made
\* of updated_at, and the last index message has its title and content.
LastMessage(d) == CHOOSE i \in 1 .. Len(queue) :
  queue[i].doc = d /\ \A j \in i + 1 .. Len(queue) : queue[j].doc # d

SerialCallsAgree ==
  errors = 0 /\ ~ended =>
    \A d \in DocIds \ overlapped :
      /\ \A c \in Running(d) : pc[c] = "publish" => Same(detail[c], coll[d])
      /\ Running(d) = {} /\ coll[d] # Absent /\ (\E i \in 1 .. Len(queue) : queue[i].doc = d)
           => LET m == queue[LastMessage(d)]
              IN  m.title = coll[d].title /\ m.content = coll[d].content
=============================================================================
