--------------------------- MODULE SearchingProofs ---------------------------
(***************************************************************************)
(* What TLAPS proves of the document service and of the index pipeline     *)
(* behind it, for any calls, documents, users, titles and contents and any *)
(* number of errors and restarts.                                          *)
(***************************************************************************)
EXTENDS Searching, TLAPS

USE DEF cacheVars

-----------------------------------------------------------------------------
(***************************************************************************)
(* Requests and sequences.                                                 *)
(***************************************************************************)

Ops == {"create", "get", "update", "share", "delete"}

LEMMA RequestIs ==
  ASSUME NEW r \in Request
  PROVE  /\ r.doc \in DocIds /\ r.op \in Ops
         /\ r.op = "create" => r.title \in Titles /\ r.user \in Users
         /\ r.op = "update" => r.title \in Titles \cup {Keep} /\ r.content \in Contents
         /\ r.op = "share" => r.user \in Users /\ r.with \in Users
<1>1. CASE r \in CreateDocRequest
  BY <1>1 DEF CreateDocRequest, Ops
<1>2. CASE r \in GetDocRequest
  BY <1>2 DEF GetDocRequest, Ops
<1>3. CASE r \in UpdateDocRequest
  BY <1>3 DEF UpdateDocRequest, Ops
<1>4. CASE r \in ShareDocRequest
  BY <1>4 DEF ShareDocRequest, Ops
<1>5. CASE r \in DeleteDocRequest
  BY <1>5 DEF DeleteDocRequest, Ops
<1>6. QED
  BY <1>1, <1>2, <1>3, <1>4, <1>5 DEF Request

LEMMA AppendKeeps ==
  ASSUME NEW S, NEW s \in Seq(S), NEW e \in S
  PROVE  /\ Append(s, e) \in Seq(S) /\ Len(s) \in Nat /\ Len(Append(s, e)) = Len(s) + 1
         /\ \A i \in 1 .. Len(s) : Append(s, e)[i] = s[i]
         /\ Append(s, e)[Len(s) + 1] = e
OBVIOUS

-----------------------------------------------------------------------------
(***************************************************************************)
(* Steps of the service.  In Searching a message may also be lost without  *)
(* using up the bound on errors.                                           *)
(***************************************************************************)

Unpublished(c) ==
  /\ Step(c, "publish", "done") /\ errors' = errors + 1
  /\ UNCHANGED <<coll, used, cacheVars, queue, req, detail, overlapped, ended>>

\* A call goes on, until it has none left or is at an end.
Serves(c) == Serve(c) \/ Unpublished(c)

ServiceStep ==
  \/ \E c \in Calls : Serves(c) \/ \E r \in Request : Begin(c, r)
  \/ Crash \/ Restart \/ (\E d \in DocIds : Expire(d) \/ Snapshot(d)) \/ UNCHANGED vars

\* What a call asked for, and how far it may be for that.
Formed ==
  \A c \in Calls : pc[c] # "idle" =>
    /\ req[c] \in Request /\ Id(c) \in used
    /\ pc[c] = "insert" => req[c].op = "create"
    /\ pc[c] \in {"write", "del"} => req[c].op \in {"update", "share", "delete"}
    /\ pc[c] \in {"get", "find", "set"} => req[c].op \in {"get", "update"}
    /\ pc[c] = "publish" => req[c].op \in {"create", "update"}
    /\ pc[c] \in {"set", "publish"} => detail[c] \in Detail

TypeInv == TypeOK /\ Formed

PCs == {"idle", "insert", "write", "del", "get", "find", "set", "publish", "done"}

\* All that a call changes, but for what it publishes.
LEMMA ServesFacts ==
  ASSUME TypeOK, NEW c \in Calls, Serves(c)
  PROVE  /\ pc[c] \notin {"idle", "done"} /\ pc'[c] \notin {"idle", "insert", "write"}
         /\ UNCHANGED <<used, cached, req, overlapped, ended>>
         /\ \A b \in Calls \ {c} : pc'[b] = pc[b] /\ detail'[b] = detail[b]
         /\ \A d \in DocIds \ {Id(c)} : /\ coll'[d] = coll[d] /\ cache'[d] = cache[d]
                                        /\ d \in stale' <=> d \in stale
                                        /\ d \in dated' <=> d \in dated
         /\ errors' \in {errors, errors + 1}
<1> USE DEF TypeOK, Step, Fails
<1>1. CASE Insert(c)
  BY <1>1 DEF Insert
<1>2. CASE Write(c)
  BY <1>2 DEF Write
<1>3. CASE WriteFails(c)
  BY <1>3 DEF WriteFails
<1>4. CASE CacheDel(c)
  BY <1>4 DEF CacheDel
<1>5. CASE CacheGet(c)
  BY <1>5 DEF CacheGet, Reply
<1>6. CASE FindOne(c)
  BY <1>6 DEF FindOne
<1>7. CASE CacheSet(c)
  BY <1>7 DEF CacheSet, Reply
<1>8. CASE Publish(c)
  BY <1>8 DEF Publish
<1>9. CASE Unpublished(c)
  BY <1>9 DEF Unpublished
<1>10. QED
  BY <1>1, <1>2, <1>3, <1>4, <1>5, <1>6, <1>7, <1>8, <1>9 DEF Serves, Serve

\* A write leaves a document or none.
LEMMA OutcomeType ==
  ASSUME TypeInv, NEW c \in Calls, pc[c] = "write", NEW t \in Times
  PROVE  /\ Id(c) \in DocIds /\ Doc(c) \in Detail \cup {Absent}
         /\ Outcome(c, t) \in Detail \cup {Absent}
<1>1. /\ req[c] \in Request /\ req[c].op \in {"update", "share", "delete"}
      /\ Id(c) \in DocIds /\ Doc(c) \in Detail \cup {Absent}
  BY RequestIs DEF TypeInv, TypeOK, Formed, Id, Doc
<1>2. ASSUME Matches(c) PROVE Outcome(c, t) \in Detail \cup {Absent}
  <2>1. Doc(c) \in Detail
    BY <1>1, <1>2 DEF Matches
  <2>2. CASE req[c].op = "update"
    <3>1. req[c].content \in Contents /\ req[c].title \in Titles \cup {Keep}
      BY <1>1, <2>2, RequestIs
    <3>2. QED
      BY <1>2, <2>1, <2>2, <3>1 DEF Outcome, Detail
  <2>3. CASE req[c].op = "share"
    <3>1. req[c].with \in Users
      BY <1>1, <2>3, RequestIs
    <3>2. QED
      BY <1>2, <2>1, <2>3, <3>1 DEF Outcome, Detail
  <2>4. CASE req[c].op = "delete"
    BY <1>2, <2>4 DEF Outcome
  <2>5. QED
    BY <1>1, <2>2, <2>3, <2>4
<1>3. QED
  BY <1>1, <1>2 DEF Outcome

LEMMA MessageType ==
  ASSUME TypeInv, NEW c \in Calls, pc[c] = "publish"
  PROVE  /\ Message(c) \in IndexMessage /\ Message(c).doc = Id(c)
         /\ Message(c).title = detail[c].title
         /\ req[c].op = "create" => Message(c).content = Empty
         /\ req[c].op = "update" => Message(c).content = req[c].content
<1>1. /\ req[c] \in Request /\ req[c].op \in {"create", "update"} /\ detail[c] \in Detail
  BY DEF TypeInv, Formed
<1>2. Id(c) \in DocIds /\ detail[c].title \in Titles
  BY <1>1, RequestIs DEF Id, Detail
<1>3. (IF req[c].op = "create" THEN Empty ELSE req[c].content) \in Contents
  BY <1>1, RequestIs, DocAssumption
<1>4. QED
  BY <1>2, <1>3 DEF Message, IndexMessage

LEMMA InitType == Init => TypeInv
<1> SUFFICES ASSUME Init PROVE TypeInv
  OBVIOUS
<1>1. coll \in [DocIds -> Detail \cup {Absent}]
  <2>1. [title : Titles, content : {Empty}, owner : Users, collaborators : {{}},
         updated : Times] \subseteq Detail
    BY DocAssumption DEF Detail
  <2>2. QED
    BY <2>1 DEF Init
<1>2. <<>> \in Seq(IndexMessage) /\ used \subseteq DocIds
  BY DEF Init
<1>3. TypeOK
  BY <1>1, <1>2 DEF Init, TypeOK
<1>4. Formed
  BY DEF Init, Formed
<1>5. QED
  BY <1>3, <1>4 DEF TypeInv

LEMMA ServesType == ASSUME TypeInv, NEW c \in Calls, Serves(c) PROVE TypeInv'
<1>f. /\ pc[c] \notin {"idle", "done"} /\ UNCHANGED <<used, cached, req, overlapped, ended>>
      /\ \A b \in Calls \ {c} : pc'[b] = pc[b] /\ detail'[b] = detail[b]
      /\ errors' \in {errors, errors + 1} /\ errors \in Nat
  BY ServesFacts DEF TypeInv, TypeOK
<1>r. /\ req[c] \in Request /\ Id(c) \in DocIds /\ Doc(c) \in Detail \cup {Absent}
      /\ cache[Id(c)] \in Detail \cup {Absent}
  BY <1>f, RequestIs DEF TypeInv, TypeOK, Formed, Id, Doc
<1>k. ASSUME /\ pc' \in [Calls -> PCs] /\ detail' \in [Calls -> Detail \cup {Absent}]
             /\ coll' \in [DocIds -> Detail \cup {Absent}]
             /\ cache' \in [DocIds -> Detail \cup {Absent}]
             /\ queue' \in Seq(IndexMessage) /\ stale' \subseteq DocIds /\ dated' \subseteq DocIds
             /\ pc'[c] = "del" => req[c].op \in {"update", "share", "delete"}
             /\ pc'[c] \in {"get", "find", "set"} => req[c].op \in {"get", "update"}
             /\ pc'[c] = "publish" => req[c].op \in {"create", "update"}
             /\ pc'[c] \in {"set", "publish"} => detail'[c] \in Detail
      PROVE  TypeInv'
  <2>1. TypeOK'
    BY <1>f, <1>k DEF TypeInv, TypeOK, PCs
  <2>2. pc'[c] \notin {"insert", "write"}
    BY ServesFacts DEF TypeInv
  <2>3. Formed'
    BY <1>f, <1>k, <2>2 DEF TypeInv, Formed, Id
  <2>4. QED
    BY <2>1, <2>3 DEF TypeInv
<1> USE DEF Step, Fails, PCs
<1>t. /\ pc \in [Calls -> PCs] /\ detail \in [Calls -> Detail \cup {Absent}]
      /\ coll \in [DocIds -> Detail \cup {Absent}] /\ cache \in [DocIds -> Detail \cup {Absent}]
      /\ queue \in Seq(IndexMessage) /\ stale \subseteq DocIds /\ dated \subseteq DocIds
  BY DEF TypeInv, TypeOK
<1>o. /\ pc[c] = "insert" => req[c].op = "create"
      /\ pc[c] \in {"write", "del"} => req[c].op \in {"update", "share", "delete"}
      /\ pc[c] \in {"get", "find", "set"} => req[c].op \in {"get", "update"}
      /\ pc[c] = "publish" => req[c].op \in {"create", "update"}
      /\ pc[c] \in {"set", "publish"} => detail[c] \in Detail
  BY <1>f DEF TypeInv, Formed
<1>1. CASE Insert(c)
  <2>1. pc[c] = "insert" /\ \A t \in Times : NewDoc(c, t) \in Detail
    BY <1>1, <1>o, <1>r, RequestIs, DocAssumption DEF Insert, NewDoc, Detail
  <2>2. PICK t \in Times :
          /\ coll' \in {coll, [coll EXCEPT ![Id(c)] = NewDoc(c, t)]}
          /\ UNCHANGED <<cacheVars, queue>>
          /\ \/ pc' = [pc EXCEPT ![c] = "publish"] /\ detail' = [detail EXCEPT ![c] = NewDoc(c, t)]
             \/ pc' = [pc EXCEPT ![c] = "done"] /\ UNCHANGED detail
    BY <1>1 DEF Insert
  <2>3. QED
    BY <1>k, <1>t, <1>o, <1>r, <2>1, <2>2
<1>2. CASE Write(c) \/ WriteFails(c)
  <2>1. pc[c] = "write" /\ \A t \in Times : Outcome(c, t) \in Detail \cup {Absent}
    BY <1>2, OutcomeType DEF Write, WriteFails
  <2>2. PICK t \in Times :
          /\ coll' \in {coll, [coll EXCEPT ![Id(c)] = Outcome(c, t)]}
          /\ UNCHANGED <<cacheVars, queue, detail>>
          /\ pc' = [pc EXCEPT ![c] = "del"] \/ pc' = [pc EXCEPT ![c] = "done"]
    BY <1>2 DEF Write, WriteFails
  <2>3. QED
    BY <1>k, <1>t, <1>o, <1>r, <2>1, <2>2
<1>3. CASE CacheDel(c)
  BY <1>k, <1>t, <1>o, <1>r, <1>3 DEF CacheDel
<1>4. CASE CacheGet(c)
  BY <1>k, <1>t, <1>o, <1>r, <1>4 DEF CacheGet, Reply
<1>5. CASE FindOne(c)
  BY <1>k, <1>t, <1>o, <1>r, <1>5 DEF FindOne
<1>6. CASE CacheSet(c)
  BY <1>k, <1>t, <1>o, <1>r, <1>6 DEF CacheSet, Reply
<1>7. CASE Publish(c) \/ Unpublished(c)
  <2>1. pc[c] = "publish" /\ pc' = [pc EXCEPT ![c] = "done"]
        /\ UNCHANGED <<coll, cacheVars, detail>>
    BY <1>7 DEF Publish, Unpublished
  <2>2. queue' = Append(queue, Message(c)) \/ queue' = queue
    BY <1>7 DEF Publish, Unpublished
  <2>3. queue' \in Seq(IndexMessage)
    BY <1>t, <2>1, <2>2, MessageType, AppendKeeps
  <2>4. QED
    BY <1>k, <1>t, <1>o, <1>r, <2>1, <2>3
<1>8. QED
  BY <1>1, <1>2, <1>3, <1>4, <1>5, <1>6, <1>7 DEF Serves, Serve

LEMMA BeginType ==
  ASSUME TypeInv, NEW c \in Calls, NEW r \in Request, Begin(c, r)
  PROVE  TypeInv'
<1>1. r.doc \in DocIds /\ r.op \in Ops
  BY RequestIs
<1>2. TypeOK'
  BY <1>1 DEF TypeInv, TypeOK, Begin, Step
<1>3. ASSUME NEW b \in Calls, b # c PROVE pc'[b] = pc[b] /\ req'[b] = req[b] /\ detail'[b] = detail[b]
  BY <1>3 DEF TypeInv, TypeOK, Begin, Step
<1>4. /\ req'[c] = r /\ used' = used \cup {r.doc}
      /\ pc'[c] = IF r.op = "create" THEN "insert" ELSE IF r.op = "get" THEN "get" ELSE "write"
  BY DEF TypeInv, TypeOK, Begin, Step
<1>5. Formed'
  BY <1>1, <1>3, <1>4 DEF TypeInv, Formed, Id, Ops
<1>6. QED
  BY <1>2, <1>5 DEF TypeInv

LEMMA StepType == TypeInv /\ ServiceStep => TypeInv'
<1> SUFFICES ASSUME TypeInv, ServiceStep PROVE TypeInv'
  OBVIOUS
<1>1. CASE Crash
  <2>1. TypeOK'
    BY <1>1 DEF TypeInv, TypeOK, Crash
  <2>2. Formed'
    BY <1>1 DEF TypeInv, TypeOK, Formed, Crash, Id
  <2>3. QED
    BY <2>1, <2>2 DEF TypeInv
<1>2. ASSUME NEW d \in DocIds, Expire(d) PROVE TypeInv'
  BY <1>2 DEF TypeInv, TypeOK, Formed, Expire, Id
<1>3. CASE UNCHANGED vars
  BY <1>3 DEF TypeInv, TypeOK, Formed, vars, Id
<1>4. CASE Restart
  BY <1>4 DEF TypeInv, TypeOK, Formed, Restart, Id
<1>5. ASSUME NEW d \in DocIds, Snapshot(d) PROVE TypeInv'
  <2>1. PICK t \in Times : coll' = [coll EXCEPT ![d].updated = t]
    BY <1>5 DEF Snapshot
  <2>2. coll[d] \in Detail /\ coll \in [DocIds -> Detail \cup {Absent}]
    BY <1>5 DEF Snapshot, TypeInv, TypeOK
  <2>3. [coll[d] EXCEPT !.updated = t] \in Detail
    BY <2>2 DEF Detail
  <2>4. coll' \in [DocIds -> Detail \cup {Absent}]
    BY <2>1, <2>2, <2>3
  <2>5. dated' \subseteq DocIds
    BY <1>5 DEF Snapshot, TypeInv, TypeOK
  <2>6. QED
    BY <1>5, <2>4, <2>5 DEF TypeInv, TypeOK, Formed, Snapshot, Id
<1>6. QED
  BY <1>1, <1>2, <1>3, <1>4, <1>5, ServesType, BeginType DEF ServiceStep

-----------------------------------------------------------------------------
(***************************************************************************)
(* What a step leaves alone.  Running(d) is written out where it is used,  *)
(* as the set of calls on d that are neither idle nor done.                *)
(***************************************************************************)

\* Nothing happens to document d, nor to a call on it.
Quiet(d) ==
  /\ coll'[d] = coll[d] /\ cache'[d] = cache[d] /\ UNCHANGED cached
  /\ (d \in stale' <=> d \in stale) /\ (d \in dated' <=> d \in dated)
  /\ Running(d)' = Running(d)
  /\ \A c \in Running(d) : pc'[c] = pc[c] /\ detail'[c] = detail[c] /\ req'[c] = req[c]

LEMMA ServesQuiet ==
  ASSUME TypeInv, NEW c \in Calls, Serves(c), NEW d \in DocIds, d # Id(c)
  PROVE  Quiet(d)
<1>1. /\ UNCHANGED <<req, cached>> /\ coll'[d] = coll[d] /\ cache'[d] = cache[d]
      /\ d \in stale' <=> d \in stale
      /\ d \in dated' <=> d \in dated
      /\ \A b \in Calls \ {c} : pc'[b] = pc[b] /\ detail'[b] = detail[b]
  BY ServesFacts DEF TypeInv
<1>2. QED
  BY <1>1 DEF Quiet, Running, Id

LEMMA BeginFacts ==
  ASSUME TypeInv, NEW c \in Calls, NEW r \in Request, Begin(c, r)
  PROVE  /\ UNCHANGED <<coll, cacheVars, queue, detail, errors, ended>>
         /\ pc[c] = "idle"
         /\ r.op = "create" => r.doc \notin used
         /\ pc'[c] = IF r.op = "create" THEN "insert"
                     ELSE IF r.op = "get" THEN "get" ELSE "write"
         /\ req'[c] = r /\ Id(c)' = r.doc /\ r.doc \in DocIds
         /\ used' = used \cup {r.doc} /\ overlapped \subseteq overlapped'
         /\ Running(r.doc) # {} => r.doc \in overlapped'
         /\ \A b \in Calls \ {c} : pc'[b] = pc[b] /\ req'[b] = req[b] /\ Id(b)' = Id(b)
         /\ Running(r.doc)' = Running(r.doc) \cup {c}
         /\ \A d \in DocIds \ {r.doc} : Quiet(d)
<1>1. /\ UNCHANGED <<coll, cacheVars, queue, detail, errors, ended>>
      /\ pc[c] = "idle"
      /\ r.op = "create" => r.doc \notin used
      /\ pc'[c] = IF r.op = "create" THEN "insert" ELSE IF r.op = "get" THEN "get" ELSE "write"
      /\ req'[c] = r /\ r.doc \in DocIds
      /\ used' = used \cup {r.doc} /\ overlapped \subseteq overlapped'
      /\ Running(r.doc) # {} => r.doc \in overlapped'
      /\ \A b \in Calls \ {c} : pc'[b] = pc[b] /\ req'[b] = req[b]
  BY RequestIs DEF TypeInv, TypeOK, Begin, Step
<1>2. Id(c)' = r.doc /\ \A b \in Calls \ {c} : Id(b)' = Id(b)
  BY <1>1 DEF Id
<1>3. Running(r.doc)' = Running(r.doc) \cup {c}
  BY <1>1, <1>2 DEF Running
<1>4. \A d \in DocIds \ {r.doc} : Quiet(d)
  BY <1>1, <1>2 DEF Running, Quiet
<1>5. QED
  BY <1>1, <1>2, <1>3, <1>4

LEMMA SameTouched ==
  ASSUME NEW a, NEW b \in Detail, NEW t \in Times, Same(a, b)
  PROVE  Same(a, [b EXCEPT !.updated = t])
<1>1. /\ [b EXCEPT !.updated = t] \in Detail
      /\ \A f \in {"title", "content", "owner", "collaborators"} : [b EXCEPT !.updated = t][f] = b[f]
  BY DEF Detail
<1>2. a \in Detail /\ \A f \in {"title", "content", "owner", "collaborators"} : a[f] = b[f]
  BY DEF Same
<1> HIDE DEF Detail
<1>3. QED
  BY <1>1, <1>2 DEF Same

LEMMA SameText ==
  ASSUME NEW a, NEW b, Same(a, b)
  PROVE  a.title = b.title /\ a.content = b.content
BY DEF Same

\* A merge changes updated_at of one document.
LEMMA SnapshotFacts ==
  ASSUME TypeInv, NEW e \in DocIds, Snapshot(e)
  PROVE  /\ UNCHANGED <<used, cache, cached, stale, queue, pc, req, detail, overlapped, errors, ended>>
         /\ \A d \in DocIds : Running(d)' = Running(d)
         /\ \A d \in DocIds \ {e} : Quiet(d)
         /\ coll[e] # Absent
         /\ coll'[e].title = coll[e].title /\ coll'[e].content = coll[e].content
         /\ \A a : Same(a, coll[e]) => Same(a, coll'[e])
         /\ dated \subseteq dated'
         /\ e \notin dated' /\ cache[e] # Absent /\ cache[e] = coll[e] => cache[e] = coll'[e]
<1>1. PICK t \in Times :
        /\ coll' = [coll EXCEPT ![e].updated = t]
        /\ dated' = IF cache[e] = Absent \/ cache[e].updated = t THEN dated ELSE dated \cup {e}
  BY DEF Snapshot
<1>2. /\ UNCHANGED <<used, cache, cached, stale, queue, pc, req, detail, overlapped, errors, ended>>
      /\ coll[e] # Absent
  BY DEF Snapshot
<1>3. coll[e] \in Detail /\ coll \in [DocIds -> Detail \cup {Absent}]
  BY <1>2 DEF TypeInv, TypeOK
<1>4. coll'[e] = [coll[e] EXCEPT !.updated = t] /\ \A d \in DocIds \ {e} : coll'[d] = coll[d]
  BY <1>1, <1>3
<1>5. coll'[e].title = coll[e].title /\ coll'[e].content = coll[e].content
  BY <1>3, <1>4 DEF Detail
<1>6. \A a : Same(a, coll[e]) => Same(a, coll'[e])
  BY <1>3, <1>4, SameTouched
<1>7. \A d \in DocIds : Running(d)' = Running(d)
  BY <1>2 DEF Running, Id
<1>8. \A d \in DocIds \ {e} : Quiet(d)
  BY <1>1, <1>2, <1>4, <1>7 DEF Quiet
<1>9. e \notin dated' /\ cache[e] # Absent /\ cache[e] = coll[e] => cache[e] = coll'[e]
  <2> SUFFICES ASSUME e \notin dated', cache[e] # Absent, cache[e] = coll[e] PROVE cache[e] = coll'[e]
    OBVIOUS
  <2>1. coll[e].updated = t
    BY <1>1
  <2>2. QED
    BY <1>3, <1>4, <2>1 DEF Detail
<1>10. dated \subseteq dated'
  BY <1>1
<1>11. QED
  BY <1>2, <1>4, <1>5, <1>6, <1>7, <1>8, <1>9, <1>10

-----------------------------------------------------------------------------
(***************************************************************************)
(* Until it is inserted, a document is in no store, and no other call has  *)
(* read it.                                                                *)
(***************************************************************************)

Fresh ==
  /\ \A d \in DocIds \ used : coll[d] = Absent /\ cache[d] = Absent
  /\ \A c \in Calls : pc[c] = "insert" =>
       /\ coll[Id(c)] = Absent /\ cache[Id(c)] = Absent
       /\ \A b \in Calls \ {c} :
            pc[b] # "idle" /\ Id(b) = Id(c) => pc[b] \notin {"set", "insert"}

FreshInv == TypeInv /\ Fresh

LEMMA StepFresh == FreshInv /\ ServiceStep => Fresh'
<1> SUFFICES ASSUME FreshInv, ServiceStep PROVE Fresh'
  OBVIOUS
<1>t. TypeInv /\ Fresh /\ \A c \in Calls : pc[c] # "idle" => Id(c) \in DocIds \cap used
  BY RequestIs DEF FreshInv, TypeInv, Formed, Id
<1>1. ASSUME NEW c \in Calls, Serves(c) PROVE Fresh'
  <2>1. /\ pc[c] \notin {"idle", "done"} /\ pc'[c] \notin {"idle", "insert", "write"}
        /\ UNCHANGED <<used, req>>
        /\ \A b \in Calls \ {c} : pc'[b] = pc[b]
        /\ \A d \in DocIds \ {Id(c)} : coll'[d] = coll[d] /\ cache'[d] = cache[d]
    BY <1>t, <1>1, ServesFacts DEF TypeInv
  <2>2. \A b \in Calls : Id(b)' = Id(b)
    BY <2>1 DEF Id
  <2>3. ASSUME NEW b \in Calls \ {c}, pc[b] = "insert", Id(b) = Id(c)
        PROVE  coll'[Id(c)] = Absent /\ cache'[Id(c)] = Absent /\ pc'[c] # "set"
    <3>1. /\ coll[Id(c)] = Absent /\ cache[Id(c)] = Absent /\ pc[c] \notin {"set", "insert"}
          /\ Id(c) \in DocIds
      BY <1>t, <2>1, <2>3 DEF Fresh
    <3>2. coll \in [DocIds -> Detail \cup {Absent}] /\ cache \in [DocIds -> Detail \cup {Absent}]
          /\ pc \in [Calls -> PCs]
      BY <1>t DEF TypeInv, TypeOK, PCs
    <3>3. \A t \in Times : Outcome(c, t) = Absent
      BY <3>1 DEF Outcome, Matches, Doc
    <3>4. CASE Write(c) \/ WriteFails(c)
      BY <3>1, <3>2, <3>3, <3>4 DEF Write, WriteFails, Step, Fails
    <3>5. CASE CacheDel(c) \/ CacheGet(c) \/ FindOne(c)
      BY <3>1, <3>2, <3>5 DEF CacheDel, CacheGet, FindOne, Step, Fails, Reply, Doc
    <3>6. CASE Publish(c) \/ Unpublished(c)
      BY <3>1, <3>2, <3>6 DEF Publish, Unpublished, Step, Fails
    <3>7. CASE Insert(c) \/ CacheSet(c)
      BY <3>1, <3>7 DEF Insert, CacheSet, Step, Fails
    <3>8. QED
      BY <1>1, <3>4, <3>5, <3>6, <3>7 DEF Serves, Serve
  <2>4. \A d \in DocIds \ used' : coll'[d] = Absent /\ cache'[d] = Absent
    BY <1>t, <2>1 DEF Fresh
  <2>5. ASSUME NEW b \in Calls, pc'[b] = "insert"
        PROVE  /\ coll'[Id(b)] = Absent /\ cache'[Id(b)] = Absent
               /\ \A a \in Calls \ {b} :
                    pc'[a] # "idle" /\ Id(a) = Id(b) => pc'[a] \notin {"set", "insert"}
    <3>1. b \in Calls \ {c} /\ pc[b] = "insert" /\ Id(b) \in DocIds
      BY <1>t, <2>1, <2>5
    <3>2. CASE Id(b) = Id(c)
      BY <1>t, <2>1, <2>3, <3>1, <3>2 DEF Fresh
    <3>3. CASE Id(b) # Id(c)
      BY <1>t, <2>1, <3>1, <3>3 DEF Fresh
    <3>4. QED
      BY <3>2, <3>3
  <2>6. QED
    BY <2>2, <2>4, <2>5 DEF Fresh
<1>2. ASSUME NEW c \in Calls, NEW r \in Request, Begin(c, r) PROVE Fresh'
  <2>1. /\ UNCHANGED <<coll, cache>>
        /\ r.op = "create" => r.doc \notin used
        /\ pc'[c] = IF r.op = "create" THEN "insert"
                    ELSE IF r.op = "get" THEN "get" ELSE "write"
        /\ Id(c)' = r.doc /\ r.doc \in DocIds /\ used' = used \cup {r.doc}
        /\ \A b \in Calls \ {c} : pc'[b] = pc[b] /\ Id(b)' = Id(b)
    BY <1>t, <1>2, BeginFacts
  <2>2. \A d \in DocIds \ used' : coll'[d] = Absent /\ cache'[d] = Absent
    BY <1>t, <2>1 DEF Fresh
  <2>3. ASSUME NEW b \in Calls, pc'[b] = "insert"
        PROVE  /\ coll'[Id(b)'] = Absent /\ cache'[Id(b)'] = Absent
               /\ \A a \in Calls \ {b} :
                    pc'[a] # "idle" /\ Id(a)' = Id(b)' => pc'[a] \notin {"set", "insert"}
    <3>1. CASE b = c
      BY <1>t, <2>1, <2>3, <3>1 DEF Fresh
    <3>2. CASE b # c
      BY <1>t, <2>1, <2>3, <3>2 DEF Fresh
    <3>3. QED
      BY <3>1, <3>2
  <2>4. QED
    BY <2>2, <2>3 DEF Fresh
<1>3. CASE Crash
  <2>1. /\ UNCHANGED <<coll, cache, used, req>>
        /\ \A c \in Calls : pc'[c] \in {pc[c], "done"} /\ Id(c)' = Id(c)
        /\ \A c \in Calls : pc'[c] # "idle" => pc[c] # "idle"
    BY <1>3 DEF Crash, Id
  <2>2. QED
    BY <1>t, <2>1 DEF Fresh
<1>4. ASSUME NEW d \in DocIds, Expire(d) PROVE Fresh'
  BY <1>t, <1>4 DEF Fresh, Expire, Id, TypeInv, TypeOK
<1>5. CASE UNCHANGED vars
  BY <1>t, <1>5 DEF Fresh, vars, Id
<1>6. CASE Restart
  BY <1>t, <1>6 DEF Fresh, Restart, Id
<1>7. ASSUME NEW d \in DocIds, Snapshot(d) PROVE Fresh'
  <2>1. /\ UNCHANGED <<cache, used, pc, req>> /\ coll[d] # Absent
        /\ \A e \in DocIds : e # d => coll'[e] = coll[e]
    BY <1>t, <1>7, SnapshotFacts DEF Quiet
  <2>2. QED
    BY <1>t, <2>1 DEF Fresh, Id
<1>8. QED
  BY <1>1, <1>2, <1>3, <1>4, <1>5, <1>6, <1>7 DEF ServiceStep

-----------------------------------------------------------------------------
(***************************************************************************)
(* The cache.                                                              *)
(***************************************************************************)

LEMMA QuietCache ==
  ASSUME NEW d \in DocIds, Explained(d), Quiet(d)
  PROVE  Explained(d)'
BY DEF Explained, Quiet

LEMMA ServesCache ==
  ASSUME FreshInv, StaleOnlyByRace, NEW c \in Calls, Serves(c), errors = 0, errors' = 0, ~ended,
         NEW d \in DocIds, d = Id(c)
  PROVE  Explained(d)'
<1>t. /\ TypeInv /\ TypeOK /\ d \in DocIds
      /\ coll \in [DocIds -> Detail \cup {Absent}] /\ cache \in [DocIds -> Detail \cup {Absent}]
      /\ pc \in [Calls -> PCs] /\ detail \in [Calls -> Detail \cup {Absent}]
  BY RequestIs, ServesFacts DEF FreshInv, TypeInv, TypeOK, Formed, Id, PCs
<1>f. /\ pc[c] \notin {"idle", "done"} /\ UNCHANGED req
      /\ \A b \in Calls \ {c} : pc'[b] = pc[b]
      /\ \A b \in Calls : Id(b)' = Id(b)
  BY <1>t, ServesFacts DEF Id
<1>d. Explained(d)
  BY <1>t DEF StaleOnlyByRace
<1>k. ASSUME UNCHANGED <<coll, cacheVars>>, pc[c] # "del"
      PROVE  Explained(d)'
  <2>1. \A b \in Running(d) : pc[b] = "del" => b \in Running(d)' /\ pc'[b] = "del"
    BY <1>f, <1>k DEF Running
  <2>2. QED
    BY <1>d, <1>k, <2>1 DEF Explained
<1>e. errors' # errors + 1
  OBVIOUS
<1> USE DEF Step, Fails
<1>1. CASE Insert(c)
  BY <1>1, <1>t DEF Insert, FreshInv, Fresh, Explained
<1>2. CASE Write(c)
  <2>1. CASE req[c].op = "update" \/ Matches(c)
    <3>1. pc'[c] = "del" /\ c \in Running(d)'
      BY <1>2, <1>t, <1>f, <2>1 DEF Write, Running
    <3>2. QED
      BY <3>1 DEF Explained
  <2>2. CASE ~(req[c].op = "update" \/ Matches(c))
    <3>1. UNCHANGED <<coll, cacheVars>> /\ pc[c] = "write"
      BY <1>2, <1>t, <2>2 DEF Write, Outcome, Doc
    <3>2. QED
      BY <1>k, <3>1
  <2>3. QED
    BY <2>1, <2>2
<1>3. CASE CacheDel(c)
  BY <1>3, <1>t, <1>e DEF CacheDel, Explained
<1>4. CASE CacheGet(c) \/ FindOne(c)
  <2>1. UNCHANGED <<coll, cacheVars>> /\ pc[c] # "del"
    BY <1>4 DEF CacheGet, FindOne
  <2>2. QED
    BY <1>k, <2>1
<1>5. CASE CacheSet(c)
  <2>1. CASE cached
    <3>1. /\ UNCHANGED coll /\ cache' = [cache EXCEPT ![d] = detail[c]]
          /\ stale' = IF Same(detail[c], Doc(c)) THEN stale \ {d} ELSE stale \cup {d}
          /\ dated' = IF detail[c] = Doc(c) THEN dated \ {d} ELSE dated \cup {d}
      BY <1>5, <1>e, <2>1 DEF CacheSet
    <3>2. Doc(c) = coll[d]
      BY DEF Doc
    <3>3. QED
      BY <1>t, <3>1, <3>2 DEF Explained
  <2>2. CASE ~cached
    <3>1. UNCHANGED <<coll, cacheVars>> /\ pc[c] # "del"
      BY <1>5, <2>2 DEF CacheSet
    <3>2. QED
      BY <1>k, <3>1
  <2>3. QED
    BY <2>1, <2>2
<1>6. CASE Publish(c) \/ Unpublished(c)
  <2>1. UNCHANGED <<coll, cacheVars>> /\ pc[c] # "del"
    BY <1>6 DEF Publish, Unpublished
  <2>2. QED
    BY <1>k, <2>1
<1>7. CASE WriteFails(c)
  BY <1>7, <1>e DEF WriteFails
<1>8. QED
  BY <1>1, <1>2, <1>3, <1>4, <1>5, <1>6, <1>7 DEF Serves, Serve

LEMMA ErrorsGrow ==
  TypeInv /\ ServiceStep => /\ errors \in Nat /\ errors' \in {errors, errors + 1}
                            /\ ended => ended'
<1> SUFFICES ASSUME TypeInv, ServiceStep
             PROVE  errors \in Nat /\ errors' \in {errors, errors + 1} /\ (ended => ended')
  OBVIOUS
<1>1. errors \in Nat /\ ended \in BOOLEAN
  BY DEF TypeInv, TypeOK
<1>2. ASSUME NEW c \in Calls, Serves(c)
      PROVE  errors' \in {errors, errors + 1} /\ (ended => ended')
  BY <1>2, ServesFacts DEF TypeInv
<1>3. ASSUME ~\E c \in Calls : Serves(c) PROVE UNCHANGED errors /\ (ended => ended')
  BY <1>3 DEF ServiceStep, Begin, Crash, Expire, Restart, Snapshot, vars
<1>4. QED
  BY <1>1, <1>2, <1>3

LEMMA StepCache == FreshInv /\ StaleOnlyByRace /\ ServiceStep => StaleOnlyByRace'
<1> SUFFICES ASSUME FreshInv, StaleOnlyByRace, ServiceStep, errors' = 0, ~ended',
                    NEW d \in DocIds
             PROVE  Explained(d)'
  BY DEF StaleOnlyByRace
<1>t. TypeInv /\ errors = 0 /\ ~ended
  BY ErrorsGrow DEF FreshInv
<1>d. Explained(d)
  BY <1>t DEF StaleOnlyByRace
<1>1. ASSUME NEW c \in Calls, Serves(c)
      PROVE  Explained(d)'
  <2>1. CASE d = Id(c)
    BY <1>1, <1>t, <2>1, ServesCache
  <2>2. CASE d # Id(c)
    <3>1. Quiet(d)
      BY <1>1, <1>t, <2>2, ServesQuiet
    <3>2. QED
      BY <1>d, <3>1, QuietCache
  <2>3. QED
    BY <2>1, <2>2
<1>2. ASSUME NEW c \in Calls, NEW r \in Request, Begin(c, r)
      PROVE  Explained(d)'
  <2>1. CASE d = r.doc
    <3>1. /\ UNCHANGED <<coll, cacheVars>> /\ pc[c] = "idle"
          /\ \A b \in Calls \ {c} : pc'[b] = pc[b]
          /\ Running(d)' = Running(d) \cup {c}
      BY <1>2, <1>t, <2>1, BeginFacts
    <3>2. \A b \in Running(d) : b \in Calls \ {c}
      BY <3>1 DEF Running
    <3>3. QED
      BY <1>d, <3>1, <3>2 DEF Explained
  <2>2. CASE d # r.doc
    <3>1. Quiet(d)
      BY <1>2, <1>t, <2>2, BeginFacts
    <3>2. QED
      BY <1>d, <3>1, QuietCache
  <2>3. QED
    BY <2>1, <2>2
<1>3. ~Crash
  BY <1>t DEF Crash
<1>4. ASSUME NEW e \in DocIds, Expire(e) PROVE Explained(d)'
  BY <1>4, <1>t, <1>d DEF Expire, TypeInv, TypeOK, Running, Id, Explained
<1>5. CASE UNCHANGED vars
  BY <1>5, <1>d DEF vars, Running, Id, Explained
<1>6. CASE Restart
  BY <1>6, <1>d DEF Restart, Running, Id, Explained
<1>7. ASSUME NEW e \in DocIds, Snapshot(e) PROVE Explained(d)'
  <2>1. CASE d # e
    BY <1>7, <1>d, <1>t, <2>1, SnapshotFacts, QuietCache
  <2>2. CASE d = e
    <3>1. /\ UNCHANGED <<cache, stale, pc>> /\ Running(d)' = Running(d)
          /\ \A a : Same(a, coll[d]) => Same(a, coll'[d])
          /\ dated \subseteq dated'
          /\ d \notin dated' /\ cache[d] # Absent /\ cache[d] = coll[d] => cache[d] = coll'[d]
      BY <1>7, <1>t, <2>2, SnapshotFacts
    <3>2. QED
      BY <1>d, <3>1 DEF Explained
  <2>3. QED
    BY <2>1, <2>2
<1>8. QED
  BY <1>1, <1>2, <1>3, <1>4, <1>5, <1>6, <1>7 DEF ServiceStep

-----------------------------------------------------------------------------
(***************************************************************************)
(* Calls that do not overlap.  A call that is alone on its document finds  *)
(* what it wrote: nobody fills the cache behind its cacheDel.              *)
(***************************************************************************)

\* The call has written a version of its document that it has yet to publish.
Unsaved(c) ==
  \/ req[c].op = "create" /\ pc[c] = "publish"
  \/ req[c].op = "update" /\ pc[c] \in {"del", "get", "find", "set", "publish"}

\* The content that it will publish.
Saved(c) == IF req[c].op = "create" THEN Empty ELSE req[c].content

Alone(c, d) ==
  /\ \A b \in Running(d) : b = c
  /\ errors = 0 =>
       /\ cached /\ req[c].op = "update" /\ pc[c] \in {"get", "find", "set", "publish"} =>
            cache[d] = Absent \/ Same(cache[d], coll[d])
       /\ pc[c] \in {"set", "publish"} /\ Saves(c) => Same(detail[c], coll[d])
       /\ Unsaved(c) /\ coll[d] # Absent => coll[d].content = Saved(c)

AloneInv == \A d \in DocIds \ overlapped : \A c \in Running(d) : Alone(c, d)

LEMMA QuietAlone ==
  ASSUME NEW d \in DocIds, Quiet(d), NEW c \in Running(d), Alone(c, d), errors' = 0 => errors = 0
  PROVE  Alone(c, d)'
BY DEF Quiet, Alone, Unsaved, Saved, Saves

LEMMA ServesAlone ==
  ASSUME FreshInv, NEW c \in Calls, Serves(c), NEW d \in DocIds, d = Id(c), Alone(c, d),
         pc'[c] # "done"
  PROVE  Alone(c, d)'
<1>t. /\ TypeInv /\ TypeOK /\ d \in DocIds /\ errors \in Nat
      /\ coll \in [DocIds -> Detail \cup {Absent}] /\ cache \in [DocIds -> Detail \cup {Absent}]
      /\ pc \in [Calls -> PCs] /\ detail \in [Calls -> Detail \cup {Absent}]
  BY DEF FreshInv, TypeInv, TypeOK, PCs
<1>f. /\ pc[c] \notin {"idle", "done"} /\ UNCHANGED <<req, cached>>
      /\ \A b \in Calls \ {c} : pc'[b] = pc[b]
      /\ \A b \in Calls : Id(b)' = Id(b)
      /\ errors' \in {errors, errors + 1}
  BY <1>t, ServesFacts DEF Id
<1>r. /\ \A b \in Running(d)' : b = c
      /\ req[c] \in Request
      /\ pc[c] = "insert" => req[c].op = "create"
      /\ pc[c] \in {"write", "del"} => req[c].op \in {"update", "share", "delete"}
      /\ pc[c] \in {"get", "find", "set"} => req[c].op \in {"get", "update"}
  BY <1>t, <1>f DEF Running, Alone, TypeInv, Formed
<1>s. SUFFICES ASSUME errors' = 0
      PROVE  /\ cached /\ req[c].op = "update" /\ pc'[c] \in {"get", "find", "set", "publish"} =>
                  cache'[d] = Absent \/ Same(cache'[d], coll'[d])
             /\ pc'[c] \in {"set", "publish"} /\ req[c].op \in {"create", "update"} =>
                  Same(detail'[c], coll'[d])
             /\ \/ req[c].op = "create" /\ pc'[c] = "publish"
                \/ req[c].op = "update" /\ pc'[c] \in {"del", "get", "find", "set", "publish"}
                => (coll'[d] # Absent => coll'[d].content = Saved(c))
  BY <1>f, <1>r DEF Alone, Unsaved, Saved, Saves
<1>e. errors = 0 /\ errors' # errors + 1
  BY <1>t, <1>f, <1>s
<1>a. /\ errors = 0 /\ errors' # errors + 1
      /\ cached /\ req[c].op = "update" /\ pc[c] \in {"get", "find", "set", "publish"} =>
           cache[d] = Absent \/ Same(cache[d], coll[d])
      /\ pc[c] \in {"set", "publish"} /\ req[c].op \in {"create", "update"} =>
           Same(detail[c], coll[d])
      /\ \/ req[c].op = "create" /\ pc[c] = "publish"
         \/ req[c].op = "update" /\ pc[c] \in {"del", "get", "find", "set", "publish"}
         => (coll[d] # Absent => coll[d].content = Saved(c))
  BY <1>e DEF Alone, Unsaved, Saves
<1> USE DEF Step, Fails
<1>1. CASE Insert(c)
  <2>1. /\ req[c].op = "create" /\ pc'[c] = "publish"
        /\ \E t \in Times : coll'[d] = NewDoc(c, t) /\ detail'[c] = NewDoc(c, t)
    BY <1>1, <1>t, <1>a, <1>r DEF Insert
  <2>2. detail'[c] = coll'[d] /\ coll'[d].content = Empty
    BY <2>1 DEF NewDoc
  <2>3. QED
    BY <2>1, <2>2 DEF Saved, Same
<1>2. CASE Write(c)
  <2>1. /\ req[c].op # "create" /\ pc'[c] \in {"del", "done"}
        /\ \E t \in Times : coll'[d] = Outcome(c, t)
    BY <1>2, <1>t, <1>r DEF Write
  <2>2. ASSUME req[c].op = "update", coll'[d] # Absent PROVE coll'[d].content = req[c].content
    <3>1. Doc(c) \in Detail \cup {Absent}
      BY <1>t DEF Doc
    <3>2. Matches(c) /\ Doc(c) \in Detail
      BY <2>1, <2>2, <3>1 DEF Matches, Outcome
    <3>3. QED
      BY <2>1, <2>2, <3>2 DEF Outcome, Detail
  <2>3. QED
    BY <2>1, <2>2 DEF Saved
<1>3. CASE CacheDel(c)
  <2>1. /\ UNCHANGED <<coll, detail>> /\ (cached => cache'[d] = Absent)
        /\ pc[c] = "del" /\ pc'[c] \in {"get", "done"}
    BY <1>3, <1>t, <1>a DEF CacheDel
  <2>2. QED
    BY <1>a, <1>r, <2>1
<1>4. CASE CacheGet(c)
  <2>1. /\ UNCHANGED <<coll, cache>> /\ pc[c] = "get"
        /\ \/ cached /\ cache[d] # Absent /\ pc'[c] = Reply(c) /\ detail'[c] = cache[d]
           \/ pc'[c] = "find"
    BY <1>4, <1>t, <1>a DEF CacheGet, Reply
  <2>2. QED
    BY <1>a, <1>r, <2>1 DEF Reply
<1>5. CASE FindOne(c)
  <2>1. /\ UNCHANGED <<coll, cache>> /\ pc[c] = "find"
        /\ pc'[c] = "done" \/ (pc'[c] = "set" /\ detail'[c] = coll[d])
    BY <1>5, <1>t, <1>a DEF FindOne, Doc
  <2>2. QED
    BY <1>a, <1>r, <2>1, <1>s DEF Same
<1>6. CASE CacheSet(c)
  <2>1. /\ UNCHANGED <<coll, detail>> /\ pc[c] = "set" /\ (cached => cache'[d] = detail[c])
        /\ pc'[c] = Reply(c)
    BY <1>6, <1>t, <1>a DEF CacheSet, Reply
  <2>2. QED
    BY <1>a, <1>r, <2>1 DEF Reply
<1>7. CASE Publish(c) \/ Unpublished(c) \/ WriteFails(c)
  BY <1>7, <1>t DEF Publish, Unpublished, WriteFails
<1>8. QED
  BY <1>1, <1>2, <1>3, <1>4, <1>5, <1>6, <1>7 DEF Serves, Serve

LEMMA StepAlone == FreshInv /\ AloneInv /\ ServiceStep => AloneInv'
<1> SUFFICES ASSUME FreshInv, AloneInv, ServiceStep,
                    NEW d \in DocIds, d \notin overlapped', NEW c \in Running(d)'
             PROVE  Alone(c, d)'
  BY DEF AloneInv
<1>t. TypeInv /\ (errors' = 0 => errors = 0) /\ c \in Calls
  BY ErrorsGrow DEF FreshInv, Running
<1>1. ASSUME NEW b \in Calls, Serves(b) PROVE Alone(c, d)'
  <2>1. UNCHANGED <<overlapped, req>> /\ pc[b] \notin {"idle", "done"}
        /\ \A a \in Calls \ {b} : pc'[a] = pc[a]
    BY <1>1, <1>t, ServesFacts DEF TypeInv
  <2>2. c \in Running(d) /\ pc'[c] # "done" /\ d = Id(c)
    BY <2>1 DEF Running, Id
  <2>3. CASE d = Id(b)
    <3>1. b \in Running(d)
      BY <2>1, <2>3 DEF Running
    <3>2. b = c
      BY <2>1, <2>2, <3>1 DEF AloneInv, Alone
    <3>3. QED
      BY <1>1, <2>1, <2>2, <3>2, ServesAlone DEF AloneInv
  <2>4. CASE d # Id(b)
    BY <1>1, <1>t, <2>1, <2>2, <2>4, ServesQuiet, QuietAlone DEF AloneInv
  <2>5. QED
    BY <2>3, <2>4
<1>2. ASSUME NEW b \in Calls, NEW r \in Request, Begin(b, r) PROVE Alone(c, d)'
  <2>1. d \notin overlapped
    BY <1>2, <1>t, BeginFacts
  <2>2. CASE d = r.doc
    <3>1. /\ Running(d)' = Running(d) \cup {b} /\ Running(d) = {}
          /\ pc'[b] \in {"insert", "get", "write"} /\ req'[b] = r
          /\ r.op = "update" => pc'[b] = "write"
      BY <1>2, <1>t, <2>2, BeginFacts
    <3>2. c = b /\ \A a \in Running(d)' : a = c
      BY <3>1
    <3>3. QED
      BY <3>1, <3>2 DEF Alone, Unsaved, Saves
  <2>3. CASE d # r.doc
    <3>1. Quiet(d)
      BY <1>2, <1>t, <2>3, BeginFacts
    <3>2. c \in Running(d)
      BY <3>1 DEF Quiet
    <3>3. QED
      BY <1>t, <2>1, <3>1, <3>2, QuietAlone DEF AloneInv
  <2>4. QED
    BY <2>2, <2>3
<1>3. CASE Crash
  BY <1>3 DEF Crash, Running, Id
<1>4. ASSUME NEW e \in DocIds, Expire(e) PROVE Alone(c, d)'
  <2>1. UNCHANGED <<coll, cached, pc, req, detail, overlapped>> /\ cache'[d] \in {cache[d], Absent}
    BY <1>4, <1>t DEF Expire, TypeInv, TypeOK
  <2>2. Running(d)' = Running(d)
    BY <2>1 DEF Running, Id
  <2>3. QED
    BY <1>t, <2>1, <2>2 DEF AloneInv, Alone, Unsaved, Saved, Saves
<1>5. CASE UNCHANGED vars
  <2>1. Running(d)' = Running(d) /\ UNCHANGED vars
    BY <1>5 DEF vars, Running, Id
  <2>2. QED
    BY <2>1 DEF vars, AloneInv, Alone, Unsaved, Saved, Saves
<1>6. CASE Restart
  BY <1>6 DEF Restart, Running, Id
<1>7. ASSUME NEW e \in DocIds, Snapshot(e) PROVE Alone(c, d)'
  <2>1. /\ UNCHANGED <<cache, cached, pc, req, detail, overlapped>> /\ Running(d)' = Running(d)
        /\ d # e => Quiet(d)
        /\ d = e => /\ coll[d] # Absent /\ coll'[d].content = coll[d].content
                    /\ \A a : Same(a, coll[d]) => Same(a, coll'[d])
    BY <1>7, <1>t, SnapshotFacts
  <2>2. c \in Running(d) /\ Alone(c, d)
    BY <2>1 DEF AloneInv
  <2>3. CASE d # e
    BY <1>t, <2>1, <2>2, <2>3, QuietAlone
  <2>4. CASE d = e
    BY <1>t, <2>1, <2>2, <2>4 DEF Alone, Unsaved, Saved, Saves
  <2>5. QED
    BY <2>3, <2>4
<1>8. QED
  BY <1>1, <1>2, <1>3, <1>4, <1>5, <1>6, <1>7 DEF ServiceStep

-----------------------------------------------------------------------------
(***************************************************************************)
(* The last message about a document.                                      *)
(***************************************************************************)

LatestFor(d, i) == i \in About(d) /\ \A j \in About(d) : j <= i
HasLatest == \A d \in DocIds : About(d) # {} => \E i \in About(d) : LatestFor(d, i)

LEMMA LastIsLatest ==
  ASSUME TypeInv, HasLatest, NEW d \in DocIds, About(d) # {}
  PROVE  LatestFor(d, LastMessage(d))
<1>n. Len(queue) \in Nat
  BY DEF TypeInv, TypeOK
<1>1. PICK i \in About(d) : LatestFor(d, i)
  BY DEF HasLatest
<1>2. /\ i \in 1 .. Len(queue) /\ queue[i].doc = d
      /\ \A j \in i + 1 .. Len(queue) : queue[j].doc # d
  BY <1>n, <1>1 DEF LatestFor, About
<1>3. /\ LastMessage(d) \in 1 .. Len(queue) /\ queue[LastMessage(d)].doc = d
      /\ \A j \in LastMessage(d) + 1 .. Len(queue) : queue[j].doc # d
  BY <1>2 DEF LastMessage
<1>4. QED
  BY <1>n, <1>3 DEF LatestFor, About

\* What a message adds.
LEMMA Published ==
  ASSUME TypeInv, NEW c \in Calls, pc[c] = "publish", queue' = Append(queue, Message(c))
  PROVE  /\ Id(c) \in DocIds /\ Len(queue) \in Nat
         /\ \A d \in DocIds \ {Id(c)} : About(d)' = About(d)
         /\ \A d \in DocIds : d = Id(c) => About(d)' = About(d) \cup {Len(queue) + 1}
         /\ \A i \in 1 .. Len(queue) : queue'[i] = queue[i]
         /\ queue'[Len(queue) + 1] = Message(c)
<1>1. /\ queue \in Seq(IndexMessage) /\ Message(c) \in IndexMessage /\ Message(c).doc = Id(c)
      /\ Id(c) \in DocIds
  BY MessageType, RequestIs DEF TypeInv, TypeOK, Formed, Id
<1>2. /\ Len(queue) \in Nat /\ Len(queue') = Len(queue) + 1
      /\ \A i \in 1 .. Len(queue) : queue'[i] = queue[i]
      /\ queue'[Len(queue) + 1] = Message(c)
  BY <1>1, AppendKeeps
<1>3. 1 .. Len(queue') = 1 .. Len(queue) \cup {Len(queue) + 1}
  BY <1>2
<1>4. \A d \in DocIds \ {Id(c)} : About(d)' = About(d)
  BY <1>1, <1>2, <1>3 DEF About
<1>5. \A d \in DocIds : d = Id(c) => About(d)' = About(d) \cup {Len(queue) + 1}
  BY <1>1, <1>2, <1>3 DEF About
<1>6. QED
  BY <1>1, <1>2, <1>4, <1>5

LEMMA ServesQueue ==
  ASSUME NEW c \in Calls, Serves(c)
  PROVE  \/ UNCHANGED queue
         \/ pc[c] = "publish" /\ UNCHANGED errors /\ queue' = Append(queue, Message(c))
BY DEF Serves, Serve, Insert, Write, WriteFails, CacheDel, CacheGet, FindOne, CacheSet,
       Publish, Unpublished, Step, Fails

LEMMA StepQueue ==
  ASSUME TypeInv, ServiceStep
  PROVE  \/ UNCHANGED queue
         \/ \E c \in Calls : Serves(c) /\ pc[c] = "publish" /\ queue' = Append(queue, Message(c))
BY ServesQueue DEF ServiceStep, Begin, Crash, Expire, Restart, Snapshot, vars

LEMMA StepLatest == TypeInv /\ HasLatest /\ ServiceStep => HasLatest'
<1> SUFFICES ASSUME TypeInv, HasLatest, ServiceStep, NEW d \in DocIds, About(d)' # {}
             PROVE  \E i \in About(d)' : LatestFor(d, i)'
  BY DEF HasLatest
<1>1. CASE UNCHANGED queue
  <2>1. About(d)' = About(d)
    BY <1>1 DEF About
  <2>2. QED
    BY <2>1 DEF HasLatest, LatestFor
<1>2. ASSUME NEW c \in Calls, pc[c] = "publish", queue' = Append(queue, Message(c))
      PROVE  \E i \in About(d)' : LatestFor(d, i)'
  <2>1. CASE d = Id(c)
    <3>1. About(d)' = About(d) \cup {Len(queue) + 1} /\ Len(queue) \in Nat
      BY <1>2, <2>1, Published
    <3>2. \A j \in About(d) : j <= Len(queue) + 1
      BY <3>1 DEF About
    <3>3. \A n : n = Len(queue) + 1 => n \in About(d)' /\ LatestFor(d, n)'
      BY <3>1, <3>2 DEF LatestFor
    <3>4. QED
      BY <3>3
  <2>2. CASE d # Id(c)
    <3>1. About(d)' = About(d)
      BY <1>2, <2>2, Published
    <3>2. QED
      BY <3>1 DEF HasLatest, LatestFor
  <2>3. QED
    BY <2>1, <2>2
<1>3. QED
  BY <1>1, <1>2, StepQueue

\* Unless a call is yet to publish what it wrote, the last message about a
\* document that exists has its title and content.
Agrees(d) == \A i \in About(d) : LatestFor(d, i) =>
  queue[i].title = coll[d].title /\ queue[i].content = coll[d].content
Right(d) == coll[d] # Absent /\ (\A c \in Running(d) : ~Unsaved(c)) => Agrees(d)

LEMMA QuietRight ==
  ASSUME NEW d \in DocIds, Quiet(d), Right(d), About(d)' = About(d),
         \A i \in About(d) : queue'[i] = queue[i]
  PROVE  Right(d)'
BY DEF Quiet, Right, Agrees, LatestFor, Unsaved

LEMMA PublishRight ==
  ASSUME TypeInv, AloneInv, NEW c \in Calls, pc[c] = "publish", UNCHANGED coll, errors = 0,
         queue' = Append(queue, Message(c)), NEW d \in DocIds \ overlapped, d = Id(c)
  PROVE  Right(d)'
<1>1. /\ About(d)' = About(d) \cup {Len(queue) + 1} /\ Len(queue) \in Nat
      /\ queue'[Len(queue) + 1] = Message(c)
  BY Published
<1>2. c \in Running(d) /\ Alone(c, d)
  BY DEF AloneInv, Running
<1>3. /\ req[c].op \in {"create", "update"} /\ Same(detail[c], coll[d])
      /\ coll[d] # Absent => coll[d].content = Saved(c)
  BY <1>2 DEF Alone, Saves, Unsaved, TypeInv, Formed
<1>4. coll[d] # Absent => Message(c).title = coll[d].title /\ Message(c).content = coll[d].content
  BY <1>3, MessageType, SameText DEF Saved
<1>5. \A i \in About(d)' : LatestFor(d, i)' => i = Len(queue) + 1
  BY <1>1 DEF LatestFor, About
<1>6. QED
  BY <1>1, <1>4, <1>5 DEF Right, Agrees

LEMMA ServesRight ==
  ASSUME FreshInv, AloneInv, NEW c \in Calls, Serves(c), pc[c] # "publish", errors' = 0,
         NEW d \in DocIds \ overlapped, d = Id(c), Right(d)
  PROVE  Right(d)'
<1>t. /\ TypeInv /\ TypeOK /\ errors \in Nat
      /\ coll \in [DocIds -> Detail \cup {Absent}] /\ pc \in [Calls -> PCs]
  BY DEF FreshInv, TypeInv, TypeOK, PCs
<1>f. /\ pc[c] \notin {"idle", "done"} /\ UNCHANGED req
      /\ \A b \in Calls \ {c} : pc'[b] = pc[b]
      /\ \A b \in Calls : Id(b)' = Id(b)
      /\ errors' \in {errors, errors + 1}
  BY <1>t, ServesFacts DEF Id
<1>q. UNCHANGED queue /\ About(d)' = About(d)
  <2>1. UNCHANGED queue
    BY ServesQueue
  <2>2. QED
    BY <2>1 DEF About
<1>e. errors = 0 /\ errors' # errors + 1
  BY <1>t, <1>f
<1>a. \A b \in Running(d) : b = c
  BY <1>f DEF AloneInv, Alone, Running
<1>u. /\ pc[c] = "insert" => req[c].op = "create"
      /\ pc[c] \in {"write", "del"} => req[c].op \in {"update", "share", "delete"}
      /\ pc[c] \in {"get", "find", "set"} => req[c].op \in {"get", "update"}
  BY <1>t, <1>f DEF TypeInv, Formed
<1>1. CASE Unsaved(c)'
  <2>1. c \in Running(d)'
    BY <1>f, <1>1 DEF Running, Unsaved
  <2>2. QED
    BY <1>1, <2>1 DEF Right
<1>2. CASE coll'[d] = Absent
  BY <1>2 DEF Right
<1>3. CASE ~Unsaved(c) /\ (coll'[d] # Absent => /\ coll[d] # Absent
                                               /\ coll'[d].title = coll[d].title
                                               /\ coll'[d].content = coll[d].content)
  BY <1>3, <1>q, <1>a DEF Right, Agrees, LatestFor
<1>4. Unsaved(c)' \/ coll'[d] = Absent \/
      (~Unsaved(c) /\ (coll'[d] # Absent => /\ coll[d] # Absent
                                            /\ coll'[d].title = coll[d].title
                                            /\ coll'[d].content = coll[d].content))
  <2> USE DEF Step, Fails, Unsaved
  <2>1. CASE Insert(c)
    BY <2>1, <1>t, <1>f, <1>e, <1>u DEF Insert
  <2>2. CASE Write(c)
    <3>1. /\ pc[c] = "write" /\ \E t \in Times : coll'[d] = Outcome(c, t)
          /\ req[c].op = "update" => pc'[c] = "del"
      BY <2>2, <1>t DEF Write
    <3>2. Doc(c) \in Detail \cup {Absent} /\ Doc(c) = coll[d]
      BY <1>t DEF Doc
    <3>3. CASE req[c].op = "update"
      BY <1>f, <3>1, <3>3
    <3>4. CASE req[c].op = "delete"
      BY <3>1, <3>2, <3>4 DEF Outcome
    <3>5. CASE req[c].op = "share"
      <4>1. \A t \in Times : Outcome(c, t) # Absent =>
              /\ Doc(c) # Absent /\ Outcome(c, t).title = Doc(c).title
              /\ Outcome(c, t).content = Doc(c).content
        BY <3>2, <3>5 DEF Outcome, Matches, Detail
      <4>2. QED
        BY <3>1, <3>2, <3>5, <4>1
    <3>6. QED
      BY <1>u, <3>1, <3>3, <3>4, <3>5
  <2>3. CASE CacheDel(c)
    BY <2>3, <1>t, <1>f, <1>u DEF CacheDel
  <2>4. CASE CacheGet(c)
    BY <2>4, <1>t, <1>f, <1>u DEF CacheGet, Reply
  <2>5. CASE FindOne(c)
    BY <2>5, <1>t, <1>f, <1>e, <1>u DEF FindOne, Doc
  <2>6. CASE CacheSet(c)
    BY <2>6, <1>t, <1>f, <1>u DEF CacheSet, Reply
  <2>7. CASE Publish(c) \/ Unpublished(c) \/ WriteFails(c)
    BY <2>7, <1>e DEF Publish, Unpublished, WriteFails
  <2>8. QED
    BY <2>1, <2>2, <2>3, <2>4, <2>5, <2>6, <2>7 DEF Serves, Serve
<1>5. QED
  BY <1>1, <1>2, <1>3, <1>4

LEMMA TouchedRight ==
  ASSUME TypeInv, NEW e \in DocIds, Snapshot(e), NEW d \in DocIds, Right(d)
  PROVE  Right(d)'
<1>1. /\ UNCHANGED <<queue, pc, req>> /\ Running(d)' = Running(d)
      /\ d # e => coll'[d] = coll[d]
      /\ d = e => /\ coll[d] # Absent /\ coll'[d].title = coll[d].title
                  /\ coll'[d].content = coll[d].content
  BY SnapshotFacts DEF Quiet
<1>2. About(d)' = About(d)
  BY <1>1 DEF About
<1>3. QED
  BY <1>1, <1>2 DEF Right, Agrees, LatestFor, Unsaved

\* A step without errors keeps Right.
LEMMA StepRight ==
  ASSUME FreshInv, AloneInv, ServiceStep, ~Crash, errors' = 0, NEW d \in DocIds, d \notin overlapped',
         Right(d)
  PROVE  Right(d)'
<1>t. TypeInv /\ errors = 0 /\ errors' # errors + 1
  BY ErrorsGrow DEF FreshInv
<1>1. ASSUME NEW c \in Calls, Serves(c) PROVE Right(d)'
  <2>1. UNCHANGED overlapped
    BY <1>1, <1>t, ServesFacts DEF TypeInv
  <2>2. CASE d = Id(c)
    <3>1. CASE pc[c] = "publish"
      <4>1. UNCHANGED coll /\ queue' = Append(queue, Message(c))
        BY <1>1, <1>t, <3>1 DEF Serves, Serve, Insert, Write, WriteFails, CacheDel, CacheGet,
             FindOne, CacheSet, Publish, Unpublished, Step, Fails
      <4>2. QED
        BY <1>t, <2>1, <2>2, <3>1, <4>1, PublishRight
    <3>2. CASE pc[c] # "publish"
      BY <1>1, <2>1, <2>2, <3>2, ServesRight
    <3>3. QED
      BY <3>1, <3>2
  <2>3. CASE d # Id(c)
    <3>1. Quiet(d)
      BY <1>1, <1>t, <2>3, ServesQuiet
    <3>2. About(d)' = About(d) /\ \A i \in About(d) : queue'[i] = queue[i]
      <4>1. CASE UNCHANGED queue
        BY <4>1 DEF About
      <4>2. CASE pc[c] = "publish" /\ queue' = Append(queue, Message(c))
        BY <1>t, <2>3, <4>2, Published DEF About
      <4>3. QED
        BY <1>1, <4>1, <4>2, ServesQueue
    <3>3. QED
      BY <3>1, <3>2, QuietRight
  <2>4. QED
    BY <2>2, <2>3
<1>2. ASSUME NEW c \in Calls, NEW r \in Request, Begin(c, r) PROVE Right(d)'
  <2>1. UNCHANGED <<coll, queue>> /\ About(d)' = About(d)
    BY <1>2 DEF Begin, About
  <2>3. CASE d = r.doc
    <3>1. /\ Running(d)' = Running(d) \cup {c} /\ pc[c] = "idle"
          /\ \A b \in Calls \ {c} : pc'[b] = pc[b] /\ req'[b] = req[b]
      BY <1>2, <1>t, <2>3, BeginFacts
    <3>2. \A b \in Running(d) : b \in Running(d)' /\ pc'[b] = pc[b] /\ req'[b] = req[b]
      BY <3>1 DEF Running
    <3>3. QED
      BY <2>1, <3>2 DEF Right, Agrees, LatestFor, Unsaved
  <2>4. CASE d # r.doc
    <3>1. Quiet(d)
      BY <1>2, <1>t, <2>4, BeginFacts
    <3>2. QED
      BY <2>1, <3>1, QuietRight
  <2>5. QED
    BY <2>3, <2>4
<1>3. ASSUME (\E e \in DocIds : Expire(e)) \/ Restart \/ UNCHANGED vars PROVE Right(d)'
  <2>1. UNCHANGED <<coll, queue, pc, req>>
    BY <1>3 DEF Expire, Restart, vars
  <2>2. Running(d)' = Running(d) /\ About(d)' = About(d)
    BY <2>1 DEF Running, Id, About
  <2>3. QED
    BY <2>1, <2>2 DEF Right, Agrees, LatestFor, Unsaved
<1>4. ASSUME NEW e \in DocIds, Snapshot(e) PROVE Right(d)'
  BY <1>4, <1>t, TouchedRight
<1>5. QED
  BY <1>1, <1>2, <1>3, <1>4 DEF ServiceStep

-----------------------------------------------------------------------------
(***************************************************************************)
(* The document service within Searching.                                  *)
(***************************************************************************)

SerialRight == errors = 0 /\ ~ended => \A d \in DocIds \ overlapped : Right(d)

ServiceInv == FreshInv /\ StaleOnlyByRace /\ AloneInv /\ HasLatest /\ SerialRight

LEMMA OverlapStays == TypeInv /\ ServiceStep => overlapped \subseteq overlapped'
<1> SUFFICES ASSUME TypeInv, ServiceStep PROVE overlapped \subseteq overlapped'
  OBVIOUS
<1>1. ASSUME NEW c \in Calls, Serves(c) PROVE overlapped \subseteq overlapped'
  BY <1>1, ServesFacts DEF TypeInv
<1>2. ASSUME ~\E c \in Calls : Serves(c) PROVE overlapped \subseteq overlapped'
  BY <1>2 DEF ServiceStep, Begin, Crash, Expire, Restart, Snapshot, vars
<1>3. QED
  BY <1>1, <1>2

LEMMA InitService == Init => ServiceInv
<1> SUFFICES ASSUME Init PROVE ServiceInv
  OBVIOUS
<1>1. FreshInv
  BY InitType DEF Init, FreshInv, Fresh
<1>2. StaleOnlyByRace
  BY DEF Init, StaleOnlyByRace, Explained
<1>3. AloneInv
  BY DEF Init, AloneInv, Running
<1>4. \A d \in DocIds : About(d) = {}
  BY DEF Init, About
<1>5. HasLatest /\ SerialRight
  BY <1>4 DEF HasLatest, SerialRight, Right, Agrees
<1>6. QED
  BY <1>1, <1>2, <1>3, <1>5 DEF ServiceInv

LEMMA StepService == ServiceInv /\ ServiceStep => ServiceInv'
<1> SUFFICES ASSUME ServiceInv, ServiceStep PROVE ServiceInv'
  OBVIOUS
<1>t. TypeInv /\ FreshInv
  BY DEF ServiceInv, FreshInv
<1>1. FreshInv'
  BY <1>t, StepType, StepFresh DEF FreshInv
<1>2. StaleOnlyByRace' /\ AloneInv' /\ HasLatest'
  BY <1>t, StepCache, StepAlone, StepLatest DEF ServiceInv
<1>3. SerialRight'
  <2> SUFFICES ASSUME errors' = 0, ~ended', NEW d \in DocIds \ overlapped' PROVE Right(d)'
    BY DEF SerialRight
  <2>1. errors = 0 /\ ~ended /\ ~Crash /\ d \notin overlapped
    <3>1. errors = 0 /\ ~ended
      BY <1>t, ErrorsGrow
    <3>2. ~Crash
      BY DEF Crash
    <3>3. d \notin overlapped
      BY <1>t, OverlapStays
    <3>4. QED
      BY <3>1, <3>2, <3>3
  <2>2. Right(d)
    BY <2>1 DEF ServiceInv, SerialRight
  <2>3. QED
    BY <2>1, <2>2, StepRight DEF ServiceInv
<1>4. QED
  BY <1>1, <1>2, <1>3 DEF ServiceInv

\* What is asked of calls that do not overlap follows.
LEMMA ServiceAgrees == ServiceInv => SerialCallsAgree
<1> SUFFICES ASSUME ServiceInv, errors = 0, ~ended, NEW d \in DocIds \ overlapped
             PROVE  /\ \A c \in Running(d) : pc[c] = "publish" => Same(detail[c], coll[d])
                    /\ Running(d) = {} /\ coll[d] # Absent
                         /\ (\E i \in 1 .. Len(queue) : queue[i].doc = d)
                       => /\ queue[LastMessage(d)].title = coll[d].title
                          /\ queue[LastMessage(d)].content = coll[d].content
  BY DEF SerialCallsAgree
<1>t. TypeInv /\ HasLatest /\ Right(d)
  BY DEF ServiceInv, FreshInv, SerialRight
<1>1. ASSUME NEW c \in Running(d), pc[c] = "publish" PROVE Same(detail[c], coll[d])
  <2>1. Alone(c, d) /\ Saves(c)
    BY <1>t, <1>1 DEF ServiceInv, AloneInv, Running, TypeInv, Formed, Saves
  <2>2. QED
    BY <1>1, <2>1 DEF Alone
<1>2. ASSUME Running(d) = {}, coll[d] # Absent, \E i \in 1 .. Len(queue) : queue[i].doc = d
      PROVE  /\ queue[LastMessage(d)].title = coll[d].title
             /\ queue[LastMessage(d)].content = coll[d].content
  <2>1. About(d) # {}
    BY <1>2 DEF About
  <2>2. LatestFor(d, LastMessage(d))
    BY <1>t, <2>1, LastIsLatest
  <2>3. QED
    BY <1>t, <1>2, <2>2 DEF Right, Agrees, LatestFor
<1>3. QED
  BY <1>1, <1>2

\* Whatever Searching does is a step of the document service, or none.
LEMMA SearchIsService == [SearchNext]_searchVars => ServiceStep
<1>1. ASSUME NEW c \in Calls, NEW r \in Request, CallBegins(c, r) PROVE ServiceStep
  BY <1>1 DEF CallBegins, ServiceStep
<1>2. CallStep => ServiceStep
  BY DEF CallStep, ServiceStep, Serves
<1>3. ASSUME NEW c \in Calls, PublishSaved(c) PROVE ServiceStep
  BY <1>3 DEF PublishSaved, ServiceStep, Serves, Serve
<1>4. ASSUME NEW c \in Calls, PublishLost(c) PROVE ServiceStep
  BY <1>4 DEF PublishLost, ServiceStep, Serves, Unpublished, Fails, Step
<1>5. DocServiceCrashes => ServiceStep
  BY DEF DocServiceCrashes, ServiceStep
<1>6. PipeStep \/ Rest \/ UNCHANGED searchVars => ServiceStep
  BY DEF PipeStep, Rest, searchVars, vars, ServiceStep
<1>7. DocServiceRestarts => ServiceStep
  BY DEF DocServiceRestarts, ServiceStep
<1>8. QED
  BY <1>1, <1>2, <1>3, <1>4, <1>5, <1>6, <1>7 DEF SearchNext

LEMMA Service == SearchSpec => []ServiceInv
<1>1. SearchInit => ServiceInv
  BY InitService DEF SearchInit
<1>2. ServiceInv /\ [SearchNext]_searchVars => ServiceInv'
  BY StepService, SearchIsService
<1>3. QED
  BY <1>1, <1>2, PTL DEF SearchSpec

\* What is cached and what is published is complete: no call reaches the
\* cache or the queue with a document it did not find.
THEOREM TypeCorrect == SearchSpec => []TypeOK
<1>1. ServiceInv => TypeOK
  BY DEF ServiceInv, FreshInv, TypeInv
<1>2. QED
  BY <1>1, Service, PTL

\* The cache serves what the collection no longer holds only while a writer is
\* about to delete the entry, after a reader's late cacheSet, after a write of
\* a process that has no cache, or after an error or a crash.  For the
\* updated_at of an entry that also takes in merges.
THEOREM StaleCacheIsRace == SearchSpec => []StaleOnlyByRace
<1>1. ServiceInv => StaleOnlyByRace
  BY DEF ServiceInv
<1>2. QED
  BY <1>1, Service, PTL

\* Where calls on a document do not overlap and nothing fails, UpdateDoc
\* answers with the document as it is, up to an updated_at that a merge has
\* changed, and the last index message has its title and content.
THEOREM SerialCallsRight == SearchSpec => []SerialCallsAgree
<1>1. QED
  BY ServiceAgrees, Service, PTL

-----------------------------------------------------------------------------
(***************************************************************************)
(* The pipeline behind the service.  What was proved of it holds here: a   *)
(* step of Searching is one of its steps or none, but for the crash of the *)
(* document service, which may take the publisher's link along.            *)
(***************************************************************************)

PipeP == INSTANCE IndexProofs
           WITH sent <- [i \in 1 .. Len(queue) |-> queue[i].doc], Refused <- {}

LEMMA PipeAssumptions == PipeP!IndexAssumption
BY SearchAssumption DEF PipeP!IndexAssumption

PipeInv == PipeP!OrderInv /\ PipeP!LossInv /\ PipeP!Indexed

LEMMA SamePipe ==
  /\ Pipe!Init <=> PipeP!Init
  /\ \A d : Pipe!Publish(d) <=> PipeP!Publish(d)
  /\ PipeStep \/ Pipe!DocServiceRestarts => PipeP!Next
<1> USE DEF Pipe!queueVars, PipeP!queueVars, Pipe!consumerVars, PipeP!consumerVars,
            Pipe!indexVars, PipeP!indexVars, Pipe!notes, PipeP!notes,
            Pipe!NoFault, PipeP!NoFault, Pipe!Fault, PipeP!Fault, Pipe!Loss, PipeP!Loss,
            Pipe!Unacked, PipeP!Unacked, Pipe!Prefetched, PipeP!Prefetched,
            Pipe!InHand, PipeP!InHand
<1>1. (Pipe!Init <=> PipeP!Init) /\ \A d : Pipe!Publish(d) <=> PipeP!Publish(d)
  BY DEF Pipe!Init, PipeP!Init, Pipe!Publish, PipeP!Publish
<1>2. Pipe!Reconnect \/ Pipe!Deliver => PipeP!Next
  BY DEF Pipe!Reconnect, PipeP!Reconnect, Pipe!Deliver, PipeP!Deliver, Pipe!Oldest,
         PipeP!Oldest, PipeP!Next
<1>3. Pipe!Consume => PipeP!Next
  <2>1. Pipe!Take => PipeP!Take
    BY DEF Pipe!Take, PipeP!Take
  <2>2. Pipe!IndexOk => PipeP!IndexOk
    BY DEF Pipe!IndexOk, PipeP!IndexOk, Pipe!Apply, PipeP!Apply
  <2>3. Pipe!IndexRefused => PipeP!IndexRefused
    BY DEF Pipe!IndexRefused, PipeP!IndexRefused
  <2>4. Pipe!Ack => PipeP!Ack
    BY DEF Pipe!Ack, PipeP!Ack
  <2>5. Pipe!Notice => PipeP!Notice
    BY DEF Pipe!Notice, PipeP!Notice
  <2>6. QED
    BY <2>1, <2>2, <2>3, <2>4, <2>5 DEF Pipe!Consume, PipeP!Consume, PipeP!Next
<1>4. Pipe!IndexFails => PipeP!Next
  BY DEF Pipe!IndexFails, PipeP!IndexFails, Pipe!Apply, PipeP!Apply, Pipe!SendBack,
         PipeP!SendBack, PipeP!Next
<1>5. Pipe!ChannelClosed \/ Pipe!ConnLost \/ Pipe!Restart => PipeP!Next
  BY DEF Pipe!ChannelClosed, PipeP!ChannelClosed, Pipe!ConnLost, PipeP!ConnLost,
         Pipe!Restart, PipeP!Restart, Pipe!Requeue, PipeP!Requeue, PipeP!Next
<1>6. Pipe!PublisherLost \/ Pipe!BrokerRestarts \/ Pipe!DocServiceRestarts => PipeP!Next
  BY DEF Pipe!PublisherLost, PipeP!PublisherLost, Pipe!BrokerRestarts, PipeP!BrokerRestarts,
         Pipe!DocServiceRestarts, PipeP!DocServiceRestarts, PipeP!Next
<1>7. QED
  BY <1>1, <1>2, <1>3, <1>4, <1>5, <1>6 DEF PipeStep

LEMMA StepPipe ==
  ASSUME ServiceInv, PipeInv, [SearchNext]_searchVars
  PROVE  PipeInv'
<1>k. ASSUME [PipeP!Next]_(PipeP!vars) PROVE PipeInv'
  BY <1>k, PipeAssumptions, PipeP!StepOrder, PipeP!StepLoss, PipeP!StepIndexed DEF PipeInv
<1>q. ASSUME UNCHANGED <<queue, pipeVars>> PROVE PipeInv'
  <2>1. UNCHANGED PipeP!vars
    BY <1>q DEF pipeVars, PipeP!vars, PipeP!queueVars, PipeP!consumerVars, PipeP!indexVars,
         PipeP!notes
  <2>2. QED
    BY <1>k, <2>1
<1>t. TypeInv
  BY DEF ServiceInv, FreshInv
<1>1. ASSUME NEW c \in Calls, NEW r \in Request, CallBegins(c, r) PROVE PipeInv'
  BY <1>1, <1>q DEF CallBegins, Begin
<1>2. CASE CallStep
  <2>1. UNCHANGED queue
    BY <1>2 DEF CallStep, Serve, Insert, Write, WriteFails, CacheDel, CacheGet, FindOne,
         CacheSet, Publish, Step, Fails, Expire, Snapshot
  <2>2. QED
    BY <1>2, <1>q, <2>1 DEF CallStep
<1>3. ASSUME NEW c \in Calls, PublishSaved(c) PROVE PipeInv'
  <2>1. Id(c) \in DocIds
    BY <1>3, <1>t, RequestIs DEF PublishSaved, Publish, Step, Fails, TypeInv, Formed, Id
  <2>2. ASSUME NEW d \in DocIds, d = Id(c) PROVE PipeP!Publish(d)
    <3>1. Pipe!Publish(d)
      BY <1>3, <2>2 DEF PublishSaved, Pipe!Publish
    <3>2. QED
      BY <3>1, SamePipe
  <2>3. QED
    BY <1>k, <2>1, <2>2 DEF PipeP!Next
<1>4. ASSUME NEW c \in Calls, PublishLost(c) PROVE PipeInv'
  BY <1>4, <1>q DEF PublishLost
<1>5. CASE DocServiceCrashes
  <2>1. /\ UNCHANGED <<queue, ready, conn, chan, prefetched, cur, step, index, applied,
                       requeued, wiped, losses>>
        /\ linked' \in BOOLEAN /\ faults' = faults + 1
    BY <1>5 DEF DocServiceCrashes, Crash, Pipe!Fault
  <2> USE DEF PipeP!Prefetched, PipeP!InHand, PipeP!Unacked, PipeP!MsgIds
  <2>2. PipeP!TypeInv'
    BY <2>1 DEF PipeInv, PipeP!OrderInv, PipeP!TypeInv, PipeP!TypeOK, PipeP!Places
  <2>3. PipeP!Ordered'
    BY <2>1 DEF PipeInv, PipeP!OrderInv, PipeP!Ordered, PipeP!QueueInOrder,
         PipeP!ChannelInOrder, PipeP!HandInOrder, PipeP!IndexApplied
  <2>4. PipeP!AckedApplied' /\ PipeP!Indexed'
    <3>1. PipeP!AckedApplied'
      BY <2>1 DEF PipeInv, PipeP!LossInv, PipeP!AckedApplied
    <3>2. [i \in 1 .. Len(queue') |-> queue'[i].doc] = [i \in 1 .. Len(queue) |-> queue[i].doc]
      BY <2>1
    <3>3. PipeP!Indexed'
      BY ONLY <2>1, <3>2, PipeInv DEF PipeInv, PipeP!Indexed
    <3>4. QED
      BY <3>1, <3>3
  <2>5. PipeP!NoMessageLost'
    BY <2>1 DEF PipeInv, PipeP!LossInv, PipeP!NoMessageLost
  <2>6. QED
    BY <2>2, <2>3, <2>4, <2>5 DEF PipeInv, PipeP!OrderInv, PipeP!LossInv
<1>6. CASE PipeStep
  BY <1>6, <1>k, SamePipe
<1>7. CASE Rest \/ UNCHANGED searchVars
  BY <1>7, <1>q DEF Rest, searchVars, vars
<1>8. CASE DocServiceRestarts
  <2>1. UNCHANGED queue /\ (Pipe!DocServiceRestarts \/ UNCHANGED pipeVars)
    BY <1>8 DEF DocServiceRestarts, Restart
  <2>2. QED
    BY <1>k, <1>q, <2>1, SamePipe
<1>9. QED
  BY <1>1, <1>2, <1>3, <1>4, <1>5, <1>6, <1>7, <1>8 DEF SearchNext

-----------------------------------------------------------------------------
(***************************************************************************)
(* Saves that do not overlap, whatever else is under way.  The content a   *)
(* save publishes is in its request, so that the cache has no say in it.   *)
(***************************************************************************)

ContentOf(d) ==
  /\ \A b, c \in Running(d) : Saves(b) /\ Saves(c) => b = c
  /\ \A c \in Running(d) : Unsaved(c) /\ coll[d] # Absent => coll[d].content = Saved(c)
  /\ d \notin missed /\ coll[d] # Absent /\ (\A c \in Running(d) : ~Unsaved(c)) =>
       \A i \in About(d) : LatestFor(d, i) => queue[i].content = coll[d].content

ContentInv == \A d \in DocIds \ raced : ContentOf(d)

\* A step of a call that publishes nothing, as the content of its document
\* sees it.
LEMMA ContentStep ==
  ASSUME FreshInv, NEW c \in Calls, Serve(c), pc[c] # "publish", NEW d \in DocIds, d = Id(c)
  PROVE  /\ UNCHANGED queue
         /\ ~Saves(c) => coll'[d] = Absent \/ (coll[d] # Absent /\ coll'[d].content = coll[d].content)
         /\ Unsaved(c) => coll'[d] = coll[d] /\ (Unsaved(c)' \/ pc'[c] = "done")
         /\ Unsaved(c) \/ Unsaved(c)' => Saves(c)
         /\ ~Unsaved(c) /\ Unsaved(c)' => (coll'[d] # Absent => coll'[d].content = Saved(c))
         /\ Saves(c) /\ ~Unsaved(c) /\ ~Unsaved(c)' =>
              coll'[d] = coll[d] \/ (pc'[c] = "done" /\ coll' # coll)
<1>t. /\ TypeInv /\ TypeOK
      /\ coll \in [DocIds -> Detail \cup {Absent}] /\ pc \in [Calls -> PCs]
  BY DEF FreshInv, TypeInv, TypeOK, PCs
<1>f. pc[c] \notin {"idle", "done"} /\ UNCHANGED req
  BY <1>t, ServesFacts DEF Serves
<1>u. /\ pc[c] = "insert" => req[c].op = "create"
      /\ pc[c] \in {"write", "del"} => req[c].op \in {"update", "share", "delete"}
      /\ pc[c] \in {"get", "find", "set"} => req[c].op \in {"get", "update"}
  BY <1>t, <1>f DEF TypeInv, Formed
<1> USE DEF Step, Fails, Unsaved, Saves
<1>1. CASE Insert(c)
  <2>1. PICK t \in Times :
          /\ UNCHANGED queue /\ pc[c] = "insert" /\ req[c].op = "create"
          /\ \/ pc'[c] = "publish" /\ coll'[d] = NewDoc(c, t)
             \/ pc'[c] = "done" /\ (coll'[d] # coll[d] => coll' # coll)
    BY <1>1, <1>t, <1>u DEF Insert
  <2>2. NewDoc(c, t).content = Empty
    BY DEF NewDoc
  <2>3. QED
    BY <1>f, <2>1, <2>2 DEF Saved
<1>2. CASE Write(c) \/ WriteFails(c)
  <2>1. PICK t \in Times :
          /\ UNCHANGED queue /\ pc[c] = "write" /\ coll'[d] \in {coll[d], Outcome(c, t)}
          /\ coll'[d] # coll[d] => coll' # coll
          /\ pc'[c] \in {"del", "done"}
          /\ pc'[c] = "del" => coll'[d] = Outcome(c, t)
    BY <1>2, <1>t DEF Write, WriteFails
  <2>2. Doc(c) \in Detail \cup {Absent} /\ Doc(c) = coll[d]
    BY <1>t DEF Doc
  <2>3. CASE req[c].op = "update"
    <3>1. Outcome(c, t) # Absent => Outcome(c, t).content = req[c].content
      BY <2>2, <2>3 DEF Outcome, Matches, Detail
    <3>2. QED
      BY <1>f, <2>1, <2>3, <3>1 DEF Saved
  <2>4. CASE req[c].op = "delete"
    <3>1. Outcome(c, t) \in {Absent, Doc(c)}
      BY <2>4 DEF Outcome
    <3>2. QED
      BY <1>f, <2>1, <2>2, <2>4, <3>1
  <2>5. CASE req[c].op = "share"
    <3>1. Outcome(c, t) # Absent => Doc(c) # Absent /\ Outcome(c, t).content = Doc(c).content
      BY <2>2, <2>5 DEF Outcome, Matches, Detail
    <3>2. QED
      BY <1>f, <2>1, <2>2, <2>5, <3>1
  <2>6. QED
    BY <1>u, <2>1, <2>3, <2>4, <2>5
<1>3. CASE CacheDel(c)
  BY <1>3, <1>t, <1>f, <1>u DEF CacheDel
<1>4. CASE CacheGet(c)
  BY <1>4, <1>t, <1>f, <1>u DEF CacheGet, Reply
<1>5. CASE FindOne(c)
  BY <1>5, <1>t, <1>f, <1>u DEF FindOne
<1>6. CASE CacheSet(c)
  BY <1>6, <1>t, <1>f, <1>u DEF CacheSet, Reply
<1>7. CASE Publish(c)
  BY <1>7 DEF Publish
<1>8. QED
  BY <1>1, <1>2, <1>3, <1>4, <1>5, <1>6, <1>7 DEF Serve

LEMMA QuietContent ==
  ASSUME NEW d \in DocIds, Quiet(d), ContentOf(d), d \notin missed' => d \notin missed,
         About(d)' = About(d), \A i \in About(d) : queue'[i] = queue[i]
  PROVE  ContentOf(d)'
BY DEF Quiet, ContentOf, LatestFor, Unsaved, Saved, Saves

\* The save that ends unpublished is missed.
LEMMA CutShortIs ==
  ASSUME NEW c \in Calls, NEW d \in DocIds, d = Id(c), pc[c] # pc'[c], pc'[c] = "done", Saves(c),
         pc[c] \in {"insert", "write"} => coll' # coll
  PROVE  d \in CutShort
BY DEF CutShort

LEMMA CallStepContent ==
  ASSUME FreshInv, NEW c \in Calls, Serve(c), pc[c] # "publish", NEW d \in DocIds, d = Id(c),
         ContentOf(d), missed' = missed \cup CutShort
  PROVE  ContentOf(d)'
<1>t. TypeInv /\ TypeOK
  BY DEF FreshInv, TypeInv
<1>f. /\ pc[c] \notin {"idle", "done"} /\ UNCHANGED req
      /\ \A b \in Calls \ {c} : pc'[b] = pc[b]
      /\ \A b \in Calls : Id(b)' = Id(b)
  BY <1>t, ServesFacts DEF Id, Serves
<1>c. /\ UNCHANGED queue
      /\ ~Saves(c) => coll'[d] = Absent \/ (coll[d] # Absent /\ coll'[d].content = coll[d].content)
      /\ Unsaved(c) => coll'[d] = coll[d] /\ (Unsaved(c)' \/ pc'[c] = "done")
      /\ Unsaved(c) \/ Unsaved(c)' => Saves(c)
      /\ ~Unsaved(c) /\ Unsaved(c)' => (coll'[d] # Absent => coll'[d].content = Saved(c))
      /\ Saves(c) /\ ~Unsaved(c) /\ ~Unsaved(c)' =>
           coll'[d] = coll[d] \/ (pc'[c] = "done" /\ coll' # coll)
  BY ContentStep
<1>r. /\ c \in Running(d) /\ Running(d)' \subseteq Running(d)
      /\ \A b \in Running(d) : b # c => b \in Running(d)' /\ (Unsaved(b)' <=> Unsaved(b))
      /\ Unsaved(c)' => c \in Running(d)'
      /\ \A b \in Calls : (Saves(b)' <=> Saves(b)) /\ Saved(b)' = Saved(b)
      /\ \A b \in Running(d) : Unsaved(b) => Saves(b)
      /\ About(d)' = About(d)
  <2>1. c \in Running(d) /\ Running(d)' \subseteq Running(d)
    BY <1>f DEF Running
  <2>2. \A b \in Running(d) : b # c => b \in Running(d)' /\ (Unsaved(b)' <=> Unsaved(b))
    BY <1>f DEF Running, Unsaved
  <2>3. Unsaved(c)' => c \in Running(d)'
    BY <1>f DEF Running, Unsaved
  <2>4. \A b \in Calls : (Saves(b)' <=> Saves(b)) /\ Saved(b)' = Saved(b)
    BY <1>f DEF Saves, Saved
  <2>5. \A b \in Running(d) : Unsaved(b) => Saves(b)
    BY DEF Unsaved, Saves
  <2>6. About(d)' = About(d)
    BY <1>c DEF About
  <2>7. QED
    BY <2>1, <2>2, <2>3, <2>4, <2>5, <2>6
<1>o. Running(d) \subseteq Calls /\ \A b \in Running(d) : Saves(b) /\ Saves(c) => b = c
  BY <1>r DEF ContentOf, Running
<1>1. \A a, b \in Running(d)' : Saves(a)' /\ Saves(b)' => a = b
  BY <1>r, <1>o DEF ContentOf
<1>2. ASSUME NEW b \in Running(d)', Unsaved(b)', coll'[d] # Absent
      PROVE  coll'[d].content = Saved(b)'
  <2>0. b \in Running(d) /\ b \in Calls /\ Saved(b)' = Saved(b)
    BY <1>r, <1>o
  <2>1. CASE b = c
    BY <1>c, <1>r, <1>2, <2>0, <2>1 DEF ContentOf
  <2>2. CASE b # c
    <3>1. Unsaved(b) /\ ~Saves(c)
      BY <1>r, <1>o, <1>2, <2>0, <2>2
    <3>2. QED
      BY <1>c, <1>2, <2>0, <3>1 DEF ContentOf
  <2>3. QED
    BY <2>1, <2>2
<1>3. ASSUME d \notin missed', coll'[d] # Absent, \A b \in Running(d)' : ~Unsaved(b)',
             NEW i \in About(d)', LatestFor(d, i)'
      PROVE  queue'[i].content = coll'[d].content
  <2>1. d \notin missed /\ d \notin CutShort /\ ~Unsaved(c)'
    BY <1>3, <1>r
  <2>2. ~Unsaved(c)
    <3>1. SUFFICES ASSUME Unsaved(c) PROVE FALSE
      OBVIOUS
    <3>2. Saves(c) /\ pc'[c] = "done" /\ pc[c] \notin {"insert", "write"}
      BY <1>c, <2>1, <3>1 DEF Unsaved
    <3>3. QED
      BY <1>f, <2>1, <3>2, CutShortIs
  <2>3. coll[d] # Absent /\ coll'[d].content = coll[d].content
    <3>1. CASE Saves(c)
      <4>1. coll'[d] = coll[d] \/ (pc'[c] = "done" /\ coll' # coll)
        BY <1>c, <2>1, <2>2, <3>1
      <4>2. QED
        BY <1>3, <1>f, <2>1, <3>1, <4>1, CutShortIs
    <3>2. CASE ~Saves(c)
      BY <1>3, <1>c, <3>2
    <3>3. QED
      BY <3>1, <3>2
  <2>4. \A b \in Running(d) : ~Unsaved(b)
    BY <1>3, <1>r, <2>2
  <2>5. i \in About(d) /\ LatestFor(d, i) /\ queue' = queue
    BY <1>3, <1>r, <1>c DEF LatestFor
  <2>6. QED
    BY <2>1, <2>3, <2>4, <2>5 DEF ContentOf
<1>4. QED
  BY <1>1, <1>2, <1>3 DEF ContentOf

\* A save ends with its message, published or lost.
LEMMA PublishContent ==
  ASSUME FreshInv, NEW c \in Calls, Step(c, "publish", "done"), UNCHANGED <<coll, req>>,
         NEW d \in DocIds, d = Id(c), ContentOf(d),
         \/ queue' = Append(queue, Message(c))
         \/ UNCHANGED queue /\ d \in missed'
  PROVE  ContentOf(d)'
<1>t. TypeInv /\ TypeOK
  BY DEF FreshInv, TypeInv
<1>f. /\ pc[c] = "publish" /\ pc'[c] = "done"
      /\ \A b \in Calls \ {c} : pc'[b] = pc[b]
      /\ \A b \in Calls : Id(b)' = Id(b)
  BY <1>t DEF Step, TypeOK, Id
<1>s. c \in Running(d) /\ Saves(c) /\ Unsaved(c)
  BY <1>t, <1>f DEF Running, TypeInv, Formed, Saves, Unsaved
<1>r. \A b \in Running(d)' : /\ b \in Running(d) /\ b # c /\ b \in Calls
                             /\ Saves(b)' = Saves(b) /\ Unsaved(b)' = Unsaved(b)
                             /\ Unsaved(b) => Saves(b)
  BY <1>f DEF Running, Saves, Unsaved
<1>1. \A b \in Running(d)' : ~Saves(b) /\ ~Saves(b)' /\ ~Unsaved(b)'
  BY <1>s, <1>r DEF ContentOf
<1>2. ASSUME queue' = Append(queue, Message(c)), coll'[d] # Absent,
             NEW i \in About(d)', LatestFor(d, i)'
      PROVE  queue'[i].content = coll'[d].content
  <2>1. /\ About(d)' = About(d) \cup {Len(queue) + 1} /\ Len(queue) \in Nat
        /\ queue'[Len(queue) + 1] = Message(c)
    BY <1>t, <1>f, <1>2, Published
  <2>2. i = Len(queue) + 1
    BY <1>2, <2>1 DEF LatestFor, About
  <2>3. Message(c).content = Saved(c)
    BY <1>t, <1>f, <1>s, MessageType DEF Saved, Saves
  <2>4. QED
    BY <1>2, <1>s, <2>1, <2>2, <2>3 DEF ContentOf
<1>3. QED
  BY <1>1, <1>2 DEF ContentOf

\* A crash leaves no call; what a call had written and not published is missed.
LEMMA CrashCuts ==
  ASSUME TypeInv, Crash, missed' = missed \cup CutShort
  PROVE  /\ UNCHANGED <<coll, queue, req, cache, errors, overlapped>>
         /\ \A d \in DocIds : Running(d)' = {} /\ About(d)' = About(d)
         /\ \A d \in DocIds \ missed' : \A c \in Running(d) : ~Unsaved(c)
<1>1. /\ UNCHANGED <<coll, queue, req, cache, errors, overlapped>>
      /\ \A c \in Calls : pc'[c] \in {"idle", "done"} /\ (pc[c] \notin {"idle", "done"} => pc'[c] = "done")
  BY DEF Crash, TypeInv, TypeOK
<1>2. \A d \in DocIds : Running(d)' = {} /\ About(d)' = About(d)
  BY <1>1 DEF Running, About
<1>3. ASSUME NEW d \in DocIds \ missed', NEW c \in Running(d), Unsaved(c) PROVE FALSE
  <2>1. /\ c \in Calls /\ d = Id(c) /\ pc[c] # pc'[c] /\ pc'[c] = "done" /\ Saves(c)
        /\ pc[c] \notin {"insert", "write"}
    BY <1>1, <1>3 DEF Running, Unsaved, Saves
  <2>2. d \in CutShort
    BY <2>1, CutShortIs
  <2>3. QED
    BY <2>2
<1>4. QED
  BY <1>1, <1>2, <1>3

\* A call that begins.
LEMMA BeginContent ==
  ASSUME TypeInv, NEW c \in Calls, NEW r \in Request, CallBegins(c, r), NEW d \in DocIds,
         d = r.doc, d \notin raced', ContentOf(d)
  PROVE  ContentOf(d)'
<1>b. Begin(c, r) /\ UNCHANGED missed
  BY DEF CallBegins
<1>1. /\ UNCHANGED <<coll, queue>> /\ pc[c] = "idle"
      /\ r.op = "create" => d \notin used
      /\ pc'[c] = IF r.op = "create" THEN "insert" ELSE IF r.op = "get" THEN "get" ELSE "write"
      /\ req'[c] = r
      /\ \A b \in Calls \ {c} : pc'[b] = pc[b] /\ req'[b] = req[b]
      /\ Running(d)' = Running(d) \cup {c}
  BY <1>b, BeginFacts
<1>2. About(d)' = About(d)
  BY <1>1 DEF About
<1>3. ~Unsaved(c)'
  BY <1>1 DEF Unsaved
<1>4. \A b \in Running(d) : /\ b # c /\ b \in Calls /\ pc'[b] = pc[b] /\ req'[b] = req[b]
  BY <1>1 DEF Running
<1>5. \A b \in Running(d) : (Unsaved(b)' <=> Unsaved(b)) /\ Saved(b)' = Saved(b)
                            /\ (Saves(b)' <=> Saves(b))
  BY <1>4 DEF Unsaved, Saved, Saves
<1>6. Saves(c)' => \A b \in Running(d) : ~Saves(b)
  <2>1. CASE r.op = "update"
    BY <2>1 DEF CallBegins
  <2>2. CASE r.op = "create"
    <3>1. Running(d) = {}
      BY <1>1, <2>2 DEF Running, TypeInv, Formed
    <3>2. QED
      BY <3>1
  <2>3. QED
    BY <1>1, <2>1, <2>2 DEF Saves
<1>7. \A a, b \in Running(d)' : Saves(a)' /\ Saves(b)' => a = b
  BY <1>1, <1>5, <1>6 DEF ContentOf
<1>8. \A b \in Running(d)' : Unsaved(b)' /\ coll'[d] # Absent => coll'[d].content = Saved(b)'
  BY <1>1, <1>3, <1>5 DEF ContentOf
<1>9. (\A b \in Running(d)' : ~Unsaved(b)') => \A b \in Running(d) : ~Unsaved(b)
  BY <1>1, <1>5
<1>10. QED
  BY <1>b, <1>1, <1>2, <1>7, <1>8, <1>9 DEF ContentOf, LatestFor

\* A call that publishes leaves the other documents and their messages alone.
LEMMA ElsewhereQuiet ==
  ASSUME TypeInv, NEW c \in Calls, Serves(c), NEW d \in DocIds, d # Id(c)
  PROVE  Quiet(d) /\ About(d)' = About(d) /\ \A i \in About(d) : queue'[i] = queue[i]
<1>1. Quiet(d)
  BY ServesQuiet
<1>2. CASE UNCHANGED queue
  BY <1>1, <1>2 DEF About
<1>3. CASE pc[c] = "publish" /\ queue' = Append(queue, Message(c))
  BY <1>1, <1>3, Published DEF About
<1>4. QED
  BY <1>2, <1>3, ServesQueue

LEMMA StepContent == FreshInv /\ ContentInv /\ [SearchNext]_searchVars => ContentInv'
<1> SUFFICES ASSUME FreshInv, ContentInv, [SearchNext]_searchVars,
                    NEW d \in DocIds, d \notin raced'
             PROVE  ContentOf(d)'
  BY DEF ContentInv
<1>t. TypeInv
  BY DEF FreshInv
<1>r. d \notin raced /\ ContentOf(d)
  <2>1. raced \subseteq raced'
    BY DEF SearchNext, CallBegins, CallStep, PublishSaved, PublishLost, DocServiceCrashes, DocServiceRestarts,
           PipeStep, Rest, searchVars
  <2>2. QED
    BY <2>1 DEF ContentInv
<1>1. ASSUME NEW c \in Calls, NEW r \in Request, CallBegins(c, r) PROVE ContentOf(d)'
  <2>1. CASE d = r.doc
    BY <1>1, <1>t, <1>r, <2>1, BeginContent
  <2>2. CASE d # r.doc
    <3>1. Begin(c, r) /\ UNCHANGED missed
      BY <1>1 DEF CallBegins
    <3>2. Quiet(d) /\ UNCHANGED queue
      BY <1>t, <2>2, <3>1, BeginFacts
    <3>3. About(d)' = About(d)
      BY <3>2 DEF About
    <3>4. QED
      BY <1>r, <3>1, <3>2, <3>3, QuietContent
  <2>3. QED
    BY <2>1, <2>2
<1>2. CASE CallStep
  <2>m. missed' = missed \cup CutShort
    BY <1>2 DEF CallStep
  <2>1. ASSUME NEW c \in Calls, pc[c] # "publish", Serve(c) PROVE ContentOf(d)'
    <3>1. CASE d = Id(c)
      BY <1>r, <2>m, <2>1, <3>1, CallStepContent
    <3>2. CASE d # Id(c)
      BY <1>t, <1>r, <2>m, <2>1, <3>2, ElsewhereQuiet, QuietContent DEF Serves
    <3>3. QED
      BY <3>1, <3>2
  <2>2. ASSUME NEW e \in DocIds, Expire(e) PROVE ContentOf(d)'
    <3>1. UNCHANGED <<coll, queue, pc, req>> /\ (d \notin missed' => d \notin missed)
      BY <2>m, <2>2 DEF Expire
    <3>2. Running(d)' = Running(d) /\ About(d)' = About(d)
      BY <3>1 DEF Running, Id, About
    <3>3. QED
      BY <1>r, <3>1, <3>2 DEF ContentOf, LatestFor, Unsaved, Saved, Saves
  <2>3. ASSUME NEW e \in DocIds, Snapshot(e) PROVE ContentOf(d)'
    <3>1. /\ UNCHANGED <<queue, pc, req>> /\ (d \notin missed' => d \notin missed)
          /\ Running(d)' = Running(d)
          /\ d # e => coll'[d] = coll[d]
          /\ d = e => coll[d] # Absent /\ coll'[d].content = coll[d].content
      BY <1>t, <2>m, <2>3, SnapshotFacts DEF Quiet
    <3>2. About(d)' = About(d)
      BY <3>1 DEF About
    <3>3. QED
      BY <1>r, <3>1, <3>2 DEF ContentOf, LatestFor, Unsaved, Saved, Saves
  <2>4. QED
    BY <1>2, <2>1, <2>2, <2>3 DEF CallStep
<1>3. ASSUME NEW c \in Calls, PublishSaved(c) PROVE ContentOf(d)'
  <2>1. Publish(c) /\ Pipe!Publish(Id(c)) /\ missed' = missed \ {Id(c)}
    BY <1>3 DEF PublishSaved
  <2>2. CASE d = Id(c)
    <3>1. queue' # queue
      <4>1. Len([i \in 1 .. Len(queue') |-> queue'[i].doc])
              = Len([i \in 1 .. Len(queue) |-> queue[i].doc]) + 1
        BY <1>t, <2>1 DEF Pipe!Publish
      <4>2. QED
        BY <4>1
    <3>2. Step(c, "publish", "done") /\ UNCHANGED <<coll, req>> /\ queue' = Append(queue, Message(c))
      BY <2>1, <3>1 DEF Publish, Fails
    <3>3. QED
      BY <1>r, <2>2, <3>2, PublishContent
  <2>3. CASE d # Id(c)
    BY <1>t, <1>r, <2>1, <2>3, ElsewhereQuiet, QuietContent DEF Serves, Serve
  <2>4. QED
    BY <2>2, <2>3
<1>4. ASSUME NEW c \in Calls, PublishLost(c) PROVE ContentOf(d)'
  <2>1. Unpublished(c) /\ missed' = missed \cup {Id(c)}
    BY <1>4 DEF PublishLost, Unpublished, Fails, Step
  <2>2. CASE d = Id(c)
    BY <1>r, <2>1, <2>2, PublishContent DEF Unpublished
  <2>3. CASE d # Id(c)
    BY <1>t, <1>r, <2>1, <2>3, ElsewhereQuiet, QuietContent DEF Serves
  <2>4. QED
    BY <2>2, <2>3
<1>5. CASE DocServiceCrashes
  <2>1. /\ UNCHANGED <<coll, queue>> /\ Running(d)' = {} /\ About(d)' = About(d)
        /\ d \notin missed' => \A c \in Running(d) : ~Unsaved(c)
    BY <1>5, <1>t, CrashCuts DEF DocServiceCrashes
  <2>2. d \notin missed' => d \notin missed
    BY <1>5 DEF DocServiceCrashes
  <2>3. QED
    BY <1>r, <2>1, <2>2 DEF ContentOf, LatestFor
<1>6. CASE PipeStep \/ DocServiceRestarts \/ Rest \/ UNCHANGED searchVars
  <2>1. UNCHANGED <<coll, queue, pc, req, missed>>
    BY <1>6 DEF PipeStep, DocServiceRestarts, Restart, Rest, searchVars, vars
  <2>2. Running(d)' = Running(d) /\ About(d)' = About(d)
    BY <2>1 DEF Running, Id, About
  <2>3. QED
    BY <1>r, <2>1, <2>2 DEF ContentOf, LatestFor, Unsaved, Saved, Saves
<1>7. QED
  BY <1>1, <1>2, <1>3, <1>4, <1>5, <1>6 DEF SearchNext

-----------------------------------------------------------------------------
(***************************************************************************)
(* What a search finds.  Where no calls overlap and no command failed, a   *)
(* crash may come between a write and its message: then it is missed.      *)
(***************************************************************************)

TitleInv == errors = 0 => \A d \in DocIds \ (overlapped \cup missed) : Right(d)

LEMMA StepTitle == ServiceInv /\ TitleInv /\ [SearchNext]_searchVars => TitleInv'
<1> SUFFICES ASSUME ServiceInv, TitleInv, [SearchNext]_searchVars, errors' = 0,
                    NEW d \in DocIds, d \notin overlapped', d \notin missed'
             PROVE  Right(d)'
  BY DEF TitleInv
<1>s. ServiceStep
  BY SearchIsService
<1>t. TypeInv /\ FreshInv /\ AloneInv
  BY DEF ServiceInv, FreshInv
<1>e. errors = 0 /\ d \notin overlapped
  BY <1>s, <1>t, ErrorsGrow, OverlapStays
<1>r. d \notin missed => Right(d)
  BY <1>e DEF TitleInv
<1>k. ASSUME d \notin missed, ~Crash PROVE Right(d)'
  BY <1>k, <1>s, <1>t, <1>r, StepRight
<1>c. ASSUME Crash, missed' = missed \cup CutShort PROVE Right(d)'
  <2>1. /\ UNCHANGED <<coll, queue>> /\ About(d)' = About(d)
        /\ \A c \in Running(d) : ~Unsaved(c)
    BY <1>t, <1>c, CrashCuts
  <2>2. QED
    BY <1>r, <1>c, <2>1 DEF Right, Agrees, LatestFor
<1>1. ASSUME NEW c \in Calls, NEW r \in Request, CallBegins(c, r) PROVE Right(d)'
  <2>1. d \notin missed /\ ~Crash
    BY <1>1, <1>t DEF CallBegins, Begin, Step, Crash, TypeInv, TypeOK
  <2>2. QED
    BY <1>k, <2>1
<1>2. CASE CallStep \/ DocServiceCrashes
  BY <1>2, <1>k, <1>c DEF CallStep, DocServiceCrashes
<1>3. ASSUME NEW c \in Calls, PublishSaved(c) PROVE Right(d)'
  <2>1. /\ missed' = missed \ {Id(c)} /\ pc[c] = "publish" /\ UNCHANGED coll
        /\ queue' = Append(queue, Message(c))
    BY <1>3, <1>e DEF PublishSaved, Publish, Step, Fails
  <2>2. CASE d = Id(c)
    BY <1>t, <1>e, <2>1, <2>2, PublishRight
  <2>3. CASE d # Id(c)
    <3>1. Serves(c) /\ Right(d)
      BY <1>3, <1>r, <2>1, <2>3 DEF PublishSaved, Serves, Serve
    <3>2. QED
      BY <1>t, <2>3, <3>1, ElsewhereQuiet, QuietRight
  <2>4. QED
    BY <2>2, <2>3
<1>4. ASSUME NEW c \in Calls, PublishLost(c) PROVE Right(d)'
  <2>1. errors' = errors + 1
    BY <1>4 DEF PublishLost, Fails
  <2>2. QED
    BY <1>e, <2>1
<1>5. CASE PipeStep \/ DocServiceRestarts \/ Rest \/ UNCHANGED searchVars
  <2>1. UNCHANGED <<coll, queue, pc, req, missed>>
    BY <1>5 DEF PipeStep, DocServiceRestarts, Restart, Rest, searchVars, vars
  <2>2. Running(d)' = Running(d) /\ About(d)' = About(d)
    BY <2>1 DEF Running, Id, About
  <2>3. QED
    BY <1>r, <2>1, <2>2 DEF Right, Agrees, LatestFor, Unsaved
<1>6. QED
  BY <1>1, <1>2, <1>3, <1>4, <1>5 DEF SearchNext

SearchInv == ServiceInv /\ PipeInv /\ ContentInv /\ TitleInv

LEMMA InitSearch == SearchInit => SearchInv
<1> SUFFICES ASSUME SearchInit PROVE SearchInv
  OBVIOUS
<1>1. Init /\ PipeP!Init
  BY SamePipe DEF SearchInit
<1>2. PipeInv
  <2>1. PipeP!OrderInv
    BY <1>1, PipeAssumptions, PipeP!InitOrder
  <2>2. PipeP!LossInv
    BY <1>1, PipeAssumptions, PipeP!InitLoss
  <2>3. PipeP!Indexed
    BY <1>1, PipeAssumptions, PipeP!InitIndexed
  <2>4. QED
    BY <2>1, <2>2, <2>3 DEF PipeInv
<1>3. \A d \in DocIds : About(d) = {} /\ Running(d) = {}
  BY <1>1 DEF Init, About, Running
<1>4. ContentInv /\ TitleInv
  BY <1>3 DEF ContentInv, ContentOf, TitleInv, Right, Agrees
<1>5. QED
  BY <1>1, <1>2, <1>4, InitService DEF SearchInv

\* Once the last message about a document is no longer to come, it is the one
\* that Elasticsearch has.
LEMMA LastIsIndexed ==
  ASSUME SearchInv, NEW d \in DocIds, Settled(d), About(d) \cap requeued = {},
         LastMessage(d) \notin wiped
  PROVE  /\ LatestFor(d, LastMessage(d)) /\ index[d] = LastMessage(d) /\ index[d] # 0
<1> DEFINE L == LastMessage(d)
           docs == [i \in 1 .. Len(queue) |-> queue[i].doc]
<1>t. TypeInv /\ HasLatest /\ Len(queue) \in Nat
  BY DEF SearchInv, ServiceInv, FreshInv, TypeInv, TypeOK
<1>1. LatestFor(d, L) /\ L \in About(d)
  BY <1>t, LastIsLatest DEF Settled, LatestFor
<1>2. L \in 1 .. Len(docs) /\ Len(docs) = Len(queue) /\ \A i \in 1 .. Len(docs) : docs[i] = queue[i].doc
  BY <1>t, <1>1 DEF About
<1>3. docs[L] = d /\ docs[L] # Garbage
  BY <1>1, <1>2, SearchAssumption DEF About
<1>4. PipeP!MsgIds = 1 .. Len(docs)
  BY DEF PipeP!MsgIds
<1>5. PipeP!TypeOK /\ PipeP!NoMessageLost /\ PipeP!Indexed
  BY DEF SearchInv, PipeInv, PipeP!LossInv, PipeP!TypeInv
<1>6. index[d] \in (1 .. Len(docs)) \cup {0} /\ applied \subseteq 1 .. Len(docs)
      /\ requeued \subseteq 1 .. Len(docs)
  BY <1>4, <1>5 DEF PipeP!TypeOK
<1>7. L \in applied
  <2>1. L \in ready \cup PipeP!Unacked \cup applied \cup wiped
    BY <1>2, <1>3, <1>4, <1>5 DEF PipeP!NoMessageLost
  <2>2. PipeP!Unacked \subseteq Pipe!Prefetched \cup Pipe!InHand
    BY DEF PipeP!Unacked, PipeP!Prefetched, PipeP!InHand, Pipe!Prefetched, Pipe!InHand
  <2>3. L \notin ready \cup Pipe!Prefetched \cup Pipe!InHand
    BY <1>1 DEF Settled
  <2>4. QED
    BY <2>1, <2>2, <2>3
<1>8. \A m \in requeued : docs[m] # d
  BY <1>2, <1>6 DEF About
<1>9. L <= index[d] /\ (index[d] # 0 => docs[index[d]] = d)
  BY <1>3, <1>5, <1>7, <1>8 DEF PipeP!Indexed
<1>10. index[d] # 0
  BY <1>2, <1>6, <1>9
<1>11. index[d] \in About(d)
  BY <1>2, <1>6, <1>9, <1>10 DEF About
<1>12. index[d] <= L
  BY <1>1, <1>11 DEF LatestFor
<1>13. QED
  BY <1>1, <1>2, <1>6, <1>9, <1>10, <1>12

\* A search finds a document as it was saved last, unless its save was not
\* published, the broker took the message along, or a message about it was
\* sent back: the content if no two saves overlapped, the title if no calls
\* did and no command failed.
THEOREM SearchIsUpToDate == SearchSpec => []SearchFindsSaved
<1>1. SearchInv /\ [SearchNext]_searchVars => SearchInv'
  <2>1. ServiceInv /\ [SearchNext]_searchVars => ServiceInv'
    BY StepService, SearchIsService
  <2>2. QED
    BY <2>1, StepPipe, StepContent, StepTitle DEF SearchInv, ServiceInv
<1>2. SearchInv => SearchFindsSaved
  <2> SUFFICES ASSUME SearchInv, NEW d \in DocIds \ missed, Settled(d),
                      About(d) \cap requeued = {}, LastMessage(d) \notin wiped
               PROVE  /\ d \notin raced =>
                           index[d] # 0 /\ queue[index[d]].content = coll[d].content
                      /\ d \notin overlapped /\ errors = 0 =>
                           index[d] # 0 /\ queue[index[d]].title = coll[d].title
    BY DEF SearchFindsSaved
  <2>1. LatestFor(d, index[d]) /\ index[d] # 0 /\ index[d] \in About(d)
    BY LastIsIndexed DEF LatestFor
  <2>2. coll[d] # Absent /\ Running(d) = {}
    BY DEF Settled
  <2>3. d \notin raced => queue[index[d]].content = coll[d].content
    BY <2>1, <2>2 DEF SearchInv, ContentInv, ContentOf
  <2>4. d \notin overlapped /\ errors = 0 => queue[index[d]].title = coll[d].title
    BY <2>1, <2>2 DEF SearchInv, TitleInv, Right, Agrees
  <2>5. QED
    BY <2>1, <2>3, <2>4
<1>3. QED
  BY <1>1, <1>2, InitSearch, PTL DEF SearchSpec
=============================================================================
