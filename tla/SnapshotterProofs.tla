------------------------- MODULE SnapshotterProofs -------------------------
(***************************************************************************)
(* What TLAPS proves of the snapshotter, for any documents, updates and    *)
(* timeouts and any number of entries, errors and restarts.                *)
(***************************************************************************)
EXTENDS Snapshotter, FiniteSetTheorems, TLAPS

USE DEF storeVars, snapVars

-----------------------------------------------------------------------------
(***************************************************************************)
(* Facts about the stores.                                                 *)
(***************************************************************************)

\* Appending keeps the entries there were, under their numbers.
LEMMA AppendKeeps ==
  ASSUME NEW S, NEW s \in Seq(S), NEW e \in S
  PROVE  /\ Append(s, e) \in Seq(S)
         /\ Len(Append(s, e)) = Len(s) + 1
         /\ \A n \in 1 .. Len(s) : Append(s, e)[n] = s[n]
         /\ Append(s, e)[Len(s) + 1] = e
         /\ Len(s) \in Nat
OBVIOUS

\* A batch appended to yjs_updates adds its entries to those written.
LEMMA UnionAppend ==
  ASSUME NEW E, NEW s \in Seq(SUBSET E), NEW b \in SUBSET E
  PROVE  UNION {Append(s, b)[i] : i \in 1 .. Len(Append(s, b))}
           = (UNION {s[i] : i \in 1 .. Len(s)}) \cup b
<1> DEFINE t == Append(s, b)
<1>1. /\ Len(t) = Len(s) + 1 /\ Len(s) \in Nat
      /\ \A i \in 1 .. Len(s) : t[i] = s[i]
      /\ t[Len(s) + 1] = b
  BY AppendKeeps
<1>2. 1 .. Len(t) = (1 .. Len(s)) \cup {Len(s) + 1}
  BY <1>1
<1> HIDE DEF t
<1>3. QED
  BY <1>1, <1>2 DEF t

\* The four commands keep the types of the stores.
LEMMA XAddType ==
  ASSUME StoreTypeOK, NEW d \in Docs, NEW p \in Payloads, XAdd(d, p)
  PROVE  /\ StoreTypeOK'
         /\ Len(xadds) \in Nat /\ Len(xadds') = Len(xadds) + 1
         /\ EntryIds' = EntryIds \cup {Len(xadds) + 1}
         /\ \A n \in EntryIds : xadds'[n] = xadds[n]
         /\ xadds'[Len(xadds) + 1].doc = d /\ xadds'[Len(xadds) + 1].payload = p
         /\ xadds'[Len(xadds) + 1].at = now
<1> DEFINE e == [doc |-> d, payload |-> p, at |-> now]
<1>1. e \in XAddRecord /\ xadds \in Seq(XAddRecord) /\ xadds' = Append(xadds, e)
  BY DEF XAdd, StoreTypeOK, XAddRecord
<1>2. /\ xadds' \in Seq(XAddRecord)
      /\ Len(xadds) \in Nat /\ Len(xadds') = Len(xadds) + 1
      /\ \A n \in EntryIds : xadds'[n] = xadds[n]
      /\ xadds'[Len(xadds) + 1] = e
  BY <1>1, AppendKeeps DEF EntryIds
<1>3. EntryIds' = EntryIds \cup {Len(xadds) + 1}
  BY <1>2 DEF EntryIds
<1> HIDE DEF e
<1>4. stream' \in [Docs -> SUBSET EntryIds']
  BY <1>3 DEF XAdd, StoreTypeOK
<1>5. yjs' \in [Docs -> Seq(SUBSET EntryIds')]
  <2>1. Seq(SUBSET EntryIds) \subseteq Seq(SUBSET EntryIds')
    BY <1>3
  <2>2. QED
    BY <2>1 DEF XAdd, StoreTypeOK
<1>6. /\ xadds'[Len(xadds) + 1].doc = d /\ xadds'[Len(xadds) + 1].payload = p
      /\ xadds'[Len(xadds) + 1].at = now
  BY <1>2 DEF e
<1>7. ASSUME NEW c \in Docs, NEW n \in stream'[c]
      PROVE  xadds'[n].doc = c
  <2>1. stream[c] \subseteq EntryIds /\ \A m \in stream[c] : xadds[m].doc = c
    BY DEF StoreTypeOK
  <2>2. n \in stream[c] \/ (c = d /\ n = Len(xadds) + 1)
    BY DEF XAdd, StoreTypeOK
  <2>3. QED
    BY <1>2, <1>6, <2>1, <2>2
<1>8. StoreTypeOK'
  <2>1. docs' = docs /\ now' = now /\ yjs' = yjs
    BY DEF XAdd
  <2>2. QED
    BY <1>2, <1>4, <1>5, <1>7, <2>1 DEF StoreTypeOK
<1>9. QED
  BY <1>2, <1>3, <1>6, <1>8

LEMMA XDelType ==
  ASSUME StoreTypeOK, NEW d \in Docs, NEW ids, XDel(d, ids)
  PROVE  /\ StoreTypeOK' /\ EntryIds' = EntryIds
         /\ \A c \in Docs : stream'[c] = IF c = d THEN stream[c] \ ids ELSE stream[c]
BY DEF StoreTypeOK, XDel, EntryIds

LEMMA PushEachType ==
  ASSUME StoreTypeOK, NEW d \in Docs, NEW ids \in SUBSET EntryIds, PushEach(d, ids)
  PROVE  /\ StoreTypeOK' /\ EntryIds' = EntryIds
         /\ \A c \in Docs : Written(c)' = IF c = d /\ d \in docs
                                           THEN Written(c) \cup ids ELSE Written(c)
<1>1. EntryIds' = EntryIds
  BY DEF PushEach, EntryIds
<1>2. CASE d \in docs
  <2>1. yjs' = [yjs EXCEPT ![d] = Append(@, ids)] /\ yjs[d] \in Seq(SUBSET EntryIds)
    BY <1>2 DEF PushEach, StoreTypeOK
  <2>2. Append(yjs[d], ids) \in Seq(SUBSET EntryIds)
    BY <2>1, AppendKeeps
  <2>3. StoreTypeOK'
    BY <1>1, <1>2, <2>1, <2>2 DEF PushEach, StoreTypeOK
  <2>4. Written(d)' = Written(d) \cup ids
    BY <2>1, UnionAppend DEF Written, StoreTypeOK
  <2>5. \A c \in Docs \ {d} : Written(c)' = Written(c)
    BY <2>1 DEF Written, StoreTypeOK
  <2>6. QED
    BY <1>1, <1>2, <2>3, <2>4, <2>5
<1>3. CASE d \notin docs
  BY <1>1, <1>3 DEF PushEach, StoreTypeOK, Written
<1>4. QED
  BY <1>2, <1>3

LEMMA DeleteOneType ==
  ASSUME StoreTypeOK, NEW d \in Docs, DeleteOne(d)
  PROVE  /\ StoreTypeOK' /\ EntryIds' = EntryIds
         /\ \A c \in Docs \ {d} : Written(c)' = Written(c)
<1>1. EntryIds' = EntryIds
  BY DEF DeleteOne, EntryIds
<1>2. <<>> \in Seq(SUBSET EntryIds)
  OBVIOUS
<1>3. yjs' \in [Docs -> Seq(SUBSET EntryIds)]
  BY <1>2 DEF DeleteOne, StoreTypeOK
<1>4. StoreTypeOK'
  BY <1>1, <1>3 DEF DeleteOne, StoreTypeOK
<1>5. QED
  BY <1>1, <1>4 DEF DeleteOne, StoreTypeOK, Written

-----------------------------------------------------------------------------
(***************************************************************************)
(* Types.                                                                  *)
(***************************************************************************)

LEMMA InitType == Init => TypeOK
<1> SUFFICES ASSUME Init PROVE TypeOK
  OBVIOUS
<1>1. xadds = <<>> /\ EntryIds = {}
  BY DEF Init, StoreInit, EntryIds
<1>2. StoreTypeOK
  BY <1>1 DEF Init, StoreInit, StoreTypeOK
<1>3. SnapTypeOK
  <2>1. CheckInterval \in 1 .. CheckInterval
    BY TimeAssumption
  <2>2. QED
    BY <1>1, <2>1 DEF Init, SnapInit, SnapTypeOK, PCs
<1>4. QED
  BY <1>2, <1>3 DEF TypeOK

LEMMA StreamKeysType == StoreTypeOK => StreamKeys \subseteq Docs
<1> SUFFICES ASSUME StoreTypeOK PROVE \A n \in EntryIds : xadds[n].doc \in Docs
  BY DEF StreamKeys
<1>1. \A n \in EntryIds : xadds[n] \in XAddRecord
  BY DEF StoreTypeOK, EntryIds
<1>2. QED
  BY <1>1 DEF XAddRecord

LEMMA StepType == TypeOK /\ [Next]_vars => TypeOK'
<1> SUFFICES ASSUME TypeOK, [Next]_vars PROVE TypeOK'
  OBVIOUS
<1> USE DEF TypeOK, SnapTypeOK, PCs
<1>l. CheckInterval \in 1 .. CheckInterval /\ CheckInterval \in Nat
  BY TimeAssumption
<1>s. ASSUME UNCHANGED storeVars PROVE StoreTypeOK' /\ EntryIds' = EntryIds
  BY <1>s DEF StoreTypeOK, EntryIds
<1>1. CASE UNCHANGED vars
  BY <1>1, <1>s DEF vars
<1>2. CASE Check
  <2>1. CASE StartScan
    BY <2>1, <1>s, StreamKeysType DEF StartScan
  <2>2. CASE ScanDone
    BY <2>2, <1>s DEF ScanDone
  <2>3. ASSUME NEW d \in Docs, NextKey(d) PROVE TypeOK'
    BY <2>3, <1>s DEF NextKey
  <2>4. CASE ReadOldest
    <3>1. stream[cur] \subseteq EntryIds
      BY DEF StoreTypeOK
    <3>2. oldest' \in Nat
      BY <2>4, <3>1 DEF ReadOldest, EntryIds
    <3>3. QED
      BY <2>4, <3>2, <1>s DEF ReadOldest
  <2>5. CASE ReadLatest
    BY <2>5, <1>s DEF ReadLatest
  <2>6. CASE ReadRange
    BY <2>6, <1>s DEF ReadRange, StoreTypeOK
  <2>7. CASE Push
    BY <2>7, PushEachType DEF Push, ToPush
  <2>8. CASE Delete
    BY <2>8, XDelType DEF Delete
  <2>9. QED
    BY <1>2, <2>1, <2>2, <2>3, <2>4, <2>5, <2>6, <2>7, <2>8 DEF Check
<1>3. CASE Failure
  <2>f. Fault => faults' \in Nat
    BY DEF Fault
  <2>1. CASE ScanFails
    BY <2>1, <2>f, <1>s DEF ScanFails
  <2>2. CASE ReadFails
    BY <2>2, <2>f, <1>s DEF ReadFails
  <2>3. CASE PushFails
    <3>1. StoreTypeOK' /\ EntryIds' = EntryIds
      BY <2>3, <1>s, PushEachType DEF PushFails, ToPush
    <3>2. QED
      BY <2>3, <2>f, <3>1 DEF PushFails
  <2>4. CASE DeleteFails
    BY <2>4, <2>f, <1>s DEF DeleteFails
  <2>5. CASE Restart
    BY <2>5, <2>f, <1>l, <1>s DEF Restart
  <2>6. QED
    BY <1>3, <2>1, <2>2, <2>3, <2>4, <2>5 DEF Failure
<1>4. CASE Environment
  <2>1. ASSUME NEW d \in Docs, NEW p \in Payloads, Append1(d, p) PROVE TypeOK'
    BY <2>1, XAddType DEF Append1
  <2>2. ASSUME NEW d \in Docs, RemoveDoc(d) PROVE TypeOK'
    BY <2>2, DeleteOneType DEF RemoveDoc
  <2>3. CASE Tick
    <3>1. EntryIds' = EntryIds /\ now' \in Nat
      BY <2>3 DEF Tick, EntryIds, StoreTypeOK
    <3>2. StoreTypeOK'
      BY <2>3, <3>1 DEF Tick, StoreTypeOK
    <3>3. left' \in 1 .. CheckInterval
      BY <2>3, <1>l DEF Tick
    <3>4. QED
      BY <2>3, <3>1, <3>2, <3>3 DEF Tick
  <2>4. QED
    BY <1>4, <2>1, <2>2, <2>3 DEF Environment
<1>5. QED
  BY <1>1, <1>2, <1>3, <1>4 DEF Next

\* The variables keep their types, which is to say that the snapshotter only
\* ever holds ids of entries that were appended, and that a stream only ever
\* holds entries of its document.
THEOREM TypeCorrect == Spec => []TypeOK
<1>1. QED
  BY InitType, StepType, PTL DEF Spec

-----------------------------------------------------------------------------
(***************************************************************************)
(* No update is lost.                                                      *)
(*                                                                         *)
(* NoLostUpdate is not inductive: from a state where the batch holds an    *)
(* entry nobody wrote, XDEL would lose it.  It takes what the snapshotter  *)
(* knows on its way from XRANGE to XDEL.                                   *)
(***************************************************************************)

\* The batch was read from the stream of a document with an ObjectID.
BatchOfCur ==
  pc \in {"push", "del"} => cur \in HexDocs /\ \A n \in batch : xadds[n].doc = cur

\* Between $push and XDEL, what is to be deleted has been written.
PushedBatch ==
  pc = "del" /\ cur \in docs => ToPush(batch) \subseteq Written(cur)

SafeInv == TypeOK /\ BatchOfCur /\ PushedBatch /\ NoLostUpdate

LEMMA InitSafe == Init => SafeInv
<1> SUFFICES ASSUME Init PROVE SafeInv
  OBVIOUS
<1>1. TypeOK
  BY InitType
<1>2. BatchOfCur /\ PushedBatch
  BY DEF Init, SnapInit, BatchOfCur, PushedBatch
<1>3. NoLostUpdate
  BY DEF Init, StoreInit, NoLostUpdate, EntryIds
<1>4. QED
  BY <1>1, <1>2, <1>3 DEF SafeInv

\* The documents of the entries are documents.
LEMMA EntryDoc ==
  ASSUME StoreTypeOK, NEW n \in EntryIds
  PROVE  xadds[n].doc \in Docs /\ xadds[n].payload \in Payloads
<1>1. xadds[n] \in XAddRecord
  BY DEF StoreTypeOK, EntryIds
<1>2. QED
  BY <1>1 DEF XAddRecord

\* A step that leaves the stores alone keeps NoLostUpdate, and the facts about
\* the batch unless it moves pc to "push" or "del".
LEMMA StoresKept ==
  ASSUME SafeInv, TypeOK', UNCHANGED <<xadds, stream, docs, yjs>>,
         \/ pc' \notin {"push", "del"}
         \/ pc' = pc /\ cur' = cur /\ batch' = batch
  PROVE  SafeInv'
<1>1. EntryIds' = EntryIds /\ \A d : Written(d)' = Written(d)
  BY DEF EntryIds, Written
<1>2. NoLostUpdate'
  BY <1>1 DEF SafeInv, NoLostUpdate, Accepted, Live, IsBlank
<1>3. BatchOfCur' /\ PushedBatch'
  BY <1>1 DEF SafeInv, BatchOfCur, PushedBatch, ToPush, IsBlank
<1>4. QED
  BY <1>2, <1>3 DEF SafeInv

\* $push of entries of the batch keeps NoLostUpdate, whatever comes of it.
LEMMA PushKeeps ==
  ASSUME SafeInv, pc = "push", PushEach(cur, ToPush(batch))
  PROVE  /\ NoLostUpdate'
         /\ \A c \in docs : c = cur => ToPush(batch) \subseteq Written(c)'
<1>1. cur \in Docs /\ ToPush(batch) \subseteq EntryIds /\ StoreTypeOK
  BY DEF SafeInv, TypeOK, SnapTypeOK, ToPush
<1>2. EntryIds' = EntryIds /\ \A c \in Docs : Written(c) \subseteq Written(c)'
  BY <1>1, PushEachType
<1>3. xadds' = xadds /\ stream' = stream /\ docs' = docs
  BY DEF PushEach
<1>4. NoLostUpdate'
  BY <1>1, <1>2, <1>3, EntryDoc DEF SafeInv, NoLostUpdate, Accepted, Live, IsBlank
<1>5. \A c \in docs : c = cur => ToPush(batch) \subseteq Written(c)'
  BY <1>1, PushEachType
<1>6. QED
  BY <1>4, <1>5

LEMMA StepSafe == SafeInv /\ [Next]_vars => SafeInv'
<1> SUFFICES ASSUME SafeInv, [Next]_vars PROVE SafeInv'
  OBVIOUS
<1>t. TypeOK /\ TypeOK' /\ StoreTypeOK /\ SnapTypeOK
  BY StepType DEF SafeInv, TypeOK
<1>1. CASE UNCHANGED vars
  BY <1>1, <1>t, StoresKept DEF vars
<1>2. CASE Check
  <2>1. CASE StartScan
    BY <2>1, <1>t, StoresKept DEF StartScan
  <2>2. CASE ScanDone
    BY <2>2, <1>t, StoresKept DEF ScanDone
  <2>3. ASSUME NEW d \in Docs, NextKey(d) PROVE SafeInv'
    BY <2>3, <1>t, StoresKept DEF NextKey
  <2>4. CASE ReadOldest
    BY <2>4, <1>t, StoresKept DEF ReadOldest
  <2>5. CASE ReadLatest
    BY <2>5, <1>t, StoresKept DEF ReadLatest
  <2>6. CASE ReadRange
    <3>1. CASE pc' = "push"
      <4>1. batch' = stream[cur] /\ cur' = cur /\ cur \in HexDocs /\ UNCHANGED storeVars
        BY <2>6, <3>1 DEF ReadRange
      <4>2. BatchOfCur'
        BY <4>1, <1>t DEF BatchOfCur, StoreTypeOK, SnapTypeOK
      <4>3. NoLostUpdate'
        BY <4>1 DEF SafeInv, NoLostUpdate, Accepted, Live, IsBlank, EntryIds, Written
      <4>4. QED
        BY <1>t, <3>1, <4>2, <4>3 DEF SafeInv, PushedBatch
    <3>2. CASE pc' # "push"
      BY <2>6, <3>2, <1>t, StoresKept DEF ReadRange
    <3>3. QED
      BY <3>1, <3>2
  <2>7. CASE Push
    <3>1. pc = "push" /\ pc' = "del" /\ PushEach(cur, ToPush(batch))
          /\ cur' = cur /\ batch' = batch /\ xadds' = xadds /\ docs' = docs
      BY <2>7 DEF Push, PushEach
    <3>2. ToPush(batch)' = ToPush(batch)
      BY <3>1 DEF ToPush, IsBlank
    <3>3. BatchOfCur' /\ PushedBatch'
      BY <3>1, <3>2, PushKeeps DEF SafeInv, BatchOfCur, PushedBatch
    <3>4. QED
      BY <1>t, <3>1, <3>3, PushKeeps DEF SafeInv
  <2>8. CASE Delete
    <3>1. pc = "del" /\ pc' = "scan" /\ XDel(cur, batch) /\ cur \in Docs
      BY <2>8, <1>t DEF Delete, SnapTypeOK
    <3>2. /\ xadds' = xadds /\ docs' = docs /\ EntryIds' = EntryIds
          /\ \A c : Written(c)' = Written(c)
          /\ \A c \in Docs : stream'[c] = IF c = cur THEN stream[c] \ batch ELSE stream[c]
      BY <3>1, <1>t, XDelType DEF XDel, Written
    <3>3. ASSUME NEW n \in EntryIds, ~IsBlank(n), Live(xadds[n].doc)
          PROVE  n \in stream'[xadds[n].doc] \cup Written(xadds[n].doc)
      <4>1. n \in stream[xadds[n].doc] \cup Written(xadds[n].doc) /\ xadds[n].doc \in Docs
        BY <3>3, <1>t, EntryDoc DEF SafeInv, NoLostUpdate, Accepted
      <4>2. CASE xadds[n].doc = cur /\ n \in batch
        <5>1. cur \in docs /\ n \in ToPush(batch)
          BY <3>1, <3>3, <4>2 DEF SafeInv, BatchOfCur, Live, ToPush
        <5>2. QED
          BY <3>1, <4>2, <5>1 DEF SafeInv, PushedBatch
      <4>3. CASE ~(xadds[n].doc = cur /\ n \in batch)
        BY <3>2, <4>1, <4>3
      <4>4. QED
        BY <4>2, <4>3
    <3>4. NoLostUpdate'
      BY <3>2, <3>3 DEF NoLostUpdate, Accepted, Live, IsBlank
    <3>5. QED
      BY <1>t, <3>1, <3>4 DEF SafeInv, BatchOfCur, PushedBatch
  <2>9. QED
    BY <1>2, <2>1, <2>2, <2>3, <2>4, <2>5, <2>6, <2>7, <2>8 DEF Check
<1>3. CASE Failure
  <2>1. CASE ScanFails
    BY <2>1, <1>t, StoresKept DEF ScanFails
  <2>2. CASE ReadFails
    BY <2>2, <1>t, StoresKept DEF ReadFails
  <2>3. CASE PushFails
    <3>1. CASE UNCHANGED storeVars
      BY <2>3, <3>1, <1>t, StoresKept DEF PushFails
    <3>2. CASE PushEach(cur, ToPush(batch))
      BY <2>3, <3>2, <1>t, PushKeeps DEF PushFails, SafeInv, BatchOfCur, PushedBatch
    <3>3. QED
      BY <2>3, <3>1, <3>2 DEF PushFails
  <2>4. CASE DeleteFails
    BY <2>4, <1>t, StoresKept DEF DeleteFails
  <2>5. CASE Restart
    BY <2>5, <1>t, StoresKept DEF Restart
  <2>6. QED
    BY <1>3, <2>1, <2>2, <2>3, <2>4, <2>5 DEF Failure
<1>4. CASE Environment
  <2>1. ASSUME NEW d \in Docs, NEW p \in Payloads, Append1(d, p) PROVE SafeInv'
    <3>1. XAdd(d, p) /\ UNCHANGED snapVars
      BY <2>1 DEF Append1
    <3>2. /\ EntryIds' = EntryIds \cup {Len(xadds) + 1}
          /\ \A n \in EntryIds : xadds'[n] = xadds[n]
          /\ xadds'[Len(xadds) + 1].doc = d
      BY <3>1, <1>t, XAddType
    <3>3. /\ docs' = docs /\ \A c : Written(c)' = Written(c)
          /\ \A c \in Docs : stream[c] \subseteq stream'[c]
          /\ Len(xadds) + 1 \in stream'[d]
      BY <3>1, <1>t DEF XAdd, Written, StoreTypeOK
    <3>4. NoLostUpdate'
      BY <3>2, <3>3, <1>t, EntryDoc DEF SafeInv, NoLostUpdate, Accepted, Live, IsBlank
    <3>5. batch \subseteq EntryIds /\ ToPush(batch)' = ToPush(batch)
      BY <3>1, <3>2, <1>t DEF SnapTypeOK, ToPush, IsBlank
    <3>6. BatchOfCur' /\ PushedBatch'
      BY <3>1, <3>2, <3>3, <3>5 DEF SafeInv, BatchOfCur, PushedBatch
    <3>7. QED
      BY <1>t, <3>4, <3>6 DEF SafeInv
  <2>2. ASSUME NEW d \in Docs, RemoveDoc(d) PROVE SafeInv'
    <3>1. /\ xadds' = xadds /\ stream' = stream /\ docs' = docs \ {d}
          /\ EntryIds' = EntryIds /\ UNCHANGED snapVars
          /\ \A c \in Docs \ {d} : Written(c)' = Written(c)
          /\ d \in HexDocs
      BY <2>2, <1>t, DeleteOneType DEF RemoveDoc, DeleteOne, StoreTypeOK
    <3>2. NoLostUpdate'
      BY <3>1, <1>t, EntryDoc DEF SafeInv, NoLostUpdate, Accepted, Live, IsBlank
    <3>3. BatchOfCur' /\ PushedBatch'
      BY <3>1, <1>t DEF SafeInv, BatchOfCur, PushedBatch, ToPush, IsBlank, SnapTypeOK
    <3>4. QED
      BY <1>t, <3>2, <3>3 DEF SafeInv
  <2>3. CASE Tick
    BY <2>3, <1>t, StoresKept DEF Tick
  <2>4. QED
    BY <1>4, <2>1, <2>2, <2>3 DEF Environment
<1>5. QED
  BY <1>1, <1>2, <1>3, <1>4 DEF Next

LEMMA Safe == Spec => []SafeInv
BY InitSafe, StepSafe, PTL DEF Spec

\* Whatever errors, restarts and appends fall between XRANGE, $push and XDEL,
\* every update appended for a live document is in its stream or its array.
THEOREM NothingLost == Spec => []NoLostUpdate
<1>1. SafeInv => NoLostUpdate
  BY DEF SafeInv
<1>2. QED
  BY <1>1, Safe, PTL

-----------------------------------------------------------------------------
(***************************************************************************)
(* The log.  Once every entry of yjs_updates is known to be an update of   *)
(* its document, what the two stores hold of a live document depends on    *)
(* the XADDs alone: only Append1 and RemoveDoc are seen in it.             *)
(***************************************************************************)

WrittenOwn ==
  \A d \in Docs : \A n \in Written(d) :
    n \in EntryIds /\ xadds[n].doc = d /\ ~IsBlank(n)

LogInv == SafeInv /\ WrittenOwn /\ Len(xadds) <= MaxAdds

LEMMA InitLog == Init => LogInv
<1> SUFFICES ASSUME Init PROVE LogInv
  OBVIOUS
<1>1. xadds = <<>> /\ \A d \in Docs : Written(d) = {}
  BY DEF Init, StoreInit, Written
<1>2. QED
  BY <1>1, InitSafe, TimeAssumption DEF LogInv, WrittenOwn

\* Commands other than $push and XADD leave WrittenOwn as it is.
LEMMA OwnKept ==
  ASSUME LogInv, UNCHANGED xadds, \A d \in Docs : Written(d)' \subseteq Written(d)
  PROVE  WrittenOwn' /\ (Len(xadds) <= MaxAdds)'
BY DEF LogInv, WrittenOwn, EntryIds, IsBlank

LEMMA OwnPush ==
  ASSUME LogInv, pc = "push", PushEach(cur, ToPush(batch))
  PROVE  WrittenOwn' /\ (Len(xadds) <= MaxAdds)'
<1>1. cur \in Docs /\ ToPush(batch) \subseteq EntryIds /\ StoreTypeOK
  BY DEF LogInv, SafeInv, TypeOK, SnapTypeOK, ToPush
<1>2. EntryIds' = EntryIds /\ xadds' = xadds
  BY <1>1, PushEachType DEF PushEach
<1>3. \A n \in ToPush(batch) : xadds[n].doc = cur /\ ~IsBlank(n)
  BY DEF LogInv, SafeInv, BatchOfCur, ToPush
<1>4. \A c \in Docs : \A n \in Written(c)' : n \in Written(c) \/ (c = cur /\ n \in ToPush(batch))
  BY <1>1, PushEachType
<1>5. QED
  BY <1>1, <1>2, <1>3, <1>4 DEF LogInv, WrittenOwn, IsBlank

LEMMA StepLog == LogInv /\ [Next]_vars => LogInv'
<1> SUFFICES ASSUME LogInv, [Next]_vars PROVE WrittenOwn' /\ (Len(xadds) <= MaxAdds)'
  BY StepSafe DEF LogInv
<1>t. StoreTypeOK /\ SnapTypeOK
  BY DEF LogInv, SafeInv, TypeOK
<1>k. ASSUME UNCHANGED <<xadds, yjs>> PROVE WrittenOwn' /\ (Len(xadds) <= MaxAdds)'
  BY <1>k, OwnKept DEF Written
<1>1. CASE UNCHANGED vars
  BY <1>1, <1>k DEF vars
<1>2. CASE Check
  <2>1. CASE Push
    BY <2>1, OwnPush DEF Push
  <2>2. CASE Delete
    BY <2>2, <1>k DEF Delete, XDel
  <2>3. CASE StartScan \/ ScanDone \/ (\E d \in Docs : NextKey(d))
    BY <2>3, <1>k DEF StartScan, ScanDone, NextKey
  <2>4. CASE ReadOldest \/ ReadLatest \/ ReadRange
    BY <2>4, <1>k DEF ReadOldest, ReadLatest, ReadRange
  <2>5. QED
    BY <1>2, <2>1, <2>2, <2>3, <2>4 DEF Check
<1>3. CASE Failure
  <2>1. CASE PushFails
    BY <2>1, <1>k, OwnPush DEF PushFails
  <2>2. CASE ScanFails \/ ReadFails \/ DeleteFails \/ Restart
    BY <2>2, <1>k DEF ScanFails, ReadFails, DeleteFails, Restart
  <2>3. QED
    BY <1>3, <2>1, <2>2 DEF Failure
<1>4. CASE Environment
  <2>1. ASSUME NEW d \in Docs, NEW p \in Payloads, Append1(d, p)
        PROVE  WrittenOwn' /\ (Len(xadds) <= MaxAdds)'
    <3>1. /\ EntryIds' = EntryIds \cup {Len(xadds) + 1}
          /\ \A n \in EntryIds : xadds'[n] = xadds[n]
          /\ Len(xadds') = Len(xadds) + 1 /\ Len(xadds) \in Nat
      BY <2>1, <1>t, XAddType DEF Append1
    <3>2. \A c \in Docs : Written(c)' = Written(c)
      BY <2>1 DEF Append1, XAdd, Written
    <3>3. WrittenOwn'
      BY <3>1, <3>2 DEF LogInv, WrittenOwn, IsBlank
    <3>4. Len(xadds') <= MaxAdds
      BY <2>1, <3>1, TimeAssumption DEF Append1
    <3>5. QED
      BY <3>3, <3>4
  <2>2. ASSUME NEW d \in Docs, RemoveDoc(d) PROVE WrittenOwn' /\ (Len(xadds) <= MaxAdds)'
    <3>1. xadds' = xadds /\ Written(d)' = {}
      BY <2>2, <1>t DEF RemoveDoc, DeleteOne, Written, StoreTypeOK
    <3>2. \A c \in Docs : Written(c)' \subseteq Written(c)
      BY <2>2, <3>1, <1>t, DeleteOneType DEF RemoveDoc
    <3>3. QED
      BY <3>1, <3>2, OwnKept
  <2>3. CASE Tick
    BY <2>3, <1>k DEF Tick
  <2>4. QED
    BY <1>4, <2>1, <2>2, <2>3 DEF Environment
<1>5. QED
  BY <1>1, <1>2, <1>3, <1>4 DEF Next

\* The log, as a function of the commands XADD and of the documents there are.
LogOf(d) == IF Live(d) THEN {n \in EntryIds : xadds[n].doc = d /\ ~IsBlank(n)} ELSE {}
TheLog == [d \in Docs |-> IF Live(d) THEN Accepted(d) ELSE {}]

LEMMA LogIsOfAdds == LogInv => TheLog = [d \in Docs |-> LogOf(d)]
<1> SUFFICES ASSUME LogInv, NEW d \in Docs, Live(d)
             PROVE  Accepted(d) = {n \in EntryIds : xadds[n].doc = d /\ ~IsBlank(n)}
  BY DEF TheLog, LogOf
<1>1. \A n \in Accepted(d) : n \in EntryIds /\ xadds[n].doc = d /\ ~IsBlank(n)
  BY DEF LogInv, SafeInv, TypeOK, StoreTypeOK, WrittenOwn, Accepted
<1>2. \A n \in EntryIds : xadds[n].doc = d /\ ~IsBlank(n) => n \in Accepted(d)
  BY DEF LogInv, SafeInv, NoLostUpdate
<1>3. QED
  BY <1>1, <1>2

LEMMA LogIsOfAddsNext == LogInv' => (TheLog = [d \in Docs |-> LogOf(d)])'
BY LogIsOfAdds, PTL

LEMMA InitLogEmpty == Init => Log!Init
<1> SUFFICES ASSUME Init PROVE \A d \in Docs : Accepted(d) = {}
  BY DEF Log!Init
<1>1. xadds = <<>> /\ \A d \in Docs : Written(d) = {}
  BY DEF Init, StoreInit, Written
<1>2. \A d \in Docs : stream[d] = {}
  BY DEF Init, StoreInit
<1>3. QED
  BY <1>1, <1>2 DEF Accepted

\* A command that leaves the adds and the documents alone is not seen.
LEMMA LogStutters ==
  ASSUME LogInv, LogInv', UNCHANGED <<xadds, docs>>
  PROVE  UNCHANGED TheLog
<1>1. \A d \in Docs : LogOf(d)' = LogOf(d)
  BY DEF LogOf, Live, EntryIds, IsBlank
<1>2. QED
  BY <1>1, LogIsOfAdds, LogIsOfAddsNext

\* An XADD is Accept if its payload is kept, and a stutter if it is not.
LEMMA AppendAccepts ==
  ASSUME LogInv, LogInv', NEW d \in Docs, NEW p \in Payloads, Append1(d, p)
  PROVE  Log!Accept(d) \/ UNCHANGED TheLog
<1> DEFINE n == Len(xadds) + 1
<1>t. StoreTypeOK
  BY DEF LogInv, SafeInv, TypeOK
<1>1. /\ EntryIds' = EntryIds \cup {n} /\ n \notin EntryIds /\ n \in 1 .. MaxAdds
      /\ \A m \in EntryIds : xadds'[m] = xadds[m] /\ m < n
      /\ xadds'[n].doc = d /\ xadds'[n].payload = p
      /\ docs' = docs
  BY <1>t, XAddType, TimeAssumption DEF Append1, XAdd, EntryIds, StoreTypeOK
<1>2. \A c \in Docs : LogOf(c)' = LogOf(c) \cup (IF c = d /\ Live(d) /\ p # Blank THEN {n} ELSE {})
  BY <1>1 DEF LogOf, Live, IsBlank
<1>3. CASE Live(d) /\ p # Blank
  <2>1. TheLog' = [TheLog EXCEPT ![d] = @ \cup {n}]
    <3>1. TheLog = [c \in Docs |-> LogOf(c)] /\ TheLog' = [c \in Docs |-> LogOf(c)']
      BY LogIsOfAdds, LogIsOfAddsNext
    <3>2. LogOf(d)' = LogOf(d) \cup {n} /\ \A c \in Docs \ {d} : LogOf(c)' = LogOf(c)
      BY <1>2, <1>3
    <3>3. QED
      BY <3>1, <3>2
  <2>2. \A e \in Docs : \A m \in TheLog[e] : m < n
    BY <1>1, LogIsOfAdds DEF LogOf
  <2>3. QED
    BY <1>1, <2>1, <2>2 DEF Log!Accept, TheLog
<1>4. CASE ~(Live(d) /\ p # Blank)
  BY <1>2, <1>4, LogIsOfAdds, LogIsOfAddsNext
<1>5. QED
  BY <1>3, <1>4

LEMMA RemoveDiscards ==
  ASSUME LogInv, LogInv', NEW d \in Docs, RemoveDoc(d)
  PROVE  Log!Discard(d)
<1>t. StoreTypeOK
  BY DEF LogInv, SafeInv, TypeOK
<1>1. xadds' = xadds /\ docs' = docs \ {d} /\ d \in HexDocs
  BY <1>t DEF RemoveDoc, DeleteOne, StoreTypeOK
<1>2. \A c \in Docs : LogOf(c)' = IF c = d THEN {} ELSE LogOf(c)
  BY <1>1 DEF LogOf, Live, EntryIds, IsBlank
<1>3. TheLog' = [TheLog EXCEPT ![d] = {}]
  BY <1>2, LogIsOfAdds, LogIsOfAddsNext
<1>4. QED
  BY <1>3 DEF Log!Discard, TheLog

LEMMA StepOfLog == LogInv /\ LogInv' /\ [Next]_vars => [Log!Next]_TheLog
<1> SUFFICES ASSUME LogInv, LogInv', [Next]_vars PROVE [Log!Next]_TheLog
  OBVIOUS
<1>1. CASE UNCHANGED vars
  BY <1>1, LogStutters DEF vars, storeVars
<1>2. CASE Check
  <2>1. UNCHANGED <<xadds, docs>>
    BY <1>2 DEF Check, StartScan, ScanDone, NextKey, ReadOldest, ReadLatest, ReadRange,
                Push, PushEach, Delete, XDel, storeVars
  <2>2. QED
    BY <2>1, LogStutters
<1>3. CASE Failure
  <2>1. UNCHANGED <<xadds, docs>>
    BY <1>3 DEF Failure, ScanFails, ReadFails, PushFails, PushEach, DeleteFails, Restart,
                storeVars
  <2>2. QED
    BY <2>1, LogStutters
<1>4. CASE Environment
  <2>1. ASSUME NEW d \in Docs, NEW p \in Payloads, Append1(d, p) PROVE [Log!Next]_TheLog
    BY <2>1, AppendAccepts DEF Log!Next
  <2>2. ASSUME NEW d \in Docs, RemoveDoc(d) PROVE [Log!Next]_TheLog
    BY <2>2, RemoveDiscards DEF Log!Next
  <2>3. CASE Tick
    BY <2>3, LogStutters DEF Tick
  <2>4. QED
    BY <1>4, <2>1, <2>2, <2>3 DEF Environment
<1>5. QED
  BY <1>1, <1>2, <1>3, <1>4 DEF Next

\* Seen from outside, what the stream and the array of each document hold
\* together is one append-only log: merges, errors and restarts do not show.
THEOREM LogImplemented == Spec => ImplementsUpdateLog
<1>1. Spec => []LogInv
  BY InitLog, StepLog, PTL DEF Spec
<1>2. LogInv /\ LogInv' /\ [Next]_vars
        => [Log!Next]_[d \in Docs |-> IF Live(d) THEN Accepted(d) ELSE {}]
  BY StepOfLog DEF TheLog
<1>3. QED
  BY <1>1, <1>2, InitLogEmpty, PTL DEF Spec, ImplementsUpdateLog, Log!Spec

-----------------------------------------------------------------------------
(***************************************************************************)
(* Order.  ReplayInOrder speaks of the batches already written; for the    *)
(* one to be written next, BatchClosed says the same of the batch at hand. *)
(* That is so because mergeStream reads the stream from its start, and an  *)
(* earlier update that is no longer there has been written (NoLostUpdate). *)
(***************************************************************************)

BatchClosed ==
  pc = "push" /\ cur \in docs =>
    \A n \in batch : \A m \in 1 .. n :
      xadds[m].doc = cur /\ ~IsBlank(m) => m \in batch \cup Written(cur)

OrderInv == SafeInv /\ BatchClosed /\ ReplayInOrder

LEMMA InitOrder == Init => OrderInv
<1> SUFFICES ASSUME Init PROVE OrderInv
  OBVIOUS
<1>1. BatchClosed /\ ReplayInOrder
  BY DEF Init, StoreInit, SnapInit, BatchClosed, ReplayInOrder
<1>2. QED
  BY <1>1, InitSafe DEF OrderInv

\* An entry of a batch that was written, and all before it, are among the
\* XADDs.
LEMMA WrittenRange ==
  ASSUME StoreTypeOK, NEW d \in Docs, NEW i \in 1 .. Len(yjs[d]), NEW n \in yjs[d][i]
  PROVE  n \in EntryIds /\ 1 .. n \subseteq EntryIds /\ n \in Written(d)
<1>1. yjs[d] \in Seq(SUBSET EntryIds) /\ Len(xadds) \in Nat
  BY DEF StoreTypeOK
<1>2. n \in EntryIds
  BY <1>1
<1>3. QED
  BY <1>1, <1>2 DEF EntryIds, Written

\* A step that leaves the XADDs, the documents and the arrays alone keeps
\* both, unless it moves pc to "push".
LEMMA OrderKept ==
  ASSUME OrderInv, UNCHANGED <<xadds, docs, yjs>>,
         pc' # "push" \/ (pc' = pc /\ cur' = cur /\ batch' = batch)
  PROVE  BatchClosed' /\ ReplayInOrder'
<1>1. \A d : Written(d)' = Written(d)
  BY DEF Written
<1>2. BatchClosed'
  BY <1>1 DEF OrderInv, BatchClosed, IsBlank
<1>3. ReplayInOrder'
  BY DEF OrderInv, ReplayInOrder, IsBlank
<1>4. QED
  BY <1>2, <1>3

\* $push of the batch keeps the order, whatever comes of it.
LEMMA OrderPush ==
  ASSUME OrderInv, pc = "push", PushEach(cur, ToPush(batch))
  PROVE  ReplayInOrder'
<1>t. /\ StoreTypeOK /\ cur \in Docs /\ batch \subseteq EntryIds
      /\ xadds' = xadds /\ docs' = docs
  BY DEF OrderInv, SafeInv, TypeOK, SnapTypeOK, PushEach
<1>1. CASE cur \notin docs
  <2>1. yjs' = yjs
    BY <1>1 DEF PushEach
  <2>2. QED
    BY <1>t, <2>1 DEF OrderInv, ReplayInOrder, IsBlank
<1>2. CASE cur \in docs
  <2> DEFINE s == yjs[cur]
             b == ToPush(batch)
  <2>1. s \in Seq(SUBSET EntryIds) /\ b \in SUBSET EntryIds
    BY <1>t DEF StoreTypeOK, ToPush
  <2>2. /\ Len(yjs'[cur]) = Len(s) + 1 /\ Len(s) \in Nat
        /\ \A i \in 1 .. Len(s) : yjs'[cur][i] = s[i]
        /\ yjs'[cur][Len(s) + 1] = b
        /\ \A d \in Docs \ {cur} : yjs'[d] = yjs[d]
    <3>1. yjs' = [yjs EXCEPT ![cur] = Append(s, b)] /\ yjs \in [Docs -> Seq(SUBSET EntryIds)]
      BY <1>t, <1>2 DEF PushEach, StoreTypeOK
    <3>2. yjs'[cur] = Append(s, b) /\ \A d \in Docs \ {cur} : yjs'[d] = yjs[d]
      BY <1>t, <3>1
    <3>3. QED
      BY <2>1, <3>2, AppendKeeps
  <2> SUFFICES ASSUME NEW d \in Docs, NEW i \in 1 .. Len(yjs'[d]), NEW n \in yjs'[d][i],
                      NEW m \in 1 .. n, xadds[m].doc = d, ~IsBlank(m)
               PROVE  \E j \in 1 .. i : m \in yjs'[d][j]
    BY <1>t DEF ReplayInOrder, IsBlank
  <2>3. CASE d # cur
    BY <2>2, <2>3 DEF OrderInv, ReplayInOrder
  <2>4. CASE d = cur /\ i \in 1 .. Len(s)
    <3>1. n \in s[i]
      BY <2>2, <2>4
    <3>2. \E j \in 1 .. i : m \in s[j]
      BY <2>4, <3>1 DEF OrderInv, ReplayInOrder
    <3>3. QED
      BY <2>2, <2>4, <3>2
  <2>5. CASE d = cur /\ i = Len(s) + 1
    <3>1. n \in b /\ n \in batch
      BY <2>2, <2>5 DEF ToPush
    <3>2. m \in batch \cup Written(cur)
      BY <1>2, <2>5, <3>1 DEF OrderInv, BatchClosed
    <3>3. CASE m \in batch
      <4>1. m \in b
        BY <3>3 DEF ToPush
      <4>2. i \in 1 .. i
        BY <2>2, <2>5
      <4>3. QED
        BY <2>2, <2>5, <4>1, <4>2
    <3>4. CASE m \in Written(cur)
      <4>1. PICK j \in 1 .. Len(s) : m \in s[j]
        BY <3>4 DEF Written
      <4>2. j \in 1 .. i /\ yjs'[d][j] = s[j]
        BY <2>2, <2>5, <4>1
      <4>3. QED
        BY <4>1, <4>2
    <3>5. QED
      BY <3>2, <3>3, <3>4
  <2>6. i \in 1 .. Len(s) \/ i = Len(s) + 1 \/ d # cur
    BY <2>2
  <2>7. QED
    BY <2>3, <2>4, <2>5, <2>6
<1>3. QED
  BY <1>1, <1>2

LEMMA StepOrder == OrderInv /\ [Next]_vars => OrderInv'
<1> SUFFICES ASSUME OrderInv, [Next]_vars PROVE BatchClosed' /\ ReplayInOrder'
  BY StepSafe DEF OrderInv
<1>t. StoreTypeOK /\ SnapTypeOK /\ SafeInv
  BY DEF OrderInv, SafeInv, TypeOK
<1>1. CASE UNCHANGED vars
  BY <1>1, OrderKept DEF vars
<1>2. CASE Check
  <2>1. CASE StartScan \/ ScanDone \/ (\E d \in Docs : NextKey(d))
    BY <2>1, OrderKept DEF StartScan, ScanDone, NextKey
  <2>2. CASE ReadOldest \/ ReadLatest
    BY <2>2, OrderKept DEF ReadOldest, ReadLatest
  <2>3. CASE ReadRange
    <3>1. UNCHANGED storeVars /\ cur' = cur
      BY <2>3 DEF ReadRange
    <3>2. CASE pc' = "push" /\ cur \in docs
      <4>1. batch' = stream[cur] /\ cur \in Docs /\ Live(cur) /\ batch' \subseteq EntryIds
        BY <2>3, <3>2, <1>t DEF ReadRange, SnapTypeOK, StoreTypeOK, Live
      <4>2. ASSUME NEW n \in batch', NEW m \in 1 .. n, xadds[m].doc = cur, ~IsBlank(m)
            PROVE  m \in batch' \cup Written(cur)
        <5>1. m \in EntryIds
          BY <4>1, <1>t DEF EntryIds, StoreTypeOK
        <5>2. QED
          BY <4>1, <4>2, <5>1, <1>t DEF SafeInv, NoLostUpdate, Accepted
      <4>3. BatchClosed'
        BY <3>1, <4>2 DEF BatchClosed, IsBlank, Written
      <4>4. QED
        BY <3>1, <4>3 DEF OrderInv, ReplayInOrder, IsBlank
    <3>3. CASE ~(pc' = "push" /\ cur \in docs)
      <4>1. BatchClosed'
        BY <3>1, <3>3 DEF BatchClosed
      <4>2. QED
        BY <3>1, <4>1 DEF OrderInv, ReplayInOrder, IsBlank
    <3>4. QED
      BY <3>2, <3>3
  <2>4. CASE Push
    BY <2>4, OrderPush DEF Push, BatchClosed
  <2>5. CASE Delete
    BY <2>5, OrderKept DEF Delete, XDel
  <2>6. QED
    BY <1>2, <2>1, <2>2, <2>3, <2>4, <2>5 DEF Check
<1>3. CASE Failure
  <2>1. CASE PushFails
    <3>1. pc = "push" /\ pc' = "scan"
      BY <2>1 DEF PushFails
    <3>2. CASE UNCHANGED storeVars
      BY <3>1, <3>2, OrderKept
    <3>3. CASE PushEach(cur, ToPush(batch))
      BY <3>1, <3>3, OrderPush DEF BatchClosed
    <3>4. QED
      BY <2>1, <3>2, <3>3 DEF PushFails
  <2>2. CASE ScanFails \/ ReadFails \/ DeleteFails \/ Restart
    BY <2>2, OrderKept DEF ScanFails, ReadFails, DeleteFails, Restart
  <2>3. QED
    BY <1>3, <2>1, <2>2 DEF Failure
<1>4. CASE Environment
  <2>1. ASSUME NEW d \in Docs, NEW p \in Payloads, Append1(d, p)
        PROVE  BatchClosed' /\ ReplayInOrder'
    <3>1. /\ UNCHANGED <<docs, yjs, snapVars>>
          /\ \A n \in EntryIds : xadds'[n] = xadds[n]
          /\ Len(xadds) \in Nat
      BY <2>1, <1>t, XAddType DEF Append1, XAdd
    <3>2. ASSUME NEW n \in EntryIds, NEW m \in 1 .. n
          PROVE  xadds'[m] = xadds[m]
      BY <3>1 DEF EntryIds
    <3>3. batch \subseteq EntryIds
      BY <1>t DEF SnapTypeOK
    <3>4. BatchClosed'
      BY <3>1, <3>2, <3>3 DEF OrderInv, BatchClosed, IsBlank, Written
    <3>5. ReplayInOrder'
      BY <3>1, <3>2, <1>t, WrittenRange DEF OrderInv, ReplayInOrder, IsBlank
    <3>6. QED
      BY <3>4, <3>5
  <2>2. ASSUME NEW d \in Docs, RemoveDoc(d) PROVE BatchClosed' /\ ReplayInOrder'
    <3>1. /\ UNCHANGED <<xadds, snapVars>> /\ docs' = docs \ {d}
          /\ yjs'[d] = <<>> /\ \A c \in Docs \ {d} : yjs'[c] = yjs[c]
      BY <2>2, <1>t DEF RemoveDoc, DeleteOne, StoreTypeOK
    <3>2. \A c \in Docs \ {d} : Written(c)' = Written(c)
      BY <3>1 DEF Written
    <3>3. BatchClosed'
      BY <3>1, <3>2, <1>t DEF OrderInv, BatchClosed, IsBlank, SnapTypeOK
    <3>4. ReplayInOrder'
      BY <3>1 DEF OrderInv, ReplayInOrder, IsBlank
    <3>5. QED
      BY <3>3, <3>4
  <2>3. CASE Tick
    BY <2>3, OrderKept DEF Tick
  <2>4. QED
    BY <1>4, <2>1, <2>2, <2>3 DEF Environment
<1>5. QED
  BY <1>1, <1>2, <1>3, <1>4 DEF Next

\* An update is never stored ahead of an earlier one of its document, however
\* often a merge fails, is repeated, or is cut short by a restart.
THEOREM ReplayedInOrder == Spec => []ReplayInOrder
<1>1. OrderInv => ReplayInOrder
  BY DEF OrderInv
<1>2. QED
  BY <1>1, InitOrder, StepOrder, PTL DEF Spec

-----------------------------------------------------------------------------
(***************************************************************************)
(* Duplicates.  An update that stands in the array as often as there were  *)
(* faults, and once more, has left the stream, or is about to: every merge *)
(* that wrote it and did not delete it was ended by a fault.               *)
(***************************************************************************)

Copies(d, n) == {i \in 1 .. Len(yjs[d]) : n \in yjs[d][i]}

\* An update still to be merged, or merged again.
ToMerge(d, n) == n \in stream[d] /\ ~(pc = "del" /\ cur = d /\ n \in batch)

CopiesBounded ==
  \A d \in Docs : \A n \in EntryIds :
    /\ Cardinality(Copies(d, n)) <= 1 + faults
    /\ ToMerge(d, n) => Cardinality(Copies(d, n)) <= faults

\* Until it is written, the batch is in the stream.
BatchInStream == pc = "push" => batch \subseteq stream[cur]

DupInv == TypeOK /\ BatchInStream /\ CopiesBounded

\* What $push adds to the places of an entry.
LEMMA CopiesOfAppend ==
  ASSUME NEW E, NEW s \in Seq(SUBSET E), NEW b \in SUBSET E, NEW n
  PROVE  {i \in 1 .. Len(Append(s, b)) : n \in Append(s, b)[i]}
           = {i \in 1 .. Len(s) : n \in s[i]} \cup (IF n \in b THEN {Len(s) + 1} ELSE {})
<1> DEFINE t == Append(s, b)
<1>1. /\ Len(t) = Len(s) + 1 /\ Len(s) \in Nat
      /\ \A i \in 1 .. Len(s) : t[i] = s[i]
      /\ t[Len(s) + 1] = b
  BY AppendKeeps
<1>2. 1 .. Len(t) = (1 .. Len(s)) \cup {Len(s) + 1}
  BY <1>1
<1> HIDE DEF t
<1>3. QED
  BY <1>1, <1>2 DEF t

\* The number of places is a number.
LEMMA CopiesFinite ==
  ASSUME StoreTypeOK, NEW d \in Docs, NEW n
  PROVE  IsFiniteSet(Copies(d, n)) /\ Cardinality(Copies(d, n)) \in Nat
<1>1. Len(yjs[d]) \in Nat
  BY DEF StoreTypeOK
<1>2. IsFiniteSet(1 .. Len(yjs[d]))
  BY <1>1, FS_Interval
<1>3. IsFiniteSet(Copies(d, n))
  BY <1>2, FS_Subset DEF Copies
<1>4. QED
  BY <1>3, FS_CardinalityType

\* $push gives the entries of the batch one more place each, the others none.
LEMMA PushCopies ==
  ASSUME StoreTypeOK, NEW c \in Docs, NEW ids \in SUBSET EntryIds, PushEach(c, ids),
         NEW d \in Docs, NEW n
  PROVE  /\ Cardinality(Copies(d, n)') <= Cardinality(Copies(d, n)) + 1
         /\ ~(d = c /\ n \in ids) => Copies(d, n)' = Copies(d, n)
         /\ Cardinality(Copies(d, n)') \in Nat
<1> DEFINE new == Len(yjs[c]) + 1
<1>1. IsFiniteSet(Copies(d, n)) /\ Cardinality(Copies(d, n)) \in Nat
  BY CopiesFinite
<1>2. Copies(d, n)' = IF c \in docs /\ d = c /\ n \in ids
                        THEN Copies(d, n) \cup {new} ELSE Copies(d, n)
  <2>1. CASE c \in docs /\ d = c
    <3>1. yjs'[d] = Append(yjs[d], ids) /\ yjs[d] \in Seq(SUBSET EntryIds)
      BY <2>1 DEF PushEach, StoreTypeOK
    <3>2. QED
      BY <2>1, <3>1, CopiesOfAppend DEF Copies
  <2>2. CASE ~(c \in docs /\ d = c)
    BY <2>2 DEF PushEach, StoreTypeOK, Copies
  <2>3. QED
    BY <2>1, <2>2
<1>3. /\ IsFiniteSet(Copies(d, n) \cup {new})
      /\ Cardinality(Copies(d, n) \cup {new})
           = IF new \in Copies(d, n) THEN Cardinality(Copies(d, n))
                                     ELSE Cardinality(Copies(d, n)) + 1
  BY <1>1, FS_AddElement
<1> HIDE DEF new
<1>4. QED
  BY <1>1, <1>2, <1>3

LEMMA InitDup == Init => DupInv
<1> SUFFICES ASSUME Init PROVE DupInv
  OBVIOUS
<1>1. EntryIds = {} /\ TypeOK
  BY InitType DEF Init, StoreInit, EntryIds
<1>2. QED
  BY <1>1 DEF Init, SnapInit, DupInv, BatchInStream, CopiesBounded

\* A step that leaves the XADDs and the arrays alone, adds nothing to a
\* stream, and leaves "del" for nothing but a fault or with the batch gone.
LEMMA CopiesKept ==
  ASSUME DupInv, TypeOK', UNCHANGED <<xadds, yjs>>,
         \A d \in Docs : stream'[d] \subseteq stream[d],
         \/ faults' = faults + 1
         \/ faults' = faults /\ pc # "del"
         \/ faults' = faults /\ pc' = pc /\ cur' = cur /\ batch' = batch
         \/ /\ faults' = faults /\ \A n \in batch : n \notin stream'[cur]
  PROVE  CopiesBounded'
<1>t. StoreTypeOK /\ faults \in Nat
  BY DEF DupInv, TypeOK, SnapTypeOK
<1>1. EntryIds' = EntryIds /\ \A d, n : Copies(d, n)' = Copies(d, n)
  BY DEF EntryIds, Copies
<1> SUFFICES ASSUME NEW d \in Docs, NEW n \in EntryIds
             PROVE  /\ Cardinality(Copies(d, n)) <= 1 + faults'
                    /\ ToMerge(d, n)' => Cardinality(Copies(d, n)) <= faults'
  BY <1>1 DEF CopiesBounded
<1>2. /\ Cardinality(Copies(d, n)) \in Nat
      /\ Cardinality(Copies(d, n)) <= 1 + faults
      /\ ToMerge(d, n) => Cardinality(Copies(d, n)) <= faults
  BY <1>t, CopiesFinite DEF DupInv, CopiesBounded
<1>3. CASE faults' = faults + 1
  BY <1>t, <1>2, <1>3
<1>4. CASE faults' = faults
  <2>1. ToMerge(d, n)' => ToMerge(d, n) \/ faults' = faults + 1
    BY DEF ToMerge
  <2>2. QED
    BY <1>t, <1>2, <1>4, <2>1
<1>5. QED
  BY <1>3, <1>4

\* $push of a batch that is in the stream: each entry was to be merged, so
\* that there is room for one more place.
LEMMA CopiesPush ==
  ASSUME DupInv, pc = "push", PushEach(cur, ToPush(batch)),
         NEW d \in Docs, NEW n \in EntryIds
  PROVE  /\ Cardinality(Copies(d, n)') \in Nat
         /\ Cardinality(Copies(d, n)') <= 1 + faults
         /\ ~(d = cur /\ n \in batch) /\ n \in stream[d]
              => Cardinality(Copies(d, n)') <= faults
<1>t. StoreTypeOK /\ SnapTypeOK /\ cur \in Docs /\ faults \in Nat
  BY DEF DupInv, TypeOK, SnapTypeOK
<1>1. ToPush(batch) \in SUBSET EntryIds /\ ToPush(batch) \subseteq batch
  BY <1>t DEF SnapTypeOK, ToPush
<1>2. /\ Cardinality(Copies(d, n)') <= Cardinality(Copies(d, n)) + 1
      /\ ~(d = cur /\ n \in ToPush(batch)) => Copies(d, n)' = Copies(d, n)
      /\ Cardinality(Copies(d, n)') \in Nat
  BY <1>t, <1>1, PushCopies
<1>3. /\ Cardinality(Copies(d, n)) \in Nat
      /\ Cardinality(Copies(d, n)) <= 1 + faults
      /\ n \in stream[d] => Cardinality(Copies(d, n)) <= faults
  BY <1>t, CopiesFinite DEF DupInv, CopiesBounded, ToMerge
<1>4. CASE d = cur /\ n \in batch
  <2>1. n \in stream[d]
    BY <1>4 DEF DupInv, BatchInStream
  <2>2. QED
    BY <1>t, <1>2, <1>3, <1>4, <2>1
<1>5. CASE ~(d = cur /\ n \in batch)
  BY <1>1, <1>2, <1>3, <1>5
<1>6. QED
  BY <1>4, <1>5

LEMMA StepDup == DupInv /\ [Next]_vars => DupInv'
<1> SUFFICES ASSUME DupInv, [Next]_vars PROVE BatchInStream' /\ CopiesBounded'
  BY StepType DEF DupInv
<1>t. StoreTypeOK /\ SnapTypeOK /\ faults \in Nat /\ TypeOK /\ TypeOK'
  BY StepType DEF DupInv, TypeOK, SnapTypeOK
<1>b. ASSUME pc' # "push" \/ (UNCHANGED <<pc, cur, batch, stream>>) PROVE BatchInStream'
  BY <1>b DEF DupInv, BatchInStream
<1>1. CASE UNCHANGED vars
  BY <1>1, <1>t, <1>b, CopiesKept DEF vars
<1>2. CASE Check
  <2>1. CASE StartScan \/ ScanDone \/ (\E d \in Docs : NextKey(d))
    <3>1. UNCHANGED <<storeVars, faults>> /\ pc # "del" /\ pc' # "push"
      BY <2>1 DEF StartScan, ScanDone, NextKey
    <3>2. QED
      BY <3>1, <1>t, <1>b, CopiesKept
  <2>2. CASE ReadOldest \/ ReadLatest
    <3>1. UNCHANGED <<storeVars, faults>> /\ pc # "del" /\ pc' # "push"
      BY <2>2 DEF ReadOldest, ReadLatest
    <3>2. QED
      BY <3>1, <1>t, <1>b, CopiesKept
  <2>3. CASE ReadRange
    <3>1. UNCHANGED <<storeVars, faults>> /\ pc # "del" /\ cur' = cur
      BY <2>3 DEF ReadRange
    <3>2. BatchInStream'
      BY <2>3, <3>1 DEF ReadRange, BatchInStream
    <3>3. QED
      BY <3>1, <3>2, <1>t, CopiesKept
  <2>4. CASE Push
    <3>1. /\ pc = "push" /\ pc' = "del" /\ PushEach(cur, ToPush(batch))
          /\ UNCHANGED <<xadds, stream, cur, batch, faults>>
      BY <2>4 DEF Push, PushEach
    <3>2. CopiesBounded'
      BY <3>1, CopiesPush DEF CopiesBounded, ToMerge, EntryIds
    <3>3. QED
      BY <1>b, <3>1, <3>2
  <2>5. CASE Delete
    <3>1. /\ pc' = "scan" /\ faults' = faults /\ UNCHANGED <<xadds, yjs>>
          /\ \A c \in Docs : stream'[c] = IF c = cur THEN stream[c] \ batch ELSE stream[c]
      BY <2>5, <1>t, XDelType DEF Delete, XDel, SnapTypeOK
    <3>2. cur \in Docs
      BY <1>t DEF SnapTypeOK
    <3>3. QED
      BY <3>1, <3>2, <1>t, <1>b, CopiesKept
  <2>6. QED
    BY <1>2, <2>1, <2>2, <2>3, <2>4, <2>5 DEF Check
<1>3. CASE Failure
  <2>0. faults' = faults + 1 /\ pc' # "push"
    BY <1>3 DEF Failure, Fault, ScanFails, ReadFails, PushFails, DeleteFails, Restart
  <2>1. CASE UNCHANGED storeVars
    BY <2>0, <2>1, <1>t, <1>b, CopiesKept
  <2>2. CASE pc = "push" /\ PushEach(cur, ToPush(batch))
    <3>1. EntryIds' = EntryIds
      BY <2>2 DEF PushEach, EntryIds
    <3>2. \A d \in Docs : \A n \in EntryIds :
            Cardinality(Copies(d, n)') \in Nat /\ Cardinality(Copies(d, n)') <= 1 + faults
      BY <2>2, CopiesPush
    <3>3. CopiesBounded'
      BY <1>t, <2>0, <3>1, <3>2 DEF CopiesBounded
    <3>4. QED
      BY <1>b, <2>0, <3>3
  <2>3. QED
    BY <1>3, <2>1, <2>2 DEF Failure, ScanFails, ReadFails, PushFails, DeleteFails, Restart
<1>4. CASE Environment
  <2>1. ASSUME NEW d \in Docs, NEW p \in Payloads, Append1(d, p)
        PROVE  BatchInStream' /\ CopiesBounded'
    <3>1. /\ EntryIds' = EntryIds \cup {Len(xadds) + 1} /\ Len(xadds) + 1 \notin EntryIds
          /\ UNCHANGED <<yjs, snapVars>>
          /\ \A c \in Docs : /\ stream[c] \subseteq stream'[c]
                             /\ stream'[c] \subseteq stream[c] \cup {Len(xadds) + 1}
      BY <2>1, <1>t, XAddType DEF Append1, XAdd, EntryIds, StoreTypeOK
    <3>2. BatchInStream'
      BY <3>1, <1>t DEF DupInv, BatchInStream, SnapTypeOK
    <3>3. \A c, n : Copies(c, n)' = Copies(c, n)
      BY <3>1 DEF Copies
    <3>4. ASSUME NEW c \in Docs PROVE Copies(c, Len(xadds) + 1) = {}
      BY <3>1, <1>t, WrittenRange DEF Copies
    <3>5. CopiesBounded'
      <4> SUFFICES ASSUME NEW c \in Docs, NEW n \in EntryIds'
                   PROVE  /\ Cardinality(Copies(c, n)) <= 1 + faults
                          /\ ToMerge(c, n)' => Cardinality(Copies(c, n)) <= faults
        BY <3>1, <3>3 DEF CopiesBounded
      <4>1. CASE n = Len(xadds) + 1
        <5>1. Cardinality(Copies(c, n)) = 0
          BY <4>1, <3>4, FS_EmptySet
        <5>2. QED
          BY <5>1, <1>t
      <4>2. CASE n \in EntryIds
        BY <4>2, <3>1 DEF DupInv, CopiesBounded, ToMerge
      <4>3. QED
        BY <3>1, <4>1, <4>2
    <3>6. QED
      BY <3>2, <3>5
  <2>2. ASSUME NEW d \in Docs, RemoveDoc(d) PROVE BatchInStream' /\ CopiesBounded'
    <3>1. /\ UNCHANGED <<xadds, stream, snapVars>>
          /\ yjs'[d] = <<>> /\ \A c \in Docs \ {d} : yjs'[c] = yjs[c]
      BY <2>2, <1>t DEF RemoveDoc, DeleteOne, StoreTypeOK
    <3>2. EntryIds' = EntryIds /\ \A n : Copies(d, n)' = {}
      BY <3>1 DEF EntryIds, Copies
    <3>3. \A c \in Docs \ {d} : \A n : Copies(c, n)' = Copies(c, n)
      BY <3>1 DEF Copies
    <3>4. \A c, n : ToMerge(c, n)' = ToMerge(c, n)
      BY <3>1 DEF ToMerge
    <3>5. ASSUME NEW c \in Docs, NEW n \in EntryIds
          PROVE  /\ Cardinality(Copies(c, n)') <= 1 + faults
                 /\ ToMerge(c, n) => Cardinality(Copies(c, n)') <= faults
      <4>1. CASE c = d
        BY <4>1, <3>2, <1>t, FS_EmptySet
      <4>2. CASE c # d
        BY <4>2, <3>3 DEF DupInv, CopiesBounded
      <4>3. QED
        BY <4>1, <4>2
    <3>6. CopiesBounded'
      BY <3>1, <3>2, <3>4, <3>5 DEF CopiesBounded
    <3>7. QED
      BY <1>b, <3>1, <3>6
  <2>3. CASE Tick
    BY <2>3, <1>t, <1>b, CopiesKept DEF Tick
  <2>4. QED
    BY <1>4, <2>1, <2>2, <2>3 DEF Environment
<1>5. QED
  BY <1>1, <1>2, <1>3, <1>4 DEF Next

\* An update stands in the array once, and once more for each error or restart
\* at most.
THEOREM DuplicatesBounded == Spec => []DuplicatesBoundedByFaults
<1>1. DupInv => DuplicatesBoundedByFaults
  <2> SUFFICES ASSUME DupInv, NEW d \in Docs, NEW n \in Written(d)
               PROVE  Cardinality(Copies(d, n)) <= 1 + faults
    BY DEF DuplicatesBoundedByFaults, Copies
  <2>1. n \in EntryIds
    BY DEF DupInv, TypeOK, StoreTypeOK, Written
  <2>2. QED
    BY <2>1 DEF DupInv, CopiesBounded
<1>2. QED
  BY <1>1, InitDup, StepDup, PTL DEF Spec

-----------------------------------------------------------------------------
(***************************************************************************)
(* Staleness.  Where each check ends before the next tick and no command   *)
(* fails, an entry that had waited for fallbackTimeout at the last tick is *)
(* on its way out: the tick waits, its stream is yet to be looked at, or   *)
(* is the one at hand.  That the oldest entry of a stream is the first in  *)
(* it is why its age decides.                                              *)
(***************************************************************************)

\* Entries are numbered in the order of their times.
Aged ==
  /\ \A n \in EntryIds : xadds[n].at <= now
  /\ \A m, n \in EntryIds : m <= n => xadds[m].at <= xadds[n].at
  /\ pc = "latest" => oldest \in EntryIds

AgedInv == TypeOK /\ Aged

\* The entry had waited for fallbackTimeout when the ticker last fired.
Due(n) == ~IsBlank(n) /\ AgeOf(n) >= FallbackTimeout + SinceTick

Checked(d, n) ==
  \/ pc = "wait" /\ fired
  \/ pc # "wait" /\ d \in todo
  \/ /\ pc \in {"oldest", "latest", "range", "push", "del"} /\ cur = d
     /\ pc = "latest" => xadds[oldest].at <= xadds[n].at
     /\ pc \in {"push", "del"} => n \in batch

CheckedInv ==
  /\ pc # "wait" => ~fired
  /\ Busy => SinceTick <= CheckTime
  /\ \A d \in docs : \A n \in stream[d] :
       /\ ~IsBlank(n) => AgeOf(n) < FallbackTimeout + CheckInterval + SinceTick
       /\ Due(n) => Checked(d, n)

StaleInv == AgedInv /\ (ChecksEnd /\ faults = 0 => CheckedInv)

LEMMA EntryTimes == StoreTypeOK => \A n \in EntryIds : n \in Nat /\ xadds[n].at \in Nat
<1> SUFFICES ASSUME StoreTypeOK, NEW n \in EntryIds PROVE n \in Nat /\ xadds[n].at \in Nat
  OBVIOUS
<1>1. n \in Nat /\ xadds[n] \in XAddRecord
  BY DEF StoreTypeOK, EntryIds
<1>2. QED
  BY <1>1 DEF XAddRecord

LEMMA AgedKept ==
  ASSUME AgedInv, UNCHANGED xadds, now' \in Nat, now <= now', pc' = "latest" => oldest' \in EntryIds
  PROVE  Aged'
<1>1. EntryIds' = EntryIds /\ \A n \in EntryIds : xadds'[n] = xadds[n] /\ xadds[n].at \in Nat
  BY EntryTimes DEF AgedInv, TypeOK, EntryIds
<1>2. now \in Nat
  BY DEF AgedInv, TypeOK, StoreTypeOK
<1>3. QED
  BY <1>1, <1>2 DEF AgedInv, Aged

LEMMA StepAged == AgedInv /\ [Next]_vars => Aged'
<1> SUFFICES ASSUME AgedInv, [Next]_vars PROVE Aged'
  OBVIOUS
<1>t. /\ TypeOK /\ StoreTypeOK /\ SnapTypeOK /\ now \in Nat
      /\ \A n \in EntryIds : n \in Nat /\ xadds[n].at \in Nat
  BY EntryTimes DEF AgedInv, TypeOK, StoreTypeOK
<1>1. ASSUME NEW d \in Docs, NEW p \in Payloads, Append1(d, p) PROVE Aged'
  <2>1. /\ EntryIds' = EntryIds \cup {Len(xadds) + 1} /\ Len(xadds) \in Nat
        /\ \A n \in EntryIds : xadds'[n] = xadds[n] /\ n <= Len(xadds)
        /\ xadds'[Len(xadds) + 1].at = now /\ UNCHANGED <<now, pc, oldest>>
    BY <1>t, <1>1, XAddType DEF Append1, XAdd, EntryIds
  <2>2. \A n \in EntryIds' : xadds'[n].at <= now'
    BY <1>t, <2>1 DEF AgedInv, Aged
  <2>3. ASSUME NEW m \in EntryIds', NEW n \in EntryIds', m <= n PROVE xadds'[m].at <= xadds'[n].at
    <3>1. CASE n = Len(xadds) + 1
      BY <2>1, <2>2, <3>1
    <3>2. CASE n \in EntryIds
      <4>1. m \in EntryIds
        BY <1>t, <2>1, <2>3, <3>2
      <4>2. QED
        BY <2>1, <2>3, <3>2, <4>1 DEF AgedInv, Aged
    <3>3. QED
      BY <2>1, <3>1, <3>2
  <2>4. QED
    BY <2>1, <2>2, <2>3 DEF AgedInv, Aged
<1>2. CASE Tick
  BY <1>2, <1>t, AgedKept DEF Tick, AgedInv, Aged
<1>3. ASSUME UNCHANGED <<xadds, now>>, pc' = "latest" => oldest' \in EntryIds PROVE Aged'
  BY <1>3, <1>t, AgedKept
<1>4. CASE Check
  <2>1. CASE ReadOldest
    BY <2>1, <1>t, <1>3 DEF ReadOldest, StoreTypeOK, SnapTypeOK
  <2>2. CASE ~ReadOldest
    BY <2>2, <1>3, <1>4 DEF Check, StartScan, ScanDone, NextKey, ReadLatest, ReadRange, Push, Delete,
       PushEach, XDel
  <2>3. QED
    BY <2>1, <2>2
<1>5. CASE Failure \/ \E d \in Docs : RemoveDoc(d)
  BY <1>5, <1>3 DEF Failure, ScanFails, ReadFails, PushFails, DeleteFails, Restart, PushEach,
     RemoveDoc, DeleteOne, AgedInv, Aged
<1>6. CASE UNCHANGED vars
  BY <1>6, <1>3 DEF vars, AgedInv, Aged
<1>7. QED
  BY <1>1, <1>2, <1>4, <1>5, <1>6 DEF Next, Environment

\* Where neither time passes nor an entry comes, only the check goes on.
LEMMA CheckedKept ==
  ASSUME CheckedInv, UNCHANGED <<xadds, now, left>>, docs' \subseteq docs,
         pc' # "wait" => ~fired', Busy' => Busy,
         \A d \in docs' : stream'[d] \subseteq stream[d],
         \A d \in docs' : \A n \in stream'[d] : Due(n) /\ Checked(d, n) => Checked(d, n)'
  PROVE  CheckedInv'
BY DEF CheckedInv, Due, IsBlank, AgeOf, SinceTick

LEMMA StepChecked ==
  ASSUME StaleInv, [Next]_vars, FallbackTimeout > 0, ChecksEnd, faults' = 0
  PROVE  CheckedInv'
<1>t. /\ AgedInv /\ TypeOK /\ StoreTypeOK /\ SnapTypeOK /\ now \in Nat /\ FallbackTimeout \in Nat
      /\ faults \in Nat /\ CheckInterval \in Nat /\ left \in 1 .. CheckInterval /\ CheckTime \in Nat
  BY TimeAssumption DEF StaleInv, AgedInv, TypeOK, StoreTypeOK, SnapTypeOK
<1>e. \A d \in docs : d \in Docs /\ d \in HexDocs /\ stream[d] \subseteq EntryIds
  BY <1>t, DocsAssumption DEF StoreTypeOK
<1>f. ~Failure /\ faults = 0
  <2>1. Failure => faults' = faults + 1
    BY DEF Failure, ScanFails, ReadFails, PushFails, DeleteFails, Restart, Fault
  <2>2. ~Failure
    BY <1>t, <2>1
  <2>3. UNCHANGED faults
    BY <2>2 DEF Next, Check, Environment, StartScan, ScanDone, NextKey, ReadOldest, ReadLatest,
       ReadRange, Push, Delete, Append1, RemoveDoc, Tick, vars
  <2>4. QED
    BY <2>2, <2>3
<1>c. CheckedInv
  BY <1>f DEF StaleInv
<1>1. CASE StartScan
  <2>1. \A d \in docs : stream[d] # {} => d \in StreamKeys
    BY <1>t, <1>e DEF StoreTypeOK, StreamKeys
  <2>2. QED
    BY <1>1, <1>c, <2>1, CheckedKept DEF StartScan, Checked, Busy
<1>2. CASE ScanDone
  BY <1>2, <1>c, CheckedKept DEF ScanDone, Checked, CheckedInv, Busy
<1>3. ASSUME NEW d \in Docs, NextKey(d) PROVE CheckedInv'
  BY <1>3, <1>c, CheckedKept DEF NextKey, Checked, CheckedInv, Busy
<1>4. CASE ReadOldest
  <2>1. ASSUME NEW d \in docs, NEW n \in stream[d], Due(n), Checked(d, n) PROVE Checked(d, n)'
    <3>1. CASE d \in todo
      BY <1>4, <3>1 DEF ReadOldest, Checked
    <3>2. CASE d \notin todo
      <4>1. cur = d /\ pc = "oldest" /\ cur' = d /\ UNCHANGED <<xadds, now>>
        BY <1>4, <2>1, <3>2 DEF ReadOldest, Checked
      <4>2. pc' = "latest" /\ oldest' \in stream[d] /\ \A m \in stream[d] : oldest' <= m
        BY <1>4, <4>1 DEF ReadOldest
      <4>3. xadds[oldest'].at <= xadds[n].at /\ xadds[n].at \in Nat /\ xadds[oldest'].at \in Nat
        BY <1>t, <1>e, <4>2, EntryTimes DEF AgedInv, Aged
      <4>4. QED
        BY <4>1, <4>2, <4>3 DEF Checked
    <3>3. QED
      BY <3>1, <3>2
  <2>2. QED
    BY <1>4, <1>c, <2>1, CheckedKept DEF ReadOldest, CheckedInv, Busy
<1>5. CASE ReadLatest
  <2>1. ASSUME NEW d \in docs, NEW n \in stream[d], Due(n), Checked(d, n) PROVE Checked(d, n)'
    <3>1. CASE d \in todo
      BY <1>5, <3>1 DEF ReadLatest, Checked
    <3>2. CASE d \notin todo
      <4>1. cur = d /\ pc = "latest" /\ xadds[oldest].at <= xadds[n].at
        BY <1>5, <2>1, <3>2 DEF ReadLatest, Checked
      <4>2. xadds[oldest].at \in Nat /\ xadds[n].at \in Nat
        BY <1>t, <1>e, <4>1, EntryTimes DEF AgedInv, Aged
      <4>3. AgeOf(oldest) >= FallbackTimeout
        BY <1>t, <2>1, <4>1, <4>2 DEF Due, AgeOf, SinceTick
      <4>4. QED
        BY <1>5, <4>1, <4>3 DEF ReadLatest, Checked, ShouldMerge
    <3>3. QED
      BY <3>1, <3>2
  <2>2. QED
    BY <1>5, <1>c, <2>1, CheckedKept DEF ReadLatest, CheckedInv, Busy
<1>6. CASE ReadRange
  <2>1. ASSUME NEW d \in docs, NEW n \in stream[d], Due(n), Checked(d, n) PROVE Checked(d, n)'
    BY <1>6, <1>e, <2>1 DEF ReadRange, Checked, ToPush, Due
  <2>2. QED
    BY <1>6, <1>c, <2>1, CheckedKept DEF ReadRange, CheckedInv, Busy
<1>7. CASE Push
  BY <1>7, <1>c, CheckedKept DEF Push, PushEach, Checked, CheckedInv, Busy
<1>8. CASE Delete
  <2>1. /\ UNCHANGED <<xadds, now, docs, todo, fired, left>> /\ pc = "del" /\ pc' = "scan"
        /\ \A d \in Docs : stream'[d] = IF d = cur THEN stream[d] \ batch ELSE stream[d]
    BY <1>8, <1>t, XDelType DEF Delete, XDel, SnapTypeOK
  <2>2. ASSUME NEW d \in docs, NEW n \in stream'[d], Checked(d, n) PROVE Checked(d, n)'
    BY <1>e, <2>1, <2>2 DEF Checked
  <2>3. QED
    BY <1>e, <1>c, <2>1, <2>2, CheckedKept DEF CheckedInv, Busy
<1>9. ASSUME NEW d \in Docs, NEW p \in Payloads, Append1(d, p) PROVE CheckedInv'
  <2>1. /\ Len(xadds) \in Nat /\ Len(xadds) + 1 \notin EntryIds
        /\ \A n \in EntryIds : xadds'[n] = xadds[n]
        /\ xadds'[Len(xadds) + 1].at = now /\ UNCHANGED <<now, docs, snapVars>>
        /\ \A c \in Docs : stream'[c] \subseteq stream[c] \cup {Len(xadds) + 1}
    BY <1>9, <1>t, XAddType DEF Append1, XAdd, EntryIds, StoreTypeOK
  <2>2. ASSUME NEW c \in docs, NEW n \in stream'[c]
        PROVE  /\ (~IsBlank(n) => AgeOf(n) < FallbackTimeout + CheckInterval + SinceTick)'
               /\ (Due(n) => Checked(c, n))'
    <3>1. CASE n \in stream[c]
      <4>1. xadds'[n] = xadds[n] /\ (pc = "latest" => xadds'[oldest] = xadds[oldest])
        BY <1>t, <1>e, <2>1, <3>1 DEF AgedInv, Aged
      <4>2. QED
        BY <1>c, <2>1, <3>1, <4>1 DEF CheckedInv, Checked, Due, IsBlank, AgeOf, SinceTick
    <3>2. CASE n = Len(xadds) + 1
      <4>1. AgeOf(n)' = 0
        BY <1>t, <2>1, <3>2 DEF AgeOf
      <4>2. QED
        BY <1>t, <2>1, <4>1 DEF Due, SinceTick
    <3>3. QED
      BY <1>e, <2>1, <2>2, <3>1, <3>2
  <2>3. QED
    BY <1>c, <2>1, <2>2 DEF CheckedInv, Busy, SinceTick
<1>10. ASSUME NEW d \in Docs, RemoveDoc(d) PROVE CheckedInv'
  BY <1>10, <1>c, CheckedKept DEF RemoveDoc, DeleteOne, Checked, CheckedInv, Busy
<1>11. CASE Tick
  <2>1. /\ UNCHANGED <<xadds, stream, docs, pc, todo, cur, oldest, batch>>
        /\ now' \in {now, now + 1}
        /\ left' = IF left = 1 THEN CheckInterval ELSE left - 1
        /\ fired' = (fired \/ left = 1)
        /\ Busy => SinceTick < CheckTime
    BY <1>11 DEF Tick
  <2>2. \A d \in docs : \A n \in stream[d] :
           xadds[n].at \in Nat /\ AgeOf(n)' \in {AgeOf(n), AgeOf(n) + 1} /\ IsBlank(n)' = IsBlank(n)
    BY <1>t, <1>e, <2>1, EntryTimes DEF AgeOf, IsBlank
  <2>3. CASE left = 1
    <3>i. SinceTick' = 0 /\ SinceTick = CheckInterval - 1
      BY <1>t, <2>1, <2>3 DEF SinceTick
    <3>b. ~Busy
      BY <1>t, <2>1, <3>i DEF ChecksEnd
    <3>1. ~Busy /\ Busy' /\ fired' /\ pc' = "wait" /\ SinceTick' = 0 /\ SinceTick = CheckInterval - 1
      BY <2>1, <2>3, <3>i, <3>b DEF Busy
    <3>2. \A d \in docs : \A n \in stream[d] : ~Due(n)
      BY <1>c, <3>1 DEF CheckedInv, Checked, Busy
    <3>3. \A d \in docs : \A n \in stream[d] :
             ~IsBlank(n) => AgeOf(n)' < FallbackTimeout + CheckInterval
      BY <1>t, <2>2, <3>1, <3>2 DEF Due, AgeOf
    <3>4. QED
      BY <1>t, <2>1, <2>2, <3>1, <3>3 DEF CheckedInv, Checked
  <2>4. CASE left # 1
    <3>i. SinceTick' = SinceTick + 1 /\ SinceTick \in Nat
      BY <1>t, <2>1, <2>4 DEF SinceTick
    <3>f. fired' = fired
      BY <1>t, <2>1, <2>4 DEF SnapTypeOK
    <3>1. SinceTick' = SinceTick + 1 /\ SinceTick \in Nat /\ UNCHANGED fired /\ Busy' = Busy
      BY <2>1, <3>i, <3>f DEF Busy
    <3>2. \A d \in docs : \A n \in stream[d] :
             /\ ~IsBlank(n) => AgeOf(n)' < FallbackTimeout + CheckInterval + SinceTick'
             /\ Due(n)' => Due(n)
      BY <1>t, <1>c, <2>2, <3>1 DEF CheckedInv, Due, AgeOf
    <3>3. \A d \in docs : \A n \in stream[d] : Due(n)' => Checked(d, n)'
      BY <1>c, <2>1, <3>1, <3>2 DEF CheckedInv, Checked
    <3>4. QED
      BY <1>t, <1>c, <2>1, <2>2, <3>1, <3>2, <3>3 DEF CheckedInv
  <2>5. QED
    BY <2>3, <2>4
<1>12. CASE UNCHANGED vars
  BY <1>12, <1>c, CheckedKept DEF vars, Checked, CheckedInv, Busy
<1>13. QED
  BY <1>f, <1>1, <1>2, <1>3, <1>4, <1>5, <1>6, <1>7, <1>8, <1>9, <1>10, <1>11, <1>12
     DEF Next, Check, Environment

\* However steadily clients keep typing, an update of a document in the
\* collection leaves the stream in less than fallbackTimeout + checkInterval
\* and what a check takes, as long as no command fails, each check ends before
\* the next tick, and fallbackTimeout is not zero.
THEOREM StalenessBounded ==
  ASSUME FallbackTimeout > 0
  PROVE  Spec => []BoundedStaleness
<1>1. Init => StaleInv
  <2> SUFFICES ASSUME Init PROVE StaleInv
    OBVIOUS
  <2>1. EntryIds = {} /\ \A d \in docs : stream[d] = {}
    BY DocsAssumption DEF Init, StoreInit, EntryIds
  <2>2. QED
    BY <2>1, InitType DEF Init, SnapInit, StaleInv, AgedInv, Aged, CheckedInv, Busy
<1>2. StaleInv /\ [Next]_vars => StaleInv'
  <2>1. StaleInv /\ [Next]_vars => AgedInv'
    BY StepType, StepAged DEF StaleInv, AgedInv
  <2>2. StaleInv /\ [Next]_vars => (ChecksEnd /\ faults' = 0 => CheckedInv')
    BY StepChecked
  <2>3. QED
    BY <2>1, <2>2 DEF StaleInv, ChecksEnd
<1>3. StaleInv => BoundedStaleness
  <2> SUFFICES ASSUME StaleInv, ChecksEnd, faults = 0, NEW d \in docs, NEW n \in stream[d], ~IsBlank(n)
               PROVE  AgeOf(n) < FallbackTimeout + CheckInterval + CheckTime
    BY DEF BoundedStaleness
  <2>t. /\ FallbackTimeout \in Nat /\ CheckInterval \in Nat /\ CheckTime \in Nat
        /\ left \in 1 .. CheckInterval /\ now \in Nat /\ xadds[n].at \in Nat
    <3>1. StoreTypeOK /\ SnapTypeOK /\ n \in EntryIds
      BY DocsAssumption DEF StaleInv, AgedInv, TypeOK, StoreTypeOK
    <3>2. QED
      BY <3>1, EntryTimes, TimeAssumption DEF StoreTypeOK, SnapTypeOK
  <2>c. CheckedInv
    BY DEF StaleInv
  <2>1. CASE Due(n)
    <3>1. Busy
      BY <2>c, <2>1 DEF CheckedInv, Checked, Busy
    <3>2. QED
      BY <2>t, <2>c, <3>1 DEF CheckedInv, AgeOf, SinceTick
  <2>2. CASE ~Due(n)
    BY <2>t, <2>2 DEF Due, AgeOf, SinceTick
  <2>3. QED
    BY <2>1, <2>2
<1>4. QED
  BY <1>1, <1>2, <1>3, PTL DEF Spec
=============================================================================
