---------------------------- MODULE CollabProofs ----------------------------
(***************************************************************************)
(* What TLAPS proves of the hub and the snapshotter together, for any      *)
(* clients, documents, frames and capacities and any number of faults.     *)
(***************************************************************************)
EXTENDS Collab, HubProofs

\* What was proved of the snapshotter, for the one in this process.
SnapP == INSTANCE SnapshotterProofs
           WITH IdleTimeout <- 0, FallbackTimeout <- 0, CheckInterval <- 1, CheckTime <- 1,
                MaxTime <- 0, MaxAdds <- MaxMsgs * (MaxRetries + 1)

USE DEF storeVars, connVars, roomVars, inVars, outVars, syncVars, hubVars, snapVars

LEMMA SnapAssumptions == SnapP!TimeAssumption /\ SnapP!DocsAssumption
<1>1. MaxMsgs * (MaxRetries + 1) \in Nat
  BY HubAssumption
<1>2. QED
  BY <1>1, FaultsAssumption, DocsAssumption DEF SnapP!TimeAssumption, SnapP!DocsAssumption

-----------------------------------------------------------------------------
(***************************************************************************)
(* The snapshotter of Collab and the one the proofs are about are the same *)
(* formulas, action by action.                                             *)
(***************************************************************************)

LEMMA SameStores ==
  /\ SnapP!EntryIds = EntryIds /\ SnapP!StoreTypeOK = StoreTypeOK
  /\ \A d : SnapP!Written(d) = Written(d) /\ Snap!Written(d) = Written(d)
  /\ \A d : SnapP!Accepted(d) = Snap!Accepted(d)
  /\ \A d : SnapP!Live(d) = Snap!Live(d)
BY DEF SnapP!EntryIds, EntryIds, SnapP!StoreTypeOK, StoreTypeOK, SnapP!XAddRecord,
       XAddRecord, SnapP!Payloads, Payloads, SnapP!Written, Snap!Written, Written,
       SnapP!Accepted, Snap!Accepted, SnapP!IsBlank, Snap!IsBlank, SnapP!Live, Snap!Live

LEMMA SameCheck == SnapP!Check <=> Snap!Check
<1>1. SnapP!StartScan <=> Snap!StartScan
  BY DEF SnapP!StartScan, Snap!StartScan, SnapP!StreamKeys, Snap!StreamKeys, SnapP!EntryIds,
         Snap!EntryIds, SnapP!storeVars, Snap!storeVars
<1>2. SnapP!ScanDone <=> Snap!ScanDone
  BY DEF SnapP!ScanDone, Snap!ScanDone, SnapP!storeVars, Snap!storeVars
<1>3. \A d : SnapP!NextKey(d) <=> Snap!NextKey(d)
  BY DEF SnapP!NextKey, Snap!NextKey, SnapP!storeVars, Snap!storeVars
<1>4. SnapP!ReadOldest <=> Snap!ReadOldest
  BY DEF SnapP!ReadOldest, Snap!ReadOldest, SnapP!storeVars, Snap!storeVars
<1>5. SnapP!ReadLatest <=> Snap!ReadLatest
  BY DEF SnapP!ReadLatest, Snap!ReadLatest, SnapP!storeVars, Snap!storeVars,
         SnapP!ShouldMerge, Snap!ShouldMerge, SnapP!AgeOf, Snap!AgeOf, SnapP!MaxId, Snap!MaxId
<1>6. SnapP!ReadRange <=> Snap!ReadRange
  BY DEF SnapP!ReadRange, Snap!ReadRange, SnapP!storeVars, Snap!storeVars,
         SnapP!ToPush, Snap!ToPush, SnapP!IsBlank, Snap!IsBlank
<1>7. SnapP!Push <=> Snap!Push
  BY DEF SnapP!Push, Snap!Push, SnapP!PushEach, Snap!PushEach,
         SnapP!ToPush, Snap!ToPush, SnapP!IsBlank, Snap!IsBlank
<1>8. SnapP!Delete <=> Snap!Delete
  BY DEF SnapP!Delete, Snap!Delete, SnapP!XDel, Snap!XDel
<1>9. QED
  BY <1>1, <1>2, <1>3, <1>4, <1>5, <1>6, <1>7, <1>8 DEF SnapP!Check, Snap!Check

LEMMA SameFailure == SnapP!Failure <=> Snap!Failure
<1> USE DEF SnapP!Fault, Snap!Fault, SnapP!storeVars, Snap!storeVars
<1>1. SnapP!ScanFails <=> Snap!ScanFails
  BY DEF SnapP!ScanFails, Snap!ScanFails
<1>2. SnapP!ReadFails <=> Snap!ReadFails
  BY DEF SnapP!ReadFails, Snap!ReadFails
<1>3. SnapP!PushFails <=> Snap!PushFails
  BY DEF SnapP!PushFails, Snap!PushFails, SnapP!PushEach, Snap!PushEach,
         SnapP!ToPush, Snap!ToPush, SnapP!IsBlank, Snap!IsBlank
<1>4. SnapP!DeleteFails <=> Snap!DeleteFails
  BY DEF SnapP!DeleteFails, Snap!DeleteFails
<1>5. SnapP!Restart <=> Snap!Restart
  BY DEF SnapP!Restart, Snap!Restart
<1>6. QED
  BY <1>1, <1>2, <1>3, <1>4, <1>5 DEF SnapP!Failure, Snap!Failure

LEMMA SameEnvironment ==
  /\ \A d, p : SnapP!Append1(d, p) <=> Snap!Append1(d, p)
  /\ \A d : SnapP!RemoveDoc(d) <=> Snap!RemoveDoc(d)
  /\ SnapP!Tick <=> Snap!Tick
<1> USE DEF SnapP!snapVars, Snap!snapVars
<1>1. \A d, p : SnapP!Append1(d, p) <=> Snap!Append1(d, p)
  BY DEF SnapP!Append1, Snap!Append1, SnapP!XAdd, Snap!XAdd
<1>2. \A d : SnapP!RemoveDoc(d) <=> Snap!RemoveDoc(d)
  BY DEF SnapP!RemoveDoc, Snap!RemoveDoc, SnapP!DeleteOne, Snap!DeleteOne
<1>3. SnapP!Tick <=> Snap!Tick
  BY DEF SnapP!Tick, Snap!Tick, SnapP!ChecksEnd, Snap!ChecksEnd, SnapP!Busy, Snap!Busy,
         SnapP!SinceTick, Snap!SinceTick
<1>4. QED
  BY <1>1, <1>2, <1>3

LEMMA SameSnapshotter ==
  /\ SnapP!Init <=> Snap!Init
  /\ [SnapP!Next]_(SnapP!vars) <=> [Snap!Next]_(Snap!vars)
<1>1. SnapP!Init <=> Snap!Init
  BY DEF SnapP!Init, Snap!Init, SnapP!StoreInit, Snap!StoreInit, SnapP!SnapInit, Snap!SnapInit
<1>2. SnapP!Environment <=> Snap!Environment
  BY SameEnvironment DEF SnapP!Environment, Snap!Environment, SnapP!Payloads, Snap!Payloads
<1>3. SnapP!Next <=> Snap!Next
  BY <1>2, SameCheck, SameFailure DEF SnapP!Next, Snap!Next
<1>4. UNCHANGED (SnapP!vars) <=> UNCHANGED (Snap!vars)
  BY DEF SnapP!vars, Snap!vars, SnapP!storeVars, Snap!storeVars, SnapP!snapVars, Snap!snapVars
<1>5. QED
  BY <1>1, <1>3, <1>4

-----------------------------------------------------------------------------
(***************************************************************************)
(* The hub beside a snapshotter.  What the hub's proofs say of a step of   *)
(* the hub holds here, and a step of the snapshotter leaves the hub alone  *)
(* and the entries under their numbers.                                    *)
(***************************************************************************)

HubPart == BaseInv /\ PlaceInv /\ AttemptInv /\ Len(msgs) <= MaxMsgs

\* There is one entry per message and try at most.
LEMMA AddsBounded == HubPart => Len(xadds) <= MaxMsgs * (MaxRetries + 1)
<1> SUFFICES ASSUME HubPart PROVE Len(xadds) <= MaxMsgs * (MaxRetries + 1)
  OBVIOUS
<1> DEFINE M == 1 .. MaxMsgs
           T == 0 .. MaxRetries
           f == [n \in EntryIds |-> <<origin[n].msg, origin[n].try>>]
<1>1. /\ BaseInv /\ AttemptInv /\ MaxMsgs \in Nat /\ MaxRetries \in Nat
      /\ Len(msgs) \in Nat /\ Len(xadds) \in Nat /\ Len(msgs) <= MaxMsgs
  <2>1. BaseInv /\ AttemptInv /\ Len(msgs) <= MaxMsgs
    BY DEF HubPart
  <2>2. msgs \in Seq(Message) /\ xadds \in Seq(XAddRecord)
    BY <2>1 DEF BaseInv, TypeOK, HubTypeOK, StoreTypeOK
  <2>3. QED
    BY <2>1, <2>2, HubAssumption
<1>2. IsFiniteSet(M \X T) /\ Cardinality(M \X T) = MaxMsgs * (MaxRetries + 1)
  <2>0. 1 \in Int /\ 0 \in Int /\ MaxMsgs \in Int /\ MaxRetries \in Int
    BY <1>1
  <2>1. /\ IsFiniteSet(M)
        /\ Cardinality(M) = IF 1 > MaxMsgs THEN 0 ELSE MaxMsgs - 1 + 1
    BY <2>0, FS_Interval
  <2>2. /\ IsFiniteSet(T)
        /\ Cardinality(T) = IF 0 > MaxRetries THEN 0 ELSE MaxRetries - 0 + 1
    BY <2>0, FS_Interval
  <2>3. Cardinality(M) = MaxMsgs /\ Cardinality(T) = MaxRetries + 1
    BY <1>1, <2>1, <2>2
  <2> HIDE DEF M, T
  <2>4. IsFiniteSet(M \X T) /\ Cardinality(M \X T) = Cardinality(M) * Cardinality(T)
    BY <2>1, <2>2, FS_Product
  <2>5. QED
    BY <2>3, <2>4
<1>3. IsFiniteSet(EntryIds) /\ Cardinality(EntryIds) = Len(xadds)
  <2>0. 1 \in Int /\ Len(xadds) \in Int
    BY <1>1
  <2>1. /\ IsFiniteSet(EntryIds)
        /\ Cardinality(EntryIds) = IF 1 > Len(xadds) THEN 0 ELSE Len(xadds) - 1 + 1
    BY <2>0, FS_Interval DEF EntryIds
  <2>2. QED
    BY <1>1, <2>1
<1>4. f \in [EntryIds -> M \X T]
  <2>1. ASSUME NEW n \in EntryIds PROVE <<origin[n].msg, origin[n].try>> \in M \X T
    <3>1. origin[n] \in Attempt /\ origin[n].msg \in MsgIds
      BY <1>1, <2>1, OriginType
    <3>2. origin[n].try \in T
      BY <3>1 DEF Attempt
    <3>3. origin[n].msg \in M
      BY <1>1, <3>1 DEF MsgIds
    <3>4. QED
      BY <3>2, <3>3
  <2>2. QED
    BY <2>1
<1>5. ASSUME NEW n \in EntryIds, NEW k \in EntryIds, f[n] = f[k] PROVE n = k
  <2>1. origin[n].msg = origin[k].msg /\ origin[n].try = origin[k].try
    BY <1>5
  <2>2. origin[n] \in Attempt /\ origin[k] \in Attempt
    BY <1>1, OriginType
  <2>3. origin[n] = origin[k]
    BY <2>1, <2>2 DEF Attempt
  <2>4. QED
    BY <1>1, <2>3 DEF AttemptInv
<1>6. f \in Injection(EntryIds, M \X T)
  BY <1>4, <1>5 DEF Injection, IsInjective
<1> HIDE DEF f, M, T
<1>7. Cardinality(EntryIds) <= Cardinality(M \X T)
  BY <1>2, <1>6, FS_Injection DEF ExistsInjection
<1>8. QED
  BY <1>2, <1>3, <1>7

LEMMA AddsBoundedNext == HubPart' => (Len(xadds) <= MaxMsgs * (MaxRetries + 1))'
BY AddsBounded, PTL

LEMMA StepLength ==
  ASSUME HubPart, [Next]_vars
  PROVE  Len(msgs') <= MaxMsgs
<1>t. TypeOK /\ PumpInv /\ MaxMsgs \in Nat /\ Len(msgs) <= MaxMsgs
  BY HubAssumption DEF HubPart, BaseInv
<1>1. ASSUME NEW c \in Clients, NEW f \in Frames, Read(c, f) PROVE Len(msgs') <= MaxMsgs
  <2>1. Len(msgs') = Len(msgs) + 1 /\ Len(msgs) \in Nat
    BY <1>t, <1>1, ReadMessage
  <2>2. Len(msgs) < MaxMsgs
    BY <1>1 DEF Read
  <2>3. QED
    BY <1>t, <2>1, <2>2
<1>2. CASE UNCHANGED msgs
  BY <1>t, <1>2
<1>3. ASSUME NEW c \in Clients, Enqueue(c) PROVE UNCHANGED msgs
  BY <1>3 DEF Enqueue
<1>4. ASSUME NEW w \in Workers, StreamStep(w) PROVE UNCHANGED msgs
  BY <1>4 DEF StreamStep, StreamTake, StreamAppend, StreamRetry, StreamFails
<1>5. RunBroadcast => UNCHANGED msgs
  BY DEF RunBroadcast
<1>6. QED
  BY <1>1, <1>2, <1>3, <1>4, <1>5, StepIn

LEMMA InitHubPart == Init => HubPart
<1> SUFFICES ASSUME Init PROVE HubPart
  OBVIOUS
<1>1. Len(msgs) <= MaxMsgs
  BY HubAssumption DEF Init, HubInit
<1>2. QED
  BY <1>1, InitBase, InitAttempt DEF HubPart

LEMMA StepHubPart == HubPart /\ [Next]_vars => HubPart'
BY StepBase, StepPlaces, StepAttempt, StepLength DEF HubPart

\* A step of the snapshotter, or of the document service.
LEMMA SnapLeavesHub ==
  ASSUME HubPart, UNCHANGED <<hubVars, xadds>>, StoreTypeOK'
  PROVE  HubPart'
<1>1. MsgIds' = MsgIds /\ EntryIds' = EntryIds
  BY DEF MsgIds, EntryIds
<1>2. HubTypeOK'
  BY <1>1, TypesKept, TypesTogether, TypesTogetherNext DEF HubPart, BaseInv, TypeOK
<1>3. PumpInv'
  BY DEF HubPart, BaseInv, PumpInv, Registered
<1>4. RoomInv'
  BY DEF HubPart, BaseInv, RoomInv, Joined, Registered, Done
<1>5. MessageInv'
  BY <1>1 DEF HubPart, BaseInv, MessageInv, Registered
<1>6. AddressInv'
  BY <1>1 DEF HubPart, BaseInv, AddressInv, OnItsWay, Registered
<1>7. PlaceInv'
  BY <1>1 DEF HubPart, PlaceInv, Held, Busy
<1>8. AttemptInv'
  <2>1. \A m \in MsgIds : (Waiting(m)' <=> Waiting(m)) /\ (Held(m)' <=> Held(m))
    BY DEF Waiting, Held, Busy
  <2>2. \A w \in Workers : tries[w] \in Nat /\ tries'[w] <= TryBound
    BY HubAssumption DEF HubPart, AttemptInv, BaseInv, TypeOK, HubTypeOK
  <2>3. QED
    BY <1>1, <2>1, <2>2, AttemptKept DEF HubPart
<1>9. QED
  BY <1>2, <1>3, <1>4, <1>5, <1>6, <1>7, <1>8 DEF HubPart, BaseInv, TypeOK

-----------------------------------------------------------------------------
(***************************************************************************)
(* The hub is an environment of the snapshotter.  Its clock stands, and it *)
(* appends no more entries than there may be messages.                     *)
(***************************************************************************)

SafeTogether == HubPart /\ SnapP!LogInv /\ now = 0

LEMMA StoresTyped == SnapP!LogInv => StoreTypeOK /\ SnapP!SafeInv /\ SnapP!WrittenOwn
BY SameStores DEF SnapP!LogInv, SnapP!SafeInv, SnapP!TypeOK

LEMMA StoresTypedNext == SnapP!LogInv' => StoreTypeOK'
<1>1. SnapP!StoreTypeOK' <=> StoreTypeOK'
  BY DEF SnapP!EntryIds, EntryIds, SnapP!StoreTypeOK, StoreTypeOK, SnapP!XAddRecord,
         XAddRecord, SnapP!Payloads, Payloads
<1>2. QED
  BY <1>1 DEF SnapP!LogInv, SnapP!SafeInv, SnapP!TypeOK

\* A step of the hub is an append or nothing to the snapshotter.
LEMMA HubStepOfSnap ==
  ASSUME SafeTogether, HubStep
  PROVE  /\ [Snap!Next]_(Snap!vars) /\ HubPart' /\ now' = 0 /\ docs' = docs
         /\ EntryIds \subseteq EntryIds' /\ \A n \in EntryIds : xadds'[n] = xadds[n]
         /\ \A d \in Docs : stream[d] \subseteq stream'[d]
<1>1. [Next]_vars
  BY DEF HubStep, Next
<1>2. HubPart /\ HubPart' /\ BaseInv /\ StoreTypeOK
  BY <1>1, StepHubPart DEF SafeTogether, HubPart, BaseInv, TypeOK
<1>3. CASE UNCHANGED storeVars
  <2>1. UNCHANGED Snap!vars
    BY <1>3 DEF HubStep, Snap!vars, Snap!storeVars, Snap!snapVars
  <2>2. QED
    BY <1>2, <1>3, <2>1 DEF SafeTogether, EntryIds
<1>4. ASSUME NEW d \in Docs, NEW p \in Payloads, XAdd(d, p)
      PROVE  /\ [Snap!Next]_(Snap!vars) /\ now' = 0 /\ docs' = docs
             /\ EntryIds \subseteq EntryIds' /\ \A n \in EntryIds : xadds'[n] = xadds[n]
             /\ \A c \in Docs : stream[c] \subseteq stream'[c]
  <2>1. /\ Len(xadds) \in Nat /\ Len(xadds') = Len(xadds) + 1
        /\ EntryIds' = EntryIds \cup {Len(xadds) + 1} /\ \A n \in EntryIds : xadds'[n] = xadds[n]
    BY <1>2, <1>4, XAddType
  <2>2. Len(xadds) < MaxMsgs * (MaxRetries + 1)
    <3>1. Len(xadds') <= MaxMsgs * (MaxRetries + 1)
      BY <1>2, AddsBoundedNext
    <3>2. MaxMsgs * (MaxRetries + 1) \in Nat
      BY HubAssumption
    <3>3. QED
      BY <2>1, <3>1, <3>2
  <2>3. Snap!Append1(d, p)
    BY <1>4, <2>2 DEF SafeTogether, HubStep, Snap!Append1, Snap!XAdd, XAdd, Snap!snapVars
  <2>4. Snap!Next
    BY <2>3 DEF Snap!Next, Snap!Environment, Snap!Payloads, Payloads
  <2>5. \A c \in Docs : stream[c] \subseteq stream'[c]
    BY <1>2, <1>4 DEF XAdd, StoreTypeOK
  <2>6. now' = 0 /\ docs' = docs
    BY <1>4 DEF XAdd, SafeTogether
  <2>7. QED
    BY <2>1, <2>4, <2>5, <2>6
<1>5. QED
  BY <1>1, <1>2, <1>3, <1>4, StepStores

\* A step of the snapshotter leaves the clock and the list of XADDs alone,
\* and no document comes back.
LEMMA SnapStepOfSnap ==
  ASSUME SafeTogether, SnapStep
  PROVE  Snap!Next /\ UNCHANGED xadds /\ now' = 0 /\ docs' \subseteq docs
<1>1. Snap!Next
  BY DEF SnapStep, Snap!Next, Snap!Environment
<1>0. now = 0
  BY DEF SafeTogether
<1>2. CASE Snap!Check
  <2>1. UNCHANGED <<xadds, docs, now>>
    <3>1. CASE Snap!StartScan \/ Snap!ScanDone \/ Snap!ReadOldest \/ Snap!ReadLatest
      BY <3>1 DEF Snap!StartScan, Snap!ScanDone, Snap!ReadOldest, Snap!ReadLatest, Snap!storeVars
    <3>2. CASE \E d \in Docs : Snap!NextKey(d)
      BY <3>2 DEF Snap!NextKey, Snap!storeVars
    <3>3. CASE Snap!ReadRange
      BY <3>3 DEF Snap!ReadRange, Snap!storeVars
    <3>4. CASE Snap!Push
      BY <3>4 DEF Snap!Push, Snap!PushEach
    <3>5. CASE Snap!Delete
      BY <3>5 DEF Snap!Delete, Snap!XDel
    <3>6. QED
      BY <1>2, <3>1, <3>2, <3>3, <3>4, <3>5 DEF Snap!Check
  <2>2. QED
    BY <1>0, <1>1, <2>1
<1>3. CASE Snap!Failure
  <2>1. UNCHANGED <<xadds, docs, now>>
    <3>1. CASE Snap!ScanFails \/ Snap!ReadFails \/ Snap!DeleteFails \/ Snap!Restart
      BY <3>1 DEF Snap!ScanFails, Snap!ReadFails, Snap!DeleteFails, Snap!Restart, Snap!storeVars
    <3>2. CASE Snap!PushFails
      BY <3>2 DEF Snap!PushFails, Snap!PushEach, Snap!storeVars
    <3>3. QED
      BY <1>3, <3>1, <3>2 DEF Snap!Failure
  <2>2. QED
    BY <1>0, <1>1, <2>1
<1>4. CASE Snap!Tick
  <2>1. UNCHANGED <<xadds, docs>> /\ now' = IF now < 0 THEN now + 1 ELSE now
    BY <1>4 DEF Snap!Tick
  <2>2. now' = 0
    BY <1>0, <2>1
  <2>3. QED
    BY <1>1, <2>1, <2>2
<1>5. ASSUME NEW d \in Docs, Snap!RemoveDoc(d)
      PROVE  UNCHANGED xadds /\ now' = 0 /\ docs' \subseteq docs
  BY <1>0, <1>5 DEF Snap!RemoveDoc, Snap!DeleteOne
<1>6. QED
  BY <1>1, <1>2, <1>3, <1>4, <1>5 DEF SnapStep

LEMMA InitTogether == CollabInit => SafeTogether /\ Snap!Init
<1> SUFFICES ASSUME CollabInit PROVE SafeTogether /\ Snap!Init
  OBVIOUS
<1>1. Snap!Init
  BY DEF CollabInit, Init, StoreInit, Snap!Init, Snap!StoreInit
<1>2. SnapP!LogInv
  BY <1>1, SameSnapshotter, SnapAssumptions, SnapP!InitLog
<1>3. now = 0
  BY DEF CollabInit, Init, StoreInit
<1>4. QED
  BY <1>1, <1>2, <1>3, InitHubPart DEF CollabInit, SafeTogether

LEMMA StepTogether ==
  SafeTogether /\ [CollabNext]_collabVars => SafeTogether' /\ [Snap!Next]_(Snap!vars)
<1> SUFFICES ASSUME SafeTogether, [CollabNext]_collabVars
             PROVE  SafeTogether' /\ [Snap!Next]_(Snap!vars)
  OBVIOUS
<1>1. ASSUME [Snap!Next]_(Snap!vars) PROVE SnapP!LogInv'
  <2>1. [SnapP!Next]_(SnapP!vars)
    BY <1>1, SameSnapshotter
  <2>2. QED
    BY <2>1, SnapAssumptions, SnapP!StepLog DEF SafeTogether
<1>2. CASE HubStep
  BY <1>1, <1>2, HubStepOfSnap DEF SafeTogether
<1>3. CASE SnapStep
  <2>1. Snap!Next /\ UNCHANGED xadds /\ now' = 0
    BY <1>3, SnapStepOfSnap
  <2>2. SnapP!LogInv' /\ StoreTypeOK'
    BY <1>1, <2>1, StoresTypedNext
  <2>3. HubPart'
    BY <1>3, <2>1, <2>2, SnapLeavesHub DEF SafeTogether, SnapStep
  <2>4. QED
    BY <2>1, <2>2, <2>3 DEF SafeTogether
<1>4. CASE UNCHANGED collabVars
  <2>1. UNCHANGED Snap!vars
    BY <1>4 DEF collabVars, vars, Snap!vars, Snap!storeVars, Snap!snapVars
  <2>2. [Next]_vars /\ now' = now
    BY <1>4 DEF collabVars, vars
  <2>2b. HubPart' /\ now' = 0
    BY <2>2, StepHubPart DEF SafeTogether
  <2>3. QED
    BY <1>1, <2>1, <2>2b DEF SafeTogether
<1>5. QED
  BY <1>2, <1>3, <1>4 DEF CollabNext

\* The hub is an environment the snapshotter was proved correct in: a step of
\* the collab service is a step of the snapshotter's specification.
THEOREM SnapshotterImplemented == CollabSpec => ImplementsSnapshotter
<1>1. CollabSpec => []SafeTogether
  BY InitTogether, StepTogether, PTL DEF CollabSpec
<1>2. QED
  BY <1>1, InitTogether, StepTogether, PTL DEF CollabSpec, ImplementsSnapshotter, Snap!Spec

\* With the hub appending as it does and the snapshotter merging at any time,
\* each update appended for a live document is in its stream or written.
THEOREM NothingLostTogether == CollabSpec => []Snap!NoLostUpdate
<1>1. SafeTogether => Snap!NoLostUpdate
  <2>1. SnapP!NoLostUpdate <=> Snap!NoLostUpdate
    BY DEF SnapP!NoLostUpdate, Snap!NoLostUpdate, SnapP!EntryIds, Snap!EntryIds,
           SnapP!IsBlank, Snap!IsBlank, SnapP!Live, Snap!Live, SnapP!Accepted,
           Snap!Accepted, SnapP!Written, Snap!Written
  <2>2. QED
    BY <2>1, StoresTyped DEF SafeTogether, SnapP!SafeInv
<1>2. QED
  BY <1>1, InitTogether, StepTogether, PTL DEF CollabSpec

-----------------------------------------------------------------------------
(***************************************************************************)
(* What a client that joins is sent.                                       *)
(***************************************************************************)

\* Between the two reads, what the client is due is in what it has read or
\* still in the stream; after them it is in what it has read.  Both need the
\* stream untrimmed in between.
DueOf(c) ==
  /\ ~Registered(c) => due[c] = {}
  /\ \A n \in due[c] : n \in EntryIds /\ xadds[n].doc = doc[c] /\ ~IsBlank(n)
  /\ c \notin torn /\ Snap!Live(doc[c]) =>
       /\ sync[c] = "redis" => due[c] \subseteq buf[c] \cup stream[doc[c]]
       /\ Synced(c) => due[c] \subseteq buf[c]

DueInv == due \in [Clients -> SUBSET EntryIds] /\ \A c \in Clients : DueOf(c)

RecoverInv == SafeTogether /\ DueInv

\* How a step of the hub moves the sync of a client.
SyncKept(c) ==
  /\ buf'[c] = buf[c]
  /\ \/ sync'[c] = sync[c]
     \/ sync[c] = "none" /\ sync'[c] = "mongo" /\ reader[c] = "registering"
     \/ sync[c] = "offer" /\ sync'[c] = "over"

LEMMA StepSync ==
  ASSUME BaseInv, HubNext, NEW c \in Clients
  PROVE  SyncMongo(c) \/ SyncRedis(c) \/ SyncKept(c)
<1>t. /\ sync \in [Clients -> {"none", "mongo", "redis", "offer", "over"}]
      /\ buf \in [Clients -> SUBSET EntryIds] /\ PumpInv
  BY DEF BaseInv, TypeOK, HubTypeOK
<1> USE DEF SyncKept
<1>1. ASSUME NEW b \in Clients,
             \/ HandleWebSocket(b) \/ (\E f \in Frames : Read(b, f)) \/ Break(b)
             \/ Enqueue(b) \/ ReadFails(b) \/ Leave(b) \/ CloseConn(b)
             \/ WriterStep(b) \/ \E m \in MsgIds : Delivery(b, m)
      PROVE  SyncKept(c)
  BY <1>1 DEF HandleWebSocket, Read, Break, Enqueue, ReadFails, Leave, CloseConn, WriterStep,
       WriteDone, WriteNext, PingFails, Delivery, DeliverSend, DeliverDone, DeliverFull,
       Evict, EvictDone
<1>2. ASSUME NEW b \in Clients, Register(b) PROVE SyncKept(c)
  BY <1>t, <1>2 DEF Register, PumpInv, Registered
<1>3. ASSUME NEW b \in Clients, SyncMongo(b) \/ SyncRedis(b)
      PROVE  SyncMongo(c) \/ SyncRedis(c) \/ SyncKept(c)
  BY <1>t, <1>3 DEF SyncMongo, SyncRedis
<1>4. ASSUME NEW b \in Clients, SyncOffer(b) PROVE SyncKept(c)
  BY <1>t, <1>4 DEF SyncOffer
<1>5. ASSUME NEW w \in Workers, StreamStep(w) PROVE SyncKept(c)
  BY <1>5 DEF StreamStep, StreamTake, StreamAppend, StreamRetry, StreamFails
<1>6. CASE RunBroadcast
  BY <1>6 DEF RunBroadcast
<1>7. QED
  BY <1>1, <1>2, <1>3, <1>4, <1>5, <1>6 DEF HubNext, ReaderStep, SyncStep

\* Its connection keeps its document while a client is registered.
LEMMA RegisteringDoc ==
  ASSUME BaseInv, HubNext, NEW c \in Clients, reader[c] = "registering"
  PROVE  doc'[c] = doc[c]
<1>t. doc \in [Clients -> Docs \cup {NoDoc}]
  BY DEF BaseInv, TypeOK, HubTypeOK
<1>1. ASSUME NEW b \in Clients, HandleWebSocket(b) PROVE doc'[c] = doc[c]
  BY <1>t, <1>1 DEF HandleWebSocket
<1>2. ASSUME NEW b \in Clients,
             \/ (\E f \in Frames : Read(b, f)) \/ Break(b) \/ ReaderStep(b)
             \/ WriterStep(b) \/ SyncStep(b) \/ \E m \in MsgIds : Delivery(b, m)
      PROVE  UNCHANGED doc
  BY <1>2 DEF Read, Break, ReaderStep, Register, Enqueue, ReadFails, Leave, CloseConn,
       WriterStep, WriteDone, WriteNext, PingFails, SyncStep, SyncMongo, SyncRedis, SyncOffer,
       Delivery, DeliverSend, DeliverDone, DeliverFull, Evict, EvictDone
<1>3. ASSUME NEW w \in Workers, StreamStep(w) PROVE UNCHANGED doc
  BY <1>3 DEF StreamStep, StreamTake, StreamAppend, StreamRetry, StreamFails
<1>4. CASE RunBroadcast
  BY <1>4 DEF RunBroadcast
<1>5. QED
  BY <1>1, <1>2, <1>3, <1>4 DEF HubNext

\* What the stores hold for a document is of the document, and is not blank.
LEMMA AcceptedOwn ==
  ASSUME SafeTogether, NEW d \in Docs
  PROVE  \A n \in Snap!Accepted(d) : n \in EntryIds /\ xadds[n].doc = d /\ ~IsBlank(n)
<1>1. StoreTypeOK /\ SnapP!WrittenOwn
  BY StoresTyped DEF SafeTogether
<1>2. \A n \in Snap!Written(d) : n \in EntryIds /\ xadds[n].doc = d
  BY <1>1, SameStores DEF SnapP!WrittenOwn
<1>3. \A n \in stream[d] : n \in EntryIds /\ xadds[n].doc = d
  BY <1>1 DEF StoreTypeOK
<1>4. QED
  BY <1>2, <1>3 DEF Snap!Accepted, Snap!IsBlank, IsBlank

\* An update for a live document is in one of the stores sendSync reads.
LEMMA DueIsStored ==
  ASSUME SafeTogether, DueInv, NEW c \in Clients, doc[c] \in Docs, Snap!Live(doc[c])
  PROVE  due[c] \subseteq (IF doc[c] \in docs THEN Written(doc[c]) ELSE {}) \cup stream[doc[c]]
<1>1. StoreTypeOK /\ SnapP!NoLostUpdate
  BY StoresTyped DEF SafeTogether, SnapP!SafeInv
<1>2. ASSUME NEW n \in due[c] PROVE n \in stream[doc[c]] \cup Written(doc[c])
  <2>1. n \in EntryIds /\ xadds[n].doc = doc[c] /\ ~IsBlank(n)
    BY DEF DueInv, DueOf
  <2>2. n \in Snap!Accepted(doc[c])
    BY <1>1, <2>1, SameStores DEF SnapP!NoLostUpdate, SnapP!IsBlank, IsBlank
  <2>3. QED
    BY <2>2, SameStores DEF Snap!Accepted
<1>3. doc[c] \notin docs => Written(doc[c]) = {}
  BY <1>1 DEF StoreTypeOK, Written
<1>4. QED
  BY <1>2, <1>3

LEMMA HubStepDue ==
  ASSUME ~Faults, RecoverInv, HubStep
  PROVE  DueInv'
<1>b. SafeTogether /\ DueInv /\ BaseInv /\ PumpInv /\ HubNext /\ torn' = torn
  BY DEF RecoverInv, SafeTogether, HubPart, BaseInv, HubStep
<1>t. /\ due \in [Clients -> SUBSET EntryIds]
      /\ sync \in [Clients -> {"none", "mongo", "redis", "offer", "over"}]
      /\ buf \in [Clients -> SUBSET EntryIds]
      /\ Keeping
  BY <1>b, StepKeeps DEF DueInv, BaseInv, TypeOK, HubTypeOK, Next
<1>s. /\ EntryIds \subseteq EntryIds' /\ docs' = docs
      /\ \A n \in EntryIds : xadds'[n] = xadds[n]
      /\ \A d \in Docs : stream[d] \subseteq stream'[d]
  BY <1>b, HubStepOfSnap
<1>1. ASSUME NEW c \in Clients PROVE due'[c] \in SUBSET EntryIds' /\ DueOf(c)'
  <2>1. CASE ~Registered(c) /\ Registered(c)'
    <3>1. SyncKept(c)
      BY <1>b, <2>1, StepSync DEF SyncMongo, SyncRedis, Registered
    <3>2. reader[c] = "registering" /\ sync'[c] = "mongo"
      BY <2>1, <3>1 DEF SyncKept, Registered
    <3>3. doc[c] \in Docs /\ doc'[c] = doc[c]
      <4>1. doc[c] \in Docs
        BY <1>b, <3>2 DEF PumpInv
      <4>2. doc'[c] = doc[c]
        BY <1>b, <3>2, RegisteringDoc
      <4>3. QED
        BY <4>1, <4>2
    <3>4. due'[c] = Snap!Accepted(doc[c])
      BY <2>1 DEF HubStep
    <3>5. \A n \in due'[c] : n \in EntryIds /\ xadds[n].doc = doc[c] /\ ~IsBlank(n)
      BY <1>b, <3>3, <3>4, AcceptedOwn
    <3>6. QED
      BY <1>s, <2>1, <3>2, <3>3, <3>5 DEF DueOf, IsBlank, Synced
  <2>2. CASE ~(~Registered(c) /\ Registered(c)')
    <3>1. due'[c] = due[c] /\ DueOf(c) /\ due[c] \subseteq EntryIds
      BY <1>b, <1>t, <2>2 DEF HubStep, DueInv
    <3>2. CASE ~Registered(c)
      BY <2>2, <3>1, <3>2 DEF DueOf, Synced, Registered
    <3>3. CASE Registered(c)
      <4>1. Registered(c)' /\ doc'[c] = doc[c] /\ doc[c] \in Docs
        BY <1>b, <1>t, <3>3 DEF Keeping, PumpInv
      <4>2. \A n \in due'[c] : n \in EntryIds' /\ xadds'[n].doc = doc'[c] /\ ~IsBlank(n)'
        BY <1>s, <3>1, <4>1 DEF DueOf, IsBlank
      <4>3. ASSUME c \notin torn, Snap!Live(doc[c])
            PROVE  /\ sync'[c] = "redis" => due[c] \subseteq buf'[c] \cup stream'[doc[c]]
                   /\ sync'[c] \in {"offer", "over"} => due[c] \subseteq buf'[c]
        <5>0. /\ sync[c] = "redis" => due[c] \subseteq buf[c] \cup stream[doc[c]]
              /\ sync[c] \in {"offer", "over"} => due[c] \subseteq buf[c]
              /\ stream[doc[c]] \subseteq stream'[doc[c]]
          BY <1>s, <3>1, <4>1, <4>3 DEF DueOf, Synced
        <5>1. CASE SyncMongo(c)
          <6>1. /\ buf'[c] = IF doc[c] \in docs THEN Written(doc[c]) ELSE {}
                /\ sync'[c] = "redis"
            BY <1>t, <5>1 DEF SyncMongo
          <6>2. QED
            BY <1>b, <4>1, <4>3, <5>0, <6>1, DueIsStored
        <5>2. CASE SyncRedis(c)
          <6>1. /\ buf'[c] = buf[c] \cup stream[doc[c]]
                /\ sync[c] = "redis" /\ sync'[c] \in {"offer", "over"}
            BY <1>t, <5>2 DEF SyncRedis
          <6>2. QED
            BY <5>0, <6>1
        <5>3. CASE SyncKept(c)
          BY <3>3, <5>0, <5>3 DEF SyncKept, Registered
        <5>4. QED
          BY <1>b, <5>1, <5>2, <5>3, StepSync
      <4>4. Snap!Live(doc[c])' => Snap!Live(doc[c])
        BY <1>s, <4>1 DEF Snap!Live
      <4>5. QED
        BY <1>b, <1>s, <3>1, <4>1, <4>2, <4>3, <4>4 DEF DueOf, Synced
    <3>4. QED
      BY <3>2, <3>3
  <2>3. QED
    BY <2>1, <2>2
<1>2. due' \in [Clients -> SUBSET EntryIds']
  <2>1. due' = [c \in Clients |-> IF ~Registered(c) /\ Registered(c)'
                                   THEN Snap!Accepted(doc[c]) ELSE due[c]]
    BY DEF HubStep
  <2>2. \A c \in Clients : due'[c] \in SUBSET EntryIds'
    BY <1>1
  <2>3. QED
    BY <2>1, <2>2
<1>3. QED
  BY <1>1, <1>2 DEF DueInv

\* A merge takes nothing a client has read, and what it takes from a stream a
\* client has yet to read makes the client torn.
LEMMA SnapStepDue ==
  ASSUME RecoverInv, SnapStep
  PROVE  DueInv'
<1>b. SafeTogether /\ DueInv /\ UNCHANGED <<xadds, due, doc, sync, buf>> /\ docs' \subseteq docs
  BY SnapStepOfSnap DEF RecoverInv, SnapStep
<1>1. EntryIds' = EntryIds
  BY <1>b DEF EntryIds
<1>2. ASSUME NEW c \in Clients PROVE DueOf(c)'
  <2>1. DueOf(c)
    BY <1>b DEF DueInv
  <2>2. c \notin torn' => c \notin torn /\ (sync[c] = "redis" => stream'[doc[c]] = stream[doc[c]])
    BY DEF SnapStep
  <2>3. Snap!Live(doc[c])' => Snap!Live(doc[c])
    BY <1>b DEF Snap!Live
  <2>4. QED
    BY <1>b, <1>1, <2>1, <2>2, <2>3 DEF DueOf, Registered, Synced, IsBlank
<1>3. QED
  BY <1>b, <1>1, <1>2 DEF DueInv

LEMMA StepRecover ==
  ASSUME ~Faults
  PROVE  RecoverInv /\ [CollabNext]_collabVars => RecoverInv'
<1> SUFFICES ASSUME RecoverInv, [CollabNext]_collabVars PROVE DueInv'
  BY StepTogether DEF RecoverInv
<1>1. CASE HubStep
  BY <1>1, HubStepDue
<1>2. CASE SnapStep
  BY <1>2, SnapStepDue
<1>3. CASE UNCHANGED collabVars
  <2>1. UNCHANGED <<xadds, stream, docs, due, torn, doc, sync, buf>> /\ EntryIds' = EntryIds
    BY <1>3 DEF collabVars, vars, EntryIds
  <2>2. ASSUME NEW c \in Clients PROVE DueOf(c)'
    BY <2>1 DEF RecoverInv, DueInv, DueOf, Registered, Synced, IsBlank, Snap!Live
  <2>3. QED
    BY <2>1, <2>2 DEF RecoverInv, DueInv
<1>4. QED
  BY <1>1, <1>2, <1>3 DEF CollabNext

LEMMA InitRecover == CollabInit => RecoverInv
<1> SUFFICES ASSUME CollabInit PROVE DueInv
  BY InitTogether DEF RecoverInv
<1>1. \A c \in Clients : due[c] = {} /\ sync[c] = "none"
  BY DEF CollabInit, Init, HubInit
<1>2. due \in [Clients -> SUBSET EntryIds]
  BY DEF CollabInit
<1>3. QED
  BY <1>1, <1>2 DEF DueInv, DueOf, Synced

\* While the reads of sendSync succeed, a client that joins is sent every
\* update the stores held when it joined, whatever the hub and the snapshotter
\* do meanwhile, but for a merge that falls between the two reads.
THEOREM JoinerRecovers ==
  ASSUME ~Faults
  PROVE  CollabSpec => []RecoveredUnlessTorn
<1>1. CollabInit => RecoverInv
  BY InitRecover
<1>2. RecoverInv /\ [CollabNext]_collabVars => RecoverInv'
  BY StepRecover
<1>3. RecoverInv => RecoveredUnlessTorn
  BY DEF RecoverInv, DueInv, DueOf, RecoveredUnlessTorn
<1>4. QED
  BY <1>1, <1>2, <1>3, PTL DEF CollabSpec
=============================================================================
