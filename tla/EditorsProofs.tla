---------------------------- MODULE EditorsProofs ----------------------------
(***************************************************************************)
(* What TLAPS proves of the editors, for any number of pages, edits,       *)
(* faults and places in Send.                                              *)
(***************************************************************************)
EXTENDS Editors, TLAPS

USE DEF pageVars, clientVars, storeVars, notes

-----------------------------------------------------------------------------
(***************************************************************************)
(* Queues of frames.                                                       *)
(***************************************************************************)

\* An edit is in one of the frames.
Carried(s, n) == \E i \in 1 .. Len(s) : n \in s[i]

LEMMA CarriedAppend ==
  ASSUME NEW F, NEW s \in Seq(F), NEW f \in F
  PROVE  /\ Append(s, f) \in Seq(F) /\ Len(Append(s, f)) = Len(s) + 1
         /\ \A n : Carried(Append(s, f), n) <=> Carried(s, n) \/ n \in f
<1> DEFINE t == Append(s, f)
<1>1. /\ t \in Seq(F) /\ Len(t) = Len(s) + 1 /\ Len(s) \in Nat
      /\ \A i \in 1 .. Len(s) : t[i] = s[i]
      /\ t[Len(s) + 1] = f
  OBVIOUS
<1>2. 1 .. Len(t) = (1 .. Len(s)) \cup {Len(s) + 1}
  BY <1>1
<1> HIDE DEF t
<1>3. \A n : Carried(t, n) <=> Carried(s, n) \/ n \in f
  BY <1>1, <1>2 DEF Carried
<1>4. QED
  BY <1>1, <1>3 DEF t

LEMMA CarriedTail ==
  ASSUME NEW F, NEW s \in Seq(F), s # <<>>
  PROVE  /\ Head(s) \in F /\ Tail(s) \in Seq(F) /\ Len(Tail(s)) = Len(s) - 1
         /\ Len(Tail(s)) \in Nat
         /\ \A n : Carried(s, n) <=> n \in Head(s) \/ Carried(Tail(s), n)
<1> DEFINE t == Tail(s)
<1>1. /\ t \in Seq(F) /\ Len(t) = Len(s) - 1 /\ Len(s) \in Nat \ {0}
      /\ \A i \in 1 .. Len(t) : t[i] = s[i + 1]
      /\ Head(s) = s[1] /\ s[1] \in F
  OBVIOUS
<1> HIDE DEF t
<1>2. ASSUME NEW n, Carried(s, n) PROVE n \in Head(s) \/ Carried(t, n)
  <2>1. PICK i \in 1 .. Len(s) : n \in s[i]
    BY <1>2 DEF Carried
  <2>2. CASE i = 1
    BY <1>1, <2>1, <2>2
  <2>3. CASE i # 1
    <3>1. i - 1 \in 1 .. Len(t) /\ t[i - 1] = s[i]
      BY <1>1, <2>3
    <3>2. QED
      BY <2>1, <3>1 DEF Carried
  <2>4. QED
    BY <2>2, <2>3
<1>3. ASSUME NEW n, n \in Head(s) \/ Carried(t, n) PROVE Carried(s, n)
  <2>1. CASE n \in Head(s)
    BY <1>1, <2>1 DEF Carried
  <2>2. CASE Carried(t, n)
    <3>1. PICK i \in 1 .. Len(t) : n \in t[i]
      BY <2>2 DEF Carried
    <3>2. i + 1 \in 1 .. Len(s) /\ t[i] = s[i + 1]
      BY <1>1, <3>1
    <3>3. QED
      BY <3>1, <3>2 DEF Carried
  <2>3. QED
    BY <1>3, <2>1, <2>2
<1>4. QED
  BY <1>1, <1>2, <1>3 DEF t

LEMMA CarriedEmpty ==
  /\ \A F : <<>> \in Seq(F)
  /\ Len(<<>>) = 0
  /\ \A n : ~Carried(<<>>, n)
BY DEF Carried

LEMMA CarriedOne ==
  ASSUME NEW F, NEW f \in F
  PROVE  <<f>> \in Seq(F) /\ \A n : Carried(<<f>>, n) <=> n \in f
BY DEF Carried

-----------------------------------------------------------------------------
(***************************************************************************)
(* Types.                                                                  *)
(***************************************************************************)

LEMMA InitType == Init => TypeOK
<1> SUFFICES ASSUME Init PROVE TypeOK
  OBVIOUS
<1>1. \A p \in Pages : Len(send[p]) = 0
  BY CarriedEmpty DEF Init
<1>2. QED
  BY <1>1, CarriedEmpty, EditorsAssumption DEF Init, TypeOK, InRoom, Stored, Frames, Edits

\* The sockets of pages in P end.
LEMMA DisconnectType ==
  ASSUME TypeOK, NEW P \in SUBSET Pages, Disconnect(P)
  PROVE  /\ page' \in [Pages -> {"closed", "offline", "open"}]
         /\ out' \in [Pages -> Seq(Frames)] /\ send' \in [Pages -> Seq(Frames)]
         /\ sync' \in [Pages -> {"none", "mongo", "redis", "send"}]
         /\ found' \in [Pages -> SUBSET Edits] /\ ahead' \in [Pages -> SUBSET Edits]
         /\ InRoom' = InRoom \ P
         /\ \A p \in Pages \ InRoom' : out'[p] = <<>> /\ send'[p] = <<>> /\ sync'[p] = "none"
         /\ \A p \in Pages : Len(send'[p]) <= SendCap /\ (sync'[p] = "none" => found'[p] = {})
<1>1. /\ page' \in [Pages -> {"closed", "offline", "open"}]
      /\ sync' \in [Pages -> {"none", "mongo", "redis", "send"}]
      /\ found' \in [Pages -> SUBSET Edits] /\ ahead' \in [Pages -> SUBSET Edits]
  BY DEF TypeOK, Disconnect
<1>2. out' \in [Pages -> Seq(Frames)] /\ send' \in [Pages -> Seq(Frames)]
  BY CarriedEmpty DEF TypeOK, Disconnect
<1>3. InRoom' = InRoom \ P
  BY DEF TypeOK, Disconnect, InRoom
<1>4. \A p \in Pages \ InRoom' : out'[p] = <<>> /\ send'[p] = <<>> /\ sync'[p] = "none"
  BY <1>3 DEF TypeOK, Disconnect
<1>5. \A p \in Pages : Len(send'[p]) <= SendCap /\ (sync'[p] = "none" => found'[p] = {})
  BY CarriedEmpty, EditorsAssumption DEF TypeOK, Disconnect
<1>6. QED
  BY <1>1, <1>2, <1>3, <1>4, <1>5

\* Only a page that is open has frames, in either direction, or a sync.
LEMMA OpenOnly ==
  ASSUME TypeOK, NEW p \in Pages, out[p] # <<>> \/ send[p] # <<>> \/ sync[p] # "none"
  PROVE  p \in InRoom
BY DEF TypeOK

LEMMA StepType == TypeOK /\ [Next]_vars => TypeOK'
<1> SUFFICES ASSUME TypeOK, [Next]_vars PROVE TypeOK'
  OBVIOUS
<1> USE DEF TypeOK
<1>f. ASSUME Fault PROVE faults' \in 0 .. MaxFaults
  BY <1>f, EditorsAssumption DEF Fault
<1>o. OnTheWay \subseteq Edits /\ Stored \subseteq Edits
  BY DEF OnTheWay, Frames, Stored
<1>1. CASE UNCHANGED vars
  BY <1>1 DEF vars, InRoom, Stored
<1>2. ASSUME NEW p \in Pages, Load(p) PROVE TypeOK'
  <2>1. /\ page' = [page EXCEPT ![p] = "offline"] /\ page[p] = "closed"
        /\ UNCHANGED <<ydoc, edits, out, clientVars, storeVars, faults, notes>>
    BY <1>2 DEF Load
  <2>2. InRoom' = InRoom
    BY <2>1 DEF InRoom
  <2>3. page' \in [Pages -> {"closed", "offline", "open"}]
    BY <2>1
  <2>4. UNCHANGED <<ydoc, edits, out, clientVars, storeVars, faults, notes>>
    BY <2>1
  <2>5. QED
    BY <2>2, <2>3, <2>4 DEF Stored
<1>3. ASSUME NEW p \in Pages, Type(p) PROVE TypeOK'
  <2>1. edits' \in Edits /\ edits' \in 0 .. MaxEdits /\ {edits'} \in Frames
    BY <1>3, EditorsAssumption DEF Type, Edits, Frames
  <2>2. ydoc' \in [Pages -> SUBSET Edits]
    BY <1>3, <2>1 DEF Type
  <2>3. /\ out' \in [Pages -> Seq(Frames)]
        /\ \A q \in Pages \ InRoom : out'[q] = <<>>
    BY <1>3, <2>1, CarriedAppend DEF Type, InRoom
  <2>4. QED
    BY <1>3, <2>1, <2>2, <2>3 DEF Type, InRoom, Stored
<1>4. ASSUME NEW p \in Pages, Connect(p) PROVE TypeOK'
  <2>1. /\ page' = [page EXCEPT ![p] = "open"] /\ sync' = [sync EXCEPT ![p] = "mongo"]
        /\ ahead' = [ahead EXCEPT ![p] = OnTheWay] /\ missed' \subseteq missed
        /\ out' = [out EXCEPT ![p] = IF ydoc[p] = {} THEN <<>> ELSE <<ydoc[p]>>]
        /\ UNCHANGED <<ydoc, edits, found, send, deliveries, storeVars, faults, unstored>>
    BY <1>4 DEF Connect, Join
  <2>2. InRoom' = InRoom \cup {p}
    BY <2>1 DEF InRoom
  <2>3. out' \in [Pages -> Seq(Frames)] /\ \A q \in Pages \ {p} : out'[q] = out[q]
    <3>1. ydoc[p] # {} => <<ydoc[p]>> \in Seq(Frames)
      <4>1. ydoc[p] # {} => ydoc[p] \in Frames
        BY DEF Frames
      <4>2. QED
        BY <4>1, CarriedOne
    <3>2. QED
      BY <2>1, <3>1, CarriedEmpty
  <2>4. /\ page' \in [Pages -> {"closed", "offline", "open"}]
        /\ sync' \in [Pages -> {"none", "mongo", "redis", "send"}]
        /\ ahead' \in [Pages -> SUBSET Edits] /\ missed' \subseteq Pages \X Edits
    BY <2>1, <1>o
  <2>5. /\ \A q \in Pages \ InRoom' : out'[q] = <<>> /\ send'[q] = <<>> /\ sync'[q] = "none"
        /\ \A q \in Pages : sync'[q] = "none" => found'[q] = {}
    BY <2>1, <2>2, <2>3
  <2>6. UNCHANGED <<ydoc, edits, found, send, deliveries, storeVars, faults, unstored>>
    BY <2>1
  <2>7. deliveries' \subseteq InRoom' \X Frames
    BY <2>2, <2>6
  <2>8. QED
    BY <2>3, <2>4, <2>5, <2>6, <2>7 DEF Stored
<1>5. ASSUME NEW p \in Pages, Receive(p) PROVE TypeOK'
  <2> DEFINE f == Head(out[p])
  <2>1. f \in Frames /\ Tail(out[p]) \in Seq(Frames) /\ p \in InRoom
    BY <1>5, CarriedTail, OpenOnly DEF Receive
  <2>2. f \subseteq Edits
    BY <2>1 DEF Frames
  <2>3. /\ out' \in [Pages -> Seq(Frames)] /\ \A q \in Pages \ InRoom : out'[q] = <<>>
    BY <1>5, <2>1 DEF Receive
  <2>4. deliveries' \subseteq InRoom \X Frames
    BY <1>5, <2>1 DEF Receive
  <2>5. /\ streaming' \subseteq Frames /\ faults' \in 0 .. MaxFaults
        /\ unstored' \subseteq Edits \ Stored
    BY <1>5, <1>f, <2>1, <2>2 DEF Receive, Lose
  <2>6. UNCHANGED <<page, ydoc, edits, sync, found, send, stream, mongo, ahead, missed>>
    BY <1>5 DEF Receive
  <2>7. QED
    BY <2>3, <2>4, <2>5, <2>6 DEF InRoom, Stored
<1>6. ASSUME NEW f \in streaming, AppendToStream(f) PROVE TypeOK'
  <2>1. f \subseteq Edits
    BY DEF Frames
  <2>2. /\ streaming' \subseteq Frames /\ faults' \in 0 .. MaxFaults
        /\ stream' \subseteq Edits /\ mongo' = mongo
        /\ unstored' \subseteq Edits \ (stream' \cup mongo)
    BY <1>6, <1>f, <2>1 DEF AppendToStream, Lose, Stored
  <2>3. QED
    BY <1>6, <2>2 DEF AppendToStream, InRoom, Stored
<1>7. CASE Merge
  BY <1>7 DEF Merge, InRoom, Stored
<1>8. ASSUME NEW d \in deliveries, Deliver(d) PROVE TypeOK'
  <2>1. PICK q \in InRoom, f \in Frames : d = <<q, f>>
    OBVIOUS
  <2>2. q \in Pages /\ d[1] = q /\ d[2] = f
    BY <2>1 DEF InRoom
  <2>3. CASE Len(send[q]) < SendCap
    <3>1. /\ send' = [send EXCEPT ![q] = Append(@, f)] /\ deliveries' = deliveries \ {d}
          /\ UNCHANGED <<page, ydoc, edits, out, sync, found, storeVars, faults, notes>>
      BY <1>8, <2>2, <2>3 DEF Deliver
    <3>2. Append(send[q], f) \in Seq(Frames) /\ Len(Append(send[q], f)) = Len(send[q]) + 1
      BY <2>2, CarriedAppend
    <3>3. Len(send[q]) \in Nat
      BY <2>2
    <3>4. Len(Append(send[q], f)) <= SendCap
      BY <2>3, <3>2, <3>3, EditorsAssumption
    <3>5. /\ send' \in [Pages -> Seq(Frames)]
          /\ \A r \in Pages : Len(send'[r]) <= SendCap
          /\ \A r \in Pages \ InRoom : send'[r] = <<>>
      BY <2>2, <3>1, <3>2, <3>4
    <3>6. QED
      BY <3>1, <3>5 DEF InRoom, Stored
  <2>4. CASE ~(Len(send[q]) < SendCap)
    <3>1. /\ Disconnect({q}) /\ deliveries' = {e \in deliveries : e[1] # q}
          /\ UNCHANGED <<ydoc, edits, storeVars, faults, unstored, missed>>
      BY <1>8, <2>2, <2>4 DEF Deliver
    <3>2. InRoom' = InRoom \ {q} /\ {q} \in SUBSET Pages
      BY <2>2, <3>1, DisconnectType
    <3>3. deliveries' \subseteq InRoom' \X Frames
      BY <3>1, <3>2
    <3>4. QED
      BY <3>1, <3>2, <3>3, DisconnectType DEF Stored
  <2>5. QED
    BY <2>3, <2>4
<1>9. ASSUME NEW p \in Pages, Write(p) PROVE TypeOK'
  <2>1. Head(send[p]) \in Frames /\ Tail(send[p]) \in Seq(Frames) /\ p \in InRoom
    BY <1>9, CarriedTail, OpenOnly DEF Write
  <2>2. Len(Tail(send[p])) <= SendCap
    <3>1. Len(send[p]) \in Nat /\ Len(Tail(send[p])) = Len(send[p]) - 1
      BY <1>9, CarriedTail DEF Write
    <3>2. QED
      BY <3>1, EditorsAssumption
  <2>3. Head(send[p]) \subseteq Edits
    BY <2>1 DEF Frames
  <2>4. /\ send' \in [Pages -> Seq(Frames)] /\ ydoc' \in [Pages -> SUBSET Edits]
        /\ \A r \in Pages : Len(send'[r]) <= SendCap
        /\ \A r \in Pages \ InRoom : send'[r] = <<>>
        /\ missed' \subseteq missed
    BY <1>9, <2>1, <2>2, <2>3 DEF Write
  <2>5. UNCHANGED <<page, edits, out, sync, found, deliveries, storeVars, faults, ahead, unstored>>
    BY <1>9 DEF Write
  <2>6. QED
    BY <2>4, <2>5 DEF InRoom, Stored
<1>10. ASSUME NEW p \in Pages, SyncMongo(p) PROVE TypeOK'
  <2>1. sync[p] = "mongo" /\ sync' = [sync EXCEPT ![p] = "redis"] /\ p \in InRoom
    BY <1>10, OpenOnly DEF SyncMongo, SyncTo
  <2>2. /\ found' \in [Pages -> SUBSET Edits] /\ \A q \in Pages \ {p} : found'[q] = found[q]
        /\ missed' \subseteq Pages \X Edits /\ faults' \in 0 .. MaxFaults
    BY <1>10, <1>f, <2>1 DEF SyncMongo, Misses
  <2>3. UNCHANGED <<pageVars, send, deliveries, storeVars, ahead, unstored>>
    BY <1>10 DEF SyncMongo
  <2>4. QED
    BY <2>1, <2>2, <2>3 DEF InRoom, Stored
<1>11. ASSUME NEW p \in Pages, SyncRedis(p) PROVE TypeOK'
  <2>1. sync[p] = "redis" /\ sync' = [sync EXCEPT ![p] = "send"] /\ p \in InRoom
    BY <1>11, OpenOnly DEF SyncRedis, SyncTo
  <2>2. /\ found' \in [Pages -> SUBSET Edits] /\ \A q \in Pages \ {p} : found'[q] = found[q]
        /\ missed' \subseteq Pages \X Edits /\ faults' \in 0 .. MaxFaults
    BY <1>11, <1>f, <1>o, <2>1 DEF SyncRedis, Misses
  <2>3. UNCHANGED <<pageVars, send, deliveries, storeVars, unstored>>
        /\ ahead' = [ahead EXCEPT ![p] = {}]
    BY <1>11 DEF SyncRedis
  <2>4. QED
    BY <2>1, <2>2, <2>3 DEF InRoom, Stored
<1>12. ASSUME NEW p \in Pages, SyncSend(p) PROVE TypeOK'
  <2>1. /\ sync[p] = "send" /\ sync' = [sync EXCEPT ![p] = "none"] /\ p \in InRoom
        /\ found' = [found EXCEPT ![p] = {}]
        /\ UNCHANGED <<pageVars, deliveries, storeVars, faults, ahead, unstored>>
    BY <1>12, OpenOnly DEF SyncSend, SyncTo
  <2>2. /\ send' \in [Pages -> Seq(Frames)]
        /\ \A r \in Pages : Len(send'[r]) <= SendCap
        /\ \A r \in Pages \ InRoom : send'[r] = <<>>
        /\ missed' \subseteq Pages \X Edits
    <3>1. CASE found[p] # {} /\ Len(send[p]) < SendCap
      <4>1. send' = [send EXCEPT ![p] = Append(@, found[p])] /\ UNCHANGED missed
        BY <1>12, <3>1 DEF SyncSend
      <4>2. found[p] \in Frames
        BY <3>1 DEF Frames
      <4>3. /\ Append(send[p], found[p]) \in Seq(Frames)
            /\ Len(Append(send[p], found[p])) = Len(send[p]) + 1 /\ Len(send[p]) \in Nat
        BY <4>2, CarriedAppend
      <4>4. Len(Append(send[p], found[p])) <= SendCap
        BY <3>1, <4>3, EditorsAssumption
      <4>5. QED
        BY <2>1, <4>1, <4>3, <4>4
    <3>2. CASE ~(found[p] # {} /\ Len(send[p]) < SendCap)
      BY <1>12, <3>2 DEF SyncSend, Misses
    <3>3. QED
      BY <3>1, <3>2
  <2>3. QED
    BY <2>1, <2>2 DEF InRoom, Stored
<1>13. ASSUME NEW p \in Pages, Drop(p) PROVE TypeOK'
  <2>1. /\ Disconnect({p}) /\ deliveries' = {d \in deliveries : d[1] # p}
        /\ UNCHANGED <<ydoc, edits, storeVars, unstored, missed>> /\ faults' \in 0 .. MaxFaults
    BY <1>13, <1>f DEF Drop
  <2>2. InRoom' = InRoom \ {p} /\ {p} \in SUBSET Pages
    BY <2>1, DisconnectType
  <2>3. deliveries' \subseteq InRoom' \X Frames
    BY <2>1, <2>2
  <2>4. QED
    BY <2>1, <2>2, <2>3, DisconnectType DEF Stored
<1>14. ASSUME NEW p \in Pages, CloseTab(p) PROVE TypeOK'
  <2>1. /\ page' = [page EXCEPT ![p] = "closed"] /\ ydoc' = [ydoc EXCEPT ![p] = {}]
        /\ out' = [out EXCEPT ![p] = <<>>] /\ send' = [send EXCEPT ![p] = <<>>]
        /\ sync' = [sync EXCEPT ![p] = "none"] /\ found' = [found EXCEPT ![p] = {}]
        /\ ahead' = [ahead EXCEPT ![p] = {}] /\ missed' \subseteq missed
        /\ deliveries' = {d \in deliveries : d[1] # p}
        /\ UNCHANGED <<edits, storeVars, unstored>> /\ faults' \in 0 .. MaxFaults
    BY <1>14, <1>f DEF CloseTab
  <2>2. InRoom' = InRoom \ {p}
    BY <2>1 DEF InRoom
  <2>3. deliveries' \subseteq InRoom' \X Frames
    BY <2>1, <2>2
  <2>4. out' \in [Pages -> Seq(Frames)] /\ send' \in [Pages -> Seq(Frames)]
    BY <2>1, CarriedEmpty
  <2>5. \A q \in Pages : Len(send'[q]) <= SendCap
    BY <2>1, CarriedEmpty, EditorsAssumption
  <2>6. /\ page' \in [Pages -> {"closed", "offline", "open"}]
        /\ ydoc' \in [Pages -> SUBSET Edits] /\ found' \in [Pages -> SUBSET Edits]
        /\ sync' \in [Pages -> {"none", "mongo", "redis", "send"}]
        /\ ahead' \in [Pages -> SUBSET Edits]
    BY <2>1
  <2>7. /\ \A q \in Pages \ InRoom' : out'[q] = <<>> /\ send'[q] = <<>> /\ sync'[q] = "none"
        /\ \A q \in Pages : sync'[q] = "none" => found'[q] = {}
    BY <2>1, <2>2
  <2>8. UNCHANGED <<edits, storeVars, unstored>> /\ faults' \in 0 .. MaxFaults
        /\ missed' \subseteq Pages \X Edits
    BY <2>1
  <2>9. QED
    BY <2>3, <2>4, <2>5, <2>6, <2>7, <2>8 DEF Stored
<1>15. CASE RestartHub
  <2>1. /\ Disconnect(Pages) /\ deliveries' = {} /\ streaming' = {}
        /\ unstored' \subseteq Edits \ Stored /\ faults' \in 0 .. MaxFaults
        /\ UNCHANGED <<ydoc, edits, stream, mongo, missed>>
    BY <1>15, <1>f, <1>o DEF RestartHub, Lose
  <2>2. QED
    BY <2>1, DisconnectType DEF Stored
<1>16. CASE Settled
  BY <1>16 DEF Settled, vars, InRoom, Stored
<1>17. QED
  BY <1>1, <1>2, <1>3, <1>4, <1>5, <1>6, <1>7, <1>8, <1>9, <1>10, <1>11, <1>12, <1>13,
     <1>14, <1>15, <1>16 DEF Next, Syncing, Passing

\* The variables keep their types: no Send is ever over its capacity, only a
\* page in the room is owed anything, and an edit counts as lost only while no
\* store has it.
THEOREM TypeCorrect == Spec => []TypeOK
<1>1. QED
  BY InitType, StepType, PTL DEF Spec

-----------------------------------------------------------------------------
(***************************************************************************)
(* Convergence.  Neither property of the quiet states says anything of the *)
(* others, so that both take an invariant of what is under way.            *)
(***************************************************************************)

\* What the service has taken in: it is stored, lost, or on its way.
Known == Stored \cup unstored \cup OnTheWay

\* What is broadcast, queued for a page or found by its sync is known, and
\* what an open page has is known or on its way to the hub.
Told ==
  /\ \A d \in deliveries : d[2] \subseteq Known
  /\ \A p \in Pages, n \in Edits : Carried(send[p], n) => n \in Known
  /\ \A p \in Pages : found[p] \subseteq Stored
  /\ \A p \in InRoom : \A n \in ydoc[p] : n \in Known \/ Carried(out[p], n)

\* A page sends what it has.
OwnSent == \A p \in Pages, n \in Edits : Carried(out[p], n) => n \in ydoc[p]

\* A page has the edit, is to be sent it, or has missed it.  Until its sync
\* has read both stores, what is in them and what was ahead of it when it
\* joined still counts as coming.
Coming(p, n) ==
  \/ n \in ydoc[p] \/ <<p, n>> \in missed
  \/ \E d \in deliveries : d[1] = p /\ n \in d[2]
  \/ Carried(send[p], n) \/ n \in found[p]
  \/ sync[p] \in {"mongo", "redis"} /\ n \in Stored \cup ahead[p]

Reached == \A p \in InRoom : \A n \in Stored \cup OnTheWay : Coming(p, n)

EditInv == TypeOK /\ Told /\ OwnSent /\ Reached

LEMMA InitEdit == Init => EditInv
<1> SUFFICES ASSUME Init PROVE EditInv
  OBVIOUS
<1>1. /\ InRoom = {} /\ deliveries = {}
      /\ \A p \in Pages : out[p] = <<>> /\ send[p] = <<>> /\ found[p] = {}
  BY DEF Init, InRoom
<1>2. Told /\ OwnSent /\ Reached
  BY <1>1, CarriedEmpty DEF Told, OwnSent, Reached
<1>3. QED
  BY <1>2, InitType DEF EditInv

\* Where a step adds to what the service knows and to what pages have, the
\* three parts are kept for all that it does not touch.
LEMMA KeptFor ==
  ASSUME EditInv, Known \subseteq Known', Stored \subseteq Stored',
         NEW p \in Pages,
         ydoc'[p] = ydoc[p] /\ out'[p] = out[p] /\ send'[p] = send[p]
           /\ found'[p] = found[p] /\ sync'[p] = sync[p] /\ ahead'[p] = ahead[p],
         p \in InRoom' => p \in InRoom,
         \A n \in Edits : <<p, n>> \in missed => <<p, n>> \in missed',
         \A d \in deliveries : d[1] = p => d \in deliveries'
  PROVE  /\ \A n \in Edits : Carried(send'[p], n) => n \in Known'
         /\ found'[p] \subseteq Stored'
         /\ p \in InRoom' => \A n \in ydoc'[p] : n \in Known' \/ Carried(out'[p], n)
         /\ \A n \in Edits : Carried(out'[p], n) => n \in ydoc'[p]
         /\ p \in InRoom' => \A n \in Stored \cup OnTheWay : Coming(p, n)'
<1>1. /\ \A n \in Edits : Carried(send'[p], n) => n \in Known'
      /\ found'[p] \subseteq Stored'
      /\ p \in InRoom' => \A n \in ydoc'[p] : n \in Known' \/ Carried(out'[p], n)
      /\ \A n \in Edits : Carried(out'[p], n) => n \in ydoc'[p]
  BY DEF EditInv, Told, OwnSent
<1>2. ASSUME p \in InRoom', NEW n \in Stored \cup OnTheWay PROVE Coming(p, n)'
  <2>1. Coming(p, n) /\ n \in Edits
    BY <1>2 DEF EditInv, Reached, TypeOK, Stored, OnTheWay, Frames
  <2>2. CASE \E d \in deliveries : d[1] = p /\ n \in d[2]
    BY <2>2 DEF Coming
  <2>3. CASE ~ \E d \in deliveries : d[1] = p /\ n \in d[2]
    BY <2>1, <2>3 DEF Coming
  <2>4. QED
    BY <2>2, <2>3
<1>3. QED
  BY <1>1, <1>2

\* The sockets of the pages in P end, and nothing is stored or lost.
LEMMA DisconnectKeeps ==
  ASSUME EditInv, TypeOK', NEW P \in SUBSET Pages, Disconnect(P), UNCHANGED <<ydoc, missed>>,
         Known' = Known, Stored' = Stored, OnTheWay' \subseteq OnTheWay,
         deliveries' = {d \in deliveries : d[1] \notin P}
  PROVE  Told' /\ OwnSent' /\ Reached'
<1>t. TypeOK
  BY DEF EditInv
<1>1. /\ InRoom' = InRoom \ P
      /\ \A p \in P : out'[p] = <<>> /\ send'[p] = <<>> /\ found'[p] = {}
      /\ \A p \in Pages \ P : /\ out'[p] = out[p] /\ send'[p] = send[p]
                              /\ found'[p] = found[p] /\ sync'[p] = sync[p]
                              /\ ahead'[p] = ahead[p]
  <2>1. InRoom' = InRoom \ P
    BY <1>t, DisconnectType
  <2>2. QED
    BY <2>1, <1>t DEF Disconnect, TypeOK
<1>2. ASSUME NEW p \in Pages
      PROVE  /\ \A n \in Edits : Carried(send'[p], n) => n \in Known'
             /\ found'[p] \subseteq Stored'
             /\ p \in InRoom' => \A n \in ydoc'[p] : n \in Known' \/ Carried(out'[p], n)
             /\ \A n \in Edits : Carried(out'[p], n) => n \in ydoc'[p]
             /\ p \in InRoom' => \A n \in Stored \cup OnTheWay : Coming(p, n)'
  <2>1. CASE p \in P
    BY <1>1, <2>1, CarriedEmpty
  <2>2. CASE p \notin P
    BY <1>1, <2>2, KeptFor
  <2>3. QED
    BY <2>1, <2>2
<1>3. \A p \in InRoom' : p \in Pages
  BY DEF InRoom
<1>4. \A d \in deliveries' : d[2] \subseteq Known'
  BY DEF EditInv, Told
<1>5. QED
  BY <1>2, <1>3, <1>4 DEF Told, OwnSent, Reached

LEMMA TypeKeeps ==
  ASSUME EditInv, TypeOK', NEW p \in Pages, Type(p)
  PROVE  Told' /\ OwnSent' /\ Reached'
<1> DEFINE e == edits + 1
<1>t. TypeOK /\ e \in Edits
  BY EditorsAssumption DEF EditInv, TypeOK, Type, Edits
<1>1. /\ ydoc' = [ydoc EXCEPT ![p] = @ \cup {e}]
      /\ out' = IF page[p] = "open" THEN [out EXCEPT ![p] = Append(@, {e})] ELSE out
      /\ UNCHANGED <<page, clientVars, storeVars, faults, notes>>
  BY DEF Type
<1> HIDE DEF e
<1>2. /\ InRoom' = InRoom /\ Known' = Known /\ Stored' = Stored /\ OnTheWay' = OnTheWay
  BY <1>1 DEF InRoom, Known, Stored, OnTheWay
<1>3. \A n : Carried(out'[p], n) <=> Carried(out[p], n) \/ (p \in InRoom /\ n = e)
  <2>1. CASE p \in InRoom
    <3>1. out'[p] = Append(out[p], {e}) /\ {e} \in Frames
      BY <1>t, <1>1, <2>1 DEF InRoom, TypeOK, Frames
    <3>2. QED
      BY <2>1, <3>1, <1>t, CarriedAppend DEF TypeOK
  <2>2. CASE p \notin InRoom
    BY <1>1, <2>2 DEF InRoom
  <2>3. QED
    BY <2>1, <2>2
<1>4. /\ ydoc'[p] = ydoc[p] \cup {e}
      /\ \A q \in Pages \ {p} : ydoc'[q] = ydoc[q] /\ out'[q] = out[q]
  BY <1>t, <1>1 DEF TypeOK
<1>5. Told'
  BY <1>1, <1>2, <1>3, <1>4 DEF EditInv, Told, InRoom
<1>6. OwnSent'
  BY <1>3, <1>4 DEF EditInv, OwnSent
<1>7. Reached'
  <2> SUFFICES ASSUME NEW q \in InRoom, NEW n \in Stored \cup OnTheWay PROVE Coming(q, n)'
    BY <1>2 DEF Reached
  <2>1. Coming(q, n) /\ q \in Pages
    BY DEF EditInv, Reached, InRoom
  <2>2. ydoc[q] \subseteq ydoc'[q]
    BY <1>4, <2>1
  <2>3. QED
    BY <1>1, <1>2, <2>1, <2>2 DEF Coming
<1>8. QED
  BY <1>5, <1>6, <1>7

LEMMA ConnectKeeps ==
  ASSUME EditInv, TypeOK', NEW p \in Pages, Connect(p)
  PROVE  Told' /\ OwnSent' /\ Reached'
<1>t. TypeOK
  BY DEF EditInv
<1>1. /\ page' = [page EXCEPT ![p] = "open"] /\ sync' = [sync EXCEPT ![p] = "mongo"]
      /\ ahead' = [ahead EXCEPT ![p] = OnTheWay] /\ missed' = {m \in missed : m[1] # p}
      /\ out' = [out EXCEPT ![p] = IF ydoc[p] = {} THEN <<>> ELSE <<ydoc[p]>>]
      /\ UNCHANGED <<ydoc, edits, found, send, deliveries, storeVars, faults, unstored>>
      /\ page[p] = "offline"
  BY DEF Connect, Join
<1>2. /\ InRoom' = InRoom \cup {p} /\ Known' = Known /\ Stored' = Stored
      /\ OnTheWay' = OnTheWay
  BY <1>1, <1>t DEF InRoom, Known, Stored, OnTheWay, TypeOK
<1>3. \A n \in Edits : Carried(out'[p], n) <=> n \in ydoc[p]
  <2>1. CASE ydoc[p] = {}
    BY <1>1, <1>t, <2>1, CarriedEmpty DEF TypeOK
  <2>2. CASE ydoc[p] # {}
    <3>1. out'[p] = <<ydoc[p]>> /\ ydoc[p] \in Frames
      BY <1>1, <1>t, <2>2 DEF TypeOK, Frames
    <3>2. QED
      BY <3>1, CarriedOne
  <2>3. QED
    BY <2>1, <2>2
<1>4. \A q \in Pages \ {p} : out'[q] = out[q] /\ sync'[q] = sync[q] /\ ahead'[q] = ahead[q]
  BY <1>1, <1>t DEF TypeOK
<1>5. ydoc[p] \subseteq Edits
  BY <1>t DEF TypeOK
<1>6. ASSUME NEW q \in Pages \ {p}
      PROVE  /\ q \in InRoom' => \A n \in ydoc'[q] : n \in Known' \/ Carried(out'[q], n)
             /\ \A n \in Edits : Carried(out'[q], n) => n \in ydoc'[q]
             /\ q \in InRoom' => \A n \in Stored \cup OnTheWay : Coming(q, n)'
  BY <1>1, <1>2, <1>4, KeptFor
<1>7. Told'
  <2>1. \A n \in ydoc'[p] : Carried(out'[p], n)
    BY <1>1, <1>3, <1>5
  <2>2. \A q \in InRoom' : q \in Pages
    BY DEF InRoom
  <2>3. QED
    BY <1>1, <1>2, <1>6, <2>1, <2>2 DEF EditInv, Told
<1>8. OwnSent'
  BY <1>1, <1>3, <1>6 DEF OwnSent
<1>9. Reached'
  <2>1. ASSUME NEW n \in Stored \cup OnTheWay PROVE Coming(p, n)'
    <3>1. sync'[p] = "mongo" /\ ahead'[p] = OnTheWay
      BY <1>1, <1>t DEF TypeOK
    <3>2. QED
      BY <1>2, <3>1 DEF Coming
  <2>2. \A q \in InRoom' : q \in Pages
    BY DEF InRoom
  <2>3. QED
    BY <1>2, <1>6, <2>1, <2>2 DEF Reached
<1>10. QED
  BY <1>7, <1>8, <1>9

\* An update the hub has read is known from then on, and coming to everybody
\* else in the room; its own page has it.
LEMMA ReceiveKeeps ==
  ASSUME EditInv, TypeOK', NEW p \in Pages, Receive(p)
  PROVE  Told' /\ OwnSent' /\ Reached'
<1> DEFINE f == Head(out[p])
<1>t. TypeOK /\ p \in InRoom
  BY OpenOnly DEF EditInv, Receive
<1>1. /\ deliveries' = deliveries \cup {<<q, f>> : q \in InRoom \ {p}}
      /\ \/ streaming' = streaming \cup {f} /\ UNCHANGED unstored
         \/ UNCHANGED streaming /\ unstored' = unstored \cup (f \ Stored)
      /\ out' = [out EXCEPT ![p] = Tail(@)]
      /\ UNCHANGED <<page, ydoc, edits, sync, found, send, stream, mongo, ahead, missed>>
  BY DEF Receive, Lose
<1>2. /\ f \in Frames
      /\ \A n : Carried(out[p], n) <=> n \in f \/ Carried(Tail(out[p]), n)
  BY <1>t, CarriedTail DEF Receive, TypeOK
<1> HIDE DEF f
<1>3. /\ InRoom' = InRoom /\ Stored' = Stored /\ OnTheWay \subseteq OnTheWay'
      /\ OnTheWay' \subseteq OnTheWay \cup f
      /\ Known \subseteq Known' /\ f \subseteq Known'
  BY <1>1 DEF InRoom, Known, Stored, OnTheWay
<1>4. /\ out'[p] = Tail(out[p]) /\ \A q \in Pages \ {p} : out'[q] = out[q]
  BY <1>1, <1>t DEF TypeOK
<1>5. f \subseteq ydoc[p]
  BY <1>2 DEF EditInv, OwnSent, Frames
<1>6. Told'
  <2>1. \A d \in deliveries' : d[2] \subseteq Known'
    BY <1>1, <1>3 DEF EditInv, Told
  <2>2. \A q \in InRoom' : \A n \in ydoc'[q] : n \in Known' \/ Carried(out'[q], n)
    <3> SUFFICES ASSUME NEW q \in InRoom, NEW n \in ydoc[q]
                 PROVE  n \in Known' \/ Carried(out'[q], n)
      BY <1>1, <1>3
    <3>1. (n \in Known \/ Carried(out[q], n)) /\ q \in Pages
      BY DEF EditInv, Told, InRoom
    <3>2. QED
      BY <1>2, <1>3, <1>4, <3>1
  <2>3. QED
    BY <1>1, <1>3, <2>1, <2>2 DEF EditInv, Told
<1>7. OwnSent'
  BY <1>1, <1>2, <1>4 DEF EditInv, OwnSent
<1>8. Reached'
  <2> SUFFICES ASSUME NEW q \in InRoom, NEW n \in Stored \cup OnTheWay \cup f
               PROVE  Coming(q, n)'
    BY <1>3 DEF Reached
  <2>1. CASE n \in f /\ q = p
    BY <1>1, <1>5, <2>1 DEF Coming
  <2>2. CASE n \in f /\ q # p
    <3>1. <<q, f>> \in deliveries'
      BY <1>1, <2>2
    <3>2. QED
      BY <2>2, <3>1 DEF Coming
  <2>3. CASE n \in Stored \cup OnTheWay
    <3>1. Coming(q, n)
      BY <2>3 DEF EditInv, Reached
    <3>2. QED
      BY <1>1, <1>3, <3>1 DEF Coming
  <2>4. QED
    BY <2>1, <2>2, <2>3
<1>9. QED
  BY <1>6, <1>7, <1>8

\* A step that only stores what was on its way, or loses it.
LEMMA StoresGrow ==
  ASSUME EditInv, TypeOK', UNCHANGED <<pageVars, clientVars, ahead, missed>>,
         Known \subseteq Known', Stored \subseteq Stored',
         Stored' \cup OnTheWay' \subseteq Stored \cup OnTheWay
  PROVE  Told' /\ OwnSent' /\ Reached'
<1>1. InRoom' = InRoom
  BY DEF InRoom
<1>2. ASSUME NEW p \in Pages
      PROVE  /\ \A n \in Edits : Carried(send'[p], n) => n \in Known'
             /\ found'[p] \subseteq Stored'
             /\ p \in InRoom' => \A n \in ydoc'[p] : n \in Known' \/ Carried(out'[p], n)
             /\ \A n \in Edits : Carried(out'[p], n) => n \in ydoc'[p]
             /\ p \in InRoom' => \A n \in Stored \cup OnTheWay : Coming(p, n)'
  BY <1>1, KeptFor
<1>3. \A p \in InRoom' : p \in Pages
  BY DEF InRoom
<1>4. \A d \in deliveries' : d[2] \subseteq Known'
  BY DEF EditInv, Told
<1>5. QED
  BY <1>2, <1>3, <1>4 DEF Told, OwnSent, Reached

LEMMA AppendKeeps ==
  ASSUME EditInv, TypeOK', NEW f \in streaming, AppendToStream(f)
  PROVE  Told' /\ OwnSent' /\ Reached'
<1>1. /\ streaming' = streaming \ {f}
      /\ \/ stream' = stream \cup f /\ unstored' = unstored \ f
         \/ UNCHANGED stream /\ unstored' = unstored \cup (f \ Stored)
      /\ UNCHANGED <<pageVars, clientVars, mongo, ahead, missed>>
  BY DEF AppendToStream, Lose
<1>2. /\ f \subseteq OnTheWay /\ OnTheWay' \subseteq OnTheWay
      /\ OnTheWay \subseteq OnTheWay' \cup f
  BY <1>1 DEF OnTheWay
<1>3. /\ Known \subseteq Known' /\ Stored \subseteq Stored'
      /\ Stored' \cup OnTheWay' \subseteq Stored \cup OnTheWay
  BY <1>1, <1>2 DEF Known, Stored
<1>4. QED
  BY <1>1, <1>3, StoresGrow

LEMMA MergeKeeps ==
  ASSUME EditInv, TypeOK', Merge
  PROVE  Told' /\ OwnSent' /\ Reached'
<1>1. Stored' = Stored /\ OnTheWay' = OnTheWay /\ Known' = Known
  BY DEF Merge, Stored, OnTheWay, Known
<1>2. QED
  BY <1>1, StoresGrow DEF Merge

\* A delivery puts its frame into Send, or ends the connection.
LEMMA DeliverKeeps ==
  ASSUME EditInv, TypeOK', NEW d \in deliveries, Deliver(d)
  PROVE  Told' /\ OwnSent' /\ Reached'
<1>t. TypeOK
  BY DEF EditInv
<1>1. PICK q \in InRoom, f \in Frames : d = <<q, f>>
  BY <1>t DEF TypeOK
<1>2. q \in Pages /\ d[1] = q /\ d[2] = f
  BY <1>1 DEF InRoom
<1>3. UNCHANGED storeVars /\ UNCHANGED <<ydoc, unstored, missed>>
  BY DEF Deliver
<1>4. Stored' = Stored /\ OnTheWay' = OnTheWay /\ Known' = Known
  BY <1>3 DEF Stored, OnTheWay, Known
<1>5. CASE Len(send[q]) < SendCap
  <2>1. /\ send' = [send EXCEPT ![q] = Append(@, f)] /\ deliveries' = deliveries \ {d}
        /\ UNCHANGED <<page, ydoc, out, sync, found, notes>>
    BY <1>2, <1>5 DEF Deliver
  <2>2. /\ \A n : Carried(send'[q], n) <=> Carried(send[q], n) \/ n \in f
        /\ \A r \in Pages \ {q} : send'[r] = send[r]
    BY <1>2, <1>t, <2>1, CarriedAppend DEF TypeOK
  <2>3. InRoom' = InRoom
    BY <2>1 DEF InRoom
  <2>4. Told'
    <3>1. f \subseteq Known
      BY <1>2 DEF EditInv, Told
    <3>2. \A r \in Pages, n \in Edits : Carried(send'[r], n) => n \in Known'
      BY <1>4, <2>2, <3>1 DEF EditInv, Told
    <3>3. QED
      BY <1>4, <2>1, <2>3, <3>2 DEF EditInv, Told
  <2>5. OwnSent'
    BY <2>1 DEF EditInv, OwnSent
  <2>6. Reached'
    <3> SUFFICES ASSUME NEW r \in InRoom, NEW n \in Stored \cup OnTheWay PROVE Coming(r, n)'
      BY <1>4, <2>3 DEF Reached
    <3>1. Coming(r, n) /\ r \in Pages
      BY DEF EditInv, Reached, InRoom
    <3>2. Carried(send[r], n) => Carried(send'[r], n)
      BY <2>2, <3>1
    <3>3. CASE \E e \in deliveries : e[1] = r /\ n \in e[2]
      <4>1. PICK e \in deliveries : e[1] = r /\ n \in e[2]
        BY <3>3
      <4>2. CASE e = d
        BY <1>2, <2>2, <4>1, <4>2 DEF Coming
      <4>3. CASE e # d
        BY <2>1, <4>1, <4>3 DEF Coming
      <4>4. QED
        BY <4>2, <4>3
    <3>4. CASE ~ \E e \in deliveries : e[1] = r /\ n \in e[2]
      BY <1>4, <2>1, <3>1, <3>2, <3>4 DEF Coming
    <3>5. QED
      BY <3>3, <3>4
  <2>7. QED
    BY <2>4, <2>5, <2>6
<1>6. CASE ~(Len(send[q]) < SendCap)
  <2>1. /\ Disconnect({q}) /\ deliveries' = {e \in deliveries : e[1] \notin {q}}
        /\ {q} \in SUBSET Pages
    BY <1>2, <1>6 DEF Deliver
  <2>2. QED
    BY <1>3, <1>4, <2>1, DisconnectKeeps
<1>7. QED
  BY <1>5, <1>6

LEMMA WriteKeeps ==
  ASSUME EditInv, TypeOK', NEW p \in Pages, Write(p)
  PROVE  Told' /\ OwnSent' /\ Reached'
<1> DEFINE f == Head(send[p])
<1>t. TypeOK
  BY DEF EditInv
<1>1. /\ ydoc' = [ydoc EXCEPT ![p] = @ \cup f] /\ send' = [send EXCEPT ![p] = Tail(@)]
      /\ missed' = missed \ ({p} \X f)
      /\ UNCHANGED <<page, out, sync, found, deliveries, storeVars, ahead, unstored>>
  BY DEF Write
<1>2. /\ f \in Frames
      /\ \A n : Carried(send[p], n) <=> n \in f \/ Carried(Tail(send[p]), n)
  BY <1>t, CarriedTail DEF Write, TypeOK
<1> HIDE DEF f
<1>3. InRoom' = InRoom /\ Stored' = Stored /\ OnTheWay' = OnTheWay /\ Known' = Known
  BY <1>1 DEF InRoom, Stored, OnTheWay, Known
<1>4. /\ ydoc'[p] = ydoc[p] \cup f /\ send'[p] = Tail(send[p])
      /\ \A q \in Pages \ {p} : ydoc'[q] = ydoc[q] /\ send'[q] = send[q]
  BY <1>1, <1>t DEF TypeOK
<1>5. f \subseteq Known
  BY <1>2 DEF EditInv, Told, Frames
<1>6. Told'
  <2>1. \A q \in Pages, n \in Edits : Carried(send'[q], n) => n \in Known'
    BY <1>2, <1>3, <1>4 DEF EditInv, Told
  <2>2. \A q \in InRoom' : \A n \in ydoc'[q] : n \in Known' \/ Carried(out'[q], n)
    BY <1>1, <1>3, <1>4, <1>5 DEF EditInv, Told, InRoom
  <2>3. QED
    BY <1>1, <1>3, <2>1, <2>2 DEF EditInv, Told
<1>7. OwnSent'
  BY <1>1, <1>4 DEF EditInv, OwnSent
<1>8. Reached'
  <2> SUFFICES ASSUME NEW q \in InRoom, NEW n \in Stored \cup OnTheWay PROVE Coming(q, n)'
    BY <1>3 DEF Reached
  <2>1. Coming(q, n) /\ q \in Pages
    BY DEF EditInv, Reached, InRoom
  <2>2. CASE q = p /\ n \in f
    BY <1>4, <2>2 DEF Coming
  <2>3. CASE ~(q = p /\ n \in f)
    <3>1. /\ <<q, n>> \in missed => <<q, n>> \in missed'
          /\ Carried(send[q], n) => Carried(send'[q], n)
          /\ n \in ydoc[q] => n \in ydoc'[q]
      BY <1>1, <1>2, <1>4, <2>1, <2>3
    <3>2. QED
      BY <1>1, <1>3, <2>1, <3>1 DEF Coming
  <2>4. QED
    BY <2>2, <2>3
<1>9. QED
  BY <1>6, <1>7, <1>8

\* The sync of a page moves on: what it has to say of the page itself is that
\* whatever was coming still is, and that it has found what is stored.
LEMMA SyncKeeps ==
  ASSUME EditInv, TypeOK', NEW p \in Pages,
         UNCHANGED <<pageVars, deliveries, storeVars, unstored>>,
         missed \subseteq missed', found'[p] \subseteq Stored,
         \A n \in Edits : Carried(send'[p], n) => Carried(send[p], n) \/ n \in found[p],
         \A q \in Pages \ {p} : /\ send'[q] = send[q] /\ found'[q] = found[q]
                                /\ sync'[q] = sync[q] /\ ahead'[q] = ahead[q],
         p \in InRoom => \A n \in Stored \cup OnTheWay : Coming(p, n)'
  PROVE  Told' /\ OwnSent' /\ Reached'
<1>1. InRoom' = InRoom /\ Stored' = Stored /\ OnTheWay' = OnTheWay /\ Known' = Known
  BY DEF InRoom, Stored, OnTheWay, Known
<1>2. ASSUME NEW q \in Pages, q # p
      PROVE  /\ \A n \in Edits : Carried(send'[q], n) => n \in Known'
             /\ found'[q] \subseteq Stored'
             /\ q \in InRoom' => \A n \in Stored \cup OnTheWay : Coming(q, n)'
  BY <1>1, <1>2, KeptFor
<1>3. \A n \in Edits : Carried(send'[p], n) => n \in Known'
  BY <1>1 DEF EditInv, Told, Known
<1>4. Told'
  BY <1>1, <1>2, <1>3 DEF EditInv, Told
<1>5. OwnSent'
  BY DEF EditInv, OwnSent
<1>6. Reached'
  BY <1>1, <1>2 DEF Reached, InRoom
<1>7. QED
  BY <1>4, <1>5, <1>6

LEMMA SyncMongoKeeps ==
  ASSUME EditInv, TypeOK', NEW p \in Pages, SyncMongo(p)
  PROVE  Told' /\ OwnSent' /\ Reached'
<1>t. TypeOK
  BY DEF EditInv
<1>1. /\ sync[p] = "mongo" /\ sync'[p] = "redis"
      /\ \A q \in Pages \ {p} : sync'[q] = sync[q] /\ found'[q] = found[q]
      /\ found'[p] = mongo \/ found'[p] = found[p]
      /\ missed \subseteq missed'
      /\ UNCHANGED <<pageVars, send, deliveries, storeVars, ahead, unstored>>
  BY <1>t DEF SyncMongo, SyncTo, Misses, TypeOK
<1>2. found'[p] \subseteq Stored
  BY <1>1 DEF EditInv, Told, Stored
<1>3. ASSUME p \in InRoom, NEW n \in Stored \cup OnTheWay PROVE Coming(p, n)'
  <2>1. Coming(p, n) /\ Stored' = Stored /\ (n \in found[p] => n \in Stored)
    BY <1>1, <1>3 DEF EditInv, Reached, Told, Stored
  <2>2. QED
    BY <1>1, <2>1 DEF Coming
<1>4. QED
  BY <1>1, <1>2, <1>3, SyncKeeps

\* What was stored or ahead when the page joined is found now, or missed.
LEMMA SyncRedisKeeps ==
  ASSUME EditInv, TypeOK', NEW p \in Pages, SyncRedis(p)
  PROVE  Told' /\ OwnSent' /\ Reached'
<1> DEFINE torn == (mongo \ found[p]) \cup (ahead[p] \cap OnTheWay)
<1>t. TypeOK
  BY DEF EditInv
<1>1. /\ sync[p] = "redis" /\ sync'[p] = "send"
      /\ \A q \in Pages \ {p} : /\ sync'[q] = sync[q] /\ found'[q] = found[q]
                                /\ ahead'[q] = ahead[q]
      /\ missed \subseteq missed' /\ {p} \X (torn \ ydoc[p]) \subseteq missed'
      /\ \/ found'[p] = found[p] \cup stream
         \/ found'[p] = found[p] /\ {p} \X (stream \ ydoc[p]) \subseteq missed'
      /\ UNCHANGED <<pageVars, send, deliveries, storeVars, unstored>>
  BY <1>t DEF SyncRedis, SyncTo, Misses, TypeOK
<1>2. found'[p] \subseteq Stored
  BY <1>1 DEF EditInv, Told, Stored
<1>3. ASSUME p \in InRoom, NEW n \in Stored \cup OnTheWay PROVE Coming(p, n)'
  <2>1. Coming(p, n)
    BY <1>3 DEF EditInv, Reached
  <2>2. CASE n \in Stored \cup ahead[p]
    <3>1. n \in torn \cup stream \cup found[p]
      BY <1>3, <2>2 DEF Stored
    <3>2. n \in ydoc[p] \/ <<p, n>> \in missed' \/ n \in found'[p]
      BY <1>1, <3>1
    <3>3. QED
      BY <1>1, <3>2 DEF Coming
  <2>3. CASE n \notin Stored \cup ahead[p]
    <3>1. n \in found[p] => n \in found'[p]
      BY <1>1
    <3>2. QED
      BY <1>1, <2>1, <2>3, <3>1 DEF Coming
  <2>4. QED
    BY <2>2, <2>3
<1>4. QED
  BY <1>1, <1>2, <1>3, SyncKeeps

LEMMA SyncSendKeeps ==
  ASSUME EditInv, TypeOK', NEW p \in Pages, SyncSend(p)
  PROVE  Told' /\ OwnSent' /\ Reached'
<1>t. TypeOK
  BY DEF EditInv
<1>1. /\ sync[p] = "send" /\ found'[p] = {} /\ missed \subseteq missed'
      /\ \A q \in Pages \ {p} : /\ sync'[q] = sync[q] /\ found'[q] = found[q]
                                /\ send'[q] = send[q]
      /\ UNCHANGED <<pageVars, deliveries, storeVars, ahead, unstored>>
  BY <1>t DEF SyncSend, SyncTo, Misses, TypeOK
<1>2. /\ \A n \in Edits : Carried(send'[p], n) => Carried(send[p], n) \/ n \in found[p]
      /\ \A n \in Edits : Carried(send[p], n) => Carried(send'[p], n)
      /\ \A n \in found[p] : \/ Carried(send'[p], n)
                             \/ n \in ydoc[p] \/ <<p, n>> \in missed'
  <2>1. CASE found[p] = {}
    BY <2>1 DEF SyncSend
  <2>2. CASE found[p] # {} /\ Len(send[p]) < SendCap
    <3>1. send'[p] = Append(send[p], found[p]) /\ found[p] \in Frames
      BY <1>t, <2>2 DEF SyncSend, TypeOK, Frames
    <3>2. \A n : Carried(send'[p], n) <=> Carried(send[p], n) \/ n \in found[p]
      BY <1>t, <3>1, CarriedAppend DEF TypeOK
    <3>3. QED
      BY <3>2
  <2>3. CASE found[p] # {} /\ ~(Len(send[p]) < SendCap)
    BY <2>3 DEF SyncSend, Misses
  <2>4. QED
    BY <2>1, <2>2, <2>3
<1>3. ASSUME p \in InRoom, NEW n \in Stored \cup OnTheWay PROVE Coming(p, n)'
  <2>1. Coming(p, n) /\ n \in Edits
    BY <1>3, <1>t DEF EditInv, Reached, TypeOK, Stored, OnTheWay, Frames
  <2>2. QED
    BY <1>1, <1>2, <2>1 DEF Coming
<1>4. QED
  BY <1>1, <1>2, <1>3, SyncKeeps

LEMMA CloseKeeps ==
  ASSUME EditInv, TypeOK', NEW p \in Pages, CloseTab(p)
  PROVE  Told' /\ OwnSent' /\ Reached'
<1>t. TypeOK
  BY DEF EditInv
<1>1. /\ out'[p] = <<>> /\ send'[p] = <<>> /\ found'[p] = {}
      /\ \A q \in Pages \ {p} : /\ page'[q] = page[q] /\ ydoc'[q] = ydoc[q]
                                /\ out'[q] = out[q] /\ send'[q] = send[q]
                                /\ sync'[q] = sync[q] /\ found'[q] = found[q]
                                /\ ahead'[q] = ahead[q]
      /\ page'[p] = "closed"
      /\ deliveries' = {d \in deliveries : d[1] # p}
      /\ missed' = {m \in missed : m[1] # p}
      /\ UNCHANGED <<storeVars, unstored>>
  BY <1>t DEF CloseTab, TypeOK
<1>2. /\ InRoom' = InRoom \ {p} /\ Stored' = Stored /\ OnTheWay' = OnTheWay
      /\ Known' = Known
  BY <1>1 DEF InRoom, Stored, OnTheWay, Known
<1>3. ASSUME NEW q \in Pages, q # p
      PROVE  /\ \A n \in Edits : Carried(send'[q], n) => n \in Known'
             /\ found'[q] \subseteq Stored'
             /\ q \in InRoom' => \A n \in ydoc'[q] : n \in Known' \/ Carried(out'[q], n)
             /\ \A n \in Edits : Carried(out'[q], n) => n \in ydoc'[q]
             /\ q \in InRoom' => \A n \in Stored \cup OnTheWay : Coming(q, n)'
  BY <1>1, <1>2, <1>3, KeptFor
<1>4. \A d \in deliveries' : d[2] \subseteq Known'
  BY <1>1, <1>2 DEF EditInv, Told
<1>5. \A q \in InRoom' : q \in Pages /\ q # p
  BY <1>2 DEF InRoom
<1>6. QED
  BY <1>1, <1>2, <1>3, <1>4, <1>5, CarriedEmpty DEF Told, OwnSent, Reached

LEMMA RestartKeeps ==
  ASSUME EditInv, TypeOK', RestartHub
  PROVE  Told' /\ OwnSent' /\ Reached'
<1>1. /\ Disconnect(Pages) /\ deliveries' = {} /\ streaming' = {}
      /\ unstored' = unstored \cup (OnTheWay \ Stored)
      /\ UNCHANGED <<ydoc, stream, mongo, missed>>
  BY DEF RestartHub, Lose
<1>2. Stored' = Stored /\ OnTheWay' = {}
  BY <1>1 DEF Stored, OnTheWay
<1>3. Known' = Known
  BY <1>1, <1>2 DEF Known
<1>4. deliveries' = {d \in deliveries : d[1] \notin Pages}
  BY <1>1 DEF EditInv, TypeOK, InRoom
<1>5. QED
  BY <1>1, <1>2, <1>3, <1>4, DisconnectKeeps

LEMMA StepEdit == EditInv /\ [Next]_vars => EditInv'
<1> SUFFICES ASSUME EditInv, [Next]_vars PROVE Told' /\ OwnSent' /\ Reached'
  BY StepType DEF EditInv
<1>t. TypeOK'
  BY StepType DEF EditInv
<1>1. CASE UNCHANGED vars
  BY <1>1, <1>t, StoresGrow DEF vars, Known, Stored, OnTheWay
<1>2. ASSUME NEW p \in Pages, Load(p) PROVE Told' /\ OwnSent' /\ Reached'
  <2>1. /\ UNCHANGED <<ydoc, out, clientVars, storeVars, notes>>
        /\ page' = [page EXCEPT ![p] = "offline"] /\ page[p] = "closed"
    BY <1>2 DEF Load
  <2>2. InRoom' = InRoom
    BY <2>1 DEF InRoom
  <2>3. Stored' = Stored /\ OnTheWay' = OnTheWay /\ Known' = Known
    BY <2>1 DEF Stored, OnTheWay, Known
  <2>4. Told'
    BY <2>1, <2>2, <2>3 DEF EditInv, Told
  <2>5. OwnSent'
    BY <2>1 DEF EditInv, OwnSent
  <2>6. Reached'
    BY <2>1, <2>2, <2>3 DEF EditInv, Reached, Coming
  <2>7. QED
    BY <2>4, <2>5, <2>6
<1>3. ASSUME NEW p \in Pages, Type(p) \/ Connect(p) \/ CloseTab(p)
      PROVE  Told' /\ OwnSent' /\ Reached'
  BY <1>3, <1>t, TypeKeeps, ConnectKeeps, CloseKeeps
<1>4. ASSUME NEW p \in Pages, Drop(p) PROVE Told' /\ OwnSent' /\ Reached'
  <2>1. /\ Disconnect({p}) /\ deliveries' = {d \in deliveries : d[1] \notin {p}}
        /\ UNCHANGED <<ydoc, storeVars, unstored, missed>> /\ {p} \in SUBSET Pages
    BY <1>4 DEF Drop
  <2>2. Stored' = Stored /\ OnTheWay' = OnTheWay /\ Known' = Known
    BY <2>1 DEF Stored, OnTheWay, Known
  <2>3. QED
    BY <1>t, <2>1, <2>2, DisconnectKeeps
<1>5. CASE Syncing
  BY <1>5, <1>t, SyncMongoKeeps, SyncRedisKeeps, SyncSendKeeps DEF Syncing
<1>6. CASE Passing
  BY <1>6, <1>t, ReceiveKeeps, WriteKeeps, DeliverKeeps, AppendKeeps DEF Passing
<1>7. CASE Merge \/ RestartHub
  BY <1>7, <1>t, MergeKeeps, RestartKeeps
<1>8. CASE Settled
  BY <1>1, <1>8 DEF Settled
<1>9. QED
  BY <1>1, <1>2, <1>3, <1>4, <1>5, <1>6, <1>7, <1>8 DEF Next

LEMMA EditsTracked == Spec => []EditInv
BY InitEdit, StepEdit, PTL DEF Spec

\* Once nothing is under way the stores have every edit of every open page,
\* but for those streamCh or XADD lost.
LEMMA QuietStored == EditInv => StoredUnlessLost
<1> SUFFICES ASSUME EditInv, Quiet, NEW p \in Pages, page[p] = "open", NEW n \in ydoc[p]
             PROVE  n \in Stored \cup unstored
  BY DEF StoredUnlessLost
<1>1. n \in Known \/ Carried(out[p], n)
  BY DEF EditInv, Told, InRoom
<1>2. out[p] = <<>> /\ OnTheWay = {}
  BY DEF Quiet, OnTheWay
<1>3. QED
  BY <1>1, <1>2, CarriedEmpty DEF Known

THEOREM EditsStored == Spec => []StoredUnlessLost
BY EditsTracked, QuietStored, PTL

\* Once nothing is under way two open pages agree, but for the edits that the
\* stores have lost and those a sync has missed.
THEOREM PagesConverge == Spec => []ConvergedUnlessMissed
<1>1. EditInv => ConvergedUnlessMissed
  <2> SUFFICES ASSUME EditInv, Quiet, NEW p \in Pages, NEW q \in Pages,
                      page[p] = "open", page[q] = "open",
                      NEW n \in ydoc[q] \ ydoc[p], n \notin unstored
               PROVE  <<p, n>> \in missed
    BY DEF ConvergedUnlessMissed
  <2>1. n \in Stored
    BY QuietStored DEF StoredUnlessLost
  <2>2. Coming(p, n)
    BY <2>1 DEF EditInv, Reached, InRoom
  <2>3. deliveries = {} /\ send[p] = <<>> /\ sync[p] = "none" /\ found[p] = {}
    BY DEF Quiet, EditInv, TypeOK
  <2>4. QED
    BY <2>2, <2>3, CarriedEmpty DEF Coming
<1>2. QED
  BY <1>1, EditsTracked, PTL
=============================================================================
