----------------------------- MODULE HubProofs -----------------------------
(***************************************************************************)
(* What TLAPS proves of the hub, for any clients, documents and frames,    *)
(* any capacities of its channels and any number of stream writers.        *)
(***************************************************************************)
EXTENDS Hub, FiniteSetTheorems, TLAPS

USE DEF storeVars, connVars, roomVars, inVars, outVars, syncVars, hubVars

-----------------------------------------------------------------------------
(***************************************************************************)
(* The pumps of a client.  A client has a document from the moment its     *)
(* handler waits for Run, Run took it when its read pump runs, and a read  *)
(* pump holds a message while it waits for the channel, and only then.     *)
(***************************************************************************)

PumpInv ==
  \A c \in Clients :
    /\ reader[c] \notin {"new", "closed"} \/ Registered(c) => doc[c] \in Docs
    /\ reader[c] \in {"new", "registering"} => ~Registered(c)
    /\ reader[c] \in {"reading", "sending", "leaving", "closing"} => Registered(c)
    /\ reader[c] = "sending" <=> holding[c] # 0

\* The steps as the pumps see them.
LEMMA StepPump == TypeOK /\ PumpInv /\ [Next]_vars => PumpInv'
<1> SUFFICES ASSUME TypeOK, PumpInv, [Next]_vars PROVE PumpInv'
  OBVIOUS
<1> USE DEF TypeOK, HubTypeOK, PumpInv, Registered
<1>1. ASSUME NEW c \in Clients, HandleWebSocket(c) PROVE PumpInv'
  BY <1>1 DEF HandleWebSocket
<1>2. ASSUME NEW c \in Clients, NEW f \in Frames, Read(c, f) PROVE PumpInv'
  BY <1>2 DEF Read
<1>3. ASSUME NEW c \in Clients, Break(c) PROVE PumpInv'
  BY <1>3 DEF Break
<1>4. ASSUME NEW c \in Clients, ReaderStep(c) PROVE PumpInv'
  BY <1>4 DEF ReaderStep, Register, Enqueue, ReadFails, Leave, CloseConn
<1>5. ASSUME NEW c \in Clients, WriterStep(c) PROVE PumpInv'
  BY <1>5 DEF WriterStep, WriteDone, WriteNext, PingFails
<1>6. ASSUME NEW c \in Clients, SyncStep(c) PROVE PumpInv'
  BY <1>6 DEF SyncStep, SyncMongo, SyncRedis, SyncOffer
<1>7. ASSUME NEW c \in Clients, NEW m \in MsgIds, Delivery(c, m) PROVE PumpInv'
  BY <1>7 DEF Delivery, DeliverSend, DeliverDone, DeliverFull, Evict, EvictDone
<1>8. ASSUME NEW w \in Workers, StreamStep(w) PROVE PumpInv'
  BY <1>8 DEF StreamStep, StreamTake, StreamAppend, StreamRetry, StreamFails, Free
<1>9. CASE RunBroadcast
  BY <1>9 DEF RunBroadcast
<1>10. CASE UNCHANGED vars
  BY <1>10 DEF vars
<1>11. QED
  BY <1>1, <1>2, <1>3, <1>4, <1>5, <1>6, <1>7, <1>8, <1>9, <1>10 DEF Next, HubNext, Quiet

-----------------------------------------------------------------------------
(***************************************************************************)
(* Rooms.                                                                  *)
(***************************************************************************)

\* The clients Run has taken in and not unregistered since.
Joined == {c \in Clients : Registered(c) /\ ~Done(c)}

RoomInv ==
  /\ \A c \in Clients : closes[c] \in {0, 1} /\ (~Registered(c) => closes[c] = 0)
  /\ \A d \in Docs : members[d] = {c \in Joined : doc[c] = d}
  /\ IsFiniteSet(Joined) /\ conns = Cardinality(Joined)
  /\ rooms = {d \in Docs : members[d] # {}}
  /\ IsFiniteSet(rooms) /\ roomGauge = Cardinality(rooms)

\* Run takes a client in: the room gets it, and a key if it had none.
LEMMA RegisterRooms ==
  ASSUME TypeOK, PumpInv, RoomInv, NEW c \in Clients, Register(c)
  PROVE  RoomInv'
<1> USE DEF TypeOK, HubTypeOK, PumpInv, Registered, Done
<1>1. ~Registered(c) /\ doc[c] \in Docs /\ closes[c] = 0
  BY DEF Register, RoomInv
<1>2. Joined' = Joined \cup {c} /\ c \notin Joined
  BY <1>1 DEF Register, Joined
<1>3. IsFiniteSet(Joined') /\ Cardinality(Joined') = Cardinality(Joined) + 1
  BY <1>2, FS_AddElement DEF RoomInv
<1>4. \A d \in Docs : members'[d] = {b \in Joined' : doc'[b] = d}
  BY <1>1, <1>2 DEF Register, RoomInv
<1>5. rooms' = rooms \cup {doc[c]}
  BY DEF Register
<1>6. IsFiniteSet(rooms')
  BY <1>5, FS_AddElement DEF RoomInv
<1>7. rooms' = {d \in Docs : members'[d] # {}}
  BY <1>1, <1>5 DEF Register, RoomInv
<1>8. \A b \in Clients : closes'[b] \in {0, 1} /\ (~Registered(b)' => closes'[b] = 0)
  BY DEF Register, RoomInv
<1>9. conns' = Cardinality(Joined') /\ roomGauge' = Cardinality(rooms')
  BY <1>3 DEF Register, RoomInv
<1>10. QED
  BY <1>3, <1>4, <1>6, <1>7, <1>8, <1>9 DEF RoomInv

\* Run takes a client out, or finds that it has done so before.
LEMMA UnregisterRooms ==
  ASSUME TypeOK, RoomInv, NEW c \in Clients, Registered(c), doc[c] \in Docs,
         Unregister(c), UNCHANGED <<doc, sync>>
  PROVE  /\ RoomInv'
         /\ Done(c)' /\ \A b \in Clients : Done(b) => Done(b)'
         /\ closes' \in [Clients -> Nat] /\ members' \in [Docs -> SUBSET Clients]
         /\ rooms' \subseteq Docs /\ conns' \in Nat /\ roomGauge' \in Nat
<1> USE DEF TypeOK, HubTypeOK, Registered, Done
<1>1. c \in members[doc[c]] <=> c \in Joined
  BY DEF RoomInv, Joined
<1>2. /\ \A b \in Clients : closes'[b] = IF b = c THEN 1 ELSE closes[b]
      /\ closes' \in [Clients -> Nat] /\ closes'[c] = 1
  BY DEF Unregister, CloseDone, RoomInv
<1>d. Done(c)' /\ \A b \in Clients : Done(b) => Done(b)'
  <2>1. closes'[c] > 0 /\ \A b \in Clients : closes[b] > 0 => closes'[b] > 0
    BY ONLY <1>2
  <2>2. QED
    BY <2>1
<1>3. Joined' = Joined \ {c}
  BY <1>2 DEF Joined
<1>4. CASE c \in Joined
  <2>1. /\ members' = [members EXCEPT ![doc[c]] = @ \ {c}]
        /\ rooms' = IF members'[doc[c]] = {} THEN rooms \ {doc[c]} ELSE rooms
        /\ conns' = conns - 1 /\ roomGauge' = Cardinality(rooms')
    BY <1>1, <1>4 DEF Unregister
  <2>2. /\ IsFiniteSet(Joined') /\ Cardinality(Joined') = Cardinality(Joined) - 1
        /\ Cardinality(Joined') \in Nat
    BY <1>3, <1>4, FS_RemoveElement, FS_CardinalityType DEF RoomInv
  <2>3. \A d \in Docs : members'[d] = {b \in Joined' : doc'[b] = d}
    BY <1>3, <2>1 DEF RoomInv
  <2>4. rooms' = {d \in Docs : members'[d] # {}}
    BY <2>1 DEF RoomInv
  <2>5. IsFiniteSet(rooms') /\ Cardinality(rooms') \in Nat
    BY <2>1, FS_RemoveElement, FS_CardinalityType DEF RoomInv
  <2>6. \A b \in Clients : closes'[b] \in {0, 1} /\ (~Registered(b)' => closes'[b] = 0)
    BY <1>2 DEF RoomInv
  <2>7. conns' = Cardinality(Joined')
    BY <2>1, <2>2 DEF RoomInv
  <2>8. RoomInv'
    BY <2>1, <2>2, <2>3, <2>4, <2>5, <2>6, <2>7 DEF RoomInv
  <2>9. members' \in [Docs -> SUBSET Clients] /\ rooms' \subseteq Docs
    BY <2>1
  <2>10. conns' \in Nat /\ roomGauge' \in Nat
    BY <2>1, <2>2, <2>5, <2>7
  <2>11. QED
    BY <1>2, <1>d, <2>8, <2>9, <2>10
<1>5. CASE c \notin Joined
  <2>1. UNCHANGED <<members, rooms, conns, roomGauge>> /\ Joined' = Joined
    BY <1>1, <1>3, <1>5 DEF Unregister
  <2>2. RoomInv'
    <3>1. \A b \in Clients : closes'[b] \in {0, 1} /\ (~Registered(b)' => closes'[b] = 0)
      BY <1>2 DEF RoomInv
    <3>2. \A d \in Docs : members'[d] = {b \in Joined' : doc'[b] = d}
      BY <2>1 DEF RoomInv
    <3>3. QED
      BY <2>1, <3>1, <3>2 DEF RoomInv
  <2>3. QED
    BY <1>2, <1>d, <2>1, <2>2
<1>6. QED
  BY <1>4, <1>5

\* The rooms do not see the other steps.
LEMMA RoomsKept ==
  ASSUME TypeOK, RoomInv, UNCHANGED <<closes, members, rooms, conns, roomGauge>>,
         \A c \in Clients : (Registered(c)' <=> Registered(c))
                            /\ (Registered(c) => doc'[c] = doc[c])
  PROVE  RoomInv'
<1>1. Joined' = Joined /\ \A c \in Joined : doc'[c] = doc[c]
  BY DEF Joined, Done
<1>2. QED
  BY <1>1 DEF RoomInv

-----------------------------------------------------------------------------
(***************************************************************************)
(* Messages.  A message keeps the document of its sender, who keeps it     *)
(* too; and what is on its way to a client, owed to it or was written to   *)
(* it is another client's message of its own document.                     *)
(***************************************************************************)

OnItsWay(c, m) ==
  <<c, m>> \in trying \cup evicting \cup owed \/ InSeq(m, send[c]) \/ m \in got[c]

MessageInv ==
  \A m \in MsgIds : /\ msgs[m].sender \in Clients /\ Registered(msgs[m].sender)
                    /\ doc[msgs[m].sender] = msgs[m].doc

AddressInv ==
  \A c \in Clients, m \in MsgIds : OnItsWay(c, m) =>
    Registered(c) /\ msgs[m].doc = doc[c] /\ msgs[m].sender # c

BaseInv == TypeOK /\ PumpInv /\ RoomInv /\ MessageInv /\ AddressInv

\* Appending keeps the elements there were, under their numbers.
LEMMA AppendKeeps ==
  ASSUME NEW S, NEW s \in Seq(S), NEW e \in S
  PROVE  /\ Append(s, e) \in Seq(S)
         /\ Len(Append(s, e)) = Len(s) + 1
         /\ \A n \in 1 .. Len(s) : Append(s, e)[n] = s[n]
         /\ Append(s, e)[Len(s) + 1] = e
         /\ Len(s) \in Nat
OBVIOUS

\* Appending to a sequence and taking its head move one element.
LEMMA InSeqAppend ==
  ASSUME NEW S, NEW s \in Seq(S), NEW e \in S, NEW x
  PROVE  InSeq(x, Append(s, e)) <=> InSeq(x, s) \/ x = e
BY DEF InSeq

LEMMA InSeqTail ==
  ASSUME NEW S, NEW s \in Seq(S), s # <<>>, NEW x
  PROVE  InSeq(x, s) <=> InSeq(x, Tail(s)) \/ x = Head(s)
<1>1. Len(s) \in Nat \ {0} /\ Len(Tail(s)) = Len(s) - 1
  OBVIOUS
<1>2. \A i \in 1 .. Len(s) - 1 : Tail(s)[i] = s[i + 1]
  OBVIOUS
<1>3. ASSUME NEW i \in 1 .. Len(s), s[i] = x PROVE InSeq(x, Tail(s)) \/ x = Head(s)
  <2>1. CASE i = 1
    BY <1>3, <2>1
  <2>2. CASE i # 1
    <3>1. i - 1 \in 1 .. Len(Tail(s)) /\ Tail(s)[i - 1] = x
      BY <1>1, <1>2, <1>3, <2>2
    <3>2. QED
      BY <3>1 DEF InSeq
  <2>3. QED
    BY <2>1, <2>2
<1>4. ASSUME NEW i \in 1 .. Len(Tail(s)), Tail(s)[i] = x PROVE InSeq(x, s)
  <2>1. i + 1 \in 1 .. Len(s) /\ s[i + 1] = x
    BY <1>1, <1>2, <1>4
  <2>2. QED
    BY <2>1 DEF InSeq
<1>5. x = Head(s) => InSeq(x, s)
  <2>1. 1 \in 1 .. Len(s) /\ s[1] = Head(s)
    BY <1>1
  <2>2. QED
    BY <2>1 DEF InSeq
<1>6. QED
  BY <1>3, <1>4, <1>5 DEF InSeq

\* What a read pump makes of a frame is a message of its client's document.
LEMMA ReadMessage ==
  ASSUME TypeOK, PumpInv, NEW c \in Clients, NEW f \in Frames, Read(c, f)
  PROVE  /\ Decode(c, f) \in Message
         /\ Decode(c, f).doc = doc[c] /\ Decode(c, f).sender = c
         /\ msgs' \in Seq(Message)
         /\ Len(msgs) \in Nat /\ Len(msgs') = Len(msgs) + 1
         /\ MsgIds' = MsgIds \cup {Len(msgs) + 1} /\ Len(msgs) + 1 \notin MsgIds
         /\ \A m \in MsgIds : msgs'[m] = msgs[m]
         /\ msgs'[Len(msgs) + 1] = Decode(c, f)
<1>1. f.payload \in Payloads /\ f.type \in {"update", "awareness"}
  BY HubAssumption DEF FrameRecord
<1>2. doc[c] \in Docs
  BY DEF PumpInv, Read
<1>3. /\ Decode(c, f) \in Message
      /\ Decode(c, f).doc = doc[c] /\ Decode(c, f).sender = c
  BY <1>1, <1>2 DEF Decode, Message
<1> HIDE DEF Decode
<1>4. msgs \in Seq(Message) /\ msgs' = Append(msgs, Decode(c, f))
  BY DEF Read, TypeOK, HubTypeOK
<1>5. /\ msgs' \in Seq(Message)
      /\ Len(msgs) \in Nat /\ Len(msgs') = Len(msgs) + 1
      /\ \A m \in 1 .. Len(msgs) : msgs'[m] = msgs[m]
      /\ msgs'[Len(msgs) + 1] = Decode(c, f)
  BY <1>3, <1>4, AppendKeeps
<1>6. MsgIds' = MsgIds \cup {Len(msgs) + 1} /\ Len(msgs) + 1 \notin MsgIds
  BY <1>5 DEF MsgIds
<1>7. QED
  BY <1>3, <1>5, <1>6 DEF MsgIds

\* Once Run took a client in its document stays, and so do the messages.
Keeping ==
  /\ \A c \in Clients : Registered(c) => Registered(c)' /\ doc'[c] = doc[c]
  /\ MsgIds \subseteq MsgIds' /\ \A m \in MsgIds : msgs'[m] = msgs[m]

LEMMA StepKeeps == TypeOK /\ PumpInv /\ [Next]_vars => Keeping
<1> SUFFICES ASSUME TypeOK, PumpInv, [Next]_vars PROVE Keeping
  OBVIOUS
<1> USE DEF Keeping, Registered, MsgIds
<1>t. /\ sync \in [Clients -> {"none", "mongo", "redis", "offer", "over"}]
      /\ doc \in [Clients -> Docs \cup {NoDoc}]
  BY DEF TypeOK, HubTypeOK
<1>1. ASSUME NEW c \in Clients, HandleWebSocket(c) PROVE Keeping
  <2>1. ~Registered(c)
    BY <1>1 DEF HandleWebSocket, PumpInv
  <2>2. QED
    BY <1>t, <1>1, <2>1 DEF HandleWebSocket
<1>2. ASSUME NEW c \in Clients, NEW f \in Frames, Read(c, f) PROVE Keeping
  BY <1>2, ReadMessage DEF Read
<1>3. ASSUME NEW c \in Clients, Break(c) PROVE Keeping
  BY <1>3 DEF Break
<1>4. ASSUME NEW c \in Clients, ReaderStep(c) PROVE Keeping
  BY <1>t, <1>4 DEF ReaderStep, Register, Enqueue, ReadFails, Leave, CloseConn
<1>5. ASSUME NEW c \in Clients, WriterStep(c) PROVE Keeping
  BY <1>5 DEF WriterStep, WriteDone, WriteNext, PingFails
<1>6. ASSUME NEW c \in Clients, SyncStep(c) PROVE Keeping
  BY <1>t, <1>6 DEF SyncStep, SyncMongo, SyncRedis, SyncOffer
<1>7. ASSUME NEW c \in Clients, NEW m \in MsgIds, Delivery(c, m) PROVE Keeping
  BY <1>7 DEF Delivery, DeliverSend, DeliverDone, DeliverFull, Evict, EvictDone
<1>8. ASSUME NEW w \in Workers, StreamStep(w) PROVE Keeping
  BY <1>8 DEF StreamStep, StreamTake, StreamAppend, StreamRetry, StreamFails, Free
<1>9. CASE RunBroadcast
  BY <1>9 DEF RunBroadcast
<1>10. CASE UNCHANGED vars
  BY <1>10 DEF vars
<1> HIDE DEF Keeping, Registered, MsgIds
<1>11. QED
  BY <1>1, <1>2, <1>3, <1>4, <1>5, <1>6, <1>7, <1>8, <1>9, <1>10 DEF Next, HubNext, Quiet

LEMMA StepMessages == TypeOK /\ PumpInv /\ MessageInv /\ [Next]_vars => MessageInv'
<1> SUFFICES ASSUME TypeOK, PumpInv, MessageInv, [Next]_vars PROVE MessageInv'
  OBVIOUS
<1>1. ASSUME NEW c \in Clients, NEW f \in Frames, Read(c, f) PROVE MessageInv'
  <2>1. Registered(c)
    BY <1>1 DEF Read, PumpInv
  <2>2. UNCHANGED <<sync, doc>>
    BY <1>1 DEF Read
  <2>3. QED
    BY <1>1, <2>1, <2>2, ReadMessage DEF MessageInv, Registered
<1>2. CASE UNCHANGED msgs
  BY <1>2, StepKeeps DEF Keeping, MessageInv, MsgIds
<1>3. (\E c \in Clients, f \in Frames : Read(c, f)) \/ UNCHANGED msgs
  <2>1. ASSUME NEW c \in Clients,
               HandleWebSocket(c) \/ Break(c) \/ ReaderStep(c) \/ WriterStep(c)
               \/ SyncStep(c) \/ \E m \in MsgIds : Delivery(c, m)
        PROVE  UNCHANGED msgs
    BY <2>1 DEF HandleWebSocket, Break, ReaderStep, Register, Enqueue, ReadFails, Leave,
         CloseConn, WriterStep, WriteDone, WriteNext, PingFails, SyncStep, SyncMongo,
         SyncRedis, SyncOffer, Delivery, DeliverSend, DeliverDone, DeliverFull, Evict,
         EvictDone
  <2>2. ASSUME NEW w \in Workers, StreamStep(w) PROVE UNCHANGED msgs
    BY <2>2 DEF StreamStep, StreamTake, StreamAppend, StreamRetry, StreamFails, Free
  <2>3. RunBroadcast \/ UNCHANGED vars => UNCHANGED msgs
    BY DEF RunBroadcast, vars
  <2>4. QED
    BY <2>1, <2>2, <2>3 DEF Next, HubNext, Quiet
<1>4. QED
  BY <1>1, <1>2, <1>3

\* What is on its way to a client, or was, is a message there is.
LEMMA OnItsWayIds ==
  ASSUME TypeOK, NEW c \in Clients, NEW m \in MsgIds', OnItsWay(c, m)
  PROVE  m \in MsgIds
<1>1. m \in Nat \ {0}
  BY DEF MsgIds
<1>2. CASE <<c, m>> \in trying \cup evicting \cup owed
  BY <1>2 DEF TypeOK, HubTypeOK
<1>3. CASE InSeq(m, send[c])
  <2>1. send[c] \in Seq(MsgIds \cup {0})
    BY DEF TypeOK, HubTypeOK
  <2>2. \A i \in 1 .. Len(send[c]) : send[c][i] \in MsgIds \cup {0}
    BY <2>1
  <2>3. QED
    BY <1>1, <1>3, <2>2 DEF InSeq
<1>4. CASE m \in got[c]
  BY <1>1, <1>4 DEF TypeOK, HubTypeOK
<1>5. QED
  BY <1>2, <1>3, <1>4 DEF OnItsWay

LEMMA AddressKept ==
  ASSUME TypeOK, AddressInv, Keeping,
         \A c \in Clients, m \in MsgIds' : OnItsWay(c, m)' => OnItsWay(c, m)
  PROVE  AddressInv'
BY OnItsWayIds DEF AddressInv, Keeping

\* Run owes a message to the other clients of its document's room.
LEMMA TargetsAddressed ==
  ASSUME TypeOK, RoomInv, MessageInv, NEW m \in MsgIds, NEW c \in Targets(m)
  PROVE  c \in Clients /\ Registered(c) /\ msgs[m].doc = doc[c] /\ msgs[m].sender # c
<1>1. msgs[m].doc \in Docs
  <2>1. msgs \in Seq(Message) /\ m \in 1 .. Len(msgs)
    BY DEF TypeOK, HubTypeOK, MsgIds
  <2>2. msgs[m] \in Message
    BY <2>1
  <2>3. QED
    BY <2>2 DEF Message
<1>2. QED
  BY <1>1 DEF Targets, RoomInv, Joined

LEMMA StepAddress == BaseInv /\ [Next]_vars => AddressInv'
<1> SUFFICES ASSUME BaseInv, [Next]_vars PROVE AddressInv'
  OBVIOUS
<1>k. TypeOK /\ PumpInv /\ RoomInv /\ MessageInv /\ AddressInv /\ Keeping
  BY StepKeeps DEF BaseInv
<1>t. /\ send \in [Clients -> Seq(MsgIds \cup {0})] /\ got \in [Clients -> SUBSET (MsgIds \cup {0})]
      /\ broadcast \in Seq(MsgIds) /\ MsgIds \subseteq Nat \ {0}
  BY <1>k DEF TypeOK, HubTypeOK, MsgIds
<1>1. ASSUME NEW c \in Clients,
             \/ HandleWebSocket(c) \/ (\E f \in Frames : Read(c, f)) \/ Break(c)
             \/ ReaderStep(c) \/ SyncMongo(c) \/ SyncRedis(c)
      PROVE  AddressInv'
  <2>1. UNCHANGED <<trying, evicting, owed, send, got>>
    BY <1>1 DEF HandleWebSocket, Read, Break, ReaderStep, Register, Enqueue, ReadFails,
                Leave, CloseConn, SyncMongo, SyncRedis
  <2>2. QED
    BY <1>k, <2>1, AddressKept DEF OnItsWay
<1>2. ASSUME NEW c \in Clients, SyncOffer(c) PROVE AddressInv'
  <2>1. \A b \in Clients, m \in MsgIds' : InSeq(m, send'[b]) => InSeq(m, send[b])
    <3>1. MsgIds' = MsgIds
      BY <1>2 DEF SyncOffer, MsgIds
    <3>2. \A m \in MsgIds : InSeq(m, Append(send[c], 0)) => InSeq(m, send[c])
      BY <1>t, InSeqAppend
    <3>3. send'[c] \in {send[c], Append(send[c], 0)} /\ \A b \in Clients \ {c} : send'[b] = send[b]
      BY <1>2, <1>t DEF SyncOffer
    <3>4. QED
      BY <3>1, <3>2, <3>3
  <2>2. UNCHANGED <<trying, evicting, owed, got>>
    BY <1>2 DEF SyncOffer
  <2>3. QED
    BY <1>k, <2>1, <2>2, AddressKept DEF OnItsWay
<1>3. ASSUME NEW c \in Clients, WriteDone(c) \/ PingFails(c) PROVE AddressInv'
  BY <1>3, <1>k, AddressKept DEF OnItsWay, WriteDone, PingFails
<1>4. ASSUME NEW c \in Clients, WriteNext(c) PROVE AddressInv'
  <2>1. \A m : InSeq(m, send[c]) <=> InSeq(m, Tail(send[c])) \/ m = Head(send[c])
    BY <1>4, <1>t, InSeqTail DEF WriteNext
  <2>2. \A b \in Clients : send'[b] = IF b = c THEN Tail(send[c]) ELSE send[b]
    BY <1>4, <1>t DEF WriteNext
  <2>3. \A b \in Clients : got'[b] \subseteq IF b = c THEN got[c] \cup {Head(send[c])} ELSE got[b]
    BY <1>4, <1>t DEF WriteNext
  <2>4. UNCHANGED <<trying, evicting, owed>>
    BY <1>4 DEF WriteNext
  <2>5. \A b \in Clients, m \in MsgIds' : OnItsWay(b, m)' => OnItsWay(b, m)
    BY <2>1, <2>2, <2>3, <2>4 DEF OnItsWay
  <2>6. QED
    BY <1>k, <2>5, AddressKept
<1>5. ASSUME NEW c \in Clients, NEW n \in MsgIds, Delivery(c, n) PROVE AddressInv'
  <2>1. CASE DeliverSend(c, n)
    <3>1. \A m : InSeq(m, Append(send[c], n)) <=> InSeq(m, send[c]) \/ m = n
      BY <1>t, InSeqAppend
    <3>2. \A b \in Clients : send'[b] = IF b = c THEN Append(send[c], n) ELSE send[b]
      BY <2>1, <1>t DEF DeliverSend
    <3>3. <<c, n>> \in trying /\ trying' \subseteq trying /\ UNCHANGED <<evicting, owed, got>>
      BY <2>1 DEF DeliverSend
    <3>4. \A b \in Clients, m \in MsgIds' : OnItsWay(b, m)' => OnItsWay(b, m)
      BY <3>1, <3>2, <3>3 DEF OnItsWay
    <3>5. QED
      BY <1>k, <3>4, AddressKept
  <2>2. CASE DeliverDone(c, n) \/ DeliverFull(c, n) \/ Evict(c, n) \/ EvictDone(c, n)
    <3>1. trying' \cup evicting' \cup owed' \subseteq trying \cup evicting \cup owed
      BY <2>2 DEF DeliverDone, DeliverFull, Evict, EvictDone
    <3>2. UNCHANGED <<send, got>>
      BY <2>2 DEF DeliverDone, DeliverFull, Evict, EvictDone
    <3>3. \A b \in Clients, m \in MsgIds' : OnItsWay(b, m)' => OnItsWay(b, m)
      BY <3>1, <3>2 DEF OnItsWay
    <3>4. QED
      BY <1>k, <3>3, AddressKept
  <2>3. QED
    BY <1>5, <2>1, <2>2 DEF Delivery
<1>6. ASSUME NEW w \in Workers, StreamStep(w) PROVE AddressInv'
  BY <1>6, <1>k, AddressKept DEF OnItsWay, StreamStep, StreamTake, StreamAppend,
     StreamRetry, StreamFails, Free
<1>7. CASE RunBroadcast
  <2> DEFINE h == Head(broadcast)
  <2>1. h \in MsgIds
    BY <1>7, <1>t DEF RunBroadcast
  <2>2. /\ trying' = trying \cup (Targets(h) \X {h}) /\ owed' = owed \cup (Targets(h) \X {h})
        /\ UNCHANGED <<evicting, send, got, sync, doc, msgs>>
    BY <1>7 DEF RunBroadcast
  <2> HIDE DEF h
  <2>3. ASSUME NEW c \in Clients, NEW m \in MsgIds', OnItsWay(c, m)'
        PROVE  (Registered(c) /\ msgs[m].doc = doc[c] /\ msgs[m].sender # c)'
    <3>1. OnItsWay(c, m) \/ (m = h /\ c \in Targets(h))
      BY <2>2, <2>3 DEF OnItsWay
    <3>2. m \in MsgIds
      BY <2>2 DEF MsgIds
    <3>3. Registered(c) /\ msgs[m].doc = doc[c] /\ msgs[m].sender # c
      BY <1>k, <2>1, <3>1, <3>2, TargetsAddressed DEF AddressInv
    <3>4. QED
      BY <2>2, <3>3 DEF Registered
  <2>4. QED
    BY <2>3 DEF AddressInv
<1>8. CASE UNCHANGED vars
  BY <1>8, <1>k, AddressKept DEF OnItsWay, vars
<1>9. QED
  BY <1>1, <1>2, <1>3, <1>4, <1>5, <1>6, <1>7, <1>8
     DEF Next, HubNext, Quiet, SyncStep, WriterStep

LEMMA StepRooms == BaseInv /\ [Next]_vars => RoomInv'
<1> SUFFICES ASSUME BaseInv, [Next]_vars PROVE RoomInv'
  OBVIOUS
<1>k. TypeOK /\ PumpInv /\ RoomInv /\ AddressInv /\ Keeping
  BY StepKeeps DEF BaseInv
<1>t. /\ sync \in [Clients -> {"none", "mongo", "redis", "offer", "over"}]
      /\ doc \in [Clients -> Docs \cup {NoDoc}]
  BY <1>k DEF TypeOK, HubTypeOK
<1> USE DEF Registered
<1>1. ASSUME NEW c \in Clients, HandleWebSocket(c) PROVE RoomInv'
  <2>1. ~Registered(c)
    BY <1>k, <1>1 DEF HandleWebSocket, PumpInv
  <2>2. QED
    BY <1>t, <1>1, <2>1, <1>k, RoomsKept DEF HandleWebSocket
<1>2. ASSUME NEW c \in Clients, NEW f \in Frames, Read(c, f) PROVE RoomInv'
  BY <1>2, <1>k, RoomsKept DEF Read
<1>3. ASSUME NEW c \in Clients, Break(c) PROVE RoomInv'
  BY <1>3, <1>k, RoomsKept DEF Break
<1>4. ASSUME NEW c \in Clients, ReaderStep(c) PROVE RoomInv'
  <2>1. CASE Register(c)
    BY <1>k, <2>1, RegisterRooms
  <2>2. CASE Enqueue(c)
    BY <2>2, <1>k, RoomsKept DEF Enqueue
  <2>3. CASE ReadFails(c)
    BY <2>3, <1>k, RoomsKept DEF ReadFails
  <2>4. CASE Leave(c)
    <3>1. Registered(c) /\ doc[c] \in Docs
      BY <1>k, <2>4 DEF Leave, PumpInv
    <3>2. QED
      BY <1>k, <2>4, <3>1, UnregisterRooms DEF Leave
  <2>5. CASE CloseConn(c)
    BY <2>5, <1>k, RoomsKept DEF CloseConn
  <2>6. QED
    BY <1>4, <2>1, <2>2, <2>3, <2>4, <2>5 DEF ReaderStep
<1>5. ASSUME NEW c \in Clients, WriterStep(c) PROVE RoomInv'
  BY <1>5, <1>k, RoomsKept DEF WriterStep, WriteDone, WriteNext, PingFails
<1>6. ASSUME NEW c \in Clients, SyncStep(c) PROVE RoomInv'
  BY <1>t, <1>6, <1>k, RoomsKept DEF SyncStep, SyncMongo, SyncRedis, SyncOffer
<1>7. ASSUME NEW c \in Clients, NEW m \in MsgIds, Delivery(c, m) PROVE RoomInv'
  <2>1. CASE DeliverSend(c, m) \/ DeliverDone(c, m) \/ DeliverFull(c, m) \/ EvictDone(c, m)
    BY <2>1, <1>k, RoomsKept DEF DeliverSend, DeliverDone, DeliverFull, EvictDone
  <2>2. CASE Evict(c, m)
    <3>1. Registered(c) /\ doc[c] \in Docs
      BY <2>2, <1>k DEF Evict, AddressInv, OnItsWay, PumpInv
    <3>2. QED
      BY <1>k, <2>2, <3>1, UnregisterRooms DEF Evict
  <2>3. QED
    BY <1>7, <2>1, <2>2 DEF Delivery
<1>8. ASSUME NEW w \in Workers, StreamStep(w) PROVE RoomInv'
  BY <1>8, <1>k, RoomsKept DEF StreamStep, StreamTake, StreamAppend, StreamRetry, StreamFails, Free
<1>9. CASE RunBroadcast
  BY <1>9, <1>k, RoomsKept DEF RunBroadcast
<1>10. CASE UNCHANGED vars
  BY <1>10, <1>k, RoomsKept DEF vars
<1>11. QED
  BY <1>1, <1>2, <1>3, <1>4, <1>5, <1>6, <1>7, <1>8, <1>9, <1>10 DEF Next, HubNext, Quiet

-----------------------------------------------------------------------------
(***************************************************************************)
(* Types.                                                                  *)
(***************************************************************************)

\* XADD keeps the types of the stores, and the entries there were.
LEMMA XAddType ==
  ASSUME StoreTypeOK, NEW d \in Docs, NEW p \in Payloads, XAdd(d, p)
  PROVE  /\ StoreTypeOK'
         /\ Len(xadds) \in Nat /\ Len(xadds') = Len(xadds) + 1
         /\ EntryIds' = EntryIds \cup {Len(xadds) + 1}
         /\ \A n \in EntryIds : xadds'[n] = xadds[n]
         /\ xadds'[Len(xadds) + 1].doc = d /\ xadds'[Len(xadds) + 1].payload = p
<1> DEFINE e == [doc |-> d, payload |-> p, at |-> now]
<1>1. e \in XAddRecord /\ xadds \in Seq(XAddRecord) /\ xadds' = Append(xadds, e)
  BY DEF XAdd, StoreTypeOK, XAddRecord
<1>2. /\ xadds' \in Seq(XAddRecord)
      /\ Len(xadds) \in Nat /\ Len(xadds') = Len(xadds) + 1
      /\ \A n \in EntryIds : xadds'[n] = xadds[n]
      /\ xadds'[Len(xadds) + 1] = e
  BY <1>1, AppendKeeps DEF EntryIds
<1>3. EntryIds' = EntryIds \cup {Len(xadds) + 1}
  BY <1>2 DEF EntryIds
<1> HIDE DEF e
<1>4. stream' \in [Docs -> SUBSET EntryIds']
  BY <1>3 DEF XAdd, StoreTypeOK
<1>5. yjs' \in [Docs -> Seq(SUBSET EntryIds')]
  <2>1. Seq(SUBSET EntryIds) \subseteq Seq(SUBSET EntryIds')
    BY <1>3
  <2>2. QED
    BY <2>1 DEF XAdd, StoreTypeOK
<1>6. xadds'[Len(xadds) + 1].doc = d /\ xadds'[Len(xadds) + 1].payload = p
  BY <1>2 DEF e
<1>7. ASSUME NEW c \in Docs, NEW n \in stream'[c]
      PROVE  xadds'[n].doc = c
  <2>1. stream[c] \subseteq EntryIds /\ \A m \in stream[c] : xadds[m].doc = c
    BY DEF StoreTypeOK
  <2>2. n \in stream[c] \/ (c = d /\ n = Len(xadds) + 1)
    BY DEF XAdd, StoreTypeOK
  <2>3. QED
    BY <1>2, <1>6, <2>1, <2>2
<1>8. StoreTypeOK'
  <2>1. docs' = docs /\ now' = now /\ yjs' = yjs
    BY DEF XAdd
  <2>2. QED
    BY <1>2, <1>4, <1>5, <1>7, <2>1 DEF StoreTypeOK
<1>9. QED
  BY <1>2, <1>3, <1>6, <1>8

LEMMA StoresSame ==
  ASSUME StoreTypeOK, UNCHANGED storeVars PROVE StoreTypeOK' /\ EntryIds' = EntryIds
BY DEF StoreTypeOK, EntryIds, XAddRecord

\* A channel loses its first message, or gets one more while it has room.
LEMMA TailType ==
  ASSUME NEW S, NEW s \in Seq(S), s # <<>>, NEW n \in Nat, Len(s) <= n
  PROVE  Head(s) \in S /\ Tail(s) \in Seq(S) /\ Len(Tail(s)) <= n
OBVIOUS

LEMMA AppendType ==
  ASSUME NEW S, NEW s \in Seq(S), NEW e \in S, NEW n \in Nat, Len(s) < n
  PROVE  Append(s, e) \in Seq(S) /\ Len(Append(s, e)) <= n
OBVIOUS

LEMMA InitBase == Init => BaseInv
<1> SUFFICES ASSUME Init PROVE BaseInv
  OBVIOUS
<1>1. EntryIds = {} /\ MsgIds = {}
  BY DEF Init, StoreInit, HubInit, EntryIds, MsgIds
<1>2. StoreTypeOK
  BY <1>1 DEF Init, StoreInit, StoreTypeOK
<1>3. HubTypeOK
  BY <1>1, HubAssumption DEF Init, HubInit, HubTypeOK
<1>4. PumpInv /\ MessageInv /\ AddressInv
  BY <1>1 DEF Init, HubInit, PumpInv, Registered, MessageInv, AddressInv
<1>5. RoomInv
  <2>1. Joined = {} /\ rooms = {} /\ \A d \in Docs : members[d] = {}
    BY DEF Init, HubInit, Joined, Registered
  <2>2. conns = 0 /\ roomGauge = 0 /\ \A c \in Clients : closes[c] = 0
    BY DEF Init, HubInit
  <2>3. QED
    BY <2>1, <2>2, FS_EmptySet DEF RoomInv
<1>6. QED
  BY <1>2, <1>3, <1>4, <1>5 DEF BaseInv, TypeOK

\* The types, by what belongs together.
ConnTypeOK ==
  /\ doc \in [Clients -> Docs \cup {NoDoc}]
  /\ reader \in [Clients -> {"new", "registering", "reading", "sending",
                             "leaving", "closing", "closed"}]
  /\ writer \in [Clients -> {"none", "running", "exited"}]
  /\ conn \in [Clients -> {"none", "open", "broken", "closed"}]
RoomTypeOK ==
  /\ closes \in [Clients -> Nat] /\ rooms \subseteq Docs
  /\ members \in [Docs -> SUBSET Clients]
  /\ conns \in Nat /\ roomGauge \in Nat
InTypeOK ==
  /\ msgs \in Seq(Message)
  /\ holding \in [Clients -> MsgIds \cup {0}]
  /\ broadcast \in Seq(MsgIds) /\ Len(broadcast) <= BroadcastCap
  /\ streamCh \in Seq(MsgIds) /\ Len(streamCh) <= StreamCap
  /\ worker \in [Workers -> MsgIds \cup {0}]
  /\ tries \in [Workers -> 0 .. MaxRetries]
  /\ origin \in Seq(Attempt) /\ missed \subseteq MsgIds
DeliveryTypeOK ==
  /\ trying \subseteq Clients \X MsgIds /\ evicting \subseteq Clients \X MsgIds
  /\ owed \subseteq Clients \X MsgIds
SendTypeOK ==
  /\ send \in [Clients -> Seq(MsgIds \cup {0})]
  /\ \A c \in Clients : Len(send[c]) <= SendCap
  /\ got \in [Clients -> SUBSET (MsgIds \cup {0})]
SyncTypeOK ==
  /\ sync \in [Clients -> {"none", "mongo", "redis", "offer", "over"}]
  /\ buf \in [Clients -> SUBSET EntryIds]

LEMMA TypesTogether ==
  HubTypeOK <=> /\ ConnTypeOK /\ RoomTypeOK /\ InTypeOK
                /\ DeliveryTypeOK /\ SendTypeOK /\ SyncTypeOK
BY DEF HubTypeOK, ConnTypeOK, RoomTypeOK, InTypeOK, DeliveryTypeOK, SendTypeOK, SyncTypeOK

LEMMA TypesTogetherNext ==
  HubTypeOK' <=> /\ ConnTypeOK' /\ RoomTypeOK' /\ InTypeOK'
                 /\ DeliveryTypeOK' /\ SendTypeOK' /\ SyncTypeOK'
BY DEF HubTypeOK, ConnTypeOK, RoomTypeOK, InTypeOK, DeliveryTypeOK, SendTypeOK, SyncTypeOK

\* A step keeps the types of what it leaves alone.
LEMMA TypesKept ==
  ASSUME HubTypeOK, MsgIds' = MsgIds
  PROVE  /\ UNCHANGED connVars => ConnTypeOK'
         /\ UNCHANGED roomVars => RoomTypeOK'
         /\ UNCHANGED inVars => InTypeOK'
         /\ UNCHANGED <<trying, evicting, owed>> => DeliveryTypeOK'
         /\ UNCHANGED <<send, got>> => SendTypeOK'
         /\ UNCHANGED syncVars /\ EntryIds \subseteq EntryIds' => SyncTypeOK'
<1> USE TypesTogether
<1>1. UNCHANGED connVars => ConnTypeOK'
  BY DEF ConnTypeOK
<1>2. UNCHANGED roomVars => RoomTypeOK'
  BY DEF RoomTypeOK
<1>3. UNCHANGED inVars => InTypeOK'
  BY DEF InTypeOK, Message, Attempt
<1>4. UNCHANGED <<trying, evicting, owed>> => DeliveryTypeOK'
  BY DEF DeliveryTypeOK
<1>5. UNCHANGED <<send, got>> => SendTypeOK'
  BY DEF SendTypeOK
<1>6. UNCHANGED syncVars /\ EntryIds \subseteq EntryIds' => SyncTypeOK'
  BY DEF SyncTypeOK
<1>7. QED
  BY <1>1, <1>2, <1>3, <1>4, <1>5, <1>6

\* What a stream writer sends to Redis: an XADD of the update it has.
LEMMA SentType ==
  ASSUME StoreTypeOK, HubTypeOK, NEW w \in Workers,
         StreamAppend(w) \/ StreamRetry(w) \/ StreamFails(w)
  PROVE  /\ worker[w] \in MsgIds /\ msgs[worker[w]].doc \in Docs
         /\ msgs[worker[w]].payload \in Payloads
         /\ origin' \in Seq(Attempt)
         /\ Execute(w) \/ UNCHANGED <<storeVars, origin>>
         /\ \/ UNCHANGED storeVars
            \/ XAdd(msgs[worker[w]].doc, msgs[worker[w]].payload)
<1>1. worker[w] \in MsgIds /\ msgs \in Seq(Message) /\ tries[w] \in 0 .. MaxRetries
  BY DEF StreamAppend, StreamRetry, StreamFails, Free, HubTypeOK
<1>2. msgs[worker[w]] \in Message
  BY <1>1 DEF MsgIds
<1>3. Execute(w) \/ UNCHANGED <<storeVars, origin>>
  BY DEF StreamAppend, StreamRetry, StreamFails
<1>4. origin' \in Seq(Attempt)
  <2>1. [msg |-> worker[w], try |-> tries[w]] \in Attempt
    BY <1>1 DEF Attempt
  <2>2. origin \in Seq(Attempt)
    BY DEF HubTypeOK
  <2> DEFINE e == [msg |-> worker[w], try |-> tries[w]]
  <2>3. e \in Attempt
    BY <2>1
  <2>4. origin' = Append(origin, e) \/ origin' = origin
    BY <1>3 DEF Execute
  <2> HIDE DEF e
  <2>5. Append(origin, e) \in Seq(Attempt)
    BY <2>2, <2>3, AppendKeeps
  <2>6. QED
    BY <2>2, <2>4, <2>5
<1>5. QED
  BY <1>1, <1>2, <1>3, <1>4 DEF Message, Execute

LEMMA StepType == BaseInv /\ [Next]_vars => TypeOK'
<1> SUFFICES ASSUME BaseInv, [Next]_vars PROVE TypeOK'
  OBVIOUS
<1>k. StoreTypeOK /\ HubTypeOK /\ TypeOK /\ PumpInv /\ RoomInv /\ AddressInv
  BY DEF BaseInv, TypeOK
<1>t. ConnTypeOK /\ RoomTypeOK /\ InTypeOK /\ DeliveryTypeOK /\ SendTypeOK /\ SyncTypeOK
  BY <1>k, TypesTogether
<1>c. BroadcastCap \in Nat /\ StreamCap \in Nat /\ SendCap \in Nat
  BY HubAssumption
<1>s. UNCHANGED storeVars => StoreTypeOK' /\ EntryIds' = EntryIds
  BY <1>k, StoresSame
<1>m. UNCHANGED msgs => MsgIds' = MsgIds
  BY DEF MsgIds
<1> USE TypesTogetherNext
<1>1. ASSUME NEW c \in Clients, HandleWebSocket(c) PROVE TypeOK'
  <2>1. UNCHANGED <<storeVars, roomVars, inVars, outVars, syncVars>>
    BY <1>1 DEF HandleWebSocket
  <2>2. ConnTypeOK'
    BY <1>t, <1>1 DEF HandleWebSocket, ConnTypeOK
  <2>3. QED
    BY <1>k, <1>s, <1>m, <2>1, <2>2, TypesKept DEF TypeOK
<1>2. ASSUME NEW c \in Clients, NEW f \in Frames, Read(c, f) PROVE TypeOK'
  <2>1. /\ MsgIds \subseteq MsgIds' /\ msgs' \in Seq(Message) /\ Len(msgs) + 1 \in MsgIds'
    BY <1>k, <1>2, ReadMessage
  <2>2. UNCHANGED <<storeVars, doc, writer, conn, roomVars, broadcast, streamCh, worker,
                    tries, origin, missed, outVars, syncVars>>
    BY <1>2 DEF Read
  <2>3. ConnTypeOK'
    BY <1>t, <1>2 DEF Read, ConnTypeOK
  <2>4. RoomTypeOK' /\ DeliveryTypeOK' /\ SyncTypeOK'
    BY <1>t, <1>s, <2>1, <2>2 DEF RoomTypeOK, DeliveryTypeOK, SyncTypeOK
  <2>5. InTypeOK'
    <3>1. holding' \in [Clients -> MsgIds' \cup {0}]
      BY <1>t, <1>2, <2>1 DEF Read, InTypeOK
    <3>2. Seq(MsgIds) \subseteq Seq(MsgIds') /\ Seq(Attempt) \subseteq Seq(Attempt')
      <4>1. Attempt \subseteq Attempt'
        BY <2>1 DEF Attempt
      <4>2. QED
        BY <2>1, <4>1
    <3>3. QED
      BY <1>t, <2>1, <2>2, <3>1, <3>2 DEF InTypeOK
  <2>6. SendTypeOK'
    <3>1. Seq(MsgIds \cup {0}) \subseteq Seq(MsgIds' \cup {0})
      BY <2>1
    <3>2. QED
      BY <1>t, <2>1, <2>2, <3>1 DEF SendTypeOK
  <2>7. QED
    BY <1>s, <2>2, <2>3, <2>4, <2>5, <2>6 DEF TypeOK
<1>3. ASSUME NEW c \in Clients, Break(c) PROVE TypeOK'
  <2>1. ConnTypeOK'
    BY <1>t, <1>3 DEF Break, ConnTypeOK
  <2>2. QED
    BY <1>k, <1>s, <1>m, <1>3, <2>1, TypesKept DEF Break, TypeOK
<1>4. ASSUME NEW c \in Clients, ReaderStep(c) PROVE TypeOK'
  <2>1. CASE Register(c)
    <3>1. ~Registered(c) /\ doc[c] \in Docs
      BY <1>k, <2>1 DEF Register, PumpInv
    <3>2. ConnTypeOK' /\ SyncTypeOK'
      BY <1>t, <1>s, <2>1 DEF Register, ConnTypeOK, SyncTypeOK
    <3>3. IsFiniteSet(rooms')
      BY <1>k, <2>1, FS_AddElement DEF Register, RoomInv
    <3>4. roomGauge' \in Nat
      BY <2>1, <3>3, FS_CardinalityType DEF Register
    <3>5. RoomTypeOK'
      BY <1>t, <2>1, <3>1, <3>4 DEF Register, RoomTypeOK
    <3>6. QED
      BY <1>k, <1>s, <1>m, <2>1, <3>2, <3>5, TypesKept DEF Register, TypeOK
  <2>2. CASE Enqueue(c)
    <3>1. holding[c] \in MsgIds
      BY <1>k, <1>t, <2>2 DEF Enqueue, PumpInv, InTypeOK
    <3>2. Append(broadcast, holding[c]) \in Seq(MsgIds) /\ Len(broadcast') <= BroadcastCap
      BY <1>t, <1>c, <2>2, <3>1, AppendType DEF Enqueue, InTypeOK
    <3>3. ConnTypeOK'
      BY <1>t, <2>2 DEF Enqueue, ConnTypeOK
    <3>4. InTypeOK'
      BY <1>t, <1>m, <2>2, <3>2 DEF Enqueue, InTypeOK, Message, Attempt
    <3>5. QED
      BY <1>k, <1>s, <1>m, <2>2, <3>3, <3>4, TypesKept DEF Enqueue, TypeOK
  <2>3. CASE ReadFails(c) \/ CloseConn(c)
    <3>1. ConnTypeOK'
      BY <1>t, <2>3 DEF ReadFails, CloseConn, ConnTypeOK
    <3>2. QED
      BY <1>k, <1>s, <1>m, <2>3, <3>1, TypesKept DEF ReadFails, CloseConn, TypeOK
  <2>4. CASE Leave(c)
    <3>1. Registered(c) /\ doc[c] \in Docs
      BY <1>k, <2>4 DEF Leave, PumpInv
    <3>2. RoomTypeOK'
      BY <1>k, <2>4, <3>1, UnregisterRooms DEF Leave, RoomTypeOK
    <3>3. ConnTypeOK'
      BY <1>t, <2>4 DEF Leave, ConnTypeOK
    <3>4. QED
      BY <1>k, <1>s, <1>m, <2>4, <3>2, <3>3, TypesKept DEF Leave, TypeOK
  <2>5. QED
    BY <1>4, <2>1, <2>2, <2>3, <2>4 DEF ReaderStep
<1>5. ASSUME NEW c \in Clients, WriterStep(c) PROVE TypeOK'
  <2>1. CASE WriteDone(c) \/ PingFails(c)
    <3>1. ConnTypeOK'
      BY <1>t, <2>1 DEF WriteDone, PingFails, ConnTypeOK
    <3>2. QED
      BY <1>k, <1>s, <1>m, <2>1, <3>1, TypesKept DEF WriteDone, PingFails, TypeOK
  <2>2. CASE WriteNext(c)
    <3>1. /\ Head(send[c]) \in MsgIds \cup {0} /\ Tail(send[c]) \in Seq(MsgIds \cup {0})
          /\ Len(Tail(send[c])) <= SendCap
      BY <1>t, <1>c, <2>2, TailType DEF WriteNext, SendTypeOK
    <3>2. SendTypeOK'
      BY <1>t, <1>m, <2>2, <3>1 DEF WriteNext, SendTypeOK
    <3>3. QED
      BY <1>k, <1>s, <1>m, <2>2, <3>2, TypesKept DEF WriteNext, TypeOK
  <2>3. QED
    BY <1>5, <2>1, <2>2 DEF WriterStep
<1>6. ASSUME NEW c \in Clients, SyncStep(c) PROVE TypeOK'
  <2>1. CASE SyncMongo(c) \/ SyncRedis(c)
    <3>1. doc[c] \in Docs
      BY <1>k, <2>1 DEF SyncMongo, SyncRedis, PumpInv, Registered
    <3>2. Written(doc[c]) \subseteq EntryIds /\ stream[doc[c]] \subseteq EntryIds
      BY <1>k, <3>1 DEF StoreTypeOK, Written
    <3>3. SyncTypeOK'
      BY <1>t, <1>s, <2>1, <3>2 DEF SyncMongo, SyncRedis, SyncTypeOK
    <3>4. QED
      BY <1>k, <1>s, <1>m, <2>1, <3>3, TypesKept DEF SyncMongo, SyncRedis, TypeOK
  <2>2. CASE SyncOffer(c)
    <3>1. Len(send[c]) < SendCap =>
            Append(send[c], 0) \in Seq(MsgIds \cup {0}) /\ Len(Append(send[c], 0)) <= SendCap
      BY <1>t, <1>c, AppendType DEF SendTypeOK
    <3>2. SendTypeOK'
      BY <1>t, <1>m, <2>2, <3>1 DEF SyncOffer, SendTypeOK
    <3>3. SyncTypeOK'
      BY <1>t, <1>s, <2>2 DEF SyncOffer, SyncTypeOK
    <3>4. QED
      BY <1>k, <1>s, <1>m, <2>2, <3>2, <3>3, TypesKept DEF SyncOffer, TypeOK
  <2>3. QED
    BY <1>6, <2>1, <2>2 DEF SyncStep
<1>7. ASSUME NEW c \in Clients, NEW m \in MsgIds, Delivery(c, m) PROVE TypeOK'
  <2>1. CASE DeliverSend(c, m)
    <3>1. Append(send[c], m) \in Seq(MsgIds \cup {0}) /\ Len(Append(send[c], m)) <= SendCap
      BY <1>t, <1>c, <2>1, AppendType DEF DeliverSend, SendTypeOK
    <3>2. SendTypeOK' /\ DeliveryTypeOK'
      BY <1>t, <1>m, <2>1, <3>1 DEF DeliverSend, SendTypeOK, DeliveryTypeOK
    <3>3. QED
      BY <1>k, <1>s, <1>m, <2>1, <3>2, TypesKept DEF DeliverSend, TypeOK
  <2>2. CASE DeliverDone(c, m) \/ DeliverFull(c, m) \/ EvictDone(c, m)
    <3>1. DeliveryTypeOK'
      BY <1>t, <1>m, <2>2 DEF DeliverDone, DeliverFull, EvictDone, DeliveryTypeOK
    <3>2. QED
      BY <1>k, <1>s, <1>m, <2>2, <3>1, TypesKept
         DEF DeliverDone, DeliverFull, EvictDone, TypeOK
  <2>3. CASE Evict(c, m)
    <3>1. Registered(c) /\ doc[c] \in Docs
      BY <2>3, <1>k DEF Evict, AddressInv, OnItsWay, PumpInv
    <3>2. RoomTypeOK'
      BY <1>k, <2>3, <3>1, UnregisterRooms DEF Evict, RoomTypeOK
    <3>3. DeliveryTypeOK'
      BY <1>t, <1>m, <2>3 DEF Evict, DeliveryTypeOK
    <3>4. QED
      BY <1>k, <1>s, <1>m, <2>3, <3>2, <3>3, TypesKept DEF Evict, TypeOK
  <2>4. QED
    BY <1>7, <2>1, <2>2, <2>3 DEF Delivery
<1>8. ASSUME NEW w \in Workers, StreamStep(w) PROVE TypeOK'
  <2>1. CASE StreamTake(w)
    <3>1. /\ Head(streamCh) \in MsgIds /\ Tail(streamCh) \in Seq(MsgIds)
          /\ Len(Tail(streamCh)) <= StreamCap
      BY <1>t, <1>c, <2>1, TailType DEF StreamTake, InTypeOK
    <3>2. InTypeOK'
      BY <1>t, <1>m, <2>1, <3>1 DEF StreamTake, InTypeOK, Message, Attempt
    <3>3. QED
      BY <1>k, <1>s, <1>m, <2>1, <3>2, TypesKept DEF StreamTake, TypeOK
  <2>2. CASE StreamAppend(w) \/ StreamRetry(w) \/ StreamFails(w)
    <3>1. /\ StoreTypeOK' /\ EntryIds \subseteq EntryIds'
          /\ origin' \in Seq(Attempt)
      BY <1>k, <1>s, <2>2, SentType, XAddType
    <3>2. InTypeOK'
      <4>1. UNCHANGED <<msgs, holding, broadcast, streamCh>>
        BY <2>2 DEF StreamAppend, StreamRetry, StreamFails
      <4>2. worker' \in [Workers -> MsgIds \cup {0}] /\ missed' \subseteq MsgIds
        BY <1>t, <2>2 DEF StreamAppend, StreamRetry, StreamFails, Free, InTypeOK
      <4>3. tries' \in [Workers -> 0 .. MaxRetries]
        <5>1. /\ tries \in [Workers -> 0 .. MaxRetries] /\ MaxRetries \in Nat
              /\ tries[w] \in 0 .. MaxRetries
          BY <1>t, HubAssumption DEF InTypeOK
        <5>2. \/ tries' = [tries EXCEPT ![w] = 0]
              \/ tries' = [tries EXCEPT ![w] = @ + 1] /\ tries[w] < MaxRetries
          BY <2>2 DEF StreamAppend, StreamRetry, StreamFails, Free
        <5>3. 0 \in 0 .. MaxRetries /\ (tries[w] < MaxRetries => tries[w] + 1 \in 0 .. MaxRetries)
          BY <5>1
        <5>4. QED
          BY <5>1, <5>2, <5>3
      <4>4. Attempt' = Attempt
        BY <1>m, <4>1 DEF Attempt
      <4>5. QED
        BY <1>t, <1>m, <3>1, <4>1, <4>2, <4>3, <4>4 DEF InTypeOK
    <3>3. UNCHANGED <<msgs, connVars, roomVars, outVars, syncVars>>
      BY <2>2 DEF StreamAppend, StreamRetry, StreamFails
    <3>4. QED
      BY <1>k, <1>m, <3>1, <3>2, <3>3, TypesKept DEF TypeOK
  <2>3. QED
    BY <1>8, <2>1, <2>2 DEF StreamStep
<1>9. CASE RunBroadcast
  <2> DEFINE h == Head(broadcast)
  <2>1. /\ h \in MsgIds /\ Tail(broadcast) \in Seq(MsgIds)
        /\ Len(Tail(broadcast)) <= BroadcastCap
    BY <1>t, <1>c, <1>9, TailType DEF RunBroadcast, InTypeOK
  <2>2. UNCHANGED <<storeVars, connVars, roomVars, msgs, holding, worker, tries, origin,
                    evicting, send, got, syncVars>>
    BY <1>9 DEF RunBroadcast
  <2>3. /\ trying' = trying \cup (Targets(h) \X {h}) /\ owed' = owed \cup (Targets(h) \X {h})
        /\ broadcast' = Tail(broadcast)
        /\ streamCh' = streamCh \/ (Len(streamCh) < StreamCap /\ streamCh' = Append(streamCh, h))
        /\ missed' \subseteq missed \cup {h}
    BY <1>9 DEF RunBroadcast
  <2> HIDE DEF h
  <2>4. Targets(h) \subseteq Clients
    BY <1>k, <2>1, TargetsAddressed DEF BaseInv
  <2>5. DeliveryTypeOK'
    BY <1>t, <1>m, <2>1, <2>2, <2>3, <2>4 DEF DeliveryTypeOK
  <2>6. streamCh' \in Seq(MsgIds) /\ Len(streamCh') <= StreamCap
    BY <1>t, <1>c, <2>1, <2>3, AppendType DEF InTypeOK
  <2>7. InTypeOK'
    BY <1>t, <1>m, <2>1, <2>2, <2>3, <2>6 DEF InTypeOK, Message, Attempt
  <2>8. QED
    BY <1>k, <1>s, <1>m, <2>2, <2>5, <2>7, TypesKept DEF TypeOK
<1>10. CASE UNCHANGED vars
  BY <1>k, <1>s, <1>m, <1>10, TypesKept DEF vars, TypeOK
<1>11. QED
  BY <1>1, <1>2, <1>3, <1>4, <1>5, <1>6, <1>7, <1>8, <1>9, <1>10 DEF Next, HubNext, Quiet

LEMMA StepBase == BaseInv /\ [Next]_vars => BaseInv'
BY StepType, StepPump, StepRooms, StepMessages, StepAddress DEF BaseInv

LEMMA Base == Spec => []BaseInv
BY InitBase, StepBase, PTL DEF Spec

\* Every variable keeps its type: no channel ever holds more than its
\* capacity, and neither gauge goes below zero.
THEOREM TypeCorrect == Spec => []TypeOK
<1>1. BaseInv => TypeOK
  BY DEF BaseInv
<1>2. QED
  BY <1>1, Base, PTL

\* A client Run took in is in the room of its document until its done channel
\* is closed, and in no room after that.
THEOREM DoneMeansLeft == Spec => []DoneIffLeft
<1>1. BaseInv => DoneIffLeft
  <2>1. SUFFICES ASSUME BaseInv, NEW c \in Clients, Registered(c)
                 PROVE  c \in members[doc[c]] <=> ~Done(c)
    BY DEF DoneIffLeft
  <2>2. doc[c] \in Docs
    BY <2>1 DEF BaseInv, PumpInv
  <2>3. QED
    BY <2>1, <2>2 DEF BaseInv, RoomInv, Joined
<1>2. QED
  BY <1>1, Base, PTL

\* ws_active_connections and ws_active_rooms are the numbers of clients in
\* rooms and of rooms, and a room has a key as long as it has a client.
THEOREM GaugesRight == Spec => []GaugesExact
<1>1. BaseInv => GaugesExact
  <2> SUFFICES ASSUME BaseInv PROVE GaugesExact
    OBVIOUS
  <2>1. UNION {members[d] : d \in Docs} = Joined
    <3>1. \A c \in Joined : doc[c] \in Docs
      BY DEF BaseInv, PumpInv, Joined
    <3>2. \A d \in Docs : members[d] = {c \in Joined : doc[c] = d}
      BY DEF BaseInv, RoomInv
    <3>3. QED
      BY <3>1, <3>2
  <2>2. QED
    BY <2>1 DEF BaseInv, RoomInv, GaugesExact
<1>2. QED
  BY <1>1, Base, PTL

-----------------------------------------------------------------------------
(***************************************************************************)
(* The stores, as the hub sees them.                                       *)
(***************************************************************************)

\* All the hub does to the stores is to append an update of a document to its
\* stream.
LEMMA StepStores ==
  BaseInv /\ [Next]_vars =>
    UNCHANGED storeVars \/ \E d \in Docs, p \in Payloads : XAdd(d, p)
<1> SUFFICES ASSUME BaseInv, [Next]_vars
             PROVE  UNCHANGED storeVars \/ \E d \in Docs, p \in Payloads : XAdd(d, p)
  OBVIOUS
<1>1. ASSUME NEW c \in Clients,
             \/ HandleWebSocket(c) \/ (\E f \in Frames : Read(c, f)) \/ Break(c)
             \/ ReaderStep(c) \/ WriterStep(c) \/ SyncStep(c)
             \/ \E m \in MsgIds : Delivery(c, m)
      PROVE  UNCHANGED storeVars
  BY <1>1 DEF HandleWebSocket, Read, Break, ReaderStep, Register, Enqueue, ReadFails,
       Leave, CloseConn, WriterStep, WriteDone, WriteNext, PingFails, SyncStep, SyncMongo,
       SyncRedis, SyncOffer, Delivery, DeliverSend, DeliverDone, DeliverFull, Evict,
       EvictDone
<1>2. ASSUME NEW w \in Workers, StreamAppend(w) \/ StreamRetry(w) \/ StreamFails(w)
      PROVE  UNCHANGED storeVars \/ \E d \in Docs, p \in Payloads : XAdd(d, p)
  BY <1>2, SentType DEF BaseInv, TypeOK
<1>3. ASSUME NEW w \in Workers, StreamTake(w) PROVE UNCHANGED storeVars
  BY <1>3 DEF StreamTake
<1>4. RunBroadcast \/ UNCHANGED vars => UNCHANGED storeVars
  BY DEF RunBroadcast, vars
<1>5. QED
  BY <1>1, <1>2, <1>3, <1>4 DEF Next, HubNext, Quiet, StreamStep

-----------------------------------------------------------------------------
(***************************************************************************)
(* Who gets what.                                                          *)
(***************************************************************************)

\* What sendSync has collected, and what the document holds, are entries of
\* the document.
OwnInv ==
  /\ \A d \in Docs : \A n \in Written(d) : xadds[n].doc = d
  /\ \A c \in Clients : /\ ~Registered(c) => buf[c] = {}
                        /\ \A n \in buf[c] : xadds[n].doc = doc[c]

LEMMA StepOwn == BaseInv /\ OwnInv /\ [Next]_vars => OwnInv'
<1> SUFFICES ASSUME BaseInv, OwnInv, [Next]_vars PROVE OwnInv'
  OBVIOUS
<1>t. /\ StoreTypeOK /\ Keeping /\ PumpInv
      /\ buf \in [Clients -> SUBSET EntryIds]
      /\ sync \in [Clients -> {"none", "mongo", "redis", "offer", "over"}]
  BY StepKeeps DEF BaseInv, TypeOK, HubTypeOK
<1>1. /\ \A n \in EntryIds : xadds'[n] = xadds[n]
      /\ yjs' = yjs
  BY <1>t, StepStores, XAddType DEF XAdd
<1>2. \A d \in Docs : \A n \in Written(d)' : xadds'[n].doc = d
  <2>1. \A d \in Docs : Written(d)' = Written(d) /\ Written(d) \subseteq EntryIds
    BY <1>t, <1>1 DEF Written, StoreTypeOK
  <2>2. QED
    BY <1>1, <2>1 DEF OwnInv
<1>3. ASSUME UNCHANGED buf PROVE OwnInv'
  <2>1. ASSUME NEW c \in Clients
        PROVE  /\ ~Registered(c)' => buf'[c] = {}
               /\ \A n \in buf'[c] : xadds'[n].doc = doc'[c]
    BY <1>t, <1>1, <1>3 DEF OwnInv, Keeping
  <2>2. QED
    BY <1>2, <2>1 DEF OwnInv
<1>4. ASSUME NEW c \in Clients, SyncMongo(c) \/ SyncRedis(c) PROVE OwnInv'
  <2>1. UNCHANGED <<storeVars, doc>> /\ Registered(c) /\ Registered(c)' /\ doc[c] \in Docs
    BY <1>t, <1>4 DEF SyncMongo, SyncRedis, Registered, PumpInv
  <2>2. \A n \in Written(doc[c]) \cup stream[doc[c]] : xadds[n].doc = doc[c]
    BY <1>t, <2>1 DEF OwnInv, StoreTypeOK
  <2>3. buf'[c] \subseteq buf[c] \cup Written(doc[c]) \cup stream[doc[c]]
    BY <1>t, <1>4 DEF SyncMongo, SyncRedis
  <2>4. \A b \in Clients \ {c} : buf'[b] = buf[b] /\ (Registered(b)' <=> Registered(b))
    BY <1>t, <1>4 DEF SyncMongo, SyncRedis, Registered
  <2>5. ASSUME NEW b \in Clients
        PROVE  /\ ~Registered(b)' => buf'[b] = {}
               /\ \A n \in buf'[b] : xadds'[n].doc = doc'[b]
    <3>1. CASE b = c
      BY <2>1, <2>2, <2>3, <3>1 DEF OwnInv
    <3>2. CASE b # c
      BY <2>1, <2>4, <3>2 DEF OwnInv
    <3>3. QED
      BY <3>1, <3>2
  <2>6. QED
    BY <1>2, <2>5 DEF OwnInv
<1>5. (\E c \in Clients : SyncMongo(c) \/ SyncRedis(c)) \/ UNCHANGED buf
  <2>1. ASSUME NEW c \in Clients,
               \/ HandleWebSocket(c) \/ (\E f \in Frames : Read(c, f)) \/ Break(c)
               \/ ReaderStep(c) \/ WriterStep(c) \/ SyncOffer(c)
               \/ \E m \in MsgIds : Delivery(c, m)
        PROVE  UNCHANGED buf
    BY <2>1 DEF HandleWebSocket, Read, Break, ReaderStep, Register, Enqueue, ReadFails,
         Leave, CloseConn, WriterStep, WriteDone, WriteNext, PingFails, SyncOffer, Delivery,
         DeliverSend, DeliverDone, DeliverFull, Evict, EvictDone
  <2>2. ASSUME NEW w \in Workers, StreamStep(w) PROVE UNCHANGED buf
    BY <2>2 DEF StreamStep, StreamTake, StreamAppend, StreamRetry, StreamFails, Free
  <2>3. RunBroadcast \/ UNCHANGED vars => UNCHANGED buf
    BY DEF RunBroadcast, vars
  <2>4. QED
    BY <2>1, <2>2, <2>3 DEF Next, HubNext, Quiet, SyncStep
<1>6. QED
  BY <1>3, <1>4, <1>5

\* Whatever document a frame names, it reaches other clients of its sender's
\* document only, and a client is synced with entries of its document only.
THEOREM RoomsIsolated == Spec => []RoomIsolation
<1>1. Init => OwnInv
  <2> SUFFICES ASSUME Init PROVE OwnInv
    OBVIOUS
  <2>1. \A d \in Docs : Written(d) = {}
    <3>1. \A d \in Docs : yjs[d] = <<>>
      BY DEF Init, StoreInit
    <3>2. Len(<<>>) = 0 /\ 1 .. 0 = {}
      OBVIOUS
    <3>3. QED
      BY <3>1, <3>2 DEF Written
  <2>2. \A c \in Clients : buf[c] = {}
    BY DEF Init, HubInit
  <2>3. QED
    BY <2>1, <2>2 DEF OwnInv
<1>2. BaseInv /\ OwnInv => RoomIsolation
  <2> SUFFICES ASSUME BaseInv, OwnInv, NEW c \in Clients
               PROVE  /\ \A m \in got[c] \ {0} :
                           msgs[m].sender # c /\ doc[msgs[m].sender] = doc[c]
                      /\ \A n \in buf[c] : xadds[n].doc = doc[c]
    BY DEF RoomIsolation
  <2>1. ASSUME NEW m \in got[c] \ {0}
        PROVE  msgs[m].sender # c /\ doc[msgs[m].sender] = doc[c]
    <3>1. m \in MsgIds /\ OnItsWay(c, m)
      BY DEF BaseInv, TypeOK, HubTypeOK, OnItsWay
    <3>2. QED
      BY <3>1 DEF BaseInv, AddressInv, MessageInv
  <2>2. QED
    BY <2>1 DEF OwnInv
<1>3. QED
  BY <1>1, <1>2, InitBase, StepBase, StepOwn, PTL DEF Spec

-----------------------------------------------------------------------------
(***************************************************************************)
(* No silent loss.  A delivery that is owed is at one of its selects, in   *)
(* Send, or written; what leaves this chain does so because the client is  *)
(* done or its connection no longer open, and neither is ever undone.      *)
(***************************************************************************)

\* What StepLoss shows of every step.
Gone(c) == Done(c) \/ conn[c] # "open"
Underway(c, m) == <<c, m>> \in trying \cup evicting \/ InSeq(m, send[c]) \/ m \in got[c]

LossInv == \A c \in Clients, m \in MsgIds : <<c, m>> \in owed => Underway(c, m) \/ Gone(c)

\* A client that is done, or whose connection is not open, stays so.
LEMMA StepGone ==
  BaseInv /\ [Next]_vars => \A c \in Clients : Registered(c) /\ Gone(c) => Gone(c)'
<1> SUFFICES ASSUME BaseInv, [Next]_vars, NEW b \in Clients, Registered(b), Gone(b)
             PROVE  Gone(b)'
  OBVIOUS
<1>k. TypeOK /\ PumpInv /\ RoomInv /\ AddressInv
  BY DEF BaseInv
<1>t. /\ conn \in [Clients -> {"none", "open", "broken", "closed"}]
      /\ closes \in [Clients -> Nat]
  BY <1>k DEF TypeOK, HubTypeOK
<1> USE DEF Gone, Done
<1>1. ASSUME NEW c \in Clients, HandleWebSocket(c) PROVE Gone(b)'
  <2>1. c # b
    BY <1>k, <1>1 DEF HandleWebSocket, PumpInv
  <2>2. QED
    BY <1>t, <1>1, <2>1 DEF HandleWebSocket
<1>2. ASSUME NEW c \in Clients, NEW f \in Frames, Read(c, f) PROVE Gone(b)'
  BY <1>2 DEF Read
<1>3. ASSUME NEW c \in Clients, Break(c) PROVE Gone(b)'
  BY <1>t, <1>3 DEF Break
<1>4. ASSUME NEW c \in Clients, ReaderStep(c) PROVE Gone(b)'
  <2>1. CASE Leave(c)
    <3>1. Registered(c) /\ doc[c] \in Docs
      BY <1>k, <2>1 DEF Leave, PumpInv
    <3>2. QED
      BY <1>k, <2>1, <3>1, UnregisterRooms DEF Leave
  <2>2. CASE Register(c) \/ Enqueue(c) \/ ReadFails(c)
    BY <2>2 DEF Register, Enqueue, ReadFails
  <2>3. CASE CloseConn(c)
    BY <1>t, <2>3 DEF CloseConn
  <2>4. QED
    BY <1>4, <2>1, <2>2, <2>3 DEF ReaderStep
<1>5. ASSUME NEW c \in Clients, WriterStep(c) PROVE Gone(b)'
  BY <1>t, <1>5 DEF WriterStep, WriteDone, WriteNext, PingFails
<1>6. ASSUME NEW c \in Clients, SyncStep(c) PROVE Gone(b)'
  BY <1>6 DEF SyncStep, SyncMongo, SyncRedis, SyncOffer
<1>7. ASSUME NEW c \in Clients, NEW m \in MsgIds, Delivery(c, m) PROVE Gone(b)'
  <2>1. CASE Evict(c, m)
    <3>1. Registered(c) /\ doc[c] \in Docs
      BY <1>k, <2>1 DEF Evict, AddressInv, OnItsWay, PumpInv
    <3>2. QED
      BY <1>k, <2>1, <3>1, UnregisterRooms DEF Evict
  <2>2. CASE DeliverSend(c, m) \/ DeliverDone(c, m) \/ DeliverFull(c, m) \/ EvictDone(c, m)
    BY <2>2 DEF DeliverSend, DeliverDone, DeliverFull, EvictDone
  <2>3. QED
    BY <1>7, <2>1, <2>2 DEF Delivery
<1>8. ASSUME NEW w \in Workers, StreamStep(w) PROVE Gone(b)'
  BY <1>8 DEF StreamStep, StreamTake, StreamAppend, StreamRetry, StreamFails, Free
<1>9. CASE RunBroadcast
  BY <1>9 DEF RunBroadcast
<1>10. CASE UNCHANGED vars
  BY <1>10 DEF vars
<1>11. QED
  BY <1>1, <1>2, <1>3, <1>4, <1>5, <1>6, <1>7, <1>8, <1>9, <1>10 DEF Next, HubNext, Quiet

\* Steps that spawn no delivery, and of which a client loses nothing or is gone.
LEMMA LossKept ==
  ASSUME BaseInv, [Next]_vars, LossInv, owed' = owed,
         \A c \in Clients, m \in MsgIds :
           <<c, m>> \in owed /\ Underway(c, m) => Underway(c, m)' \/ Gone(c)'
  PROVE  LossInv'
<1> SUFFICES ASSUME NEW c \in Clients, NEW m \in MsgIds', <<c, m>> \in owed'
             PROVE  Underway(c, m)' \/ Gone(c)'
  BY DEF LossInv
<1>1. m \in MsgIds /\ Registered(c)
  BY DEF BaseInv, TypeOK, HubTypeOK, AddressInv, OnItsWay
<1>2. QED
  BY <1>1, StepGone DEF LossInv

LEMMA StepLoss == BaseInv /\ LossInv /\ [Next]_vars => LossInv'
<1> SUFFICES ASSUME BaseInv, LossInv, [Next]_vars PROVE LossInv'
  OBVIOUS
<1>k. TypeOK /\ PumpInv /\ RoomInv /\ AddressInv
  BY DEF BaseInv
<1>t. /\ send \in [Clients -> Seq(MsgIds \cup {0})] /\ got \in [Clients -> SUBSET (MsgIds \cup {0})]
      /\ conn \in [Clients -> {"none", "open", "broken", "closed"}]
      /\ broadcast \in Seq(MsgIds)
  BY <1>k DEF TypeOK, HubTypeOK
<1>1. ASSUME UNCHANGED <<trying, evicting, owed, send, got>> PROVE LossInv'
  BY <1>1, LossKept DEF Underway
<1>2. ASSUME NEW c \in Clients,
             \/ HandleWebSocket(c) \/ (\E f \in Frames : Read(c, f)) \/ Break(c)
             \/ ReaderStep(c) \/ WriteDone(c) \/ PingFails(c) \/ SyncMongo(c) \/ SyncRedis(c)
      PROVE  LossInv'
  BY <1>1, <1>2 DEF HandleWebSocket, Read, Break, ReaderStep, Register, Enqueue, ReadFails,
       Leave, CloseConn, WriteDone, PingFails, SyncMongo, SyncRedis
<1>3. ASSUME NEW c \in Clients, SyncOffer(c) PROVE LossInv'
  <2>1. \A m \in MsgIds : InSeq(m, send[c]) => InSeq(m, Append(send[c], 0))
    BY <1>t, InSeqAppend
  <2>2. /\ send'[c] \in {send[c], Append(send[c], 0)}
        /\ \A b \in Clients \ {c} : send'[b] = send[b]
        /\ UNCHANGED <<trying, evicting, owed, got>>
    BY <1>3, <1>t DEF SyncOffer
  <2>3. \A b \in Clients, m \in MsgIds : Underway(b, m) => Underway(b, m)'
    BY <2>1, <2>2 DEF Underway
  <2>4. QED
    BY <2>2, <2>3, LossKept
<1>4. ASSUME NEW c \in Clients, WriteNext(c) PROVE LossInv'
  <2>1. \A m : InSeq(m, send[c]) <=> InSeq(m, Tail(send[c])) \/ m = Head(send[c])
    BY <1>4, <1>t, InSeqTail DEF WriteNext
  <2>2. \A b \in Clients : send'[b] = IF b = c THEN Tail(send[c]) ELSE send[b]
    BY <1>4, <1>t DEF WriteNext
  <2>3. UNCHANGED <<trying, evicting, owed, conn>>
    BY <1>4 DEF WriteNext
  <2>4. \A b \in Clients : got[b] \subseteq got'[b]
    BY <1>4, <1>t DEF WriteNext
  <2>5. conn[c] = "open" => Head(send[c]) \in got'[c]
    BY <1>4, <1>t DEF WriteNext
  <2>6. \A b \in Clients, m \in MsgIds : Underway(b, m) => Underway(b, m)' \/ Gone(b)'
    BY <2>1, <2>2, <2>3, <2>4, <2>5 DEF Underway, Gone
  <2>7. QED
    BY <2>3, <2>6, LossKept
<1>5. ASSUME NEW c \in Clients, NEW n \in MsgIds, Delivery(c, n) PROVE LossInv'
  <2>1. CASE DeliverSend(c, n)
    <3>1. \A m : InSeq(m, Append(send[c], n)) <=> InSeq(m, send[c]) \/ m = n
      BY <1>t, InSeqAppend
    <3>2. \A b \in Clients : send'[b] = IF b = c THEN Append(send[c], n) ELSE send[b]
      BY <2>1, <1>t DEF DeliverSend
    <3>3. trying' = trying \ {<<c, n>>} /\ UNCHANGED <<evicting, owed, got>>
      BY <2>1 DEF DeliverSend
    <3>4. \A b \in Clients, m \in MsgIds : Underway(b, m) => Underway(b, m)'
      BY <3>1, <3>2, <3>3 DEF Underway
    <3>5. QED
      BY <3>3, <3>4, LossKept
  <2>2. CASE DeliverFull(c, n)
    <3>1. /\ trying' = trying \ {<<c, n>>} /\ evicting' = evicting \cup {<<c, n>>}
          /\ UNCHANGED <<owed, send, got>>
      BY <2>2 DEF DeliverFull
    <3>2. \A b \in Clients, m \in MsgIds : Underway(b, m) => Underway(b, m)'
      BY <3>1 DEF Underway
    <3>3. QED
      BY <3>1, <3>2, LossKept
  <2>3. CASE DeliverDone(c, n) \/ EvictDone(c, n) \/ Evict(c, n)
    <3>1. Done(c)'
      <4>1. CASE Evict(c, n)
        <5>1. Registered(c) /\ doc[c] \in Docs
          BY <1>k, <4>1 DEF Evict, AddressInv, OnItsWay, PumpInv
        <5>2. QED
          BY <1>k, <4>1, <5>1, UnregisterRooms DEF Evict
      <4>2. CASE DeliverDone(c, n) \/ EvictDone(c, n)
        BY <4>2 DEF DeliverDone, EvictDone, Done
      <4>3. QED
        BY <2>3, <4>1, <4>2
    <3>2. /\ trying \cup evicting \subseteq trying' \cup evicting' \cup {<<c, n>>}
          /\ UNCHANGED <<owed, send, got>>
      BY <2>3 DEF DeliverDone, EvictDone, Evict
    <3>3. \A b \in Clients, m \in MsgIds : Underway(b, m) => Underway(b, m)' \/ Gone(b)'
      BY <3>1, <3>2 DEF Underway, Gone
    <3>4. QED
      BY <3>2, <3>3, LossKept
  <2>4. QED
    BY <1>5, <2>1, <2>2, <2>3 DEF Delivery
<1>6. ASSUME NEW w \in Workers, StreamStep(w) PROVE LossInv'
  BY <1>1, <1>6 DEF StreamStep, StreamTake, StreamAppend, StreamRetry, StreamFails, Free
<1>7. CASE RunBroadcast
  <2>1. \E new : trying' = trying \cup new /\ owed' = owed \cup new
    BY <1>7 DEF RunBroadcast
  <2>2. UNCHANGED <<msgs, evicting, send, got, closes, conn>>
    BY <1>7 DEF RunBroadcast
  <2>3. QED
    BY <2>1, <2>2 DEF LossInv, Underway, Gone, Done, MsgIds
<1>8. CASE UNCHANGED vars
  BY <1>1, <1>8 DEF vars
<1>9. QED
  BY <1>2, <1>3, <1>4, <1>5, <1>6, <1>7, <1>8
     DEF Next, HubNext, Quiet, SyncStep, WriterStep

\* A message Run owes a client is on its way, was written, or the client is
\* done or has lost its connection: nothing is dropped while it stays.
THEOREM NothingDropped == Spec => []NoSilentLoss
<1>1. Init => LossInv
  BY DEF Init, HubInit, LossInv
<1>2. LossInv => NoSilentLoss
  BY DEF LossInv, NoSilentLoss, Underway, Gone, InSeq
<1>3. QED
  BY <1>1, <1>2, InitBase, StepBase, StepLoss, PTL DEF Spec

-----------------------------------------------------------------------------
(***************************************************************************)
(* Streaming.  A message waits in one place at a time: a read pump     *)
(* holds it, or it is in broadcast, in streamCh or with a stream writer.   *)
(* Only updates get beyond broadcast.                                      *)
(***************************************************************************)

NoDup(s) == \A i, j \in 1 .. Len(s) : s[i] = s[j] => i = j

LEMMA NoDupAppend ==
  ASSUME NEW S, NEW s \in Seq(S), NEW e \in S, NoDup(s), ~InSeq(e, s)
  PROVE  NoDup(Append(s, e))
<1> DEFINE t == Append(s, e)
<1>1. /\ Len(t) = Len(s) + 1 /\ t[Len(s) + 1] = e /\ Len(s) \in Nat
      /\ \A n \in 1 .. Len(s) : t[n] = s[n]
  BY AppendKeeps
<1> HIDE DEF t
<1>2. ASSUME NEW i \in 1 .. Len(t), NEW j \in 1 .. Len(t), t[i] = t[j] PROVE i = j
  <2>1. \A n \in 1 .. Len(t) : n \in 1 .. Len(s) \/ n = Len(s) + 1
    BY <1>1
  <2>2. \A n \in 1 .. Len(s) : s[n] # e
    BY DEF InSeq
  <2>3. QED
    BY <1>1, <1>2, <2>1, <2>2 DEF NoDup
<1>3. NoDup(t)
  BY <1>2 DEF NoDup
<1>4. QED
  BY <1>3 DEF t

LEMMA NoDupTail ==
  ASSUME NEW S, NEW s \in Seq(S), s # <<>>, NoDup(s)
  PROVE  NoDup(Tail(s)) /\ ~InSeq(Head(s), Tail(s))
<1>1. /\ Len(s) \in Nat \ {0} /\ Len(Tail(s)) = Len(s) - 1 /\ Head(s) = s[1]
      /\ \A i \in 1 .. Len(s) - 1 : Tail(s)[i] = s[i + 1]
  OBVIOUS
<1>2. NoDup(Tail(s))
  <2> SUFFICES ASSUME NEW i \in 1 .. Len(Tail(s)), NEW j \in 1 .. Len(Tail(s)),
                      Tail(s)[i] = Tail(s)[j]
               PROVE  i = j
    BY DEF NoDup
  <2>1. i + 1 \in 1 .. Len(s) /\ j + 1 \in 1 .. Len(s) /\ s[i + 1] = s[j + 1]
    BY <1>1
  <2>2. i + 1 = j + 1
    BY <2>1 DEF NoDup
  <2>3. QED
    BY <1>1, <2>2
<1>3. ASSUME NEW i \in 1 .. Len(Tail(s)), Tail(s)[i] = Head(s) PROVE FALSE
  <2>1. i + 1 \in 1 .. Len(s) /\ 1 \in 1 .. Len(s) /\ s[i + 1] = s[1]
    BY <1>1, <1>3
  <2>2. i + 1 = 1
    BY <2>1 DEF NoDup
  <2>3. QED
    BY <1>1, <2>2
<1>4. QED
  BY <1>2, <1>3 DEF InSeq

PlaceInv ==
  /\ \A c, b \in Clients : holding[c] = holding[b] /\ holding[c] # 0 => c = b
  /\ \A v, w \in Workers : worker[v] = worker[w] /\ worker[w] # 0 => v = w
  /\ NoDup(broadcast) /\ NoDup(streamCh)
  /\ \A m \in MsgIds :
       /\ Held(m) => ~InSeq(m, broadcast) /\ ~InSeq(m, streamCh) /\ ~Busy(m)
       /\ InSeq(m, broadcast) => ~InSeq(m, streamCh) /\ ~Busy(m)
       /\ InSeq(m, streamCh) => ~Busy(m)
       /\ InSeq(m, streamCh) \/ Busy(m) => msgs[m].type = "update"

InTypes ==
  /\ msgs \in Seq(Message) /\ holding \in [Clients -> MsgIds \cup {0}]
  /\ broadcast \in Seq(MsgIds) /\ streamCh \in Seq(MsgIds)
  /\ worker \in [Workers -> MsgIds \cup {0}] /\ MsgIds \subseteq Nat \ {0}

\* What waits is a message there is.
LEMMA WaitingIds ==
  ASSUME InTypes, NEW m, m # 0, Waiting(m)
  PROVE  m \in MsgIds
<1>1. CASE Held(m) \/ Busy(m)
  BY <1>1 DEF InTypes, Held, Busy
<1>2. CASE InSeq(m, broadcast)
  <2>1. \A i \in 1 .. Len(broadcast) : broadcast[i] \in MsgIds
    BY DEF InTypes
  <2>2. QED
    BY <1>2, <2>1 DEF InSeq
<1>3. CASE InSeq(m, streamCh)
  <2>1. \A i \in 1 .. Len(streamCh) : streamCh[i] \in MsgIds
    BY DEF InTypes
  <2>2. QED
    BY <1>3, <2>1 DEF InSeq
<1>4. QED
  BY <1>1, <1>2, <1>3 DEF Waiting

LEMMA InTypesOf == BaseInv => InTypes
BY DEF BaseInv, TypeOK, HubTypeOK, InTypes, MsgIds

\* A new message waits with the read pump.
LEMMA ReadPlaces ==
  ASSUME BaseInv, PlaceInv, NEW c \in Clients, NEW f \in Frames, Read(c, f)
  PROVE  /\ PlaceInv'
         /\ \A m \in MsgIds' : Waiting(m)' <=> Waiting(m) \/ m = Len(msgs) + 1
<1> DEFINE n == Len(msgs) + 1
<1>t. InTypes /\ TypeOK /\ PumpInv
  BY InTypesOf DEF BaseInv
<1>1. /\ MsgIds' = MsgIds \cup {n} /\ n \notin MsgIds /\ n # 0
      /\ \A m \in MsgIds : msgs'[m] = msgs[m]
  BY <1>t, ReadMessage DEF MsgIds
<1>2. /\ holding[c] = 0 /\ \A b \in Clients : holding'[b] = IF b = c THEN n ELSE holding[b]
      /\ UNCHANGED <<broadcast, streamCh, worker>>
  BY <1>t DEF Read, PumpInv, InTypes
<1> HIDE DEF n
<1>3. ~Waiting(n)
  BY <1>t, <1>1, WaitingIds
<1>4. \A m \in MsgIds : Held(m)' <=> Held(m)
  BY <1>t, <1>1, <1>2 DEF Held, InTypes
<1>5. \A m : m = n => Held(m)'
  BY <1>2 DEF Held
<1>6. \A m : (Busy(m)' <=> Busy(m)) /\ InSeq(m, broadcast') = InSeq(m, broadcast)
             /\ InSeq(m, streamCh') = InSeq(m, streamCh)
  BY <1>2 DEF Busy
<1>7. \A b, d \in Clients : holding'[b] = holding'[d] /\ holding'[b] # 0 => b = d
  BY <1>t, <1>1, <1>2, <1>3 DEF PlaceInv, Waiting, Held
<1>8. \A m \in MsgIds' :
       /\ Held(m)' => ~InSeq(m, broadcast') /\ ~InSeq(m, streamCh') /\ ~Busy(m)'
       /\ InSeq(m, broadcast') => ~InSeq(m, streamCh') /\ ~Busy(m)'
       /\ InSeq(m, streamCh') => ~Busy(m)'
       /\ InSeq(m, streamCh') \/ Busy(m)' => msgs'[m].type = "update"
  BY <1>1, <1>3, <1>4, <1>6 DEF PlaceInv, Waiting
<1>9. PlaceInv'
  BY <1>2, <1>7, <1>8 DEF PlaceInv
<1>10. \A m \in MsgIds' : Waiting(m)' <=> Waiting(m) \/ m = n
  BY <1>1, <1>4, <1>5, <1>6 DEF Waiting
<1>11. QED
  BY <1>9, <1>10 DEF n

\* The read pump passes it on to broadcast.
LEMMA EnqueuePlaces ==
  ASSUME BaseInv, PlaceInv, NEW c \in Clients, Enqueue(c)
  PROVE  PlaceInv' /\ \A m \in MsgIds : Waiting(m)' <=> Waiting(m)
<1> DEFINE h == holding[c]
<1>t. InTypes /\ PumpInv
  BY InTypesOf DEF BaseInv
<1>1. h \in MsgIds /\ h # 0
  BY <1>t DEF Enqueue, PumpInv, InTypes
<1>2. /\ \A b \in Clients : holding'[b] = IF b = c THEN 0 ELSE holding[b]
      /\ broadcast' = Append(broadcast, h) /\ UNCHANGED <<msgs, streamCh, worker>>
  BY <1>t DEF Enqueue, InTypes
<1>3. Held(h)
  BY DEF Held
<1> HIDE DEF h
<1>4. \A m \in MsgIds : Held(m)' <=> Held(m) /\ m # h
  BY <1>t, <1>1, <1>2 DEF Held, PlaceInv, InTypes, h
<1>5. \A m : InSeq(m, broadcast') <=> InSeq(m, broadcast) \/ m = h
  BY <1>t, <1>1, <1>2, InSeqAppend DEF InTypes
<1>6. NoDup(broadcast')
  BY <1>t, <1>1, <1>2, <1>3, NoDupAppend DEF InTypes, PlaceInv
<1>7. \A m : (Busy(m)' <=> Busy(m)) /\ InSeq(m, streamCh') = InSeq(m, streamCh)
  BY <1>2 DEF Busy
<1>8. \A b, d \in Clients : holding'[b] = holding'[d] /\ holding'[b] # 0 => b = d
  BY <1>2 DEF PlaceInv
<1>9. \A m \in MsgIds :
       /\ Held(m)' => ~InSeq(m, broadcast') /\ ~InSeq(m, streamCh') /\ ~Busy(m)'
       /\ InSeq(m, broadcast') => ~InSeq(m, streamCh') /\ ~Busy(m)'
       /\ InSeq(m, streamCh') => ~Busy(m)'
       /\ InSeq(m, streamCh') \/ Busy(m)' => msgs'[m].type = "update"
  BY <1>1, <1>2, <1>3, <1>4, <1>5, <1>7 DEF PlaceInv
<1>10. PlaceInv'
  BY <1>2, <1>6, <1>8, <1>9 DEF PlaceInv, MsgIds
<1>11. QED
  BY <1>3, <1>4, <1>5, <1>7, <1>10 DEF Waiting

\* Run offers an update to the stream writers, and drops everything else.
LEMMA BroadcastPlaces ==
  ASSUME BaseInv, PlaceInv, RunBroadcast
  PROVE  LET h == Head(broadcast)
             offered == msgs[h].type = "update" /\ Len(streamCh) < StreamCap
         IN  /\ PlaceInv' /\ h \in MsgIds /\ ~InSeq(h, streamCh) /\ Waiting(h)
             /\ \A m \in MsgIds : Waiting(m)' <=> Waiting(m) /\ (m # h \/ offered)
<1> DEFINE h == Head(broadcast)
           offered == msgs[h].type = "update" /\ Len(streamCh) < StreamCap
<1>t. InTypes
  BY InTypesOf
<1>1. /\ h \in MsgIds /\ broadcast' = Tail(broadcast)
      /\ streamCh' = (IF offered THEN Append(streamCh, h) ELSE streamCh)
      /\ UNCHANGED <<msgs, holding, worker>>
  BY <1>t DEF RunBroadcast, InTypes
<1>2. /\ InSeq(h, broadcast)
      /\ \A m : InSeq(m, broadcast) <=> InSeq(m, broadcast') \/ m = h
  BY <1>t, <1>1, InSeqTail DEF RunBroadcast, InTypes
<1>3. NoDup(broadcast') /\ ~InSeq(h, broadcast')
  BY <1>t, <1>1, NoDupTail DEF RunBroadcast, InTypes, PlaceInv
<1>o. offered => msgs[h].type = "update"
  OBVIOUS
<1> HIDE DEF h, offered
<1>4. ~InSeq(h, streamCh) /\ ~Held(h) /\ ~Busy(h)
  BY <1>1, <1>2 DEF PlaceInv
<1>5. \A m : InSeq(m, streamCh') <=> InSeq(m, streamCh) \/ (offered /\ m = h)
  BY <1>t, <1>1, InSeqAppend DEF InTypes
<1>6. NoDup(streamCh')
  BY <1>t, <1>1, <1>4, NoDupAppend DEF InTypes, PlaceInv
<1>7. \A m : (Busy(m)' <=> Busy(m)) /\ (Held(m)' <=> Held(m))
  BY <1>1 DEF Busy, Held
<1>8. \A m \in MsgIds :
       /\ Held(m)' => ~InSeq(m, broadcast') /\ ~InSeq(m, streamCh') /\ ~Busy(m)'
       /\ InSeq(m, broadcast') => ~InSeq(m, streamCh') /\ ~Busy(m)'
       /\ InSeq(m, streamCh') => ~Busy(m)'
       /\ InSeq(m, streamCh') \/ Busy(m)' => msgs'[m].type = "update"
  BY <1>o, <1>1, <1>2, <1>3, <1>4, <1>5, <1>7 DEF PlaceInv
<1>9. PlaceInv'
  BY <1>1, <1>3, <1>6, <1>8 DEF PlaceInv, MsgIds
<1>10. \A m \in MsgIds : Waiting(m)' <=> Waiting(m) /\ (m # h \/ offered)
  BY <1>2, <1>3, <1>4, <1>5, <1>7 DEF Waiting
<1>11. Waiting(h)
  BY <1>2 DEF Waiting
<1>12. QED
  BY <1>1, <1>4, <1>9, <1>10, <1>11 DEF h, offered

\* A stream writer takes an update from streamCh.
LEMMA TakePlaces ==
  ASSUME BaseInv, PlaceInv, NEW w \in Workers, StreamTake(w)
  PROVE  PlaceInv' /\ \A m \in MsgIds : Waiting(m)' <=> Waiting(m)
<1> DEFINE h == Head(streamCh)
<1>t. InTypes
  BY InTypesOf
<1>1. /\ h \in MsgIds /\ h # 0 /\ streamCh' = Tail(streamCh)
      /\ worker[w] = 0 /\ \A v \in Workers : worker'[v] = IF v = w THEN h ELSE worker[v]
      /\ UNCHANGED <<msgs, holding, broadcast>>
  BY <1>t DEF StreamTake, InTypes
<1>2. InSeq(h, streamCh) /\ \A m : InSeq(m, streamCh) <=> InSeq(m, streamCh') \/ m = h
  BY <1>t, <1>1, InSeqTail DEF StreamTake, InTypes
<1>3. NoDup(streamCh') /\ ~InSeq(h, streamCh')
  BY <1>t, <1>1, NoDupTail DEF StreamTake, InTypes, PlaceInv
<1> HIDE DEF h
<1>4. ~InSeq(h, broadcast) /\ ~Held(h) /\ ~Busy(h)
  BY <1>1, <1>2 DEF PlaceInv
<1>5. \A m \in MsgIds : Busy(m)' <=> Busy(m) \/ m = h
  BY <1>t, <1>1 DEF Busy, InTypes
<1>6. \A m : (Held(m)' <=> Held(m)) /\ InSeq(m, broadcast') = InSeq(m, broadcast)
  BY <1>1 DEF Held
<1>7. \A u, v \in Workers : worker'[u] = worker'[v] /\ worker'[u] # 0 => u = v
  BY <1>1, <1>4 DEF PlaceInv, Busy
<1>8. msgs[h].type = "update"
  BY <1>1, <1>2 DEF PlaceInv
<1>9. \A m \in MsgIds :
       /\ Held(m)' => ~InSeq(m, broadcast') /\ ~InSeq(m, streamCh') /\ ~Busy(m)'
       /\ InSeq(m, broadcast') => ~InSeq(m, streamCh') /\ ~Busy(m)'
       /\ InSeq(m, streamCh') => ~Busy(m)'
       /\ InSeq(m, streamCh') \/ Busy(m)' => msgs'[m].type = "update"
  BY <1>1, <1>2, <1>3, <1>4, <1>5, <1>6, <1>8 DEF PlaceInv
<1>10. PlaceInv'
  BY <1>1, <1>3, <1>7, <1>9 DEF PlaceInv, MsgIds
<1>11. QED
  BY <1>2, <1>5, <1>6, <1>10 DEF Waiting

\* A stream writer is through with an update.
LEMMA AppendPlaces ==
  ASSUME BaseInv, PlaceInv, NEW w \in Workers, StreamAppend(w) \/ StreamFails(w)
  PROVE  /\ PlaceInv' /\ worker[w] \in MsgIds /\ Waiting(worker[w])
         /\ msgs[worker[w]].type = "update"
         /\ \A m \in MsgIds : Waiting(m)' <=> Waiting(m) /\ m # worker[w]
<1> DEFINE h == worker[w]
<1>t. InTypes
  BY InTypesOf
<1>1. /\ h \in MsgIds /\ h # 0
      /\ \A v \in Workers : worker'[v] = IF v = w THEN 0 ELSE worker[v]
      /\ UNCHANGED <<msgs, holding, broadcast, streamCh>>
  BY <1>t DEF StreamAppend, StreamFails, Free, InTypes
<1>2. Busy(h)
  BY DEF Busy
<1>3. \A v \in Workers : worker[v] = h => v = w
  BY <1>1 DEF PlaceInv
<1> HIDE DEF h
<1>4. ~InSeq(h, broadcast) /\ ~Held(h) /\ ~InSeq(h, streamCh) /\ msgs[h].type = "update"
  BY <1>1, <1>2 DEF PlaceInv
<1>5. \A m \in MsgIds : Busy(m)' <=> Busy(m) /\ m # h
  BY <1>t, <1>1, <1>3 DEF Busy, InTypes, h
<1>6. \A m : /\ (Held(m)' <=> Held(m)) /\ InSeq(m, broadcast') = InSeq(m, broadcast)
             /\ InSeq(m, streamCh') = InSeq(m, streamCh)
  BY <1>1 DEF Held
<1>7. \A u, v \in Workers : worker'[u] = worker'[v] /\ worker'[u] # 0 => u = v
  BY <1>1 DEF PlaceInv
<1>8. \A m \in MsgIds :
       /\ Held(m)' => ~InSeq(m, broadcast') /\ ~InSeq(m, streamCh') /\ ~Busy(m)'
       /\ InSeq(m, broadcast') => ~InSeq(m, streamCh') /\ ~Busy(m)'
       /\ InSeq(m, streamCh') => ~Busy(m)'
       /\ InSeq(m, streamCh') \/ Busy(m)' => msgs'[m].type = "update"
  BY <1>1, <1>5, <1>6 DEF PlaceInv
<1>9. PlaceInv'
  BY <1>1, <1>7, <1>8 DEF PlaceInv, MsgIds
<1>10. Waiting(h) /\ \A m \in MsgIds : Waiting(m)' <=> Waiting(m) /\ m # h
  BY <1>2, <1>4, <1>5, <1>6 DEF Waiting
<1>11. QED
  BY <1>1, <1>4, <1>9, <1>10 DEF h

\* Messages and the stores move in these steps only.
LEMMA StepIn ==
  [Next]_vars =>
    \/ \E c \in Clients : Enqueue(c) \/ \E f \in Frames : Read(c, f)
    \/ RunBroadcast
    \/ \E w \in Workers : StreamStep(w)
    \/ UNCHANGED <<inVars, xadds>>
<1> SUFFICES ASSUME [Next]_vars
             PROVE  \/ \E c \in Clients : Enqueue(c) \/ \E f \in Frames : Read(c, f)
                    \/ RunBroadcast
                    \/ \E w \in Workers : StreamStep(w)
                    \/ UNCHANGED <<inVars, xadds>>
  OBVIOUS
<1>1. ASSUME NEW c \in Clients,
             \/ HandleWebSocket(c) \/ Break(c) \/ Register(c) \/ ReadFails(c) \/ Leave(c)
             \/ CloseConn(c) \/ WriterStep(c) \/ SyncStep(c) \/ \E m \in MsgIds : Delivery(c, m)
      PROVE  UNCHANGED <<inVars, xadds>>
  BY <1>1 DEF HandleWebSocket, Break, Register, ReadFails, Leave, CloseConn, WriterStep,
       WriteDone, WriteNext, PingFails, SyncStep, SyncMongo, SyncRedis, SyncOffer, Delivery,
       DeliverSend, DeliverDone, DeliverFull, Evict, EvictDone
<1>2. UNCHANGED vars => UNCHANGED <<inVars, xadds>>
  BY DEF vars
<1>3. QED
  BY <1>1, <1>2 DEF Next, HubNext, Quiet, ReaderStep

LEMMA StepPlaces == BaseInv /\ PlaceInv /\ [Next]_vars => PlaceInv'
<1> SUFFICES ASSUME BaseInv, PlaceInv, [Next]_vars PROVE PlaceInv'
  OBVIOUS
<1>1. CASE UNCHANGED <<inVars, xadds>>
  BY <1>1 DEF PlaceInv, Held, Busy, MsgIds
<1>2. ASSUME NEW c \in Clients, Enqueue(c) PROVE PlaceInv'
  BY <1>2, EnqueuePlaces
<1>3. ASSUME NEW c \in Clients, NEW f \in Frames, Read(c, f) PROVE PlaceInv'
  BY <1>3, ReadPlaces
<1>4. ASSUME NEW w \in Workers, StreamTake(w) PROVE PlaceInv'
  BY <1>4, TakePlaces
<1>5. ASSUME NEW w \in Workers, StreamAppend(w) \/ StreamFails(w) PROVE PlaceInv'
  BY <1>5, AppendPlaces
<1>r. ASSUME NEW w \in Workers, StreamRetry(w) PROVE PlaceInv'
  BY <1>r DEF StreamRetry, PlaceInv, Held, Busy, MsgIds
<1>6. CASE RunBroadcast
  BY <1>6, BroadcastPlaces
<1>7. QED
  BY <1>1, <1>2, <1>3, <1>4, <1>5, <1>r, <1>6, StepIn DEF StreamStep

-----------------------------------------------------------------------------
(***************************************************************************)
(* Where the entries come from.  No two are of one try of one message; an  *)
(* entry of a message a stream writer still has is of an earlier try, and  *)
(* no message has entries while it is on its way to the stream writers.    *)
(***************************************************************************)

TryBound == IF Faults THEN MaxRetries ELSE 0

\* What entry n says of its message.
EntryOK(n) ==
  LET m == origin[n].msg
  IN  /\ IsUpdate(m) /\ xadds[n].doc = msgs[m].doc /\ xadds[n].payload = msgs[m].payload
      /\ ~Held(m) /\ ~InSeq(m, broadcast) /\ ~InSeq(m, streamCh)
      /\ origin[n].try <= TryBound
      /\ \A w \in Workers : worker[w] = m => origin[n].try < tries[w]

Known(m) == m \in missed \/ \E n \in EntryIds : origin[n].msg = m

AttemptInv ==
  /\ Len(origin) = Len(xadds)
  /\ \A w \in Workers : tries[w] <= TryBound
  /\ \A n \in EntryIds : EntryOK(n)
  /\ \A n, k \in EntryIds : origin[n] = origin[k] => n = k
  /\ \A m \in MsgIds : IsUpdate(m) /\ ~Waiting(m) => Known(m)

LEMMA OriginType ==
  ASSUME BaseInv, AttemptInv, NEW n \in EntryIds
  PROVE  /\ origin[n] \in Attempt /\ origin[n].msg \in MsgIds /\ origin[n].msg # 0
         /\ origin[n].try \in Nat
<1>1. origin \in Seq(Attempt) /\ Len(origin) = Len(xadds) /\ MaxRetries \in Nat
  BY HubAssumption DEF BaseInv, TypeOK, HubTypeOK, AttemptInv
<1>2. origin[n] \in Attempt
  BY <1>1 DEF EntryIds
<1>3. QED
  BY <1>1, <1>2 DEF Attempt, MsgIds

\* A step that leaves the entries alone, and lets nothing come back on the way.
LEMMA AttemptKept ==
  ASSUME BaseInv, AttemptInv, UNCHANGED <<xadds, origin>>, missed \subseteq missed',
         MsgIds \subseteq MsgIds', \A m \in MsgIds : msgs'[m] = msgs[m],
         \A w \in Workers : tries'[w] <= TryBound,
         \A m \in MsgIds :
           ~Held(m) /\ ~InSeq(m, broadcast) /\ ~InSeq(m, streamCh)
             => ~Held(m)' /\ ~InSeq(m, broadcast') /\ ~InSeq(m, streamCh'),
         \A w \in Workers, n \in EntryIds : worker'[w] = origin[n].msg =>
           \/ worker[w] = origin[n].msg /\ tries[w] <= tries'[w] /\ tries[w] \in Nat /\ tries'[w] \in Nat
           \/ origin[n].try < tries'[w],
         \A m \in MsgIds' : IsUpdate(m)' /\ ~Waiting(m)' =>
           (m \in MsgIds /\ ~Waiting(m)) \/ m \in missed' \/ Known(m)
  PROVE  AttemptInv'
<1>1. EntryIds' = EntryIds
  BY DEF EntryIds
<1>2. ASSUME NEW n \in EntryIds PROVE EntryOK(n)'
  <2>1. origin[n].msg \in MsgIds /\ origin[n].try \in Nat /\ EntryOK(n)
    BY OriginType DEF AttemptInv
  <2>2. \A w \in Workers : worker'[w] = origin[n].msg => origin[n].try < tries'[w]
    BY <2>1 DEF EntryOK
  <2>3. QED
    BY <2>1, <2>2 DEF EntryOK, IsUpdate, TryBound
<1>3. ASSUME NEW m \in MsgIds', IsUpdate(m)', ~Waiting(m)' PROVE Known(m)'
  BY <1>1, <1>3 DEF AttemptInv, Known, IsUpdate
<1>4. QED
  BY <1>1, <1>2, <1>3 DEF AttemptInv, TryBound

\* What Redis makes of one try.
LEMMA ExecuteEntries ==
  ASSUME BaseInv, AttemptInv, NEW w \in Workers,
         StreamAppend(w) \/ StreamRetry(w) \/ StreamFails(w)
  PROVE  /\ Len(origin') = Len(xadds') /\ EntryIds \subseteq EntryIds'
         /\ \A n \in EntryIds : origin'[n] = origin[n] /\ xadds'[n] = xadds[n]
         /\ \A n \in EntryIds' \ EntryIds :
              /\ n = Len(xadds) + 1 /\ origin'[n] = [msg |-> worker[w], try |-> tries[w]]
              /\ xadds'[n].doc = msgs[worker[w]].doc
              /\ xadds'[n].payload = msgs[worker[w]].payload
         /\ Execute(w) => Len(xadds) + 1 \in EntryIds' \ EntryIds
<1>0. /\ StoreTypeOK /\ HubTypeOK /\ origin \in Seq(Attempt) /\ tries[w] \in 0 .. MaxRetries
      /\ Len(origin) = Len(xadds)
  BY DEF BaseInv, TypeOK, HubTypeOK, AttemptInv
<1>1. /\ worker[w] \in MsgIds /\ msgs[worker[w]].doc \in Docs
      /\ msgs[worker[w]].payload \in Payloads
      /\ Execute(w) \/ UNCHANGED <<storeVars, origin>>
  BY <1>0, SentType
<1>2. CASE Execute(w)
  <2>1. /\ Len(xadds) \in Nat /\ Len(xadds') = Len(xadds) + 1
        /\ EntryIds' = EntryIds \cup {Len(xadds) + 1} /\ \A n \in EntryIds : xadds'[n] = xadds[n]
        /\ xadds'[Len(xadds) + 1].doc = msgs[worker[w]].doc
        /\ xadds'[Len(xadds) + 1].payload = msgs[worker[w]].payload
    BY <1>0, <1>1, <1>2, XAddType DEF Execute
  <2>2. [msg |-> worker[w], try |-> tries[w]] \in Attempt
    BY <1>0, <1>1 DEF Attempt
  <2>3. /\ Len(origin') = Len(origin) + 1 /\ \A n \in EntryIds : origin'[n] = origin[n]
        /\ origin'[Len(xadds) + 1] = [msg |-> worker[w], try |-> tries[w]]
    BY <1>0, <1>2, <2>2, AppendKeeps DEF Execute, EntryIds
  <2>4. Len(xadds) + 1 \notin EntryIds
    BY <2>1 DEF EntryIds
  <2>5. QED
    BY <1>0, <2>1, <2>3, <2>4
<1>3. CASE UNCHANGED <<storeVars, origin>> /\ ~Execute(w)
  BY <1>0, <1>3 DEF EntryIds
<1>4. QED
  BY <1>1, <1>2, <1>3

LEMMA StreamAttempt ==
  ASSUME BaseInv, PlaceInv, AttemptInv, NEW w \in Workers,
         StreamAppend(w) \/ StreamRetry(w) \/ StreamFails(w)
  PROVE  AttemptInv'
<1> DEFINE h == worker[w]
           t == tries[w]
<1>t. /\ InTypes /\ tries \in [Workers -> 0 .. MaxRetries] /\ MaxRetries \in Nat /\ TryBound \in Nat
      /\ h # 0 /\ h \in MsgIds /\ t \in Nat
  <2>1. /\ InTypes /\ StoreTypeOK /\ HubTypeOK /\ tries \in [Workers -> 0 .. MaxRetries]
    BY InTypesOf DEF BaseInv, TypeOK, HubTypeOK
  <2>2. MaxRetries \in Nat /\ Faults \in BOOLEAN
    BY HubAssumption
  <2>3. TryBound \in Nat
    BY <2>2 DEF TryBound
  <2>4. h \in MsgIds
    BY <2>1, SentType
  <2>5. h # 0
    BY <2>1, <2>4 DEF InTypes
  <2>6. t \in 0 .. MaxRetries
    BY <2>1
  <2>7. QED
    BY <2>1, <2>2, <2>3, <2>4, <2>5, <2>6
<1>1. UNCHANGED <<msgs, holding, broadcast, streamCh>> /\ MsgIds' = MsgIds /\ missed \subseteq missed'
  BY DEF StreamAppend, StreamRetry, StreamFails, MsgIds
<1>2. /\ IsUpdate(h) /\ ~Held(h) /\ ~InSeq(h, broadcast) /\ ~InSeq(h, streamCh)
      /\ \A v \in Workers : worker[v] = h => v = w
  <2>1. Busy(h)
    BY DEF Busy
  <2>2. QED
    BY <1>t, <2>1 DEF PlaceInv, IsUpdate
<1>3. \A m : (Held(m)' <=> Held(m)) /\ InSeq(m, broadcast') = InSeq(m, broadcast)
            /\ InSeq(m, streamCh') = InSeq(m, streamCh) /\ (IsUpdate(m)' <=> IsUpdate(m))
  BY <1>1 DEF Held, IsUpdate
<1>4. /\ \A v \in Workers \ {w} : worker'[v] = worker[v] /\ tries'[v] = tries[v]
      /\ \/ worker'[w] = 0 /\ tries'[w] = 0
         \/ worker'[w] = h /\ tries'[w] = t + 1 /\ Faults /\ t < MaxRetries
  BY <1>t DEF StreamAppend, StreamRetry, StreamFails, Free, InTypes
<1>e. /\ Len(origin') = Len(xadds') /\ EntryIds \subseteq EntryIds'
      /\ \A n \in EntryIds : origin'[n] = origin[n] /\ xadds'[n] = xadds[n]
      /\ \A n \in EntryIds' \ EntryIds :
           /\ n = Len(xadds) + 1 /\ origin'[n] = [msg |-> h, try |-> t]
           /\ xadds'[n].doc = msgs[h].doc /\ xadds'[n].payload = msgs[h].payload
      /\ Execute(w) => Len(xadds) + 1 \in EntryIds' \ EntryIds
  BY ExecuteEntries
<1>h. worker[w] = h /\ tries[w] = t
  OBVIOUS
<1>a. StreamAppend(w) \/ StreamFails(w) => h \in missed' \/ Execute(w)
  BY DEF StreamAppend, StreamFails
<1>b. StreamRetry(w) => worker' = worker
  BY DEF StreamRetry
<1> HIDE DEF h, t
<1>5. \A v \in Workers : tries'[v] <= TryBound'
  BY <1>t, <1>4 DEF AttemptInv, TryBound
<1>6. ASSUME NEW n \in EntryIds' PROVE EntryOK(n)'
  <2>1. CASE n \in EntryIds
    <3>1. /\ EntryOK(n) /\ origin'[n] = origin[n] /\ xadds'[n] = xadds[n] /\ origin[n].msg # 0
          /\ origin[n].try \in Nat
      BY <1>e, <2>1, OriginType DEF AttemptInv
    <3>2. \A v \in Workers : worker'[v] = origin[n].msg => origin[n].try < tries'[v]
      BY <1>t, <1>h, <1>4, <3>1 DEF EntryOK
    <3>3. QED
      BY <1>1, <1>3, <3>1, <3>2 DEF EntryOK, TryBound
  <2>2. CASE n \notin EntryIds
    <3>1. /\ origin'[n] = [msg |-> h, try |-> t]
          /\ xadds'[n].doc = msgs[h].doc /\ xadds'[n].payload = msgs[h].payload
      BY <1>e, <2>2
    <3>2. t <= TryBound
      BY <1>h DEF AttemptInv
    <3>3. \A v \in Workers : worker'[v] = h => t < tries'[v]
      BY <1>t, <1>2, <1>4
    <3>4. QED
      BY <1>1, <1>2, <1>3, <3>1, <3>2, <3>3 DEF EntryOK, TryBound
  <2>3. QED
    BY <2>1, <2>2
<1>7. ASSUME NEW n \in EntryIds', NEW k \in EntryIds', origin'[n] = origin'[k] PROVE n = k
  <2>1. ASSUME NEW i \in EntryIds, NEW j \in EntryIds' \ EntryIds PROVE origin'[i] # origin'[j]
    <3>1. EntryOK(i) /\ origin'[i] = origin[i] /\ origin[i].try \in Nat
      BY <1>e, <2>1, OriginType DEF AttemptInv
    <3>2. origin[i].msg = h => origin[i].try < t
      BY <1>h, <3>1 DEF EntryOK
    <3>3. origin'[j].msg = h /\ origin'[j].try = t
      BY <1>e, <2>1
    <3>4. QED
      BY <1>t, <3>1, <3>2, <3>3
  <2>2. QED
    BY <1>7, <1>e, <2>1 DEF AttemptInv
<1>8. ASSUME NEW m \in MsgIds', IsUpdate(m)', ~Waiting(m)' PROVE Known(m)'
  <2>1. m \in MsgIds /\ IsUpdate(m)
    BY <1>1, <1>3, <1>8
  <2>2. CASE Waiting(m)
    <3>1. m = h /\ ~StreamRetry(w)
      BY <1>b, <1>h, <1>3, <1>4, <1>8, <2>2 DEF Waiting, Busy
    <3>2. h \in missed' \/ Execute(w)
      BY <1>a, <3>1
    <3>3. Execute(w) => \E n \in EntryIds' : origin'[n].msg = h
      BY <1>e
    <3>4. QED
      BY <3>1, <3>2, <3>3 DEF Known
  <2>3. CASE ~Waiting(m)
    BY <1>1, <1>e, <2>1, <2>3 DEF AttemptInv, Known
  <2>4. QED
    BY <2>2, <2>3
<1>9. QED
  BY <1>e, <1>5, <1>6, <1>7, <1>8 DEF AttemptInv

LEMMA StepAttempt == BaseInv /\ PlaceInv /\ AttemptInv /\ [Next]_vars => AttemptInv'
<1> SUFFICES ASSUME BaseInv, PlaceInv, AttemptInv, [Next]_vars PROVE AttemptInv'
  OBVIOUS
<1>t. /\ TypeOK /\ PumpInv /\ InTypes /\ tries \in [Workers -> 0 .. MaxRetries] /\ MaxRetries \in Nat
      /\ \A w \in Workers : tries[w] \in Nat /\ tries[w] <= TryBound
  <2>1. TypeOK /\ PumpInv /\ InTypes
    BY InTypesOf DEF BaseInv
  <2>2. tries \in [Workers -> 0 .. MaxRetries] /\ MaxRetries \in Nat
    BY <2>1, HubAssumption DEF TypeOK, HubTypeOK
  <2>3. \A w \in Workers : tries[w] \in 0 .. MaxRetries
    BY <2>2
  <2>4. \A w \in Workers : tries[w] <= TryBound
    BY DEF AttemptInv
  <2>5. QED
    BY <2>1, <2>2, <2>3, <2>4
<1>1. CASE UNCHANGED <<inVars, xadds>>
  <2>1. MsgIds' = MsgIds /\ \A m : (Waiting(m)' <=> Waiting(m)) /\ (Held(m)' <=> Held(m))
    BY <1>1 DEF MsgIds, Waiting, Held, Busy
  <2>2. QED
    BY <1>1, <1>t, <2>1, AttemptKept
<1>2. ASSUME NEW c \in Clients, Enqueue(c) PROVE AttemptInv'
  <2> DEFINE h == holding[c]
  <2>1. UNCHANGED <<msgs, xadds, origin, missed, tries, worker, streamCh>> /\ MsgIds' = MsgIds
    BY <1>2 DEF Enqueue, MsgIds
  <2>2. /\ h \in MsgIds /\ Held(h) /\ \A m \in MsgIds : Held(m)' => Held(m)
        /\ broadcast' = Append(broadcast, h)
    BY <1>2, <1>t DEF Enqueue, PumpInv, InTypes, Held
  <2> HIDE DEF h
  <2>3. \A m : InSeq(m, broadcast') <=> InSeq(m, broadcast) \/ m = h
    BY <1>t, <2>2, InSeqAppend DEF InTypes
  <2>4. \A m \in MsgIds : Waiting(m)' <=> Waiting(m)
    BY <1>2, EnqueuePlaces
  <2>5. QED
    BY <1>t, <2>1, <2>2, <2>3, <2>4, AttemptKept
<1>3. ASSUME NEW w \in Workers, StreamTake(w) PROVE AttemptInv'
  <2> DEFINE h == Head(streamCh)
  <2>1. /\ UNCHANGED <<msgs, xadds, origin, missed, tries, holding, broadcast>> /\ MsgIds' = MsgIds
        /\ h \in MsgIds /\ streamCh' = Tail(streamCh)
        /\ \A v \in Workers : worker'[v] = IF v = w THEN h ELSE worker[v]
    BY <1>3, <1>t DEF StreamTake, MsgIds, InTypes
  <2>2. InSeq(h, streamCh) /\ \A m : InSeq(m, streamCh) <=> InSeq(m, streamCh') \/ m = h
    BY <1>3, <1>t, <2>1, InSeqTail DEF StreamTake, InTypes
  <2> HIDE DEF h
  <2>3. \A n \in EntryIds : origin[n].msg # h
    BY <2>2 DEF AttemptInv, EntryOK
  <2>4. \A m \in MsgIds : Waiting(m)' <=> Waiting(m)
    BY <1>3, TakePlaces
  <2>5. \A m : Held(m)' <=> Held(m)
    BY <2>1 DEF Held
  <2>6. QED
    BY <1>t, <2>1, <2>2, <2>3, <2>4, <2>5, AttemptKept
<1>4. ASSUME NEW c \in Clients, NEW f \in Frames, Read(c, f) PROVE AttemptInv'
  <2> DEFINE n == Len(msgs) + 1
  <2>1. /\ MsgIds' = MsgIds \cup {n} /\ n \notin MsgIds /\ \A m \in MsgIds : msgs'[m] = msgs[m]
    BY <1>t, <1>4, ReadMessage DEF MsgIds
  <2>2. UNCHANGED <<xadds, origin, missed, tries, worker, broadcast, streamCh>>
    BY <1>4 DEF Read
  <2>3. \A m \in MsgIds' : Waiting(m)' <=> Waiting(m) \/ m = n
    BY <1>4, ReadPlaces
  <2>4. \A b \in Clients : holding'[b] = holding[b] \/ holding'[b] = n
    BY <1>4, <1>t DEF Read, InTypes
  <2> HIDE DEF n
  <2>5. \A m \in MsgIds : Held(m)' => Held(m)
    BY <2>1, <2>4 DEF Held
  <2>6. QED
    BY <1>t, <2>1, <2>2, <2>3, <2>5, AttemptKept
<1>5. CASE RunBroadcast
  <2> DEFINE h == Head(broadcast)
             offered == msgs[h].type = "update" /\ Len(streamCh) < StreamCap
  <2>1. /\ UNCHANGED <<msgs, xadds, origin, tries, worker, holding>> /\ MsgIds' = MsgIds
        /\ missed \subseteq missed' /\ (IsUpdate(h) /\ ~offered => h \in missed')
        /\ broadcast' = Tail(broadcast)
        /\ streamCh' = (IF offered THEN Append(streamCh, h) ELSE streamCh)
    BY <1>5 DEF RunBroadcast, MsgIds, IsUpdate
  <2>2. /\ h \in MsgIds /\ \A m \in MsgIds : Waiting(m)' <=> Waiting(m) /\ (m # h \/ offered)
    BY <1>5, BroadcastPlaces
  <2>3. /\ InSeq(h, broadcast)
        /\ \A m : InSeq(m, broadcast) <=> InSeq(m, broadcast') \/ m = h
    BY <1>5, <1>t, <2>1, InSeqTail DEF RunBroadcast, InTypes
  <2> HIDE DEF h, offered
  <2>4. \A m : InSeq(m, streamCh') => InSeq(m, streamCh) \/ m = h
    BY <1>t, <2>1, <2>2, InSeqAppend DEF InTypes
  <2>5. \A m : (Held(m)' <=> Held(m)) /\ (IsUpdate(m)' <=> IsUpdate(m))
    BY <2>1 DEF Held, IsUpdate
  <2>6. QED
    BY <1>t, <2>1, <2>2, <2>3, <2>4, <2>5, AttemptKept
<1>6. ASSUME NEW w \in Workers, StreamAppend(w) \/ StreamRetry(w) \/ StreamFails(w)
      PROVE  AttemptInv'
  BY <1>6, StreamAttempt
<1>7. QED
  BY <1>1, <1>2, <1>3, <1>4, <1>5, <1>6, StepIn DEF StreamStep

LEMMA InitAttempt == Init => PlaceInv /\ AttemptInv
<1> SUFFICES ASSUME Init PROVE PlaceInv /\ AttemptInv
  OBVIOUS
<1>1. MsgIds = {} /\ EntryIds = {} /\ Len(msgs) = 0 /\ Len(origin) = Len(xadds)
  BY DEF Init, StoreInit, HubInit, MsgIds, EntryIds
<1>2. PlaceInv
  BY <1>1 DEF Init, HubInit, PlaceInv, NoDup
<1>3. \A w \in Workers : tries[w] <= TryBound
  BY HubAssumption DEF Init, HubInit, TryBound
<1>4. QED
  BY <1>1, <1>2, <1>3 DEF AttemptInv

\* A message has an entry per try at most.
LEMMA CopiesBounded ==
  ASSUME BaseInv, AttemptInv, NEW m \in MsgIds
  PROVE  Cardinality(Copies(m)) <= 1 + TryBound
<1> DEFINE f == [n \in Copies(m) |-> origin[n].try]
           T == 0 .. TryBound
<1>1. TryBound \in Nat
  BY HubAssumption DEF TryBound
<1>2. IsFiniteSet(T) /\ Cardinality(T) = 1 + TryBound
  <2>1. /\ IsFiniteSet(T)
        /\ Cardinality(T) = IF 0 > TryBound THEN 0 ELSE TryBound - 0 + 1
    BY <1>1, FS_Interval
  <2>2. QED
    BY <1>1, <2>1
<1>3. f \in [Copies(m) -> T]
  BY <1>1, OriginType DEF Copies, AttemptInv, EntryOK
<1>4. ASSUME NEW n \in Copies(m), NEW k \in Copies(m), origin[n].try = origin[k].try PROVE n = k
  <2>1. n \in EntryIds /\ k \in EntryIds /\ origin[n].msg = origin[k].msg
    BY DEF Copies
  <2>2. origin[n] \in Attempt /\ origin[k] \in Attempt
    BY <2>1, OriginType
  <2>3. origin[n] = origin[k]
    BY <1>4, <2>1, <2>2 DEF Attempt
  <2>4. QED
    BY <2>1, <2>3 DEF AttemptInv
<1>5. f \in Injection(Copies(m), T)
  BY <1>3, <1>4 DEF Injection, IsInjective
<1> HIDE DEF f, T
<1>6. QED
  BY <1>2, <1>5, FS_Injection DEF ExistsInjection

\* What is in a stream is an update sent to its document, once per try of its
\* XADD at most; and every update gets there that streamCh had room for and
\* whose XADD did not end in an error.
THEOREM StreamedAsSent == Spec => []StreamedUnlessMissed
<1>1. BaseInv /\ AttemptInv => StreamedUnlessMissed
  <2> SUFFICES ASSUME BaseInv, AttemptInv PROVE StreamedUnlessMissed
    OBVIOUS
  <2>1. \A n \in EntryIds :
           LET m == origin[n].msg
           IN  IsUpdate(m) /\ xadds[n].doc = msgs[m].doc /\ xadds[n].payload = msgs[m].payload
    BY DEF AttemptInv, EntryOK
  <2>2. ASSUME NEW m \in MsgIds, IsUpdate(m), ~Waiting(m) PROVE Copies(m) # {} \/ m \in missed
    BY <2>2 DEF AttemptInv, Known, Copies
  <2>3. \A m \in MsgIds : Cardinality(Copies(m)) <= 1 + (IF Faults THEN MaxRetries ELSE 0)
    BY CopiesBounded DEF TryBound
  <2>4. QED
    BY <2>1, <2>2, <2>3 DEF StreamedUnlessMissed
<1>2. QED
  BY <1>1, InitBase, InitAttempt, StepBase, StepPlaces, StepAttempt, PTL DEF Spec
=============================================================================
