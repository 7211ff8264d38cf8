---------------------------- MODULE IndexProofs ----------------------------
(***************************************************************************)
(* What TLAPS proves of the index pipeline, for any number of messages,    *)
(* faults and lost connections.                                            *)
(***************************************************************************)
EXTENDS IndexPipeline, WellFoundedInduction, TLAPS

USE DEF queueVars, consumerVars, indexVars, notes

-----------------------------------------------------------------------------
(***************************************************************************)
(* Queues.                                                                 *)
(***************************************************************************)

LEMMA AppendFacts ==
  ASSUME NEW S, NEW s \in Seq(S), NEW e \in S
  PROVE  /\ Append(s, e) \in Seq(S) /\ Len(s) \in Nat /\ Len(Append(s, e)) = Len(s) + 1
         /\ \A i \in 1 .. Len(s) : Append(s, e)[i] = s[i]
         /\ Append(s, e)[Len(s) + 1] = e
OBVIOUS

LEMMA TailFacts ==
  ASSUME NEW S, NEW s \in Seq(S), s # <<>>
  PROVE  /\ Head(s) \in S /\ Head(s) = s[1] /\ 1 \in 1 .. Len(s)
         /\ Tail(s) \in Seq(S) /\ Len(s) \in Nat /\ Len(Tail(s)) = Len(s) - 1
         /\ \A i \in 1 .. Len(Tail(s)) : Tail(s)[i] = s[i + 1] /\ i + 1 \in 1 .. Len(s)
OBVIOUS

\* The broker delivers the oldest message that is ready.
LEMMA OldestIs ==
  ASSUME NEW S \in SUBSET Nat, S # {}
  PROVE  Oldest(S) \in S /\ \A n \in S : Oldest(S) <= n
<1> DEFINE R == {ss \in Nat \X Nat : ss[1] < ss[2]}
<1>1. IsWellFoundedOn(R, Nat)
  BY NatLessThanWellFounded DEF OpToRel
<1> HIDE DEF R
<1>2. PICK x \in S : \A y \in S : <<y, x>> \notin R
  BY <1>1, WFMin
<1>3. ASSUME NEW y \in S PROVE x <= y
  <2>1. x \in Nat /\ y \in Nat
    OBVIOUS
  <2>2. y < x => <<y, x>> \in R
    BY <2>1 DEF R
  <2>3. QED
    BY <1>2, <2>1, <2>2
<1>4. QED
  BY <1>3 DEF Oldest

-----------------------------------------------------------------------------
(***************************************************************************)
(* Types.  That a message is ready only while the broker waits for no      *)
(* answer to it needs the deliveries to be different ones.                 *)
(***************************************************************************)

Places ==
  /\ chan = "none" => prefetched = <<>> /\ cur = 0
  /\ chan = "open" =>
       /\ \A i, j \in 1 .. Len(prefetched) : i # j => prefetched[i] # prefetched[j]
       /\ cur \notin Prefetched

TypeInv == TypeOK /\ Places

LEMMA InitType == Init => TypeInv
<1> SUFFICES ASSUME Init PROVE TypeInv
  OBVIOUS
<1>1. sent = <<>> /\ MsgIds = {} /\ Prefetched = {} /\ InHand = {} /\ Unacked = {}
  BY DEF Init, MsgIds, Prefetched, InHand, Unacked
<1>2. <<>> \in Seq(DocIds \cup {Garbage}) /\ <<>> \in Seq(MsgIds)
  OBVIOUS
<1>3. QED
  BY <1>1, <1>2 DEF Init, TypeInv, TypeOK, Places

\* A message is published.
LEMMA SendType ==
  ASSUME TypeInv, NEW d \in DocIds \cup {Garbage}, sent' = Append(sent, d),
         ready' = ready \cup {Len(sent) + 1}, UNCHANGED <<linked, consumerVars, indexVars, notes>>,
         NoFault
  PROVE  /\ TypeInv'
         /\ MsgIds' = MsgIds \cup {Len(sent) + 1} /\ Len(sent) + 1 \notin MsgIds
         /\ \A m \in MsgIds : sent'[m] = sent[m]
         /\ sent'[Len(sent) + 1] = d
<1>1. /\ sent' \in Seq(DocIds \cup {Garbage})
      /\ MsgIds' = MsgIds \cup {Len(sent) + 1} /\ Len(sent) + 1 \notin MsgIds
      /\ \A m \in MsgIds : sent'[m] = sent[m]
      /\ sent'[Len(sent) + 1] = d
  BY AppendFacts DEF TypeInv, TypeOK, MsgIds
<1>2. prefetched \in Seq(MsgIds')
  <2>1. Seq(MsgIds) \subseteq Seq(MsgIds')
    BY <1>1
  <2>2. QED
    BY <2>1 DEF TypeInv, TypeOK
<1>3. Prefetched' = Prefetched /\ InHand' = InHand /\ Unacked' = Unacked
      /\ Unacked \subseteq MsgIds
  BY DEF Prefetched, InHand, Unacked, TypeInv, TypeOK
<1>4. TypeOK'
  BY <1>1, <1>2, <1>3 DEF TypeInv, TypeOK, NoFault
<1>5. Places'
  BY <1>3 DEF TypeInv, Places
<1>6. QED
  BY <1>1, <1>4, <1>5 DEF TypeInv

\* The steps that leave what was sent alone, by what they need to show.
LEMMA TypeKept ==
  ASSUME TypeInv, UNCHANGED sent
  PROVE  MsgIds' = MsgIds
BY DEF MsgIds

LEMMA UnackedType == TypeInv => Unacked \subseteq MsgIds /\ Prefetched \subseteq MsgIds
BY DEF TypeInv, TypeOK, Unacked, Prefetched, InHand

LEMMA DeliverType ==
  ASSUME TypeInv, Deliver
  PROVE  /\ TypeInv' /\ MsgIds' = MsgIds
         /\ Oldest(ready) \in ready /\ \A n \in ready : Oldest(ready) <= n
         /\ Len(prefetched) \in Nat /\ Len(prefetched') = Len(prefetched) + 1
         /\ \A i \in 1 .. Len(prefetched) : prefetched'[i] = prefetched[i]
         /\ prefetched'[Len(prefetched) + 1] = Oldest(ready)
         /\ Prefetched' = Prefetched \cup {Oldest(ready)}
<1> DEFINE m == Oldest(ready)
<1>1. m \in ready /\ \A n \in ready : m <= n
  BY OldestIs DEF Deliver, TypeInv, TypeOK, MsgIds
<1>2. MsgIds' = MsgIds /\ m \in MsgIds
  BY <1>1, TypeKept DEF Deliver, TypeInv, TypeOK
<1>3. /\ prefetched' \in Seq(MsgIds)
      /\ Len(prefetched) \in Nat /\ Len(prefetched') = Len(prefetched) + 1
      /\ \A i \in 1 .. Len(prefetched) : prefetched'[i] = prefetched[i]
      /\ prefetched'[Len(prefetched) + 1] = m
  BY <1>2, AppendFacts DEF Deliver, TypeInv, TypeOK
<1> HIDE DEF m
<1>4. 1 .. Len(prefetched') = (1 .. Len(prefetched)) \cup {Len(prefetched) + 1}
  BY <1>3
<1>5. Prefetched' = Prefetched \cup {m}
  BY <1>3, <1>4 DEF Prefetched
<1>6. /\ ready' = ready \ {m} /\ chan = "open" /\ chan' = "open" /\ cur' = cur
      /\ UNCHANGED <<linked, sent, conn, step, indexVars, notes, faults, losses>>
  BY DEF Deliver, NoFault, m
<1>7. Unacked = Prefetched \cup InHand /\ Unacked' = Prefetched' \cup InHand'
      /\ InHand' = InHand
  BY <1>6 DEF Unacked, InHand
<1>8. m \notin Prefetched \cup InHand /\ m # 0
  BY <1>1, <1>2, <1>7 DEF TypeInv, TypeOK, MsgIds
<1>9. TypeOK'
  BY <1>2, <1>3, <1>5, <1>6, <1>7, <1>8 DEF TypeInv, TypeOK
<1>10. Places'
  <2>1. cur \notin Prefetched'
    BY <1>5, <1>6, <1>8 DEF TypeInv, Places, InHand
  <2>2. ASSUME NEW i \in 1 .. Len(prefetched'), NEW j \in 1 .. Len(prefetched'), i # j
        PROVE  prefetched'[i] # prefetched'[j]
    BY <1>3, <1>4, <1>6, <1>8, <2>2 DEF TypeInv, Places, Prefetched
  <2>3. QED
    BY <1>6, <2>1, <2>2 DEF Places
<1>11. QED
  BY <1>1, <1>2, <1>3, <1>5, <1>9, <1>10 DEF TypeInv, m

LEMMA TakeType ==
  ASSUME TypeInv, Take
  PROVE  /\ TypeInv' /\ MsgIds' = MsgIds
         /\ Head(prefetched) = prefetched[1] /\ 1 \in 1 .. Len(prefetched)
         /\ Head(prefetched) \in MsgIds
         /\ Len(prefetched) \in Nat /\ Len(prefetched') = Len(prefetched) - 1
         /\ \A i \in 1 .. Len(prefetched') : /\ prefetched'[i] = prefetched[i + 1]
                                             /\ i + 1 \in 1 .. Len(prefetched)
         /\ Prefetched = Prefetched' \cup {Head(prefetched)}
<1> DEFINE m == Head(prefetched)
<1>1. /\ m \in MsgIds /\ m = prefetched[1] /\ 1 \in 1 .. Len(prefetched)
      /\ prefetched' \in Seq(MsgIds) /\ Len(prefetched) \in Nat
      /\ Len(prefetched') = Len(prefetched) - 1
      /\ \A i \in 1 .. Len(prefetched') : /\ prefetched'[i] = prefetched[i + 1]
                                          /\ i + 1 \in 1 .. Len(prefetched)
  BY TailFacts DEF Take, TypeInv, TypeOK
<1>2. MsgIds' = MsgIds /\ m # 0
  BY <1>1, TypeKept DEF Take, MsgIds
<1> HIDE DEF m
<1>3. Prefetched = Prefetched' \cup {m}
  <2>1. \A i \in 1 .. Len(prefetched) : i = 1 \/ i - 1 \in 1 .. Len(prefetched')
    BY <1>1
  <2>2. \A i \in 1 .. Len(prefetched) : i # 1 => prefetched[i] = prefetched'[i - 1]
    BY <1>1, <2>1
  <2>3. \A n \in Prefetched : n = m \/ n \in Prefetched'
    BY <1>1, <2>1, <2>2 DEF Prefetched
  <2>4. \A n \in Prefetched' : n \in Prefetched
    BY <1>1 DEF Prefetched
  <2>5. m \in Prefetched
    BY <1>1 DEF Prefetched
  <2>6. QED
    BY <2>3, <2>4, <2>5
<1>4. /\ step = "take" /\ chan # "none" /\ cur = 0
      /\ \/ sent[m] = Garbage /\ cur' = 0 /\ step' = "take"
         \/ sent[m] # Garbage /\ cur' = m /\ step' = "index"
      /\ UNCHANGED <<linked, sent, ready, conn, chan, indexVars, notes, faults, losses>>
  BY DEF Take, NoFault, m, TypeInv, TypeOK
<1>5. Unacked' \subseteq Unacked
  BY <1>3, <1>4 DEF Unacked, InHand
<1>6. TypeOK'
  BY <1>1, <1>2, <1>4, <1>5 DEF TypeInv, TypeOK
<1>7. Places'
  <2>1. ASSUME chan = "open", NEW i \in 1 .. Len(prefetched')
        PROVE  prefetched'[i] # m /\ prefetched'[i] # 0
    BY <1>1, <1>2, <2>1 DEF TypeInv, TypeOK, Places, MsgIds
  <2>2. chan = "open" => cur' \notin Prefetched'
    BY <1>4, <2>1 DEF Prefetched
  <2>3. ASSUME chan = "open", NEW i \in 1 .. Len(prefetched'), NEW j \in 1 .. Len(prefetched'),
               i # j
        PROVE  prefetched'[i] # prefetched'[j]
    <3>1. i + 1 # j + 1 /\ i + 1 \in 1 .. Len(prefetched) /\ j + 1 \in 1 .. Len(prefetched)
      BY <1>1, <2>3
    <3>2. QED
      BY <1>1, <2>3, <3>1 DEF TypeInv, Places
  <2>4. QED
    BY <1>4, <2>2, <2>3 DEF Places
<1>8. QED
  BY <1>1, <1>2, <1>3, <1>6, <1>7 DEF TypeInv, m

\* The message in hand is applied or not.
LEMMA ApplyType ==
  ASSUME TypeInv, step = "index", Apply(cur) \/ UNCHANGED indexVars
  PROVE  /\ cur \in MsgIds /\ cur # 0 /\ sent[cur] \in DocIds
         /\ index' \in [DocIds -> MsgIds \cup {0}] /\ applied' \subseteq MsgIds
         /\ applied \subseteq applied' /\ applied' \subseteq applied \cup {cur}
         /\ \A d \in DocIds : index'[d] = index[d] \/ (index'[d] = cur /\ cur \in applied')
<1>1. cur \in MsgIds /\ cur # 0 /\ sent[cur] \in DocIds
  BY DEF TypeInv, TypeOK, MsgIds
<1>2. QED
  BY <1>1 DEF Apply, TypeInv, TypeOK

LEMMA StepType == TypeInv /\ [Next]_vars => TypeInv'
<1> SUFFICES ASSUME TypeInv, [Next]_vars PROVE TypeInv'
  OBVIOUS
<1>u. ASSUME UNCHANGED <<prefetched, chan, cur>>
      PROVE  Unacked' = Unacked /\ Prefetched' = Prefetched
  BY <1>u DEF Unacked, Prefetched, InHand
<1>f. Fault => faults' \in Nat /\ losses' \in Nat
  BY DEF Fault, TypeInv, TypeOK
<1>1. CASE UNCHANGED vars
  BY <1>1, <1>u, TypeKept DEF vars, TypeInv, TypeOK, Places
<1>2. ASSUME NEW d \in DocIds, Publish(d) PROVE TypeInv'
  BY <1>2, SendType DEF Publish
<1>3. CASE Stray
  BY <1>3, SendType DEF Stray
<1>4. CASE Reconnect
  <2>1. prefetched = <<>> /\ cur = 0 /\ chan' = "open"
        /\ UNCHANGED <<queueVars, conn, prefetched, cur, step, indexVars, notes, faults, losses>>
    BY <1>4 DEF Reconnect, NoFault, TypeInv, Places
  <2>2. Unacked' = {} /\ Prefetched' = {} /\ MsgIds' = MsgIds
    BY <2>1, TypeKept DEF Unacked, Prefetched, InHand
  <2>3. QED
    BY <2>1, <2>2 DEF TypeInv, TypeOK, Places
<1>5. CASE RetryFails \/ Drained
  BY <1>1, <1>5 DEF RetryFails, Drained
<1>6. CASE Deliver
  BY <1>6, DeliverType
<1>7. CASE Take
  BY <1>7, TakeType
<1>8. CASE IndexOk
  <2>1. /\ step = "index" /\ step' = "ack" /\ Apply(cur)
        /\ UNCHANGED <<queueVars, conn, chan, prefetched, cur, notes, faults, losses>>
    BY <1>8 DEF IndexOk, NoFault
  <2>2. QED
    BY <2>1, <1>u, ApplyType, TypeKept DEF TypeInv, TypeOK, Places
<1>9. CASE IndexFails \/ IndexRefused
  <2>1. /\ step = "index" /\ step' = "take" /\ cur' = 0
        /\ Apply(cur) \/ UNCHANGED indexVars
        /\ IF chan = "open" THEN ready' = ready \cup {cur} /\ requeued' = requeued \cup {cur}
                            ELSE UNCHANGED <<ready, requeued>>
        /\ UNCHANGED <<linked, sent, conn, chan, prefetched, wiped>>
        /\ faults' \in Nat /\ losses' \in Nat
    BY <1>9, <1>f DEF IndexFails, IndexRefused, SendBack, NoFault, TypeInv, TypeOK
  <2>2. MsgIds' = MsgIds /\ cur \in MsgIds /\ cur # 0 /\ Prefetched' = Prefetched
    BY <2>1, TypeKept, ApplyType DEF Prefetched
  <2>3. ready' \cap Unacked' = {}
    BY <2>1, <2>2 DEF TypeInv, TypeOK, Places, Unacked, InHand
  <2>4. 0 \notin Prefetched
    BY UnackedType DEF MsgIds
  <2>5. TypeOK'
    BY <2>1, <2>2, <2>3, ApplyType DEF TypeInv, TypeOK
  <2>6. Places'
    BY <2>1, <2>2, <2>4 DEF TypeInv, Places
  <2>7. QED
    BY <2>5, <2>6 DEF TypeInv
<1>10. CASE Ack
  <2>1. /\ cur' = 0 /\ step' = "take" /\ MsgIds' = MsgIds
        /\ UNCHANGED <<queueVars, conn, chan, prefetched, indexVars, notes, faults, losses>>
    BY <1>10, TypeKept DEF Ack, NoFault
  <2>2. 0 \notin Prefetched
    BY UnackedType DEF MsgIds
  <2>3. Prefetched' = Prefetched /\ InHand' = {}
    BY <2>1 DEF Prefetched, InHand
  <2>4. Unacked' \subseteq Unacked
    BY <2>1, <2>3 DEF Unacked
  <2>5. QED
    BY <2>1, <2>2, <2>3, <2>4 DEF TypeInv, TypeOK, Places
<1>11. CASE ChannelClosed \/ ConnLost
  <2>1. /\ chan' # "open" /\ chan' \in {"none", "dead"} /\ (chan' = "none" => chan = "none")
        /\ conn' \in BOOLEAN /\ Requeue
        /\ UNCHANGED <<prefetched, cur, step, indexVars>>
        /\ faults' \in Nat /\ losses' \in Nat
    <3>1. CASE ChannelClosed
      BY <3>1, <1>f DEF ChannelClosed, TypeInv, TypeOK
    <3>2. CASE ConnLost
      <4>1. faults' = faults /\ losses' = losses + 1
        BY <3>2 DEF ConnLost, Loss
      <4>2. conn' \in BOOLEAN
        BY <3>2 DEF ConnLost
      <4>3. chan' = IF chan = "open" THEN "dead" ELSE chan
        BY <3>2 DEF ConnLost
      <4>4. Requeue /\ UNCHANGED <<prefetched, cur, step, indexVars>>
        BY <3>2 DEF ConnLost
      <4>5. QED
        BY <4>1, <4>2, <4>3, <4>4 DEF TypeInv, TypeOK
    <3>3. QED
      BY <1>11, <3>1, <3>2
  <2>2. Unacked' = {} /\ MsgIds' = MsgIds
    BY <2>1, TypeKept DEF Unacked, Requeue
  <2>3. ready' \subseteq MsgIds /\ requeued' \subseteq MsgIds
    BY <2>1, UnackedType DEF Requeue, TypeInv, TypeOK
  <2>4. QED
    BY <2>1, <2>2, <2>3 DEF TypeInv, TypeOK, Places, Requeue
<1>12. CASE Notice
  <2>1. /\ chan = "dead" /\ chan' = "none" /\ prefetched' = <<>> /\ step = "take" /\ MsgIds' = MsgIds
        /\ UNCHANGED <<queueVars, conn, cur, step, indexVars, notes, faults, losses>>
    BY <1>12, TypeKept DEF Notice, NoFault
  <2>2. Unacked' = {} /\ <<>> \in Seq(MsgIds) /\ cur = 0
    BY <2>1 DEF Unacked, TypeInv, TypeOK
  <2>3. QED
    BY <2>1, <2>2 DEF TypeInv, TypeOK, Places
<1>13. CASE Restart
  <2>1. /\ conn' = TRUE /\ chan' = "none" /\ prefetched' = <<>> /\ cur' = 0 /\ step' = "take"
        /\ Requeue /\ UNCHANGED indexVars /\ faults' \in Nat /\ losses' \in Nat
    BY <1>13, <1>f DEF Restart
  <2>2. Unacked' = {} /\ <<>> \in Seq(MsgIds) /\ MsgIds' = MsgIds
    BY <2>1, TypeKept DEF Unacked, Requeue
  <2>3. ready' \subseteq MsgIds /\ requeued' \subseteq MsgIds
    BY <2>1, UnackedType DEF Requeue, TypeInv, TypeOK
  <2>4. QED
    BY <2>1, <2>2, <2>3 DEF TypeInv, TypeOK, Places, Requeue
<1>14. CASE BrokerRestarts
  <2>1. /\ ready' = {} /\ wiped' = wiped \cup ready \cup Unacked
        /\ linked' \in BOOLEAN /\ conn' \in BOOLEAN
        /\ chan' = IF chan = "open" THEN "dead" ELSE chan
        /\ UNCHANGED <<sent, prefetched, cur, step, indexVars, requeued>>
    BY <1>14 DEF BrokerRestarts
  <2>2. faults' \in Nat /\ losses' \in Nat
    BY <1>14 DEF BrokerRestarts, Loss, TypeInv, TypeOK
  <2>3. MsgIds' = MsgIds /\ wiped' \subseteq MsgIds
    BY <2>1, TypeKept, UnackedType DEF TypeInv, TypeOK
  <2>4. QED
    BY <2>1, <2>2, <2>3 DEF TypeInv, TypeOK, Places
<1>15. CASE PublisherLost \/ DocServiceRestarts
  <2>1. /\ linked' \in BOOLEAN /\ UNCHANGED <<sent, ready, consumerVars, indexVars, notes>>
        /\ faults' \in Nat /\ losses' \in Nat
    <3>1. CASE PublisherLost
      <4>1. linked' \in BOOLEAN /\ UNCHANGED <<sent, ready, consumerVars, indexVars, notes>>
        BY <3>1 DEF PublisherLost
      <4>2. faults' = faults /\ losses' = losses + 1
        BY <3>1 DEF PublisherLost, Loss
      <4>3. faults' \in Nat /\ losses' \in Nat
        BY <4>2 DEF TypeInv, TypeOK
      <4>4. QED
        BY <4>1, <4>3
    <3>2. CASE DocServiceRestarts
      BY <3>2 DEF DocServiceRestarts, NoFault, TypeInv, TypeOK
    <3>3. QED
      BY <1>15, <3>1, <3>2
  <2>2. QED
    BY <2>1, <1>u, TypeKept DEF TypeInv, TypeOK, Places
<1>16. QED
  BY <1>1, <1>2, <1>3, <1>4, <1>5, <1>6, <1>7, <1>8, <1>9, <1>10, <1>11, <1>12, <1>13,
     <1>14, <1>15 DEF Next, Consume

\* The variables keep their types, and a message the broker waits to hear of
\* is never ready for delivery at the same time.
THEOREM TypeCorrect == Spec => []TypeOK
<1>1. TypeInv => TypeOK
  BY DEF TypeInv
<1>2. QED
  BY <1>1, InitType, StepType, PTL DEF Spec

-----------------------------------------------------------------------------
(***************************************************************************)
(* No message is lost: what is acknowledged was applied.                   *)
(***************************************************************************)

AckedApplied == step = "ack" => cur \in applied

LossInv == TypeInv /\ AckedApplied /\ NoMessageLost

LEMMA InitLoss == Init => LossInv
<1> SUFFICES ASSUME Init PROVE LossInv
  OBVIOUS
<1>1. MsgIds = {}
  BY DEF Init, MsgIds
<1>2. QED
  BY <1>1, InitType DEF Init, LossInv, AckedApplied, NoMessageLost

\* A step that leaves what was sent alone keeps NoMessageLost, if what the
\* broker no longer waits for is ready, applied, wiped, or garbage.
LEMMA LossKept ==
  ASSUME LossInv, UNCHANGED sent,
         \A m \in ready \cup Unacked \cup applied \cup wiped :
           m \in ready' \cup Unacked' \cup applied' \cup wiped' \/ sent[m] = Garbage
  PROVE  NoMessageLost'
BY TypeKept DEF LossInv, NoMessageLost

LEMMA StepLoss == LossInv /\ [Next]_vars => LossInv'
<1> SUFFICES ASSUME LossInv, [Next]_vars PROVE AckedApplied' /\ NoMessageLost'
  BY StepType DEF LossInv
<1>t. TypeInv
  BY DEF LossInv
<1>u. ASSUME UNCHANGED <<prefetched, chan, cur>> PROVE Unacked' = Unacked
  BY <1>u DEF Unacked, Prefetched, InHand
<1>a. ASSUME step' # "ack" \/ UNCHANGED <<step, cur, applied>> PROVE AckedApplied'
  BY <1>a DEF LossInv, AckedApplied
<1>1. CASE UNCHANGED vars
  BY <1>1, <1>u, <1>a, LossKept DEF vars
<1>2. ASSUME NEW d \in DocIds \cup {Garbage}, sent' = Append(sent, d),
             ready' = ready \cup {Len(sent) + 1}, NoFault,
             UNCHANGED <<linked, consumerVars, indexVars, notes>>
      PROVE  AckedApplied' /\ NoMessageLost'
  <2>1. /\ MsgIds' = MsgIds \cup {Len(sent) + 1}
        /\ \A m \in MsgIds : sent'[m] = sent[m]
    BY <1>2, <1>t, SendType
  <2>2. NoMessageLost'
    BY <1>2, <1>u, <2>1 DEF LossInv, NoMessageLost
  <2>3. QED
    BY <1>2, <1>a, <2>2
<1>3. CASE Stray \/ \E d \in DocIds : Publish(d)
  BY <1>2, <1>3 DEF Stray, Publish
<1>4. CASE Reconnect
  <2>1. Unacked = {} /\ UNCHANGED <<sent, ready, applied, wiped, step, cur>>
    BY <1>4 DEF Reconnect, Unacked
  <2>2. QED
    BY <1>a, <2>1, LossKept
<1>5. CASE RetryFails \/ Drained
  BY <1>1, <1>5 DEF RetryFails, Drained
<1>6. CASE Deliver
  <2>1. /\ UNCHANGED <<sent, applied, wiped, step, cur, chan>> /\ chan = "open"
        /\ ready' = ready \ {Oldest(ready)}
    BY <1>6 DEF Deliver
  <2>2. Prefetched' = Prefetched \cup {Oldest(ready)}
    BY <1>6, <1>t, DeliverType
  <2>3. Unacked' = Unacked \cup {Oldest(ready)}
    BY <2>1, <2>2 DEF Unacked, InHand
  <2>4. QED
    BY <1>a, <2>1, <2>3, LossKept
<1>7. CASE Take
  <2>1. Prefetched = Prefetched' \cup {Head(prefetched)} /\ Head(prefetched) # 0
    BY <1>7, <1>t, TakeType DEF MsgIds
  <2>2. /\ cur = 0 /\ step' # "ack" /\ UNCHANGED <<sent, ready, applied, wiped, chan>>
        /\ sent[Head(prefetched)] = Garbage \/ cur' = Head(prefetched)
    BY <1>7, <1>t DEF Take, TypeInv, TypeOK
  <2>3. \A m \in Unacked : m \in Unacked' \/ sent[m] = Garbage
    BY <2>1, <2>2 DEF Unacked, InHand
  <2>4. QED
    BY <1>a, <2>2, <2>3, LossKept
<1>8. CASE IndexOk
  <2>1. applied' = applied \cup {cur} /\ UNCHANGED <<sent, ready, wiped, prefetched, chan, cur>>
    BY <1>8 DEF IndexOk, Apply
  <2>2. QED
    BY <1>u, <2>1, LossKept DEF AckedApplied
<1>9. CASE IndexFails \/ IndexRefused
  <2>1. /\ applied \subseteq applied' /\ step' # "ack" /\ UNCHANGED <<sent, wiped, prefetched, chan>>
        /\ chan = "open" => ready' = ready \cup {cur}
        /\ chan # "open" => ready' = ready
    BY <1>9 DEF IndexFails, IndexRefused, SendBack, Apply
  <2>2. Prefetched' = Prefetched
    BY <2>1 DEF Prefetched
  <2>3. \A m \in Unacked : m \in Unacked' \cup ready'
    BY <2>1, <2>2 DEF Unacked, InHand
  <2>4. QED
    BY <1>a, <2>1, <2>3, LossKept
<1>10. CASE Ack
  <2>1. /\ step = "ack" /\ cur' = 0 /\ step' # "ack"
        /\ UNCHANGED <<sent, ready, applied, wiped, prefetched, chan>>
    BY <1>10 DEF Ack
  <2>2. \A m \in Unacked : m \in Unacked' \cup applied
    BY <2>1 DEF Unacked, InHand, Prefetched, LossInv, AckedApplied
  <2>3. QED
    BY <1>a, <2>1, <2>2, LossKept
<1>11. CASE ChannelClosed \/ ConnLost
  <2>1. Unacked \subseteq ready' /\ ready \subseteq ready' /\ UNCHANGED <<sent, applied, wiped, step, cur>>
    BY <1>11 DEF ChannelClosed, ConnLost, Requeue
  <2>2. QED
    BY <1>a, <2>1, LossKept
<1>12. CASE Notice
  <2>1. Unacked = {} /\ UNCHANGED <<sent, ready, applied, wiped, step, cur>>
    BY <1>12 DEF Notice, Unacked
  <2>2. QED
    BY <1>a, <2>1, LossKept
<1>13. CASE Restart
  <2>1. Unacked \subseteq ready' /\ ready \subseteq ready' /\ UNCHANGED <<sent, applied, wiped>>
        /\ step' # "ack"
    BY <1>13 DEF Restart, Requeue
  <2>2. QED
    BY <1>a, <2>1, LossKept
<1>14. CASE BrokerRestarts
  <2>1. ready \cup Unacked \cup wiped \subseteq wiped' /\ UNCHANGED <<sent, applied, step, cur>>
    BY <1>14 DEF BrokerRestarts
  <2>2. QED
    BY <1>a, <2>1, LossKept
<1>15. CASE PublisherLost \/ DocServiceRestarts
  BY <1>15, <1>u, <1>a, LossKept DEF PublisherLost, DocServiceRestarts
<1>16. QED
  BY <1>1, <1>3, <1>4, <1>5, <1>6, <1>7, <1>8, <1>9, <1>10, <1>11, <1>12, <1>13, <1>14, <1>15
     DEF Next, Consume

\* Whatever fails, closes or restarts on the side of the search service: a
\* message that is no garbage is in the queue, with the consumer, or applied.
\* What a restart of the broker takes is exempt: publisher.go:57 publishes
\* transient messages, and those in the queue then (wiped) are lost.
THEOREM NothingLost == Spec => []NoMessageLost
<1>1. LossInv => NoMessageLost
  BY DEF LossInv
<1>2. QED
  BY <1>1, InitLoss, StepLoss, PTL DEF Spec

-----------------------------------------------------------------------------
(***************************************************************************)
(* Order.  A message that was never put back is behind all that were ever  *)
(* delivered before it, in the queue, on its way and in hand.              *)
(***************************************************************************)

QueueInOrder ==
  \A m \in ready \ requeued : \A n \in requeued \cup Prefetched \cup InHand \cup applied : n < m
ChannelInOrder ==
  /\ \A i, j \in 1 .. Len(prefetched) :
       i < j /\ prefetched[j] \notin requeued => prefetched[i] < prefetched[j]
  /\ \A m \in Prefetched \ requeued : \A n \in InHand \cup applied : n < m
HandInOrder == \A m \in InHand \ requeued : \A n \in applied : n <= m
IndexApplied == \A d \in DocIds : index[d] \in applied \cup {0}

Ordered == QueueInOrder /\ ChannelInOrder /\ HandInOrder /\ IndexApplied
OrderInv == TypeInv /\ Ordered

LEMMA InitOrder == Init => OrderInv
<1> SUFFICES ASSUME Init PROVE OrderInv
  OBVIOUS
<1>1. ready = {} /\ Prefetched = {} /\ InHand = {} /\ applied = {} /\ Len(prefetched) = 0
  BY DEF Init, Prefetched, InHand
<1>2. IndexApplied
  BY DEF Init, IndexApplied
<1>3. QED
  BY <1>1, <1>2, InitType
     DEF OrderInv, Ordered, QueueInOrder, ChannelInOrder, HandInOrder

\* A step that delivers, takes and applies nothing: messages only go back to
\* the queue, and leave the consumer.
LEMMA OrderKept ==
  ASSUME OrderInv, UNCHANGED <<applied, index>>,
         requeued \subseteq requeued', requeued' \subseteq requeued \cup Unacked,
         ready' \subseteq ready \cup requeued',
         prefetched' = prefetched \/ prefetched' = <<>>,
         cur' = cur \/ cur' = 0
  PROVE  Ordered'
<1>t. TypeInv /\ Ordered
  BY DEF OrderInv
<1>1. /\ Prefetched' \subseteq Prefetched /\ InHand' \subseteq InHand
      /\ Unacked \subseteq Prefetched \cup InHand
  BY DEF Prefetched, InHand, Unacked
<1>2. QueueInOrder'
  BY <1>t, <1>1 DEF Ordered, QueueInOrder
<1>3. ChannelInOrder'
  <2>1. CASE prefetched' = prefetched
    BY <1>t, <1>1, <2>1 DEF Ordered, ChannelInOrder
  <2>2. CASE prefetched' = <<>>
    BY <2>2 DEF ChannelInOrder, Prefetched
  <2>3. QED
    BY <2>1, <2>2
<1>4. HandInOrder' /\ IndexApplied'
  BY <1>t, <1>1 DEF Ordered, HandInOrder, IndexApplied
<1>5. QED
  BY <1>2, <1>3, <1>4 DEF Ordered

\* What is published is newer than all there is.
LEMMA SendOrder ==
  ASSUME OrderInv, NEW d \in DocIds \cup {Garbage}, sent' = Append(sent, d),
         ready' = ready \cup {Len(sent) + 1}, UNCHANGED <<linked, consumerVars, indexVars, notes>>
  PROVE  Ordered'
<1>t. TypeInv /\ Ordered /\ Len(sent) \in Nat
  BY DEF OrderInv, TypeInv, TypeOK
<1>1. Prefetched' = Prefetched /\ InHand' = InHand
  BY DEF Prefetched, InHand
<1>2. \A n \in requeued \cup Prefetched \cup InHand \cup applied : n < Len(sent) + 1
  BY <1>t, UnackedType DEF TypeInv, TypeOK, MsgIds, InHand
<1>3. QueueInOrder'
  BY <1>t, <1>1, <1>2 DEF Ordered, QueueInOrder
<1>4. QED
  BY <1>t, <1>1, <1>3
     DEF Ordered, ChannelInOrder, HandInOrder, IndexApplied

LEMMA DeliverOrder == ASSUME OrderInv, Deliver PROVE Ordered'
<1> DEFINE m == Oldest(ready)
<1>t. TypeInv /\ Ordered
  BY DEF OrderInv
<1>1. /\ m \in ready /\ \A n \in ready : m <= n
      /\ Len(prefetched) \in Nat /\ Len(prefetched') = Len(prefetched) + 1
      /\ \A i \in 1 .. Len(prefetched) : prefetched'[i] = prefetched[i]
      /\ prefetched'[Len(prefetched) + 1] = m
      /\ Prefetched' = Prefetched \cup {m}
  BY <1>t, DeliverType
<1>2. /\ ready' = ready \ {m} /\ chan' = "open"
      /\ UNCHANGED <<cur, indexVars, requeued>>
  BY DEF Deliver
<1> HIDE DEF m
<1>3. InHand' = InHand /\ ready \subseteq Nat /\ m \in Nat
  BY <1>1, <1>2, <1>t DEF InHand, TypeInv, TypeOK, MsgIds
<1>4. QueueInOrder'
  <2>1. \A n \in ready' : m < n
    BY <1>1, <1>2, <1>3
  <2>2. QED
    BY <1>t, <1>1, <1>2, <1>3, <2>1 DEF Ordered, QueueInOrder
<1>5. ChannelInOrder'
  <2>1. m \notin requeued => \A n \in Prefetched \cup InHand \cup applied : n < m
    BY <1>t, <1>1 DEF Ordered, QueueInOrder
  <2>2. ASSUME NEW i \in 1 .. Len(prefetched'), NEW j \in 1 .. Len(prefetched'), i < j,
               prefetched'[j] \notin requeued
        PROVE  prefetched'[i] < prefetched'[j]
    <3>1. i \in 1 .. Len(prefetched) /\ prefetched'[i] = prefetched[i]
      BY <1>1, <2>2
    <3>2. CASE j = Len(prefetched) + 1
      BY <1>1, <2>1, <2>2, <3>1, <3>2 DEF Prefetched
    <3>3. CASE j \in 1 .. Len(prefetched)
      BY <1>1, <1>t, <2>2, <3>1, <3>3 DEF Ordered, ChannelInOrder
    <3>4. QED
      BY <1>1, <3>2, <3>3
  <2>3. ASSUME NEW k \in Prefetched' \ requeued, NEW n \in InHand \cup applied PROVE n < k
    BY <1>t, <1>1, <2>1, <2>3 DEF Ordered, ChannelInOrder
  <2>4. QED
    BY <1>2, <1>3, <2>2, <2>3 DEF ChannelInOrder
<1>6. QED
  BY <1>t, <1>2, <1>3, <1>4, <1>5 DEF Ordered, HandInOrder, IndexApplied

LEMMA TakeOrder == ASSUME OrderInv, Take PROVE Ordered'
<1> DEFINE m == Head(prefetched)
<1>t. TypeInv /\ Ordered
  BY DEF OrderInv
<1>1. /\ m = prefetched[1] /\ 1 \in 1 .. Len(prefetched)
      /\ Len(prefetched) \in Nat /\ Len(prefetched') = Len(prefetched) - 1
      /\ \A i \in 1 .. Len(prefetched') : /\ prefetched'[i] = prefetched[i + 1]
                                          /\ i + 1 \in 1 .. Len(prefetched)
      /\ Prefetched = Prefetched' \cup {m} /\ m \in Nat
  BY <1>t, TakeType DEF MsgIds
<1>2. /\ cur = 0 /\ cur' \in {0, m}
      /\ UNCHANGED <<ready, chan, indexVars, requeued>>
  BY <1>t DEF Take, TypeInv, TypeOK
<1> HIDE DEF m
<1>3. InHand = {} /\ InHand' \subseteq {m}
  BY <1>2 DEF InHand
<1>4. QueueInOrder'
  BY <1>t, <1>1, <1>2, <1>3 DEF Ordered, QueueInOrder
<1>5. ChannelInOrder'
  <2>1. ASSUME NEW i \in 1 .. Len(prefetched'), NEW j \in 1 .. Len(prefetched'), i < j,
               prefetched'[j] \notin requeued
        PROVE  prefetched'[i] < prefetched'[j]
    <3>1. i + 1 < j + 1 /\ i + 1 \in 1 .. Len(prefetched) /\ j + 1 \in 1 .. Len(prefetched)
      BY <1>1, <2>1
    <3>2. QED
      BY <1>1, <1>t, <2>1, <3>1 DEF Ordered, ChannelInOrder
  <2>2. ASSUME NEW k \in Prefetched' \ requeued PROVE m < k
    <3>1. PICK i \in 1 .. Len(prefetched') : k = prefetched'[i]
      BY DEF Prefetched
    <3>2. 1 < i + 1 /\ i + 1 \in 1 .. Len(prefetched) /\ k = prefetched[i + 1]
      BY <1>1, <3>1
    <3>3. QED
      BY <1>1, <1>t, <3>2 DEF Ordered, ChannelInOrder
  <2>3. \A k \in Prefetched' \ requeued : \A n \in applied : n < k
    BY <1>t, <1>1 DEF Ordered, ChannelInOrder
  <2>4. QED
    BY <1>2, <1>3, <2>1, <2>2, <2>3 DEF ChannelInOrder
<1>6. HandInOrder'
  <2>1. m \in Prefetched
    BY <1>1
  <2>2. applied \subseteq Nat
    BY <1>t DEF TypeInv, TypeOK, MsgIds
  <2>3. m \notin requeued => \A n \in applied : n < m
    BY <1>t, <2>1 DEF Ordered, ChannelInOrder
  <2>4. QED
    BY <1>1, <1>2, <1>3, <2>2, <2>3 DEF HandInOrder
<1>7. IndexApplied'
  BY <1>t, <1>1, <1>2, <1>3 DEF Ordered, IndexApplied
<1>8. QED
  BY <1>4, <1>5, <1>6, <1>7 DEF Ordered

\* Elasticsearch applies the message in hand.
LEMMA ApplyOrder ==
  ASSUME OrderInv, step = "index", Apply(cur) \/ UNCHANGED indexVars,
         UNCHANGED <<prefetched, chan>>, cur' = cur \/ cur' = 0,
         \/ UNCHANGED <<ready, requeued>>
         \/ ready' = ready \cup {cur} /\ requeued' = requeued \cup {cur}
  PROVE  Ordered'
<1>t. TypeInv /\ Ordered
  BY DEF OrderInv
<1>1. /\ cur \in Nat \ {0} /\ applied \subseteq applied' /\ applied' \subseteq applied \cup {cur}
      /\ \A d \in DocIds : index'[d] = index[d] \/ (index'[d] = cur /\ cur \in applied')
  BY <1>t, ApplyType DEF MsgIds
<1>2. /\ Prefetched' = Prefetched /\ InHand = {cur} /\ InHand' \subseteq {cur}
      /\ requeued \subseteq requeued' /\ requeued' \subseteq requeued \cup {cur}
      /\ ready' \subseteq ready \cup requeued'
  BY <1>1 DEF Prefetched, InHand
<1>3. QueueInOrder'
  BY <1>t, <1>1, <1>2 DEF Ordered, QueueInOrder
<1>4. ChannelInOrder'
  BY <1>t, <1>1, <1>2 DEF Ordered, ChannelInOrder
<1>5. HandInOrder'
  BY <1>t, <1>1, <1>2 DEF Ordered, HandInOrder
<1>6. IndexApplied'
  BY <1>t, <1>1, <1>2 DEF Ordered, IndexApplied
<1>7. QED
  BY <1>3, <1>4, <1>5, <1>6 DEF Ordered

LEMMA StepOrder == OrderInv /\ [Next]_vars => OrderInv'
<1> SUFFICES ASSUME OrderInv, [Next]_vars PROVE Ordered'
  BY StepType DEF OrderInv
<1>1. CASE UNCHANGED vars
  BY <1>1, OrderKept DEF vars
<1>2. CASE Stray \/ \E d \in DocIds : Publish(d)
  BY <1>2, SendOrder DEF Stray, Publish
<1>3. CASE Reconnect
  BY <1>3, OrderKept DEF Reconnect
<1>4. CASE RetryFails \/ Drained
  BY <1>1, <1>4 DEF RetryFails, Drained
<1>5. CASE Deliver
  BY <1>5, DeliverOrder
<1>6. CASE Take
  BY <1>6, TakeOrder
<1>7. CASE IndexOk
  BY <1>7, ApplyOrder DEF IndexOk
<1>8. CASE IndexFails \/ IndexRefused
  BY <1>8, ApplyOrder DEF IndexFails, IndexRefused, SendBack
<1>9. CASE Ack \/ Notice
  BY <1>9, OrderKept DEF Ack, Notice
<1>10. CASE ChannelClosed \/ ConnLost \/ Restart
  BY <1>10, OrderKept DEF ChannelClosed, ConnLost, Restart, Requeue
<1>11. CASE BrokerRestarts \/ PublisherLost \/ DocServiceRestarts
  BY <1>11, OrderKept DEF BrokerRestarts, PublisherLost, DocServiceRestarts
<1>12. QED
  BY <1>1, <1>2, <1>3, <1>4, <1>5, <1>6, <1>7, <1>8, <1>9, <1>10, <1>11 DEF Next, Consume

\* The index goes back to an older state of a document only by a message that
\* was put back in the queue: redelivery is the one cause of a stale index.
THEOREM OlderByRequeueOnly == Spec => OlderOnlyByRequeue
<1>1. OrderInv /\ OrderInv' /\ [Next]_vars
        => [\A d \in DocIds : index'[d] < index[d] => index'[d] \in requeued]_vars
  <2> SUFFICES ASSUME OrderInv, Next, NEW d \in DocIds, index'[d] < index[d]
               PROVE  index'[d] \in requeued
    OBVIOUS
  <2>t. TypeInv /\ Ordered /\ index[d] \in Nat
    BY DEF OrderInv, TypeInv, TypeOK, MsgIds
  <2>1. CASE IndexOk \/ IndexFails
    <3>1. step = "index" /\ (Apply(cur) \/ UNCHANGED indexVars)
      BY <2>1 DEF IndexOk, IndexFails
    <3>2. index'[d] = index[d] \/ index'[d] = cur
      BY <2>t, <3>1, ApplyType
    <3>3. index'[d] = cur /\ cur \in InHand /\ cur \in Nat
      BY <2>t, <3>1, <3>2, ApplyType DEF InHand, MsgIds
    <3>4. index[d] \in applied
      BY <2>t, <3>3 DEF Ordered, IndexApplied
    <3>5. QED
      BY <2>t, <3>3, <3>4 DEF Ordered, HandInOrder
  <2>2. CASE ~(IndexOk \/ IndexFails)
    <3>1. index' = index
      BY <2>2 DEF Next, Stray, Publish, Reconnect, RetryFails, Drained, Deliver, Consume,
                  Take, IndexRefused, Ack, Notice, ChannelClosed, ConnLost, Restart,
                  PublisherLost, DocServiceRestarts, BrokerRestarts, vars
    <3>2. QED
      BY <2>t, <3>1
  <2>3. QED
    BY <2>1, <2>2
<1>2. QED
  BY <1>1, InitOrder, StepOrder, PTL DEF Spec, OlderOnlyByRequeue

-----------------------------------------------------------------------------
(***************************************************************************)
(* Until a message about it comes back, the index of a document is the     *)
(* latest that was applied.                                                *)
(***************************************************************************)

Indexed == \A d \in DocIds :
  /\ index[d] # 0 => sent[index[d]] = d
  /\ (\A m \in requeued : sent[m] # d) => \A m \in applied : sent[m] = d => m <= index[d]

LEMMA InitIndexed == Init => Indexed
BY DEF Init, Indexed

LEMMA IndexedKept ==
  ASSUME TypeInv, Indexed, UNCHANGED <<sent, index, applied>>, requeued \subseteq requeued'
  PROVE  Indexed'
BY DEF Indexed

LEMMA SendIndexed ==
  ASSUME TypeInv, Indexed, NEW d \in DocIds \cup {Garbage}, sent' = Append(sent, d),
         ready' = ready \cup {Len(sent) + 1}, UNCHANGED <<linked, consumerVars, indexVars, notes>>,
         NoFault
  PROVE  Indexed'
<1>1. \A m \in MsgIds : sent'[m] = sent[m]
  BY SendType
<1>2. /\ index \in [DocIds -> MsgIds \cup {0}] /\ applied \subseteq MsgIds /\ requeued \subseteq MsgIds
      /\ UNCHANGED <<index, applied, requeued>>
  BY DEF TypeInv, TypeOK
<1>3. QED
  BY <1>1, <1>2 DEF Indexed

LEMMA ApplyIndexed ==
  ASSUME OrderInv, Indexed, step = "index", Apply(cur) \/ UNCHANGED indexVars, UNCHANGED sent,
         requeued \subseteq requeued'
  PROVE  Indexed'
<1>t. TypeInv /\ Ordered
  BY DEF OrderInv
<1>1. /\ cur \in MsgIds /\ cur \in Nat /\ cur # 0 /\ sent[cur] \in DocIds
      /\ index \in [DocIds -> MsgIds \cup {0}] /\ applied \subseteq MsgIds
  BY <1>t, ApplyType DEF TypeInv, TypeOK, MsgIds
<1>2. CASE Apply(cur)
  <2>1. /\ index'[sent[cur]] = cur /\ applied' = applied \cup {cur}
        /\ \A d \in DocIds \ {sent[cur]} : index'[d] = index[d]
    BY <1>1, <1>2 DEF Apply
  <2>2. cur \notin requeued => \A n \in applied : n <= cur
    BY <1>t, <1>1 DEF Ordered, HandInOrder, InHand
  <2>3. ASSUME NEW d \in DocIds
        PROVE  /\ index'[d] # 0 => sent[index'[d]] = d
               /\ (\A m \in requeued' : sent[m] # d) =>
                    \A m \in applied' : sent[m] = d => m <= index'[d]
    <3>1. CASE d = sent[cur]
      BY <1>1, <2>1, <2>2, <3>1
    <3>2. CASE d # sent[cur]
      BY <1>1, <2>1, <3>2 DEF Indexed
    <3>3. QED
      BY <3>1, <3>2
  <2>4. QED
    BY <2>3 DEF Indexed
<1>3. CASE UNCHANGED indexVars
  BY <1>t, <1>3, IndexedKept
<1>4. QED
  BY <1>2, <1>3

LEMMA StepIndexed == OrderInv /\ Indexed /\ [Next]_vars => Indexed'
<1> SUFFICES ASSUME OrderInv, Indexed, [Next]_vars PROVE Indexed'
  OBVIOUS
<1>t. TypeInv
  BY DEF OrderInv
<1>1. CASE UNCHANGED vars
  BY <1>1, <1>t, IndexedKept DEF vars
<1>2. CASE Stray \/ \E d \in DocIds : Publish(d)
  BY <1>2, <1>t, SendIndexed DEF Stray, Publish
<1>3. CASE Reconnect \/ Deliver \/ Take \/ Ack \/ Notice
  BY <1>3, <1>t, IndexedKept DEF Reconnect, Deliver, Take, Ack, Notice
<1>4. CASE RetryFails \/ Drained
  BY <1>1, <1>4 DEF RetryFails, Drained
<1>5. CASE IndexOk \/ IndexFails \/ IndexRefused
  <2>1. /\ step = "index" /\ UNCHANGED sent /\ requeued \subseteq requeued'
        /\ Apply(cur) \/ UNCHANGED indexVars
    BY <1>5 DEF IndexOk, IndexFails, IndexRefused, SendBack
  <2>2. QED
    BY <2>1, ApplyIndexed
<1>6. CASE ChannelClosed \/ ConnLost \/ Restart
  BY <1>6, <1>t, IndexedKept DEF ChannelClosed, ConnLost, Restart, Requeue
<1>7. CASE BrokerRestarts \/ PublisherLost \/ DocServiceRestarts
  BY <1>7, <1>t, IndexedKept DEF BrokerRestarts, PublisherLost, DocServiceRestarts
<1>8. QED
  BY <1>1, <1>2, <1>3, <1>4, <1>5, <1>6, <1>7 DEF Next, Consume
===========================================================================
