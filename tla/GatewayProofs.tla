--------------------------- MODULE GatewayProofs ---------------------------
(***************************************************************************)
(* What TLAPS proves of the gateway and its services, for any number of    *)
(* requests, ports and events, any routes, lease and timeouts.             *)
(***************************************************************************)
EXTENDS Gateway, FiniteSetTheorems, WellFoundedInduction, TLAPS

USE DEF rpcVars, gwVars, procVars, etcdVars, imageVars, notes, serviceVars

-----------------------------------------------------------------------------
(***************************************************************************)
(* The processes of the services and their entries in etcd: what each step *)
(* of Services preserves.                                                  *)
(***************************************************************************)

Has(s, step) == \E i \in 1 .. Len(todo[s]) : todo[s][i] = step

ImageWork == {"images", "make", "policy"}
StopWork == {"refuse", "drain", "close"}

-----------------------------------------------------------------------------
(***************************************************************************)
(* The invariant.                                                          *)
(***************************************************************************)

\* What is left of a main: a service registers after it listens, only the
\* document service works on images and has none meanwhile, and a process
\* that stops does so in three steps.
InOrder(s) ==
  /\ life[s] \in {"down", "serving"} => todo[s] = <<>>
  /\ life[s] = "starting" => \A i \in 1 .. Len(todo[s]) : todo[s][i] \notin StopWork
  /\ life[s] = "stopping" =>
       /\ todo[s] \in {StopSteps, <<"drain", "close">>, <<"close">>}
       /\ todo[s] # StopSteps => s \notin open
  /\ \A i \in 1 .. Len(todo[s]) :
       /\ todo[s][i] = "register" => s \in open \/ \E j \in 1 .. i - 1 : todo[s][j] = "listen"
       /\ todo[s][i] \in ImageWork => s = "doc" /\ ~images
       /\ todo[s][i] = "make" => i = 1 /\ Len(todo[s]) = 2 /\ todo[s][2] = "policy"
       /\ todo[s][i] \in {"images", "policy"} => i = Len(todo[s])
       /\ todo[s][i] = "policy" => todo[s][1] = "make" \/ bucket # "none"

MainInOrder == \A s \in Names : InOrder(s)

\* A lease is kept by a process that listens, or has listened.
Keepers == \A s \in keeper : s \in open \/ life[s] = "stopping"

\* A key outlives its process by no more than the lease.
Leases ==
  \A s \in Names, p \in Ports :
    \/ entry[s][p] + ended[s][p] <= LeaseTTL
    \/ Listens(s, p)
    \/ life[s] = "stopping" /\ port[s] = p

\* A process that is past its Register keeps its key.
Registered ==
  \A s \in Names : life[s] # "down" /\ s \notin lost /\ ~Has(s, "register") =>
    s \in keeper /\ entry[s][port[s]] > 0

\* A bucket is private only between MakeBucket and SetBucketPolicy.
Readable == bucket = "private" /\ ~spoiled => "doc" \in Names /\ Doing("doc", "policy")

Etcd == Keepers /\ Leases /\ Registered
SvcInv == ServicesTypeOK /\ MainInOrder /\ Etcd /\ Readable

-----------------------------------------------------------------------------
(***************************************************************************)
(* The steps of a main.                                                    *)
(***************************************************************************)

LEMMA TailFacts ==
  ASSUME NEW S, NEW q \in Seq(S), q # <<>>
  PROVE  /\ Tail(q) \in Seq(S) /\ Len(q) \in Nat \ {0} /\ Len(Tail(q)) = Len(q) - 1
         /\ Head(q) = q[1] /\ Head(q) \in S
         /\ \A i \in 1 .. Len(Tail(q)) : i + 1 \in 1 .. Len(q) /\ Tail(q)[i] = q[i + 1]
OBVIOUS

LEMMA NotEmpty ==
  ASSUME NEW S, NEW q \in Seq(S), Len(q) = 1
  PROVE  q # <<>> /\ Head(q) = q[1]
OBVIOUS

\* The main functions: each registers, and none before it listens.
LEMMA MainFacts ==
  ASSUME NEW s \in Names
  PROVE  /\ Main[s] \in Seq(Steps) /\ Main[s] # <<>>
         /\ \E i \in 1 .. Len(Main[s]) : Main[s][i] = "register"
         /\ \A i \in 1 .. Len(Main[s]) :
              /\ Main[s][i] \notin StopWork \cup {"make", "policy"}
              /\ Main[s][i] = "register" => \E j \in 1 .. i - 1 : Main[s][j] = "listen"
              /\ Main[s][i] \in ImageWork => s = "doc" /\ i = Len(Main[s])
<1> DEFINE main == Main[s]
<1>1. CASE s = "user"
  <2>1. main = <<"postgres", "initDB", "listen", "register">>
    BY <1>1 DEF Main, UserMain
  <2> HIDE DEF main
  <2>2. main \in Seq(Steps) /\ Len(main) = 4
    BY <2>1 DEF Steps
  <2>3. main[1] = "postgres" /\ main[2] = "initDB" /\ main[3] = "listen" /\ main[4] = "register"
    BY <2>1
  <2>4. 4 \in 1 .. Len(main) /\ main # <<>>
    BY <2>2
  <2>5. ASSUME NEW i \in 1 .. Len(main)
        PROVE  /\ main[i] \notin StopWork \cup {"make", "policy"}
               /\ main[i] = "register" => \E j \in 1 .. i - 1 : main[j] = "listen"
               /\ main[i] \in ImageWork => s = "doc" /\ i = Len(main)
    <3>1. i \in 1 .. 4 /\ 3 \in 1 .. 4 - 1
      BY <2>2
    <3>2. main[i] = "register" => i = 4
      BY <2>3, <3>1
    <3>3. QED
      BY <1>1, <2>2, <2>3, <3>1, <3>2 DEF StopWork, ImageWork
  <2>6. QED
    BY <2>2, <2>3, <2>4, <2>5 DEF main
<1>2. CASE s = "doc"
  <2>1. main = <<"redis", "listen", "register", "publisher", "images">>
    BY <1>2 DEF Main, DocMain
  <2> HIDE DEF main
  <2>2. main \in Seq(Steps) /\ Len(main) = 5
    BY <2>1 DEF Steps
  <2>3. main[1] = "redis" /\ main[2] = "listen" /\ main[3] = "register" /\ main[4] = "publisher" /\ main[5] = "images"
    BY <2>1
  <2>4. 3 \in 1 .. Len(main) /\ main # <<>>
    BY <2>2
  <2>5. ASSUME NEW i \in 1 .. Len(main)
        PROVE  /\ main[i] \notin StopWork \cup {"make", "policy"}
               /\ main[i] = "register" => \E j \in 1 .. i - 1 : main[j] = "listen"
               /\ main[i] \in ImageWork => s = "doc" /\ i = Len(main)
    <3>1. i \in 1 .. 5 /\ 2 \in 1 .. 3 - 1
      BY <2>2
    <3>2. main[i] = "register" => i = 3
      BY <2>3, <3>1
    <3>3. QED
      BY <1>2, <2>2, <2>3, <3>1, <3>2 DEF StopWork, ImageWork
  <2>6. QED
    BY <2>2, <2>3, <2>4, <2>5 DEF main
<1>3. CASE s = "search"
  <2>1. main = <<"rabbit", "listen", "register">>
    BY <1>3 DEF Main, SearchMain
  <2> HIDE DEF main
  <2>2. main \in Seq(Steps) /\ Len(main) = 3
    BY <2>1 DEF Steps
  <2>3. main[1] = "rabbit" /\ main[2] = "listen" /\ main[3] = "register"
    BY <2>1
  <2>4. 3 \in 1 .. Len(main) /\ main # <<>>
    BY <2>2
  <2>5. ASSUME NEW i \in 1 .. Len(main)
        PROVE  /\ main[i] \notin StopWork \cup {"make", "policy"}
               /\ main[i] = "register" => \E j \in 1 .. i - 1 : main[j] = "listen"
               /\ main[i] \in ImageWork => s = "doc" /\ i = Len(main)
    <3>1. i \in 1 .. 3 /\ 2 \in 1 .. 3 - 1
      BY <2>2
    <3>2. main[i] = "register" => i = 3
      BY <2>3, <3>1
    <3>3. QED
      BY <1>3, <2>2, <2>3, <3>1, <3>2 DEF StopWork, ImageWork
  <2>6. QED
    BY <2>2, <2>3, <2>4, <2>5 DEF main
<1>4. CASE s = "collab"
  <2>1. main = <<"ws", "listen", "register">>
    BY <1>4 DEF Main, CollabMain
  <2> HIDE DEF main
  <2>2. main \in Seq(Steps) /\ Len(main) = 3
    BY <2>1 DEF Steps
  <2>3. main[1] = "ws" /\ main[2] = "listen" /\ main[3] = "register"
    BY <2>1
  <2>4. 3 \in 1 .. Len(main) /\ main # <<>>
    BY <2>2
  <2>5. ASSUME NEW i \in 1 .. Len(main)
        PROVE  /\ main[i] \notin StopWork \cup {"make", "policy"}
               /\ main[i] = "register" => \E j \in 1 .. i - 1 : main[j] = "listen"
               /\ main[i] \in ImageWork => s = "doc" /\ i = Len(main)
    <3>1. i \in 1 .. 3 /\ 2 \in 1 .. 3 - 1
      BY <2>2
    <3>2. main[i] = "register" => i = 3
      BY <2>3, <3>1
    <3>3. QED
      BY <1>4, <2>2, <2>3, <3>1, <3>2 DEF StopWork, ImageWork
  <2>6. QED
    BY <2>2, <2>3, <2>4, <2>5 DEF main
<1>5. QED
  BY <1>1, <1>2, <1>3, <1>4, ServicesAssumption

\* A step of a main is done.
LEMMA DoneFacts ==
  ASSUME ServicesTypeOK, NEW s \in Names, todo[s] # <<>>, Done(s)
  PROVE  /\ todo' \in [Names -> Seq(Steps)]
         /\ \A t \in Names \ {s} : todo'[t] = todo[t]
         /\ Len(todo[s]) \in Nat \ {0} /\ Len(todo'[s]) = Len(todo[s]) - 1
         /\ Head(todo[s]) = todo[s][1]
         /\ \A i \in 1 .. Len(todo'[s]) :
              i + 1 \in 1 .. Len(todo[s]) /\ todo'[s][i] = todo[s][i + 1]
<1>1. todo[s] \in Seq(Steps) /\ todo' = [todo EXCEPT ![s] = Tail(todo[s])]
      /\ todo \in [Names -> Seq(Steps)]
  BY DEF ServicesTypeOK, Done
<1>2. QED
  BY <1>1, TailFacts

\* What is left alone stays in order.
LEMMA OthersInOrder ==
  ASSUME NEW t \in Names, InOrder(t), todo'[t] = todo[t], life'[t] = life[t],
         t \in open' <=> t \in open, images' => images \/ t # "doc",
         bucket # "none" => bucket' # "none"
  PROVE  InOrder(t)'
BY DEF InOrder

\* Doing a step of its start, a main stays in order.
LEMMA DoneInOrder ==
  ASSUME ServicesTypeOK, MainInOrder, NEW s \in Names, life[s] = "starting",
         todo[s] # <<>>, Done(s), life' = life, open \subseteq open',
         Head(todo[s]) = "listen" => s \in open',
         \A t \in Names \ {s} : t \in open' => t \in open,
         images' => images \/ Head(todo[s]) = "policy",
         bucket # "none" \/ Head(todo[s]) = "make" => bucket' # "none"
  PROVE  MainInOrder'
<1>1. /\ \A t \in Names \ {s} : todo'[t] = todo[t]
      /\ Len(todo[s]) \in Nat \ {0} /\ Len(todo'[s]) = Len(todo[s]) - 1
      /\ Head(todo[s]) = todo[s][1]
      /\ \A i \in 1 .. Len(todo'[s]) :
           i + 1 \in 1 .. Len(todo[s]) /\ todo'[s][i] = todo[s][i + 1]
  BY DoneFacts
<1>2. 1 \in 1 .. Len(todo[s])
  BY <1>1
<1>3. Head(todo[s]) = "policy" => s = "doc" /\ Len(todo[s]) = 1
  <2>1. todo[s][1] \in ImageWork => s = "doc"
    BY <1>2 DEF MainInOrder, InOrder
  <2>2. \A i \in 1 .. Len(todo[s]) :
          todo[s][i] \in {"images", "policy"} => i = Len(todo[s])
    BY DEF MainInOrder, InOrder
  <2>3. QED
    BY <1>1, <1>2, <2>1, <2>2 DEF ImageWork
<1>4. ASSUME NEW i \in 1 .. Len(todo'[s]), todo'[s][i] = "register"
      PROVE  s \in open' \/ \E j \in 1 .. i - 1 : todo'[s][j] = "listen"
  <2>1. s \in open \/ \E j \in 1 .. (i + 1) - 1 : todo[s][j] = "listen"
    BY <1>1, <1>4 DEF MainInOrder, InOrder
  <2>2. SUFFICES ASSUME NEW j \in 1 .. i, todo[s][j] = "listen", j # 1
                 PROVE  \E k \in 1 .. i - 1 : todo'[s][k] = "listen"
    BY <1>1, <2>1
  <2>3. j - 1 \in 1 .. i - 1 /\ j - 1 \in 1 .. Len(todo'[s]) /\ (j - 1) + 1 = j
    BY <2>2
  <2>4. todo'[s][j - 1] = "listen"
    BY <1>1, <2>2, <2>3
  <2>5. QED
    BY <2>3, <2>4
<1>5. ASSUME NEW i \in 1 .. Len(todo'[s])
      PROVE  /\ todo'[s][i] \notin StopWork
             /\ todo'[s][i] \in ImageWork => s = "doc" /\ ~images'
             /\ todo'[s][i] # "make"
             /\ todo'[s][i] \in {"images", "policy"} => i = Len(todo'[s])
             /\ todo'[s][i] = "policy" => bucket' # "none"
  <2>1. i + 1 \in 1 .. Len(todo[s]) /\ todo'[s][i] = todo[s][i + 1] /\ i + 1 # 1
    BY <1>1
  <2>2. QED
    BY <1>1, <1>3, <2>1 DEF MainInOrder, InOrder
<1>6. InOrder(s)'
  BY <1>4, <1>5 DEF InOrder
<1>7. ASSUME NEW t \in Names \ {s} PROVE InOrder(t)'
  <2>1. images' => images \/ t # "doc"
    BY <1>3
  <2>2. QED
    BY <1>1, <2>1, OthersInOrder DEF MainInOrder
<1>8. QED
  BY <1>6, <1>7 DEF MainInOrder

\* A step but that of registering leaves what concerns etcd as it was.
LEMMA DoneEtcd ==
  ASSUME ServicesTypeOK, Etcd, NEW s \in Names, todo[s] # <<>>, Done(s),
         Head(todo[s]) # "register", UNCHANGED <<life, port, entry, keeper, lost, ended>>,
         open \subseteq open'
  PROVE  Etcd'
<1>1. /\ \A t \in Names \ {s} : todo'[t] = todo[t]
      /\ Len(todo[s]) \in Nat \ {0} /\ Len(todo'[s]) = Len(todo[s]) - 1
      /\ Head(todo[s]) = todo[s][1]
      /\ \A i \in 1 .. Len(todo'[s]) :
           i + 1 \in 1 .. Len(todo[s]) /\ todo'[s][i] = todo[s][i + 1]
  BY DoneFacts
<1>2. ASSUME NEW t \in Names, Has(t, "register") PROVE Has(t, "register")'
  <2>1. CASE t = s
    <3>1. PICK i \in 1 .. Len(todo[s]) : todo[s][i] = "register"
      BY <1>2, <2>1 DEF Has
    <3>2. i - 1 \in 1 .. Len(todo'[s]) /\ (i - 1) + 1 = i
      BY <1>1, <3>1
    <3>3. todo'[s][i - 1] = "register"
      BY <1>1, <3>1, <3>2
    <3>4. QED
      BY <2>1, <3>2, <3>3 DEF Has
  <2>2. CASE t # s
    BY <1>1, <1>2, <2>2 DEF Has
  <2>3. QED
    BY <2>1, <2>2
<1>3. Keepers' /\ Leases'
  BY DEF Etcd, Keepers, Leases, Listens
<1>4. Registered'
  BY <1>2 DEF Etcd, Registered
<1>5. QED
  BY <1>3, <1>4 DEF Etcd

LEMMA DoneReadable ==
  ASSUME ServicesTypeOK, Readable, NEW s \in Names, todo[s] # <<>>, Done(s),
         Head(todo[s]) # "policy", UNCHANGED <<bucket, spoiled>>
  PROVE  Readable'
<1>1. \A t \in Names \ {s} : todo'[t] = todo[t]
  BY DoneFacts
<1>2. QED
  BY <1>1 DEF Readable, Doing

-----------------------------------------------------------------------------
(***************************************************************************)
(* The start of a process.                                                 *)
(***************************************************************************)

LEMMA StartKeeps ==
  ASSUME SvcInv, NEW s \in Names, NEW p \in Ports, Start(s, p)
  PROVE  SvcInv'
<1>1. /\ Main[s] \in Seq(Steps) /\ Main[s] # <<>>
      /\ \E i \in 1 .. Len(Main[s]) : Main[s][i] = "register"
      /\ \A i \in 1 .. Len(Main[s]) :
           /\ Main[s][i] \notin StopWork \cup {"make", "policy"}
           /\ Main[s][i] = "register" => \E j \in 1 .. i - 1 : Main[s][j] = "listen"
           /\ Main[s][i] \in ImageWork => s = "doc" /\ i = Len(Main[s])
  BY MainFacts
<1> HIDE DEF Main
<1>2. /\ life[s] = "down" /\ life' = [life EXCEPT ![s] = "starting"]
      /\ todo' = [todo EXCEPT ![s] = Main[s]] /\ port' = [port EXCEPT ![s] = p]
      /\ lost' = lost \ {s}
      /\ UNCHANGED <<open, entry, keeper, cut, bucket, images, events, ended, spoiled>>
  BY DEF Start
<1>3. /\ todo \in [Names -> Seq(Steps)] /\ port[s] = 0 /\ port \in [Names -> Ports \cup {0}]
      /\ life \in [Names -> {"down", "starting", "serving", "stopping"}]
      /\ s \notin open /\ s \notin keeper /\ p # 0 /\ (s = "doc" => ~images)
  BY <1>2, ServicesAssumption DEF SvcInv, ServicesTypeOK
<1>4. /\ todo'[s] = Main[s] /\ life'[s] = "starting" /\ port'[s] = p
      /\ \A t \in Names \ {s} : todo'[t] = todo[t] /\ life'[t] = life[t] /\ port'[t] = port[t]
  BY <1>2, <1>3
<1>5. ServicesTypeOK'
  BY <1>1, <1>2, <1>3, <1>4 DEF SvcInv, ServicesTypeOK
<1>6. MainInOrder'
  <2>1. InOrder(s)'
    BY <1>1, <1>2, <1>3, <1>4 DEF InOrder, ImageWork
  <2>2. ASSUME NEW t \in Names \ {s} PROVE InOrder(t)'
    BY <1>2, <1>4, OthersInOrder DEF SvcInv, MainInOrder
  <2>3. QED
    BY <2>1, <2>2 DEF MainInOrder
<1>7. Keepers' /\ Leases'
  BY <1>2, <1>3, <1>4 DEF SvcInv, Etcd, Keepers, Leases, Listens
<1>8. Registered'
  BY <1>1, <1>2, <1>4 DEF SvcInv, Etcd, Registered, Has
<1>9. Readable'
  <2>1. s = "doc" => ~Doing("doc", "policy")
    BY <1>2 DEF SvcInv, MainInOrder, InOrder, Doing
  <2>2. QED
    BY <1>2, <1>4, <2>1 DEF SvcInv, Readable, Doing
<1>10. QED
  BY <1>5, <1>6, <1>7, <1>8, <1>9 DEF SvcInv, Etcd

\* Who does a step of the start is starting.
LEMMA StartsOnly ==
  ASSUME ServicesTypeOK, MainInOrder, NEW s \in Names, todo[s] # <<>>,
         Head(todo[s]) \notin StopWork
  PROVE  life[s] = "starting" /\ port[s] \in Ports
<1>1. life[s] \in {"starting", "stopping"}
  BY DEF ServicesTypeOK, MainInOrder, InOrder
<1>2. life[s] # "stopping"
  <2>1. Head(StopSteps) = "refuse" /\ Head(<<"drain", "close">>) = "drain"
        /\ Head(<<"close">>) = "close"
    BY DEF StopSteps
  <2>2. QED
    BY <2>1 DEF MainInOrder, InOrder, StopWork
<1>3. QED
  BY <1>1, <1>2 DEF ServicesTypeOK

\* Steps that are only done, Listen among them.
LEMMA PlainKeeps ==
  ASSUME SvcInv, NEW s \in Names, todo[s] # <<>>, Done(s),
         Head(todo[s]) \notin StopWork \cup {"register", "make", "policy"},
         open' = open \/ open' = open \cup {s}, Head(todo[s]) = "listen" => s \in open',
         UNCHANGED <<life, port, etcdVars, imageVars, notes>>, events' \in 0 .. MaxEvents
  PROVE  SvcInv'
<1>1. life[s] = "starting" /\ port[s] \in Ports
  BY StartsOnly DEF SvcInv
<1>2. ServicesTypeOK'
  <2>1. todo' \in [Names -> Seq(Steps)]
    BY DoneFacts DEF SvcInv
  <2>2. port[s] # 0
    BY <1>1, ServicesAssumption
  <2>3. QED
    BY <2>1, <2>2 DEF SvcInv, ServicesTypeOK
<1>3. MainInOrder'
  BY <1>1, DoneInOrder DEF SvcInv
<1>4. Etcd'
  BY DoneEtcd DEF SvcInv
<1>5. Readable'
  BY DoneReadable DEF SvcInv
<1>6. QED
  BY <1>2, <1>3, <1>4, <1>5 DEF SvcInv

LEMMA EventRange == ASSUME ServicesTypeOK, Event PROVE events' \in 0 .. MaxEvents
BY ServicesAssumption DEF ServicesTypeOK, Event

LEMMA ConnectKeeps ==
  ASSUME SvcInv, NEW s \in Names, Connect(s) \/ Listen(s) \/ StepFails(s)
  PROVE  SvcInv'
<1>1. todo[s] # <<>> /\ Done(s)
  BY DEF Connect, Listen, StepFails, Doing
<1>2. Head(todo[s]) \notin StopWork \cup {"register", "make", "policy"}
  BY DEF Connect, Listen, StepFails, Doing, StopWork
<1>3. /\ open' = open \/ open' = open \cup {s}
      /\ Head(todo[s]) = "listen" => s \in open'
      /\ UNCHANGED <<life, port, etcdVars, imageVars, notes>>
  BY DEF Connect, Listen, StepFails, Doing
<1>4. events' = events \/ Event
  BY DEF Connect, Listen, StepFails
<1>5. events' \in 0 .. MaxEvents
  BY <1>4, EventRange DEF SvcInv, ServicesTypeOK
<1>6. QED
  BY <1>1, <1>2, <1>3, <1>5, PlainKeeps

\* Registering, whatever of it succeeds.
LEMMA RegisterKeeps ==
  ASSUME SvcInv, NEW s \in Names, Register(s) \/ RegisterFails(s)
  PROVE  SvcInv'
<1>1. /\ todo[s] # <<>> /\ Done(s) /\ Head(todo[s]) = "register"
      /\ entry' \in {entry, [entry EXCEPT ![s][port[s]] = LeaseTTL]}
      /\ UNCHANGED <<life, port, open, cut, bucket, images, ended, spoiled>>
  BY DEF Register, RegisterFails, Doing
<1>2. life[s] = "starting" /\ port[s] \in Ports
  BY <1>1, StartsOnly DEF SvcInv, StopWork
<1>3. s \in open
  <2>1. 1 \in 1 .. Len(todo[s]) /\ todo[s][1] = "register"
    BY <1>1, DoneFacts DEF SvcInv
  <2>2. QED
    BY <2>1 DEF SvcInv, MainInOrder, InOrder
<1>4. port[s] # 0 /\ LeaseTTL \in Nat \ {0}
  BY <1>2, ServicesAssumption
<1>5. /\ entry' \in [Names -> [Ports -> 0 .. LeaseTTL]]
      /\ \A t \in Names, p \in Ports : entry'[t][p] # entry[t][p] => t = s /\ p = port[s]
  <2>1. entry \in [Names -> [Ports -> 0 .. LeaseTTL]] /\ LeaseTTL \in 0 .. LeaseTTL
    BY <1>4 DEF SvcInv, ServicesTypeOK
  <2>2. CASE entry' = entry
    BY <2>1, <2>2
  <2>3. CASE entry' = [entry EXCEPT ![s][port[s]] = LeaseTTL]
    <3>1. entry'[s] = [entry[s] EXCEPT ![port[s]] = LeaseTTL] /\ entry[s] \in [Ports -> 0 .. LeaseTTL]
      BY <2>1, <2>3
    <3>2. entry'[s] \in [Ports -> 0 .. LeaseTTL] /\ \A p \in Ports \ {port[s]} : entry'[s][p] = entry[s][p]
      BY <1>2, <2>1, <3>1
    <3>3. \A t \in Names \ {s} : entry'[t] = entry[t]
      BY <2>1, <2>3
    <3>4. QED
      BY <2>1, <2>3, <3>2, <3>3
  <2>4. QED
    BY <1>1, <2>2, <2>3
<1>6. /\ keeper \subseteq keeper' /\ keeper' \subseteq keeper \cup {s}
      /\ lost' \subseteq Names /\ lost \subseteq lost'
      /\ s \notin lost' => s \in keeper' /\ entry'[s][port[s]] = LeaseTTL
  <2>1. lost \subseteq Names /\ entry \in [Names -> [Ports -> 0 .. LeaseTTL]]
    BY DEF SvcInv, ServicesTypeOK
  <2>2. CASE Register(s)
    <3>1. /\ keeper' = keeper \cup {s} /\ lost' = lost
          /\ entry' = [entry EXCEPT ![s][port[s]] = LeaseTTL]
      BY <2>2 DEF Register
    <3>2. QED
      BY <1>2, <2>1, <3>1
  <2>3. CASE RegisterFails(s)
    <3>1. keeper' = keeper /\ lost' = lost \cup {s}
      BY <2>3 DEF RegisterFails
    <3>2. QED
      BY <2>1, <3>1
  <2>4. QED
    BY <2>2, <2>3
<1>7. events' \in 0 .. MaxEvents
  BY EventRange DEF SvcInv, ServicesTypeOK, Register, RegisterFails
<1>8. ServicesTypeOK'
  <2>1. todo' \in [Names -> Seq(Steps)]
    BY <1>1, DoneFacts DEF SvcInv
  <2>2. QED
    BY <2>1, <1>1, <1>4, <1>5, <1>6, <1>7 DEF SvcInv, ServicesTypeOK
<1>9. MainInOrder'
  BY <1>1, <1>2, DoneInOrder DEF SvcInv
<1>10. Keepers' /\ Leases'
  BY <1>1, <1>3, <1>5, <1>6 DEF SvcInv, Etcd, Keepers, Leases, Listens
<1>11. Registered'
  <2>1. \A t \in Names \ {s} : todo'[t] = todo[t]
    BY <1>1, DoneFacts DEF SvcInv
  <2>2. \A t \in Names \ {s} : life[t] # "down" => port[t] \in Ports
    BY DEF SvcInv, ServicesTypeOK
  <2>3. ASSUME NEW t \in Names \ {s}, life[t] # "down", t \notin lost', ~Has(t, "register")'
        PROVE  t \in keeper' /\ entry'[t][port[t]] > 0
    BY <2>1, <2>2, <2>3, <1>5, <1>6 DEF SvcInv, Etcd, Registered, Has
  <2>4. s \notin lost' => s \in keeper' /\ entry'[s][port[s]] > 0
    BY <1>4, <1>6
  <2>5. QED
    BY <2>3, <2>4, <1>1 DEF Registered
<1>12. Readable'
  BY <1>1, DoneReadable DEF SvcInv
<1>13. QED
  BY <1>8, <1>9, <1>10, <1>11, <1>12 DEF SvcInv, Etcd

\* The image store is there, or is to be made.
LEMMA FindBucketKeeps ==
  ASSUME SvcInv, NEW s \in Names, FindBucket(s)
  PROVE  SvcInv'
<1>1. /\ todo[s] # <<>> /\ Head(todo[s]) = "images"
      /\ todo' = [todo EXCEPT ![s] = IF bucket = "none" THEN ImageSteps ELSE <<>>]
      /\ images' = (bucket # "none")
      /\ UNCHANGED <<life, port, open, entry, keeper, cut, bucket, events, lost, ended, spoiled>>
  BY DEF FindBucket, Doing
<1>2. life[s] = "starting" /\ port[s] \in Ports
  BY <1>1, StartsOnly DEF SvcInv, StopWork
<1>3. todo \in [Names -> Seq(Steps)]
  BY DEF SvcInv, ServicesTypeOK
<1>4. 1 \in 1 .. Len(todo[s]) /\ todo[s][1] = "images"
  BY <1>1, <1>3, TailFacts
<1>5. s = "doc"
  BY <1>4 DEF SvcInv, MainInOrder, InOrder, ImageWork
<1>6. ~Has(s, "register")
  BY <1>3, <1>4 DEF SvcInv, MainInOrder, InOrder, Has
<1>7. /\ ImageSteps \in Seq(Steps) /\ Len(ImageSteps) = 2
      /\ ImageSteps[1] = "make" /\ ImageSteps[2] = "policy"
  BY DEF ImageSteps, Steps
<1> HIDE DEF ImageSteps
<1>8. /\ todo'[s] = IF bucket = "none" THEN ImageSteps ELSE <<>>
      /\ \A t \in Names \ {s} : todo'[t] = todo[t]
  BY <1>1, <1>3
<1>9. ServicesTypeOK'
  BY <1>1, <1>2, <1>5, <1>7, ServicesAssumption DEF SvcInv, ServicesTypeOK
<1>10. MainInOrder'
  <2>1. ASSUME NEW i \in 1 .. Len(todo'[s])
        PROVE  bucket = "none" /\ todo'[s] = ImageSteps /\ (i = 1 \/ i = 2)
    <3>1. bucket = "none"
      BY <1>8, <2>1
    <3>2. todo'[s] = ImageSteps
      BY <1>8, <3>1
    <3>3. i \in 1 .. 2
      BY <1>7, <2>1, <3>2
    <3>4. QED
      BY <3>1, <3>2, <3>3
  <2>2. ASSUME NEW i \in 1 .. Len(todo'[s])
        PROVE  /\ todo'[s][i] \notin StopWork /\ todo'[s][i] # "register"
               /\ todo'[s][i] \in ImageWork => s = "doc" /\ ~images'
               /\ todo'[s][i] = "make" => i = 1 /\ Len(todo'[s]) = 2 /\ todo'[s][2] = "policy"
               /\ todo'[s][i] \in {"images", "policy"} => i = Len(todo'[s])
               /\ todo'[s][i] = "policy" => todo'[s][1] = "make"
    BY <1>1, <1>5, <1>7, <2>1 DEF StopWork
  <2>3. InOrder(s)'
    BY <1>1, <1>2, <2>2 DEF InOrder
  <2>4. ASSUME NEW t \in Names \ {s} PROVE InOrder(t)'
    BY <1>1, <1>5, <1>8, OthersInOrder DEF SvcInv, MainInOrder
  <2>5. QED
    BY <2>3, <2>4 DEF MainInOrder
<1>11. Keepers' /\ Leases'
  BY <1>1 DEF SvcInv, Etcd, Keepers, Leases, Listens
<1>12. Registered'
  BY <1>1, <1>6, <1>8 DEF SvcInv, Etcd, Registered, Has
<1>13. Readable'
  BY <1>1, <1>5 DEF SvcInv, Readable, Doing
<1>14. QED
  BY <1>9, <1>10, <1>11, <1>12, <1>13 DEF SvcInv, Etcd

\* Who works on the images is the document service, which is starting and has
\* registered.
LEMMA MakesImages ==
  ASSUME SvcInv, NEW s \in Names, todo[s] # <<>>, Head(todo[s]) \in {"make", "policy"}
  PROVE  /\ s = "doc" /\ ~images /\ life[s] = "starting" /\ port[s] \in Ports
         /\ Head(todo[s]) = "make" => Len(todo[s]) = 2 /\ todo[s][2] = "policy"
         /\ Head(todo[s]) = "policy" => Len(todo[s]) = 1 /\ bucket # "none"
         /\ todo[s] \in Seq(Steps) /\ 1 \in 1 .. Len(todo[s]) /\ todo[s][1] = Head(todo[s])
         /\ ~Has(s, "register")
<1>1. todo[s] \in Seq(Steps) /\ 1 \in 1 .. Len(todo[s]) /\ todo[s][1] = Head(todo[s])
  BY TailFacts DEF SvcInv, ServicesTypeOK
<1>2. s = "doc" /\ ~images
  BY <1>1 DEF SvcInv, MainInOrder, InOrder, ImageWork
<1>3. \A i \in 1 .. Len(todo[s]) :
        /\ todo[s][i] = "make" => Len(todo[s]) = 2 /\ todo[s][2] = "policy"
        /\ todo[s][i] \in {"images", "policy"} => i = Len(todo[s])
        /\ todo[s][i] = "policy" => todo[s][1] = "make" \/ bucket # "none"
  BY DEF SvcInv, MainInOrder, InOrder
<1>4. /\ Head(todo[s]) = "make" => Len(todo[s]) = 2 /\ todo[s][2] = "policy"
      /\ Head(todo[s]) = "policy" => Len(todo[s]) = 1 /\ bucket # "none"
  BY <1>1, <1>3
<1>5. ~Has(s, "register")
  <2>1. CASE Head(todo[s]) = "make"
    <3>1. Len(todo[s]) = 2 /\ todo[s][1] = "make" /\ todo[s][2] = "policy"
      BY <1>1, <1>4, <2>1
    <3>2. \A i \in 1 .. Len(todo[s]) : i = 1 \/ i = 2
      BY <3>1
    <3>3. QED
      BY <3>1, <3>2 DEF Has
  <2>2. CASE Head(todo[s]) = "policy"
    BY <1>1, <1>4, <2>2 DEF Has
  <2>3. QED
    BY <2>1, <2>2
<1>6. QED
  BY <1>1, <1>2, <1>4, <1>5, StartsOnly DEF SvcInv, StopWork

LEMMA MakeBucketKeeps ==
  ASSUME SvcInv, NEW s \in Names, MakeBucket(s)
  PROVE  SvcInv'
<1>1. /\ todo[s] # <<>> /\ Head(todo[s]) = "make" /\ Done(s) /\ bucket' = "private"
      /\ UNCHANGED <<life, port, open, entry, keeper, cut, images, events, lost, ended, spoiled>>
  BY DEF MakeBucket, Doing
<1>2. s = "doc" /\ ~images /\ life[s] = "starting" /\ Len(todo[s]) = 2 /\ todo[s][2] = "policy"
  BY <1>1, MakesImages
<1>3. /\ todo' \in [Names -> Seq(Steps)] /\ Len(todo'[s]) = 1 /\ todo'[s][1] = "policy"
      /\ todo'[s] \in Seq(Steps)
  <2> DEFINE rest == todo'[s]
  <2>1. /\ todo' \in [Names -> Seq(Steps)] /\ Len(rest) = Len(todo[s]) - 1
        /\ \A i \in 1 .. Len(rest) : rest[i] = todo[s][i + 1]
    BY <1>1, DoneFacts DEF SvcInv
  <2>2. todo'[s][1] = todo[s][1 + 1]
    BY <1>2, <2>1
  <2>3. QED
    BY <1>2, <2>1, <2>2
<1>4. ServicesTypeOK'
  BY <1>1, <1>2, <1>3 DEF SvcInv, ServicesTypeOK
<1>5. MainInOrder'
  BY <1>1, <1>2, DoneInOrder DEF SvcInv
<1>6. Etcd'
  BY <1>1, DoneEtcd DEF SvcInv
<1>7. Readable'
  <2>1. todo'[s] # <<>> /\ Head(todo'[s]) = "policy"
    BY <1>3, NotEmpty
  <2>2. QED
    BY <1>2, <2>1 DEF Readable, Doing
<1>8. QED
  BY <1>4, <1>5, <1>6, <1>7 DEF SvcInv

LEMMA SetBucketPolicyKeeps ==
  ASSUME SvcInv, NEW s \in Names, SetBucketPolicy(s)
  PROVE  SvcInv'
<1>1. /\ todo[s] # <<>> /\ Head(todo[s]) = "policy" /\ Done(s) /\ images' = TRUE
      /\ \/ bucket' = "public" /\ spoiled' = spoiled /\ events' = events
         \/ bucket' = bucket /\ spoiled' = TRUE /\ Event
      /\ UNCHANGED <<life, port, open, entry, keeper, cut, lost, ended>>
  BY DEF SetBucketPolicy, Doing
<1>2. s = "doc" /\ life[s] = "starting" /\ port[s] # 0 /\ bucket # "none" /\ Len(todo[s]) = 1
  BY <1>1, MakesImages, ServicesAssumption
<1>3. todo' \in [Names -> Seq(Steps)] /\ todo'[s] \in Seq(Steps) /\ Len(todo'[s]) = 0
  BY <1>1, <1>2, DoneFacts DEF SvcInv
<1>4. ServicesTypeOK'
  <2>1. events' \in 0 .. MaxEvents
    BY <1>1, EventRange DEF SvcInv, ServicesTypeOK
  <2>2. QED
    BY <1>1, <1>2, <1>3, <2>1 DEF SvcInv, ServicesTypeOK
<1>5. MainInOrder'
  BY <1>1, <1>2, DoneInOrder DEF SvcInv
<1>6. Etcd'
  BY <1>1, DoneEtcd DEF SvcInv
<1>7. Readable'
  BY <1>1 DEF Readable
<1>8. QED
  BY <1>4, <1>5, <1>6, <1>7 DEF SvcInv

LEMMA MakeFailsKeeps ==
  ASSUME SvcInv, NEW s \in Names, MakeFails(s)
  PROVE  SvcInv'
<1>1. /\ todo[s] # <<>> /\ Head(todo[s]) = "make" /\ todo' = [todo EXCEPT ![s] = <<>>]
      /\ Event
      /\ \/ bucket' = bucket /\ spoiled' = spoiled
         \/ bucket' = "private" /\ spoiled' = TRUE
      /\ UNCHANGED <<life, port, open, entry, keeper, cut, images, lost, ended>>
  BY DEF MakeFails, Doing
<1>2. s = "doc" /\ ~images /\ life[s] = "starting" /\ ~Has(s, "register")
  BY <1>1, MakesImages
<1>3. /\ todo \in [Names -> Seq(Steps)] /\ <<>> \in Seq(Steps)
      /\ todo'[s] = <<>> /\ \A t \in Names \ {s} : todo'[t] = todo[t]
  BY <1>1 DEF SvcInv, ServicesTypeOK
<1>4. ServicesTypeOK'
  BY <1>1, <1>2, <1>3, EventRange DEF SvcInv, ServicesTypeOK
<1>5. MainInOrder'
  <2>1. InOrder(s)'
    BY <1>1, <1>2, <1>3 DEF InOrder
  <2>2. ASSUME NEW t \in Names \ {s} PROVE InOrder(t)'
    BY <1>1, <1>3, OthersInOrder DEF SvcInv, MainInOrder
  <2>3. QED
    BY <2>1, <2>2 DEF MainInOrder
<1>6. Keepers' /\ Leases'
  BY <1>1 DEF SvcInv, Etcd, Keepers, Leases, Listens
<1>7. Registered'
  BY <1>1, <1>2, <1>3 DEF SvcInv, Etcd, Registered, Has
<1>8. Readable'
  BY <1>1, <1>2 DEF SvcInv, Readable, Doing
<1>9. QED
  BY <1>4, <1>5, <1>6, <1>7, <1>8 DEF SvcInv, Etcd

LEMMA ServeKeeps ==
  ASSUME SvcInv, NEW s \in Names, Serve(s)
  PROVE  SvcInv'
<1>1. /\ life[s] = "starting" /\ todo[s] = <<>> /\ life' = [life EXCEPT ![s] = "serving"]
      /\ UNCHANGED <<todo, port, open, entry, keeper, cut, bucket, images, events, lost, ended,
                     spoiled>>
  BY DEF Serve
<1>2. /\ life'[s] = "serving" /\ \A t \in Names \ {s} : life'[t] = life[t]
      /\ life' \in [Names -> {"down", "starting", "serving", "stopping"}]
  BY <1>1 DEF SvcInv, ServicesTypeOK
<1>3. ServicesTypeOK'
  BY <1>1, <1>2 DEF SvcInv, ServicesTypeOK
<1>4. MainInOrder'
  <2>1. InOrder(s)'
    BY <1>1, <1>2 DEF SvcInv, MainInOrder, InOrder
  <2>2. ASSUME NEW t \in Names \ {s} PROVE InOrder(t)'
    BY <1>1, <1>2, OthersInOrder DEF SvcInv, MainInOrder
  <2>3. QED
    BY <2>1, <2>2 DEF MainInOrder
<1>5. Keepers' /\ Leases'
  BY <1>1, <1>2 DEF SvcInv, Etcd, Keepers, Leases, Listens
<1>6. Registered'
  BY <1>1, <1>2 DEF SvcInv, Etcd, Registered, Has
<1>7. Readable'
  BY <1>1 DEF SvcInv, Readable, Doing
<1>8. QED
  BY <1>3, <1>4, <1>5, <1>6, <1>7 DEF SvcInv, Etcd

-----------------------------------------------------------------------------
(***************************************************************************)
(* The end of a process.                                                   *)
(***************************************************************************)

\* What is left of a stop.
LEMMA StopFacts ==
  /\ StopSteps \in Seq(Steps) /\ <<"drain", "close">> \in Seq(Steps)
  /\ <<"close">> \in Seq(Steps)
  /\ Head(StopSteps) = "refuse" /\ Tail(StopSteps) = <<"drain", "close">>
  /\ Head(<<"drain", "close">>) = "drain" /\ Tail(<<"drain", "close">>) = <<"close">>
  /\ Head(<<"close">>) = "close"
  /\ \A q \in {StopSteps, <<"drain", "close">>, <<"close">>} :
       q # <<>> /\ \A i \in 1 .. Len(q) : q[i] \in StopWork
  /\ <<"drain", "close">> # StopSteps
BY DEF StopSteps, Steps, StopWork

\* Whose next step is one of a stop is stopping.
LEMMA StopsOnly ==
  ASSUME ServicesTypeOK, MainInOrder, NEW s \in Names, todo[s] # <<>>,
         Head(todo[s]) \in StopWork
  PROVE  life[s] = "stopping" /\ todo[s] \in {StopSteps, <<"drain", "close">>, <<"close">>}
<1>1. life[s] \in {"starting", "stopping"}
  BY DEF ServicesTypeOK, MainInOrder, InOrder
<1>2. 1 \in 1 .. Len(todo[s]) /\ Head(todo[s]) = todo[s][1]
  BY TailFacts DEF ServicesTypeOK
<1>3. QED
  BY <1>1, <1>2 DEF MainInOrder, InOrder

LEMMA TerminateKeeps ==
  ASSUME SvcInv, NEW s \in Names, Terminate(s)
  PROVE  SvcInv'
<1>1. /\ life[s] = "serving" /\ life' = [life EXCEPT ![s] = "stopping"] /\ Event
      /\ todo' = [todo EXCEPT ![s] = StopSteps]
      /\ UNCHANGED <<port, open, entry, keeper, cut, bucket, images, lost, ended, spoiled>>
  BY DEF Terminate
<1>2. /\ life'[s] = "stopping" /\ todo'[s] = StopSteps /\ todo[s] = <<>>
      /\ \A t \in Names \ {s} : life'[t] = life[t] /\ todo'[t] = todo[t]
      /\ life' \in [Names -> {"down", "starting", "serving", "stopping"}]
      /\ todo' \in [Names -> Seq(Steps)]
  <2>1. /\ life \in [Names -> {"down", "starting", "serving", "stopping"}]
        /\ todo \in [Names -> Seq(Steps)]
    BY DEF SvcInv, ServicesTypeOK
  <2>2. todo[s] = <<>>
    BY <1>1 DEF SvcInv, MainInOrder, InOrder
  <2>3. QED
    BY <1>1, <2>1, <2>2, StopFacts
<1>3. ServicesTypeOK'
  BY <1>1, <1>2, EventRange DEF SvcInv, ServicesTypeOK
<1>4. MainInOrder'
  <2>1. \A i \in 1 .. Len(todo'[s]) :
          /\ todo'[s][i] \notin ImageWork
          /\ todo'[s][i] \notin {"register", "make", "images", "policy"}
    BY <1>2, StopFacts DEF StopWork, ImageWork
  <2>2. InOrder(s)'
    BY <1>2, <2>1 DEF InOrder
  <2>3. ASSUME NEW t \in Names \ {s} PROVE InOrder(t)'
    BY <1>1, <1>2, OthersInOrder DEF SvcInv, MainInOrder
  <2>4. QED
    BY <2>2, <2>3 DEF MainInOrder
<1>5. Keepers' /\ Leases'
  BY <1>1, <1>2 DEF SvcInv, Etcd, Keepers, Leases, Listens
<1>6. Registered'
  <2>1. ~Has(s, "register")
    BY <1>2 DEF Has
  <2>2. QED
    BY <1>1, <1>2, <2>1 DEF SvcInv, Etcd, Registered, Has
<1>7. Readable'
  BY <1>1, <1>2 DEF SvcInv, Readable, Doing
<1>8. QED
  BY <1>3, <1>4, <1>5, <1>6, <1>7 DEF SvcInv, Etcd

\* GracefulStop closes the listener, and waits for calls.
LEMMA RefuseKeeps ==
  ASSUME SvcInv, NEW s \in Names, NEW C, Refuse(s) \/ Drain(s, C)
  PROVE  SvcInv'
<1>1. /\ todo[s] # <<>> /\ Head(todo[s]) \in {"refuse", "drain"} /\ Done(s)
      /\ \/ open' = open \ {s}
         \/ open' = open /\ Head(todo[s]) = "drain"
      /\ UNCHANGED <<life, port, entry, keeper, cut, bucket, images, events, lost, ended, spoiled>>
  BY DEF Refuse, Drain, Doing
<1>2. life[s] = "stopping" /\ todo[s] \in {StopSteps, <<"drain", "close">>, <<"close">>}
  BY <1>1, StopsOnly DEF SvcInv, StopWork
<1>3. /\ todo' \in [Names -> Seq(Steps)] /\ \A t \in Names \ {s} : todo'[t] = todo[t]
      /\ todo'[s] \in {<<"drain", "close">>, <<"close">>}
  <2>1. todo \in [Names -> Seq(Steps)] /\ todo' = [todo EXCEPT ![s] = Tail(todo[s])]
    BY <1>1 DEF SvcInv, ServicesTypeOK, Done
  <2>2. Tail(todo[s]) \in {<<"drain", "close">>, <<"close">>}
    BY <1>1, <1>2, StopFacts
  <2>3. QED
    BY <2>1, <2>2, StopFacts
<1>4. s \notin open' /\ \A t \in Names \ {s} : t \in open' <=> t \in open
  BY <1>1, <1>2, StopFacts DEF SvcInv, MainInOrder, InOrder
<1>5. open' \subseteq open
  BY <1>1
<1>6. ServicesTypeOK'
  BY <1>1, <1>3, <1>5 DEF SvcInv, ServicesTypeOK
<1>7. MainInOrder'
  <2>1. \A i \in 1 .. Len(todo'[s]) :
          /\ todo'[s][i] \notin ImageWork
          /\ todo'[s][i] \notin {"register", "make", "images", "policy"}
    BY <1>3, StopFacts DEF StopWork, ImageWork
  <2>2. InOrder(s)'
    BY <1>1, <1>2, <1>3, <1>4, <2>1 DEF InOrder
  <2>3. ASSUME NEW t \in Names \ {s} PROVE InOrder(t)'
    BY <1>1, <1>3, <1>4, OthersInOrder DEF SvcInv, MainInOrder
  <2>4. QED
    BY <2>2, <2>3 DEF MainInOrder
<1>8. Keepers' /\ Leases'
  BY <1>1, <1>2, <1>4 DEF SvcInv, Etcd, Keepers, Leases, Listens, ServicesTypeOK
<1>9. Registered'
  <2>1. ~Has(s, "register")
    BY <1>2, StopFacts DEF Has, StopWork
  <2>2. QED
    BY <1>1, <1>3, <2>1 DEF SvcInv, Etcd, Registered, Has
<1>10. Readable'
  BY <1>1, DoneReadable DEF SvcInv
<1>11. QED
  BY <1>6, <1>7, <1>8, <1>9, <1>10 DEF SvcInv, Etcd

\* A process ends.
LEMMA ExitKeeps ==
  ASSUME SvcInv, NEW s \in Names, life[s] # "down", Exit(s), events' \in 0 .. MaxEvents
  PROVE  SvcInv'
<1>1. /\ life' = [life EXCEPT ![s] = "down"] /\ todo' = [todo EXCEPT ![s] = <<>>]
      /\ port' = [port EXCEPT ![s] = 0]
      /\ open' = open \ {s} /\ keeper' = keeper \ {s}
      /\ images' = IF s = "doc" THEN FALSE ELSE images
      /\ ended' = IF s \in open \/ life[s] = "stopping"
                    THEN [ended EXCEPT ![s][port[s]] = 0] ELSE ended
      /\ spoiled' = (spoiled \/ Doing(s, "policy"))
      /\ UNCHANGED <<entry, cut, bucket, lost>>
  BY DEF Exit
<1>2. /\ life \in [Names -> {"down", "starting", "serving", "stopping"}]
      /\ todo \in [Names -> Seq(Steps)] /\ port \in [Names -> Ports \cup {0}]
      /\ port[s] \in Ports /\ \A t \in Names : port[t] = 0 <=> life[t] = "down"
      /\ ended \in [Names -> [Ports -> 0 .. LeaseTTL]]
      /\ entry \in [Names -> [Ports -> 0 .. LeaseTTL]]
      /\ spoiled \in BOOLEAN /\ images \in BOOLEAN /\ (images => bucket # "none" /\ "doc" \in Names)
  BY DEF SvcInv, ServicesTypeOK
<1>3. /\ life'[s] = "down" /\ todo'[s] = <<>> /\ port'[s] = 0
      /\ \A t \in Names \ {s} : life'[t] = life[t] /\ todo'[t] = todo[t] /\ port'[t] = port[t]
      /\ life' \in [Names -> {"down", "starting", "serving", "stopping"}]
      /\ todo' \in [Names -> Seq(Steps)] /\ port' \in [Names -> Ports \cup {0}]
  BY <1>1, <1>2
<1>4. /\ ended' \in [Names -> [Ports -> 0 .. LeaseTTL]]
      /\ \A t \in Names, p \in Ports : t # s \/ p # port[s] => ended'[t][p] = ended[t][p]
      /\ s \in open \/ life[s] = "stopping" => ended'[s][port[s]] = 0
      /\ s \notin open /\ life[s] # "stopping" => ended' = ended
  <2>1. CASE s \in open \/ life[s] = "stopping"
    <3>1. ended' = [ended EXCEPT ![s][port[s]] = 0]
      BY <1>1, <2>1
    <3>2. ended'[s] = [ended[s] EXCEPT ![port[s]] = 0] /\ ended[s] \in [Ports -> 0 .. LeaseTTL]
      BY <1>2, <3>1
    <3>3. /\ ended'[s] \in [Ports -> 0 .. LeaseTTL] /\ ended'[s][port[s]] = 0
          /\ \A p \in Ports \ {port[s]} : ended'[s][p] = ended[s][p]
      BY <1>2, <3>2, ServicesAssumption
    <3>4. \A t \in Names \ {s} : ended'[t] = ended[t]
      BY <1>2, <3>1
    <3>5. QED
      BY <1>2, <2>1, <3>1, <3>3, <3>4
  <2>2. CASE ~(s \in open \/ life[s] = "stopping")
    BY <1>1, <1>2, <2>2
  <2>3. QED
    BY <2>1, <2>2
<1>5. ServicesTypeOK'
  <2>1. images' \in BOOLEAN /\ spoiled' \in BOOLEAN
    BY <1>1, <1>2
  <2>2. images' => bucket' # "none" /\ "doc" \in Names /\ port'["doc"] # 0
    <3>1. images' => images /\ s # "doc" /\ "doc" \in Names /\ port["doc"] # 0
      BY <1>1, <1>2 DEF SvcInv, ServicesTypeOK
    <3>2. QED
      BY <1>1, <1>2, <1>3, <3>1
  <2>3. QED
    BY <1>1, <1>2, <1>3, <1>4, <2>1, <2>2 DEF SvcInv, ServicesTypeOK
<1>6. MainInOrder'
  <2>1. InOrder(s)'
    BY <1>3 DEF InOrder
  <2>2. ASSUME NEW t \in Names \ {s} PROVE InOrder(t)'
    <3>1. images' => images
      BY <1>1, <1>2
    <3>2. QED
      BY <1>1, <1>3, <3>1, OthersInOrder DEF SvcInv, MainInOrder
  <2>3. QED
    BY <2>1, <2>2 DEF MainInOrder
<1>7. Keepers'
  BY <1>1, <1>2, <1>3 DEF SvcInv, Etcd, Keepers, ServicesTypeOK
<1>8. Leases'
  <2>1. ASSUME NEW t \in Names, NEW p \in Ports
        PROVE  \/ entry'[t][p] + ended'[t][p] <= LeaseTTL
               \/ Listens(t, p)'
               \/ life'[t] = "stopping" /\ port'[t] = p
    <3>1. CASE t # s
      BY <1>1, <1>3, <1>4, <3>1 DEF SvcInv, Etcd, Leases, Listens
    <3>2. CASE t = s /\ p # port[s]
      BY <1>1, <1>4, <3>2 DEF SvcInv, Etcd, Leases, Listens
    <3>3. CASE t = s /\ p = port[s] /\ (s \in open \/ life[s] = "stopping")
      <4>1. ended'[s][port[s]] = 0 /\ entry[s][port[s]] \in 0 .. LeaseTTL
        BY <1>2, <1>4, <3>3
      <4>2. QED
        BY <1>1, <3>3, <4>1, ServicesAssumption
    <3>4. CASE t = s /\ p = port[s] /\ s \notin open /\ life[s] # "stopping"
      BY <1>1, <1>4, <3>4 DEF SvcInv, Etcd, Leases, Listens
    <3>5. QED
      BY <3>1, <3>2, <3>3, <3>4
  <2>2. QED
    BY <2>1 DEF Leases
<1>9. Registered'
  BY <1>1, <1>3 DEF SvcInv, Etcd, Registered, Has
<1>10. Readable'
  BY <1>1, <1>3 DEF SvcInv, Readable, Doing
<1>11. QED
  BY <1>5, <1>6, <1>7, <1>8, <1>9, <1>10 DEF SvcInv, Etcd

-----------------------------------------------------------------------------
(***************************************************************************)
(* etcd, time, and the steps of others.                                    *)
(***************************************************************************)

\* Cuts and events concern no part of the invariant but the bound on events.
LEMMA EventKeeps ==
  ASSUME SvcInv, UNCHANGED <<procVars, entry, keeper, imageVars, notes>>,
         events' \in 0 .. MaxEvents
  PROVE  SvcInv'
<1>1. ServicesTypeOK'
  BY DEF SvcInv, ServicesTypeOK
<1>2. MainInOrder'
  BY OthersInOrder DEF SvcInv, MainInOrder
<1>3. Etcd'
  BY DEF SvcInv, Etcd, Keepers, Leases, Listens, Registered, Has
<1>4. Readable'
  BY DEF SvcInv, Readable, Doing
<1>5. QED
  BY <1>1, <1>2, <1>3, <1>4 DEF SvcInv

LEMMA LeasesRunKeeps ==
  ASSUME SvcInv, LeasesRun
  PROVE  SvcInv'
<1>1. /\ entry' = [s \in Names |-> [p \in Ports |->
                     IF Kept(s, p) THEN LeaseTTL
                     ELSE IF entry[s][p] = 0 THEN 0 ELSE entry[s][p] - 1]]
      /\ keeper' = {s \in keeper : ~RunsOut(s)}
      /\ lost' = lost \cup {s \in keeper : RunsOut(s)}
      /\ ended' = [s \in Names |-> [p \in Ports |->
                     IF ended[s][p] < LeaseTTL THEN ended[s][p] + 1 ELSE LeaseTTL]]
      /\ UNCHANGED <<life, todo, port, open, cut, bucket, images, events, spoiled>>
  BY DEF LeasesRun
<1>2. /\ LeaseTTL \in Nat \ {0}
      /\ \A s \in Names, p \in Ports : entry[s][p] \in 0 .. LeaseTTL /\ ended[s][p] \in 0 .. LeaseTTL
      /\ keeper \subseteq Names /\ \A s \in keeper : port[s] \in Ports
  BY ServicesAssumption DEF SvcInv, ServicesTypeOK
<1>3. \A s \in Names, p \in Ports :
        /\ entry'[s][p] \in 0 .. LeaseTTL /\ ended'[s][p] \in 0 .. LeaseTTL
        /\ Kept(s, p) => entry'[s][p] = LeaseTTL
        /\ ~Kept(s, p) => entry'[s][p] = IF entry[s][p] = 0 THEN 0 ELSE entry[s][p] - 1
        /\ ended'[s][p] <= ended[s][p] + 1
  <2> SUFFICES ASSUME NEW s \in Names, NEW p \in Ports
               PROVE  /\ entry'[s][p] \in 0 .. LeaseTTL /\ ended'[s][p] \in 0 .. LeaseTTL
                      /\ Kept(s, p) => entry'[s][p] = LeaseTTL
                      /\ ~Kept(s, p) =>
                           entry'[s][p] = IF entry[s][p] = 0 THEN 0 ELSE entry[s][p] - 1
                      /\ ended'[s][p] <= ended[s][p] + 1
    OBVIOUS
  <2>1. entry[s][p] \in 0 .. LeaseTTL /\ ended[s][p] \in 0 .. LeaseTTL
    BY <1>2
  <2>2. entry'[s][p] = IF Kept(s, p) THEN LeaseTTL
                       ELSE IF entry[s][p] = 0 THEN 0 ELSE entry[s][p] - 1
    BY <1>1
  <2>3. ended'[s][p] = IF ended[s][p] < LeaseTTL THEN ended[s][p] + 1 ELSE LeaseTTL
    BY <1>1
  <2>4. QED
    BY <1>2, <2>1, <2>2, <2>3
<1>4. ServicesTypeOK'
  <2>1. /\ entry' \in [Names -> [Ports -> 0 .. LeaseTTL]]
        /\ ended' \in [Names -> [Ports -> 0 .. LeaseTTL]]
    BY <1>1, <1>3
  <2>2. QED
    BY <1>1, <1>2, <2>1 DEF SvcInv, ServicesTypeOK
<1>5. MainInOrder'
  BY <1>1, OthersInOrder DEF SvcInv, MainInOrder
<1>6. Keepers'
  BY <1>1 DEF SvcInv, Etcd, Keepers
<1>7. Leases'
  <2>1. ASSUME NEW s \in Names, NEW p \in Ports
        PROVE  \/ entry'[s][p] + ended'[s][p] <= LeaseTTL
               \/ Listens(s, p)
               \/ life[s] = "stopping" /\ port[s] = p
    <3>1. CASE Kept(s, p)
      BY <3>1 DEF SvcInv, Etcd, Keepers, Kept, Listens
    <3>2. CASE ~Kept(s, p) /\ entry[s][p] + ended[s][p] <= LeaseTTL
      BY <1>2, <1>3, <3>2
    <3>3. CASE ~(entry[s][p] + ended[s][p] <= LeaseTTL)
      BY <3>3 DEF SvcInv, Etcd, Leases
    <3>4. QED
      BY <3>1, <3>2, <3>3
  <2>2. QED
    BY <1>1, <2>1 DEF Leases, Listens
<1>8. Registered'
  <2>1. ASSUME NEW s \in Names, life[s] # "down", s \notin lost', ~Has(s, "register")
        PROVE  s \in keeper' /\ entry'[s][port[s]] > 0
    <3>1. s \in keeper /\ entry[s][port[s]] > 0 /\ ~RunsOut(s) /\ port[s] \in Ports
      BY <1>1, <1>2, <2>1 DEF SvcInv, Etcd, Registered
    <3>2. CASE Kept(s, port[s])
      BY <1>1, <1>2, <1>3, <3>1, <3>2
    <3>3. CASE ~Kept(s, port[s])
      <4>1. entry[s][port[s]] # 1 /\ entry[s][port[s]] \in Nat
        BY <1>2, <3>1, <3>3 DEF Kept, RunsOut
      <4>2. QED
        BY <1>1, <1>3, <3>1, <3>3, <4>1
    <3>4. QED
      BY <3>2, <3>3
  <2>2. QED
    BY <1>1, <2>1 DEF Registered, Has
<1>9. Readable'
  BY <1>1 DEF SvcInv, Readable, Doing
<1>10. QED
  BY <1>4, <1>5, <1>6, <1>7, <1>8, <1>9 DEF SvcInv, Etcd

-----------------------------------------------------------------------------
(***************************************************************************)
(* Any step of the services, and what the invariant is for.                *)
(***************************************************************************)

LEMMA InitServices == ServicesInit => SvcInv
<1> SUFFICES ASSUME ServicesInit PROVE SvcInv
  OBVIOUS
<1>1. /\ life \in [Names -> {"down", "serving"}]
      /\ todo = [s \in Names |-> <<>>]
      /\ port = [s \in Names |-> IF life[s] = "down" THEN 0 ELSE DefaultPort]
      /\ open = {s \in Names : life[s] = "serving"} /\ keeper = open
      /\ entry = [s \in Names |-> [p \in Ports |-> IF port[s] = p THEN LeaseTTL ELSE 0]]
      /\ images = ("doc" \in open) /\ bucket = IF images THEN "public" ELSE "none"
      /\ events = Cardinality(Names \ open) /\ events <= MaxEvents
      /\ lost = {} /\ ended = [s \in Names |-> [p \in Ports |-> LeaseTTL]] /\ spoiled = FALSE
  BY DEF ServicesInit
<1>2. events \in 0 .. MaxEvents
  <2>1. IsFiniteSet({"user", "doc", "search", "collab"})
    <3>1. {"user", "doc", "search", "collab"}
            = (({"user"} \cup {"doc"}) \cup {"search"}) \cup {"collab"}
      OBVIOUS
    <3>2. IsFiniteSet(({"user"} \cup {"doc"}) \cup {"search"})
      BY FS_Singleton, FS_AddElement
    <3>3. QED
      BY <3>1, <3>2, FS_AddElement
  <2>2. IsFiniteSet(Names \ open)
    BY <2>1, FS_Subset, ServicesAssumption
  <2>3. Cardinality(Names \ open) \in Nat
    BY <2>2, FS_CardinalityType
  <2>4. QED
    BY <1>1, <2>3, ServicesAssumption
<1>3. \A s \in Names : todo[s] = <<>> /\ <<>> \in Seq(Steps)
  BY <1>1
<1>4. /\ LeaseTTL \in Nat \ {0} /\ DefaultPort \in Ports /\ DefaultPort # 0
      /\ LeaseTTL \in 0 .. LeaseTTL /\ 0 \in 0 .. LeaseTTL
  BY ServicesAssumption
<1>5. ServicesTypeOK
  <2>1. /\ entry \in [Names -> [Ports -> 0 .. LeaseTTL]]
        /\ ended \in [Names -> [Ports -> 0 .. LeaseTTL]]
    BY <1>1, <1>4
  <2>2. todo \in [Names -> Seq(Steps)]
    BY <1>1, <1>3
  <2>3. /\ life \in [Names -> {"down", "starting", "serving", "stopping"}]
        /\ port \in [Names -> Ports \cup {0}]
        /\ \A s \in Names : port[s] = 0 <=> life[s] = "down"
    BY <1>1, <1>4
  <2>4. images \in BOOLEAN /\ (images => bucket # "none" /\ "doc" \in Names /\ port["doc"] # 0)
    <3>1. images => "doc" \in open /\ bucket = "public"
      BY <1>1
    <3>2. "doc" \in open => "doc" \in Names /\ port["doc"] = DefaultPort
      BY <1>1
    <3>3. QED
      BY <1>1, <1>4, <3>1, <3>2
  <2>5. open \subseteq {s \in Names : port[s] # 0} /\ bucket \in {"none", "private", "public"}
    BY <1>1, <1>4
  <2>6. QED
    BY <1>1, <1>2, <2>1, <2>2, <2>3, <2>4, <2>5 DEF ServicesTypeOK
<1>6. MainInOrder
  BY <1>1, <1>3 DEF MainInOrder, InOrder
<1>7. Keepers /\ Leases
  <2>1. \A s \in Names, p \in Ports : port[s] # p => entry[s][p] + ended[s][p] <= LeaseTTL
    BY <1>1, <1>4
  <2>2. \A s \in Names, p \in Ports : port[s] = p => s \in open
    BY <1>1, <1>4, ServicesAssumption
  <2>3. QED
    BY <1>1, <2>1, <2>2 DEF Keepers, Leases, Listens
<1>8. Registered
  BY <1>1, <1>4 DEF Registered
<1>9. Readable
  BY <1>1 DEF Readable
<1>10. QED
  BY <1>5, <1>6, <1>7, <1>8, <1>9 DEF SvcInv, Etcd

\* A step of one service that is none of its end.
LEMMA StepServices ==
  ASSUME SvcInv, NEW s \in Names, NEW C,
         \/ \E p \in Ports : Start(s, p)
         \/ Connect(s) \/ Listen(s) \/ Register(s) \/ RegisterFails(s)
         \/ FindBucket(s) \/ MakeBucket(s) \/ SetBucketPolicy(s)
         \/ StepFails(s) \/ MakeFails(s) \/ Serve(s) \/ Terminate(s)
         \/ Refuse(s) \/ Drain(s, C)
  PROVE  SvcInv'
BY StartKeeps, ConnectKeeps, RegisterKeeps, FindBucketKeeps, MakeBucketKeeps,
   SetBucketPolicyKeeps, MakeFailsKeeps, ServeKeeps, TerminateKeeps, RefuseKeeps

LEMMA StepEnds ==
  ASSUME SvcInv, NEW s \in Names, Crash(s) \/ Close(s)
  PROVE  SvcInv'
<1>1. life[s] # "down" /\ Exit(s)
  <2>1. CASE Crash(s)
    BY <2>1 DEF Crash
  <2>2. CASE Close(s)
    <3>1. life[s] = "stopping"
      BY <2>2, StopsOnly DEF Close, Doing, StopWork, SvcInv
    <3>2. QED
      BY <2>2, <3>1 DEF Close
  <2>3. QED
    BY <2>1, <2>2
<1>2. events' \in 0 .. MaxEvents
  BY EventRange DEF Crash, Close, SvcInv, ServicesTypeOK
<1>3. QED
  BY <1>1, <1>2, ExitKeeps

LEMMA StepCut ==
  ASSUME SvcInv, NEW x, CutOff(x) \/ Heal(x)
  PROVE  SvcInv'
BY EventKeeps, EventRange DEF CutOff, Heal, SvcInv, ServicesTypeOK

LEMMA Advertised == SvcInv => AdvertisedAlive
<1> SUFFICES ASSUME SvcInv, NEW s \in Names, NEW p \in Ports, entry[s][p] > 0,
                    ~Listens(s, p), ~(life[s] = "stopping" /\ port[s] = p)
             PROVE  ended[s][p] < LeaseTTL
  BY DEF AdvertisedAlive
<1>1. entry[s][p] + ended[s][p] <= LeaseTTL
  BY DEF SvcInv, Etcd, Leases
<1>2. entry[s][p] \in 0 .. LeaseTTL /\ ended[s][p] \in 0 .. LeaseTTL /\ LeaseTTL \in Nat
  BY ServicesAssumption DEF SvcInv, ServicesTypeOK
<1>3. QED
  BY <1>1, <1>2

LEMMA Found == SvcInv => ServingAdvertised
<1> SUFFICES ASSUME SvcInv, NEW s \in Names, life[s] = "serving", s \notin lost
             PROVE  port[s] \in Discover(s)
  BY DEF ServingAdvertised
<1>1. ~Has(s, "register") /\ port[s] \in Ports
  BY DEF SvcInv, MainInOrder, InOrder, ServicesTypeOK, Has
<1>2. entry[s][port[s]] > 0
  BY <1>1 DEF SvcInv, Etcd, Registered
<1>3. QED
  BY <1>1, <1>2 DEF Discover

LEMMA Shown == SvcInv => ImagesReadable
<1> SUFFICES ASSUME SvcInv, images, bucket = "private", ~spoiled PROVE FALSE
  BY DEF ImagesReadable, SvcInv, ServicesTypeOK
<1>1. "doc" \in Names /\ todo["doc"] # <<>> /\ Head(todo["doc"]) = "policy"
  BY DEF SvcInv, Readable, Doing
<1>2. QED
  BY <1>1, MakesImages

-----------------------------------------------------------------------------
(***************************************************************************)
(* The services.  No step of the gateway touches them, but for the bound   *)
(* on events.                                                              *)
(***************************************************************************)

LEMMA StepSvc == SvcInv /\ [Next]_vars => SvcInv'
<1> SUFFICES ASSUME SvcInv, [Next]_vars PROVE SvcInv'
  OBVIOUS
<1>a. ASSUME UNCHANGED <<procVars, entry, keeper, imageVars, notes>>, events' = events \/ Event
      PROVE  SvcInv'
  <2>1. events' \in 0 .. MaxEvents
    BY <1>a, EventRange DEF SvcInv, ServicesTypeOK
  <2>2. QED
    BY <1>a, <2>1, EventKeeps
<1>1. ASSUME NEW r \in Requests, Handle(r) \/ DiscoverFails(r) \/ Serving(r)
      PROVE  SvcInv'
  <2>1. CASE RefuseRequest(r) \/ Dial(r) \/ DiscoverFails(r) \/ Result(r)
    BY <1>a, <2>1 DEF RefuseRequest, Dial, DiscoverFails, DialTo, Result
  <2>2. CASE GiveUp(r)
    BY <1>a, <2>2 DEF GiveUp
  <2>3. CASE userServiceClient(r) \/ docServiceClient(r) \/ searchServiceClient(r)
    BY <1>a, <2>3 DEF userServiceClient, docServiceClient, searchServiceClient, Invoke
  <2>4. CASE Serving(r)
    BY <1>a, <2>4 DEF Serving, UserService_Handlers, DocService_Handlers,
       SearchService_Handlers, Take, Return
  <2>5. QED
    BY <1>1, <2>1, <2>2, <2>3, <2>4 DEF Handle
<1>2. ASSUME NEW r \in Requests, NEW x \in Routes, Arrive(r, x)
      PROVE  SvcInv'
  BY <1>a, <1>2 DEF Arrive
<1>3. ASSUME NEW s \in Names, ServiceStep(s) \/ ServiceCrash(s) \/ ServiceRefuse(s) \/ ServiceClose(s)
      PROVE  SvcInv'
  <2>1. CASE ServiceStep(s)
    <3>1. CASE CutOff(s) \/ Heal(s)
      BY <3>1, StepCut
    <3>2. CASE ~(CutOff(s) \/ Heal(s))
      BY <2>1, <3>2, StepServices DEF ServiceStep
    <3>3. QED
      BY <3>1, <3>2
  <2>2. CASE ServiceRefuse(s)
    BY <2>2, StepServices DEF ServiceRefuse
  <2>3. CASE ServiceCrash(s) \/ ServiceClose(s)
    BY <2>3, StepEnds DEF ServiceCrash, ServiceClose
  <2>4. QED
    BY <1>3, <2>1, <2>2, <2>3
<1>4. CASE GatewayCrash \/ GatewayStart \/ GatewayTerminate \/ GatewayStops
  BY <1>a, <1>4 DEF GatewayCrash, GatewayStart, GatewayTerminate, GatewayStops, GatewayEnds
<1>5. CASE GatewayEtcd
  BY <1>5, StepCut DEF GatewayEtcd
<1>6. CASE Tick
  BY <1>6, LeasesRunKeeps DEF Tick
<1>7. CASE UNCHANGED vars
  BY <1>a, <1>7 DEF vars
<1>8. QED
  BY <1>1, <1>2, <1>3, <1>4, <1>5, <1>6, <1>7 DEF Next

LEMMA InitSvc == Init => SvcInv
BY InitServices DEF Init

\* etcd names an address only while a process that listened there is alive,
\* or until less than a lease after its end, whatever was started, stopped,
\* cut off and registered since.
THEOREM AddressesAlive == Spec => []AdvertisedAlive
<1>1. QED
  BY InitSvc, StepSvc, Advertised, PTL DEF Spec

\* A service that serves can be found, unless it could not register or was cut
\* off for a whole lease.
THEOREM ServersFound == Spec => []ServingAdvertised
<1>1. QED
  BY InitSvc, StepSvc, Found, PTL DEF Spec

\* Images can be read, unless the policy was not set when the bucket was made.
THEOREM ImagesShown == Spec => []ImagesReadable
<1>1. QED
  BY InitSvc, StepSvc, Shown, PTL DEF Spec

-----------------------------------------------------------------------------
(***************************************************************************)
(* The routes.                                                             *)
(***************************************************************************)

RpcOf ==
  [service : {"user", "doc", "search"},
   method : UserService_ServiceDesc \cup DocService_ServiceDesc \cup SearchService_ServiceDesc,
   timeout : {CallTimeout, UploadTimeout}]
MethodNames == UNION {ServiceDesc[s] : s \in Names}

LEMMA Offered ==
  ASSUME NEW s \in Names
  PROVE  ServiceDesc[s] \subseteq MethodNames
BY DEF MethodNames

\* A route makes a call or two.
LEMMA CallsOfRoutes ==
  ASSUME NEW x \in DOMAIN Router
  PROVE  Router[x].calls \in Seq(RpcOf) /\ Len(Router[x].calls) > 0
<1>2. ASSUME NEW a \in RpcOf PROVE <<a>> \in Seq(RpcOf) /\ Len(<<a>>) > 0
  OBVIOUS
<1>3. ASSUME NEW a \in RpcOf, NEW b \in RpcOf PROVE <<a, b>> \in Seq(RpcOf) /\ Len(<<a, b>>) > 0
  OBVIOUS
<1>4. CASE x = "register"
  <2>1. Router[x].calls = <<Rpc("user", "Register", CallTimeout)>>
    BY <1>4 DEF Router, RegisterRoute
  <2>2. Rpc("user", "Register", CallTimeout) \in RpcOf
    BY DEF Rpc, RpcOf, UserService_ServiceDesc, DocService_ServiceDesc, SearchService_ServiceDesc
  <2>3. QED
    BY <1>2, <2>1, <2>2
<1>5. CASE x = "login"
  <2>1. Router[x].calls = <<Rpc("user", "Login", CallTimeout)>>
    BY <1>5 DEF Router, LoginRoute
  <2>2. Rpc("user", "Login", CallTimeout) \in RpcOf
    BY DEF Rpc, RpcOf, UserService_ServiceDesc, DocService_ServiceDesc, SearchService_ServiceDesc
  <2>3. QED
    BY <1>2, <2>1, <2>2
<1>6. CASE x = "me"
  <2>1. Router[x].calls = <<Rpc("user", "GetUser", CallTimeout)>>
    BY <1>6 DEF Router, GetUserRoute
  <2>2. Rpc("user", "GetUser", CallTimeout) \in RpcOf
    BY DEF Rpc, RpcOf, UserService_ServiceDesc, DocService_ServiceDesc, SearchService_ServiceDesc
  <2>3. QED
    BY <1>2, <2>1, <2>2
<1>7. CASE x = "create"
  <2>1. Router[x].calls = <<Rpc("doc", "CreateDoc", CallTimeout)>>
    BY <1>7 DEF Router, CreateDocRoute
  <2>2. Rpc("doc", "CreateDoc", CallTimeout) \in RpcOf
    BY DEF Rpc, RpcOf, UserService_ServiceDesc, DocService_ServiceDesc, SearchService_ServiceDesc
  <2>3. QED
    BY <1>2, <2>1, <2>2
<1>8. CASE x = "get"
  <2>1. Router[x].calls = <<Rpc("doc", "GetDoc", CallTimeout)>>
    BY <1>8 DEF Router, GetDocRoute
  <2>2. Rpc("doc", "GetDoc", CallTimeout) \in RpcOf
    BY DEF Rpc, RpcOf, UserService_ServiceDesc, DocService_ServiceDesc, SearchService_ServiceDesc
  <2>3. QED
    BY <1>2, <2>1, <2>2
<1>9. CASE x = "save"
  <2>1. Router[x].calls = <<Rpc("doc", "UpdateDoc", CallTimeout)>>
    BY <1>9 DEF Router, SaveDocRoute
  <2>2. Rpc("doc", "UpdateDoc", CallTimeout) \in RpcOf
    BY DEF Rpc, RpcOf, UserService_ServiceDesc, DocService_ServiceDesc, SearchService_ServiceDesc
  <2>3. QED
    BY <1>2, <2>1, <2>2
<1>10. CASE x = "share"
  <2>1. Router[x].calls = <<Rpc("user", "LookupByUsername", CallTimeout), Rpc("doc", "ShareDoc", CallTimeout)>>
    BY <1>10 DEF Router, ShareDocRoute
  <2>2. Rpc("user", "LookupByUsername", CallTimeout) \in RpcOf /\ Rpc("doc", "ShareDoc", CallTimeout) \in RpcOf
    BY DEF Rpc, RpcOf, UserService_ServiceDesc, DocService_ServiceDesc, SearchService_ServiceDesc
  <2>3. QED
    BY <1>3, <2>1, <2>2
<1>11. CASE x = "upload"
  <2>1. Router[x].calls = <<Rpc("doc", "UploadImage", UploadTimeout)>>
    BY <1>11 DEF Router, UploadImageRoute
  <2>2. Rpc("doc", "UploadImage", UploadTimeout) \in RpcOf
    BY DEF Rpc, RpcOf, UserService_ServiceDesc, DocService_ServiceDesc, SearchService_ServiceDesc
  <2>3. QED
    BY <1>2, <2>1, <2>2
<1>12. CASE x = "list"
  <2>1. Router[x].calls = <<Rpc("doc", "ListDocs", CallTimeout)>>
    BY <1>12 DEF Router, ListDocsRoute
  <2>2. Rpc("doc", "ListDocs", CallTimeout) \in RpcOf
    BY DEF Rpc, RpcOf, UserService_ServiceDesc, DocService_ServiceDesc, SearchService_ServiceDesc
  <2>3. QED
    BY <1>2, <2>1, <2>2
<1>13. CASE x = "search"
  <2>1. Router[x].calls = <<Rpc("search", "SearchDocs", CallTimeout)>>
    BY <1>13 DEF Router, SearchDocsRoute
  <2>2. Rpc("search", "SearchDocs", CallTimeout) \in RpcOf
    BY DEF Rpc, RpcOf, UserService_ServiceDesc, DocService_ServiceDesc, SearchService_ServiceDesc
  <2>3. QED
    BY <1>2, <2>1, <2>2
<1>14. QED
  BY <1>4, <1>5, <1>6, <1>7, <1>8, <1>9, <1>10, <1>11, <1>12, <1>13 DEF Router

\* A call of a route a request may take.
LEMMA CallFacts ==
  ASSUME NEW x \in Routes, NEW i \in 1 .. Len(Router[x].calls)
  PROVE  /\ Router[x].calls[i].service \in Names
         /\ Router[x].calls[i].timeout \in {CallTimeout, UploadTimeout}
         /\ Router[x].calls[i].method \in MethodNames
<1>1. x \in DOMAIN Router
  BY RoutesAssumption
<1>2. Router[x].calls \in Seq(RpcOf)
  BY <1>1, CallsOfRoutes
<1>3. i \in DOMAIN Router[x].calls /\ Router[x].calls[i] \in RpcOf
  BY <1>2
<1>4. /\ Router[x].calls[i].method \in ServiceDesc[Router[x].calls[i].service]
      /\ Router[x].calls[i].service \in Names
  BY <1>1, <1>3, RoutesAssumption
<1>5. QED
  BY <1>3, <1>4, Offered DEF RpcOf

\* dialService finds a port.
LEMMA Dialled ==
  ASSUME ServicesTypeOK, NEW s \in Names
  PROVE  dialService(s) \in Ports
<1>1. CASE s \in EnvAddr \/ Discover(s) = {}
  BY <1>1, ServicesAssumption DEF dialService
<1>2. CASE ~(s \in EnvAddr \/ Discover(s) = {})
  <2> DEFINE R == {ss \in Nat \X Nat : ss[1] < ss[2]}
  <2>1. IsWellFoundedOn(R, Nat)
    BY NatLessThanWellFounded DEF OpToRel
  <2>2. Discover(s) \in SUBSET Nat /\ Discover(s) \subseteq Ports /\ Discover(s) # {}
    BY <1>2, ServicesAssumption DEF Discover
  <2>3. PICK p \in Discover(s) : \A q \in Discover(s) : <<q, p>> \notin R
    <3> HIDE DEF R
    <3>1. QED
      BY <2>1, <2>2, WFMin
  <2>4. ASSUME NEW q \in Discover(s) PROVE p <= q
    <3>1. p \in Nat /\ q \in Nat
      BY <2>2
    <3>2. q < p => <<q, p>> \in R
      BY <3>1
    <3>3. QED
      BY <2>3, <3>1, <3>2
  <2>5. QED
    BY <1>2, <2>2, <2>4 DEF dialService
<1>3. QED
  BY <1>1, <1>2

-----------------------------------------------------------------------------
(***************************************************************************)
(* Requests.  What has taken effect for a request follows from where its   *)
(* call is and from the calls that came before it.                         *)
(***************************************************************************)

RpcTypeOK ==
  /\ client \in [Requests -> {"idle", "handler", "connect", "wait", "done"}]
  /\ route \in [Requests -> Routes \cup {NoRoute}]
  /\ calls \in [Requests -> Nat] /\ addr \in [Requests -> Ports \cup {0}]
  /\ left \in [Requests -> 0 .. CallTimeout + UploadTimeout]
  /\ server \in [Requests -> {"none", "queued", "running", "ok", "error"}]
  /\ status \in [Requests -> {"none", "refused", "ok", "failed", "cut"}]
  /\ ran \in [Requests -> Seq(MethodNames)]
  /\ disturbed \subseteq Requests
  /\ gw \in {"down", "serving", "stopping"} /\ grace \in 0 .. ShutdownTimeout

\* A request that is idle has done nothing.
Idle(r) ==
  client[r] = "idle" =>
    /\ route[r] = NoRoute /\ calls[r] = 0 /\ ran[r] = <<>>
    /\ server[r] = "none" /\ status[r] = "none"

\* One that is not has done the calls before the one at hand, and perhaps
\* that one.
Progress(r) ==
  client[r] # "idle" =>
    /\ route[r] \in Routes
    /\ calls[r] < Len(Plan(r).calls) /\ Len(ran[r]) <= calls[r] + 1
    /\ \A i \in 1 .. Len(ran[r]) : ran[r][i] = Plan(r).calls[i].method
    /\ server[r] \in {"queued", "running"} => Len(ran[r]) = calls[r]
    /\ server[r] = "ok" => Len(ran[r]) = calls[r] + 1
    /\ client[r] \in {"handler", "connect"} => server[r] = "none" /\ Len(ran[r]) = calls[r]
    /\ client[r] = "wait" => server[r] # "none"
    /\ client[r] = "done" => server[r] # "queued"
    /\ status[r] # "none" <=> client[r] = "done"
    /\ status[r] = "ok" => server[r] = "none" /\ Len(ran[r]) = Len(Plan(r).calls)

\* What a request that nothing disturbed is told.
Quietly(r) ==
  r \notin disturbed =>
    /\ client[r] \in {"connect", "wait"} => left[r] > 0
    /\ server[r] = "error" => Len(ran[r]) = calls[r]
    /\ status[r] = "failed" => server[r] = "none" /\ Len(ran[r]) < Len(Plan(r).calls)

RequestInv(r) == Idle(r) /\ Progress(r) /\ Quietly(r)

\* A service that is about to close has no call.
Emptied == \A s \in Names : life[s] = "stopping" /\ todo[s] = <<"close">> => At(s) = {}

RpcInv == RpcTypeOK /\ (\A r \in Requests : RequestInv(r)) /\ Emptied
GatewayInv == SvcInv /\ RpcInv

LEMMA OthersKept ==
  ASSUME NEW q, RequestInv(q), client'[q] = client[q], route'[q] = route[q],
         calls'[q] = calls[q], left'[q] = left[q], server'[q] = server[q],
         status'[q] = status[q], ran'[q] = ran[q], q \in disturbed => q \in disturbed'
  PROVE  RequestInv(q)'
BY DEF RequestInv, Idle, Progress, Quietly, Plan

LEMMA EmptiedKept ==
  ASSUME Emptied, UNCHANGED <<life, todo>>,
         \A q \in Requests : server'[q] # "none" =>
           server[q] # "none" /\ calls'[q] = calls[q] /\ route'[q] = route[q]
  PROVE  Emptied'
BY DEF Emptied, At, AtServer, Call, Plan

\* The call at hand.
LEMMA CallAtHand ==
  ASSUME RpcInv, NEW r \in Requests, client[r] # "idle"
  PROVE  /\ Call(r).service \in Names
         /\ Call(r).timeout \in {CallTimeout, UploadTimeout}
         /\ Call(r).timeout \in 1 .. CallTimeout + UploadTimeout
         /\ Call(r).method \in MethodNames
         /\ Len(Plan(r).calls) \in Nat \ {0} /\ calls[r] \in Nat
         /\ Call(r) = Plan(r).calls[calls[r] + 1]
<1>1. route[r] \in Routes /\ calls[r] < Len(Plan(r).calls) /\ calls[r] \in Nat
  BY DEF RpcInv, RequestInv, Progress, RpcTypeOK
<1>2. Router[route[r]].calls \in Seq(RpcOf) /\ Len(Router[route[r]].calls) > 0
  BY <1>1, CallsOfRoutes, RoutesAssumption
<1>3. Len(Plan(r).calls) \in Nat \ {0}
  BY <1>2 DEF Plan
<1>4. calls[r] + 1 \in 1 .. Len(Router[route[r]].calls)
  BY <1>1, <1>3 DEF Plan
<1>5. /\ Call(r).service \in Names /\ Call(r).timeout \in {CallTimeout, UploadTimeout}
      /\ Call(r).method \in MethodNames
  BY <1>1, <1>4, CallFacts DEF Call, Plan
<1>6. Call(r).timeout \in 1 .. CallTimeout + UploadTimeout
  BY <1>5, GatewayAssumption
<1>7. QED
  BY <1>1, <1>3, <1>5, <1>6 DEF Call

\* A handler answers.
LEMMA AnswerTypes ==
  ASSUME RpcTypeOK, NEW r \in Requests, NEW s \in {"refused", "ok", "failed"}, Answer(r, s)
  PROVE  /\ client' \in [Requests -> {"idle", "handler", "connect", "wait", "done"}]
         /\ status' \in [Requests -> {"none", "refused", "ok", "failed", "cut"}]
         /\ addr' \in [Requests -> Ports \cup {0}]
         /\ left' \in [Requests -> 0 .. CallTimeout + UploadTimeout]
         /\ client'[r] = "done" /\ status'[r] = s
         /\ \A q \in Requests \ {r} :
              client'[q] = client[q] /\ status'[q] = status[q] /\ left'[q] = left[q]
BY GatewayAssumption DEF RpcTypeOK, Answer

-----------------------------------------------------------------------------
(***************************************************************************)
(* The handlers.                                                           *)
(***************************************************************************)

LEMMA ArriveKeeps ==
  ASSUME RpcInv, NEW r \in Requests, NEW x \in Routes, Arrive(r, x)
  PROVE  RpcInv'
<1>1. /\ client[r] = "idle" /\ client' = [client EXCEPT ![r] = "handler"]
      /\ route' = [route EXCEPT ![r] = x]
      /\ UNCHANGED <<calls, addr, left, server, status, ran, disturbed, gw, grace, life, todo>>
  BY DEF Arrive
<1>2. RpcTypeOK'
  BY <1>1 DEF RpcInv, RpcTypeOK
<1>3. /\ client'[r] = "handler" /\ route'[r] = x
      /\ \A q \in Requests \ {r} : client'[q] = client[q] /\ route'[q] = route[q]
  BY <1>1 DEF RpcInv, RpcTypeOK
<1>4. RequestInv(r)'
  <2>1. calls[r] = 0 /\ ran[r] = <<>> /\ server[r] = "none" /\ status[r] = "none"
    BY <1>1 DEF RpcInv, RequestInv, Idle
  <2>2. Len(Router[x].calls) > 0 /\ Len(Router[x].calls) \in Nat
    BY CallsOfRoutes, RoutesAssumption
  <2>3. QED
    BY <1>1, <1>3, <2>1, <2>2 DEF RequestInv, Idle, Progress, Quietly, Plan
<1>5. ASSUME NEW q \in Requests \ {r} PROVE RequestInv(q)'
  BY <1>1, <1>3, OthersKept DEF RpcInv
<1>6. Emptied'
  <2>1. server[r] = "none"
    BY <1>1 DEF RpcInv, RequestInv, Idle
  <2>2. QED
    BY <1>1, <1>3, <2>1, EmptiedKept DEF RpcInv
<1>7. QED
  BY <1>2, <1>4, <1>5, <1>6 DEF RpcInv

LEMMA RefuseRequestKeeps ==
  ASSUME RpcInv, NEW r \in Requests, RefuseRequest(r)
  PROVE  RpcInv'
<1>1. /\ client[r] = "handler" /\ Answer(r, "refused")
      /\ UNCHANGED <<route, calls, server, ran, disturbed, gw, grace, life, todo>>
  BY DEF RefuseRequest
<1>2. /\ client' \in [Requests -> {"idle", "handler", "connect", "wait", "done"}]
      /\ status' \in [Requests -> {"none", "refused", "ok", "failed", "cut"}]
      /\ addr' \in [Requests -> Ports \cup {0}]
      /\ left' \in [Requests -> 0 .. CallTimeout + UploadTimeout]
      /\ client'[r] = "done" /\ status'[r] = "refused"
      /\ \A q \in Requests \ {r} :
           client'[q] = client[q] /\ status'[q] = status[q] /\ left'[q] = left[q]
  BY <1>1, AnswerTypes DEF RpcInv
<1>3. RpcTypeOK'
  BY <1>1, <1>2 DEF RpcInv, RpcTypeOK
<1>4. RequestInv(r)'
  BY <1>1, <1>2 DEF RpcInv, RequestInv, Idle, Progress, Quietly, Plan
<1>5. ASSUME NEW q \in Requests \ {r} PROVE RequestInv(q)'
  BY <1>1, <1>2, OthersKept DEF RpcInv
<1>6. Emptied'
  BY <1>1, EmptiedKept DEF RpcInv
<1>7. QED
  BY <1>3, <1>4, <1>5, <1>6 DEF RpcInv

LEMMA DialKeeps ==
  ASSUME GatewayInv, NEW r \in Requests, Dial(r) \/ DiscoverFails(r)
  PROVE  RpcInv'
<1>1. PICK p \in Ports : DialTo(r, p)
  <2>1. CASE Dial(r)
    <3>1. client[r] # "idle" /\ DialTo(r, dialService(Call(r).service))
      BY <2>1 DEF Dial
    <3>2. dialService(Call(r).service) \in Ports
      BY <3>1, CallAtHand, Dialled DEF GatewayInv, SvcInv
    <3>3. QED
      BY <3>1, <3>2
  <2>2. CASE DiscoverFails(r)
    BY <2>2, ServicesAssumption DEF DiscoverFails
  <2>3. QED
    BY <2>1, <2>2
<1>2. /\ client[r] = "handler" /\ client' = [client EXCEPT ![r] = "connect"]
      /\ addr' = [addr EXCEPT ![r] = p] /\ left' = [left EXCEPT ![r] = Call(r).timeout]
      /\ UNCHANGED <<route, calls, server, status, ran, disturbed, gw, grace, life, todo>>
  BY <1>1 DEF DialTo
<1>3. Call(r).timeout \in 1 .. CallTimeout + UploadTimeout
  BY <1>2, CallAtHand DEF GatewayInv
<1>4. RpcTypeOK'
  BY <1>2, <1>3, GatewayAssumption DEF GatewayInv, RpcInv, RpcTypeOK
<1>5. /\ client'[r] = "connect" /\ left'[r] > 0
      /\ \A q \in Requests \ {r} : client'[q] = client[q] /\ left'[q] = left[q]
  BY <1>2, <1>3, GatewayAssumption DEF GatewayInv, RpcInv, RpcTypeOK
<1>6. RequestInv(r)'
  BY <1>2, <1>5 DEF GatewayInv, RpcInv, RequestInv, Idle, Progress, Quietly, Plan
<1>7. ASSUME NEW q \in Requests \ {r} PROVE RequestInv(q)'
  BY <1>2, <1>5, OthersKept DEF GatewayInv, RpcInv
<1>8. Emptied'
  BY <1>2, EmptiedKept DEF GatewayInv, RpcInv
<1>9. QED
  BY <1>4, <1>6, <1>7, <1>8 DEF RpcInv

LEMMA InvokeKeeps ==
  ASSUME GatewayInv, NEW r \in Requests, NEW s, Invoke(r, s)
  PROVE  RpcInv'
<1>1. /\ client[r] = "connect" /\ Call(r).service = s
      /\ UNCHANGED <<route, calls, ran, disturbed, gw, grace, life, todo, open>>
  BY DEF Invoke
<1>2. CASE Listens(s, addr[r])
  <2>1. /\ client' = [client EXCEPT ![r] = "wait"] /\ server' = [server EXCEPT ![r] = "queued"]
        /\ UNCHANGED <<addr, left, status>>
    BY <1>2 DEF Invoke
  <2>2. RpcTypeOK'
    BY <1>1, <2>1 DEF GatewayInv, RpcInv, RpcTypeOK
  <2>3. /\ client'[r] = "wait" /\ server'[r] = "queued"
        /\ \A q \in Requests \ {r} : client'[q] = client[q] /\ server'[q] = server[q]
    BY <2>1 DEF GatewayInv, RpcInv, RpcTypeOK
  <2>4. RequestInv(r)'
    BY <1>1, <2>1, <2>3 DEF GatewayInv, RpcInv, RequestInv, Idle, Progress, Quietly, Plan
  <2>5. ASSUME NEW q \in Requests \ {r} PROVE RequestInv(q)'
    BY <1>1, <2>1, <2>3, OthersKept DEF GatewayInv, RpcInv
  <2>6. Emptied'
    <3> SUFFICES ASSUME NEW t \in Names, life[t] = "stopping", todo[t] = <<"close">>,
                        NEW q \in Requests, server'[q] # "none", Call(q).service = t
                 PROVE  FALSE
      BY <1>1 DEF Emptied, At, AtServer, Call, Plan
    <3>1. CASE q = r
      <4>1. t \in open
        BY <1>1, <1>2, <3>1 DEF Listens
      <4>2. QED
        BY <4>1, StopFacts DEF GatewayInv, SvcInv, MainInOrder, InOrder, StopSteps
    <3>2. CASE q # r
      BY <2>3, <3>2 DEF GatewayInv, RpcInv, Emptied, At, AtServer
    <3>3. QED
      BY <3>1, <3>2
  <2>7. QED
    BY <2>2, <2>4, <2>5, <2>6 DEF RpcInv
<1>3. CASE ~Listens(s, addr[r])
  <2>1. Answer(r, "failed") /\ server' = server
    BY <1>3 DEF Invoke
  <2>2. /\ client' \in [Requests -> {"idle", "handler", "connect", "wait", "done"}]
        /\ status' \in [Requests -> {"none", "refused", "ok", "failed", "cut"}]
        /\ addr' \in [Requests -> Ports \cup {0}]
        /\ left' \in [Requests -> 0 .. CallTimeout + UploadTimeout]
        /\ client'[r] = "done" /\ status'[r] = "failed"
        /\ \A q \in Requests \ {r} :
             client'[q] = client[q] /\ status'[q] = status[q] /\ left'[q] = left[q]
    BY <2>1, AnswerTypes DEF GatewayInv, RpcInv
  <2>3. RpcTypeOK'
    BY <1>1, <2>1, <2>2 DEF GatewayInv, RpcInv, RpcTypeOK
  <2>4. RequestInv(r)'
    BY <1>1, <2>1, <2>2 DEF GatewayInv, RpcInv, RequestInv, Idle, Progress, Quietly, Plan
  <2>5. ASSUME NEW q \in Requests \ {r} PROVE RequestInv(q)'
    BY <1>1, <2>1, <2>2, OthersKept DEF GatewayInv, RpcInv
  <2>6. Emptied'
    BY <1>1, <2>1, EmptiedKept DEF GatewayInv, RpcInv
  <2>7. QED
    BY <2>3, <2>4, <2>5, <2>6 DEF RpcInv
<1>4. QED
  BY <1>2, <1>3

\* A handler that gives up may leave a call behind that is being served; it
\* does so only if the context has ended.
LEMMA GiveUpKeeps ==
  ASSUME RpcInv, NEW r \in Requests, GiveUp(r)
  PROVE  RpcInv'
<1>1. /\ client[r] \in {"connect", "wait"} /\ Answer(r, "failed")
      /\ \/ left[r] = 0 /\ disturbed' = disturbed
         \/ disturbed' = disturbed \cup {r}
      /\ server' = [server EXCEPT ![r] = IF server[r] = "queued" THEN "none" ELSE server[r]]
      /\ UNCHANGED <<route, calls, ran, gw, grace, life, todo>>
  BY DEF GiveUp
<1>2. /\ client' \in [Requests -> {"idle", "handler", "connect", "wait", "done"}]
      /\ status' \in [Requests -> {"none", "refused", "ok", "failed", "cut"}]
      /\ addr' \in [Requests -> Ports \cup {0}]
      /\ left' \in [Requests -> 0 .. CallTimeout + UploadTimeout]
      /\ client'[r] = "done" /\ status'[r] = "failed"
      /\ \A q \in Requests \ {r} :
           client'[q] = client[q] /\ status'[q] = status[q] /\ left'[q] = left[q]
  BY <1>1, AnswerTypes DEF RpcInv
<1>3. RpcTypeOK'
  BY <1>1, <1>2 DEF RpcInv, RpcTypeOK
<1>4. /\ server'[r] = IF server[r] = "queued" THEN "none" ELSE server[r]
      /\ \A q \in Requests \ {r} : server'[q] = server[q]
  BY <1>1 DEF RpcInv, RpcTypeOK
<1>5. r \in disturbed'
  <2>1. left[r] = 0 => r \in disturbed
    BY <1>1 DEF RpcInv, RequestInv, Quietly
  <2>2. QED
    BY <1>1, <2>1
<1>6. RequestInv(r)'
  <2>1. Progress(r) /\ server[r] \in {"none", "queued", "running", "ok", "error"}
    BY DEF RpcInv, RequestInv, RpcTypeOK
  <2>2. Progress(r)'
    BY <1>1, <1>2, <1>4, <2>1 DEF Progress, Plan
  <2>3. QED
    BY <1>2, <1>5, <2>2 DEF RequestInv, Idle, Quietly
<1>7. ASSUME NEW q \in Requests \ {r} PROVE RequestInv(q)'
  BY <1>1, <1>2, <1>4, OthersKept DEF RpcInv
<1>8. Emptied'
  BY <1>1, <1>4, EmptiedKept DEF RpcInv
<1>9. QED
  BY <1>3, <1>6, <1>7, <1>8 DEF RpcInv

LEMMA TakeKeeps ==
  ASSUME RpcInv, NEW r \in Requests, NEW s, Take(r, s)
  PROVE  RpcInv'
<1>1. /\ server[r] = "queued" /\ server' = [server EXCEPT ![r] = "running"]
      /\ UNCHANGED <<client, route, calls, left, addr, status, ran, disturbed, gw, grace, life, todo>>
  BY DEF Take
<1>2. RpcTypeOK'
  BY <1>1 DEF RpcInv, RpcTypeOK
<1>3. server'[r] = "running" /\ \A q \in Requests \ {r} : server'[q] = server[q]
  BY <1>1 DEF RpcInv, RpcTypeOK
<1>4. RequestInv(r)'
  BY <1>1, <1>3 DEF RpcInv, RequestInv, Idle, Progress, Quietly, Plan
<1>5. ASSUME NEW q \in Requests \ {r} PROVE RequestInv(q)'
  BY <1>1, <1>3, OthersKept DEF RpcInv
<1>6. Emptied'
  BY <1>1, <1>3, EmptiedKept DEF RpcInv
<1>7. QED
  BY <1>2, <1>4, <1>5, <1>6 DEF RpcInv

LEMMA AppendFacts ==
  ASSUME NEW S, NEW q \in Seq(S), NEW e \in S
  PROVE  /\ Append(q, e) \in Seq(S) /\ Len(Append(q, e)) = Len(q) + 1
         /\ \A i \in 1 .. Len(q) : Append(q, e)[i] = q[i]
         /\ Append(q, e)[Len(q) + 1] = e
OBVIOUS

\* A method that returns has had its effect or not; if it had and reports an
\* error, the request is disturbed.
LEMMA ReturnKeeps ==
  ASSUME RpcInv, NEW r \in Requests, NEW s, Return(r, s)
  PROVE  RpcInv'
<1>1. /\ server[r] = "running" /\ client[r] # "idle"
      /\ UNCHANGED <<client, route, calls, left, addr, status, gw, grace, life, todo>>
  BY DEF Return, RpcInv, RequestInv, Idle
<1>2. /\ Call(r).method \in MethodNames /\ calls[r] \in Nat
      /\ Call(r) = Plan(r).calls[calls[r] + 1]
      /\ Len(Plan(r).calls) \in Nat \ {0}
  BY <1>1, CallAtHand
<1>3. /\ Len(ran[r]) = calls[r] /\ ran[r] \in Seq(MethodNames) /\ status[r] # "ok"
      /\ \A i \in 1 .. Len(ran[r]) : ran[r][i] = Plan(r).calls[i].method
      /\ calls[r] < Len(Plan(r).calls)
  BY <1>1 DEF RpcInv, RequestInv, Progress, RpcTypeOK
<1>4. ASSUME NEW v \in {"ok", "error"}, server' = [server EXCEPT ![r] = v],
             ran' = [ran EXCEPT ![r] = Append(ran[r], Call(r).method)],
             \/ v = "ok" /\ disturbed' = disturbed
             \/ disturbed' = disturbed \cup {r}
      PROVE  RpcInv'
  <2>1. /\ Append(ran[r], Call(r).method) \in Seq(MethodNames)
        /\ Len(Append(ran[r], Call(r).method)) = calls[r] + 1
        /\ \A i \in 1 .. calls[r] : Append(ran[r], Call(r).method)[i] = ran[r][i]
        /\ Append(ran[r], Call(r).method)[calls[r] + 1] = Call(r).method
    BY <1>2, <1>3, AppendFacts
  <2>2. RpcTypeOK'
    BY <1>1, <1>4, <2>1 DEF RpcInv, RpcTypeOK
  <2>3. /\ server'[r] = v /\ ran'[r] = Append(ran[r], Call(r).method)
        /\ \A q \in Requests \ {r} : server'[q] = server[q] /\ ran'[q] = ran[q]
    BY <1>4 DEF RpcInv, RpcTypeOK
  <2>4. \A i \in 1 .. Len(ran'[r]) : ran'[r][i] = Plan(r).calls[i].method
    <3> SUFFICES ASSUME NEW i \in 1 .. Len(ran'[r]) PROVE ran'[r][i] = Plan(r).calls[i].method
      OBVIOUS
    <3>1. CASE i = calls[r] + 1
      BY <1>2, <2>1, <2>3, <3>1
    <3>2. CASE i # calls[r] + 1
      <4>1. i \in 1 .. calls[r]
        BY <1>2, <2>1, <2>3, <3>2
      <4>2. QED
        BY <1>3, <2>1, <2>3, <4>1
    <3>3. QED
      BY <3>1, <3>2
  <2>5. Len(ran'[r]) = calls[r] + 1 /\ Plan(r)' = Plan(r)
    BY <1>1, <2>1, <2>3 DEF Plan
  <2>6. Idle(r)'
    BY <1>1 DEF Idle
  <2>7. Progress(r)'
    <3>1. Progress(r)
      BY DEF RpcInv, RequestInv
    <3>2. QED
      BY <1>1, <1>2, <1>3, <2>3, <2>4, <2>5, <3>1 DEF Progress
  <2>8. Quietly(r)'
    <3>1. Quietly(r)
      BY DEF RpcInv, RequestInv
    <3>2. QED
      BY <1>1, <1>4, <2>3, <3>1 DEF Quietly
  <2>9. ASSUME NEW q \in Requests \ {r} PROVE RequestInv(q)'
    BY <1>1, <1>4, <2>3, OthersKept DEF RpcInv
  <2>10. Emptied'
    BY <1>1, <2>3, EmptiedKept DEF RpcInv
  <2>11. QED
    BY <2>2, <2>6, <2>7, <2>8, <2>9, <2>10 DEF RpcInv, RequestInv
<1>5. ASSUME server' = [server EXCEPT ![r] = "error"], UNCHANGED <<ran, disturbed>>
      PROVE  RpcInv'
  <2>1. RpcTypeOK'
    BY <1>1, <1>5 DEF RpcInv, RpcTypeOK
  <2>2. server'[r] = "error" /\ \A q \in Requests \ {r} : server'[q] = server[q]
    BY <1>5 DEF RpcInv, RpcTypeOK
  <2>3. RequestInv(r)'
    BY <1>1, <1>3, <1>5, <2>2 DEF RpcInv, RequestInv, Idle, Progress, Quietly, Plan
  <2>4. ASSUME NEW q \in Requests \ {r} PROVE RequestInv(q)'
    BY <1>1, <1>5, <2>2, OthersKept DEF RpcInv
  <2>5. Emptied'
    BY <1>1, <2>2, EmptiedKept DEF RpcInv
  <2>6. QED
    BY <2>1, <2>3, <2>4, <2>5 DEF RpcInv
<1>6. QED
  BY <1>4, <1>5 DEF Return

LEMMA ResultKeeps ==
  ASSUME RpcInv, NEW r \in Requests, Result(r)
  PROVE  RpcInv'
<1>1. /\ server[r] \in {"ok", "error"} /\ server' = [server EXCEPT ![r] = "none"]
      /\ UNCHANGED <<route, ran, disturbed, gw, grace, life, todo>>
  BY DEF Result
<1>2. /\ server'[r] = "none" /\ \A q \in Requests \ {r} : server'[q] = server[q]
      /\ server' \in [Requests -> {"none", "queued", "running", "ok", "error"}]
  BY <1>1 DEF RpcInv, RpcTypeOK
<1>3. client[r] # "idle" /\ Progress(r) /\ Quietly(r)
  BY <1>1 DEF RpcInv, RequestInv, Idle
<1>4. Len(Plan(r).calls) \in Nat \ {0} /\ calls[r] \in Nat
  BY <1>3, CallAtHand
<1>5. CASE client[r] # "wait"
  <2>1. UNCHANGED <<client, calls, addr, left, status>>
    BY <1>5 DEF Result
  <2>2. RpcTypeOK'
    BY <1>1, <1>2, <2>1 DEF RpcInv, RpcTypeOK
  <2>3. RequestInv(r)'
    BY <1>1, <1>2, <1>3, <1>5, <2>1 DEF RequestInv, Idle, Progress, Quietly, Plan
  <2>4. ASSUME NEW q \in Requests \ {r} PROVE RequestInv(q)'
    BY <1>1, <1>2, <2>1, OthersKept DEF RpcInv
  <2>5. Emptied'
    BY <1>1, <1>2, <2>1, EmptiedKept DEF RpcInv
  <2>6. QED
    BY <2>2, <2>3, <2>4, <2>5 DEF RpcInv
<1>6. ASSUME client[r] = "wait", NEW s \in {"ok", "failed"}, Answer(r, s), calls' = calls,
             s = "failed" <=> server[r] = "error",
             s = "ok" => calls[r] + 1 = Len(Plan(r).calls)
      PROVE  RpcInv'
  <2>1. /\ client' \in [Requests -> {"idle", "handler", "connect", "wait", "done"}]
        /\ status' \in [Requests -> {"none", "refused", "ok", "failed", "cut"}]
        /\ addr' \in [Requests -> Ports \cup {0}]
        /\ left' \in [Requests -> 0 .. CallTimeout + UploadTimeout]
        /\ client'[r] = "done" /\ status'[r] = s
        /\ \A q \in Requests \ {r} :
             client'[q] = client[q] /\ status'[q] = status[q] /\ left'[q] = left[q]
    BY <1>6, AnswerTypes DEF RpcInv
  <2>2. RpcTypeOK'
    BY <1>1, <1>2, <1>6, <2>1 DEF RpcInv, RpcTypeOK
  <2>3. Progress(r)'
    BY <1>1, <1>2, <1>3, <1>4, <1>6, <2>1 DEF Progress, Plan
  <2>4. Quietly(r)'
    BY <1>1, <1>2, <1>3, <1>4, <1>6, <2>1 DEF Quietly, Progress, Plan
  <2>5. ASSUME NEW q \in Requests \ {r} PROVE RequestInv(q)'
    BY <1>1, <1>2, <1>6, <2>1, OthersKept DEF RpcInv
  <2>6. Emptied'
    BY <1>1, <1>2, <1>6, EmptiedKept DEF RpcInv
  <2>7. QED
    BY <2>1, <2>2, <2>3, <2>4, <2>5, <2>6 DEF RpcInv, RequestInv, Idle
<1>7. CASE client[r] = "wait" /\ server[r] = "ok" /\ calls[r] + 1 # Len(Plan(r).calls)
  <2>1. /\ client' = [client EXCEPT ![r] = "handler"]
        /\ calls' = [calls EXCEPT ![r] = calls[r] + 1]
        /\ addr' = [addr EXCEPT ![r] = 0] /\ left' = [left EXCEPT ![r] = 0]
        /\ status' = status
    BY <1>7 DEF Result
  <2>2. /\ calls' \in [Requests -> Nat] /\ calls'[r] = calls[r] + 1 /\ client'[r] = "handler"
        /\ \A q \in Requests \ {r} :
             calls'[q] = calls[q] /\ client'[q] = client[q] /\ left'[q] = left[q]
    BY <2>1 DEF RpcInv, RpcTypeOK
  <2>3. RpcTypeOK'
    BY <1>1, <1>2, <2>1, <2>2, GatewayAssumption DEF RpcInv, RpcTypeOK
  <2>4. Progress(r)'
    BY <1>1, <1>2, <1>3, <1>4, <1>7, <2>1, <2>2 DEF Progress, Plan
  <2>5. Quietly(r)'
    BY <1>1, <1>2, <1>3, <1>7, <2>1, <2>2 DEF Quietly, Progress
  <2>6. ASSUME NEW q \in Requests \ {r} PROVE RequestInv(q)'
    BY <1>1, <1>2, <2>1, <2>2, OthersKept DEF RpcInv
  <2>7. Emptied'
    BY <1>1, <1>2, <2>2, EmptiedKept DEF RpcInv
  <2>8. QED
    BY <2>2, <2>3, <2>4, <2>5, <2>6, <2>7 DEF RpcInv, RequestInv, Idle
<1>8. QED
  BY <1>1, <1>5, <1>6, <1>7 DEF Result

-----------------------------------------------------------------------------
(***************************************************************************)
(* The services, the gateway as a whole, and time.                         *)
(***************************************************************************)

\* Calls break, and their handlers answer.
LEMMA BreakKeeps ==
  ASSUME RpcInv, NEW R \in SUBSET Requests, Break(R),
         UNCHANGED <<route, calls, ran, gw, grace>>,
         disturbed \subseteq disturbed', disturbed' \subseteq Requests,
         \A r \in R : server[r] # "none" /\ (server[r] = "queued" \/ r \in disturbed')
  PROVE  /\ RpcTypeOK' /\ \A r \in Requests : RequestInv(r)'
         /\ \A r \in Requests : server'[r] # "none" => server[r] # "none" /\ r \notin R
<1> DEFINE Fails(r) == r \in R /\ client[r] = "wait"
<1>1. /\ server' = [r \in Requests |-> IF r \in R THEN "none" ELSE server[r]]
      /\ client' = [r \in Requests |-> IF Fails(r) THEN "done" ELSE client[r]]
      /\ status' = [r \in Requests |-> IF Fails(r) THEN "failed" ELSE status[r]]
      /\ addr' = [r \in Requests |-> IF Fails(r) THEN 0 ELSE addr[r]]
      /\ left' = [r \in Requests |-> IF Fails(r) THEN 0 ELSE left[r]]
  BY DEF Break
<1> HIDE DEF Fails
<1>2. RpcTypeOK'
  BY <1>1, GatewayAssumption DEF RpcInv, RpcTypeOK
<1>3. ASSUME NEW r \in Requests PROVE RequestInv(r)'
  <2>1. /\ server'[r] = IF r \in R THEN "none" ELSE server[r]
        /\ client'[r] = IF Fails(r) THEN "done" ELSE client[r]
        /\ status'[r] = IF Fails(r) THEN "failed" ELSE status[r]
        /\ left'[r] = IF Fails(r) THEN 0 ELSE left[r]
    BY <1>1
  <2>2. RequestInv(r)
    BY DEF RpcInv
  <2>3. CASE r \notin R
    BY <2>1, <2>2, <2>3, OthersKept DEF Fails
  <2>4. CASE r \in R
    <3>1. client[r] # "idle" /\ server'[r] = "none" /\ client'[r] = "done"
      BY <2>1, <2>2, <2>4 DEF RequestInv, Idle, Progress, Fails, RpcInv, RpcTypeOK
    <3>2. Progress(r)'
      BY <2>1, <2>2, <2>4, <3>1 DEF RequestInv, Progress, Plan
    <3>3. Quietly(r)'
      BY <2>1, <2>2, <2>4, <3>1 DEF RequestInv, Progress, Quietly, Plan
    <3>4. QED
      BY <3>1, <3>2, <3>3 DEF RequestInv, Idle
  <2>5. QED
    BY <2>3, <2>4
<1>4. QED
  BY <1>1, <1>2, <1>3

\* No service step gives a service a call; only Drain brings one to its end.
LEMMA ServiceStepKeeps ==
  ASSUME GatewayInv, NEW s \in Names, ServiceStep(s)
  PROVE  RpcInv'
<1>1. UNCHANGED <<client, route, calls, addr, left, server, status, ran, disturbed, gw, grace>>
  BY DEF ServiceStep
<1>2. RpcTypeOK' /\ \A q \in Requests : RequestInv(q)'
  BY <1>1, OthersKept DEF GatewayInv, RpcInv, RpcTypeOK
<1>3. \A t \in Names : At(t)' = At(t)
  BY <1>1 DEF At, AtServer, Call, Plan
<1>4. /\ life \in [Names -> {"down", "starting", "serving", "stopping"}]
      /\ todo \in [Names -> Seq(Steps)]
  BY DEF GatewayInv, SvcInv, ServicesTypeOK
<1>5. ASSUME NEW t \in Names \ {s} PROVE life'[t] = life[t] /\ todo'[t] = todo[t]
  BY <1>4 DEF ServiceStep, Start, Connect, Listen, Register, RegisterFails, FindBucket,
     MakeBucket, SetBucketPolicy, StepFails, MakeFails, Serve, Terminate, Drain, CutOff, Heal, Done
<1>6. ASSUME life'[s] = "stopping", todo'[s] = <<"close">> PROVE At(s) = {}
  <2>1. CASE \E p \in Ports : Start(s, p)
    BY <1>4, <1>6, <2>1 DEF Start
  <2>2. CASE Serve(s)
    BY <1>4, <1>6, <2>2 DEF Serve
  <2>3. CASE Terminate(s)
    BY <1>4, <1>6, <2>3, StopFacts DEF Terminate
  <2>4. CASE Drain(s, At(s))
    BY <2>4 DEF Drain
  <2>5. CASE CutOff(s) \/ Heal(s)
    BY <1>6, <2>5 DEF CutOff, Heal, GatewayInv, RpcInv, Emptied
  <2>6. CASE \/ Connect(s) \/ Listen(s) \/ Register(s) \/ RegisterFails(s)
             \/ FindBucket(s) \/ MakeBucket(s) \/ SetBucketPolicy(s)
             \/ StepFails(s) \/ MakeFails(s)
    <3>1. todo[s] # <<>> /\ Head(todo[s]) \notin StopWork /\ life' = life
      BY <2>6 DEF Connect, Listen, Register, RegisterFails, FindBucket, MakeBucket,
         SetBucketPolicy, StepFails, MakeFails, Doing, StopWork
    <3>2. life[s] = "starting"
      BY <3>1, StartsOnly DEF GatewayInv, SvcInv
    <3>3. QED
      BY <1>6, <3>1, <3>2
  <2>7. QED
    BY <2>1, <2>2, <2>3, <2>4, <2>5, <2>6 DEF ServiceStep
<1>7. Emptied'
  <2> SUFFICES ASSUME NEW t \in Names, life'[t] = "stopping", todo'[t] = <<"close">>
               PROVE  At(t) = {}
    BY <1>3 DEF Emptied
  <2>1. CASE t = s
    BY <1>6, <2>1
  <2>2. CASE t # s
    BY <1>5, <2>2 DEF GatewayInv, RpcInv, Emptied
  <2>3. QED
    BY <2>1, <2>2
<1>8. QED
  BY <1>2, <1>7 DEF RpcInv

\* A process that ends, or closes its listener, breaks calls.
LEMMA ServiceEndsKeep ==
  ASSUME GatewayInv, NEW s \in Names, ServiceCrash(s) \/ ServiceRefuse(s) \/ ServiceClose(s)
  PROVE  RpcInv'
<1> DEFINE R == IF ServiceRefuse(s) THEN {r \in At(s) : server[r] = "queued"} ELSE At(s)
<1>1. /\ Break(R) /\ R \subseteq At(s) /\ UNCHANGED <<route, calls, ran, gw, grace>>
      /\ disturbed' = disturbed \/ disturbed' = disturbed \cup At(s)
  BY DEF ServiceCrash, ServiceRefuse, ServiceClose
<1>2. At(s) \subseteq Requests /\ \A r \in At(s) : server[r] # "none"
  BY DEF At, AtServer
<1>3. \A r \in R : server[r] = "queued" \/ r \in disturbed'
  <2>1. CASE ServiceRefuse(s)
    BY <2>1
  <2>2. CASE ~ServiceRefuse(s) /\ ServiceCrash(s)
    BY <2>2 DEF ServiceCrash
  <2>3. CASE ~ServiceRefuse(s) /\ ServiceClose(s)
    <3>1. todo[s] # <<>> /\ Head(todo[s]) = "close"
      BY <2>3 DEF ServiceClose, Close, Doing
    <3>2. life[s] = "stopping" /\ todo[s] \in {StopSteps, <<"drain", "close">>, <<"close">>}
      BY <3>1, StopsOnly DEF GatewayInv, SvcInv, StopWork
    <3>3. todo[s] = <<"close">>
      BY <3>1, <3>2, StopFacts
    <3>4. At(s) = {}
      BY <3>2, <3>3 DEF GatewayInv, RpcInv, Emptied
    <3>5. QED
      BY <1>1, <3>4
  <2>4. QED
    BY <2>1, <2>2, <2>3
<1>4. disturbed \subseteq Requests
  BY DEF GatewayInv, RpcInv, RpcTypeOK
<1> HIDE DEF R
<1>5. /\ RpcTypeOK' /\ \A r \in Requests : RequestInv(r)'
      /\ \A r \in Requests : server'[r] # "none" => server[r] # "none" /\ r \notin R
  BY <1>1, <1>2, <1>3, <1>4, BreakKeeps DEF GatewayInv
<1>6. \A t \in Names : At(t)' \subseteq At(t)
  BY <1>1, <1>5 DEF At, AtServer, Call, Plan
<1>7. ASSUME NEW t \in Names, t # s PROVE life'[t] = life[t] /\ todo'[t] = todo[t]
  BY <1>7 DEF ServiceCrash, ServiceRefuse, ServiceClose, Crash, Refuse, Close, Exit, Done,
     GatewayInv, SvcInv, ServicesTypeOK
<1>8. ~(life'[s] = "stopping" /\ todo'[s] = <<"close">>)
  <2>1. CASE ServiceCrash(s) \/ ServiceClose(s)
    <3>1. life'[s] = "down"
      BY <2>1 DEF ServiceCrash, ServiceClose, Crash, Close, Exit, GatewayInv, SvcInv, ServicesTypeOK
    <3>2. QED
      BY <3>1
  <2>2. CASE ServiceRefuse(s)
    <3>1. todo[s] # <<>> /\ Head(todo[s]) = "refuse" /\ todo' = [todo EXCEPT ![s] = Tail(todo[s])]
      BY <2>2 DEF ServiceRefuse, Refuse, Doing, Done
    <3>2. todo[s] \in {StopSteps, <<"drain", "close">>, <<"close">>}
      BY <3>1, StopsOnly DEF GatewayInv, SvcInv, StopWork
    <3>3. todo'[s] = <<"drain", "close">>
      BY <3>1, <3>2, StopFacts DEF GatewayInv, SvcInv, ServicesTypeOK
    <3>4. Len(<<"drain", "close">>) = 2 /\ Len(<<"close">>) = 1
      OBVIOUS
    <3>5. QED
      BY <3>3, <3>4
  <2>3. QED
    BY <2>1, <2>2
<1>9. Emptied'
  <2> SUFFICES ASSUME NEW t \in Names, life'[t] = "stopping", todo'[t] = <<"close">>
               PROVE  At(t)' = {}
    BY DEF Emptied
  <2>1. t # s
    BY <1>8
  <2>2. At(t) = {}
    BY <1>7, <2>1 DEF GatewayInv, RpcInv, Emptied
  <2>3. QED
    BY <1>6, <2>2
<1>10. QED
  BY <1>5, <1>9 DEF RpcInv

\* The gateway ends.
LEMMA GatewayEndsKeeps ==
  ASSUME RpcInv, GatewayEnds
  PROVE  RpcInv'
<1>1. /\ gw' = "down" /\ grace' = 0
      /\ client' = [r \in Requests |-> IF Open(r) THEN "done" ELSE client[r]]
      /\ status' = [r \in Requests |-> IF Open(r) THEN "cut" ELSE status[r]]
      /\ addr' = [r \in Requests |-> 0] /\ left' = [r \in Requests |-> 0]
      /\ server' = [r \in Requests |-> IF server[r] = "queued" THEN "none" ELSE server[r]]
      /\ UNCHANGED <<route, calls, ran, disturbed, life, todo>>
  BY DEF GatewayEnds
<1>2. RpcTypeOK'
  BY <1>1, GatewayAssumption DEF RpcInv, RpcTypeOK, Open
<1>3. ASSUME NEW r \in Requests PROVE RequestInv(r)'
  <2>1. /\ server'[r] = IF server[r] = "queued" THEN "none" ELSE server[r]
        /\ client'[r] = IF Open(r) THEN "done" ELSE client[r]
        /\ status'[r] = IF Open(r) THEN "cut" ELSE status[r]
    BY <1>1
  <2>2. /\ Idle(r) /\ Progress(r) /\ Quietly(r)
        /\ client[r] \in {"idle", "handler", "connect", "wait", "done"}
        /\ server[r] \in {"none", "queued", "running", "ok", "error"}
    BY DEF RpcInv, RequestInv, RpcTypeOK
  <2>3. Idle(r)'
    BY <1>1, <2>1, <2>2 DEF Idle, Open
  <2>4. Progress(r)'
    BY <1>1, <2>1, <2>2 DEF Progress, Open, Plan
  <2>5. Quietly(r)'
    BY <1>1, <2>1, <2>2 DEF Quietly, Open, Plan
  <2>6. QED
    BY <2>3, <2>4, <2>5 DEF RequestInv
<1>4. Emptied'
  BY <1>1, EmptiedKept DEF RpcInv
<1>5. QED
  BY <1>2, <1>3, <1>4 DEF RpcInv

\* Time passes; whose context ends is disturbed.
LEMMA TickKeeps ==
  ASSUME RpcInv, Tick
  PROVE  RpcInv'
<1>1. /\ left' = [r \in Requests |-> IF left[r] = 0 THEN 0 ELSE left[r] - 1]
      /\ grace' = IF grace = 0 THEN 0 ELSE grace - 1
      /\ disturbed' = disturbed \cup {r \in Requests : left[r] = 1}
      /\ UNCHANGED <<client, route, calls, addr, server, status, ran, gw, life, todo>>
  BY DEF Tick, LeasesRun
<1>2. left \in [Requests -> 0 .. CallTimeout + UploadTimeout] /\ grace \in 0 .. ShutdownTimeout
  BY DEF RpcInv, RpcTypeOK
<1>3. RpcTypeOK'
  <2>1. grace' \in 0 .. ShutdownTimeout
    BY <1>1, <1>2, GatewayAssumption
  <2>2. left' \in [Requests -> 0 .. CallTimeout + UploadTimeout]
    BY <1>1, <1>2, GatewayAssumption
  <2>3. QED
    BY <1>1, <2>1, <2>2 DEF RpcInv, RpcTypeOK
<1>4. ASSUME NEW r \in Requests PROVE RequestInv(r)'
  <2>1. /\ left[r] \in Nat /\ left'[r] = IF left[r] = 0 THEN 0 ELSE left[r] - 1
        /\ r \in disturbed' <=> r \in disturbed \/ left[r] = 1
    BY <1>1, <1>2, GatewayAssumption
  <2>2. RequestInv(r)
    BY DEF RpcInv
  <2>3. Quietly(r)'
    BY <1>1, <2>1, <2>2 DEF RequestInv, Quietly, Plan
  <2>4. QED
    BY <1>1, <2>2, <2>3 DEF RequestInv, Idle, Progress, Plan
<1>5. Emptied'
  BY <1>1, EmptiedKept DEF RpcInv
<1>6. QED
  BY <1>3, <1>4, <1>5 DEF RpcInv

\* Steps that concern no request.
LEMMA NothingHappens ==
  ASSUME RpcInv, UNCHANGED <<rpcVars, life, todo>>,
         gw' \in {"down", "serving", "stopping"}, grace' \in 0 .. ShutdownTimeout
  PROVE  RpcInv'
<1>1. RpcTypeOK'
  BY DEF RpcInv, RpcTypeOK
<1>2. \A q \in Requests : RequestInv(q)'
  BY OthersKept DEF RpcInv
<1>3. Emptied'
  BY EmptiedKept DEF RpcInv
<1>4. QED
  BY <1>1, <1>2, <1>3 DEF RpcInv

-----------------------------------------------------------------------------
(***************************************************************************)
(* The invariant, and what follows from it.                                *)
(***************************************************************************)

LEMMA InitGateway == Init => GatewayInv
<1> SUFFICES ASSUME Init PROVE RpcInv
  BY InitSvc DEF GatewayInv
<1>1. /\ client = [r \in Requests |-> "idle"] /\ route = [r \in Requests |-> NoRoute]
      /\ calls = [r \in Requests |-> 0] /\ addr = [r \in Requests |-> 0]
      /\ left = [r \in Requests |-> 0] /\ server = [r \in Requests |-> "none"]
      /\ status = [r \in Requests |-> "none"] /\ ran = [r \in Requests |-> <<>>]
      /\ disturbed = {} /\ gw = "serving" /\ grace = 0
  BY DEF Init
<1>2. RpcTypeOK
  BY <1>1, GatewayAssumption DEF RpcTypeOK
<1>3. \A r \in Requests : RequestInv(r)
  BY <1>1 DEF RequestInv, Idle, Progress, Quietly
<1>4. Emptied
  BY <1>1 DEF Emptied, At, AtServer
<1>5. QED
  BY <1>2, <1>3, <1>4 DEF RpcInv

LEMMA StepGateway == GatewayInv /\ [Next]_vars => GatewayInv'
<1> SUFFICES ASSUME GatewayInv, [Next]_vars PROVE RpcInv'
  BY StepSvc DEF GatewayInv
<1>a. RpcInv
  BY DEF GatewayInv
<1>1. ASSUME NEW r \in Requests, Handle(r) \/ DiscoverFails(r) \/ Serving(r)
      PROVE  RpcInv'
  <2>1. CASE RefuseRequest(r)
    BY <1>a, <2>1, RefuseRequestKeeps
  <2>2. CASE Dial(r) \/ DiscoverFails(r)
    BY <2>2, DialKeeps
  <2>3. CASE GiveUp(r)
    BY <1>a, <2>3, GiveUpKeeps
  <2>4. CASE Result(r)
    BY <1>a, <2>4, ResultKeeps
  <2>5. CASE userServiceClient(r) \/ docServiceClient(r) \/ searchServiceClient(r)
    BY <2>5, InvokeKeeps DEF userServiceClient, docServiceClient, searchServiceClient
  <2>6. CASE Serving(r)
    BY <1>a, <2>6, TakeKeeps, ReturnKeeps DEF Serving, UserService_Handlers,
       DocService_Handlers, SearchService_Handlers
  <2>7. QED
    BY <1>1, <2>1, <2>2, <2>3, <2>4, <2>5, <2>6 DEF Handle
<1>2. ASSUME NEW r \in Requests, NEW x \in Routes, Arrive(r, x)
      PROVE  RpcInv'
  BY <1>a, <1>2, ArriveKeeps
<1>3. ASSUME NEW s \in Names, ServiceStep(s) \/ ServiceCrash(s) \/ ServiceRefuse(s) \/ ServiceClose(s)
      PROVE  RpcInv'
  BY <1>3, ServiceStepKeeps, ServiceEndsKeep
<1>4. CASE GatewayCrash \/ GatewayStops
  BY <1>a, <1>4, GatewayEndsKeeps DEF GatewayCrash, GatewayStops
<1>5. CASE GatewayStart \/ GatewayTerminate \/ GatewayEtcd \/ UNCHANGED vars
  <2>1. gw \in {"down", "serving", "stopping"} /\ grace \in 0 .. ShutdownTimeout
    BY <1>a DEF RpcInv, RpcTypeOK
  <2>2. /\ UNCHANGED <<rpcVars, life, todo>>
        /\ gw' \in {"down", "serving", "stopping"} /\ grace' \in 0 .. ShutdownTimeout
    BY <1>5, <2>1, GatewayAssumption DEF GatewayStart, GatewayTerminate, GatewayEtcd, CutOff, Heal, vars
  <2>3. QED
    BY <1>a, <2>2, NothingHappens
<1>6. CASE Tick
  BY <1>a, <1>6, TickKeeps
<1>7. QED
  BY <1>1, <1>2, <1>3, <1>4, <1>5, <1>6 DEF Next

LEMMA Invariant == Spec => []GatewayInv
<1>1. QED
  BY InitGateway, StepGateway, PTL DEF Spec

\* Every variable keeps its type, whatever the requests, the services and
\* etcd do.
THEOREM TypeCorrect == Spec => []TypeOK
<1>1. ASSUME GatewayInv PROVE TypeOK
  <2>1. ServicesTypeOK /\ RpcTypeOK
    BY <1>1 DEF GatewayInv, SvcInv, RpcInv
  <2>2. \A r \in Requests : client[r] = "idle" => route[r] = NoRoute /\ server[r] = "none"
    BY <1>1 DEF GatewayInv, RpcInv, RequestInv, Idle
  <2>3. \A r \in Requests : client[r] # "idle" => route[r] # NoRoute
    BY <1>1, RoutesAssumption DEF GatewayInv, RpcInv, RequestInv, Progress
  <2>4. QED
    BY <2>1, <2>2, <2>3 DEF TypeOK, RpcTypeOK, MethodNames
<1>2. QED
  BY <1>1, Invariant, PTL

\* What took effect for a request is a beginning of what its handler asks for.
LEMMA Beginning ==
  ASSUME GatewayInv, NEW r \in Requests, route[r] # NoRoute
  PROVE  /\ Progress(r) /\ Quietly(r) /\ client[r] # "idle"
         /\ Len(ran[r]) \in Nat /\ Len(Plan(r).calls) \in Nat /\ calls[r] \in Nat
         /\ Len(Methods(r)) = Len(Plan(r).calls) /\ Len(ran[r]) <= Len(Methods(r))
         /\ ran[r] = SubSeq(Methods(r), 1, Len(ran[r]))
         /\ SubSeq(Methods(r), 1, Len(Methods(r))) = Methods(r)
<1>1. client[r] # "idle" /\ Progress(r) /\ Quietly(r) /\ ran[r] \in Seq(MethodNames)
  BY DEF GatewayInv, RpcInv, RequestInv, Idle, RpcTypeOK
<1>2. Len(Plan(r).calls) \in Nat /\ calls[r] \in Nat /\ Len(ran[r]) \in Nat
  BY <1>1, CallAtHand DEF GatewayInv
<1>3. route[r] \in Routes
  BY <1>1 DEF Progress
<1>4. Plan(r).calls \in Seq(RpcOf)
  BY <1>3, CallsOfRoutes, RoutesAssumption DEF Plan
<1>5. /\ Methods(r) = [i \in 1 .. Len(Plan(r).calls) |-> Plan(r).calls[i].method]
      /\ \A i \in 1 .. Len(Plan(r).calls) : Plan(r).calls[i].method \in MethodNames
  BY <1>3, <1>4, CallFacts DEF Methods, Plan
<1>6. Methods(r) \in Seq(MethodNames) /\ Len(Methods(r)) = Len(Plan(r).calls)
  BY <1>2, <1>5
<1>7. Len(ran[r]) <= Len(Methods(r))
  BY <1>1, <1>2, <1>6 DEF Progress
<1>8. \A i \in 1 .. Len(ran[r]) : ran[r][i] = Methods(r)[i]
  BY <1>1, <1>2, <1>5, <1>6, <1>7 DEF Progress
<1>9. ran[r] = SubSeq(Methods(r), 1, Len(ran[r]))
  BY <1>1, <1>2, <1>6, <1>7, <1>8
<1>10. SubSeq(Methods(r), 1, Len(Methods(r))) = Methods(r)
  BY <1>6
<1>11. QED
  BY <1>1, <1>2, <1>6, <1>7, <1>9, <1>10

\* The calls of a request take effect in the order of its handler, each at
\* most once, and success is reported only when all have.
THEOREM HonestAnswers == Spec => []AnswersHonest
<1>1. ASSUME GatewayInv PROVE AnswersHonest
  <2> SUFFICES ASSUME NEW r \in Requests, route[r] # NoRoute
               PROVE  /\ Len(ran[r]) <= Len(Methods(r))
                      /\ ran[r] = SubSeq(Methods(r), 1, Len(ran[r]))
                      /\ status[r] = "ok" => ran[r] = Methods(r)
    BY DEF AnswersHonest
  <2>1. /\ Len(ran[r]) <= Len(Methods(r)) /\ ran[r] = SubSeq(Methods(r), 1, Len(ran[r]))
        /\ SubSeq(Methods(r), 1, Len(Methods(r))) = Methods(r)
        /\ Len(Methods(r)) = Len(Plan(r).calls) /\ Progress(r) /\ client[r] # "idle"
    BY <1>1, Beginning
  <2>2. status[r] = "ok" => Len(ran[r]) = Len(Methods(r))
    BY <2>1 DEF Progress
  <2>3. QED
    BY <2>1, <2>2
<1>2. QED
  BY <1>1, Invariant, PTL

\* What was carried out is reported as failed only if its context ended, its
\* service crashed, or the service said so: never for an orderly stop.
THEOREM ExplainedFailures == Spec => []FailuresExplained
<1>1. ASSUME GatewayInv PROVE FailuresExplained
  <2> SUFFICES ASSUME NEW r \in Requests, status[r] = "failed", ran[r] = Methods(r),
                      r \notin disturbed
               PROVE  FALSE
    BY DEF FailuresExplained
  <2>1. route[r] # NoRoute
    BY <1>1, RoutesAssumption DEF GatewayInv, RpcInv, RequestInv, Idle, Progress
  <2>2. Quietly(r) /\ Len(Methods(r)) = Len(Plan(r).calls) /\ Len(Plan(r).calls) \in Nat
    BY <1>1, <2>1, Beginning
  <2>3. QED
    BY <2>2 DEF Quietly
<1>2. QED
  BY <1>1, Invariant, PTL
=============================================================================
