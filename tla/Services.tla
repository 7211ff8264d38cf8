------------------------------ MODULE Services ------------------------------
(***************************************************************************)
(* The processes of the gRPC services and their entries in etcd: the main  *)
(* functions of user-service, doc-service, search-service and              *)
(* collab-service, and pkg/discovery/etcd.go.                              *)
(*                                                                         *)
(* A main is a list of steps, each of which may hang, fail, or be cut      *)
(* short by the end of the process.  A service is started again by hand,   *)
(* perhaps on another port.  There is one process of each service at a     *)
(* time, and what other processes do to the ports is part of the failures. *)
(***************************************************************************)
EXTENDS Naturals, Sequences, FiniteSets

CONSTANTS
  Names,       \* the services there are
  Ports,       \* ports a service may be configured with, from 1
  DefaultPort,
  LeaseTTL,    \* the lease of Register, in ticks
  MaxEvents    \* bound on stops, crashes, failures and partitions together,
               \* and on services that are down at first

ASSUME ServicesAssumption ==
  /\ Names \subseteq {"user", "doc", "search", "collab"}
  /\ Ports \subseteq Nat \ {0} /\ DefaultPort \in Ports
  /\ LeaseTTL \in Nat \ {0} /\ MaxEvents \in Nat

VARIABLES
  life,     \* life[s]: "down", "starting", "serving" or "stopping"
  todo,     \* todo[s]: the steps of main until it serves, or has stopped
  port,     \* port[s]: the port its process is configured with, or 0
  open,     \* the services whose process listens
  entry,    \* entry[s][p]: ticks the key of s at port p has to live, 0: absent
  keeper,   \* services whose process keeps its lease alive
  cut,      \* those that do not reach etcd, the gateway perhaps among them
  bucket,   \* the bucket of the images: "none", "private" or "public"
  images,   \* the document service has an image store
  events,   \* stops, crashes, failures and partitions so far
  lost,     \* services not registered, or cut off for a whole lease (history)
  ended,    \* ended[s][p]: ticks since a process of s at p ended (history)
  spoiled   \* the policy was not set when the bucket was made (history)

procVars == <<life, todo, port, open>>
etcdVars == <<entry, keeper, cut>>
imageVars == <<bucket, images>>
notes == <<lost, ended, spoiled>>
serviceVars == <<procVars, etcdVars, imageVars, events, notes>>

-----------------------------------------------------------------------------
\* What each main does until it serves.  sql.Open, mongo.Connect and
\* elasticsearch.NewClient contact nobody, and are left out.
UserMain == <<"postgres", "initDB", "listen", "register">>

\* Mutant of DocMain: it registers before it listens.
DocMainRegistersFirst == <<"redis", "register", "listen", "publisher", "images">>

DocMain == <<"redis", "listen", "register", "publisher", "images">>

SearchMain == <<"rabbit", "listen", "register">>
CollabMain == <<"ws", "listen", "register">>

Main == [user |-> UserMain, doc |-> DocMain, search |-> SearchMain, collab |-> CollabMain]

\* NewImageStore, when the bucket is not there yet.
ImageSteps == <<"make", "policy">>

\* From the signal to the end of main.
StopSteps == <<"refuse", "drain", "close">>

Steps == {"postgres", "initDB", "redis", "rabbit", "ws", "listen", "register",
          "publisher", "images", "make", "policy", "refuse", "drain", "close"}

Doing(s, step) == todo[s] # <<>> /\ Head(todo[s]) = step
Done(s) == todo' = [todo EXCEPT ![s] = Tail(@)]
Listens(s, p) == s \in open /\ port[s] = p

\* Some services serve, the others are to be started.
ServicesInit ==
  /\ life \in [Names -> {"down", "serving"}]
  /\ todo = [s \in Names |-> <<>>]
  /\ port = [s \in Names |-> IF life[s] = "down" THEN 0 ELSE DefaultPort]
  /\ open = {s \in Names : life[s] = "serving"} /\ keeper = open
  /\ entry = [s \in Names |-> [p \in Ports |-> IF port[s] = p THEN LeaseTTL ELSE 0]]
  /\ cut = {}
  /\ images = ("doc" \in open) /\ bucket = IF images THEN "public" ELSE "none"
  /\ events = Cardinality(Names \ open) /\ events <= MaxEvents
  /\ lost = {} /\ ended = [s \in Names |-> [p \in Ports |-> LeaseTTL]] /\ spoiled = FALSE

Event == events < MaxEvents /\ events' = events + 1

-----------------------------------------------------------------------------
Start(s, p) ==
  /\ life[s] = "down"
  /\ life' = [life EXCEPT ![s] = "starting"]
  /\ todo' = [todo EXCEPT ![s] = Main[s]]
  /\ port' = [port EXCEPT ![s] = p]
  /\ lost' = lost \ {s}
  /\ UNCHANGED <<open, etcdVars, imageVars, events, ended, spoiled>>

\* A step that succeeds and leaves nothing that matters here: a ping, CREATE
\* TABLE IF NOT EXISTS, a connection, the WebSocket server.
Connect(s) ==
  /\ life[s] = "starting"
  /\ \E step \in {"postgres", "initDB", "redis", "rabbit", "publisher", "ws"} :
       Doing(s, step)
  /\ Done(s)
  /\ UNCHANGED <<life, port, open, etcdVars, imageVars, events, notes>>

Listen(s) ==
  /\ Doing(s, "listen") /\ Done(s)
  /\ open' = open \cup {s}
  /\ UNCHANGED <<life, port, etcdVars, imageVars, events, notes>>

\* Mutant of Register: the lease is not kept alive.
RegisterOnce(s) ==
  /\ Doing(s, "register") /\ Done(s)
  /\ s \notin cut
  /\ entry' = [entry EXCEPT ![s][port[s]] = LeaseTTL]
  /\ UNCHANGED <<life, port, open, keeper, cut, imageVars, events, notes>>

\* Grant, Put and KeepAlive.  Put hangs the key on the new lease, so that the
\* one of an earlier process no longer ends it.
Register(s) ==
  /\ Doing(s, "register") /\ Done(s)
  /\ s \notin cut
  /\ entry' = [entry EXCEPT ![s][port[s]] = LeaseTTL]
  /\ keeper' = keeper \cup {s}
  /\ UNCHANGED <<life, port, open, cut, imageVars, events, notes>>

\* One of the three fails; main does not look at the error.
RegisterFails(s) ==
  /\ Doing(s, "register") /\ Done(s) /\ Event
  /\ entry' \in {entry, [entry EXCEPT ![s][port[s]] = LeaseTTL]}
  /\ lost' = lost \cup {s}
  /\ UNCHANGED <<life, port, open, keeper, cut, imageVars, ended, spoiled>>

\* BucketExists: a bucket that is there is taken to be readable.
FindBucket(s) ==
  /\ Doing(s, "images")
  /\ todo' = [todo EXCEPT ![s] = IF bucket = "none" THEN ImageSteps ELSE <<>>]
  /\ images' = (bucket # "none")
  /\ UNCHANGED <<life, port, open, etcdVars, bucket, events, notes>>

MakeBucket(s) ==
  /\ Doing(s, "make") /\ Done(s)
  /\ bucket' = "private"
  /\ UNCHANGED <<life, port, open, etcdVars, images, events, notes>>

\* Mutant of SetBucketPolicy: the policy names the default bucket, and not the
\* one MINIO_BUCKET gives.
PolicyOfDefault(s) ==
  /\ Doing(s, "policy") /\ Done(s)
  /\ images' = TRUE
  /\ UNCHANGED <<life, port, open, etcdVars, bucket, events, notes>>

\* The store is used whether or not the policy could be set.
SetBucketPolicy(s) ==
  /\ Doing(s, "policy") /\ Done(s)
  /\ \/ bucket' = "public" /\ UNCHANGED <<events, spoiled>>
     \/ Event /\ spoiled' = TRUE /\ UNCHANGED bucket
  /\ images' = TRUE
  /\ UNCHANGED <<life, port, open, etcdVars, lost, ended>>

\* An optional part is missing: main logs it and goes on.  (Where it calls
\* log.Fatalf instead, see Crash.)
StepFails(s) ==
  /\ \E step \in {"redis", "publisher", "images"} : Doing(s, step)
  /\ Done(s) /\ Event
  /\ UNCHANGED <<life, port, open, etcdVars, imageVars, notes>>

\* Mutant of MakeFails: its error is logged, like that of SetBucketPolicy, and
\* the store is used.
MakeFailsLogged(s) ==
  /\ Doing(s, "make") /\ todo' = [todo EXCEPT ![s] = <<>>] /\ Event
  /\ images' = TRUE
  /\ UNCHANGED <<life, port, open, etcdVars, bucket, notes>>

\* There will be no image store, and perhaps a bucket nevertheless.
MakeFails(s) ==
  /\ Doing(s, "make") /\ todo' = [todo EXCEPT ![s] = <<>>] /\ Event
  /\ \/ UNCHANGED <<bucket, spoiled>>
     \/ bucket' = "private" /\ spoiled' = TRUE
  /\ UNCHANGED <<life, port, open, etcdVars, images, lost, ended>>

\* go Serve: what waits at the listener is served from now on.
Serve(s) ==
  /\ life[s] = "starting" /\ todo[s] = <<>>
  /\ life' = [life EXCEPT ![s] = "serving"]
  /\ UNCHANGED <<todo, port, open, etcdVars, imageVars, events, notes>>

-----------------------------------------------------------------------------
\* The process ends, and with it its listener and its keepalive.  Nothing
\* revokes the lease.
Exit(s) ==
  /\ life' = [life EXCEPT ![s] = "down"]
  /\ todo' = [todo EXCEPT ![s] = <<>>]
  /\ port' = [port EXCEPT ![s] = 0]
  /\ open' = open \ {s} /\ keeper' = keeper \ {s}
  /\ images' = IF s = "doc" THEN FALSE ELSE images
  /\ ended' = IF s \in open \/ life[s] = "stopping"
                THEN [ended EXCEPT ![s][port[s]] = 0] ELSE ended
  /\ spoiled' = (spoiled \/ Doing(s, "policy"))
  /\ UNCHANGED <<entry, cut, bucket, lost>>

\* A crash, a kill, a step that fails fatally, or a signal before main asks
\* for signals.
Crash(s) == life[s] # "down" /\ Event /\ Exit(s)

Terminate(s) ==
  /\ life[s] = "serving" /\ Event
  /\ life' = [life EXCEPT ![s] = "stopping"]
  /\ todo' = [todo EXCEPT ![s] = StopSteps]
  /\ UNCHANGED <<port, open, etcdVars, imageVars, notes>>

\* GracefulStop closes the listener, and then waits for the calls that run.
\* The WebSocket server of the collab service is shut down before that; it
\* waits for no connection it has handed to the hub.
Refuse(s) ==
  /\ Doing(s, "refuse") /\ Done(s)
  /\ open' = open \ {s}
  /\ UNCHANGED <<life, port, etcdVars, imageVars, events, notes>>

Drain(s, running) ==
  /\ Doing(s, "drain") /\ running = {} /\ Done(s)
  /\ UNCHANGED <<life, port, open, etcdVars, imageVars, events, notes>>

\* registry.Close, and main returns.
Close(s) == Doing(s, "close") /\ Exit(s) /\ UNCHANGED events

-----------------------------------------------------------------------------
\* A process, or the gateway, is cut off from etcd, and reaches it again.
CutOff(x) ==
  /\ x \notin cut /\ Event
  /\ cut' = cut \cup {x}
  /\ UNCHANGED <<procVars, entry, keeper, imageVars, notes>>

Heal(x) ==
  /\ x \in cut /\ cut' = cut \ {x}
  /\ UNCHANGED <<procVars, entry, keeper, imageVars, events, notes>>

Kept(s, p) == s \in keeper /\ s \notin cut /\ port[s] = p
RunsOut(s) == s \in keeper /\ s \in cut /\ entry[s][port[s]] = 1

\* A lease that is kept starts anew, the others run down.  When one runs out
\* its keepalive ends for good; the goroutine of Register only logs it.
LeasesRun ==
  /\ entry' = [s \in Names |-> [p \in Ports |->
                 IF Kept(s, p) THEN LeaseTTL
                 ELSE IF entry[s][p] = 0 THEN 0 ELSE entry[s][p] - 1]]
  /\ keeper' = {s \in keeper : ~RunsOut(s)}
  /\ lost' = lost \cup {s \in keeper : RunsOut(s)}
  /\ ended' = [s \in Names |-> [p \in Ports |->
                 IF ended[s][p] < LeaseTTL THEN ended[s][p] + 1 ELSE LeaseTTL]]
  /\ UNCHANGED <<procVars, cut, imageVars, events, spoiled>>

\* The addresses etcd lists for a service, as ports.
Discover(s) == {p \in Ports : entry[s][p] > 0}

-----------------------------------------------------------------------------
(***************************************************************************)
(* Properties.                                                             *)
(***************************************************************************)

\* Every variable keeps its type: only a process listens, keeps a lease, has
\* a port or an image store.
ServicesTypeOK ==
  /\ life \in [Names -> {"down", "starting", "serving", "stopping"}]
  /\ todo \in [Names -> Seq(Steps)]
  /\ port \in [Names -> Ports \cup {0}] /\ \A s \in Names : port[s] = 0 <=> life[s] = "down"
  /\ open \subseteq {s \in Names : port[s] # 0}
  /\ keeper \subseteq {s \in Names : port[s] # 0}
  /\ entry \in [Names -> [Ports -> 0 .. LeaseTTL]]
  /\ ended \in [Names -> [Ports -> 0 .. LeaseTTL]]
  /\ bucket \in {"none", "private", "public"}
  /\ images \in BOOLEAN /\ (images => bucket # "none" /\ "doc" \in Names /\ port["doc"] # 0)
  /\ events \in 0 .. MaxEvents /\ lost \subseteq Names /\ spoiled \in BOOLEAN

\* etcd names an address only while a process that has listened there is
\* alive, perhaps draining, or if it ended less than one lease ago, whatever
\* was started, stopped and registered since.
AdvertisedAlive ==
  \A s \in Names, p \in Ports :
    entry[s][p] > 0 =>
      \/ Listens(s, p)
      \/ life[s] = "stopping" /\ port[s] = p
      \/ ended[s][p] < LeaseTTL

\* A service that serves can be found, unless it could not register or was
\* cut off from etcd for a whole lease: then nothing registers it again.
ServingAdvertised ==
  \A s \in Names : life[s] = "serving" /\ s \notin lost => port[s] \in Discover(s)

\* The images whose URLs are handed out can be read by everybody, unless the
\* process that made the bucket could not set its policy or ended before it
\* had: no later start repairs that.
ImagesReadable == images /\ bucket = "private" => spoiled
=============================================================================
