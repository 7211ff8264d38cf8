------------------------------ MODULE Gateway ------------------------------
(***************************************************************************)
(* The gateway (gateway/handler, gateway/router, gateway/main.go) in front *)
(* of the gRPC services: what becomes of an HTTP request while services    *)
(* start, drain, crash and move to other ports, calls run out of time and  *)
(* the gateway itself is stopped.  What the calls do is in Accounts and    *)
(* DocService; here each takes effect or not.                              *)
(***************************************************************************)
EXTENDS Services

CONSTANTS
  Requests,         \* HTTP requests, each made once
  Routes,           \* the routes they may take
  EnvAddr,          \* services whose address the environment gives
  CallTimeout, UploadTimeout, ShutdownTimeout,   \* in ticks
  NoRoute

ASSUME GatewayAssumption ==
  /\ EnvAddr \subseteq Names
  /\ CallTimeout \in Nat \ {0} /\ UploadTimeout \in Nat \ {0} /\ ShutdownTimeout \in Nat

VARIABLES
  client,    \* client[r]: "idle", "handler", "connect", "wait" or "done"
  route,     \* route[r]: the route of the request, once it came
  calls,     \* calls[r]: how many of its calls have succeeded
  addr,      \* addr[r]: the port dialled
  left,      \* left[r]: ticks until the context of its call expires
  server,    \* server[r]: its call at the service: "none", "queued",
             \* "running", or with its result, "ok" or "error"
  status,    \* status[r]: the answer
  gw,        \* the gateway: "down", "serving" or "stopping"
  grace,     \* ticks Shutdown still waits
  ran,       \* ran[r]: the methods that took effect for r (history)
  disturbed  \* requests whose call expired, whose service crashed with the
             \* call, or reported an error after its effect (history)

rpcVars == <<client, route, calls, addr, left, server, status, ran, disturbed>>
gwVars == <<gw, grace>>
vars == <<serviceVars, rpcVars, gwVars>>

-----------------------------------------------------------------------------
\* The methods of the services.
UserService_ServiceDesc ==
  {"Register", "Login", "GetUser", "UpdateUser", "LookupByUsername"}
DocService_ServiceDesc ==
  {"CreateDoc", "GetDoc", "ListDocs", "UpdateDoc", "DeleteDoc", "UploadImage", "ShareDoc"}
SearchService_ServiceDesc == {"SearchDocs", "ReindexDoc"}
CollabService_ServiceDesc == {"GetDocState", "GetCollaborators"}

ServiceDesc ==
  [user |-> UserService_ServiceDesc, doc |-> DocService_ServiceDesc,
   search |-> SearchService_ServiceDesc, collab |-> CollabService_ServiceDesc]

\* A handler: whether JWTAuth comes first, whether it can refuse what the
\* browser sent, and its calls, each with a context of its own.
Rpc(s, m, t) == [service |-> s, method |-> m, timeout |-> t]

RegisterRoute == [auth |-> FALSE, binds |-> TRUE, calls |-> <<Rpc("user", "Register", CallTimeout)>>]
LoginRoute == [auth |-> FALSE, binds |-> TRUE, calls |-> <<Rpc("user", "Login", CallTimeout)>>]
GetUserRoute == [auth |-> TRUE, binds |-> FALSE, calls |-> <<Rpc("user", "GetUser", CallTimeout)>>]
CreateDocRoute == [auth |-> TRUE, binds |-> TRUE, calls |-> <<Rpc("doc", "CreateDoc", CallTimeout)>>]
SaveDocRoute == [auth |-> TRUE, binds |-> TRUE, calls |-> <<Rpc("doc", "UpdateDoc", CallTimeout)>>]
GetDocRoute == [auth |-> TRUE, binds |-> FALSE, calls |-> <<Rpc("doc", "GetDoc", CallTimeout)>>]
ListDocsRoute == [auth |-> TRUE, binds |-> FALSE, calls |-> <<Rpc("doc", "ListDocs", CallTimeout)>>]
SearchDocsRoute ==
  [auth |-> TRUE, binds |-> FALSE, calls |-> <<Rpc("search", "SearchDocs", CallTimeout)>>]
UploadImageRoute ==
  [auth |-> TRUE, binds |-> TRUE, calls |-> <<Rpc("doc", "UploadImage", UploadTimeout)>>]
ShareDocRoute ==
  [auth |-> TRUE, binds |-> TRUE,
   calls |-> <<Rpc("user", "LookupByUsername", CallTimeout), Rpc("doc", "ShareDoc", CallTimeout)>>]

\* The routes of router.Setup.
Router ==
  [register |-> RegisterRoute, login |-> LoginRoute, me |-> GetUserRoute,
   create |-> CreateDocRoute, get |-> GetDocRoute, save |-> SaveDocRoute,
   share |-> ShareDocRoute, upload |-> UploadImageRoute, list |-> ListDocsRoute,
   search |-> SearchDocsRoute]

ASSUME RoutesAssumption ==
  /\ Routes \subseteq DOMAIN Router
  /\ \A x \in DOMAIN Router : \A i \in DOMAIN Router[x].calls :
       /\ Router[x].calls[i].method \in ServiceDesc[Router[x].calls[i].service]
       /\ x \in Routes => Router[x].calls[i].service \in Names
  /\ NoRoute \notin Routes

Plan(r) == Router[route[r]]
Methods(r) == [i \in DOMAIN Plan(r).calls |-> Plan(r).calls[i].method]
Call(r) == Plan(r).calls[calls[r] + 1]
Open(r) == client[r] \in {"handler", "connect", "wait"}
AtServer(r) == server[r] # "none"
At(s) == {r \in Requests : AtServer(r) /\ Call(r).service = s}

Init ==
  /\ ServicesInit
  /\ client = [r \in Requests |-> "idle"] /\ route = [r \in Requests |-> NoRoute]
  /\ calls = [r \in Requests |-> 0] /\ addr = [r \in Requests |-> 0]
  /\ left = [r \in Requests |-> 0] /\ server = [r \in Requests |-> "none"]
  /\ status = [r \in Requests |-> "none"] /\ ran = [r \in Requests |-> <<>>]
  /\ disturbed = {}
  /\ gw = "serving" /\ grace = 0

-----------------------------------------------------------------------------
\* The handler writes its answer.
Answer(r, s) ==
  /\ client' = [client EXCEPT ![r] = "done"]
  /\ status' = [status EXCEPT ![r] = s]
  /\ addr' = [addr EXCEPT ![r] = 0] /\ left' = [left EXCEPT ![r] = 0]

\* A request comes in, past cors, tracing and metrics.
Arrive(r, x) ==
  /\ gw = "serving" /\ client[r] = "idle"
  /\ client' = [client EXCEPT ![r] = "handler"]
  /\ route' = [route EXCEPT ![r] = x]
  /\ UNCHANGED <<calls, addr, left, server, status, ran, disturbed, gwVars, serviceVars>>

\* 401 from JWTAuth, or 400 from the handler.
RefuseRequest(r) ==
  /\ client[r] = "handler" /\ calls[r] = 0 /\ (Plan(r).auth \/ Plan(r).binds)
  /\ Answer(r, "refused")
  /\ UNCHANGED <<route, calls, server, ran, disturbed, gwVars, serviceVars>>

\* The address: from the environment; else the first one etcd lists, or the
\* default if it lists none.  No other address is tried.
dialService(s) ==
  IF s \in EnvAddr \/ Discover(s) = {} THEN DefaultPort
  ELSE CHOOSE p \in Discover(s) : \A q \in Discover(s) : p <= q

AsksEtcd(r) == Call(r).service \notin EnvAddr

\* The handler has an address, and starts the clock of the call.
DialTo(r, p) ==
  /\ client[r] = "handler"
  /\ client' = [client EXCEPT ![r] = "connect"]
  /\ addr' = [addr EXCEPT ![r] = p]
  /\ left' = [left EXCEPT ![r] = Call(r).timeout]
  /\ UNCHANGED <<route, calls, server, status, ran, disturbed, gwVars, serviceVars>>

Dial(r) ==
  /\ client[r] = "handler" /\ (AsksEtcd(r) => "gateway" \notin cut)
  /\ DialTo(r, dialService(Call(r).service))

\* etcd does not answer.  Discover has no deadline: the handler waits, for as
\* long as the client of etcd sees no error, and then takes the default.
DiscoverFails(r) ==
  /\ client[r] = "handler" /\ AsksEtcd(r) /\ "gateway" \in cut
  /\ DialTo(r, DefaultPort)

\* The stub of a method.  The connection is new: it is made, or refused.  A
\* service that listens and does not serve yet makes the call wait.
Invoke(r, s) ==
  /\ client[r] = "connect" /\ Call(r).service = s
  /\ IF Listens(s, addr[r])
       THEN /\ client' = [client EXCEPT ![r] = "wait"]
            /\ server' = [server EXCEPT ![r] = "queued"]
            /\ UNCHANGED <<addr, left, status>>
       ELSE Answer(r, "failed") /\ UNCHANGED server
  /\ UNCHANGED <<route, calls, ran, disturbed, gwVars, serviceVars>>

userServiceClient(r) == Invoke(r, "user")
docServiceClient(r) == Invoke(r, "doc")
searchServiceClient(r) == Invoke(r, "search")

\* Mutant of GiveUp: the timeout is for making the connection only.
GiveUpConnecting(r) ==
  /\ client[r] = "connect" /\ left[r] = 0
  /\ Answer(r, "failed")
  /\ UNCHANGED <<route, calls, server, ran, disturbed, gwVars, serviceVars>>

\* Mutant of GiveUp: cancel is called, not deferred.
GiveUpAtOnce(r) ==
  /\ client[r] \in {"connect", "wait"}
  /\ Answer(r, "failed")
  /\ server' = [server EXCEPT ![r] = IF @ = "queued" THEN "none" ELSE @]
  /\ UNCHANGED <<route, calls, ran, disturbed, gwVars, serviceVars>>

\* The context of the call ends, as its time is over or the browser gone: the
\* handler answers, and a call that is being served goes on at the service.
GiveUp(r) ==
  /\ client[r] \in {"connect", "wait"}
  /\ \/ left[r] = 0 /\ UNCHANGED <<events, disturbed>>
     \/ Event /\ disturbed' = disturbed \cup {r}
  /\ Answer(r, "failed")
  /\ server' = [server EXCEPT ![r] = IF @ = "queued" THEN "none" ELSE @]
  /\ UNCHANGED <<route, calls, ran, gwVars, procVars, etcdVars, imageVars, notes>>

-----------------------------------------------------------------------------
\* The service takes a call that waits for it ...
Take(r, s) ==
  /\ server[r] = "queued" /\ Call(r).service = s /\ s \in open /\ life[s] = "serving"
  /\ server' = [server EXCEPT ![r] = "running"]
  /\ UNCHANGED <<client, route, calls, addr, left, status, ran, disturbed, gwVars, serviceVars>>

\* ... and its method returns: done, refused, or failed after it had its effect.
\* An image needs the image store.
Return(r, s) ==
  /\ server[r] = "running" /\ Call(r).service = s
  /\ \/ /\ Call(r).method = "UploadImage" => images
        /\ server' = [server EXCEPT ![r] = "ok"]
        /\ ran' = [ran EXCEPT ![r] = Append(@, Call(r).method)]
        /\ UNCHANGED <<disturbed, events>>
     \/ server' = [server EXCEPT ![r] = "error"] /\ UNCHANGED <<ran, disturbed, events>>
     \/ /\ Call(r).method = "UploadImage" => images
        /\ Event
        /\ server' = [server EXCEPT ![r] = "error"]
        /\ ran' = [ran EXCEPT ![r] = Append(@, Call(r).method)]
        /\ disturbed' = disturbed \cup {r}
  /\ UNCHANGED <<client, route, calls, addr, left, status, gwVars,
                 procVars, etcdVars, imageVars, notes>>

UserService_Handlers(r) == Take(r, "user") \/ Return(r, "user")
DocService_Handlers(r) == Take(r, "doc") \/ Return(r, "doc")
SearchService_Handlers(r) == Take(r, "search") \/ Return(r, "search")

\* The result reaches the gateway, which may not wait for it any more.
Result(r) ==
  /\ server[r] \in {"ok", "error"}
  /\ server' = [server EXCEPT ![r] = "none"]
  /\ IF client[r] # "wait" THEN UNCHANGED <<client, calls, addr, left, status>>
     ELSE IF server[r] = "error" THEN Answer(r, "failed") /\ UNCHANGED calls
     ELSE IF calls[r] + 1 = Len(Plan(r).calls) THEN Answer(r, "ok") /\ UNCHANGED calls
     ELSE /\ client' = [client EXCEPT ![r] = "handler"]
          /\ calls' = [calls EXCEPT ![r] = @ + 1]
          /\ addr' = [addr EXCEPT ![r] = 0] /\ left' = [left EXCEPT ![r] = 0]
          /\ UNCHANGED <<status>>
  /\ UNCHANGED <<route, ran, disturbed, gwVars, serviceVars>>

\* Mutant of Break: a call that ends with Unavailable is sent again.
BreakAndRetry(R) ==
  /\ server' = [r \in Requests |-> IF r \notin R THEN server[r]
                                 ELSE IF client[r] = "wait" THEN "queued" ELSE "none"]
  /\ UNCHANGED <<client, status, addr, left>>

\* The connections of some calls break.  The handlers that wait for them
\* answer; nothing sends a call again.
Break(R) ==
  LET failed == {r \in R : client[r] = "wait"} IN
  /\ server' = [r \in Requests |-> IF r \in R THEN "none" ELSE server[r]]
  /\ client' = [r \in Requests |-> IF r \in failed THEN "done" ELSE client[r]]
  /\ status' = [r \in Requests |-> IF r \in failed THEN "failed" ELSE status[r]]
  /\ addr' = [r \in Requests |-> IF r \in failed THEN 0 ELSE addr[r]]
  /\ left' = [r \in Requests |-> IF r \in failed THEN 0 ELSE left[r]]

-----------------------------------------------------------------------------
\* Steps of the services that concern no call.
ServiceStep(s) ==
  /\ \/ \E p \in Ports : Start(s, p)
     \/ Connect(s) \/ Listen(s) \/ Register(s) \/ RegisterFails(s)
     \/ FindBucket(s) \/ MakeBucket(s) \/ SetBucketPolicy(s)
     \/ StepFails(s) \/ MakeFails(s) \/ Serve(s) \/ Terminate(s)
     \/ Drain(s, At(s)) \/ CutOff(s) \/ Heal(s)
  /\ UNCHANGED <<rpcVars, gwVars>>

\* Those that end connections: of all calls, or of the calls that wait.
ServiceCrash(s) ==
  /\ Crash(s) /\ Break(At(s))
  /\ disturbed' = disturbed \cup At(s)
  /\ UNCHANGED <<route, calls, ran, gwVars>>

ServiceRefuse(s) ==
  /\ Refuse(s) /\ Break({r \in At(s) : server[r] = "queued"})
  /\ UNCHANGED <<route, calls, ran, disturbed, gwVars>>

ServiceClose(s) ==
  /\ Close(s) /\ Break(At(s))
  /\ UNCHANGED <<route, calls, ran, disturbed, gwVars>>

-----------------------------------------------------------------------------
\* The gateway ends: browsers get no answer.
GatewayEnds ==
  /\ gw' = "down" /\ grace' = 0
  /\ client' = [r \in Requests |-> IF Open(r) THEN "done" ELSE client[r]]
  /\ status' = [r \in Requests |-> IF Open(r) THEN "cut" ELSE status[r]]
  /\ addr' = [r \in Requests |-> 0] /\ left' = [r \in Requests |-> 0]
  /\ server' = [r \in Requests |-> IF server[r] = "queued" THEN "none" ELSE server[r]]
  /\ UNCHANGED <<route, calls, ran, disturbed, procVars, etcdVars, imageVars, notes>>

GatewayCrash == gw # "down" /\ Event /\ GatewayEnds

GatewayStart ==
  /\ gw = "down" /\ gw' = "serving"
  /\ UNCHANGED <<grace, rpcVars, serviceVars>>

\* Shutdown takes no more requests, and waits for those there are, ...
GatewayTerminate ==
  /\ gw = "serving" /\ Event
  /\ gw' = "stopping" /\ grace' = ShutdownTimeout
  /\ UNCHANGED <<rpcVars, procVars, etcdVars, imageVars, notes>>

\* ... but not for longer than its context lasts; then main returns.
GatewayStops ==
  /\ gw = "stopping" /\ (grace = 0 \/ \A r \in Requests : ~Open(r))
  /\ GatewayEnds /\ UNCHANGED events

GatewayEtcd == (CutOff("gateway") \/ Heal("gateway")) /\ UNCHANGED <<rpcVars, gwVars>>

\* Time passes for the leases, the contexts and Shutdown.
Tick ==
  /\ LeasesRun
  /\ left' = [r \in Requests |-> IF left[r] = 0 THEN 0 ELSE left[r] - 1]
  /\ grace' = IF grace = 0 THEN 0 ELSE grace - 1
  /\ disturbed' = disturbed \cup {r \in Requests : left[r] = 1}
  /\ UNCHANGED <<client, route, calls, addr, server, status, ran, gw>>

Handle(r) ==
  \/ RefuseRequest(r) \/ Dial(r) \/ GiveUp(r) \/ Result(r)
  \/ userServiceClient(r) \/ docServiceClient(r) \/ searchServiceClient(r)

Serving(r) ==
  UserService_Handlers(r) \/ DocService_Handlers(r) \/ SearchService_Handlers(r)

Next ==
  \/ \E r \in Requests :
       Handle(r) \/ DiscoverFails(r) \/ Serving(r) \/ \E x \in Routes : Arrive(r, x)
  \/ \E s \in Names : ServiceStep(s) \/ ServiceCrash(s) \/ ServiceRefuse(s) \/ ServiceClose(s)
  \/ GatewayCrash \/ GatewayStart \/ GatewayTerminate \/ GatewayStops \/ GatewayEtcd
  \/ Tick

Spec == Init /\ [][Next]_vars

\* The handlers of the gateway go on, and so does time.  Nothing is asked of
\* the services: their start may hang, their methods may not return.
FairSpec == Spec /\ WF_vars(Tick) /\ \A r \in Requests : WF_vars(Handle(r))

-----------------------------------------------------------------------------
(***************************************************************************)
(* Properties.                                                             *)
(***************************************************************************)

\* Every variable keeps its type, and the calls of a request are made for
\* its route.
TypeOK ==
  /\ ServicesTypeOK
  /\ client \in [Requests -> {"idle", "handler", "connect", "wait", "done"}]
  /\ route \in [Requests -> Routes \cup {NoRoute}]
  /\ \A r \in Requests : client[r] = "idle" <=> route[r] = NoRoute
  /\ calls \in [Requests -> Nat] /\ addr \in [Requests -> Ports \cup {0}]
  /\ left \in [Requests -> 0 .. CallTimeout + UploadTimeout]
  /\ server \in [Requests -> {"none", "queued", "running", "ok", "error"}]
  /\ \A r \in Requests : client[r] = "idle" => server[r] = "none"
  /\ status \in [Requests -> {"none", "refused", "ok", "failed", "cut"}]
  /\ gw \in {"down", "serving", "stopping"} /\ grace \in 0 .. ShutdownTimeout
  /\ ran \in [Requests -> Seq(UNION {ServiceDesc[s] : s \in Names})]
  /\ disturbed \subseteq Requests

\* The calls of a request take effect in the order of the handler and at most
\* once, whatever breaks, and the browser is told of success only when all of
\* them have: nothing is sent again, and no error is passed over.  (When a
\* request that was carried out may be answered with an error is what
\* FailuresExplained says.)
AnswersHonest ==
  \A r \in Requests : route[r] # NoRoute =>
    /\ Len(ran[r]) <= Len(Methods(r)) /\ ran[r] = SubSeq(Methods(r), 1, Len(ran[r]))
    /\ status[r] = "ok" => ran[r] = Methods(r)

\* A request that was carried out is answered with an error only if its
\* context ended first, its service crashed, or the service itself reported an
\* error: an orderly stop of a service (GracefulStop) is no reason.
FailuresExplained ==
  \A r \in Requests :
    status[r] = "failed" /\ ran[r] = Methods(r) => r \in disturbed

\* Every request comes to an end: a service that hangs while it starts, or
\* while it serves the call, keeps no browser waiting.  Only etcd may, when it
\* cannot be reached.
Answered == \A r \in Requests : Open(r) ~> (~Open(r) \/ "gateway" \in cut)
=============================================================================
