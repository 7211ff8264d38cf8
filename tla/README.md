# goTogether in TLA+

A verification project for goTogether, a collaborative editor made of Go
services. The modules follow the code, not its README: each definition names its
lines in `PROJECT.json` ("map"). TLC checks the modules on small instances; TLAPS
proves for every instance the safety properties and the action properties that TLC
finds to hold. What the proofs leave to TLC is liveness.

## 1. The system

| Part | State it keeps | Operations | Talks to |
|---|---|---|---|
| Hub (`collab-service/hub/hub.go`) | rooms, queues `broadcast` and `streamCh`, per client `Send`, `done`, gauges | register, unregister, broadcast, deliver, sync, append | browsers (WebSocket), Redis, MongoDB |
| Snapshotter (`collab-service/stream/snapshotter.go`) | none: a loop over what Redis holds | scan, decide, XRANGE, `$push`, XDEL | Redis, MongoDB |
| Document service (`doc-service/service/doc.go`) | documents in MongoDB, their details cached in Redis | create, get, list, update, delete, share, upload | MongoDB, Redis, RabbitMQ, MinIO |
| Publisher (`doc-service/mq`) | a channel to RabbitMQ | publish | queue `doc.index` |
| Consumer and indexer (`search-service`) | a connection, the message in hand; the index in Elasticsearch | consume, index, ack / nack, search | RabbitMQ, Elasticsearch |
| User service (`user-service`) | the table `users` in Postgres | register, login, get, update, look up | Postgres |
| Image store (`doc-service/storage`) | a bucket and its policy in MinIO | make bucket, set policy, upload | MinIO |
| Gateway (`gateway`) | requests under way | REST routes, JWT check, a call of 5 s (30 s for an image) per service, 5 s at its stop | the gRPC services, etcd |
| Tokens (`pkg/auth`) | a secret | issue, check | |
| Discovery (`pkg/discovery`) | a key under a lease of 10 s in etcd | register, keep alive, discover, close | etcd |
| Mains of the services | listener, registry, clients of the stores | start, serve, drain on a signal | all of the above |
| Editor page (`web/editor.html`) | a Yjs document, a socket | edit, connect again after 3 s, save, share, upload | hub, gateway |
| Dashboard (`web/index.html`) | a token | register, log in, list, search | gateway |

An edit travels so: browser -> read pump -> `broadcast` -> `Run`, which starts one
goroutine per other client of the room and offers the update to `streamCh`; a
stream writer appends it to the Redis stream `doc:updates:<doc>`; once the stream
is idle for 5 s, or its oldest entry is 30 s old, the snapshotter pushes it onto
`yjs_updates` of the document in MongoDB and deletes it from the stream. A client
that joins is sent what MongoDB and Redis hold. Independently, saving a document
writes its text through the document service, which publishes a message that the
search service indexes.

### What makes each part correct, and what is hard about it

* **Hub.** A message owed to a client is delivered, or the client is disconnected;
  a client is unregistered by its read pump and by any number of deliveries, and
  everything about it must change once; every goroutine of a lost connection ends.
  Hard: five kinds of goroutine, bounded queues, no acknowledgements.
* **Snapshotter.** Moving updates between two stores without a transaction: no
  loss, order kept, duplicates only after a fault, progress under a steady load.
  Hard: a crash or an ambiguous error between any two commands, appends in between.
* **Hub and snapshotter.** What a joining client is sent is complete. Hard: it is
  read from two stores, while entries move from one to the other.
* **Document service.** A cache that is filled by readers and emptied by writers.
  Hard: concurrent calls, swallowed errors.
* **Index pipeline.** At-least-once delivery into an index that is overwritten.
  Hard: redelivery reorders; channels, connections and processes end.
* **Editor pages.** Pages that show one document agree on it once edits stop. Hard:
  edits typed offline, slow pages, tabs that close, a sync frame that is torn,
  overtaken or dropped.
* **Services and gateway.** etcd lists what serves and nothing else; the browser is
  told of success only when the work was done, and of failure after work that was
  done only for a reason; nothing waits for ever.
  Hard: a main is a list of steps of which each may hang or fail, processes crash
  and move, leases outlive processes, a drain meets calls under way.
* **Accounts.** A token names the account whose credentials were given; a document
  is shared with whom its owner named. Hard: registrations race, replies get lost,
  a share takes two services, a list is paged in 32 bits.

The list of hazards, each at its line and with the properties that cover it, is
`PROJECT.json` ("hazards").

## 2. The modules

```
UpdateLog <----- implemented by ----- Snapshotter <- extends - SnapshotterProofs
                                       |   ^                      ^
DocStore  <-------- extends -----------+   | instance of          | instance of
   ^------------------ Hub <- extends - Collab <- extends - CollabProofs
                        ^- extends - HubProofs <- extends ------+

Services <- extends - Gateway <- extends - GatewayProofs

DocService <- extends - Searching - instance of -> IndexPipeline <- extends - IndexProofs
                            ^- extends - SearchingProofs - instance of ------------^

Editors <- extends - EditorsProofs        Accounts <- extends - AccountsProofs
```

* `DocStore` - Redis and MongoDB as the collab service uses them: streams, the
  array `yjs_updates`, the clock. One operator per command. A stream entry is named
  by the position of its XADD among all XADDs, so that identical payloads stay
  apart and the order of ids is the order of numbers.
* `UpdateLog` - the abstract specification: per document a log that grows at its
  end and goes when the document goes.
* `Snapshotter` - the loop of the snapshotter, one action per command (`StartScan`,
  `NextKey`, `ReadOldest`, `ReadLatest`, `ReadRange`, `Push`, `Delete`), one action
  per error (`ScanFails`, `ReadFails`, `PushFails`, `DeleteFails`), `Restart`, and
  its environment: appends, deletions of documents, time. The clock is finer than the
  ticker: `CheckInterval` units pass between two ticks, so that an entry may come
  between two checks; until a command fails, a check ends within `CheckTime` if that is
  less, and as late as it likes if it is not. A `$push` that reports an
  error may have been applied. `pc` is the command to be sent next, `cur`, `oldest`,
  `batch` the local variables of `checkAndMerge` and `mergeStream`.
* `Hub` - the hub, one action per point where one of its goroutines can wait.
  `reader[c]` follows the handler and then the read pump of a connection, `writer[c]`
  the write pump, `sync[c]` its `sendSync`; `trying` and `evicting` hold the delivery
  goroutines at their first and second `select`. `Run` needs no variable: it is at
  its `select` whenever it is not in one of its actions, since nothing in its cases
  blocks. `StreamRetry` is the client of Redis, which main.go:39 leaves at its default
  retries: an XADD that is not answered is sent again, executed or not (`tries`).
  Variables marked history (`owed`, `got`, `origin`, `missed`) are only looked at by
  properties; `origin` names for each entry the message and the attempt it comes from.
* `Collab` - hub and snapshotter in one behaviour over one `DocStore`.
  `Snapshotter` is an INSTANCE with its timeouts at 0, so that every stream is
  always due: that covers whatever the timers do.
* `DocService` - the calls of the document service, a step per command to a store,
  with `pc[c]` the next command of call `c`. The requests are those the routes of
  the gateway make, and DeleteDoc, to which the gateway has no route. When the
  gateway's 5 s run out a call's next commands fail, at most `MaxErrors` in all;
  `Crash` ends the process and with it the calls it serves, `Restart` a process that
  serves none. A process that could not reach Redis when it started (`cached` is
  FALSE, rdb is nil) neither reads, fills nor empties the cache. `Snapshot` is the one
  writer of the collection that is no call: the snapshotter's `$set` of updated_at,
  which is part of the cached details (`Times`). `stale` and `dated` are history: why
  an entry may be behind, and why its updated_at may be.
* `IndexPipeline` - publisher, queue, consumer, Elasticsearch. The broker's part
  (places of requeued messages, what a closed channel gives back) is modelled from
  what the consumer relies on and marked external in the map. `Refused` holds the
  documents that Elasticsearch will never have: to the consumer their messages fail
  like any other. The publisher's connection (`linked`) is dialled once per process,
  as the consumer's is (`conn`); a restart of the broker ends both and loses every
  message, since Publish asks for no persistence.
* `Searching` - `DocService` and `IndexPipeline` in one behaviour: `queue` holds what
  was published, a message is named by its place there, and `Publish` is a step of
  both. Only then can one say what a search finds of a document. `missed` and
  `raced` are history: saves that no message tells of, and saves that overlapped.
* `Editors` - the pages of one document over the collab service. A Yjs document is the
  set of edits it has. `Load`, `Type`, `Connect`, `Drop`, `CloseTab` are the page's;
  `Receive`, `Deliver`, `Write`, `SyncMongo`, `SyncRedis`, `SyncSend`,
  `AppendToStream`, `RestartHub` the hub's, coarser than in `Hub` (a pump and what it
  hands to are one step); `Merge` is the snapshotter's, as one step. The variables
  `ahead`, `missed` and `unstored` are history: they record why a page may lack an edit.
* `Services` - the mains of the four gRPC services, their keys and leases in etcd,
  the bucket of the images. `todo[s]` holds the steps of a main that are left, from
  its start until it serves, and from its signal until it has stopped.
* `Gateway` extends `Services` with the gateway and its requests: a record per route
  (does JWTAuth come first, may the body be refused, which calls follow), the
  address that `dialService` picks, the deadline of each call, the call at the
  service. What a call does to documents and accounts is in `DocService` and
  `Accounts`; here it takes effect or not.
* `Accounts` - registration, login, tokens; sharing with its two calls; listing with
  its paging in 32 bits (`IntBound` is 2^31 in the code).
* `MCSnapshotter`, `MCHub`, `MCCollab`, `MCIndexPipeline`,
  `MCSearching`, `MCAccounts`, `MCEditors`, `MCGateway` - finite sets for TLC; the `.cfg` files give
  the bounds.
* `SnapshotterProofs`, `HubProofs`, `CollabProofs`, `SearchingProofs`, `IndexProofs`,
  `AccountsProofs`, `EditorsProofs`, `GatewayProofs` - theorems.

Definitions called mutants in their comments are variants of the one after them
with a plausible bug; they are not used by any specification. Each property of a
passing run is refuted by one of them ("mutants" in `PROJECT.json`).

## 3. The runs

| Run | Checks | Bounds, and why they are enough |
|---|---|---|
| `Snap` | `NoLostUpdate`, `ReplayInOrder`, `DuplicatesBoundedByFaults`, `BoundedStaleness`, `ImplementsUpdateLog`, `EventuallyPersisted` | 2 documents (one id no ObjectID, with at most one entry), 3 XADDs, 2 faults: two entries in a merge, one arriving between XRANGE and XDEL, a repeated merge that fails again. `CheckInterval` 2 and `CheckTime` 1: entries come at ticks and half way between, and a check takes no time or half an interval until a command fails, and any time after that; `IdleTimeout` 1 < `FallbackTimeout` 2 with a clock up to 6: a stream that appends at each tick keeps from being idle, and an entry that one check just misses and the next one takes |
| `HubSafety` | `NoSilentLoss`, `DoneIffLeft`, `GaugesExact`, `RoomIsolation`, `StreamedUnlessMissed` | 2 connections, 2 documents, 2 messages, 2 stream writers, all queues of capacity 1: every queue fills; a client can be unregistered by its pump and by two deliveries; an XADD is executed twice, once or never before it is given up (`MaxRetries` 1). Frames: JSON that claims either document, and one that is no JSON. Failing or repeated XADDs are followed while there is one connection (the constraint `OneOrHealthy`), as the rooms see nothing of them; `HubProofs` proves all properties without it |
| `HubLiveness` | `Teardown`, `DeliveriesEnd` | one room, 2 connections, 2 messages, capacities 1 |
| `CollabSync` | `RecoveredUnlessTorn`, `ImplementsSnapshotter` | one document, 2 connections, 2 updates, channels that do not fill, no lost connection: none of these touches the stores |
| `SearchAndCache` | `StaleOnlyByRace`, `SerialCallsAgree`, `SearchFindsSaved` | 3 calls on one document, one of which reads: a reader against two writers is the longest race the cache has, and two saves are what it takes to index an old one last; 2 users, titles, contents and times, processes with and without the cache. From the consumer's first step or the first trouble on, one user and one time, a cache, and no reader under way (the constraint `StillOrPlain`): of the rest the index holds nothing, and the two properties of the cache exempt errors. One thing goes wrong (`MaxTroubles`), anywhere from a command of a call to the acknowledgement of its message: an error, a closed channel, a lost connection, a crash of either service, a restart of the broker. After an error the cache and the title promise nothing, so that a second one would show nothing new; `SearchingProofs` proves all three without bounds |
| `IndexDelivery` | `NoMessageLost`, `OlderOnlyByRequeue`, `EventuallyIndexed` | 2 documents, one of them refused for ever, 3 messages, possibly no IndexMessages, 2 faults, 1 lost connection (of the consumer or the publisher) or restart of the broker: a refused message behind, between and ahead of others |
| `AccountsAndShares` | `TokensEarned`, `SharedAsNamed`, `ListsFaithful` | 4 requests: two registrations, a document, a share or a list; 2 emails, usernames, passwords and documents; integers from -4 to 3, pages and page sizes whose product fits, is negative, wraps, or wraps to 0; a cursor that fails or a document that does not decode, after any part of the page |
| `Serving` | `AnswersHonest`, `FailuresExplained`, `AdvertisedAlive`, `ServingAdvertised`, `ImagesReadable`, `Answered` | one request by a route of each shape (two calls; the long call; one call), as requests share nothing; four services, one of them by the environment's address; two ports, a lease of 2 ticks, timeouts of 1, 2 events (a service down at first, a stop, a crash, a failed step, a cut from etcd): a service that crashes and comes up at another port while its key lives; `GatewayProofs` proves the safety properties without bounds |
| `Editing` | `ConvergedUnlessMissed`, `StoredUnlessLost` | 2 pages, 2 edits, `Send` of 1, 1 fault: a page is behind by one edit for each reason there is; `EditorsProofs` proves both properties without bounds |
| `CollabRecovery` | `StateRecovered` is violated | 1 update |
| `HubJoiner` | `JoinersConverge` is violated | 1 update, nothing fails |
| `IndexReconnect` | `ReconnectsAfterClose` is violated | 1 message, 1 lost connection |

Each module's type invariant is checked by a run; `HubLiveness` and `CollabSync`
leave theirs to the others.

Bounds that stand in guards: `MaxTime`, `MaxAdds`, `MaxFaults` (Snapshotter),
`MaxMsgs` (Hub, IndexPipeline), `MaxRetries` (Hub; 3 in go-redis), `MaxFaults`,
`MaxConnLosses` (IndexPipeline), `MaxErrors` (DocService), `MaxTroubles` (Searching),
`MaxEvents` (Services), `MaxEdits` and `MaxFaults` (Editors). Four runs also have a
`CONSTRAINT`: that of `CollabSync` keeps connections up; that of `Snap` (`Few`) keeps
the entries of its second document few, and since nobody owes an append or a fault it
leaves out only behaviours of `EventuallyPersisted` that have more of them; those of
`HubSafety` (`OneOrHealthy`) and `SearchAndCache` (`StillOrPlain`) are told in the
table. Calls and requests are served once.

Where a system may stop (all connections closed, all calls served, the queue
drained) an action of the model says so (`Quiet`, `Served`, `Rest`, `Drained`,
`Settled`), so that deadlock is checked in every run. The documents of `HubSafety`
and `HubLiveness` are not in MongoDB: what sync reads there matters in `Collab`,
where they are.

### What the violations show

1. `CollabRecovery`: `sendSync` reads MongoDB (hub.go:278), the snapshotter pushes
   and trims (snapshotter.go:116, 128), `sendSync` reads Redis (hub.go:284). The
   joining client is sent none of the entries that moved.
   `RecoveredUnlessTorn` shows that this is the only way to miss one. With the two
   reads the other way round an entry would be found at least once.
2. `HubJoiner`: an update taken by `Run` before a client registers and appended by a
   stream writer after that client's XRANGE reaches it neither way.
3. `IndexReconnect`: `Start` opens channels on one connection for ever; when that is
   lost no message is indexed until the process restarts.

### Fairness

* `Snapshotter!FairSpec`: the loop and its ticker go on. `Start` runs until its
  context is cancelled, and `main` passes one that never is; each command ends with
  a result or an error. Faults are finite in number. Clients owe nothing.
* `Hub!FairSpec`: weak fairness per goroutine, which is what the Go scheduler gives.
  `Run` chooses among its ready cases at random, so that each client waiting for it
  is served at last. `PingFails` relies on the 30 s ticker and `ReadFails` on the
  60 s read deadline. Nobody has to connect, type or leave.
* `IndexPipeline!FairSpec`: the 3 s retry, the broker's deliveries, the consumer loop.
  `IndexDocument` has no deadline, as `main` passes a context that is never
  cancelled; the fairness of `Consume` assumes that Elasticsearch answers. A refused
  message comes back ahead of what was published after it, again and again. That the
  others are delivered all the same needs strong fairness of delivering the oldest
  message, which the broker earns by sending on without waiting for answers: no limit
  of unacknowledged messages is set. `EventuallyIndexed` gives up when the connection
  is lost, for which see above, or a restart of the broker took the message.
* `Gateway!FairSpec`: time and the handlers of the gateway, each of which is a
  goroutine with a deadline on its call. Nothing is asked of the services: a start
  may hang for ever, and a method need not return. `Answered` gives up when the
  gateway is cut off from etcd, since `Discover` has no deadline.
* `DocService`, `Searching`, `Accounts` and `Editors` have safety properties only; those of
  `Editors` speak of the states in which nothing is under way.

## 4. What is proved

Of every passing run, each invariant and each action or refinement property is a
theorem: the run shows it on a small instance, the theorem for all constants that
satisfy the assumptions of the modules (`...Assumption`). These say that
capacities and bounds are natural numbers, that what stands for "none" is none of
the things it stands beside, and that subsets are subsets; the theorems below name
what they need beyond that. Most properties are not inductive: the paragraphs say
what the invariant adds, and why.

### The collab service

`SnapshotterProofs` proves, for all documents, payloads, timeouts and bounds that
satisfy `DocsAssumption` (ids that parse are ids; the empty payload is no update)
and `TimeAssumption` (durations and bounds are natural numbers, and checks do not
follow each other at once):

* `TypeCorrect`: `Spec => []TypeOK`. `TypeOK` is inductive as it stands. Its parts
  that matter later are that a stream holds entries of its own document only, and
  that a document that is not in the collection has no array.
* `NothingLost`: `Spec => []NoLostUpdate`. Not inductive: XDEL removes `batch`, and
  nothing in `NoLostUpdate` says that `batch` was written. The invariant `SafeInv`
  adds `BatchOfCur` (the batch holds entries of the document at hand) and
  `PushedBatch` (at "del", if that document still exists, its array has every entry
  of the batch that is not blank). `PushKeeps` is the step that matters, `StoresKept`
  serves all the others.
* `LogImplemented`: `Spec => ImplementsUpdateLog`. `LogInv` adds `WrittenOwn` (an
  array holds entries of its own document) and the bound on XADDs. From it,
  `LogIsOfAdds`: what stream and array of a live document hold together is the set
  of XADDs for it with a payload. So a command that leaves `xadds` and `docs` alone
  is a stutter (`LogStutters`), XADD is `Accept` or a stutter (`AppendAccepts`), and
  the deletion of a document is `Discard` (`RemoveDiscards`).

* `ReplayedInOrder`: `Spec => []ReplayInOrder`. To write a batch keeps the order only
  if the batch lacks nothing that came before what it has; `BatchClosed` says so: an
  entry of the document at or before one of the batch, with a payload, is in the batch
  or written. XRANGE establishes it from `NoLostUpdate` (what is not in the array is in
  the stream, and the batch is all of the stream), so that `OrderInv` is `SafeInv`
  with these two.
* `DuplicatesBounded`: `Spec => []DuplicatesBoundedByFaults`. The invariant
  `CopiesBounded` is finer: an update stands in the array at most `1 + faults` times,
  and at most `faults` times while it is still to be merged, which it is if it is in
  the stream and the merge at hand is not about to delete it. `BatchInStream` says that
  what is about to be pushed is still to be merged. After a push comes the XDEL, or
  a fault.
* `StalenessBounded`: `Spec => []BoundedStaleness` if `FallbackTimeout > 0`, for any
  durations. An entry of age just below `FallbackTimeout` at a check waits for the next
  one, which takes its time too: the bound is the sum of `FallbackTimeout`,
  `CheckInterval` and `CheckTime`, and holds while checks end before the next tick.
  What must be excluded is an entry that was due at the last tick and is still there
  when its check is over. So `CheckedInv` follows an entry that is due through
  a check: a tick waits, its stream is in `todo`, or it is the stream at hand, past the
  decision and in the batch. The decision looks at the first entry of the stream only;
  `Aged` (entries are numbered in the order of their times) makes that the oldest.

`HubProofs` proves of any number of clients, documents, messages and stream writers,
and of any capacities of at least 1:

* `TypeCorrect`, `DoneMeansLeft` and `GaugesRight` (`TypeOK`, `DoneIffLeft`,
  `GaugesExact`) come from `BaseInv`. `PumpInv`: whom `Run`
  has yet to take in, by where its read pump is. `RoomInv`: the room of a document is the
  set of clients taken in and not closed since, `closes` is 0 or 1, and the gauges are
  the cardinalities; each of its parts needs the others, since whether a client may
  still be unregistered is read off its room. `AddressInv`: what is on its way to a
  client is another client's message of its document.
* `RoomsIsolated` (`RoomIsolation`): `AddressInv` and `OwnInv`, that what a sync has
  collected and what a document holds are entries of that document.
* `NothingDropped` (`NoSilentLoss`): `LossInv` with `BaseInv`. Each action takes a
  message from one place on its way to the next; the one that gives up a message
  closes `done` first or has found it closed.
* `StreamedAsSent` (`StreamedUnlessMissed`): `PlaceInv` (a message is held by one read
  pump, or in `broadcast`, `streamCh` or with one writer, once and in no two of them)
  says when a message stops waiting: when it is appended, or recorded in `missed`.
  How often it is appended `AttemptInv` counts by attempts: no two entries of a message come
  from the same one, and those of a message that a writer has come from attempts
  before the present one, of which there are at most `1 + MaxRetries`.

`CollabProofs` puts the two together, and cites both by name.

* `SnapshotterImplemented` (`ImplementsSnapshotter`): a step of the hub is a stutter of
  the snapshotter or one of its appends. The bound on appends is a guard of `Snapshotter`
  and none of `Hub`; `AddsBounded` (there are no more entries than attempts, no two of
  which are the same) proves that the guard never bites.
* `NothingLostTogether`: with that, `NoLostUpdate` holds of the two together.
* `JoinerRecovers` (`RecoveredUnlessTorn`), for `~Faults`: the reads of `sendSync`
  succeed. Where one fails, `sendSync` goes on with what it has (hub.go:278, 284), and
  the property does not hold. `DueInv`: between its two reads, what a client is due
  is in its buffer or still in the stream, unless it is torn. That the first read
  establishes this is `NoLostUpdate` again.

### The document service, the index, accounts

`SearchingProofs` proves of any calls, documents, users, titles and contents, and any
number of errors, crashes and restarts:

* `TypeCorrect` (`TypeOK` of `DocService`): inductive with `Formed`, which says how far a
  call may be for what it was asked. A call caches and publishes only what it has read.
* `StaleCacheIsRace` (`StaleOnlyByRace`): `Fresh` is what is missing: a document id
  under creation is in neither store and no call caches it. `stale` and `dated` are
  kept apart, since a merge makes nothing stale but updated_at. Histories with an
  error or a call cut short are exempt: cacheDel may fail in silence.
* `SerialCallsRight` (`SerialCallsAgree`): `AloneInv` says of a call that runs alone
  what it has read, what the cache holds and what it has still to publish; `Right`, that
  the last message about a document agrees with it unless a call has yet to publish.
  The property speaks of documents at rest; `Right` also of those being written. Both
  are up to updated_at, which a merge may change between a call's read and its answer.
* `SearchIsUpToDate` (`SearchFindsSaved`): an argument in two halves. The message side is
  `ContentInv` and `TitleInv`: the last message about a document tells how it was
  saved last, if no two saves overlapped. The index side is the invariant of
  `IndexPipeline`, taken from `IndexProofs` by INSTANCE (`Indexed`, `OrderInv`): once its
  messages are gone and none of them was requeued, the last about a document is the one
  the index has (`LastIsIndexed`).

`IndexProofs` proves of any number of messages, faults and lost connections:

* `TypeCorrect`: `Spec => []TypeOK`. That a message is ready only while nobody holds it
  needs the prefetched ones to be different (`Places`).
* `NothingLost`: `Spec => []NoMessageLost`, from `AckedApplied`: what is about to be
  acknowledged was applied. A restart of the broker does lose what it holds, its
  messages being transient; the property exempts them (`wiped`).
* `OlderByRequeueOnly`: `Spec => OlderOnlyByRequeue`, an action property. `OrderInv`: a
  message that was never given back is behind all that were delivered before it, in
  the queue, in the channel and in hand. The broker's "oldest ready message" exists
  because the numbers are well-founded (`OldestIs`).

`AccountsProofs` proves of any number of requests and any `IntBound` above 0:

* `TypeCorrect` (`TypeOK`): with `Formed`, which ties where a request is to what it sent,
  what it has looked up and what it was told.
* `TokensAreEarned` (`TokensEarned`): `Earned` is of the account behind a token, not of
  its name at the time, which may change; accounts are only ever added, and keep
  their email and password (`Grows`). A registration is answered with an
  account appended in that step, hence with no other's.
* `SharesAreNamed` (`SharedAsNamed`): between LookupByUsername and ShareDoc the account
  found may be renamed; `Formed` keeps that it bore the name that was looked up.
* `ListsAreFaithful` (`ListsFaithful`): `Seen` (what was counted and read is still
  visible, since nothing is unshared or deleted; a cursor that fails or a document that
  does not decode, either of which the code passes over, is recorded in `short`) and `FullPage`, from `PageFits`: a page
  below `IntBound` is computed without wrapping, and a skip and a limit of the
  documents now there leave at least what they left of those counted.

### The editor pages, the services and the gateway

`EditorsProofs` proves of any number of pages, edits, faults and any capacity of
`Send` (`EditorsAssumption`):

* `TypeCorrect`: `Spec => []TypeOK`, inductive as it stands.
* `EditsStored` and `PagesConverge`: `Spec => []StoredUnlessLost` and
  `Spec => []ConvergedUnlessMissed`. Both speak only of quiet states and so are far
  from inductive. `EditInv` says what holds on the way there: what is broadcast, queued
  or found by a sync is known to the service, and what an open page has is known or on
  its way to the hub (`Told`); a page sends what it has (`OwnSent`); each edit that is
  stored or being streamed an open page has, is to be sent, has missed for a recorded
  reason, or will find in its sync (`Reached`). In a quiet state nothing is on its way,
  which leaves the theorem.

`GatewayProofs` proves of any subset of the four services and of
the gateway's routes, and of any requests, ports, lease, timeouts and bounds
(`ServicesAssumption`, `GatewayAssumption`, `RoutesAssumption`):

* `SvcInv` is the invariant of the services. `MainInOrder`: what is left to a main is
  as its source orders it, so that it registers only once it listens, and closes the
  registry last. `Keepers`: who keeps a lease listens or has listened. `Leases`: a key
  that no process answers for has no more left than the lease less the time since that
  process ended. `Registered`: a process past its Register keeps its key, unless it is
  recorded as lost. `Readable`: the bucket is private only between MakeBucket and
  SetBucketPolicy. From it `AddressesAlive` (`AdvertisedAlive`), `ServersFound`
  (`ServingAdvertised`) and `ImagesShown` (`ImagesReadable`).
* `GatewayInv` adds what is true of a request between two steps: the call it waits for
  is at the service, has been answered or has failed; what it was told agrees with what
  has taken effect; and a service about to close holds no call any more, which is what
  GracefulStop waits for. From it `TypeCorrect` (`TypeOK`), `HonestAnswers`
  (`AnswersHonest`) and `ExplainedFailures` (`FailuresExplained`).

### What is only model-checked

* Liveness: `EventuallyPersisted`, `Teardown`, `DeliveriesEnd`, `EventuallyIndexed` and
  `Answered`. The prover has no rule that turns fairness into progress, and it
  does not reason about ENABLED.
* That each `FairSpec` is the specification proved about, with fairness added, needs no
  proof: the theorems start from `Spec`, which it implies.
* The three claims that are violated, which are counterexamples.

No module has a recursive definition, and no theorem an induction over data. The
copies of `StreamedUnlessMissed` and the gauges are cardinalities, for which the
library's theorems on finite sets serve.

## 5. What is not modelled, and why

* Yjs itself, the text, awareness contents: payloads are opaque.
* The content of queries: SearchDocs, GetUser, GetCollaborators, GetDocState (a stub),
  the titles of a list; and ReindexDoc, a stub. They change nothing. In `Gateway`
  they are calls that may fail like any other.
* Metrics, tracing, CORS, static files, the benchmarks, and the generated messages.
  The generated stubs and handlers are the calls of `Gateway`.
* The size of an image. The gateway accepts up to 10 MB (handler.go:287) and
  doc-service/main.go:82 leaves the receive limit of gRPC at its default, so that a
  large image is refused by the service: one of the errors `Return` allows.
* Two processes of one service, which the discovery allows: the collab service keeps
  its rooms in memory.
* The size of documents, and a request to Elasticsearch that is never answered.
* SCAN may miss or return keys made while it runs; the model takes the keys at its
  start. A key missed is found by the next scan.
* The clock of Redis, which the ids carry, is the clock of the process.
* A restart of Redis, which may lose what its persistence has yet to write.
* The index after DeleteDoc, which sends no message; no route leads to it.
* The time a token lives: any token may have expired.

## 6. Plan

Done: the collab service (`DocStore`, `Snapshotter`, `Hub`, `Collab`), the document
service, the index pipeline and both together, accounts with sharing and lists, the
editor pages, the mains with discovery and the image store, the gateway; all that
section 4 names.

The proofs cover all safety properties of the runs. Next, in this order:

1. `Hub` as an implementation of the hub of `Editors`, whose steps are coarser: the
   read pump and what it hands to are one step there.
2. `RecoveredUnlessTorn` where reads may fail, with a history variable for the clients
   whose read did, as `Editors` has in `missed`.
3. An abstract specification of the cache of the document service, which `DocService`
   implements while calls do not overlap.
