# TLA+ verification of awakari/subscriptions

The service keeps subscriptions: pairs of an interest and the URL that gets its
results. This directory holds TLA+ modules of its core, TLC configurations that
check them on small instances, and proofs checked by TLAPS. Paths such as
`service/service.go` are relative to the repository (`src/` in `PROJECT.json`).

Run, in this directory:

    tlc -workers 2 -config <run>.cfg <module>.tla
    tlapm <module>Proofs.tla

## 1. The system

One Go process, deployed in 1 to 10 replicas (`helm/subscriptions/values.yaml`)
that share a MongoDB collection and a Redis, and talk to three other services.

| component | state | operations | hard behaviour |
|---|---|---|---|
| storage (`storage/storage_mongo.go`) | documents with a unique key (interest, url); live documents, tombstones (`deletedAt`), legacy documents without owner | Create, Read, Update, Delete, lists, counts, ChangeOwner; TTL expiry of tombstones | Create is up to three driver calls and recursion; every call can fail or lose its reply |
| storage cache (`storage/storage_cache.go`) | local cache per replica, shared Redis: entries per record and per page | Read and ListByInterest through `Once`; writes set or drop entries | fills race with writes; local caches of other replicas are told nothing; page chains |
| service (`service/service.go`) | none of its own | Subscribe, Unsubscribe, UnsubscribeByInterest, DeleteExtra, ChangeOwner, Update, lists; RestoreUsagePermits (not called) | storage and usage ledger change one after the other, without a transaction |
| usage permits client (`api/grpc/usage/permits`) | the ledger, in the usage service | GetUsage, Request, Release | a permit can be granted to the user or to the group |
| followers notification (`service.notifyFollowersCount`, `api/grpc/events`) | what the topic was told last | count, publish, retry | goroutines of one interest are not ordered |
| queue consumer (`main.go`, `api/grpc/queue`) | unacknowledged batch | receive, sweep, acknowledge | acknowledgement of failed batches, redelivery, process death on error |
| HTTP API (`api/http`) | none | WebSub subscribe/unsubscribe after a callback challenge, reads | mapping of joined errors to status codes; receivers that never answer |
| gRPC API (`api/grpc/controller.go`) | none | Update, Delete, lists, Count, DeleteExtra, ChangeOwner | contexts end with the handler while goroutines still use them; a request without a filter ends the process |
| client pools (`*/client_pool.go`) | free connections | get, give back | a call holds a connection of a bounded pool; streams outlive the connection they were made of |
| logging, auth, config, start-up | none | wiring | the metrics' gauge writes to a variable of the consumer |

Interactions: the HTTP and gRPC handlers and the queue consumer call the
service, concurrently and on several replicas. The service calls the cache,
which calls the storage, and the permits client. It starts notification
goroutines that count in the storage and publish to the events service.

What makes each part correct:

* storage: at most one live record per key; calls take effect once, at one
  instant, or not at all; a refusal has a reason; calls end.
* service: the ledger counts the live subscriptions, or every difference has a
  cause; limits hold; a sweep of a deleted interest leaves nothing; every change
  is followed by a notification.
* notification: the topic ends up with the right count, or there is a cause.
* consumer: no deleted interest is lost, the queue drains, errors are not hidden.
* cache: a stale entry has a cause and goes away; a sweep over cached pages
  leaves nothing behind that a fresh page would have named.
* APIs: the status of an answer tells what became of the call; calls are answered.

`PROJECT.json` lists all components, modelled or not, and under `hazards` the
places in the code where these properties are at stake.

## 2. Modules

| module | of | role |
|---|---|---|
| `SubRegistry` | `storage.Storage` | abstract: a map from keys to live subscriptions, atomic calls |
| `SubStore` | `storage_mongo.go` | the collection; one action per driver call; refines `SubRegistry` |
| `SubStoreProofs` | | type, answers, refinement, for all constants |
| `SubService` | `service.go` | calls as goroutines, permits, sweeps, crashes |
| `SubServiceProofs` | | type, conservation of permits, limits, the exact ledger, for all constants |
| `SubSweepProofs` | | complete sweeps that descend, changes that are told, for all constants |
| `MCSubService` | | constants of the `service_*` runs |
| `FollowersNotify` | `service.go`, `events/publisher.go` | one interest's notifications |
| `FollowersNotifyProofs` | | type, a topic behind has a reason, own change counted, for all constants |
| `InterestQueue` | `main.go`, `queue/service.go` | the consumers of all replicas |
| `InterestQueueProofs` | | type, no message lost, last sweep succeeded, for all constants |
| `RecordCache` | `storage_cache.go` | both cache levels, for one record |
| `RecordCacheProofs` | | type, stale entries explained, for all constants |
| `PageCache` | `storage_cache.go`, `service.go` | both cache levels, for the pages of one interest, and the sweep that goes through them |
| `PageCacheProofs` | | type, complete sweeps, stale pages explained, for all constants |
| `MCPageCache` | | symmetry of the `pages*` runs |
| `Api` | `api/http`, `api/grpc`, `service.go`, `usage/permits` | the calls of one process from the request to its status, with the pool of connections and the loop of DeleteExtra |
| `ApiProofs` | | type, balance of the pool, what answers tell, what trims leave, for all constants |

`SubStore` and `SubRegistry` are composed by refinement: `SubStore` instantiates
the registry with `reg <- LiveView`, `req <- req` and the answers of its callers,
and `ImplementsRegistry` is the registry's specification under this mapping.
Tombstones, retries and expiry are stuttering steps of the registry. `SubService`
uses the storage through exactly that contract (a creation succeeds on a free
key only, may be refused anyway, a deletion matches a live record of the owner
or a legacy one), so that what is shown of it holds over `SubStore`. It lists from
the storage; `PageCache` composes the sweep with the cached pages it is answered in
production, and `Api` the calls with the APIs above them.

### How state and actions correspond to the code

* `SubStore`: `coll` is the collection, for each key absent, live (owner, error
  counter) or a tombstone; `call[c].at` is the driver call that caller c is about
  to make: `InsertOne` and `DeleteOne` are those of `Create`, `call[c].nested`
  says that Create called itself (its error is decoded twice on the way out),
  `UpdateOne` and `UpdateMany` those of `Delete`, `Update` and `ChangeOwner`.
  `Applied` loses replies, `Fail` fails calls, `Expire` is the TTL monitor on
  `deletedAt`. `seen` is history: what a caller's key went through meanwhile.
* `SubService`: `call[c]` is the goroutine of a call between two remote calls:
  the step it is about to make, the items of its page or list that are left
  (`work`), the permit in hand (`acct`), the interest and the cursor of a sweep.
  `net` is the ledger of the usage service. `paid`, `leaked`, `excess`, `untold`
  and `resub` are history: who was charged for a record, permits nothing stands
  for, permits released for something still there, interests that a call saw change
  and that no notification was started for since, records a sweep may have missed
  legitimately. A creation that was applied without a reply is a change no call saw:
  the service ends with the error and tells nobody (`service.go:76`). The options
  of the page queries are shared by all goroutines and written without a lock
  (`optsReadPage.SetLimit`); `Pages` lets a query run with any limit in use.
* `FollowersNotify`: `live` and `told` are the followers count in the storage and
  on the topic; `run[g]` is a call and its goroutine, from the change to the end
  of the retries.
* `InterestQueue`: `held` and `acks` are the external queue; `at`, `batch`,
  `done`, `err` are the locals of `ReceiveMessages` and of the function `consume`
  of every replica. `err` is overwritten by every sweep, as in `main.go:218`. When
  the loop ended (`at = "returned"`) `err` is the variable `err` of `main`, which the
  gauge of the metrics assigns as well (`Scrape`, `main.go:120`) until the goroutine
  looks at it (`Check`). `StartFails` is any panic of the start of a process.
  Acknowledgements outlive the stream they were sent on: they arrive (`AckArrives`) or are
  lost (`AckLost`), also while the replica has connected again.
* `RecordCache`: `entry` has the entries of Redis and of every local cache,
  `flight` the read of a replica that goes beyond the local cache
  (`Cache.Once` joins concurrent ones), `write` the writes between their storage
  call and their last cache call. Contents are numbers of writes.
* `PageCache`: `entry[x][c]` is the page that cache x (Redis or a replica) has for
  the cursor c, a function from urls to contents; `Empty` is the entry without bytes
  that a failed load leaves (`storage_cache.go:201` drops the error). `call[p]` is a
  list, a write with its `invalidatePages`, or a sweep: a sweep lists (`from` is its
  cursor), deletes what the page named (`todo`), and every deletion walks the pages
  itself. `Walk`, `Keep`, `Drop`, `DropRedis` are the steps of one round of
  `invalidatePages`. `since` tells which contents name the present owner, since a
  sweep deletes in the name of the owner it read. `excused` and `misled` are history:
  stale pages that no walk has to drop, and sweeps that were told something else than
  the storage would have told them. Concurrent lists of one key on one replica join
  one flight, whose first caller is the one modelled.
* `Api`: `call[c].at` is the remote call or the wait that call c is at; `errs` is the
  set of sentinel errors that `errors.Is` finds in its error, so that `errors.Join` is
  a union, and `Status` evaluates the handlers' switch statements on it. `opts` is the
  limit in `optsReadPage`, `free` the pool of connections to the usage service. `did`,
  `permit`, `excused`, `kept`, `misled` are history. ListByInterest stands for a call
  that misses the cache: a hit does not get to the options. Limits are modulo `Width`.

## 3. Runs

| run | instance | shows |
|---|---|---|
| `store_calls` (`SubStore.cfg`) | 2 callers, 1 key, failures, legacy, expiry | type, explained refusals, refinement, retries do not starve everybody |
| `store_conflict` | as above, one owner | violation: conflict on a key nobody holds |
| `service_faults` | 2 callers, 2 urls, pages of 1 and 2, group account, legacy record, a move, all failures | permits conserved, limits, complete sweeps, changes told |
| `service_clean` | 2 callers, 1 interest, 3 urls, pages of 1 and 2, nothing fails | ledger exact, complete sweeps that descend, calls end under weak fairness |
| `service_group` | group permits | violation: the release does not name the payer |
| `notify` | 3 calls, 3 changes, all failures | outdated topic explained, goroutines end |
| `queue` | 2 replicas, 2 interests, batches of 2, 2 faults | nothing lost, everything swept or failed, queue drains |
| `cache` | 2 replicas, 2 writes at once, all failures | stale entries explained, fresh in the end |
| `pages` | 2 calls of any kind, 2 replicas, 2 urls, limits 1 and 2, one expiration, failure or change of owner | stale pages explained, complete sweeps |
| `pages_created` | empty caches, 3 calls one after the other, nothing fails | violation: a sweep is answered a page without the created subscription |
| `api` | 2 calls, 1 connection, 2 users, 2 subscriptions, limits 0 and 1 | no connection lost, answers tell, trims leave the limit, answers come |
| `api_extra` | 2 calls, 4 subscriptions | violation: a trim leaves more than its limit |

The bounds are small because the components are symmetric in their keys: a race
in `Create` is about one key, and two callers give every pair of overlapping calls;
what is proved in section 4 holds for any number of them.
Two urls make a sweep with pages of one list twice and meet subscriptions created behind
and before its cursor; three urls make it go on while others still create. `PageSizes`
holds two limits, so that a list of the sweep may run with that of another caller's list
(`storage_mongo.go:518` and `577`), in the middle of a sweep as well. `MaxDrift` bounds how far the ledger may be off before no new call
starts; a drift of one already has every cause. Two interests in a batch of two
are what it takes for an error to be overwritten, and two faults let a crash
follow a failed sweep. One record suffices for the cache, whose entries are
independent; two writes on top of a record from before give all overlaps of
Create, Update, Delete and ChangeOwner that concern one entry. Two urls and limits
of 1 and 2 give chains of up to three pages (the last one empty) and pages that
were loaded with another limit than the sweep's; the instance starts on every Redis
that such loads can have left, so that `MaxCalls = 2` calls are all overlapping ones.
In `api` one connection and two calls make one wait for the other; a `Width` of 8
lets doubling wrap to 0 after three rounds, as 2^32 does after 32. `MaxErrs`,
`MaxChanges`, `MaxWrites`, `MaxFaults`, `MaxEvents`, `MaxCalls` bound counters in the
guards.

`CallsEnd` allows for creations ahead of a sweep's cursor that never end: the sweep lists
until a page is empty (`service.go:115`). With the finitely many urls of an instance a
sweep meets only so many of them and ends in any case, so that what the run adds is that a
sweep does not stop in between or turn in circles; `SweepDescends` bounds it by what there
is to delete, in the run and, as a theorem, for every set of urls.

Symmetry is used for callers and replicas, and only in runs without liveness;
where callers or interests are interchangeable, the liveness properties of `Api` and
`InterestQueue` follow one of them (`Followed`).
`CHECK_DEADLOCK FALSE` stands where callers may stop or bounds use up all work.

### Fairness

Weak fairness of a call's own steps: goroutines are scheduled, and a remote call
returns (driver, gRPC and HTTP clients end a call with a reply or an error).
Nothing is assumed of the start of calls, of failures, crashes, or of who wins a
race. Retries end because `backoff.NewExponentialBackOff` has a limit on its
elapsed time. In `InterestQueue` the deployment restarts a process that died, and
strong fairness stands for a queue that goes on offering what it holds; faults
are finitely many. In `RecordCache` entries expire (`DB_CACHE_TTL`). In `Api` a wait
for a connection is strongly fair: the pool is a channel, which serves those that
wait in turn. Nothing is assumed of receivers: they are asked by a client without a
timeout (`main.go:133`) on a context that does not end with the request (a gin
context has no `Done`), so that a subscription may wait for its challenge for ever.

### What the violation runs show

* `store_conflict`: `Create` answers `ErrConflict` when somebody else removed the
  tombstone it met, although the key is free (`storage_mongo.go:301`).
* `service_group`: a permit granted to the group is released on the user
  (`service.go:106` and `125`), against the contract in
  `usage/permits/service.go:28`.
* `pages_created`: from empty caches, a list of an interest without subscriptions caches
  an empty first page; a creation completes, and its `invalidatePages` ends at that page
  without dropping it (`storage_cache.go:274`). Until it expires (an hour by default) the
  interest has no subscription for `ListByInterest`: the `UnsubscribeByInterest` that
  follows is answered the empty page, ends with success and leaves the subscription.
* `api_extra`: the limit of another list gets between the `SetLimit` and the `Find`
  of a trim (`storage_mongo.go:577`), which takes the short page for the last
  (`service.go:196`) and leaves more than its limit.

Three things that the models state as the code has them, and that the documents say
differently: of two creations over one tombstone, the one that removed it may retry into
the record of the other; its conflict is decoded twice (`storage_mongo.go:308`) and is
answered 500, instead of the 409 of `handler.go:59` (`InternalExplained` of `SubStore` has
it as a cause); a read that finds nothing is answered 500, since `handler.go:269` looks
for the storage's error and the service returns its own, while the API documents 404
(`handler.go:89`); and a subscription is answered 202 (`handler.go:169`), not 201
(`handler.go:54`). A record that one replica deleted is read from the local cache of
another one until it expires, and one that is cached is answered to every user, whose
name is not part of its key (`storage_cache.go:289`). `StaleRecordExplained` of
`RecordCache` has the former as a cause, `Found` of `Api` lets a read be answered either
way.

## 4. Proofs

Every safety invariant of a passing run is a theorem, and so are the refinement and the
action property `SweepDescends`. The
theorems hold for every number of callers, keys, owners, accounts, replicas and
interests, from the assumptions named in the modules: keys and urls finite where they
are counted or walked, calls and callers finite where permits and connections are, urls
and interests ordered as numbers; the markers (nobody, legacy, no entry, no bytes) differ
from each other and from what they stand beside (`EntryAssumption` of `PageCache`: a page
is neither of its two markers), and Redis is not a replica. In `RecordCache` there is at
least one replica. One theorem, `LedgerIsExact`, has a hypothesis of its own, on constants:
it states what holds of the service where nothing fails, as the run `service_clean` does,
which satisfies it.

**`SubStoreProofs`**

* `TypeCorrect`: `TypeOK` is inductive as it stands: it includes what a caller's step
  says of its request.
* `DuplicatesExplained`, `ConflictsExplained`, `InternalsExplained`: refusals have their
  reasons (`DuplicateExplained`, `ConflictExplained`, `InternalExplained`). None of the
  three is inductive, as each speaks of one step or one answer. `ExplainedInv`
  (`AnswersExplained`) ties the history `seen` to every step of the caller, and says that
  only creations conflict; every action is a case.
* `Refinement`: `Spec => ImplementsRegistry`: the initial states map, and every action
  maps to an action of the registry (the driver call that takes effect) or to a stutter
  (tombstones, retries, expiry), given `TypeOK`.

**`SubServiceProofs`, `SubSweepProofs`**

* `LedgerConserved`: the permits of each account are those of live records, those in a
  caller's hand and the leaked ones, less the excess. The inductive invariant is
  `TypeOK /\ Conservation`: type correctness ties the permit in hand to the step of the
  call. The proof counts: adding or removing one key or one caller changes a cardinality
  by one, stated as lemmas over an account's books, and one step per action names the
  books it changes.
* `QuotaRespected`: the ledger of an account never exceeds the limit (`Granted`, an
  invariant of its own, since only `Request` raises it); with the conservation of
  permits, and leaks and permits in hand not being negative, the live records charged to
  the account are bounded.
* `LedgerIsExact` assumes `Faultless`: nothing fails, no owner changes, no record is
  legacy, permits are granted on the user. It follows from `LedgerConserved` once
  `Faithful` and `CallsFaithful` are shown: nothing leaks, whatever is live is charged to
  its owner, what a call works on has an owner, and a creation has its permit from him.
* `SweepsComplete` needs no such hypothesis. `SweepComplete` speaks of the records behind
  the cursor only; `SweepFits` adds what the page knows: no two items of one key, the
  owner of every item as it is in the store unless it was renewed, and the first item
  gone when its permit is released. `Before` is a total order, so that the work has one
  first item. What others do to the store during a sweep is `Evolves`: a record stays, goes, or was
  renewed.
* `SweepsDescend`: the sweep takes what is created ahead of its cursor while it runs, so
  that nothing bounds its length once and for all. `SweepDescends` says what does bound it:
  what is on its page and ahead of its cursor (`Remaining`) never grows by a step of its
  own, and shrinks unless the step is the next one of a round (`StepsLeft`). It follows from
  `SweepFits`, by which the page is not ahead of the cursor.
* `ChangesAreTold` has no hypothesis either: whatever fails. The call that is going to
  tell of a change needs a first item of that interest (`Tells`), which takes the same
  invariant of sweeps and that Subscribe, which deletes nothing, has one item.

**`InterestQueueProofs`**

* `NothingLost` and `WaitsAfterSuccess` (and `TypeCorrect`): `NotLost` is not inductive by
  itself: `Steady` adds, for every consumer, that the messages it went through were
  tried, that its acknowledgements on their way name tried ones only, and that the error
  it kept is that of the last sweep. `OneConsumer` reduces a step to the consumer that
  takes it, `LeavesSteady` covers every end of a stream or process at once.

**`FollowersNotifyProofs`**

* `BehindHasReason` and `OwnChangeCounted` (and `TypeCorrect`): that nobody is busy says
  nothing about a topic that was told an old count, unless counts have versions.
  `Holds` and `TopicOK` say that whatever stands for a version is the count of exactly
  that version, and that while the topic was not told of the last one and nothing was
  dropped or overtaken, a goroutine is under way that has not counted yet or has the
  last count.

**`RecordCacheProofs`**

* `StaleHasReason` (and `TypeCorrect`): a write that is about to replace a stale entry
  explains it only if it puts something else (`Accounted`); else nobody is left to
  replace what it put. That it does takes the order of the writes, `PastOnly`: no entry,
  flight or call is ahead of the storage.

**`PageCacheProofs`**

* `TypeCorrect` and `SweepsComplete`: the invariant has that every page follows its
  cursor, in the caches and in the hands of calls, and that what a sweep counts on is on
  the page it deletes or ahead of its cursor (`Ahead`). `NothingSkipped` says that a page,
  of whatever limit, leaves out only what comes after its last url.
* `StaleHasReason`: which pages a walk will drop is the recursive function `Chain`. Cursors
  only grow along the chain, so that the function exists (`ChainFunction`, by the least
  cursor from which it does not) and can be unfolded step by step (`ChainUnfold`); it
  depends on the entries on it only (`ChainFrame`). `ExplainStep` then reduces every action
  to what it leaves: each page that becomes stale, or that a walk loses, is excused or
  doomed by the step.

**`ApiProofs`**

* `TypeCorrect`, `PoolBalanced` and `AnswersTold`: `AnswersTell` speaks of answers only. `Consistent`
  carries it through a call: nothing happened before the first write, a call on its way
  to a release holds a permit, a deletion that is under way has no error, and a write
  that was taken without a reply is excused. `Takes`, `GivesBack` and `Stays` are the
  steps by what they do to the pool; every action is one of them, its call's next record
  well formed. The switches of the handlers are then gone through case by case: no
  failure gets the status of a success (`FailureTold`), and an error of the service, the
  storage or the permits client gets that of a failure (`QuietFails`).
* `TrimsLeaveLimit`: `TrimFits` says of a trim that lists that what its user had all along
  is his, and of one that deletes that, without what is left to be deleted, no more than
  the limit is left. A page that is not full is all there is (`NotFull`), its first n are
  at most n (`LimitedSize`, as their numbers of predecessors differ), and what another call deletes or
  gives away only makes that less (`AtMostLess`, `TrimLess`). A limit of 0 never gets that
  far: doubling leaves it 0, and no page is shorter.

Not provable here and left to TLC: the liveness properties (`SomeCallIsAnswered`, `CallsEnd`,
`RunsEnd`, `EventuallySwept`, `EventuallyAcknowledged`, `EventuallyFresh`,
`AnswersCome`), which need fairness and ENABLED.

## 5. What is not modelled

* `SubService` lists from the storage, whose pages `PageCache` replaces by cached
  ones: `SweepComplete` says that the loop of the sweep is right,
  `CachedSweepComplete` what cached pages add. `PageCache` has one owner at a time and
  no permits, `SubService` no caches.
* Reads and counts change nothing; they appear where a modelled call uses them, and
  as calls of `Api`, with their status and without the contents of their answer.
* The MongoDB cursor of a page is read in one step. A page longer than a driver's
  batch could see writes between two batches.
* The pools of the events and queue clients: their streams give the connection back
  at once, so that nothing waits for them longer than for the service itself.
* The auth service and what its tokens mean; `Api` has the outcomes of Authorize.
* Logging decorators, configuration, shutdown: pass-through or pure I/O.
* `RestoreUsagePermits`, and `ListAll` and `GetUsage` that serve only it: nothing
  calls it (its call in `main.go` is commented out). It compares a list of at most
  100 records with a count taken later, and would be wrong with more records or
  while subscriptions change.
* The events, usage and queue services, MongoDB, Redis and the cache library are
  external; they are modelled by what the code here relies on.

## 6. Plan

1. Refinements: the contract of the storage that `SubService` uses as a theorem (its store
   implements the abstract map of `SubRegistry`, as that of `SubStore` does), and the calls
   of `Api` as calls of `SubService`.
2. `UsageRestore`, should RestoreUsagePermits be put to use.
