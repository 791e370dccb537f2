# Verification of gofish

gofish is a Go client library for Redfish and Swordfish services: the management
controllers of servers and storage. A program connects an `APIClient`, reads the service
root, walks from there over collections of resources, edits resources and writes them
back, and runs actions. This directory holds TLA+ models of the parts of the library that
have behaviour beyond decoding JSON, the TLC runs that check them, and proofs for TLAPS.

Controllers are slow, accept few requests at a time, keep few sessions, and fail halfway.
What the library has to get right is therefore mostly concurrency and failure: who waits
for whom, what happens when the context dies, what a caller learns when something failed,
and what is left behind.

## Inventory

| Part | Source | State | Operations | Hard |
| --- | --- | --- | --- | --- |
| Request pipeline | `client.go`, `common/http.go` | semaphore `sem`, dump writer, pinned `CertHash`, auth | every HTTP verb; `SetDumpWriter` | permits on every path; who closes the body; cancellation in the queue |
| Member pool | `common/collection.go` | limiter, wait group, indexed results | `CollectResourceCollection`, `GetCollectionObjects` | goroutines and a synchronous remainder; order; each member once |
| Object lists | `common/entity.go` | result channel | `GetObjects` | close against send, reader against senders |
| Collection pages | `common/collection.go` | recursion on the next link | `collectMembers`, `$expand` fallback | partial listings, circles, retries |
| Query options | `common/odata.go` | client defaults | `BuildQueryGroup`, `BuildQuery` | shared slices |
| Sessions | `client.go`, `redfish/session.go`, `serviceroot.go` | shared auth object, cached context | `Connect*`, `WithContext`, `CloneWithSession`, `Logout` | sessions lost track of, dead tokens |
| Task monitor | `redfish/task_monitor.go` | monitor URI, Retry-After | `PostWithTask`, `PostObject`, `WaitForTaskMonitor*` | timers, a channel, a context and a service |
| Entity update | `common/entity.go`, `redfish/logservice.go` | raw data, fields, ETag | `Update`, `UpdateFromRawData`, `ClearLog` | other writers, stale copies, retries |
| Settings updates | `redfish/bios.go`, `redfish/computersystem.go` | raw data of one resource, ETag of another | `UpdateBiosAttributes*`, `UpdateBootAttributes*` | check and use of two resources |
| Resource types | `redfish/`, `swordfish/`, `serviceroot.go` | links, targets, counts, writable fields, raw data | accessors, `Update`, actions | around 200 types written by hand to the same pattern |
| Subscriptions, accounts | `redfish/eventdestination.go`, `redfish/accountservice.go` | objects at the service | create, delete | created but not known of |
| Vendor extensions | `oem/dell/idrac_monitor.go`, `oem/zt/eventservice.go`, the rest of `oem/` | retry counters | `ExecuteWithRetry`, `Subscribe`, `SubmitTestEvent` | retries of what took effect, retries against the context |
| Enumerations, data types, test client | `common/` | none | none | decoding of links only |

How they interact: every operation ends in the request pipeline. `GetCollectionObjects`
first lists the pages, one request at a time, then resolves the members on the pool, at
most three at once, each fetch a call through the pipeline, which admits
`MaxConcurrentRequests` exchanges of the whole client (one by default). Contexts run
through all of them. Copies of a client made by `WithContext` share its semaphore, auth
object and HTTP client. Entities keep the client they were read with; those that came inside
another one have none.

The retry loops of the vendor extensions wrap whole operations, a GET and a write under its
ETag included. Every resource type rests on the same three helpers: links decode into
private fields, accessors hand them to `GetObject`, `GetObjects` or `GetCollectionObjects`,
and `Update` compares the exported fields with the document they were decoded from.

What makes each part correct is stated with its module below; `PROJECT.json` lists the
hazards at their lines, with the properties that cover them or the reason why none does.

## Modules

| Module | Models | Checked by | Proofs |
| --- | --- | --- | --- |
| `BoundedSlots` | a channel used as a counting semaphore: the abstract specification | as a property of the next ones | in `CollectPool_proofs` |
| `APIClient` | one action per step of a request, on any number of goroutines | `client_pipeline` | `APIClient_proofs` |
| `CollectPool` | the loop of `CollectResourceCollection`, its goroutines, and `get` and the assembly of `GetCollectionObjects` | within `objects_channel` | `CollectPool_proofs` |
| `CollectionFetch` | extends `CollectPool` by an instance of `APIClient`: a member that is fetching is a request in the pipeline | `collection_fetch` | in `CollectPool_proofs` |
| `ObjectsFetch` | extends `CollectPool` by the channel of `GetObjects` | `objects_channel` | in `CollectPool_proofs` |
| `Pagination` | `collectMembersWithContext` | `pages`, `fallback_pages` | `Pagination_proofs` |
| `SessionLifecycle` | clients, auth objects and the sessions of the service | `sessions` | `SessionLifecycle_proofs` |
| `TaskMonitor` | a long-running operation from POST to result | `task_monitor` | `TaskMonitor_proofs` |
| `EntityUpdate` | read, edit, `Update`, `ClearLog` of one entity beside other writers | `entity_update`, `entity_claims` | `EntityUpdate_proofs` |
| `ResourceTables` | the form in which a resource type is written down | with `Resources` | |
| `ServiceTables`, `EquipmentTables`, `SystemTables`, `FabricTables`, `StorageTables`, `DetailTables`, `VendorTables` | 181 types: their structs, what `UnmarshalJSON` decodes, and their methods | with `Resources` | |
| `Resources` | an application with a resource of any of these types in its hands | `resources`, `resource_claims` | `Resources_proofs` |
| `ServiceCall` | one operation at a service whose answers may be lost | with the next ones | |
| `Subscriptions`, `FreshTagWrites` | event subscriptions and test events; BIOS and boot settings and new accounts | with the next one | |
| `RetryLoop` | `ExecuteWithRetry` of the iDRAC monitor and the loop of ZT's `SubmitTestEvent` | with the next one | |
| `RetriedOperations` | these operations in these loops, beside other clients | `retried_operations` | `RetriedOperations_proofs` |

The `MC_` modules name the instance a run checks; the values are in the `.cfg` files.
An operator whose comment begins with "Deviation" is a deliberately wrong variant of the
one that follows it. Nothing uses it: putting it in the place of the right one must break
the property that `PROJECT.json` names under `mutants`, which shows that the property
depends on that line of code.

### APIClient

`pc[r]` is where call `r` is in `runRawRequestWithHeadersWithContext`: building, `queued`
at `acquireSemaphore`, `doing` inside `HTTPClient.Do`, `answered` before
`releaseSemaphore`, `inspecting` after it, `draining` an error body. `sem` counts the
tokens in the channel. `Inspect` is everything after the release, in the code's order:
error of `Do`, certificate, dump, status. `body[r]` follows the network body until it is
closed by one of these paths, by the DELETE wrapper, or by the caller's deferred cleanup.
net/http is external: an exchange brings a response while the context lives, or an error.

`PermitsConserved`, `BodyDiscipline`, `PinnedPeer` and `ImplementsSlots` are safety;
`CancelledCallEnds` is liveness. Fairness is weak fairness of a goroutine's own steps,
and of the steps that a dead context ends (net/http returns when the context of a request
is done). Nothing is assumed of the service.

### CollectPool and ObjectsFetch

The calling goroutine is `dpc` with the member `next`; `thread[i]` is the goroutine of
member `i`. `SelectSlot` and `SelectDone` are the two branches of the select, either of
which Go may take when both are ready. After a cancellation `SyncCall`, `SyncReturn` and
`SyncEnd` resolve the rest on the caller's own goroutine. `kind[i]` is what `get` finds: a
link to fetch, an expanded member, an expanded member with errors, a member without id or
link, or nil. `FreeSlot` precedes `Done`, as `<-limiter` precedes the deferred `wg.Done`.

`CountersExact` (proved) ties the limiter and the wait group to the goroutines, `FetchBound` states
the real bound (one more than the limiter once the context is dead), `EveryMemberOnce`
and `OrderedOutcome` say what the caller gets, `NoLateResult` that nothing changes it
afterwards.

`ObjectsFetch` is the pool with its other user, `GetObjects`, whose results go over a
channel. A send and its receive are one step there since the channel has no buffer. Its
`CancelEndsAll` is the liveness of both users: with a dead context the call returns and no
goroutine stays. It assumes weak fairness of the goroutines and that fetches end with
their context. `NeverStuck` is freedom from deadlock, with the context alive too: it names the
dispatcher, goroutine, send, receive or fetch that can take its next step. It is written with the
guards of the actions (`DispatcherMoves`, `MemberMoves`) instead of ENABLED, so that it can be proved.

### CollectionFetch

The requests of the members and `Others`, made elsewhere on the client, share one
pipeline. A step is one of the pool alone (`LocalStep`), one of the pipeline alone, the beginning or
end of a fetch, which is one of both, or the death of the context of both (`CancelFetches`).
`ImplementsPool` checks that with the pipeline as it is, the pool is the one of
`CollectPool`, its fairness included: that is where `CollectPool`'s assumption about
fetches comes from. `BothBounds` and `NothingLeftBehind` relate the two components, and
`NoCircle` excludes a circle of slots and permits: the call, a fetch of it, or a request that holds
a permit it waits for has a step to take. `AnsweredCallReturns` is the liveness that comes
of it, for a service that answers.

### Pagination

The recursion is a loop, which is the same since every level appends what the deeper ones
return to its own page. The service decides once and for all which pages answer which
query and where the next links lead, also in a circle; a `flaky` one may fail at any
request besides. `PartialIsReported` says what the caller has with and without an error,
`FallbackCompletes` that a collection whose first page is only to be had without `$expand` is
listed in full, `NoWastedRequest` counts what was asked for, and
`CancelEndsListing` needs only that the program runs on. What happens on later pages is
`FallbackIsForTheFirstQuery`, below.

### SessionLifecycle

A session is a number. An auth object is named after the client it was made for, by
`Connect` in any form or by `CloneWithSession`; a copy by `WithContext` points to that of its
original, and `Logout` clears the one it has when the DELETE succeeded. `held` are the sessions
the program has as values, from elsewhere or from `GetSession`: it may hand each to any number
of Connects, whose clients have an auth object each. So `NoDeadToken` is about the client
that logged out and its copies, and about every client when the session was never a value;
a second client connected with the same session goes on sending the dead token, which the
property names as its exception (without that exception TLC finds it violated).
Requests and replies
may be lost unless `reliable` was chosen at the start, which is what `SessionsCleanedUp`
needs: without it a session may be impossible to delete. Its fairness, that the program
logs out of every client it holds, is the `defer c.Logout()` of the README and examples.

### TaskMonitor

Time is kept as what is left of each delay, and `Tick` takes one off all of them. `embargo`
is what is left of the delay the service asked for and is compared with what the code
waits for, which it computes from another moment and in another form (`NoEarlyPoll`).
A reader of the channel may go away, after which the wait cannot be ended: the send does
not look at the context. `CancelEndsWait` says that this is the only way, and assumes
nothing of the timers.

### EntityUpdate

`rawData`, `fields` and `etag` are the entity's, `resource` is the service's, with a
version as its ETag. The ETags of the log's entries are numbered apart from those of the
resource, so that one in the wrong place is seen. A service that gets an If-Match refuses
any other version, as RFC 9110 has it. `IfMatch` is `Headers()`, `Changed` the comparison
of `getPatchPayloadFromUpdate`, which the model keeps at the level of top-level fields.

### ResourceTables, the tables and Resources

The library's bulk is some hundred types written to one pattern, so there is one machine
and a table per type. `ResourceTables` defines the vocabulary: a type is its exported
properties and counts, the place of the document each private field is decoded from, by the
shape of the field, and for each method what it follows (`Get`, `Objects`, `Members`,
`GetWhen` ...), posts to (`Post`, `Reset`) or may send (`Patch`). The tables name Go fields
on one side and JSON paths on the other, exactly as the struct tags and assignments of
`UnmarshalJSON` do, so that a field filled from the wrong place, an accessor that tests one
link and follows another, or a count of the wrong list stands in them as it is in the code.

`Resources` decodes a document (`Open`), follows links, learns reset types from an
ActionInfo (`LearnTypes`, the getter with a side effect), runs actions (`Act`), edits
(`Edit`) and commits (`Update`). `doc` is the set of places that hold something, `edited`
what the caller changed, `learnt` what methods of the library changed on their own, and
`last` the call whose result the caller has not looked at yet. The properties relate the
three hand-written parts of a type: `EveryLinkHasItsReader` and `CountsFollowLists` the
decoding with the struct and the methods, `SilentMeansAbsent` what a method tests with what
it follows, `ActionsAreOffered` the targets with the actions, `RefusalIsTheCallers` and
`PatchIsTheEdits` the document that was kept with the methods that write exported
properties.

These properties do not hold of every type. What breaks them in the code is listed in the
constants `Unread`, `Shadowed`, `Shared`, `Crossed`, `Uncounted`, `Unkept`, `Drifting` and `Parts`,
whose values in `MC_Resources` are the exceptions, by type; everything not named there is
checked. Where a comment of the repository claims what an exception gives up, `Resources` states
the claim without the exception: `AccessorsFollowTheirOwn` and `ActionsAreOwn` for `Crossed`,
`CountsAreGiven` for `Uncounted` and `UpdateCommitsItsList` for `Unkept`, `Drifting` and `Parts`. The
run `resource_claims` finds each of them violated for each type it is claimed of (see Disagreements). `Unread` are links that are decoded and that no method returns, harmless but of no
use. Three likely mistakes break no property: `MemoryPFA` and `RADIUS` of Supermicro list
`AlertID` and `RadiusServerIP`, names no property of theirs has, and so refuse an edit of `AlertId` and
`RadiusServer`; and `GetUpdateService` of Supermicro and AMI decodes with the promoted `UnmarshalJSON`
of the standard type, which leaves the vendor's links and targets empty, as in the document with nothing.

`Parts` are the types of which another resource holds values in an exported field: the power supplies of a
`Power`, the fans of a `Thermal`, the LDAP provider of an account service. Only the resource that was
asked for is given the client, so that such a part, opened with `client` false, cannot send anything: its
accessors and actions panic, which is an error here, and its `Update` returns the recovered panic. Where a
part is fetched by itself it has a client like any other, and both are considered. A vendor's type is
made from a standard resource and keeps the client of that one; its table has what it adds.

### ServiceCall, Subscriptions, FreshTagWrites, RetryLoop, RetriedOperations

`ServiceCall` is what an operation is to its caller: `res` is nil, an error
`isRetryableError` takes for worth a retry, or another one. `took` counts how often it took
effect at the service, `lost` how often of these the answer never arrived, and `unusable`
how often it could not be used: a Location that does not parse, an account that does not
decode, a status other than 202. `Subscriptions` adds the subscriptions at the service and the
links the application has, `FreshTagWrites` the object that is written, its version and the
ETag the attempt fetched, and what other clients wrote since (`unseen`).

`RetryLoop` is both loops: the iDRAC one repeats at once and only after some errors, with a
health check that only looks at the Manager; the ZT one waits and repeats after any error
of the client. `OutcomeIsAccounted` says that what is returned is what happened, but for
lost and useless answers, with the exceptions where nothing was asked for. `SettingsTaken`
speaks of a success: every attribute asked for is in the settings object, unless another
client has written it since, or it did not differ when the application read the resource.
`OthersKept` is the point of the GET before the write. `EffectsBounded` says that an operation that
fails after it took effect, and is tried again, does not take effect oftener than it may be tried.
`DeadContextEnds` is liveness: weak
fairness of the loop, of the call and of its return, and of the operation once its context
is done. Nothing is assumed of the service. That the operation's context is the loop's is assumed
of the application: `ExecuteWithRetry` takes a `func() error` (`idrac_monitor.go:70`), and one
that waits on another context keeps the loop waiting too.

A Location that does not parse comes back from `CreateEventDestination` as it is, together with the
error (`eventdestination.go:655-662`). `CreateSubscription` takes the case of a caller that
looks at the error and so has no link.

## Runs and bounds

| Run | Instance | Distinct states |
| --- | --- | --- |
| `client_pipeline` | 2 calls, MaxConcurrentRequests 0, 2 certificates | 147 thousand |
| `objects_channel` | 3 members of all five kinds, limiter 2, with and without the channel | 86 thousand |
| `collection_fetch` | 2 members, limiter 1, 1 permit, 1 other request | 42 thousand |
| `pages` | 3 pages, cut off after 6 requests | 599 thousand |
| `sessions` | 3 clients, 2 sessions, one of which may be made elsewhere | 277 thousand |
| `task_monitor` | 3 polls, delays up to 2 ticks | 24 thousand |
| `entity_update` | 2 fields, 2 writes of the resource, 2 of the log | 3.8 million |
| `resources` | 181 types, 2 edits | 175 thousand |
| `retried_operations` | up to 2 retries, 2 attributes of which 1 is ordered, 2 values, 2 foreign writes | 403 thousand |
| `entity_claims` | as `entity_update` | violation, below |
| `fallback_pages` | 2 pages | violation, below |
| `resource_claims` | 28 types with 30 claims, 1 edit | violation, below |

The limiter of the code has three slots; the runs have fewer slots than members, which is
what matters: a full limiter with members waiting, and a goroutine left over when the
context dies. The permits of the client are fewer than the requests for the same reason,
and zero is the value that the code corrects. The proofs cover every size. Three pages
allow a first, a middle and a last page and circles of each length; `RequestBound` cuts
off circular listings while the context lives, six requests being the most that three
pages need, and `Init` varies which pages answer `$expand` only where the caller asks for it. Two sessions let one client have one while another loses or deletes its own,
and three clients add a copy that shares an auth object. `WriteBound` leaves room for an
update, a foreign write and a refused second update.

`resources` has the real types, not a small instance of them; what is bounded is the
documents: with everything, with nothing, with one thing, and with all but one thing. The
code treats each field by itself, with at most one other (a fallback, a list of values),
so that a field alone and a field missing show each of its branches. Two edits are one that
`Update` lists and one that it does not, or two of either. Edits are made to the document that
has everything, or after a method has set a property, and links are followed and actions
without a side effect run on a resource
without edits: neither looks at the other. The guards of `Open`, `Follow`, `Act` and `Edit`
name these bounds.

In `retried_operations` the initial states are those of `RetriedOperations` that differ in something
the operation looks at (`MCInit`): subscriptions have no attributes, the values of an
attribute are alike, and an operation that is never called may be any. Two retries give a
first, a middle and a last attempt, and two foreign writes one before and one after an
attempt.

CHECK_DEADLOCK is FALSE in every run: a call, a listing, an operation or a program ends,
and then nothing is left to do.

## Disagreements found

`entity_claims` and `resource_claims` look at several claims at once. Their property says that one of
them holds, so that its violation is a behaviour in which every one of them fails:
`EntityClaimHolds` in a single state, `ResourceClaimHolds` over an application that goes through the 30
claims of `MC_ResourceClaims` in their order, `refuted` counting those it has seen fail. If any of
these were mended in the code, and so in its table or action, the run would find no violation.

- `entity_claims`, `UpdateCommits`: an entity's raw data is never refreshed, so that a field that is
  changed, updated, set back and updated again is not sent the second time, and `Update` returns nil.
- `entity_claims`, `EtagIsOwn`: `ClearLog` reads the Entries collection through the LogService entity,
  which takes the collection's ETag for its own when it has none, and from then on sends it
  in If-Match, which a service that compares it refuses.
- `resource_claims`, `ActionsAreOwn`: `SetDeduplicationState` of a storage pool posts to the target of
  `SetCompressionState` (`storagepool.go:590`), where its comment at line 569 says that it
  sets the dedupe state.
- `resource_claims`, `AccessorsFollowTheirOwn`: six accessors do not ask for what their comment says:
  `Facility` of a cooling loop follows the chassis (`coolingloop.go:228`), `Outlet` of a power supply
  unit tests the metrics (`powersupplyunit.go:303`), `EjectMediaActionInfo` is that of InsertMedia
  (`virtualmedia.go:251`), `IOPerformanceLoSCapabilities` tests those of IO connectivity
  (`storageservice.go:370`), `Metrics` of a file system tests a field that is never filled
  (`filesystem.go:241`), and `CapacitySources` of a storage pool are decoded from `CapacitySource`
  (`storagepool.go:271`).
- `resource_claims`, `CountsAreGiven`: the six counts of a `Cable`, `ProcessorsCount` of a USB
  controller, two counts of a chassis and one of a log entry are never set, where a comment says of
  each which number it is. (`ConnectedSwitchPortsCount` of a port, an exception too, has no comment.)
- `resource_claims`, `UpdateCommitsItsList`: `Port`, `NetworkAdapter`, `LeakDetector` and
  `DataStorageLineOfService` do not keep the raw data their `Update` compares with, so that it commits
  nothing, ever. After `GetSupportedResetTypes` of a chassis, a system or a manager has taken
  the types from the ActionInfo, `Update` finds `SupportedResetTypes` (or `Actions`) changed and refuses
  whatever else was edited. A resource that is a field of another has no client, and its `Update`
  returns a recovered panic.
- `fallback_pages`: the comment at `common/collection.go:190-191` says that the fallback from
  `$expand` runs on the first query only; it runs on every page, since the options go with the next
  link. A page that is refused costs the two requests that `NoWastedRequest` allows. Which of the two
  was meant is not for the model to say: `FallbackCompletes` is about the case where both agree.

Some claims hold only with a limit that the property names: `NoDeadToken` (above), and
`DeadContextEnds`, for which the operation has to use the context of the loop.

## Proofs

For every value of the constants, and so for every number of requests, members, pages, clients, sessions, polls
and retries, every table of types and every moment of cancellation:

- `APIClient_proofs`: `PermitsAreConserved` from `sem` being the cardinality of `Holders`;
  `BodiesAreClosed` and `OnlyPinnedPeers` by cases on the steps; and `ClientImplementsSlots`,
  where Acquire maps to Take, Release to Give and every other step to a stutter.
- `CollectPool_proofs`, the pool: an inductive invariant `IInv`, conjoined of the type invariant, the
  exact counters and, for each position of the calling goroutine, which members have a
  goroutine, which were resolved synchronously, which are still to come, and what the results
  hold of each. It is needed since `EveryMemberOnce` alone says nothing of the members under way.
  From it follow `EveryMemberIsAccountedFor`, `CountersAreExact`, `FetchesAreBounded`, the action
  property `ResultsAreFinal`, and `LimiterImplementsSlots`. It is kept by every step of `Step`, which is
  wider than `Next`: a fetch may also deliver an object after the context has died, as it does in
  `ObjectsFetch`, so that the same lemmas serve both users of the pool.
- Deadlock freedom. `ObjectsNeverStuck` proves `NeverStuck` from the pool's invariant: when the dispatcher waits
  for a slot, some goroutine holds one, and where that one is names its step (`PoolMoves`). `NoCircularWait`
  proves `NoCircle` with two more conjuncts of `FetchInv`: the permits that are taken are those of `Holders`, the
  other requests included, so that a full semaphore has a holder that is not waiting (`Matched` relates the
  place of each member in the pool to that of its request), and a response that waits for its inspection is unread
  (`Unread`), without which `Inspect` would have no case.
- Progress. `CallsGetShorter` gives the call a finite set `Left` of the milestones that its dispatcher and
  members have still to pass, at most 10(N+1) of them, and every step of the pool passes one. `ObjectsGetShorter` adds
  the exchanges over the channel and `FetchesGetShorter` the steps of the pipeline for finitely many other requests. With deadlock freedom this
  is the termination argument for every size, up to the fairness of the scheduler and to exchanges that end,
  which only TLC's liveness runs have. `DeadWaitsGetShorter`, `ListingsGetShorter`, `LoopsGetShorter`,
  `RequestsGetShorter` and `LogoutsGetThrough` are the like for a wait for a task whose context is done, a listing
  (without a circle, or with its context done), a retry loop, a call on the client and a deferred Logout: in each
  a natural number, or the Logout's position, that every step of the operation brings down.
- `OutcomesAreOrdered` is about what the loop over the results computes, a recursive function of
  their number. It rests on an induction that needs no induction theorem: `LastIsReached`
  says that a subset of `0..n` that has 0 and with `k < n` also `k + 1` has `n`, since the successor
  would otherwise map it into a smaller set. `ObjectsGrow` and `ObjectsInOrder` are such inductions,
  over the members gathered so far.
- The same module, `ObjectsFetch`: `ObjectsInv` adds that the outcomes that have come through the
  channel are those of the members whose goroutines have sent (`Exchanged`), and that it is closed only
  when none is left that would (`Closing`). `LinksAreReceived` follows, and `PoolServesObjects`: the
  properties of the pool hold with the channel too.
- The same module, `CollectionFetch`: `FetchInv` adds that a request of a member is in the pipeline, or its body
  open, only while its goroutine is fetching (`Linked`), and that the permits are held by the requests of members and
  others together. `BoundsHoldTogether` and `NothingIsLeft` follow. `FetchRefinesPool` is the safety part of
  `ImplementsPool`, by cases on the steps, and `PoolServesFetches` what the pool promises, for the composed system.
- `SlotBoundHolds`: no more holders than slots, of the abstract semaphore itself. Its users may be
  infinite in number, so the invariant also keeps the set of holders finite.
- `Pagination_proofs`: `ListingInv` says where the listing stands in the chain of next links
  (`Place`: what was gathered follows them, and ends before the page that is asked for), which
  pages may have been tried in vain (`Complete`), how many requests each page has had (`Cost`), and that a
  request under a dead context was the last (`LastDead`). The chain is a sequence in which each
  page is the next of the one before, which is why `FollowsAppend` is a lemma of its own. From it
  follow `PartialsAreReported`, `FallbacksComplete` and `RequestsAreNeeded`.
- `SessionLifecycle_proofs`: `Ownership` adds to the property who may hold what: which auth object each
  client points to and what it may hold (`Objects`, `Roles`), that a reply under way carries a session nobody else
  claims (`Pending`), that numbers not yet created are unclaimed (`Fresh`), and that confirmed
  deletions have left no token in the object they went through, nor in any object when the session
  is not among those `held` (`Gone`). `SessionsHaveOwners` alone is not inductive, since a reply
  could bring the session of another client. `DeadTokensAreGone` and the action property
  `BasicIsKept`, that a client of basic authentication never comes to use a session, follow from it.
- `TaskMonitor_proofs`: `WaitInv` relates the delay the service asked for to what is left of the
  code's own timer, for each position of the wait (`Delay`), the open bodies, the reports and
  the final answer to the position (`Bodies`, `Reports`, `Final`, `Quiet`). Timers that count down
  together keep their order, which is the lemma `LessMonotone`. `PollsArePaced`, `BodiesAreClosed`,
  `PollsAreReported` and the action property `FinalIsKept` follow.
- `EntityUpdate_proofs`: `EntityInv` says which version of the resource the entity is a copy of
  (`Copy`: the one its ETag names, if that is still the resource's, and no ETag is from later), that a PATCH
  under way is made of the edits and the ETag the entity still has (`Sent`), how often the log may have been
  cleared before each attempt (`Cleared`), and that on a reliable service an attempt was refused because the
  service does not take its form (`Refused`). The last is the heart of `LogsAreCleared`: it is
  stable because another write of the resource makes the entity's ETag a stale one, and because
  an ETag of the Entries is never one of the resource. `FirstUpdatesCommit` and the action property
  `NoUpdateIsLost` follow from the first two, for any number of other writers.
- `Resources_proofs`: that `Update` sends the edits and nothing else, and refuses only for the
  caller's edits, is proved for every catalogue, so it holds of types that have no table, provided
  they satisfy what the module assumes: a type with an `Update` keeps its document or is one of
  `Unkept`, no listed property contains another that may be edited, only the methods of the types
  of `Drifting` set exported properties, and none of these is a part. TLC evaluates these assumptions on
  the 181 types. A refusal for want of a client is one of the cases. The
  invariant is needed because the result of an `Update` is about the edits at the time, which cannot
  change until the caller has looked at it.
  `SilenceIsAbsence` and `ActionsHaveTheirTargets` are about every document (`AnyDocument`), not only the
  four shapes that TLC is given: they reduce `SilentMeansAbsent` and `ActionsAreOffered` to what has to be
  right in the table of each type, that an accessor tests the link it follows (`TestsWhatItFollows`) and that
  each action has a target of its own (`HasItsTargets`). The run would not pass without both: the
  documents without one thing tell the link that is tested from the one that is followed, and in
  the document with everything each action is sent. `LinksHaveReaders` and `CountsAreOfTheirLists` do the same
  for `EveryLinkHasItsReader` and `CountsFollowLists`: what has to be right in a table is that each private field has a
  method that comes to its place (`HasItsReaders`), that accessors ask for places of their own (`AsksForItsOwn`), and that
  each count has a list of its own (`CountsItsLists`). The documents with one thing alone show
  each of these for the place they have, and the one with everything shows the places a `Shadowed` link loses to
  and the counts that no list sets. So the run on the 181 types and these theorems together
  say that no document breaks the four properties.
- `RetriedOperations_proofs`: `IInv` balances the accounts at each position of loop and operation: an
  effect is counted as lost, as unusable or as the success that is about to be returned. `Taken`
  says, from the moment of the write, which attributes are in the settings object, `Tagged` that the
  tag of an attempt is the version unless somebody wrote since, `Known` that the subscriptions
  without a link are no more than the answers without use, `Tried` that no attempt so far took effect
  twice. From these follow `OutcomesAreAccounted`, `SettingsAreTaken`, the action property `OthersAreKept`,
  `SubscriptionsHaveOwners` and `EffectsAreBounded`.

The type invariants of `APIClient`, `CollectPool`, `Pagination`, `SessionLifecycle`, `TaskMonitor`,
`EntityUpdate`, `RetriedOperations` and `Resources` are parts of these invariants. They, `BasicStaysBasic`,
`ResponsesClosed`, `SubscriptionHasOwner`, `CountersExact`, `NoCircle` and `EffectsBounded` hold of the
instances of the runs as well, and are proved and have no run: each cfg keeps the properties that say
more together with them (`NeverStuck`, `AnsweredCallReturns`, `OutcomeIsAccounted`). The
assumptions are those the modules state on their constants, and every module that states one is
evaluated by a run. The other hypotheses are those about tables, above, that a table is finite, and
in `FetchesGetShorter` that finitely many requests are made elsewhere. The ones about tables are hypotheses of the
theorems and not assumptions of the module since the wrong tables among the deviations are
to be found by the properties.

Every invariant and every action property that a run checks is proved. Model-checked only are the
liveness properties, `AnsweredCallReturns` and the fairness part of `ImplementsPool` included: fairness is defined
by ENABLED, which is beyond this prover. The guards in `NeverStuck` and `NoCircle` agree
with the actions disjunct by disjunct, which is for a reader to compare and not a theorem.

## Plan

The order in which the modules were written: the pipeline, the pool and their composition, object
lists and pages, sessions, tasks and entities; then the resource types, subscriptions, settings
and retry loops; then the proofs. What is left, in order of use:

1. Tables for the remaining types: `PortMetrics`, `BootOption`, `EventRecord`, `Condition`, `Key`,
   `DataProtectionLineOfService`, `StorageReplicaInfo` and the like, which have few links or none, and the
   `Drive` of Supermicro, whose one action has two possible targets.
2. `BuildQueryGroup` and the slices it and the fallback of `collection.go:197` append to.

## Not modelled

The wording of errors, headers other than those named, TLS and connection reuse, JSON
decoding beyond whether it succeeds and which links it fills, and the enumerations. Of resources,
the values of properties that nothing follows or updates. Types without links, actions or an
`Update`, which are data only, have no table. What the parameters of an action are and how
they are put into its payload, the filters of log entries, `CollectDiagnosticData` and the download of
raw logs, and the multipart form of an upload are left out: they are one request each, which is `Post` or a
call of `APIClient`. So is a Retry-After too large for a duration (more than 9.2e9 seconds, `common/http.go:55`). A panic of a dump writer is an outcome of a call; what it does to a program is
not followed. Data races on `SetDumpWriter`, on option slices and on entities that goroutines share are
outside the models. The test client is not part of a program that uses the library.
