# R2RPC in TLA+

R2RPC turns remote devices into HTTP-callable services. A caller posts an RPC to any API
instance; the instance picks an online device, routes the job to the instance that holds
the device's WebSocket, waits for the result frame on whatever instance it arrives, and
answers. A worker process records finished calls and runs maintenance. This directory
specifies the concurrent core of the backend and of the device SDKs, model-checks it
with TLC, and proves its safety properties and much of its liveness with TLAPS. Paths
below are relative to `src/backend/src/` unless they start with `sdk/` or `backend/`.

## 1. The system

| Component | State | Operations | Made correct by |
|---|---|---|---|
| RPC dispatch, `application/rpc/rpc.service.ts` | the call on the API process's stack | resolve the project, select and hold a slot, register a waiter, mark it, dispatch, await, release, enqueue the log | one truthful answer per call; the slot is returned |
| Connection registry, `infrastructure/ws/connection.registry.ts` | per process: `sockets`, `waiters`; Redis: `client:session`, `rpc:waiter`, `rpc:completed` | register, unregister, markWaiting, dispatchJob, handleResult, scope events | only the addressed device answers; only the owner of a session deletes it |
| Cluster bus, `infrastructure/ws/cluster-bus.service.ts` | Redis pub/sub | publish, subscribe | a lost message ends in the caller's timeout and nothing else |
| WebSocket gateway, `infrastructure/ws/ws.gateway.ts` | fields on each socket | handleConnection, handleDisconnect, heartbeat, result | a connected device is completely registered, a gone one completely forgotten |
| Presence and slots, `infrastructure/ws/presence.service.ts` | Redis: `presence`, `project:clients`, `device:maxinflight`, `device:inflight`, `rr` | online, offline, refresh, listOnline, pickOnlineAcquire, releaseSlot | a device runs at most what it declared |
| Devices, `application/devices/devices.service.ts` | table `devices` | registerOnline, markOffline, markStaleOffline, softDeleteIdle | the row follows the connection |
| Device tokens, `application/device-token/` | table, cache | create, validateForConnect, updateProjects, revoke, delete | a connection has its token's scope |
| Access tokens, `application/access-token/`, `common/guards/access-token.guard.ts` | table, cache | guard, atomic usage count, update, revoke, reset, delete | a limited call is counted; a dead token is refused |
| Cache-aside, `infrastructure/redis/redis-cache-aside.service.ts` | Redis keys with TTLs | getOrLoad, writeAndInvalidate | an invalidated value does not come back |
| Request logs, `application/request-logs/`, `infrastructure/queue/` | table `request_logs`, BullMQ queues, Manticore | enqueue, process, dead letter, repair, retention | every call leaves a record, counted once |
| Metrics, `application/metrics/metrics.service.ts` | daily tables | recordCompletion, rebuildRecent | the counts are those of the log |
| Roles and users, `application/rbac/`, `application/users/`, `application/auth/`, `common/guards/` | tables, cached snapshots of rights | authenticate, grant, revoke, assign, delete | a revoked right ends; only the root changes the root |
| Device SDKs, `sdk/javascript`, `sdk/android` | connection state, timers, running jobs | start, stop, reconnect, run a job | one socket; never stuck; winds down after stop; every job ends |
| Caller SDKs, audit, monitor, dashboard, configuration, scripts, frontend | little or none | | sequential code with tests of its own |

How they interact:

- API instances share no memory. They meet in Redis, by keys and by the channels
  `ws:send:<instance>`, `rpc:result:<instance>` and `device-token:scope-changed`,
  and in PostgreSQL. Every `await` on either is a point where another handler of
  the same process, another instance or the worker may run.
- A WebSocket ties a device to one instance. Its connect and disconnect handlers
  are concurrent with each other and with those of the device's next socket.
- BullMQ delivers log jobs at least once to the worker.
- Rows that every request needs (tokens, rights) are read through Redis keys with
  a TTL. A writer commits first and deletes the key afterwards; nothing orders its
  DEL with the load of a concurrent reader.
- The Redis client (`infrastructure/redis/redis.service.ts`) gives up after
  `commandTimeout: 5000` and two retries without an offline queue. A rejected
  command may have been executed, and one whose reply is lost with the connection
  is sent again (`maxRetriesPerRequest: 2`) and then runs twice. Pub/sub delivers
  at most once.

Hard to test, hence the subject of the models: result frames racing each other
and the timer; commands that fail after they took effect or run twice; a disconnect that
overlaps its own registration or the device's next one; sweeps that act on what
they read a command ago; counters reset under their holders; retries after half
an attempt; cached decisions stored after the write that outdates them; callbacks
that stop the object whose handler called them. `PROJECT.json` lists them line by
line under "hazards".

## 2. The modules

| Module | Models | Lines of code it stands for |
|---|---|---|
| `RpcCall` | what `invoke` promises a caller (abstract) | `rpc.service.ts` invoke |
| `RpcRelay` | one call through the cluster after a device is chosen; implements `RpcCall` | `dispatchAndAwaitResult`, the registry's waiter, job and result paths, the bus |
| `DeviceSessions` | all connections of one device, the keys and the row they write, the sweeps, TTLs, its token with the cached record, edits and revocations | gateway, register/unregister, presence on/offline, `devices.service.ts`, `device-token.service.ts`, maintenance |
| `InFlightSlots` | choosing devices and holding slots against connects and disconnects | `selectDevice`, `pickOnlineAcquire`, `releaseSlot`, `resetInFlight`, `offline` |
| `RequestLogs` | the record of one finished call: enqueue, attempts, dead letter, repair, retention, recount | `enqueueRequestLog`, the three processors, `metrics.service.ts`, worker start |
| `AccessTokens` | admission of calls by one token, its cache and quota, its administration, the project it names | `access-token.guard.ts`, `access-token.service.ts`, `redis-cache-aside.service.ts`, `projects.service.ts`, `resolveProject` |
| `Authorization` | authentication and the cached rights, the guards, every write of rights and the keys it deletes | `jwt.strategy.ts`, the authorization cache, `rbac.service.ts`, `users.service.ts`, the administrator policy |
| `SdkDevice` | one device object of the JavaScript SDK | `sdk/javascript/src/device.ts` |
| `AndroidDevice` | the connection life cycle of the Android SDK with its threads | `R2RpcDevice.kt` |
| `*_proofs` | the theorems about each module; `RpcRelayOrdered_proofs` those that need a relay without failures | |
| `MC*` | constants and symmetry sets for TLC | |

Three conventions hold everywhere.

**Steps.** A step is one awaited command and the synchronous code up to the next
`await`. Nothing is merged that another process could separate. Names of actions
are those of the methods where one method is one step, otherwise of what the
step does.

**Failures.** A command that rejects is its own action (`DispatchFails`,
`ResultFails`, `RegistrationFails`, `CleanUpFails`, `AcquireFails`,
`ReleaseFails`, `AttemptFails`), and its effect is either there or not. A command
that is sent again is `CommandSentAgain` and `ResultSentAgain` in `RpcRelay`,
`AcquireSentAgain`, `ReleaseSentAgain` and `Onward` in `InFlightSlots`; elsewhere the
commands are idempotent. The
constant `Faults` switches failures, so that what holds without them can be
stated too.

**Slips.** Definitions under a comment "Slip:" are variants of the operator that
follows them with a plausible mistake. No specification uses them. They are the
mutants of `PROJECT.json`: put in the place of the operator, they must break the
property they are listed with.

**Claims.** `ScopeEditCloses` and `StopsConnection` state what a document says and the
code does not keep. No run lists them; `DeviceSessions_edit.cfg` and `SdkDevice_stop.cfg`
let TLC show where they break (findings 5 and 6).

### RpcRelay

Calls move through `phase`: `marking` (`registerWaiter` done, `SET rpc:waiter` next),
`reading` (`GET client:session` next), `routing` (local delivery or `PUBLISH` next),
`waiting`, `answered` or `lost` with the process. `overdue` has the calls whose
`deadlineAt` has passed; `clamped` those whose `timeoutSeconds` is beyond the range of
`setTimeout`, so that their timer may fire at once and their deadline lies more than 24
days off. The JavaScript promise of the waiter is `promise`, the frame it was resolved
with `resolver`. A result frame is a `task` with the steps of `handleResult`: look up
`rpc:waiter`, claim `rpc:completed` by `SET NX`, resolve locally or publish, release the
claim after a refusal. `releasing` holds the subscribers that have been refused and have
yet to delete the claim. Messages are sets: several subscribers' handlers run
concurrently, so no order is assumed.

A device answers only jobs it was sent, any number of times, on any instance;
`Foreign` clients answer jobs that are not theirs. `Register`, `SocketCloses` and
`SessionEnds` let sessions and sockets change at any moment, which includes
everything `DeviceSessions` allows.

`RpcRelay` refines `RpcCall` by the mapping `Call`: the phases before `answered`
are "open", the answerer is the sender of the frame in `resolver`.

### DeviceSessions

The keys of two clientIds never meet, so one device suffices; its sockets are the
constant `Connections`. `up[c]` is the next step of `handleConnection`, `down[c]`
of `handleDisconnect`; both may be running. `mapped[i]` is the entry of instance
i's socket map. Redis executes the commands of one instance in the order they
were issued: a socket cannot attach between another's map entry and `SET` on the
same instance, and the compare-and-delete follows the connection's own `SET`.

The device's token is `tokenScope` (`{}` once revoked or deleted) with its record in
Redis, `cached`. A connecting socket takes the record (`ReadCachedRecord`), or loads the
rows and stores what it found (`LoadRecord`, `StoreRecord`). `Writers` are the requests
of `updateProjects`, `revoke` and `delete`; `write[w]` goes from the commit over the DEL
to the PUBLISH, which only an edit has. `notices[i]` are the events instance i has
received and not yet handled. Events reach the instances subscribed at that moment and
nobody else. `Cleaners` switches the clean-ups of third parties: `listOnline`, the stale
sweep, the idle sweep.

Four history variables say when a property cannot be expected, and why:

- `overtaken` has the open connections after whose start another clean-up (an owned
  disconnect, a purge, a sweep, an ended TTL) took something away. Heartbeats only EXPIRE
  keys and never write them again, so a connection this happens to stays incomplete.
- `unowned` has the connections cleaning up that had found no session.
- `unheard` has the open connections an event of their token may have missed: it did not
  reach their instance (lost, or the writer died before sending it), it arrived while they
  were on their way into the sockets map, a later socket took their place in the map, or
  they were given a cached record that was old already.
- `leftBehind` has the projects the device is listed in although the clean-up that should
  have taken it out was skipped: its compare-and-delete found a newer session, a command
  failed, the instance died, or the socket joined after its own disconnect had run.

`leftBehind` is what the code leaves open: a device that reconnects elsewhere before its
old socket's disconnect is handled keeps its listing in the old projects, because that
disconnect then finds a newer session and cleans nothing. `unheard` is where the code
stays behind its documents, which have every connection of an edited token closed
(`backend/README.md:179-181`, `docs/design-conventions.md:122-125`). `ScopeEditCloses` is
their claim, `ScopeEditReaches` what is true of it; see finding 5.

Left out: `lastSeenAt`, the ping and read-timeout bookkeeping (a socket may close at any
time instead).

### InFlightSlots

A device connects and disconnects, and calls select it by name or go round the
project. `limit` and `count` are `device:maxinflight` and `device:inflight`, 0
when absent. The round-robin cursor only decides an order, so calls try their
candidates in any order. `ACQUIRE_SLOT_LUA` is one step; `DECR` and the `SET 0`
that repairs a negative count are two. History: `fresh` (calls that took their
slot since the device's last reset), `disturbed` (devices whose count was since
touched on behalf of an older call), `leaked`, `unrepaired`. A `DECR` is sent again
at most once, which is a bound of the model; the acquire script may run again as long as
it finds room, the other commands any number of times before the handler goes on.

### RequestLogs

One job per call: `record` is the API side, `step` the worker's next step,
`spine` the `payload_state` of the `request_logs` row. BullMQ is external: it
stores a job in time or after the enqueue has given up, delivers it, retries it
`Attempts` times, runs it again after a dead worker, drops it when it stalls too
often, and reports the last failure to `onFailed`. `dead` is the same for the
dead-letter job, with `deadTries` attempts. The last step of an attempt is to report
it finished, which may fail like any other. `repairs` has the rows some worker's
repair has selected and not yet marked; several repairs may overlap. `recordCompletion` and
`rebuildRecent` are transactions and therefore steps; of the metrics the module
keeps what one call adds to them. Records of different calls share nothing but
the batch of the repair. `dropped` (history) says that BullMQ gave the job up or
that its dead letter was never sent. `TrimRow` deletes the row at any time, as the
retention does with what is old or has enough newer rows in its scope. Of the history,
`uncounted` has the rows whose inserter did not come to count them, `recounted` those a
rebuild counted before that, `trimmed` the requests whose row was deleted.

### AccessTokens

One token; others have other rows and keys. A call goes through `step`: the cached
record or the two queries of a miss, the `SET`, `assertTokenIsUsable` with the host's
clock, `resolveProject`, the conditional UPDATE, and, when that refuses,
`resolveUnconsumedToken` and the DEL. A request of an administrator is one write of
`AccessTokenService` or `ProjectsService`, followed by `writeAndInvalidate`'s DEL
where the code has one. `ClockPasses` lets the token expire on the database's clock and
on the host's in either order, since the UPDATE compares with `NOW()`
and the guard with `new Date()`. The monthly count is for display and decides nothing.

History: `outdated` (calls holding a record read before a write), `tainted` (the cached
record was stored by such a call, or its DEL failed), `eased` (calls whose row was
changed, had no limit any more or had expired on one clock while they were consuming),
`lateCalls`. The first two name the only ways in which the cache can be wrong, `eased`
the only ways past a limit. They are no escape hatches: each needs the very
interleaving it is named after, and the mutants show that other mistakes are caught.

### Authorization

A request slot (`Requests`) serves one request after the other: `account` and `rights`
load a snapshot on a miss, `store` caches it, `guard` decides, then `policy`, `role`,
`permission` and `list` are the reads that precede the write it asks for (`job`), and
`clear` deletes the snapshots of `targets`. Users, roles and permissions go from
`unborn` to `alive` to `deleted` and never back: ids are serial numbers. Every write of
`RbacService` and `UsersService` that concerns rights is a job, and so are `update` and
`setPassword` (`edit`), which ask the same policy and delete no snapshot: of what they
write, `profile` keeps who wrote it. Renaming roles and permissions is left out.

`deleteRole`, `deletePermission`, `attachPermission` and `detachPermission` list the
users they concern before they write. A user who comes to be concerned in between keeps
his snapshot: `newcomers` follows him, `missed` has him after the write, until a DEL or
the TTL. `outdated` and `stale` are as in `AccessTokens`.

### SdkDevice

The handlers of `device.ts` run to completion on the event loop, except where they
call `onStateChange` or `onError`. The application may call `stop()` from there, and
`start()` again after it, and the handler then goes on with what it had left: `rest` says
what, `again` where that second `start()` stands, whose own callback comes before its
socket. `interrupted` says that a `stop()` out of a callback may have left something, until
a `stop()` between two handlers finds nothing left. One handler has one such `start()`, a
bound of the model. `timers` counts armed reconnect timers, `tracked` says whether
`reconnectTimer` is one of them, so a timer nobody can clear any more exists in the
model as it does in the code. `MaxTimers` bounds them: an interrupted handler arms one
more each time, and `Stop` and the callbacks are cut off there. `Recycle` gives the
name of a closed socket to a later one; a job that came with it (`via`) is then as one
without an open socket.

The application's callbacks, the socket factory and `new URL` are taken not to throw. If
one does, `openConnection` ends with `shouldRun` set and neither socket nor timer
(`device.ts:123-153`), and `Lifeline` is gone until the next `stop()` and `start()`.

### AndroidDevice

The application's thread in `start()`, `stop()` and `close()`, the reconnect coroutines and
OkHttp's listener threads take turns at the accesses to `running`, `webSocket` and
`reconnectJob`, which no lock guards; a coroutine runs from its launch on, before
`reconnectJob` has it. After `close()` no coroutine gets past a delay. OkHttp
is external: the server's close frame is reported as `onClosing`, which the listener
does not override, `onClosed` follows only where the device asks for the close as well,
and a socket nobody closes fails at a ping. Jobs and heartbeats are left out; they
steer nothing here. Only finding 3 is checked of it.

## 3. What is checked

Fairness is only ever claimed for what a running process does by itself: Redis
commands that return or reject, timers that fire, handlers that go on, the
worker's schedule, TTLs. Never for callers, devices, messages or failures.
`AccessTokens` and `Authorization` ask for it of loads that have begun and of TTLs, not
of writers. `SdkDevice` has strong fairness of timers and of sockets the device has
given up, because an unfinished handler disables the other events of the loop for a
moment without putting off those that are due; nothing is assumed of the application or
the current socket. Each condition is an operator of its own (`CallFair`,
`ApiFair`, `WorkerFair`, `DeadWorkerFair`, `RepairFair`, `ScheduleFair`, `LoopFair`,
`SocketFair`, `JobFair`).

| Run | Instance | Shows |
|---|---|---|
| `relay_faults` | 1 call, 1 device, 1 foreign client, 2 instances, 2 frames, faults | an open call is never out of moves; waiters are exactly the open calls with a pending promise; `rpc:waiter` precedes the job; ack "ok" is true; the outcome "unavailable" means not sent (the 503 of "error" does not); 504 means overdue, or a timer out of range (finding 4); refinement of `RpcCall` |
| `relay_ordered` | the same, no faults, `WF` of the call's own steps | `rpc:completed` never blocks a waiting caller; a legitimate result is not turned away as late; every call ends |
| `sessions_faults` | 2 sockets, 1 instance, 1 scope, all clean-ups, failing commands and crashes, fairness of handlers, TTLs, stale sweep | a ready connection is complete unless overtaken; the stale sweep never overwrites "offline"; a device without sockets is forgotten |
| `sessions_scope` | 2 sockets, 2 instances, 2 scopes, 1 edit or revocation, failing commands, lost events and crashes | an edit reaches every registered connection it does not miss for a named reason (finding 5); a device is listed in a project only while somebody holds or leaves it, or a clean-up was skipped; a session is only lost to its owner, a successor or its TTL |
| `sessions_newer` | 2 sockets, 2 instances, expiring keys | finding 1 |
| `slots_faults` | 3 calls, 1 device, 2 connections, declarations 0 and 5, default 1, maximum 2, faults | types; no phantom load; negative counts are repaired; capacity is kept in an undisturbed session |
| `slots_capacity` | 3 calls, 1 device of capacity 1, 2 connections, no faults | finding 2 |
| `logs_faults` | 1 record, 3 attempts, 5 dead-letter attempts, 1 stall, 1 rebuild, retention, all faults, fairness of handlers, workers, repair | a call counted twice or not at all has a named cause; indexed rows have a payload; no row stays pending; every finished record leaves a row and failed rows get their payload unless the dead letter is used up or was never sent |
| `admission` | 2 calls, 1 administrator, 2 ids for the called name and 1 other project, limit 1, policies unlimited / limited / limited and expiring, failing Redis, 2 clocks | a wrong cached record has a named cause; a limited call is counted or eased; a dead token is not consumed and is forgotten |
| `authorization` | 2 request slots, the root and a user, 1 role, 1 permission, 2 writes, failing Redis | a wrong snapshot has a named cause; only the root changes the root, his password included; a deleted user's snapshot goes for good |
| `sdk_callbacks` | 3 sockets, 1 job, 2 timers | never stuck; beats while online; only winds down when stopped (finding 6); one connection; tries again; every job ends |
| `android_refused` | 3 sockets, 2 coroutines | finding 3 |

Why these bounds are enough to be interesting:

- Calls in `RpcRelay` touch only keys with their own requestId and one socket
  map that may change at any time, so the races are among the frames, the timer
  and the dispatcher of one call. Two frames make every duplicate and every
  mismatched pair; two instances make both routes. The theorems cover any number.
- Two sockets give a disconnect that overlaps the next registration, which is where
  every guard of the registry acts. `sessions_faults` has them on one instance with every
  clean-up, `sessions_scope` on two instances with two scopes and an edit: their product
  is out of reach in five minutes. One edit is enough for each way of missing it; edits
  that overlap each other are in the theorems, which are for any number of writers.
- Three calls on one device are the least that exceed a capacity of 1 or 2 after
  one wrong release; a declaration of 0 becomes the default of 1, one of 5 the maximum
  of 2, so the two connections have different capacities, in either order.
- `Attempts`, `DeadAttempts` and the number of stalls are the code's own limits.
- Two calls and one write of a token are the least with a load overtaken by a write
  and another call that uses what it stored; a limit of 1 makes the second call the
  one to be refused. Two ids let the called name change owners.
- Two requests with two writes between them give a load overtaken by a write, a listing
  overtaken by an assignment, and a policy check overtaken by either. The permission is
  `manage user`, the one the guards and the policy ask for, so rights gained and lost
  change what later requests may do. Slots are reused, so the number of loads is not
  bounded.
- Three sockets are a current one and two former ones that are still closing. Two timers
  show a timer the device has lost track of beside a tracked one.

Symmetry is used in `relay_faults`, `sessions_scope` and the runs of `InFlightSlots`,
which check invariants and action properties only. Deadlock is checked in `admission`
(where `Done` is the end of all calls), `authorization` and `sdk_callbacks`, where
something must always be possible. The other runs have a finite number of calls, sockets
or records and rightly stop after them.

### Findings

1. `sessions_newer`. The compare-and-delete lets a disconnect claim an absent
   session key, with the comment that no newer session can be harmed
   (`connection.registry.ts:28-31`). The clean-up it starts runs later and goes by
   clientId: it deletes the presence of a connection that registered meanwhile.
   That connection stays open but cannot be selected until it reconnects.
2. `slots_capacity`. `maxInFlight` is not enforced across a reset: the release of
   a call admitted before it frees a slot of the new session
   (`backend/README.md:158-162`).
3. `android_refused`. `sdk/README.md:28` says that the SDK stops reconnecting when its
   token is refused. The listener acts on close code 4001 only in `onClosed`
   (`R2RpcDevice.kt:373`), which OkHttp calls when both sides have closed. The device
   does not close, so the socket ends in `onFailure` without a code and the device
   reconnects. No test of the Android SDK lets the server refuse the device.
4. `relay_faults`. `timeoutSeconds` has no maximum
   (`application/rpc/dto/invoke.dto.ts:13-17`) and `registerWaiter` gives it, times
   1000, to `setTimeout` (`connection.registry.ts:178`). Node runs a timer above
   2147483647 ms after 1 ms, so such a call is answered 504 at once, while `deadlineAt`
   tells the device that it has all the time. `TimeoutMeansOverdue` has this as its only
   exception.
5. `sessions_scope`. After a scope edit, `backend/README.md:179-181` and
   `docs/design-conventions.md:122-125` have every connection of the token closed with
   4002 and the device come back with the new scope. A connection that has read the old
   projects and is not yet in the sockets map is passed over, one replaced in the map is
   not found, and a load overtaken by the edit stores the old projects after the DEL. No
   fault is needed (`DeviceSessions_edit.cfg`, `ScopeEditCloses`). `ScopeEditReaches`
   shows that there is no other way, apart from lost events and crashes.
6. `sdk_callbacks`. `stop` stops the connection, says
   `docs/superpowers/specs/2026-07-24-device-sdks-design.md:70`. Called from
   `onStateChange` it does not: `openConnection` and `scheduleReconnect` go on after the
   callback without another look at `shouldRun` (`device.ts:140-143`, `376-388`), and open a
   socket or arm a timer that will (`SdkDevice_stop.cfg`, `StopsConnection`).
   `StoppedWindsDown` is what is left: one such attempt or connection is finished and no
   further one made.

Behaviours the models have and no run is about, since nothing in the repository rules
them out in so many words:

- The repair marks by request_id alone what it selected as pending, so a row indexed in
  between says "unavailable" for ever.
- `rebuildRecent` counts the rows that are left. `trimScopes` keeps the newest 100 of a
  scope (`keepLatestPerScope`), so after a worker's restart the last days' metrics of a
  busy scope are what the trimming left of them. The comment at `metrics.service.ts:247`
  takes care of rows deleted by age, not of these.
- A row trimmed between two attempts of its job is inserted for the first time again, and
  its call counted again (`trimmed` in `CountExplained`).
- The listings in old projects in `leftBehind`, see `DeviceSessions` above.

## 4. What is proved

Every theorem is for all values of the constants, including infinite sets of sockets,
tokens' calls or users, with or without failures unless it says otherwise. The
assumptions are the `ASSUME`s of the modules: `None` differs from the other constants,
bounds are natural numbers, token scopes are not empty, limits are positive, device and
foreign clients differ, roots are users, and the calls of `InFlightSlots` and the jobs of
`SdkDevice` are finitely many.

**RpcRelay_proofs.** `TypeCorrect`, `WaitersMatchCallsHolds`,
`WaiterKeyBeforeJobHolds`, `AckOkMeansAnsweredHolds`,
`UnavailableMeansNotSentHolds`, `TimeoutMeansOverdueHolds` are safety of
`relay_faults`; `Implements` is `Spec => Call!Spec`. None of the invariants is
inductive alone; `IInv` (`InvariantHolds`) adds the facts that connect the two sides
of the cluster:

- `CallsWellFormed`: a call past `idle` has a home, a target and a promise, and
  an outcome exactly when it is answered;
- `JobsOfOpenCalls`: a job on the bus or delivered belongs to a call that got past
  dispatch, or is being published to another instance and may be again, hence has not
  been and will not be answered "unavailable";
- `FramesWellFormed`: a frame is of a delivered job and from the target or a
  foreign client, its handler knows an instance once the waiter was found, and
  frames on the bus are finished where they came in, or are being published again;
- `SettledByTarget`: a promise is resolved exactly when `resolver` names a frame, that
  frame is of this call and from its target, and a rejected promise of an open call
  means that the deadline has passed or the timer was clamped. This carries the
  refinement, since it is what identifies the answerer;
- `WaiterKeySet`: `rpc:waiter` has the home instance from `markWaiting` on, as
  long as the waiter lives. It needs the order of the code: the key's TTL starts
  after the waiter's timer and is longer;
- `AckOkResolved`: an acknowledged frame is in `resolver`.

`Implements` then maps `Invoke` to `Open`, the steps that leave the open phases to
`Answer`, `Crash` to `Lose` of all calls of the instance, and everything else to a
stutter.

**DeviceSessions_proofs.** `TypeCorrect`, `OnlineUnlessOvertakenHolds`,
`SessionLostOnlyByOwnerHolds`, `StaleNeverHidesOfflineHolds`, `ScopeEditReachesHolds` and
`ListedWhileHeldHolds`, from three inductive invariants.

`ConnInv` adds `HandlersInOrder` (a socket being cleaned up after is closed) and
`RegisteredSoFar`: what each step of `registerConnection` leaves for the next one, for
every connection nobody has overtaken. `OnlineUnlessOvertaken` is its last line. It is
inductive because the steps of other registrations only add keys and never soft-delete a
row, and every step that takes something away overtakes the connections attached by then.
`SessionLostOnlyByOwner` follows from `HandlersInOrder`: only the compare-and-delete
and the TTL make the key absent, and the former runs for a closed socket.
`StaleNeverHidesOfflineHolds` needs no invariant: it goes through the steps that write
the row.

`ScopeInv` is `ConnInv` and `ScopeSoFar`, for every open connection outside `unheard`. An
event closes the socket in the map, so that `ScopeEditReaches` survives its handling only
because the connection is that socket (`InTheMap`); and a connection that attaches with an
old scope satisfies it only because an event was still to come while it was on its way
(`WillHear`, which says it of `Arriving` connections too). The second conjunct of
`WillHear` is the property.

`ListedInv` is `ConnInv`, the property itself and `LeavesItsOwn`. A disconnect that takes
the device out of a project ends its own claim to the membership; were `leaving` to hold
other projects than the connection's, it would end that of a project it had not joined
and leave its own behind. `LeavesItsOwn` says that it never does, whatever has become of
the token's scope since.

**InFlightSlots_proofs.** `TypeCorrect` (with the lemma `ClampIsCapacity`: what
`clampMaxInFlight` returns is within 1 and the maximum for every integer),
`NegativeIsRepairedHolds`, `NoPhantomLoadHolds` and `CapacityHeldHolds`. The last two
rest on `LoadInv`, which compares the counter with cardinalities: `count` is at most the
slots held and leaked, and while a device is undisturbed (`RunningCounted`) the calls of
its session are all counted and among any of them one, the last to come, found room for
all. Each step changes each side by at most one, by the library's facts about adding to
and removing from a finite set; the second run of an acquire makes its first slot a
leaked one, the second run of a `DECR` only lowers the counter.

**RequestLogs_proofs.** `TypeCorrect`, `CountExplainedHolds`,
`IndexedHasPayloadHolds`. `LogInv` adds `JobsInOrder` (attempts are left whenever the
job can run, the dead letter follows the job), `CountedAfterInsert` (what is still to
be counted has not been counted, except by a rebuild that saw its row, and a row is there
unless it was trimmed), `StoredBeforeMark` and `NothingVanishes` (a logged record has a
row, a trimmed one or a job, a job that is gone left a payload, a dead letter or a trace in
`dropped`). `CountExplained` needs the first half of `CountedAfterInsert`: the bound of two
is that of a rebuild's one and the inserter's one, and there is one inserter per row.

**RpcRelayOrdered_proofs.** `CompletedIsCarriedHolds` and `PromptResultNotLateHolds`,
under the assumption `~Faults`: a lost `DEL` or a crash does leave the completed slot
taken. `OrderedInv` adds to `IInv` that the routing key names the calling instance or is
absent (`KeysNameHome`) and that a frame therefore goes where its waiter is and is
refused there for good or not at all (`FramesGoHome`). With it a frame that holds the
slot for its own addressee cannot be refused while the waiter lives, so whoever is told
"late" can point at it.

**AccessTokens_proofs.** `TypeCorrect`, `CacheExplainedHolds`, `UncountedExplainedHolds`,
`LimitedRecheckedHolds`, from `AdmissionInv` (`AdmissionHolds`): `HeldInOrder` (what a
call holds at each step), `ReadIsFresh` (a record read by a call that is not outdated is
what the rows say; this makes `CacheExplained` inductive, since such a call may store),
`RefusedTwice` (after the UPDATE has refused, the second look refuses as well unless the
call was eased) and `LateIsDead`.

**Authorization_proofs.** `AuthorizationHolds`, `TypeCorrect`, `SnapshotExplainedHolds`
and `RootsUntouchedHolds`. `AuthorizationInv` adds to `SnapshotExplained`, for every
request: `InOrder` (its fields fit its step; a job on a root's account past the policy
is the root's own, which is all `RootsUntouched` needs), `LoadIsFresh`, `ListedOrNew`
(whoever the write will concern was listed or has come since) and, with `Born`,
`Founded` (rows never refer to what has not been created, so creating something changes
nobody's rights). A write changes the rights of the users it affects only; those are
targets, whose DEL is to come, or newcomers, who are then `missed`.

**SdkDevice_proofs.** `TypeCorrect`, `LifelineHolds`, `OnlineBeatsHolds`,
`StoppedWindsDownHolds`, `OneConnectionHolds`, from `DeviceInv`: `CarriedOn` and
`BeatsSoon` say of every state, unfinished handlers included, what `Lifeline` and
`OnlineBeats` say between handlers; `OneThing` says that a device no callback has
stopped has one of a connection, a timer or a handler about to provide them.
`StoppedWindsDown` compares `LeftToDo` before and after each step of a device that is not
meant to run: a timer that fires weighs more than the attempt it makes, an attempt more
than its socket, and the end of a socket leads to nothing.

### Liveness

Proved under the fairness of section 3: `EveryCallEndsHolds` and `NeverStuckHolds`
(with or without faults: `relay_ordered` checks the former without them), `JobsEndHolds`
and `TriesAgainHolds` of the SDK, `PendingEndsHolds`, `FailedIsCompensatedHolds` and
`EveryCallLoggedHolds` of the log.

The prover knows nothing of ENABLED beyond its name, so a fair action's being enabled is
a hypothesis of each theorem: that the guards, written out as a state predicate, enable
it. `GoingOnIsEnabled`, `DueCanRun` and `WorkGoesOn` say so and nothing else. They
follow from the definitions of the actions in every state of the right types and say
nothing about the code, so no run lists `DueCanRun` and `WorkGoesOn`; added to
`SdkDevice_callbacks.cfg` and `RequestLogs_faults.cfg` as INVARIANTs, TLC confirms them.
For the relay it checks `NeverStuck`, which with `IInv` is the same as
`GoingOnIsEnabled`. That the guards do hold whenever something is due is part of the
proofs, from the inductive invariants.

The proofs for the relay and the log count steps. An open call has at most five
(`StepsLeft`: its phases, its deadline, its waiter's timer); no step of anyone adds one
(`OpenCallForward`) and each step of its own takes one away or ends it. A job of the log
that has no row yet has at most nine (`AttemptsLeft`), an unsettled dead letter at most
thirteen (`DeadLeft`): a rejected attempt or a dead worker is a step backwards that uses
up an attempt or a stall. These two assume `CodeLimits` (`Attempts <= 3`,
`DeadAttempts <= 5`, `Stalls <= 1`, the values in the code): for arbitrary limits the
argument is an induction over temporal formulas, which is out of the prover's reach; for
a fixed rank it is a conjunction. `PendingEndsHolds` needs no count, since the repair
alone is enough for it, and holds for any limits.

The device of `TriesAgainHolds` is about to open a socket, about to arm a timer, or waits
for one (`UnconnectedCases`, `UnconnectedMoves`), and while it waits one socket's name
comes free (`SocketsEnd`), so a timer that is due can fire. Unfinished handlers disable
what is due for a moment, hence the strong fairness; it serves `JobsEndHolds` as well.
That they end (`IdleAgain`) is a rank of three: before a nested `start()`, in it, after it.

### Only model-checked

- `GoingOnIsEnabled` (through `NeverStuck`); like `DueCanRun` and `WorkGoesOn`, which no
  run lists, it is about ENABLED.
- `DeviceForgotten`, `DeadIsForgotten` and `DeletedForgotten`: what must end is a finite
  but arbitrary set of handlers or loads, so the rank is a cardinality and the argument
  again an induction over temporal formulas.

Every other property of a passing run is a theorem. Nothing is proved about
`AndroidDevice`.

## 5. Assumptions and limits

- One clock. `deadlineAt` is compared on several hosts; `overdue` is one set. The
  waiter's timer is taken to fire no earlier than `deadlineAt`, unless its delay is out of
  `setTimeout`'s range (`clamped`). Both start from
  the same duration and the timer starts later, but timers count whole
  milliseconds, so a tie within one millisecond is resolved as the code intends.
- A restarted API process is a new instance in `RpcRelay` (its identifier is
  generated at start) and the same name in `DeviceSessions`, where only its map
  and its handlers matter.
- Redis and PostgreSQL keep what they acknowledged. Losing their data is not
  modelled.
- A worker that is merely slow and whose job is run elsewhere at the same time is
  not modelled: a stalled attempt ends when the next one starts.
- `rebuildRecent` is one step; two overlapping rebuilds are not modelled.
- `cleanupOldMetrics`, which deletes old days, is left out. The rows that make the
  retention trim a row are not modelled: it may trim any row at any time.
- Redis executes a command at once. A `SET` of a load that reaches Redis after the
  client gave it up is covered by the command that takes effect and rejects, and so is
  a `SET`, `DEL` or `EXPIRE` of the gateway or the caches that is sent again: it ends
  as if it had run once, later.
- `SdkDevice` renames sockets: one that is closed and that nobody refers to may stand
  for the next one, so that reconnecting is not bounded.
- `AndroidDevice` takes accesses to its fields to be sequentially consistent. The JVM
  promises less for fields without `@Volatile`.
- Payloads, formats, logging, audit content and validation of frames are not
  modelled. No property is about them.

## 6. Not modelled

- Sequential code over one query or one request: app audit validation, system audit,
  monitor and dashboard, caller SDKs, filters, pipes and OpenAPI schemas. Two steps
  of different actors meet in them only in the database.
- The administration frontend, the scripts and the configuration: rendering, command
  lines and environment variables. They are much of the repository's text, and the
  models stand for little of it.
- Login and JWT signing in users and login; pagination and listing everywhere.
- Of the Android SDK, jobs, heartbeats and reported state; its two unguarded fields
  deserve a proof of `OneConnection` once finding 3 is settled.

Worth adding next: two overlapping `rebuildRecent`s, a worker that is slow while its job
runs elsewhere, and the metrics of a scope under trimming and recounts.
