------------------------------ MODULE RpcRelay ------------------------------
(***************************************************************************)
(* The life of one RPC inside the API cluster, from the moment a device    *)
(* has been selected: RpcService.dispatchAndAwaitResult on the calling     *)
(* instance, ConnectionRegistry on every instance, the device's result     *)
(* frame, and the Redis keys and channels the instances coordinate through.*)
(*                                                                         *)
(* A handler is cut where the code awaits Redis: a step is one Redis       *)
(* command (or publish) and the synchronous code up to the next await.     *)
(* Between two steps everything else may happen.  With Faults, a command   *)
(* may fail before or after it took effect (commandTimeout: 5000, a lost   *)
(* reply) or be sent again after a lost reply and run twice, a pub/sub     *)
(* message may be lost, and an instance may crash.                         *)
(* TTLs are modelled by the step that lets a key expire.                   *)
(***************************************************************************)
CONSTANTS
    Requests,   \* calls that reach dispatchAndAwaitResult, one requestId each
    Devices,    \* clientIds a call can be sent to
    Foreign,    \* clientIds that may return a result for a job not theirs
    Instances,  \* INSTANCE_IDENTIFIERs; a restarted process is a new one
    Results,    \* result frames received from sockets: bounds their number
    Faults,     \* whether Redis commands, messages and processes may fail
    None        \* absent key, unset field

ASSUME RelayConstants ==
    /\ None \notin Devices \cup Foreign \cup Instances \cup Results \cup Requests
    /\ Devices \cap Foreign = {}
    /\ Faults \in BOOLEAN

Clients == Devices \cup Foreign

VARIABLES
    up,         \* instances whose process runs
    session,    \* session[d]: instance part of client:session:<d>, or None
    sockets,    \* sockets[i]: the clientIds with an open socket in i's map
    phase,      \* phase[r]: where the call stands, see Phases
    home,       \* home[r]: the instance serving the call
    target,     \* target[r]: the device selected for it
    holder,     \* holder[r]: the instance dispatchJob read from the session
    overdue,    \* calls whose deadlineAt has passed
    waiters,    \* calls with an entry in their home instance's waiters map
    clamped,    \* calls whose timer is set for longer than it can: see Invoke
    promise,    \* promise[r]: state of the promise registerWaiter returned
    resolver,   \* resolver[r]: the result frame that promise resolved with
    outcome,    \* outcome[r]: what invoke returned
    waiterKey,  \* waiterKey[r]: value of rpc:waiter:<r>, or None
    completed,  \* calls whose rpc:completed:<r> key exists
    jobBus,     \* <<i, r>>: job messages published to ws:send:<i>
    resultBus,  \* <<i, m>>: result messages published to rpc:result:<i>
    delivered,  \* calls whose job was sent on a socket of the target
    task,       \* task[m]: the gateway's handling of result frame m
    releasing   \* <<i, m>>: subscriber handlers of i about to DEL completed

invokeVars == <<phase, home, target, holder, overdue, outcome>>
waiterVars == <<waiters, clamped, promise, resolver>>
redisVars == <<waiterKey, completed>>
busVars == <<jobBus, resultBus>>
linkVars == <<session, sockets>>
frameVars == <<task, releasing>>

vars == <<up, linkVars, invokeVars, waiterVars, redisVars, busVars,
          delivered, frameVars>>

-----------------------------------------------------------------------------
Phases == {"idle", "marking", "reading", "routing", "waiting", "answered",
           "lost"}
Steps == {"free", "lookup", "claim", "resolve", "release", "publish", "done"}
Acks == {"none", "ok", "late", "routed", "mismatch"}

Task == [step : Steps, request : Requests \cup {None},
         from : Clients \cup {None}, at : Instances \cup {None},
         waiterAt : Instances \cup {None}, ack : Acks]

TypeOK ==
    /\ up \subseteq Instances
    /\ session \in [Devices -> Instances \cup {None}]
    /\ sockets \in [Instances -> SUBSET Devices]
    /\ phase \in [Requests -> Phases]
    /\ home \in [Requests -> Instances \cup {None}]
    /\ target \in [Requests -> Devices \cup {None}]
    /\ holder \in [Requests -> Instances \cup {None}]
    /\ overdue \subseteq Requests
    /\ waiters \subseteq Requests
    /\ clamped \subseteq Requests
    /\ promise \in [Requests -> {"unset", "pending", "resolved", "rejected"}]
    /\ resolver \in [Requests -> Results \cup {None}]
    /\ outcome \in [Requests ->
           {"none", "success", "timeout", "unavailable", "error"}]
    /\ waiterKey \in [Requests -> Instances \cup {None}]
    /\ completed \subseteq Requests
    /\ jobBus \subseteq Instances \X Requests
    /\ resultBus \subseteq Instances \X Results
    /\ delivered \subseteq Requests
    /\ task \in [Results -> Task]
    /\ releasing \subseteq Instances \X Results

Init ==
    /\ up = Instances
    /\ session = [d \in Devices |-> None]
    /\ sockets = [i \in Instances |-> {}]
    /\ phase = [r \in Requests |-> "idle"]
    /\ home = [r \in Requests |-> None]
    /\ target = [r \in Requests |-> None]
    /\ holder = [r \in Requests |-> None]
    /\ overdue = {}
    /\ waiters = {}
    /\ clamped = {}
    /\ promise = [r \in Requests |-> "unset"]
    /\ resolver = [r \in Requests |-> None]
    /\ outcome = [r \in Requests |-> "none"]
    /\ waiterKey = [r \in Requests |-> None]
    /\ completed = {}
    /\ jobBus = {}
    /\ resultBus = {}
    /\ delivered = {}
    /\ task = [m \in Results |->
                  [step |-> "free", request |-> None, from |-> None,
                   at |-> None, waiterAt |-> None, ack |-> "none"]]
    /\ releasing = {}

-----------------------------------------------------------------------------
(* Device links, as far as routing sees them.  The connection lifecycle     *)
(* itself (tokens, ownership, clean-up) belongs to the gateway.             *)

\* register: the socket enters the local map, client:session names i.
Register(i, d) ==
    /\ i \in up
    /\ sockets' = [sockets EXCEPT ![i] = @ \cup {d}]
    /\ session' = [session EXCEPT ![d] = i]
    /\ UNCHANGED <<up, invokeVars, waiterVars, redisVars, busVars, delivered,
                   frameVars>>

\* The socket closes: not open any more, later removed from the map.
SocketCloses(i, d) ==
    /\ d \in sockets[i]
    /\ sockets' = [sockets EXCEPT ![i] = @ \ {d}]
    /\ UNCHANGED <<up, session, invokeVars, waiterVars, redisVars, busVars,
                   delivered, frameVars>>

\* unregister's compare-and-delete succeeds, or the key's 30 s TTL ends.
SessionEnds(d) ==
    /\ session[d] # None
    /\ session' = [session EXCEPT ![d] = None]
    /\ UNCHANGED <<up, sockets, invokeVars, waiterVars, redisVars, busVars,
                   delivered, frameVars>>

-----------------------------------------------------------------------------
(* The calling side: registerWaiter, markWaiting, dispatchJob, the await.   *)

\* The waiter enters the local map before anything is awaited.  timeoutSeconds
\* has no maximum (InvokeDto); Node runs a timer of more than 2^31 - 1 ms
\* after 1 ms, so the timer of such a call does not wait for its deadline.
Invoke(r, i, d) ==
    /\ phase[r] = "idle"
    /\ i \in up
    /\ phase' = [phase EXCEPT ![r] = "marking"]
    /\ home' = [home EXCEPT ![r] = i]
    /\ target' = [target EXCEPT ![r] = d]
    /\ waiters' = waiters \cup {r}
    /\ clamped' \in {clamped, clamped \cup {r}}
    /\ promise' = [promise EXCEPT ![r] = "pending"]
    /\ UNCHANGED <<up, linkVars, holder, overdue, outcome, resolver, redisVars,
                   busVars, delivered, frameVars>>

Ended(r) == phase[r] \in {"idle", "answered", "lost"}

\* Wall-clock time reaches deadlineAt = startedAt + timeout.  The deadline of
\* a clamped call lies more than 24 days off, long after the call has ended.
DeadlinePasses(r) ==
    /\ ~Ended(r)
    /\ r \notin overdue \cup clamped
    /\ overdue' = overdue \cup {r}
    /\ UNCHANGED <<up, linkVars, phase, home, target, holder, outcome,
                   waiterVars, redisVars, busVars, delivered, frameVars>>

\* Slip: the timer empties the map and forgets to reject.
TimerForgetsReject(r) ==
    /\ r \in waiters
    /\ r \in overdue \cup clamped
    /\ waiters' = waiters \ {r}
    /\ UNCHANGED <<up, linkVars, invokeVars, clamped, promise, resolver,
                   redisVars, busVars, delivered, frameVars>>

\* The waiter's timer, started after startedAt with the same duration.
WaiterTimesOut(r) ==
    /\ r \in waiters
    /\ r \in overdue \cup clamped
    /\ waiters' = waiters \ {r}
    /\ promise' = [promise EXCEPT ![r] = "rejected"]
    /\ UNCHANGED <<up, linkVars, invokeVars, clamped, resolver, redisVars,
                   busVars, delivered, frameVars>>

\* Slip: the dispatch does not wait for the key to be written.
MarkWaitingSkipped(r) ==
    /\ phase[r] = "marking"
    /\ phase' = [phase EXCEPT ![r] = "reading"]
    /\ UNCHANGED <<up, linkVars, home, target, holder, overdue, outcome,
                   waiterVars, redisVars, busVars, delivered, frameVars>>

\* SET rpc:waiter:<r> to the instance's own identifier.
MarkWaiting(r) ==
    /\ phase[r] = "marking"
    /\ waiterKey' = [waiterKey EXCEPT ![r] = home[r]]
    /\ phase' = [phase EXCEPT ![r] = "reading"]
    /\ UNCHANGED <<up, linkVars, home, target, holder, overdue, outcome,
                   waiterVars, completed, busVars, delivered, frameVars>>

\* Slip: a failed dispatch leaves the waiter behind.
WaiterNotCancelled(r) == UNCHANGED <<waiters, clamped, promise>>

CancelWaiter(r) ==
    /\ waiters' = waiters \ {r}
    /\ clamped' = clamped \ {r}
    /\ promise' = [promise EXCEPT ![r] = IF r \in waiters THEN "rejected" ELSE @]

\* Slip: the failure is not returned, the call goes on to await its promise.
GiveUpStillAwaits(r, o) ==
    /\ CancelWaiter(r)
    /\ phase' = [phase EXCEPT ![r] = "waiting"]
    /\ UNCHANGED <<up, linkVars, home, target, holder, overdue, outcome,
                   resolver, completed, delivered, frameVars>>

\* cancelWaiter, then invoke returns the failure o.
GiveUp(r, o) ==
    /\ CancelWaiter(r)
    /\ phase' = [phase EXCEPT ![r] = "answered"]
    /\ outcome' = [outcome EXCEPT ![r] = o]
    /\ UNCHANGED <<up, linkVars, home, target, holder, overdue, resolver,
                   completed, delivered, frameVars>>

\* GET client:session: no holder, or the instance to route to.
FindHolder(r) ==
    /\ phase[r] = "reading"
    /\ session[target[r]] # None
    /\ holder' = [holder EXCEPT ![r] = session[target[r]]]
    /\ phase' = [phase EXCEPT ![r] = "routing"]
    /\ UNCHANGED <<up, linkVars, home, target, overdue, outcome, waiterVars,
                   redisVars, busVars, delivered, frameVars>>

NoHolder(r) ==
    /\ phase[r] = "reading"
    /\ session[target[r]] = None
    /\ GiveUp(r, "unavailable")
    /\ UNCHANGED <<waiterKey, busVars>>

\* deliverLocalJob's conditions on instance i.
Deliverable(i, r) == target[r] \in sockets[i] /\ r \notin overdue

DeliverLocalJob(r) ==
    /\ phase[r] = "routing"
    /\ holder[r] = home[r]
    /\ Deliverable(home[r], r)
    /\ delivered' = delivered \cup {r}
    /\ phase' = [phase EXCEPT ![r] = "waiting"]
    /\ UNCHANGED <<up, linkVars, home, target, holder, overdue, outcome,
                   waiterVars, redisVars, busVars, frameVars>>

RefuseLocalJob(r) ==
    /\ phase[r] = "routing"
    /\ holder[r] = home[r]
    /\ ~Deliverable(home[r], r)
    /\ GiveUp(r, "unavailable")
    /\ UNCHANGED <<waiterKey, busVars>>

\* Publishing reaches an instance only while its process is subscribed.
PublishedJob(r) ==
    IF holder[r] \in up THEN jobBus \cup {<<holder[r], r>>} ELSE jobBus

ForwardJob(r) ==
    /\ phase[r] = "routing"
    /\ holder[r] # home[r]
    /\ jobBus' = PublishedJob(r)
    /\ phase' = [phase EXCEPT ![r] = "waiting"]
    /\ UNCHANGED <<up, linkVars, home, target, holder, overdue, outcome,
                   waiterVars, redisVars, resultBus, delivered, frameVars>>

\* The command of markWaiting or dispatchJob that rejects, applied or not.
FailedCommand(r) ==
    \/ /\ phase[r] = "marking"
       /\ waiterKey' \in {waiterKey, [waiterKey EXCEPT ![r] = home[r]]}
       /\ UNCHANGED busVars
    \/ /\ phase[r] = "reading"
       /\ UNCHANGED <<waiterKey, busVars>>
    \/ /\ phase[r] = "routing"
       /\ holder[r] # home[r]
       /\ jobBus' \in {jobBus, PublishedJob(r)}
       /\ UNCHANGED <<waiterKey, resultBus>>

\* Slip: an exception is reported like a refused delivery.
DispatchFailsAsUnavailable(r) ==
    Faults /\ FailedCommand(r) /\ GiveUp(r, "unavailable")

DispatchFails(r) == Faults /\ FailedCommand(r) /\ GiveUp(r, "error")

\* A command that ran is sent again, its reply lost with the connection
\* (maxRetriesPerRequest: 2); the call still waits for it.
CommandSentAgain(r) ==
    /\ Faults
    /\ \/ /\ phase[r] = "marking"
          /\ waiterKey' = [waiterKey EXCEPT ![r] = home[r]]
          /\ UNCHANGED jobBus
       \/ /\ phase[r] = "routing"
          /\ holder[r] # home[r]
          /\ jobBus' = PublishedJob(r)
          /\ UNCHANGED waiterKey
    /\ UNCHANGED <<up, linkVars, invokeVars, waiterVars, completed, resultBus,
                   delivered, frameVars>>

\* The await of the result promise ends: success, or timeout when rejected.
AwaitEnds(r) ==
    /\ phase[r] = "waiting"
    /\ promise[r] # "pending"
    /\ outcome' = [outcome EXCEPT ![r] =
           IF promise[r] = "resolved" THEN "success" ELSE "timeout"]
    /\ phase' = [phase EXCEPT ![r] = "answered"]
    /\ UNCHANGED <<up, linkVars, home, target, holder, overdue, waiterVars,
                   redisVars, busVars, delivered, frameVars>>

\* The ws:send subscriber of i: deliverLocalJob, its refusal ignored.
ReceiveJob(i, r) ==
    /\ <<i, r>> \in jobBus
    /\ jobBus' = jobBus \ {<<i, r>>}
    /\ delivered' = IF Deliverable(i, r) THEN delivered \cup {r} ELSE delivered
    /\ UNCHANGED <<up, linkVars, invokeVars, waiterVars, redisVars, resultBus,
                   frameVars>>

-----------------------------------------------------------------------------
(* The result side: ConnectionRegistry.handleResult, cut at its awaits.     *)

\* A client that was given the job (or a foreign one) returns a result on
\* any live connection it has, an already replaced one included.
ReceiveResult(m, r, c, i) ==
    /\ task[m].step = "free"
    /\ r \in delivered
    /\ c \in {target[r]} \cup Foreign
    /\ i \in up
    /\ task' = [task EXCEPT ![m] =
           [step |-> "lookup", request |-> r, from |-> c, at |-> i,
            waiterAt |-> None, ack |-> "none"]]
    /\ UNCHANGED <<up, linkVars, invokeVars, waiterVars, redisVars, busVars,
                   delivered, releasing>>

\* The handler returns the outcome a for the resultAck.
Finished(m, a) == [task EXCEPT ![m] = [@ EXCEPT !.step = "done", !.ack = a]]

\* GET rpc:waiter.
LookUpWaiter(m) ==
    LET key == waiterKey[task[m].request] IN
    /\ task[m].step = "lookup"
    /\ task' = IF key = None
               THEN Finished(m, "late")
               ELSE [task EXCEPT ![m] = [@ EXCEPT !.step = "claim", !.waiterAt = key]]
    /\ UNCHANGED <<up, linkVars, invokeVars, waiterVars, redisVars, busVars,
                   delivered, releasing>>

\* SET rpc:completed NX.
ClaimCompleted(m) ==
    LET r == task[m].request IN
    /\ task[m].step = "claim"
    /\ completed' = completed \cup {r}
    /\ task' = IF r \in completed
               THEN Finished(m, "late")
               ELSE [task EXCEPT ![m].step =
                        IF task[m].waiterAt = task[m].at THEN "resolve"
                        ELSE "publish"]
    /\ UNCHANGED <<up, linkVars, invokeVars, waiterVars, waiterKey, busVars,
                   delivered, releasing>>

\* Slip: the identity of the socket's client is not compared.
AcceptsAnyClient(i, m) ==
    LET r == task[m].request IN r \in waiters /\ home[r] = i

\* Slip: the waiter is not looked up again after the awaits.
AcceptsSettled(i, m) ==
    LET r == task[m].request IN home[r] = i /\ task[m].from = target[r]

\* resolveLocalWaiter's condition on instance i.
Accepts(i, m) ==
    LET r == task[m].request IN
    r \in waiters /\ home[r] = i /\ task[m].from = target[r]

\* resolveLocalWaiter's effect.
ResolveWaiter(m) ==
    LET r == task[m].request IN
    /\ waiters' = waiters \ {r}
    /\ clamped' = clamped \ {r}
    /\ promise' = [promise EXCEPT ![r] = "resolved"]
    /\ resolver' = [resolver EXCEPT ![r] = m]

ResolveLocally(m) ==
    /\ task[m].step = "resolve"
    /\ \/ /\ Accepts(task[m].at, m)
          /\ ResolveWaiter(m)
          /\ task' = Finished(m, "ok")
       \/ /\ ~Accepts(task[m].at, m)
          /\ task' = [task EXCEPT ![m].step = "release"]
          /\ UNCHANGED waiterVars
    /\ UNCHANGED <<up, linkVars, invokeVars, redisVars, busVars, delivered,
                   releasing>>

\* Slip: the refusal keeps rpc:completed.
RefusalKeepsCompleted(m) ==
    /\ task[m].step = "release"
    /\ task' = Finished(m, "mismatch")
    /\ UNCHANGED <<up, linkVars, invokeVars, waiterVars, redisVars, busVars,
                   delivered, releasing>>

\* DEL rpc:completed after a local refusal.
ReleaseCompleted(m) ==
    /\ task[m].step = "release"
    /\ completed' = completed \ {task[m].request}
    /\ task' = Finished(m, "mismatch")
    /\ UNCHANGED <<up, linkVars, invokeVars, waiterVars, waiterKey, busVars,
                   delivered, releasing>>

PublishedResult(m) ==
    LET i == task[m].waiterAt IN
    IF i \in up THEN resultBus \cup {<<i, m>>} ELSE resultBus

PublishResult(m) ==
    /\ task[m].step = "publish"
    /\ resultBus' = PublishedResult(m)
    /\ task' = Finished(m, "routed")
    /\ UNCHANGED <<up, linkVars, invokeVars, waiterVars, redisVars, jobBus,
                   delivered, releasing>>

\* The rpc:result subscriber of i: resolve, or go on to DEL rpc:completed.
ReceiveRoutedResult(i, m) ==
    /\ <<i, m>> \in resultBus
    /\ resultBus' = resultBus \ {<<i, m>>}
    /\ \/ /\ Accepts(i, m)
          /\ ResolveWaiter(m)
          /\ UNCHANGED releasing
       \/ /\ ~Accepts(i, m)
          /\ releasing' = releasing \cup {<<i, m>>}
          /\ UNCHANGED waiterVars
    /\ UNCHANGED <<up, linkVars, invokeVars, redisVars, jobBus, delivered, task>>

ReleaseRouted(i, m) ==
    /\ <<i, m>> \in releasing
    /\ releasing' = releasing \ {<<i, m>>}
    /\ completed' = completed \ {task[m].request}
    /\ UNCHANGED <<up, linkVars, invokeVars, waiterVars, waiterKey, busVars,
                   delivered, task>>

\* A command of handleResult rejects, applied or not: onMessage logs it and
\* sends no resultAck.
ResultFails(m) ==
    LET r == task[m].request IN
    /\ Faults
    /\ \/ /\ task[m].step = "lookup"
          /\ UNCHANGED <<completed, resultBus>>
       \/ /\ task[m].step = "claim"
          /\ completed' \in {completed, completed \cup {r}}
          /\ UNCHANGED resultBus
       \/ /\ task[m].step = "release"
          /\ completed' \in {completed, completed \ {r}}
          /\ UNCHANGED resultBus
       \/ /\ task[m].step = "publish"
          /\ resultBus' \in {resultBus, PublishedResult(m)}
          /\ UNCHANGED completed
    /\ task' = Finished(m, "none")
    /\ UNCHANGED <<up, linkVars, invokeVars, waiterVars, waiterKey, jobBus,
                   delivered, releasing>>

\* The same for the commands of handleResult: the second SET NX finds the key
\* of the first, a second publish brings the result again.
ResultSentAgain(m) ==
    /\ Faults
    /\ \/ /\ task[m].step = "claim"
          /\ completed' = completed \cup {task[m].request}
          /\ UNCHANGED resultBus
       \/ /\ task[m].step = "publish"
          /\ resultBus' = PublishedResult(m)
          /\ UNCHANGED completed
    /\ UNCHANGED <<up, linkVars, invokeVars, waiterVars, waiterKey, jobBus,
                   delivered, frameVars>>

-----------------------------------------------------------------------------
(* Time and failures.                                                       *)

\* Slip: the key's TTL does not cover the waiter's timer.
WaiterKeyExpiresEarly(r) ==
    /\ waiterKey[r] # None
    /\ waiterKey' = [waiterKey EXCEPT ![r] = None]
    /\ UNCHANGED <<up, linkVars, invokeVars, waiterVars, completed, busVars,
                   delivered, frameVars>>

\* PX timeout + 5000, set after the waiter's timer was started: the key
\* outlives the waiter.
WaiterKeyExpires(r) ==
    /\ waiterKey[r] # None
    /\ r \notin waiters
    /\ waiterKey' = [waiterKey EXCEPT ![r] = None]
    /\ UNCHANGED <<up, linkVars, invokeVars, waiterVars, completed, busVars,
                   delivered, frameVars>>

\* EX 60; timeoutSeconds has no upper bound, so the waiter may live longer.
CompletedExpires(r) ==
    /\ r \in completed
    /\ completed' = completed \ {r}
    /\ UNCHANGED <<up, linkVars, invokeVars, waiterVars, waiterKey, busVars,
                   delivered, frameVars>>

\* Redis pub/sub delivers at most once.
LoseMessage ==
    /\ Faults
    /\ \/ \E p \in jobBus : jobBus' = jobBus \ {p} /\ UNCHANGED resultBus
       \/ \E p \in resultBus : resultBus' = resultBus \ {p} /\ UNCHANGED jobBus
    /\ UNCHANGED <<up, linkVars, invokeVars, waiterVars, redisVars, delivered,
                   frameVars>>

\* The subscriber's DEL rejects; ClusterBus logs the handler's error.
LoseRelease(i, m) ==
    /\ Faults
    /\ <<i, m>> \in releasing
    /\ releasing' = releasing \ {<<i, m>>}
    /\ UNCHANGED <<up, linkVars, invokeVars, waiterVars, redisVars, busVars,
                   delivered, task>>

\* The process dies with its maps, its running handlers and subscriptions;
\* Redis keys stay until they expire.
Crash(i) ==
    /\ Faults
    /\ i \in up
    /\ up' = up \ {i}
    /\ sockets' = [sockets EXCEPT ![i] = {}]
    /\ phase' = [r \in Requests |->
           IF home[r] = i /\ ~Ended(r) THEN "lost" ELSE phase[r]]
    /\ waiters' = {r \in waiters : home[r] # i}
    /\ clamped' = clamped \ {r \in waiters : home[r] = i}
    /\ jobBus' = {p \in jobBus : p[1] # i}
    /\ resultBus' = {p \in resultBus : p[1] # i}
    /\ releasing' = {p \in releasing : p[1] # i}
    /\ task' = [m \in Results |->
           IF task[m].at = i THEN [task[m] EXCEPT !.step = "done"] ELSE task[m]]
    /\ UNCHANGED <<session, home, target, holder, overdue, outcome, promise,
                   resolver, redisVars, delivered>>

-----------------------------------------------------------------------------
CallStep(r) ==
    \/ DeadlinePasses(r) \/ WaiterTimesOut(r)
    \/ MarkWaiting(r) \/ FindHolder(r) \/ NoHolder(r)
    \/ DeliverLocalJob(r) \/ RefuseLocalJob(r) \/ ForwardJob(r)
    \/ DispatchFails(r) \/ CommandSentAgain(r) \/ AwaitEnds(r)
    \/ WaiterKeyExpires(r) \/ CompletedExpires(r)

ResultStep(m) ==
    \/ LookUpWaiter(m) \/ ClaimCompleted(m) \/ ResolveLocally(m)
    \/ ReleaseCompleted(m) \/ PublishResult(m)
    \/ ResultFails(m) \/ ResultSentAgain(m)

InstanceStep(i) ==
    \/ \E d \in Devices : Register(i, d) \/ SocketCloses(i, d)
    \/ \E r \in Requests : ReceiveJob(i, r)
    \/ \E m \in Results :
        ReceiveRoutedResult(i, m) \/ ReleaseRouted(i, m) \/ LoseRelease(i, m)
    \/ Crash(i)

Next ==
    \/ \E r \in Requests :
        \/ CallStep(r)
        \/ \E i \in Instances, d \in Devices : Invoke(r, i, d)
    \/ \E m \in Results :
        \/ ResultStep(m)
        \/ \E r \in Requests, c \in Clients, i \in Instances :
               ReceiveResult(m, r, c, i)
    \/ \E i \in Instances : InstanceStep(i)
    \/ \E d \in Devices : SessionEnds(d)
    \/ LoseMessage

Spec == Init /\ [][Next]_vars

\* What the event loop of a living instance does on its own: Redis replies or
\* rejects within commandTimeout, timers fire, promises settle.
CallProgress(r) ==
    \/ DeadlinePasses(r) \/ WaiterTimesOut(r)
    \/ MarkWaiting(r) \/ FindHolder(r) \/ NoHolder(r)
    \/ DeliverLocalJob(r) \/ RefuseLocalJob(r) \/ ForwardJob(r)
    \/ AwaitEnds(r)

CallFair(r) == WF_vars(CallProgress(r))

FairSpec == Spec /\ \A r \in Requests : CallFair(r)

-----------------------------------------------------------------------------
(* Correctness.                                                             *)

\* The waiters map holds exactly the calls still owed a settlement: a pending
\* promise always has a waiter whose timer can reject it (registerWaiter,
\* cancelWaiter, resolveLocalWaiter), and no waiter outlives its call.
WaitersMatchCalls ==
    \A r \in Requests :
        r \in waiters <=> ~Ended(r) /\ promise[r] = "pending"

\* While a caller waits for a job that has left the instance, rpc:waiter names
\* that instance: no result of the job can find the key missing (markWaiting is
\* awaited before dispatchJob, connection.registry.ts:190).
WaiterKeyBeforeJob ==
    \A r \in waiters :
        (r \in delivered \/ \E i \in Instances : <<i, r>> \in jobBus)
            => waiterKey[r] = home[r]

\* A resultAck "ok" is the truth: that very frame settled the call, and the
\* caller gets it unless the dispatch itself was reported as failed or the
\* serving process died.
AckOkMeansAnswered ==
    \A m \in Results :
        LET r == task[m].request IN
        task[m].ack = "ok" =>
            /\ resolver[r] = m
            /\ phase[r] = "answered" => outcome[r] \in {"success", "error"}

\* "unavailable" promises that the device has not been and will not be given
\* the job, so the caller may repeat the call elsewhere.  "error", which is a
\* 503 too, promises nothing: its job may have been published and delivered.
UnavailableMeansNotSent ==
    \A r \in Requests :
        outcome[r] = "unavailable" =>
            /\ r \notin delivered
            /\ \A i \in Instances : <<i, r>> \notin jobBus

\* The catch that turns any rejection into "timeout" (504) never reports one
\* before the deadline: cancelWaiter's rejections do not reach it.  The only
\* exception is a timeout setTimeout cannot hold, whose timer fires at once.
TimeoutMeansOverdue ==
    \A r \in Requests : outcome[r] = "timeout" => r \in overdue \cup clamped

\* Someone is about to resolve r with a frame, or to give rpc:completed back.
Carried(r) ==
    \E m \in Results :
        /\ task[m].request = r
        /\ \/ task[m].step \in {"resolve", "release", "publish"}
           \/ \E i \in Instances :
                  <<i, m>> \in resultBus \/ <<i, m>> \in releasing

\* Without faults, rpc:completed never stays taken while the caller waits and
\* nobody is left to resolve the call or release the key.
CompletedIsCarried ==
    \A r \in waiters : r \in completed => Carried(r)

\* Frame m is on its way to settle r.
Bringing(m, r) ==
    /\ task[m].request = r
    /\ \/ task[m].step \in {"resolve", "publish"}
       \/ \E i \in Instances : <<i, m>> \in resultBus

\* As long as only the addressed device answers, none of its results is turned
\* away as "late" while the caller still waits, unless another one is being
\* brought to the caller (connection.registry.ts:212: the completed slot must
\* not block a later legitimate result).
PromptResultNotLate ==
    \A m \in Results :
        LET r == task[m].request IN
        /\ task[m].ack = "late"
        /\ r \in waiters
        /\ \A n \in Results : task[n].request = r => task[n].from = target[r]
        => \E n \in Results \ {m} : Bringing(n, r)

\* Every call ends: it is answered, or its process has died.
EveryCallEnds ==
    \A r \in Requests : phase[r] = "marking" ~> Ended(r)

\* An open call is never out of moves, whatever was lost or has crashed: a
\* command is under way, its timer can fire or its promise is settled.
NeverStuck ==
    \A r \in Requests : ~Ended(r) => ENABLED <<CallProgress(r)>>_vars

\* The guards of CallProgress as a state predicate, and the fact that they are
\* all it needs: what the proof of EveryCallEnds takes from the run that
\* checks NeverStuck, ENABLED being beyond the prover.
CallCanGoOn(r) ==
    /\ ~Ended(r)
    /\ \/ phase[r] \in {"marking", "reading", "routing"}
       \/ r \notin overdue \cup clamped
       \/ r \in waiters
       \/ promise[r] # "pending"

GoingOnIsEnabled ==
    \A r \in Requests : CallCanGoOn(r) => ENABLED <<CallProgress(r)>>_vars

(* The inductive invariant behind the theorems of RpcRelay_proofs.          *)

CallsWellFormed ==
    \A r \in Requests :
        /\ phase[r] = "idle" => promise[r] = "unset"
        /\ phase[r] # "idle" => /\ home[r] \in Instances
                                /\ target[r] \in Devices
                                /\ promise[r] # "unset"
        /\ phase[r] = "routing" => holder[r] \in Instances
        /\ outcome[r] # "none" <=> phase[r] = "answered"

FramesWellFormed ==
    /\ \A m \in Results :
        /\ task[m].step # "free" =>
               /\ task[m].request \in delivered
               /\ task[m].from \in {target[task[m].request]} \cup Foreign
               /\ task[m].at \in Instances
        /\ task[m].step \in {"claim", "resolve", "release", "publish"} =>
               task[m].waiterAt \in Instances
        /\ task[m].step = "free" => task[m].at = None
        /\ task[m].ack # "none" => task[m].step = "done"
    /\ \A p \in resultBus \cup releasing :
           \/ task[p[2]].step = "done"
           \/ Faults /\ task[p[2]].step = "publish"

JobsOfOpenCalls ==
    \A r \in Requests :
        (r \in delivered \/ \E i \in Instances : <<i, r>> \in jobBus) =>
            /\ \/ phase[r] \in {"waiting", "answered", "lost"}
               \/ Faults /\ phase[r] = "routing" /\ holder[r] # home[r]
            /\ outcome[r] # "unavailable"

SettledByTarget ==
    \A r \in Requests :
        /\ promise[r] = "resolved" <=> resolver[r] # None
        /\ promise[r] = "resolved" =>
               /\ task[resolver[r]].step # "free"
               /\ task[resolver[r]].request = r
               /\ task[resolver[r]].from = target[r]
        /\ outcome[r] = "success" => promise[r] = "resolved"
        /\ outcome[r] = "timeout" => promise[r] = "rejected"
        /\ promise[r] = "rejected" /\ ~Ended(r) => r \in overdue \cup clamped
        /\ outcome[r] = "timeout" => r \in overdue \cup clamped

WaiterKeySet ==
    \A r \in waiters :
        phase[r] \in {"reading", "routing", "waiting"} => waiterKey[r] = home[r]

AckOkResolved ==
    \A m \in Results : task[m].ack = "ok" => resolver[task[m].request] = m

IInv ==
    /\ TypeOK
    /\ CallsWellFormed
    /\ FramesWellFormed
    /\ WaitersMatchCalls
    /\ JobsOfOpenCalls
    /\ SettledByTarget
    /\ WaiterKeySet
    /\ AckOkResolved

(* What holds on top of it while nothing fails: the routing key can only name *)
(* the calling instance, so a frame is turned down there or not at all.       *)

\* resolveLocalWaiter has no reason left to accept the frame.
Refused(m) ==
    LET r == task[m].request IN r \notin waiters \/ task[m].from # target[r]

KeysNameHome ==
    /\ up = Instances
    /\ completed \subseteq delivered
    /\ \A r \in Requests :
        /\ phase[r] = "idle" => waiterKey[r] = None
        /\ waiterKey[r] \in {None, home[r]}

FrameGoesHome(m) ==
    LET r == task[m].request IN
    /\ task[m].step = "free" => r = None
    /\ task[m].step \in {"claim", "resolve", "publish"} =>
           task[m].waiterAt = home[r]
    /\ task[m].step = "resolve" => task[m].at = home[r]
    /\ task[m].step = "release" => Refused(m)

FramesGoHome ==
    /\ \A m \in Results : FrameGoesHome(m)
    /\ \A p \in resultBus : p[1] = home[task[p[2]].request]
    /\ \A p \in releasing : Refused(p[2])

OrderedInv ==
    /\ IInv
    /\ KeysNameHome
    /\ FramesGoHome
    /\ CompletedIsCarried
    /\ PromptResultNotLate

-----------------------------------------------------------------------------
\* The abstract call each request implements.
CallState(r) ==
    IF phase[r] \in {"idle", "answered", "lost"} THEN phase[r] ELSE "open"

CallBar == [r \in Requests |-> CallState(r)]

\* Whose result a successful call returned.
AnswererBar ==
    [r \in Requests |->
        IF outcome[r] = "success" THEN task[resolver[r]].from ELSE None]

Call == INSTANCE RpcCall WITH
    call <- CallBar, addressee <- target, answerer <- AnswererBar

\* A call is answered once, for good, and only with its own device's result.
ImplementsRpcCall == Call!Spec
=============================================================================
