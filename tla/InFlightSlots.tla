--------------------------- MODULE InFlightSlots ---------------------------
(***************************************************************************)
(* The in-flight slots of the devices: RpcService.selectDevice and the     *)
(* release in RpcService.invoke on one side, the connection handlers of    *)
(* WsGateway on the other, both working on the Redis keys of               *)
(* PresenceService: presence, device:maxinflight and device:inflight.      *)
(* Which connection registers or cleans up is the subject of               *)
(* DeviceSessions; here a device has at most one registration and one      *)
(* clean-up running, and they may overlap.                                 *)
(*                                                                         *)
(* A step is one awaited Redis command and the synchronous code after it.  *)
(* An absent key is the limit 0 or the count 0.  With Faults a command may *)
(* fail, applied or not, and one whose reply is lost with the connection   *)
(* is sent again, so that it runs twice.                                   *)
(***************************************************************************)
EXTENDS Integers, FiniteSets

CONSTANTS
    Devices,
    Calls,
    Declarations, \* maxInFlight values a device may report when it connects
    Default,      \* DEFAULT_IN_FLIGHT_CAPACITY
    Maximum,      \* MAXIMUM_IN_FLIGHT_CAPACITY
    Sessions,     \* how often a device connects: a bound
    Faults,       \* commands fail, keys expire under a live device, crashes
    None

ASSUME SlotsConstants ==
    /\ Declarations \subseteq Int
    /\ Maximum \in Nat
    /\ Default \in 1 .. Maximum
    /\ Sessions \in Nat
    /\ Faults \in BOOLEAN
    /\ None \notin Devices
    /\ IsFiniteSet(Calls)

VARIABLES
    up,         \* up[d]: next step of registerConnection
    down,       \* down[d]: next step of offline
    attached,   \* devices with a connection that is not being cleaned up
    capacity,   \* capacity[d]: _maxInFlight of its last connection
    sessions,   \* sessions[d]: connections so far
    online,     \* devices with a presence key
    limit,      \* limit[d]: device:maxinflight
    count,      \* count[d]: device:inflight
    pc,         \* pc[r]: next step of call r
    unlisted,   \* unlisted[r]: members listOnline has yet to look up
    candidates, \* candidates[r]: devices r has yet to try
    target,     \* target[r]: the device r tries or holds
    bound,      \* bound[r]: the limit r read for it
    fresh,      \* holders that acquired since their device's last reset
    disturbed,  \* devices whose count others wrote since that reset
    leaked,     \* leaked[d]: slots nobody will release, in its count
    unrepaired  \* devices whose last release may have been cut short

deviceVars == <<up, down, attached, capacity, sessions>>
callVars == <<pc, unlisted, candidates, target, bound>>
history == <<fresh, disturbed, leaked, unrepaired>>
vars == <<deviceVars, online, limit, count, callVars, history>>

-----------------------------------------------------------------------------
TypeOK ==
    /\ up \in [Devices -> {"idle", "limit", "reset"}]
    /\ down \in [Devices -> {"idle", "limit", "count"}]
    /\ attached \subseteq Devices
    /\ capacity \in [Devices -> 0 .. Maximum]
    /\ sessions \in [Devices -> 0 .. Sessions]
    /\ online \subseteq Devices
    /\ limit \in [Devices -> 0 .. Maximum]
    /\ count \in [Devices -> Int]
    /\ pc \in [Calls -> {"new", "list", "pick", "acquire", "held", "again", "zero", "done"}]
    /\ unlisted \in [Calls -> SUBSET Devices]
    /\ candidates \in [Calls -> SUBSET Devices]
    /\ target \in [Calls -> Devices \cup {None}]
    /\ bound \in [Calls -> 0 .. Maximum]
    /\ fresh \subseteq Calls
    /\ disturbed \subseteq Devices
    /\ leaked \in [Devices -> Nat]
    /\ unrepaired \subseteq Devices

Init ==
    /\ up = [d \in Devices |-> "idle"]
    /\ down = [d \in Devices |-> "idle"]
    /\ attached = {}
    /\ capacity = [d \in Devices |-> 0]
    /\ sessions = [d \in Devices |-> 0]
    /\ online = {}
    /\ limit = [d \in Devices |-> 0]
    /\ count = [d \in Devices |-> 0]
    /\ pc = [r \in Calls |-> "new"]
    /\ unlisted = [r \in Calls |-> {}]
    /\ candidates = [r \in Calls |-> {}]
    /\ target = [r \in Calls |-> None]
    /\ bound = [r \in Calls |-> 0]
    /\ fresh = {}
    /\ disturbed = {}
    /\ leaked = [d \in Devices |-> 0]
    /\ unrepaired = {}

\* Slip: a report above the maximum is adopted.
DefaultedOnly(n) == IF n < 1 THEN Default ELSE n

\* clampMaxInFlight: the default for what is no positive integer, at most
\* the maximum.
Clamp(n) ==
    IF n < 1 THEN Default
    ELSE IF n > Maximum THEN Maximum ELSE n

\* The calls that hold a slot of d, whichever session they took it in.
Holding(d) == {r \in Calls : pc[r] = "held" /\ target[r] = d}

\* Where a handler stands once a command has run: at its next step, or at the
\* same one when the client sends the command again (maxRetriesPerRequest: 2).
Onward(here, next) == IF Faults THEN {here, next} ELSE {next}

-----------------------------------------------------------------------------
(* The device's connections.                                                *)

\* authenticate, register and presence.online.
Appear(d) ==
    /\ up[d] = "idle"
    /\ sessions[d] < Sessions
    /\ \E n \in Declarations : capacity' = [capacity EXCEPT ![d] = Clamp(n)]
    /\ sessions' = [sessions EXCEPT ![d] = @ + 1]
    /\ attached' = attached \cup {d}
    /\ online' = online \cup {d}
    /\ up' = [up EXCEPT ![d] = "limit"]
    /\ UNCHANGED <<down, limit, count, callVars, history>>

SetMaxInFlight(d) ==
    /\ up[d] = "limit"
    /\ limit' = [limit EXCEPT ![d] = capacity[d]]
    /\ \E s \in Onward("limit", "reset") : up' = [up EXCEPT ![d] = s]
    /\ UNCHANGED <<down, attached, capacity, sessions, online, count, callVars,
                   history>>

\* DEL device:inflight
CountDeleted(d) == [count EXCEPT ![d] = 0]

\* The reset opens a new period: slots taken before it are not fresh.
ResetInFlight(d) ==
    /\ up[d] = "reset"
    /\ count' = CountDeleted(d)
    /\ fresh' = fresh \ Holding(d)
    /\ disturbed' = disturbed \ {d}
    /\ leaked' = [leaked EXCEPT ![d] = 0]
    /\ unrepaired' = unrepaired \ {d}
    /\ \E s \in Onward("reset", "idle") : up' = [up EXCEPT ![d] = s]
    /\ UNCHANGED <<down, attached, capacity, sessions, online, limit, callVars>>

\* A command rejects; what it may have done is what the next step does.
RegistrationFails(d) ==
    /\ Faults
    /\ up[d] # "idle"
    /\ up' = [up EXCEPT ![d] = "idle"]
    /\ UNCHANGED <<down, attached, capacity, sessions, online, limit, count,
                   callVars, history>>

\* handleHeartbeat refreshes presence (EXPIRE) and writes the limit again.
Heartbeat(d) ==
    /\ d \in attached /\ up[d] = "idle"
    /\ limit' = [limit EXCEPT ![d] = capacity[d]]
    /\ UNCHANGED <<deviceVars, online, count, callVars, history>>

\* The owner's disconnect: offline starts with DEL presence.
Disappear(d) ==
    /\ d \in attached /\ down[d] = "idle"
    /\ attached' = attached \ {d}
    /\ online' = online \ {d}
    /\ down' = [down EXCEPT ![d] = "limit"]
    /\ UNCHANGED <<up, capacity, sessions, limit, count, callVars, history>>

DropLimit(d) ==
    /\ down[d] = "limit"
    /\ limit' = [limit EXCEPT ![d] = 0]
    /\ \E s \in Onward("limit", "count") : down' = [down EXCEPT ![d] = s]
    /\ UNCHANGED <<up, attached, capacity, sessions, online, count, callVars,
                   history>>

\* It may come after the reset of a newer connection.
DropCount(d) ==
    /\ down[d] = "count"
    /\ count' = CountDeleted(d)
    /\ disturbed' = disturbed \cup {d}
    /\ leaked' = [leaked EXCEPT ![d] = 0]
    /\ unrepaired' = unrepaired \ {d}
    /\ \E s \in Onward("count", "idle") : down' = [down EXCEPT ![d] = s]
    /\ UNCHANGED <<up, attached, capacity, sessions, online, limit, callVars,
                   fresh>>

CleanUpFails(d) ==
    /\ Faults
    /\ down[d] # "idle"
    /\ down' = [down EXCEPT ![d] = "idle"]
    /\ UNCHANGED <<up, attached, capacity, sessions, online, limit, count,
                   callVars, history>>

\* The TTLs of the presence key and of the limit end.
KeyExpires(d) ==
    /\ Faults \/ d \notin attached
    /\ \/ online' = online \ {d} /\ UNCHANGED limit
       \/ limit' = [limit EXCEPT ![d] = 0] /\ UNCHANGED online
    /\ UNCHANGED <<deviceVars, count, callVars, history>>

-----------------------------------------------------------------------------
(* A call.                                                                  *)

\* acquireRequestedDevice: EXISTS of the device the caller names.
Request(r, d) ==
    /\ pc[r] = "new"
    /\ IF d \in online
       THEN /\ candidates' = [candidates EXCEPT ![r] = {d}]
            /\ pc' = [pc EXCEPT ![r] = "pick"]
       ELSE /\ pc' = [pc EXCEPT ![r] = "done"]  \* offline, 503
            /\ UNCHANGED candidates
    /\ UNCHANGED <<deviceVars, online, limit, count, unlisted, target, bound,
                   history>>

\* acquireAvailableDevice: SMEMBERS of the project.
RequestAny(r) ==
    /\ pc[r] = "new"
    /\ pc' = [pc EXCEPT ![r] = "list"]
    /\ unlisted' = [unlisted EXCEPT ![r] = Devices]
    /\ UNCHANGED <<deviceVars, online, limit, count, candidates, target, bound,
                   history>>

\* listOnline looks the members up one by one.
LookUp(r, d) ==
    /\ pc[r] = "list" /\ d \in unlisted[r]
    /\ unlisted' = [unlisted EXCEPT ![r] = @ \ {d}]
    /\ candidates' = [candidates EXCEPT ![r] = @ \cup ({d} \cap online)]
    /\ pc' = [pc EXCEPT ![r] =
           IF unlisted[r] # {d} THEN "list"
           ELSE IF candidates'[r] = {} THEN "done"  \* no_device, 503
           ELSE "pick"]
    /\ UNCHANGED <<deviceVars, online, limit, count, target, bound, history>>

\* getMaxInFlight of the next device (the round-robin cursor's order is left
\* out: any order).
ReadLimit(r, d) ==
    /\ pc[r] = "pick" /\ d \in candidates[r]
    /\ target' = [target EXCEPT ![r] = d]
    /\ bound' = [bound EXCEPT ![r] = Clamp(limit[d])]
    /\ candidates' = [candidates EXCEPT ![r] = @ \ {d}]
    /\ pc' = [pc EXCEPT ![r] = "acquire"]
    /\ UNCHANGED <<deviceVars, online, limit, count, unlisted, history>>

\* Slip: a refused INCR is not taken back.
CountedAlways(r) == [count EXCEPT ![target[r]] = @ + 1]

\* Slip: the slot above the limit is handed out too.
RoomForOneMore(r) == count[target[r]] <= bound[r]

\* ACQUIRE_SLOT_LUA: INCR, and DECR again when that exceeds the limit.
HasRoom(r) == count[target[r]] + 1 <= bound[r]
Counted(r) == [count EXCEPT ![target[r]] = IF HasRoom(r) THEN @ + 1 ELSE @]

Acquire(r) ==
    /\ pc[r] = "acquire"
    /\ count' = Counted(r)
    /\ IF HasRoom(r)
       THEN /\ pc' = [pc EXCEPT ![r] = "held"]
            /\ fresh' = fresh \cup {r}
       ELSE /\ pc' = [pc EXCEPT ![r] = IF candidates[r] = {} THEN "done" ELSE "pick"]
            /\ UNCHANGED fresh  \* after the last device: rejected, 429
    /\ UNCHANGED <<deviceVars, online, limit, unlisted, candidates, target, bound,
                   disturbed, leaked, unrepaired>>

\* The script ran but its reply is lost, or it did not run: 503, no release.
AcquireFails(r) ==
    /\ Faults
    /\ pc[r] = "acquire"
    /\ pc' = [pc EXCEPT ![r] = "done"]
    /\ \/ UNCHANGED <<count, leaked>>
       \/ /\ HasRoom(r)
          /\ count' = Counted(r)
          /\ leaked' = [leaked EXCEPT ![target[r]] = @ + 1]
    /\ UNCHANGED <<deviceVars, online, limit, unlisted, candidates, target, bound,
                   fresh, disturbed, unrepaired>>

\* The script ran, its reply is lost and it is sent again.
AcquireSentAgain(r) ==
    /\ Faults
    /\ pc[r] = "acquire"
    /\ HasRoom(r)
    /\ count' = Counted(r)
    /\ leaked' = [leaked EXCEPT ![target[r]] = @ + 1]
    /\ UNCHANGED <<deviceVars, online, limit, callVars, fresh, disturbed, unrepaired>>

\* A selection command rejects before a slot is asked for.
SelectionFails(r) ==
    /\ Faults
    /\ pc[r] \in {"list", "pick"}
    /\ pc' = [pc EXCEPT ![r] = "done"]
    /\ UNCHANGED <<deviceVars, online, limit, count, unlisted, candidates, target,
                   bound, history>>

\* DECR, on a slot that the caller took in this period or in an earlier one.
Decremented(r) ==
    /\ count' = [count EXCEPT ![target[r]] = @ - 1]
    /\ fresh' = fresh \ {r}
    /\ disturbed' = IF r \in fresh THEN disturbed ELSE disturbed \cup {target[r]}

\* Slip: the count is left negative.
DoneAfterDecr(r) == "done"

AfterDecr(r) == IF count[target[r]] - 1 < 0 THEN "zero" ELSE "done"

\* The finally of invoke, however the call ended.
Release(r) ==
    /\ pc[r] \in {"held", "again"}
    /\ Decremented(r)
    /\ pc' = [pc EXCEPT ![r] = AfterDecr(r)]
    /\ UNCHANGED <<deviceVars, online, limit, unlisted, candidates, target, bound,
                   leaked, unrepaired>>

\* The DECR ran, its reply is lost and it is sent again (once: a bound).
ReleaseSentAgain(r) ==
    /\ Faults
    /\ pc[r] = "held"
    /\ Decremented(r)
    /\ pc' = [pc EXCEPT ![r] = "again"]
    /\ UNCHANGED <<deviceVars, online, limit, unlisted, candidates, target, bound,
                   leaked, unrepaired>>

\* SET device:inflight 0, whatever was counted since the DECR.
SetZero(r) ==
    /\ pc[r] = "zero"
    /\ count' = CountDeleted(target[r])
    /\ disturbed' = disturbed \cup {target[r]}
    /\ unrepaired' = unrepaired \ {target[r]}
    /\ leaked' = [leaked EXCEPT ![target[r]] = 0]
    /\ \E s \in Onward("zero", "done") : pc' = [pc EXCEPT ![r] = s]
    /\ UNCHANGED <<deviceVars, online, limit, unlisted, candidates, target, bound,
                   fresh>>

\* A command of the release rejects, applied or not, or the process is gone.
ReleaseFails(r) ==
    /\ Faults
    /\ \/ /\ pc[r] \in {"held", "again"}
          /\ Decremented(r)
          /\ unrepaired' = unrepaired \cup {target[r]}
          /\ UNCHANGED leaked
       \/ /\ pc[r] = "held"
          /\ leaked' = [leaked EXCEPT ![target[r]] = @ + 1]
          /\ fresh' = fresh \ {r}
          /\ UNCHANGED <<count, disturbed, unrepaired>>
       \/ /\ pc[r] \in {"again", "zero"}
          /\ unrepaired' = unrepaired \cup {target[r]}
          /\ UNCHANGED <<count, leaked, fresh, disturbed>>
    /\ pc' = [pc EXCEPT ![r] = "done"]
    /\ UNCHANGED <<deviceVars, online, limit, unlisted, candidates, target, bound>>

-----------------------------------------------------------------------------
Device(d) ==
    \/ Appear(d) \/ SetMaxInFlight(d) \/ ResetInFlight(d) \/ RegistrationFails(d)
    \/ Heartbeat(d) \/ KeyExpires(d)
    \/ Disappear(d) \/ DropLimit(d) \/ DropCount(d) \/ CleanUpFails(d)

Call(r) ==
    \/ RequestAny(r)
    \/ \E d \in Devices : Request(r, d) \/ LookUp(r, d) \/ ReadLimit(r, d)
    \/ Acquire(r) \/ AcquireFails(r) \/ AcquireSentAgain(r) \/ SelectionFails(r)
    \/ Release(r) \/ ReleaseSentAgain(r) \/ SetZero(r) \/ ReleaseFails(r)

Next == (\E d \in Devices : Device(d)) \/ (\E r \in Calls : Call(r))

Spec == Init /\ [][Next]_vars

-----------------------------------------------------------------------------
(* Correctness.                                                             *)

\* A device is never counted busier than it is, beyond the slots that failures
\* leaked since its last connection: that reset bounds a leak to one session
\* (presence.service.ts:86), and no path through selection, reset and release
\* takes a slot nobody gives back.
NoPhantomLoad ==
    \A d \in Devices : count[d] <= Cardinality(Holding(d)) + leaked[d]

\* A negative count, which would hand out slots above the limit, is about to be
\* written back to 0 by the release that made it (presence.service.ts:103), even
\* one whose DECR runs twice, unless that release was cut short.
NegativeIsRepaired ==
    \A d \in Devices :
        count[d] < 0 =>
            \/ d \in unrepaired
            \/ \E r \in Calls : pc[r] \in {"again", "zero"} /\ target[r] = d

Running(d) == fresh \cap Holding(d)

\* Between two resets, as long as nobody who took his slot before the last one
\* touches the count, a device never runs more calls than it declared, provided
\* they all read its declaration.
CapacityHeld ==
    \A d \in Devices \ disturbed :
        (\A r \in Running(d) : bound[r] <= capacity[d]) =>
            Cardinality(Running(d)) <= capacity[d]

\* maxInFlight is the number of Actions a device runs at once, enforced by the
\* atomic slots (backend/README.md:158-162): with a connected device whose calls
\* all read its declaration, never more of its session's calls are running.
CapacityDeclared ==
    \A d \in attached :
        up[d] = "idle" /\ (\A r \in Running(d) : bound[r] <= capacity[d]) =>
            Cardinality(Running(d)) <= capacity[d]

(* The inductive invariant behind the theorems of InFlightSlots_proofs.     *)

\* A call that asks for a slot, holds one or repairs a count has a device.
TargetSet == \A r \in Calls : pc[r] \in {"acquire", "held", "again", "zero"} => target[r] # None

\* A slot is taken in this period only as long as it is held.
FreshHeld == \A r \in fresh : pc[r] = "held"

SlotInv == TypeOK /\ TargetSet /\ FreshHeld /\ NegativeIsRepaired

\* As long as a device is undisturbed its session's calls are all counted, and among
\* any of them the last to come found room for all.
RunningCounted ==
    \A d \in Devices \ disturbed :
        /\ Cardinality(Running(d)) <= count[d]
        /\ \A S \in SUBSET Running(d) :
               S # {} => \E r \in S : Cardinality(S) <= bound[r]

LoadInv == SlotInv /\ NoPhantomLoad /\ RunningCounted

=============================================================================
