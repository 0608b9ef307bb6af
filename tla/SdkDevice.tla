----------------------------- MODULE SdkDevice -----------------------------
(***************************************************************************)
(* R2RpcDevice of the JavaScript SDK: one device object, the WebSockets it *)
(* creates one after the other, its timers, and the jobs it executes.      *)
(*                                                                         *)
(* Handlers run to completion on the event loop, except that setState and  *)
(* reportError call back into the application, which may call stop(), and  *)
(* start() again, while the handler that called it still has something to  *)
(* do: "rest".  Callbacks, the socket factory and new URL do not throw.    *)
(* Sockets are renamed: a closed one that is not the current one may stand *)
(* for the next one, and a job that came with it keeps no socket.  Delays  *)
(* are left out: a timer that is armed may fire.                           *)
(***************************************************************************)
EXTENDS Naturals, FiniteSets

CONSTANTS
    Sockets,   \* WebSockets that exist at the same time: a bound
    Jobs,      \* jobs the server hands out, each once: a bound
    MaxTimers, \* reconnect timers armed at the same time: a bound
    None

ASSUME SdkDeviceConstants ==
    /\ None \notin Sockets
    /\ Sockets # {}
    /\ MaxTimers \in Nat \ {0}
    /\ IsFiniteSet(Jobs)

VARIABLES
    state,       \* connectionState
    shouldRun,
    socket,      \* this.webSocket
    sock,        \* sock[s]: the WebSocket itself
    timers,      \* reconnect timers that are armed
    tracked,     \* whether this.reconnectTimer is one of them
    heartbeat,   \* whether this.heartbeatTimer is armed
    rest,        \* what the handler interrupted by a callback still does
    again,       \* where a start() out of such a callback stands
    interrupted, \* whether a stop() out of such a callback may have left something
    job,         \* job[j]: where job j stands
    via          \* via[j]: the socket j came with, until it is closed

connVars == <<state, shouldRun, socket, sock, timers, tracked, heartbeat, rest,
              again, interrupted>>
vars == <<connVars, job, via>>

-----------------------------------------------------------------------------
Live == {"connecting", "open", "closing"}

TypeOK ==
    /\ state \in {"idle", "connecting", "reconnecting", "online", "stopped"}
    /\ shouldRun \in BOOLEAN
    /\ socket \in Sockets \cup {None}
    /\ sock \in [Sockets -> {"unused", "closed"} \cup Live]
    /\ timers \in 0..MaxTimers
    /\ tracked \in BOOLEAN
    /\ heartbeat \in BOOLEAN
    /\ rest \in {"none", "open", "timer", "heartbeat", "close"}
    /\ again \in {"no", "open", "done"}
    /\ interrupted \in BOOLEAN
    /\ job \in [Jobs -> {"new", "running", "late", "answered", "dropped"}]
    /\ via \in [Jobs -> Sockets \cup {None}]

Init ==
    /\ state = "idle"
    /\ shouldRun = FALSE
    /\ socket = None
    /\ sock = [s \in Sockets |-> "unused"]
    /\ timers = 0 /\ tracked = FALSE
    /\ heartbeat = FALSE
    /\ rest = "none" /\ again = "no"
    /\ interrupted = FALSE
    /\ job = [j \in Jobs |-> "new"]
    /\ via = [j \in Jobs |-> None]

-----------------------------------------------------------------------------
(* start and stop.                                                          *)

Idle == rest = "none"

\* A bound: one more socket has a name.
Room == \E s \in Sockets : sock[s] = "unused"

RoomForTwo == \E s, t \in Sockets : s # t /\ sock[s] = "unused" /\ sock[t] = "unused"

Start ==
    /\ Idle
    /\ Room
    /\ ~shouldRun
    /\ shouldRun' = TRUE
    /\ state' = "connecting"
    /\ rest' = "open"
    /\ UNCHANGED <<socket, sock, timers, tracked, heartbeat, again,
                   interrupted, job, via>>

\* start() out of a callback of an unfinished handler, which goes on afterwards.
\* A bound: once per handler.
StartAgain ==
    /\ ~Idle
    /\ again = "no"
    /\ IF rest = "open" THEN RoomForTwo ELSE Room
    /\ ~shouldRun
    /\ shouldRun' = TRUE
    /\ state' = "connecting"
    /\ again' = "open"
    /\ UNCHANGED <<socket, sock, timers, tracked, heartbeat, rest, interrupted,
                   job, via>>

\* clearTimers knows the timer it was armed with last.
ClearTimers ==
    /\ heartbeat' = FALSE
    /\ timers' = IF tracked THEN timers - 1 ELSE timers
    /\ tracked' = FALSE

\* close() on the current socket, if there is one.
CloseCurrent == sock' = [s \in Sockets |-> IF s = socket THEN "closing" ELSE sock[s]]

\* Whether an interrupted handler has left something a stop() does not reach.
LeftBehind == timers > 0 \/ \E s \in Sockets : sock[s] \in {"connecting", "open"}

\* Called between two handlers, or by a callback of an unfinished one.
Stop ==
    /\ Idle \/ timers + 1 < MaxTimers
    /\ shouldRun' = FALSE
    /\ ClearTimers
    /\ CloseCurrent
    /\ socket' = None
    /\ state' = "stopped"
    /\ interrupted' = IF Idle THEN interrupted /\ LeftBehind' ELSE TRUE
    /\ UNCHANGED <<rest, again, job, via>>

-----------------------------------------------------------------------------
(* What is left to do after a callback has returned: first the start() it   *)
(* called, then the handler's own rest.                                     *)

HandlerEnds == rest' = "none" /\ again' = "no"

\* Slip: the socket is not kept.
CreateUnkept(s) ==
    /\ rest = "open" \/ again = "open"
    /\ sock[s] = "unused"
    /\ sock' = [sock EXCEPT ![s] = "connecting"]
    /\ IF again = "open" THEN again' = "done" /\ UNCHANGED rest ELSE HandlerEnds
    /\ UNCHANGED <<state, shouldRun, socket, timers, tracked, heartbeat, interrupted,
                   job, via>>

\* openConnection creates the socket and takes it for the current one.
CreateSocket(s) ==
    /\ rest = "open" \/ again = "open"
    /\ sock[s] = "unused"
    /\ sock' = [sock EXCEPT ![s] = "connecting"]
    /\ socket' = s
    /\ IF again = "open" THEN again' = "done" /\ UNCHANGED rest ELSE HandlerEnds
    /\ UNCHANGED <<state, shouldRun, timers, tracked, heartbeat, interrupted,
                   job, via>>

ArmTimer ==
    /\ rest = "timer" /\ again # "open"
    /\ timers' = timers + 1
    /\ tracked' = TRUE
    /\ HandlerEnds
    /\ UNCHANGED <<state, shouldRun, socket, sock, heartbeat, interrupted, job,
                   via>>

\* Slip: an armed heartbeat is cleared and no new one armed.
ToggleHeartbeat ==
    /\ rest = "heartbeat" /\ again # "open"
    /\ heartbeat' = ~heartbeat
    /\ HandlerEnds
    /\ UNCHANGED <<state, shouldRun, socket, sock, timers, tracked,
                   interrupted, job, via>>

StartHeartbeat ==
    /\ rest = "heartbeat" /\ again # "open"
    /\ heartbeat' = TRUE
    /\ HandlerEnds
    /\ UNCHANGED <<state, shouldRun, socket, sock, timers, tracked,
                   interrupted, job, via>>

\* The second half of handleWelcome's refusal: by now the current socket may be
\* another one, or none.
CloseMismatched ==
    /\ rest = "close" /\ again # "open"
    /\ CloseCurrent
    /\ HandlerEnds
    /\ UNCHANGED <<state, shouldRun, socket, timers, tracked, heartbeat, interrupted,
                   job, via>>

\* Slip: the timer fires without opening a connection.
TimerInVain ==
    /\ Idle
    /\ Room
    /\ timers > 0
    /\ timers' = timers - 1
    /\ tracked' = FALSE \/ (timers > 1 /\ tracked' = tracked)
    /\ UNCHANGED <<state, shouldRun, socket, sock, heartbeat, rest, again,
                   interrupted, job, via>>

\* A timer fires, whether or not the device is still meant to run.
TimerFires ==
    /\ Idle
    /\ Room
    /\ timers > 0
    /\ timers' = timers - 1
    /\ tracked' = FALSE \/ (timers > 1 /\ tracked' = tracked)
    /\ state' = "reconnecting"
    /\ rest' = "open"
    /\ UNCHANGED <<shouldRun, socket, sock, heartbeat, again, interrupted, job,
                   via>>

-----------------------------------------------------------------------------
(* Events of a socket.                                                      *)

Opens(s) ==
    /\ Idle
    /\ sock[s] = "connecting"
    /\ sock' = [sock EXCEPT ![s] = "open"]
    /\ UNCHANGED <<state, shouldRun, socket, timers, tracked, heartbeat, rest,
                   again, interrupted, job, via>>

\* handleMessage drops what comes over another socket than the current one.
Welcome(s) ==
    /\ Idle
    /\ sock[s] \in {"open", "closing"}
    /\ s = socket
    /\ state' = "online"
    /\ rest' = "heartbeat"
    /\ UNCHANGED <<shouldRun, socket, sock, timers, tracked, heartbeat, again,
                   interrupted, job, via>>

\* The server takes the device for another one: reportError, then the close.
WrongWelcome(s) ==
    /\ Idle
    /\ sock[s] \in {"open", "closing"}
    /\ s = socket
    /\ rest' = "close"
    /\ UNCHANGED <<state, shouldRun, socket, sock, timers, tracked, heartbeat, again,
                   interrupted, job, via>>

\* Slip: the close of any socket counts.
AnySocket(s) == TRUE

Current(s) == s = socket

\* Slip: a lost connection is replaced whether or not the device is meant to run.
ReconnectsAnyway(s, code) ==
    /\ Idle
    /\ sock[s] \in Live
    /\ s = socket
    /\ sock' = [sock EXCEPT ![s] = "closed"]
    /\ socket' = None
    /\ heartbeat' = FALSE
    /\ state' = "reconnecting"
    /\ rest' = "timer"
    /\ UNCHANGED <<shouldRun, timers, tracked, again, interrupted, job, via>>

\* handleClose: the end of a former socket means nothing.
Closed(s, code) ==
    /\ Idle
    /\ sock[s] \in Live
    /\ sock' = [sock EXCEPT ![s] = "closed"]
    /\ IF Current(s)
       THEN /\ socket' = None
            /\ heartbeat' = FALSE
            /\ IF shouldRun /\ code # "unauthorized"
               THEN /\ state' = "reconnecting"
                    /\ rest' = "timer"
                    /\ UNCHANGED shouldRun
               ELSE /\ state' = "stopped"
                    /\ shouldRun' = FALSE
                    /\ UNCHANGED rest
       ELSE UNCHANGED <<socket, heartbeat, state, shouldRun, rest>>
    /\ UNCHANGED <<timers, tracked, again, interrupted, job, via>>

\* The name of a closed socket is used again; to a running job that came with
\* it a closed socket is as good as none.
Recycle(s) ==
    /\ sock[s] = "closed"
    /\ s # socket
    /\ sock' = [sock EXCEPT ![s] = "unused"]
    /\ via' = [j \in Jobs |-> IF via[j] = s THEN None ELSE via[j]]
    /\ UNCHANGED <<state, shouldRun, socket, timers, tracked, heartbeat, rest,
                   again, interrupted, job>>

-----------------------------------------------------------------------------
(* Jobs.                                                                    *)

\* send: only to a socket that is open.
Answer(j) ==
    LET heard == via[j] # None /\ sock[via[j]] = "open"
    IN  job' = [job EXCEPT ![j] = IF heard THEN "answered" ELSE "dropped"]

\* A job past its deadline, or without a handler, is answered at once.
ReceiveJob(s, j, runs) ==
    /\ Idle
    /\ job[j] = "new"
    /\ sock[s] \in {"open", "closing"}
    /\ s = socket
    /\ job' = [job EXCEPT ![j] = IF runs THEN "running"
                                 ELSE IF sock[s] = "open" THEN "answered" ELSE "dropped"]
    /\ via' = [via EXCEPT ![j] = IF runs THEN s ELSE None]
    /\ UNCHANGED connVars

\* The promise of executeWithTimeout is settled once: by the handler ...
HandlerReturns(j) ==
    /\ Idle
    /\ job[j] = "running"
    /\ Answer(j)
    /\ via' = [via EXCEPT ![j] = None]
    /\ UNCHANGED connVars

\* Slip: the timeout only marks the job.
GiveUp(j) == job' = [job EXCEPT ![j] = "late"] /\ UNCHANGED via

AnswerTimeout(j) == Answer(j) /\ via' = [via EXCEPT ![j] = None]

\* ... or by its timer; what the handler returns later is ignored.
HandlerTimesOut(j) ==
    /\ Idle
    /\ job[j] = "running"
    /\ AnswerTimeout(j)
    /\ UNCHANGED connVars

-----------------------------------------------------------------------------
Resume ==
    \/ \E s \in Sockets : CreateSocket(s)
    \/ ArmTimer \/ StartHeartbeat \/ CloseMismatched

Next ==
    \/ Start \/ StartAgain \/ Stop \/ Resume \/ TimerFires
    \/ \E s \in Sockets :
          \/ Opens(s) \/ Welcome(s) \/ WrongWelcome(s) \/ Recycle(s)
          \/ \E code \in {"unauthorized", "other"} : Closed(s, code)
          \/ \E j \in Jobs, runs \in BOOLEAN : ReceiveJob(s, j, runs)
    \/ \E j \in Jobs : HandlerReturns(j) \/ HandlerTimesOut(j)

\* The close of a socket the device has closed or given up: the closing handshake
\* has a timeout, and the server drops what does not beat or has been taken over.
FormerCloses(s) == s # socket /\ Closed(s, "other")

\* An interrupted handler goes on, an armed timer fires, a former socket ends.
\* The fairness is strong because an unfinished handler disables the events of the
\* loop for a moment without putting off those that are due.
LoopFair == WF_vars(Resume) /\ SF_vars(TimerFires)
SocketFair(s) == WF_vars(Recycle(s)) /\ SF_vars(FormerCloses(s))
JobFair(j) == SF_vars(HandlerTimesOut(j))

Fairness ==
    /\ LoopFair
    /\ \A s \in Sockets : SocketFair(s)
    /\ \A j \in Jobs : JobFair(j)

Spec == Init /\ [][Next]_vars
FairSpec == Spec /\ Fairness

-----------------------------------------------------------------------------
(* Properties.                                                              *)

\* A device that is meant to run always has what carries it on: a current socket
\* whose end it will hear of, or an armed timer (handleClose, scheduleReconnect).
Lifeline ==
    shouldRun /\ Idle =>
        \/ timers > 0
        \/ socket # None /\ sock[socket] \in Live

\* Between two handlers an online device has a current socket and beats on it; the
\* server closes those that do not (handleWelcome, handleClose).
OnlineBeats ==
    state = "online" /\ Idle => heartbeat /\ socket # None

\* What a device still has to go through before it has no connection and makes no
\* attempt at one; each timer, attempt and connection weighs more than what it
\* turns into.
LeftToDo ==
    3 * timers
      + (CASE rest = "timer" -> 4 [] rest = "open" -> 2 [] OTHER -> 0)
      + (IF again = "open" THEN 2 ELSE 0)
      + (IF socket # None THEN 1 ELSE 0)

\* A device that is not meant to run only winds down, also when stop() came out of a
\* callback and the handler went on to open a socket or arm a timer: no step of it
\* adds an attempt, and the end of what it has left is not followed by another
\* (handleClose, scheduleReconnect).
StoppedWindsDown == [][~shouldRun /\ ~shouldRun' => LeftToDo' <= LeftToDo]_vars

\* What the SDK design says of stop, that it stops the connection
\* (2026-07-24-device-sdks-design.md:70).  It is no invariant: SdkDevice_stop.cfg has
\* TLC show a stop() out of onStateChange whose handler then opens a socket.
StopsConnection ==
    ~shouldRun /\ Idle =>
        timers = 0 /\ \A s \in Sockets : sock[s] \notin {"connecting", "open"}

\* A device never keeps a second connection, whose messages it would ignore,
\* except after a stop() out of a callback, until a later stop() finds nothing left.
OneConnection ==
    \A s \in Sockets \ {socket} :
        sock[s] \in {"connecting", "open"} => interrupted

\* A device that has lost its connection makes another attempt, or is stopped
\* (scheduleReconnect).
TriesAgain ==
    (shouldRun /\ socket = None) ~> (socket # None \/ ~shouldRun)

\* Every job whose handler was started comes to an end, whatever the handler does
\* (executeWithTimeout).
JobsEnd == \A j \in Jobs : (job[j] = "running") ~> (job[j] \in {"answered", "dropped"})

\* The sockets an unfinished handler is about to create have names.
RoomKept ==
    /\ rest = "open" \/ again = "open" => Room
    /\ rest = "open" /\ again = "open" => RoomForTwo

\* What the prover cannot see: the guards of the fair actions enable them.  It
\* follows from the definitions and says nothing of the code; the theorems about
\* liveness take it as a hypothesis.
DueCanRun ==
    /\ ~Idle /\ RoomKept => ENABLED <<Resume>>_vars
    /\ Idle /\ Room /\ timers > 0 => ENABLED <<TimerFires>>_vars
    /\ \A s \in Sockets \ {socket} :
          /\ sock[s] = "closed" => ENABLED <<Recycle(s)>>_vars
          /\ Idle /\ sock[s] \in Live => ENABLED <<FormerCloses(s)>>_vars
    /\ \A j \in Jobs :
          Idle /\ job[j] = "running" => ENABLED <<HandlerTimesOut(j)>>_vars

-----------------------------------------------------------------------------
(* What the invariants rest on.                                             *)

\* The fields agree with each other and with the timers.
FieldsAgree ==
    /\ tracked => timers > 0
    /\ socket # None => sock[socket] \in Live
    /\ again # "no" => ~Idle
    /\ state = "online" => rest \in {"none", "heartbeat", "close"}

\* Timers this.reconnectTimer no longer knows come from interrupted handlers only;
\* Stop leaves them room.
TimersBounded ==
    /\ ~tracked \/ socket # None \/ rest # "none" \/ ~shouldRun => timers < MaxTimers
    /\ rest = "timer" /\ (~shouldRun \/ again = "open" \/ socket # None) =>
           timers + 1 < MaxTimers

\* Between handlers and in an unfinished one, something carries the device on.
CarriedOn ==
    shouldRun => \/ timers > 0
                 \/ socket # None
                 \/ rest \in {"open", "timer"}
                 \/ again = "open"

BeatsSoon == state = "online" => socket # None /\ (heartbeat \/ rest = "heartbeat")

\* As long as no callback has stopped the device it has one of: a connection, a
\* timer, a handler that is about to provide them, or nothing at all.
OneThing ==
    ~interrupted =>
        /\ tracked <=> timers > 0
        /\ timers <= 1
        /\ socket = None \/ timers = 0
        /\ rest \in {"open", "timer"} => socket = None /\ timers = 0
        /\ again = "no"
        /\ ~shouldRun => timers = 0 /\ ~heartbeat /\ socket = None /\ rest = "none"
        /\ \A s \in Sockets \ {socket} : sock[s] \notin {"connecting", "open"}

DeviceInv ==
    TypeOK /\ FieldsAgree /\ TimersBounded /\ CarriedOn /\ BeatsSoon /\ OneThing
=============================================================================
